-------------------------------- MODULE Session --------------------------------
(***************************************************************************)
(* WebSocket clients: go-feed/internal/session (client.go, manager.go,     *)
(* handler.go).  Each connection has a readPump and a writePump goroutine; *)
(* the runner of each symbol calls Manager.Broadcast.                      *)
(*                                                                         *)
(* A Client is identified with its connection: a peer that comes back is   *)
(* another member of Clients.  Payloads are numbers: Broadcast number n of *)
(* a symbol.  A frame in a send channel keeps the encoding it was made     *)
(* with; writePump picks the WebSocket frame type when it writes.          *)
(***************************************************************************)
EXTENDS Integers, Sequences, FiniteSets, FiniteSetsExt, SequencesExt

CONSTANTS
    Clients,        \* connections
    Symbols,        \* symbols, each with a runner
    BufferSize,     \* capacity of a client's sendCh
    MaxBatch,       \* messages in one call of Broadcast
    MaxMessages,    \* bound: messages broadcast, over all symbols
    MaxControls     \* bound: control messages, over all clients

ASSUME SessionAssumption ==
    /\ "none" \notin Clients
    /\ IsFiniteSet(Symbols)
    /\ BufferSize \in Nat \ {0}
    /\ MaxBatch \in Nat \ {0}
    /\ MaxMessages \in Nat
    /\ MaxControls \in Nat

VARIABLES
    conn,           \* connection: none, open, broken (the peer is gone), closed
    clients,        \* Manager.clients
    done,           \* Client.done is closed
    format,         \* Client.format
    symbols,        \* Client.symbols
    allSymbols,     \* Client.allSymbols
    sendCh,         \* Client.sendCh: sequence of frames
    reader,         \* readPump: off, reading, directory, leaving, closing, ended
    directory,      \* symbols whose directory SendToClient has still to send
    writer,         \* writePump: off, waiting, writing, ended
    frame,          \* the frame writePump has taken from sendCh
    cast,           \* symbol -> state of its Broadcast
    sent,           \* symbol -> messages broadcast so far
    wire,           \* history: client -> symbol -> last message number written
    controls        \* history: client -> the kinds of its control messages so far

vars == <<conn, clients, done, format, symbols, allSymbols, sendCh, reader, directory,
          writer, frame, cast, sent, wire, controls>>

Formats == {"json", "binary"}

\* A frame: message n of a symbol, or (n = 0) its stock_directory.
Frame   == [sym : Symbols, n : Nat, enc : Formats]

\* A Broadcast: idle, or for the clients in todo; at is the client it is
\* with, enc its format once read, next the message of first..last it sends
\* next.
IdleCast == [busy |-> FALSE, todo |-> {}, at |-> "none", enc |-> "none",
             first |-> 0, next |-> 0, last |-> 0]

-----------------------------------------------------------------------------

Init ==
    /\ conn = [c \in Clients |-> "none"]
    /\ clients = {}
    /\ done = [c \in Clients |-> FALSE]
    /\ format = [c \in Clients |-> "json"]
    /\ symbols = [c \in Clients |-> {}]
    /\ allSymbols = [c \in Clients |-> FALSE]
    /\ sendCh = [c \in Clients |-> <<>>]
    /\ reader = [c \in Clients |-> "off"]
    /\ directory = [c \in Clients |-> <<>>]
    /\ writer = [c \in Clients |-> "off"]
    /\ frame = [c \in Clients |-> <<>>]
    /\ cast = [s \in Symbols |-> IdleCast]
    /\ sent = [s \in Symbols |-> 0]
    /\ wire = [c \in Clients |-> [s \in Symbols |-> 0]]
    /\ controls = [c \in Clients |-> <<>>]

\* Broadcast holds Manager.mu for reading, Register and Unregister take it
\* for writing, and a goroutine that waits for writing keeps new readers out.
ReadLocked == \E s \in Symbols : cast[s].busy
WriteWaits == \E c \in Clients : reader[c] = "leaving"

\* Mutant: a full buffer grows.
SendUnbounded(c, f) == sendCh' = [sendCh EXCEPT ![c] = Append(@, f)]

\* Client.Send: a full buffer drops the frame.
Send(c, f) ==
    sendCh' = IF Len(sendCh[c]) < BufferSize
              THEN [sendCh EXCEPT ![c] = Append(@, f)]
              ELSE sendCh

\* Client.Close, by whoever is first.
Close(c) ==
    /\ done' = [done EXCEPT ![c] = TRUE]
    /\ conn' = [conn EXCEPT ![c] = "closed"]

\* Handler: upgrade, Register, and the two pumps.
Register(c) ==
    /\ conn[c] = "none" /\ ~ReadLocked
    /\ conn' = [conn EXCEPT ![c] = "open"]
    /\ clients' = clients \cup {c}
    /\ reader' = [reader EXCEPT ![c] = "reading"]
    /\ writer' = [writer EXCEPT ![c] = "waiting"]
    /\ UNCHANGED <<done, format, symbols, allSymbols, sendCh, directory, frame, cast, sent,
                   wire, controls>>

\* The peer closes the connection or vanishes.
PeerGone(c) ==
    /\ conn[c] = "open"
    /\ conn' = [conn EXCEPT ![c] = "broken"]
    /\ UNCHANGED <<clients, done, format, symbols, allSymbols, sendCh, reader, directory, writer,
                   frame, cast, sent, wire, controls>>

-----------------------------------------------------------------------------
(* readPump.                                                               *)

\* How many control messages there were, over all clients.
ControlCount == MapThenSumSet(LAMBDA c : Len(controls[c]), Clients)

\* ReadMessage has returned a control message.
Control(c, kind) ==
    /\ reader[c] = "reading" /\ conn[c] = "open" /\ ControlCount < MaxControls
    /\ controls' = [controls EXCEPT ![c] = Append(@, kind)]

readFrame == <<conn, clients, done, sendCh, writer, frame, cast, sent, wire>>

\* handleControl, "subscribe": the subscription, then sendStockDirectory for
\* the symbols of the message in the order of the symbol table.
Subscribe(c) ==
    /\ Control(c, "subscribe")
    /\ \E S \in (SUBSET Symbols) \ {{}}, all \in BOOLEAN :
           /\ symbols' = IF all THEN symbols ELSE [symbols EXCEPT ![c] = @ \cup S]
           /\ allSymbols' = [allSymbols EXCEPT ![c] = @ \/ all]
           /\ \E order \in SetToSeqs(IF all THEN Symbols ELSE S) :
                  directory' = [directory EXCEPT ![c] = order]
    /\ reader' = [reader EXCEPT ![c] = "directory"]
    /\ UNCHANGED <<readFrame, format>>

\* "unsubscribe"; with "*" among the symbols ResolveTickers returns none and
\* nothing happens.  allSymbols stays as it is.
Unsubscribe(c) ==
    /\ Control(c, "unsubscribe")
    /\ \E S \in (SUBSET Symbols) \ {{}} : symbols' = [symbols EXCEPT ![c] = @ \ S]
    /\ UNCHANGED <<readFrame, format, allSymbols, directory, reader>>

\* "format".
SetFormat(c) ==
    /\ Control(c, "format")
    /\ \E f \in Formats : format' = [format EXCEPT ![c] = f]
    /\ UNCHANGED <<readFrame, symbols, allSymbols, directory, reader>>

\* Mutant: the directory waits for room in the buffer.
SendToClientBlocks(c) ==
    /\ reader[c] = "directory" /\ Len(sendCh[c]) < BufferSize
    /\ Send(c, [sym |-> Head(directory[c]), n |-> 0, enc |-> format[c]])
    /\ directory' = [directory EXCEPT ![c] = Tail(@)]
    /\ reader' = [reader EXCEPT ![c] = IF Len(directory[c]) = 1 THEN "reading" ELSE "directory"]
    /\ UNCHANGED <<conn, clients, done, format, symbols, allSymbols, writer, frame, cast, sent,
                   wire, controls>>

\* SendToClient: message by message, in the format, which only this goroutine
\* sets.
SendToClient(c) ==
    /\ reader[c] = "directory"
    /\ Send(c, [sym |-> Head(directory[c]), n |-> 0, enc |-> format[c]])
    /\ directory' = [directory EXCEPT ![c] = Tail(@)]
    /\ reader' = [reader EXCEPT ![c] = IF Len(directory[c]) = 1 THEN "reading" ELSE "directory"]
    /\ UNCHANGED <<conn, clients, done, format, symbols, allSymbols, writer, frame, cast, sent,
                   wire, controls>>

\* ReadMessage fails: the peer is gone (at the latest when the deadline that
\* pongs extend has passed) or writePump has closed the connection.  The
\* deferred Unregister asks for the lock.
ReadFails(c) ==
    /\ reader[c] = "reading" /\ conn[c] \in {"broken", "closed"}
    /\ reader' = [reader EXCEPT ![c] = "leaving"]
    /\ UNCHANGED <<readFrame, format, symbols, allSymbols, directory, controls>>

\* Mutant: the client leaves the map without the lock.
UnregisterUnlocked(c) ==
    /\ reader[c] = "leaving"
    /\ clients' = clients \ {c}
    /\ Close(c)
    /\ reader' = [reader EXCEPT ![c] = "ended"]
    /\ UNCHANGED <<format, symbols, allSymbols, sendCh, directory, writer, frame, cast, sent,
                   wire, controls>>

\* Unregister: out of the map under the lock, then Close without it.
Unregister(c) ==
    /\ \/ /\ reader[c] = "leaving" /\ ~ReadLocked
          /\ clients' = clients \ {c}
          /\ reader' = [reader EXCEPT ![c] = "closing"]
          /\ UNCHANGED <<conn, done>>
       \/ /\ reader[c] = "closing"
          /\ Close(c)
          /\ reader' = [reader EXCEPT ![c] = "ended"]
          /\ UNCHANGED clients
    /\ UNCHANGED <<format, symbols, allSymbols, sendCh, directory, writer, frame, cast, sent,
                   wire, controls>>

readPump(c) == Subscribe(c) \/ Unsubscribe(c) \/ SetFormat(c)
                  \/ SendToClient(c) \/ ReadFails(c) \/ Unregister(c)

-----------------------------------------------------------------------------
(* writePump.                                                              *)

writeFrame == <<clients, format, symbols, allSymbols, reader, directory, cast, sent, controls>>

\* The select takes a frame.
Take(c) ==
    /\ writer[c] = "waiting" /\ sendCh[c] # <<>>
    /\ frame' = [frame EXCEPT ![c] = <<Head(sendCh[c])>>]
    /\ sendCh' = [sendCh EXCEPT ![c] = Tail(@)]
    /\ writer' = [writer EXCEPT ![c] = "writing"]
    /\ UNCHANGED <<writeFrame, conn, done, wire>>

\* The frame is written, or the write fails and writePump ends with Close.
\* The frame type follows the format of now, whatever the frame's encoding.
Write(c) ==
    /\ writer[c] = "writing"
    /\ LET f == frame[c][1]
       IN  \/ /\ conn[c] = "open"
              /\ wire' = IF f.n = 0 THEN wire ELSE [wire EXCEPT ![c][f.sym] = f.n]
              /\ writer' = [writer EXCEPT ![c] = "waiting"]
              /\ UNCHANGED <<conn, done>>
           \/ /\ conn[c] \in {"broken", "closed"}
              /\ Close(c)
              /\ writer' = [writer EXCEPT ![c] = "ended"]
              /\ UNCHANGED wire
    /\ frame' = [frame EXCEPT ![c] = <<>>]
    /\ UNCHANGED <<writeFrame, sendCh>>

\* Mutant: writePump returns without Close.
StopWritingLeaks(c) ==
    /\ writer[c] = "waiting"
    /\ done[c] \/ conn[c] \in {"broken", "closed"}
    /\ writer' = [writer EXCEPT ![c] = "ended"]
    /\ UNCHANGED <<writeFrame, conn, done, sendCh, frame, wire>>

\* A ping fails, or done is closed: writePump returns.
StopWriting(c) ==
    /\ writer[c] = "waiting"
    /\ done[c] \/ conn[c] \in {"broken", "closed"}
    /\ Close(c)
    /\ writer' = [writer EXCEPT ![c] = "ended"]
    /\ UNCHANGED <<writeFrame, sendCh, frame, wire>>

writePump(c) == Take(c) \/ Write(c) \/ StopWriting(c)

-----------------------------------------------------------------------------
(* Broadcast.                                                              *)

castFrame == <<conn, clients, done, format, symbols, allSymbols, reader, directory, writer, frame,
               wire, controls>>

\* How many messages were broadcast, over all symbols.
MessageCount == MapThenSumSet(LAMBDA s : sent[s], Symbols)

\* A Step returned messages and Broadcast gets the read lock.
BroadcastBegin(s) ==
    /\ ~cast[s].busy /\ ~WriteWaits
    /\ \E k \in 1 .. MaxBatch :
           /\ MessageCount + k <= MaxMessages
           /\ cast' = [cast EXCEPT ![s] = [busy |-> TRUE, todo |-> clients, at |-> "none",
                           enc |-> "none", first |-> sent[s] + 1, next |-> sent[s] + 1,
                           last |-> sent[s] + k]]
           /\ sent' = [sent EXCEPT ![s] = @ + k]
    /\ UNCHANGED <<castFrame, sendCh>>

IsSubscribed(c, s) == allSymbols[c] \/ s \in symbols[c]

\* Mutant: a client is served again.
NextClientAgain(s) ==
    /\ cast[s].busy /\ cast[s].at = "none"
    /\ \E c \in cast[s].todo :
           cast' = [cast EXCEPT ![s].at = IF IsSubscribed(c, s) THEN c ELSE "none"]
    /\ UNCHANGED <<castFrame, sent, sendCh>>

\* The next client of the map: skipped unless it is subscribed.
NextClient(s) ==
    /\ cast[s].busy /\ cast[s].at = "none"
    /\ \E c \in cast[s].todo :
           cast' = [cast EXCEPT ![s].todo = @ \ {c},
                                ![s].at = IF IsSubscribed(c, s) THEN c ELSE "none"]
    /\ UNCHANGED <<castFrame, sent, sendCh>>

\* Mutant: the client's format is forgotten.
ReadFormatDefault(s) ==
    /\ cast[s].at # "none" /\ cast[s].enc = "none"
    /\ cast' = [cast EXCEPT ![s].enc = "json"]
    /\ UNCHANGED <<castFrame, sent, sendCh>>

\* Its format, which selects the encoding of the whole batch.
ReadFormat(s) ==
    /\ cast[s].at # "none" /\ cast[s].enc = "none"
    /\ cast' = [cast EXCEPT ![s].enc = format[cast[s].at]]
    /\ UNCHANGED <<castFrame, sent, sendCh>>

\* Mutant: Broadcast waits for room in the client's buffer.
SendNextBlocks(s) ==
    /\ cast[s].at # "none" /\ cast[s].enc # "none"
    /\ Len(sendCh[cast[s].at]) < BufferSize
    /\ Send(cast[s].at, [sym |-> s, n |-> cast[s].next, enc |-> cast[s].enc])
    /\ cast' = IF cast[s].next < cast[s].last
               THEN [cast EXCEPT ![s].next = @ + 1]
               ELSE [cast EXCEPT ![s].next = cast[s].first,
                                 ![s].at = "none", ![s].enc = "none"]
    /\ UNCHANGED <<castFrame, sent>>

\* One message of the batch; after the last one the next client's turn.
SendNext(s) ==
    /\ cast[s].at # "none" /\ cast[s].enc # "none"
    /\ Send(cast[s].at, [sym |-> s, n |-> cast[s].next, enc |-> cast[s].enc])
    /\ cast' = IF cast[s].next < cast[s].last
               THEN [cast EXCEPT ![s].next = @ + 1]
               ELSE [cast EXCEPT ![s].next = cast[s].first,
                                 ![s].at = "none", ![s].enc = "none"]
    /\ UNCHANGED <<castFrame, sent>>

\* All clients were served: the lock is released.
BroadcastEnd(s) ==
    /\ cast[s].busy /\ cast[s].at = "none" /\ cast[s].todo = {}
    /\ cast' = [cast EXCEPT ![s] = IdleCast]
    /\ UNCHANGED <<castFrame, sent, sendCh>>

Broadcast(s) == BroadcastBegin(s) \/ NextClient(s) \/ ReadFormat(s) \/ SendNext(s) \/ BroadcastEnd(s)

-----------------------------------------------------------------------------

Next ==
    \/ \E c \in Clients : Register(c) \/ PeerGone(c) \/ readPump(c) \/ writePump(c)
    \/ \E s \in Symbols : Broadcast(s)

Spec == Init /\ [][Next]_vars

\* The scheduler runs a goroutine that can run: a Broadcast that has begun
\* goes on, a pump whose read or write has failed goes on.  Nothing forces
\* a peer to read, to ask for anything or to leave.
BroadcastFairness ==
    \A s \in Symbols : WF_vars(NextClient(s) \/ ReadFormat(s) \/ SendNext(s) \/ BroadcastEnd(s))

PumpFairness ==
    \A c \in Clients : /\ WF_vars(SendToClient(c) \/ ReadFails(c) \/ Unregister(c))
                       /\ WF_vars(StopWriting(c) \/ (conn[c] # "open" /\ Write(c)))

FairSpec == Spec /\ BroadcastFairness /\ PumpFairness

-----------------------------------------------------------------------------
(* Properties.                                                             *)

\* Every variable has its type.
TypeOK ==
    /\ conn \in [Clients -> {"none", "open", "broken", "closed"}]
    /\ clients \subseteq Clients
    /\ done \in [Clients -> BOOLEAN]
    /\ format \in [Clients -> Formats]
    /\ symbols \in [Clients -> SUBSET Symbols]
    /\ allSymbols \in [Clients -> BOOLEAN]
    /\ sendCh \in [Clients -> Seq(Frame)]
    /\ \A c \in Clients : Len(sendCh[c]) <= BufferSize
    /\ reader \in [Clients -> {"off", "reading", "directory", "leaving", "closing", "ended"}]
    /\ directory \in [Clients -> Seq(Symbols)]
    /\ writer \in [Clients -> {"off", "waiting", "writing", "ended"}]
    /\ frame \in [Clients -> Seq(Frame)]
    /\ \A c \in Clients : Len(frame[c]) = IF writer[c] = "writing" THEN 1 ELSE 0
    /\ cast \in [Symbols -> [busy : BOOLEAN, todo : SUBSET Clients, at : Clients \cup {"none"},
                            enc : Formats \cup {"none"}, first : Nat, next : Nat, last : Nat]]
    /\ sent \in [Symbols -> Nat]
    /\ wire \in [Clients -> [Symbols -> Nat]]
    /\ controls \in [Clients -> Seq({"subscribe", "unsubscribe", "format"})]

\* The frames on their way to a client, oldest first, and the places of the
\* messages of a symbol among them.
Underway(c)  == frame[c] \o sendCh[c]
Places(c, s) == {i \in DOMAIN Underway(c) : Underway(c)[i].sym = s /\ Underway(c)[i].n # 0}

\* A client sees the messages of a symbol in the order they were produced,
\* none twice, whatever is dropped between: what is underway is increasing
\* and later than what is on the wire.
InOrder ==
    \A c \in Clients, s \in Symbols :
        /\ \A i \in Places(c, s) : Underway(c)[i].n \in wire[c][s] + 1 .. sent[s]
        /\ \A i, k \in Places(c, s) : i < k => Underway(c)[i].n < Underway(c)[k].n

\* Once Unregister has taken a client out of the map no Broadcast, not even
\* one that had begun before, puts a frame into its channel.
SilentAfterUnregister ==
    [][\A c \in Clients : reader[c] \in {"closing", "ended"} =>
            Len(sendCh'[c]) <= Len(sendCh[c])]_vars

\* Every registered client still has the readPump that will unregister it,
\* and a client whose pumps are both gone is closed and not registered.
NoZombies ==
    \A c \in Clients :
        /\ c \in clients <=> reader[c] \in {"reading", "directory", "leaving"}
        /\ writer[c] = "ended" => done[c] /\ conn[c] = "closed"

\* Two control messages are in this order.
Sends(c, first, then) ==
    \E i, k \in DOMAIN controls[c] : i < k /\ controls[c][i] = first /\ controls[c][k] = then

\* writePump picks the frame type by the format of the moment it writes, so a
\* frame made before a switch goes out under the wrong type.  A client that
\* asks for its format before it first subscribes, as the decoder does, is
\* safe: everything on its way to it is encoded as writePump will type it,
\* although a Broadcast reads subscription and format in two steps.
FramesTyped ==
    \A c \in Clients : ~Sends(c, "subscribe", "format") =>
        \A i \in DOMAIN Underway(c) : Underway(c)[i].enc = format[c]

\* A client that does not read never holds up a runner: a Broadcast that has
\* begun ends, although no write to a client need ever finish.
BroadcastReturns == \A s \in Symbols : cast[s].busy ~> ~cast[s].busy

\* A client whose peer is gone is unregistered and its pumps end.
GoneClientsLeave ==
    \A c \in Clients : (conn[c] = "broken") ~> (reader[c] = "ended" /\ writer[c] = "ended" /\ c \notin clients)
=============================================================================
