----------------------------- MODULE SessionProofs -----------------------------
(***************************************************************************)
(* For any number of clients, symbols and messages and any buffer size:    *)
(* types, the life of a connection, the order of the messages a client     *)
(* sees, the silence after Unregister and the type of its frames.  And     *)
(* what is in a frame, for any messages: the decoder takes it apart as the *)
(* encoder put it together, and reads what a JSON client is told.          *)
(***************************************************************************)
EXTENDS Session, Wire, SequenceTheorems, FiniteSetTheorems, WellFoundedInduction, TLAPS

-----------------------------------------------------------------------------
(* Types.                                                                  *)

\* sendStockDirectory has a symbol left while it runs.
DirectoryLeft == \A c \in Clients : reader[c] = "directory" => directory[c] # <<>>

\* The pumps start with the connection.
Unopened == \A c \in Clients : conn[c] = "none" => reader[c] = "off" /\ writer[c] = "off"

TypeInv == TypeOK /\ DirectoryLeft /\ Unopened

Casts == [busy : BOOLEAN, todo : SUBSET Clients, at : Clients \cup {"none"},
          enc : Formats \cup {"none"}, first : Nat, next : Nat, last : Nat]

\* A channel after Send.
LEMMA SendType ==
    ASSUME TypeOK, NEW c \in Clients, NEW f \in Frame, Send(c, f)
    PROVE  /\ sendCh' \in [Clients -> Seq(Frame)]
           /\ \A d \in Clients : Len(sendCh'[d]) <= BufferSize
<1>1. CASE Len(sendCh[c]) < BufferSize
  <2>1. sendCh' = [sendCh EXCEPT ![c] = Append(sendCh[c], f)]
    BY <1>1 DEF Send
  <2>2. sendCh[c] \in Seq(Frame) /\ Len(sendCh[c]) \in Nat /\ BufferSize \in Nat
    BY SessionAssumption DEF SessionAssumption, TypeOK
  <2>3. Append(sendCh[c], f) \in Seq(Frame) /\ Len(Append(sendCh[c], f)) = Len(sendCh[c]) + 1
    BY <2>2, AppendProperties
  <2> QED
    BY <1>1, <2>1, <2>2, <2>3 DEF TypeOK
<1>2. CASE ~(Len(sendCh[c]) < BufferSize)
  BY <1>2 DEF Send, TypeOK
<1> QED
  BY <1>1, <1>2

\* A connection after Close.
LEMMA CloseType ==
    ASSUME TypeOK, NEW c \in Clients, Close(c)
    PROVE  /\ conn' \in [Clients -> {"none", "open", "broken", "closed"}]
           /\ done' \in [Clients -> BOOLEAN]
<1>1. conn' = [conn EXCEPT ![c] = "closed"] /\ done' = [done EXCEPT ![c] = TRUE]
  BY DEF Close
<1>2. conn \in [Clients -> {"none", "open", "broken", "closed"}] /\ done \in [Clients -> BOOLEAN]
  BY DEF TypeOK
<1> QED
  BY <1>1, <1>2

\* The orders in which the directory can be sent.
LEMMA OrderType ==
    ASSUME NEW S \in SUBSET Symbols, S # {}, NEW order \in SetToSeqs(S)
    PROVE  order \in Seq(Symbols) /\ order # <<>>
<1>1. IsFiniteSet(S)
  BY SessionAssumption, FS_Subset DEF SessionAssumption
<1>2. Cardinality(S) \in Nat /\ Cardinality(S) # 0
  BY <1>1, FS_CardinalityType, FS_EmptySet
<1>3. order \in [1 .. Cardinality(S) -> Symbols]
  BY DEF SetToSeqs
<1> QED
  BY <1>2, <1>3

\* Init and the actions keep the types.
LEMMA TypeInit == Init => TypeInv
<1> SUFFICES ASSUME Init PROVE TypeInv
  OBVIOUS
<1>1. /\ conn \in [Clients -> {"none", "open", "broken", "closed"}]
      /\ clients \subseteq Clients /\ done \in [Clients -> BOOLEAN]
      /\ format \in [Clients -> Formats]
      /\ symbols \in [Clients -> SUBSET Symbols] /\ allSymbols \in [Clients -> BOOLEAN]
      /\ reader \in [Clients -> {"off", "reading", "directory", "leaving", "closing", "ended"}]
      /\ writer \in [Clients -> {"off", "waiting", "writing", "ended"}]
  BY DEF Init, Formats
<1>2. /\ sendCh \in [Clients -> Seq(Frame)] /\ \A c \in Clients : Len(sendCh[c]) <= BufferSize
      /\ directory \in [Clients -> Seq(Symbols)]
      /\ frame \in [Clients -> Seq(Frame)]
      /\ \A c \in Clients : Len(frame[c]) = IF writer[c] = "writing" THEN 1 ELSE 0
      /\ controls \in [Clients -> Seq({"subscribe", "unsubscribe", "format"})]
  BY SessionAssumption DEF Init, SessionAssumption
<1>3. cast \in [Symbols -> Casts]
  BY DEF Init, IdleCast, Casts
<1>4. sent \in [Symbols -> Nat] /\ wire \in [Clients -> [Symbols -> Nat]]
  BY DEF Init
<1>5. DirectoryLeft
  BY DEF Init, DirectoryLeft
<1>6. Unopened
  BY DEF Init, Unopened
<1> QED
  BY <1>1, <1>2, <1>3, <1>4, <1>5, <1>6 DEF TypeInv, TypeOK, Casts

LEMMA TypeRegister ==
    ASSUME TypeInv, NEW c \in Clients, Register(c) \/ PeerGone(c) PROVE TypeInv'
<1>1. CASE Register(c)
  <2>1. /\ conn' \in [Clients -> {"none", "open", "broken", "closed"}]
        /\ clients' \subseteq Clients
        /\ reader' \in [Clients -> {"off", "reading", "directory", "leaving", "closing", "ended"}]
        /\ \A d \in Clients : reader'[d] = "directory" => reader[d] = "directory"
    BY <1>1 DEF Register, TypeInv, TypeOK
  <2>2. /\ writer' \in [Clients -> {"off", "waiting", "writing", "ended"}]
        /\ \A d \in Clients : Len(frame'[d]) = IF writer'[d] = "writing" THEN 1 ELSE 0
    BY <1>1 DEF Register, TypeInv, TypeOK, Unopened
  <2> QED
    BY <1>1, <2>1, <2>2 DEF Register, TypeInv, TypeOK, DirectoryLeft, Unopened
<1>2. CASE PeerGone(c)
  BY <1>2 DEF PeerGone, TypeInv, TypeOK, DirectoryLeft, Unopened
<1> QED
  BY <1>1, <1>2

LEMMA TypeControl ==
    ASSUME TypeInv, NEW c \in Clients, Subscribe(c) \/ Unsubscribe(c) \/ SetFormat(c)
    PROVE  TypeInv'
<1>1. \A kind \in {"subscribe", "unsubscribe", "format"} : Control(c, kind) =>
          controls' \in [Clients -> Seq({"subscribe", "unsubscribe", "format"})]
  <2> DEFINE K == {"subscribe", "unsubscribe", "format"}
  <2>1. SUFFICES ASSUME NEW kind \in K, Control(c, kind)
                 PROVE  controls' \in [Clients -> Seq(K)]
    OBVIOUS
  <2>2. controls \in [Clients -> Seq(K)]
    BY DEF TypeInv, TypeOK
  <2> HIDE DEF K
  <2>3. Append(controls[c], kind) \in Seq(K)
    BY <2>2, AppendProperties
  <2>4. controls' = [controls EXCEPT ![c] = Append(controls[c], kind)]
    BY <2>1 DEF Control
  <2> QED
    BY <2>2, <2>3, <2>4
<1>2. CASE Subscribe(c)
  <2>1. PICK S \in (SUBSET Symbols) \ {{}}, all \in BOOLEAN :
            /\ symbols' = IF all THEN symbols ELSE [symbols EXCEPT ![c] = @ \cup S]
            /\ allSymbols' = [allSymbols EXCEPT ![c] = @ \/ all]
            /\ \E order \in SetToSeqs(IF all THEN Symbols ELSE S) :
                   directory' = [directory EXCEPT ![c] = order]
    BY <1>2 DEF Subscribe
  <2>2. PICK order \in SetToSeqs(IF all THEN Symbols ELSE S) :
            directory' = [directory EXCEPT ![c] = order]
    BY <2>1
  <2>3. order \in Seq(Symbols) /\ order # <<>>
    <3>1. (IF all THEN Symbols ELSE S) \in SUBSET Symbols /\ (IF all THEN Symbols ELSE S) # {}
      <4>1. CASE all
        BY <4>1
      <4>2. CASE ~all
        BY <4>2
      <4> QED
        BY <4>1, <4>2
    <3> QED
      BY <2>2, <3>1, OrderType
  <2>4. symbols' \in [Clients -> SUBSET Symbols] /\ allSymbols' \in [Clients -> BOOLEAN]
    BY <2>1 DEF TypeInv, TypeOK
  <2>5. directory' \in [Clients -> Seq(Symbols)] /\ directory'[c] # <<>>
        /\ \A d \in Clients \ {c} : directory'[d] = directory[d]
    BY <2>2, <2>3 DEF TypeInv, TypeOK
  <2>6. reader' = [reader EXCEPT ![c] = "directory"] /\ UNCHANGED <<readFrame, format>>
    BY <1>2 DEF Subscribe
  <2>7. controls' \in [Clients -> Seq({"subscribe", "unsubscribe", "format"})]
    BY <1>1, <1>2 DEF Subscribe
  <2>8. TypeOK'
    BY <2>4, <2>5, <2>6, <2>7 DEF TypeInv, TypeOK, readFrame
  <2>9. DirectoryLeft'
    BY <2>5, <2>6 DEF TypeInv, TypeOK, DirectoryLeft, Unopened
  <2>10. Unopened'
    BY <1>2, <2>6 DEF Subscribe, Control, readFrame, TypeInv, TypeOK, Unopened
  <2> QED
    BY <2>8, <2>9, <2>10 DEF TypeInv
<1>3. CASE Unsubscribe(c)
  <2>1. controls' \in [Clients -> Seq({"subscribe", "unsubscribe", "format"})]
    BY <1>1, <1>3 DEF Unsubscribe
  <2>2. symbols' \in [Clients -> SUBSET Symbols]
    BY <1>3 DEF Unsubscribe, TypeInv, TypeOK
  <2> QED
    BY <1>3, <2>1, <2>2 DEF Unsubscribe, readFrame, TypeInv, TypeOK, DirectoryLeft, Unopened
<1>4. CASE SetFormat(c)
  <2>1. controls' \in [Clients -> Seq({"subscribe", "unsubscribe", "format"})]
    BY <1>1, <1>4 DEF SetFormat
  <2>2. format' \in [Clients -> Formats]
    BY <1>4 DEF SetFormat, TypeInv, TypeOK
  <2> QED
    BY <1>4, <2>1, <2>2 DEF SetFormat, readFrame, TypeInv, TypeOK, DirectoryLeft, Unopened
<1> QED
  BY <1>2, <1>3, <1>4

LEMMA TypeReader ==
    ASSUME TypeInv, NEW c \in Clients, SendToClient(c) \/ ReadFails(c) \/ Unregister(c)
    PROVE  TypeInv'
<1>1. CASE SendToClient(c)
  <2>1. directory[c] \in Seq(Symbols) /\ directory[c] # <<>>
    BY <1>1 DEF SendToClient, TypeInv, TypeOK, DirectoryLeft, Unopened
  <2>2. Head(directory[c]) \in Symbols /\ Tail(directory[c]) \in Seq(Symbols)
        /\ (Len(directory[c]) # 1 => Tail(directory[c]) # <<>>)
    <3>1. /\ Head(directory[c]) \in Symbols /\ Tail(directory[c]) \in Seq(Symbols)
          /\ Len(Tail(directory[c])) = Len(directory[c]) - 1 /\ Len(directory[c]) \in Nat
      BY <2>1, HeadTailProperties, LenProperties
    <3>2. Len(<<>>) = 0
      OBVIOUS
    <3>3. ASSUME Tail(directory[c]) = <<>> PROVE Len(directory[c]) = 1
      <4>1. Len(Tail(directory[c])) = 0
        BY <3>2, <3>3
      <4> QED
        BY <3>1, <4>1
    <3> QED
      BY <3>1, <3>3
  <2>3. [sym |-> Head(directory[c]), n |-> 0, enc |-> format[c]] \in Frame
    BY <2>2 DEF Frame, TypeInv, TypeOK
  <2>4. Send(c, [sym |-> Head(directory[c]), n |-> 0, enc |-> format[c]])
    BY <1>1 DEF SendToClient
  <2>5. sendCh' \in [Clients -> Seq(Frame)] /\ \A d \in Clients : Len(sendCh'[d]) <= BufferSize
    BY <2>3, <2>4, SendType DEF TypeInv
  <2>6. directory' \in [Clients -> Seq(Symbols)]
        /\ reader' \in [Clients -> {"off", "reading", "directory", "leaving", "closing", "ended"}]
    BY <1>1, <2>2 DEF SendToClient, TypeInv, TypeOK
  <2>7. DirectoryLeft'
    BY <1>1, <2>2 DEF SendToClient, TypeInv, TypeOK, DirectoryLeft, Unopened
  <2>8. TypeOK'
    BY <1>1, <2>5, <2>6 DEF SendToClient, TypeInv, TypeOK
  <2>9. Unopened'
    BY <1>1 DEF SendToClient, TypeInv, TypeOK, Unopened
  <2> QED
    BY <2>7, <2>8, <2>9 DEF TypeInv
<1>2. CASE ReadFails(c)
  BY <1>2 DEF ReadFails, readFrame, TypeInv, TypeOK, DirectoryLeft, Unopened
<1>3. CASE Unregister(c)
  <2>1. /\ clients' \subseteq Clients
        /\ reader' \in [Clients -> {"off", "reading", "directory", "leaving", "closing", "ended"}]
        /\ \A d \in Clients : reader'[d] = "directory" => reader[d] = "directory"
    BY <1>3 DEF Unregister, TypeInv, TypeOK
  <2>2. UNCHANGED <<conn, done>> \/ Close(c)
    BY <1>3 DEF Unregister
  <2>3. /\ conn' \in [Clients -> {"none", "open", "broken", "closed"}]
        /\ done' \in [Clients -> BOOLEAN]
    BY <2>2, CloseType DEF TypeInv, TypeOK
  <2>4. Unopened'
    BY <1>3 DEF Unregister, Close, TypeInv, TypeOK, Unopened
  <2>5. UNCHANGED <<format, symbols, allSymbols, sendCh, directory, writer, frame, cast, sent,
                    wire, controls>>
    BY <1>3 DEF Unregister
  <2> QED
    BY <2>1, <2>3, <2>4, <2>5 DEF TypeInv, TypeOK, DirectoryLeft
<1> QED
  BY <1>1, <1>2, <1>3

LEMMA TypeWriter ==
    ASSUME TypeInv, NEW c \in Clients, writePump(c)
    PROVE  TypeInv'
<1>1. CASE Take(c)
  <2>1. sendCh[c] \in Seq(Frame) /\ sendCh[c] # <<>> /\ Len(sendCh[c]) <= BufferSize
    BY <1>1 DEF Take, TypeInv, TypeOK
  <2>2. Head(sendCh[c]) \in Frame /\ Tail(sendCh[c]) \in Seq(Frame)
        /\ Len(Tail(sendCh[c])) = Len(sendCh[c]) - 1 /\ Len(sendCh[c]) \in Nat
    BY <2>1
  <2>3. <<Head(sendCh[c])>> \in Seq(Frame) /\ Len(<<Head(sendCh[c])>>) = 1
    BY <2>2
  <2>4. sendCh' \in [Clients -> Seq(Frame)] /\ \A d \in Clients : Len(sendCh'[d]) <= BufferSize
    BY <1>1, <2>1, <2>2, SessionAssumption DEF Take, TypeInv, TypeOK, SessionAssumption
  <2>5. frame' \in [Clients -> Seq(Frame)]
        /\ writer' \in [Clients -> {"off", "waiting", "writing", "ended"}]
        /\ \A d \in Clients : Len(frame'[d]) = IF writer'[d] = "writing" THEN 1 ELSE 0
    BY <1>1, <2>3 DEF Take, TypeInv, TypeOK
  <2> QED
    BY <1>1, <2>4, <2>5 DEF Take, writeFrame, TypeInv, TypeOK, DirectoryLeft, Unopened
<1>2. CASE Write(c)
  <2>1. frame[c] \in Seq(Frame) /\ Len(frame[c]) = 1
    BY <1>2 DEF Write, TypeInv, TypeOK
  <2>2. frame[c][1].n \in Nat /\ frame[c][1].sym \in Symbols
    <3>1. frame[c][1] \in Frame
      BY <2>1, ElementOfSeq
    <3> QED
      BY <3>1 DEF Frame
  <2>3. wire' \in [Clients -> [Symbols -> Nat]]
    <3>1. \/ wire' = wire
          \/ wire' = [wire EXCEPT ![c] = [wire[c] EXCEPT ![frame[c][1].sym] = frame[c][1].n]]
      BY <1>2 DEF Write
    <3>2. [wire[c] EXCEPT ![frame[c][1].sym] = frame[c][1].n] \in [Symbols -> Nat]
      BY <2>2 DEF TypeInv, TypeOK
    <3> QED
      BY <3>1, <3>2 DEF TypeInv, TypeOK
  <2>4. /\ conn' \in [Clients -> {"none", "open", "broken", "closed"}]
        /\ done' \in [Clients -> BOOLEAN]
    <3>1. UNCHANGED <<conn, done>> \/ Close(c)
      BY <1>2 DEF Write
    <3> QED
      BY <3>1, CloseType DEF TypeInv, TypeOK
  <2>5. frame' \in [Clients -> Seq(Frame)]
        /\ writer' \in [Clients -> {"off", "waiting", "writing", "ended"}]
        /\ \A d \in Clients : Len(frame'[d]) = IF writer'[d] = "writing" THEN 1 ELSE 0
    <3>1. PICK w \in {"waiting", "ended"} : writer' = [writer EXCEPT ![c] = w]
      BY <1>2 DEF Write
    <3>2. PICK e \in Seq(Frame) : e = <<>> /\ Len(e) = 0
      BY EmptySeq
    <3>3. frame' = [frame EXCEPT ![c] = e]
      BY <1>2, <3>2 DEF Write
    <3>4. frame' \in [Clients -> Seq(Frame)]
      BY <3>2, <3>3 DEF TypeInv, TypeOK
    <3>5. writer' \in [Clients -> {"off", "waiting", "writing", "ended"}]
      BY <3>1 DEF TypeInv, TypeOK
    <3>6. ASSUME NEW d \in Clients
          PROVE  Len(frame'[d]) = IF writer'[d] = "writing" THEN 1 ELSE 0
      <4>1. CASE d = c
        BY <3>1, <3>2, <3>3, <4>1 DEF TypeInv, TypeOK
      <4>2. CASE d # c
        <5>1. frame'[d] = frame[d] /\ writer'[d] = writer[d]
          BY <3>1, <3>3, <4>2 DEF TypeInv, TypeOK
        <5> QED
          BY <5>1 DEF TypeInv, TypeOK
      <4> QED
        BY <4>1, <4>2
    <3> QED
      BY <3>4, <3>5, <3>6
  <2>6. Unopened'
    BY <1>2 DEF Write, Close, writeFrame, TypeInv, TypeOK, Unopened
  <2>7. UNCHANGED <<writeFrame, sendCh>>
    BY <1>2 DEF Write
  <2> QED
    BY <2>3, <2>4, <2>5, <2>6, <2>7 DEF writeFrame, TypeInv, TypeOK, DirectoryLeft
<1>3. CASE StopWriting(c)
  <2>1. /\ conn' \in [Clients -> {"none", "open", "broken", "closed"}]
        /\ done' \in [Clients -> BOOLEAN]
    BY <1>3, CloseType DEF StopWriting, TypeInv
  <2>2. writer' = [writer EXCEPT ![c] = "ended"] /\ writer[c] = "waiting"
        /\ UNCHANGED <<writeFrame, sendCh, frame, wire>>
    BY <1>3 DEF StopWriting
  <2>3. /\ writer' \in [Clients -> {"off", "waiting", "writing", "ended"}]
        /\ \A d \in Clients : Len(frame'[d]) = IF writer'[d] = "writing" THEN 1 ELSE 0
    BY <2>2 DEF TypeInv, TypeOK
  <2>4. Unopened'
    BY <1>3, <2>2 DEF StopWriting, Close, writeFrame, TypeInv, TypeOK, Unopened
  <2> QED
    BY <2>1, <2>2, <2>3, <2>4 DEF writeFrame, TypeInv, TypeOK, DirectoryLeft
<1> QED
  BY <1>1, <1>2, <1>3 DEF writePump

LEMMA TypeBroadcast ==
    ASSUME TypeInv, NEW s \in Symbols, Broadcast(s)
    PROVE  TypeInv'
<1>1. cast[s] \in Casts /\ cast \in [Symbols -> Casts] /\ sent[s] \in Nat
  BY DEF TypeInv, TypeOK, Casts
<1>2. CASE BroadcastBegin(s)
  <2>1. cast' \in [Symbols -> Casts] /\ sent' \in [Symbols -> Nat]
    BY <1>1, <1>2 DEF BroadcastBegin, TypeInv, TypeOK, Casts
  <2> QED
    BY <1>2, <2>1 DEF BroadcastBegin, castFrame, TypeInv, TypeOK, DirectoryLeft, Unopened, Casts
<1>3. CASE NextClient(s) \/ ReadFormat(s) \/ BroadcastEnd(s)
  <2>1. cast' \in [Symbols -> Casts]
    <3>1. CASE NextClient(s)
      <4>1. PICK c \in cast[s].todo :
                cast' = [cast EXCEPT ![s].todo = @ \ {c},
                                     ![s].at = IF IsSubscribed(c, s) THEN c ELSE "none"]
        BY <3>1 DEF NextClient
      <4>2. cast[s].todo \ {c} \in SUBSET Clients
            /\ (IF IsSubscribed(c, s) THEN c ELSE "none") \in Clients \cup {"none"}
        BY <1>1 DEF Casts
      <4> QED
        BY <1>1, <4>1, <4>2 DEF Casts
    <3>2. CASE ReadFormat(s)
      <4>1. format[cast[s].at] \in Formats
        BY <1>1, <3>2 DEF ReadFormat, Casts, TypeInv, TypeOK
      <4> QED
        BY <1>1, <3>2, <4>1 DEF ReadFormat, Casts
    <3>3. CASE BroadcastEnd(s)
      <4>1. IdleCast \in Casts
        BY DEF IdleCast, Casts
      <4> QED
        BY <1>1, <3>3, <4>1 DEF BroadcastEnd
    <3> QED
      BY <1>3, <3>1, <3>2, <3>3
  <2>2. UNCHANGED <<castFrame, sent, sendCh>>
    BY <1>3 DEF NextClient, ReadFormat, BroadcastEnd
  <2> QED
    BY <2>1, <2>2 DEF castFrame, TypeInv, TypeOK, DirectoryLeft, Unopened, Casts
<1>4. CASE SendNext(s)
  <2>1. cast' \in [Symbols -> Casts]
    BY <1>1, <1>4 DEF SendNext, Casts
  <2>2. cast[s].at \in Clients /\ [sym |-> s, n |-> cast[s].next, enc |-> cast[s].enc] \in Frame
    BY <1>1, <1>4 DEF SendNext, Casts, Frame
  <2>3. sendCh' \in [Clients -> Seq(Frame)] /\ \A d \in Clients : Len(sendCh'[d]) <= BufferSize
    BY <1>4, <2>2, SendType DEF SendNext, TypeInv
  <2> QED
    BY <1>4, <2>1, <2>3 DEF SendNext, castFrame, TypeInv, TypeOK, DirectoryLeft, Unopened, Casts
<1> QED
  BY <1>2, <1>3, <1>4 DEF Broadcast

\* The types hold throughout.
LEMMA TypeInvariant == Spec => []TypeInv
<1>1. ASSUME TypeInv, [Next]_vars PROVE TypeInv'
  <2>1. CASE UNCHANGED vars
    BY <1>1, <2>1 DEF vars, TypeInv, TypeOK, DirectoryLeft, Unopened
  <2> QED
    BY <1>1, <2>1, TypeRegister, TypeControl, TypeReader, TypeWriter, TypeBroadcast
       DEF Next, readPump
<1> QED
  BY <1>1, TypeInit, PTL DEF Spec

\* Every variable has its type: no call of Head meets an empty channel or
\* directory, and no channel holds more than BufferSize frames.
THEOREM TypeCorrect == Spec => []TypeOK
<1>1. TypeInv => TypeOK
  BY DEF TypeInv
<1> QED
  BY <1>1, TypeInvariant, PTL

-----------------------------------------------------------------------------
(* The life of a connection.                                               *)

\* Every registered client has its readPump, and a client whose writePump is
\* gone is closed.
THEOREM PumpsAccountForClients == Spec => []NoZombies
<1>1. Init => NoZombies
  BY DEF Init, NoZombies
<1>2. ASSUME TypeInv, NoZombies, [Next]_vars PROVE NoZombies'
  <2> USE <1>2
  <2>1. CASE UNCHANGED <<conn, clients, done, reader, writer>>
    BY <2>1 DEF NoZombies
  <2>2. ASSUME NEW c \in Clients, Register(c) PROVE NoZombies'
    BY <2>2 DEF Register, NoZombies, TypeInv, TypeOK
  <2>3. ASSUME NEW c \in Clients, PeerGone(c) PROVE NoZombies'
    BY <2>3 DEF PeerGone, NoZombies, TypeInv, TypeOK
  <2>4. ASSUME NEW c \in Clients, Subscribe(c) \/ SendToClient(c) \/ ReadFails(c)
        PROVE  NoZombies'
    <3>1. /\ UNCHANGED <<conn, clients, done, writer>>
          /\ \E p \in {"reading", "directory", "leaving"} : reader' = [reader EXCEPT ![c] = p]
          /\ reader[c] \in {"reading", "directory"}
      BY <2>4 DEF Subscribe, Control, SendToClient, ReadFails, readFrame
    <3> QED
      BY <3>1 DEF NoZombies, TypeInv, TypeOK
  <2>5. ASSUME NEW c \in Clients, Unregister(c) PROVE NoZombies'
    <3>1. CASE reader[c] = "leaving"
      BY <2>5, <3>1 DEF Unregister, NoZombies, TypeInv, TypeOK
    <3>2. CASE reader[c] = "closing"
      BY <2>5, <3>2, ZenonT(60) DEF Unregister, Close, NoZombies, TypeInv, TypeOK
    <3> QED
      BY <2>5, <3>1, <3>2 DEF Unregister
  <2>6. ASSUME NEW c \in Clients, Write(c) PROVE NoZombies'
    <3>1. CASE Close(c) /\ writer' = [writer EXCEPT ![c] = "ended"]
      BY <2>6, <3>1 DEF Write, writeFrame, Close, NoZombies, TypeInv, TypeOK
    <3>2. CASE UNCHANGED <<conn, done>> /\ writer' = [writer EXCEPT ![c] = "waiting"]
      BY <2>6, <3>2 DEF Write, writeFrame, NoZombies, TypeInv, TypeOK
    <3> QED
      BY <2>6, <3>1, <3>2 DEF Write
  <2>7. ASSUME NEW c \in Clients, Take(c) PROVE NoZombies'
    BY <2>7 DEF Take, writeFrame, NoZombies, TypeInv, TypeOK
  <2>8. ASSUME NEW c \in Clients, StopWriting(c) PROVE NoZombies'
    BY <2>8 DEF StopWriting, writeFrame, Close, NoZombies, TypeInv, TypeOK
  <2>9. ASSUME NEW c \in Clients, Unsubscribe(c) \/ SetFormat(c) PROVE NoZombies'
    BY <2>1, <2>9 DEF Unsubscribe, SetFormat, readFrame
  <2>10. ASSUME NEW s \in Symbols, Broadcast(s) PROVE NoZombies'
    BY <2>1, <2>10 DEF Broadcast, BroadcastBegin, NextClient, ReadFormat, SendNext, BroadcastEnd,
                       castFrame
  <2> QED
    BY <2>1, <2>2, <2>3, <2>4, <2>5, <2>6, <2>7, <2>8, <2>9, <2>10
       DEF Next, readPump, writePump, vars
<1> QED
  BY <1>1, <1>2, TypeInvariant, PTL DEF Spec

-----------------------------------------------------------------------------
(* Broadcasts.                                                             *)

\* Where a Broadcast is: its batch ends with the last message produced, and
\* it still serves registered clients only.
CastOK(r, n) ==
    /\ r.busy => r.first \in 1 .. r.next /\ r.next <= r.last /\ r.last = n /\ r.todo \subseteq clients
    /\ ~r.busy => r.at = "none"
    /\ r.at = "none" => r.enc = "none" /\ (r.busy => r.next = r.first)
    /\ r.at # "none" => r.at \in clients \ r.todo

CastsOK == \A s \in Symbols : CastOK(cast[s], sent[s])

\* The effect of each step of a Broadcast on its own state; those of the
\* other symbols do not change.
LEMMA OtherCasts ==
    ASSUME TypeInv, NEW s \in Symbols, Broadcast(s)
    PROVE  \A t \in Symbols \ {s} : cast'[t] = cast[t] /\ sent'[t] = sent[t]
BY DEF Broadcast, BroadcastBegin, NextClient, ReadFormat, SendNext, BroadcastEnd, TypeInv, TypeOK

LEMMA BeginEffect ==
    ASSUME TypeInv, NEW s \in Symbols, BroadcastBegin(s)
    PROVE  \E k \in Nat \ {0} :
               /\ cast'[s] = [busy |-> TRUE, todo |-> clients, at |-> "none", enc |-> "none",
                              first |-> sent[s] + 1, next |-> sent[s] + 1, last |-> sent[s] + k]
               /\ sent'[s] = sent[s] + k
<1>1. PICK k \in 1 .. MaxBatch :
          /\ cast' = [cast EXCEPT ![s] = [busy |-> TRUE, todo |-> clients, at |-> "none",
                          enc |-> "none", first |-> sent[s] + 1, next |-> sent[s] + 1,
                          last |-> sent[s] + k]]
          /\ sent' = [sent EXCEPT ![s] = @ + k]
  BY DEF BroadcastBegin
<1>2. k \in Nat \ {0}
  BY SessionAssumption DEF SessionAssumption
<1>3. cast \in [Symbols -> Casts] /\ sent \in [Symbols -> Nat]
  BY DEF TypeInv, TypeOK, Casts
<1> QED
  BY <1>1, <1>2, <1>3

LEMMA NextEffect ==
    ASSUME TypeInv, NEW s \in Symbols, NextClient(s)
    PROVE  /\ cast[s].busy /\ cast[s].at = "none" /\ sent' = sent
           /\ \E c \in cast[s].todo :
                 /\ cast'[s].todo = cast[s].todo \ {c}
                 /\ cast'[s].at = IF IsSubscribed(c, s) THEN c ELSE "none"
           /\ \A k \in {"busy", "enc", "first", "next", "last"} : cast'[s][k] = cast[s][k]
BY DEF NextClient, TypeInv, TypeOK

LEMMA FormatEffect ==
    ASSUME TypeInv, NEW s \in Symbols, ReadFormat(s)
    PROVE  /\ cast[s].at # "none" /\ cast[s].enc = "none" /\ sent' = sent
           /\ cast'[s].enc = format[cast[s].at]
           /\ \A k \in {"busy", "todo", "at", "first", "next", "last"} : cast'[s][k] = cast[s][k]
BY DEF ReadFormat, TypeInv, TypeOK

LEMMA SendEffect ==
    ASSUME TypeInv, NEW s \in Symbols, SendNext(s)
    PROVE  /\ cast[s].at # "none" /\ cast[s].enc # "none" /\ sent' = sent
           /\ \A k \in {"busy", "todo", "first", "last"} : cast'[s][k] = cast[s][k]
           /\ \/ /\ cast[s].next < cast[s].last /\ cast'[s].next = cast[s].next + 1
                 /\ cast'[s].at = cast[s].at /\ cast'[s].enc = cast[s].enc
              \/ /\ ~(cast[s].next < cast[s].last) /\ cast'[s].next = cast[s].first
                 /\ cast'[s].at = "none" /\ cast'[s].enc = "none"
BY DEF SendNext, TypeInv, TypeOK

LEMMA EndEffect ==
    ASSUME TypeInv, NEW s \in Symbols, BroadcastEnd(s)
    PROVE  cast[s].busy /\ cast'[s] = IdleCast /\ sent' = sent /\ cast[s].at = "none" /\ cast[s].todo = {}
BY DEF BroadcastEnd, TypeInv, TypeOK

\* Each step of a Broadcast leaves it at a place that makes sense.
LEMMA CastSteps ==
    ASSUME TypeInv, CastsOK, NEW s \in Symbols, Broadcast(s)
    PROVE  CastsOK'
<1>1. clients' = clients
  BY DEF Broadcast, BroadcastBegin, NextClient, ReadFormat, SendNext, BroadcastEnd, castFrame
<1>2. cast[s] \in Casts /\ sent[s] \in Nat /\ CastOK(cast[s], sent[s]) /\ "none" \notin clients
  BY SessionAssumption DEF TypeInv, TypeOK, Casts, CastsOK, SessionAssumption
<1>3. SUFFICES CastOK(cast[s], sent[s])'
  BY <1>1, OtherCasts DEF CastsOK, CastOK
<1>4. CASE BroadcastBegin(s)
  <2>1. PICK k \in Nat \ {0} :
            /\ cast'[s] = [busy |-> TRUE, todo |-> clients, at |-> "none", enc |-> "none",
                           first |-> sent[s] + 1, next |-> sent[s] + 1, last |-> sent[s] + k]
            /\ sent'[s] = sent[s] + k
    BY <1>4, BeginEffect
  <2>2. /\ cast'[s].busy /\ cast'[s].todo = clients /\ cast'[s].at = "none" /\ cast'[s].enc = "none"
        /\ cast'[s].first = sent[s] + 1 /\ cast'[s].next = sent[s] + 1 /\ cast'[s].last = sent[s] + k
    BY <2>1
  <2> QED
    BY <1>1, <1>2, <2>1, <2>2 DEF CastOK
<1>5. CASE NextClient(s)
  <2>1. PICK c \in cast[s].todo : /\ cast'[s].todo = cast[s].todo \ {c}
                                  /\ cast'[s].at = IF IsSubscribed(c, s) THEN c ELSE "none"
    BY <1>5, NextEffect
  <2>2. /\ cast'[s].busy = cast[s].busy /\ cast'[s].enc = cast[s].enc /\ cast'[s].first = cast[s].first
        /\ cast'[s].next = cast[s].next /\ cast'[s].last = cast[s].last
        /\ cast[s].busy /\ cast[s].at = "none" /\ sent' = sent
    BY <1>5, NextEffect
  <2> QED
    BY <1>1, <1>2, <2>1, <2>2 DEF CastOK, Casts
<1>6. CASE ReadFormat(s)
  <2>1. /\ cast'[s].busy = cast[s].busy /\ cast'[s].todo = cast[s].todo /\ cast'[s].at = cast[s].at
        /\ cast'[s].first = cast[s].first /\ cast'[s].next = cast[s].next
        /\ cast'[s].last = cast[s].last /\ sent' = sent /\ cast[s].at # "none"
    BY <1>6, FormatEffect
  <2> QED
    BY <1>1, <1>2, <2>1 DEF CastOK, Casts
<1>7. CASE SendNext(s)
  <2>1. /\ cast'[s].busy = cast[s].busy /\ cast'[s].todo = cast[s].todo
        /\ cast'[s].first = cast[s].first /\ cast'[s].last = cast[s].last
        /\ sent' = sent /\ cast[s].at # "none"
    BY <1>7, SendEffect
  <2>2. \/ /\ cast[s].next < cast[s].last /\ cast'[s].next = cast[s].next + 1
           /\ cast'[s].at = cast[s].at /\ cast'[s].enc = cast[s].enc
        \/ /\ cast'[s].next = cast[s].first
           /\ cast'[s].at = "none" /\ cast'[s].enc = "none"
    BY <1>7, SendEffect
  <2> QED
    BY <1>1, <1>2, <2>1, <2>2 DEF CastOK, Casts
<1>8. CASE BroadcastEnd(s)
  BY <1>8, EndEffect DEF CastOK, IdleCast
<1> QED
  BY <1>4, <1>5, <1>6, <1>7, <1>8 DEF Broadcast

\* Register and Unregister wait until no Broadcast runs, so each client a
\* Broadcast has still to serve stays registered.
LEMMA CastsInvariant == Spec => []CastsOK
<1>1. Init => CastsOK
  BY DEF Init, CastsOK, CastOK, IdleCast
<1>2. ASSUME TypeInv, CastsOK, [Next]_vars PROVE CastsOK'
  <2> USE <1>2
  <2>1. CASE UNCHANGED <<clients, cast, sent>>
    BY <2>1 DEF CastsOK, CastOK
  <2>2. CASE ~ReadLocked /\ UNCHANGED <<cast, sent>>
    <3>1. \A s \in Symbols : ~cast[s].busy /\ cast[s].at = "none" /\ cast[s].enc = "none"
      BY <2>2 DEF ReadLocked, CastsOK, CastOK
    <3> QED
      BY <2>2, <3>1 DEF CastsOK, CastOK
  <2>3. ASSUME NEW c \in Clients, Register(c) \/ PeerGone(c) PROVE CastsOK'
    BY <2>1, <2>2, <2>3 DEF Register, PeerGone
  <2>4. ASSUME NEW c \in Clients, readPump(c) PROVE CastsOK'
    BY <2>1, <2>2, <2>4 DEF readPump, Subscribe, Unsubscribe, SetFormat, SendToClient, ReadFails,
                            Unregister, readFrame
  <2>5. ASSUME NEW c \in Clients, writePump(c) PROVE CastsOK'
    BY <2>1, <2>5 DEF writePump, Take, Write, StopWriting, writeFrame
  <2> QED
    BY <2>1, <2>3, <2>4, <2>5, CastSteps DEF Next, vars
<1> QED
  BY <1>1, <1>2, TypeInvariant, PTL DEF Spec

\* Once Unregister has taken a client out of the map, nothing is put into its
\* channel, not even by a Broadcast that had begun before.
THEOREM NoSendAfterUnregister == Spec => SilentAfterUnregister
<1>1. ASSUME TypeInv, CastsOK, NoZombies, [Next]_vars,
             NEW c \in Clients, reader[c] \in {"closing", "ended"}
      PROVE  Len(sendCh'[c]) <= Len(sendCh[c])
  <2> USE <1>1
  <2>1. c \notin clients /\ Len(sendCh[c]) \in Nat
    <3>1. sendCh[c] \in Seq(Frame)
      BY DEF TypeInv, TypeOK
    <3>2. c \notin clients
      BY DEF NoZombies
    <3> QED
      BY <3>1, <3>2, LenProperties
  <2>2. CASE sendCh'[c] = sendCh[c]
    BY <2>1, <2>2
  <2>3. ASSUME NEW d \in Clients, SendToClient(d) PROVE Len(sendCh'[c]) <= Len(sendCh[c])
    <3>1. d # c
      BY <2>3 DEF SendToClient
    <3> QED
      BY <2>2, <2>3, <3>1 DEF SendToClient, Send, TypeInv, TypeOK
  <2>4. ASSUME NEW d \in Clients, Take(d) PROVE Len(sendCh'[c]) <= Len(sendCh[c])
    <3>1. CASE d = c
      <4>1. sendCh'[c] = Tail(sendCh[c]) /\ sendCh[c] \in Seq(Frame) /\ sendCh[c] # <<>>
        BY <2>4, <3>1 DEF Take, TypeInv, TypeOK
      <4> QED
        BY <2>1, <4>1, HeadTailProperties
    <3>2. CASE d # c
      BY <2>2, <2>4, <3>2 DEF Take, TypeInv, TypeOK
    <3> QED
      BY <3>1, <3>2
  <2>5. ASSUME NEW s \in Symbols, SendNext(s) PROVE Len(sendCh'[c]) <= Len(sendCh[c])
    <3>1. cast[s].at # c
      BY <2>1, <2>5 DEF SendNext, CastsOK, CastOK
    <3> QED
      BY <2>2, <2>5, <3>1 DEF SendNext, Send, TypeInv, TypeOK
  <2>6. CASE UNCHANGED sendCh
    BY <2>2, <2>6
  <2>7. ASSUME NEW d \in Clients, Register(d) \/ PeerGone(d) \/ readPump(d) \/ writePump(d)
        PROVE  Len(sendCh'[c]) <= Len(sendCh[c])
    BY <2>3, <2>4, <2>6, <2>7 DEF Register, PeerGone, readPump, Subscribe, Unsubscribe, SetFormat, ReadFails,
                                  Unregister, readFrame, writePump, Write, StopWriting, writeFrame
  <2>8. ASSUME NEW s \in Symbols, Broadcast(s) PROVE Len(sendCh'[c]) <= Len(sendCh[c])
    BY <2>5, <2>6, <2>8 DEF Broadcast, BroadcastBegin, NextClient, ReadFormat, BroadcastEnd
  <2> QED
    BY <2>6, <2>7, <2>8 DEF Next, vars
<1>2. TypeInv /\ CastsOK /\ NoZombies /\ [Next]_vars =>
          [\A c \in Clients : reader[c] \in {"closing", "ended"} => Len(sendCh'[c]) <= Len(sendCh[c])]_vars
  BY <1>1
<1> QED
  BY <1>2, TypeInvariant, CastsInvariant, PumpsAccountForClients, PTL DEF Spec, SilentAfterUnregister

-----------------------------------------------------------------------------
(* The order of messages.                                                  *)

\* The messages of s in u increase and lie above lo and up to hi.
Rising(u, s, lo, hi) ==
    \A i \in DOMAIN u : u[i].sym = s /\ u[i].n # 0 =>
        /\ u[i].n \in lo + 1 .. hi
        /\ \A k \in DOMAIN u : i < k /\ u[k].sym = s /\ u[k].n # 0 => u[i].n < u[k].n

\* The last message of s that client c can have been sent: those before the
\* batch, if the Broadcast has still to come to c, or before the message it
\* sends to c next.
Reached(c, s) ==
    IF cast[s].busy /\ c \in cast[s].todo THEN cast[s].first - 1
    ELSE IF cast[s].at = c THEN cast[s].next - 1
    ELSE sent[s]

OrderInv ==
    \A c \in Clients, s \in Symbols :
        /\ wire[c][s] <= Reached(c, s)
        /\ Rising(Underway(c), s, wire[c][s], Reached(c, s))

\* Facts on sequences of frames.
LEMMA FrameSeq ==
    ASSUME NEW u \in Seq(Frame)
    PROVE  /\ Len(u) \in Nat /\ DOMAIN u = 1 .. Len(u)
           /\ \A i \in 1 .. Len(u) : u[i] \in Frame /\ u[i].n \in Nat
<1>1. Len(u) \in Nat /\ DOMAIN u = 1 .. Len(u)
  BY LenProperties
<1>2. \A i \in 1 .. Len(u) : u[i] \in Frame
  BY ElementOfSeq
<1>3. \A f \in Frame : f.n \in Nat
  BY DEF Frame
<1> QED
  BY <1>1, <1>2, <1>3

LEMMA FrameAppend ==
    ASSUME NEW u \in Seq(Frame), NEW f \in Frame
    PROVE  /\ DOMAIN Append(u, f) = 1 .. Len(u) + 1
           /\ \A i \in 1 .. Len(u) : Append(u, f)[i] = u[i]
           /\ Append(u, f)[Len(u) + 1] = f
<1>1. /\ Append(u, f) \in Seq(Frame) /\ Len(Append(u, f)) = Len(u) + 1
      /\ \A i \in 1 .. Len(u) : Append(u, f)[i] = u[i]
      /\ Append(u, f)[Len(u) + 1] = f
  BY AppendProperties
<1>2. DOMAIN Append(u, f) = 1 .. Len(Append(u, f))
  BY <1>1, LenProperties
<1> QED
  BY <1>1, <1>2

LEMMA FrameTail ==
    ASSUME NEW u \in Seq(Frame), u # <<>>
    PROVE  /\ Len(u) >= 1 /\ DOMAIN Tail(u) = 1 .. Len(u) - 1
           /\ \A i \in 1 .. Len(u) - 1 : Tail(u)[i] = u[i + 1]
<1>1. /\ Tail(u) \in Seq(Frame) /\ Len(Tail(u)) = Len(u) - 1
      /\ \A i \in 1 .. Len(Tail(u)) : Tail(u)[i] = u[i + 1]
  BY HeadTailProperties
<1>2. DOMAIN Tail(u) = 1 .. Len(Tail(u))
  BY <1>1, LenProperties
<1>3. Len(u) \in Nat \ {0}
  BY EmptySeq
<1> QED
  BY <1>1, <1>2, <1>3

LEMMA TailOfConcat ==
    ASSUME NEW u \in Seq(Frame), NEW w \in Seq(Frame), Len(u) = 1
    PROVE  u \o w # <<>> /\ (u \o w)[1] = u[1] /\ Tail(u \o w) = w
<1> DEFINE v == u \o w
<1>1. /\ v \in Seq(Frame) /\ Len(v) = 1 + Len(w) /\ Len(w) \in Nat
      /\ \A i \in 1 .. 1 + Len(w) : v[i] = IF i <= 1 THEN u[i] ELSE w[i - 1]
  <2>1. v \in Seq(Frame)
    BY ConcatProperties
  <2>2. Len(v) = Len(u) + Len(w)
    BY ConcatProperties
  <2>3. \A i \in 1 .. Len(u) + Len(w) : v[i] = IF i <= Len(u) THEN u[i] ELSE w[i - Len(u)]
    BY ConcatProperties
  <2>4. Len(w) \in Nat
    BY LenProperties
  <2> QED
    BY <2>1, <2>2, <2>3, <2>4
<1> HIDE DEF v
<1>2. v # <<>>
  <2>1. ASSUME v = <<>> PROVE Len(v) = 0
    BY <2>1
  <2> QED
    BY <1>1, <2>1
<1>3. v[1] = u[1]
  BY <1>1
<1>4. Tail(v) \in Seq(Frame) /\ Len(Tail(v)) = Len(w) /\ \A i \in 1 .. Len(w) : Tail(v)[i] = v[i + 1]
  BY <1>1, <1>2, HeadTailProperties
<1>5. \A i \in 1 .. Len(w) : Tail(v)[i] = w[i]
  BY <1>1, <1>4
<1>6. Tail(v) = w
  BY <1>4, <1>5, SeqEqual
<1> QED
  BY <1>2, <1>3, <1>6 DEF v

\* Rising sequences stay so when the bound rises, when a later message or one
\* of another symbol is appended, and when the first one goes to the wire.
LEMMA RisingHigher ==
    ASSUME NEW u \in Seq(Frame), NEW s, NEW lo \in Nat, NEW hi \in Int, NEW more \in Int, hi <= more,
           Rising(u, s, lo, hi)
    PROVE  Rising(u, s, lo, more)
BY DEF Rising

LEMMA RisingAppend ==
    ASSUME NEW u \in Seq(Frame), NEW s, NEW lo \in Nat, NEW hi \in Int, NEW f \in Frame,
           NEW more \in Int, hi <= more, lo <= hi, Rising(u, s, lo, hi),
           f.sym = s /\ f.n # 0 => f.n \in hi + 1 .. more
    PROVE  Rising(Append(u, f), s, lo, more)
<1> DEFINE v == Append(u, f)
<1>1. /\ Len(u) \in Nat /\ DOMAIN u = 1 .. Len(u) /\ DOMAIN v = 1 .. Len(u) + 1
      /\ \A i \in 1 .. Len(u) : v[i] = u[i] /\ u[i].n \in Nat
      /\ v[Len(u) + 1] = f /\ f.n \in Nat
  <2>1. f.n \in Nat
    BY DEF Frame
  <2> QED
    BY <2>1, FrameSeq, FrameAppend
<1> HIDE DEF v
<1>2. SUFFICES ASSUME NEW i \in DOMAIN v, v[i].sym = s, v[i].n # 0
               PROVE  /\ v[i].n \in lo + 1 .. more
                      /\ \A k \in DOMAIN v : i < k /\ v[k].sym = s /\ v[k].n # 0 => v[i].n < v[k].n
  BY DEF Rising, v
<1>3. CASE i = Len(u) + 1
  BY <1>1, <1>2, <1>3
<1>4. CASE i \in 1 .. Len(u)
  <2>1. u[i].sym = s /\ u[i].n # 0 /\ u[i].n \in lo + 1 .. hi
    BY <1>1, <1>2, <1>4 DEF Rising
  <2>2. ASSUME NEW k \in DOMAIN v, i < k, v[k].sym = s, v[k].n # 0 PROVE v[i].n < v[k].n
    <3>1. CASE k = Len(u) + 1
      BY <1>1, <1>4, <2>1, <2>2, <3>1
    <3>2. CASE k \in 1 .. Len(u)
      BY <1>1, <1>4, <2>1, <2>2, <3>2 DEF Rising
    <3> QED
      BY <1>1, <3>1, <3>2
  <2> QED
    BY <1>1, <1>4, <2>1, <2>2
<1> QED
  BY <1>1, <1>3, <1>4

LEMMA RisingTail ==
    ASSUME NEW u \in Seq(Frame), u # <<>>, NEW s, NEW lo \in Nat, NEW hi \in Int, Rising(u, s, lo, hi)
    PROVE  /\ ~(u[1].sym = s /\ u[1].n # 0) => Rising(Tail(u), s, lo, hi)
           /\ u[1].sym = s /\ u[1].n # 0 => u[1].n <= hi /\ Rising(Tail(u), s, u[1].n, hi)
<1> DEFINE v == Tail(u)
<1>1. /\ Len(u) \in Nat /\ Len(u) >= 1 /\ DOMAIN u = 1 .. Len(u) /\ DOMAIN v = 1 .. Len(u) - 1
      /\ \A i \in 1 .. Len(u) - 1 : v[i] = u[i + 1]
      /\ \A i \in 1 .. Len(u) : u[i].n \in Nat
  BY FrameSeq, FrameTail
<1> HIDE DEF v
<1>2. ASSUME NEW i \in DOMAIN v, v[i].sym = s, v[i].n # 0
      PROVE  /\ v[i].n \in lo + 1 .. hi
             /\ u[1].sym = s /\ u[1].n # 0 => v[i].n \in u[1].n + 1 .. hi
             /\ \A k \in DOMAIN v : i < k /\ v[k].sym = s /\ v[k].n # 0 => v[i].n < v[k].n
  <2>1. i + 1 \in DOMAIN u /\ u[i + 1] = v[i] /\ 1 \in DOMAIN u /\ 1 < i + 1
    BY <1>1
  <2>2. u[i + 1].n \in lo + 1 .. hi
    BY <1>2, <2>1 DEF Rising
  <2>3. u[1].sym = s /\ u[1].n # 0 => u[1].n < u[i + 1].n
    BY <1>2, <2>1 DEF Rising
  <2>4. ASSUME NEW k \in DOMAIN v, i < k, v[k].sym = s, v[k].n # 0 PROVE v[i].n < v[k].n
    <3>1. k + 1 \in DOMAIN u /\ u[k + 1] = v[k] /\ i + 1 < k + 1
      BY <1>1, <2>4
    <3> QED
      BY <1>2, <2>1, <2>4, <3>1 DEF Rising
  <2> QED
    BY <1>1, <2>1, <2>2, <2>3, <2>4
<1>3. u[1].sym = s /\ u[1].n # 0 => u[1].n <= hi
  BY <1>1 DEF Rising
<1> QED
  BY <1>2, <1>3 DEF Rising, v

\* What is underway to a client, after each kind of step.
LEMMA UnderwayType ==
    ASSUME TypeInv, NEW c \in Clients
    PROVE  Underway(c) \in Seq(Frame) /\ Len(Underway(c)) = Len(frame[c]) + Len(sendCh[c])
BY ConcatProperties DEF Underway, TypeInv, TypeOK

LEMMA AppendToConcat ==
    ASSUME NEW u \in Seq(Frame), NEW w \in Seq(Frame), NEW f \in Frame
    PROVE  u \o Append(w, f) = Append(u \o w, f)
<1>1. <<f>> \in Seq(Frame) /\ u \o w \in Seq(Frame)
  BY ConcatProperties
<1>2. Append(w, f) = w \o <<f>>
  BY AppendIsConcat
<1>3. Append(u \o w, f) = (u \o w) \o <<f>>
  BY <1>1, AppendIsConcat
<1>4. (u \o w) \o <<f>> = u \o (w \o <<f>>)
  BY <1>1, ConcatAssociative
<1> QED
  BY <1>2, <1>3, <1>4

LEMMA UnderwaySend ==
    ASSUME TypeInv, NEW c \in Clients, NEW f \in Frame, Send(c, f), frame' = frame
    PROVE  /\ Underway(c)' = Underway(c) \/ Underway(c)' = Append(Underway(c), f)
           /\ \A d \in Clients \ {c} : Underway(d)' = Underway(d)
<1>1. \A d \in Clients \ {c} : Underway(d)' = Underway(d)
  BY DEF Send, Underway, TypeInv, TypeOK
<1>2. CASE sendCh' = sendCh
  BY <1>1, <1>2 DEF Underway
<1>3. CASE sendCh'[c] = Append(sendCh[c], f)
  <2>1. frame[c] \in Seq(Frame) /\ sendCh[c] \in Seq(Frame)
    BY DEF TypeInv, TypeOK
  <2>2. frame[c] \o Append(sendCh[c], f) = Append(frame[c] \o sendCh[c], f)
    BY <2>1, AppendToConcat
  <2> QED
    BY <1>1, <1>3, <2>2 DEF Underway
<1> QED
  BY <1>2, <1>3 DEF Send, TypeInv, TypeOK

LEMMA UnderwayTake ==
    ASSUME TypeInv, NEW c \in Clients, Take(c)
    PROVE  \A d \in Clients : Underway(d)' = Underway(d)
<1>1. \A d \in Clients \ {c} : Underway(d)' = Underway(d)
  BY DEF Take, Underway, TypeInv, TypeOK
<1>2. /\ frame[c] \in Seq(Frame) /\ Len(frame[c]) = 0 /\ sendCh[c] \in Seq(Frame) /\ sendCh[c] # <<>>
      /\ frame'[c] = <<Head(sendCh[c])>> /\ sendCh'[c] = Tail(sendCh[c])
  BY DEF Take, TypeInv, TypeOK
<1>3. frame[c] = <<>>
  BY <1>2, EmptySeq
<1>4. frame[c] \o sendCh[c] = sendCh[c]
  BY <1>2, <1>3, ConcatEmptySeq
<1>5. <<Head(sendCh[c])>> \o Tail(sendCh[c]) = sendCh[c]
  BY <1>2
<1> QED
  BY <1>1, <1>2, <1>4, <1>5 DEF Underway

LEMMA UnderwayWrite ==
    ASSUME TypeInv, NEW c \in Clients, Write(c)
    PROVE  /\ Underway(c) # <<>> /\ Underway(c)[1] = frame[c][1] /\ Underway(c)' = Tail(Underway(c))
           /\ \A d \in Clients \ {c} : Underway(d)' = Underway(d)
<1>1. \A d \in Clients \ {c} : Underway(d)' = Underway(d)
  BY DEF Write, Underway, TypeInv, TypeOK
<1>2. /\ frame[c] \in Seq(Frame) /\ Len(frame[c]) = 1 /\ sendCh[c] \in Seq(Frame)
      /\ frame'[c] = <<>> /\ sendCh'[c] = sendCh[c]
  BY DEF Write, TypeInv, TypeOK
<1>3. frame'[c] \o sendCh'[c] = sendCh[c]
  BY <1>2, ConcatEmptySeq
<1> QED
  BY <1>1, <1>2, <1>3, TailOfConcat DEF Underway

\* Each step of a Broadcast raises what the clients can have been sent, or
\* leaves it.
LEMMA ReachedType ==
    ASSUME TypeInv, CastsOK, NEW c \in Clients, NEW s \in Symbols
    PROVE  Reached(c, s) \in Nat /\ Reached(c, s) <= sent[s]
<1>1. cast[s] \in Casts /\ sent[s] \in Nat /\ CastOK(cast[s], sent[s]) /\ c # "none"
  BY SessionAssumption DEF TypeInv, TypeOK, Casts, CastsOK, SessionAssumption
<1> QED
  BY <1>1 DEF Reached, CastOK, Casts

LEMMA ReachedRises ==
    ASSUME TypeInv, TypeInv', CastsOK, CastsOK', NEW s \in Symbols, Broadcast(s),
           NEW c \in Clients, NEW t \in Symbols
    PROVE  /\ Reached(c, t) <= Reached(c, t)'
           /\ SendNext(s) /\ cast[s].at = c =>
                  Reached(c, s) = cast[s].next - 1 /\ cast[s].next <= Reached(c, s)'
<1>1. /\ cast[s] \in Casts /\ sent[s] \in Nat /\ CastOK(cast[s], sent[s]) /\ c # "none"
      /\ cast'[s] \in Casts /\ sent'[s] \in Nat /\ clients \subseteq Clients /\ "none" \notin Clients
  BY SessionAssumption DEF TypeInv, TypeOK, Casts, CastsOK, SessionAssumption
<1>2. CASE t # s
  <2>1. Reached(c, t)' = Reached(c, t)
    BY <1>2, OtherCasts DEF Reached
  <2>2. SendNext(s) /\ cast[s].at = c => Reached(c, s) = cast[s].next - 1 /\ cast[s].next <= Reached(c, s)'
    <3>1. SUFFICES ASSUME SendNext(s), cast[s].at = c
                   PROVE  Reached(c, s) = cast[s].next - 1 /\ cast[s].next <= Reached(c, s)'
      OBVIOUS
    <3>2. /\ cast'[s].busy = cast[s].busy /\ cast'[s].todo = cast[s].todo
          /\ cast'[s].first = cast[s].first /\ cast'[s].last = cast[s].last /\ sent' = sent
      BY <3>1, SendEffect
    <3>3. \/ /\ cast[s].next < cast[s].last /\ cast'[s].next = cast[s].next + 1
             /\ cast'[s].at = cast[s].at
          \/ /\ ~(cast[s].next < cast[s].last) /\ cast'[s].at = "none"
      BY <3>1, SendEffect
    <3> QED
      BY <1>1, <3>1, <3>2, <3>3 DEF Reached, CastOK, Casts
  <2> QED
    BY <1>1, <2>1, <2>2, ReachedType
<1>3. CASE t = s /\ BroadcastBegin(s)
  <2>1. PICK k \in Nat \ {0} :
            /\ cast'[s] = [busy |-> TRUE, todo |-> clients, at |-> "none", enc |-> "none",
                           first |-> sent[s] + 1, next |-> sent[s] + 1, last |-> sent[s] + k]
            /\ sent'[s] = sent[s] + k
    BY <1>3, BeginEffect
  <2>2. cast'[s].todo = clients /\ cast'[s].at = "none" /\ cast'[s].first = sent[s] + 1
    BY <2>1
  <2>3. ~cast[s].busy /\ cast[s].at = "none" /\ ~SendNext(s)
    BY <1>1, <1>3 DEF BroadcastBegin, SendNext, CastOK
  <2> QED
    BY <1>1, <1>3, <2>1, <2>2, <2>3 DEF Reached
<1>4. CASE t = s /\ NextClient(s)
  <2>1. PICK d \in cast[s].todo : /\ cast'[s].todo = cast[s].todo \ {d}
                                  /\ cast'[s].at = IF IsSubscribed(d, s) THEN d ELSE "none"
    BY <1>4, NextEffect
  <2>2. /\ cast'[s].busy = cast[s].busy /\ cast'[s].first = cast[s].first
        /\ cast'[s].next = cast[s].next /\ cast'[s].last = cast[s].last
        /\ cast[s].busy /\ cast[s].at = "none" /\ sent' = sent
    BY <1>4, NextEffect
  <2> QED
    BY <1>1, <1>4, <2>1, <2>2 DEF Reached, CastOK, Casts
<1>5. CASE t = s /\ ReadFormat(s)
  <2>1. /\ cast'[s].busy = cast[s].busy /\ cast'[s].todo = cast[s].todo /\ cast'[s].at = cast[s].at
        /\ cast'[s].first = cast[s].first /\ cast'[s].next = cast[s].next
        /\ sent' = sent /\ cast[s].enc = "none"
    BY <1>5, FormatEffect
  <2>2. Reached(c, s)' = Reached(c, s) /\ ~SendNext(s)
    BY <2>1 DEF Reached, SendNext
  <2> QED
    BY <1>5, <2>2, ReachedType
<1>6. CASE t = s /\ SendNext(s)
  <2>1. /\ cast'[s].busy = cast[s].busy /\ cast'[s].todo = cast[s].todo
        /\ cast'[s].first = cast[s].first /\ cast'[s].last = cast[s].last /\ sent' = sent
    BY <1>6, SendEffect
  <2>2. \/ /\ cast[s].next < cast[s].last /\ cast'[s].next = cast[s].next + 1
           /\ cast'[s].at = cast[s].at
        \/ /\ ~(cast[s].next < cast[s].last) /\ cast'[s].at = "none"
    BY <1>6, SendEffect
  <2> QED
    BY <1>1, <1>6, <2>1, <2>2 DEF Reached, CastOK, Casts
<1>7. CASE t = s /\ BroadcastEnd(s)
  <2>1. cast[s].at = "none" /\ cast[s].todo = {} /\ cast'[s] = IdleCast /\ sent' = sent
    BY <1>7, EndEffect
  <2>2. cast'[s].at = "none" /\ cast'[s].todo = {}
    BY <2>1 DEF IdleCast
  <2>3. Reached(c, s)' = Reached(c, s) /\ ~SendNext(s)
    BY <1>1, <2>1, <2>2 DEF Reached, SendNext
  <2> QED
    BY <1>7, <2>3, ReachedType
<1> QED
  BY <1>2, <1>3, <1>4, <1>5, <1>6, <1>7 DEF Broadcast

\* A frame put into a channel: a directory, or the message the Broadcast sends
\* next.
LEMMA OrderSend ==
    ASSUME TypeInv, CastsOK, OrderInv, NEW c \in Clients, NEW f \in Frame, Send(c, f),
           UNCHANGED <<frame, wire>>,
           \A d \in Clients, s \in Symbols :
               Reached(d, s)' \in Nat /\ Reached(d, s) <= Reached(d, s)',
           \A s \in Symbols : f.sym = s /\ f.n # 0 => f.n \in Reached(c, s) + 1 .. Reached(c, s)'
    PROVE  OrderInv'
<1>1. SUFFICES ASSUME NEW d \in Clients, NEW s \in Symbols
               PROVE  /\ wire[d][s] <= Reached(d, s)'
                      /\ Rising(Underway(d)', s, wire[d][s], Reached(d, s)')
  BY DEF OrderInv, Rising
<1>2. /\ wire[d][s] \in Nat /\ Reached(d, s) \in Nat /\ Reached(d, s)' \in Nat
      /\ wire[d][s] <= Reached(d, s) /\ Reached(d, s) <= Reached(d, s)'
      /\ Rising(Underway(d), s, wire[d][s], Reached(d, s)) /\ Underway(d) \in Seq(Frame)
  BY ReachedType, UnderwayType DEF OrderInv, TypeInv, TypeOK
<1>3. wire[d][s] <= Reached(d, s)'
  BY <1>2
<1>4. CASE Underway(d)' = Underway(d)
  BY <1>2, <1>3, <1>4, RisingHigher
<1>5. CASE d = c /\ Underway(d)' = Append(Underway(d), f)
  <2>1. Reached(d, s) \in Int /\ Reached(d, s)' \in Int
    BY <1>2
  <2>2. Rising(Append(Underway(d), f), s, wire[d][s], Reached(d, s)')
    BY <1>2, <1>5, <2>1, RisingAppend
  <2> QED
    BY <1>3, <1>5, <2>2
<1> QED
  BY <1>4, <1>5, UnderwaySend

LEMMA OrderKept ==
    ASSUME TypeInv, CastsOK, OrderInv, UNCHANGED wire,
           \A d \in Clients : Underway(d)' = Underway(d),
           \A d \in Clients, s \in Symbols :
               Reached(d, s)' \in Nat /\ Reached(d, s) <= Reached(d, s)'
    PROVE  OrderInv'
<1>1. SUFFICES ASSUME NEW d \in Clients, NEW s \in Symbols
               PROVE  /\ wire[d][s] <= Reached(d, s)'
                      /\ Rising(Underway(d), s, wire[d][s], Reached(d, s)')
  BY DEF OrderInv, Rising
<1>2. /\ wire[d][s] \in Nat /\ Reached(d, s) \in Nat /\ Reached(d, s)' \in Nat
      /\ wire[d][s] <= Reached(d, s) /\ Reached(d, s) <= Reached(d, s)'
      /\ Rising(Underway(d), s, wire[d][s], Reached(d, s)) /\ Underway(d) \in Seq(Frame)
  BY ReachedType, UnderwayType DEF OrderInv, TypeInv, TypeOK
<1> QED
  BY <1>2, RisingHigher

LEMMA OrderWrite ==
    ASSUME TypeInv, CastsOK, OrderInv, NEW c \in Clients, Write(c)
    PROVE  OrderInv'
<1> DEFINE f == frame[c][1]
<1>1. \A d \in Clients, s \in Symbols : Reached(d, s)' = Reached(d, s)
  BY DEF Write, writeFrame, Reached
<1>2. SUFFICES ASSUME NEW d \in Clients, NEW s \in Symbols
               PROVE  /\ wire'[d][s] <= Reached(d, s)
                      /\ Rising(Underway(d)', s, wire'[d][s], Reached(d, s))
  BY <1>1 DEF OrderInv, Rising
<1>3. /\ wire[d][s] \in Nat /\ Reached(d, s) \in Nat /\ wire[d][s] <= Reached(d, s)
      /\ Rising(Underway(d), s, wire[d][s], Reached(d, s)) /\ Underway(d) \in Seq(Frame)
  BY ReachedType, UnderwayType DEF OrderInv, TypeInv, TypeOK
<1>4. f.n \in Nat /\ f.sym \in Symbols
  <2>1. frame[c] \in Seq(Frame) /\ Len(frame[c]) = 1
    BY DEF Write, TypeInv, TypeOK
  <2>2. f \in Frame
    BY <2>1, ElementOfSeq
  <2> QED
    BY <2>2 DEF Frame
<1>5. wire' = wire \/ (f.n # 0 /\ wire' = [wire EXCEPT ![c] = [wire[c] EXCEPT ![f.sym] = f.n]])
  BY DEF Write
<1>6. CASE d # c
  <2>1. wire'[d] = wire[d] /\ Underway(d)' = Underway(d)
    BY <1>5, <1>6, UnderwayWrite DEF TypeInv, TypeOK
  <2> QED
    BY <1>3, <2>1
<1>7. CASE d = c
  <2>1. /\ Underway(d) # <<>> /\ Underway(d)[1] = f /\ Underway(d)' = Tail(Underway(d))
    BY <1>7, UnderwayWrite
  <2> HIDE DEF f
  <2>2. \/ wire'[d][s] = wire[d][s]
        \/ f.n # 0 /\ f.sym = s /\ wire'[d][s] = f.n
    BY <1>4, <1>5, <1>7, SMTT(30) DEF TypeInv, TypeOK
  <2>3. /\ ~(f.sym = s /\ f.n # 0) => Rising(Tail(Underway(d)), s, wire[d][s], Reached(d, s))
        /\ f.sym = s /\ f.n # 0 => f.n <= Reached(d, s) /\ Rising(Tail(Underway(d)), s, f.n, Reached(d, s))
    <3>1. Reached(d, s) \in Int
      BY <1>3
    <3> QED
      BY <1>3, <2>1, <3>1, RisingTail
  <2>4. f.sym = s /\ f.n # 0 => wire[d][s] < f.n
    BY <1>3, <2>1, FrameSeq, EmptySeq DEF Rising
  <2>5. CASE wire'[d][s] = wire[d][s] /\ f.sym = s /\ f.n # 0
    \* The write failed: the frame is lost.
    <3>1. Rising(Tail(Underway(d)), s, wire[d][s], Reached(d, s))
      <4>1. Tail(Underway(d)) \in Seq(Frame)
        BY <1>3, <2>1, HeadTailProperties
      <4> QED
        BY <1>3, <1>4, <2>3, <2>4, <2>5, <4>1, FrameSeq DEF Rising
    <3> QED
      BY <1>3, <2>1, <2>5, <3>1
  <2> QED
    BY <1>3, <2>1, <2>2, <2>3, <2>5
<1> QED
  BY <1>6, <1>7

LEMMA OrderBroadcast ==
    ASSUME TypeInv, TypeInv', CastsOK, CastsOK', OrderInv, NEW s \in Symbols, Broadcast(s)
    PROVE  OrderInv'
<1>1. \A d \in Clients, t \in Symbols : Reached(d, t)' \in Nat /\ Reached(d, t) <= Reached(d, t)'
  <2>1. ASSUME NEW d \in Clients, NEW t \in Symbols PROVE Reached(d, t)' \in Nat
    <3>1. cast'[t] \in Casts /\ sent'[t] \in Nat /\ CastOK(cast[t], sent[t])' /\ d # "none"
      BY SessionAssumption DEF TypeInv, TypeOK, Casts, CastsOK, SessionAssumption
    <3> QED
      BY <3>1 DEF Reached, CastOK, Casts
  <2> QED
    BY <2>1, ReachedRises
<1>2. UNCHANGED <<frame, wire>>
  BY DEF Broadcast, BroadcastBegin, NextClient, ReadFormat, SendNext, BroadcastEnd, castFrame
<1>3. CASE UNCHANGED sendCh
  BY <1>1, <1>2, <1>3, OrderKept DEF Underway
<1>4. CASE SendNext(s)
  <2>1. PICK c \in Clients : c = cast[s].at
    BY <1>4 DEF SendNext, TypeInv, TypeOK
  <2>2. PICK f \in Frame : f = [sym |-> s, n |-> cast[s].next, enc |-> cast[s].enc]
    <3>1. cast[s].next \in Nat /\ cast[s].enc \in Formats
      BY <1>4 DEF SendNext, TypeInv, TypeOK
    <3> QED
      BY ONLY <3>1, s \in Symbols DEF Frame
  <2>3. Send(c, f) /\ f.sym = s /\ f.n = cast[s].next /\ cast[s].next \in Nat
    BY <1>4, <2>1, <2>2 DEF SendNext, TypeInv, TypeOK
  <2>4. Reached(c, s) = cast[s].next - 1 /\ cast[s].next <= Reached(c, s)'
    BY <1>4, <2>1, ReachedRises
  <2>5. \A t \in Symbols : f.sym = t /\ f.n # 0 => f.n \in Reached(c, t) + 1 .. Reached(c, t)'
    BY <1>1, <2>3, <2>4
  <2> QED
    BY <1>1, <1>2, <2>3, <2>5, OrderSend
<1> QED
  BY <1>3, <1>4 DEF Broadcast, BroadcastBegin, NextClient, ReadFormat, BroadcastEnd

\* A client sees the messages of a symbol in the order in which they were
\* produced, and none twice, whatever the full buffers drop.
THEOREM MessagesInOrder == Spec => []InOrder
<1>1. Init => OrderInv
  <2>1. SUFFICES ASSUME Init, NEW c \in Clients, NEW s \in Symbols
                 PROVE  /\ wire[c][s] <= Reached(c, s)
                        /\ Rising(Underway(c), s, wire[c][s], Reached(c, s))
    BY DEF OrderInv
  <2>2. wire[c][s] = 0 /\ Reached(c, s) = 0
    BY <2>1, SessionAssumption DEF Init, Reached, IdleCast, SessionAssumption
  <2>3. Underway(c) = <<>>
    BY <2>1, ConcatEmptySeq DEF Init, Underway
  <2>4. DOMAIN Underway(c) = {}
    BY <2>3
  <2> QED
    BY <2>2, <2>4 DEF Rising
<1>2. ASSUME TypeInv, TypeInv', CastsOK, CastsOK', OrderInv, [Next]_vars PROVE OrderInv'
  <2> USE <1>2
  <2>1. CASE UNCHANGED <<cast, sent>>
    <3>1. \A d \in Clients, s \in Symbols : Reached(d, s)' = Reached(d, s)
      BY <2>1 DEF Reached
    <3>2. \A d \in Clients, s \in Symbols : Reached(d, s)' \in Nat /\ Reached(d, s) <= Reached(d, s)'
      BY <3>1, ReachedType
    <3>3. CASE UNCHANGED <<sendCh, frame, wire>>
      BY <3>2, <3>3, OrderKept DEF Underway
    <3>4. ASSUME NEW c \in Clients, SendToClient(c) PROVE OrderInv'
      <4>1. directory[c] \in Seq(Symbols) /\ directory[c] # <<>>
        BY <3>4 DEF SendToClient, TypeInv, TypeOK, DirectoryLeft
      <4>2. Head(directory[c]) \in Symbols
        BY <4>1, HeadTailProperties
      <4>3. PICK f \in Frame : f = [sym |-> Head(directory[c]), n |-> 0, enc |-> format[c]]
        BY <4>2 DEF Frame, TypeInv, TypeOK
      <4>4. f.n = 0 /\ Send(c, f) /\ UNCHANGED <<frame, wire>>
        BY <3>4, <4>3 DEF SendToClient
      <4> QED
        BY <3>2, <4>4, OrderSend
    <3>5. ASSUME NEW c \in Clients, Take(c) PROVE OrderInv'
      BY <3>2, <3>5, OrderKept, UnderwayTake DEF Take
    <3>6. ASSUME NEW c \in Clients, Register(c) \/ PeerGone(c) \/ readPump(c) \/ writePump(c)
          PROVE  OrderInv'
      BY <3>3, <3>4, <3>5, <3>6, OrderWrite
         DEF Register, PeerGone, readPump, Subscribe, Unsubscribe, SetFormat, ReadFails, Unregister,
             readFrame, writePump, StopWriting, writeFrame
    <3>7. CASE UNCHANGED vars
      BY <3>3, <3>7 DEF vars
    <3>8. CASE \E s \in Symbols : Broadcast(s)
      BY <3>8, OrderBroadcast
    <3> QED
      BY <3>6, <3>7, <3>8 DEF Next
  <2>2. ASSUME NEW c \in Clients, Register(c) \/ PeerGone(c) \/ readPump(c) \/ writePump(c)
        PROVE  UNCHANGED <<cast, sent>>
    BY <2>2 DEF Register, PeerGone, readPump, Subscribe, Unsubscribe, SetFormat, ReadFails, Unregister,
                SendToClient, readFrame, writePump, Take, Write, StopWriting, writeFrame
  <2> QED
    BY <2>1, <2>2, OrderBroadcast DEF Next, vars
<1>3. TypeInv /\ CastsOK /\ OrderInv => InOrder
  <2>1. SUFFICES ASSUME TypeInv, CastsOK, OrderInv, NEW c \in Clients, NEW s \in Symbols
                 PROVE  /\ \A i \in Places(c, s) : Underway(c)[i].n \in wire[c][s] + 1 .. sent[s]
                        /\ \A i, k \in Places(c, s) : i < k => Underway(c)[i].n < Underway(c)[k].n
    BY DEF InOrder
  <2>2. /\ Reached(c, s) \in Nat /\ Reached(c, s) <= sent[s] /\ sent[s] \in Nat /\ wire[c][s] \in Nat
        /\ Rising(Underway(c), s, wire[c][s], Reached(c, s))
    BY <2>1, ReachedType DEF OrderInv, TypeInv, TypeOK
  <2> QED
    BY <2>2 DEF Places, Rising
<1> QED
  BY <1>1, <1>2, <1>3, TypeInvariant, CastsInvariant, PTL DEF Spec

-----------------------------------------------------------------------------
(* The type of a client's frames.                                          *)

\* The client has sent no subscribe.
Unasked(c) == \A i \in DOMAIN controls[c] : controls[c][i] # "subscribe"

\* Nothing is on its way to a client before it subscribes, and what is on its
\* way to one that has set its format before is in that format.
TypedInv ==
    \A c \in Clients :
        /\ Unasked(c) => /\ symbols[c] = {} /\ ~allSymbols[c] /\ reader[c] # "directory"
                         /\ DOMAIN Underway(c) = {}
                         /\ \A s \in Symbols : cast[s].at # c
        /\ ~Sends(c, "subscribe", "format") =>
               /\ \A i \in DOMAIN Underway(c) : Underway(c)[i].enc = format[c]
               /\ \A s \in Symbols : cast[s].at = c /\ cast[s].enc # "none" => cast[s].enc = format[c]

\* What a control message adds to the client's history.
LEMMA ControlEffect ==
    ASSUME TypeInv, NEW c \in Clients, NEW kind \in {"subscribe", "unsubscribe", "format"},
           Control(c, kind)
    PROVE  /\ \A d \in Clients \ {c} : controls'[d] = controls[d]
           /\ Unasked(c)' => Unasked(c) /\ kind # "subscribe"
           /\ Sends(c, "subscribe", "format") => Sends(c, "subscribe", "format")'
           /\ kind = "format" /\ ~Unasked(c) => Sends(c, "subscribe", "format")'
<1> DEFINE K == {"subscribe", "unsubscribe", "format"}
           h == controls[c]
           g == Append(controls[c], kind)
<1>1. controls \in [Clients -> Seq(K)] /\ controls' = [controls EXCEPT ![c] = g]
  BY DEF Control, TypeInv, TypeOK
<1>2. controls'[c] = g /\ h \in Seq(K) /\ \A d \in Clients \ {c} : controls'[d] = controls[d]
  BY <1>1
<1> HIDE DEF K
<1>3. Len(h) \in Nat /\ DOMAIN h = 1 .. Len(h)
  BY <1>2, LenProperties
<1>4. kind \in K
  BY DEF K
<1>5. /\ g \in Seq(K) /\ Len(g) = Len(h) + 1 /\ g[Len(h) + 1] = kind
      /\ \A i \in 1 .. Len(h) : g[i] = h[i]
  BY <1>2, <1>4, AppendProperties
<1>6. DOMAIN g = 1 .. Len(h) + 1
  BY <1>5, LenProperties
<1> HIDE DEF g
<1>7. Unasked(c)' => Unasked(c) /\ kind # "subscribe"
  BY <1>2, <1>3, <1>5, <1>6 DEF Unasked, h
<1>8. Sends(c, "subscribe", "format") => Sends(c, "subscribe", "format")'
  BY <1>2, <1>3, <1>5, <1>6 DEF Sends, h
<1>9. kind = "format" /\ ~Unasked(c) => Sends(c, "subscribe", "format")'
  <2>1. SUFFICES ASSUME kind = "format", NEW i \in DOMAIN h, h[i] = "subscribe"
                 PROVE  Sends(c, "subscribe", "format")'
    BY DEF Unasked, h
  <2>2. i \in DOMAIN g /\ Len(h) + 1 \in DOMAIN g /\ i < Len(h) + 1
        /\ g[i] = "subscribe" /\ g[Len(h) + 1] = "format"
    BY <1>3, <1>5, <1>6, <2>1
  <2>3. \E k \in DOMAIN g : i < k /\ g[i] = "subscribe" /\ g[k] = "format"
    BY <2>2
  <2> QED
    BY <1>2, <2>2, <2>3 DEF Sends
<1> QED
  BY <1>2, <1>7, <1>8, <1>9

LEMMA TypedControl ==
    ASSUME TypeInv, TypedInv, NEW c \in Clients, Subscribe(c) \/ Unsubscribe(c) \/ SetFormat(c)
    PROVE  TypedInv'
<1>1. UNCHANGED <<cast, frame, sendCh>> /\ \A d \in Clients : Underway(d)' = Underway(d)
  BY DEF Subscribe, Unsubscribe, SetFormat, readFrame, Underway
<1>2. PICK kind \in {"subscribe", "unsubscribe", "format"} :
          /\ Control(c, kind)
          /\ kind # "subscribe" => Unsubscribe(c) \/ SetFormat(c)
          /\ kind # "format" => UNCHANGED format
  BY DEF Subscribe, Unsubscribe, SetFormat
<1>3. SUFFICES ASSUME NEW d \in Clients
               PROVE  /\ Unasked(d)' => /\ symbols'[d] = {} /\ ~allSymbols'[d] /\ reader'[d] # "directory"
                                        /\ DOMAIN Underway(d) = {}
                                        /\ \A s \in Symbols : cast[s].at # d
                      /\ ~Sends(d, "subscribe", "format")' =>
                             /\ \A i \in DOMAIN Underway(d) : Underway(d)[i].enc = format'[d]
                             /\ \A s \in Symbols : cast[s].at = d /\ cast[s].enc # "none" =>
                                    cast[s].enc = format'[d]
  BY <1>1 DEF TypedInv
<1>4. CASE d # c
  <2>1. controls'[d] = controls[d]
    BY <1>2, <1>4, ControlEffect
  <2>2. (Unasked(d)' <=> Unasked(d)) /\ (Sends(d, "subscribe", "format")' <=> Sends(d, "subscribe", "format"))
    BY <2>1 DEF Unasked, Sends
  <2>3. symbols'[d] = symbols[d] /\ allSymbols'[d] = allSymbols[d] /\ reader'[d] = reader[d]
        /\ format'[d] = format[d]
    BY <1>4 DEF Subscribe, Unsubscribe, SetFormat, TypeInv, TypeOK
  <2> QED
    BY <2>2, <2>3 DEF TypedInv
<1>5. CASE d = c
  <2>1. ASSUME Unasked(c)'
        PROVE  /\ symbols'[c] = {} /\ ~allSymbols'[c] /\ reader'[c] # "directory"
               /\ DOMAIN Underway(c) = {} /\ \A s \in Symbols : cast[s].at # c
    <3>1. Unasked(c) /\ (Unsubscribe(c) \/ SetFormat(c))
      BY <1>2, <2>1, ControlEffect
    <3>2. symbols'[c] \subseteq symbols[c] /\ allSymbols'[c] = allSymbols[c] /\ reader'[c] = reader[c]
      BY <3>1 DEF Unsubscribe, SetFormat, TypeInv, TypeOK
    <3> QED
      BY <3>1, <3>2 DEF TypedInv
  <2>2. ASSUME ~Sends(c, "subscribe", "format")'
        PROVE  /\ \A i \in DOMAIN Underway(c) : Underway(c)[i].enc = format'[c]
               /\ \A s \in Symbols : cast[s].at = c /\ cast[s].enc # "none" => cast[s].enc = format'[c]
    <3>1. CASE kind = "format"
      <4>1. Unasked(c)
        BY <1>2, <2>2, <3>1, ControlEffect
      <4> QED
        BY <4>1 DEF TypedInv
    <3>2. CASE kind # "format"
      <4>1. ~Sends(c, "subscribe", "format") /\ format' = format
        BY <1>2, <2>2, <3>2, ControlEffect
      <4> QED
        BY <4>1 DEF TypedInv
    <3> QED
      BY <3>1, <3>2
  <2> QED
    BY <1>5, <2>1, <2>2
<1> QED
  BY <1>4, <1>5

\* A frame made in the client's format.
LEMMA TypedSend ==
    ASSUME TypeInv, TypedInv, NEW c \in Clients, NEW f \in Frame, Send(c, f), ~Unasked(c),
           ~Sends(c, "subscribe", "format") => f.enc = format[c],
           UNCHANGED <<frame, format, controls, symbols, allSymbols>>,
           \A d \in Clients : reader'[d] = reader[d] \/ d = c,
           \A s \in Symbols : \/ cast'[s] = cast[s]
                              \/ cast'[s].at = "none"
                              \/ cast'[s].at = cast[s].at /\ cast'[s].enc = cast[s].enc
    PROVE  TypedInv'
<1>1. \A d \in Clients : /\ Unasked(d)' <=> Unasked(d)
                         /\ Sends(d, "subscribe", "format")' <=> Sends(d, "subscribe", "format")
  BY DEF Unasked, Sends
<1>2. SUFFICES ASSUME NEW d \in Clients
               PROVE  /\ Unasked(d) => /\ symbols[d] = {} /\ ~allSymbols[d] /\ reader'[d] # "directory"
                                       /\ DOMAIN Underway(d)' = {}
                                       /\ \A s \in Symbols : cast'[s].at # d
                      /\ ~Sends(d, "subscribe", "format") =>
                             /\ \A i \in DOMAIN Underway(d)' : Underway(d)'[i].enc = format[d]
                             /\ \A s \in Symbols : cast'[s].at = d /\ cast'[s].enc # "none" =>
                                    cast'[s].enc = format[d]
  BY <1>1 DEF TypedInv
<1>3. /\ Unasked(d) => \A s \in Symbols : cast'[s].at # d
      /\ ~Sends(d, "subscribe", "format") =>
             \A s \in Symbols : cast'[s].at = d /\ cast'[s].enc # "none" => cast'[s].enc = format[d]
  BY SessionAssumption DEF TypedInv, SessionAssumption
<1>4. CASE d # c
  BY <1>3, <1>4, UnderwaySend DEF TypedInv
<1>5. CASE d = c
  <2>1. CASE Underway(c)' = Underway(c)
    BY <1>3, <1>5, <2>1 DEF TypedInv
  <2>2. CASE Underway(c)' = Append(Underway(c), f)
    <3>1. /\ Len(Underway(c)) \in Nat /\ DOMAIN Underway(c) = 1 .. Len(Underway(c))
          /\ DOMAIN Underway(c)' = 1 .. Len(Underway(c)) + 1
          /\ \A i \in 1 .. Len(Underway(c)) : Underway(c)'[i] = Underway(c)[i]
          /\ Underway(c)'[Len(Underway(c)) + 1] = f
      BY <2>2, UnderwayType, FrameSeq, FrameAppend
    <3>2. ~Sends(c, "subscribe", "format") =>
              \A i \in DOMAIN Underway(c)' : Underway(c)'[i].enc = format[c]
      BY <3>1 DEF TypedInv
    <3> QED
      BY <1>3, <1>5, <3>2
  <2> QED
    BY <2>1, <2>2, UnderwaySend
<1> QED
  BY <1>4, <1>5

\* Steps that put nothing into a channel and change no format.
LEMMA TypedKept ==
    ASSUME TypeInv, TypedInv, UNCHANGED <<format, controls, symbols, allSymbols>>,
           \A d \in Clients : reader'[d] = "directory" => reader[d] = "directory",
           \A d \in Clients :
               \/ Underway(d)' = Underway(d)
               \/ Underway(d) # <<>> /\ Underway(d)' = Tail(Underway(d)),
           \A s \in Symbols : \/ cast'[s].at = "none"
                              \/ cast'[s].enc = "none" /\ cast'[s].at = cast[s].at
                              \/ cast'[s].at = cast[s].at /\ cast'[s].enc = cast[s].enc
                              \/ cast'[s].at = cast[s].at /\ cast'[s].enc = format[cast[s].at]
                              \/ cast'[s].enc = "none" /\ \E d \in Clients : cast'[s].at = d /\ IsSubscribed(d, s)
    PROVE  TypedInv'
<1>1. \A d \in Clients : /\ Unasked(d)' <=> Unasked(d)
                         /\ Sends(d, "subscribe", "format")' <=> Sends(d, "subscribe", "format")
  BY DEF Unasked, Sends
<1>2. SUFFICES ASSUME NEW d \in Clients
               PROVE  /\ Unasked(d) => /\ symbols[d] = {} /\ ~allSymbols[d] /\ reader'[d] # "directory"
                                       /\ DOMAIN Underway(d)' = {}
                                       /\ \A s \in Symbols : cast'[s].at # d
                      /\ ~Sends(d, "subscribe", "format") =>
                             /\ \A i \in DOMAIN Underway(d)' : Underway(d)'[i].enc = format[d]
                             /\ \A s \in Symbols : cast'[s].at = d /\ cast'[s].enc # "none" =>
                                    cast'[s].enc = format[d]
  BY <1>1 DEF TypedInv
<1>3. d # "none"
  BY SessionAssumption DEF SessionAssumption
<1>4. ASSUME Unasked(d), NEW s \in Symbols PROVE cast'[s].at # d
  <2>1. symbols[d] = {} /\ ~allSymbols[d] /\ cast[s].at # d
    BY <1>4 DEF TypedInv
  <2> QED
    BY <1>3, <2>1 DEF IsSubscribed
<1>5. ASSUME ~Sends(d, "subscribe", "format"), NEW s \in Symbols, cast'[s].at = d, cast'[s].enc # "none"
      PROVE  cast'[s].enc = format[d]
  BY <1>3, <1>5 DEF TypedInv
<1>6. CASE Underway(d)' = Underway(d)
  BY <1>4, <1>5, <1>6 DEF TypedInv
<1>7. CASE Underway(d) # <<>> /\ Underway(d)' = Tail(Underway(d))
  <2>1. /\ Len(Underway(d)) \in Nat /\ Len(Underway(d)) >= 1
        /\ DOMAIN Underway(d) = 1 .. Len(Underway(d))
        /\ DOMAIN Underway(d)' = 1 .. Len(Underway(d)) - 1
        /\ \A i \in 1 .. Len(Underway(d)) - 1 : Underway(d)'[i] = Underway(d)[i + 1]
    BY <1>7, UnderwayType, FrameSeq, FrameTail
  <2>2. ~Unasked(d)
    <3>1. 1 \in DOMAIN Underway(d)
      BY <2>1
    <3> QED
      BY <3>1 DEF TypedInv
  <2>3. ASSUME ~Sends(d, "subscribe", "format"), NEW i \in DOMAIN Underway(d)'
        PROVE  Underway(d)'[i].enc = format[d]
    <3>1. i + 1 \in DOMAIN Underway(d) /\ Underway(d)'[i] = Underway(d)[i + 1]
      BY <2>1, <2>3
    <3> QED
      BY <2>3, <3>1 DEF TypedInv
  <2> QED
    BY <1>4, <1>5, <2>2, <2>3
<1> QED
  BY <1>6, <1>7

LEMMA TypedBroadcast ==
    ASSUME TypeInv, CastsOK, TypedInv, NEW s \in Symbols, Broadcast(s)
    PROVE  TypedInv'
<1>1. UNCHANGED <<frame, format, controls, symbols, allSymbols, reader>>
  BY DEF Broadcast, BroadcastBegin, NextClient, ReadFormat, SendNext, BroadcastEnd, castFrame
<1>2. \A t \in Symbols \ {s} : cast'[t] = cast[t]
  BY OtherCasts
<1>3. CASE SendNext(s)
  <2>1. PICK c \in Clients : c = cast[s].at
    BY <1>3 DEF SendNext, TypeInv, TypeOK
  <2>2. PICK f \in Frame : f = [sym |-> s, n |-> cast[s].next, enc |-> cast[s].enc]
    BY <1>3 DEF SendNext, TypeInv, TypeOK, Frame
  <2>3. Send(c, f) /\ f.enc = cast[s].enc
    BY <1>3, <2>1, <2>2 DEF SendNext
  <2>4. ~Unasked(c) /\ (~Sends(c, "subscribe", "format") => f.enc = format[c])
    BY <1>3, <2>1, <2>3 DEF SendNext, TypedInv
  <2>5. cast'[s].at = "none" \/ (cast'[s].at = cast[s].at /\ cast'[s].enc = cast[s].enc)
    BY <1>3, SendEffect
  <2> QED
    BY <1>1, <1>2, <2>3, <2>4, <2>5, TypedSend
<1>4. CASE UNCHANGED sendCh
  <2>1. CASE BroadcastBegin(s)
    <3>1. PICK k \in Nat \ {0} :
              cast'[s] = [busy |-> TRUE, todo |-> clients, at |-> "none", enc |-> "none",
                          first |-> sent[s] + 1, next |-> sent[s] + 1, last |-> sent[s] + k]
      BY <2>1, BeginEffect
    <3>2. cast'[s].at = "none"
      BY <3>1
    <3> QED
      BY <1>1, <1>2, <1>4, <3>2, TypedKept DEF Underway
  <2>2. CASE NextClient(s)
    <3>1. cast'[s].enc = cast[s].enc /\ cast[s].at = "none"
          /\ \E c \in cast[s].todo : cast'[s].at = IF IsSubscribed(c, s) THEN c ELSE "none"
      BY <2>2, NextEffect
    <3>2. cast[s].enc = "none" /\ cast[s].todo \subseteq Clients
      BY <3>1 DEF CastsOK, CastOK, TypeInv, TypeOK
    <3>3. \/ cast'[s].at = "none"
          \/ cast'[s].enc = "none" /\ \E d \in Clients : cast'[s].at = d /\ IsSubscribed(d, s)
      BY <3>1, <3>2
    <3> QED
      BY <1>1, <1>2, <1>4, <3>3, TypedKept DEF Underway
  <2>3. CASE ReadFormat(s)
    <3>1. cast'[s].enc = format[cast[s].at] /\ cast'[s].at = cast[s].at
      BY <2>3, FormatEffect
    <3> QED
      BY <1>1, <1>2, <1>4, <3>1, TypedKept DEF Underway
  <2>4. CASE BroadcastEnd(s)
    <3>1. cast'[s].at = "none"
      BY <2>4, EndEffect DEF IdleCast
    <3> QED
      BY <1>1, <1>2, <1>4, <3>1, TypedKept DEF Underway
  <2> QED
    BY <1>3, <2>1, <2>2, <2>3, <2>4 DEF Broadcast
<1> QED
  BY <1>3, <1>4 DEF Broadcast, BroadcastBegin, NextClient, ReadFormat, BroadcastEnd

\* Everything on its way to a client that sets its format before it first
\* subscribes is encoded as writePump types it.
THEOREM TypedFrames == Spec => []FramesTyped
<1>1. Init => TypedInv
  <2>1. SUFFICES ASSUME Init, NEW c \in Clients
                 PROVE  /\ symbols[c] = {} /\ ~allSymbols[c] /\ reader[c] # "directory"
                        /\ DOMAIN Underway(c) = {}
                        /\ \A s \in Symbols : cast[s].at # c
    BY DEF TypedInv
  <2>2. Underway(c) = <<>>
    BY <2>1, ConcatEmptySeq DEF Init, Underway
  <2>3. DOMAIN Underway(c) = {}
    BY <2>2
  <2> QED
    BY <2>1, <2>3, SessionAssumption DEF Init, IdleCast, SessionAssumption
<1>2. ASSUME TypeInv, CastsOK, TypedInv, [Next]_vars PROVE TypedInv'
  <2> USE <1>2
  <2>1. CASE UNCHANGED <<cast, frame, sendCh, format, controls, symbols, allSymbols>>
             /\ \A d \in Clients : reader'[d] = "directory" => reader[d] = "directory"
    BY <2>1, TypedKept DEF Underway
  <2>2. ASSUME NEW c \in Clients, Register(c) \/ PeerGone(c) PROVE TypedInv'
    BY <2>1, <2>2 DEF Register, PeerGone, TypeInv, TypeOK
  <2>3. ASSUME NEW c \in Clients, ReadFails(c) \/ Unregister(c) PROVE TypedInv'
    BY <2>1, <2>3 DEF ReadFails, Unregister, readFrame, TypeInv, TypeOK
  <2>4. ASSUME NEW c \in Clients, SendToClient(c) PROVE TypedInv'
    <3>1. directory[c] \in Seq(Symbols) /\ directory[c] # <<>>
      BY <2>4 DEF SendToClient, TypeInv, TypeOK, DirectoryLeft
    <3>2. Head(directory[c]) \in Symbols
      BY <3>1, HeadTailProperties
    <3>3. PICK f \in Frame : f = [sym |-> Head(directory[c]), n |-> 0, enc |-> format[c]]
      BY <3>2 DEF Frame, TypeInv, TypeOK
    <3>4. f.enc = format[c] /\ Send(c, f) /\ UNCHANGED <<frame, format, controls, symbols, allSymbols, cast>>
      BY <2>4, <3>3 DEF SendToClient
    <3>5. ~Unasked(c) /\ \A d \in Clients : reader'[d] = reader[d] \/ d = c
      BY <2>4 DEF SendToClient, TypedInv, TypeInv, TypeOK
    <3> QED
      BY <3>4, <3>5, TypedSend
  <2>5. ASSUME NEW c \in Clients, Take(c) PROVE TypedInv'
    BY <2>5, TypedKept, UnderwayTake DEF Take, writeFrame
  <2>6. ASSUME NEW c \in Clients, Write(c) PROVE TypedInv'
    BY <2>6, TypedKept, UnderwayWrite DEF Write, writeFrame
  <2>7. ASSUME NEW c \in Clients, StopWriting(c) PROVE TypedInv'
    BY <2>1, <2>7 DEF StopWriting, writeFrame
  <2>8. CASE UNCHANGED vars
    BY <2>1, <2>8 DEF vars
  <2> QED
    BY <2>2, <2>3, <2>4, <2>5, <2>6, <2>7, <2>8, TypedControl, TypedBroadcast
       DEF Next, readPump, writePump
<1>3. TypedInv => FramesTyped
  BY DEF TypedInv, FramesTyped
<1> QED
  BY <1>1, <1>2, <1>3, TypeInvariant, CastsInvariant, PTL DEF Spec

-----------------------------------------------------------------------------
(* A field is read back as it was written.                                 *)

\* A function on 1 .. n is a sequence, and the other way round.
LEMMA FunctionIsSeq ==
    ASSUME NEW n \in Nat, NEW B, NEW t \in [1 .. n -> B]
    PROVE  t \in Seq(B) /\ Len(t) = n
BY SeqDef

LEMMA SeqIsFunction ==
    ASSUME NEW B, NEW t \in Seq(B), NEW n \in Nat, n = Len(t)
    PROVE  t \in [1 .. n -> B]
OBVIOUS

\* Sequences with the same elements are the same.
LEMMA SameSeq ==
    ASSUME NEW B, NEW s \in Seq(B), NEW t \in Seq(B), Len(s) = Len(t), \A i \in 1 .. Len(s) : s[i] = t[i]
    PROVE  s = t
OBVIOUS

\* The slice [a:b] of a sequence.
LEMMA SliceFacts ==
    ASSUME NEW B, NEW s \in Seq(B), NEW a \in Nat, NEW b \in Nat, a <= b, b <= Len(s)
    PROVE  /\ SubSeq(s, a + 1, b) \in Seq(B) /\ Len(SubSeq(s, a + 1, b)) = b - a
           /\ \A i \in 1 .. b - a : SubSeq(s, a + 1, b)[i] = s[a + i]
<1>1. \A i \in a + 1 .. b : s[i] \in B
  OBVIOUS
<1>2. SubSeq(s, a + 1, b) \in Seq(B)
  BY <1>1
<1>3. Len(SubSeq(s, a + 1, b)) = b - a
  OBVIOUS
<1>4. \A i \in 1 .. b - a : SubSeq(s, a + 1, b)[i] = s[a + i]
  <2> SUFFICES ASSUME NEW i \in 1 .. b - a PROVE SubSeq(s, a + 1, b)[i] = s[a + i]
    OBVIOUS
  <2>1. (a + 1) + i - 1 = a + i
    OBVIOUS
  <2> QED
    BY <1>3, <2>1
<1> QED
  BY <1>2, <1>3, <1>4

\* Two sequences, one after the other.
LEMMA JoinFacts ==
    ASSUME NEW B, NEW s \in Seq(B), NEW t \in Seq(B)
    PROVE  /\ s \o t \in Seq(B) /\ Len(s \o t) = Len(s) + Len(t)
           /\ \A i \in 1 .. Len(s) : (s \o t)[i] = s[i]
           /\ \A i \in 1 .. Len(t) : (s \o t)[Len(s) + i] = t[i]
<1>1. s \o t \in Seq(B) /\ Len(s \o t) = Len(s) + Len(t)
  OBVIOUS
<1>2. \A i \in 1 .. Len(s) : (s \o t)[i] = s[i]
  OBVIOUS
<1>3. \A i \in 1 .. Len(t) : (s \o t)[Len(s) + i] = t[i]
  OBVIOUS
<1> QED
  BY <1>1, <1>2, <1>3

\* Either of two sequences is a slice of both.
LEMMA Parts ==
    ASSUME NEW B, NEW s \in Seq(B), NEW t \in Seq(B), NEW m \in Nat, NEW n \in Nat, m = Len(s), n = m + Len(t)
    PROVE  SubSeq(s \o t, 1, m) = s /\ SubSeq(s \o t, m + 1, n) = t
<1>1. /\ s \o t \in Seq(B) /\ Len(s \o t) = n /\ Len(t) \in Nat
      /\ \A i \in 1 .. m : (s \o t)[i] = s[i]
      /\ \A i \in 1 .. Len(t) : (s \o t)[m + i] = t[i]
  BY JoinFacts
<1>2. PICK u : u = s \o t
  OBVIOUS
<1>3. SubSeq(u, 1, m) = s
  <2>1. /\ SubSeq(u, 0 + 1, m) \in Seq(B) /\ Len(SubSeq(u, 0 + 1, m)) = m - 0
        /\ \A i \in 1 .. m - 0 : SubSeq(u, 0 + 1, m)[i] = u[0 + i]
    <3>1. u \in Seq(B) /\ 0 \in Nat /\ 0 <= m /\ m <= Len(u)
      BY <1>1, <1>2
    <3> QED
      BY ONLY <3>1, SliceFacts, m \in Nat
  <2>2. \A i \in 1 .. m : SubSeq(u, 0 + 1, m)[i] = s[i]
    BY <1>1, <1>2, <2>1
  <2>3. SubSeq(u, 0 + 1, m) = s
    BY <2>1, <2>2, SameSeq
  <2> QED
    BY <2>3
<1>4. SubSeq(u, m + 1, n) = t
  <2>1. /\ SubSeq(u, m + 1, n) \in Seq(B) /\ Len(SubSeq(u, m + 1, n)) = n - m
        /\ \A i \in 1 .. n - m : SubSeq(u, m + 1, n)[i] = u[m + i]
    <3>1. u \in Seq(B) /\ m <= n /\ n <= Len(u)
      BY <1>1, <1>2
    <3> QED
      BY ONLY <3>1, SliceFacts, m \in Nat, n \in Nat
  <2>2. n - m = Len(t)
    BY <1>1
  <2>3. \A i \in 1 .. Len(t) : SubSeq(u, m + 1, n)[i] = t[i]
    BY <1>1, <1>2, <2>1, <2>2
  <2> QED
    BY <2>1, <2>2, <2>3, SameSeq
<1> QED
  BY <1>2, <1>3, <1>4

\* Quotient and remainder.
LEMMA DivMod ==
    ASSUME NEW x \in Int, NEW k \in Nat \ {0}
    PROVE  \E q, r \in Int : /\ q = x \div k /\ r = x % k
                             /\ k * q + r = x /\ 0 <= r /\ r < k
<1>1. x \div k \in Int /\ x % k \in Int
  BY SMT
<1>2. PICK q \in Int, r \in Int : q = x \div k /\ r = x % k
  BY <1>1
<1>3. k * q + r = x /\ 0 <= r /\ r < k
  BY <1>2, SMT
<1> QED
  BY <1>2, <1>3

\* binary.BigEndian: what PutUint16 writes, Uint16 reads.
LEMMA Uint16Back ==
    ASSUME NEW x, Fits16(x)
    PROVE  PutUint16(x) \in [1 .. 2 -> Byte] /\ Uint16(PutUint16(x)) = x
<1>1. x \in Nat /\ x < 65536
  BY DEF Fits16
<1>2. PICK q \in Int, r \in Int : q = x \div 256 /\ r = x % 256 /\ 256 * q + r = x /\ 0 <= r /\ r < 256
  BY <1>1, DivMod
<1>3. q \in Byte /\ r \in Byte
  BY <1>1, <1>2, SMT DEF Byte
<1>4. q % 256 = q
  BY <1>3, SMT DEF Byte
<1>5. PutUint16(x) = <<q, r>>
  BY <1>2, <1>4 DEF PutUint16
<1>6. Uint16(<<q, r>>) = q * 256 + r
  BY DEF Uint16
<1>7. q * 256 + r = x
  BY <1>2, SMT
<1>8. <<q, r>> \in [1 .. 2 -> Byte]
  BY <1>3
<1> QED
  BY <1>5, <1>6, <1>7, <1>8

\* The same for 32 bits.
LEMMA Uint32Back ==
    ASSUME NEW x, Fits32(x)
    PROVE  PutUint32(x) \in [1 .. 4 -> Byte] /\ Uint32(PutUint32(x)) = x
<1>1. x \in Nat /\ x \div 65536 < 65536
  BY DEF Fits32
<1>2. PICK q \in Int, r \in Int : /\ q = x \div 65536 /\ r = x % 65536
                                  /\ 65536 * q + r = x /\ 0 <= r /\ r < 65536
  BY <1>1, DivMod
<1>3. Fits16(q) /\ Fits16(r)
  BY <1>1, <1>2, SMT DEF Fits16
<1> DEFINE a == PutUint16(q)
           b == PutUint16(r)
<1>4. a \in [1 .. 2 -> Byte] /\ b \in [1 .. 2 -> Byte] /\ Uint16(a) = q /\ Uint16(b) = r
  BY <1>3, Uint16Back
<1> HIDE DEF a, b
<1>5. a \in Seq(Byte) /\ b \in Seq(Byte) /\ Len(a) = 2 /\ Len(b) = 2
  BY <1>4, FunctionIsSeq
<1>6. a \o b \in Seq(Byte) /\ Len(a \o b) = 4 /\ SubSeq(a \o b, 1, 2) = a /\ SubSeq(a \o b, 3, 4) = b
  <2>1. PICK m \in Nat, n \in Nat : m = 2 /\ n = 4 /\ m + 1 = 3 /\ m = Len(a) /\ n = m + Len(b)
    BY <1>5
  <2>2. SubSeq(a \o b, 1, m) = a /\ SubSeq(a \o b, m + 1, n) = b
    <3>1. a \in Seq(Byte) /\ b \in Seq(Byte) /\ m = Len(a) /\ n = m + Len(b)
      BY <1>5, <2>1
    <3> QED
      BY ONLY <3>1, Parts, m \in Nat, n \in Nat
  <2>3. a \o b \in Seq(Byte) /\ Len(a \o b) = Len(a) + Len(b)
    BY <1>5, JoinFacts
  <2> QED
    BY <1>5, <2>1, <2>2, <2>3
<1>7. a \o b \in [1 .. 4 -> Byte]
  BY <1>6, SeqIsFunction
<1>8. Uint32(a \o b) = q * 65536 + r
  <2> HIDE DEF a, b
  <2>1. PICK w : w = 65536
    OBVIOUS
  <2>2. Uint32(a \o b) = Uint16(SubSeq(a \o b, 1, 2)) * w + Uint16(SubSeq(a \o b, 3, 4))
    BY <2>1 DEF Uint32
  <2>3. Uint32(a \o b) = q * w + r
    BY ONLY <1>4, <1>6, <2>2, Zenon
  <2> QED
    BY <2>1, <2>3
<1>9. PutUint32(x) = a \o b
  BY <1>2 DEF PutUint32, a, b
<1>10. q * 65536 + r = x
  BY <1>2, SMT
<1> QED
  BY <1>7, <1>8, <1>9, <1>10

\* The printed price is the one JSON has.
LEMMA PriceBack ==
    ASSUME NEW n \in Nat
    PROVE  fmtPrice4(Price4(n)) = formatPrice(n)
<1>1. PICK q \in Int, r \in Int : q = n \div 100 /\ r = n % 100 /\ 100 * q + r = n /\ 0 <= r /\ r < 100
  BY DivMod
<1>2. n * 100 = 10000 * q + 100 * r /\ 0 <= 100 * r /\ 100 * r < 10000 /\ r * 100 = 100 * r
  BY <1>1, SMT
<1>3. (n * 100) \div 10000 = q /\ (n * 100) % 10000 = 100 * r
  BY <1>1, <1>2, SMT
<1> QED
  BY <1>1, <1>2, <1>3 DEF Price4, fmtPrice4, formatPrice

\* Trimming undoes padding.
LEMMA TextBack ==
    ASSUME NEW width \in Nat, NEW s, Text(s, width)
    PROVE  Pad(s, width) \in [1 .. width -> Byte] /\ readStock(Pad(s, width)) = s
<1>1. s \in Seq(Byte) /\ Len(s) \in 0 .. width /\ (s # <<>> => s[Len(s)] # Space)
  <2>1. s \in Seq(ASCII) /\ Len(s) \in 0 .. width /\ (s # <<>> => s[Len(s)] \notin White)
    BY DEF Text
  <2>2. ASCII \subseteq Byte
    BY DEF ASCII, Byte
  <2>3. s \in Seq(Byte)
    BY ONLY <2>1, <2>2
  <2>4. Space \in White
    BY DEF Space, White
  <2> QED
    BY ONLY <2>1, <2>3, <2>4
<1> DEFINE p == Pad(s, width)
<1>2. p \in [1 .. width -> Byte]
  <2>1. Space \in Byte
    BY DEF Space, Byte
  <2>2. \A k \in 1 .. width : (IF k <= Len(s) THEN s[k] ELSE Space) \in Byte
    BY <1>1, <2>1
  <2> QED
    BY <2>2 DEF Pad
<1>3. DOMAIN p = 1 .. width /\ \A k \in 1 .. width : p[k] = IF k <= Len(s) THEN s[k] ELSE Space
  BY DEF Pad
<1> DEFINE K == {0} \cup {k \in DOMAIN p : p[k] # Space}
<1>4. Len(s) \in K
  <2>1. CASE s = <<>>
    BY <1>1, <2>1
  <2>2. CASE s # <<>>
    <3>1. Len(s) # 0 /\ s[Len(s)] # Space
      BY <1>1, <2>2
    <3> HIDE DEF p
    <3>2. Len(s) \in 1 .. width
      BY <1>1, <3>1
    <3> QED
      BY <1>3, <3>1, <3>2
  <2> QED
    BY <2>1, <2>2
<1>5. \A k \in K : k \in Nat /\ k <= Len(s)
  <2> HIDE DEF p
  <2> QED
    BY <1>1, <1>3
<1>6. Max(K) = Len(s)
  <2> HIDE DEF K
  <2> QED
    BY <1>1, <1>4, <1>5 DEF Max
<1>7. readStock(p) = SubSeq(p, 1, Len(s))
  BY <1>6 DEF readStock
<1>8. SubSeq(p, 1, Len(s)) = s
  <2> HIDE DEF p, K
  <2>1. \A k \in 1 .. Len(s) : p[k] = s[k]
    BY <1>1, <1>3
  <2> QED
    BY <1>1, <2>1
<1> QED
  BY <1>2, <1>7, <1>8

\* There is nothing to trim from a ticker or an MPID.
LEMMA TrimBack ==
    ASSUME NEW width \in Nat, NEW s, Text(s, width)
    PROVE  TrimSpace(s) = s
<1>1. /\ s \in Seq(ASCII) /\ Len(s) \in Nat /\ DOMAIN s = 1 .. Len(s)
      /\ s # <<>> => s[1] \notin White /\ s[Len(s)] \notin White
  BY DEF Text
<1> DEFINE ink == {k \in DOMAIN s : s[k] \notin White}
<1>2. CASE s = <<>>
  <2>1. ink = {}
    BY <1>2
  <2> QED
    BY <1>2, <2>1 DEF TrimSpace
<1>3. CASE s # <<>>
  <2>1. Len(s) >= 1 /\ 1 \in ink /\ Len(s) \in ink
    BY <1>1, <1>3
  <2>2. \A k \in ink : k \in Int /\ 1 <= k /\ k <= Len(s)
    BY <1>1
  <2>3. Min(ink) = 1
    <3> HIDE DEF ink
    <3>1. \A x \in ink : (\A y \in ink : x <= y) => x = 1
      BY <2>1, <2>2
    <3>2. \A y \in ink : 1 <= y
      BY <2>2
    <3> QED
      BY ONLY <2>1, <3>1, <3>2 DEF Min
  <2>4. Max(ink) = Len(s)
    <3> HIDE DEF ink
    <3>1. \A x \in ink : (\A y \in ink : x >= y) => x = Len(s)
      BY <1>1, <2>1, <2>2
    <3>2. \A y \in ink : Len(s) >= y
      BY <1>1, <2>2
    <3> QED
      BY ONLY <2>1, <3>1, <3>2 DEF Max
  <2>5. TrimSpace(s) = SubSeq(s, 1, Len(s))
    <3>1. TrimSpace(s) = IF ink = {} THEN <<>> ELSE SubSeq(s, Min(ink), Max(ink))
      BY DEF TrimSpace
    <3> HIDE DEF ink
    <3> QED
      BY ONLY <2>1, <2>3, <2>4, <3>1
  <2>6. SubSeq(s, 1, Len(s)) = s
    BY ONLY <1>1
  <2> QED
    BY <2>5, <2>6
<1> QED
  BY <1>2, <1>3

\* A time of day has no more than the six bytes that are sent.
LEMMA TimeBack ==
    ASSUME NEW t \in [1 .. 8 -> Byte], t[1] = 0, t[2] = 0
    PROVE  putTimestamp(t) \in [1 .. 6 -> Byte] /\ readTimestamp(putTimestamp(t)) = t
<1>1. t \in Seq(Byte) /\ Len(t) = 8
  <2>1. 8 \in Nat
    OBVIOUS
  <2> QED
    BY ONLY <2>1, FunctionIsSeq, t \in [1 .. 8 -> Byte]
<1> DEFINE p == putTimestamp(t)
           z == <<0, 0>>
<1>2. p \in Seq(Byte) /\ Len(p) = 6 /\ \A k \in 1 .. 6 : p[k] = t[2 + k]
  <2>1. /\ SubSeq(t, 2 + 1, 8) \in Seq(Byte) /\ Len(SubSeq(t, 2 + 1, 8)) = 8 - 2
        /\ \A k \in 1 .. 8 - 2 : SubSeq(t, 2 + 1, 8)[k] = t[2 + k]
    <3>1. 2 \in Nat /\ 8 \in Nat /\ 2 <= 8 /\ 8 <= Len(t)
      BY <1>1
    <3> QED
      BY ONLY <1>1, <3>1, SliceFacts
  <2>2. p = SubSeq(t, 2 + 1, 8)
    BY DEF putTimestamp
  <2> HIDE DEF p
  <2> QED
    BY <2>1, <2>2
<1>3. z \in Seq(Byte) /\ Len(z) = 2 /\ z[1] = 0 /\ z[2] = 0
  BY DEF Byte
<1>4. readTimestamp(p) = z \o p
  BY DEF readTimestamp
<1> HIDE DEF p, z
<1>5. /\ z \o p \in Seq(Byte) /\ Len(z \o p) = 8
      /\ \A i \in 1 .. 2 : (z \o p)[i] = z[i]
      /\ \A i \in 1 .. 6 : (z \o p)[2 + i] = p[i]
  <2>1. /\ z \o p \in Seq(Byte) /\ Len(z \o p) = Len(z) + Len(p)
        /\ \A i \in 1 .. Len(z) : (z \o p)[i] = z[i]
        /\ \A i \in 1 .. Len(p) : (z \o p)[Len(z) + i] = p[i]
    <3>1. z \in Seq(Byte) /\ p \in Seq(Byte)
      BY <1>2, <1>3
    <3> QED
      BY ONLY <3>1, JoinFacts
  <2>2. Len(z) = 2 /\ Len(p) = 6 /\ 2 + 6 = 8
    BY <1>2, <1>3
  <2>3. Len(z \o p) = 2 + 6
    BY ONLY <2>1, <2>2, Zenon
  <2>4. /\ \A i \in 1 .. 2 : (z \o p)[i] = z[i]
        /\ \A i \in 1 .. 6 : (z \o p)[2 + i] = p[i]
    BY ONLY <2>1, <2>2, Zenon
  <2> QED
    BY <2>1, <2>2, <2>3, <2>4
<1>6. \A k \in 1 .. 8 : (z \o p)[k] = t[k]
  <2> SUFFICES ASSUME NEW k \in 1 .. 8 PROVE (z \o p)[k] = t[k]
    OBVIOUS
  <2>1. CASE k = 1
    BY <1>3, <1>5, <2>1
  <2>2. CASE k = 2
    BY <1>3, <1>5, <2>2
  <2>3. CASE k \in 3 .. 8
    <3>1. PICK j \in 1 .. 6 : k = 2 + j
      BY <2>3
    <3>2. (z \o p)[2 + j] = p[j] /\ p[j] = t[2 + j]
      BY <1>2, <1>5
    <3> QED
      BY <3>1, <3>2
  <2>4. k = 1 \/ k = 2 \/ k \in 3 .. 8
    OBVIOUS
  <2> QED
    BY <2>1, <2>2, <2>3, <2>4
<1>7. z \o p = t
  BY <1>1, <1>5, <1>6, SameSeq
<1>8. p \in [1 .. 6 -> Byte]
  BY <1>2, SeqIsFunction
<1> QED
  BY <1>4, <1>7, <1>8 DEF p

-----------------------------------------------------------------------------
(* The fields.                                                             *)

\* The bytes a field takes.
Width(f) ==
    CASE f \in {"StockLocate", "TrackingNum", "IssueSubType"}                      -> 2
      [] f \in {"Shares", "RoundLotSize", "ETPLeverageFactor", "Price", "MPID", "Reason"} -> 4
      [] f = "Timestamp"                                                           -> 6
      [] f \in Uint64s \cup {"Stock"}                                              -> 8
      [] OTHER                                                                     -> 1

Fields == OneByte \cup Uint64s \cup
    {"Type", "StockLocate", "TrackingNum", "Timestamp", "Shares", "RoundLotSize", "ETPLeverageFactor",
     "Price", "Stock", "MPID", "IssueSubType", "Reason"}

\* The fields that are read.
Printed == OneByte \cup Uint64s \cup
    {"StockLocate", "Timestamp", "Shares", "RoundLotSize", "Price", "Stock", "MPID"}

\* A field of one byte.
LEMMA OneBytePut ==
    ASSUME NEW m, Message(m), NEW f \in OneByte \cup {"Type"}
    PROVE  Put(m, f) = <<m[f]>> /\ m[f] \in Byte /\ Width(f) = 1 /\ (f # "Type" => Get(f, Put(m, f)) = m[f])
<1>1. /\ f \notin {"StockLocate", "TrackingNum"} /\ f # "Timestamp" /\ f \notin Uint64s
      /\ f \notin {"Shares", "RoundLotSize", "ETPLeverageFactor"} /\ f # "Price" /\ f # "Stock"
      /\ f # "MPID" /\ f # "IssueSubType" /\ f # "Reason"
  BY DEF OneByte, Uint64s
<1>2. Put(m, f) = <<m[f]>>
  BY <1>1 DEF Put
<1>3. m[f] \in Byte
  <2>1. CASE f = "Type"
    <3>1. m.Type \in MsgTypes
      BY DEF Message
    <3>2. MsgTypes \subseteq Byte
      BY DEF MsgTypes, Byte, MsgSystemEvent, MsgStockDirectory, MsgStockTradingAction, MsgAddOrder, MsgAddOrderMPID,
             MsgOrderExecuted, MsgOrderCancel, MsgOrderDelete, MsgOrderReplace, MsgTrade
    <3> QED
      BY <2>1, <3>1, <3>2
  <2>2. CASE f \in OneByte
    BY <2>2 DEF Message
  <2> QED
    BY <2>1, <2>2
<1>4. Width(f) = 1
  BY <1>1 DEF Width
<1>5. Get(f, <<m[f]>>) = m[f]
  BY <1>1 DEF Get
<1> QED
  BY <1>2, <1>3, <1>4, <1>5

\* What the encoder puts into a field, the decoder reads out of it.
LEMMA FieldBack ==
    ASSUME NEW m, Message(m), NEW f \in Fields
    PROVE  /\ Put(m, f) \in [1 .. Width(f) -> Byte]
           /\ f \in Printed => Get(f, Put(m, f)) = IF f = "Price" THEN formatPrice(m.Price) ELSE m[f]
<1>1. CASE f \in OneByte \cup {"Type"}
  <2>1. Put(m, f) \in [1 .. Width(f) -> Byte]
    <3>1. PICK x \in Byte : Put(m, f) = <<x>> /\ Width(f) = 1
      BY <1>1, OneBytePut
    <3>2. <<x>> \in [1 .. 1 -> Byte]
      OBVIOUS
    <3> QED
      BY <3>1, <3>2
  <2>2. f \in Printed => f # "Type" /\ f # "Price"
    BY <1>1 DEF Printed, OneByte, Uint64s
  <2> QED
    BY <1>1, <2>1, <2>2, OneBytePut
<1>2. CASE f \in {"StockLocate", "TrackingNum"}
  <2>1. Put(m, f) = PutUint16(m[f]) /\ Width(f) = 2
    BY <1>2 DEF Put, Width, Uint64s
  <2>2. Fits16(m[f])
    BY <1>2 DEF Message
  <2>3. Put(m, f) \in [1 .. 2 -> Byte] /\ Uint16(Put(m, f)) = m[f]
    BY <2>1, <2>2, Uint16Back
  <2>4. f \in Printed => Get(f, Put(m, f)) = Uint16(Put(m, f))
    BY <1>2 DEF Printed, OneByte, Uint64s, Get
  <2> QED
    BY <1>2, <2>1, <2>3, <2>4
<1>3. CASE f \in {"Shares", "RoundLotSize", "ETPLeverageFactor"}
  <2>1. Put(m, f) = PutUint32(m[f]) /\ Width(f) = 4
    BY <1>3 DEF Put, Width, Uint64s
  <2>2. Fits32(m[f])
    BY <1>3 DEF Message
  <2>3. Put(m, f) \in [1 .. 4 -> Byte] /\ Uint32(Put(m, f)) = m[f]
    BY <2>1, <2>2, Uint32Back
  <2>4. f \in Printed => Get(f, Put(m, f)) = Uint32(Put(m, f))
    BY <1>3 DEF Printed, OneByte, Uint64s, Get
  <2> QED
    BY <1>3, <2>1, <2>3, <2>4
<1>4. CASE f = "Price"
  <2>1. Put(m, f) = PutUint32(Price4(m.Price)) /\ Width(f) = 4
    BY <1>4 DEF Put, Width, Uint64s
  <2>2. Fits32(Price4(m.Price)) /\ m.Price \in Nat
    BY DEF Message
  <2>3. Put(m, f) \in [1 .. 4 -> Byte] /\ Uint32(Put(m, f)) = Price4(m.Price)
    BY <2>1, <2>2, Uint32Back
  <2>4. Get(f, Put(m, f)) = fmtPrice4(Uint32(Put(m, f)))
    BY <1>4 DEF Uint64s, Get
  <2> QED
    BY <1>4, <2>1, <2>2, <2>3, <2>4, PriceBack
<1>5. CASE f = "Timestamp"
  <2>1. Put(m, f) = putTimestamp(m.Timestamp) /\ Width(f) = 6
    BY <1>5 DEF Put, Width, Uint64s
  <2>2. m.Timestamp \in [1 .. 8 -> Byte] /\ m.Timestamp[1] = 0 /\ m.Timestamp[2] = 0
    BY DEF Message
  <2>3. putTimestamp(m.Timestamp) \in [1 .. 6 -> Byte] /\ readTimestamp(putTimestamp(m.Timestamp)) = m.Timestamp
    BY <2>2, TimeBack
  <2>4. Get(f, Put(m, f)) = readTimestamp(Put(m, f))
    BY <1>5 DEF Uint64s, Get
  <2> QED
    BY <1>5, <2>1, <2>3, <2>4
<1>6. CASE f \in Uint64s
  <2>1. Put(m, f) = m[f] /\ Width(f) = 8
    BY <1>6 DEF Put, Width, Uint64s
  <2>2. m[f] \in [1 .. 8 -> Byte]
    BY <1>6 DEF Message
  <2>3. Get(f, Put(m, f)) = Put(m, f) /\ f # "Price"
    BY <1>6 DEF Uint64s, Get
  <2> QED
    BY <2>1, <2>2, <2>3
<1>7. CASE f = "Stock"
  <2>1. Put(m, f) = Pad(m.Stock, 8) /\ Width(f) = 8
    BY <1>7 DEF Put, Width, Uint64s
  <2>2. Text(m.Stock, 8) /\ 8 \in Nat
    BY DEF Message
  <2>3. Pad(m.Stock, 8) \in [1 .. 8 -> Byte] /\ readStock(Pad(m.Stock, 8)) = m.Stock
    BY ONLY <2>2, TextBack
  <2>4. Get(f, Put(m, f)) = readStock(Put(m, f))
    BY <1>7 DEF Uint64s, Get
  <2> QED
    BY <1>7, <2>1, <2>3, <2>4
<1>8. CASE f = "MPID"
  <2>1. Put(m, f) = Pad(m.MPID, 4) /\ Width(f) = 4
    BY <1>8 DEF Put, Width, Uint64s
  <2>2. Text(m.MPID, 4) /\ 4 \in Nat
    BY DEF Message
  <2>3. Pad(m.MPID, 4) \in [1 .. 4 -> Byte] /\ readStock(Pad(m.MPID, 4)) = m.MPID
    BY ONLY <2>2, TextBack
  <2>4. Get(f, Put(m, f)) = readStock(Put(m, f))
    BY <1>8 DEF Uint64s, Get
  <2> QED
    BY <1>8, <2>1, <2>3, <2>4
<1>9. CASE f \in {"IssueSubType", "Reason"}
  <2>1. f \notin Printed
    BY <1>9 DEF Printed, OneByte, Uint64s
  <2>2. CASE f = "IssueSubType"
    <3>1. Put(m, f) = m.IssueSubType /\ Width(f) = 2
      BY <2>2 DEF Put, Width, Uint64s
    <3>2. m.IssueSubType \in [1 .. 2 -> Byte]
      BY DEF Message
    <3> QED
      BY <2>1, <3>1, <3>2
  <2>3. CASE f = "Reason"
    <3>1. Put(m, f) = Pad(<<>>, 4) /\ Width(f) = 4
      BY <2>3 DEF Put, Width, Uint64s
    <3>2. <<>> \in Seq(ASCII) /\ Len(<<>>) <= 4
      OBVIOUS
    <3>3. Text(<<>>, 4) /\ 4 \in Nat
      BY <3>2 DEF Text
    <3>4. Pad(<<>>, 4) \in [1 .. 4 -> Byte]
      BY ONLY <3>3, TextBack
    <3> QED
      BY <2>1, <3>1, <3>4
  <2> QED
    BY <1>9, <2>2, <2>3
<1> QED
  BY <1>1, <1>2, <1>3, <1>4, <1>5, <1>6, <1>7, <1>8, <1>9 DEF Fields

\* A set of numbers that is not empty has a least one.
LEMMA LeastNat ==
    ASSUME NEW S \in SUBSET Nat, S # {}
    PROVE  \E x \in S : \A y \in S : x <= y
<1>1. PICK x \in S : \A y \in S : ~(<<y, x>> \in OpToRel(<, Nat))
  BY NatLessThanWellFounded, WFMin
<1>2. \A y \in S : ~(y < x)
  BY <1>1 DEF OpToRel
<1> QED
  BY <1>2

\* A set that holds 0 and with a number the next one holds all of them.
LEMMA NatByNext ==
    ASSUME NEW S, 0 \in S, \A j \in Nat : j \in S => j + 1 \in S
    PROVE  \A j \in Nat : j \in S
<1> DEFINE R == Nat \ S
<1>1. SUFFICES ASSUME R # {} PROVE FALSE
  OBVIOUS
<1>2. R \in SUBSET Nat
  OBVIOUS
<1>3. \E x \in R : \A y \in R : x <= y
  BY ONLY <1>1, <1>2, LeastNat
<1>4. PICK x \in R : \A y \in R : x <= y
  BY <1>3
<1>5. x # 0 /\ x \in Nat
  BY <1>4
<1>6. x - 1 \in Nat /\ x - 1 + 1 = x /\ ~(x <= x - 1)
  BY <1>5
<1>7. x - 1 \in S
  BY <1>4, <1>6
<1> QED
  BY <1>4, <1>6, <1>7

-----------------------------------------------------------------------------
(* Layouts: slices side by side, each as wide as its field.                *)

Slot == Fields \X Nat \X Nat

\* A run of slices from one offset to another.
Run(l, from, to) ==
    /\ l \in Seq(Slot) /\ Len(l) >= 1
    /\ l[1][2] = from /\ l[Len(l)][3] = to
    /\ \A n \in 1 .. Len(l) : l[n][3] = l[n][2] + Width(l[n][1])
    /\ \A n \in 1 .. Len(l) - 1 : l[n + 1][2] = l[n][3]

\* No field is empty.
LEMMA WidthPositive ==
    ASSUME NEW f
    PROVE  Width(f) \in Nat /\ Width(f) >= 1
BY DEF Width

\* A run and one that begins where it ends are a run.
LEMMA RunJoin ==
    ASSUME NEW s, NEW t, NEW a, NEW b, NEW c, Run(s, a, b), Run(t, b, c)
    PROVE  Run(s \o t, a, c)
<1>1. s \in Seq(Slot) /\ t \in Seq(Slot) /\ Len(s) >= 1 /\ Len(t) >= 1 /\ Len(s) \in Nat /\ Len(t) \in Nat
  BY DEF Run
<1>2. PICK u : u = s \o t
  OBVIOUS
<1>3. /\ u \in Seq(Slot) /\ Len(u) = Len(s) + Len(t)
      /\ \A i \in 1 .. Len(s) : u[i] = s[i]
      /\ \A i \in 1 .. Len(t) : u[Len(s) + i] = t[i]
  BY <1>1, <1>2, JoinFacts
<1>4. u[1] = s[1] /\ u[Len(u)] = t[Len(t)]
  BY <1>1, <1>3
<1>5. \A n \in 1 .. Len(u) : n \in 1 .. Len(s) \/ \E i \in 1 .. Len(t) : n = Len(s) + i
  <2> SUFFICES ASSUME NEW n \in 1 .. Len(u), ~(n \in 1 .. Len(s))
               PROVE  \E i \in 1 .. Len(t) : n = Len(s) + i
    OBVIOUS
  <2>1. n - Len(s) \in 1 .. Len(t) /\ n = Len(s) + (n - Len(s))
    BY <1>1, <1>3
  <2> QED
    BY <2>1
<1>6. ASSUME NEW n \in 1 .. Len(u)
      PROVE  u[n][3] = u[n][2] + Width(u[n][1])
  <2>1. CASE n \in 1 .. Len(s)
    BY <1>3, <2>1 DEF Run
  <2>2. CASE \E i \in 1 .. Len(t) : n = Len(s) + i
    <3>1. PICK i \in 1 .. Len(t) : n = Len(s) + i
      BY <2>2
    <3>2. u[n] = t[i]
      BY <1>3, <3>1
    <3> QED
      BY <3>2 DEF Run
  <2> QED
    BY <1>5, <2>1, <2>2
<1>7. ASSUME NEW n \in 1 .. Len(u) - 1
      PROVE  u[n + 1][2] = u[n][3]
  <2>1. CASE n \in 1 .. Len(s) - 1
    <3>1. n \in 1 .. Len(s) /\ n + 1 \in 1 .. Len(s)
      BY <1>1, <2>1
    <3>2. u[n] = s[n] /\ u[n + 1] = s[n + 1]
      BY ONLY <1>3, <3>1
    <3> QED
      BY <2>1, <3>2 DEF Run
  <2>2. CASE n = Len(s)
    <3>1. u[n] = s[Len(s)] /\ u[n + 1] = t[1]
      BY <1>1, <1>3, <2>2
    <3> QED
      BY <3>1 DEF Run
  <2>3. CASE n > Len(s)
    <3>1. PICK i \in 1 .. Len(t) - 1 : n = Len(s) + i
      <4>1. n - Len(s) \in 1 .. Len(t) - 1 /\ n = Len(s) + (n - Len(s))
        BY <1>1, <1>3, <2>3
      <4> QED
        BY <4>1
    <3>2. i + 1 \in 1 .. Len(t) /\ i \in 1 .. Len(t) /\ n + 1 = Len(s) + (i + 1)
      BY <1>1, <3>1
    <3>3. u[n] = t[i] /\ u[n + 1] = t[i + 1]
      BY <1>3, <3>1, <3>2
    <3> QED
      BY <3>1, <3>3 DEF Run
  <2> QED
    BY <1>1, <1>3, <2>1, <2>2, <2>3
<1>8. Run(u, a, c)
  BY <1>1, <1>3, <1>4, <1>6, <1>7 DEF Run
<1> QED
  BY <1>2, <1>8

\* Later slices begin where earlier ones have ended.
LEMMA RunOrdered ==
    ASSUME NEW l, NEW from, NEW to, Run(l, from, to), NEW n \in 1 .. Len(l), NEW k \in 1 .. Len(l), n < k
    PROVE  l[n][3] <= l[k][2]
<1> DEFINE S == {j \in Nat : n + 1 + j <= Len(l) => l[n][3] <= l[n + 1 + j][2]}
<1>1. l \in Seq(Slot) /\ Len(l) \in Nat
  BY DEF Run
<1>2. \A i \in 1 .. Len(l) : l[i][2] \in Nat /\ l[i][3] \in Nat /\ l[i][2] <= l[i][3]
  <2> SUFFICES ASSUME NEW i \in 1 .. Len(l) PROVE l[i][2] \in Nat /\ l[i][3] \in Nat /\ l[i][2] <= l[i][3]
    OBVIOUS
  <2>1. l[i] \in Slot
    BY <1>1
  <2>2. l[i][2] \in Nat /\ l[i][3] \in Nat
    BY <2>1 DEF Slot
  <2>3. l[i][3] = l[i][2] + Width(l[i][1])
    BY DEF Run
  <2> QED
    BY <2>2, <2>3, WidthPositive
<1>3. 0 \in S
  <2>1. ASSUME n + 1 + 0 <= Len(l) PROVE l[n][3] <= l[n + 1 + 0][2]
    <3>1. n \in 1 .. Len(l) - 1 /\ n + 1 \in 1 .. Len(l) /\ n + 1 + 0 = n + 1
      BY <1>1, <2>1
    <3>2. l[n + 1][2] = l[n][3]
      BY <3>1 DEF Run
    <3> QED
      BY <1>2, <3>1, <3>2
  <2> QED
    BY <2>1
<1>4. ASSUME NEW j \in Nat, j \in S PROVE j + 1 \in S
  <2>1. ASSUME n + 1 + (j + 1) <= Len(l) PROVE l[n][3] <= l[n + 1 + (j + 1)][2]
    <3>1. PICK i \in 1 .. Len(l) - 1 : i = n + 1 + j /\ i + 1 = n + 1 + (j + 1) /\ i + 1 \in 1 .. Len(l)
                                       /\ i \in 1 .. Len(l) /\ i <= Len(l)
      <4>1. n + 1 + j \in 1 .. Len(l) - 1 /\ n + 1 + j + 1 = n + 1 + (j + 1)
        BY <1>1, <2>1
      <4> QED
        BY <1>1, <4>1
    <3>2. l[n][3] <= l[i][2]
      BY <1>4, <3>1
    <3>3. l[i + 1][2] = l[i][3]
      BY DEF Run
    <3>4. l[n][3] <= l[i + 1][2]
      <4>1. l[n][3] \in Nat /\ l[i][2] \in Nat /\ l[i][3] \in Nat /\ l[i][2] <= l[i][3]
        BY <1>2, <3>1
      <4> QED
        BY <3>2, <3>3, <4>1
    <3> QED
      BY <3>1, <3>4
  <2> QED
    BY <2>1
<1>5. \A j \in Nat : j \in S
  <2> HIDE DEF S
  <2> QED
    BY <1>3, <1>4, NatByNext
<1>6. PICK j \in Nat : k = n + 1 + j
  <2>1. k - n - 1 \in Nat /\ k = n + 1 + (k - n - 1)
    BY <1>1
  <2> QED
    BY <2>1
<1>7. n + 1 + j <= Len(l) => l[n][3] <= l[n + 1 + j][2]
  BY <1>5
<1>8. n + 1 + j <= Len(l)
  BY <1>1, <1>6
<1> QED
  BY ONLY <1>6, <1>7, <1>8

\* The slices of a run.
LEMMA RunSlots ==
    ASSUME NEW l, NEW from, NEW to, Run(l, from, to), NEW i \in 1 .. Len(l)
    PROVE  /\ l[i] \in Slot /\ l[i][1] \in Fields /\ l[i][2] \in Nat /\ l[i][3] \in Nat /\ l[i][2] < l[i][3]
           /\ l[i][3] - l[i][2] = Width(l[i][1]) /\ l[i][3] <= to /\ to \in Nat
<1>1. l \in Seq(Slot) /\ Len(l) \in Nat
  BY DEF Run
<1>2. ASSUME NEW k \in 1 .. Len(l)
      PROVE  l[k] \in Slot /\ l[k][1] \in Fields /\ l[k][2] \in Nat /\ l[k][3] \in Nat /\ l[k][2] < l[k][3]
             /\ l[k][3] - l[k][2] = Width(l[k][1])
  <2>1. l[k] \in Slot
    BY <1>1
  <2>2. l[k][1] \in Fields /\ l[k][2] \in Nat /\ l[k][3] \in Nat
    BY <2>1 DEF Slot
  <2>3. l[k][3] = l[k][2] + Width(l[k][1])
    BY DEF Run
  <2> QED
    BY <2>1, <2>2, <2>3, WidthPositive
<1>3. Len(l) \in 1 .. Len(l) /\ l[Len(l)][3] = to
  BY <1>1 DEF Run
<1>4. l[i][3] <= to /\ to \in Nat
  <2>1. CASE i = Len(l)
    BY <1>2, <1>3, <2>1
  <2>2. CASE i < Len(l)
    <3>1. l[i][3] <= l[Len(l)][2]
      BY <1>3, <2>2, RunOrdered
    <3>2. l[i][3] \in Nat /\ l[Len(l)][2] \in Nat /\ l[Len(l)][3] \in Nat /\ l[Len(l)][2] < l[Len(l)][3]
      BY <1>2, <1>3
    <3> QED
      BY <1>3, <3>1, <3>2
  <2> QED
    BY <1>1, <2>1, <2>2
<1> QED
  BY <1>2, <1>4

\* The slice of a byte is the one it lies in.
LEMMA SlotFound ==
    ASSUME NEW l, NEW from, NEW to, Run(l, from, to), NEW n \in 1 .. Len(l),
           NEW i \in Int, l[n][2] <= i, i < l[n][3]
    PROVE  SlotAt(l, i) = l[n]
<1>1. l \in Seq(Slot) /\ Len(l) \in Nat /\ DOMAIN l = 1 .. Len(l)
  BY DEF Run
<1> DEFINE S == {k \in DOMAIN l : l[k][2] <= i /\ i < l[k][3]}
<1>2. n \in S
  BY <1>1
<1>3. ASSUME NEW k \in S PROVE k \in Int /\ n >= k
  <2>1. k \in 1 .. Len(l) /\ l[k][2] <= i
    BY <1>1
  <2>2. ~(n < k)
    <3> SUFFICES ASSUME n < k PROVE FALSE
      OBVIOUS
    <3>1. l[n][3] <= l[k][2]
      BY <2>1, RunOrdered
    <3>2. l[n][3] \in Nat /\ l[k][2] \in Nat
      BY <2>1, RunSlots
    <3> QED
      BY <2>1, <3>1, <3>2
  <2> QED
    BY <2>1, <2>2
<1>4. Max(S) = n
  <2> HIDE DEF S
  <2>1. \A x \in S : (\A y \in S : x >= y) => x = n
    BY <1>2, <1>3
  <2>2. \A y \in S : n >= y
    BY <1>3
  <2> QED
    BY ONLY <1>2, <2>1, <2>2 DEF Max
<1> QED
  BY <1>4 DEF SlotAt

\* Every byte lies in a slice.
LEMMA SlotExists ==
    ASSUME NEW l, NEW to, Run(l, 0, to), NEW i \in Nat, i < to
    PROVE  \E n \in 1 .. Len(l) : l[n][2] <= i /\ i < l[n][3]
<1>1. l \in Seq(Slot) /\ Len(l) \in Nat /\ Len(l) \in 1 .. Len(l) /\ l[Len(l)][3] = to
  BY DEF Run
<1> DEFINE S == {n \in 1 .. Len(l) : i < l[n][3]}
<1>2. S \in SUBSET Nat /\ S # {}
  BY <1>1
<1>3. \E n \in S : \A k \in S : n <= k
  <2> HIDE DEF S
  <2> QED
    BY <1>2, LeastNat
<1>4. PICK n \in S : \A k \in S : n <= k
  BY <1>3
<1>5. CASE n = 1
  <2>1. l[n][2] = 0
    BY <1>5 DEF Run
  <2> QED
    BY <1>4, <2>1
<1>6. CASE n # 1
  <2>1. PICK k \in 1 .. Len(l) - 1 : n = k + 1 /\ k \in 1 .. Len(l) /\ k < n
    <3>1. n - 1 \in 1 .. Len(l) - 1 /\ n = (n - 1) + 1 /\ n - 1 \in 1 .. Len(l) /\ n - 1 < n
      BY <1>1, <1>4, <1>6
    <3> QED
      BY <3>1
  <2>2. ~(i < l[k][3]) /\ l[k][3] \in Nat
    BY <1>4, <2>1, RunSlots
  <2>3. l[n][2] = l[k][3]
    BY <2>1 DEF Run
  <2> QED
    BY <1>4, <2>2, <2>3
<1> QED
  BY <1>5, <1>6

-----------------------------------------------------------------------------
(* The body.                                                               *)

\* A layout is a run from the first byte on.
LaidOut(m, l, to) == l = Layout(m.Type) /\ Run(l, 0, to)

\* Each byte of a body comes from the field whose slice it lies in.
LEMMA BodyAt ==
    ASSUME NEW m, Message(m), NEW l, NEW to, LaidOut(m, l, to)
    PROVE  /\ to \in Nat
           /\ Body(m) \in [1 .. to -> Byte]
           /\ \A n \in 1 .. Len(l) : \A i \in Nat :
                  l[n][2] <= i /\ i < l[n][3] => Body(m)[i + 1] = Put(m, l[n][1])[i + 1 - l[n][2]]
<1>1. l = Layout(m.Type) /\ Run(l, 0, to)
  BY DEF LaidOut
<1>2. l \in Seq(Slot) /\ Len(l) \in Nat /\ Len(l) \in 1 .. Len(l) /\ l[Len(l)][3] = to
  BY <1>1 DEF Run
<1>3. Last(l)[3] = to /\ to \in Nat
  <2>1. to \in Nat
    BY <1>1, <1>2, RunSlots
  <2> QED
    BY <1>2, <2>1 DEF Last
<1>4. Body(m) = [i \in 1 .. to |-> Put(m, SlotAt(l, i - 1)[1])[i - SlotAt(l, i - 1)[2]]]
  BY <1>1, <1>3 DEF Body
<1>5. ASSUME NEW n \in 1 .. Len(l), NEW i \in Nat, l[n][2] <= i, i < l[n][3]
      PROVE  Body(m)[i + 1] = Put(m, l[n][1])[i + 1 - l[n][2]] /\ Body(m)[i + 1] \in Byte
  <2>1. /\ l[n][1] \in Fields /\ l[n][2] \in Nat /\ l[n][3] \in Nat
        /\ l[n][3] - l[n][2] = Width(l[n][1]) /\ l[n][3] <= to
    BY <1>1, RunSlots
  <2>2. SlotAt(l, i) = l[n]
    BY <1>1, <1>5, SlotFound
  <2>3. PICK j \in 1 .. to : j = i + 1 /\ j - 1 = i
    <3>1. i + 1 \in 1 .. to /\ i + 1 - 1 = i
      BY <1>3, <1>5, <2>1
    <3> QED
      BY <3>1
  <2>4. Body(m)[j] = Put(m, SlotAt(l, j - 1)[1])[j - SlotAt(l, j - 1)[2]]
    BY <1>4
  <2>5. Body(m)[j] = Put(m, l[n][1])[j - l[n][2]]
    BY <2>2, <2>3, <2>4
  <2>6. Put(m, l[n][1]) \in [1 .. Width(l[n][1]) -> Byte]
    BY <2>1, FieldBack
  <2>7. j - l[n][2] \in 1 .. Width(l[n][1])
    BY <1>5, <2>1, <2>3
  <2>8. Put(m, l[n][1])[j - l[n][2]] \in Byte
    BY <2>6, <2>7
  <2>9. Body(m)[j] \in Byte
    BY ONLY <2>5, <2>8
  <2>10. i + 1 = j /\ i + 1 - l[n][2] = j - l[n][2]
    BY <2>1, <2>3
  <2> QED
    BY ONLY <2>5, <2>9, <2>10, Zenon
<1>6. \A j \in 1 .. to : Body(m)[j] \in Byte
  <2> SUFFICES ASSUME NEW j \in 1 .. to PROVE Body(m)[j] \in Byte
    OBVIOUS
  <2>1. PICK i \in Nat : i + 1 = j /\ i < to
    <3>1. j - 1 \in Nat /\ (j - 1) + 1 = j /\ j - 1 < to
      BY <1>3
    <3> QED
      BY <3>1
  <2>2. PICK n \in 1 .. Len(l) : l[n][2] <= i /\ i < l[n][3]
    BY <1>1, <2>1, SlotExists
  <2> QED
    BY <1>5, <2>1, <2>2
<1>7. Body(m) \in [1 .. to -> Byte]
  BY <1>4, <1>6
<1> QED
  BY <1>3, <1>5, <1>7

\* A slice of the body is what its field puts there.
LEMMA SliceIsField ==
    ASSUME NEW m, Message(m), NEW l, NEW to, LaidOut(m, l, to), NEW n \in 1 .. Len(l)
    PROVE  SubSeq(Body(m), l[n][2] + 1, l[n][3]) = Put(m, l[n][1])
<1>1. /\ l[n][1] \in Fields /\ l[n][2] \in Nat /\ l[n][3] \in Nat /\ l[n][2] < l[n][3]
      /\ l[n][3] - l[n][2] = Width(l[n][1]) /\ l[n][3] <= to /\ to \in Nat
  BY RunSlots DEF LaidOut
<1>2. PICK a \in Nat, b \in Nat, f \in Fields, w \in Nat :
          a = l[n][2] /\ b = l[n][3] /\ f = l[n][1] /\ a < b /\ w = b - a /\ w = Width(f) /\ b <= to
  BY <1>1
<1>3. PICK s : s = Body(m)
  OBVIOUS
<1>4. s \in Seq(Byte) /\ Len(s) = to
  BY <1>1, <1>3, BodyAt, FunctionIsSeq
<1>5. PICK p : p = Put(m, f)
  OBVIOUS
<1>6. p \in Seq(Byte) /\ Len(p) = w
  BY <1>2, <1>5, FieldBack, FunctionIsSeq
<1>7. PICK q : q = SubSeq(s, a + 1, b)
  OBVIOUS
<1>8. q \in Seq(Byte) /\ Len(q) = w /\ \A i \in 1 .. w : q[i] = s[a + i]
  <2>1. a <= b /\ b <= Len(s)
    BY <1>2, <1>4
  <2>2. q \in Seq(Byte) /\ Len(q) = b - a /\ \A i \in 1 .. b - a : q[i] = s[a + i]
    BY ONLY <1>4, <1>7, <2>1, SliceFacts, a \in Nat, b \in Nat
  <2> QED
    BY <1>2, <2>2
<1>9. \A i \in 1 .. w : s[a + i] = p[i]
  <2> SUFFICES ASSUME NEW i \in 1 .. w PROVE s[a + i] = p[i]
    OBVIOUS
  <2>1. PICK j \in Nat : j = a + i - 1 /\ a <= j /\ j < b /\ j + 1 = a + i /\ j + 1 - a = i
    <3>1. i \in Nat /\ i >= 1 /\ a + i <= b
      BY <1>2
    <3>2. a + i - 1 \in Nat /\ a <= a + i - 1 /\ a + i - 1 < b /\ (a + i - 1) + 1 = a + i /\ (a + i - 1) + 1 - a = i
      BY ONLY <3>1, a \in Nat, b \in Nat
    <3> QED
      BY <3>2
  <2>2. Body(m)[j + 1] = Put(m, l[n][1])[j + 1 - l[n][2]]
    <3>1. l[n][2] <= j /\ j < l[n][3]
      BY ONLY <1>2, <2>1
    <3> QED
      BY ONLY <3>1, BodyAt, Message(m), LaidOut(m, l, to), n \in 1 .. Len(l), j \in Nat
  <2> QED
    BY <1>2, <1>3, <1>5, <2>1, <2>2
<1>10. q = p
  <2>1. \A i \in 1 .. Len(q) : q[i] = p[i]
    BY <1>8, <1>9
  <2> QED
    BY <1>6, <1>8, <2>1, SameSeq
<1> QED
  BY <1>2, <1>3, <1>5, <1>7, <1>10

-----------------------------------------------------------------------------
(* The ten layouts.                                                        *)

\* The widths of the fields, by name.
LEMMA Widths ==
    /\ \A f \in OneByte \cup {"Type"} : f \in Fields /\ Width(f) = 1
    /\ \A f \in {"StockLocate", "TrackingNum", "IssueSubType"} : f \in Fields /\ Width(f) = 2
    /\ \A f \in {"Shares", "RoundLotSize", "ETPLeverageFactor", "Price", "MPID", "Reason"} :
           f \in Fields /\ Width(f) = 4
    /\ "Timestamp" \in Fields /\ Width("Timestamp") = 6
    /\ \A f \in Uint64s \cup {"Stock"} : f \in Fields /\ Width(f) = 8
<1>1. \A f \in OneByte \cup {"Type"} : f \in Fields /\ Width(f) = 1
  BY DEF Fields, Width, OneByte, Uint64s
<1>2. \A f \in {"StockLocate", "TrackingNum", "IssueSubType"} : f \in Fields /\ Width(f) = 2
  BY DEF Fields, Width, Uint64s, OneByte
<1>3. \A f \in {"Shares", "RoundLotSize", "ETPLeverageFactor", "Price", "MPID", "Reason"} :
           f \in Fields /\ Width(f) = 4
  BY DEF Fields, Width, Uint64s, OneByte
<1>4. "Timestamp" \in Fields /\ Width("Timestamp") = 6
  BY DEF Fields, Width, Uint64s, OneByte
<1>5. \A f \in Uint64s \cup {"Stock"} : f \in Fields /\ Width(f) = 8
  BY DEF Fields, Width, Uint64s
<1> QED
  BY <1>1, <1>2, <1>3, <1>4, <1>5

\* The slices of a layout.
Slots(l) == {l[n] : n \in 1 .. Len(l)}

HeaderSlots == {<<"Type", 0, 1>>, <<"StockLocate", 1, 3>>, <<"TrackingNum", 3, 5>>, <<"Timestamp", 5, 11>>}

\* The header, which all types share.
LEMMA HeaderRun == Run(Header, 0, 11) /\ Slots(Header) = HeaderSlots
<1>1. /\ "Type" \in Fields /\ Width("Type") = 1 /\ "StockLocate" \in Fields /\ Width("StockLocate") = 2
      /\ "TrackingNum" \in Fields /\ Width("TrackingNum") = 2 /\ "Timestamp" \in Fields /\ Width("Timestamp") = 6
  BY Widths
<1>2. Header \in Seq(Slot) /\ Len(Header) = 4
  BY <1>1 DEF Header, Slot
<1>3. \A n \in 1 .. 4 : Header[n][3] = Header[n][2] + Width(Header[n][1])
  BY <1>1 DEF Header
<1>4. \A n \in 1 .. 3 : Header[n + 1][2] = Header[n][3]
  BY DEF Header
<1>5. Header[1][2] = 0 /\ Header[4][3] = 11
  BY DEF Header
<1>6. Slots(Header) = {Header[1], Header[2], Header[3], Header[4]}
  BY <1>2 DEF Slots
<1>7. Slots(Header) = HeaderSlots
  BY <1>6 DEF Header, HeaderSlots
<1> QED
  BY <1>2, <1>3, <1>4, <1>5, <1>7 DEF Run

\* A layout of the bytes up to a bound, with some of its slices.
LaysOut(l, to, reads) == Run(l, 0, to) /\ reads \subseteq Slots(l)

\* A layout with further slices after it.
LEMMA LayoutGrows ==
    ASSUME NEW s, NEW t, NEW a, NEW b, NEW R, NEW Q, LaysOut(s, a, R), Run(t, a, b), Q \subseteq Slots(t)
    PROVE  LaysOut(s \o t, b, R \cup Q)
<1>1. s \in Seq(Slot) /\ t \in Seq(Slot) /\ Len(s) \in Nat /\ Len(t) \in Nat
  BY DEF LaysOut, Run
<1>2. Run(s \o t, 0, b)
  BY RunJoin DEF LaysOut
<1>3. PICK u : u = s \o t
  OBVIOUS
<1>4. /\ Len(u) = Len(s) + Len(t)
      /\ \A i \in 1 .. Len(s) : u[i] = s[i]
      /\ \A i \in 1 .. Len(t) : u[Len(s) + i] = t[i]
  BY <1>1, <1>3, JoinFacts
<1>5. ASSUME NEW r \in R PROVE r \in Slots(u)
  <2>1. PICK n \in 1 .. Len(s) : r = s[n]
    BY DEF LaysOut, Slots
  <2>2. n \in 1 .. Len(u) /\ u[n] = s[n]
    BY <1>1, <1>4
  <2> QED
    BY <2>1, <2>2 DEF Slots
<1>6. ASSUME NEW r \in Q PROVE r \in Slots(u)
  <2>1. PICK n \in 1 .. Len(t) : r = t[n]
    BY DEF Slots
  <2>2. Len(s) + n \in 1 .. Len(u) /\ u[Len(s) + n] = t[n]
    BY <1>1, <1>4
  <2> QED
    BY <2>1, <2>2 DEF Slots
<1> QED
  BY <1>2, <1>3, <1>5, <1>6 DEF LaysOut

\* The layout of each type: the slices lie side by side up to the length of the
\* body, and those that its decoder reads are among them.
LEMMA SystemEventLayout == LaysOut(encodeSystemEvent, 12, HeaderSlots \cup decodeSystemEvent)
<1> DEFINE t == << <<"EventCode", 11, 12>> >>
<1>1. \A f \in {"EventCode"} : f \in Fields /\ Width(f) = 1
  BY Widths DEF OneByte, Uint64s
<1>2. t \in Seq(Slot) /\ Len(t) = 1
  BY <1>1 DEF Slot
<1>3. \A n \in 1 .. 1 : t[n][3] = t[n][2] + Width(t[n][1])
  BY <1>1
<1>4. \A n \in 1 .. 1 - 1 : t[n + 1][2] = t[n][3]
  OBVIOUS
<1>5. t[1][2] = 11 /\ t[1][3] = 12
  OBVIOUS
<1>6. decodeSystemEvent = {t[1]}
  BY DEF decodeSystemEvent
<1>7. {t[1]} \subseteq Slots(t)
  BY <1>2 DEF Slots
<1> HIDE DEF t
<1>8. Run(t, 11, 12)
  BY <1>2, <1>3, <1>4, <1>5 DEF Run
<1>9. LaysOut(Header, 11, HeaderSlots)
  BY HeaderRun DEF LaysOut
<1>10. LaysOut(Header \o t, 12, HeaderSlots \cup {t[1]})
  BY <1>7, <1>8, <1>9, LayoutGrows
<1>11. encodeSystemEvent = Header \o t
  BY DEF encodeSystemEvent, t
<1> QED
  BY <1>6, <1>10, <1>11

LEMMA StockDirectoryLayout == LaysOut(encodeStockDirectory, 39, HeaderSlots \cup decodeStockDirectory)
<1> DEFINE t == << <<"Stock", 11, 19>>, <<"MarketCategory", 19, 20>>,
                   <<"FinancialStatus", 20, 21>>, <<"RoundLotSize", 21, 25>>,
                   <<"RoundLotsOnly", 25, 26>>, <<"IssueClassification", 26, 27>>,
                   <<"IssueSubType", 27, 29>>, <<"Authenticity", 29, 30>>,
                   <<"ShortSaleThreshold", 30, 31>>, <<"IPOFlag", 31, 32>>,
                   <<"LULDRefPriceTier", 32, 33>>, <<"ETPFlag", 33, 34>>,
                   <<"ETPLeverageFactor", 34, 38>>, <<"InverseIndicator", 38, 39>> >>
<1>1. /\ "Stock" \in Fields /\ Width("Stock") = 8
      /\ "RoundLotSize" \in Fields /\ Width("RoundLotSize") = 4
      /\ "IssueSubType" \in Fields /\ Width("IssueSubType") = 2
      /\ "ETPLeverageFactor" \in Fields /\ Width("ETPLeverageFactor") = 4
      /\ \A f \in {"MarketCategory", "FinancialStatus", "RoundLotsOnly", "IssueClassification", "Authenticity",
                   "ShortSaleThreshold", "IPOFlag", "LULDRefPriceTier", "ETPFlag", "InverseIndicator"} :
             f \in Fields /\ Width(f) = 1
  BY Widths DEF OneByte, Uint64s
<1>2. t \in Seq(Slot) /\ Len(t) = 14
  BY <1>1 DEF Slot
<1>3. \A n \in 1 .. 14 : t[n][3] = t[n][2] + Width(t[n][1])
  BY <1>1
<1>4. \A n \in 1 .. 14 - 1 : t[n + 1][2] = t[n][3]
  OBVIOUS
<1>5. t[1][2] = 11 /\ t[14][3] = 39
  OBVIOUS
<1>6. decodeStockDirectory = {t[1], t[2], t[3], t[4]}
  BY DEF decodeStockDirectory
<1>7. {t[1], t[2], t[3], t[4]} \subseteq Slots(t)
  BY <1>2 DEF Slots
<1> HIDE DEF t
<1>8. Run(t, 11, 39)
  BY <1>2, <1>3, <1>4, <1>5 DEF Run
<1>9. LaysOut(Header, 11, HeaderSlots)
  BY HeaderRun DEF LaysOut
<1>10. LaysOut(Header \o t, 39, HeaderSlots \cup {t[1], t[2], t[3], t[4]})
  BY <1>7, <1>8, <1>9, LayoutGrows
<1>11. encodeStockDirectory = Header \o t
  BY DEF encodeStockDirectory, t
<1> QED
  BY <1>6, <1>10, <1>11

LEMMA StockTradingActionLayout == LaysOut(encodeStockTradingAction, 25, HeaderSlots \cup decodeStockTradingAction)
<1> DEFINE t == << <<"Stock", 11, 19>>, <<"TradingState", 19, 20>>, <<"Reserved", 20, 21>>,
                   <<"Reason", 21, 25>> >>
<1>1. /\ "Stock" \in Fields /\ Width("Stock") = 8
      /\ "Reason" \in Fields /\ Width("Reason") = 4
      /\ \A f \in {"TradingState", "Reserved"} : f \in Fields /\ Width(f) = 1
  BY Widths DEF OneByte, Uint64s
<1>2. t \in Seq(Slot) /\ Len(t) = 4
  BY <1>1 DEF Slot
<1>3. \A n \in 1 .. 4 : t[n][3] = t[n][2] + Width(t[n][1])
  BY <1>1
<1>4. \A n \in 1 .. 4 - 1 : t[n + 1][2] = t[n][3]
  OBVIOUS
<1>5. t[1][2] = 11 /\ t[4][3] = 25
  OBVIOUS
<1>6. decodeStockTradingAction = {t[1], t[2]}
  BY DEF decodeStockTradingAction
<1>7. {t[1], t[2]} \subseteq Slots(t)
  BY <1>2 DEF Slots
<1> HIDE DEF t
<1>8. Run(t, 11, 25)
  BY <1>2, <1>3, <1>4, <1>5 DEF Run
<1>9. LaysOut(Header, 11, HeaderSlots)
  BY HeaderRun DEF LaysOut
<1>10. LaysOut(Header \o t, 25, HeaderSlots \cup {t[1], t[2]})
  BY <1>7, <1>8, <1>9, LayoutGrows
<1>11. encodeStockTradingAction = Header \o t
  BY DEF encodeStockTradingAction, t
<1> QED
  BY <1>6, <1>10, <1>11

LEMMA AddOrderLayout == LaysOut(encodeAddOrder, 36, HeaderSlots \cup decodeAddOrder)
<1> DEFINE t == << <<"OrderRef", 11, 19>>, <<"Side", 19, 20>>, <<"Shares", 20, 24>>,
                   <<"Stock", 24, 32>>, <<"Price", 32, 36>> >>
<1>1. /\ "OrderRef" \in Fields /\ Width("OrderRef") = 8
      /\ "Shares" \in Fields /\ Width("Shares") = 4
      /\ "Stock" \in Fields /\ Width("Stock") = 8
      /\ "Price" \in Fields /\ Width("Price") = 4
      /\ \A f \in {"Side"} : f \in Fields /\ Width(f) = 1
  BY Widths DEF OneByte, Uint64s
<1>2. t \in Seq(Slot) /\ Len(t) = 5
  BY <1>1 DEF Slot
<1>3. \A n \in 1 .. 5 : t[n][3] = t[n][2] + Width(t[n][1])
  BY <1>1
<1>4. \A n \in 1 .. 5 - 1 : t[n + 1][2] = t[n][3]
  OBVIOUS
<1>5. t[1][2] = 11 /\ t[5][3] = 36
  OBVIOUS
<1>6. decodeAddOrder = {t[1], t[2], t[3], t[4], t[5]}
  BY DEF decodeAddOrder
<1>7. {t[1], t[2], t[3], t[4], t[5]} \subseteq Slots(t)
  BY <1>2 DEF Slots
<1> HIDE DEF t
<1>8. Run(t, 11, 36)
  BY <1>2, <1>3, <1>4, <1>5 DEF Run
<1>9. LaysOut(Header, 11, HeaderSlots)
  BY HeaderRun DEF LaysOut
<1>10. LaysOut(Header \o t, 36, HeaderSlots \cup {t[1], t[2], t[3], t[4], t[5]})
  BY <1>7, <1>8, <1>9, LayoutGrows
<1>11. encodeAddOrder = Header \o t
  BY DEF encodeAddOrder, t
<1> QED
  BY <1>6, <1>10, <1>11

LEMMA AddOrderMPIDLayout == LaysOut(encodeAddOrderMPID, 40, HeaderSlots \cup decodeAddOrderMPID)
<1> DEFINE t == << <<"MPID", 36, 40>> >>
<1>1. "MPID" \in Fields /\ Width("MPID") = 4
  BY Widths DEF OneByte, Uint64s
<1>2. t \in Seq(Slot) /\ Len(t) = 1
  BY <1>1 DEF Slot
<1>3. \A n \in 1 .. 1 : t[n][3] = t[n][2] + Width(t[n][1])
  BY <1>1
<1>4. \A n \in 1 .. 1 - 1 : t[n + 1][2] = t[n][3]
  OBVIOUS
<1>5. t[1][2] = 36 /\ t[1][3] = 40
  OBVIOUS
<1>6. decodeAddOrderMPID = decodeAddOrder \cup {t[1]}
  BY DEF decodeAddOrderMPID
<1>7. {t[1]} \subseteq Slots(t)
  BY <1>2 DEF Slots
<1> HIDE DEF t
<1>8. Run(t, 36, 40)
  BY <1>2, <1>3, <1>4, <1>5 DEF Run
<1>10. LaysOut(encodeAddOrder \o t, 40, (HeaderSlots \cup decodeAddOrder) \cup {t[1]})
  BY <1>7, <1>8, AddOrderLayout, LayoutGrows
<1>11. encodeAddOrderMPID = encodeAddOrder \o t
  BY DEF encodeAddOrderMPID, t
<1>12. (HeaderSlots \cup decodeAddOrder) \cup {t[1]} = HeaderSlots \cup decodeAddOrderMPID
  BY <1>6
<1> QED
  BY <1>10, <1>11, <1>12

LEMMA OrderExecutedLayout == LaysOut(encodeOrderExecuted, 31, HeaderSlots \cup decodeOrderExecuted)
<1> DEFINE t == << <<"OrderRef", 11, 19>>, <<"Shares", 19, 23>>, <<"MatchNumber", 23, 31>> >>
<1>1. /\ "OrderRef" \in Fields /\ Width("OrderRef") = 8
      /\ "Shares" \in Fields /\ Width("Shares") = 4
      /\ "MatchNumber" \in Fields /\ Width("MatchNumber") = 8
  BY Widths DEF OneByte, Uint64s
<1>2. t \in Seq(Slot) /\ Len(t) = 3
  BY <1>1 DEF Slot
<1>3. \A n \in 1 .. 3 : t[n][3] = t[n][2] + Width(t[n][1])
  BY <1>1
<1>4. \A n \in 1 .. 3 - 1 : t[n + 1][2] = t[n][3]
  OBVIOUS
<1>5. t[1][2] = 11 /\ t[3][3] = 31
  OBVIOUS
<1>6. decodeOrderExecuted = {t[1], t[2], t[3]}
  BY DEF decodeOrderExecuted
<1>7. {t[1], t[2], t[3]} \subseteq Slots(t)
  BY <1>2 DEF Slots
<1> HIDE DEF t
<1>8. Run(t, 11, 31)
  BY <1>2, <1>3, <1>4, <1>5 DEF Run
<1>9. LaysOut(Header, 11, HeaderSlots)
  BY HeaderRun DEF LaysOut
<1>10. LaysOut(Header \o t, 31, HeaderSlots \cup {t[1], t[2], t[3]})
  BY <1>7, <1>8, <1>9, LayoutGrows
<1>11. encodeOrderExecuted = Header \o t
  BY DEF encodeOrderExecuted, t
<1> QED
  BY <1>6, <1>10, <1>11

LEMMA OrderCancelLayout == LaysOut(encodeOrderCancel, 23, HeaderSlots \cup decodeOrderCancel)
<1> DEFINE t == << <<"OrderRef", 11, 19>>, <<"Shares", 19, 23>> >>
<1>1. /\ "OrderRef" \in Fields /\ Width("OrderRef") = 8
      /\ "Shares" \in Fields /\ Width("Shares") = 4
  BY Widths DEF OneByte, Uint64s
<1>2. t \in Seq(Slot) /\ Len(t) = 2
  BY <1>1 DEF Slot
<1>3. \A n \in 1 .. 2 : t[n][3] = t[n][2] + Width(t[n][1])
  BY <1>1
<1>4. \A n \in 1 .. 2 - 1 : t[n + 1][2] = t[n][3]
  OBVIOUS
<1>5. t[1][2] = 11 /\ t[2][3] = 23
  OBVIOUS
<1>6. decodeOrderCancel = {t[1], t[2]}
  BY DEF decodeOrderCancel
<1>7. {t[1], t[2]} \subseteq Slots(t)
  BY <1>2 DEF Slots
<1> HIDE DEF t
<1>8. Run(t, 11, 23)
  BY <1>2, <1>3, <1>4, <1>5 DEF Run
<1>9. LaysOut(Header, 11, HeaderSlots)
  BY HeaderRun DEF LaysOut
<1>10. LaysOut(Header \o t, 23, HeaderSlots \cup {t[1], t[2]})
  BY <1>7, <1>8, <1>9, LayoutGrows
<1>11. encodeOrderCancel = Header \o t
  BY DEF encodeOrderCancel, t
<1> QED
  BY <1>6, <1>10, <1>11

LEMMA OrderDeleteLayout == LaysOut(encodeOrderDelete, 19, HeaderSlots \cup decodeOrderDelete)
<1> DEFINE t == << <<"OrderRef", 11, 19>> >>
<1>1. "OrderRef" \in Fields /\ Width("OrderRef") = 8
  BY Widths DEF OneByte, Uint64s
<1>2. t \in Seq(Slot) /\ Len(t) = 1
  BY <1>1 DEF Slot
<1>3. \A n \in 1 .. 1 : t[n][3] = t[n][2] + Width(t[n][1])
  BY <1>1
<1>4. \A n \in 1 .. 1 - 1 : t[n + 1][2] = t[n][3]
  OBVIOUS
<1>5. t[1][2] = 11 /\ t[1][3] = 19
  OBVIOUS
<1>6. decodeOrderDelete = {t[1]}
  BY DEF decodeOrderDelete
<1>7. {t[1]} \subseteq Slots(t)
  BY <1>2 DEF Slots
<1> HIDE DEF t
<1>8. Run(t, 11, 19)
  BY <1>2, <1>3, <1>4, <1>5 DEF Run
<1>9. LaysOut(Header, 11, HeaderSlots)
  BY HeaderRun DEF LaysOut
<1>10. LaysOut(Header \o t, 19, HeaderSlots \cup {t[1]})
  BY <1>7, <1>8, <1>9, LayoutGrows
<1>11. encodeOrderDelete = Header \o t
  BY DEF encodeOrderDelete, t
<1> QED
  BY <1>6, <1>10, <1>11

LEMMA OrderReplaceLayout == LaysOut(encodeOrderReplace, 35, HeaderSlots \cup decodeOrderReplace)
<1> DEFINE t == << <<"OrigOrderRef", 11, 19>>, <<"OrderRef", 19, 27>>, <<"Shares", 27, 31>>,
                   <<"Price", 31, 35>> >>
<1>1. /\ "OrigOrderRef" \in Fields /\ Width("OrigOrderRef") = 8
      /\ "OrderRef" \in Fields /\ Width("OrderRef") = 8
      /\ "Shares" \in Fields /\ Width("Shares") = 4
      /\ "Price" \in Fields /\ Width("Price") = 4
  BY Widths DEF OneByte, Uint64s
<1>2. t \in Seq(Slot) /\ Len(t) = 4
  BY <1>1 DEF Slot
<1>3. \A n \in 1 .. 4 : t[n][3] = t[n][2] + Width(t[n][1])
  BY <1>1
<1>4. \A n \in 1 .. 4 - 1 : t[n + 1][2] = t[n][3]
  OBVIOUS
<1>5. t[1][2] = 11 /\ t[4][3] = 35
  OBVIOUS
<1>6. decodeOrderReplace = {t[1], t[2], t[3], t[4]}
  BY DEF decodeOrderReplace
<1>7. {t[1], t[2], t[3], t[4]} \subseteq Slots(t)
  BY <1>2 DEF Slots
<1> HIDE DEF t
<1>8. Run(t, 11, 35)
  BY <1>2, <1>3, <1>4, <1>5 DEF Run
<1>9. LaysOut(Header, 11, HeaderSlots)
  BY HeaderRun DEF LaysOut
<1>10. LaysOut(Header \o t, 35, HeaderSlots \cup {t[1], t[2], t[3], t[4]})
  BY <1>7, <1>8, <1>9, LayoutGrows
<1>11. encodeOrderReplace = Header \o t
  BY DEF encodeOrderReplace, t
<1> QED
  BY <1>6, <1>10, <1>11

LEMMA TradeLayout == LaysOut(encodeTrade, 44, HeaderSlots \cup decodeTrade)
<1> DEFINE t == << <<"MatchNumber", 36, 44>> >>
<1>1. "MatchNumber" \in Fields /\ Width("MatchNumber") = 8
  BY Widths DEF OneByte, Uint64s
<1>2. t \in Seq(Slot) /\ Len(t) = 1
  BY <1>1 DEF Slot
<1>3. \A n \in 1 .. 1 : t[n][3] = t[n][2] + Width(t[n][1])
  BY <1>1
<1>4. \A n \in 1 .. 1 - 1 : t[n + 1][2] = t[n][3]
  OBVIOUS
<1>5. t[1][2] = 36 /\ t[1][3] = 44
  OBVIOUS
<1>6. decodeTrade = decodeAddOrder \cup {t[1]}
  BY DEF decodeTrade
<1>7. {t[1]} \subseteq Slots(t)
  BY <1>2 DEF Slots
<1> HIDE DEF t
<1>8. Run(t, 36, 44)
  BY <1>2, <1>3, <1>4, <1>5 DEF Run
<1>10. LaysOut(encodeAddOrder \o t, 44, (HeaderSlots \cup decodeAddOrder) \cup {t[1]})
  BY <1>7, <1>8, AddOrderLayout, LayoutGrows
<1>11. encodeTrade = encodeAddOrder \o t
  BY DEF encodeTrade, t
<1>12. (HeaderSlots \cup decodeAddOrder) \cup {t[1]} = HeaderSlots \cup decodeTrade
  BY <1>6
<1> QED
  BY <1>10, <1>11, <1>12

\* Each type: the encoder and the decoder agree on the layout, the decoder asks
\* for the bytes that the encoder writes, and JSON has every field it prints.
Agree(type, to) ==
    /\ LaysOut(Layout(type), to, HeaderSlots \cup Decoder(type).reads)
    /\ Decoder(type).min = to /\ 12 <= to /\ to <= 44
    /\ \A r \in ReadHeader \cup Decoder(type).reads : r[1] \in Printed \cap JsonFields(type)

LEMMA TypesAgree ==
    ASSUME NEW type \in MsgTypes
    PROVE  \E to \in Nat : Agree(type, to)
<1> USE DEF MsgSystemEvent, MsgStockDirectory, MsgStockTradingAction, MsgAddOrder, MsgAddOrderMPID,
            MsgOrderExecuted, MsgOrderCancel, MsgOrderDelete, MsgOrderReplace, MsgTrade
<1>1. CASE type = MsgSystemEvent
  <2>1. Layout(type) = encodeSystemEvent /\ Decoder(type) = [min |-> 12, reads |-> decodeSystemEvent]
    BY <1>1 DEF Layout, Decoder
  <2>2. Decoder(type).reads = decodeSystemEvent /\ Decoder(type).min = 12
    BY <2>1
  <2>3. \A r \in ReadHeader \cup decodeSystemEvent : r[1] \in Printed /\ r[1] \in JsonFields(type)
    BY <1>1 DEF ReadHeader, decodeSystemEvent, Printed, OneByte, Uint64s, JsonFields
  <2>4. Agree(type, 12)
    BY <2>1, <2>2, <2>3, SystemEventLayout DEF Agree
  <2> QED
    BY <2>4
<1>2. CASE type = MsgStockDirectory
  <2>1. Layout(type) = encodeStockDirectory /\ Decoder(type) = [min |-> 39, reads |-> decodeStockDirectory]
    BY <1>2 DEF Layout, Decoder
  <2>2. Decoder(type).reads = decodeStockDirectory /\ Decoder(type).min = 39
    BY <2>1
  <2>3. \A r \in ReadHeader \cup decodeStockDirectory : r[1] \in Printed /\ r[1] \in JsonFields(type)
    BY <1>2 DEF ReadHeader, decodeStockDirectory, Printed, OneByte, Uint64s, JsonFields
  <2>4. Agree(type, 39)
    BY <2>1, <2>2, <2>3, StockDirectoryLayout DEF Agree
  <2> QED
    BY <2>4
<1>3. CASE type = MsgStockTradingAction
  <2>1. Layout(type) = encodeStockTradingAction /\ Decoder(type) = [min |-> 25, reads |-> decodeStockTradingAction]
    BY <1>3 DEF Layout, Decoder
  <2>2. Decoder(type).reads = decodeStockTradingAction /\ Decoder(type).min = 25
    BY <2>1
  <2>3. \A r \in ReadHeader \cup decodeStockTradingAction : r[1] \in Printed /\ r[1] \in JsonFields(type)
    BY <1>3 DEF ReadHeader, decodeStockTradingAction, Printed, OneByte, Uint64s, JsonFields
  <2>4. Agree(type, 25)
    BY <2>1, <2>2, <2>3, StockTradingActionLayout DEF Agree
  <2> QED
    BY <2>4
<1>4. CASE type = MsgAddOrder
  <2>1. Layout(type) = encodeAddOrder /\ Decoder(type) = [min |-> 36, reads |-> decodeAddOrder]
    BY <1>4 DEF Layout, Decoder
  <2>2. Decoder(type).reads = decodeAddOrder /\ Decoder(type).min = 36
    BY <2>1
  <2>3. \A r \in ReadHeader \cup decodeAddOrder : r[1] \in Printed /\ r[1] \in JsonFields(type)
    BY <1>4 DEF ReadHeader, decodeAddOrder, Printed, OneByte, Uint64s, JsonFields
  <2>4. Agree(type, 36)
    BY <2>1, <2>2, <2>3, AddOrderLayout DEF Agree
  <2> QED
    BY <2>4
<1>5. CASE type = MsgAddOrderMPID
  <2>1. Layout(type) = encodeAddOrderMPID /\ Decoder(type) = [min |-> 40, reads |-> decodeAddOrderMPID]
    BY <1>5 DEF Layout, Decoder
  <2>2. Decoder(type).reads = decodeAddOrderMPID /\ Decoder(type).min = 40
    BY <2>1
  <2>3. \A r \in ReadHeader \cup decodeAddOrderMPID : r[1] \in Printed /\ r[1] \in JsonFields(type)
    BY <1>5 DEF ReadHeader, decodeAddOrderMPID, decodeAddOrder, Printed, OneByte, Uint64s, JsonFields
  <2>4. Agree(type, 40)
    BY <2>1, <2>2, <2>3, AddOrderMPIDLayout DEF Agree
  <2> QED
    BY <2>4
<1>6. CASE type = MsgOrderExecuted
  <2>1. Layout(type) = encodeOrderExecuted /\ Decoder(type) = [min |-> 31, reads |-> decodeOrderExecuted]
    BY <1>6 DEF Layout, Decoder
  <2>2. Decoder(type).reads = decodeOrderExecuted /\ Decoder(type).min = 31
    BY <2>1
  <2>3. \A r \in ReadHeader \cup decodeOrderExecuted : r[1] \in Printed /\ r[1] \in JsonFields(type)
    BY <1>6 DEF ReadHeader, decodeOrderExecuted, Printed, OneByte, Uint64s, JsonFields
  <2>4. Agree(type, 31)
    BY <2>1, <2>2, <2>3, OrderExecutedLayout DEF Agree
  <2> QED
    BY <2>4
<1>7. CASE type = MsgOrderCancel
  <2>1. Layout(type) = encodeOrderCancel /\ Decoder(type) = [min |-> 23, reads |-> decodeOrderCancel]
    BY <1>7 DEF Layout, Decoder
  <2>2. Decoder(type).reads = decodeOrderCancel /\ Decoder(type).min = 23
    BY <2>1
  <2>3. \A r \in ReadHeader \cup decodeOrderCancel : r[1] \in Printed /\ r[1] \in JsonFields(type)
    BY <1>7 DEF ReadHeader, decodeOrderCancel, Printed, OneByte, Uint64s, JsonFields
  <2>4. Agree(type, 23)
    BY <2>1, <2>2, <2>3, OrderCancelLayout DEF Agree
  <2> QED
    BY <2>4
<1>8. CASE type = MsgOrderDelete
  <2>1. Layout(type) = encodeOrderDelete /\ Decoder(type) = [min |-> 19, reads |-> decodeOrderDelete]
    BY <1>8 DEF Layout, Decoder
  <2>2. Decoder(type).reads = decodeOrderDelete /\ Decoder(type).min = 19
    BY <2>1
  <2>3. \A r \in ReadHeader \cup decodeOrderDelete : r[1] \in Printed /\ r[1] \in JsonFields(type)
    BY <1>8 DEF ReadHeader, decodeOrderDelete, Printed, OneByte, Uint64s, JsonFields
  <2>4. Agree(type, 19)
    BY <2>1, <2>2, <2>3, OrderDeleteLayout DEF Agree
  <2> QED
    BY <2>4
<1>9. CASE type = MsgOrderReplace
  <2>1. Layout(type) = encodeOrderReplace /\ Decoder(type) = [min |-> 35, reads |-> decodeOrderReplace]
    BY <1>9 DEF Layout, Decoder
  <2>2. Decoder(type).reads = decodeOrderReplace /\ Decoder(type).min = 35
    BY <2>1
  <2>3. \A r \in ReadHeader \cup decodeOrderReplace : r[1] \in Printed /\ r[1] \in JsonFields(type)
    BY <1>9 DEF ReadHeader, decodeOrderReplace, Printed, OneByte, Uint64s, JsonFields
  <2>4. Agree(type, 35)
    BY <2>1, <2>2, <2>3, OrderReplaceLayout DEF Agree
  <2> QED
    BY <2>4
<1>10. CASE type = MsgTrade
  <2>1. Layout(type) = encodeTrade /\ Decoder(type) = [min |-> 44, reads |-> decodeTrade]
    BY <1>10 DEF Layout, Decoder
  <2>2. Decoder(type).reads = decodeTrade /\ Decoder(type).min = 44
    BY <2>1
  <2>3. \A r \in ReadHeader \cup decodeTrade : r[1] \in Printed /\ r[1] \in JsonFields(type)
    BY <1>10 DEF ReadHeader, decodeTrade, decodeAddOrder, Printed, OneByte, Uint64s, JsonFields
  <2>4. Agree(type, 44)
    BY <2>1, <2>2, <2>3, TradeLayout DEF Agree
  <2> QED
    BY <2>4
<1> QED
  BY <1>1, <1>2, <1>3, <1>4, <1>5, <1>6, <1>7, <1>8, <1>9, <1>10 DEF MsgTypes

-----------------------------------------------------------------------------
(* One message.                                                            *)

\* The line d that the decoder prints is the one for m.
Mirrors(d, m) ==
    /\ d.type = m.Type /\ d.ok
    /\ \A f \in DOMAIN d.fields : f \in JsonFields(m.Type) /\ d.fields[f] = msgToMap(m)[f]

\* A field of JSON's object.
LEMMA JsonValue ==
    ASSUME NEW m, Message(m), NEW f \in JsonFields(m.Type)
    PROVE  msgToMap(m)[f] = IF f = "Price" THEN formatPrice(m.Price) ELSE m[f]
<1>1. msgToMap(m)[f] = IF f = "Price" THEN formatPrice(m.Price)
                       ELSE IF f \in {"Stock", "MPID"} THEN TrimSpace(m[f]) ELSE m[f]
  BY DEF msgToMap
<1>2. Text(m.Stock, 8) /\ Text(m.MPID, 4) /\ 8 \in Nat /\ 4 \in Nat
  BY DEF Message
<1>3. TrimSpace(m.Stock) = m.Stock /\ TrimSpace(m.MPID) = m.MPID
  BY ONLY <1>2, TrimBack
<1>4. f \in {"Stock", "MPID"} => TrimSpace(m[f]) = m[f]
  BY ONLY <1>3
<1> QED
  BY ONLY <1>1, <1>4

\* What the decoder reads from a slice that it looks at is the value in JSON.
LEMMA ReadsBack ==
    ASSUME NEW m, Message(m), NEW to, Agree(m.Type, to), NEW r \in ReadHeader \cup Decoder(m.Type).reads
    PROVE  r[1] \in JsonFields(m.Type) /\ Get(r[1], SubSeq(Body(m), r[2] + 1, r[3])) = msgToMap(m)[r[1]]
<1> DEFINE l == Layout(m.Type)
<1>1. Run(l, 0, to) /\ HeaderSlots \cup Decoder(m.Type).reads \subseteq Slots(l)
  BY DEF Agree, LaysOut
<1>2. r \in HeaderSlots \cup Decoder(m.Type).reads
  BY DEF ReadHeader, HeaderSlots
<1>3. PICK n \in 1 .. Len(l) : r = l[n]
  <2>1. r \in Slots(l)
    BY <1>1, <1>2
  <2> HIDE DEF l
  <2> QED
    BY <2>1 DEF Slots
<1>4. LaidOut(m, l, to)
  BY <1>1 DEF LaidOut
<1> HIDE DEF l
<1>5. SubSeq(Body(m), r[2] + 1, r[3]) = Put(m, r[1]) /\ r[1] \in Fields
  BY <1>1, <1>3, <1>4, SliceIsField, RunSlots
<1>6. r[1] \in Printed /\ r[1] \in JsonFields(m.Type)
  BY DEF Agree
<1>7. Get(r[1], Put(m, r[1])) = IF r[1] = "Price" THEN formatPrice(m.Price) ELSE m[r[1]]
  BY <1>5, <1>6, FieldBack
<1> QED
  BY <1>5, <1>6, <1>7, JsonValue

\* The length of a body and its first byte.
LEMMA BodyShape ==
    ASSUME NEW m, Message(m), NEW to \in Nat, Agree(m.Type, to)
    PROVE  Body(m) \in Seq(Byte) /\ Len(Body(m)) = to /\ Body(m)[1] = m.Type
<1> DEFINE l == Layout(m.Type)
<1>1. Run(l, 0, to) /\ HeaderSlots \subseteq Slots(l)
  BY DEF Agree, LaysOut
<1>2. LaidOut(m, l, to)
  BY <1>1 DEF LaidOut
<1>3. PICK n \in 1 .. Len(l) : l[n] = <<"Type", 0, 1>>
  <2>1. <<"Type", 0, 1>> \in Slots(l)
    BY <1>1 DEF HeaderSlots
  <2> HIDE DEF l
  <2> QED
    BY <2>1 DEF Slots
<1> HIDE DEF l
<1>4. l[n][1] = "Type" /\ l[n][2] = 0 /\ l[n][3] = 1
  BY <1>3
<1>5. Body(m) \in [1 .. to -> Byte]
  BY <1>2, BodyAt
<1>6. Body(m)[0 + 1] = Put(m, "Type")[0 + 1 - 0]
  <2>1. 0 \in Nat /\ l[n][2] <= 0 /\ 0 < l[n][3]
    BY <1>4
  <2>2. Body(m)[0 + 1] = Put(m, l[n][1])[0 + 1 - l[n][2]]
    BY ONLY <1>2, <2>1, Message(m), BodyAt, n \in 1 .. Len(l)
  <2> QED
    BY <1>4, <2>2
<1>7. Put(m, "Type")[1] = m.Type
  <2>1. Put(m, "Type") = <<m["Type"]>>
    BY OneBytePut
  <2> QED
    BY <2>1
<1>8. Body(m)[1] = Put(m, "Type")[1]
  BY <1>6
<1> QED
  BY <1>5, <1>7, <1>8, FunctionIsSeq

\* The decoder's line for the body of a message.
LEMMA BodyDecodes ==
    ASSUME NEW m, Message(m)
    PROVE  /\ Body(m) \in Seq(Byte) /\ 12 <= Len(Body(m)) /\ Len(Body(m)) <= 44
           /\ Body(m)[1] = m.Type /\ m.Type \in MsgTypes
           /\ Mirrors(decodeMessage(Body(m)), m)
<1>1. m.Type \in MsgTypes
  BY DEF Message
<1>2. PICK to \in Nat : Agree(m.Type, to)
  BY <1>1, TypesAgree
<1>3. PICK b : b = Body(m)
  OBVIOUS
<1>4. b \in Seq(Byte) /\ Len(b) = to /\ b[1] = m.Type
  BY <1>2, <1>3, BodyShape
<1>5. Decoder(m.Type).min = to /\ 12 <= to /\ to <= 44
  BY <1>2 DEF Agree
<1> DEFINE reads == ReadHeader \cup Decoder(m.Type).reads
           fields == [f \in {r[1] : r \in reads} |->
                         LET r == CHOOSE r \in reads : r[1] = f IN Get(f, SubSeq(b, r[2] + 1, r[3]))]
<1>6. decodeMessage(b).type = m.Type /\ decodeMessage(b).ok /\ decodeMessage(b).fields = fields
  <2> DEFINE known == Decoder(b[1]).min > 0 /\ Len(b) >= Decoder(b[1]).min
             rd    == IF known THEN ReadHeader \cup Decoder(b[1]).reads ELSE {}
  <2>1. known
    BY <1>4, <1>5
  <2>2. /\ decodeMessage(b).type = b[1] /\ decodeMessage(b).ok = known
        /\ decodeMessage(b).fields = [f \in {r[1] : r \in rd} |->
               LET r == CHOOSE r \in rd : r[1] = f IN Get(f, SubSeq(b, r[2] + 1, r[3]))]
    BY DEF decodeMessage
  <2>3. rd = reads
    <3> HIDE DEF known
    <3> QED
      BY <1>4, <2>1
  <2>4. decodeMessage(b).ok
    <3> HIDE DEF known
    <3> QED
      BY <2>1, <2>2
  <2> HIDE DEF known, rd, reads
  <2> QED
    BY <1>4, <2>2, <2>3, <2>4
<1>7. \A r \in reads : r[1] \in JsonFields(m.Type) /\ Get(r[1], SubSeq(b, r[2] + 1, r[3])) = msgToMap(m)[r[1]]
  BY <1>2, <1>3, ReadsBack
<1>8. ASSUME NEW f \in {r[1] : r \in reads}
      PROVE  f \in JsonFields(m.Type) /\ fields[f] = msgToMap(m)[f]
  <2> DEFINE r == CHOOSE q \in reads : q[1] = f
  <2>1. r \in reads /\ r[1] = f
    <3>1. \E q \in reads : q[1] = f
      OBVIOUS
    <3> HIDE DEF reads
    <3> QED
      BY <3>1
  <2>2. fields[f] = Get(f, SubSeq(b, r[2] + 1, r[3]))
    OBVIOUS
  <2> HIDE DEF r, reads, fields
  <2> QED
    BY <1>7, <2>1, <2>2
<1>9. DOMAIN fields = {r[1] : r \in reads}
  OBVIOUS
<1> HIDE DEF fields, reads
<1>10. Mirrors(decodeMessage(b), m)
  BY <1>6, <1>8, <1>9 DEF Mirrors
<1> QED
  BY <1>1, <1>3, <1>4, <1>5, <1>10

-----------------------------------------------------------------------------
(* The loop over the messages of a frame.                                  *)

\* One more element in front.
LEMMA FrontFacts ==
    ASSUME NEW B, NEW x \in B, NEW s \in Seq(B)
    PROVE  /\ <<x>> \o s \in Seq(B) /\ Len(<<x>> \o s) = Len(s) + 1 /\ (<<x>> \o s)[1] = x
           /\ \A i \in 1 .. Len(s) : (<<x>> \o s)[i + 1] = s[i]
<1>1. <<x>> \in Seq(B) /\ Len(<<x>>) = 1 /\ <<x>>[1] = x
  OBVIOUS
<1>2. PICK t : t = <<x>>
  OBVIOUS
<1>3. /\ t \o s \in Seq(B) /\ Len(t \o s) = Len(t) + Len(s)
      /\ \A i \in 1 .. Len(t) : (t \o s)[i] = t[i]
      /\ \A i \in 1 .. Len(s) : (t \o s)[Len(t) + i] = s[i]
  BY <1>1, <1>2, JoinFacts
<1>4. Len(t \o s) = Len(s) + 1
  BY <1>1, <1>2, <1>3
<1>5. \A i \in 1 .. Len(s) : (t \o s)[i + 1] = s[i]
  <2> SUFFICES ASSUME NEW i \in 1 .. Len(s) PROVE (t \o s)[i + 1] = s[i]
    OBVIOUS
  <2>1. Len(t) + i = i + 1
    BY <1>1, <1>2
  <2> QED
    BY <1>3, <2>1
<1>6. (t \o s)[1] = x
  BY <1>1, <1>2, <1>3
<1> QED
  BY <1>2, <1>3, <1>4, <1>5, <1>6

\* A function g of the offsets up to len that jumps forward where C says so.
Loop(len, C, head, jump, from, g) ==
    g = [o \in from .. len |-> IF o \in C THEN <<head[o]>> \o g[jump[o]] ELSE <<>>]

\* Such a function exists, because every jump leads forward.
LEMMA LoopExists ==
    ASSUME NEW len \in Nat, NEW C, NEW head, NEW jump,
           \A o \in 0 .. len : o \in C => jump[o] \in Int /\ o < jump[o] /\ jump[o] <= len
    PROVE  \E g : Loop(len, C, head, jump, 0, g)
<1> DEFINE S == {j \in Nat : j <= len => \E g : Loop(len, C, head, jump, len - j, g)}
<1>1. 0 \in S
  <2> DEFINE g == [o \in len .. len |-> <<>>]
  <2>1. \A o \in len .. len : ~(o \in C)
    OBVIOUS
  <2>2. Loop(len, C, head, jump, len, g)
    BY <2>1 DEF Loop
  <2>3. len - 0 = len
    OBVIOUS
  <2> QED
    BY <2>2, <2>3
<1>2. ASSUME NEW j \in Nat, j \in S PROVE j + 1 \in S
  <2> SUFFICES ASSUME j + 1 <= len PROVE \E h : Loop(len, C, head, jump, len - (j + 1), h)
    OBVIOUS
  <2>1. PICK g : Loop(len, C, head, jump, len - j, g)
    BY <1>2
  <2>2. PICK a \in 0 .. len : a = len - (j + 1) /\ a + 1 = len - j
    <3>1. len - (j + 1) \in 0 .. len /\ (len - (j + 1)) + 1 = len - j
      OBVIOUS
    <3> QED
      BY <3>1
  <2>3. \A o \in a + 1 .. len : g[o] = IF o \in C THEN <<head[o]>> \o g[jump[o]] ELSE <<>>
    BY <2>1, <2>2 DEF Loop
  <2> DEFINE Val(o) == IF o \in C THEN <<head[o]>> \o g[jump[o]] ELSE <<>>
             h == [o \in a .. len |-> IF o = a THEN Val(a) ELSE g[o]]
  <2>4. ASSUME NEW o \in a .. len PROVE h[o] = IF o \in C THEN <<head[o]>> \o h[jump[o]] ELSE <<>>
    <3>1. h[o] = Val(o)
      <4>1. CASE o = a
        BY <4>1
      <4>2. CASE o # a
        <5>1. o \in a + 1 .. len
          BY <4>2
        <5> QED
          BY <2>3, <4>2, <5>1
      <4> QED
        BY <4>1, <4>2
    <3>2. o \in C => h[jump[o]] = g[jump[o]]
      <4>1. o \in C => jump[o] \in a .. len /\ jump[o] # a
        BY <2>2
      <4> QED
        BY <4>1
    <3> HIDE DEF h
    <3> QED
      BY <3>1, <3>2
  <2>5. h = [o \in a .. len |-> IF o \in C THEN <<head[o]>> \o h[jump[o]] ELSE <<>>]
    <3>1. h = [o \in a .. len |-> h[o]]
      OBVIOUS
    <3> HIDE DEF h
    <3> QED
      BY <2>4, <3>1
  <2>6. Loop(len, C, head, jump, a, h)
    BY <2>5 DEF Loop
  <2> QED
    BY <2>2, <2>6
<1>3. len \in S
  <2> HIDE DEF S
  <2> QED
    BY <1>1, <1>2, NatByNext
<1>4. len - len = 0
  OBVIOUS
<1> QED
  BY <1>3, <1>4

\* The length prefix at an offset, whether a message follows it, and which.
Prefix(data, o) == Uint16(SubSeq(data, o + 1, o + 2))
Whole(data, o)  == o + 2 < Len(data) /\ Prefix(data, o) > 0 /\ o + 2 + Prefix(data, o) <= Len(data)
Line(data, o)   == decodeMessage(SubSeq(data, o + 3, o + 2 + Prefix(data, o)))

\* g[o]: the lines for the messages from offset o on.
Steps(data, g) ==
    \A o \in 0 .. Len(data) :
        g[o] = IF Whole(data, o) THEN <<Line(data, o)>> \o g[o + 2 + Prefix(data, o)] ELSE <<>>

\* Two bytes make a number.
LEMMA PrefixIsNat ==
    ASSUME NEW data \in Seq(Byte), NEW o \in Nat, o + 2 <= Len(data)
    PROVE  Prefix(data, o) \in Nat
<1>1. PICK b \in Nat : b = o + 2 /\ o <= b /\ b <= Len(data) /\ b - o = 2
  OBVIOUS
<1>2. PICK s : s = SubSeq(data, o + 1, b)
  OBVIOUS
<1>3. s \in Seq(Byte) /\ Len(s) = b - o
  BY ONLY <1>1, <1>2, SliceFacts, data \in Seq(Byte), o \in Nat, b \in Nat
<1>4. s[1] \in Byte /\ s[2] \in Byte
  <2>1. Len(s) = 2
    BY <1>1, <1>3
  <2>2. s \in [1 .. 2 -> Byte]
    BY ONLY <1>3, <2>1, SeqIsFunction
  <2> QED
    BY ONLY <2>2
<1>5. s[1] \in Nat /\ s[2] \in Nat
  <2>1. \A x \in Byte : x \in Nat
    BY DEF Byte
  <2> QED
    BY ONLY <1>4, <2>1
<1>6. Uint16(s) \in Nat
  BY <1>5 DEF Uint16
<1> QED
  BY <1>1, <1>2, <1>6 DEF Prefix

\* messagesFrom is what its loop says.
LEMMA MessagesFromLoop ==
    ASSUME NEW data \in Seq(Byte)
    PROVE  \E g : messagesFrom(data) = g[0] /\ Steps(data, g)
<1> DEFINE D == 0 .. Len(data)
           C == {o \in D : Whole(data, o)}
           head == [o \in D |-> Line(data, o)]
           jump == [o \in D |-> o + 2 + Prefix(data, o)]
           Def(g) == g = [o \in D |-> IF Whole(data, o)
                                      THEN <<Line(data, o)>> \o g[o + 2 + Prefix(data, o)] ELSE <<>>]
<1>1. \A o \in 0 .. Len(data) : o \in C => jump[o] \in Int /\ o < jump[o] /\ jump[o] <= Len(data)
  <2> SUFFICES ASSUME NEW o \in 0 .. Len(data), Whole(data, o)
               PROVE  jump[o] \in Int /\ o < jump[o] /\ jump[o] <= Len(data)
    OBVIOUS
  <2>1. PICK p \in Nat : p = Prefix(data, o)
    BY PrefixIsNat DEF Whole
  <2>2. p > 0 /\ o + 2 + p <= Len(data)
    BY <2>1 DEF Whole
  <2>3. jump[o] = o + 2 + p
    BY <2>1
  <2> QED
    BY <2>2, <2>3
<1>2. \E g : Loop(Len(data), C, head, jump, 0, g)
  <2>1. PICK len \in Nat : len = Len(data)
    OBVIOUS
  <2> HIDE DEF C, head, jump
  <2>2. \A o \in 0 .. len : o \in C => jump[o] \in Int /\ o < jump[o] /\ jump[o] <= len
    BY <1>1, <2>1
  <2>3. \E g : Loop(len, C, head, jump, 0, g)
    BY ONLY <2>2, LoopExists, len \in Nat
  <2> QED
    BY <2>1, <2>3
<1>3. \A g : Loop(Len(data), C, head, jump, 0, g) => Def(g)
  <2> SUFFICES ASSUME NEW g, Loop(Len(data), C, head, jump, 0, g) PROVE Def(g)
    OBVIOUS
  <2>1. g = [o \in D |-> IF o \in C THEN <<head[o]>> \o g[jump[o]] ELSE <<>>]
    BY DEF Loop
  <2>2. ASSUME NEW o \in D
        PROVE  (IF o \in C THEN <<head[o]>> \o g[jump[o]] ELSE <<>>)
             = IF Whole(data, o) THEN <<Line(data, o)>> \o g[o + 2 + Prefix(data, o)] ELSE <<>>
    <3>1. (o \in C <=> Whole(data, o)) /\ head[o] = Line(data, o) /\ jump[o] = o + 2 + Prefix(data, o)
      OBVIOUS
    <3> HIDE DEF C, head, jump
    <3> QED
      BY <3>1
  <2> HIDE DEF C, head, jump, D
  <2> QED
    BY <2>1, <2>2
<1>4. \E g : Def(g)
  BY <1>2, <1>3
<1>5. messagesFrom(data) = (CHOOSE g : Def(g))[0]
  BY DEF messagesFrom, Whole, Line, Prefix
<1>6. PICK g : g = CHOOSE h : Def(h)
  OBVIOUS
<1>7. Def(g)
  <2> HIDE DEF Def
  <2> QED
    BY <1>4, <1>6
<1>8. Steps(data, g)
  BY <1>7 DEF Steps
<1>9. messagesFrom(data) = g[0]
  <2> HIDE DEF Def
  <2> QED
    BY ONLY <1>5, <1>6
<1> QED
  BY ONLY <1>8, <1>9

-----------------------------------------------------------------------------
(* A frame.                                                                *)

\* A slice of the first of two sequences, and one of the second.
LEMMA SliceOfFirst ==
    ASSUME NEW B, NEW s \in Seq(B), NEW t \in Seq(B), NEW a \in Nat, NEW b \in Nat, a <= b, b <= Len(s)
    PROVE  SubSeq(s \o t, a + 1, b) = SubSeq(s, a + 1, b)
<1>1. PICK u : u = s \o t
  OBVIOUS
<1>2. u \in Seq(B) /\ Len(u) = Len(s) + Len(t) /\ \A i \in 1 .. Len(s) : u[i] = s[i]
  BY <1>1, JoinFacts
<1>3. b <= Len(u)
  BY <1>2
<1>4. PICK p, q : p = SubSeq(u, a + 1, b) /\ q = SubSeq(s, a + 1, b)
  OBVIOUS
<1>5. p \in Seq(B) /\ Len(p) = b - a /\ \A i \in 1 .. b - a : p[i] = u[a + i]
  BY ONLY <1>2, <1>3, <1>4, SliceFacts, a \in Nat, b \in Nat, a <= b
<1>6. q \in Seq(B) /\ Len(q) = b - a /\ \A i \in 1 .. b - a : q[i] = s[a + i]
  BY ONLY <1>4, SliceFacts, s \in Seq(B), a \in Nat, b \in Nat, a <= b, b <= Len(s)
<1>7. \A i \in 1 .. b - a : p[i] = q[i]
  <2> SUFFICES ASSUME NEW i \in 1 .. b - a PROVE p[i] = q[i]
    OBVIOUS
  <2>1. a + i \in 1 .. Len(s)
    OBVIOUS
  <2> QED
    BY <1>2, <1>5, <1>6, <2>1
<1>8. p = q
  BY <1>5, <1>6, <1>7, SameSeq
<1> QED
  BY <1>1, <1>4, <1>8

LEMMA SliceOfSecond ==
    ASSUME NEW B, NEW s \in Seq(B), NEW t \in Seq(B), NEW a \in Nat, NEW b \in Nat, a <= b, b <= Len(t),
           NEW c \in Nat, NEW d \in Nat, c = Len(s) + a, d = Len(s) + b
    PROVE  SubSeq(s \o t, c + 1, d) = SubSeq(t, a + 1, b)
<1>1. PICK u : u = s \o t
  OBVIOUS
<1>2. u \in Seq(B) /\ Len(u) = Len(s) + Len(t) /\ \A i \in 1 .. Len(t) : u[Len(s) + i] = t[i]
  BY <1>1, JoinFacts
<1>3. c <= d /\ d <= Len(u) /\ d - c = b - a
  BY <1>2
<1>4. PICK p, q : p = SubSeq(u, c + 1, d) /\ q = SubSeq(t, a + 1, b)
  OBVIOUS
<1>5. p \in Seq(B) /\ Len(p) = d - c /\ \A i \in 1 .. d - c : p[i] = u[c + i]
  BY ONLY <1>2, <1>3, <1>4, SliceFacts, c \in Nat, d \in Nat
<1>6. q \in Seq(B) /\ Len(q) = b - a /\ \A i \in 1 .. b - a : q[i] = t[a + i]
  BY ONLY <1>4, SliceFacts, t \in Seq(B), a \in Nat, b \in Nat, a <= b, b <= Len(t)
<1>7. \A i \in 1 .. b - a : p[i] = q[i]
  <2> SUFFICES ASSUME NEW i \in 1 .. b - a PROVE p[i] = q[i]
    OBVIOUS
  <2>1. a + i \in 1 .. Len(t) /\ c + i = Len(s) + (a + i)
    OBVIOUS
  <2> QED
    BY <1>2, <1>3, <1>5, <1>6, <2>1
<1>8. p = q
  BY <1>3, <1>5, <1>6, <1>7, SameSeq
<1> QED
  BY <1>1, <1>4, <1>8

\* The message m with its prefix lies in data from offset a to offset b.
Placed(data, a, m, b) ==
    /\ b = a + 2 + Len(Body(m)) /\ b <= Len(data)
    /\ SubSeq(data, a + 1, a + 2) = PutUint16(Len(Body(m)))
    /\ SubSeq(data, a + 3, b) = Body(m)

\* The decoder finds it there.
LEMMA PlacedIsRead ==
    ASSUME NEW data \in Seq(Byte), NEW a \in Nat, NEW m, Message(m), NEW b, Placed(data, a, m, b)
    PROVE  /\ Whole(data, a) /\ Line(data, a) = decodeMessage(Body(m))
           /\ b = a + 2 + Prefix(data, a) /\ Prefix(data, a) = Len(Body(m)) /\ b \in Nat /\ b > a
<1>1. PICK n \in Nat : n = Len(Body(m)) /\ 12 <= n /\ n <= 44
  BY BodyDecodes
<1>2. Prefix(data, a) = n
  <2>1. Fits16(n)
    BY <1>1 DEF Fits16
  <2> QED
    BY <1>1, <2>1, Uint16Back DEF Prefix, Placed
<1>3. b = a + 2 + n /\ b <= Len(data) /\ SubSeq(data, a + 3, a + 2 + n) = Body(m)
  BY <1>1 DEF Placed
<1>4. a + 2 < Len(data) /\ n > 0
  BY <1>1, <1>3
<1>5. Whole(data, a) /\ Line(data, a) = decodeMessage(Body(m))
  BY <1>2, <1>3, <1>4 DEF Whole, Line
<1> QED
  BY <1>1, <1>2, <1>3, <1>5

\* It stays there when more is added,
LEMMA PlacedStays ==
    ASSUME NEW data \in Seq(Byte), NEW e \in Seq(Byte), NEW a \in Nat, NEW m, Message(m), NEW b,
           Placed(data, a, m, b)
    PROVE  Placed(data \o e, a, m, b)
<1>1. PICK n \in Nat : n = Len(Body(m))
  BY BodyDecodes
<1>2. PICK c \in Nat, d \in Nat : /\ c = a + 2 /\ d = b /\ c + 1 = a + 3 /\ a <= c /\ c <= d
                                  /\ d <= Len(data) /\ c <= Len(data)
  <2>1. b = a + 2 + n /\ b <= Len(data)
    BY <1>1 DEF Placed
  <2>2. a + 2 \in Nat /\ b \in Nat /\ (a + 2) + 1 = a + 3 /\ a <= a + 2 /\ a + 2 <= b /\ a + 2 <= Len(data)
    BY <2>1
  <2> QED
    BY <2>1, <2>2
<1>3. SubSeq(data \o e, a + 1, c) = SubSeq(data, a + 1, c)
  BY ONLY <1>2, SliceOfFirst, data \in Seq(Byte), e \in Seq(Byte), a \in Nat, c \in Nat
<1>4. SubSeq(data \o e, c + 1, d) = SubSeq(data, c + 1, d)
  BY ONLY <1>2, SliceOfFirst, data \in Seq(Byte), e \in Seq(Byte), d \in Nat, c \in Nat
<1>5. b <= Len(data \o e)
  <2>1. Len(data \o e) = Len(data) + Len(e)
    BY JoinFacts
  <2> QED
    BY <1>2, <2>1
<1> QED
  BY <1>2, <1>3, <1>4, <1>5 DEF Placed

\* and a message that is added lies at the end.
LEMMA PlacedLast ==
    ASSUME NEW data \in Seq(Byte), NEW m, Message(m)
    PROVE  /\ data \o EncodeBinary(m) \in Seq(Byte)
           /\ Placed(data \o EncodeBinary(m), Len(data), m, Len(data \o EncodeBinary(m)))
<1>1. PICK b : b = Body(m)
  OBVIOUS
<1>2. b \in Seq(Byte) /\ 12 <= Len(b) /\ Len(b) <= 44 /\ Len(b) \in Nat
  BY <1>1, BodyDecodes
<1>3. PICK p : p = PutUint16(Len(b))
  OBVIOUS
<1>4. p \in Seq(Byte) /\ Len(p) = 2
  <2>1. Fits16(Len(b))
    BY <1>2 DEF Fits16
  <2>2. p \in [1 .. 2 -> Byte]
    BY <1>3, <2>1, Uint16Back
  <2> QED
    BY <2>2, FunctionIsSeq
<1>5. PICK e : e = p \o b
  OBVIOUS
<1>6. EncodeBinary(m) = e
  BY <1>1, <1>3, <1>5 DEF EncodeBinary
<1>7. PICK n \in Nat, two \in Nat : n = 2 + Len(b) /\ two = 2 /\ two = Len(p) /\ n = two + Len(b)
  BY <1>2, <1>4
<1>8. e \in Seq(Byte) /\ Len(e) = n
  <2>1. e \in Seq(Byte) /\ Len(e) = Len(p) + Len(b)
    BY <1>2, <1>4, <1>5, JoinFacts
  <2> QED
    BY <1>4, <1>7, <2>1
<1>9. SubSeq(e, 1, two) = p /\ SubSeq(e, two + 1, n) = b
  <2>1. p \in Seq(Byte) /\ b \in Seq(Byte) /\ two = Len(p) /\ n = two + Len(b)
    BY <1>2, <1>4, <1>7
  <2>2. SubSeq(p \o b, 1, two) = p /\ SubSeq(p \o b, two + 1, n) = b
    BY ONLY <2>1, Parts, n \in Nat, two \in Nat
  <2> QED
    BY ONLY <1>5, <2>2
<1>10. PICK len \in Nat, zero \in Nat : len = Len(data) /\ zero = 0
  OBVIOUS
<1>11. PICK c \in Nat, d \in Nat : c = len + two /\ d = len + n
  OBVIOUS
<1>12. /\ len = Len(data) + zero /\ c = Len(data) + two /\ d = Len(data) + n
       /\ zero <= two /\ two <= n /\ two <= Len(e) /\ n <= Len(e)
       /\ c = len + 2 /\ c + 1 = len + 3 /\ zero + 1 = 1
  <2>1. two = 2 /\ n = 2 + Len(b) /\ Len(b) \in Nat /\ Len(e) = n /\ Len(data) = len
    BY <1>2, <1>7, <1>8, <1>10
  <2>2. zero <= two /\ two <= n /\ two <= Len(e) /\ n <= Len(e)
    BY ONLY <2>1, <1>10, n \in Nat
  <2>3. c = len + 2 /\ c + 1 = len + 3 /\ zero + 1 = 1
    BY ONLY <2>1, <1>10, <1>11, len \in Nat, c \in Nat
  <2>4. len = Len(data) + zero /\ c = Len(data) + two /\ d = Len(data) + n
    BY ONLY <2>1, <1>10, <1>11, len \in Nat, c \in Nat, d \in Nat, n \in Nat
  <2> QED
    BY ONLY <2>2, <2>3, <2>4
<1>13. SubSeq(data \o e, len + 1, c) = SubSeq(e, zero + 1, two)
  BY ONLY <1>8, <1>10, <1>11, <1>12, SliceOfSecond, data \in Seq(Byte),
          len \in Nat, c \in Nat, zero \in Nat, two \in Nat
<1>14. SubSeq(data \o e, c + 1, d) = SubSeq(e, two + 1, n)
  BY ONLY <1>8, <1>10, <1>11, <1>12, SliceOfSecond, data \in Seq(Byte),
          d \in Nat, c \in Nat, n \in Nat, two \in Nat
<1>15. data \o e \in Seq(Byte) /\ Len(data \o e) = d
  <2>1. data \o e \in Seq(Byte) /\ Len(data \o e) = Len(data) + Len(e)
    BY <1>8, JoinFacts
  <2> QED
    BY <1>8, <1>10, <1>11, <1>12, <2>1
<1>16. SubSeq(data \o e, len + 1, len + 2) = p /\ SubSeq(data \o e, len + 3, d) = b
  BY <1>9, <1>10, <1>11, <1>12, <1>13, <1>14
<1>17. d = len + 2 + Len(b) /\ d <= d
  BY <1>2, <1>7, <1>10, <1>11, <1>12
<1>18. Placed(data \o e, len, m, d)
  BY <1>1, <1>3, <1>15, <1>16, <1>17 DEF Placed
<1> QED
  BY <1>6, <1>10, <1>11, <1>12, <1>15, <1>18

\* A message is encoded as bytes.
LEMMA EncodedIsSeq ==
    ASSUME NEW m, Message(m)
    PROVE  EncodeBinary(m) \in Seq(Byte)
<1>1. Body(m) \in Seq(Byte) /\ 12 <= Len(Body(m)) /\ Len(Body(m)) <= 44 /\ Len(Body(m)) \in Nat
  BY BodyDecodes
<1>2. Fits16(Len(Body(m)))
  BY <1>1 DEF Fits16
<1>3. PutUint16(Len(Body(m))) \in [1 .. 2 -> Byte]
  BY <1>2, Uint16Back
<1>4. PutUint16(Len(Body(m))) \in Seq(Byte)
  BY <1>3, FunctionIsSeq
<1> QED
  BY <1>1, <1>4, JoinFacts DEF EncodeBinary

\* data holds the messages ms one after the other; off has the offsets between them.
Packed(data, ms, off) ==
    /\ data \in Seq(Byte) /\ ms \in Seq(Messages)
    /\ off \in [0 .. Len(ms) -> Nat] /\ off[0] = 0 /\ off[Len(ms)] = Len(data)
    /\ \A i \in 0 .. Len(ms) - 1 : Placed(data, off[i], ms[i + 1], off[i + 1])

\* An empty frame, and one more message.
LEMMA PackedEmpty == Packed(<<>>, <<>>, [i \in 0 .. 0 |-> 0])
BY DEF Packed

LEMMA PackedGrows ==
    ASSUME NEW data, NEW ms, NEW off, Packed(data, ms, off), NEW m \in Messages
    PROVE  \E new : Packed(data \o EncodeBinary(m), Append(ms, m), new)
<1>1. Message(m) /\ \A x \in Messages : Message(x)
  BY WireAssumption
<1>2. /\ data \in Seq(Byte) /\ ms \in Seq(Messages) /\ Len(ms) \in Nat
      /\ off \in [0 .. Len(ms) -> Nat] /\ off[0] = 0 /\ off[Len(ms)] = Len(data)
      /\ \A i \in 0 .. Len(ms) - 1 : Placed(data, off[i], ms[i + 1], off[i + 1])
  BY DEF Packed
<1>3. PICK k \in Nat : k = Len(ms)
  BY <1>2
<1>4. PICK all : all = data \o EncodeBinary(m)
  OBVIOUS
<1>5. all \in Seq(Byte) /\ Len(all) \in Nat /\ Placed(all, Len(data), m, Len(all))
  BY <1>1, <1>2, <1>4, PlacedLast
<1>6. PICK ns : ns = Append(ms, m)
  OBVIOUS
<1>7. ns \in Seq(Messages) /\ Len(ns) = k + 1 /\ ns[k + 1] = m /\ \A i \in 1 .. k : ns[i] = ms[i]
  BY <1>2, <1>3, <1>6
<1> DEFINE new == [i \in 0 .. k + 1 |-> IF i = k + 1 THEN Len(all) ELSE off[i]]
<1>8. new \in [0 .. k + 1 -> Nat] /\ new[k + 1] = Len(all) /\ \A i \in 0 .. k : new[i] = off[i]
  <2>1. \A i \in 0 .. k + 1 : i = k + 1 \/ i \in 0 .. k
    OBVIOUS
  <2>2. k + 1 \in 0 .. k + 1 /\ \A i \in 0 .. k : i \in 0 .. k + 1 /\ i # k + 1
    OBVIOUS
  <2>3. \A i \in 0 .. k : off[i] \in Nat
    BY <1>2, <1>3
  <2> QED
    BY <1>5, <2>1, <2>2, <2>3
<1> HIDE DEF new
<1>9. ASSUME NEW i \in 0 .. k PROVE Placed(all, new[i], ns[i + 1], new[i + 1])
  <2>1. CASE i = k
    <3>1. new[i] = Len(data) /\ new[i + 1] = Len(all) /\ ns[i + 1] = m
      BY <1>2, <1>3, <1>7, <1>8, <2>1
    <3> QED
      BY <1>5, <3>1
  <2>2. CASE i \in 0 .. k - 1
    <3>1. i \in 0 .. k /\ i + 1 \in 0 .. k /\ i + 1 \in 1 .. k
      BY <2>2
    <3>2. new[i] = off[i] /\ new[i + 1] = off[i + 1] /\ ns[i + 1] = ms[i + 1]
      BY <1>7, <1>8, <3>1
    <3>3. Placed(data, off[i], ms[i + 1], off[i + 1]) /\ off[i] \in Nat /\ ms[i + 1] \in Messages
      BY <1>2, <1>3, <2>2, <3>1
    <3>4. EncodeBinary(m) \in Seq(Byte)
      BY <1>1, EncodedIsSeq
    <3>5. Placed(all, off[i], ms[i + 1], off[i + 1])
      BY <1>1, <1>2, <1>4, <3>3, <3>4, PlacedStays
    <3> QED
      BY <3>2, <3>5
  <2> QED
    BY <2>1, <2>2
<1>10. (k + 1) - 1 = k /\ 0 \in 0 .. k
  OBVIOUS
<1>11. Packed(all, ns, new)
  BY <1>2, <1>3, <1>5, <1>7, <1>8, <1>9, <1>10 DEF Packed
<1> QED
  BY <1>4, <1>6, <1>11

\* The lines are those for the messages ms.
LinesFor(lines, ms) ==
    /\ Len(lines) = Len(ms) /\ DOMAIN lines = 1 .. Len(ms)
    /\ \A i \in 1 .. Len(ms) : lines[i] = decodeMessage(Body(ms[i]))

AllLines == {decodeMessage(Body(m)) : m \in Messages}

\* From any message on, g has the lines for it and those that follow.
RestRead(g, off, ms) ==
    \A j \in 0 .. Len(ms) :
        /\ g[off[Len(ms) - j]] \in Seq(AllLines) /\ Len(g[off[Len(ms) - j]]) = j
        /\ \A x \in 1 .. j : g[off[Len(ms) - j]][x] = decodeMessage(Body(ms[Len(ms) - j + x]))

\* From any message on, the loop finds the rest of them.
LEMMA LoopReadsRest ==
    ASSUME NEW data, NEW ms, NEW off, NEW g, Packed(data, ms, off), Steps(data, g)
    PROVE  RestRead(g, off, ms)
<1>1. /\ data \in Seq(Byte) /\ ms \in Seq(Messages) /\ Len(ms) \in Nat /\ Len(data) \in Nat
      /\ off \in [0 .. Len(ms) -> Nat] /\ off[0] = 0 /\ off[Len(ms)] = Len(data)
      /\ \A i \in 0 .. Len(ms) - 1 : Placed(data, off[i], ms[i + 1], off[i + 1])
  BY DEF Packed
<1>2. PICK k \in Nat : k = Len(ms)
  BY <1>1
<1>3. PICK B : B = AllLines
  OBVIOUS
<1> DEFINE Rest(j) == /\ g[off[k - j]] \in Seq(B) /\ Len(g[off[k - j]]) = j
                      /\ \A x \in 1 .. j : g[off[k - j]][x] = decodeMessage(Body(ms[k - j + x]))
           S == {j \in Nat : j <= k => Rest(j)}
<1>4. 0 \in S
  <2>1. k - 0 = k /\ off[k] = Len(data) /\ Len(data) \in 0 .. Len(data)
    BY <1>1, <1>2
  <2>2. ~Whole(data, Len(data))
    BY <1>1 DEF Whole
  <2>3. g[off[k - 0]] = <<>>
    BY <2>1, <2>2 DEF Steps
  <2>4. <<>> \in Seq(B) /\ Len(<<>>) = 0
    OBVIOUS
  <2>5. Rest(0)
    BY <2>3, <2>4
  <2> QED
    BY <2>5
<1>5. ASSUME NEW j \in Nat, j \in S PROVE j + 1 \in S
  <2> SUFFICES ASSUME j + 1 <= k PROVE Rest(j + 1)
    OBVIOUS
  <2>1. PICK i \in 0 .. k - 1 : i = k - (j + 1) /\ i + 1 = k - j /\ i \in 0 .. k /\ i + 1 \in 1 .. k
    <3>1. k - (j + 1) \in 0 .. k - 1 /\ (k - (j + 1)) + 1 = k - j
      OBVIOUS
    <3> QED
      BY <3>1
  <2>2. Rest(j)
    BY <1>5
  <2>3. PICK s : s = g[off[i + 1]]
    OBVIOUS
  <2>4. s \in Seq(B) /\ Len(s) = j
    BY <2>1, <2>2, <2>3
  <2>5. \A x \in 1 .. j : s[x] = decodeMessage(Body(ms[i + 1 + x]))
    BY <2>1, <2>2, <2>3
  <2>6. PICK d \in B : d = decodeMessage(Body(ms[i + 1]))
    <3>1. ms[i + 1] \in Messages
      BY <1>1, <1>2, <2>1
    <3> QED
      BY <1>3, <3>1 DEF AllLines
  <2>7. g[off[i]] = <<d>> \o s
    <3>1. PICK a \in Nat : a = off[i]
      BY <1>1, <1>2, <2>1
    <3>2. PICK b : b = off[i + 1]
      OBVIOUS
    <3>3. a = off[i] /\ b = off[i + 1] /\ Placed(data, a, ms[i + 1], b)
      BY <1>1, <1>2, <2>1, <3>1, <3>2
    <3>4. Message(ms[i + 1])
      <4>1. ms[i + 1] \in Messages
        BY <1>1, <1>2, <2>1
      <4> QED
        BY <4>1, WireAssumption
    <3>5. Whole(data, a) /\ Line(data, a) = d /\ b = a + 2 + Prefix(data, a) /\ b > a /\ b \in Nat
      BY <1>1, <2>6, <3>3, <3>4, PlacedIsRead
    <3>6. a \in 0 .. Len(data)
      <4>1. b <= Len(data)
        BY <3>3 DEF Placed
      <4> QED
        BY <1>1, <3>5, <4>1
    <3>7. g[a] = <<Line(data, a)>> \o g[a + 2 + Prefix(data, a)]
      BY <3>5, <3>6 DEF Steps
    <3> QED
      BY <2>3, <3>3, <3>5, <3>7
  <2>8. /\ g[off[i]] \in Seq(B) /\ Len(g[off[i]]) = j + 1 /\ g[off[i]][1] = d
        /\ \A x \in 1 .. j : g[off[i]][x + 1] = s[x]
    <3>1. /\ <<d>> \o s \in Seq(B) /\ Len(<<d>> \o s) = Len(s) + 1 /\ (<<d>> \o s)[1] = d
          /\ \A x \in 1 .. Len(s) : (<<d>> \o s)[x + 1] = s[x]
      BY ONLY <2>4, FrontFacts, d \in B
    <3> QED
      BY <2>4, <2>7, <3>1
  <2>9. ASSUME NEW x \in 1 .. j + 1 PROVE g[off[i]][x] = decodeMessage(Body(ms[i + x]))
    <3>1. CASE x = 1
      BY <2>6, <2>8, <3>1
    <3>2. CASE x # 1
      <4>1. PICK y \in 1 .. j : x = y + 1 /\ i + 1 + y = i + x
        <5>1. x - 1 \in 1 .. j /\ x = (x - 1) + 1 /\ i + 1 + (x - 1) = i + x
          BY <3>2
        <5> QED
          BY <5>1
      <4>2. g[off[i]][y + 1] = decodeMessage(Body(ms[i + 1 + y]))
        BY <2>5, <2>8
      <4> QED
        BY <4>1, <4>2
    <3> QED
      BY <3>1, <3>2
  <2> QED
    BY <2>1, <2>8, <2>9
<1>6. \A j \in Nat : j \in S
  <2> HIDE DEF S
  <2> QED
    BY <1>4, <1>5, NatByNext
<1>7. \A j \in 0 .. k : Rest(j)
  BY <1>6
<1> QED
  BY <1>2, <1>7, <1>3 DEF RestRead

\* A frame of messages is read as these messages, one or several of them.
LEMMA FrameRead ==
    ASSUME NEW data, NEW ms, NEW off, Packed(data, ms, off), ms # <<>>
    PROVE  LinesFor(decodeBinaryFrames(data), ms)
<1>1. /\ data \in Seq(Byte) /\ ms \in Seq(Messages) /\ Len(ms) \in Nat /\ Len(data) \in Nat
      /\ off \in [0 .. Len(ms) -> Nat] /\ off[0] = 0 /\ off[Len(ms)] = Len(data)
      /\ \A i \in 0 .. Len(ms) - 1 : Placed(data, off[i], ms[i + 1], off[i + 1])
  BY DEF Packed
<1>2. PICK k \in Nat : k = Len(ms) /\ k >= 1
  BY <1>1
<1>3. PICK g : messagesFrom(data) = g[0] /\ Steps(data, g)
  BY <1>1, MessagesFromLoop
<1>4. RestRead(g, off, ms)
  BY <1>3, LoopReadsRest
<1>5. PICK B : B = AllLines
  OBVIOUS
<1>6. \A j \in 0 .. k :
          /\ g[off[k - j]] \in Seq(B) /\ Len(g[off[k - j]]) = j
          /\ \A x \in 1 .. j : g[off[k - j]][x] = decodeMessage(Body(ms[k - j + x]))
  BY ONLY <1>2, <1>4, <1>5 DEF RestRead
<1>7. /\ messagesFrom(data) \in Seq(B) /\ Len(messagesFrom(data)) = k
      /\ \A x \in 1 .. k : messagesFrom(data)[x] = decodeMessage(Body(ms[x]))
  <2>1. k \in 0 .. k /\ k - k = 0 /\ off[0] = 0 /\ \A x \in 1 .. k : k - k + x = x
    BY <1>1
  <2>2. /\ g[off[k - k]] \in Seq(B) /\ Len(g[off[k - k]]) = k
        /\ \A x \in 1 .. k : g[off[k - k]][x] = decodeMessage(Body(ms[k - k + x]))
    BY ONLY <1>6, <2>1
  <2>3. g[off[k - k]] = messagesFrom(data)
    BY <1>3, <2>1
  <2>4. \A x \in 1 .. k : messagesFrom(data)[x] = decodeMessage(Body(ms[x]))
    BY ONLY <2>1, <2>2, <2>3
  <2> QED
    BY ONLY <2>2, <2>3, <2>4
<1>8. Message(ms[1]) /\ Placed(data, 0, ms[1], off[1]) /\ 0 \in Nat
  <2>1. 0 \in 0 .. Len(ms) - 1 /\ 0 + 1 = 1 /\ 1 \in 1 .. Len(ms)
    BY <1>2
  <2>2. Placed(data, off[0], ms[0 + 1], off[0 + 1]) /\ ms[1] \in Messages
    BY <1>1, <2>1
  <2> QED
    BY <1>1, <2>1, <2>2, WireAssumption
<1>9. off[1] = 0 + 2 + Prefix(data, 0) /\ Prefix(data, 0) \in Nat /\ off[1] \in Nat /\ off[1] <= Len(data)
  <2>1. off[1] = 0 + 2 + Prefix(data, 0) /\ off[1] \in Nat /\ Prefix(data, 0) = Len(Body(ms[1]))
    BY ONLY <1>1, <1>8, PlacedIsRead
  <2>2. Body(ms[1]) \in Seq(Byte) /\ off[1] <= Len(data)
    BY <1>8, BodyDecodes DEF Placed
  <2> QED
    BY <2>1, <2>2
<1>10. ~(Len(data) < 2) /\ Len(data) # 2
  <2>1. Prefix(data, 0) = Len(Body(ms[1]))
    BY ONLY <1>1, <1>8, PlacedIsRead
  <2>2. 12 <= Len(Body(ms[1]))
    BY <1>8, BodyDecodes
  <2>3. 12 <= Prefix(data, 0)
    BY ONLY <2>1, <2>2
  <2>4. PICK n \in Nat, len \in Nat, o \in Nat :
            n = Prefix(data, 0) /\ len = Len(data) /\ o = off[1] /\ 12 <= n /\ o = 0 + 2 + n /\ o <= len
    BY ONLY <1>1, <1>9, <2>3
  <2>5. ~(len < 2) /\ len # 2
    BY ONLY <2>4, n \in Nat, len \in Nat, o \in Nat
  <2> QED
    BY ONLY <2>4, <2>5
<1>11. CASE Prefix(data, 0) + 2 = Len(data)
  <2>1. off[1] = Len(data)
    BY <1>9, <1>11
  <2>2. k = 1
    <3>1. k - 1 \in 0 .. k /\ k - (k - 1) = 1 /\ 0 \in 0 .. k /\ k - 0 = k
      BY <1>2
    <3>2. Len(g[off[1]]) = k - 1
      BY <1>6, <3>1
    <3>3. Len(g[off[k]]) = 0
      BY <1>6, <3>1
    <3>4. off[k] = off[1]
      BY <1>1, <1>2, <2>1
    <3> QED
      BY <3>2, <3>3, <3>4
  <2>3. SubSeq(data, 3, Len(data)) = Body(ms[1])
    <3>1. SubSeq(data, 0 + 3, off[1]) = Body(ms[1])
      BY <1>8 DEF Placed
    <3> QED
      BY <2>1, <3>1
  <2>4. decodeBinaryFrames(data) = <<decodeMessage(Body(ms[1]))>>
    <3>1. Uint16(SubSeq(data, 1, 2)) + 2 = Len(data)
      BY <1>11 DEF Prefix
    <3> QED
      BY <1>10, <2>3, <3>1 DEF decodeBinaryFrames
  <2>5. PICK d : d = decodeMessage(Body(ms[1]))
    OBVIOUS
  <2>6. LinesFor(<<d>>, ms)
    BY <1>2, <2>2, <2>5 DEF LinesFor
  <2> QED
    BY <2>4, <2>5, <2>6
<1>12. CASE Prefix(data, 0) + 2 # Len(data)
  <2>1. messagesFrom(data) # <<>>
    BY <1>2, <1>7
  <2>2. decodeBinaryFrames(data) = messagesFrom(data)
    <3>1. Uint16(SubSeq(data, 1, 2)) + 2 # Len(data)
      BY <1>12 DEF Prefix
    <3> QED
      BY <1>10, <2>1, <3>1 DEF decodeBinaryFrames
  <2>3. LinesFor(messagesFrom(data), ms)
    BY <1>2, <1>7 DEF LinesFor
  <2> QED
    BY <2>2, <2>3
<1> QED
  BY <1>11, <1>12

\* A body without its prefix: its first two bytes, taken for a length, lead past its end.
LEMMA BodyRead ==
    ASSUME NEW m, Message(m)
    PROVE  LinesFor(decodeBinaryFrames(Body(m)), <<m>>)
<1>1. PICK b : b = Body(m)
  OBVIOUS
<1>2. b \in Seq(Byte) /\ 12 <= Len(b) /\ Len(b) <= 44 /\ b[1] \in MsgTypes /\ Len(b) \in Nat
  BY <1>1, BodyDecodes
<1>3. b[1] \in Nat /\ b[1] >= 65
  BY <1>2 DEF MsgTypes, MsgSystemEvent, MsgStockDirectory, MsgStockTradingAction, MsgAddOrder, MsgAddOrderMPID,
              MsgOrderExecuted, MsgOrderCancel, MsgOrderDelete, MsgOrderReplace, MsgTrade
<1>4. Uint16(SubSeq(b, 1, 2)) \in Nat /\ Uint16(SubSeq(b, 1, 2)) > 44
  <2>1. PICK z \in Nat, two \in Nat : z = 0 /\ two = 2 /\ z <= two /\ two <= Len(b) /\ z + 1 = 1 /\ two - z = 2
    BY <1>2
  <2>2. PICK s : s = SubSeq(b, z + 1, two)
    OBVIOUS
  <2>3. s \in Seq(Byte) /\ Len(s) = two - z /\ \A i \in 1 .. two - z : s[i] = b[z + i]
    BY ONLY <1>2, <2>1, <2>2, SliceFacts, z \in Nat, two \in Nat
  <2>4. s[1] = b[1] /\ s[2] \in Byte
    <3>1. Len(s) = 2
      BY <2>1, <2>3
    <3>2. s \in [1 .. 2 -> Byte]
      BY ONLY <2>3, <3>1, SeqIsFunction
    <3>3. 1 \in 1 .. two - z /\ z + 1 = 1
      BY <2>1
    <3>4. s[1] = b[1]
      BY ONLY <2>3, <3>3
    <3> QED
      BY ONLY <3>2, <3>4
  <2>5. s[2] \in Nat
    <3>1. \A x \in Byte : x \in Nat
      BY DEF Byte
    <3> QED
      BY ONLY <2>4, <3>1
  <2>6. PICK x \in Nat, y \in Nat : x = s[1] /\ y = s[2] /\ x >= 65
    BY ONLY <1>3, <2>4, <2>5
  <2>7. Uint16(s) = x * 256 + y
    BY <2>6 DEF Uint16
  <2>8. x * 256 + y > 44 /\ x * 256 + y \in Nat
    BY ONLY <2>6, x \in Nat, y \in Nat
  <2> QED
    BY <2>1, <2>2, <2>7, <2>8
<1>5. ~(Len(b) < 2) /\ Uint16(SubSeq(b, 1, 2)) + 2 # Len(b)
  BY <1>2, <1>4
<1>6. messagesFrom(b) = <<>>
  <2>1. PICK g : messagesFrom(b) = g[0] /\ Steps(b, g)
    BY <1>2, MessagesFromLoop
  <2>2. ~Whole(b, 0)
    <3>1. Prefix(b, 0) = Uint16(SubSeq(b, 1, 2))
      BY DEF Prefix
    <3>2. ~(0 + 2 + Prefix(b, 0) <= Len(b))
      BY <1>2, <1>4, <3>1
    <3> QED
      BY <3>2 DEF Whole
  <2>3. 0 \in 0 .. Len(b)
    BY <1>2
  <2> QED
    BY <2>1, <2>2, <2>3 DEF Steps
<1>7. decodeBinaryFrames(b) = <<decodeMessage(b)>>
  BY <1>5, <1>6 DEF decodeBinaryFrames
<1>8. LinesFor(<<decodeMessage(b)>>, <<m>>)
  <2>1. PICK d : d = decodeMessage(b)
    OBVIOUS
  <2>2. LinesFor(<<d>>, <<m>>)
    BY <1>1, <2>1 DEF LinesFor
  <2> QED
    BY <2>1, <2>2
<1> QED
  BY <1>1, <1>7, <1>8

-----------------------------------------------------------------------------
(* Frames and formats.                                                     *)

\* The frame is the body of its message, or its messages packed; what is
\* printed are the lines for them.
WireInv ==
    /\ batch \in Seq(Messages)
    /\ raw => Len(batch) = 1 /\ payload = Body(batch[1])
    /\ ~raw => \E off : Packed(payload, batch, off)
    /\ printed # <<>> => LinesFor(printed, batch)

\* The invariant holds at first and is kept by every step.
LEMMA WireInvInit == WireInit => WireInv
<1> SUFFICES ASSUME WireInit PROVE WireInv
  OBVIOUS
<1>1. batch = <<>> /\ ~raw /\ payload = <<>> /\ printed = <<>>
  BY DEF WireInit
<1>2. Packed(payload, batch, [i \in 0 .. 0 |-> 0])
  BY <1>1, PackedEmpty
<1>3. batch \in Seq(Messages)
  BY <1>1
<1> QED
  BY <1>1, <1>2, <1>3 DEF WireInv

LEMMA WireInvStep == WireInv /\ [WireNext]_wireVars => WireInv'
<1> SUFFICES ASSUME WireInv, [WireNext]_wireVars PROVE WireInv'
  OBVIOUS
<1>1. ASSUME NEW m \in Messages, WriteMessage(m) PROVE WireInv'
  <2>1. /\ printed = <<>> /\ ~raw /\ raw' = raw /\ printed' = printed
        /\ payload' = payload \o EncodeBinary(m) /\ batch' = Append(batch, m)
    BY <1>1 DEF WriteMessage
  <2>2. PICK off : Packed(payload, batch, off)
    BY <2>1 DEF WireInv
  <2>3. \E new : Packed(payload', batch', new)
    BY <2>1, <2>2, PackedGrows
  <2>4. batch' \in Seq(Messages)
    BY <2>1 DEF WireInv
  <2> QED
    BY <2>1, <2>3, <2>4 DEF WireInv
<1>2. ASSUME NEW m \in Messages, WriteBody(m) PROVE WireInv'
  <2>1. printed = <<>> /\ payload' = Body(m) /\ batch' = <<m>> /\ raw' = TRUE /\ printed' = printed
    BY <1>2 DEF WriteBody
  <2>2. batch' \in Seq(Messages) /\ Len(batch') = 1 /\ batch'[1] = m
    BY <2>1
  <2> QED
    BY <2>1, <2>2 DEF WireInv
<1>3. CASE ReadMessage
  <2>1. /\ batch # <<>> /\ batch' = batch /\ raw' = raw /\ payload' = payload
        /\ printed' = decodeBinaryFrames(payload)
    BY <1>3 DEF ReadMessage
  <2>2. batch \in Seq(Messages) /\ \A x \in Messages : Message(x)
    BY WireAssumption DEF WireInv
  <2>3. LinesFor(printed', batch)
    <3>1. CASE raw
      <4>1. Len(batch) = 1 /\ payload = Body(batch[1])
        BY <3>1 DEF WireInv
      <4>2. PICK m \in Messages : m = batch[1]
        BY <2>2, <4>1
      <4>3. batch = <<m>>
        BY <2>2, <4>1, <4>2
      <4>4. LinesFor(decodeBinaryFrames(Body(m)), <<m>>)
        BY <2>2, BodyRead
      <4> QED
        BY <2>1, <4>1, <4>2, <4>3, <4>4
    <3>2. CASE ~raw
      <4>1. PICK off : Packed(payload, batch, off)
        BY <3>2 DEF WireInv
      <4> QED
        BY <2>1, <4>1, FrameRead
    <3> QED
      BY <3>1, <3>2
  <2>4. LinesFor(printed', batch')
    BY <2>1, <2>3
  <2>5. ~raw => \E off : Packed(payload', batch', off)
    BY <2>1 DEF WireInv
  <2> QED
    BY <2>1, <2>2, <2>4, <2>5 DEF WireInv
<1>4. CASE NextFrame
  <2>1. batch' = <<>> /\ ~raw' /\ payload' = <<>> /\ printed' = <<>>
    BY <1>4 DEF NextFrame
  <2>2. Packed(payload', batch', [i \in 0 .. 0 |-> 0])
    BY <2>1, PackedEmpty
  <2>3. batch' \in Seq(Messages)
    BY <2>1
  <2> QED
    BY <2>1, <2>2, <2>3 DEF WireInv
<1>5. CASE UNCHANGED wireVars
  BY <1>5 DEF WireInv, wireVars
<1> QED
  BY <1>1, <1>2, <1>3, <1>4, <1>5 DEF WireNext

LEMMA WireInvAlways == WireSpec => []WireInv
BY WireInvInit, WireInvStep, PTL DEF WireSpec

\* Each printed line mirrors its message.
LEMMA PrintedMirrors ==
    ASSUME WireInv, printed # <<>>
    PROVE  /\ Len(printed) = Len(batch) /\ DOMAIN printed = 1 .. Len(batch) /\ DOMAIN batch = 1 .. Len(batch)
           /\ \A i \in 1 .. Len(batch) : Mirrors(printed[i], batch[i])
<1>1. LinesFor(printed, batch) /\ batch \in Seq(Messages)
  BY DEF WireInv
<1>2. Len(printed) = Len(batch) /\ DOMAIN printed = 1 .. Len(batch) /\ DOMAIN batch = 1 .. Len(batch)
  BY <1>1 DEF LinesFor
<1>3. ASSUME NEW i \in 1 .. Len(batch) PROVE Mirrors(printed[i], batch[i])
  <2>1. PICK m \in Messages : m = batch[i]
    BY <1>1
  <2>2. printed[i] = decodeMessage(Body(m))
    BY <1>1, <2>1 DEF LinesFor
  <2>3. Mirrors(decodeMessage(Body(m)), m)
    BY WireAssumption, BodyDecodes
  <2> QED
    BY <2>1, <2>2, <2>3
<1> QED
  BY <1>2, <1>3

\* The decoder finds the messages of a frame, all of them and in their order,
\* whether it holds one, several or a bare body (decodeBinaryFrames against
\* EncodeBinary), for any messages and any number of them in a frame.
THEOREM FramesAreSplit == WireSpec => []FramesSplit
<1>1. WireInv => FramesSplit
  <2> SUFFICES ASSUME WireInv, printed # <<>>
               PROVE  /\ Len(printed) = Len(batch)
                      /\ \A i \in DOMAIN batch : printed[i].type = batch[i].Type /\ printed[i].ok
    BY DEF FramesSplit
  <2> QED
    BY PrintedMirrors DEF Mirrors
<1> QED
  BY <1>1, WireInvAlways, PTL

\* What the decoder reads out of the bytes of a message is what JSON has for it
\* (EncodeBinary and the ten decoders against msgToMap), whatever its fields hold.
THEOREM BothFormatsAgree == WireSpec => []FormatsAgree
<1>1. WireInv => FormatsAgree
  <2> SUFFICES ASSUME WireInv, NEW i \in DOMAIN printed \cap DOMAIN batch, NEW f \in DOMAIN printed[i].fields
               PROVE  f \in JsonFields(batch[i].Type) /\ printed[i].fields[f] = msgToMap(batch[i])[f]
    BY DEF FormatsAgree
  <2>1. printed # <<>>
    OBVIOUS
  <2>2. Mirrors(printed[i], batch[i])
    BY <2>1, PrintedMirrors
  <2> QED
    BY <2>2 DEF Mirrors
<1> QED
  BY <1>1, WireInvAlways, PTL
=============================================================================
