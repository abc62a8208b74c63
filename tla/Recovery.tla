------------------------------- MODULE Recovery -------------------------------
(***************************************************************************)
(* What survives a crash or a restart: the id and match counters of        *)
(* orderbook/order.go, the snapshots of persist/snapshot.go and the trade  *)
(* log that cmd/feedsim/main.go feeds through a bounded channel.           *)
(*                                                                         *)
(* Everything here runs concurrently: one runner per symbol, the           *)
(* snapshotter (Run, Save), the trade writers and the signal handler.  A   *)
(* book is the set of ids it holds (OrderBook has the rest) and shares is  *)
(* the heap of Order structs: Save collects *pointers* under the book's    *)
(* lock and reads the fields through them later, without it.               *)
(*                                                                         *)
(* The database is PostgreSQL: a transaction is applied whole at Commit    *)
(* or not at all.  Prices and the state of the random generator are saved  *)
(* and restored like the counters; no property here depends on them.       *)
(***************************************************************************)
EXTENDS Integers, Sequences, FiniteSets, SequencesExt

CONSTANTS
    Symbols,            \* the symbols (30 in the code)
    Writers,            \* the tradeWriter goroutines (2 in the code)
    ChannelCap,         \* capacity of tradeCh (4096)
    MaxLots,            \* the largest order, in lots
    LoadMayFail,        \* TRUE: a query of Load may return an error
    DbMayFail,          \* TRUE: a statement of Save or SaveTrade may return an error
    MaxTradesPerStep,   \* bound: trades of one Step
    MaxOrderID,         \* bound: order ids handed out
    MaxMatch,           \* bound: match numbers handed out
    MaxRuns             \* bound: starts of the process

ASSUME RecoveryAssumption ==
    /\ ChannelCap \in Nat \ {0}
    /\ MaxLots \in Nat \ {0}
    /\ LoadMayFail \in BOOLEAN
    /\ DbMayFail \in BOOLEAN
    /\ MaxTradesPerStep \in Nat
    /\ MaxOrderID \in Nat
    /\ MaxMatch \in Nat
    /\ MaxRuns \in Nat

VARIABLES
    phase,              \* of the process: see Phases
    run,                \* how often the process was started
    orderIDCounter,     \* orderbook.orderIDCounter
    matchCounter,       \* orderbook.matchCounter
    unseeded,           \* symbols whose Initialize is still to run
    held,               \* symbol -> ids in Book.orderMap
    shares,             \* symbol -> order id -> Order.Shares, of every Order struct
    pending,            \* symbol -> id taken by doAdd and not yet in the book, or 0
    hit,                \* symbol -> order and lots doTrade is about to take off the book
    outbox,             \* symbol -> match numbers of the trades of the current Step
    flushing,           \* symbol -> TRUE inside the loop of enqueueTrades
    tradeCh,            \* the channel: match numbers
    writing,            \* writer -> the match number it is saving, or 0
    saveAt,             \* where Save is
    unread,             \* symbols whose AllOrders Save has still to call
    uncopied,           \* orders (symbol, id) CopyFrom has still to read
    txRows,             \* rows CopyFrom has written in the open transaction
    txOrderCounter,     \* the counters written in the open transaction
    txMatchCounter,
    finalSave,          \* the save that Run makes on shutdown
    dbPresent,          \* the symbols table has rows
    dbRows,             \* the orders table
    dbOrderCounter,     \* sim_state 'order_id_counter'
    dbMatchCounter,     \* sim_state 'match_counter'
    trades,             \* the trades table: match_number -> run of the trade it logs
    issued,             \* history: the ids NextOrderID returned, as [run, ID]
    executed,           \* history: the trades doTrade made, as [run, match]
    firstMatch,         \* history: matchCounter when the process became ready
    dropped,            \* history: this run's trades that a full channel or an error lost
    discarded           \* history: this run's trades that ON CONFLICT DO NOTHING lost

counters == <<orderIDCounter, matchCounter>>
runners  == <<unseeded, held, shares, pending, hit, outbox, flushing>>
channel  == <<tradeCh, writing>>
transaction == <<saveAt, unread, uncopied, txRows, txOrderCounter, txMatchCounter>>
saver    == <<transaction, finalSave>>
snapshot == <<dbPresent, dbRows, dbOrderCounter, dbMatchCounter>>
history  == <<issued, executed, firstMatch, dropped, discarded>>

vars == <<phase, run, counters, runners, channel, saver, snapshot, trades, history>>

Ids     == 1 .. MaxOrderID
Matches == 1 .. MaxMatch
Lots    == 0 .. MaxLots
Row     == [Locate : Symbols, ID : Ids, Shares : Lots]
NoHit   == [ID |-> 0, Lots |-> 0]

\* down: not started or crashed; exited: main returned after a signal;
\* seeding: Load came back with restored = false; stopping: ctx is cancelled.
Phases == {"down", "exited", "seeding", "up", "stopping"}

-----------------------------------------------------------------------------
(* Start-up: Load, and Initialize unless Load restored a state.            *)

Stopped == phase \in {"down", "exited"}

Init ==
    /\ phase = "down" /\ run = 0
    /\ orderIDCounter = 0 /\ matchCounter = 0
    /\ unseeded = {}
    /\ held = [s \in Symbols |-> {}]
    /\ shares = [s \in Symbols |-> [id \in Ids |-> 0]]
    /\ pending = [s \in Symbols |-> 0] /\ hit = [s \in Symbols |-> NoHit]
    /\ outbox = [s \in Symbols |-> <<>>] /\ flushing = [s \in Symbols |-> FALSE]
    /\ tradeCh = <<>> /\ writing = [w \in Writers |-> 0]
    /\ saveAt = "idle" /\ unread = {} /\ uncopied = {} /\ txRows = {}
    /\ txOrderCounter = 0 /\ txMatchCounter = 0 /\ finalSave = "none"
    /\ dbPresent = FALSE /\ dbRows = {}
    /\ dbOrderCounter = 0 /\ dbMatchCounter = 0
    /\ trades = [m \in {} |-> 0]
    /\ issued = {} /\ executed = {} /\ firstMatch = 0
    /\ dropped = {} /\ discarded = {}

\* The books after RestoreOrder for every row of rows.
Restored(rows) ==
    /\ held' = [s \in Symbols |-> {r.ID : r \in {q \in rows : q.Locate = s}}]
    /\ shares' = [s \in Symbols |-> [id \in Ids |->
                     IF \E r \in rows : r.Locate = s /\ r.ID = id
                     THEN (CHOOSE r \in rows : r.Locate = s /\ r.ID = id).Shares
                     ELSE 0]]

\* Load, in its three outcomes, and the branch of main on its result.
LoadNothing ==
    /\ ~dbPresent
    /\ Restored({})
    /\ orderIDCounter' = 0 /\ matchCounter' = 0
    /\ phase' = "seeding" /\ unseeded' = Symbols

\* Mutant: Load does not restore the order id counter.
LoadAllButOrderCounter ==
    /\ dbPresent
    /\ Restored(dbRows)
    /\ orderIDCounter' = 0 /\ matchCounter' = dbMatchCounter
    /\ phase' = "up" /\ unseeded' = {}

\* Mutant: Load does not restore the match counter.
LoadAllButMatchCounter ==
    /\ dbPresent
    /\ Restored(dbRows)
    /\ orderIDCounter' = dbOrderCounter /\ matchCounter' = 0
    /\ phase' = "up" /\ unseeded' = {}

LoadAll ==
    /\ dbPresent
    /\ Restored(dbRows)
    /\ orderIDCounter' = dbOrderCounter /\ matchCounter' = dbMatchCounter
    /\ phase' = "up" /\ unseeded' = {}

\* A query fails.  Before the end of the orders, Load returns an error with
\* the rows read so far in the books, and main goes on to Initialize; after
\* it, the error of either query for a counter is ignored.
LoadFails ==
    /\ LoadMayFail /\ dbPresent
    /\ \/ /\ \E rows \in SUBSET dbRows : Restored(rows)
          /\ orderIDCounter' = 0 /\ matchCounter' = 0
          /\ phase' = "seeding" /\ unseeded' = Symbols
       \/ /\ Restored(dbRows)
          /\ orderIDCounter' \in {0, dbOrderCounter} /\ matchCounter' \in {0, dbMatchCounter}
          /\ phase' = "up" /\ unseeded' = {}

\* A start of the process; its memory is empty but for what Load sets.
Start ==
    /\ Stopped /\ run < MaxRuns
    /\ run' = run + 1
    /\ LoadNothing \/ LoadAll \/ LoadFails
    /\ firstMatch' = matchCounter'
    /\ finalSave' = "none"
    /\ UNCHANGED <<pending, hit, outbox, flushing, channel, transaction, snapshot, trades,
                   issued, executed, dropped, discarded>>

NextOrderID == orderIDCounter + 1

Issue(id) == issued' = issued \cup {[run |-> run, ID |-> id]}

CanAllocate == orderIDCounter < MaxOrderID

\* A set of orders once id was entered: the trim may drop an order, id itself
\* perhaps.
Entered(ids, id) == {(ids \cup {id}) \ {e} : e \in ids \cup {id, 0}}

\* Initialize of one symbol; one order stands for the 60 it enters, into a
\* book that is empty unless Load failed half-way.  Nothing else runs yet.
Initialize(s) ==
    /\ phase = "seeding" /\ s \in unseeded /\ CanAllocate
    /\ orderIDCounter' = NextOrderID
    /\ Issue(NextOrderID)
    /\ \E ids \in Entered(held[s], NextOrderID) \ {{}} : held' = [held EXCEPT ![s] = ids]
    /\ \E n \in 1 .. MaxLots : shares' = [shares EXCEPT ![s][NextOrderID] = n]
    /\ unseeded' = unseeded \ {s}
    /\ phase' = IF unseeded = {s} THEN "up" ELSE "seeding"
    /\ UNCHANGED <<run, matchCounter, pending, hit, outbox, flushing, channel, saver, snapshot, trades,
                   executed, firstMatch, dropped, discarded>>

-----------------------------------------------------------------------------
(* The runners.  They stop when they next look at ctx, some time after it  *)
(* was cancelled.                                                          *)

Running == phase \in {"up", "stopping"}

\* The runner of s is between two actions of a Step.
Acting(s) == Running /\ pending[s] = 0 /\ hit[s] = NoHit /\ ~flushing[s]

runnerFrame == <<phase, run, unseeded, channel, saver, snapshot, trades, firstMatch, dropped, discarded>>

\* doAdd and doReplenish build the Order, and with it take the id, before
\* AddOrder locks the book.
TakeID(s) ==
    /\ Acting(s) /\ CanAllocate
    /\ orderIDCounter' = NextOrderID
    /\ Issue(NextOrderID)
    /\ pending' = [pending EXCEPT ![s] = NextOrderID]
    /\ UNCHANGED <<runnerFrame, matchCounter, held, shares, hit, outbox, flushing, executed>>

AddOrder(s) ==
    /\ Running /\ pending[s] # 0
    /\ \E ids \in Entered(held[s], pending[s]) : held' = [held EXCEPT ![s] = ids]
    /\ \E n \in 1 .. MaxLots : shares' = [shares EXCEPT ![s][pending[s]] = n]
    /\ pending' = [pending EXCEPT ![s] = 0]
    /\ UNCHANGED <<runnerFrame, counters, hit, outbox, flushing, issued, executed>>

RemoveOrder(s) ==
    /\ Acting(s)
    /\ \E id \in held[s] : held' = [held EXCEPT ![s] = @ \ {id}]
    /\ UNCHANGED <<runnerFrame, counters, shares, pending, hit, outbox, flushing, issued, executed>>

\* ReplaceOrder takes the new id under the book's lock.
ReplaceOrder(s) ==
    /\ Acting(s) /\ CanAllocate
    /\ orderIDCounter' = NextOrderID
    /\ Issue(NextOrderID)
    /\ \E old \in held[s] : \E ids \in Entered(held[s] \ {old}, NextOrderID) :
           held' = [held EXCEPT ![s] = ids]
    /\ \E n \in 1 .. MaxLots : shares' = [shares EXCEPT ![s][NextOrderID] = n]
    /\ UNCHANGED <<runnerFrame, matchCounter, pending, hit, outbox, flushing, executed>>

\* The lots IntRange(1, lots) can return.
TradeLots(lots) == IF 1 >= lots THEN {1} ELSE 1 .. lots

\* doTrade up to the call of ReduceOrder: a match number and the messages.
doTrade(s) ==
    /\ Acting(s) /\ matchCounter < MaxMatch /\ Len(outbox[s]) < MaxTradesPerStep
    /\ matchCounter' = matchCounter + 1
    /\ \E id \in held[s] : \E n \in TradeLots(shares[s][id]) :
           hit' = [hit EXCEPT ![s] = [ID |-> id, Lots |-> n]]
    /\ outbox' = [outbox EXCEPT ![s] = Append(@, matchCounter + 1)]
    /\ executed' = executed \cup {[run |-> run, match |-> matchCounter + 1]}
    /\ UNCHANGED <<runnerFrame, orderIDCounter, held, shares, pending, flushing, issued>>

\* The order struct stays where it is when the order leaves the book.
ReduceOrder(s) ==
    /\ Running /\ hit[s] # NoHit
    /\ LET id   == hit[s].ID
           left == shares[s][id] - hit[s].Lots
       IN  /\ shares' = [shares EXCEPT ![s][id] = IF left <= 0 THEN 0 ELSE left]
           /\ held' = IF left <= 0 THEN [held EXCEPT ![s] = @ \ {id}] ELSE held
    /\ hit' = [hit EXCEPT ![s] = NoHit]
    /\ UNCHANGED <<runnerFrame, counters, pending, outbox, flushing, issued, executed>>

\* Mutant: a full channel loses its oldest trade to the new one.
enqueueTradesOverOldest(s) ==
    /\ Running /\ pending[s] = 0 /\ hit[s] = NoHit /\ outbox[s] # <<>>
    /\ tradeCh' = Append(IF Len(tradeCh) < ChannelCap THEN tradeCh ELSE Tail(tradeCh),
                         Head(outbox[s]))
    /\ outbox' = [outbox EXCEPT ![s] = Tail(@)]
    /\ flushing' = [flushing EXCEPT ![s] = Len(outbox[s]) > 1]
    /\ UNCHANGED <<phase, run, counters, unseeded, held, shares, pending, hit, writing,
                   saver, snapshot, trades, history>>

\* One turn of the loop of enqueueTrades, once Step has returned: a full
\* channel drops the trade and never blocks.
enqueueTrades(s) ==
    /\ Running /\ pending[s] = 0 /\ hit[s] = NoHit /\ outbox[s] # <<>>
    /\ IF Len(tradeCh) < ChannelCap
       THEN tradeCh' = Append(tradeCh, Head(outbox[s])) /\ UNCHANGED dropped
       ELSE dropped' = dropped \cup {Head(outbox[s])} /\ UNCHANGED tradeCh
    /\ outbox' = [outbox EXCEPT ![s] = Tail(@)]
    /\ flushing' = [flushing EXCEPT ![s] = Len(outbox[s]) > 1]
    /\ UNCHANGED <<phase, run, counters, unseeded, held, shares, pending, hit, writing,
                   saver, snapshot, trades, issued, executed, firstMatch, discarded>>

-----------------------------------------------------------------------------
(* The trade writers.                                                      *)

\* Mutant: the writer receives the next trade before the one it has is saved.
tradeWriterOverwrites(w) ==
    /\ Running /\ tradeCh # <<>>
    /\ writing' = [writing EXCEPT ![w] = Head(tradeCh)]
    /\ tradeCh' = Tail(tradeCh)
    /\ UNCHANGED <<phase, run, counters, runners, saver, snapshot, trades, history>>

tradeWriter(w) ==
    /\ Running /\ writing[w] = 0 /\ tradeCh # <<>>
    /\ writing' = [writing EXCEPT ![w] = Head(tradeCh)]
    /\ tradeCh' = Tail(tradeCh)
    /\ UNCHANGED <<phase, run, counters, runners, saver, snapshot, trades, history>>

\* INSERT ... ON CONFLICT (match_number) DO NOTHING.  Nobody looks at the
\* error that SaveTrade returns.
SaveTrade(w) ==
    /\ Running /\ writing[w] # 0
    /\ \/ /\ trades' = [m \in DOMAIN trades \cup {writing[w]} |->
                           IF m \in DOMAIN trades THEN trades[m] ELSE run]
          /\ discarded' = discarded \cup {m \in DOMAIN trades : m = writing[w] /\ trades[m] # run}
          /\ UNCHANGED dropped
       \/ /\ DbMayFail
          /\ dropped' = dropped \cup {writing[w]}
          /\ UNCHANGED <<trades, discarded>>
    /\ writing' = [writing EXCEPT ![w] = 0]
    /\ UNCHANGED <<phase, run, counters, runners, tradeCh, saver, snapshot, issued, executed, firstMatch>>

-----------------------------------------------------------------------------
(* The snapshotter.                                                        *)

saveFrame == <<phase, run, counters, runners, channel, trades, history>>

\* A statement of Save can succeed: the context it was called with is not
\* cancelled.
SaveLive == phase = "up" \/ (phase = "stopping" /\ finalSave = "running")

\* Begin, the prices, and DELETE FROM orders; on the ticker, or once when
\* ctx is cancelled.
SaveBegin ==
    /\ saveAt = "idle"
    /\ \/ phase = "up" /\ UNCHANGED finalSave
       \/ phase = "stopping" /\ finalSave = "none" /\ finalSave' = "running"
    /\ saveAt' = "books"
    /\ unread' = Symbols
    /\ UNCHANGED <<saveFrame, snapshot, uncopied, txRows, txOrderCounter, txMatchCounter>>

\* AllOrders of one book, under its lock: pointers.
AllOrders(s) ==
    /\ saveAt = "books" /\ SaveLive /\ s \in unread
    /\ uncopied' = uncopied \cup {[Locate |-> s, ID |-> id] : id \in held[s]}
    /\ unread' = unread \ {s}
    /\ saveAt' = IF unread = {s} THEN "copy" ELSE "books"
    /\ UNCHANGED <<saveFrame, snapshot, txRows, txOrderCounter, txMatchCounter, finalSave>>

\* CopyFrom reads one order through its pointer; the primary key of the
\* table refuses an id twice.
CopyFrom ==
    /\ saveAt = "copy" /\ SaveLive
    /\ \E o \in uncopied :
           /\ \A r \in txRows : r.ID # o.ID
           /\ txRows' = txRows \cup {[Locate |-> o.Locate, ID |-> o.ID,
                                      Shares |-> shares[o.Locate][o.ID]]}
           /\ uncopied' = uncopied \ {o}
    /\ UNCHANGED <<saveFrame, snapshot, saveAt, unread, txOrderCounter, txMatchCounter, finalSave>>

SaveOrderCounter ==
    /\ saveAt = "copy" /\ SaveLive /\ uncopied = {}
    /\ txOrderCounter' = orderIDCounter
    /\ saveAt' = "match"
    /\ UNCHANGED <<saveFrame, snapshot, unread, uncopied, txRows, txMatchCounter, finalSave>>

\* Mutant: the match counter is written under the key of the order counter.
SaveMatchAsOrderCounter ==
    /\ saveAt = "match" /\ SaveLive
    /\ txOrderCounter' = matchCounter
    /\ saveAt' = "commit"
    /\ UNCHANGED <<saveFrame, snapshot, unread, uncopied, txRows, txMatchCounter, finalSave>>

\* Mutant: the order counter is written under the key of the match counter.
SaveOrderAsMatchCounter ==
    /\ saveAt = "match" /\ SaveLive
    /\ txMatchCounter' = orderIDCounter
    /\ saveAt' = "commit"
    /\ UNCHANGED <<saveFrame, snapshot, unread, uncopied, txRows, txOrderCounter, finalSave>>

SaveMatchCounter ==
    /\ saveAt = "match" /\ SaveLive
    /\ txMatchCounter' = matchCounter
    /\ saveAt' = "commit"
    /\ UNCHANGED <<saveFrame, snapshot, unread, uncopied, txRows, txOrderCounter, finalSave>>

\* Save returns and its transaction is over.
NoTransaction ==
    /\ saveAt' = "idle" /\ unread' = {} /\ uncopied' = {} /\ txRows' = {}
    /\ txOrderCounter' = 0 /\ txMatchCounter' = 0

SaveEnds(result) ==
    /\ NoTransaction
    /\ finalSave' = IF finalSave = "running" THEN result ELSE finalSave
    /\ UNCHANGED saveFrame

Commit ==
    /\ saveAt = "commit" /\ SaveLive
    /\ dbPresent' = TRUE
    /\ dbRows' = txRows
    /\ dbOrderCounter' = txOrderCounter
    /\ dbMatchCounter' = txMatchCounter
    /\ SaveEnds("committed")

\* A statement fails, because of the database, a duplicate id or a cancelled
\* context, and the transaction is rolled back.
SaveFails ==
    /\ saveAt # "idle"
    /\ \/ DbMayFail
       \/ Running /\ ~SaveLive
       \/ saveAt = "copy" /\ \E o \in uncopied, r \in txRows : r.ID = o.ID
    /\ SaveEnds("failed")
    /\ UNCHANGED snapshot

-----------------------------------------------------------------------------
(* The end of a run.                                                       *)

\* SIGINT or SIGTERM: ctx is cancelled.
Shutdown ==
    /\ phase = "up" /\ phase' = "stopping"
    /\ UNCHANGED <<run, counters, runners, channel, saver, snapshot, trades, history>>

\* What is in memory is gone and an open transaction is rolled back; only
\* the database is left.
MemoryGone ==
    /\ orderIDCounter' = 0 /\ matchCounter' = 0
    /\ unseeded' = {}
    /\ held' = [s \in Symbols |-> {}]
    /\ shares' = [s \in Symbols |-> [id \in Ids |-> 0]]
    /\ pending' = [s \in Symbols |-> 0] /\ hit' = [s \in Symbols |-> NoHit]
    /\ outbox' = [s \in Symbols |-> <<>>] /\ flushing' = [s \in Symbols |-> FALSE]
    /\ tradeCh' = <<>> /\ writing' = [w \in Writers |-> 0]
    /\ NoTransaction
    /\ firstMatch' = 0 /\ dropped' = {} /\ discarded' = {}
    /\ UNCHANGED <<run, finalSave, snapshot, trades, issued, executed>>

\* ListenAndServe returns as soon as Shutdown is called, and main returns:
\* the deferred Close of the pool waits for the connections in use, and for
\* nothing else.
Exit ==
    /\ phase = "stopping" /\ saveAt = "idle"
    /\ \A w \in Writers : writing[w] = 0
    /\ phase' = "exited"
    /\ MemoryGone

\* The process dies at any other moment.
Crash ==
    /\ ~Stopped
    /\ phase' = "down"
    /\ MemoryGone

-----------------------------------------------------------------------------

Runner(s) == TakeID(s) \/ AddOrder(s) \/ RemoveOrder(s) \/ ReplaceOrder(s)
                \/ doTrade(s) \/ ReduceOrder(s) \/ enqueueTrades(s)

Writer(w) == tradeWriter(w) \/ SaveTrade(w)

Save == SaveBegin \/ (\E s \in Symbols : AllOrders(s)) \/ CopyFrom
           \/ SaveOrderCounter \/ SaveMatchCounter \/ Commit \/ SaveFails

Next ==
    \/ Start
    \/ \E s \in Symbols : Initialize(s) \/ Runner(s)
    \/ \E w \in Writers : Writer(w)
    \/ Save
    \/ Shutdown \/ Exit \/ Crash

Spec == Init /\ [][Next]_vars

\* The Go scheduler runs every goroutine that can run: each writer keeps
\* taking trades and saving them.
FairSpec == Spec /\ \A w \in Writers : WF_vars(Writer(w))

-----------------------------------------------------------------------------
(* Properties.                                                             *)

\* Every variable has its type.
TypeOK ==
    /\ phase \in Phases /\ run \in 0 .. MaxRuns
    /\ orderIDCounter \in 0 .. MaxOrderID /\ matchCounter \in 0 .. MaxMatch
    /\ unseeded \subseteq Symbols
    /\ held \in [Symbols -> SUBSET Ids]
    /\ shares \in [Symbols -> [Ids -> Lots]]
    /\ pending \in [Symbols -> 0 .. MaxOrderID]
    /\ hit \in [Symbols -> [ID : 0 .. MaxOrderID, Lots : Lots]]
    /\ outbox \in [Symbols -> Seq(Matches)]
    /\ flushing \in [Symbols -> BOOLEAN]
    /\ tradeCh \in Seq(Matches) /\ Len(tradeCh) <= ChannelCap
    /\ writing \in [Writers -> 0 .. MaxMatch]
    /\ saveAt \in {"idle", "books", "copy", "match", "commit"}
    /\ unread \subseteq Symbols
    /\ uncopied \subseteq [Locate : Symbols, ID : Ids]
    /\ txRows \subseteq Row
    /\ txOrderCounter \in 0 .. MaxOrderID /\ txMatchCounter \in 0 .. MaxMatch
    /\ finalSave \in {"none", "running", "committed", "failed"}
    /\ dbPresent \in BOOLEAN /\ dbRows \subseteq Row
    /\ dbOrderCounter \in 0 .. MaxOrderID /\ dbMatchCounter \in 0 .. MaxMatch
    /\ DOMAIN trades \subseteq Matches
    /\ \A m \in DOMAIN trades : trades[m] \in 1 .. MaxRuns
    /\ issued \subseteq [run : 1 .. MaxRuns, ID : Ids]
    /\ executed \subseteq [run : 1 .. MaxRuns, match : Matches]
    /\ firstMatch \in 0 .. MaxMatch
    /\ dropped \subseteq Matches /\ discarded \subseteq Matches

\* No order that the program still knows has id: none in a book or on its way
\* to one, in the snapshot, or in what a Save under way has read of the books.
Unknown(id) ==
    /\ \A s \in Symbols : id \notin held[s] /\ id # pending[s]
    /\ \A r \in dbRows \cup txRows \cup uncopied : r.ID # id

\* The ids that turn up at s in a step, in its book or on their way there.
Arrived(s) == (held'[s] \cup {pending'[s]}) \ (held[s] \cup {pending[s], 0})

\* Within a run, the id of a new order is one that NextOrderID has not returned
\* in this run, that the last snapshot did not count, whichever run that
\* snapshot is of, and that no order has which the program still knows.
\* (Ids handed out between the last snapshot and a crash do come back.)
FreshIDs ==
    [][run' = run => \A s \in Symbols : \A id \in Arrived(s) :
           /\ [run |-> run, ID |-> id] \notin issued
           /\ id > dbOrderCounter
           /\ Unknown(id)]_vars

\* Order ids are globally unique (order.go says so of NextOrderID), here
\* those of a run that went on from a snapshot and so never issued id 1.
OrderNumbersUnique ==
    \A i, j \in issued :
        i.ID = j.ID /\ i.run <= j.run /\ [run |-> j.run, ID |-> 1] \notin issued => i = j

\* A committed snapshot, although it was read while the runners went on, is
\* closed: no order has an id beyond the counter saved with it, and no id is
\* there twice.
SnapshotClosed ==
    /\ \A r \in dbRows : r.ID <= dbOrderCounter
    /\ \A r, q \in dbRows : r.ID = q.ID => r = q

\* Save never moves the persisted counters back, whatever was lost between,
\* while Load succeeds: after a failed one main goes on with counters at zero.
SnapshotsAdvance ==
    [][dbOrderCounter' >= dbOrderCounter /\ dbMatchCounter' >= dbMatchCounter]_vars

\* The trade log is append-only: no trade of a later run, saved under a
\* number that is taken, replaces a row.
LogAppendOnly ==
    [][\A m \in DOMAIN trades : m \in DOMAIN trades' /\ trades'[m] = trades[m]]_vars

\* Trade m of this run is settled: the log has it, as this run's trade; a full
\* channel or an error of SaveTrade lost it; or ON CONFLICT DO NOTHING did,
\* because an earlier run that crashed had logged a trade under its number.
Settled(m) ==
    \/ m \in DOMAIN trades /\ trades[m] = run
    \/ m \in dropped
    \/ m \in discarded /\ m \in DOMAIN trades /\ trades[m] < run

\* A trade of this run that is not settled is in the runner's messages, in the
\* channel or with a writer: these three losses are the only ones between
\* doTrade and the log.
TradesAccounted ==
    \A m \in firstMatch + 1 .. matchCounter :
        \/ \E s \in Symbols : m \in ToSet(outbox[s])
        \/ m \in ToSet(tradeCh)
        \/ \E w \in Writers : writing[w] = m
        \/ Settled(m)

\* A trade in the channel is settled as long as the process stays up: a writer
\* takes it, and saves it before it takes the next.
QueuedTradeSettled ==
    \A m \in Matches : (m \in ToSet(tradeCh)) ~> (Settled(m) \/ phase # "up")

\* Match numbers are globally unique (order.go says so of NextMatchNumber,
\* and match_number is the primary key of the log), here those of a run that
\* went on from a snapshot with trades.
MatchNumbersUnique ==
    firstMatch > 0 => \A t, u \in executed : t.match = u.match => t = u

\* The two claims of order.go, NextOrderID's and NextMatchNumber's, together in
\* their weakest form: one of them holds.  A behaviour that refutes this
\* refutes both, since it has an order id and a match number that come back.
NumbersUnique == OrderNumbersUnique \/ MatchNumbersUnique
=============================================================================
