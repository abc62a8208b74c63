---------------------------- MODULE RecoveryProofs ----------------------------
(***************************************************************************)
(* Order ids in use are distinct and a new one is fresh, across any number *)
(* of crashes and restarts, and every committed snapshot is closed,        *)
(* provided that Load does not fail; and a trade gets lost on its way to   *)
(* the log for three reasons only, whatever fails: for any set of symbols  *)
(* and writers and any interleaving of the runners with Save.              *)
(***************************************************************************)
EXTENDS Recovery, SequenceTheorems, TLAPS

\* doTrade works on an order with an id and at least one lot.
HitOK == \A s \in Symbols : hit[s] = NoHit \/ hit[s] \in [ID : Ids, Lots : 1 .. MaxLots]

\* Only a process that was started runs.
Started == ~Stopped => run \in 1 .. MaxRuns

\* What Save has collected so far has ids the counter is past, and the
\* counters it writes are between those of the last snapshot and the live
\* ones: it reads them after the orders.
DraftOK ==
    /\ \A o \in uncopied : o.ID <= orderIDCounter
    /\ \A r \in txRows : r.ID <= orderIDCounter
    /\ \A r, q \in txRows : r.ID = q.ID => r = q
    /\ saveAt \in {"match", "commit"} =>
           /\ \A r \in txRows : r.ID <= txOrderCounter
           /\ dbOrderCounter <= txOrderCounter /\ txOrderCounter <= orderIDCounter
    /\ saveAt = "commit" =>
           dbMatchCounter <= txMatchCounter /\ txMatchCounter <= matchCounter

\* A running process is past the counters of the last snapshot; Save runs in
\* a running process only.
CountersOK ==
    /\ ~Stopped => dbOrderCounter <= orderIDCounter /\ dbMatchCounter <= matchCounter
    /\ ~dbPresent => dbOrderCounter = 0 /\ dbMatchCounter = 0 /\ dbRows = {}
    /\ saveAt # "idle" => Running
    /\ saveAt = "idle" => uncopied = {} /\ txRows = {}
    /\ Stopped => \A s \in Symbols : pending[s] = 0
    /\ phase = "seeding" => \A s \in Symbols : pending[s] = 0

\* The histories are of the runs so far, and the ids of this run are behind
\* its counter.
HistoryOK ==
    /\ \A i \in issued : i.run <= run
    /\ ~Stopped => \A i \in issued : i.run = run => i.ID <= orderIDCounter
    /\ \A m \in DOMAIN trades : trades[m] <= run

TypeInv == TypeOK /\ HitOK /\ Started /\ HistoryOK

\* At any one moment an id names one order: it rests in one book or is about
\* to enter one, and the counter is past it.  orderMap and the primary key of
\* the orders table rely on it.  It says nothing of ids that a crash took
\* away.
LiveIDsDistinct ==
    \A s \in Symbols :
        /\ \A id \in held[s] : id <= orderIDCounter
        /\ pending[s] <= orderIDCounter
        /\ pending[s] # 0 => \A t \in Symbols : pending[s] \notin held[t]
        /\ \A t \in Symbols \ {s} : /\ held[s] \cap held[t] = {}
                                    /\ pending[s] # 0 => pending[s] # pending[t]

\* The inductive invariant.
Inv ==
    /\ TypeOK
    /\ HitOK
    /\ Started
    /\ HistoryOK
    /\ LiveIDsDistinct
    /\ SnapshotClosed
    /\ DraftOK
    /\ CountersOK

\* What the id part of the invariant speaks about.
idVars == <<phase, orderIDCounter, matchCounter, held, pending, saveAt, uncopied, txRows,
            txOrderCounter, txMatchCounter, dbPresent, dbRows, dbOrderCounter, dbMatchCounter>>

\* The id part of the invariant.
IdInv == LiveIDsDistinct /\ SnapshotClosed /\ DraftOK /\ CountersOK

\* A step that leaves idVars alone keeps the id part.
LEMMA IdFrame == IdInv /\ UNCHANGED idVars => IdInv'
BY DEF IdInv, idVars, LiveIDsDistinct, SnapshotClosed, DraftOK, CountersOK, Stopped, Running

\* The state at the first start.
LEMMA InitInv == Init => Inv
<1> SUFFICES ASSUME Init PROVE Inv
  OBVIOUS
<1>1. TypeOK
  <2>1. /\ 0 \in 0 .. MaxOrderID /\ 0 \in 0 .. MaxMatch /\ 0 \in 0 .. MaxRuns
        /\ 0 \in Lots /\ "down" \in Phases
        /\ NoHit \in [ID : 0 .. MaxOrderID, Lots : Lots]
    BY RecoveryAssumption DEF Lots, Phases, NoHit
  <2>2. tradeCh \in Seq(Matches) /\ Len(tradeCh) <= ChannelCap
    BY RecoveryAssumption DEF Init
  <2>3. outbox \in [Symbols -> Seq(Matches)] /\ shares \in [Symbols -> [Ids -> Lots]]
    BY <2>1 DEF Init
  <2>4. DOMAIN trades = {}
    BY DEF Init
  <2>5. /\ held \in [Symbols -> SUBSET Ids] /\ pending \in [Symbols -> 0 .. MaxOrderID]
        /\ hit \in [Symbols -> [ID : 0 .. MaxOrderID, Lots : Lots]]
        /\ flushing \in [Symbols -> BOOLEAN] /\ writing \in [Writers -> 0 .. MaxMatch]
    BY <2>1 DEF Init
  <2> QED
    BY <2>1, <2>2, <2>3, <2>4, <2>5 DEF Init, TypeOK
<1>2. HitOK /\ Started /\ HistoryOK /\ LiveIDsDistinct /\ SnapshotClosed /\ DraftOK /\ CountersOK
  BY DEF Init, HitOK, Started, HistoryOK, LiveIDsDistinct, SnapshotClosed, DraftOK, CountersOK, Stopped
<1> QED
  BY <1>1, <1>2 DEF Inv

-----------------------------------------------------------------------------
(* Types.                                                                  *)

\* The state after RestoreOrder for some rows has its type.
LEMMA RestoredType ==
    ASSUME NEW rows, rows \subseteq Row, Restored(rows)
    PROVE  held' \in [Symbols -> SUBSET Ids] /\ shares' \in [Symbols -> [Ids -> Lots]]
<1>1. held' \in [Symbols -> SUBSET Ids]
  BY DEF Restored, Row
<1>2. ASSUME NEW s \in Symbols, NEW id \in Ids
      PROVE  (IF \E r \in rows : r.Locate = s /\ r.ID = id
              THEN (CHOOSE r \in rows : r.Locate = s /\ r.ID = id).Shares
              ELSE 0) \in Lots
  BY RecoveryAssumption DEF Row, Lots
<1>3. shares' \in [Symbols -> [Ids -> Lots]]
  BY <1>2 DEF Restored
<1> QED
  BY <1>1, <1>3

\* Start keeps the types, whatever Load does.
LEMMA StartType == TypeInv /\ Start => TypeOK' /\ HitOK'
<1> SUFFICES ASSUME TypeInv, Start PROVE TypeOK' /\ HitOK'
  OBVIOUS
<1>1. PICK rows : rows \subseteq Row /\ Restored(rows)
  <2>1. {} \subseteq Row /\ dbRows \subseteq Row /\ \A rows \in SUBSET dbRows : rows \subseteq Row
    BY DEF TypeInv, TypeOK
  <2> QED
    BY <2>1 DEF Start, LoadNothing, LoadAll, LoadFails
<1>2. held' \in [Symbols -> SUBSET Ids] /\ shares' \in [Symbols -> [Ids -> Lots]]
  BY <1>1, RestoredType
<1>3. /\ orderIDCounter' \in 0 .. MaxOrderID /\ matchCounter' \in 0 .. MaxMatch
      /\ firstMatch' = matchCounter' /\ finalSave' = "none"
      /\ phase' \in Phases /\ run' \in 0 .. MaxRuns /\ unseeded' \subseteq Symbols
  BY RecoveryAssumption DEF TypeInv, TypeOK, Start, LoadNothing, LoadAll, LoadFails, Phases
<1>4. UNCHANGED <<pending, hit, outbox, flushing, channel, transaction, snapshot, trades,
                  issued, executed, dropped, discarded>>
  BY DEF Start
<1> QED
  BY <1>2, <1>3, <1>4 DEF TypeInv, TypeOK, HitOK, channel, transaction, snapshot

\* The order entry of AddOrder, ReplaceOrder and Initialize has its type.
LEMMA EnteredType ==
    ASSUME TypeOK, NEW s \in Symbols, NEW id \in Ids, NEW n \in 1 .. MaxLots
    PROVE  /\ [shares EXCEPT ![s][id] = n] \in [Symbols -> [Ids -> Lots]]
           /\ \A S \in SUBSET Ids : /\ [held EXCEPT ![s] = S] \in [Symbols -> SUBSET Ids]
                                    /\ Entered(S, id) \subseteq SUBSET Ids
<1>1. n \in Lots
  BY RecoveryAssumption DEF Lots
<1>2. [shares EXCEPT ![s][id] = n] \in [Symbols -> [Ids -> Lots]]
  BY <1>1 DEF TypeOK
<1>3. ASSUME NEW S \in SUBSET Ids
      PROVE  [held EXCEPT ![s] = S] \in [Symbols -> SUBSET Ids] /\ Entered(S, id) \subseteq SUBSET Ids
  BY DEF TypeOK, Entered
<1> QED
  BY <1>2, <1>3

\* An id that is handed out has its type.
LEMMA IssueType ==
    ASSUME TypeInv, ~Stopped, CanAllocate, Issue(NextOrderID)
    PROVE  NextOrderID \in Ids /\ issued' \subseteq [run : 1 .. MaxRuns, ID : Ids]
<1>1. NextOrderID \in Ids
  BY RecoveryAssumption DEF TypeInv, TypeOK, CanAllocate, NextOrderID, Ids
<1>2. run \in 1 .. MaxRuns
  BY DEF TypeInv, Started
<1> QED
  BY <1>1, <1>2 DEF TypeInv, TypeOK, Issue

\* Initialize keeps the types.
LEMMA InitializeType ==
    ASSUME TypeInv, NEW s \in Symbols, Initialize(s)
    PROVE  TypeOK' /\ HitOK'
<1>1. NextOrderID \in Ids /\ orderIDCounter' \in 0 .. MaxOrderID
  BY RecoveryAssumption DEF TypeInv, TypeOK, Initialize, CanAllocate, NextOrderID, Ids
<1>2. issued' \subseteq [run : 1 .. MaxRuns, ID : Ids]
  BY IssueType DEF Initialize, Stopped
<1>3. held' \in [Symbols -> SUBSET Ids] /\ shares' \in [Symbols -> [Ids -> Lots]]
  <2>1. PICK ids \in Entered(held[s], NextOrderID) : held' = [held EXCEPT ![s] = ids]
    BY DEF Initialize
  <2>2. PICK n \in 1 .. MaxLots : shares' = [shares EXCEPT ![s][NextOrderID] = n]
    BY DEF Initialize
  <2>3. held' \in [Symbols -> SUBSET Ids]
    <3>1. held[s] \subseteq Ids /\ held \in [Symbols -> SUBSET Ids]
      BY DEF TypeInv, TypeOK
    <3>2. ids \subseteq Ids
      BY <1>1, <3>1 DEF Entered
    <3> QED
      BY <2>1, <3>1, <3>2
  <2>4. shares' \in [Symbols -> [Ids -> Lots]]
    <3>1. TypeOK
      BY DEF TypeInv
    <3> QED
      BY <3>1, <1>1, <2>2, EnteredType
  <2> QED
    BY <2>3, <2>4
<1>4. phase' \in Phases /\ unseeded' \subseteq Symbols
  BY DEF Initialize, Phases, TypeInv, TypeOK
<1> QED
  BY <1>1, <1>2, <1>3, <1>4 DEF TypeInv, TypeOK, HitOK, Initialize, channel, saver, transaction, snapshot, history

\* The runners keep the types.
LEMMA RunnerType ==
    ASSUME TypeInv, NEW s \in Symbols, Runner(s)
    PROVE  TypeOK' /\ HitOK'
<1> USE DEF runnerFrame, counters, channel, saver, transaction, snapshot, history
<1>0. TypeOK /\ HitOK
  BY DEF TypeInv
<1>1. CASE TakeID(s)
  <2>1. NextOrderID \in 0 .. MaxOrderID
    BY <1>0, <1>1, RecoveryAssumption DEF TypeOK, TakeID, CanAllocate, NextOrderID
  <2>2. issued' \subseteq [run : 1 .. MaxRuns, ID : Ids]
    BY <1>1, IssueType DEF TakeID, Acting, Running, Stopped
  <2> QED
    BY <1>0, <1>1, <2>1, <2>2 DEF TypeOK, HitOK, TakeID
<1>2. CASE AddOrder(s)
  <2>1. pending[s] \in Ids /\ held[s] \in SUBSET Ids
    BY <1>0, <1>2, RecoveryAssumption DEF AddOrder, TypeOK, Ids
  <2>2. held' \in [Symbols -> SUBSET Ids] /\ shares' \in [Symbols -> [Ids -> Lots]]
    BY <1>0, <1>2, <2>1, EnteredType DEF AddOrder
  <2>3. pending' \in [Symbols -> 0 .. MaxOrderID]
    BY <1>0, <1>2, RecoveryAssumption DEF AddOrder, TypeOK
  <2> QED
    BY <1>0, <1>2, <2>2, <2>3 DEF TypeOK, HitOK, AddOrder
<1>3. CASE RemoveOrder(s)
  <2>1. held' \in [Symbols -> SUBSET Ids]
    BY <1>0, <1>3 DEF TypeOK, RemoveOrder
  <2> QED
    BY <1>0, <1>3, <2>1 DEF TypeOK, HitOK, RemoveOrder
<1>4. CASE ReplaceOrder(s)
  <2>1. NextOrderID \in Ids /\ orderIDCounter' \in 0 .. MaxOrderID
    BY <1>0, <1>4, RecoveryAssumption DEF TypeOK, ReplaceOrder, CanAllocate, NextOrderID, Ids
  <2>2. \A old \in held[s] : held[s] \ {old} \in SUBSET Ids
    BY <1>0 DEF TypeOK
  <2>3. held' \in [Symbols -> SUBSET Ids] /\ shares' \in [Symbols -> [Ids -> Lots]]
    BY <1>0, <1>4, <2>1, <2>2, EnteredType DEF ReplaceOrder
  <2>4. issued' \subseteq [run : 1 .. MaxRuns, ID : Ids]
    BY <1>4, IssueType DEF ReplaceOrder, Acting, Running, Stopped
  <2> QED
    BY <1>0, <1>4, <2>1, <2>3, <2>4 DEF TypeOK, HitOK, ReplaceOrder
<1>5. CASE doTrade(s)
  <2>1. PICK id \in held[s] : \E n \in TradeLots(shares[s][id]) :
            hit' = [hit EXCEPT ![s] = [ID |-> id, Lots |-> n]]
    BY <1>5 DEF doTrade
  <2>2. PICK n \in TradeLots(shares[s][id]) : hit' = [hit EXCEPT ![s] = [ID |-> id, Lots |-> n]]
    BY <2>1
  <2>3. id \in Ids /\ shares[s][id] \in Lots
    BY <1>0, <2>1 DEF TypeOK
  <2>4. n \in 1 .. MaxLots
    BY <2>3, RecoveryAssumption DEF TradeLots, Lots
  <2>5. [ID |-> id, Lots |-> n] \in [ID : Ids, Lots : 1 .. MaxLots]
    BY <2>3, <2>4
  <2>6. [ID : Ids, Lots : 1 .. MaxLots] \subseteq [ID : 0 .. MaxOrderID, Lots : Lots]
    BY RecoveryAssumption DEF Ids, Lots
  <2>7. hit' \in [Symbols -> [ID : 0 .. MaxOrderID, Lots : Lots]] /\ HitOK'
    BY <1>0, <2>2, <2>5, <2>6 DEF TypeOK, HitOK
  <2>8. matchCounter + 1 \in Matches /\ matchCounter' \in 0 .. MaxMatch /\ matchCounter' = matchCounter + 1
    BY <1>0, <1>5, RecoveryAssumption DEF TypeOK, doTrade, Matches
  <2>9. outbox' \in [Symbols -> Seq(Matches)]
    BY <1>0, <1>5, <2>8 DEF TypeOK, doTrade
  <2>10. run \in 1 .. MaxRuns
    BY <1>5 DEF TypeInv, doTrade, Acting, Started, Running, Stopped
  <2>11. executed' \subseteq [run : 1 .. MaxRuns, match : Matches]
    BY <1>0, <1>5, <2>8, <2>10 DEF TypeOK, doTrade
  <2> QED
    BY <1>0, <1>5, <2>7, <2>8, <2>9, <2>11 DEF TypeOK, doTrade
<1>6. CASE ReduceOrder(s)
  <2>1. hit[s] \in [ID : Ids, Lots : 1 .. MaxLots]
    BY <1>0, <1>6 DEF HitOK, ReduceOrder
  <2> DEFINE left == shares[s][hit[s].ID] - hit[s].Lots
  <2>2. (IF left <= 0 THEN 0 ELSE left) \in Lots /\ hit[s].ID \in Ids
    BY <1>0, <2>1, RecoveryAssumption DEF TypeOK, Lots
  <2>3. shares' \in [Symbols -> [Ids -> Lots]]
    BY <1>0, <1>6, <2>2 DEF TypeOK, ReduceOrder
  <2>4. held' \in [Symbols -> SUBSET Ids]
    BY <1>0, <1>6 DEF TypeOK, ReduceOrder
  <2>5. NoHit \in [ID : 0 .. MaxOrderID, Lots : Lots]
    BY RecoveryAssumption DEF NoHit, Lots
  <2>6. hit' \in [Symbols -> [ID : 0 .. MaxOrderID, Lots : Lots]] /\ HitOK'
    BY <1>0, <1>6, <2>5 DEF TypeOK, HitOK, ReduceOrder
  <2> QED
    BY <1>0, <1>6, <2>3, <2>4, <2>6 DEF TypeOK, ReduceOrder
<1>7. CASE enqueueTrades(s)
  <2>1. outbox[s] \in Seq(Matches) /\ outbox[s] # <<>>
    BY <1>0, <1>7 DEF TypeOK, enqueueTrades
  <2>2. Head(outbox[s]) \in Matches /\ Tail(outbox[s]) \in Seq(Matches)
    BY <2>1
  <2>3. outbox' \in [Symbols -> Seq(Matches)]
    BY <1>0, <1>7, <2>2 DEF TypeOK, enqueueTrades
  <2>4. flushing' \in [Symbols -> BOOLEAN]
    BY <1>0, <1>7 DEF TypeOK, enqueueTrades
  <2>5. tradeCh' \in Seq(Matches) /\ Len(tradeCh') <= ChannelCap /\ dropped' \subseteq Matches
    <3>1. CASE Len(tradeCh) < ChannelCap
      <4>1. tradeCh' = Append(tradeCh, Head(outbox[s])) /\ dropped' = dropped
        BY <1>7, <3>1 DEF enqueueTrades
      <4>2. tradeCh \in Seq(Matches) /\ dropped \subseteq Matches
        BY <1>0 DEF TypeOK
      <4>3. tradeCh' \in Seq(Matches) /\ Len(tradeCh') = Len(tradeCh) + 1
        BY <4>1, <4>2, <2>2
      <4>4. Len(tradeCh) \in Nat /\ ChannelCap \in Nat
        BY <4>2, RecoveryAssumption
      <4> QED
        BY <3>1, <4>1, <4>2, <4>3, <4>4
    <3>2. CASE ~(Len(tradeCh) < ChannelCap)
      BY <1>0, <1>7, <2>2, <3>2 DEF TypeOK, enqueueTrades
    <3> QED
      BY <3>1, <3>2
  <2> QED
    BY <1>0, <1>7, <2>3, <2>4, <2>5 DEF TypeOK, HitOK, enqueueTrades
<1> QED
  BY <1>1, <1>2, <1>3, <1>4, <1>5, <1>6, <1>7 DEF Runner

\* The trade writers keep the types.
LEMMA WriterType ==
    ASSUME TypeInv, NEW w \in Writers, Writer(w)
    PROVE  TypeOK' /\ HitOK'
<1> USE DEF runners, counters, channel, saver, transaction, snapshot, history
<1>0. TypeOK /\ HitOK
  BY DEF TypeInv
<1>1. CASE tradeWriter(w)
  <2>1. tradeCh \in Seq(Matches) /\ tradeCh # <<>> /\ Len(tradeCh) <= ChannelCap
    BY <1>0, <1>1 DEF TypeOK, tradeWriter
  <2>2. /\ Head(tradeCh) \in Matches /\ Tail(tradeCh) \in Seq(Matches)
        /\ Len(Tail(tradeCh)) = Len(tradeCh) - 1
    BY <2>1
  <2>3. Len(tradeCh) \in Nat /\ Head(tradeCh) \in 0 .. MaxMatch
    BY <2>1, <2>2, RecoveryAssumption DEF Matches
  <2>4. writing' \in [Writers -> 0 .. MaxMatch]
    BY <1>0, <1>1, <2>3 DEF TypeOK, tradeWriter
  <2>5. tradeCh' \in Seq(Matches) /\ Len(tradeCh') <= ChannelCap
    BY <1>1, <2>1, <2>2, <2>3, RecoveryAssumption DEF tradeWriter
  <2> QED
    BY <1>0, <1>1, <2>4, <2>5 DEF TypeOK, HitOK, tradeWriter
<1>2. CASE SaveTrade(w)
  <2>1. writing[w] \in Matches
    BY <1>0, <1>2, RecoveryAssumption DEF TypeOK, SaveTrade, Matches
  <2>2. writing' \in [Writers -> 0 .. MaxMatch]
    BY <1>0, <1>2, RecoveryAssumption DEF TypeOK, SaveTrade
  <2>3. run \in 1 .. MaxRuns
    BY <1>2 DEF TypeInv, SaveTrade, Started, Running, Stopped
  <2>4. /\ DOMAIN trades' \subseteq Matches
        /\ \A m \in DOMAIN trades' : trades'[m] \in 1 .. MaxRuns
    <3>1. CASE trades' = [m \in DOMAIN trades \cup {writing[w]} |->
                             IF m \in DOMAIN trades THEN trades[m] ELSE run]
      BY <3>1, <1>0, <2>1, <2>3 DEF TypeOK
    <3>2. CASE trades' = trades
      BY <3>2, <1>0 DEF TypeOK
    <3> QED
      BY <1>2, <3>1, <3>2 DEF SaveTrade
  <2>5. dropped' \subseteq Matches /\ discarded' \subseteq Matches
    BY <1>0, <1>2, <2>1 DEF TypeOK, SaveTrade
  <2> QED
    BY <1>0, <1>2, <2>2, <2>4, <2>5 DEF TypeOK, HitOK, SaveTrade
<1> QED
  BY <1>1, <1>2 DEF Writer

\* Save keeps the types.
LEMMA SaveType == TypeInv /\ Save => TypeOK' /\ HitOK'
<1> SUFFICES ASSUME TypeInv, Save PROVE TypeOK' /\ HitOK'
  OBVIOUS
<1> USE DEF saveFrame, runners, counters, channel, history, snapshot
<1>0. TypeOK /\ HitOK /\ 0 \in 0 .. MaxOrderID /\ 0 \in 0 .. MaxMatch
  BY RecoveryAssumption DEF TypeInv
<1>1. CASE SaveBegin
  BY <1>0, <1>1 DEF TypeOK, HitOK, SaveBegin
<1>2. ASSUME NEW s \in Symbols, AllOrders(s) PROVE TypeOK' /\ HitOK'
  <2>1. uncopied' \subseteq [Locate : Symbols, ID : Ids]
    BY <1>0, <1>2 DEF TypeOK, AllOrders
  <2> QED
    BY <1>0, <1>2, <2>1 DEF TypeOK, HitOK, AllOrders
<1>3. CASE CopyFrom
  <2>1. txRows' \subseteq Row
    BY <1>0, <1>3 DEF TypeOK, CopyFrom, Row
  <2> QED
    BY <1>0, <1>3, <2>1 DEF TypeOK, HitOK, CopyFrom
<1>4. CASE SaveOrderCounter
  BY <1>0, <1>4 DEF TypeOK, HitOK, SaveOrderCounter
<1>5. CASE SaveMatchCounter
  BY <1>0, <1>5 DEF TypeOK, HitOK, SaveMatchCounter
<1>6. CASE Commit
  BY <1>0, <1>6 DEF TypeOK, HitOK, Commit, SaveEnds, NoTransaction
<1>7. CASE SaveFails
  BY <1>0, <1>7 DEF TypeOK, HitOK, SaveFails, SaveEnds, NoTransaction
<1> QED
  BY <1>1, <1>2, <1>3, <1>4, <1>5, <1>6, <1>7 DEF Save

\* The end of a run leaves a state of the right type.
LEMMA EndType == TypeInv /\ (Shutdown \/ Exit \/ Crash) => TypeOK' /\ HitOK'
<1> SUFFICES ASSUME TypeInv, Shutdown \/ Exit \/ Crash PROVE TypeOK' /\ HitOK'
  OBVIOUS
<1> USE DEF runners, counters, channel, saver, transaction, snapshot, history
<1>0. TypeOK /\ HitOK
  BY DEF TypeInv
<1>1. CASE Shutdown
  BY <1>0, <1>1 DEF TypeOK, HitOK, Shutdown, Phases
<1>2. CASE MemoryGone /\ phase' \in Phases
  <2>1. /\ 0 \in 0 .. MaxOrderID /\ 0 \in 0 .. MaxMatch /\ 0 \in Lots
        /\ NoHit \in [ID : 0 .. MaxOrderID, Lots : Lots]
    BY RecoveryAssumption DEF Lots, NoHit
  <2>2. tradeCh' \in Seq(Matches) /\ Len(tradeCh') <= ChannelCap
    BY <1>2, RecoveryAssumption DEF MemoryGone
  <2>3. outbox' \in [Symbols -> Seq(Matches)] /\ shares' \in [Symbols -> [Ids -> Lots]]
    BY <1>2, <2>1 DEF MemoryGone
  <2>4. /\ held' \in [Symbols -> SUBSET Ids] /\ pending' \in [Symbols -> 0 .. MaxOrderID]
        /\ hit' \in [Symbols -> [ID : 0 .. MaxOrderID, Lots : Lots]]
        /\ flushing' \in [Symbols -> BOOLEAN] /\ writing' \in [Writers -> 0 .. MaxMatch]
    BY <1>2, <2>1 DEF MemoryGone
  <2>5. HitOK'
    BY <1>2 DEF MemoryGone, HitOK
  <2> QED
    BY <1>0, <1>2, <2>1, <2>2, <2>3, <2>4, <2>5 DEF TypeOK, MemoryGone, NoTransaction
<1> QED
  BY <1>1, <1>2 DEF Exit, Crash, Phases

\* Only Start changes run.
LEMMA NextStarted == TypeInv /\ [Next]_vars => Started'
<1> SUFFICES ASSUME TypeInv, [Next]_vars PROVE Started'
  OBVIOUS
<1>0. Started /\ run \in 0 .. MaxRuns
  BY DEF TypeInv, TypeOK
<1>1. CASE Start
  BY <1>0, <1>1, RecoveryAssumption DEF Start, Started
<1>2. CASE run' = run /\ (Stopped => Stopped')
  BY <1>0, <1>2 DEF Started
<1>3. CASE UNCHANGED vars
  BY <1>2, <1>3 DEF vars, Stopped
<1>4. ASSUME NEW s \in Symbols, Initialize(s) \/ Runner(s) PROVE run' = run /\ ~Stopped
  BY <1>4 DEF Initialize, Runner, TakeID, AddOrder, RemoveOrder, ReplaceOrder, doTrade,
              ReduceOrder, enqueueTrades, runnerFrame, Acting, Running, Stopped
<1>5. ASSUME NEW w \in Writers, Writer(w) PROVE run' = run /\ ~Stopped
  BY <1>5 DEF Writer, tradeWriter, SaveTrade, Running, Stopped
<1>6. CASE Save
  BY <1>2, <1>6 DEF Save, SaveBegin, AllOrders, CopyFrom, SaveOrderCounter, SaveMatchCounter,
                    Commit, SaveFails, SaveEnds, saveFrame, Stopped
<1>7. CASE Shutdown \/ Exit \/ Crash
  BY <1>2, <1>7 DEF Shutdown, Exit, Crash, MemoryGone, Stopped
<1> QED
  BY <1>1, <1>2, <1>3, <1>4, <1>5, <1>6, <1>7 DEF Next

\* A step that issues no id and logs no trade keeps the histories.
LEMMA HistoryFrame ==
    ASSUME TypeInv, UNCHANGED <<run, issued, trades>>,
           Stopped' \/ (~Stopped /\ orderIDCounter' = orderIDCounter)
    PROVE  HistoryOK'
BY DEF TypeInv, HistoryOK

\* An id is issued.
LEMMA HistoryIssue ==
    ASSUME TypeInv, ~Stopped, UNCHANGED <<run, trades>>, orderIDCounter' = NextOrderID,
           Issue(NextOrderID)
    PROVE  HistoryOK'
<1>1. orderIDCounter \in Nat /\ run \in Nat /\ \A i \in issued : i.ID \in Nat
  BY RecoveryAssumption DEF TypeInv, TypeOK, Ids
<1>2. HistoryOK
  BY DEF TypeInv
<1>3. ASSUME NEW i \in issued' PROVE i.run <= run /\ (i.run = run => i.ID <= orderIDCounter')
  <2>1. CASE i \in issued
    BY <1>1, <1>2, <2>1 DEF HistoryOK, NextOrderID
  <2>2. CASE i = [run |-> run, ID |-> NextOrderID]
    BY <1>1, <2>2 DEF NextOrderID
  <2> QED
    BY <2>1, <2>2 DEF Issue
<1> QED
  BY <1>2, <1>3 DEF HistoryOK

\* Every step keeps the histories.
LEMMA NextHistory == TypeInv /\ [Next]_vars => HistoryOK'
<1> SUFFICES ASSUME TypeInv, [Next]_vars PROVE HistoryOK'
  OBVIOUS
<1> USE DEF runnerFrame, saveFrame, runners, counters, channel, saver, transaction, snapshot, history
<1>0. HistoryOK /\ run \in Nat
  BY RecoveryAssumption DEF TypeInv, TypeOK
<1>1. CASE Start
  <2>1. run' = run + 1 /\ issued' = issued /\ trades' = trades
    BY <1>1 DEF Start
  <2>2. \A i \in issued : i.run \in Nat /\ i.run <= run
    BY <1>0, RecoveryAssumption DEF HistoryOK, TypeInv, TypeOK
  <2>3. \A m \in DOMAIN trades : trades[m] \in Nat /\ trades[m] <= run
    BY <1>0, RecoveryAssumption DEF HistoryOK, TypeInv, TypeOK
  <2> QED
    BY <1>0, <2>1, <2>2, <2>3 DEF HistoryOK
<1>2. ASSUME NEW s \in Symbols, Initialize(s) PROVE HistoryOK'
  BY <1>2, HistoryIssue DEF Initialize, Stopped
<1>3. ASSUME NEW s \in Symbols, TakeID(s) \/ ReplaceOrder(s) PROVE HistoryOK'
  BY <1>3, HistoryIssue DEF TakeID, ReplaceOrder, Acting, Running, Stopped
<1>4. ASSUME NEW s \in Symbols,
             AddOrder(s) \/ RemoveOrder(s) \/ doTrade(s) \/ ReduceOrder(s) \/ enqueueTrades(s)
      PROVE  HistoryOK'
  BY <1>4, HistoryFrame DEF AddOrder, RemoveOrder, doTrade, ReduceOrder, enqueueTrades, Acting, Running, Stopped
<1>5. ASSUME NEW w \in Writers, Writer(w) PROVE HistoryOK'
  <2>1. UNCHANGED <<run, issued, orderIDCounter, phase>> /\ ~Stopped
    BY <1>5 DEF Writer, tradeWriter, SaveTrade, Running, Stopped
  <2>2. \A m \in DOMAIN trades' : trades'[m] <= run
    <3>1. CASE trades' = trades
      BY <1>0, <3>1 DEF HistoryOK
    <3>2. CASE trades' = [m \in DOMAIN trades \cup {writing[w]} |->
                             IF m \in DOMAIN trades THEN trades[m] ELSE run]
      BY <1>0, <3>2 DEF HistoryOK
    <3> QED
      BY <1>5, <3>1, <3>2 DEF Writer, tradeWriter, SaveTrade
  <2> QED
    BY <1>0, <2>1, <2>2 DEF HistoryOK, Stopped
<1>6. CASE Save
  <2>1. UNCHANGED <<run, issued, trades, phase, orderIDCounter>>
    BY <1>6 DEF Save, SaveBegin, AllOrders, CopyFrom, SaveOrderCounter, SaveMatchCounter, Commit,
                SaveFails, SaveEnds
  <2> QED
    BY <2>1, HistoryFrame DEF Stopped
<1>7. CASE Shutdown
  BY <1>7, HistoryFrame DEF Shutdown, Stopped
<1>8. CASE Exit \/ Crash
  BY <1>8, HistoryFrame DEF Exit, Crash, MemoryGone, Stopped
<1>9. CASE UNCHANGED vars
  BY <1>9, HistoryFrame DEF vars, Stopped
<1> QED
  BY <1>1, <1>2, <1>3, <1>4, <1>5, <1>6, <1>7, <1>8, <1>9 DEF Next, Runner

\* The types hold, whether Load fails or not.
LEMMA NextTypes == TypeInv /\ [Next]_vars => TypeInv'
<1> SUFFICES ASSUME TypeInv, [Next]_vars PROVE TypeInv'
  OBVIOUS
<1>1. CASE UNCHANGED vars
  BY <1>1, NextHistory DEF TypeInv, TypeOK, HitOK, Started, Stopped, vars, runners, counters, channel, saver, transaction,
              snapshot, history
<1> QED
  BY <1>1, NextStarted, NextHistory, StartType, InitializeType, RunnerType, WriterType, SaveType, EndType DEF Next, TypeInv

LEMMA TypeInvariance == Spec => []TypeInv
<1>1. Init => TypeInv
  BY InitInv DEF Inv, TypeInv
<1> QED
  BY <1>1, NextTypes, PTL DEF Spec

\* Type correctness.
THEOREM TypeCorrect == Spec => []TypeOK
<1>1. TypeInv => TypeOK
  BY DEF TypeInv
<1> QED
  BY <1>1, TypeInvariance, PTL

-----------------------------------------------------------------------------
(* Ids and snapshots.                                                      *)

\* Natural numbers the steps below compare.
LEMMA IdFacts ==
    ASSUME Inv
    PROVE  /\ IdInv /\ orderIDCounter \in Nat /\ matchCounter \in Nat
           /\ dbOrderCounter \in Nat /\ dbMatchCounter \in Nat
           /\ txOrderCounter \in Nat /\ txMatchCounter \in Nat
           /\ held \in [Symbols -> SUBSET Nat] /\ pending \in [Symbols -> Nat]
           /\ \A o \in uncopied : o.ID \in Nat
           /\ \A r \in txRows : r.ID \in Nat
           /\ \A r \in dbRows : r.ID \in Nat
<1>1. Ids \subseteq Nat /\ 0 .. MaxOrderID \subseteq Nat
  BY RecoveryAssumption DEF Ids
<1>2. held \in [Symbols -> SUBSET Nat] /\ pending \in [Symbols -> Nat]
  BY <1>1 DEF Inv, TypeOK
<1>3. /\ \A o \in uncopied : o.ID \in Nat
      /\ \A r \in txRows : r.ID \in Nat
      /\ \A r \in dbRows : r.ID \in Nat
  BY <1>1 DEF Inv, TypeOK, Row
<1>4. /\ orderIDCounter \in Nat /\ matchCounter \in Nat
      /\ dbOrderCounter \in Nat /\ dbMatchCounter \in Nat
      /\ txOrderCounter \in Nat /\ txMatchCounter \in Nat
  BY RecoveryAssumption DEF Inv, TypeOK
<1> QED
  BY <1>2, <1>3, <1>4 DEF Inv, IdInv

\* Between two saves the draft is no constraint.
LEMMA IdleDraft ==
    ASSUME Inv, saveAt = "idle",
           UNCHANGED <<saveAt, uncopied, txRows>>
    PROVE  DraftOK'
BY DEF Inv, DraftOK, CountersOK

\* Without a failure Load restores ids that are unique and below the counter
\* it restores.
LEMMA StartIds ==
    ASSUME ~LoadMayFail, Inv, Start
    PROVE  IdInv'
<1>1. UNCHANGED <<pending, saveAt, uncopied, txRows, txOrderCounter, txMatchCounter,
                  dbPresent, dbRows, dbOrderCounter, dbMatchCounter>>
  BY DEF Start, transaction, snapshot
<1>2. phase' \in {"seeding", "up"}
  BY DEF Start, LoadNothing, LoadAll, LoadFails
<1>3. \A s \in Symbols : pending[s] = 0
  BY DEF Inv, CountersOK, Start
<1>4. /\ saveAt = "idle" /\ Stopped
  BY DEF Inv, CountersOK, Start, Running, Stopped
<1>5. CASE LoadNothing
  <2>1. \A s \in Symbols : held'[s] = {}
    BY <1>5 DEF LoadNothing, Restored
  <2>2. dbOrderCounter = 0 /\ dbMatchCounter = 0 /\ dbRows = {} /\ orderIDCounter' = 0 /\ matchCounter' = 0
    BY <1>5 DEF Inv, CountersOK, LoadNothing
  <2>3. LiveIDsDistinct'
    BY <1>1, <1>3, <2>1, <2>2 DEF LiveIDsDistinct
  <2>4. CountersOK'
    BY <1>1, <1>2, <1>3, <1>4, <2>2 DEF Inv, CountersOK, Stopped, Running
  <2>5. SnapshotClosed'
    BY <1>1, <2>2 DEF SnapshotClosed
  <2> QED
    BY <1>1, <1>4, <2>3, <2>4, <2>5, IdleDraft DEF IdInv
<1>6. CASE LoadAll
  <2>1. \A s \in Symbols : \A id \in held'[s] : \E r \in dbRows : r.ID = id /\ r.Locate = s
    BY <1>6 DEF LoadAll, Restored
  <2>2. orderIDCounter' = dbOrderCounter /\ matchCounter' = dbMatchCounter
    BY <1>6 DEF LoadAll
  <2>3. SnapshotClosed /\ dbOrderCounter \in Nat /\ dbMatchCounter \in Nat
    BY IdFacts DEF IdInv
  <2>4. \A s \in Symbols : \A id \in held'[s] : id <= orderIDCounter'
    BY <2>1, <2>2, <2>3 DEF SnapshotClosed
  <2>5. \A s \in Symbols : \A t \in Symbols \ {s} : held'[s] \cap held'[t] = {}
    BY <2>1, <2>3 DEF SnapshotClosed
  <2>6. LiveIDsDistinct'
    BY <1>1, <1>3, <2>2, <2>3, <2>4, <2>5 DEF LiveIDsDistinct
  <2>7. CountersOK'
    BY <1>1, <1>2, <1>3, <1>4, <2>2, <2>3 DEF Inv, CountersOK, Stopped, Running
  <2> QED
    BY <1>1, <1>4, <2>3, <2>6, <2>7, IdleDraft DEF IdInv, SnapshotClosed
<1> QED
  BY <1>5, <1>6 DEF Start, LoadFails

\* An id is taken: by a book, or by a runner that is about to enter it.
LEMMA NewId ==
    ASSUME Inv, Running \/ phase = "seeding", orderIDCounter' = NextOrderID,
           UNCHANGED <<matchCounter, saveAt, uncopied, txRows, txOrderCounter, txMatchCounter,
                       dbPresent, dbRows, dbOrderCounter, dbMatchCounter>>,
           NEW s \in Symbols,
           \A t \in Symbols \ {s} : held'[t] = held[t] /\ pending'[t] = pending[t],
           \/ /\ held'[s] \subseteq held[s] \cup {NextOrderID} /\ pending'[s] = pending[s]
              /\ pending[s] = 0
           \/ Running /\ held'[s] = held[s] /\ pending'[s] = NextOrderID,
           phase' = phase \/ (phase' = "up" /\ pending' = pending)
    PROVE  IdInv'
<1>1. NextOrderID = orderIDCounter + 1 /\ orderIDCounter \in Nat
  BY IdFacts DEF NextOrderID
<1>2. /\ \A t \in Symbols : \A id \in held[t] : id \in Nat /\ id <= orderIDCounter
      /\ \A t \in Symbols : pending[t] \in Nat /\ pending[t] <= orderIDCounter
  BY IdFacts DEF IdInv, LiveIDsDistinct
<1>3. LiveIDsDistinct'
  <2> SUFFICES ASSUME NEW a \in Symbols
               PROVE  /\ \A id \in held'[a] : id <= orderIDCounter'
                      /\ pending'[a] <= orderIDCounter'
                      /\ pending'[a] # 0 => \A t \in Symbols : pending'[a] \notin held'[t]
                      /\ \A t \in Symbols \ {a} : /\ held'[a] \cap held'[t] = {}
                                                  /\ pending'[a] # 0 => pending'[a] # pending'[t]
    BY DEF LiveIDsDistinct
  <2>0. LiveIDsDistinct
    BY DEF Inv
  <2>1. \A t \in Symbols : held'[t] = held[t] \/ (t = s /\ held'[t] \subseteq held[t] \cup {NextOrderID})
    OBVIOUS
  <2>2. \A t \in Symbols : pending'[t] = pending[t] \/ (t = s /\ pending'[t] = NextOrderID /\ held'[t] = held[t])
    OBVIOUS
  <2>3. \A id \in held'[a] : id <= orderIDCounter'
    BY <1>1, <1>2, <2>1
  <2>4. pending'[a] <= orderIDCounter'
    BY <1>1, <1>2, <2>2
  <2>5. ASSUME pending'[a] # 0, NEW t \in Symbols PROVE pending'[a] \notin held'[t]
    BY <1>1, <1>2, <2>0, <2>1, <2>2, <2>5 DEF LiveIDsDistinct
  <2>6. ASSUME NEW t \in Symbols \ {a}
        PROVE held'[a] \cap held'[t] = {} /\ (pending'[a] # 0 => pending'[a] # pending'[t])
    BY <1>1, <1>2, <2>0, <2>1, <2>2 DEF LiveIDsDistinct
  <2> QED
    BY <2>3, <2>4, <2>5, <2>6
<1>4. SnapshotClosed'
  BY IdFacts DEF IdInv, SnapshotClosed
<1>5. DraftOK'
  BY <1>1, IdFacts DEF IdInv, DraftOK
<1>6. CountersOK'
  <2>1. ~Stopped
    BY DEF Running, Stopped
  <2>2. dbOrderCounter <= orderIDCounter' /\ dbMatchCounter <= matchCounter'
    BY <1>1, <2>1, IdFacts DEF IdInv, CountersOK
  <2>3. CASE phase = "seeding"
    <3>1. \A t \in Symbols : pending[t] = 0 /\ pending'[t] = 0
      BY <2>3 DEF Inv, CountersOK, Running
    <3>2. phase' \in {"seeding", "up"}
      BY <2>3
    <3>3. saveAt = "idle" /\ uncopied = {} /\ txRows = {}
      BY <2>3 DEF Inv, CountersOK, Running
    <3>4. ~dbPresent => dbOrderCounter = 0 /\ dbMatchCounter = 0 /\ dbRows = {}
      BY DEF Inv, CountersOK
    <3> QED
      BY <2>2, <3>1, <3>2, <3>3, <3>4 DEF CountersOK, Stopped, Running
  <2>4. CASE Running
    <3>1. phase' \in {"up", "stopping"}
      BY <2>4 DEF Running
    <3>2. /\ ~dbPresent => dbOrderCounter = 0 /\ dbMatchCounter = 0 /\ dbRows = {}
          /\ saveAt = "idle" => uncopied = {} /\ txRows = {}
      BY DEF Inv, CountersOK
    <3> QED
      BY <2>2, <3>1, <3>2 DEF CountersOK, Stopped, Running
  <2> QED
    BY <2>3, <2>4
<1> QED
  BY <1>3, <1>4, <1>5, <1>6 DEF IdInv

\* Orders leave a book, or the pending one enters; no id is taken.
LEMMA MoveId ==
    ASSUME Inv, Running,
           UNCHANGED <<phase, orderIDCounter, saveAt, uncopied, txRows, txOrderCounter,
                       txMatchCounter, dbPresent, dbRows, dbOrderCounter, dbMatchCounter>>,
           matchCounter' = matchCounter \/ matchCounter' = matchCounter + 1,
           NEW s \in Symbols,
           \A t \in Symbols \ {s} : held'[t] = held[t] /\ pending'[t] = pending[t],
           \/ held'[s] \subseteq held[s] /\ pending'[s] = pending[s]
           \/ pending[s] # 0 /\ held'[s] \subseteq held[s] \cup {pending[s]} /\ pending'[s] = 0
    PROVE  IdInv'
<1>1. LiveIDsDistinct'
  <2>0. LiveIDsDistinct /\ orderIDCounter \in Nat
    BY IdFacts DEF IdInv
  <2>1. \A t \in Symbols : \A id \in held'[t] :
            id \in held[t] \/ (t = s /\ pending[s] # 0 /\ id = pending[s] /\ pending'[s] = 0)
    OBVIOUS
  <2>2. \A t \in Symbols : pending'[t] = pending[t] \/ (t = s /\ pending'[t] = 0)
    OBVIOUS
  <2>3. \A a \in Symbols : /\ \A id \in held'[a] : id <= orderIDCounter'
                          /\ pending'[a] <= orderIDCounter'
    BY <2>0, <2>1, <2>2 DEF LiveIDsDistinct
  <2>4. \A a \in Symbols : pending'[a] # 0 => \A t \in Symbols : pending'[a] \notin held'[t]
    BY <2>0, <2>1, <2>2 DEF LiveIDsDistinct
  <2>5. \A a \in Symbols : \A t \in Symbols \ {a} :
            held'[a] \cap held'[t] = {} /\ (pending'[a] # 0 => pending'[a] # pending'[t])
    BY <2>0, <2>1, <2>2 DEF LiveIDsDistinct
  <2> QED
    BY <2>3, <2>4, <2>5 DEF LiveIDsDistinct
<1>2. SnapshotClosed' /\ DraftOK'
  BY IdFacts DEF IdInv, SnapshotClosed, DraftOK
<1>3. CountersOK'
  BY IdFacts DEF IdInv, CountersOK, Running, Stopped
<1> QED
  BY <1>1, <1>2, <1>3 DEF IdInv

\* Initialize and the runners keep ids unique.
LEMMA RunnerIds ==
    ASSUME Inv, NEW s \in Symbols, Initialize(s) \/ Runner(s)
    PROVE  IdInv'
<1> USE DEF runnerFrame, counters, channel, saver, transaction, snapshot, history
<1>0. /\ held \in [Symbols -> SUBSET Nat] /\ pending \in [Symbols -> Nat] /\ IdInv
      /\ matchCounter \in Nat
  BY IdFacts
<1>1. CASE Initialize(s)
  <2>1. pending[s] = 0 /\ phase' \in {"seeding", "up"}
    BY <1>1 DEF Initialize, Inv, CountersOK
  <2>2. held'[s] \subseteq held[s] \cup {NextOrderID}
    BY <1>0, <1>1 DEF Initialize, Entered
  <2> QED
    BY <1>0, <1>1, <2>1, <2>2, NewId DEF Initialize
<1>2. CASE TakeID(s)
  BY <1>0, <1>2, NewId DEF TakeID, Acting
<1>3. CASE AddOrder(s)
  <2>1. held'[s] \subseteq held[s] \cup {pending[s]}
    BY <1>0, <1>3 DEF AddOrder, Entered
  <2> QED
    BY <1>0, <1>3, <2>1, MoveId DEF AddOrder
<1>4. CASE RemoveOrder(s)
  BY <1>0, <1>4, MoveId DEF RemoveOrder, Acting
<1>5. CASE ReplaceOrder(s)
  <2>1. held'[s] \subseteq held[s] \cup {NextOrderID}
    BY <1>0, <1>5 DEF ReplaceOrder, Entered
  <2> QED
    BY <1>0, <1>5, <2>1, NewId DEF ReplaceOrder, Acting
<1>6. CASE doTrade(s)
  BY <1>0, <1>6, MoveId DEF doTrade, Acting
<1>7. CASE ReduceOrder(s)
  BY <1>0, <1>7, MoveId DEF ReduceOrder
<1>8. CASE enqueueTrades(s)
  BY <1>0, <1>8, IdFrame DEF enqueueTrades, idVars
<1> QED
  BY <1>1, <1>2, <1>3, <1>4, <1>5, <1>6, <1>7, <1>8 DEF Runner

\* Save reads the order counter after the orders, so what it commits is
\* closed although the runners go on in between.
LEMMA SaveIds == Inv /\ Save => IdInv'
<1> SUFFICES ASSUME Inv, Save PROVE IdInv'
  OBVIOUS
<1> USE DEF saveFrame, counters, runners, snapshot
<1>0. /\ IdInv /\ LiveIDsDistinct /\ SnapshotClosed /\ DraftOK /\ CountersOK
      /\ orderIDCounter \in Nat /\ matchCounter \in Nat
      /\ dbOrderCounter \in Nat /\ dbMatchCounter \in Nat
  BY IdFacts DEF IdInv
<1>1. UNCHANGED <<phase, orderIDCounter, matchCounter, held, pending>>
  BY DEF Save, SaveBegin, AllOrders, CopyFrom, SaveOrderCounter, SaveMatchCounter, Commit,
         SaveFails, SaveEnds
<1>2. LiveIDsDistinct'
  BY <1>0, <1>1 DEF LiveIDsDistinct
<1>3. saveAt # "idle" => Running
  BY <1>0 DEF CountersOK
<1>4. CASE SaveBegin
  <2>1. Running /\ uncopied = {} /\ txRows = {}
    BY <1>0, <1>4 DEF SaveBegin, Running, CountersOK
  <2> QED
    BY <1>0, <1>1, <1>2, <1>4, <2>1
       DEF IdInv, SnapshotClosed, DraftOK, CountersOK, SaveBegin, Stopped, Running
<1>5. ASSUME NEW s \in Symbols, AllOrders(s) PROVE IdInv'
  <2>1. Running /\ saveAt' \in {"books", "copy"}
    BY <1>0, <1>3, <1>5 DEF AllOrders
  <2>2. \A o \in uncopied' : o.ID <= orderIDCounter
    BY <1>0, <1>5 DEF AllOrders, DraftOK, LiveIDsDistinct
  <2>3. DraftOK'
    BY <1>0, <1>1, <1>5, <2>1, <2>2 DEF AllOrders, DraftOK
  <2> QED
    BY <1>0, <1>1, <1>2, <1>5, <2>1, <2>3 DEF IdInv, SnapshotClosed, CountersOK, AllOrders, Stopped, Running
<1>6. CASE CopyFrom
  <2>1. Running /\ saveAt' = "copy"
    BY <1>0, <1>3, <1>6 DEF CopyFrom
  <2>2. PICK o \in uncopied :
            /\ \A r \in txRows : r.ID # o.ID
            /\ txRows' = txRows \cup {[Locate |-> o.Locate, ID |-> o.ID,
                                      Shares |-> shares[o.Locate][o.ID]]}
            /\ uncopied' = uncopied \ {o}
    BY <1>6 DEF CopyFrom
  <2>3. DraftOK'
    BY <1>0, <1>1, <2>1, <2>2 DEF DraftOK
  <2> QED
    BY <1>0, <1>1, <1>2, <1>6, <2>1, <2>3 DEF IdInv, SnapshotClosed, CountersOK, CopyFrom, Stopped, Running
<1>7. CASE SaveOrderCounter
  <2>1. Running /\ ~Stopped /\ saveAt' = "match"
    BY <1>0, <1>3, <1>7 DEF SaveOrderCounter, Running, Stopped
  <2>2. DraftOK'
    BY <1>0, <1>1, <1>7, <2>1 DEF DraftOK, CountersOK, SaveOrderCounter
  <2> QED
    BY <1>0, <1>1, <1>2, <1>7, <2>1, <2>2 DEF IdInv, SnapshotClosed, CountersOK, SaveOrderCounter, Stopped, Running
<1>8. CASE SaveMatchCounter
  <2>1. Running /\ ~Stopped /\ saveAt' = "commit"
    BY <1>0, <1>3, <1>8 DEF SaveMatchCounter, Running, Stopped
  <2>2. DraftOK'
    BY <1>0, <1>1, <1>8, <2>1 DEF DraftOK, CountersOK, SaveMatchCounter
  <2> QED
    BY <1>0, <1>1, <1>2, <1>8, <2>1, <2>2 DEF IdInv, SnapshotClosed, CountersOK, SaveMatchCounter, Stopped, Running
<1>9. CASE Commit
  <2>1. /\ Running /\ ~Stopped /\ saveAt' = "idle" /\ uncopied' = {} /\ txRows' = {}
        /\ dbRows' = txRows /\ dbOrderCounter' = txOrderCounter /\ dbMatchCounter' = txMatchCounter
        /\ dbPresent' = TRUE
    BY <1>0, <1>3, <1>9 DEF Commit, SaveEnds, NoTransaction, Running, Stopped
  <2>2. SnapshotClosed'
    BY <1>0, <1>9, <2>1 DEF DraftOK, SnapshotClosed, Commit
  <2>3. DraftOK'
    BY <2>1 DEF DraftOK
  <2>4. CountersOK'
    BY <1>0, <1>1, <1>9, <2>1 DEF DraftOK, CountersOK, Commit, Stopped, Running
  <2> QED
    BY <1>2, <2>2, <2>3, <2>4 DEF IdInv
<1>10. CASE SaveFails
  <2>1. saveAt' = "idle" /\ uncopied' = {} /\ txRows' = {} /\ UNCHANGED snapshot
    BY <1>10 DEF SaveFails, SaveEnds, NoTransaction
  <2> QED
    BY <1>0, <1>1, <1>2, <2>1 DEF IdInv, SnapshotClosed, DraftOK, CountersOK, Stopped, Running
<1> QED
  BY <1>4, <1>5, <1>6, <1>7, <1>8, <1>9, <1>10 DEF Save

\* The end of a run keeps the snapshot, and forgets the rest.
LEMMA EndIds == Inv /\ (Shutdown \/ Exit \/ Crash) => IdInv'
<1> SUFFICES ASSUME Inv, Shutdown \/ Exit \/ Crash PROVE IdInv'
  OBVIOUS
<1> USE DEF runners, counters, channel, saver, transaction, snapshot, history
<1>0. IdInv
  BY IdFacts
<1>1. CASE Shutdown
  BY <1>0, <1>1 DEF IdInv, LiveIDsDistinct, SnapshotClosed, DraftOK, CountersOK, Shutdown, Stopped, Running
<1>2. CASE MemoryGone /\ phase' \in {"exited", "down"}
  <2>1. \A s \in Symbols : held'[s] = {} /\ pending'[s] = 0
    BY <1>2 DEF MemoryGone
  <2>2. saveAt' = "idle" /\ uncopied' = {} /\ txRows' = {} /\ orderIDCounter' = 0 /\ UNCHANGED snapshot
    BY <1>2 DEF MemoryGone, NoTransaction
  <2>3. LiveIDsDistinct' /\ DraftOK'
    BY <2>1, <2>2 DEF LiveIDsDistinct, DraftOK
  <2>4. SnapshotClosed' /\ CountersOK'
    BY <1>0, <1>2, <2>1, <2>2 DEF IdInv, SnapshotClosed, CountersOK, Stopped
  <2> QED
    BY <2>3, <2>4 DEF IdInv
<1> QED
  BY <1>1, <1>2 DEF Exit, Crash

\* The invariant is inductive when Load does not fail.
LEMMA NextInv ==
    ASSUME ~LoadMayFail, Inv, [Next]_vars
    PROVE  Inv'
<1>1. TypeInv /\ TypeInv'
  BY NextTypes DEF Inv, TypeInv
<1>2. IdInv'
  <2>1. CASE Start
    BY <2>1, StartIds
  <2>2. ASSUME NEW s \in Symbols, Initialize(s) \/ Runner(s) PROVE IdInv'
    BY <2>2, RunnerIds
  <2>3. ASSUME NEW w \in Writers, Writer(w) PROVE IdInv'
    <3>1. UNCHANGED idVars
      BY <2>3 DEF Writer, tradeWriter, SaveTrade, idVars, runners, counters, saver, transaction, snapshot
    <3> QED
      BY <3>1, IdFrame, IdFacts
  <2>4. CASE Save
    BY <2>4, SaveIds
  <2>5. CASE Shutdown \/ Exit \/ Crash
    BY <2>5, EndIds
  <2>6. CASE UNCHANGED vars
    <3>1. UNCHANGED idVars
      BY <2>6 DEF vars, idVars, runners, counters, saver, transaction, snapshot
    <3> QED
      BY <3>1, IdFrame, IdFacts
  <2> QED
    BY <2>1, <2>2, <2>3, <2>4, <2>5, <2>6 DEF Next
<1> QED
  BY <1>1, <1>2 DEF Inv, IdInv, TypeInv

\* The inductive invariant holds in every reachable state, if Load never
\* fails part of the way.
THEOREM Invariance ==
    ASSUME ~LoadMayFail
    PROVE  Spec => []Inv
<1>1. Inv /\ [Next]_vars => Inv'
  BY NextInv
<1> QED
  BY <1>1, InitInv, PTL DEF Spec

\* What turns up at a symbol within a run is the next id of the counter.
LEMMA ArrivedIsNext ==
    ASSUME Inv, [Next]_vars, run' = run, NEW t \in Symbols, NEW id \in Arrived(t)
    PROVE  ~Stopped /\ id = orderIDCounter + 1
<1>0. /\ held \in [Symbols -> SUBSET Nat] /\ pending \in [Symbols -> Nat] /\ run \in Nat
  BY IdFacts, RecoveryAssumption DEF Inv, TypeOK
<1>1. id # 0 /\ id \notin held[t] /\ id # pending[t] /\ (id \in held'[t] \/ id = pending'[t])
  BY DEF Arrived
<1>2. ~(UNCHANGED <<held, pending>>)
  BY <1>1
<1>3. ASSUME NEW s \in Symbols, Initialize(s) \/ ReplaceOrder(s)
      PROVE  ~Stopped /\ id = orderIDCounter + 1
  <2>1. ~Stopped /\ UNCHANGED pending
    BY <1>3 DEF Initialize, ReplaceOrder, Acting, Running, Stopped
  <2>2. \E S \in SUBSET held[s] : \E ids \in Entered(S, orderIDCounter + 1) : held' = [held EXCEPT ![s] = ids]
    BY <1>3 DEF Initialize, ReplaceOrder, NextOrderID
  <2>3. PICK ids : ids \subseteq held[s] \cup {orderIDCounter + 1} /\ held' = [held EXCEPT ![s] = ids]
    BY <2>2 DEF Entered
  <2>4. held'[t] \subseteq held[t] \cup {orderIDCounter + 1}
    BY <1>0, <2>3
  <2> QED
    BY <1>1, <2>1, <2>4
<1>4. ASSUME NEW s \in Symbols, TakeID(s) PROVE ~Stopped /\ id = orderIDCounter + 1
  <2>1. ~Stopped /\ UNCHANGED held /\ pending' = [pending EXCEPT ![s] = orderIDCounter + 1]
    BY <1>4 DEF TakeID, NextOrderID, Acting, Running, Stopped
  <2> QED
    BY <1>0, <1>1, <2>1
<1>5. ASSUME NEW s \in Symbols, AddOrder(s) PROVE FALSE
  <2>1. PICK ids : ids \subseteq held[s] \cup {pending[s]} /\ held' = [held EXCEPT ![s] = ids]
    BY <1>5 DEF AddOrder, Entered
  <2>2. pending' = [pending EXCEPT ![s] = 0]
    BY <1>5 DEF AddOrder
  <2> QED
    BY <1>0, <1>1, <2>1, <2>2
<1>6. ASSUME NEW s \in Symbols, RemoveOrder(s) \/ ReduceOrder(s) PROVE FALSE
  <2>1. UNCHANGED pending
    BY <1>6 DEF RemoveOrder, ReduceOrder
  <2>2. UNCHANGED held \/ \E x : held' = [held EXCEPT ![s] = @ \ {x}]
    BY <1>6 DEF RemoveOrder, ReduceOrder
  <2>3. held'[t] \subseteq held[t]
    BY <1>0, <2>2
  <2> QED
    BY <1>1, <2>1, <2>3
<1>7. ASSUME NEW s \in Symbols PROVE ~doTrade(s) /\ ~enqueueTrades(s)
  BY <1>2 DEF doTrade, enqueueTrades
<1>8. ASSUME NEW w \in Writers PROVE ~Writer(w)
  BY <1>2 DEF Writer, tradeWriter, SaveTrade, runners
<1>9. ~Save /\ ~Shutdown
  BY <1>2 DEF Save, SaveBegin, AllOrders, CopyFrom, SaveOrderCounter, SaveMatchCounter, Commit, SaveFails,
              SaveEnds, saveFrame, Shutdown, runners
<1>10. ~Exit /\ ~Crash
  BY <1>1 DEF Exit, Crash, MemoryGone
<1>11. ~Start
  BY <1>0 DEF Start
<1>12. ~(UNCHANGED vars)
  BY <1>2 DEF vars, runners
<1> QED
  BY <1>3, <1>4, <1>5, <1>6, <1>7, <1>8, <1>9, <1>10, <1>11, <1>12 DEF Next, Runner

\* A new order's id is one that was not handed out in this run, that the last
\* snapshot did not count, and that no order in a book, at a runner, in the
\* snapshot or in the Save under way has.
THEOREM IDsAreFresh ==
    ASSUME ~LoadMayFail
    PROVE  Spec => FreshIDs
<1> DEFINE Fresh == run' = run => \A s \in Symbols : \A id \in Arrived(s) :
                       /\ [run |-> run, ID |-> id] \notin issued
                       /\ id > dbOrderCounter
                       /\ Unknown(id)
<1>1. ASSUME Inv, [Next]_vars PROVE [Fresh]_vars
  <2>0. SUFFICES ASSUME run' = run, NEW t \in Symbols, NEW id \in Arrived(t)
                 PROVE  [run |-> run, ID |-> id] \notin issued /\ id > dbOrderCounter /\ Unknown(id)
    OBVIOUS
  <2>1. /\ IdInv /\ orderIDCounter \in Nat /\ dbOrderCounter \in Nat
        /\ held \in [Symbols -> SUBSET Nat] /\ pending \in [Symbols -> Nat]
        /\ \A r \in dbRows \cup txRows \cup uncopied : r.ID \in Nat
    BY <1>1, IdFacts
  <2>2. ~Stopped /\ id = orderIDCounter + 1
    BY <1>1, <2>0, ArrivedIsNext
  <2>3. [run |-> run, ID |-> id] \notin issued
    <3>1. \A i \in issued : i.run = run => i.ID <= orderIDCounter
      BY <1>1, <2>2 DEF Inv, HistoryOK
    <3> QED
      BY <2>1, <2>2, <3>1
  <2>4. id > dbOrderCounter
    BY <2>1, <2>2 DEF IdInv, CountersOK
  <2>5. \A s \in Symbols : id \notin held[s] /\ id # pending[s]
    BY <2>1, <2>2 DEF IdInv, LiveIDsDistinct
  <2>6. \A r \in dbRows \cup txRows \cup uncopied : r.ID # id
    BY <2>1, <2>2, <2>4 DEF IdInv, SnapshotClosed, DraftOK
  <2> QED
    BY <2>3, <2>4, <2>5, <2>6 DEF Unknown
<1>2. []Inv /\ [][Next]_vars => [][Fresh]_vars
  BY <1>1, PTL
<1> QED
  BY <1>2, Invariance, PTL DEF Spec, FreshIDs

\* Every snapshot in the database is closed under its own counter.
THEOREM SnapshotsAreClosed ==
    ASSUME ~LoadMayFail
    PROVE  Spec => []SnapshotClosed
BY Invariance, PTL DEF Inv

\* The persisted counters never go back.
THEOREM CountersNeverGoBack ==
    ASSUME ~LoadMayFail
    PROVE  Spec => SnapshotsAdvance
<1> DEFINE Advance == dbOrderCounter' >= dbOrderCounter /\ dbMatchCounter' >= dbMatchCounter
<1>1. ASSUME Inv, [Next]_vars PROVE [Advance]_vars
  <2>0. dbOrderCounter \in Nat /\ dbMatchCounter \in Nat /\ txOrderCounter \in Nat /\ txMatchCounter \in Nat
    BY <1>1, IdFacts
  <2>1. CASE UNCHANGED <<dbOrderCounter, dbMatchCounter>>
    BY <2>0, <2>1
  <2>2. CASE Commit
    BY <1>1, <2>0, <2>2 DEF Inv, DraftOK, Commit
  <2>3. ASSUME NEW s \in Symbols, Initialize(s) \/ Runner(s) PROVE UNCHANGED <<dbOrderCounter, dbMatchCounter>>
    BY <2>3 DEF Initialize, Runner, TakeID, AddOrder, RemoveOrder, ReplaceOrder, doTrade,
                ReduceOrder, enqueueTrades, runnerFrame, snapshot
  <2>4. ASSUME NEW w \in Writers, Writer(w) PROVE UNCHANGED <<dbOrderCounter, dbMatchCounter>>
    BY <2>4 DEF Writer, tradeWriter, SaveTrade, snapshot
  <2>5. Save => Commit \/ UNCHANGED <<dbOrderCounter, dbMatchCounter>>
    BY DEF Save, SaveBegin, AllOrders, CopyFrom, SaveOrderCounter, SaveMatchCounter, SaveFails, snapshot
  <2>6. Start \/ Shutdown \/ Exit \/ Crash => UNCHANGED <<dbOrderCounter, dbMatchCounter>>
    BY DEF Start, Shutdown, Exit, Crash, MemoryGone, snapshot
  <2>7. CASE UNCHANGED vars
    BY <2>7
  <2> QED
    BY <1>1, <2>1, <2>2, <2>3, <2>4, <2>5, <2>6, <2>7 DEF Next
<1>2. []Inv /\ [][Next]_vars => [][Advance]_vars
  BY <1>1, PTL
<1> QED
  BY <1>2, Invariance, PTL DEF Spec, SnapshotsAdvance

-----------------------------------------------------------------------------
(* The trade log.                                                          *)

\* Where trade m of this run is.
Accounted(m) ==
    \/ \E s \in Symbols : m \in ToSet(outbox[s])
    \/ m \in ToSet(tradeCh)
    \/ \E w \in Writers : writing[w] = m
    \/ Settled(m)

\* The elements of a sequence with one more, and of one without its first.
LEMMA SetOfAppend ==
    ASSUME NEW u \in Seq(Matches), NEW m \in Matches
    PROVE  m \in ToSet(Append(u, m)) /\ ToSet(u) \subseteq ToSet(Append(u, m))
<1>1. /\ Append(u, m) \in Seq(Matches) /\ Len(Append(u, m)) = Len(u) + 1
      /\ \A i \in 1 .. Len(u) : Append(u, m)[i] = u[i]
      /\ Append(u, m)[Len(u) + 1] = m
  BY AppendProperties
<1>2. DOMAIN Append(u, m) = 1 .. Len(Append(u, m)) /\ DOMAIN u = 1 .. Len(u) /\ Len(u) \in Nat
  BY <1>1, LenProperties
<1> QED
  BY <1>1, <1>2 DEF ToSet

LEMMA SetOfTail ==
    ASSUME NEW u \in Seq(Matches), u # <<>>
    PROVE  ToSet(u) \subseteq {Head(u)} \cup ToSet(Tail(u))
<1>1. /\ Tail(u) \in Seq(Matches) /\ Len(Tail(u)) = Len(u) - 1 /\ Head(u) = u[1]
      /\ \A i \in 1 .. Len(Tail(u)) : Tail(u)[i] = u[i + 1]
  BY HeadTailProperties
<1>2. DOMAIN Tail(u) = 1 .. Len(Tail(u)) /\ DOMAIN u = 1 .. Len(u) /\ Len(u) \in Nat
  BY <1>1, LenProperties
<1>3. SUFFICES ASSUME NEW i \in DOMAIN u PROVE u[i] \in {Head(u)} \cup ToSet(Tail(u))
  BY DEF ToSet
<1>4. CASE i = 1
  BY <1>1, <1>4
<1>5. CASE i # 1
  <2>1. i - 1 \in DOMAIN Tail(u) /\ Tail(u)[i - 1] = u[i]
    BY <1>1, <1>2, <1>5
  <2> QED
    BY <2>1 DEF ToSet
<1> QED
  BY <1>4, <1>5

\* A step of this run keeps every trade accounted for.
LEMMA AccountedKept ==
    ASSUME TypeInv, NEW m \in Matches, Accounted(m), [Next]_vars, ~Start, ~Exit, ~Crash
    PROVE  Accounted(m)'
<1> USE DEF Accounted
<1>1. CASE UNCHANGED <<run, outbox, tradeCh, writing, trades, dropped, discarded>>
  BY <1>1 DEF Settled
<1>2. ASSUME NEW s \in Symbols, doTrade(s) PROVE Accounted(m)'
  <2>1. outbox[s] \in Seq(Matches) /\ matchCounter + 1 \in Matches /\ outbox \in [Symbols -> Seq(Matches)]
    BY <1>2, RecoveryAssumption DEF doTrade, TypeInv, TypeOK, Matches
  <2>2. /\ outbox' = [outbox EXCEPT ![s] = Append(outbox[s], matchCounter + 1)]
        /\ UNCHANGED <<run, tradeCh, writing, trades, dropped, discarded>>
    BY <1>2 DEF doTrade, runnerFrame, channel
  <2>3. \A t \in Symbols : ToSet(outbox[t]) \subseteq ToSet(outbox'[t])
    BY <2>1, <2>2, SetOfAppend
  <2> QED
    BY <2>2, <2>3 DEF Settled
<1>3. ASSUME NEW s \in Symbols, enqueueTrades(s) PROVE Accounted(m)'
  <2>1. /\ outbox[s] \in Seq(Matches) /\ outbox[s] # <<>> /\ tradeCh \in Seq(Matches)
        /\ outbox \in [Symbols -> Seq(Matches)]
    BY <1>3 DEF enqueueTrades, TypeInv, TypeOK
  <2>2. Head(outbox[s]) \in Matches
    BY <2>1, HeadTailProperties
  <2>3. /\ outbox' = [outbox EXCEPT ![s] = Tail(outbox[s])] /\ UNCHANGED <<run, writing, trades, discarded>>
        /\ \/ tradeCh' = Append(tradeCh, Head(outbox[s])) /\ dropped' = dropped
           \/ dropped' = dropped \cup {Head(outbox[s])} /\ tradeCh' = tradeCh
    BY <1>3 DEF enqueueTrades
  <2>4. \A t \in Symbols : ToSet(outbox[t]) \subseteq {Head(outbox[s])} \cup ToSet(outbox'[t])
    BY <2>1, <2>3, SetOfTail
  <2>5. Head(outbox[s]) \in ToSet(tradeCh') \cup dropped'
        /\ ToSet(tradeCh) \subseteq ToSet(tradeCh') /\ dropped \subseteq dropped'
    BY <2>1, <2>2, <2>3, SetOfAppend
  <2> QED
    BY <2>3, <2>4, <2>5 DEF Settled
<1>4. ASSUME NEW w \in Writers, tradeWriter(w) PROVE Accounted(m)'
  <2>1. tradeCh \in Seq(Matches) /\ tradeCh # <<>> /\ writing[w] = 0 /\ writing \in [Writers -> 0 .. MaxMatch]
        /\ m # 0
    BY <1>4 DEF tradeWriter, TypeInv, TypeOK, Matches
  <2>2. /\ writing' = [writing EXCEPT ![w] = Head(tradeCh)] /\ tradeCh' = Tail(tradeCh)
        /\ UNCHANGED <<run, outbox, trades, dropped, discarded>>
    BY <1>4 DEF tradeWriter, runners, history
  <2>3. ToSet(tradeCh) \subseteq {Head(tradeCh)} \cup ToSet(tradeCh')
    BY <2>1, <2>2, SetOfTail
  <2>4. writing'[w] = Head(tradeCh) /\ \A v \in Writers \ {w} : writing'[v] = writing[v]
    BY <2>1, <2>2
  <2> QED
    BY <2>1, <2>2, <2>3, <2>4 DEF Settled
<1>5. ASSUME NEW w \in Writers, SaveTrade(w) PROVE Accounted(m)'
  <2>1. /\ writing' = [writing EXCEPT ![w] = 0] /\ UNCHANGED <<run, outbox, tradeCh>>
        /\ dropped \subseteq dropped' /\ discarded \subseteq discarded'
        /\ \A n \in DOMAIN trades : n \in DOMAIN trades' /\ trades'[n] = trades[n]
    BY <1>5 DEF SaveTrade, runners
  <2>3. ASSUME writing[w] = m PROVE Settled(m)'
    <3>1. CASE m \in dropped'
      BY <3>1 DEF Settled
    <3>2. CASE /\ trades' = [n \in DOMAIN trades \cup {m} |->
                                IF n \in DOMAIN trades THEN trades[n] ELSE run]
               /\ discarded' = discarded \cup {n \in DOMAIN trades : n = m /\ trades[n] # run}
      <4>1. CASE m \in DOMAIN trades
        <5>1. trades[m] <= run /\ trades[m] \in Nat /\ run \in Nat /\ trades'[m] = trades[m]
          BY <4>1, <2>1, RecoveryAssumption DEF TypeInv, TypeOK, HistoryOK
        <5> QED
          BY <2>1, <3>2, <4>1, <5>1 DEF Settled
      <4>2. CASE m \notin DOMAIN trades
        BY <2>1, <3>2, <4>2 DEF Settled
      <4> QED
        BY <4>1, <4>2
    <3> QED
      BY <1>5, <2>3, <3>1, <3>2 DEF SaveTrade
  <2>2. \A v \in Writers \ {w} : writing'[v] = writing[v]
    BY <2>1 DEF TypeInv, TypeOK
  <2>4. Settled(m) => Settled(m)'
    BY <2>1 DEF Settled
  <2> QED
    BY <2>1, <2>2, <2>3, <2>4
<1>6. ASSUME NEW s \in Symbols, Initialize(s) \/ Runner(s) PROVE Accounted(m)'
  BY <1>1, <1>2, <1>3, <1>6 DEF Initialize, Runner, TakeID, AddOrder, RemoveOrder, ReplaceOrder, ReduceOrder,
                               runnerFrame, channel, history
<1>7. CASE Save \/ Shutdown
  BY <1>1, <1>7 DEF Save, SaveBegin, AllOrders, CopyFrom, SaveOrderCounter, SaveMatchCounter, Commit, SaveFails,
                    SaveEnds, saveFrame, Shutdown, runners, channel, history
<1>8. CASE UNCHANGED vars
  BY <1>1, <1>8 DEF vars, runners, channel, history
<1> QED
  BY <1>4, <1>5, <1>6, <1>7, <1>8 DEF Next, Writer

\* Whatever the runners and the writers do, and whether Load or a statement
\* failed or not, a trade of this run is on its way to the log, in it as this
\* run's trade, or lost for one of three reasons: a full channel, an error of
\* SaveTrade, or a row an earlier run logged under the same number.
THEOREM TradesStayAccounted == Spec => []TradesAccounted
<1>1. Init => TradesAccounted
  BY DEF Init, TradesAccounted
<1>2. ASSUME TypeInv, TradesAccounted, [Next]_vars PROVE TradesAccounted'
  <2> USE <1>2
  <2>1. CASE Start \/ Exit \/ Crash
    <3>1. firstMatch' = matchCounter' /\ matchCounter' \in Nat
      BY <2>1, RecoveryAssumption DEF Start, LoadNothing, LoadAll, LoadFails, Exit, Crash, MemoryGone, TypeInv,
                                      TypeOK
    <3>2. \A n \in Nat : \A m \in n + 1 .. n : FALSE
      OBVIOUS
    <3>3. \A m \in firstMatch' + 1 .. matchCounter' : FALSE
      BY <3>1, <3>2
    <3> QED
      BY <3>3 DEF TradesAccounted
  <2>2. CASE ~Start /\ ~Exit /\ ~Crash
    <3>1. SUFFICES ASSUME NEW m \in firstMatch' + 1 .. matchCounter' PROVE Accounted(m)'
      BY DEF TradesAccounted, Accounted
    <3>2. firstMatch \in 0 .. MaxMatch /\ matchCounter \in 0 .. MaxMatch /\ MaxMatch \in Nat
      BY RecoveryAssumption DEF TypeInv, TypeOK
    <3>3. firstMatch' = firstMatch
      BY <2>2 DEF Next, Initialize, Runner, TakeID, AddOrder, RemoveOrder, ReplaceOrder, doTrade, ReduceOrder,
                  enqueueTrades, runnerFrame, Writer, tradeWriter, SaveTrade, Save, SaveBegin, AllOrders,
                  CopyFrom, SaveOrderCounter, SaveMatchCounter, Commit, SaveFails, SaveEnds, saveFrame, Shutdown,
                  history, vars
    <3>4. CASE m \in firstMatch + 1 .. matchCounter
      <4>1. Accounted(m) /\ m \in Matches
        BY <3>2, <3>4 DEF TradesAccounted, Accounted, Matches
      <4> QED
        BY <2>2, <4>1, AccountedKept
    <3>5. ASSUME NEW s \in Symbols, doTrade(s), m = matchCounter + 1 PROVE Accounted(m)'
      <4>1. /\ outbox' = [outbox EXCEPT ![s] = Append(outbox[s], m)] /\ m \in Matches
            /\ outbox \in [Symbols -> Seq(Matches)]
        <5>1. outbox' = [outbox EXCEPT ![s] = Append(outbox[s], m)] /\ matchCounter < MaxMatch
          BY <3>5 DEF doTrade
        <5>2. m \in Matches
          BY <3>2, <3>5, <5>1 DEF Matches
        <5>3. outbox \in [Symbols -> Seq(Matches)]
          BY DEF TypeInv, TypeOK
        <5> QED
          BY <5>1, <5>2, <5>3
      <4>2. m \in ToSet(outbox'[s])
        BY <4>1, SetOfAppend
      <4> QED
        BY <4>2 DEF Accounted
    <3>6. matchCounter' = matchCounter \/ (matchCounter' = matchCounter + 1 /\ \E s \in Symbols : doTrade(s))
      BY <2>2 DEF Next, Initialize, Runner, TakeID, AddOrder, RemoveOrder, ReplaceOrder, doTrade, ReduceOrder,
                  enqueueTrades, runnerFrame, Writer, tradeWriter, SaveTrade, Save, SaveBegin, AllOrders,
                  CopyFrom, SaveOrderCounter, SaveMatchCounter, Commit, SaveFails, SaveEnds, saveFrame, Shutdown,
                  counters, vars
    <3> QED
      BY <3>2, <3>3, <3>4, <3>5, <3>6
  <2> QED
    BY <2>1, <2>2
<1> QED
  BY <1>1, <1>2, TypeInvariance, PTL DEF Spec

\* ON CONFLICT DO NOTHING: a trade saved under a number that is taken replaces
\* no row of the log.
THEOREM LogIsAppendOnly == Spec => LogAppendOnly
<1>1. ASSUME [Next]_vars
      PROVE  \A m \in DOMAIN trades : m \in DOMAIN trades' /\ trades'[m] = trades[m]
  <2>1. CASE trades' = trades
    BY <2>1
  <2>2. ASSUME NEW w \in Writers, SaveTrade(w)
        PROVE  \A m \in DOMAIN trades : m \in DOMAIN trades' /\ trades'[m] = trades[m]
    BY <2>1, <2>2 DEF SaveTrade
  <2>3. trades' = trades \/ \E w \in Writers : SaveTrade(w)
    BY <1>1 DEF Next, Start, Initialize, Runner, TakeID, AddOrder, RemoveOrder, ReplaceOrder, doTrade, ReduceOrder,
                enqueueTrades, runnerFrame, Writer, tradeWriter, Save, SaveBegin, AllOrders,
                CopyFrom, SaveOrderCounter, SaveMatchCounter, Commit, SaveFails, SaveEnds, saveFrame, Shutdown,
                Exit, Crash, MemoryGone, vars
  <2> QED
    BY <2>1, <2>2, <2>3
<1>2. [Next]_vars => [\A m \in DOMAIN trades : m \in DOMAIN trades' /\ trades'[m] = trades[m]]_vars
  BY <1>1
<1> QED
  BY <1>2, PTL DEF Spec, LogAppendOnly
=============================================================================
