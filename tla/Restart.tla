-------------------------------- MODULE Restart --------------------------------
(***************************************************************************)
(* A book through a snapshot, a crash and a restart: the book of OrderBook *)
(* with the Save and Load of persist/snapshot.go around it.  Recovery has  *)
(* the counters, the other symbols and the failures of the database; here  *)
(* a book is a whole book, and Load rebuilds it row by row.                *)
(*                                                                         *)
(* Save collects the orders under the book's lock, as pointers, and reads  *)
(* their fields when CopyFrom asks for the row; the runner trades on in    *)
(* between.  Load gets the rows in the order the database likes: its       *)
(* SELECT has no ORDER BY.                                                 *)
(***************************************************************************)
EXTENDS OrderBook

CONSTANTS
    OrderSides,         \* the sides on which orders are entered
    Prices,             \* prices at which orders are entered
    MaxLots,            \* the largest order, in lots
    MaxOrderID,         \* bound: order ids handed out
    MaxSaves,           \* bound: snapshots committed
    MaxRuns             \* bound: starts of the process

ASSUME RestartAssumption ==
    /\ OrderSides \subseteq Sides /\ Prices \subseteq Nat \ {0}
    /\ MaxLots \in Nat /\ MaxOrderID \in Nat /\ MaxSaves \in Nat /\ MaxRuns \in Nat

VARIABLES
    phase,              \* "up", "down" or "loading"
    run,                \* how often the process was started
    book,               \* the Book
    shares,             \* id -> Order.Shares of every Order struct, in the book or not
    orderIDCounter,
    uncopied,           \* ids of the orders Save collected and has not read yet
    txRows,             \* rows of the open transaction
    saving,             \* TRUE between AllOrders and Commit
    counted,            \* TRUE once Save has written the counter
    txCounter,          \* the counter in the open transaction
    dbRows,             \* the orders table
    dbCounter,          \* sim_state 'order_id_counter'
    unloaded,           \* rows Load has still to restore
    collected,          \* what AllOrders returned, with the shares of that moment
    saves               \* history: commits

save    == <<uncopied, txRows, saving, counted, txCounter, collected>>
db      == <<dbRows, dbCounter, saves>>
process == <<phase, run, unloaded>>
vars    == <<process, book, shares, orderIDCounter, save, db>>

Ids == 1 .. MaxOrderID

NoOrders == NewBook.orderMap

Init ==
    /\ phase = "up" /\ run = 1 /\ unloaded = {}
    /\ book = NewBook /\ shares = [id \in Ids |-> 0] /\ orderIDCounter = 0
    /\ uncopied = {} /\ txRows = {} /\ saving = FALSE /\ collected = NoOrders
    /\ counted = FALSE /\ txCounter = 0
    /\ dbRows = {} /\ dbCounter = 0 /\ saves = 0

-----------------------------------------------------------------------------
(* The runner.                                                             *)

CanAllocate == orderIDCounter < MaxOrderID

NextOrderID == orderIDCounter + 1

Enter ==
    /\ phase = "up" /\ CanAllocate
    /\ \E side \in OrderSides, p \in Prices, n \in 1 .. MaxLots :
           /\ book' = AddOrder(book, [ID |-> NextOrderID, Side |-> side, Price |-> p, Shares |-> n])
           /\ shares' = [shares EXCEPT ![NextOrderID] = n]
    /\ orderIDCounter' = NextOrderID
    /\ UNCHANGED <<process, save, db>>

Cancel ==
    /\ phase = "up"
    /\ \E id \in DOMAIN book.orderMap : book' = RemoveOrder(book, id)
    /\ UNCHANGED <<process, shares, orderIDCounter, save, db>>

\* Mutant: the order is amended where it stands, id and struct included.
ReplaceInPlace ==
    /\ phase = "up" /\ CanAllocate
    /\ \E id \in DOMAIN book.orderMap, n \in 1 .. MaxLots :
           /\ book' = [book EXCEPT !.orderMap[id].Shares = n]
           /\ shares' = [shares EXCEPT ![id] = n]
    /\ UNCHANGED <<process, orderIDCounter, save, db>>

Replace ==
    /\ phase = "up" /\ CanAllocate
    /\ \E id \in DOMAIN book.orderMap, p \in Prices, n \in 1 .. MaxLots :
           /\ book' = ReplaceOrder(book, id, NextOrderID, p, n)
           /\ shares' = [shares EXCEPT ![NextOrderID] = n]
    /\ orderIDCounter' = NextOrderID
    /\ UNCHANGED <<process, save, db>>

\* The lots that doTrade takes off an order: IntRange(1, lots), which is 1 if
\* there are none.
TradeLots(lots) == IF 1 >= lots THEN {1} ELSE 1 .. lots

\* ReduceOrder of the order at the front of a side; its struct stays.
Trade ==
    /\ phase = "up"
    /\ \E side \in {s \in Sides : book.levels[s] # <<>>} :
           LET id == FirstOrder(book, side)
           IN  \E n \in TradeLots(book.orderMap[id].Shares) :
                   /\ book' = ReduceOrder(book, id, n)
                   /\ shares' = [shares EXCEPT ![id] = IF @ - n <= 0 THEN 0 ELSE @ - n]
    /\ UNCHANGED <<process, orderIDCounter, save, db>>

-----------------------------------------------------------------------------
(* The snapshotter.                                                        *)

AllOrders ==
    /\ phase = "up" /\ ~saving /\ saves < MaxSaves
    /\ saving' = TRUE
    /\ uncopied' = DOMAIN book.orderMap
    /\ collected' = book.orderMap
    /\ UNCHANGED <<process, book, shares, orderIDCounter, txRows, counted, txCounter, db>>

\* The row of one order, read through its pointer.  Only the shares of an
\* Order struct ever change.
CopyFrom ==
    /\ phase = "up" /\ saving
    /\ \E id \in uncopied :
           /\ txRows' = txRows \cup {[collected[id] EXCEPT !.Shares = shares[id]]}
           /\ uncopied' = uncopied \ {id}
    /\ UNCHANGED <<process, book, shares, orderIDCounter, saving, counted, txCounter, collected, db>>

\* The counter is read after the rows, and the runner still goes on.
SaveCounter ==
    /\ phase = "up" /\ saving /\ uncopied = {} /\ ~counted
    /\ counted' = TRUE /\ txCounter' = orderIDCounter
    /\ UNCHANGED <<process, book, shares, orderIDCounter, uncopied, txRows, saving, collected, db>>

NoTransaction ==
    /\ saving' = FALSE /\ uncopied' = {} /\ txRows' = {} /\ collected' = NoOrders
    /\ counted' = FALSE /\ txCounter' = 0

\* DELETE FROM orders, the rows and the counter, all at once.
Commit ==
    /\ phase = "up" /\ saving /\ counted
    /\ dbRows' = txRows
    /\ dbCounter' = txCounter
    /\ saves' = saves + 1
    /\ NoTransaction
    /\ UNCHANGED <<process, book, shares, orderIDCounter>>

-----------------------------------------------------------------------------
(* The end of a run and the start of the next.                             *)

\* The process dies, or exits, and an open transaction with it.
Crash ==
    /\ phase # "down" /\ run < MaxRuns
    /\ phase' = "down"
    /\ book' = NewBook /\ shares' = [id \in Ids |-> 0] /\ orderIDCounter' = 0
    /\ unloaded' = {}
    /\ NoTransaction
    /\ UNCHANGED <<run, db>>

Start ==
    /\ phase = "down" /\ saves > 0
    /\ phase' = "loading" /\ run' = run + 1
    /\ unloaded' = dbRows
    /\ UNCHANGED <<book, shares, orderIDCounter, save, db>>

\* Mutant: a restored order gets a new id.
LoadOrderRenumbered ==
    /\ phase = "loading"
    /\ \E r \in unloaded :
           /\ book' = RestoreOrder(book, [r EXCEPT !.ID = NextOrderID])
           /\ shares' = [shares EXCEPT ![NextOrderID] = r.Shares]
           /\ unloaded' = unloaded \ {r}
    /\ orderIDCounter' = NextOrderID
    /\ UNCHANGED <<phase, run, save, db>>

\* A row of the SELECT, any of those left.
LoadOrder ==
    /\ phase = "loading"
    /\ \E r \in unloaded :
           /\ book' = RestoreOrder(book, r)
           /\ shares' = [shares EXCEPT ![r.ID] = r.Shares]
           /\ unloaded' = unloaded \ {r}
    /\ UNCHANGED <<phase, run, orderIDCounter, save, db>>

\* The counters follow, and the runners start.
LoadCounters ==
    /\ phase = "loading" /\ unloaded = {}
    /\ orderIDCounter' = dbCounter
    /\ phase' = "up"
    /\ UNCHANGED <<run, book, shares, unloaded, save, db>>

Next ==
    \/ Enter \/ Cancel \/ Replace \/ Trade
    \/ AllOrders \/ CopyFrom \/ SaveCounter \/ Commit
    \/ Crash \/ Start \/ LoadOrder \/ LoadCounters

Spec == Init /\ [][Next]_vars

-----------------------------------------------------------------------------
(* Properties.                                                             *)

\* In whatever order Load reads the rows, the book it builds is well formed
\* at every row and ends up with all of them, each at its side and price: the
\* trim of RestoreOrder drops none, because they are the orders of a book at
\* one moment.  (Their order in a level is that of the rows.)
RestoredBook ==
    phase = "loading" =>
        /\ LevelsSorted(book) /\ LevelsBounded(book)
        /\ Reachable(book) /\ NoOrphans(book) /\ NoDuplicates(book)
        /\ {book.orderMap[id] : id \in DOMAIN book.orderMap} = dbRows \ unloaded

\* CopyFrom reads while the runner trades.  What Commit makes durable are the
\* orders of the book at one moment, each with at most the shares it had then
\* and at least those it has at Commit; only an order that was executed in
\* full meanwhile is saved with none.  So no restart gives an order shares it
\* never had.
RowsBetween ==
    [][saves' > saves =>
           /\ {r.ID : r \in dbRows'} = DOMAIN collected
           /\ \A r \in dbRows' :
                  /\ r.Shares <= collected[r.ID].Shares
                  /\ r.ID \in DOMAIN book.orderMap => r.Shares >= book.orderMap[r.ID].Shares
                  /\ r.Shares = 0 /\ collected[r.ID].Shares > 0 =>
                         r.ID \notin DOMAIN book.orderMap]_vars
=============================================================================
