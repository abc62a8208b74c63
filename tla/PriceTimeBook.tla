----------------------------- MODULE PriceTimeBook -----------------------------
(***************************************************************************)
(* What a depth-limited price-time priority book promises, without its     *)
(* arrays: on each side one queue of orders for each quoted price, only    *)
(* the MaxLevels best prices quoted, orders executed from the front of the *)
(* queue at the best price, and ids that grow and are never reused.        *)
(* OrderBook and Simulator implement it (RefinesPriceTimeBook).            *)
(***************************************************************************)
EXTENDS Integers, Sequences, FiniteSets, SequencesExt

CONSTANTS
    MaxLevels,  \* prices quoted on each side
    Prices,     \* the prices an order can have
    Ids,        \* the ids that can be handed out
    Lots        \* the sizes an order or a trade can have

VARIABLES
    queue,      \* side -> quoted price -> ids in order of arrival
    lots,       \* id of a resting order -> what is left of it
    lastID      \* the last id handed out

absVars == <<queue, lots, lastID>>

BookSides == {"B", "S"}

Beats(side, p, q) == IF side = "B" THEN p > q ELSE p < q

\* The MaxLevels best of a set of prices.
BestPrices(side, P) ==
    {p \in P : Cardinality({q \in P : Beats(side, q, p)}) < MaxLevels}

QueuedOn(q) == UNION {{q[p][i] : i \in DOMAIN q[p]} : p \in DOMAIN q}

\* A side without an order; a price whose queue empties is quoted no more.
Leave(q, id) ==
    LET rest == [p \in DOMAIN q |-> RemoveFirst(q[p], id)]
    IN  [p \in {p \in DOMAIN q : rest[p] # <<>>} |-> rest[p]]

\* A side with an order at the end of its price's queue, and the prices
\* beyond the best MaxLevels quoted no more.
Join(side, q, p, id) ==
    [r \in BestPrices(side, DOMAIN q \cup {p}) |->
        IF r # p THEN q[r]
        ELSE IF p \in DOMAIN q THEN Append(q[p], id) ELSE <<id>>]

\* What is left of the orders still queued, given the sizes of all of them.
SizesOf(qs, size) == [id \in QueuedOn(qs["B"]) \cup QueuedOn(qs["S"]) |-> size[id]]

-----------------------------------------------------------------------------

Init ==
    /\ queue = [side \in BookSides |-> [p \in {} |-> <<>>]]
    /\ lots = [id \in {} |-> 0]
    /\ lastID = 0

Waiting(side) == QueuedOn(queue[side])

\* The next id is handed out; it may go to another book.
Hand(id) == id > lastID /\ lastID' = id

Elsewhere == UNCHANGED <<queue, lots>>

\* The sizes once the order id, of some lots, has been entered.
Entered(id, n) == [x \in DOMAIN lots \cup {id} |-> IF x = id THEN n ELSE lots[x]]

Sized(id) == \E n \in Lots : lots' = SizesOf(queue', Entered(id, n))

Place(side, p, id) ==
    queue' = [queue EXCEPT ![side] = Join(side, @, p, id)] /\ Sized(id)

Withdraw(side, id) ==
    /\ queue' = [queue EXCEPT ![side] = Leave(@, id)]
    /\ lots' = SizesOf(queue', lots)

\* Withdraw old and place id in its stead.
Amend(side, old, p, id) ==
    queue' = [queue EXCEPT ![side] = Join(side, Leave(@, old), p, id)] /\ Sized(id)

\* At the front of the queue of the best price.
HasPriority(side, id) ==
    \E p \in DOMAIN queue[side] : /\ queue[side][p][1] = id
                                 /\ ~ \E q \in DOMAIN queue[side] : Beats(side, q, p)

\* n lots of the order that has priority on a side trade.
Execute(side, n) ==
    \E id \in Waiting(side) :
        /\ HasPriority(side, id)
        /\ n <= lots[id]
        /\ IF n = lots[id]
           THEN Withdraw(side, id)
           ELSE lots' = [lots EXCEPT ![id] = @ - n] /\ UNCHANGED queue

Next ==
    \/ \E id \in Ids :
           /\ Hand(id)
           /\ \/ Elsewhere
              \/ \E side \in BookSides, p \in Prices :
                     \/ Place(side, p, id)
                     \/ \E old \in Waiting(side) : Amend(side, old, p, id)
    \/ /\ UNCHANGED lastID
       /\ \E side \in BookSides :
              \/ \E id \in Waiting(side) : Withdraw(side, id)
              \/ \E n \in Lots : Execute(side, n)

Spec == Init /\ [][Next]_absVars
=============================================================================
