------------------------------- MODULE OrderBook -------------------------------
(***************************************************************************)
(* The price-time priority book of one symbol: go-feed/internal/orderbook, *)
(* book.go and order.go.  A book is a value                                *)
(*                                                                         *)
(*   b.levels[side]  Book.Bids (side "B") or Book.Asks (side "S"): the     *)
(*                   price levels, best price first                        *)
(*   b.orderMap      Book.orderMap: order id -> order                      *)
(*                                                                         *)
(* and every method that changes a Book is an operator from the old value  *)
(* to the new one.  Each of them runs under Book.mu, so a method is one    *)
(* atomic change of the value.                                             *)
(*                                                                         *)
(* Prices are whole ticks (every price passes through snapPrice and is     *)
(* compared with ==, < and > only) and shares are lots of 100.  A level    *)
(* lists order ids where the code lists *Order: orderMap is the heap the   *)
(* pointers lead to.  Order.Priority is written and never read; Locate is  *)
(* the book's identity; MPID picks a message type and nothing else: all    *)
(* three are left out.                                                     *)
(***************************************************************************)
EXTENDS Integers, Sequences, FiniteSets, SequencesExt

CONSTANT MaxLevels      \* price levels kept on each side (10 in the code)

ASSUME MaxLevelsAssumption == MaxLevels \in Nat \ {0}

SideBuy  == "B"
SideSell == "S"
Sides    == {SideBuy, SideSell}

\* The order type.  IDs, prices and shares are naturals; an order that rests
\* in the book has at least one lot and a price of at least one tick.
Order == [ID : Nat \ {0}, Side : Sides, Price : Nat \ {0}, Shares : Nat \ {0}]

PriceLevel == [Price : Nat \ {0}, Orders : Seq(Nat \ {0})]

NewBook == [levels   |-> [side \in Sides |-> <<>>],
            orderMap |-> [id \in {} |-> {}]]

-----------------------------------------------------------------------------
(* Helpers on one side of the book.                                        *)

\* p is a better price than q: bids are kept in descending, asks in
\* ascending order.
Better(p, q, descending) == IF descending THEN p > q ELSE p < q

HasPrice(levels, p) == \E i \in DOMAIN levels : levels[i].Price = p

LevelOf(levels, p) == CHOOSE i \in DOMAIN levels : levels[i].Price = p

\* Mutant: asks are sorted like bids.
SortedPositionDescending(levels, p, descending) ==
    LET after == {i \in DOMAIN levels : Better(p, levels[i].Price, TRUE)}
    IN  IF after = {} THEN Len(levels) + 1 ELSE Min(after)

\* Where sort.Slice puts a new level with price p in levels that are already
\* sorted: before the first level that p is to precede.
SortedPosition(levels, p, descending) ==
    LET after == {i \in DOMAIN levels : Better(p, levels[i].Price, descending)}
    IN  IF after = {} THEN Len(levels) + 1 ELSE Min(after)

\* levels with the queue of level n replaced by q.
SetOrders(levels, n, q) == [levels EXCEPT ![n] = [Price |-> levels[n].Price, Orders |-> q]]

\* Mutant: the trim drops levels and forgets their orders.
OrdersBeyondNone(levels, m) == {}

\* The ids of the orders on the levels after the first m.
OrdersBeyond(levels, m) == UNION {ToSet(levels[i].Orders) : i \in m + 1 .. Len(levels)}

\* The result of addToSide: the levels and the ids of the orders on the
\* levels that the trim to MaxLevels dropped.
addToSide(levels, o, descending) ==
    IF HasPrice(levels, o.Price)
    THEN LET n == LevelOf(levels, o.Price)
         IN  [levels  |-> SetOrders(levels, n, Append(levels[n].Orders, o.ID)),
              evicted |-> {}]
    ELSE LET newLevel == [Price |-> o.Price, Orders |-> <<o.ID>>]
             sorted   == InsertAt(levels,
                                  SortedPosition(levels, o.Price, descending),
                                  newLevel)
         IN  IF Len(sorted) > MaxLevels
             THEN [levels  |-> SubSeq(sorted, 1, MaxLevels),
                   evicted |-> OrdersBeyond(sorted, MaxLevels)]
             ELSE [levels |-> sorted, evicted |-> {}]

\* The position of an order: its level, and its place in that level's queue.
Holds(levels, i, j, id) ==
    /\ i \in DOMAIN levels
    /\ j \in DOMAIN levels[i].Orders
    /\ levels[i].Orders[j] = id

\* Mutant: a level whose last order left stays in the book.
removeFromSideKeepsLevel(levels, id) ==
    [i \in DOMAIN levels |->
        [Price |-> levels[i].Price, Orders |-> SelectSeq(levels[i].Orders, LAMBDA x : x # id)]]

removeFromSide(levels, id) ==
    IF \E i \in DOMAIN levels : \E j \in DOMAIN levels[i].Orders : Holds(levels, i, j, id)
    THEN LET i    == CHOOSE i \in DOMAIN levels :
                         \E j \in DOMAIN levels[i].Orders : Holds(levels, i, j, id)
             j    == CHOOSE j \in DOMAIN levels[i].Orders : Holds(levels, i, j, id)
             rest == RemoveAt(levels[i].Orders, j)
         IN  IF rest = <<>>
             THEN RemoveAt(levels, i)
             ELSE SetOrders(levels, i, rest)
    ELSE levels

-----------------------------------------------------------------------------
(* The methods of Book that change it.                                     *)

\* map restricted to the keys outside S: delete(orderMap, id) for id in S.
Without(map, S) == [id \in DOMAIN map \ S |-> map[id]]

\* map with m[o.ID] = o.
With(map, o) == [id \in DOMAIN map \cup {o.ID} |-> IF id = o.ID THEN o ELSE map[id]]

\* AddOrder, and RestoreOrder, which does the same.
AddOrder(b, o) ==
    LET r == addToSide(b.levels[o.Side], o, o.Side = SideBuy)
    IN  [levels   |-> [b.levels EXCEPT ![o.Side] = r.levels],
         orderMap |-> Without(With(b.orderMap, o), r.evicted)]

\* What AddOrder returns.
Evicted(b, o) == addToSide(b.levels[o.Side], o, o.Side = SideBuy).evicted

RestoreOrder(b, o) == AddOrder(b, o)

RemoveOrder(b, id) ==
    IF id \notin DOMAIN b.orderMap
    THEN b
    ELSE LET side == b.orderMap[id].Side
         IN  [levels   |-> [b.levels EXCEPT ![side] = removeFromSide(@, id)],
              orderMap |-> Without(b.orderMap, {id})]

\* Mutant: an order of no shares stays in the book.
ReduceOrderKeepsEmpty(b, id, reduceBy) ==
    IF id \notin DOMAIN b.orderMap
    THEN b
    ELSE IF b.orderMap[id].Shares - reduceBy < 0
         THEN RemoveOrder(b, id)
         ELSE [b EXCEPT !.orderMap[id].Shares = @ - reduceBy]

ReduceOrder(b, id, reduceBy) ==
    IF id \notin DOMAIN b.orderMap
    THEN b
    ELSE IF b.orderMap[id].Shares - reduceBy <= 0
         THEN RemoveOrder(b, id)
         ELSE [b EXCEPT !.orderMap[id].Shares = @ - reduceBy]

\* The order that ReplaceOrder puts in the place of old.
Replacement(old, newID, newPrice, newShares) ==
    [ID |-> newID, Side |-> old.Side, Price |-> newPrice, Shares |-> newShares]

\* Mutant: the new order is inserted, and levels trimmed, while the old one
\* still takes up its level.
ReplaceOrderInsertsFirst(b, oldID, newID, newPrice, newShares) ==
    IF oldID \notin DOMAIN b.orderMap
    THEN b
    ELSE RemoveOrder(AddOrder(b, Replacement(b.orderMap[oldID], newID, newPrice, newShares)),
                     oldID)

ReplaceOrder(b, oldID, newID, newPrice, newShares) ==
    IF oldID \notin DOMAIN b.orderMap
    THEN b
    ELSE AddOrder(RemoveOrder(b, oldID),
                  Replacement(b.orderMap[oldID], newID, newPrice, newShares))

-----------------------------------------------------------------------------
(* The methods that read it.                                               *)

BestBid(b) == IF b.levels[SideBuy]  = <<>> THEN 0 ELSE b.levels[SideBuy][1].Price
BestAsk(b) == IF b.levels[SideSell] = <<>> THEN 0 ELSE b.levels[SideSell][1].Price

OrderCount(b) == Cardinality(DOMAIN b.orderMap)

\* The orders RandomBidOrder and RandomAskOrder can return for the indices
\* below TotalBidOrders and TotalAskOrders: those on the levels of a side.
OrdersOn(b, side) == UNION {ToSet(b.levels[side][i].Orders) :
                            i \in DOMAIN b.levels[side]}

\* Mutant: the last of the queue is executed.
LastOrder(b, side) == Last(b.levels[side][1].Orders)

\* RandomBidOrder(0), RandomAskOrder(0): head of the queue at the best price.
FirstOrder(b, side) == b.levels[side][1].Orders[1]

-----------------------------------------------------------------------------
(* What makes a book well formed.                                          *)

BookType(b) ==
    /\ b \in [levels : [Sides -> Seq(PriceLevel)], orderMap : {b.orderMap}]
    /\ b.orderMap = [id \in DOMAIN b.orderMap |-> b.orderMap[id]]
    /\ \A id \in DOMAIN b.orderMap : /\ b.orderMap[id] \in Order
                                     /\ b.orderMap[id].ID = id

\* Levels are strictly sorted, best first, so no two share a price.
LevelsSorted(b) ==
    \A side \in Sides : \A i, k \in DOMAIN b.levels[side] :
        i < k => Better(b.levels[side][i].Price, b.levels[side][k].Price,
                        side = SideBuy)

\* The trim keeps a side to MaxLevels levels and no level is empty.
LevelsBounded(b) ==
    \A side \in Sides : /\ Len(b.levels[side]) <= MaxLevels
                        /\ \A i \in DOMAIN b.levels[side] :
                               b.levels[side][i].Orders # <<>>

\* Every order reachable through the levels is in orderMap, on the side and
\* at the price the order says.
Reachable(b) ==
    \A side \in Sides : \A i \in DOMAIN b.levels[side] :
        \A j \in DOMAIN b.levels[side][i].Orders :
            LET id == b.levels[side][i].Orders[j]
            IN  /\ id \in DOMAIN b.orderMap
                /\ b.orderMap[id].Side = side
                /\ b.orderMap[id].Price = b.levels[side][i].Price

\* Every order in orderMap is reachable through the levels of its side.
NoOrphans(b) ==
    \A id \in DOMAIN b.orderMap :
        LET levels == b.levels[b.orderMap[id].Side]
        IN  \E i \in DOMAIN levels : \E j \in DOMAIN levels[i].Orders :
                Holds(levels, i, j, id)

\* No order is queued twice on its level.
NoDuplicates(b) ==
    \A side \in Sides : \A i \in DOMAIN b.levels[side] :
        \A j, k \in DOMAIN b.levels[side][i].Orders :
            b.levels[side][i].Orders[j] = b.levels[side][i].Orders[k] => j = k

BookOK(b) ==
    /\ BookType(b)
    /\ LevelsSorted(b)
    /\ LevelsBounded(b)
    /\ Reachable(b)
    /\ NoOrphans(b)
    /\ NoDuplicates(b)
=============================================================================
