----------------------------- MODULE RestartProofs -----------------------------
(***************************************************************************)
(* A book survives Save, a crash and Load, for any number of levels,       *)
(* orders, lots, snapshots and restarts: what a commit makes durable are   *)
(* the orders of a book at one moment, and Load rebuilds them all in       *)
(* whatever order the rows come.                                           *)
(***************************************************************************)
EXTENDS Restart, OrderBookProofs, FiniteSetTheorems

-----------------------------------------------------------------------------
(* Rows and books of rows.                                                 *)

\* A row of the orders table: an order that may have been executed in full
\* between AllOrders and CopyFrom, and then has no shares.
Row == [ID : Nat \ {0}, Side : Sides, Price : Nat \ {0}, Shares : Nat]

RowsIn(map) == {map[id] : id \in DOMAIN map}

MapTyped(map) ==
    /\ map = [id \in DOMAIN map |-> map[id]]
    /\ \A id \in DOMAIN map : map[id] \in Row /\ map[id].ID = id

\* The rows fit into a book: no side has more prices than there are levels.
PricesOn(rows, side) == {r.Price : r \in {x \in rows : x.Side = side}}

Fits(rows) ==
    \A side \in Sides : /\ IsFiniteSet(PricesOn(rows, side))
                        /\ Cardinality(PricesOn(rows, side)) <= MaxLevels

\* Load may put orders of no shares into the book.  Nothing in the levels
\* depends on shares, so such a book is well formed if it is with one lot for
\* each order.
OneLot(o) == [ID |-> o.ID, Side |-> o.Side, Price |-> o.Price, Shares |-> 1]

Flat(b) == [levels   |-> b.levels,
            orderMap |-> [id \in DOMAIN b.orderMap |-> OneLot(b.orderMap[id])]]

WellFormed(b) ==
    /\ b = [levels |-> b.levels, orderMap |-> b.orderMap]
    /\ MapTyped(b.orderMap)
    /\ BookOK(Flat(b))

\* The relations of OrderBookProofs hold of such a book too.
LEMMA WellFormedView ==
    ASSUME NEW b, b = [levels |-> b.levels, orderMap |-> b.orderMap], MapTyped(b.orderMap)
    PROVE  BookOK(Flat(b)) <=> LevelsOK(b.levels) /\ Matched(b.levels, b.orderMap)
<1> DEFINE F == [id \in DOMAIN b.orderMap |-> OneLot(b.orderMap[id])]
<1>1. Flat(b) = [levels |-> b.levels, orderMap |-> F]
  BY DEF Flat
<1>2. Flat(b).levels = b.levels /\ Flat(b).orderMap = F
  BY <1>1
<1>3. DOMAIN F = DOMAIN b.orderMap /\ F = [id \in DOMAIN F |-> F[id]]
  OBVIOUS
<1>4. \A id \in DOMAIN F : F[id] = OneLot(b.orderMap[id])
  OBVIOUS
<1> HIDE DEF F
<1>5. ASSUME NEW o \in Row
      PROVE  /\ OneLot(o) \in Order /\ OneLot(o).ID = o.ID
             /\ OneLot(o).Side = o.Side /\ OneLot(o).Price = o.Price
  BY DEF OneLot, Row, Order
<1>6. \A id \in DOMAIN F : /\ F[id] \in Order /\ F[id].ID = id
                           /\ F[id].Side = b.orderMap[id].Side
                           /\ F[id].Price = b.orderMap[id].Price
  BY <1>3, <1>4, <1>5 DEF MapTyped
<1>7. MapOK(F)
  BY <1>3, <1>6 DEF MapOK
<1>8. Matched(b.levels, F) <=> Matched(b.levels, b.orderMap)
  <2>1. \A side, p, x : x \in DOMAIN F /\ F[x].Side = side /\ F[x].Price = p <=>
            x \in DOMAIN b.orderMap /\ b.orderMap[x].Side = side /\ b.orderMap[x].Price = p
    BY <1>3, <1>6
  <2>2. ASSUME Matched(b.levels, F) PROVE Matched(b.levels, b.orderMap)
    <3> SUFFICES ASSUME NEW side \in Sides, NEW p, NEW x
                 PROVE  At(b.levels[side], p, x) <=>
                            x \in DOMAIN b.orderMap /\ b.orderMap[x].Side = side /\ b.orderMap[x].Price = p
      BY DEF Matched
    <3>1. At(b.levels[side], p, x) <=> x \in DOMAIN F /\ F[x].Side = side /\ F[x].Price = p
      BY <2>2 DEF Matched
    <3> QED
      BY <3>1, <2>1
  <2>3. ASSUME Matched(b.levels, b.orderMap) PROVE Matched(b.levels, F)
    <3> SUFFICES ASSUME NEW side \in Sides, NEW p, NEW x
                 PROVE  At(b.levels[side], p, x) <=> x \in DOMAIN F /\ F[x].Side = side /\ F[x].Price = p
      BY DEF Matched
    <3>1. At(b.levels[side], p, x) <=>
              x \in DOMAIN b.orderMap /\ b.orderMap[x].Side = side /\ b.orderMap[x].Price = p
      BY <2>3 DEF Matched
    <3>2. x \in DOMAIN F /\ F[x].Side = side /\ F[x].Price = p <=>
              x \in DOMAIN b.orderMap /\ b.orderMap[x].Side = side /\ b.orderMap[x].Price = p
      BY <2>1
    <3> QED
      BY <3>1, <3>2
  <2> QED
    BY <2>2, <2>3
<1>9. BookOK(Flat(b)) <=> LevelsOK(b.levels) /\ MapOK(F) /\ Matched(b.levels, F)
  BY <1>1, <1>2, BookView
<1> QED
  BY <1>7, <1>8, <1>9

\* What RestoredBook says of the levels.
LEMMA WellFormedFacts ==
    ASSUME NEW b, WellFormed(b)
    PROVE  /\ LevelsSorted(b) /\ LevelsBounded(b)
           /\ Reachable(b) /\ NoOrphans(b) /\ NoDuplicates(b)
<1> DEFINE f == Flat(b)
<1>1. BookOK(f)
  BY DEF WellFormed
<1>2. /\ f.levels = b.levels /\ DOMAIN f.orderMap = DOMAIN b.orderMap
      /\ \A id \in DOMAIN b.orderMap : /\ f.orderMap[id].Side = b.orderMap[id].Side
                                       /\ f.orderMap[id].Price = b.orderMap[id].Price
  BY DEF Flat, OneLot
<1> HIDE DEF f
<1>3. LevelsSorted(b)
  BY <1>1, <1>2 DEF BookOK, LevelsSorted
<1>4. LevelsBounded(b)
  BY <1>1, <1>2 DEF BookOK, LevelsBounded
<1>5. Reachable(b)
  BY <1>1, <1>2 DEF BookOK, Reachable
<1>6. NoOrphans(b)
  BY <1>1, <1>2 DEF BookOK, NoOrphans
<1>7. NoDuplicates(b)
  BY <1>1, <1>2 DEF BookOK, NoDuplicates
<1> QED
  BY <1>3, <1>4, <1>5, <1>6, <1>7

LEMMA NewBookWellFormed == WellFormed(NewBook) /\ DOMAIN NewBook.orderMap = {}
<1>1. /\ NewBook = [levels |-> NewBook.levels, orderMap |-> NewBook.orderMap]
      /\ DOMAIN NewBook.orderMap = {} /\ NewBook.orderMap = [id \in DOMAIN NewBook.orderMap |-> NewBook.orderMap[id]]
  BY DEF NewBook
<1>2. MapTyped(NewBook.orderMap)
  BY <1>1 DEF MapTyped
<1>3. LevelsOK(NewBook.levels) /\ Matched(NewBook.levels, NewBook.orderMap)
  BY <1>1, NewBookOK, BookView
<1> QED
  BY <1>1, <1>2, <1>3, WellFormedView DEF WellFormed

-----------------------------------------------------------------------------
(* The methods of the book on rows.                                        *)

\* addToSide looks at price and id only.
LEMMA SharesIgnored ==
    ASSUME NEW levels, NEW o \in Row, NEW d
    PROVE  addToSide(levels, OneLot(o), d) = addToSide(levels, o, d)
<1>1. OneLot(o).ID = o.ID /\ OneLot(o).Price = o.Price
  BY DEF OneLot
<1> QED
  BY <1>1 DEF addToSide

\* AddOrder of a row with a new id: the book stays well formed and gets no
\* other order, and whoever is in it has the row it had.
LEMMA AddRow ==
    ASSUME NEW b, WellFormed(b), NEW o \in Row, o.ID \notin DOMAIN b.orderMap,
           NEW c, c = AddOrder(b, o)
    PROVE  /\ WellFormed(c)
           /\ DOMAIN c.orderMap \subseteq DOMAIN b.orderMap \cup {o.ID}
           /\ \A x \in DOMAIN c.orderMap : c.orderMap[x] = IF x = o.ID THEN o ELSE b.orderMap[x]
<1> DEFINE r == addToSide(b.levels[o.Side], o, o.Side = SideBuy)
           L == [b.levels EXCEPT ![o.Side] = r.levels]
           M == Without(With(b.orderMap, o), r.evicted)
           F == [id \in DOMAIN b.orderMap |-> OneLot(b.orderMap[id])]
           G == Without(With(F, OneLot(o)), r.evicted)
<1>1. c = [levels |-> L, orderMap |-> M]
  BY DEF AddOrder
<1>2. c.levels = L /\ c.orderMap = M
  BY <1>1
<1>3. /\ DOMAIN M = (DOMAIN b.orderMap \cup {o.ID}) \ r.evicted
      /\ M = [x \in DOMAIN M |-> M[x]]
      /\ \A x \in DOMAIN M : M[x] = IF x = o.ID THEN o ELSE b.orderMap[x]
  BY DEF With, Without
<1>4. o.ID \in Nat \ {0} /\ MapTyped(b.orderMap) /\ b = [levels |-> b.levels, orderMap |-> b.orderMap]
  BY DEF Row, WellFormed
<1>5. MapTyped(M)
  BY <1>3, <1>4 DEF MapTyped
<1>6. OneLot(o) \in Order /\ OneLot(o).ID = o.ID /\ OneLot(o).Side = o.Side
  BY DEF OneLot, Row, Order
<1>7. Flat(b) = [levels |-> b.levels, orderMap |-> F] /\ Flat(b).levels = b.levels
      /\ Flat(b).orderMap = F /\ DOMAIN F = DOMAIN b.orderMap
  BY DEF Flat
<1>8. AddOrder(Flat(b), OneLot(o)) = [levels |-> L, orderMap |-> G]
  BY <1>6, <1>7, SharesIgnored DEF AddOrder
<1>9. BookOK(AddOrder(Flat(b), OneLot(o)))
  <2>1. BookOK(Flat(b)) /\ Flat(b) = [levels |-> Flat(b).levels, orderMap |-> Flat(b).orderMap]
        /\ OneLot(o).ID \notin DOMAIN Flat(b).orderMap
    BY <1>6, <1>7 DEF WellFormed
  <2> QED
    BY <2>1, <1>6, AddOrderOK
<1>10. G = [id \in DOMAIN M |-> OneLot(M[id])]
  BY <1>3, <1>6, <1>7 DEF With, Without
<1>11. Flat(c) = [levels |-> L, orderMap |-> [id \in DOMAIN M |-> OneLot(M[id])]]
  BY <1>2 DEF Flat
<1> HIDE DEF L, M, F, G
<1>12. BookOK(Flat(c))
  BY <1>8, <1>9, <1>10, <1>11
<1>13. WellFormed(c)
  BY <1>1, <1>2, <1>5, <1>12 DEF WellFormed
<1> QED
  BY <1>2, <1>3, <1>13

\* RemoveOrder takes one row out.
LEMMA RemoveRow ==
    ASSUME NEW b, WellFormed(b), NEW id \in DOMAIN b.orderMap, NEW c, c = RemoveOrder(b, id)
    PROVE  WellFormed(c) /\ c.orderMap = Without(b.orderMap, {id})
<1> DEFINE s == b.orderMap[id].Side
           L == [b.levels EXCEPT ![s] = removeFromSide(@, id)]
           M == Without(b.orderMap, {id})
           F == [x \in DOMAIN b.orderMap |-> OneLot(b.orderMap[x])]
           G == Without(F, {id})
<1>1. c = [levels |-> L, orderMap |-> M]
  BY DEF RemoveOrder
<1>2. c.levels = L /\ c.orderMap = M
  BY <1>1
<1>3. /\ DOMAIN M = DOMAIN b.orderMap \ {id}
      /\ M = [x \in DOMAIN M |-> M[x]]
      /\ \A x \in DOMAIN M : M[x] = b.orderMap[x]
  BY DEF Without
<1>4. MapTyped(M)
  BY <1>3 DEF MapTyped, WellFormed
<1>5. Flat(b) = [levels |-> b.levels, orderMap |-> F] /\ Flat(b).levels = b.levels
      /\ Flat(b).orderMap = F /\ DOMAIN F = DOMAIN b.orderMap /\ F[id].Side = s
  BY DEF Flat, OneLot
<1>6. RemoveOrder(Flat(b), id) = [levels |-> L, orderMap |-> G]
  BY <1>5 DEF RemoveOrder
<1>7. BookOK(RemoveOrder(Flat(b), id))
  <2>1. BookOK(Flat(b)) /\ Flat(b) = [levels |-> Flat(b).levels, orderMap |-> Flat(b).orderMap]
        /\ id \in DOMAIN Flat(b).orderMap
    BY <1>5 DEF WellFormed
  <2> QED
    BY <2>1, RemoveOrderOK
<1>8. G = [x \in DOMAIN M |-> OneLot(M[x])]
  BY <1>3, <1>5 DEF Without
<1>9. Flat(c) = [levels |-> L, orderMap |-> [x \in DOMAIN M |-> OneLot(M[x])]]
  BY <1>2 DEF Flat
<1> HIDE DEF L, M, F, G
<1>10. BookOK(Flat(c))
  BY <1>6, <1>7, <1>8, <1>9
<1>11. c.orderMap = Without(b.orderMap, {id})
  BY <1>2 DEF M
<1> QED
  BY <1>1, <1>2, <1>4, <1>10, <1>11 DEF WellFormed

\* ReduceOrder leaves fewer shares in the row, at least one, or takes it out.
LEMMA ReduceRow ==
    ASSUME NEW b, WellFormed(b), NEW id \in DOMAIN b.orderMap, NEW n \in Nat \ {0},
           NEW c, c = ReduceOrder(b, id, n)
    PROVE  WellFormed(c) /\ Reduced(b.orderMap, id, n, c.orderMap)
<1> DEFINE o == b.orderMap[id]
           M == [b.orderMap EXCEPT ![id].Shares = @ - n]
<1>1. MapTyped(b.orderMap) /\ b = [levels |-> b.levels, orderMap |-> b.orderMap]
  BY DEF WellFormed
<1>2. o \in Row /\ o.Shares \in Nat /\ o.ID = id
  BY <1>1 DEF MapTyped, Row
<1>3. CASE o.Shares <= n
  <2>1. c = RemoveOrder(b, id)
    BY <1>2, <1>3 DEF ReduceOrder
  <2> QED
    BY <2>1, <1>3, RemoveRow DEF Reduced
<1>4. CASE ~(o.Shares <= n)
  <2>1. c = [b EXCEPT !.orderMap[id].Shares = @ - n]
    BY <1>2, <1>4 DEF ReduceOrder
  <2>2. [b EXCEPT !.orderMap[id].Shares = @ - n] = [levels |-> b.levels, orderMap |-> M]
    BY <1>1
  <2>3. c.levels = b.levels /\ c.orderMap = M /\ c = [levels |-> c.levels, orderMap |-> c.orderMap]
    BY <2>1, <2>2
  <2>4. /\ DOMAIN M = DOMAIN b.orderMap
        /\ M = [x \in DOMAIN M |-> M[x]]
        /\ \A x \in DOMAIN M : x # id => M[x] = b.orderMap[x]
        /\ M[id] = [o EXCEPT !.Shares = o.Shares - n]
    BY <1>1 DEF MapTyped
  <2>5. /\ M[id] \in Row /\ M[id].ID = id
        /\ M[id].Side = o.Side /\ M[id].Price = o.Price
    BY <2>4, <1>2, <1>4 DEF Row
  <2>6. \A x \in DOMAIN M : M[x].Side = b.orderMap[x].Side /\ M[x].Price = b.orderMap[x].Price
    BY <2>4, <2>5
  <2> HIDE DEF M
  <2>7. MapTyped(M)
    BY <2>4, <2>5, <1>1 DEF MapTyped
  <2>8. LevelsOK(b.levels) /\ Matched(b.levels, b.orderMap)
    BY <1>1, WellFormedView DEF WellFormed
  <2>9. Matched(b.levels, M)
    BY <2>4, <2>6, <2>8 DEF Matched
  <2>10. BookOK(Flat(c))
    BY <2>3, <2>7, <2>8, <2>9, WellFormedView
  <2> QED
    BY <2>3, <2>4, <2>7, <2>10, <1>4 DEF WellFormed, Reduced
<1> QED
  BY <1>3, <1>4

\* The order at the front of a side is in the book.
LEMMA FrontOrder ==
    ASSUME NEW b, WellFormed(b), NEW side \in Sides, b.levels[side] # <<>>
    PROVE  FirstOrder(b, side) \in DOMAIN b.orderMap
<1>1. LevelsOK(b.levels) /\ Matched(b.levels, b.orderMap)
  BY WellFormedView DEF WellFormed
<1> DEFINE levels == b.levels[side]
<1>2. levels \in Seq(PriceLevel) /\ SideFilled(levels)
  BY <1>1 DEF LevelsOK, SideOK
<1>3. Len(levels) \in Nat /\ Len(levels) # 0 /\ DOMAIN levels = 1 .. Len(levels)
  BY <1>2, EmptySeq, LenProperties
<1>4. 1 \in DOMAIN levels
  BY <1>3
<1>5. /\ levels[1].Orders \in Seq(Nat \ {0}) /\ levels[1].Orders # <<>>
  BY <1>2, <1>4, LevelTypes DEF SideFilled
<1>6. 1 \in DOMAIN levels[1].Orders
  <2>1. Len(levels[1].Orders) \in Nat /\ Len(levels[1].Orders) # 0
        /\ DOMAIN levels[1].Orders = 1 .. Len(levels[1].Orders)
    BY <1>5, EmptySeq, LenProperties
  <2> QED
    BY <2>1
<1>7. At(levels, levels[1].Price, levels[1].Orders[1])
  BY <1>4, <1>6 DEF At
<1>8. FirstOrder(b, side) = levels[1].Orders[1]
  BY DEF FirstOrder
<1>9. \A p, x : At(levels, p, x) => x \in DOMAIN b.orderMap
  BY <1>1 DEF Matched
<1> QED
  BY <1>7, <1>8, <1>9, Zenon

-----------------------------------------------------------------------------
(* Rows that fit.                                                          *)

\* The prices of the orders of a book on one side are those of its levels, and
\* there are as many of them.
LEMMA SidePrices ==
    ASSUME NEW b, WellFormed(b), NEW side \in Sides
    PROVE  /\ \A p : p \in PricesOn(RowsIn(b.orderMap), side) <=> HasPrice(b.levels[side], p)
           /\ IsFiniteSet(PricesOn(RowsIn(b.orderMap), side))
           /\ Cardinality(PricesOn(RowsIn(b.orderMap), side)) = Len(b.levels[side])
<1> DEFINE levels == b.levels[side]
           P == PricesOn(RowsIn(b.orderMap), side)
           f == [i \in 1 .. Len(levels) |-> levels[i].Price]
<1>1. LevelsOK(b.levels) /\ Matched(b.levels, b.orderMap)
  BY WellFormedView DEF WellFormed
<1>2. levels \in Seq(PriceLevel) /\ SideFilled(levels) /\ SideSorted(levels, side = SideBuy)
  BY <1>1 DEF LevelsOK, SideOK
<1>3. Len(levels) \in Nat /\ DOMAIN levels = 1 .. Len(levels)
  BY <1>2, LenProperties
<1>4. \A p : p \in P <=> \E x \in DOMAIN b.orderMap : b.orderMap[x].Side = side /\ b.orderMap[x].Price = p
  BY DEF PricesOn, RowsIn
<1>5. \A p, x : At(levels, p, x) <=> /\ x \in DOMAIN b.orderMap /\ b.orderMap[x].Side = side
                                     /\ b.orderMap[x].Price = p
  BY <1>1 DEF Matched
<1>6. \A p : p \in P <=> \E x : At(levels, p, x)
  BY <1>4, <1>5
<1> HIDE DEF P
<1>7. ASSUME NEW i \in DOMAIN levels PROVE \E x : At(levels, levels[i].Price, x)
  <2>1. levels[i].Orders \in Seq(Nat \ {0}) /\ levels[i].Orders # <<>>
    BY <1>2, LevelTypes DEF SideFilled
  <2>2. Len(levels[i].Orders) \in Nat /\ Len(levels[i].Orders) # 0
        /\ DOMAIN levels[i].Orders = 1 .. Len(levels[i].Orders)
    BY <2>1, EmptySeq, LenProperties
  <2>3. 1 \in DOMAIN levels[i].Orders
    BY <2>2
  <2>4. At(levels, levels[i].Price, levels[i].Orders[1])
    BY <2>3 DEF At
  <2> QED
    BY <2>4
<1>8. \A p : HasPrice(levels, p) <=> \E x : At(levels, p, x)
  BY <1>7, ZenonT(60) DEF HasPrice, At
<1>9. \A p : p \in P <=> HasPrice(levels, p)
  BY <1>6, <1>8
<1>10. f \in [1 .. Len(levels) -> P] /\ \A p \in P : \E i \in 1 .. Len(levels) : f[i] = p
  BY <1>3, <1>9 DEF HasPrice
<1>11. \A i, k \in 1 .. Len(levels) : f[i] = f[k] => i = k
  BY <1>2, <1>3, PricesDistinct
<1> HIDE DEF f
<1>12. f \in Bijection(1 .. Len(levels), P)
  <2>1. DOMAIN f = 1 .. Len(levels) /\ IsInjective(f)
    BY <1>10, <1>11 DEF IsInjective
  <2> QED
    BY <2>1, <1>10 DEF Bijection, Injection, Surjection
<1>13. ExistsBijection(1 .. Len(levels), P)
  BY <1>12 DEF ExistsBijection
<1>14. IsFiniteSet(P) /\ Cardinality(P) = Len(levels)
  BY <1>3, <1>13, FS_NatBijection, FS_CountingElements
<1> QED
  BY <1>9, <1>14 DEF P

\* The orders of a book fit.
LEMMA BookFits ==
    ASSUME NEW b, WellFormed(b)
    PROVE  Fits(RowsIn(b.orderMap))
<1>1. \A side \in Sides : Len(b.levels[side]) <= MaxLevels
  BY WellFormedView DEF WellFormed, LevelsOK
<1> QED
  BY <1>1, SidePrices DEF Fits

\* Fewer rows, or the same with other shares, fit as well.
LEMMA FewerFit ==
    ASSUME NEW R, NEW S, Fits(S),
           \A r \in R : \E q \in S : q.Side = r.Side /\ q.Price = r.Price
    PROVE  Fits(R)
<1> SUFFICES ASSUME NEW side \in Sides
             PROVE  /\ IsFiniteSet(PricesOn(R, side))
                    /\ Cardinality(PricesOn(R, side)) <= MaxLevels
  BY DEF Fits
<1>1. PricesOn(R, side) \in SUBSET PricesOn(S, side)
  BY DEF PricesOn
<1>2. IsFiniteSet(PricesOn(S, side)) /\ Cardinality(PricesOn(S, side)) <= MaxLevels
  BY DEF Fits
<1>3. /\ IsFiniteSet(PricesOn(R, side))
      /\ Cardinality(PricesOn(R, side)) <= Cardinality(PricesOn(S, side))
  BY <1>1, <1>2, FS_Subset
<1>4. Cardinality(PricesOn(R, side)) \in Nat /\ Cardinality(PricesOn(S, side)) \in Nat /\ MaxLevels \in Nat
  BY <1>2, <1>3, FS_CardinalityType, MaxLevelsAssumption
<1> QED
  BY <1>2, <1>3, <1>4

\* A level is added.
LEMMA InsertedLength ==
    ASSUME NEW levels \in Seq(PriceLevel), NEW n \in 1 .. Len(levels) + 1, NEW lv \in PriceLevel
    PROVE  Len(InsertAt(levels, n, lv)) = Len(levels) + 1
BY InsertAtProperties

\* RestoreOrder trims nothing if the orders of the book and the row are among
\* rows that fit.
LEMMA NoTrim ==
    ASSUME NEW b, WellFormed(b), NEW o \in Row, o.ID \notin DOMAIN b.orderMap,
           NEW S, Fits(S), RowsIn(b.orderMap) \subseteq S, o \in S,
           NEW c, c = AddOrder(b, o)
    PROVE  c.orderMap = With(b.orderMap, o)
<1> DEFINE levels == b.levels[o.Side]
           d == (o.Side = SideBuy)
           P == PricesOn(RowsIn(b.orderMap), o.Side)
           Q == PricesOn(S, o.Side)
<1>1. o.Side \in Sides /\ d \in BOOLEAN /\ o.Price \in Nat \ {0} /\ o.ID \in Nat \ {0}
  BY DEF Row
<1>2. LevelsOK(b.levels)
  BY WellFormedView DEF WellFormed
<1>3. SideOK(levels, d) /\ levels \in Seq(PriceLevel) /\ Len(levels) <= MaxLevels /\ Len(levels) \in Nat
  BY <1>1, <1>2, LevelTypes DEF LevelsOK, SideOK
<1>4. /\ \A p : p \in P <=> HasPrice(levels, p)
      /\ IsFiniteSet(P) /\ Cardinality(P) = Len(levels)
  BY <1>1, SidePrices
<1>5. IsFiniteSet(Q) /\ Cardinality(Q) <= MaxLevels /\ P \subseteq Q /\ o.Price \in Q
  BY <1>1 DEF Fits, PricesOn
<1> HIDE DEF P, Q
<1>6. ASSUME ~HasPrice(levels, o.Price) PROVE Len(levels) < MaxLevels
  <2>1. IsFiniteSet(P \cup {o.Price}) /\ Cardinality(P \cup {o.Price}) = Len(levels) + 1
    BY <1>4, <1>6, FS_AddElement
  <2>2. Cardinality(P \cup {o.Price}) <= Cardinality(Q)
    BY <1>5, FS_Subset
  <2>3. Cardinality(Q) \in Nat /\ MaxLevels \in Nat
    BY <1>5, FS_CardinalityType, MaxLevelsAssumption
  <2> QED
    BY <2>1, <2>2, <2>3, <1>3, <1>5
<1>7. addToSide(levels, o, d).evicted = {}
  <2>1. CASE HasPrice(levels, o.Price)
    BY <2>1 DEF addToSide
  <2>2. CASE ~HasPrice(levels, o.Price)
    <3> DEFINE n == SortedPosition(levels, o.Price, d)
               lv == [Price |-> o.Price, Orders |-> <<o.ID>>]
               s == InsertAt(levels, n, lv)
    <3>1. n \in 1 .. Len(levels) + 1
      BY <2>2, <1>1, <1>3, SortedPositionSplits DEF SplitAt
    <3>2. lv \in PriceLevel
      BY <1>1 DEF PriceLevel
    <3>3. addToSide(levels, o, d) = IF Len(s) > MaxLevels
              THEN [levels |-> SubSeq(s, 1, MaxLevels), evicted |-> OrdersBeyond(s, MaxLevels)]
              ELSE [levels |-> s, evicted |-> {}]
      BY <2>2 DEF addToSide
    <3> HIDE DEF n, lv
    <3>4. Len(s) = Len(levels) + 1
      BY <3>1, <3>2, <1>3, InsertedLength
    <3>5. ~(Len(s) > MaxLevels)
      BY <3>4, <2>2, <1>3, <1>6, MaxLevelsAssumption
    <3> QED
      BY <3>3, <3>5
  <2> QED
    BY <2>1, <2>2
<1>8. c.orderMap = Without(With(b.orderMap, o), {})
  <2>1. c.orderMap = Without(With(b.orderMap, o), addToSide(levels, o, d).evicted)
    BY DEF AddOrder
  <2> QED
    BY <2>1, <1>7
<1> QED
  BY <1>8 DEF Without, With

-----------------------------------------------------------------------------
(* The invariant.                                                          *)

TypeInv ==
    /\ phase \in {"up", "down", "loading"} /\ saving \in BOOLEAN
    /\ orderIDCounter \in 0 .. MaxOrderID /\ dbCounter \in 0 .. MaxOrderID
    /\ shares \in [Ids -> Nat]
    /\ saves \in Nat

\* The book holds the orders' structs, with ids that were handed out.
BookInv ==
    /\ WellFormed(book)
    /\ \A id \in DOMAIN book.orderMap : id \in Ids /\ book.orderMap[id].Shares = shares[id]
    /\ phase = "up" => \A id \in DOMAIN book.orderMap : id <= orderIDCounter
    /\ phase = "down" => book = NewBook

\* The orders table is that of one book.
TableInv ==
    /\ dbRows \subseteq Row /\ Fits(dbRows)
    /\ \A r \in dbRows : r.ID <= dbCounter
    /\ \A q, r \in dbRows : q.ID = r.ID => q = r

LoadInv ==
    phase = "loading" => unloaded \subseteq dbRows /\ RowsIn(book.orderMap) = dbRows \ unloaded

\* What Save has collected: ids below the counter, so that no later order
\* takes one, and shares that can only have gone down since.  An order still
\* in the book that had shares has some left.
CollectedInv ==
    /\ phase = "up"
    /\ MapTyped(collected) /\ Fits(RowsIn(collected))
    /\ \A id \in DOMAIN collected :
           /\ id \in Ids /\ id <= orderIDCounter
           /\ shares[id] <= collected[id].Shares
           /\ id \in DOMAIN book.orderMap /\ collected[id].Shares > 0 => shares[id] > 0

\* The rows of the transaction are those of the orders copied, with shares
\* between those of AllOrders and those of now.
CopiedInv ==
    /\ DOMAIN collected = uncopied \cup {r.ID : r \in txRows}
    /\ \A r \in txRows :
           /\ r \in Row /\ r.ID \notin uncopied
           /\ r.Side = collected[r.ID].Side /\ r.Price = collected[r.ID].Price
           /\ shares[r.ID] <= r.Shares /\ r.Shares <= collected[r.ID].Shares
    /\ \A q, r \in txRows : q.ID = r.ID => q = r

SaveInv ==
    /\ saving => CollectedInv /\ CopiedInv
    /\ ~saving => txRows = {}

Inv == TypeInv /\ BookInv /\ TableInv /\ LoadInv /\ SaveInv

\* The counter of the transaction is read once the rows are, and is past them.
CountInv ==
    /\ counted \in BOOLEAN /\ txCounter \in 0 .. MaxOrderID
    /\ counted => saving /\ uncopied = {} /\ \A r \in txRows : r.ID <= txCounter

LEMMA NoRowsFit == Fits({})
<1>1. \A side : PricesOn({}, side) = {}
  BY DEF PricesOn
<1> QED
  BY <1>1, FS_EmptySet, MaxLevelsAssumption DEF Fits

LEMMA InvInit == Init => Inv
<1> SUFFICES ASSUME Init PROVE Inv
  OBVIOUS
<1> USE DEF Init
<1>1. TypeInv
  <2>1. saving \in BOOLEAN /\ phase \in {"up", "down", "loading"}
    OBVIOUS
  <2>2. MaxOrderID \in Nat
    BY RestartAssumption DEF RestartAssumption
  <2> QED
    BY <2>1, <2>2 DEF TypeInv
<1>2. BookInv
  BY NewBookWellFormed DEF BookInv
<1>3. TableInv
  BY NoRowsFit DEF TableInv
<1>4. LoadInv /\ SaveInv
  BY DEF LoadInv, SaveInv
<1> QED
  BY <1>1, <1>2, <1>3, <1>4 DEF Inv

-----------------------------------------------------------------------------
(* The runner.                                                             *)

\* What the runner may do to the book and the structs: enter the order that is
\* next, or take shares or whole orders away.
Moved ==
    /\ phase = "up" /\ orderIDCounter' \in 0 .. MaxOrderID /\ orderIDCounter <= orderIDCounter'
    /\ WellFormed(book') /\ shares' \in [Ids -> Nat]
    /\ \A id \in DOMAIN book'.orderMap : /\ id \in Ids /\ id <= orderIDCounter'
                                         /\ book'.orderMap[id].Shares = shares'[id]
    /\ \A id \in Ids : id <= orderIDCounter =>
           /\ shares'[id] <= shares[id]
           /\ id \in DOMAIN book'.orderMap =>
                  id \in DOMAIN book.orderMap /\ (shares[id] > 0 => shares'[id] > 0)
    /\ UNCHANGED <<process, save, db>>

LEMMA InvMoved == ASSUME Inv, Moved PROVE Inv'
<1> USE DEF Moved
<1>1. /\ UNCHANGED <<phase, run, unloaded>> /\ UNCHANGED <<uncopied, txRows, saving, collected>>
      /\ UNCHANGED <<dbRows, dbCounter, saves>>
  BY DEF process, save, db
<1>2. TypeInv'
  BY <1>1 DEF Inv, TypeInv
<1>3. BookInv'
  BY <1>1 DEF BookInv
<1>4. TableInv' /\ LoadInv'
  BY <1>1 DEF Inv, TableInv, LoadInv
<1>5. ASSUME saving PROVE CollectedInv' /\ CopiedInv'
  <2>1. CollectedInv /\ CopiedInv /\ orderIDCounter \in Nat /\ orderIDCounter' \in Nat
        /\ shares \in [Ids -> Nat] /\ shares' \in [Ids -> Nat]
    BY <1>5 DEF Inv, SaveInv, TypeInv
  <2>2. ASSUME NEW id \in DOMAIN collected
        PROVE  /\ id \in Ids /\ id <= orderIDCounter /\ id <= orderIDCounter'
               /\ shares[id] \in Nat /\ shares'[id] \in Nat /\ collected[id].Shares \in Nat
               /\ shares'[id] <= shares[id] /\ shares[id] <= collected[id].Shares
               /\ shares'[id] <= collected[id].Shares
               /\ id \in DOMAIN book'.orderMap /\ collected[id].Shares > 0 => shares'[id] > 0
    <3>1. id \in Ids /\ id <= orderIDCounter /\ id \in Nat /\ collected[id] \in Row
      BY <2>1 DEF CollectedInv, MapTyped, Ids
    <3>2. collected[id].Shares \in Nat /\ shares[id] \in Nat /\ shares'[id] \in Nat
      BY <2>1, <3>1 DEF Row
    <3>3. shares[id] <= collected[id].Shares /\ shares'[id] <= shares[id]
          /\ (id \in DOMAIN book.orderMap /\ collected[id].Shares > 0 => shares[id] > 0)
      BY <2>1, <3>1 DEF CollectedInv
    <3>4. id \in DOMAIN book'.orderMap =>
                  id \in DOMAIN book.orderMap /\ (shares[id] > 0 => shares'[id] > 0)
      BY <3>1
    <3> QED
      BY <2>1, <3>1, <3>2, <3>3, <3>4
  <2>3. CollectedInv'
    BY <2>1, <2>2, <1>1 DEF CollectedInv
  <2>4. ASSUME NEW r \in txRows PROVE shares'[r.ID] <= r.Shares
    <3>1. r.ID \in DOMAIN collected /\ shares[r.ID] <= r.Shares /\ r.Shares \in Nat
      BY <2>1 DEF CopiedInv, Row
    <3>2. shares'[r.ID] <= shares[r.ID] /\ shares[r.ID] \in Nat /\ shares'[r.ID] \in Nat
      BY <2>2, <3>1
    <3> QED
      BY <3>1, <3>2
  <2>5. CopiedInv'
    BY <2>1, <2>4, <1>1 DEF CopiedInv
  <2> QED
    BY <2>3, <2>5
<1>6. SaveInv'
  BY <1>1, <1>5 DEF Inv, SaveInv
<1> QED
  BY <1>2, <1>3, <1>4, <1>6 DEF Inv

\* What the runner finds.
LEMMA RunnerFacts ==
    ASSUME Inv, phase = "up"
    PROVE  /\ WellFormed(book) /\ MapTyped(book.orderMap)
           /\ MaxOrderID \in Nat /\ MaxLots \in Nat /\ Prices \subseteq Nat \ {0} /\ OrderSides \subseteq Sides
           /\ orderIDCounter \in Nat /\ orderIDCounter <= MaxOrderID
           /\ shares \in [Ids -> Nat]
           /\ \A id \in DOMAIN book.orderMap :
                  /\ id \in Ids /\ id \in Nat /\ id <= orderIDCounter
                  /\ book.orderMap[id] \in Row /\ book.orderMap[id].ID = id
                  /\ book.orderMap[id].Shares = shares[id]
<1>1. TypeInv /\ BookInv
  BY DEF Inv
<1>2. MaxOrderID \in Nat /\ MaxLots \in Nat /\ Prices \subseteq Nat \ {0} /\ OrderSides \subseteq Sides
  BY RestartAssumption DEF RestartAssumption
<1>3. orderIDCounter \in Nat /\ orderIDCounter <= MaxOrderID /\ shares \in [Ids -> Nat]
  BY <1>1, <1>2 DEF TypeInv
<1>4. WellFormed(book) /\ MapTyped(book.orderMap)
  BY <1>1 DEF BookInv, WellFormed
<1>5. \A id \in DOMAIN book.orderMap : id \in Ids /\ id \in Nat
  BY <1>1, <1>2 DEF BookInv, Ids
<1> QED
  BY <1>1, <1>2, <1>3, <1>4, <1>5 DEF BookInv, MapTyped

\* An order with the next id enters a book that holds orders of book.
LEMMA EnterMoves ==
    ASSUME Inv, phase = "up", CanAllocate,
           NEW b, WellFormed(b), DOMAIN b.orderMap \subseteq DOMAIN book.orderMap,
           \A x \in DOMAIN b.orderMap : b.orderMap[x] = book.orderMap[x],
           NEW o \in Row, o.ID = NextOrderID,
           book' = AddOrder(b, o), shares' = [shares EXCEPT ![NextOrderID] = o.Shares],
           orderIDCounter' = NextOrderID, UNCHANGED <<process, save, db>>
    PROVE  Moved
<1> DEFINE new == orderIDCounter + 1
<1>1. /\ orderIDCounter \in Nat /\ MaxOrderID \in Nat /\ shares \in [Ids -> Nat]
      /\ \A id \in DOMAIN book.orderMap : id \in Ids /\ id \in Nat /\ id <= orderIDCounter
                                          /\ book.orderMap[id].Shares = shares[id]
  BY RunnerFacts
<1>2. new \in Ids /\ new \in 0 .. MaxOrderID /\ orderIDCounter <= new /\ new \in Nat
      /\ o.ID = new /\ orderIDCounter' = new /\ shares' = [shares EXCEPT ![new] = o.Shares]
  BY <1>1 DEF CanAllocate, NextOrderID, Ids
<1>3. o.Shares \in Nat
  BY DEF Row
<1>4. /\ shares' \in [Ids -> Nat] /\ shares'[new] = o.Shares
      /\ \A id \in Ids : id # new => shares'[id] = shares[id]
  BY <1>1, <1>2, <1>3
<1>5. new \notin DOMAIN b.orderMap
  BY <1>1
<1> HIDE DEF new
<1>6. /\ WellFormed(book')
      /\ DOMAIN book'.orderMap \subseteq DOMAIN b.orderMap \cup {new}
      /\ \A x \in DOMAIN book'.orderMap :
             book'.orderMap[x] = IF x = new THEN o ELSE b.orderMap[x]
  BY <1>2, <1>5, AddRow
<1>7. ASSUME NEW id \in DOMAIN book'.orderMap
      PROVE  id \in Ids /\ id <= new /\ book'.orderMap[id].Shares = shares'[id]
  <2>1. CASE id = new
    BY <2>1, <1>2, <1>4, <1>6
  <2>2. CASE id # new
    <3>1. id \in DOMAIN book.orderMap /\ book'.orderMap[id] = book.orderMap[id]
      BY <2>2, <1>6
    <3>2. id \in Ids /\ id \in Nat /\ id <= orderIDCounter /\ book.orderMap[id].Shares = shares[id]
      BY <3>1, <1>1
    <3> QED
      BY <2>2, <3>1, <3>2, <1>1, <1>2, <1>4
  <2> QED
    BY <2>1, <2>2
<1>8. ASSUME NEW id \in Ids, id <= orderIDCounter
      PROVE  /\ shares'[id] <= shares[id]
             /\ id \in DOMAIN book'.orderMap =>
                    id \in DOMAIN book.orderMap /\ (shares[id] > 0 => shares'[id] > 0)
  <2>1. id # new /\ shares[id] \in Nat
    BY <1>8, <1>1 DEF new
  <2>2. shares'[id] = shares[id]
    BY <2>1, <1>4
  <2>3. id \in DOMAIN book'.orderMap => id \in DOMAIN book.orderMap
    BY <2>1, <1>6
  <2> QED
    BY <2>1, <2>2, <2>3
<1> QED
  BY <1>2, <1>4, <1>6, <1>7, <1>8 DEF Moved

LEMMA InvEnter == ASSUME Inv, Enter PROVE Inv'
<1>1. /\ phase = "up" /\ CanAllocate /\ orderIDCounter' = NextOrderID
      /\ UNCHANGED <<process, save, db>>
  BY DEF Enter
<1>2. PICK side \in OrderSides, p \in Prices, n \in 1 .. MaxLots :
           /\ book' = AddOrder(book, [ID |-> NextOrderID, Side |-> side, Price |-> p, Shares |-> n])
           /\ shares' = [shares EXCEPT ![NextOrderID] = n]
  BY DEF Enter
<1> DEFINE o == [ID |-> NextOrderID, Side |-> side, Price |-> p, Shares |-> n]
<1>3. WellFormed(book) /\ side \in Sides /\ p \in Nat \ {0} /\ n \in Nat /\ NextOrderID \in Nat \ {0}
  BY <1>1, RunnerFacts DEF NextOrderID
<1>4. o \in Row /\ o.ID = NextOrderID /\ o.Shares = n
  BY <1>3 DEF Row
<1> HIDE DEF o
<1>5. book' = AddOrder(book, o) /\ shares' = [shares EXCEPT ![NextOrderID] = o.Shares]
  BY <1>2, <1>4 DEF o
<1>6. Moved
  BY <1>1, <1>3, <1>4, <1>5, EnterMoves
<1> QED
  BY <1>6, InvMoved

LEMMA InvReplace == ASSUME Inv, Replace PROVE Inv'
<1>1. /\ phase = "up" /\ CanAllocate /\ orderIDCounter' = NextOrderID
      /\ UNCHANGED <<process, save, db>>
  BY DEF Replace
<1>2. PICK id \in DOMAIN book.orderMap, p \in Prices, n \in 1 .. MaxLots :
           /\ book' = ReplaceOrder(book, id, NextOrderID, p, n)
           /\ shares' = [shares EXCEPT ![NextOrderID] = n]
  BY DEF Replace
<1> DEFINE o == Replacement(book.orderMap[id], NextOrderID, p, n)
           b == RemoveOrder(book, id)
<1>3. /\ WellFormed(book) /\ book.orderMap[id] \in Row /\ p \in Nat \ {0} /\ n \in Nat
      /\ NextOrderID \in Nat \ {0}
  BY <1>1, RunnerFacts DEF NextOrderID
<1>4. o \in Row /\ o.ID = NextOrderID /\ o.Shares = n
  BY <1>3 DEF Row, Replacement
<1>5. book' = AddOrder(b, o)
  BY <1>2 DEF ReplaceOrder
<1>6. WellFormed(b) /\ b.orderMap = Without(book.orderMap, {id})
  BY <1>3, RemoveRow
<1> HIDE DEF o, b
<1>7. DOMAIN b.orderMap \subseteq DOMAIN book.orderMap
      /\ \A x \in DOMAIN b.orderMap : b.orderMap[x] = book.orderMap[x]
  BY <1>6 DEF Without
<1>8. shares' = [shares EXCEPT ![NextOrderID] = o.Shares]
  BY <1>2, <1>4
<1>9. Moved
  BY <1>1, <1>4, <1>5, <1>6, <1>7, <1>8, EnterMoves
<1> QED
  BY <1>9, InvMoved

LEMMA InvCancel == ASSUME Inv, Cancel PROVE Inv'
<1>1. phase = "up" /\ UNCHANGED <<shares, orderIDCounter>> /\ UNCHANGED <<process, save, db>>
  BY DEF Cancel
<1>2. PICK id \in DOMAIN book.orderMap : book' = RemoveOrder(book, id)
  BY DEF Cancel
<1>3. /\ WellFormed(book) /\ orderIDCounter \in 0 .. MaxOrderID /\ shares \in [Ids -> Nat]
      /\ \A x \in DOMAIN book.orderMap : x \in Ids /\ x <= orderIDCounter
                                         /\ book.orderMap[x].Shares = shares[x]
  BY <1>1, RunnerFacts
<1>4. WellFormed(book') /\ book'.orderMap = Without(book.orderMap, {id})
  BY <1>2, <1>3, RemoveRow
<1>5. DOMAIN book'.orderMap \subseteq DOMAIN book.orderMap
      /\ \A x \in DOMAIN book'.orderMap : book'.orderMap[x] = book.orderMap[x]
  BY <1>4 DEF Without
<1>6. orderIDCounter' \in 0 .. MaxOrderID /\ orderIDCounter <= orderIDCounter'
  BY <1>1, <1>3
<1>7. \A x \in DOMAIN book'.orderMap : x \in Ids /\ x <= orderIDCounter'
                                       /\ book'.orderMap[x].Shares = shares'[x]
  BY <1>1, <1>3, <1>5
<1>8. \A x \in Ids :
          /\ shares'[x] <= shares[x]
          /\ x \in DOMAIN book'.orderMap =>
                 x \in DOMAIN book.orderMap /\ (shares[x] > 0 => shares'[x] > 0)
  BY <1>1, <1>3, <1>5
<1>9. Moved
  BY <1>1, <1>3, <1>4, <1>6, <1>7, <1>8 DEF Moved
<1> QED
  BY <1>9, InvMoved

\* ReduceOrder and the struct it writes stay in step; an order that stays has
\* shares left.
LEMMA InvTrade == ASSUME Inv, Trade PROVE Inv'
<1>1. phase = "up" /\ UNCHANGED orderIDCounter /\ UNCHANGED <<process, save, db>>
  BY DEF Trade
<1>2. PICK side \in {s \in Sides : book.levels[s] # <<>>} :
          LET id == FirstOrder(book, side)
          IN  \E n \in TradeLots(book.orderMap[id].Shares) :
                  /\ book' = ReduceOrder(book, id, n)
                  /\ shares' = [shares EXCEPT ![id] = IF @ - n <= 0 THEN 0 ELSE @ - n]
  BY DEF Trade
<1> DEFINE id == FirstOrder(book, side)
<1>3. PICK n \in TradeLots(book.orderMap[id].Shares) :
          /\ book' = ReduceOrder(book, id, n)
          /\ shares' = [shares EXCEPT ![id] = IF @ - n <= 0 THEN 0 ELSE @ - n]
  BY <1>2
<1>4. /\ WellFormed(book) /\ orderIDCounter \in 0 .. MaxOrderID /\ orderIDCounter \in Nat
      /\ shares \in [Ids -> Nat]
      /\ \A x \in DOMAIN book.orderMap : x \in Ids /\ x <= orderIDCounter
                                         /\ book.orderMap[x] \in Row
                                         /\ book.orderMap[x].Shares = shares[x]
  BY <1>1, RunnerFacts
<1>5. id \in DOMAIN book.orderMap
  BY <1>4, FrontOrder
<1> HIDE DEF id
<1> DEFINE m == shares[id]
           k == IF m - n <= 0 THEN 0 ELSE m - n
<1>6. id \in Ids /\ m \in Nat /\ book.orderMap[id].Shares = m
  BY <1>4, <1>5
<1>7. n \in Nat \ {0}
  BY <1>3, <1>6 DEF TradeLots
<1>8. k \in Nat /\ k <= m /\ (~(m <= n) => k = m - n /\ k > 0)
  BY <1>6, <1>7
<1>9. /\ shares' \in [Ids -> Nat] /\ shares'[id] = k
      /\ \A x \in Ids : x # id => shares'[x] = shares[x]
  BY <1>3, <1>4, <1>6, <1>8
<1>10. WellFormed(book') /\ Reduced(book.orderMap, id, n, book'.orderMap)
  BY <1>3, <1>4, <1>5, <1>7, ReduceRow
<1> HIDE DEF m, k
<1>11. CASE m <= n
  <2>1. book'.orderMap = Without(book.orderMap, {id})
    BY <1>6, <1>10, <1>11 DEF Reduced
  <2>2. DOMAIN book'.orderMap = DOMAIN book.orderMap \ {id}
        /\ \A x \in DOMAIN book'.orderMap : book'.orderMap[x] = book.orderMap[x]
    BY <2>1 DEF Without
  <2>3. \A x \in DOMAIN book'.orderMap : x \in Ids /\ x <= orderIDCounter
                                         /\ book'.orderMap[x].Shares = shares'[x]
    BY <2>2, <1>4, <1>9
  <2>4. ASSUME NEW x \in Ids
        PROVE  /\ shares'[x] <= shares[x]
               /\ x \in DOMAIN book'.orderMap =>
                      x \in DOMAIN book.orderMap /\ (shares[x] > 0 => shares'[x] > 0)
    <3>1. shares[x] \in Nat
      BY <1>4
    <3>2. CASE x = id
      BY <3>2, <2>2, <1>8, <1>9 DEF m
    <3>3. CASE x # id
      BY <3>1, <3>3, <2>2, <1>9
    <3> QED
      BY <3>2, <3>3
  <2>5. Moved
    BY <2>3, <2>4, <1>1, <1>4, <1>9, <1>10 DEF Moved
  <2> QED
    BY <2>5, InvMoved
<1>12. CASE ~(m <= n)
  <2>1. /\ DOMAIN book'.orderMap = DOMAIN book.orderMap
        /\ \A x \in DOMAIN book.orderMap : x # id => book'.orderMap[x] = book.orderMap[x]
        /\ book'.orderMap[id] = [book.orderMap[id] EXCEPT !.Shares = m - n]
    BY <1>6, <1>10, <1>12 DEF Reduced
  <2>2. book.orderMap[id] \in Row
    BY <1>4, <1>5
  <2>3. book'.orderMap[id].Shares = m - n
    BY <2>1, <2>2 DEF Row
  <2>4. \A x \in DOMAIN book'.orderMap : x \in Ids /\ x <= orderIDCounter
                                         /\ book'.orderMap[x].Shares = shares'[x]
    BY <2>1, <2>3, <1>4, <1>8, <1>9, <1>12
  <2>5. ASSUME NEW x \in Ids
        PROVE  /\ shares'[x] <= shares[x]
               /\ x \in DOMAIN book'.orderMap =>
                      x \in DOMAIN book.orderMap /\ (shares[x] > 0 => shares'[x] > 0)
    <3>1. shares[x] \in Nat
      BY <1>4
    <3>2. CASE x = id
      BY <3>2, <2>1, <1>8, <1>9, <1>12 DEF m
    <3>3. CASE x # id
      BY <3>1, <3>3, <2>1, <1>9
    <3> QED
      BY <3>2, <3>3
  <2>6. Moved
    BY <2>4, <2>5, <1>1, <1>4, <1>9, <1>10 DEF Moved
  <2> QED
    BY <2>6, InvMoved
<1> QED
  BY <1>11, <1>12

-----------------------------------------------------------------------------
(* The snapshotter.                                                        *)

LEMMA InvAllOrders == ASSUME Inv, AllOrders PROVE Inv'
<1>1. /\ phase = "up" /\ ~saving /\ saving' = TRUE /\ uncopied' = DOMAIN book.orderMap
      /\ collected' = book.orderMap
      /\ UNCHANGED <<phase, run, unloaded>> /\ UNCHANGED <<book, shares, orderIDCounter, txRows>>
      /\ UNCHANGED <<dbRows, dbCounter, saves>>
  BY DEF AllOrders, process, db
<1>2. TypeInv' /\ BookInv' /\ TableInv' /\ LoadInv'
  BY <1>1 DEF Inv, TypeInv, BookInv, TableInv, LoadInv
<1>3. /\ WellFormed(book) /\ MapTyped(book.orderMap) /\ shares \in [Ids -> Nat]
      /\ \A id \in DOMAIN book.orderMap : /\ id \in Ids /\ id <= orderIDCounter
                                          /\ book.orderMap[id].Shares = shares[id]
  BY <1>1, RunnerFacts
<1>4. Fits(RowsIn(book.orderMap))
  BY <1>3, BookFits
<1>5. \A id \in DOMAIN book.orderMap : shares[id] <= book.orderMap[id].Shares
  BY <1>3
<1>6. CollectedInv'
  BY <1>1, <1>3, <1>4, <1>5 DEF CollectedInv
<1>7. txRows' = {}
  BY <1>1 DEF Inv, SaveInv
<1>8. CopiedInv'
  BY <1>1, <1>7 DEF CopiedInv
<1> QED
  BY <1>1, <1>2, <1>6, <1>8 DEF Inv, SaveInv

LEMMA InvCopyFrom == ASSUME Inv, CopyFrom PROVE Inv'
<1>1. /\ phase = "up" /\ saving
      /\ UNCHANGED <<phase, run, unloaded>> /\ UNCHANGED <<book, shares, orderIDCounter, saving, collected>>
      /\ UNCHANGED <<dbRows, dbCounter, saves>>
  BY DEF CopyFrom, process, db
<1>2. TypeInv' /\ BookInv' /\ TableInv' /\ LoadInv'
  BY <1>1 DEF Inv, TypeInv, BookInv, TableInv, LoadInv
<1>3. PICK id \in uncopied :
          /\ txRows' = txRows \cup {[collected[id] EXCEPT !.Shares = shares[id]]}
          /\ uncopied' = uncopied \ {id}
  BY DEF CopyFrom
<1>4. CollectedInv /\ CopiedInv /\ shares \in [Ids -> Nat]
  BY <1>1 DEF Inv, SaveInv, TypeInv
<1>5. CollectedInv'
  BY <1>1, <1>4 DEF CollectedInv
<1> DEFINE row == [collected[id] EXCEPT !.Shares = shares[id]]
<1>6. id \in DOMAIN collected
  BY <1>3, <1>4 DEF CopiedInv
<1>7. /\ collected[id] \in Row /\ collected[id].ID = id /\ shares[id] \in Nat
      /\ shares[id] <= collected[id].Shares
  BY <1>4, <1>6 DEF CollectedInv, MapTyped
<1>8. /\ row \in Row /\ row.ID = id /\ row.Shares = shares[id]
      /\ row.Side = collected[id].Side /\ row.Price = collected[id].Price
  BY <1>7 DEF Row
<1>9. txRows' = txRows \cup {row}
  BY <1>3
<1> HIDE DEF row
<1>10. DOMAIN collected = uncopied' \cup {r.ID : r \in txRows'}
  BY <1>3, <1>4, <1>8, <1>9 DEF CopiedInv
<1>11. ASSUME NEW r \in txRows'
       PROVE  /\ r \in Row /\ r.ID \notin uncopied'
              /\ r.Side = collected[r.ID].Side /\ r.Price = collected[r.ID].Price
              /\ shares[r.ID] <= r.Shares /\ r.Shares <= collected[r.ID].Shares
  <2>1. CASE r \in txRows
    BY <2>1, <1>3, <1>4 DEF CopiedInv
  <2>2. CASE r = row
    BY <2>2, <1>3, <1>7, <1>8
  <2> QED
    BY <2>1, <2>2, <1>9
<1>12. \A q \in txRows : q.ID # id
  BY <1>3, <1>4 DEF CopiedInv
<1>13. \A q, r \in txRows' : q.ID = r.ID => q = r
  BY <1>4, <1>8, <1>9, <1>12 DEF CopiedInv
<1>14. CopiedInv'
  BY <1>1, <1>10, <1>11, <1>13 DEF CopiedInv
<1> QED
  BY <1>1, <1>2, <1>5, <1>14 DEF Inv, SaveInv

\* The rows of a transaction that is to be committed.
LEMMA CopiedRows ==
    ASSUME Inv, saving, uncopied = {}
    PROVE  /\ {r.ID : r \in txRows} = DOMAIN collected
           /\ \A r \in txRows : /\ r \in Row /\ r.ID <= orderIDCounter /\ r.ID \in Ids
                                /\ r.ID \in DOMAIN collected /\ collected[r.ID] \in Row
                                /\ shares[r.ID] <= r.Shares /\ r.Shares <= collected[r.ID].Shares
           /\ \A q, r \in txRows : q.ID = r.ID => q = r
           /\ Fits(txRows)
<1>1. CollectedInv /\ CopiedInv
  BY DEF Inv, SaveInv
<1>2. {r.ID : r \in txRows} = DOMAIN collected
  BY <1>1 DEF CopiedInv
<1>3. ASSUME NEW r \in txRows
      PROVE  /\ r \in Row /\ r.ID <= orderIDCounter /\ r.ID \in Ids
             /\ r.ID \in DOMAIN collected /\ collected[r.ID] \in Row
             /\ shares[r.ID] <= r.Shares /\ r.Shares <= collected[r.ID].Shares
  BY <1>1, <1>2 DEF CollectedInv, CopiedInv, MapTyped
<1>4. \A r \in txRows : \E q \in RowsIn(collected) : q.Side = r.Side /\ q.Price = r.Price
  BY <1>1, <1>3 DEF CopiedInv, RowsIn
<1>5. Fits(txRows)
  BY <1>1, <1>4, FewerFit DEF CollectedInv
<1> QED
  BY <1>1, <1>2, <1>3, <1>5 DEF CopiedInv

LEMMA InvSaveCounter == ASSUME Inv, SaveCounter PROVE Inv'
<1>1. UNCHANGED <<phase, run, unloaded, book, shares, orderIDCounter, uncopied, txRows, saving,
                  collected, dbRows, dbCounter, saves>>
  BY DEF SaveCounter, process, db
<1> QED
  BY <1>1 DEF Inv, TypeInv, BookInv, TableInv, LoadInv, SaveInv, CollectedInv, CopiedInv

LEMMA InvCommit == ASSUME Inv, CountInv, Commit PROVE Inv'
<1>1. /\ saving /\ uncopied = {} /\ dbRows' = txRows /\ dbCounter' = txCounter /\ saves' = saves + 1
      /\ phase = "up" /\ saving' = FALSE /\ txRows' = {}
      /\ UNCHANGED <<phase, run, unloaded>> /\ UNCHANGED <<book, shares, orderIDCounter>>
      /\ txCounter \in 0 .. MaxOrderID /\ \A r \in txRows : r.ID <= txCounter
  BY DEF Commit, NoTransaction, process, CountInv
<1>2. saving' \in BOOLEAN
  BY <1>1
<1>3. TypeInv'
  BY <1>1, <1>2 DEF Inv, TypeInv
<1>4. BookInv' /\ LoadInv'
  BY <1>1 DEF Inv, BookInv, LoadInv
<1>5. TableInv'
  BY <1>1, CopiedRows DEF TableInv
<1>6. SaveInv'
  BY <1>1 DEF SaveInv
<1> QED
  BY <1>3, <1>4, <1>5, <1>6 DEF Inv

-----------------------------------------------------------------------------
(* The end of a run and the start of the next.                             *)

LEMMA InvCrash == ASSUME Inv, Crash PROVE Inv'
<1>1. /\ phase' = "down" /\ book' = NewBook /\ shares' = [id \in Ids |-> 0] /\ orderIDCounter' = 0
      /\ saving' = FALSE /\ txRows' = {} /\ UNCHANGED <<dbRows, dbCounter, saves>>
  BY DEF Crash, NoTransaction, db
<1>2. saving' \in BOOLEAN /\ phase' \in {"up", "down", "loading"}
  BY <1>1
<1>3. MaxOrderID \in Nat
  BY RestartAssumption DEF RestartAssumption
<1>4. TypeInv'
  BY <1>1, <1>2, <1>3 DEF Inv, TypeInv
<1>5. BookInv'
  BY <1>1, NewBookWellFormed DEF BookInv
<1>6. TableInv' /\ LoadInv' /\ SaveInv'
  BY <1>1 DEF Inv, TableInv, LoadInv, SaveInv
<1> QED
  BY <1>4, <1>5, <1>6 DEF Inv

LEMMA InvStart == ASSUME Inv, Start PROVE Inv'
<1>1. /\ phase = "down" /\ phase' = "loading" /\ unloaded' = dbRows
      /\ UNCHANGED <<book, shares, orderIDCounter>> /\ UNCHANGED <<uncopied, txRows, saving, collected>>
      /\ UNCHANGED <<dbRows, dbCounter, saves>>
  BY DEF Start, save, db
<1>2. TypeInv' /\ TableInv'
  BY <1>1 DEF Inv, TypeInv, TableInv
<1>3. book = NewBook /\ DOMAIN book.orderMap = {}
  BY <1>1, NewBookWellFormed DEF Inv, BookInv
<1>4. BookInv'
  BY <1>1 DEF Inv, BookInv
<1>5. RowsIn(book.orderMap) = {}
  BY <1>3 DEF RowsIn
<1>6. LoadInv'
  BY <1>1, <1>5 DEF LoadInv
<1>7. ~saving
  BY <1>1 DEF Inv, SaveInv, CollectedInv
<1>8. SaveInv'
  BY <1>1, <1>7 DEF Inv, SaveInv
<1> QED
  BY <1>2, <1>4, <1>6, <1>8 DEF Inv

LEMMA InvLoadOrder == ASSUME Inv, LoadOrder PROVE Inv'
<1>1. /\ phase = "loading" /\ UNCHANGED <<phase, run, orderIDCounter>>
      /\ UNCHANGED <<uncopied, txRows, saving, collected>> /\ UNCHANGED <<dbRows, dbCounter, saves>>
  BY DEF LoadOrder, save, db
<1>2. PICK r \in unloaded : /\ book' = AddOrder(book, r)
                            /\ shares' = [shares EXCEPT ![r.ID] = r.Shares]
                            /\ unloaded' = unloaded \ {r}
  BY DEF LoadOrder, RestoreOrder
<1>3. /\ WellFormed(book) /\ MapTyped(book.orderMap) /\ shares \in [Ids -> Nat]
      /\ \A id \in DOMAIN book.orderMap : id \in Ids /\ book.orderMap[id].Shares = shares[id]
      /\ dbRows \subseteq Row /\ Fits(dbRows)
      /\ unloaded \subseteq dbRows /\ RowsIn(book.orderMap) = dbRows \ unloaded
      /\ \A p, q \in dbRows : p.ID = q.ID => p = q
  BY <1>1 DEF Inv, TypeInv, BookInv, WellFormed, TableInv, LoadInv
<1>4. r \in Row /\ r \in dbRows /\ r.ID \in Nat \ {0} /\ r.Shares \in Nat
  BY <1>2, <1>3 DEF Row
<1>5. r.ID \in Ids
  <2>1. r.ID <= dbCounter /\ dbCounter \in 0 .. MaxOrderID
    BY <1>4 DEF Inv, TypeInv, TableInv
  <2>2. MaxOrderID \in Nat
    BY RestartAssumption DEF RestartAssumption
  <2> QED
    BY <2>1, <2>2, <1>4 DEF Ids
<1>6. r.ID \notin DOMAIN book.orderMap
  <2> SUFFICES ASSUME r.ID \in DOMAIN book.orderMap PROVE FALSE
    OBVIOUS
  <2>1. book.orderMap[r.ID] \in dbRows \ unloaded /\ book.orderMap[r.ID].ID = r.ID
    BY <1>3 DEF RowsIn, MapTyped
  <2> QED
    BY <2>1, <1>2, <1>3, <1>4
<1>7. WellFormed(book')
  BY <1>2, <1>3, <1>4, <1>6, AddRow
<1>8. book'.orderMap = With(book.orderMap, r)
  BY <1>2, <1>3, <1>4, <1>6, NoTrim
<1>9. /\ DOMAIN book'.orderMap = DOMAIN book.orderMap \cup {r.ID} /\ book'.orderMap[r.ID] = r
      /\ \A x \in DOMAIN book.orderMap : book'.orderMap[x] = book.orderMap[x]
  BY <1>6, <1>8 DEF With
<1>10. /\ shares' \in [Ids -> Nat] /\ shares'[r.ID] = r.Shares
       /\ \A x \in Ids : x # r.ID => shares'[x] = shares[x]
  BY <1>2, <1>3, <1>4, <1>5
<1>11. TypeInv' /\ TableInv'
  BY <1>1, <1>10 DEF Inv, TypeInv, TableInv
<1>12. \A id \in DOMAIN book'.orderMap : id \in Ids /\ book'.orderMap[id].Shares = shares'[id]
  BY <1>3, <1>5, <1>6, <1>9, <1>10
<1>13. BookInv'
  BY <1>1, <1>7, <1>12 DEF BookInv
<1>14. RowsIn(book'.orderMap) = RowsIn(book.orderMap) \cup {r}
  BY <1>9 DEF RowsIn
<1>15. LoadInv'
  BY <1>1, <1>2, <1>3, <1>4, <1>14 DEF LoadInv
<1>16. ~saving
  BY <1>1 DEF Inv, SaveInv, CollectedInv
<1>17. SaveInv'
  BY <1>1, <1>16 DEF Inv, SaveInv
<1> QED
  BY <1>11, <1>13, <1>15, <1>17 DEF Inv

LEMMA InvLoadCounters == ASSUME Inv, LoadCounters PROVE Inv'
<1>1. /\ phase = "loading" /\ unloaded = {} /\ orderIDCounter' = dbCounter /\ phase' = "up"
      /\ UNCHANGED <<book, shares>> /\ UNCHANGED <<uncopied, txRows, saving, collected>>
      /\ UNCHANGED <<dbRows, dbCounter, saves>>
  BY DEF LoadCounters, save, db
<1>2. TypeInv' /\ TableInv' /\ LoadInv'
  BY <1>1 DEF Inv, TypeInv, TableInv, LoadInv
<1>3. RowsIn(book.orderMap) = dbRows /\ MapTyped(book.orderMap)
  BY <1>1 DEF Inv, LoadInv, BookInv, WellFormed
<1>4. ASSUME NEW id \in DOMAIN book.orderMap PROVE id <= dbCounter
  <2>1. book.orderMap[id] \in dbRows /\ book.orderMap[id].ID = id
    BY <1>3 DEF RowsIn, MapTyped
  <2> QED
    BY <2>1 DEF Inv, TableInv
<1>5. BookInv'
  BY <1>1, <1>4 DEF Inv, BookInv
<1>6. ~saving
  BY <1>1 DEF Inv, SaveInv, CollectedInv
<1>7. SaveInv'
  BY <1>1, <1>6 DEF Inv, SaveInv
<1> QED
  BY <1>2, <1>5, <1>7 DEF Inv

LEMMA InvCount == ASSUME Inv, CountInv, [Next]_vars PROVE CountInv'
<1>1. CASE UNCHANGED <<counted, txCounter, saving, uncopied, txRows>>
  BY <1>1 DEF CountInv
<1>2. CASE AllOrders
  <2>1. ~counted /\ UNCHANGED <<counted, txCounter>>
    BY <1>2 DEF AllOrders, CountInv
  <2> QED
    BY <2>1 DEF CountInv
<1>3. CASE CopyFrom
  <2>1. ~counted /\ UNCHANGED <<counted, txCounter>>
    BY <1>3 DEF CopyFrom, CountInv
  <2> QED
    BY <2>1 DEF CountInv
<1>4. CASE SaveCounter
  <2>1. /\ saving /\ uncopied = {} /\ counted' = TRUE /\ txCounter' = orderIDCounter
        /\ UNCHANGED <<saving, uncopied, txRows>>
    BY <1>4 DEF SaveCounter
  <2>2. orderIDCounter \in 0 .. MaxOrderID /\ \A r \in txRows : r.ID <= orderIDCounter
    BY <2>1, CopiedRows DEF Inv, TypeInv
  <2>3. counted' \in BOOLEAN
    BY <2>1
  <2> QED
    BY <2>1, <2>2, <2>3 DEF CountInv
<1>5. CASE NoTransaction
  <2>1. counted' = FALSE /\ txCounter' = 0 /\ MaxOrderID \in Nat
    BY <1>5, RestartAssumption DEF NoTransaction, RestartAssumption
  <2>2. counted' \in BOOLEAN
    BY <2>1
  <2>3. txCounter' \in 0 .. MaxOrderID
    BY <2>1
  <2> QED
    BY <2>1, <2>2, <2>3 DEF CountInv
<1>6. CASE UNCHANGED vars
  BY <1>1, <1>6 DEF vars, save
<1> QED
  BY <1>1, <1>2, <1>3, <1>4, <1>5, <1>6 DEF Next, Enter, Cancel, Replace, Trade, Commit, Crash, Start,
     LoadOrder, LoadCounters, save

LEMMA Invariance == Spec => [](Inv /\ CountInv)
<1>1. ASSUME Inv, CountInv, [Next]_vars PROVE Inv'
  <2>1. CASE UNCHANGED vars
    <3>1. UNCHANGED <<phase, run, unloaded, book, shares, orderIDCounter, uncopied, txRows, saving,
                      collected, dbRows, dbCounter, saves>>
      BY <2>1 DEF vars, process, save, db
    <3> QED
      BY <3>1, <1>1 DEF Inv, TypeInv, BookInv, TableInv, LoadInv, SaveInv, CollectedInv, CopiedInv
  <2>2. CASE Next
    BY <2>2, <1>1, InvEnter, InvCancel, InvReplace, InvTrade, InvAllOrders, InvCopyFrom, InvSaveCounter, InvCommit,
       InvCrash, InvStart, InvLoadOrder, InvLoadCounters DEF Next
  <2> QED
    BY <2>1, <2>2, <1>1
<1>2. Init => CountInv
  <2> SUFFICES ASSUME Init PROVE CountInv
    OBVIOUS
  <2>1. counted = FALSE /\ txCounter = 0 /\ MaxOrderID \in Nat
    BY RestartAssumption DEF Init, RestartAssumption
  <2>2. counted \in BOOLEAN
    BY <2>1
  <2>3. txCounter \in 0 .. MaxOrderID
    BY <2>1
  <2> QED
    BY <2>1, <2>2, <2>3 DEF CountInv
<1>3. Inv /\ CountInv /\ [Next]_vars => (Inv /\ CountInv)'
  BY <1>1, InvCount
<1> QED
  BY <1>2, <1>3, InvInit, PTL DEF Spec

-----------------------------------------------------------------------------
(* The theorems.                                                           *)

\* Load rebuilds the book row by row, in any order the SELECT returns the
\* rows: the trim of RestoreOrder drops none of them.
THEOREM RestoredInFull == Spec => []RestoredBook
<1>1. Inv => RestoredBook
  BY WellFormedFacts DEF Inv, BookInv, LoadInv, RestoredBook, RowsIn
<1> QED
  BY <1>1, Invariance, PTL

\* A snapshot that CopyFrom reads while the runner trades is that of one
\* moment, but for shares between those of then and those of the commit.
THEOREM SnapshotsLieBetween == Spec => RowsBetween
<1> DEFINE Between ==
        /\ {r.ID : r \in dbRows'} = DOMAIN collected
        /\ \A r \in dbRows' :
               /\ r.Shares <= collected[r.ID].Shares
               /\ r.ID \in DOMAIN book.orderMap => r.Shares >= book.orderMap[r.ID].Shares
               /\ r.Shares = 0 /\ collected[r.ID].Shares > 0 =>
                      r.ID \notin DOMAIN book.orderMap
<1>1. ASSUME Inv, CountInv, Commit PROVE Between
  <2>1. saving /\ uncopied = {} /\ dbRows' = txRows /\ phase = "up"
    BY <1>1 DEF Commit, CountInv
  <2>2. /\ {r.ID : r \in txRows} = DOMAIN collected
        /\ \A r \in txRows : /\ r \in Row /\ r.ID \in Ids
                             /\ r.ID \in DOMAIN collected /\ collected[r.ID] \in Row
                             /\ shares[r.ID] <= r.Shares /\ r.Shares <= collected[r.ID].Shares
    BY <1>1, <2>1, CopiedRows
  <2>3. ASSUME NEW r \in txRows
        PROVE  /\ r.Shares <= collected[r.ID].Shares
               /\ r.ID \in DOMAIN book.orderMap => r.Shares >= book.orderMap[r.ID].Shares
               /\ r.Shares = 0 /\ collected[r.ID].Shares > 0 => r.ID \notin DOMAIN book.orderMap
    <3>1. shares[r.ID] \in Nat /\ r.Shares \in Nat /\ collected[r.ID].Shares \in Nat
      BY <1>1, <2>2 DEF Inv, TypeInv, Row
    <3>2. r.ID \in DOMAIN book.orderMap => book.orderMap[r.ID].Shares = shares[r.ID]
      BY <1>1 DEF Inv, BookInv
    <3>3. r.ID \in DOMAIN book.orderMap /\ collected[r.ID].Shares > 0 => shares[r.ID] > 0
      BY <1>1, <2>1, <2>2 DEF Inv, SaveInv, CollectedInv
    <3> QED
      BY <2>2, <3>1, <3>2, <3>3
  <2> QED
    BY <2>1, <2>2, <2>3
<1>2. ASSUME Inv, CountInv, [Next]_vars, saves' > saves PROVE Between
  <2>1. saves' # saves
    BY <1>2 DEF Inv, TypeInv
  <2>2. Commit
    BY <1>2, <2>1 DEF Next, vars, db, Enter, Cancel, Replace, Trade, AllOrders, CopyFrom, SaveCounter, Crash,
       Start, LoadOrder, LoadCounters
  <2> QED
    BY <1>1, <1>2, <2>2
<1>3. Inv /\ CountInv /\ [Next]_vars => [saves' > saves => Between]_vars
  BY <1>2
<1> QED
  BY <1>3, Invariance, PTL DEF Spec, RowsBetween
=============================================================================
