---------------------------- MODULE SimulatorProofs ----------------------------
(***************************************************************************)
(* For every value of the constants the simulator keeps its book well      *)
(* formed, its ids fresh and a lossless consumer's copy of the book right; *)
(* its arrays implement PriceTimeBook, keep price-time priority and lose   *)
(* nothing to the model's insertion that the code's sort would keep.       *)
(*                                                                         *)
(* For the refinement, a level's place in its array is the number of       *)
(* better prices (Rank), so trimming the array is dropping the worst       *)
(* price; what AddOrder and RemoveOrder do to the arrays is what Join and  *)
(* Leave do to the queues.                                                 *)
(***************************************************************************)
EXTENDS Simulator, OrderBookProofs, FiniteSetTheorems

\* The inductive invariant.  The book's well-formedness needs fresh ids, and
\* the consumer's copy stays right because every order it knows of has an id
\* that was handed out and, if it still rests, is the book's own.
Inv ==
    /\ TypeOK
    /\ BookOK(book)
    /\ IdsBelowCounter
    /\ MapOK(mirror)
    /\ \A id \in DOMAIN mirror : id <= orderIDCounter
    /\ MirrorCoversBook

\* A book is the record of its two fields.
LEMMA BookIsRecord ==
    ASSUME NEW b, BookType(b)
    PROVE  b = [levels |-> b.levels, orderMap |-> b.orderMap]
BY DEF BookType

\* What AddOrder does to orderMap.
LEMMA AddOrderMap ==
    ASSUME NEW b, NEW o
    PROVE  /\ AddOrder(b, o).orderMap = Without(With(b.orderMap, o), Evicted(b, o))
           /\ DOMAIN AddOrder(b, o).orderMap = (DOMAIN b.orderMap \cup {o.ID}) \ Evicted(b, o)
           /\ \A x \in DOMAIN AddOrder(b, o).orderMap :
                  AddOrder(b, o).orderMap[x] = IF x = o.ID THEN o ELSE b.orderMap[x]
<1>1. AddOrder(b, o).orderMap = Without(With(b.orderMap, o), Evicted(b, o))
  BY DEF AddOrder, Evicted
<1>2. /\ DOMAIN With(b.orderMap, o) = DOMAIN b.orderMap \cup {o.ID}
      /\ \A x \in DOMAIN With(b.orderMap, o) :
             With(b.orderMap, o)[x] = IF x = o.ID THEN o ELSE b.orderMap[x]
  BY DEF With
<1> QED
  BY <1>1, <1>2 DEF Without

\* Entering an order with the next id: the part that Initialize and Place share.
LEMMA EnterOrder ==
    ASSUME Inv, CanAllocate(1), NEW o \in Order, o.ID = NextOrderID,
           book' = AddOrder(book, o), orderIDCounter' = NextOrderID
    PROVE  /\ BookOK(book')
           /\ orderIDCounter' \in 0 .. MaxOrderID
           /\ \A id \in DOMAIN book'.orderMap : id <= orderIDCounter'
<1>1. orderIDCounter \in 0 .. MaxOrderID /\ orderIDCounter' = orderIDCounter + 1
  BY DEF Inv, TypeOK, NextOrderID
<1>2. o.ID \notin DOMAIN book.orderMap
  BY <1>1 DEF Inv, IdsBelowCounter, NextOrderID
<1>3. BookOK(book')
  BY <1>2, AddOrderOK, BookIsRecord DEF Inv, TypeOK
<1>4. orderIDCounter' \in 0 .. MaxOrderID
  BY <1>1, SimulatorAssumption DEF CanAllocate
<1>5. \A id \in DOMAIN book'.orderMap : id = o.ID \/ id \in DOMAIN book.orderMap
  BY AddOrderMap
<1>6. ASSUME NEW id \in DOMAIN book'.orderMap PROVE id <= orderIDCounter'
  <2>1. CASE id = o.ID
    BY <2>1, <1>1 DEF NextOrderID
  <2>2. CASE id \in DOMAIN book.orderMap
    <3>1. id \in Nat /\ id <= orderIDCounter
      BY <2>2 DEF Inv, IdsBelowCounter, TypeOK, BookType, Order
    <3> QED
      BY <3>1, <1>1
  <2> QED
    BY <1>5, <2>1, <2>2
<1> QED
  BY <1>3, <1>4, <1>6

\* The messages of addMsgs keep the consumer's copy right.
LEMMA AddMsgsMirror ==
    ASSUME Inv, NEW o \in Order, o.ID \notin DOMAIN book.orderMap,
           book' = AddOrder(book, o),
           mirror' = addMsgs(mirror, o, Evicted(book, o)),
           legacy' = legacy \cap DOMAIN book'.orderMap
    PROVE  MapOK(mirror') /\ MirrorCoversBook'
<1> DEFINE ev == Evicted(book, o)
           W == With(mirror, o)
<1>1. /\ DOMAIN book'.orderMap = (DOMAIN book.orderMap \cup {o.ID}) \ ev
      /\ \A x \in DOMAIN book'.orderMap :
             book'.orderMap[x] = IF x = o.ID THEN o ELSE book.orderMap[x]
  BY AddOrderMap
<1>2. /\ MapOK(mirror) /\ DOMAIN book.orderMap \subseteq DOMAIN mirror \cup legacy
      /\ \A id \in DOMAIN book.orderMap \cap DOMAIN mirror : mirror[id] = book.orderMap[id]
  BY DEF Inv, MirrorCoversBook
<1>3. DOMAIN W = DOMAIN mirror \cup {o.ID} /\ \A x \in DOMAIN W : W[x] = IF x = o.ID THEN o ELSE mirror[x]
  BY DEF With
<1> HIDE DEF ev, W
<1>4. CASE o.ID \in ev
  <2>1. mirror' = Without(mirror, ev \ {o.ID})
    BY <1>4 DEF addMsgs, OnOrderDelete, ev
  <2>2. /\ DOMAIN mirror' = DOMAIN mirror \ (ev \ {o.ID})
        /\ \A x \in DOMAIN mirror' : mirror'[x] = mirror[x]
        /\ mirror' = [x \in DOMAIN mirror' |-> mirror'[x]]
    BY <2>1 DEF Without
  <2>3. MapOK(mirror')
    BY <2>2, <1>2 DEF MapOK
  <2>4. MirrorCoversBook'
    BY <2>2, <1>1, <1>2, <1>4 DEF MirrorCoversBook
  <2> QED
    BY <2>3, <2>4
<1>5. CASE o.ID \notin ev
  <2>1. mirror' = Without(W, ev)
    BY <1>5 DEF addMsgs, OnOrderDelete, OnAddOrder, ev, W
  <2>2. /\ DOMAIN mirror' = DOMAIN W \ ev
        /\ \A x \in DOMAIN mirror' : mirror'[x] = W[x]
        /\ mirror' = [x \in DOMAIN mirror' |-> mirror'[x]]
    BY <2>1 DEF Without
  <2>3. MapOK(mirror')
    BY <2>2, <1>2, <1>3 DEF MapOK
  <2>4. MirrorCoversBook'
    BY <2>2, <1>1, <1>2, <1>3 DEF MirrorCoversBook
  <2> QED
    BY <2>3, <2>4
<1> QED
  BY <1>4, <1>5

-----------------------------------------------------------------------------

\* The facts about the state that every step uses.
LEMMA InvFacts ==
    ASSUME Inv
    PROVE  /\ BookOK(book) /\ BookType(book)
           /\ book = [levels |-> book.levels, orderMap |-> book.orderMap]
           /\ orderIDCounter \in Nat /\ NextOrderID = orderIDCounter + 1
           /\ NextOrderID \in Nat \ {0}
           /\ NextOrderID \notin DOMAIN book.orderMap
           /\ NextOrderID \notin DOMAIN mirror
           /\ \A id \in DOMAIN book.orderMap :
                  id \in Nat /\ id <= orderIDCounter /\ book.orderMap[id] \in Order
<1>1. BookOK(book) /\ BookType(book) /\ orderIDCounter \in Nat
  BY DEF Inv, TypeOK
<1>2. NextOrderID = orderIDCounter + 1 /\ NextOrderID \in Nat \ {0}
  BY <1>1 DEF NextOrderID
<1>3. \A id \in DOMAIN book.orderMap :
          id \in Nat /\ id <= orderIDCounter /\ book.orderMap[id] \in Order
  BY <1>1 DEF Inv, IdsBelowCounter, BookType, Order
<1>4. NextOrderID \notin DOMAIN book.orderMap
  BY <1>1, <1>2, <1>3
<1>5. NextOrderID \notin DOMAIN mirror
  BY <1>1, <1>2 DEF Inv
<1> QED
  BY <1>1, <1>2, <1>3, <1>4, <1>5, BookIsRecord

\* An order that the levels serve is in orderMap.
LEMMA RestingInMap ==
    ASSUME Inv
    PROVE  Resting \subseteq DOMAIN book.orderMap
<1> SUFFICES ASSUME NEW side \in Sides PROVE OrdersOn(book, side) \subseteq DOMAIN book.orderMap
  BY DEF Resting, Sides
<1> SUFFICES ASSUME NEW i \in DOMAIN book.levels[side]
             PROVE  ToSet(book.levels[side][i].Orders) \subseteq DOMAIN book.orderMap
  BY DEF OrdersOn
<1> QED
  BY DEF Inv, BookOK, Reachable, ToSet

\* When both sides are quoted the first order of each is in orderMap.
LEMMA FirstInMap ==
    ASSUME Inv, Quoted, NEW side \in Sides
    PROVE  FirstOrder(book, side) \in DOMAIN book.orderMap
<1>1. book.levels[side] # <<>>
  BY DEF Quoted, BestBid, BestAsk, Sides
<1>2. book.levels[side] \in Seq(PriceLevel)
  BY DEF Inv, TypeOK, BookType
<1>3. 1 \in DOMAIN book.levels[side]
  BY <1>1, <1>2
<1>4. book.levels[side][1].Orders # <<>> /\ book.levels[side][1].Orders \in Seq(Nat \ {0})
  <2>1. book.levels[side][1] \in PriceLevel
    BY <1>2, <1>3, ElementOfSeq
  <2>2. book.levels[side][1].Orders # <<>>
    BY <1>3 DEF Inv, BookOK, LevelsBounded
  <2> QED
    BY <2>1, <2>2 DEF PriceLevel
<1>5. 1 \in DOMAIN book.levels[side][1].Orders
  BY <1>4
<1> QED
  BY <1>3, <1>5 DEF Inv, BookOK, Reachable, FirstOrder

\* Initially the invariant holds.
LEMMA InitInv == Init => Inv
<1> SUFFICES ASSUME Init PROVE Inv
  OBVIOUS
<1>1. BookOK(book)
  BY NewBookOK DEF Init
<1>2. DOMAIN book.orderMap = {} /\ DOMAIN mirror = {} /\ MapOK(mirror)
  BY DEF Init, NewBook, MapOK
<1>3. TypeOK
  BY <1>1, <1>2, SimulatorAssumption, MaxLevelsAssumption DEF Init, TypeOK, BookOK, Sides
<1> QED
  BY <1>1, <1>2, <1>3 DEF Inv, IdsBelowCounter, MirrorCoversBook

\* NextSeed stays within the loops of Initialize.
LEMMA NextSeedType ==
    ASSUME Inv, Seeding
    PROVE  NextSeed \in [level : 0 .. MaxLevels, j : 0 .. OrdersPerLevel - 1, side : Sides]
<1> DEFINE T == [level : 0 .. MaxLevels, j : 0 .. OrdersPerLevel - 1, side : Sides]
<1>1. seed \in T
  BY DEF Inv, TypeOK
<1>2. OrdersPerLevel \in Nat \ {0} /\ MaxLevels \in Nat \ {0} /\ SideBuy \in Sides /\ SideSell \in Sides
  BY SimulatorAssumption, MaxLevelsAssumption DEF Sides
<1>3. [seed EXCEPT !.side = SideSell] \in T
  BY <1>1, <1>2
<1>4. ASSUME seed.j + 1 < OrdersPerLevel
      PROVE  [level |-> seed.level, j |-> seed.j + 1, side |-> SideBuy] \in T
  BY <1>1, <1>2, <1>4
<1>5. [level |-> seed.level + 1, j |-> 0, side |-> SideBuy] \in T
  BY <1>1, <1>2 DEF Seeding
<1> QED
  BY <1>3, <1>4, <1>5 DEF NextSeed

\* Seeding keeps the invariant.
LEMMA InitializeInv == Inv /\ Initialize => Inv'
<1> SUFFICES ASSUME Inv, Initialize PROVE Inv'
  OBVIOUS
<1>1. PICK shares \in 1 .. MaxLots :
          book' = AddOrder(book, [ID |-> NextOrderID, Side |-> seed.side,
                     Price |-> IF seed.side = SideBuy THEN RefPrice - (seed.level + 1)
                                                      ELSE RefPrice + (seed.level + 1),
                     Shares |-> shares])
  BY DEF Initialize
<1> DEFINE o == [ID |-> NextOrderID, Side |-> seed.side,
                 Price |-> IF seed.side = SideBuy THEN RefPrice - (seed.level + 1)
                                                  ELSE RefPrice + (seed.level + 1),
                 Shares |-> shares]
<1>2. /\ seed.level \in Nat /\ seed.side \in Sides /\ seed.level < MaxLevels
      /\ RefPrice \in Nat /\ RefPrice > MaxLevels /\ MaxLevels \in Nat
      /\ shares \in Nat \ {0}
  BY <1>1, SimulatorAssumption, MaxLevelsAssumption DEF Inv, TypeOK, Initialize, Seeding
<1>3. o \in Order
  BY <1>2, InvFacts DEF Order
<1>4. o.ID = NextOrderID /\ book' = AddOrder(book, o)
  BY <1>1
<1> HIDE DEF o
<1>5. CanAllocate(1) /\ orderIDCounter' = NextOrderID
  BY DEF Initialize
<1>6. /\ BookOK(book') /\ orderIDCounter' \in 0 .. MaxOrderID
      /\ \A id \in DOMAIN book'.orderMap : id <= orderIDCounter'
  BY <1>3, <1>4, <1>5, EnterOrder
<1>7. /\ DOMAIN book'.orderMap \subseteq DOMAIN book.orderMap \cup {o.ID}
      /\ \A x \in DOMAIN book'.orderMap : x # o.ID => book'.orderMap[x] = book.orderMap[x]
  BY <1>4, AddOrderMap
<1>8. MirrorCoversBook'
  BY <1>4, <1>7, InvFacts DEF Inv, MirrorCoversBook, Initialize
<1>9. \A id \in DOMAIN mirror' : id <= orderIDCounter'
  BY <1>5, InvFacts DEF Inv, MapOK, Order, Initialize
<1>10. TypeOK'
  <2>1. legacy' \subseteq DOMAIN book'.orderMap /\ seed' = NextSeed
    BY DEF Initialize
  <2> QED
    BY <1>6, <2>1, NextSeedType DEF Inv, TypeOK, BookOK, Initialize
<1> QED
  BY <1>6, <1>8, <1>9, <1>10 DEF Inv, IdsBelowCounter, Initialize

\* A tick starts a Step with a finite number of actions.
LEMMA TickInv == Inv /\ Tick => Inv'
<1> SUFFICES ASSUME Inv, Tick PROVE Inv'
  OBVIOUS
<1>1. IsFiniteSet(DOMAIN book.orderMap)
  <2>1. DOMAIN book.orderMap \subseteq 0 .. orderIDCounter
    BY InvFacts
  <2>2. IsFiniteSet(0 .. orderIDCounter)
    <3>1. 0 \in Int /\ orderIDCounter \in Int
      BY InvFacts
    <3> QED
      BY <3>1, FS_Interval
  <2> QED
    BY <2>1, <2>2, FS_Subset
<1>2. OrderCount(book) \in Nat
  BY <1>1, FS_CardinalityType DEF OrderCount
<1>3. OrderCount(book) % 3 \in Nat
  BY <1>2
<1>4. actionsLeft' \in Nat
  BY <1>3, SimulatorAssumption DEF Tick, NumActions
<1> QED
  BY <1>4 DEF Inv, TypeOK, Tick, IdsBelowCounter, MirrorCoversBook

\* Acted leaves the price and the loop of Initialize alone.
LEMMA ActedType ==
    ASSUME Inv, Acting, Acted
    PROVE  /\ actionsLeft' \in Nat
           /\ price' \in 1 .. MaxPrice
           /\ seed' \in [level : 0 .. MaxLevels, j : 0 .. OrdersPerLevel - 1, side : Sides]
BY DEF Inv, TypeOK, Acting, Acted

\* Placing an order keeps the invariant: doAdd and doReplenish.
LEMMA PlaceInv ==
    ASSUME Inv, Acting, Acted, NEW ticks \in Nat \ {0}, NEW lots \in SUBSET (Nat \ {0}),
           Place(ticks, lots)
    PROVE  Inv'
<1>1. PICK side \in Sides, offset \in IntRange(1, ticks), shares \in lots :
          /\ book' = AddOrder(book, [ID |-> NextOrderID, Side |-> side,
                     Price |-> PassivePrice(price, side, offset), Shares |-> shares])
          /\ mirror' = addMsgs(mirror, [ID |-> NextOrderID, Side |-> side,
                     Price |-> PassivePrice(price, side, offset), Shares |-> shares],
                     Evicted(book, [ID |-> NextOrderID, Side |-> side,
                     Price |-> PassivePrice(price, side, offset), Shares |-> shares]))
  BY DEF Place
<1> DEFINE o == [ID |-> NextOrderID, Side |-> side,
                 Price |-> PassivePrice(price, side, offset), Shares |-> shares]
<1>2. offset \in Int /\ price \in Nat
  BY SimulatorAssumption DEF IntRange, Inv, TypeOK
<1>3. PassivePrice(price, side, offset) \in Nat \ {0}
  BY <1>2 DEF PassivePrice, FloorTick
<1>4. o \in Order
  BY <1>3, InvFacts DEF Order
<1>5. o.ID = NextOrderID /\ book' = AddOrder(book, o) /\ mirror' = addMsgs(mirror, o, Evicted(book, o))
  BY <1>1
<1> HIDE DEF o
<1>6. CanAllocate(1) /\ orderIDCounter' = NextOrderID /\ legacy' = legacy \cap DOMAIN book'.orderMap
  BY DEF Place
<1>7. /\ BookOK(book') /\ orderIDCounter' \in 0 .. MaxOrderID
      /\ \A id \in DOMAIN book'.orderMap : id <= orderIDCounter'
  BY <1>4, <1>5, <1>6, EnterOrder
<1>8. MapOK(mirror') /\ MirrorCoversBook'
  BY <1>4, <1>5, <1>6, InvFacts, AddMsgsMirror
<1>9. DOMAIN mirror' \subseteq DOMAIN mirror \cup {NextOrderID}
  BY <1>5 DEF addMsgs, OnOrderDelete, OnAddOrder, With, Without
<1>10. \A id \in DOMAIN mirror' : id <= orderIDCounter'
  <2>1. \A id \in DOMAIN mirror : id \in Nat /\ id <= orderIDCounter
    BY DEF Inv, MapOK, Order
  <2> QED
    BY <2>1, <1>6, <1>9, InvFacts
<1>11. TypeOK'
  BY <1>6, <1>7, ActedType DEF Inv, TypeOK, BookOK, Place
<1> QED
  BY <1>7, <1>8, <1>10, <1>11 DEF Inv, IdsBelowCounter

\* doAdd keeps the invariant.
LEMMA DoAddInv == Inv /\ doAdd => Inv'
<1>1. IntRange(1, MaxLots) \subseteq Nat \ {0} /\ AddTicks \in Nat \ {0}
  BY SimulatorAssumption DEF IntRange
<1> QED
  BY <1>1, PlaceInv DEF doAdd

\* doReplenish keeps the invariant.
LEMMA DoReplenishInv == Inv /\ doReplenish => Inv'
<1>1. IntRange(MinReplenishLots, MaxLots) \subseteq Nat \ {0} /\ ReplenishTicks \in Nat \ {0}
  BY SimulatorAssumption DEF IntRange
<1> QED
  BY <1>1, PlaceInv DEF doReplenish

\* doCancel keeps the invariant.
LEMMA DoCancelInv == Inv /\ doCancel => Inv'
<1> SUFFICES ASSUME Inv, doCancel PROVE Inv'
  OBVIOUS
<1>1. Acting /\ Acted /\ orderIDCounter' = orderIDCounter /\ matchCounter' = matchCounter
  BY DEF doCancel
<1>2. CASE UNCHANGED <<book, mirror, legacy>>
  BY <1>1, <1>2, ActedType DEF Inv, TypeOK, IdsBelowCounter, MirrorCoversBook
<1>3. ASSUME NEW id \in Resting, book' = RemoveOrder(book, id),
             mirror' = OnOrderDelete(mirror, {id}), legacy' = legacy \ {id}
      PROVE  Inv'
  <2>1. id \in DOMAIN book.orderMap
    BY <1>3, RestingInMap
  <2>2. BookOK(book') /\ book'.orderMap = Without(book.orderMap, {id})
    BY <2>1, <1>3, InvFacts, RemoveOrderOK
  <2>3. /\ DOMAIN book'.orderMap = DOMAIN book.orderMap \ {id}
        /\ \A x \in DOMAIN book'.orderMap : book'.orderMap[x] = book.orderMap[x]
    BY <2>2 DEF Without
  <2>4. /\ DOMAIN mirror' = DOMAIN mirror \ {id}
        /\ \A x \in DOMAIN mirror' : mirror'[x] = mirror[x]
        /\ mirror' = [x \in DOMAIN mirror' |-> mirror'[x]]
    BY <1>3 DEF OnOrderDelete, Without
  <2>5. MapOK(mirror') /\ \A x \in DOMAIN mirror' : x <= orderIDCounter'
    BY <2>4, <1>1 DEF Inv, MapOK
  <2>6. MirrorCoversBook'
    BY <2>3, <2>4, <1>3 DEF Inv, MirrorCoversBook
  <2>7. TypeOK'
    BY <2>2, <2>3, <1>1, <1>3, ActedType DEF Inv, TypeOK, BookOK
  <2>8. IdsBelowCounter'
    BY <2>3, <1>1 DEF Inv, IdsBelowCounter
  <2> QED
    BY <2>2, <2>5, <2>6, <2>7, <2>8 DEF Inv
<1> QED
  BY <1>2, <1>3 DEF doCancel

\* What ReplaceOrder does to orderMap.
LEMMA ReplaceMap ==
    ASSUME NEW b, BookOK(b), b = [levels |-> b.levels, orderMap |-> b.orderMap],
           NEW old \in DOMAIN b.orderMap, NEW id, NEW p, NEW n, NEW c,
           c = ReplaceOrder(b, old, id, p, n)
    PROVE  /\ DOMAIN c.orderMap \subseteq (DOMAIN b.orderMap \ {old}) \cup {id}
           /\ \A x \in DOMAIN c.orderMap :
                  c.orderMap[x] = IF x = id THEN Replacement(b.orderMap[old], id, p, n)
                                  ELSE b.orderMap[x]
<1> DEFINE r == RemoveOrder(b, old)
           o == Replacement(b.orderMap[old], id, p, n)
<1>1. c = AddOrder(r, o)
  BY DEF ReplaceOrder
<1>2. r.orderMap = Without(b.orderMap, {old})
  BY RemoveOrderOK
<1>3. /\ DOMAIN r.orderMap = DOMAIN b.orderMap \ {old}
      /\ \A x \in DOMAIN r.orderMap : r.orderMap[x] = b.orderMap[x]
  BY <1>2 DEF Without
<1>4. o.ID = id
  BY DEF Replacement
<1> HIDE DEF r, o
<1>5. /\ DOMAIN c.orderMap = (DOMAIN r.orderMap \cup {o.ID}) \ Evicted(r, o)
      /\ \A x \in DOMAIN c.orderMap : c.orderMap[x] = IF x = o.ID THEN o ELSE r.orderMap[x]
  BY <1>1, AddOrderMap
<1> QED
  BY <1>3, <1>4, <1>5 DEF o

\* doReplace keeps the invariant, although it does not publish what the
\* insertion of the new order trimmed: the consumer may keep too much, never
\* too little.
LEMMA DoReplaceInv == Inv /\ doReplace => Inv'
<1> SUFFICES ASSUME Inv, doReplace PROVE Inv'
  OBVIOUS
<1>1. Acting /\ Acted /\ matchCounter' = matchCounter
  BY DEF doReplace
<1>2. CASE UNCHANGED <<book, orderIDCounter, mirror, legacy>>
  BY <1>1, <1>2, ActedType DEF Inv, TypeOK, IdsBelowCounter, MirrorCoversBook
<1>3. ASSUME CanAllocate(1), orderIDCounter' = NextOrderID,
             NEW old \in Resting, NEW shift \in -ReplaceTicks .. ReplaceTicks,
             NEW n \in IntRange(1, MaxLots), NEW p,
             p = FloorTick(book.orderMap[old].Price + shift),
             book' = ReplaceOrder(book, old, NextOrderID, p, n),
             mirror' = OnOrderReplace(mirror, old, NextOrderID, p, n),
             legacy' = (IF old \in DOMAIN mirror THEN legacy
                        ELSE legacy \cup {NextOrderID}) \cap DOMAIN book'.orderMap
      PROVE  Inv'
  <2> DEFINE id == NextOrderID
             o == Replacement(book.orderMap[old], id, p, n)
  <2>1. old \in DOMAIN book.orderMap /\ book.orderMap[old] \in Order
    BY <1>3, RestingInMap, InvFacts
  <2>2. n \in Nat \ {0}
    BY SimulatorAssumption DEF IntRange
  <2>3. p \in Nat \ {0}
    BY <1>3, <2>1, SimulatorAssumption DEF FloorTick, Order
  <2>4. BookOK(book')
    BY <2>1, <2>2, <2>3, <1>3, InvFacts, ReplaceOrderOK
  <2>5. /\ DOMAIN book'.orderMap \subseteq (DOMAIN book.orderMap \ {old}) \cup {id}
        /\ \A x \in DOMAIN book'.orderMap :
               book'.orderMap[x] = IF x = id THEN o ELSE book.orderMap[x]
    BY <2>1, <1>3, InvFacts, ReplaceMap
  <2>6. o \in Order /\ o.ID = id
    BY <2>1, <2>2, <2>3, InvFacts DEF Replacement, Order
  <2>7. /\ orderIDCounter' = orderIDCounter + 1 /\ id = orderIDCounter + 1
        /\ orderIDCounter' \in 0 .. MaxOrderID
    BY <1>3, InvFacts, SimulatorAssumption DEF CanAllocate
  <2>8. /\ \A x \in DOMAIN book.orderMap : x \in Nat /\ x <= orderIDCounter
        /\ \A x \in DOMAIN mirror : x \in Nat /\ x <= orderIDCounter
        /\ orderIDCounter \in Nat
        /\ id \notin DOMAIN book.orderMap /\ id \notin DOMAIN mirror
    BY InvFacts DEF Inv, MapOK, Order
  <2>9. CASE old \notin DOMAIN mirror
    <3>1. mirror' = mirror /\ legacy' = (legacy \cup {id}) \cap DOMAIN book'.orderMap
      BY <2>9, <1>3 DEF OnOrderReplace
    <3> HIDE DEF o, id
    <3>2. MirrorCoversBook'
      BY <3>1, <2>5, <2>8, <2>9 DEF Inv, MirrorCoversBook
    <3>3. MapOK(mirror') /\ \A x \in DOMAIN mirror' : x <= orderIDCounter'
      BY <3>1, <2>7, <2>8 DEF Inv
    <3>4. TypeOK'
      BY <3>1, <2>4, <2>7, <1>1, ActedType DEF Inv, TypeOK, BookOK
    <3>5. IdsBelowCounter'
      BY <2>5, <2>7, <2>8 DEF IdsBelowCounter
    <3> QED
      BY <2>4, <3>2, <3>3, <3>4, <3>5 DEF Inv
  <2>10. CASE old \in DOMAIN mirror
    <3>1. mirror[old] = book.orderMap[old]
      BY <2>1, <2>10 DEF Inv, MirrorCoversBook
    <3>2. /\ mirror' = With(Without(mirror, {old}), o)
          /\ legacy' = legacy \cap DOMAIN book'.orderMap
      BY <2>10, <1>3, <3>1 DEF OnOrderReplace
    <3> HIDE DEF o, id
    <3>3. /\ DOMAIN mirror' = (DOMAIN mirror \ {old}) \cup {id}
          /\ \A x \in DOMAIN mirror' : mirror'[x] = IF x = id THEN o ELSE mirror[x]
          /\ mirror' = [x \in DOMAIN mirror' |-> mirror'[x]]
      BY <3>2, <2>6 DEF With, Without
    <3>4. MirrorCoversBook'
      BY <3>2, <3>3, <2>5, <2>8 DEF Inv, MirrorCoversBook
    <3>5. MapOK(mirror')
      BY <3>3, <2>6 DEF Inv, MapOK
    <3>6. \A x \in DOMAIN mirror' : x <= orderIDCounter'
      BY <3>3, <2>7, <2>8
    <3>7. TypeOK'
      BY <3>2, <2>4, <2>7, <1>1, ActedType DEF Inv, TypeOK, BookOK
    <3>8. IdsBelowCounter'
      BY <2>5, <2>7, <2>8 DEF IdsBelowCounter
    <3> QED
      BY <2>4, <3>4, <3>5, <3>6, <3>7, <3>8 DEF Inv
  <2> QED
    BY <2>9, <2>10
<1> QED
  BY <1>2, <1>3 DEF doReplace

\* doTrade keeps the invariant: the consumer sees the same order shrink.
LEMMA DoTradeInv == Inv /\ doTrade => Inv'
<1> SUFFICES ASSUME Inv, doTrade PROVE Inv'
  OBVIOUS
<1>1. Acting /\ Acted /\ orderIDCounter' = orderIDCounter
  BY DEF doTrade
<1>2. CASE UNCHANGED <<book, matchCounter, mirror, legacy>>
  BY <1>1, <1>2, ActedType DEF Inv, TypeOK, IdsBelowCounter, MirrorCoversBook
<1>3. ASSUME Quoted, matchCounter < MaxMatch, NEW side \in Sides, NEW id, id = FirstOrder(book, side),
             NEW n \in IntRange(1, book.orderMap[id].Shares),
             book' = ReduceOrder(book, id, n),
             mirror' = OnOrderExecuted(mirror, id, n),
             legacy' = legacy \cap DOMAIN book'.orderMap,
             matchCounter' = matchCounter + 1
      PROVE  Inv'
  <2> DEFINE o == book.orderMap[id]
             M == book'.orderMap
  <2>1. id \in DOMAIN book.orderMap /\ o \in Order
    BY <1>3, FirstInMap, InvFacts
  <2>2. n \in Nat \ {0} /\ n <= o.Shares /\ o.Shares \in Nat
    BY <2>1 DEF IntRange, Order
  <2>3. /\ BookOK(book')
        /\ Reduced(book.orderMap, id, n, book'.orderMap)
    BY <2>1, <2>2, <1>3, InvFacts, ReduceOrderOK
  <2>4. id \in DOMAIN mirror => mirror[id] = o
    BY <2>1 DEF Inv, MirrorCoversBook
  <2>5. matchCounter' \in 0 .. MaxMatch
    BY <1>3, SimulatorAssumption DEF Inv, TypeOK
  <2>6. /\ DOMAIN book'.orderMap \subseteq DOMAIN book.orderMap
        /\ MirrorCoversBook' /\ MapOK(mirror') /\ DOMAIN mirror' \subseteq DOMAIN mirror
    <3>0. MapOK(book.orderMap) /\ MapOK(mirror)
      BY InvFacts DEF Inv, BookType, MapOK
    <3>1. CASE o.Shares <= n
      <4>1. o.Shares = n
        BY <3>1, <2>2
      <4>2. /\ DOMAIN book'.orderMap = DOMAIN book.orderMap \ {id}
            /\ \A x \in DOMAIN book'.orderMap : book'.orderMap[x] = book.orderMap[x]
        BY <3>1, <2>3 DEF Without, Reduced
      <4>3. /\ DOMAIN mirror' = DOMAIN mirror \ {id}
            /\ \A x \in DOMAIN mirror' : mirror'[x] = mirror[x]
            /\ mirror' = [x \in DOMAIN mirror' |-> mirror'[x]]
        <5>1. mirror' = IF id \in DOMAIN mirror THEN Without(mirror, {id}) ELSE mirror
          BY <4>1, <2>4, <1>3 DEF OnOrderExecuted
        <5> QED
          BY <5>1, <3>0 DEF Without, MapOK
      <4>4. MirrorCoversBook'
        BY <4>2, <4>3, <1>3 DEF Inv, MirrorCoversBook
      <4>5. MapOK(mirror')
        BY <4>3, <3>0 DEF MapOK
      <4> QED
        BY <4>2, <4>3, <4>4, <4>5
    <3>2. CASE ~(o.Shares <= n)
      <4>1. /\ book'.orderMap = M /\ DOMAIN M = DOMAIN book.orderMap
            /\ \A x \in DOMAIN M : x # id => M[x] = book.orderMap[x]
            /\ M[id] = [o EXCEPT !.Shares = o.Shares - n]
        BY <3>2, <2>3 DEF Reduced
      <4>2. M[id] \in Order /\ M[id].ID = o.ID
        BY <4>1, <2>1, <2>2, <3>2 DEF Order
      <4> DEFINE R == [mirror EXCEPT ![id].Shares = @ - n]
      <4>3. CASE id \notin DOMAIN mirror
        <5>1. mirror' = mirror
          BY <4>3, <1>3 DEF OnOrderExecuted
        <5> HIDE DEF M
        <5> QED
          BY <5>1, <4>1, <4>3, <3>0, <1>3 DEF Inv, MirrorCoversBook
      <4>4. CASE id \in DOMAIN mirror
        <5>1. mirror' = R
          BY <4>4, <2>2, <2>4, <3>2, <1>3 DEF OnOrderExecuted
        <5>2. /\ DOMAIN R = DOMAIN mirror
              /\ \A x \in DOMAIN R : x # id => R[x] = mirror[x]
              /\ R[id] = [o EXCEPT !.Shares = o.Shares - n]
              /\ R = [x \in DOMAIN R |-> R[x]]
          BY <4>4, <2>4, <3>0 DEF MapOK
        <5> HIDE DEF M, R
        <5>3. MirrorCoversBook'
          BY <5>1, <5>2, <4>1, <1>3 DEF Inv, MirrorCoversBook
        <5>4. MapOK(mirror')
          <6>1. R[id] \in Order /\ R[id].ID = id
            BY <5>2, <4>1, <4>2, <4>4, <3>0, <2>4 DEF MapOK
          <6> QED
            BY <6>1, <5>1, <5>2, <3>0 DEF MapOK
        <5> QED
          BY <5>1, <5>2, <5>3, <5>4, <4>1
      <4> QED
        BY <4>3, <4>4
    <3> QED
      BY <3>1, <3>2
  <2> HIDE DEF o, M
  <2>7. TypeOK'
    BY <2>3, <2>5, <1>1, <1>3, ActedType DEF Inv, TypeOK, BookOK
  <2>8. IdsBelowCounter' /\ \A x \in DOMAIN mirror' : x <= orderIDCounter'
    BY <2>6, <1>1 DEF Inv, IdsBelowCounter
  <2> QED
    BY <2>3, <2>6, <2>7, <2>8 DEF Inv
<1> QED
  BY <1>2, <1>3 DEF doTrade

\* The other symbols' runners and a consumer that joins keep the invariant.
LEMMA OtherInv == Inv /\ (OtherRunners \/ Subscribe) => Inv'
<1>1. ASSUME Inv, OtherRunners PROVE Inv'
  <2>1. /\ orderIDCounter \in Nat /\ orderIDCounter' \in Nat /\ orderIDCounter <= orderIDCounter'
        /\ orderIDCounter' \in 0 .. MaxOrderID /\ matchCounter' \in 0 .. MaxMatch
    BY <1>1, SimulatorAssumption DEF Inv, TypeOK, OtherRunners, CanAllocate, NextOrderID
  <2>2. /\ \A x \in DOMAIN book.orderMap : x \in Nat /\ x <= orderIDCounter
        /\ \A x \in DOMAIN mirror : x \in Nat /\ x <= orderIDCounter
    BY <1>1, InvFacts DEF Inv, MapOK, Order
  <2>3. UNCHANGED <<book, price, seed, actionsLeft, mirror, legacy>>
    BY <1>1 DEF OtherRunners
  <2>4. IdsBelowCounter' /\ \A x \in DOMAIN mirror' : x <= orderIDCounter'
    BY <2>1, <2>2, <2>3 DEF IdsBelowCounter
  <2> QED
    BY <1>1, <2>1, <2>3, <2>4 DEF Inv, TypeOK, MirrorCoversBook
<1>2. ASSUME Inv, Subscribe PROVE Inv'
  <2>1. DOMAIN mirror' = {} /\ MapOK(mirror')
    BY <1>2 DEF Subscribe, MapOK
  <2> QED
    BY <1>2, <2>1 DEF Inv, TypeOK, IdsBelowCounter, MirrorCoversBook, Subscribe
<1> QED
  BY <1>1, <1>2

\* The invariant is inductive.
THEOREM Invariance == Spec => []Inv
<1>1. Inv /\ [Next]_vars => Inv'
  <2> SUFFICES ASSUME Inv, [Next]_vars PROVE Inv'
    OBVIOUS
  <2>1. CASE UNCHANGED vars
    BY <2>1 DEF vars, Inv, TypeOK, IdsBelowCounter, MirrorCoversBook
  <2> QED
    BY <2>1, InitializeInv, TickInv, DoAddInv, DoReplenishInv, DoCancelInv,
       DoReplaceInv, DoTradeInv, OtherInv DEF Next
<1> QED
  BY <1>1, InitInv, PTL DEF Spec

\* Type correctness: counters stay within their bounds, every order in the
\* book is an order, and the consumer lacks only orders that rest.
THEOREM TypeCorrect == Spec => []TypeOK
BY Invariance, PTL DEF Inv

\* Whatever the handlers do, orderMap and the levels hold the same orders,
\* each once, on its side and at its price: nothing is orphaned by the trim
\* of addToSide and nothing removed is served again.
THEOREM BookStaysConsistent == Spec => []BookConsistent
<1>1. Inv => BookConsistent
  BY DEF Inv, BookOK, BookConsistent
<1> QED
  BY <1>1, Invariance, PTL

\* Both ladders stay strictly sorted, bounded and without empty levels.
THEOREM LadderStaysOrdered == Spec => []LadderOrdered
<1>1. Inv => LadderOrdered
  BY DEF Inv, BookOK, LadderOrdered
<1> QED
  BY <1>1, Invariance, PTL

\* NextOrderID never hands out the id of a resting order.
THEOREM IdsStayBelowCounter == Spec => []IdsBelowCounter
BY Invariance, PTL DEF Inv

\* A lossless consumer knows every order entered since it joined, as the
\* book has it.
THEOREM MirrorAlwaysCovers == Spec => []MirrorCoversBook
BY Invariance, PTL DEF Inv

\* No published execution exceeds what is left of the order it names.
THEOREM NeverOverExecuted == Spec => []NoOverExecution
<1>1. Inv => NoOverExecution
  BY DEF Inv, MapOK, Order, NoOverExecution
<1> QED
  BY <1>1, Invariance, PTL

\* An id that enters the book is new: no order comes back.
THEOREM IdsAreFresh == Spec => FreshIds
<1> DEFINE Fresh == \A id \in DOMAIN book'.orderMap \ DOMAIN book.orderMap : id > orderIDCounter
<1>1. ASSUME Inv, [Next]_vars PROVE [Fresh]_vars
  <2>1. CASE UNCHANGED book
    BY <2>1
  <2>2. ASSUME NEW o, o.ID = NextOrderID, book' = AddOrder(book, o) PROVE Fresh
    BY <2>2, <1>1, AddOrderMap, InvFacts
  <2>3. CASE Initialize \/ doAdd \/ doReplenish
    <3>1. CASE Initialize
      BY <3>1, <2>2 DEF Initialize
    <3>2. ASSUME NEW ticks, NEW lots, Place(ticks, lots) PROVE Fresh
      BY <3>2, <2>2 DEF Place
    <3> QED
      BY <2>3, <3>1, <3>2 DEF doAdd, doReplenish
  <2>4. CASE doCancel
    <3>1. ASSUME NEW id \in Resting, book' = RemoveOrder(book, id) PROVE Fresh
      <4>1. book'.orderMap = Without(book.orderMap, {id})
        BY <3>1, <1>1, RestingInMap, InvFacts, RemoveOrderOK
      <4> QED
        BY <4>1 DEF Without
    <3> QED
      BY <2>1, <2>4, <3>1 DEF doCancel
  <2>5. CASE doReplace
    <3>1. ASSUME NEW old \in Resting, NEW p, NEW n,
                 book' = ReplaceOrder(book, old, NextOrderID, p, n)
          PROVE  Fresh
      <4>1. old \in DOMAIN book.orderMap
        BY <1>1, RestingInMap
      <4>2. DOMAIN book'.orderMap \subseteq (DOMAIN book.orderMap \ {old}) \cup {NextOrderID}
        BY <3>1, <4>1, <1>1, InvFacts, ReplaceMap
      <4> QED
        BY <4>2, <1>1, InvFacts
    <3> QED
      BY <2>1, <2>5, <3>1 DEF doReplace
  <2>6. CASE doTrade
    <3>1. ASSUME NEW id, NEW n \in Nat \ {0}, id \in DOMAIN book.orderMap, book' = ReduceOrder(book, id, n)
          PROVE  Fresh
      <4>1. Reduced(book.orderMap, id, n, book'.orderMap)
        BY <3>1, <1>1, InvFacts, ReduceOrderOK
      <4>2. DOMAIN book'.orderMap \subseteq DOMAIN book.orderMap
        BY <4>1 DEF Without, Reduced
      <4> QED
        BY <4>2
    <3>2. ASSUME Quoted, NEW side \in Sides,
                 NEW n \in IntRange(1, book.orderMap[FirstOrder(book, side)].Shares),
                 book' = ReduceOrder(book, FirstOrder(book, side), n)
          PROVE  Fresh
      <4>1. FirstOrder(book, side) \in DOMAIN book.orderMap
        BY <3>2, <1>1, FirstInMap
      <4>2. book.orderMap[FirstOrder(book, side)] \in Order
        BY <4>1, <1>1, InvFacts
      <4>3. n \in Nat \ {0}
        BY <4>2 DEF IntRange, Order
      <4> QED
        BY <3>1, <3>2, <4>1, <4>3
    <3> QED
      BY <2>1, <2>6, <3>2 DEF doTrade
  <2> QED
    BY <1>1, <2>1, <2>3, <2>4, <2>5, <2>6 DEF Next, Tick, OtherRunners, Subscribe, vars
<1>2. []Inv /\ [][Next]_vars => [][Fresh]_vars
  BY <1>1, PTL
<1> QED
  BY <1>2, Invariance, PTL DEF Spec, FreshIds

-----------------------------------------------------------------------------
(* No handler but doReplace leaves the consumer with an order the book has *)
(* dropped.                                                                *)

\* While the book is being seeded no runner acts and no consumer has joined.
QuietSeeding == Seeding => actionsLeft = 0 /\ DOMAIN mirror = {}

\* Nobody acts or joins before Initialize has ended.
LEMMA SeedingIsQuiet == Spec => []QuietSeeding
<1>1. Init => QuietSeeding
  BY DEF Init, QuietSeeding
<1>2. ASSUME QuietSeeding, [Next]_vars PROVE QuietSeeding'
  <2>1. CASE Initialize
    BY <2>1, <1>2 DEF Initialize, QuietSeeding
  <2>2. CASE Acting /\ Acted
    BY <2>2, <1>2 DEF Acting, Acted, QuietSeeding, Seeding
  <2>3. CASE Tick \/ OtherRunners \/ Subscribe
    BY <2>3, <1>2 DEF Tick, OtherRunners, Subscribe, QuietSeeding, Seeding
  <2>4. CASE UNCHANGED vars
    BY <2>4, <1>2 DEF vars, QuietSeeding, Seeding
  <2> QED
    BY <1>2, <2>1, <2>2, <2>3, <2>4 DEF Next, doAdd, doReplenish, doCancel, doReplace, doTrade
<1> QED
  BY <1>1, <1>2, PTL DEF Spec

\* addMsgs publishes a delete for each order an insertion trims.
LEMMA PlaceLeaksNothing ==
    ASSUME Inv, NEW ticks, NEW lots, Place(ticks, lots)
    PROVE  Leaked' \subseteq Leaked
<1>1. PICK o : /\ o.ID = NextOrderID /\ book' = AddOrder(book, o)
               /\ mirror' = addMsgs(mirror, o, Evicted(book, o))
  BY DEF Place
<1> DEFINE ev == Evicted(book, o)
<1>2. DOMAIN book'.orderMap = (DOMAIN book.orderMap \cup {o.ID}) \ ev
  BY <1>1, AddOrderMap
<1>3. o.ID \notin DOMAIN mirror
  BY <1>1, InvFacts
<1>4. DOMAIN mirror' = IF o.ID \in ev THEN DOMAIN mirror \ (ev \ {o.ID})
                       ELSE (DOMAIN mirror \cup {o.ID}) \ ev
  BY <1>1 DEF addMsgs, OnOrderDelete, OnAddOrder, With, Without
<1> HIDE DEF ev
<1> QED
  BY <1>2, <1>3, <1>4 DEF Leaked

\* A cancel takes its order from both.
LEMMA CancelLeaksNothing ==
    ASSUME Inv, NEW id \in Resting, book' = RemoveOrder(book, id),
           mirror' = OnOrderDelete(mirror, {id})
    PROVE  Leaked' \subseteq Leaked
<1>1. DOMAIN book'.orderMap = DOMAIN book.orderMap \ {id}
  <2>1. id \in DOMAIN book.orderMap
    BY RestingInMap
  <2>2. book'.orderMap = Without(book.orderMap, {id})
    BY <2>1, InvFacts, RemoveOrderOK
  <2> QED
    BY <2>2 DEF Without
<1>2. DOMAIN mirror' = DOMAIN mirror \ {id}
  BY DEF OnOrderDelete, Without
<1> QED
  BY <1>1, <1>2 DEF Leaked

\* A full execution removes its order from both, a partial one from neither:
\* the consumer knows the shares that are left.
LEMMA TradeLeaksNothing ==
    ASSUME Inv, Quoted, NEW side \in Sides, NEW id, id = FirstOrder(book, side),
           NEW n \in IntRange(1, book.orderMap[id].Shares),
           book' = ReduceOrder(book, id, n), mirror' = OnOrderExecuted(mirror, id, n)
    PROVE  Leaked' \subseteq Leaked
<1>1. id \in DOMAIN book.orderMap /\ book.orderMap[id] \in Order
  BY FirstInMap, InvFacts
<1>2. n \in Nat \ {0} /\ n <= book.orderMap[id].Shares /\ book.orderMap[id].Shares \in Nat
  BY <1>1 DEF IntRange, Order
<1>3. Reduced(book.orderMap, id, n, book'.orderMap)
  BY <1>1, <1>2, InvFacts, ReduceOrderOK
<1>4. id \in DOMAIN mirror => mirror[id] = book.orderMap[id]
  BY <1>1 DEF Inv, MirrorCoversBook
<1>5. CASE book.orderMap[id].Shares = n
  <2>1. DOMAIN book'.orderMap = DOMAIN book.orderMap \ {id}
    BY <1>2, <1>3, <1>5 DEF Reduced, Without
  <2>2. DOMAIN mirror' = DOMAIN mirror \ {id}
    BY <1>4, <1>5 DEF OnOrderExecuted, Without
  <2> QED
    BY <2>1, <2>2 DEF Leaked
<1>6. CASE book.orderMap[id].Shares # n
  <2>1. DOMAIN book'.orderMap = DOMAIN book.orderMap
    BY <1>2, <1>3, <1>6 DEF Reduced
  <2>2. DOMAIN mirror' = DOMAIN mirror
    BY <1>4, <1>6 DEF OnOrderExecuted
  <2> QED
    BY <2>1, <2>2 DEF Leaked
<1> QED
  BY <1>5, <1>6

\* A lossless consumer leaks an order only through a replace; every other
\* handler publishes all that leaves the book.
THEOREM OnlyReplaceLeaks == Spec => LeaksOnlyByReplace
<1>1. ASSUME Inv, QuietSeeding, [Next]_vars PROVE [Leaked' \subseteq Leaked \/ doReplace]_vars
  <2>1. CASE UNCHANGED <<book, mirror>>
    BY <2>1 DEF Leaked
  <2>2. CASE Initialize
    BY <2>2, <1>1 DEF Initialize, QuietSeeding, Leaked
  <2>3. CASE Subscribe
    BY <2>3 DEF Subscribe, Leaked
  <2>4. CASE doAdd \/ doReplenish
    BY <2>4, <1>1, PlaceLeaksNothing DEF doAdd, doReplenish
  <2>5. CASE doCancel
    BY <2>1, <2>5, <1>1, CancelLeaksNothing DEF doCancel
  <2>6. CASE doTrade
    BY <2>1, <2>6, <1>1, TradeLeaksNothing DEF doTrade
  <2> QED
    BY <1>1, <2>1, <2>2, <2>3, <2>4, <2>5, <2>6 DEF Next, Tick, OtherRunners, vars
<1>2. []Inv /\ []QuietSeeding /\ [][Next]_vars => [][Leaked' \subseteq Leaked \/ doReplace]_vars
  BY <1>1, PTL
<1> QED
  BY <1>2, Invariance, SeedingIsQuiet, PTL DEF Spec, LeaksOnlyByReplace

-----------------------------------------------------------------------------
(* The book as PriceTimeBook sees it: one queue for each quoted price.     *)

\* The queue of a price is that of its level.
LEMMA QueueView ==
    ASSUME NEW levels, NEW d \in BOOLEAN, SideOK(levels, d)
    PROVE  /\ \A p : p \in DOMAIN QueueOf(levels) <=> HasPrice(levels, p)
           /\ \A i \in DOMAIN levels : /\ levels[i].Price \in DOMAIN QueueOf(levels)
                                       /\ QueueOf(levels)[levels[i].Price] = levels[i].Orders
<1>1. levels \in Seq(PriceLevel) /\ SideSorted(levels, d)
  BY DEF SideOK
<1>2. DOMAIN QueueOf(levels) = {levels[i].Price : i \in DOMAIN levels}
  BY DEF QueueOf
<1>3. \A p \in DOMAIN QueueOf(levels) : QueueOf(levels)[p] = levels[LevelOf(levels, p)].Orders
  BY DEF QueueOf
<1>4. \A p : p \in DOMAIN QueueOf(levels) <=> HasPrice(levels, p)
  BY <1>2 DEF HasPrice
<1>5. ASSUME NEW i \in DOMAIN levels PROVE LevelOf(levels, levels[i].Price) = i
  <2> DEFINE k == LevelOf(levels, levels[i].Price)
  <2>1. k \in DOMAIN levels /\ levels[k].Price = levels[i].Price
    BY DEF LevelOf
  <2> HIDE DEF k
  <2>2. k = i
    BY <2>1, <1>1, PricesDistinct
  <2> QED
    BY <2>2 DEF k
<1> QED
  BY <1>2, <1>3, <1>4, <1>5

\* Levels with given prices and queues.
LEMMA QueueIs ==
    ASSUME NEW levels, NEW d \in BOOLEAN, SideOK(levels, d),
           NEW f, f = [p \in DOMAIN f |-> f[p]],
           \A p : p \in DOMAIN f <=> HasPrice(levels, p),
           \A i \in DOMAIN levels : f[levels[i].Price] = levels[i].Orders
    PROVE  QueueOf(levels) = f
<1> DEFINE g == QueueOf(levels)
<1>1. DOMAIN g = DOMAIN f
  BY QueueView
<1>2. g = [p \in DOMAIN g |-> g[p]]
  BY DEF QueueOf
<1>3. ASSUME NEW p \in DOMAIN f PROVE g[p] = f[p]
  <2>1. PICK i \in DOMAIN levels : levels[i].Price = p
    BY <1>3 DEF HasPrice
  <2> QED
    BY <2>1, QueueView
<1> HIDE DEF g
<1> QED
  BY <1>1, <1>2, <1>3 DEF g

\* As many prices are better than that of a level as there are levels before
\* it.
LEMMA Rank ==
    ASSUME NEW levels, NEW d \in BOOLEAN, SideOK(levels, d), NEW i \in DOMAIN levels,
           NEW B, B = {p \in DOMAIN QueueOf(levels) : Better(p, levels[i].Price, d)}
    PROVE  Cardinality(B) = i - 1
<1>1. levels \in Seq(PriceLevel) /\ SideSorted(levels, d)
  BY DEF SideOK
<1>2. /\ Len(levels) \in Nat /\ DOMAIN levels = 1 .. Len(levels) /\ i \in Nat /\ i - 1 \in Nat
      /\ \A k \in DOMAIN levels : levels[k].Price \in Nat
  BY <1>1, LevelTypes
<1>3. \A p : p \in DOMAIN QueueOf(levels) <=> \E k \in DOMAIN levels : levels[k].Price = p
  BY QueueView DEF HasPrice
<1>4. \A k \in DOMAIN levels : Better(levels[k].Price, levels[i].Price, d) <=> k < i
  <2> SUFFICES ASSUME NEW k \in DOMAIN levels
               PROVE  Better(levels[k].Price, levels[i].Price, d) <=> k < i
    OBVIOUS
  <2>1. k < i => Better(levels[k].Price, levels[i].Price, d)
    BY <1>1 DEF SideSorted
  <2>2. i < k => Better(levels[i].Price, levels[k].Price, d)
    BY <1>1 DEF SideSorted
  <2> QED
    BY <2>1, <2>2, <1>2 DEF Better
<1> DEFINE f == [k \in 1 .. i - 1 |-> levels[k].Price]
<1>5. \A k \in 1 .. i - 1 : k \in DOMAIN levels /\ k < i
  BY <1>2
<1>6. f \in [1 .. i - 1 -> B]
  BY <1>3, <1>4, <1>5
<1>7. ASSUME NEW p \in B PROVE \E k \in 1 .. i - 1 : f[k] = p
  <2>1. PICK k \in DOMAIN levels : levels[k].Price = p
    BY <1>3
  <2>2. k < i
    BY <2>1, <1>4
  <2> QED
    BY <2>1, <2>2, <1>2
<1>8. \A k, l \in 1 .. i - 1 : f[k] = f[l] => k = l
  BY <1>1, <1>5, PricesDistinct
<1> HIDE DEF f
<1>9. f \in Bijection(1 .. i - 1, B)
  <2>1. DOMAIN f = 1 .. i - 1 /\ IsInjective(f)
    BY <1>6, <1>8 DEF IsInjective
  <2> QED
    BY <2>1, <1>6, <1>7 DEF Bijection, Injection, Surjection
<1>10. ExistsBijection(1 .. i - 1, B)
  BY <1>9 DEF ExistsBijection
<1> QED
  BY <1>2, <1>10, FS_CountingElements

\* The instance's Cardinality is the library's.
LEMMA SameCardinality ==
    ASSUME NEW S
    PROVE  Abstract!Cardinality(S) = Cardinality(S)
BY DEF Abstract!Cardinality, Cardinality

\* RemoveFirst takes out the first occurrence, if there is one.
LEMMA SameRemoveFirst ==
    ASSUME NEW s, NEW e
    PROVE  Abstract!RemoveFirst(s, e) = IF \E i \in 1 .. Len(s) : s[i] = e
                                        THEN RemoveAt(s, Min({i \in 1 .. Len(s) : s[i] = e}))
                                        ELSE s
BY DEF Abstract!RemoveFirst, Abstract!SelectInSeq, Abstract!RemoveAt, RemoveAt, Abstract!Min, Min

\* d is the direction in which a side is sorted.
Sorts(d, side) == \A p, q : Abstract!Beats(side, p, q) <=> Better(p, q, d)

\* Beats, on a side, is Better.
LEMMA BeatsIsBetter ==
    ASSUME NEW side \in Sides, NEW d, d = (side = SideBuy)
    PROVE  Sorts(d, side)
BY DEF Sorts, Abstract!Beats, Better, Sides, SideBuy, SideSell

\* The first m levels of a side.
LEMMA KeepLevels ==
    ASSUME NEW s, NEW d \in BOOLEAN, SideOK(s, d), NEW m \in Nat, m < Len(s),
           NEW t, t = SubSeq(s, 1, m)
    PROVE  /\ SideOK(t, d) /\ DOMAIN t = 1 .. m
           /\ \A i \in 1 .. m : i \in DOMAIN s /\ t[i] = s[i]
<1>1. s \in Seq(PriceLevel) /\ Len(s) \in Nat /\ DOMAIN s = 1 .. Len(s)
  BY LevelTypes DEF SideOK
<1>2. /\ t \in Seq(PriceLevel) /\ Len(t) = m
      /\ \A i \in 1 .. m : t[i] = s[i]
  BY <1>1, SubSeqProperties
<1>3. DOMAIN t = 1 .. m /\ \A i \in 1 .. m : i \in DOMAIN s
  BY <1>1, <1>2, LenProperties
<1>4. SideSorted(t, d)
  BY <1>2, <1>3 DEF SideOK, SideSorted
<1>5. SideFilled(t)
  BY <1>2, <1>3 DEF SideOK, SideFilled
<1>6. SideDistinct(t)
  BY <1>2, <1>3 DEF SideOK, SideDistinct
<1> QED
  BY <1>2, <1>3, <1>4, <1>5, <1>6 DEF SideOK

\* The MaxLevels best prices of a side are those of its first MaxLevels levels.
LEMMA BestLevels ==
    ASSUME NEW s, NEW side \in Sides, NEW d \in BOOLEAN, Sorts(d, side), SideOK(s, d)
    PROVE  /\ Abstract!BestPrices(side, DOMAIN QueueOf(s)) \subseteq DOMAIN QueueOf(s)
           /\ \A i \in DOMAIN s :
                  s[i].Price \in Abstract!BestPrices(side, DOMAIN QueueOf(s)) <=> i <= MaxLevels
<1> DEFINE P == DOMAIN QueueOf(s)
           best == Abstract!BestPrices(side, P)
<1>1. MaxLevels \in Nat
  BY MaxLevelsAssumption
<1>2. s \in Seq(PriceLevel) /\ Len(s) \in Nat /\ DOMAIN s = 1 .. Len(s) /\ SideSorted(s, d)
  BY LevelTypes DEF SideOK
<1>3. \A p : p \in best <=> p \in P /\ Cardinality({q \in P : Better(q, p, d)}) < MaxLevels
  <2>1. \A p : {q \in P : Abstract!Beats(side, q, p)} = {q \in P : Better(q, p, d)}
    BY DEF Sorts
  <2>2. \A p : p \in best <=>
            p \in P /\ Cardinality({q \in P : Abstract!Beats(side, q, p)}) < MaxLevels
    BY SameCardinality DEF Abstract!BestPrices
  <2> QED
    BY <2>1, <2>2
<1>4. \A i \in DOMAIN s : s[i].Price \in P
  BY QueueView
<1>5. ASSUME NEW i \in DOMAIN s PROVE s[i].Price \in best <=> i <= MaxLevels
  <2>1. PICK B : B = {q \in P : Better(q, s[i].Price, d)}
    OBVIOUS
  <2>2. Cardinality(B) = i - 1
    BY <2>1, Rank
  <2>3. i \in Nat
    BY <1>2
  <2> QED
    BY <2>1, <2>2, <2>3, <1>1, <1>3, <1>4
<1> QED
  BY <1>3, <1>5

\* What the trim of addToSide leaves of sorted levels.
Trim(s) == IF Len(s) > MaxLevels THEN SubSeq(s, 1, MaxLevels) ELSE s

\* The trim keeps the queues of the best MaxLevels prices.
LEMMA TrimQueues ==
    ASSUME NEW s, NEW side \in Sides, NEW d \in BOOLEAN, Sorts(d, side), SideOK(s, d)
    PROVE  QueueOf(Trim(s)) =
               [p \in Abstract!BestPrices(side, DOMAIN QueueOf(s)) |-> QueueOf(s)[p]]
<1>0. PICK best : best = Abstract!BestPrices(side, DOMAIN QueueOf(s))
  OBVIOUS
<1>1. PICK t : t = Trim(s)
  OBVIOUS
<1>2. PICK f : f = [p \in best |-> QueueOf(s)[p]]
  OBVIOUS
<1>3. best \subseteq DOMAIN QueueOf(s) /\ \A i \in DOMAIN s : s[i].Price \in best <=> i <= MaxLevels
  BY <1>0, BestLevels
<1>4. /\ \A p : p \in DOMAIN QueueOf(s) <=> HasPrice(s, p)
      /\ \A i \in DOMAIN s : QueueOf(s)[s[i].Price] = s[i].Orders
  BY QueueView
<1>5. /\ SideOK(t, d)
      /\ \A i \in DOMAIN t : i \in DOMAIN s /\ t[i] = s[i]
      /\ \A i \in DOMAIN s : i \in DOMAIN t <=> i <= MaxLevels
  <2>1. MaxLevels \in Nat /\ Len(s) \in Nat /\ DOMAIN s = 1 .. Len(s)
    BY MaxLevelsAssumption, LevelTypes DEF SideOK
  <2>2. CASE Len(s) > MaxLevels
    <3>1. t = SubSeq(s, 1, MaxLevels) /\ MaxLevels < Len(s)
      BY <1>1, <2>1, <2>2 DEF Trim
    <3>2. /\ SideOK(t, d) /\ DOMAIN t = 1 .. MaxLevels
          /\ \A i \in 1 .. MaxLevels : i \in DOMAIN s /\ t[i] = s[i]
      BY ONLY <2>1, <3>1, SideOK(s, d), d \in BOOLEAN, KeepLevels, ZenonT(60)
    <3> QED
      BY <2>1, <3>2
  <2>3. CASE ~(Len(s) > MaxLevels)
    <3>1. t = s
      BY <1>1, <2>3 DEF Trim
    <3> QED
      BY <2>1, <2>3, <3>1
  <2> QED
    BY <2>2, <2>3
<1>6. ASSUME NEW p PROVE p \in best <=> HasPrice(t, p)
  <2>1. ASSUME p \in best PROVE HasPrice(t, p)
    <3>1. PICK i \in DOMAIN s : s[i].Price = p
      BY <2>1, <1>3, <1>4 DEF HasPrice
    <3> QED
      BY <3>1, <2>1, <1>3, <1>5 DEF HasPrice
  <2>2. ASSUME HasPrice(t, p) PROVE p \in best
    BY <2>2, <1>3, <1>5 DEF HasPrice
  <2> QED
    BY <2>1, <2>2
<1>7. DOMAIN f = best /\ \A p \in best : f[p] = QueueOf(s)[p]
  BY <1>2
<1>8. f = [p \in DOMAIN f |-> f[p]]
  BY <1>2
<1>9. \A i \in DOMAIN t : f[t[i].Price] = t[i].Orders
  BY <1>3, <1>4, <1>5, <1>7
<1>10. \A p : p \in DOMAIN f <=> HasPrice(t, p)
  BY <1>6, <1>7
<1>11. SideOK(t, d)
  BY <1>5
<1>12. QueueOf(t) = f
  BY ONLY <1>8, <1>9, <1>10, <1>11, QueueIs, Zenon
<1> QED
  BY <1>0, <1>1, <1>2, <1>12

\* The queue that o joins at the end, or starts.
JoinedQueue(levels, o) ==
    IF HasPrice(levels, o.Price) THEN Append(QueueOf(levels)[o.Price], o.ID) ELSE <<o.ID>>

\* s has the queues of levels, but for the one that o joins.
Entered(s, levels, o) ==
    /\ \A p : HasPrice(s, p) <=> HasPrice(levels, p) \/ p = o.Price
    /\ \A i \in DOMAIN s : s[i].Price # o.Price => \E k \in DOMAIN levels : s[i] = levels[k]
    /\ \A i \in DOMAIN s : s[i].Price = o.Price => s[i].Orders = JoinedQueue(levels, o)

\* What addToSide trims: the levels with the order entered.
LEMMA EnterSide ==
    ASSUME NEW levels, NEW d \in BOOLEAN, SideOK(levels, d), Len(levels) <= MaxLevels,
           NEW o \in Order, ~At(levels, o.Price, o.ID)
    PROVE  \E s : /\ SideOK(s, d) /\ Entered(s, levels, o)
                  /\ addToSide(levels, o, d).levels = Trim(s)
<1>1. /\ levels \in Seq(PriceLevel) /\ Len(levels) \in Nat /\ DOMAIN levels = 1 .. Len(levels)
      /\ MaxLevels \in Nat /\ SideSorted(levels, d)
  BY LevelTypes, MaxLevelsAssumption DEF SideOK
<1>2. CASE HasPrice(levels, o.Price)
  <2>1. PICK n : n = LevelOf(levels, o.Price)
    OBVIOUS
  <2>2. PICK q : q = Append(levels[n].Orders, o.ID)
    OBVIOUS
  <2>3. PICK s : s = SetOrders(levels, n, q)
    OBVIOUS
  <2>4. n \in DOMAIN levels /\ levels[n].Price = o.Price
    BY <1>2, <2>1 DEF HasPrice, LevelOf
  <2>5. SideOK(s, d) /\ Len(s) = Len(levels) /\ \A p : HasPrice(s, p) <=> HasPrice(levels, p)
    BY <1>2, <2>1, <2>2, <2>3, AppendToLevel
  <2>6. q \in Seq(Nat \ {0})
    BY <1>1, <2>2, <2>4, LevelTypes, AppendProperties DEF Order
  <2>7. /\ DOMAIN s = DOMAIN levels /\ s[n].Orders = q
        /\ \A i \in DOMAIN levels : s[i].Price = levels[i].Price
        /\ \A i \in DOMAIN levels \ {n} : s[i] = levels[i]
    BY ONLY <1>1, <2>3, <2>4, <2>6, SetOrdersProperties, ZenonT(60)
  <2>8. QueueOf(levels)[o.Price] = levels[n].Orders
    BY <2>4, QueueView
  <2>9. JoinedQueue(levels, o) = q
    BY <1>2, <2>2, <2>8 DEF JoinedQueue
  <2>10. \A i \in DOMAIN levels : levels[i].Price = o.Price => i = n
    BY <1>1, <2>4, PricesDistinct
  <2>11. Entered(s, levels, o)
    <3>1. \A p : HasPrice(s, p) <=> HasPrice(levels, p) \/ p = o.Price
      BY <1>2, <2>5
    <3>2. \A i \in DOMAIN s : s[i].Price # o.Price => s[i] = levels[i] /\ i \in DOMAIN levels
      BY <2>4, <2>7
    <3>3. \A i \in DOMAIN s : s[i].Price = o.Price => s[i].Orders = JoinedQueue(levels, o)
      BY <2>7, <2>9, <2>10
    <3> QED
      BY <3>1, <3>2, <3>3 DEF Entered
  <2>12. addToSide(levels, o, d).levels = s
    BY <1>2, <2>1, <2>2, <2>3 DEF addToSide
  <2>13. Trim(s) = s
    BY <1>1, <2>5 DEF Trim
  <2> QED
    BY <2>5, <2>11, <2>12, <2>13
<1>3. CASE ~HasPrice(levels, o.Price)
  <2>1. PICK lv : lv = [Price |-> o.Price, Orders |-> <<o.ID>>]
    OBVIOUS
  <2>2. PICK n : n = SortedPosition(levels, o.Price, d)
    OBVIOUS
  <2>3. PICK s : s = InsertAt(levels, n, lv)
    OBVIOUS
  <2>4. lv \in PriceLevel /\ lv.Price = o.Price /\ lv.Orders = <<o.ID>> /\ o.Price \in Nat \ {0}
    BY <2>1 DEF PriceLevel, Order
  <2>5. SplitAt(levels, n, lv.Price, d)
    BY <1>3, <2>2, <2>4, SortedPositionSplits
  <2>6. n \in 1 .. Len(levels) + 1
    BY <2>5 DEF SplitAt
  <2>7. /\ s \in Seq(PriceLevel) /\ Len(s) = Len(levels) + 1
        /\ \A k \in 1 .. Len(levels) + 1 :
               s[k] = IF k < n THEN levels[k] ELSE IF k = n THEN lv ELSE levels[k - 1]
    <3>1. Inserted(s, levels, n, lv)
      BY <1>1, <2>3, <2>4, <2>6, InsertedAt
    <3> QED
      BY <3>1 DEF Inserted
  <2>8. SideOK(s, d)
    <3>1. Inserted(s, levels, n, lv)
      BY <2>7 DEF Inserted
    <3> QED
      BY <3>1, <2>4, <2>5, InsertLevel
  <2>9. DOMAIN s = 1 .. Len(levels) + 1
    BY <2>7, LenProperties
  <2>10. \A i \in DOMAIN s : i # n => \E k \in DOMAIN levels : s[i] = levels[k]
    <3> SUFFICES ASSUME NEW i \in DOMAIN s, i # n
                 PROVE  \E k \in DOMAIN levels : s[i] = levels[k]
      OBVIOUS
    <3>1. CASE i < n
      BY <1>1, <2>6, <2>7, <2>9, <3>1
    <3>2. CASE i > n
      <4>1. i - 1 \in DOMAIN levels /\ s[i] = levels[i - 1]
        BY <1>1, <2>6, <2>7, <2>9, <3>2
      <4> QED
        BY <4>1
    <3> QED
      BY <2>6, <2>9, <3>1, <3>2
  <2>11. n \in DOMAIN s /\ s[n] = lv
    BY <1>1, <2>6, <2>7, <2>9
  <2>12. \A k \in DOMAIN levels : \E i \in DOMAIN s : s[i] = levels[k]
    <3> SUFFICES ASSUME NEW k \in DOMAIN levels
                 PROVE  \E i \in DOMAIN s : s[i] = levels[k]
      OBVIOUS
    <3>1. CASE k < n
      BY <1>1, <2>6, <2>7, <2>9, <3>1
    <3>2. CASE k >= n
      <4>1. k + 1 \in DOMAIN s /\ s[k + 1] = levels[k]
        BY <1>1, <2>6, <2>7, <2>9, <3>2
      <4> QED
        BY <4>1
    <3> QED
      BY <1>1, <2>6, <3>1, <3>2
  <2>13. \A k \in DOMAIN levels : levels[k].Price # o.Price
    BY <1>3 DEF HasPrice
  <2>14. Entered(s, levels, o)
    <3>1. \A p : HasPrice(s, p) <=> HasPrice(levels, p) \/ p = o.Price
      BY <2>4, <2>10, <2>11, <2>12 DEF HasPrice
    <3>2. \A i \in DOMAIN s : s[i].Price # o.Price => \E k \in DOMAIN levels : s[i] = levels[k]
      BY <2>4, <2>10, <2>11
    <3>3. \A i \in DOMAIN s : s[i].Price = o.Price => s[i].Orders = JoinedQueue(levels, o)
      BY <1>3, <2>4, <2>10, <2>11, <2>13 DEF JoinedQueue
    <3> QED
      BY <3>1, <3>2, <3>3 DEF Entered
  <2>15. addToSide(levels, o, d).levels = Trim(s)
    BY <1>3, <2>1, <2>2, <2>3 DEF addToSide, Trim
  <2> QED
    BY <2>8, <2>14, <2>15
<1> QED
  BY <1>2, <1>3

\* addToSide is Join.
LEMMA JoinSide ==
    ASSUME NEW levels, NEW side \in Sides, NEW d \in BOOLEAN, Sorts(d, side),
           SideOK(levels, d), Len(levels) <= MaxLevels,
           NEW o \in Order, ~At(levels, o.Price, o.ID)
    PROVE  QueueOf(addToSide(levels, o, d).levels) =
               Abstract!Join(side, QueueOf(levels), o.Price, o.ID)
<1>1. PICK s : /\ SideOK(s, d) /\ Entered(s, levels, o)
               /\ addToSide(levels, o, d).levels = Trim(s)
  BY EnterSide
<1>2. PICK Q : Q = QueueOf(levels)
  OBVIOUS
<1>3. PICK R : R = QueueOf(s)
  OBVIOUS
<1>4. /\ \A p : p \in DOMAIN Q <=> HasPrice(levels, p)
      /\ \A i \in DOMAIN levels : Q[levels[i].Price] = levels[i].Orders
  BY <1>2, QueueView
<1>5. /\ \A p : p \in DOMAIN R <=> HasPrice(s, p)
      /\ \A i \in DOMAIN s : R[s[i].Price] = s[i].Orders
  BY <1>1, <1>3, QueueView
<1>6. DOMAIN R = DOMAIN Q \cup {o.Price}
  BY <1>1, <1>4, <1>5 DEF Entered
<1>7. \A p \in DOMAIN R :
          R[p] = IF p # o.Price THEN Q[p]
                 ELSE IF o.Price \in DOMAIN Q THEN Append(Q[o.Price], o.ID) ELSE <<o.ID>>
  <2> SUFFICES ASSUME NEW p \in DOMAIN R
               PROVE  R[p] = IF p # o.Price THEN Q[p]
                             ELSE IF o.Price \in DOMAIN Q THEN Append(Q[o.Price], o.ID) ELSE <<o.ID>>
    OBVIOUS
  <2>1. PICK i \in DOMAIN s : s[i].Price = p
    BY <1>5 DEF HasPrice
  <2>2. R[p] = s[i].Orders
    BY <1>5, <2>1
  <2>3. CASE p # o.Price
    <3>1. PICK k \in DOMAIN levels : s[i] = levels[k]
      BY <1>1, <2>1, <2>3 DEF Entered
    <3> QED
      BY <1>4, <2>1, <2>2, <2>3, <3>1
  <2>4. CASE p = o.Price
    <3>1. s[i].Orders = JoinedQueue(levels, o)
      BY <1>1, <2>1, <2>4 DEF Entered
    <3> QED
      BY <1>2, <1>4, <2>2, <2>4, <3>1 DEF JoinedQueue
  <2> QED
    BY <2>3, <2>4
<1>8. PICK best : best = Abstract!BestPrices(side, DOMAIN R)
  OBVIOUS
<1>9. best \subseteq DOMAIN R
  BY <1>1, <1>3, <1>8, BestLevels
<1>10. QueueOf(Trim(s)) = [p \in best |-> R[p]]
  BY <1>1, <1>3, <1>8, TrimQueues
<1>11. Abstract!Join(side, Q, o.Price, o.ID) =
           [p \in best |-> IF p # o.Price THEN Q[p]
                           ELSE IF o.Price \in DOMAIN Q THEN Append(Q[o.Price], o.ID) ELSE <<o.ID>>]
  BY <1>6, <1>8 DEF Abstract!Join
<1>12. [p \in best |-> R[p]] =
           [p \in best |-> IF p # o.Price THEN Q[p]
                           ELSE IF o.Price \in DOMAIN Q THEN Append(Q[o.Price], o.ID) ELSE <<o.ID>>]
  BY <1>7, <1>9
<1> QED
  BY <1>1, <1>2, <1>10, <1>11, <1>12

\* RemoveFirst, on a queue of distinct orders, takes out the order wherever it
\* is, and is the identity on the other queues.
LEMMA RemoveFirstIs ==
    ASSUME NEW q \in Seq(Nat \ {0}), Distinct(q), NEW id
    PROVE  /\ ~InQueue(q, id) => Abstract!RemoveFirst(q, id) = q
           /\ \A j \in DOMAIN q : q[j] = id => Abstract!RemoveFirst(q, id) = RemoveAt(q, j)
<1>1. Len(q) \in Nat /\ DOMAIN q = 1 .. Len(q)
  BY LenProperties
<1>2. ASSUME ~InQueue(q, id) PROVE Abstract!RemoveFirst(q, id) = q
  <2>1. ~ \E i \in 1 .. Len(q) : q[i] = id
    BY <1>1, <1>2 DEF InQueue
  <2> QED
    BY <2>1, SameRemoveFirst
<1>3. ASSUME NEW j \in DOMAIN q, q[j] = id PROVE Abstract!RemoveFirst(q, id) = RemoveAt(q, j)
  <2>1. PICK S : S = {i \in 1 .. Len(q) : q[i] = id}
    OBVIOUS
  <2>2. S = {j}
    BY <1>1, <1>3, <2>1 DEF Distinct
  <2>3. Min(S) = j
    <3>1. S \in SUBSET Nat /\ S # {}
      BY <1>1, <2>2
    <3>2. Min(S) \in S
      BY ONLY <3>1, MinOfNats
    <3> QED
      BY <2>2, <3>2
  <2>4. \E i \in 1 .. Len(q) : q[i] = id
    BY <1>1, <1>3
  <2> QED
    BY <2>1, <2>3, <2>4, SameRemoveFirst
<1> QED
  BY <1>2, <1>3

\* The queues of r are those of levels, rest being what is left of the nth.
Shortened(r, levels, n, rest) ==
    /\ \A i \in DOMAIN levels : i # n \/ rest # <<>> => HasPrice(r, levels[i].Price)
    /\ \A k \in DOMAIN r : \E i \in DOMAIN levels :
           /\ r[k].Price = levels[i].Price
           /\ i = n => rest # <<>>
           /\ r[k].Orders = IF i = n THEN rest ELSE levels[i].Orders

\* Without the nth level the others keep their queues.
LEMMA DropQueue ==
    ASSUME NEW levels \in Seq(PriceLevel), NEW n \in DOMAIN levels,
           NEW r \in Seq(PriceLevel), Len(r) = Len(levels) - 1,
           \A k \in 1 .. Len(levels) - 1 : r[k] = IF k < n THEN levels[k] ELSE levels[k + 1]
    PROVE  Shortened(r, levels, n, <<>>)
<1>1. Len(levels) \in Nat /\ DOMAIN levels = 1 .. Len(levels) /\ DOMAIN r = 1 .. Len(levels) - 1
  BY LevelTypes, LenProperties
<1>2. ASSUME NEW k \in DOMAIN r PROVE \E i \in DOMAIN levels : i # n /\ r[k] = levels[i]
  <2>1. CASE k < n
    BY <1>1, <2>1
  <2>2. CASE ~(k < n)
    <3>1. k + 1 \in DOMAIN levels /\ k + 1 # n /\ r[k] = levels[k + 1]
      BY <1>1, <2>2
    <3> QED
      BY <3>1
  <2> QED
    BY <2>1, <2>2
<1>3. ASSUME NEW i \in DOMAIN levels, i # n PROVE \E k \in DOMAIN r : r[k] = levels[i]
  <2>1. CASE i < n
    BY <1>1, <2>1
  <2>2. CASE i > n
    <3>1. i - 1 \in DOMAIN r /\ r[i - 1] = levels[i]
      BY <1>1, <2>2
    <3> QED
      BY <3>1
  <2> QED
    BY <1>1, <1>3, <2>1, <2>2
<1> QED
  BY <1>2, <1>3 DEF Shortened, HasPrice

\* Taking an order out of its queue leaves the other queues alone.
LEMMA ShortenSide ==
    ASSUME NEW levels \in Seq(PriceLevel), NEW n \in DOMAIN levels,
           NEW rest \in Seq(Nat \ {0}),
           NEW r, r = IF rest = <<>> THEN RemoveAt(levels, n) ELSE SetOrders(levels, n, rest)
    PROVE  Shortened(r, levels, n, rest)
<1>1. Len(levels) \in Nat /\ DOMAIN levels = 1 .. Len(levels)
  BY LevelTypes
<1>2. CASE rest = <<>>
  <2>1. r = RemoveAt(levels, n) /\ n \in 1 .. Len(levels)
    BY <1>1, <1>2
  <2>2. /\ r \in Seq(PriceLevel) /\ Len(r) = Len(levels) - 1
        /\ \A k \in 1 .. Len(levels) - 1 : r[k] = IF k < n THEN levels[k] ELSE levels[k + 1]
    BY <2>1, RemoveAtProperties
  <2>3. Shortened(r, levels, n, <<>>)
    BY ONLY <2>2, levels \in Seq(PriceLevel), n \in DOMAIN levels, DropQueue
  <2> QED
    BY <1>2, <2>3
<1>3. CASE rest # <<>>
  <2>1. /\ DOMAIN r = DOMAIN levels /\ r[n].Orders = rest
        /\ \A i \in DOMAIN levels : r[i].Price = levels[i].Price
        /\ \A i \in DOMAIN levels \ {n} : r[i] = levels[i]
    BY <1>3, SetOrdersProperties
  <2>2. \A i \in DOMAIN levels : HasPrice(r, levels[i].Price)
    BY <2>1 DEF HasPrice
  <2>3. \A k \in DOMAIN r : /\ k \in DOMAIN levels /\ r[k].Price = levels[k].Price
                            /\ r[k].Orders = IF k = n THEN rest ELSE levels[k].Orders
    BY <2>1
  <2> QED
    BY <1>3, <2>2, <2>3 DEF Shortened
<1> QED
  BY <1>2, <1>3

\* removeFromSide is Leave.
LEMMA LeaveSide ==
    ASSUME NEW levels, NEW d \in BOOLEAN, SideOK(levels, d),
           NEW id, NEW p0, At(levels, p0, id), \A p : At(levels, p, id) => p = p0
    PROVE  QueueOf(removeFromSide(levels, id)) = Abstract!Leave(QueueOf(levels), id)
<1>1. PICK r : r = removeFromSide(levels, id)
  OBVIOUS
<1>2. SideOK(r, d)
  BY <1>1, RemoveFromSide
<1>3. levels \in Seq(PriceLevel) /\ SideSorted(levels, d) /\ SideFilled(levels) /\ SideDistinct(levels)
  BY DEF SideOK
<1>4. \E i \in DOMAIN levels : \E j \in DOMAIN levels[i].Orders : Holds(levels, i, j, id)
  BY DEF At, Holds
<1>5. PICK n : n = CHOOSE i \in DOMAIN levels :
                       \E j \in DOMAIN levels[i].Orders : Holds(levels, i, j, id)
  OBVIOUS
<1>6. n \in DOMAIN levels /\ \E j \in DOMAIN levels[n].Orders : Holds(levels, n, j, id)
  BY <1>4, <1>5
<1>7. PICK m : m = CHOOSE j \in DOMAIN levels[n].Orders : Holds(levels, n, j, id)
  OBVIOUS
<1>8. m \in DOMAIN levels[n].Orders /\ levels[n].Orders[m] = id
  BY <1>6, <1>7 DEF Holds
<1>9. PICK rest : rest = RemoveAt(levels[n].Orders, m)
  OBVIOUS
<1>10. r = IF rest = <<>> THEN RemoveAt(levels, n) ELSE SetOrders(levels, n, rest)
  BY <1>1, <1>4, <1>5, <1>7, <1>9 DEF removeFromSide
<1>11. \A i \in DOMAIN levels : levels[i].Orders \in Seq(Nat \ {0}) /\ Distinct(levels[i].Orders)
  BY <1>3, LevelTypes DEF SideDistinct, Distinct
<1>12. rest \in Seq(Nat \ {0})
  BY <1>6, <1>8, <1>9, <1>11, RemoveFromQueue
<1>13. Shortened(r, levels, n, rest)
  BY <1>3, <1>6, <1>10, <1>12, ShortenSide
<1>14. \A i \in DOMAIN levels : InQueue(levels[i].Orders, id) => i = n
  <2> SUFFICES ASSUME NEW i \in DOMAIN levels, InQueue(levels[i].Orders, id) PROVE i = n
    OBVIOUS
  <2>1. At(levels, levels[i].Price, id) /\ At(levels, levels[n].Price, id)
    BY <1>6, <1>8 DEF At, InQueue
  <2>2. levels[i].Price = levels[n].Price
    BY <2>1
  <2> QED
    BY <1>3, <1>6, <2>2, PricesDistinct
<1>15. \A i \in DOMAIN levels :
           Abstract!RemoveFirst(levels[i].Orders, id) = IF i = n THEN rest ELSE levels[i].Orders
  <2> SUFFICES ASSUME NEW i \in DOMAIN levels
               PROVE  Abstract!RemoveFirst(levels[i].Orders, id) = IF i = n THEN rest ELSE levels[i].Orders
    OBVIOUS
  <2>1. CASE i = n
    BY <1>8, <1>9, <1>11, <2>1, RemoveFirstIs
  <2>2. CASE i # n
    BY <1>11, <1>14, <2>2, RemoveFirstIs
  <2> QED
    BY <2>1, <2>2
<1>16. PICK Q : Q = QueueOf(levels)
  OBVIOUS
<1>17. /\ \A p : p \in DOMAIN Q <=> HasPrice(levels, p)
       /\ \A i \in DOMAIN levels : Q[levels[i].Price] = levels[i].Orders
  BY <1>16, QueueView
<1>18. PICK f : f = Abstract!Leave(Q, id)
  OBVIOUS
<1>19. /\ DOMAIN f = {p \in DOMAIN Q : Abstract!RemoveFirst(Q[p], id) # <<>>}
       /\ \A p \in DOMAIN f : f[p] = Abstract!RemoveFirst(Q[p], id)
       /\ f = [p \in DOMAIN f |-> f[p]]
  BY <1>18 DEF Abstract!Leave
<1>20. \A p : p \in DOMAIN f <=> HasPrice(r, p)
  <2> SUFFICES ASSUME NEW p PROVE p \in DOMAIN f <=> HasPrice(r, p)
    OBVIOUS
  <2>1. ASSUME p \in DOMAIN f PROVE HasPrice(r, p)
    <3>1. PICK i \in DOMAIN levels : levels[i].Price = p
      BY <1>17, <1>19, <2>1 DEF HasPrice
    <3>2. i # n \/ rest # <<>>
      BY <1>15, <1>17, <1>19, <2>1, <3>1
    <3> QED
      BY <1>13, <3>1, <3>2 DEF Shortened
  <2>2. ASSUME HasPrice(r, p) PROVE p \in DOMAIN f
    <3>1. PICK k \in DOMAIN r : r[k].Price = p
      BY <2>2 DEF HasPrice
    <3>2. PICK i \in DOMAIN levels : r[k].Price = levels[i].Price /\ (i = n => rest # <<>>)
      BY <1>13 DEF Shortened
    <3>3. levels[i].Orders # <<>>
      BY <1>3 DEF SideFilled
    <3>4. p \in DOMAIN Q /\ Abstract!RemoveFirst(Q[p], id) # <<>>
      BY <1>15, <1>17, <3>1, <3>2, <3>3 DEF HasPrice
    <3> QED
      BY <1>19, <3>4
  <2> QED
    BY <2>1, <2>2
<1>21. \A k \in DOMAIN r : f[r[k].Price] = r[k].Orders
  <2> SUFFICES ASSUME NEW k \in DOMAIN r PROVE f[r[k].Price] = r[k].Orders
    OBVIOUS
  <2>1. PICK i \in DOMAIN levels : /\ r[k].Price = levels[i].Price
                                   /\ r[k].Orders = IF i = n THEN rest ELSE levels[i].Orders
    BY <1>13 DEF Shortened
  <2>2. r[k].Price \in DOMAIN f
    BY <1>20 DEF HasPrice
  <2> QED
    BY <1>15, <1>17, <1>19, <2>1, <2>2
<1>22. f = [p \in DOMAIN f |-> f[p]]
  BY <1>19
<1>23. QueueOf(r) = f
  BY ONLY <1>2, <1>20, <1>21, <1>22, QueueIs, Zenon
<1> QED
  BY <1>1, <1>16, <1>18, <1>23

-----------------------------------------------------------------------------
(* The two sides of a book.                                                *)

Queues(b) == [side \in Sides |-> QueueOf(b.levels[side])]

Sizes(b) == [id \in DOMAIN b.orderMap |-> b.orderMap[id].Shares]

\* A side of a well-formed book, and the orders on it.
LEMMA SideOfBook ==
    ASSUME NEW b, BookOK(b), b = [levels |-> b.levels, orderMap |-> b.orderMap],
           NEW side \in Sides, NEW d, d = (side = SideBuy)
    PROVE  /\ d \in BOOLEAN /\ Sorts(d, side)
           /\ SideOK(b.levels[side], d) /\ Len(b.levels[side]) <= MaxLevels
           /\ \A p, x : At(b.levels[side], p, x) <=> /\ x \in DOMAIN b.orderMap
                                                     /\ b.orderMap[x].Side = side
                                                     /\ b.orderMap[x].Price = p
<1>1. LevelsOK(b.levels) /\ Matched(b.levels, b.orderMap)
  BY BookView
<1>2. d \in BOOLEAN /\ Sorts(d, side)
  BY BeatsIsBetter
<1>3. SideOK(b.levels[side], d) /\ Len(b.levels[side]) <= MaxLevels
  BY <1>1 DEF LevelsOK
<1>4. \A p, x : At(b.levels[side], p, x) <=> /\ x \in DOMAIN b.orderMap
                                             /\ b.orderMap[x].Side = side
                                             /\ b.orderMap[x].Price = p
  BY <1>1 DEF Matched
<1> QED
  BY <1>2, <1>3, <1>4

\* The orders queued on a side are those of the map on that side.
LEMMA QueuedOrders ==
    ASSUME NEW b, BookOK(b), b = [levels |-> b.levels, orderMap |-> b.orderMap],
           NEW side \in Sides
    PROVE  Abstract!QueuedOn(Queues(b)[side]) = {x \in DOMAIN b.orderMap : b.orderMap[x].Side = side}
<1>1. PICK levels : levels = b.levels[side]
  OBVIOUS
<1>2. PICK d \in BOOLEAN : SideOK(levels, d)
  BY <1>1, SideOfBook
<1>3. PICK Q : Q = QueueOf(levels)
  OBVIOUS
<1>4. Queues(b)[side] = Q
  BY <1>1, <1>3 DEF Queues
<1>5. /\ \A p : p \in DOMAIN Q <=> HasPrice(levels, p)
      /\ \A i \in DOMAIN levels : Q[levels[i].Price] = levels[i].Orders
  BY <1>2, <1>3, QueueView
<1>6. \A x : x \in Abstract!QueuedOn(Q) <=> \E p \in DOMAIN Q : \E j \in DOMAIN Q[p] : Q[p][j] = x
  BY DEF Abstract!QueuedOn
<1>7. \A x : (\E p : At(levels, p, x)) <=> \E p \in DOMAIN Q : \E j \in DOMAIN Q[p] : Q[p][j] = x
  <2> SUFFICES ASSUME NEW x
               PROVE  (\E p : At(levels, p, x)) <=> \E p \in DOMAIN Q : \E j \in DOMAIN Q[p] : Q[p][j] = x
    OBVIOUS
  <2>1. ASSUME NEW p, At(levels, p, x) PROVE \E r \in DOMAIN Q : \E j \in DOMAIN Q[r] : Q[r][j] = x
    BY <1>5, <2>1 DEF At, HasPrice
  <2>2. ASSUME NEW p \in DOMAIN Q, NEW j \in DOMAIN Q[p], Q[p][j] = x PROVE \E r : At(levels, r, x)
    <3>1. PICK i \in DOMAIN levels : levels[i].Price = p
      BY <1>5 DEF HasPrice
    <3> QED
      BY <1>5, <2>2, <3>1 DEF At
  <2> QED
    BY <2>1, <2>2
<1>8. \A p, x : At(levels, p, x) <=> /\ x \in DOMAIN b.orderMap
                                     /\ b.orderMap[x].Side = side
                                     /\ b.orderMap[x].Price = p
  BY <1>1, SideOfBook
<1> QED
  BY <1>4, <1>6, <1>7, <1>8

\* The sizes of the orders queued.
LEMMA SizesOfBook ==
    ASSUME NEW b, BookOK(b), b = [levels |-> b.levels, orderMap |-> b.orderMap], NEW size
    PROVE  Abstract!SizesOf(Queues(b), size) = [id \in DOMAIN b.orderMap |-> size[id]]
<1>1. \A x \in DOMAIN b.orderMap : b.orderMap[x].Side \in Sides
  BY DEF BookOK, BookType, Order
<1>2. "B" \in Sides /\ "S" \in Sides /\ Sides = {"B", "S"}
  BY DEF Sides, SideBuy, SideSell
<1>3. Abstract!QueuedOn(Queues(b)["B"]) \cup Abstract!QueuedOn(Queues(b)["S"]) = DOMAIN b.orderMap
  BY <1>1, <1>2, QueuedOrders
<1> QED
  BY <1>3 DEF Abstract!SizesOf

\* AddOrder joins its side's queues.
LEMMA AddOrderQueues ==
    ASSUME NEW b, BookOK(b), b = [levels |-> b.levels, orderMap |-> b.orderMap],
           NEW o \in Order, o.ID \notin DOMAIN b.orderMap
    PROVE  Queues(AddOrder(b, o)) =
               [Queues(b) EXCEPT ![o.Side] = Abstract!Join(o.Side, @, o.Price, o.ID)]
<1>1. PICK side \in Sides : side = o.Side
  BY DEF Order
<1>2. PICK levels : levels = b.levels[side]
  OBVIOUS
<1>3. PICK d : d = (side = SideBuy)
  OBVIOUS
<1>4. PICK r : r = addToSide(levels, o, d)
  OBVIOUS
<1>5. AddOrder(b, o).levels = [b.levels EXCEPT ![side] = r.levels]
  BY <1>1, <1>2, <1>3, <1>4 DEF AddOrder
<1>6. /\ d \in BOOLEAN /\ Sorts(d, side) /\ SideOK(levels, d) /\ Len(levels) <= MaxLevels
      /\ \A p, x : At(levels, p, x) => x \in DOMAIN b.orderMap
  BY <1>2, <1>3, SideOfBook
<1>7. ~At(levels, o.Price, o.ID)
  BY <1>6
<1>8. QueueOf(r.levels) = Abstract!Join(side, QueueOf(levels), o.Price, o.ID)
  BY ONLY <1>4, <1>6, <1>7, o \in Order, side \in Sides, JoinSide
<1>9. DOMAIN b.levels = Sides
  BY DEF BookOK, BookType
<1> QED
  BY <1>1, <1>2, <1>5, <1>8, <1>9 DEF Queues

\* RemoveOrder leaves its side's queues.
LEMMA RemoveOrderQueues ==
    ASSUME NEW b, BookOK(b), b = [levels |-> b.levels, orderMap |-> b.orderMap],
           NEW id \in DOMAIN b.orderMap, NEW side, side = b.orderMap[id].Side
    PROVE  Queues(RemoveOrder(b, id)) = [Queues(b) EXCEPT ![side] = Abstract!Leave(@, id)]
<1>1. side \in Sides
  BY DEF BookOK, BookType, Order
<1>2. PICK levels : levels = b.levels[side]
  OBVIOUS
<1>3. PICK d : d = (side = SideBuy)
  OBVIOUS
<1>4. PICK r : r = removeFromSide(levels, id)
  OBVIOUS
<1>5. DOMAIN b.levels = Sides
  BY DEF BookOK, BookType
<1>6. RemoveOrder(b, id).levels = [b.levels EXCEPT ![side] = r]
  BY <1>1, <1>2, <1>4, <1>5 DEF RemoveOrder
<1>7. d \in BOOLEAN /\ SideOK(levels, d)
  BY <1>1, <1>2, <1>3, SideOfBook
<1>8. \A p, x : At(levels, p, x) <=> /\ x \in DOMAIN b.orderMap
                                     /\ b.orderMap[x].Side = side
                                     /\ b.orderMap[x].Price = p
  BY <1>1, <1>2, SideOfBook
<1>9. PICK p0 : At(levels, p0, id) /\ \A p : At(levels, p, id) => p = p0
  BY <1>8
<1>10. QueueOf(r) = Abstract!Leave(QueueOf(levels), id)
  BY ONLY <1>4, <1>7, <1>9, LeaveSide
<1> QED
  BY <1>1, <1>2, <1>5, <1>6, <1>10 DEF Queues

-----------------------------------------------------------------------------
(* Every step of the simulator is a step of PriceTimeBook, or none.        *)

\* No handler places an order above HighestPrice or larger than MaxLots: each
\* replacement, and there is an id for each, moves a price by at most
\* ReplaceTicks.
PriceLimit == MaxPrice + MaxLevels + AddTicks + ReplenishTicks + orderIDCounter * ReplaceTicks

LimitInv ==
    \A id \in DOMAIN book.orderMap : /\ book.orderMap[id].Price <= PriceLimit
                                     /\ book.orderMap[id].Shares <= MaxLots

\* The ids handed out are at most MaxOrderID.
LEMMA LimitBelowHighest ==
    ASSUME Inv
    PROVE  /\ PriceLimit \in Nat /\ HighestPrice \in Nat
           /\ PriceLimit <= HighestPrice
           /\ MaxPrice + MaxLevels + AddTicks + ReplenishTicks <= PriceLimit
<1>1. /\ orderIDCounter \in Nat /\ MaxOrderID \in Nat /\ orderIDCounter <= MaxOrderID
      /\ ReplaceTicks \in Nat
  BY SimulatorAssumption DEF Inv, TypeOK
<1>2. ASSUME NEW c \in Nat, NEW m \in Nat, NEW r \in Nat, c <= m
      PROVE  c * r \in Nat /\ m * r \in Nat /\ c * r <= m * r
  <2>1. PICK k \in Nat : m = c + k
    BY <1>2
  <2>2. c * r \in Nat /\ k * r \in Nat
    OBVIOUS
  <2>3. (c + k) * r = c * r + k * r
    OBVIOUS
  <2> QED
    BY <2>1, <2>2, <2>3
<1>3. PICK x \in Nat : x = orderIDCounter * ReplaceTicks
  BY <1>1, <1>2
<1>4. PICK y \in Nat : y = MaxOrderID * ReplaceTicks
  BY <1>1, <1>2
<1>5. x <= y
  BY <1>1, <1>2, <1>3, <1>4
<1>6. MaxPrice \in Nat /\ MaxLevels \in Nat /\ AddTicks \in Nat /\ ReplenishTicks \in Nat
  BY SimulatorAssumption, MaxLevelsAssumption
<1> QED
  BY <1>3, <1>4, <1>5, <1>6 DEF PriceLimit, HighestPrice

\* Handing out ids raises the limit.
LEMMA LimitGrows ==
    ASSUME Inv
    PROVE  /\ orderIDCounter' = orderIDCounter => PriceLimit' = PriceLimit
           /\ orderIDCounter' = NextOrderID => PriceLimit' = PriceLimit + ReplaceTicks
<1>1. orderIDCounter \in Nat /\ ReplaceTicks \in Nat
  BY SimulatorAssumption DEF Inv, TypeOK
<1>2. ASSUME NEW c \in Nat, NEW r \in Nat PROVE c * r \in Nat /\ (c + 1) * r = c * r + r
  BY Z3
<1>3. MaxPrice \in Nat /\ MaxLevels \in Nat /\ AddTicks \in Nat /\ ReplenishTicks \in Nat
  BY SimulatorAssumption, MaxLevelsAssumption
<1>4. PICK x \in Nat : x = orderIDCounter * ReplaceTicks
  BY <1>1, <1>2
<1>5. (orderIDCounter + 1) * ReplaceTicks = x + ReplaceTicks
  BY <1>1, <1>2, <1>4
<1>6. orderIDCounter' = orderIDCounter => PriceLimit' = PriceLimit
  BY DEF PriceLimit
<1>7. orderIDCounter' = NextOrderID => PriceLimit' = PriceLimit + ReplaceTicks
  BY <1>1, <1>3, <1>4, <1>5 DEF PriceLimit, NextOrderID
<1> QED
  BY <1>6, <1>7

\* Entering an order is Place.
LEMMA EnterRefines ==
    ASSUME Inv, CanAllocate(1), NEW o \in Order, o.ID = NextOrderID,
           o.Price \in 1 .. HighestPrice, o.Shares \in 1 .. MaxLots,
           book' = AddOrder(book, o), orderIDCounter' = NextOrderID
    PROVE  Abstract!Next
<1>1. /\ BookOK(book) /\ book = [levels |-> book.levels, orderMap |-> book.orderMap]
      /\ o.ID \notin DOMAIN book.orderMap
  BY InvFacts
<1>2. BookOK(book')
  BY EnterOrder
<1>3. book' = [levels |-> book'.levels, orderMap |-> book'.orderMap]
  BY <1>2, BookIsRecord DEF BookOK
<1>4. Queues(book') = [Queues(book) EXCEPT ![o.Side] = Abstract!Join(o.Side, @, o.Price, o.ID)]
  BY <1>1, AddOrderQueues
<1>5. PICK size : size = [x \in DOMAIN Sizes(book) \cup {o.ID} |->
                              IF x = o.ID THEN o.Shares ELSE Sizes(book)[x]]
  OBVIOUS
<1>6. Sizes(book') = Abstract!SizesOf(Queues(book'), size)
  <2>1. Abstract!SizesOf(Queues(book'), size) = [x \in DOMAIN book'.orderMap |-> size[x]]
    BY <1>2, <1>3, SizesOfBook
  <2>2. /\ DOMAIN book'.orderMap \subseteq DOMAIN book.orderMap \cup {o.ID}
        /\ \A x \in DOMAIN book'.orderMap :
               book'.orderMap[x] = IF x = o.ID THEN o ELSE book.orderMap[x]
    BY AddOrderMap
  <2>3. \A x \in DOMAIN book'.orderMap : book'.orderMap[x].Shares = size[x]
    BY <1>5, <2>2 DEF Sizes
  <2> QED
    BY <2>1, <2>3 DEF Sizes
<1>7. Abstract!Place(o.Side, o.Price, o.ID)
  BY <1>4, <1>5, <1>6 DEF Abstract!Place, Abstract!Sized, Abstract!Entered, Queues, Sizes
<1>8. o.ID \in 1 .. MaxOrderID /\ Abstract!Hand(o.ID)
  BY InvFacts, SimulatorAssumption DEF CanAllocate, Abstract!Hand
<1>9. o.Side \in Abstract!BookSides
  BY DEF Order, Sides, SideBuy, SideSell, Abstract!BookSides
<1> QED
  BY <1>7, <1>8, <1>9 DEF Abstract!Next

\* A cancel is Withdraw.
LEMMA RemoveRefines ==
    ASSUME Inv, NEW id \in DOMAIN book.orderMap, book' = RemoveOrder(book, id)
    PROVE  Abstract!Withdraw(book.orderMap[id].Side, id)
<1>1. BookOK(book) /\ book = [levels |-> book.levels, orderMap |-> book.orderMap]
  BY InvFacts
<1>2. PICK side : side = book.orderMap[id].Side
  OBVIOUS
<1>3. /\ BookOK(book') /\ book' = [levels |-> book'.levels, orderMap |-> book'.orderMap]
      /\ book'.orderMap = Without(book.orderMap, {id})
  BY <1>1, RemoveOrderOK
<1>4. Queues(book') = [Queues(book) EXCEPT ![side] = Abstract!Leave(@, id)]
  BY <1>1, <1>2, RemoveOrderQueues
<1>5. Sizes(book') = Abstract!SizesOf(Queues(book'), Sizes(book))
  <2>1. Abstract!SizesOf(Queues(book'), Sizes(book)) = [x \in DOMAIN book'.orderMap |-> Sizes(book)[x]]
    BY <1>3, SizesOfBook
  <2> QED
    BY <1>3, <2>1 DEF Sizes, Without
<1> QED
  BY <1>2, <1>4, <1>5 DEF Abstract!Withdraw, Queues, Sizes

\* A replacement is Amend.
LEMMA ReplaceRefines ==
    ASSUME Inv, CanAllocate(1), NEW old \in DOMAIN book.orderMap,
           NEW newPrice \in 1 .. HighestPrice, NEW newShares \in 1 .. MaxLots,
           book' = ReplaceOrder(book, old, NextOrderID, newPrice, newShares),
           orderIDCounter' = NextOrderID
    PROVE  Abstract!Next
<1>1. /\ BookOK(book) /\ book = [levels |-> book.levels, orderMap |-> book.orderMap]
      /\ NextOrderID \in Nat \ {0} /\ NextOrderID \notin DOMAIN book.orderMap
      /\ book.orderMap[old] \in Order
  BY InvFacts
<1>2. PICK c : c = RemoveOrder(book, old)
  OBVIOUS
<1>3. PICK o : o = Replacement(book.orderMap[old], NextOrderID, newPrice, newShares)
  OBVIOUS
<1>4. PICK side : side = book.orderMap[old].Side
  OBVIOUS
<1>5. book' = AddOrder(c, o)
  BY <1>2, <1>3 DEF ReplaceOrder
<1>6. newPrice \in Nat \ {0} /\ newShares \in Nat \ {0}
  BY SimulatorAssumption, LimitBelowHighest
<1>7. /\ o \in Order /\ o.ID = NextOrderID /\ o.Side = side /\ o.Price = newPrice
      /\ o.Shares = newShares /\ side \in Sides
  BY <1>1, <1>3, <1>4, <1>6 DEF Replacement, Order
<1>8. /\ BookOK(c) /\ c = [levels |-> c.levels, orderMap |-> c.orderMap]
      /\ c.orderMap = Without(book.orderMap, {old})
  BY <1>1, <1>2, RemoveOrderOK
<1>9. o.ID \notin DOMAIN c.orderMap
  BY <1>1, <1>7, <1>8 DEF Without
<1>10. BookOK(book')
  BY <1>5, <1>7, <1>8, <1>9, AddOrderOK
<1>11. book' = [levels |-> book'.levels, orderMap |-> book'.orderMap]
  BY <1>10, BookIsRecord DEF BookOK
<1>12. Queues(c) = [Queues(book) EXCEPT ![side] = Abstract!Leave(@, old)]
  BY <1>1, <1>2, <1>4, RemoveOrderQueues
<1>13. Queues(book') = [Queues(c) EXCEPT ![side] = Abstract!Join(side, @, newPrice, NextOrderID)]
  BY <1>5, <1>7, <1>8, <1>9, AddOrderQueues
<1>14. Queues(book') = [Queues(book) EXCEPT ![side] =
                            Abstract!Join(side, Abstract!Leave(@, old), newPrice, NextOrderID)]
  <2>1. DOMAIN Queues(book) = Sides
    BY DEF Queues
  <2> QED
    BY <1>7, <1>12, <1>13, <2>1
<1>15. PICK size : size = [x \in DOMAIN Sizes(book) \cup {NextOrderID} |->
                               IF x = NextOrderID THEN newShares ELSE Sizes(book)[x]]
  OBVIOUS
<1>16. Sizes(book') = Abstract!SizesOf(Queues(book'), size)
  <2>1. Abstract!SizesOf(Queues(book'), size) = [x \in DOMAIN book'.orderMap |-> size[x]]
    BY <1>10, <1>11, SizesOfBook
  <2>2. /\ DOMAIN book'.orderMap \subseteq DOMAIN c.orderMap \cup {NextOrderID}
        /\ \A x \in DOMAIN book'.orderMap :
               book'.orderMap[x] = IF x = NextOrderID THEN o ELSE c.orderMap[x]
    BY <1>5, <1>7, AddOrderMap
  <2>3. \A x \in DOMAIN c.orderMap : x \in DOMAIN book.orderMap /\ c.orderMap[x] = book.orderMap[x]
    BY <1>8 DEF Without
  <2>4. \A x \in DOMAIN book'.orderMap : book'.orderMap[x].Shares = size[x]
    BY <1>7, <1>15, <2>2, <2>3 DEF Sizes
  <2> QED
    BY <2>1, <2>4 DEF Sizes
<1>17. PICK newID : newID = NextOrderID
  OBVIOUS
<1>18. Abstract!Amend(side, old, newPrice, newID)
  <2>1. size = Abstract!Entered(newID, newShares)
    BY ONLY <1>15, <1>17 DEF Abstract!Entered, Sizes
  <2>2. Abstract!Sized(newID)
    BY ONLY <1>16, <2>1, newShares \in 1 .. MaxLots DEF Abstract!Sized, Queues, Sizes
  <2> QED
    BY ONLY <1>14, <1>17, <2>2 DEF Abstract!Amend, Queues
<1>19. newID \in 1 .. MaxOrderID /\ Abstract!Hand(newID)
  BY <1>17, InvFacts, SimulatorAssumption DEF CanAllocate, Abstract!Hand
<1>20. side \in Abstract!BookSides
  BY <1>7 DEF Sides, SideBuy, SideSell, Abstract!BookSides
<1>21. old \in Abstract!Waiting(side)
  <2>1. old \in Abstract!QueuedOn(Queues(book)[side])
    BY <1>1, <1>4, <1>7, QueuedOrders
  <2> QED
    BY <2>1 DEF Abstract!Waiting, Queues
<1> QED
  BY <1>18, <1>19, <1>20, <1>21 DEF Abstract!Next

\* The ways a step changes the book.
Enters(o) ==
    /\ o \in Order /\ o.ID = NextOrderID
    /\ o.Price <= MaxPrice + MaxLevels + AddTicks + ReplenishTicks
    /\ o.Shares <= MaxLots
    /\ CanAllocate(1) /\ orderIDCounter' = NextOrderID
    /\ book' = AddOrder(book, o)

Replaces(old, p, n) ==
    /\ old \in DOMAIN book.orderMap
    /\ p \in Nat \ {0} /\ p <= book.orderMap[old].Price + ReplaceTicks
    /\ n \in 1 .. MaxLots
    /\ CanAllocate(1) /\ orderIDCounter' = NextOrderID
    /\ book' = ReplaceOrder(book, old, NextOrderID, p, n)

Cancels(id) ==
    /\ id \in DOMAIN book.orderMap
    /\ orderIDCounter' = orderIDCounter
    /\ book' = RemoveOrder(book, id)

Trades(side, id, n) ==
    /\ side \in Sides /\ Quoted /\ id = FirstOrder(book, side)
    /\ n \in IntRange(1, book.orderMap[id].Shares)
    /\ orderIDCounter' = orderIDCounter
    /\ book' = ReduceOrder(book, id, n)

Idles ==
    /\ book' = book
    /\ \/ orderIDCounter' = orderIDCounter
       \/ CanAllocate(1) /\ orderIDCounter' = NextOrderID

\* Seeding enters an order.
LEMMA InitializeEnters ==
    ASSUME Inv, Initialize
    PROVE  \E o : Enters(o)
<1>1. PICK shares \in 1 .. MaxLots :
          book' = AddOrder(book, [ID |-> NextOrderID, Side |-> seed.side,
                     Price |-> IF seed.side = SideBuy THEN RefPrice - (seed.level + 1)
                                                      ELSE RefPrice + (seed.level + 1),
                     Shares |-> shares])
  BY DEF Initialize
<1>2. PICK p : p = IF seed.side = SideBuy THEN RefPrice - (seed.level + 1)
                                          ELSE RefPrice + (seed.level + 1)
  OBVIOUS
<1>3. PICK o : o = [ID |-> NextOrderID, Side |-> seed.side, Price |-> p, Shares |-> shares]
  OBVIOUS
<1>4. /\ seed.level \in Nat /\ seed.side \in Sides /\ seed.level < MaxLevels
      /\ RefPrice \in Nat /\ RefPrice > MaxLevels /\ MaxLevels \in Nat
      /\ RefPrice <= MaxPrice /\ MaxPrice \in Nat /\ AddTicks \in Nat /\ ReplenishTicks \in Nat
      /\ shares \in Nat \ {0} /\ shares <= MaxLots
  BY <1>1, SimulatorAssumption, MaxLevelsAssumption DEF Inv, TypeOK, Initialize, Seeding
<1>5. p \in Nat \ {0} /\ p <= MaxPrice + MaxLevels + AddTicks + ReplenishTicks
  BY <1>2, <1>4
<1>6. /\ o \in Order /\ o.ID = NextOrderID /\ o.Price = p /\ o.Shares = shares
      /\ book' = AddOrder(book, o)
  BY <1>1, <1>2, <1>3, <1>4, <1>5, InvFacts DEF Order
<1> QED
  BY <1>4, <1>5, <1>6 DEF Enters, Initialize

\* So do doAdd and doReplenish.
LEMMA PlaceEnters ==
    ASSUME Inv, NEW ticks \in {AddTicks, ReplenishTicks},
           NEW lots \in SUBSET (1 .. MaxLots), Place(ticks, lots)
    PROVE  \E o : Enters(o)
<1>1. PICK side \in Sides, offset \in IntRange(1, ticks), shares \in lots :
          book' = AddOrder(book, [ID |-> NextOrderID, Side |-> side,
                     Price |-> PassivePrice(price, side, offset), Shares |-> shares])
  BY DEF Place
<1>2. PICK p : p = PassivePrice(price, side, offset)
  OBVIOUS
<1>3. PICK o : o = [ID |-> NextOrderID, Side |-> side, Price |-> p, Shares |-> shares]
  OBVIOUS
<1>4. /\ price \in Nat /\ price <= MaxPrice /\ MaxPrice \in Nat /\ MaxLevels \in Nat \ {0}
      /\ AddTicks \in Nat \ {0} /\ ReplenishTicks \in Nat \ {0}
      /\ shares \in Nat \ {0} /\ shares <= MaxLots
  BY SimulatorAssumption, MaxLevelsAssumption DEF Inv, TypeOK
<1>5. offset \in Nat /\ offset <= AddTicks + ReplenishTicks
  BY <1>4 DEF IntRange
<1>6. p \in Nat \ {0} /\ p <= MaxPrice + MaxLevels + AddTicks + ReplenishTicks
  BY <1>2, <1>4, <1>5 DEF PassivePrice, FloorTick
<1>7. /\ o \in Order /\ o.ID = NextOrderID /\ o.Price = p /\ o.Shares = shares
      /\ book' = AddOrder(book, o)
  BY <1>1, <1>2, <1>3, <1>4, <1>6, InvFacts DEF Order
<1> QED
  BY <1>4, <1>6, <1>7 DEF Enters, Place

\* doReplace idles or replaces.
LEMMA ReplaceReplaces ==
    ASSUME Inv, doReplace
    PROVE  Idles \/ \E old, p, n : Replaces(old, p, n)
<1>1. CASE UNCHANGED <<book, orderIDCounter, mirror, legacy>>
  BY <1>1 DEF Idles
<1>2. ASSUME NEW old \in Resting, NEW shift \in -ReplaceTicks .. ReplaceTicks,
             NEW n \in IntRange(1, MaxLots), CanAllocate(1), orderIDCounter' = NextOrderID,
             book' = ReplaceOrder(book, old, NextOrderID,
                                  FloorTick(book.orderMap[old].Price + shift), n)
      PROVE  \E p : Replaces(old, p, n)
  <2>1. PICK p : p = FloorTick(book.orderMap[old].Price + shift)
    OBVIOUS
  <2>2. old \in DOMAIN book.orderMap
    BY RestingInMap
  <2>3. book.orderMap[old].Price \in Nat \ {0}
    BY <2>2, InvFacts DEF Order
  <2>4. ReplaceTicks \in Nat /\ MaxLots \in Nat \ {0}
    BY SimulatorAssumption
  <2>5. p \in Nat \ {0} /\ p <= book.orderMap[old].Price + ReplaceTicks
    BY <2>1, <2>3, <2>4 DEF FloorTick
  <2>6. n \in 1 .. MaxLots
    BY <2>4 DEF IntRange
  <2> QED
    BY <1>2, <2>1, <2>2, <2>5, <2>6 DEF Replaces
<1> QED
  BY <1>1, <1>2 DEF doReplace

\* Every step is one of these.
LEMMA StepKinds ==
    ASSUME Inv, [Next]_vars
    PROVE  \/ Idles
           \/ \E o : Enters(o)
           \/ \E old, p, n : Replaces(old, p, n)
           \/ \E id : Cancels(id)
           \/ \E side, id, n : Trades(side, id, n)
<1>1. CASE Initialize
  BY <1>1, InitializeEnters
<1>2. CASE doAdd \/ doReplenish
  <2>1. IntRange(1, MaxLots) \subseteq 1 .. MaxLots /\ IntRange(MinReplenishLots, MaxLots) \subseteq 1 .. MaxLots
    BY SimulatorAssumption DEF IntRange
  <2> QED
    BY <1>2, <2>1, PlaceEnters DEF doAdd, doReplenish
<1>3. CASE doReplace
  BY <1>3, ReplaceReplaces
<1>4. CASE doCancel
  <2>1. \A id \in Resting : id \in DOMAIN book.orderMap
    BY RestingInMap
  <2> QED
    BY <1>4, <2>1 DEF doCancel, Cancels, Idles
<1>5. CASE doTrade
  BY <1>5 DEF doTrade, Trades, Idles
<1>6. CASE Tick \/ OtherRunners \/ Subscribe \/ UNCHANGED vars
  BY <1>6 DEF Tick, OtherRunners, Subscribe, vars, Idles
<1> QED
  BY <1>1, <1>2, <1>3, <1>4, <1>5, <1>6 DEF Next

\* The limits hold after every step.
LEMMA LimitStep ==
    ASSUME Inv, LimitInv, [Next]_vars
    PROVE  LimitInv'
<1>1. /\ PriceLimit \in Nat /\ ReplaceTicks \in Nat /\ MaxLots \in Nat
      /\ MaxPrice + MaxLevels + AddTicks + ReplenishTicks <= PriceLimit
  BY LimitBelowHighest, SimulatorAssumption
<1>2. \A id \in DOMAIN book.orderMap : /\ book.orderMap[id].Price \in Nat
                                       /\ book.orderMap[id].Shares \in Nat
                                       /\ book.orderMap[id].Price <= PriceLimit
                                       /\ book.orderMap[id].Shares <= MaxLots
  BY InvFacts DEF LimitInv, Order
<1>3. ASSUME NEW L, PriceLimit' = L, L \in Nat, PriceLimit <= L,
             \A id \in DOMAIN book'.orderMap :
                 \/ /\ id \in DOMAIN book.orderMap
                    /\ book'.orderMap[id].Price = book.orderMap[id].Price
                    /\ book'.orderMap[id].Shares <= book.orderMap[id].Shares
                    /\ book'.orderMap[id].Shares \in Nat
                 \/ book'.orderMap[id].Price <= L /\ book'.orderMap[id].Shares <= MaxLots
      PROVE  LimitInv'
  BY <1>1, <1>2, <1>3 DEF LimitInv
<1>4. orderIDCounter' = NextOrderID => PriceLimit' = PriceLimit + ReplaceTicks
  BY LimitGrows
<1>5. orderIDCounter' = orderIDCounter => PriceLimit' = PriceLimit
  BY LimitGrows
<1>6. CASE Idles
  <2>1. CASE orderIDCounter' = orderIDCounter
    BY <1>1, <1>2, <1>3, <1>5, <1>6, <2>1 DEF Idles
  <2>2. CASE orderIDCounter' = NextOrderID
    BY <1>1, <1>2, <1>3, <1>4, <1>6, <2>2 DEF Idles
  <2> QED
    BY <1>6, <2>1, <2>2 DEF Idles
<1>7. ASSUME NEW o, Enters(o) PROVE LimitInv'
  <2>1. \A x \in DOMAIN book'.orderMap :
            \/ x = o.ID /\ book'.orderMap[x] = o
            \/ x \in DOMAIN book.orderMap /\ book'.orderMap[x] = book.orderMap[x]
    BY <1>7, AddOrderMap DEF Enters
  <2>2. o.Price \in Nat /\ o.Price <= PriceLimit + ReplaceTicks /\ o.Shares <= MaxLots
    BY <1>1, <1>7, SimulatorAssumption, MaxLevelsAssumption DEF Enters, Order
  <2>3. PriceLimit' = PriceLimit + ReplaceTicks
    BY <1>4, <1>7 DEF Enters
  <2> QED
    BY <1>1, <1>2, <1>3, <2>1, <2>2, <2>3
<1>8. ASSUME NEW old, NEW p, NEW n, Replaces(old, p, n) PROVE LimitInv'
  <2>1. \A x \in DOMAIN book'.orderMap :
            \/ book'.orderMap[x].Price = p /\ book'.orderMap[x].Shares = n
            \/ x \in DOMAIN book.orderMap /\ book'.orderMap[x] = book.orderMap[x]
    <3>1. old \in DOMAIN book.orderMap /\ book' = ReplaceOrder(book, old, NextOrderID, p, n)
      BY <1>8 DEF Replaces
    <3>2. PICK o : o = Replacement(book.orderMap[old], NextOrderID, p, n)
      OBVIOUS
    <3>3. \A x \in DOMAIN book'.orderMap :
              \/ book'.orderMap[x] = o
              \/ x \in DOMAIN book.orderMap /\ book'.orderMap[x] = book.orderMap[x]
      BY <3>1, <3>2, InvFacts, ReplaceMap
    <3> QED
      BY <3>2, <3>3 DEF Replacement
  <2>2. p \in Nat /\ p <= PriceLimit + ReplaceTicks /\ n <= MaxLots
    <3>1. /\ old \in DOMAIN book.orderMap /\ p \in Nat /\ n \in 1 .. MaxLots
          /\ p <= book.orderMap[old].Price + ReplaceTicks
      BY <1>8 DEF Replaces
    <3>2. PICK q \in Nat : q = book.orderMap[old].Price
      BY <1>2, <3>1
    <3> QED
      BY <1>1, <1>2, <3>1, <3>2
  <2>3. PriceLimit' = PriceLimit + ReplaceTicks
    BY <1>4, <1>8 DEF Replaces
  <2> QED
    BY <1>1, <1>2, <1>3, <2>1, <2>2, <2>3
<1>9. ASSUME NEW id, Cancels(id) PROVE LimitInv'
  <2>1. book'.orderMap = Without(book.orderMap, {id})
    BY <1>9, InvFacts, RemoveOrderOK DEF Cancels
  <2>2. \A x \in DOMAIN book'.orderMap : x \in DOMAIN book.orderMap /\ book'.orderMap[x] = book.orderMap[x]
    BY <2>1 DEF Without
  <2> QED
    BY <1>1, <1>2, <1>3, <1>5, <1>9, <2>2 DEF Cancels
<1>10. ASSUME NEW side, NEW id, NEW n, Trades(side, id, n) PROVE LimitInv'
  <2>1. id \in DOMAIN book.orderMap
    BY <1>10, FirstInMap DEF Trades
  <2>2. book.orderMap[id] \in Order /\ book.orderMap[id].Shares \in Nat \ {0}
    BY <2>1, InvFacts DEF Order
  <2>3. n \in Nat \ {0} /\ n <= book.orderMap[id].Shares
    BY <1>10, <2>2 DEF Trades, IntRange
  <2>4. Reduced(book.orderMap, id, n, book'.orderMap)
    BY <1>10, <2>1, <2>3, InvFacts, ReduceOrderOK DEF Trades
  <2>5. \A x \in DOMAIN book'.orderMap :
            /\ x \in DOMAIN book.orderMap
            /\ book'.orderMap[x].Price = book.orderMap[x].Price
            /\ book'.orderMap[x].Shares <= book.orderMap[x].Shares
            /\ book'.orderMap[x].Shares \in Nat
    <3>1. CASE book.orderMap[id].Shares <= n
      BY <1>2, <2>4, <3>1 DEF Reduced, Without
    <3>2. CASE ~(book.orderMap[id].Shares <= n)
      <4>1. /\ book'.orderMap[id].Price = book.orderMap[id].Price
            /\ book'.orderMap[id].Shares = book.orderMap[id].Shares - n
        BY <2>2, <2>4, <3>2 DEF Reduced, Order
      <4> QED
        BY <1>2, <2>2, <2>3, <2>4, <3>2, <4>1 DEF Reduced
    <3> QED
      BY <3>1, <3>2
  <2> QED
    BY <1>1, <1>3, <1>5, <1>10, <2>5 DEF Trades
<1> QED
  BY <1>6, <1>7, <1>8, <1>9, <1>10, StepKinds

\* The limits are kept.
LEMMA LimitsKept == Spec => []LimitInv
<1>1. Init => LimitInv
  BY DEF Init, LimitInv, NewBook
<1>2. Inv /\ LimitInv /\ [Next]_vars => LimitInv'
  BY LimitStep
<1> QED
  BY <1>1, <1>2, Invariance, PTL DEF Spec

\* The head of a quoted side: its first level, and the first order there.
LEMMA HeadOfSide ==
    ASSUME Inv, Quoted, NEW side \in Sides, NEW levels, levels = book.levels[side],
           NEW id, id = FirstOrder(book, side)
    PROVE  /\ 1 \in DOMAIN levels /\ 1 \in DOMAIN levels[1].Orders /\ levels[1].Orders[1] = id
           /\ id \in DOMAIN book.orderMap /\ book.orderMap[id].Side = side
<1>1. levels # <<>>
  BY DEF Quoted, BestBid, BestAsk, Sides
<1>2. levels \in Seq(PriceLevel) /\ SideFilled(levels)
  BY DEF Inv, TypeOK, BookType, BookOK, LevelsBounded, SideFilled
<1>3. 1 \in DOMAIN levels
  BY <1>1, <1>2
<1>4. levels[1].Orders # <<>> /\ levels[1].Orders \in Seq(Nat \ {0})
  BY <1>2, <1>3, LevelTypes DEF SideFilled
<1>5. 1 \in DOMAIN levels[1].Orders
  BY <1>4
<1>6. levels[1].Orders[1] = id
  BY DEF FirstOrder
<1>7. id \in DOMAIN book.orderMap /\ book.orderMap[id].Side = side
  BY <1>3, <1>5, <1>6 DEF Inv, BookOK, Reachable
<1> QED
  BY <1>3, <1>5, <1>6, <1>7

\* A trade is Execute: it hits the front of the best queue.
LEMMA TradeRefines ==
    ASSUME Inv, LimitInv, NEW side, NEW id, NEW n, Trades(side, id, n)
    PROVE  Abstract!Next
<1>1. /\ side \in Sides /\ Quoted /\ id = FirstOrder(book, side)
      /\ orderIDCounter' = orderIDCounter /\ book' = ReduceOrder(book, id, n)
  BY DEF Trades
<1>2. PICK levels : levels = book.levels[side]
  OBVIOUS
<1>3. /\ 1 \in DOMAIN levels /\ levels[1].Orders[1] = id
      /\ id \in DOMAIN book.orderMap /\ book.orderMap[id].Side = side
  BY <1>1, <1>2, HeadOfSide
<1>4. book.orderMap[id] \in Order /\ book.orderMap[id].Shares \in Nat \ {0} /\ MaxLots \in Nat
  BY <1>3, InvFacts, SimulatorAssumption DEF Order
<1>5. n \in Nat \ {0} /\ n <= book.orderMap[id].Shares /\ n \in 1 .. MaxLots
  BY <1>3, <1>4 DEF Trades, IntRange, LimitInv
<1>6. PICK d \in BOOLEAN : Sorts(d, side) /\ SideOK(levels, d)
  BY <1>1, <1>2, InvFacts, SideOfBook
<1>7. PICK p : p = levels[1].Price
  OBVIOUS
<1>8. Queues(book)[side] = QueueOf(levels)
  BY <1>1, <1>2 DEF Queues
<1>9. /\ p \in DOMAIN Queues(book)[side] /\ Queues(book)[side][p] = levels[1].Orders
      /\ \A q : q \in DOMAIN Queues(book)[side] <=> HasPrice(levels, q)
  BY <1>3, <1>6, <1>7, <1>8, QueueView
<1>10. ~ \E q \in DOMAIN Queues(book)[side] : Abstract!Beats(side, q, p)
  <2> SUFFICES ASSUME NEW q \in DOMAIN Queues(book)[side], Better(q, p, d) PROVE FALSE
    BY <1>6 DEF Sorts
  <2>1. PICK i \in DOMAIN levels : levels[i].Price = q
    BY <1>9 DEF HasPrice
  <2>2. levels \in Seq(PriceLevel) /\ SideSorted(levels, d)
    BY <1>6 DEF SideOK
  <2>3. i \in Nat \ {0} /\ p \in Nat /\ q \in Nat
    BY <1>3, <1>7, <2>1, <2>2, LevelTypes
  <2>4. i # 1 => Better(p, q, d)
    BY <1>3, <1>7, <2>1, <2>2, <2>3 DEF SideSorted
  <2> QED
    BY <1>7, <2>1, <2>3, <2>4 DEF Better
<1>11. Sizes(book)[id] = book.orderMap[id].Shares
  BY <1>3 DEF Sizes
<1>12. IF n = Sizes(book)[id]
       THEN Abstract!Withdraw(side, id)
       ELSE Sizes(book') = [Sizes(book) EXCEPT ![id] = @ - n] /\ Queues(book') = Queues(book)
  <2>1. CASE n = book.orderMap[id].Shares
    <3>1. book' = RemoveOrder(book, id)
      BY <1>1, <1>3, <1>4, <1>5, <2>1 DEF ReduceOrder
    <3> QED
      BY <1>3, <1>11, <2>1, <3>1, RemoveRefines
  <2>2. CASE n # book.orderMap[id].Shares
    <3>1. book' = [book EXCEPT !.orderMap[id].Shares = @ - n]
      BY <1>1, <1>3, <1>4, <1>5, <2>2 DEF ReduceOrder
    <3>2. book'.levels = book.levels
      BY <3>1, InvFacts
    <3>3. Reduced(book.orderMap, id, n, book'.orderMap)
      BY <1>1, <1>3, <1>5, InvFacts, ReduceOrderOK
    <3>4. /\ DOMAIN book'.orderMap = DOMAIN book.orderMap
          /\ \A x \in DOMAIN book.orderMap : x # id => book'.orderMap[x] = book.orderMap[x]
          /\ book'.orderMap[id].Shares = book.orderMap[id].Shares - n
      BY <1>4, <1>5, <2>2, <3>3 DEF Reduced, Order
    <3>5. Sizes(book') = [Sizes(book) EXCEPT ![id] = @ - n]
      BY <1>3, <3>4 DEF Sizes
    <3>6. Queues(book') = Queues(book)
      BY <3>2 DEF Queues
    <3> QED
      BY <1>11, <2>2, <3>5, <3>6
  <2> QED
    BY <2>1, <2>2
<1>13. Abstract!Execute(side, n)
  <2>1. Abstract!HasPriority(side, id)
    BY <1>3, <1>9, <1>10 DEF Abstract!HasPriority, Queues
  <2>2. id \in Abstract!Waiting(side)
    <3>1. id \in Abstract!QueuedOn(Queues(book)[side])
      BY <1>1, <1>3, InvFacts, QueuedOrders
    <3> QED
      BY <3>1 DEF Abstract!Waiting, Queues
  <2> QED
    BY <1>5, <1>11, <1>12, <2>1, <2>2 DEF Abstract!Execute, Queues, Sizes
<1>14. side \in Abstract!BookSides
  BY <1>1 DEF Sides, SideBuy, SideSell, Abstract!BookSides
<1> QED
  BY <1>1, <1>5, <1>13, <1>14 DEF Abstract!Next

\* A replacement's id is at most MaxOrderID, so its price at most HighestPrice.
LEMMA ReplaceBelowHighest ==
    ASSUME Inv, LimitInv, NEW old, NEW p, NEW n, Replaces(old, p, n)
    PROVE  p \in 1 .. HighestPrice
<1>1. /\ orderIDCounter \in Nat /\ MaxOrderID \in Nat /\ orderIDCounter + 1 <= MaxOrderID
      /\ ReplaceTicks \in Nat
  BY SimulatorAssumption DEF Inv, TypeOK, Replaces, CanAllocate
<1>2. ASSUME NEW c \in Nat, NEW k \in Nat, NEW r \in Nat
      PROVE  /\ c * r \in Nat /\ k * r \in Nat
             /\ (c + k + 1) * r = c * r + k * r + r
  OBVIOUS
<1>3. PICK k \in Nat : MaxOrderID = orderIDCounter + k + 1
  BY <1>1
<1>4. PICK x \in Nat, y \in Nat : /\ x = orderIDCounter * ReplaceTicks
                                  /\ MaxOrderID * ReplaceTicks = x + y + ReplaceTicks
  BY <1>1, <1>2, <1>3
<1>5. MaxPrice \in Nat /\ MaxLevels \in Nat /\ AddTicks \in Nat /\ ReplenishTicks \in Nat
  BY SimulatorAssumption, MaxLevelsAssumption
<1>6. PriceLimit \in Nat /\ HighestPrice \in Nat /\ PriceLimit + ReplaceTicks <= HighestPrice
  BY <1>1, <1>4, <1>5 DEF PriceLimit, HighestPrice
<1>7. old \in DOMAIN book.orderMap /\ p \in Nat \ {0} /\ p <= book.orderMap[old].Price + ReplaceTicks
  BY DEF Replaces
<1>8. PICK q \in Nat : q = book.orderMap[old].Price /\ q <= PriceLimit
  BY <1>7, InvFacts DEF LimitInv, Order
<1> QED
  BY <1>1, <1>6, <1>7, <1>8

\* The empty book.
LEMMA InitRefines ==
    ASSUME Init
    PROVE  Abstract!Init
<1>1. \A side \in Sides : book.levels[side] = <<>>
  BY DEF Init, NewBook
<1>2. QueueOf(<<>>) = [p \in {} |-> <<>>]
  BY DEF QueueOf
<1>3. DOMAIN book.orderMap = {}
  BY DEF Init, NewBook
<1>4. Sides = {"B", "S"}
  BY DEF Sides, SideBuy, SideSell
<1> QED
  BY <1>1, <1>2, <1>3, <1>4 DEF Init, Abstract!Init, Abstract!BookSides

\* Every step is a step of PriceTimeBook, or leaves it alone.
LEMMA StepRefines ==
    ASSUME Inv, LimitInv, [Next]_vars
    PROVE  [Abstract!Next]_(Abstract!absVars)
<1>1. CASE Idles
  <2>1. CASE orderIDCounter' = orderIDCounter
    BY <1>1, <2>1 DEF Idles, Abstract!absVars
  <2>2. CASE CanAllocate(1) /\ orderIDCounter' = NextOrderID
    <3>1. PICK id : id = NextOrderID
      OBVIOUS
    <3>2. id \in 1 .. MaxOrderID /\ Abstract!Hand(id)
      BY <2>2, <3>1, InvFacts, SimulatorAssumption DEF CanAllocate, Abstract!Hand
    <3>3. Abstract!Elsewhere
      BY <1>1 DEF Idles, Abstract!Elsewhere
    <3> QED
      BY <3>2, <3>3 DEF Abstract!Next
  <2> QED
    BY <1>1, <2>1, <2>2 DEF Idles
<1>2. ASSUME NEW o, Enters(o) PROVE Abstract!Next
  <2>1. o.Price \in 1 .. HighestPrice /\ o.Shares \in 1 .. MaxLots
    BY <1>2, LimitBelowHighest, SimulatorAssumption, MaxLevelsAssumption DEF Enters, Order
  <2> QED
    BY <1>2, <2>1, EnterRefines DEF Enters
<1>3. ASSUME NEW old, NEW p, NEW n, Replaces(old, p, n) PROVE Abstract!Next
  <2>1. p \in 1 .. HighestPrice
    BY <1>3, ReplaceBelowHighest
  <2> QED
    BY <1>3, <2>1, ReplaceRefines DEF Replaces
<1>4. ASSUME NEW id, Cancels(id) PROVE Abstract!Next
  <2>1. PICK side \in Sides : side = book.orderMap[id].Side
    BY <1>4, InvFacts DEF Cancels, Order
  <2>2. Abstract!Withdraw(side, id)
    BY <1>4, <2>1, RemoveRefines DEF Cancels
  <2>3. id \in Abstract!Waiting(side)
    <3>1. id \in Abstract!QueuedOn(Queues(book)[side])
      BY <1>4, <2>1, InvFacts, QueuedOrders DEF Cancels
    <3> QED
      BY <3>1 DEF Abstract!Waiting, Queues
  <2>4. side \in Abstract!BookSides
    BY DEF Sides, SideBuy, SideSell, Abstract!BookSides
  <2> QED
    BY <1>4, <2>2, <2>3, <2>4 DEF Cancels, Abstract!Next
<1>5. ASSUME NEW side, NEW id, NEW n, Trades(side, id, n) PROVE Abstract!Next
  BY <1>5, TradeRefines
<1> QED
  BY <1>1, <1>2, <1>3, <1>4, <1>5, StepKinds

\* The simulator's book is a price-time priority book: seen as queues, sizes
\* and the last id, every behaviour of the handlers is one of PriceTimeBook.
THEOREM BookIsPriceTimeBook == Spec => RefinesPriceTimeBook
<1>1. Init => Abstract!Init
  BY InitRefines
<1>2. Inv /\ LimitInv /\ [Next]_vars => [Abstract!Next]_(Abstract!absVars)
  BY StepRefines
<1> QED
  BY <1>1, <1>2, Invariance, LimitsKept, PTL DEF Spec, RefinesPriceTimeBook, Abstract!Spec

-----------------------------------------------------------------------------
(* Price-time priority.                                                    *)

\* ServedBefore in terms of the queues.
Ahead(Q, side, x, y) ==
    \E p, q \in DOMAIN Q : \E j \in DOMAIN Q[p], l \in DOMAIN Q[q] :
        /\ Q[p][j] = x /\ Q[q][l] = y
        /\ Abstract!Beats(side, p, q) \/ (p = q /\ j < l)

\* The orders of queue q but for id are in queue r, in the same order.
Keeps(q, r, id) ==
    \A j, l \in DOMAIN q : q[j] # id /\ q[l] # id =>
        \E j2, l2 \in DOMAIN r : r[j2] = q[j] /\ r[l2] = q[l] /\ (j < l => j2 < l2)

\* A better level, or the same one, means a better price, or the same one.
LEMMA ServedIsAhead ==
    ASSUME NEW b, BookOK(b), b = [levels |-> b.levels, orderMap |-> b.orderMap],
           NEW x \in DOMAIN b.orderMap, NEW y, NEW side, side = b.orderMap[x].Side
    PROVE  ServedBefore(b, x, y) <=> Ahead(Queues(b)[side], side, x, y)
<1>1. side \in Sides
  BY DEF BookOK, BookType, Order
<1>2. PICK levels : levels = b.levels[side]
  OBVIOUS
<1>3. PICK d \in BOOLEAN : Sorts(d, side) /\ SideOK(levels, d)
  BY <1>1, <1>2, SideOfBook
<1>4. PICK Q : Q = Queues(b)[side]
  OBVIOUS
<1>5. /\ \A p : p \in DOMAIN Q <=> HasPrice(levels, p)
      /\ \A i \in DOMAIN levels : Q[levels[i].Price] = levels[i].Orders
  <2>1. Q = QueueOf(levels)
    BY <1>1, <1>2, <1>4 DEF Queues
  <2> QED
    BY <1>3, <2>1, QueueView
<1>6. /\ levels \in Seq(PriceLevel) /\ SideSorted(levels, d)
      /\ Len(levels) \in Nat /\ DOMAIN levels = 1 .. Len(levels)
      /\ \A i \in DOMAIN levels : levels[i].Price \in Nat
  BY <1>3, LevelTypes DEF SideOK
<1>7. ASSUME ServedBefore(b, x, y) PROVE Ahead(Q, side, x, y)
  <2>1. PICK i \in DOMAIN levels : \E j \in DOMAIN levels[i].Orders :
            /\ Holds(levels, i, j, x)
            /\ \E k \in i .. Len(levels) : \E l \in DOMAIN levels[k].Orders :
                   (i = k => j < l) /\ Holds(levels, k, l, y)
    BY <1>2, <1>7 DEF ServedBefore
  <2>2. PICK j \in DOMAIN levels[i].Orders :
            /\ Holds(levels, i, j, x)
            /\ \E k \in i .. Len(levels) : \E l \in DOMAIN levels[k].Orders :
                   (i = k => j < l) /\ Holds(levels, k, l, y)
    BY <2>1
  <2>3. PICK k \in i .. Len(levels) : \E l \in DOMAIN levels[k].Orders :
            (i = k => j < l) /\ Holds(levels, k, l, y)
    BY <2>2
  <2>4. PICK l \in DOMAIN levels[k].Orders : (i = k => j < l) /\ Holds(levels, k, l, y)
    BY <2>3
  <2>5. levels[i].Orders[j] = x /\ levels[k].Orders[l] = y /\ k \in DOMAIN levels
    BY <2>2, <2>4 DEF Holds
  <2>6. /\ levels[i].Price \in DOMAIN Q /\ Q[levels[i].Price] = levels[i].Orders
        /\ levels[k].Price \in DOMAIN Q /\ Q[levels[k].Price] = levels[k].Orders
    BY <1>5, <2>5 DEF HasPrice
  <2>7. \/ Abstract!Beats(side, levels[i].Price, levels[k].Price)
        \/ levels[i].Price = levels[k].Price /\ j < l
    <3>1. CASE i = k
      BY <2>4, <3>1
    <3>2. CASE i # k
      <4>1. i < k
        BY <1>6, <2>3, <3>2
      <4>2. Better(levels[i].Price, levels[k].Price, d)
        BY <1>6, <2>5, <4>1 DEF SideSorted
      <4> QED
        BY <1>3, <4>2 DEF Sorts
    <3> QED
      BY <3>1, <3>2
  <2> QED
    BY <2>5, <2>6, <2>7 DEF Ahead
<1>8. ASSUME Ahead(Q, side, x, y) PROVE ServedBefore(b, x, y)
  <2>1. PICK p \in DOMAIN Q, q \in DOMAIN Q : \E j \in DOMAIN Q[p], l \in DOMAIN Q[q] :
            /\ Q[p][j] = x /\ Q[q][l] = y
            /\ Abstract!Beats(side, p, q) \/ (p = q /\ j < l)
    BY <1>8 DEF Ahead
  <2>2. PICK j \in DOMAIN Q[p], l \in DOMAIN Q[q] :
            /\ Q[p][j] = x /\ Q[q][l] = y
            /\ Abstract!Beats(side, p, q) \/ (p = q /\ j < l)
    BY <2>1
  <2>3. PICK i \in DOMAIN levels : levels[i].Price = p
    BY <1>5 DEF HasPrice
  <2>4. PICK k \in DOMAIN levels : levels[k].Price = q
    BY <1>5 DEF HasPrice
  <2>5. /\ j \in DOMAIN levels[i].Orders /\ Holds(levels, i, j, x)
        /\ l \in DOMAIN levels[k].Orders /\ Holds(levels, k, l, y)
    BY <1>5, <2>2, <2>3, <2>4 DEF Holds
  <2>6. i <= k /\ (i = k => j < l)
    <3>1. CASE Abstract!Beats(side, p, q)
      <4>1. Better(p, q, d)
        BY <1>3, <3>1 DEF Sorts
      <4>2. k < i => Better(q, p, d)
        BY <1>6, <2>3, <2>4 DEF SideSorted
      <4> QED
        BY <1>6, <2>3, <2>4, <4>1, <4>2 DEF Better
    <3>2. CASE p = q /\ j < l
      <4>1. i = k
        BY <1>6, <2>3, <2>4, <3>2, PricesDistinct
      <4> QED
        BY <1>6, <3>2, <4>1
    <3> QED
      BY <2>2, <3>1, <3>2
  <2>7. k \in i .. Len(levels)
    BY <1>6, <2>6
  <2> QED
    BY <1>2, <2>5, <2>6, <2>7 DEF ServedBefore
<1> QED
  BY <1>4, <1>7, <1>8

\* An order that is queued, by price and by side.
LEMMA QueuedAt ==
    ASSUME NEW b, BookOK(b), b = [levels |-> b.levels, orderMap |-> b.orderMap],
           NEW side \in Sides
    PROVE  /\ \A p \in DOMAIN Queues(b)[side] : \A j \in DOMAIN Queues(b)[side][p] :
                  /\ Queues(b)[side][p][j] \in DOMAIN b.orderMap
                  /\ b.orderMap[Queues(b)[side][p][j]].Side = side
                  /\ b.orderMap[Queues(b)[side][p][j]].Price = p
           /\ \A x \in DOMAIN b.orderMap :
                  b.orderMap[x].Side = side => b.orderMap[x].Price \in DOMAIN Queues(b)[side]
<1>1. PICK levels : levels = b.levels[side]
  OBVIOUS
<1>2. PICK d \in BOOLEAN : SideOK(levels, d)
  BY <1>1, SideOfBook
<1>3. PICK Q : Q = Queues(b)[side]
  OBVIOUS
<1>4. /\ \A p : p \in DOMAIN Q <=> HasPrice(levels, p)
      /\ \A i \in DOMAIN levels : Q[levels[i].Price] = levels[i].Orders
  <2>1. Q = QueueOf(levels)
    BY <1>1, <1>3 DEF Queues
  <2> QED
    BY <1>2, <2>1, QueueView
<1>5. \A p, x : At(levels, p, x) <=> /\ x \in DOMAIN b.orderMap
                                     /\ b.orderMap[x].Side = side
                                     /\ b.orderMap[x].Price = p
  BY <1>1, SideOfBook
<1>6. ASSUME NEW p \in DOMAIN Q, NEW j \in DOMAIN Q[p]
      PROVE  At(levels, p, Q[p][j])
  <2>1. PICK i \in DOMAIN levels : levels[i].Price = p
    BY <1>4 DEF HasPrice
  <2> QED
    BY <1>4, <2>1 DEF At
<1>7. \A p, x : At(levels, p, x) => p \in DOMAIN Q
  BY <1>4 DEF At, HasPrice
<1> QED
  BY <1>3, <1>5, <1>6, <1>7

\* Orders that stay where they are, in queues that keep their order, keep
\* their priority.
LEMMA PriorityStep ==
    ASSUME NEW b, BookOK(b), b = [levels |-> b.levels, orderMap |-> b.orderMap],
           NEW c, BookOK(c), c = [levels |-> c.levels, orderMap |-> c.orderMap],
           NEW id,
           \A side \in Sides : \A p \in DOMAIN Queues(b)[side] \cap DOMAIN Queues(c)[side] :
               Keeps(Queues(b)[side][p], Queues(c)[side][p], id),
           NEW x \in DOMAIN b.orderMap, x # id, x \in DOMAIN c.orderMap,
           c.orderMap[x].Side = b.orderMap[x].Side, c.orderMap[x].Price = b.orderMap[x].Price,
           NEW y \in DOMAIN b.orderMap, y # id, y \in DOMAIN c.orderMap,
           c.orderMap[y].Side = b.orderMap[y].Side, c.orderMap[y].Price = b.orderMap[y].Price,
           ServedBefore(b, x, y)
    PROVE  ServedBefore(c, x, y)
<1>1. PICK side : side = b.orderMap[x].Side
  OBVIOUS
<1>2. side \in Sides
  BY <1>1 DEF BookOK, BookType, Order
<1>3. PICK Q : Q = Queues(b)[side]
  OBVIOUS
<1>4. PICK R : R = Queues(c)[side]
  OBVIOUS
<1>5. Ahead(Q, side, x, y)
  BY <1>1, <1>3, ServedIsAhead
<1>6. PICK p \in DOMAIN Q, q \in DOMAIN Q : \E j \in DOMAIN Q[p], l \in DOMAIN Q[q] :
          /\ Q[p][j] = x /\ Q[q][l] = y
          /\ Abstract!Beats(side, p, q) \/ (p = q /\ j < l)
  BY <1>5 DEF Ahead
<1>7. PICK j \in DOMAIN Q[p], l \in DOMAIN Q[q] :
          /\ Q[p][j] = x /\ Q[q][l] = y
          /\ Abstract!Beats(side, p, q) \/ (p = q /\ j < l)
  BY <1>6
<1>8. b.orderMap[x].Price = p /\ b.orderMap[y].Price = q /\ b.orderMap[y].Side = side
  BY <1>2, <1>3, <1>7, QueuedAt
<1>9. p \in DOMAIN R /\ q \in DOMAIN R
  <2>1. c.orderMap[x].Side = side /\ c.orderMap[y].Side = side
    BY <1>1, <1>8
  <2>2. c.orderMap[x].Price \in DOMAIN R /\ c.orderMap[y].Price \in DOMAIN R
    BY <1>2, <1>4, <2>1, QueuedAt
  <2> QED
    BY <1>8, <2>2
<1>10. Keeps(Q[p], R[p], id) /\ Keeps(Q[q], R[q], id)
  BY <1>2, <1>3, <1>4, <1>9
<1>11. Ahead(R, side, x, y)
  <2>1. CASE Abstract!Beats(side, p, q)
    <3>1. PICK j2 \in DOMAIN R[p] : R[p][j2] = x
      BY <1>7, <1>10 DEF Keeps
    <3>2. PICK l2 \in DOMAIN R[q] : R[q][l2] = y
      BY <1>7, <1>10 DEF Keeps
    <3> QED
      BY <1>9, <2>1, <3>1, <3>2 DEF Ahead
  <2>2. CASE p = q /\ j < l
    <3>1. PICK j2 \in DOMAIN R[p], l2 \in DOMAIN R[p] : R[p][j2] = x /\ R[p][l2] = y /\ j2 < l2
      BY <1>7, <1>10, <2>2 DEF Keeps
    <3> QED
      BY <1>9, <2>2, <3>1 DEF Ahead
  <2> QED
    BY <1>7, <2>1, <2>2
<1>12. side = c.orderMap[x].Side
  BY <1>1
<1> QED
  BY <1>4, <1>11, <1>12, ServedIsAhead

\* A queue keeps its orders.
LEMMA KeepsSelf ==
    ASSUME NEW q, NEW id
    PROVE  Keeps(q, q, id)
BY DEF Keeps

\* So does a queue that an order joins at its end.
LEMMA KeepsAppended ==
    ASSUME NEW q \in Seq(Nat \ {0}), NEW e, NEW id
    PROVE  Keeps(q, Append(q, e), id)
<1>1. PICK r : r = Append(q, e)
  OBVIOUS
<1>2. \A j \in DOMAIN q : j \in DOMAIN r /\ r[j] = q[j]
  BY <1>1
<1> QED
  BY <1>1, <1>2 DEF Keeps

\* Taking an order out of a queue leaves the others in their order.
LEMMA KeepsRemoved ==
    ASSUME NEW q \in Seq(Nat \ {0}), Distinct(q), NEW id
    PROVE  Keeps(q, Abstract!RemoveFirst(q, id), id)
<1>1. CASE ~InQueue(q, id)
  BY <1>1, RemoveFirstIs, KeepsSelf
<1>2. ASSUME NEW m \in DOMAIN q, q[m] = id PROVE Keeps(q, Abstract!RemoveFirst(q, id), id)
  <2>1. PICK r : r = RemoveAt(q, m)
    OBVIOUS
  <2>2. Abstract!RemoveFirst(q, id) = r
    BY <1>2, <2>1, RemoveFirstIs
  <2>3. Len(q) \in Nat /\ DOMAIN q = 1 .. Len(q) /\ m \in 1 .. Len(q)
    BY LenProperties
  <2>4. /\ r \in Seq(Nat \ {0}) /\ Len(r) = Len(q) - 1
        /\ \A k \in 1 .. Len(q) - 1 : r[k] = IF k < m THEN q[k] ELSE q[k + 1]
    BY <2>1, <2>3, RemoveAtProperties
  <2>5. DOMAIN r = 1 .. Len(q) - 1
    BY <2>4, LenProperties
  <2> DEFINE new(k) == IF k < m THEN k ELSE k - 1
  <2>6. ASSUME NEW j \in DOMAIN q, q[j] # id PROVE new(j) \in DOMAIN r /\ r[new(j)] = q[j] /\ j # m
    <3>1. j # m /\ j \in 1 .. Len(q)
      BY <1>2, <2>3, <2>6
    <3>2. CASE j < m
      BY <2>3, <2>4, <2>5, <3>1, <3>2
    <3>3. CASE j > m
      <4>1. j - 1 \in 1 .. Len(q) - 1 /\ ~(j - 1 < m) /\ new(j) = j - 1 /\ j - 1 + 1 = j
        BY <2>3, <3>1, <3>3
      <4> QED
        BY <2>4, <2>5, <3>1, <4>1
    <3> QED
      BY <2>3, <3>1, <3>2, <3>3
  <2>7. \A j, l \in DOMAIN q : j # m /\ l # m /\ j < l => new(j) < new(l)
    BY <2>3
  <2> HIDE DEF new
  <2>8. Keeps(q, r, id)
    BY <2>6, <2>7 DEF Keeps
  <2> QED
    BY <2>2, <2>8
<1> QED
  BY <1>1, <1>2 DEF InQueue

\* The queues of a book are sequences of distinct orders.
LEMMA QueueTypes ==
    ASSUME NEW b, BookOK(b), b = [levels |-> b.levels, orderMap |-> b.orderMap],
           NEW side \in Sides, NEW p \in DOMAIN Queues(b)[side]
    PROVE  Queues(b)[side][p] \in Seq(Nat \ {0}) /\ Distinct(Queues(b)[side][p])
<1>1. PICK levels : levels = b.levels[side]
  OBVIOUS
<1>2. PICK d \in BOOLEAN : SideOK(levels, d)
  BY <1>1, SideOfBook
<1>3. Queues(b)[side] = QueueOf(levels)
  BY <1>1 DEF Queues
<1>4. PICK i \in DOMAIN levels : levels[i].Price = p
  BY <1>2, <1>3, QueueView DEF HasPrice
<1>5. QueueOf(levels)[p] = levels[i].Orders
  BY <1>2, <1>4, QueueView
<1>6. levels[i].Orders \in Seq(Nat \ {0}) /\ Distinct(levels[i].Orders)
  BY <1>2, LevelTypes DEF SideOK, SideDistinct, Distinct
<1> QED
  BY <1>3, <1>5, <1>6

\* AddOrder: nobody who stays is overtaken.
LEMMA AddOrderPriority ==
    ASSUME NEW b, BookOK(b), b = [levels |-> b.levels, orderMap |-> b.orderMap],
           NEW o \in Order, o.ID \notin DOMAIN b.orderMap, NEW c, c = AddOrder(b, o),
           NEW x \in DOMAIN b.orderMap, x \in DOMAIN c.orderMap,
           NEW y \in DOMAIN b.orderMap, y \in DOMAIN c.orderMap,
           ServedBefore(b, x, y)
    PROVE  ServedBefore(c, x, y)
<1>1. BookOK(c)
  BY AddOrderOK
<1>2. c = [levels |-> c.levels, orderMap |-> c.orderMap]
  BY <1>1, BookIsRecord DEF BookOK
<1>3. /\ x # o.ID /\ c.orderMap[x] = b.orderMap[x]
      /\ y # o.ID /\ c.orderMap[y] = b.orderMap[y]
  BY AddOrderMap
<1>4. PICK side \in Sides : side = o.Side
  BY DEF Order
<1>5. Queues(c) = [Queues(b) EXCEPT ![side] = Abstract!Join(side, @, o.Price, o.ID)]
  BY <1>4, AddOrderQueues
<1>6. DOMAIN Queues(b) = Sides
  BY DEF Queues
<1>7. ASSUME NEW s \in Sides, NEW p \in DOMAIN Queues(b)[s], p \in DOMAIN Queues(c)[s]
      PROVE  Keeps(Queues(b)[s][p], Queues(c)[s][p], o.ID)
  <2>1. CASE s # side
    BY <1>5, <1>6, <2>1, KeepsSelf
  <2>2. CASE s = side
    <3>1. PICK Q : Q = Queues(b)[side]
      OBVIOUS
    <3>2. Queues(c)[side] = Abstract!Join(side, Q, o.Price, o.ID)
      BY <1>5, <1>6, <3>1
    <3>3. Queues(c)[side][p] = IF p # o.Price THEN Q[p] ELSE Append(Q[p], o.ID)
      BY <1>7, <2>2, <3>1, <3>2 DEF Abstract!Join
    <3>4. Q[p] \in Seq(Nat \ {0})
      BY <1>7, <2>2, <3>1, QueueTypes
    <3>5. Keeps(Q[p], Queues(c)[side][p], o.ID)
      BY <3>3, <3>4, KeepsSelf, KeepsAppended
    <3> QED
      BY <2>2, <3>1, <3>5
  <2> QED
    BY <2>1, <2>2
<1>8. \A s \in Sides : \A p \in DOMAIN Queues(b)[s] \cap DOMAIN Queues(c)[s] :
          Keeps(Queues(b)[s][p], Queues(c)[s][p], o.ID)
  BY <1>7
<1> QED
  BY <1>1, <1>2, <1>3, <1>8, PriorityStep

\* RemoveOrder: nobody who stays is overtaken.
LEMMA RemoveOrderPriority ==
    ASSUME NEW b, BookOK(b), b = [levels |-> b.levels, orderMap |-> b.orderMap],
           NEW id \in DOMAIN b.orderMap, NEW c, c = RemoveOrder(b, id),
           NEW x \in DOMAIN b.orderMap, x \in DOMAIN c.orderMap,
           NEW y \in DOMAIN b.orderMap, y \in DOMAIN c.orderMap,
           ServedBefore(b, x, y)
    PROVE  ServedBefore(c, x, y)
<1>1. /\ BookOK(c) /\ c = [levels |-> c.levels, orderMap |-> c.orderMap]
      /\ c.orderMap = Without(b.orderMap, {id})
  BY RemoveOrderOK
<1>2. /\ x # id /\ c.orderMap[x] = b.orderMap[x]
      /\ y # id /\ c.orderMap[y] = b.orderMap[y]
  BY <1>1 DEF Without
<1>3. PICK side : side = b.orderMap[id].Side
  OBVIOUS
<1>4. Queues(c) = [Queues(b) EXCEPT ![side] = Abstract!Leave(@, id)]
  BY <1>3, RemoveOrderQueues
<1>5. DOMAIN Queues(b) = Sides
  BY DEF Queues
<1>6. ASSUME NEW s \in Sides, NEW p \in DOMAIN Queues(b)[s], p \in DOMAIN Queues(c)[s]
      PROVE  Keeps(Queues(b)[s][p], Queues(c)[s][p], id)
  <2>1. CASE s # side
    BY <1>4, <1>5, <2>1, KeepsSelf
  <2>2. CASE s = side
    <3>1. PICK Q : Q = Queues(b)[s]
      OBVIOUS
    <3>2. Queues(c)[s] = Abstract!Leave(Q, id)
      BY <1>4, <1>5, <2>2, <3>1
    <3>3. Queues(c)[s][p] = Abstract!RemoveFirst(Q[p], id)
      BY <1>6, <3>2 DEF Abstract!Leave
    <3>4. Q[p] \in Seq(Nat \ {0}) /\ Distinct(Q[p])
      BY <1>6, <3>1, QueueTypes
    <3> QED
      BY <3>1, <3>3, <3>4, KeepsRemoved
  <2> QED
    BY <2>1, <2>2
<1>7. \A s \in Sides : \A p \in DOMAIN Queues(b)[s] \cap DOMAIN Queues(c)[s] :
          Keeps(Queues(b)[s][p], Queues(c)[s][p], id)
  BY <1>6
<1> QED
  BY <1>1, <1>2, <1>7, PriorityStep

\* What PriorityKept says of a step.
KeepsPriority ==
    /\ \A x, y \in Survivors :
           ServedBefore(book, x, y) => ServedBefore(book', x, y)
    /\ \A x \in Survivors :
           /\ book'.orderMap[x].Price = book.orderMap[x].Price
           /\ book'.orderMap[x].Shares <= book.orderMap[x].Shares
           /\ book'.orderMap[x].Shares < book.orderMap[x].Shares =>
                 \A y \in DOMAIN book.orderMap : ~ServedBefore(book, y, x)

\* It is enough that the orders who stay are as they were.
LEMMA SamePriority ==
    ASSUME Inv,
           \A x \in Survivors : book'.orderMap[x] = book.orderMap[x],
           \A x, y \in Survivors : ServedBefore(book, x, y) => ServedBefore(book', x, y)
    PROVE  KeepsPriority
<1>1. \A x \in Survivors : book.orderMap[x].Shares \in Nat
  BY InvFacts DEF Survivors, Order
<1> QED
  BY <1>1 DEF KeepsPriority

\* Nobody is ahead of the first order.
LEMMA NobodyAhead ==
    ASSUME Inv, Quoted, NEW side \in Sides, NEW id, id = FirstOrder(book, side),
           NEW y \in DOMAIN book.orderMap
    PROVE  ~ServedBefore(book, y, id)
<1> SUFFICES ASSUME ServedBefore(book, y, id) PROVE FALSE
  OBVIOUS
<1>1. PICK levels : levels = book.levels[side]
  OBVIOUS
<1>2. /\ 1 \in DOMAIN levels /\ 1 \in DOMAIN levels[1].Orders /\ levels[1].Orders[1] = id
      /\ id \in DOMAIN book.orderMap /\ book.orderMap[id].Side = side
  BY <1>1, HeadOfSide
<1>3. PICK s : s = book.orderMap[y].Side
  OBVIOUS
<1>4. s \in Sides
  BY <1>3, InvFacts DEF Order
<1>5. PICK l2 : l2 = book.levels[s]
  OBVIOUS
<1>6. PICK i \in DOMAIN l2 : \E j \in DOMAIN l2[i].Orders :
          \E k \in i .. Len(l2) : \E l \in DOMAIN l2[k].Orders :
              (i = k => j < l) /\ Holds(l2, k, l, id)
  BY <1>3, <1>5 DEF ServedBefore
<1>7. PICK j \in DOMAIN l2[i].Orders :
          \E k \in i .. Len(l2) : \E l \in DOMAIN l2[k].Orders :
              (i = k => j < l) /\ Holds(l2, k, l, id)
  BY <1>6
<1>8. PICK k \in i .. Len(l2) : \E l \in DOMAIN l2[k].Orders :
          (i = k => j < l) /\ Holds(l2, k, l, id)
  BY <1>7
<1>9. PICK l \in DOMAIN l2[k].Orders : (i = k => j < l) /\ Holds(l2, k, l, id)
  BY <1>8
<1>10. k \in DOMAIN l2 /\ l2[k].Orders[l] = id
  BY <1>9 DEF Holds
<1>11. s = side /\ l2[k].Price = book.orderMap[id].Price
  BY <1>2, <1>4, <1>5, <1>10 DEF Inv, BookOK, Reachable
<1>12. l2 = levels /\ levels[1].Price = book.orderMap[id].Price
  BY <1>1, <1>2, <1>5, <1>11 DEF Inv, BookOK, Reachable
<1>13. PICK d \in BOOLEAN : SideOK(levels, d)
  BY <1>1, InvFacts, SideOfBook
<1>14. levels \in Seq(PriceLevel) /\ SideSorted(levels, d) /\ SideDistinct(levels)
  BY <1>13 DEF SideOK
<1>15. k = 1
  BY <1>2, <1>10, <1>11, <1>12, <1>14, PricesDistinct
<1>16. l = 1
  BY <1>2, <1>9, <1>10, <1>12, <1>14, <1>15 DEF SideDistinct
<1>17. /\ i \in Nat \ {0} /\ j \in Nat \ {0} /\ Len(levels) \in Nat
  <2>1. Len(levels) \in Nat /\ DOMAIN levels = 1 .. Len(levels) /\ i \in DOMAIN levels
    BY <1>12, <1>14, LevelTypes
  <2>2. Len(levels[i].Orders) \in Nat /\ DOMAIN levels[i].Orders = 1 .. Len(levels[i].Orders)
    BY <1>14, <2>1, LevelTypes
  <2>3. j \in DOMAIN levels[i].Orders
    BY <1>12
  <2> QED
    BY <2>1, <2>2, <2>3
<1>18. i = 1
  BY <1>8, <1>12, <1>15, <1>17
<1> QED
  BY <1>9, <1>15, <1>16, <1>17, <1>18

\* Each way of changing the book keeps the priorities.
LEMMA StepPriority ==
    ASSUME Inv, [Next]_vars
    PROVE  KeepsPriority \/ book' = book
<1>1. CASE Idles
  BY <1>1 DEF Idles
<1>2. BookOK(book) /\ book = [levels |-> book.levels, orderMap |-> book.orderMap]
  BY InvFacts
<1>3. ASSUME NEW o, Enters(o) PROVE KeepsPriority
  <2>1. o \in Order /\ o.ID \notin DOMAIN book.orderMap /\ book' = AddOrder(book, o)
    BY <1>3, InvFacts DEF Enters
  <2>2. \A x \in Survivors : book'.orderMap[x] = book.orderMap[x]
    BY <2>1, AddOrderMap DEF Survivors
  <2>3. \A x, y \in Survivors : ServedBefore(book, x, y) => ServedBefore(book', x, y)
    BY <1>2, <2>1, AddOrderPriority DEF Survivors
  <2> QED
    BY <2>2, <2>3, SamePriority
<1>4. ASSUME NEW id, Cancels(id) PROVE KeepsPriority
  <2>1. id \in DOMAIN book.orderMap /\ book' = RemoveOrder(book, id)
    BY <1>4 DEF Cancels
  <2>2. \A x \in Survivors : book'.orderMap[x] = book.orderMap[x]
    <3>1. book'.orderMap = Without(book.orderMap, {id})
      BY <1>2, <2>1, RemoveOrderOK
    <3> QED
      BY <3>1 DEF Survivors, Without
  <2>3. \A x, y \in Survivors : ServedBefore(book, x, y) => ServedBefore(book', x, y)
    BY <1>2, <2>1, RemoveOrderPriority DEF Survivors
  <2> QED
    BY <2>2, <2>3, SamePriority
<1>5. ASSUME NEW old, NEW p, NEW n, Replaces(old, p, n) PROVE KeepsPriority
  <2>1. /\ old \in DOMAIN book.orderMap /\ p \in Nat \ {0} /\ n \in Nat \ {0}
        /\ book' = ReplaceOrder(book, old, NextOrderID, p, n)
    BY <1>5, SimulatorAssumption DEF Replaces
  <2>2. PICK c : c = RemoveOrder(book, old)
    OBVIOUS
  <2>3. PICK o : o = Replacement(book.orderMap[old], NextOrderID, p, n)
    OBVIOUS
  <2>4. book' = AddOrder(c, o)
    BY <2>1, <2>2, <2>3 DEF ReplaceOrder
  <2>5. o \in Order /\ o.ID = NextOrderID
    BY <2>1, <2>3, InvFacts DEF Replacement, Order
  <2>6. /\ BookOK(c) /\ c = [levels |-> c.levels, orderMap |-> c.orderMap]
        /\ c.orderMap = Without(book.orderMap, {old})
    BY <1>2, <2>1, <2>2, RemoveOrderOK
  <2>7. o.ID \notin DOMAIN c.orderMap
    BY <2>5, <2>6, InvFacts DEF Without
  <2>8. \A x \in Survivors : x \in DOMAIN c.orderMap /\ book'.orderMap[x] = c.orderMap[x]
                                                     /\ c.orderMap[x] = book.orderMap[x]
    <3>1. \A x \in Survivors : x # o.ID
      BY <2>5, InvFacts DEF Survivors
    <3>2. \A x \in Survivors : x \in DOMAIN c.orderMap /\ book'.orderMap[x] = c.orderMap[x]
      BY <2>4, <3>1, AddOrderMap DEF Survivors
    <3> QED
      BY <2>6, <3>2 DEF Without
  <2>9. ASSUME NEW x \in Survivors, NEW y \in Survivors, ServedBefore(book, x, y)
        PROVE  ServedBefore(book', x, y)
    <3>1. ServedBefore(c, x, y)
      BY <1>2, <2>1, <2>2, <2>8, <2>9, RemoveOrderPriority DEF Survivors
    <3>2. x \in DOMAIN book'.orderMap /\ y \in DOMAIN book'.orderMap
      BY DEF Survivors
    <3> QED
      BY <2>4, <2>5, <2>6, <2>7, <2>8, <3>1, <3>2, AddOrderPriority
  <2> QED
    BY <2>8, <2>9, SamePriority
<1>6. ASSUME NEW side, NEW id, NEW n, Trades(side, id, n) PROVE KeepsPriority
  <2>1. /\ side \in Sides /\ Quoted /\ id = FirstOrder(book, side)
        /\ book' = ReduceOrder(book, id, n)
    BY <1>6 DEF Trades
  <2>2. id \in DOMAIN book.orderMap /\ book.orderMap[id] \in Order
    BY <2>1, FirstInMap, InvFacts
  <2>3. book.orderMap[id].Shares \in Nat \ {0} /\ n \in Nat \ {0} /\ n <= book.orderMap[id].Shares
    BY <1>6, <2>2 DEF Trades, IntRange, Order
  <2>4. CASE n = book.orderMap[id].Shares
    <3>1. book' = RemoveOrder(book, id)
      BY <2>1, <2>2, <2>3, <2>4 DEF ReduceOrder
    <3>2. orderIDCounter' = orderIDCounter
      BY <1>6 DEF Trades
    <3> QED
      BY <1>4, <2>2, <3>1, <3>2 DEF Cancels
  <2>5. CASE n # book.orderMap[id].Shares
    <3>1. book' = [book EXCEPT !.orderMap[id].Shares = @ - n]
      BY <2>1, <2>2, <2>3, <2>5 DEF ReduceOrder
    <3>2. book'.levels = book.levels
      BY <1>2, <3>1
    <3>3. Reduced(book.orderMap, id, n, book'.orderMap)
      BY <1>2, <2>1, <2>2, <2>3, ReduceOrderOK
    <3>4. /\ DOMAIN book'.orderMap = DOMAIN book.orderMap
          /\ \A x \in DOMAIN book.orderMap : x # id => book'.orderMap[x] = book.orderMap[x]
          /\ book'.orderMap[id].Shares = book.orderMap[id].Shares - n
          /\ book'.orderMap[id].Price = book.orderMap[id].Price
          /\ book'.orderMap[id].Side = book.orderMap[id].Side
      BY <2>2, <2>3, <2>5, <3>3 DEF Reduced, Order
    <3>5. \A x, y \in Survivors : ServedBefore(book, x, y) => ServedBefore(book', x, y)
      <4>1. \A x \in DOMAIN book.orderMap : book'.orderMap[x].Side = book.orderMap[x].Side
        BY ONLY <3>4
      <4>2. ASSUME NEW x \in Survivors, NEW y \in Survivors, ServedBefore(book, x, y)
            PROVE  ServedBefore(book', x, y)
        <5>1. book'.levels[book'.orderMap[x].Side] = book.levels[book.orderMap[x].Side]
          BY ONLY <3>2, <4>1, x \in Survivors DEF Survivors
        <5> QED
          BY ONLY <5>1, ServedBefore(book, x, y) DEF ServedBefore
      <4> QED
        BY ONLY <4>2
    <3>6. \A x \in Survivors : book.orderMap[x].Shares \in Nat
      BY InvFacts DEF Survivors, Order
    <3>7. \A y \in DOMAIN book.orderMap : ~ServedBefore(book, y, id)
      BY <2>1, NobodyAhead
    <3> QED
      BY <2>3, <3>4, <3>5, <3>6, <3>7 DEF KeepsPriority, Survivors
  <2> QED
    BY <2>4, <2>5
<1> QED
  BY <1>1, <1>3, <1>4, <1>5, <1>6, StepKinds

\* Price-time priority: no handler lets an order overtake one that rested
\* before it, and an execution reduces only the order nobody is ahead of.
THEOREM PriorityIsKept == Spec => PriorityKept
<1>1. Inv /\ [Next]_vars => [KeepsPriority]_book
  BY StepPriority
<1>2. []Inv /\ [][Next]_vars => [][KeepsPriority]_book
  BY <1>1, PTL
<1> QED
  BY <1>2, Invariance, PTL DEF Spec, PriorityKept, KeepsPriority

-----------------------------------------------------------------------------
(* The sort of addToSide.                                                  *)

\* s has the levels of a side, each once, and lv.
Appended(s, levels, lv) ==
    /\ s \in Seq(PriceLevel) /\ DOMAIN s = 1 .. Len(levels) + 1
    /\ \A i \in 1 .. Len(levels) : s[i] = levels[i]
    /\ s[Len(levels) + 1] = lv

\* A new level makes no price appear twice.
LEMMA AppendedDistinct ==
    ASSUME NEW levels, NEW d \in BOOLEAN, SideOK(levels, d),
           NEW lv \in PriceLevel, ~HasPrice(levels, lv.Price),
           NEW s, Appended(s, levels, lv),
           NEW i \in DOMAIN s, NEW k \in DOMAIN s, s[i].Price = s[k].Price
    PROVE  i = k
<1>1. /\ levels \in Seq(PriceLevel) /\ SideSorted(levels, d) /\ Len(levels) \in Nat
      /\ DOMAIN levels = 1 .. Len(levels)
  BY LevelTypes DEF SideOK
<1>2. \A j \in DOMAIN s : \/ j \in DOMAIN levels /\ s[j] = levels[j]
                          \/ j = Len(levels) + 1 /\ s[j] = lv
  <2>1. /\ DOMAIN s = 1 .. Len(levels) + 1 /\ s[Len(levels) + 1] = lv
        /\ \A j \in 1 .. Len(levels) : s[j] = levels[j]
    BY DEF Appended
  <2>2. \A j \in 1 .. Len(levels) + 1 : j \in 1 .. Len(levels) \/ j = Len(levels) + 1
    BY <1>1
  <2> QED
    BY <1>1, <2>1, <2>2
<1>3. \A j \in DOMAIN levels : levels[j].Price # lv.Price
  BY DEF HasPrice
<1>4. CASE i \in DOMAIN levels /\ s[i] = levels[i] /\ k \in DOMAIN levels /\ s[k] = levels[k]
  BY <1>1, <1>4, PricesDistinct
<1>5. CASE i \in DOMAIN levels /\ s[i] = levels[i] /\ k = Len(levels) + 1 /\ s[k] = lv
  BY <1>3, <1>5
<1>6. CASE i = Len(levels) + 1 /\ s[i] = lv /\ k \in DOMAIN levels /\ s[k] = levels[k]
  BY <1>3, <1>6
<1>7. CASE i = Len(levels) + 1 /\ k = Len(levels) + 1
  BY <1>7
<1>8. \/ i \in DOMAIN levels /\ s[i] = levels[i]
      \/ i = Len(levels) + 1 /\ s[i] = lv
  BY ONLY <1>2, i \in DOMAIN s
<1>9. \/ k \in DOMAIN levels /\ s[k] = levels[k]
      \/ k = Len(levels) + 1 /\ s[k] = lv
  BY ONLY <1>2, k \in DOMAIN s
<1> QED
  BY ONLY <1>4, <1>5, <1>6, <1>7, <1>8, <1>9

\* Two sorted sides with the same levels are equal: the place of a level is
\* the number of better prices.
LEMMA SortedIsUnique ==
    ASSUME NEW t, NEW u, NEW d \in BOOLEAN, SideOK(t, d), SideOK(u, d),
           DOMAIN t = DOMAIN u,
           \A i \in DOMAIN t : \E k \in DOMAIN u : t[i] = u[k],
           \A k \in DOMAIN u : \E i \in DOMAIN t : t[i] = u[k]
    PROVE  t = u
<1>1. DOMAIN QueueOf(t) = DOMAIN QueueOf(u)
  <2>1. \A p : HasPrice(t, p) <=> HasPrice(u, p)
    BY DEF HasPrice
  <2>2. \A p : p \in DOMAIN QueueOf(t) <=> HasPrice(t, p)
    BY QueueView
  <2>3. \A p : p \in DOMAIN QueueOf(u) <=> HasPrice(u, p)
    BY QueueView
  <2> QED
    BY <2>1, <2>2, <2>3
<1>2. t \in Seq(PriceLevel) /\ u \in Seq(PriceLevel)
  BY DEF SideOK
<1>3. ASSUME NEW i \in DOMAIN t PROVE t[i] = u[i]
  <2>1. PICK k \in DOMAIN u : t[i] = u[k]
    OBVIOUS
  <2>2. PICK B : B = {p \in DOMAIN QueueOf(t) : Better(p, t[i].Price, d)}
    OBVIOUS
  <2>3. B = {p \in DOMAIN QueueOf(u) : Better(p, u[k].Price, d)}
    BY <1>1, <2>1, <2>2
  <2>4. Cardinality(B) = i - 1
    BY <2>2, Rank
  <2>5. Cardinality(B) = k - 1
    BY <2>3, Rank
  <2>6. i \in Int /\ k \in Int
    <3>1. DOMAIN u = 1 .. Len(u) /\ Len(u) \in Nat
      BY <1>2, LenProperties
    <3> QED
      BY <3>1
  <2>7. i = k
    BY <2>4, <2>5, <2>6
  <2> QED
    BY <2>1, <2>7
<1>4. Len(t) = Len(u) /\ Len(t) \in Nat /\ DOMAIN t = 1 .. Len(t)
  BY <1>2, LenProperties
<1> QED
  BY <1>2, <1>3, <1>4, SeqEqual

\* The insertion is sorted and a rearrangement.
LEMMA InsertedIsSorted ==
    ASSUME NEW levels, NEW d \in BOOLEAN, SideOK(levels, d), NEW lv,
           NEW s, Appended(s, levels, lv),
           NEW n \in 1 .. Len(levels) + 1, NEW u, Inserted(u, levels, n, lv), SideOK(u, d)
    PROVE  u \in Rearranged(s) /\ NoInversion(u, d)
<1>1. PICK m \in Nat : m = Len(levels)
  BY LevelTypes DEF SideOK
<1>2. /\ s \in Seq(PriceLevel) /\ DOMAIN s = 1 .. m + 1
      /\ \A i \in 1 .. m : s[i] = levels[i]
      /\ s[m + 1] = lv
  BY <1>1 DEF Appended
<1>3. /\ u \in Seq(PriceLevel) /\ Len(u) = m + 1
      /\ \A k \in 1 .. m + 1 :
             u[k] = IF k < n THEN levels[k] ELSE IF k = n THEN lv ELSE levels[k - 1]
  BY <1>1 DEF Inserted
<1>4. n \in 1 .. m + 1 /\ DOMAIN u = 1 .. m + 1
  BY <1>1, <1>3, LenProperties
<1> DEFINE f == [k \in 1 .. m + 1 |-> IF k < n THEN k ELSE IF k = n THEN m + 1 ELSE k - 1]
<1>5. f \in [1 .. m + 1 -> 1 .. m + 1]
  BY <1>4
<1>6. \A j, k \in 1 .. m + 1 : f[j] = f[k] => j = k
  BY <1>4
<1>7. ASSUME NEW k \in 1 .. m + 1 PROVE \E j \in 1 .. m + 1 : f[j] = k
  <2>1. CASE k < n
    BY <1>4, <2>1
  <2>2. CASE k >= n /\ k < m + 1
    <3>1. k + 1 \in 1 .. m + 1 /\ f[k + 1] = k
      BY <1>4, <2>2
    <3> QED
      BY <3>1
  <2>3. CASE k = m + 1
    BY <1>4, <2>3
  <2> QED
    BY <1>4, <2>1, <2>2, <2>3
<1>8. ASSUME NEW k \in 1 .. m + 1 PROVE u[k] = s[f[k]]
  <2>1. CASE k < n
    <3>1. f[k] = k /\ k \in 1 .. m
      BY <1>4, <2>1
    <3> QED
      BY <1>2, <1>3, <2>1, <3>1
  <2>2. CASE k = n
    BY <1>2, <1>3, <1>4, <2>2
  <2>3. CASE k > n
    <3>1. f[k] = k - 1 /\ k - 1 \in 1 .. m /\ ~(k < n) /\ k # n
      BY <1>4, <2>3
    <3> QED
      BY <1>2, <1>3, <3>1
  <2> QED
    BY <1>4, <2>1, <2>2, <2>3
<1> HIDE DEF f
<1>9. f \in Bijection(1 .. m + 1, 1 .. m + 1)
  <2>1. DOMAIN f = 1 .. m + 1 /\ IsInjective(f)
    BY <1>5, <1>6 DEF IsInjective
  <2> QED
    BY <2>1, <1>5, <1>7 DEF Bijection, Injection, Surjection
<1>10. u = [k \in 1 .. m + 1 |-> s[f[k]]]
  <2>1. u = [k \in DOMAIN u |-> u[k]]
    BY <1>3
  <2> QED
    BY <1>4, <1>8, <2>1
<1>11. u \in Rearranged(s)
  BY <1>2, <1>9, <1>10 DEF Rearranged
<1>12. NoInversion(u, d)
  <2>1. \A i \in DOMAIN u : u[i].Price \in Nat
    BY <1>3, LevelTypes
  <2> QED
    BY <2>1 DEF NoInversion, SideOK, SideSorted, Better
<1> QED
  BY <1>11, <1>12

\* A level of a side or a new one has orders, each once.
LevelOK(lv) ==
    /\ lv \in PriceLevel /\ lv.Price \in Nat /\ lv.Orders # <<>>
    /\ \A j, k \in DOMAIN lv.Orders : lv.Orders[j] = lv.Orders[k] => j = k

\* The levels to be sorted are such levels.
LEMMA AppendedLevels ==
    ASSUME NEW levels, NEW d \in BOOLEAN, SideOK(levels, d),
           NEW lv \in PriceLevel, NEW id, lv.Orders = <<id>>,
           NEW s, Appended(s, levels, lv), NEW i \in DOMAIN s
    PROVE  LevelOK(s[i])
<1>1. /\ levels \in Seq(PriceLevel) /\ SideFilled(levels) /\ SideDistinct(levels)
      /\ Len(levels) \in Nat /\ DOMAIN levels = 1 .. Len(levels)
  BY LevelTypes DEF SideOK
<1>2. /\ DOMAIN s = 1 .. Len(levels) + 1 /\ s[Len(levels) + 1] = lv
      /\ \A j \in 1 .. Len(levels) : s[j] = levels[j]
  BY DEF Appended
<1>3. CASE i \in 1 .. Len(levels)
  <2>1. i \in DOMAIN levels /\ s[i] = levels[i]
    BY <1>1, <1>2, <1>3
  <2>2. levels[i] \in PriceLevel /\ levels[i].Price \in Nat
    BY <1>1, <2>1, LevelTypes
  <2>3. levels[i].Orders # <<>>
    BY <1>1, <2>1 DEF SideFilled
  <2>4. \A j, k \in DOMAIN levels[i].Orders :
            levels[i].Orders[j] = levels[i].Orders[k] => j = k
    BY <1>1, <2>1 DEF SideDistinct
  <2>5. LevelOK(levels[i])
    BY ONLY <2>2, <2>3, <2>4 DEF LevelOK
  <2> QED
    BY <2>1, <2>5
<1>4. CASE i = Len(levels) + 1
  <2>1. lv.Price \in Nat
    BY DEF PriceLevel
  <2>2. /\ lv.Orders # <<>>
        /\ \A j, k \in DOMAIN lv.Orders : lv.Orders[j] = lv.Orders[k] => j = k
    <3>1. PICK o : o = lv.Orders
      OBVIOUS
    <3>2. o = <<id>>
      BY <3>1
    <3>3. o # <<>> /\ DOMAIN o = {1}
      BY ONLY <3>2
    <3> QED
      BY ONLY <3>1, <3>3
  <2>3. LevelOK(lv)
    BY ONLY <2>1, <2>2, lv \in PriceLevel DEF LevelOK
  <2> QED
    BY <1>2, <1>4, <2>3
<1>5. i \in 1 .. Len(levels) \/ i = Len(levels) + 1
  BY <1>1, <1>2
<1> QED
  BY ONLY <1>3, <1>4, <1>5

\* t is s, levels of different prices, rearranged by f.
RearrangedBy(t, s, f, m) ==
    /\ t \in Seq(PriceLevel) /\ DOMAIN t = 1 .. m
    /\ \A i \in 1 .. m : LevelOK(s[i]) /\ f[i] \in 1 .. m /\ t[i] = s[f[i]]
    /\ \A i, k \in 1 .. m : s[i].Price = s[k].Price => i = k
    /\ \A i, k \in 1 .. m : f[i] = f[k] => i = k

\* A rearrangement without inversions of levels whose prices differ is a side.
LEMMA RearrangedSide ==
    ASSUME NEW m \in Nat, NEW d \in BOOLEAN, NEW s, NEW t, NEW f,
           NoInversion(t, d), RearrangedBy(t, s, f, m)
    PROVE  SideOK(t, d)
<1> USE DEF RearrangedBy
<1>1. ASSUME NEW i \in 1 .. m PROVE LevelOK(t[i])
  OBVIOUS
<1>2. SideSorted(t, d)
  <2> SUFFICES ASSUME NEW i \in 1 .. m, NEW k \in 1 .. m, i < k
               PROVE  Better(t[i].Price, t[k].Price, d)
    BY DEF SideSorted
  <2>1. ~Better(t[k].Price, t[i].Price, d)
    BY DEF NoInversion
  <2>2. t[i].Price # t[k].Price
    <3>1. f[i] # f[k]
      OBVIOUS
    <3>2. s[f[i]].Price # s[f[k]].Price
      BY <3>1
    <3> QED
      BY <3>2
  <2>3. t[i].Price \in Nat /\ t[k].Price \in Nat
    BY <1>1 DEF LevelOK
  <2> QED
    BY ONLY <2>1, <2>2, <2>3, d \in BOOLEAN DEF Better
<1>3. SideFilled(t) /\ SideDistinct(t)
  BY <1>1 DEF LevelOK, SideFilled, SideDistinct
<1> QED
  BY <1>2, <1>3 DEF SideOK

\* A sorted rearrangement is the insertion.
LEMMA SortedIsInserted ==
    ASSUME NEW levels, NEW d \in BOOLEAN, SideOK(levels, d),
           NEW lv \in PriceLevel, ~HasPrice(levels, lv.Price), NEW id, lv.Orders = <<id>>,
           NEW s, Appended(s, levels, lv),
           NEW n \in 1 .. Len(levels) + 1, NEW u, Inserted(u, levels, n, lv), SideOK(u, d),
           NEW t, t \in Rearranged(s), NoInversion(t, d)
    PROVE  t = u
<1>1. PICK m \in Nat : m = Len(levels) + 1
  BY LevelTypes DEF SideOK
<1>2. DOMAIN s = 1 .. m
  BY <1>1 DEF Appended
<1>3. PICK f \in Bijection(1 .. m, 1 .. m) : t = [i \in 1 .. m |-> s[f[i]]]
  BY <1>2 DEF Rearranged
<1>4. /\ f \in [1 .. m -> 1 .. m]
      /\ \A i, k \in 1 .. m : f[i] = f[k] => i = k
      /\ \A k \in 1 .. m : \E i \in 1 .. m : f[i] = k
  BY <1>3 DEF Bijection, Injection, Surjection, IsInjective
<1>5. DOMAIN t = 1 .. m /\ \A i \in 1 .. m : f[i] \in 1 .. m /\ t[i] = s[f[i]]
  BY <1>3, <1>4
<1>6. \A i, k \in 1 .. m : s[i].Price = s[k].Price => i = k
  BY <1>2, AppendedDistinct
<1>7. \A i \in 1 .. m : LevelOK(s[i])
  BY <1>2, AppendedLevels
<1>8. SideOK(t, d)
  <2>1. \A i \in 1 .. m : s[f[i]] \in PriceLevel
    BY ONLY <1>5, <1>7 DEF LevelOK
  <2>2. t \in [1 .. m -> PriceLevel]
    BY ONLY <1>3, <2>1
  <2>3. t \in Seq(PriceLevel)
    BY <2>2, SeqDef
  <2>4. RearrangedBy(t, s, f, m)
    BY ONLY <1>4, <1>5, <1>6, <1>7, <2>3 DEF RearrangedBy
  <2> QED
    BY <2>4, RearrangedSide
<1>9. u \in Rearranged(s)
  BY InsertedIsSorted
<1>10. PICK g \in Bijection(1 .. m, 1 .. m) : u = [i \in 1 .. m |-> s[g[i]]]
  BY <1>2, <1>9 DEF Rearranged
<1>11. g \in [1 .. m -> 1 .. m] /\ \A k \in 1 .. m : \E i \in 1 .. m : g[i] = k
  BY <1>10 DEF Bijection, Injection, Surjection
<1>12. DOMAIN u = 1 .. m /\ \A i \in 1 .. m : g[i] \in 1 .. m /\ u[i] = s[g[i]]
  BY <1>10, <1>11
<1>13. ASSUME NEW i \in DOMAIN t PROVE \E k \in DOMAIN u : t[i] = u[k]
  <2>1. i \in 1 .. m /\ f[i] \in 1 .. m /\ t[i] = s[f[i]]
    BY ONLY <1>5, i \in DOMAIN t
  <2>2. PICK k \in 1 .. m : g[k] = f[i]
    BY ONLY <1>11, <2>1
  <2> QED
    BY ONLY <1>12, <2>1, <2>2
<1>14. ASSUME NEW k \in DOMAIN u PROVE \E i \in DOMAIN t : t[i] = u[k]
  <2>1. k \in 1 .. m /\ g[k] \in 1 .. m /\ u[k] = s[g[k]]
    BY ONLY <1>12, k \in DOMAIN u
  <2>2. PICK i \in 1 .. m : f[i] = g[k]
    BY ONLY <1>4, <2>1
  <2> QED
    BY ONLY <1>5, <2>1, <2>2
<1>15. DOMAIN t = DOMAIN u
  BY ONLY <1>5, <1>12
<1> QED
  BY ONLY <1>8, <1>13, <1>14, <1>15, SideOK(u, d), d \in BOOLEAN, SortedIsUnique

\* addToSide appends the new level and sorts: whatever sort.Slice does with
\* the levels, the result is the one insertion that the model makes.
LEMMA SortIsInsert ==
    ASSUME NEW levels, NEW d \in BOOLEAN, SideOK(levels, d),
           NEW p \in Nat \ {0}, ~HasPrice(levels, p), NEW id \in Nat \ {0},
           NEW lv, lv = [Price |-> p, Orders |-> <<id>>], NEW t
    PROVE  t \in SortsOf(Append(levels, lv), d)
               <=> t = InsertAt(levels, SortedPosition(levels, p, d), lv)
<1>1. lv \in PriceLevel /\ lv.Price = p /\ lv.Orders = <<id>>
  BY DEF PriceLevel
<1>2. PICK s : s = Append(levels, lv)
  OBVIOUS
<1>3. PICK n : n = SortedPosition(levels, p, d)
  OBVIOUS
<1>4. PICK u : u = InsertAt(levels, n, lv)
  OBVIOUS
<1>5. levels \in Seq(PriceLevel) /\ Len(levels) \in Nat /\ DOMAIN levels = 1 .. Len(levels)
  BY LevelTypes DEF SideOK
<1>6. Appended(s, levels, lv)
  <2>1. s \in Seq(PriceLevel) /\ Len(s) = Len(levels) + 1
    BY <1>1, <1>2, <1>5, AppendProperties
  <2>2. \A i \in 1 .. Len(levels) : s[i] = levels[i]
    BY <1>1, <1>2, <1>5, AppendProperties
  <2>3. s[Len(levels) + 1] = lv
    BY <1>1, <1>2, <1>5, AppendProperties
  <2>4. DOMAIN s = 1 .. Len(levels) + 1
    BY <2>1, LenProperties
  <2> QED
    BY <2>1, <2>2, <2>3, <2>4 DEF Appended
<1>7. SplitAt(levels, n, lv.Price, d)
  BY <1>1, <1>3, SortedPositionSplits
<1>8. n \in 1 .. Len(levels) + 1
  BY <1>7 DEF SplitAt
<1>9. Inserted(u, levels, n, lv)
  BY <1>1, <1>4, <1>5, <1>8, InsertedAt
<1>10. SideOK(u, d)
  BY <1>1, <1>7, <1>9, InsertLevel
<1>11. ASSUME t = u PROVE t \in Rearranged(s) /\ NoInversion(t, d)
  BY <1>1, <1>6, <1>8, <1>9, <1>10, <1>11, InsertedIsSorted
<1>12. ASSUME t \in Rearranged(s), NoInversion(t, d) PROVE t = u
  BY <1>1, <1>6, <1>8, <1>9, <1>10, <1>12, SortedIsInserted
<1> QED
  BY <1>2, <1>3, <1>4, <1>11, <1>12 DEF SortsOf

\* addToSide sorts: on every side that is reached the sort has one result, and
\* it is the insertion that the model makes.
THEOREM InsertionIsTheSort == Spec => []InsertIsSort
<1> SUFFICES ASSUME Inv, NEW side \in Sides, NEW p \in 1 .. MaxPrice + AddTicks,
                    ~HasPrice(book.levels[side], p)
             PROVE  LET newLevel == [Price |-> p, Orders |-> <<MaxOrderID + 1>>]
                    IN  SortsOf(Append(book.levels[side], newLevel), side = SideBuy)
                          = {InsertAt(book.levels[side],
                                      SortedPosition(book.levels[side], p, side = SideBuy),
                                      newLevel)}
  <2>1. Inv => InsertIsSort
    BY DEF InsertIsSort
  <2> QED
    BY <2>1, Invariance, PTL
<1>1. PICK levels : levels = book.levels[side]
  OBVIOUS
<1>2. PICK d : d = (side = SideBuy)
  OBVIOUS
<1>3. d \in BOOLEAN /\ SideOK(levels, d)
  <2>1. BookOK(book) /\ book = [levels |-> book.levels, orderMap |-> book.orderMap]
    BY BookIsRecord DEF Inv, BookOK
  <2>2. LevelsOK(book.levels)
    BY <2>1, BookView
  <2> QED
    BY <1>1, <1>2, <2>2 DEF LevelsOK
<1>4. p \in Nat \ {0} /\ MaxOrderID + 1 \in Nat \ {0}
  BY SimulatorAssumption
<1>5. PICK lv : lv = [Price |-> p, Orders |-> <<MaxOrderID + 1>>]
  OBVIOUS
<1>6. \A t : t \in SortsOf(Append(levels, lv), d)
               <=> t = InsertAt(levels, SortedPosition(levels, p, d), lv)
  BY <1>1, <1>3, <1>4, <1>5, SortIsInsert
<1>7. SortsOf(Append(levels, lv), d) = {InsertAt(levels, SortedPosition(levels, p, d), lv)}
  BY <1>6
<1> QED
  BY <1>1, <1>2, <1>5, <1>7
=============================================================================
