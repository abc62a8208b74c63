---------------------------- MODULE OrderBookProofs ----------------------------
(***************************************************************************)
(* Every method of Book preserves BookOK, for every MaxLevels, every book  *)
(* and every order.                                                        *)
(***************************************************************************)
EXTENDS OrderBook, TLAPS, SequenceTheorems, WellFoundedInduction

-----------------------------------------------------------------------------
(* Facts about Min, InsertAt and RemoveAt.                                 *)

\* The minimum of a nonempty set of naturals is in it and below the others.
LEMMA MinOfNats ==
    ASSUME NEW S \in SUBSET Nat, S # {}
    PROVE  /\ Min(S) \in S
           /\ \A x \in S : Min(S) <= x
<1>1. \E x \in S : \A y \in S : ~(<<y, x>> \in OpToRel(<, Nat))
  BY NatLessThanWellFounded, WFMin
<1>2. PICK x \in S : \A y \in S : ~(<<y, x>> \in OpToRel(<, Nat))
  BY <1>1
<1>3. \A y \in S : ~(y < x)
  BY <1>2 DEF OpToRel
<1>4. \A y \in S : x <= y
  BY <1>3
<1> QED
  BY <1>4 DEF Min

\* RemoveAt closes the gap.
LEMMA RemoveAtProperties ==
    ASSUME NEW T, NEW s \in Seq(T), NEW i \in 1 .. Len(s)
    PROVE  /\ RemoveAt(s, i) \in Seq(T)
           /\ Len(RemoveAt(s, i)) = Len(s) - 1
           /\ \A k \in 1 .. Len(s) - 1 :
                  RemoveAt(s, i)[k] = IF k < i THEN s[k] ELSE s[k + 1]
<1> DEFINE l == SubSeq(s, 1, i - 1)
           r == SubSeq(s, i + 1, Len(s))
<1>1. /\ l \in Seq(T) /\ Len(l) = i - 1
      /\ \A k \in 1 .. i - 1 : l[k] = s[k]
  BY SubSeqProperties
<1>2. /\ r \in Seq(T) /\ Len(r) = Len(s) - i
      /\ \A k \in 1 .. Len(s) - i : r[k] = s[i + k]
  BY SubSeqProperties
<1>3. RemoveAt(s, i) = l \o r
  BY DEF RemoveAt
<1> HIDE DEF l, r
<1>4. /\ l \o r \in Seq(T)
      /\ Len(l \o r) = Len(l) + Len(r)
      /\ \A k \in 1 .. Len(l) + Len(r) :
             (l \o r)[k] = IF k <= Len(l) THEN l[k] ELSE r[k - Len(l)]
  BY <1>1, <1>2, ConcatProperties
<1> QED
  BY <1>1, <1>2, <1>3, <1>4

\* InsertAt opens one.
LEMMA InsertAtProperties ==
    ASSUME NEW T, NEW s \in Seq(T), NEW i \in 1 .. Len(s) + 1, NEW e \in T
    PROVE  /\ InsertAt(s, i, e) \in Seq(T)
           /\ Len(InsertAt(s, i, e)) = Len(s) + 1
           /\ \A k \in 1 .. Len(s) + 1 :
                  InsertAt(s, i, e)[k] = IF k < i THEN s[k] ELSE
                                         IF k = i THEN e ELSE s[k - 1]
<1> DEFINE l == SubSeq(s, 1, i - 1)
           r == SubSeq(s, i, Len(s))
<1>1. /\ l \in Seq(T) /\ Len(l) = i - 1
      /\ \A k \in 1 .. i - 1 : l[k] = s[k]
  BY SubSeqProperties
<1>2. /\ r \in Seq(T) /\ Len(r) = Len(s) - i + 1
      /\ \A k \in 1 .. Len(s) - i + 1 : r[k] = s[i + k - 1]
  BY SubSeqProperties
<1>3. /\ l \o <<e>> \in Seq(T) /\ Len(l \o <<e>>) = i
      /\ \A k \in 1 .. i : (l \o <<e>>)[k] = IF k < i THEN s[k] ELSE e
  BY <1>1, ConcatProperties
<1> DEFINE le == l \o <<e>>
<1>4. InsertAt(s, i, e) = le \o r
  BY DEF InsertAt
<1>5. le \in Seq(T) /\ Len(le) = i /\ \A k \in 1 .. i : le[k] = IF k < i THEN s[k] ELSE e
  BY <1>3
<1> HIDE DEF l, r, le
<1>6. /\ le \o r \in Seq(T)
      /\ Len(le \o r) = Len(le) + Len(r)
      /\ \A k \in 1 .. Len(le) + Len(r) :
             (le \o r)[k] = IF k <= Len(le) THEN le[k] ELSE r[k - Len(le)]
  BY <1>2, <1>5, ConcatProperties
<1> QED
  BY <1>2, <1>4, <1>5, <1>6

-----------------------------------------------------------------------------
(* One side of the book as a relation: x is queued at price p.             *)

At(levels, p, x) ==
    \E i \in DOMAIN levels : /\ levels[i].Price = p
                             /\ \E j \in DOMAIN levels[i].Orders : levels[i].Orders[j] = x

SideSorted(levels, d) ==
    \A i, k \in DOMAIN levels : i < k => Better(levels[i].Price, levels[k].Price, d)

SideFilled(levels) == \A i \in DOMAIN levels : levels[i].Orders # <<>>

SideDistinct(levels) ==
    \A i \in DOMAIN levels : \A j, k \in DOMAIN levels[i].Orders :
        levels[i].Orders[j] = levels[i].Orders[k] => j = k

SideOK(levels, d) ==
    /\ levels \in Seq(PriceLevel)
    /\ SideSorted(levels, d)
    /\ SideFilled(levels)
    /\ SideDistinct(levels)

\* The types of the parts of a side.
LEMMA LevelTypes ==
    ASSUME NEW levels \in Seq(PriceLevel)
    PROVE  /\ Len(levels) \in Nat
           /\ DOMAIN levels = 1 .. Len(levels)
           /\ \A i \in DOMAIN levels :
                  /\ levels[i] \in PriceLevel
                  /\ levels[i].Price \in Nat \ {0}
                  /\ levels[i].Orders \in Seq(Nat \ {0})
                  /\ Len(levels[i].Orders) \in Nat
                  /\ DOMAIN levels[i].Orders = 1 .. Len(levels[i].Orders)
<1>1. Len(levels) \in Nat /\ DOMAIN levels = 1 .. Len(levels)
  BY LenProperties
<1>2. ASSUME NEW i \in DOMAIN levels PROVE levels[i] \in PriceLevel
  BY <1>1, ElementOfSeq
<1>3. ASSUME NEW l \in PriceLevel
      PROVE  l.Price \in Nat \ {0} /\ l.Orders \in Seq(Nat \ {0})
  BY DEF PriceLevel
<1> QED
  BY <1>1, <1>2, <1>3, LenProperties

\* In sorted levels a price has one level.
LEMMA PricesDistinct ==
    ASSUME NEW levels \in Seq(PriceLevel), NEW d \in BOOLEAN, SideSorted(levels, d),
           NEW i \in DOMAIN levels, NEW k \in DOMAIN levels,
           levels[i].Price = levels[k].Price
    PROVE  i = k
<1>1. levels[i].Price \in Nat /\ levels[k].Price \in Nat /\ i \in Int /\ k \in Int
  BY LevelTypes
<1>2. ~(i < k)
  BY <1>1 DEF SideSorted, Better
<1>3. ~(k < i)
  BY <1>1 DEF SideSorted, Better
<1> QED
  BY <1>1, <1>2, <1>3

\* SetOrders changes one queue and nothing else.
LEMMA SetOrdersProperties ==
    ASSUME NEW levels \in Seq(PriceLevel), NEW n \in DOMAIN levels,
           NEW q \in Seq(Nat \ {0})
    PROVE  /\ SetOrders(levels, n, q) \in Seq(PriceLevel)
           /\ Len(SetOrders(levels, n, q)) = Len(levels)
           /\ DOMAIN SetOrders(levels, n, q) = DOMAIN levels
           /\ SetOrders(levels, n, q)[n].Orders = q
           /\ \A i \in DOMAIN levels : SetOrders(levels, n, q)[i].Price = levels[i].Price
           /\ \A i \in DOMAIN levels \ {n} : SetOrders(levels, n, q)[i] = levels[i]
<1> DEFINE lv == [Price |-> levels[n].Price, Orders |-> q]
<1>1. lv \in PriceLevel /\ lv.Price = levels[n].Price /\ lv.Orders = q
  BY LevelTypes DEF PriceLevel
<1>2. SetOrders(levels, n, q) = [levels EXCEPT ![n] = lv]
  BY DEF SetOrders
<1> HIDE DEF lv
<1>3. n \in 1 .. Len(levels) /\ DOMAIN levels = 1 .. Len(levels)
  BY LevelTypes
<1> QED
  BY <1>1, <1>2, <1>3, ExceptSeq, LenProperties

\* An order whose price is quoted joins the end of that level.
LEMMA AppendToLevel ==
    ASSUME NEW levels, NEW d \in BOOLEAN, SideOK(levels, d),
           NEW o \in Order, HasPrice(levels, o.Price),
           ~At(levels, o.Price, o.ID),
           NEW n, n = LevelOf(levels, o.Price),
           NEW r, r = SetOrders(levels, n, Append(levels[n].Orders, o.ID))
    PROVE  /\ SideOK(r, d)
           /\ Len(r) = Len(levels)
           /\ \A p : HasPrice(r, p) <=> HasPrice(levels, p)
           /\ \A p, x : At(r, p, x) <=> \/ At(levels, p, x)
                                        \/ p = o.Price /\ x = o.ID
<1> DEFINE q == levels[n].Orders
           q2 == Append(q, o.ID)
<1>1. n \in DOMAIN levels /\ levels[n].Price = o.Price
  BY DEF HasPrice, LevelOf
<1>2. levels \in Seq(PriceLevel) /\ levels[n] \in PriceLevel /\ q \in Seq(Nat \ {0})
      /\ o.ID \in Nat \ {0} /\ o.Price \in Nat \ {0}
  BY <1>1, LevelTypes DEF SideOK, Order
<1>3. /\ q2 \in Seq(Nat \ {0}) /\ q2 # <<>> /\ Len(q2) = Len(q) + 1
      /\ \A j \in 1 .. Len(q) : q2[j] = q[j]
      /\ q2[Len(q) + 1] = o.ID
      /\ DOMAIN q = 1 .. Len(q) /\ DOMAIN q2 = 1 .. Len(q) + 1
      /\ Len(q) \in Nat
  BY <1>2, AppendProperties
<1>4. r = SetOrders(levels, n, q2)
  OBVIOUS
<1> HIDE DEF q2, q
<1>6. /\ r \in Seq(PriceLevel) /\ Len(r) = Len(levels) /\ DOMAIN r = DOMAIN levels
      /\ \A i \in DOMAIN levels : i # n => r[i] = levels[i]
  BY <1>1, <1>2, <1>3, <1>4, SetOrdersProperties
<1>7. r[n].Price = o.Price /\ r[n].Orders = q2
  BY <1>1, <1>2, <1>3, <1>4, SetOrdersProperties
<1>8. \A i \in DOMAIN levels : r[i].Price = levels[i].Price
  BY <1>1, <1>6, <1>7
<1>9. SideSorted(r, d)
  BY <1>6, <1>8 DEF SideOK, SideSorted
<1>10. SideFilled(r)
  BY <1>3, <1>6, <1>7 DEF SideOK, SideFilled
<1>11. \A j \in DOMAIN q : q[j] # o.ID
  BY <1>1 DEF At, q
<1>12. SideDistinct(r)
  <2> SUFFICES ASSUME NEW i \in DOMAIN r, NEW j \in DOMAIN r[i].Orders,
                      NEW k \in DOMAIN r[i].Orders, r[i].Orders[j] = r[i].Orders[k]
               PROVE  j = k
    BY DEF SideDistinct
  <2>1. CASE i # n
    BY <2>1, <1>6 DEF SideOK, SideDistinct
  <2>2. CASE i = n
    <3>1. j \in 1 .. Len(q) + 1 /\ k \in 1 .. Len(q) + 1 /\ q2[j] = q2[k]
      BY <2>2, <1>3, <1>6, <1>7
    <3>2. \A x, y \in DOMAIN q : q[x] = q[y] => x = y
      BY <1>1 DEF SideOK, SideDistinct, q
    <3> QED
      BY <3>1, <3>2, <1>3, <1>11
  <2> QED
    BY <2>1, <2>2
<1>13. \A p : HasPrice(r, p) <=> HasPrice(levels, p)
  BY <1>6, <1>8 DEF HasPrice
<1>14. ASSUME NEW p, NEW x
       PROVE  At(r, p, x) <=> At(levels, p, x) \/ (p = o.Price /\ x = o.ID)
  <2>1. ASSUME At(r, p, x) PROVE At(levels, p, x) \/ (p = o.Price /\ x = o.ID)
    <3>1. PICK i \in DOMAIN r : r[i].Price = p /\ \E j \in DOMAIN r[i].Orders : r[i].Orders[j] = x
      BY <2>1 DEF At
    <3>2. PICK j \in DOMAIN r[i].Orders : r[i].Orders[j] = x
      BY <3>1
    <3>3. CASE i # n
      BY <3>1, <3>2, <3>3, <1>6 DEF At
    <3>4. CASE i = n
      <4>1. j \in 1 .. Len(q) + 1 /\ q2[j] = x /\ p = o.Price
        BY <3>1, <3>2, <3>4, <1>3, <1>6, <1>7
      <4>2. CASE j = Len(q) + 1
        BY <4>1, <4>2, <1>3
      <4>3. CASE j \in 1 .. Len(q)
        <5>1. q[j] = x
          BY <4>1, <4>3, <1>3
        <5> QED
          BY <5>1, <4>1, <4>3, <1>1, <1>3 DEF At, q
      <4> QED
        BY <4>1, <4>2, <4>3, <1>3
    <3> QED
      BY <3>3, <3>4
  <2>2. ASSUME At(levels, p, x) PROVE At(r, p, x)
    <3>1. PICK i \in DOMAIN levels : levels[i].Price = p /\ \E j \in DOMAIN levels[i].Orders : levels[i].Orders[j] = x
      BY <2>2 DEF At
    <3>2. PICK j \in DOMAIN levels[i].Orders : levels[i].Orders[j] = x
      BY <3>1
    <3>3. r[i].Price = p
      BY <3>1, <1>8
    <3>4. j \in DOMAIN r[i].Orders /\ r[i].Orders[j] = x
      <4>1. CASE i # n
        BY <4>1, <3>2, <1>6
      <4>2. CASE i = n
        BY <4>2, <3>2, <1>3, <1>6, <1>7 DEF q
      <4> QED
        BY <4>1, <4>2
    <3> QED
      BY <3>3, <3>4, <1>6 DEF At
  <2>3. ASSUME p = o.Price, x = o.ID PROVE At(r, p, x)
    <3>1. Len(q) + 1 \in DOMAIN r[n].Orders /\ r[n].Orders[Len(q) + 1] = o.ID
      BY <1>3, <1>7
    <3> QED
      BY <2>3, <3>1, <1>1, <1>6, <1>7 DEF At
  <2> QED
    BY <2>1, <2>2, <2>3
<1> QED
  BY <1>6, <1>9, <1>10, <1>12, <1>13, <1>14 DEF SideOK

\* n separates the levels better than p from those worse than p.
SplitAt(levels, n, p, d) ==
    /\ n \in 1 .. Len(levels) + 1
    /\ \A i \in DOMAIN levels : i < n => Better(levels[i].Price, p, d)
    /\ \A i \in DOMAIN levels : i >= n => Better(p, levels[i].Price, d)

\* s is levels with lv inserted at n.
Inserted(s, levels, n, lv) ==
    /\ s \in Seq(PriceLevel)
    /\ Len(s) = Len(levels) + 1
    /\ \A k \in 1 .. Len(levels) + 1 :
           s[k] = IF k < n THEN levels[k] ELSE IF k = n THEN lv ELSE levels[k - 1]

\* That is what InsertAt computes.
LEMMA InsertedAt ==
    ASSUME NEW levels \in Seq(PriceLevel), NEW n \in 1 .. Len(levels) + 1, NEW lv \in PriceLevel
    PROVE  Inserted(InsertAt(levels, n, lv), levels, n, lv)
<1>1. /\ InsertAt(levels, n, lv) \in Seq(PriceLevel)
      /\ Len(InsertAt(levels, n, lv)) = Len(levels) + 1
      /\ \A k \in 1 .. Len(levels) + 1 :
             InsertAt(levels, n, lv)[k] = IF k < n THEN levels[k] ELSE
                                          IF k = n THEN lv ELSE levels[k - 1]
  BY ONLY levels \in Seq(PriceLevel), n \in 1 .. Len(levels) + 1, lv \in PriceLevel,
          InsertAtProperties
<1> QED
  BY ONLY <1>1 DEF Inserted

\* The orders of s are those of levels and id at p.
Joined(s, levels, p0, id) ==
    \A p, x : At(s, p, x) <=> At(levels, p, x) \/ (p = p0 /\ x = id)

\* SortedPosition separates the better levels from the worse ones.
LEMMA SortedPositionSplits ==
    ASSUME NEW levels, NEW d \in BOOLEAN, SideOK(levels, d),
           NEW p \in Nat \ {0}, ~HasPrice(levels, p),
           NEW n, n = SortedPosition(levels, p, d)
    PROVE  SplitAt(levels, n, p, d)
<1> USE DEF SplitAt
<1> DEFINE after == {i \in DOMAIN levels : Better(p, levels[i].Price, d)}
<1>1. /\ levels \in Seq(PriceLevel) /\ Len(levels) \in Nat /\ DOMAIN levels = 1 .. Len(levels)
      /\ \A i \in DOMAIN levels : levels[i].Price \in Nat
  BY LevelTypes DEF SideOK
<1>2. n = IF after = {} THEN Len(levels) + 1 ELSE Min(after)
  BY DEF SortedPosition
<1>3. \A i \in DOMAIN levels : i \notin after => Better(levels[i].Price, p, d)
  BY <1>1 DEF HasPrice, Better
<1>4. CASE after = {}
  BY <1>1, <1>2, <1>3, <1>4
<1>5. CASE after # {}
  <2>1. after \in SUBSET Nat
    BY <1>1
  <2>2. n \in after /\ \A i \in after : n <= i
    BY <2>1, <1>2, <1>5, MinOfNats
  <2>3. \A i \in DOMAIN levels : i < n => i \notin after
    BY <2>1, <2>2, <1>1
  <2>4. ASSUME NEW i \in DOMAIN levels, i > n PROVE Better(p, levels[i].Price, d)
    <3>1. Better(p, levels[n].Price, d) /\ n \in DOMAIN levels
      BY <2>2
    <3>2. Better(levels[n].Price, levels[i].Price, d)
      BY <2>4, <3>1 DEF SideOK, SideSorted
    <3> QED
      BY <3>1, <3>2, <1>1 DEF Better
  <2>5. Better(p, levels[n].Price, d) /\ n \in 1 .. Len(levels)
    BY <2>2, <1>1
  <2> QED
    BY <2>3, <2>4, <2>5, <1>1, <1>3
<1> QED
  BY <1>4, <1>5

\* A level inserted between the better and the worse ones.
LEMMA InsertLevel ==
    ASSUME NEW levels, NEW d \in BOOLEAN, SideOK(levels, d),
           NEW lv \in PriceLevel, NEW id, lv.Orders = <<id>>,
           NEW n, SplitAt(levels, n, lv.Price, d),
           NEW s, Inserted(s, levels, n, lv)
    PROVE  SideOK(s, d) /\ Joined(s, levels, lv.Price, id)
<1>1. /\ levels \in Seq(PriceLevel) /\ Len(levels) \in Nat /\ DOMAIN levels = 1 .. Len(levels)
      /\ \A i \in DOMAIN levels : levels[i].Price \in Nat
  BY LevelTypes DEF SideOK
<1>3. DOMAIN lv.Orders = {1} /\ lv.Orders[1] = id /\ lv.Orders # <<>>
  OBVIOUS
<1>4. /\ n \in 1 .. Len(levels) + 1
      /\ \A i \in DOMAIN levels : i < n => Better(levels[i].Price, lv.Price, d)
      /\ \A i \in DOMAIN levels : i >= n => Better(lv.Price, levels[i].Price, d)
  BY DEF SplitAt
<1>5. /\ s \in Seq(PriceLevel) /\ Len(s) = Len(levels) + 1
      /\ \A k \in 1 .. Len(levels) + 1 :
             s[k] = IF k < n THEN levels[k] ELSE IF k = n THEN lv ELSE levels[k - 1]
  BY DEF Inserted
<1>6. DOMAIN s = 1 .. Len(levels) + 1
  BY <1>5, LenProperties
<1> DEFINE old(k) == IF k < n THEN k ELSE k - 1
<1>7. ASSUME NEW k \in DOMAIN s, k # n
      PROVE  old(k) \in DOMAIN levels /\ s[k] = levels[old(k)]
  <2>1. k \in 1 .. Len(levels) + 1 /\ n \in 1 .. Len(levels) + 1 /\ Len(levels) \in Nat
    BY <1>1, <1>4, <1>6
  <2>2. CASE k < n
    BY <2>1, <2>2, <1>1, <1>5
  <2>3. CASE k > n
    <3>1. k - 1 \in 1 .. Len(levels) /\ old(k) = k - 1
      BY <2>1, <2>3
    <3>2. s[k] = levels[k - 1]
      BY <2>1, <2>3, <1>5
    <3> QED
      BY <3>1, <3>2, <1>1
  <2> QED
    BY <1>7, <2>1, <2>2, <2>3
<1>8. n \in DOMAIN s /\ s[n] = lv
  BY <1>4, <1>5, <1>6
<1>9. SideSorted(s, d)
  <2> SUFFICES ASSUME NEW i \in DOMAIN s, NEW k \in DOMAIN s, i < k
               PROVE  Better(s[i].Price, s[k].Price, d)
    BY DEF SideSorted
  <2>1. CASE i # n /\ k # n
    <3>1. old(i) < old(k) /\ old(i) \in DOMAIN levels /\ old(k) \in DOMAIN levels
      BY <2>1, <1>1, <1>4, <1>6, <1>7
    <3> QED
      BY <3>1, <2>1, <1>7 DEF SideOK, SideSorted
  <2>2. CASE i = n
    <3>1. k # n /\ old(k) \in DOMAIN levels /\ old(k) >= n
      BY <2>2, <1>1, <1>4, <1>6, <1>7
    <3> QED
      BY <3>1, <2>2, <1>3, <1>4, <1>7, <1>8
  <2>3. CASE k = n
    <3>1. i # n /\ old(i) \in DOMAIN levels /\ old(i) < n
      BY <2>3, <1>1, <1>4, <1>6, <1>7
    <3> QED
      BY <3>1, <2>3, <1>3, <1>4, <1>7, <1>8
  <2> QED
    BY <2>1, <2>2, <2>3
<1>10. SideFilled(s)
  BY <1>3, <1>7, <1>8 DEF SideOK, SideFilled
<1>11. SideDistinct(s)
  BY <1>3, <1>7, <1>8 DEF SideOK, SideDistinct
<1>12. ASSUME NEW p, NEW x
       PROVE  At(s, p, x) <=> At(levels, p, x) \/ (p = lv.Price /\ x = id)
  <2>1. ASSUME At(s, p, x) PROVE At(levels, p, x) \/ (p = lv.Price /\ x = id)
    <3>1. PICK i \in DOMAIN s : s[i].Price = p /\ \E j \in DOMAIN s[i].Orders : s[i].Orders[j] = x
      BY <2>1 DEF At
    <3>2. CASE i = n
      BY <3>1, <3>2, <1>3, <1>8
    <3>3. CASE i # n
      BY <3>1, <3>3, <1>7 DEF At
    <3> QED
      BY <3>2, <3>3
  <2>2. ASSUME At(levels, p, x) PROVE At(s, p, x)
    <3>1. PICK i \in DOMAIN levels : levels[i].Price = p /\ \E j \in DOMAIN levels[i].Orders : levels[i].Orders[j] = x
      BY <2>2 DEF At
    <3>2. \E k \in DOMAIN s : s[k] = levels[i]
      <4>1. CASE i < n
        BY <4>1, <1>1, <1>4, <1>5, <1>6
      <4>2. CASE i >= n
        <5>1. i + 1 \in 1 .. Len(levels) + 1 /\ ~(i + 1 < n) /\ i + 1 # n /\ (i + 1) - 1 = i
          BY <4>2, <1>1, <1>4
        <5>2. i + 1 \in DOMAIN s /\ s[i + 1] = levels[i]
          BY <5>1, <1>5, <1>6
        <5> QED
          BY <5>2
      <4> QED
        BY <4>1, <4>2, <1>1, <1>4
    <3> QED
      BY <3>1, <3>2 DEF At
  <2>3. ASSUME p = lv.Price, x = id PROVE At(s, p, x)
    BY <2>3, <1>3, <1>8 DEF At
  <2> QED
    BY <2>1, <2>2, <2>3
<1> QED
  BY <1>5, <1>9, <1>10, <1>11, <1>12 DEF SideOK, Joined

\* t keeps the orders of s at the prices it quotes, ev are the others.
Trimmed(t, ev, s) ==
    /\ \A p, x : At(t, p, x) <=> At(s, p, x) /\ HasPrice(t, p)
    /\ \A x : x \in ev <=> \E p : At(s, p, x) /\ ~HasPrice(t, p)

\* t are the first m levels of s, ev the orders of the others.
CutAt(s, m, t, ev) ==
    m \in Nat /\ m < Len(s) /\ t = SubSeq(s, 1, m) /\ ev = OrdersBeyond(s, m)

\* The trim drops whole levels: what it keeps is sorted, and an order is
\* dropped when its price is not quoted any more.
LEMMA TrimLevels ==
    ASSUME NEW s, NEW d \in BOOLEAN, SideOK(s, d),
           NEW m, NEW t, NEW ev, CutAt(s, m, t, ev)
    PROVE  /\ SideOK(t, d)
           /\ Len(t) = m
           /\ Trimmed(t, ev, s)
<1> USE DEF CutAt
<1>1. /\ s \in Seq(PriceLevel) /\ Len(s) \in Nat /\ DOMAIN s = 1 .. Len(s)
      /\ \A i \in DOMAIN s : s[i] \in PriceLevel
  BY LevelTypes DEF SideOK
<1>2. /\ t \in Seq(PriceLevel) /\ Len(t) = m
      /\ \A i \in 1 .. m : t[i] = s[i]
  BY <1>1, SubSeqProperties
<1>3. DOMAIN t = 1 .. m /\ DOMAIN t \subseteq DOMAIN s
  BY <1>1, <1>2, LenProperties
<1>4. SideSorted(t, d)
  BY <1>2, <1>3 DEF SideOK, SideSorted
<1>5. SideFilled(t)
  BY <1>2, <1>3 DEF SideOK, SideFilled
<1>6. SideDistinct(t)
  BY <1>2, <1>3 DEF SideOK, SideDistinct
<1>7. SideSorted(s, d)
  BY DEF SideOK
<1>8. \A i \in DOMAIN s : HasPrice(t, s[i].Price) <=> i <= m
  <2> SUFFICES ASSUME NEW i \in DOMAIN s PROVE HasPrice(t, s[i].Price) <=> i <= m
    OBVIOUS
  <2>1. ASSUME i <= m PROVE HasPrice(t, s[i].Price)
    BY <2>1, <1>1, <1>2, <1>3 DEF HasPrice
  <2>2. ASSUME HasPrice(t, s[i].Price) PROVE i <= m
    <3>1. PICK k \in DOMAIN t : s[k].Price = s[i].Price
      BY <2>2, <1>2, <1>3 DEF HasPrice
    <3>2. k = i
      BY <3>1, <1>1, <1>3, <1>7, PricesDistinct
    <3> QED
      BY <3>2, <1>3
  <2> QED
    BY <2>1, <2>2
<1>9. ASSUME NEW p, NEW x
      PROVE  At(t, p, x) <=> At(s, p, x) /\ HasPrice(t, p)
  <2>1. ASSUME At(t, p, x) PROVE At(s, p, x) /\ HasPrice(t, p)
    BY <2>1, <1>2, <1>3 DEF At, HasPrice
  <2>2. ASSUME At(s, p, x), HasPrice(t, p) PROVE At(t, p, x)
    <3>1. PICK i \in DOMAIN s : s[i].Price = p /\ \E j \in DOMAIN s[i].Orders : s[i].Orders[j] = x
      BY <2>2 DEF At
    <3>2. i \in DOMAIN t /\ t[i] = s[i]
      BY <3>1, <2>2, <1>1, <1>2, <1>3, <1>8
    <3> QED
      BY <3>1, <3>2 DEF At
  <2> QED
    BY <2>1, <2>2
<1>10. ASSUME NEW x
       PROVE  x \in ev <=> \E p : At(s, p, x) /\ ~HasPrice(t, p)
  <2>1. x \in ev <=> \E i \in m + 1 .. Len(s) : \E j \in DOMAIN s[i].Orders : s[i].Orders[j] = x
    BY DEF OrdersBeyond, ToSet
  <2>2. ASSUME NEW i \in m + 1 .. Len(s), NEW j \in DOMAIN s[i].Orders, s[i].Orders[j] = x
        PROVE  \E p : At(s, p, x) /\ ~HasPrice(t, p)
    <3>1. i \in DOMAIN s /\ ~(i <= m)
      BY <1>1
    <3>2. At(s, s[i].Price, x)
      BY <2>2, <3>1 DEF At
    <3> QED
      BY <3>1, <3>2, <1>8
  <2>3. ASSUME NEW p, At(s, p, x), ~HasPrice(t, p)
        PROVE  \E i \in m + 1 .. Len(s) : \E j \in DOMAIN s[i].Orders : s[i].Orders[j] = x
    <3>1. PICK i \in DOMAIN s : s[i].Price = p /\ \E j \in DOMAIN s[i].Orders : s[i].Orders[j] = x
      BY <2>3 DEF At
    <3>2. i \in m + 1 .. Len(s)
      BY <3>1, <2>3, <1>1, <1>8
    <3> QED
      BY <3>1, <3>2
  <2> QED
    BY <2>1, <2>2, <2>3
<1> QED
  BY <1>2, <1>4, <1>5, <1>6, <1>9, <1>10 DEF SideOK, Trimmed

\* r.levels keeps the orders of levels and o at the prices it quotes;
\* r.evicted are the others.
Added(r, levels, o) ==
    /\ \A p, x : At(r.levels, p, x) <=>
           (At(levels, p, x) \/ (p = o.Price /\ x = o.ID)) /\ HasPrice(r.levels, p)
    /\ \A x : x \in r.evicted <=>
           \E p : /\ At(levels, p, x) \/ (p = o.Price /\ x = o.ID)
                 /\ ~HasPrice(r.levels, p)

\* What addToSide does to a side, as a relation: the order joins the orders
\* at its price, and whoever is not at a price still quoted is evicted.
LEMMA AddToSide ==
    ASSUME NEW levels, NEW d \in BOOLEAN, SideOK(levels, d), Len(levels) <= MaxLevels,
           NEW o \in Order, ~At(levels, o.Price, o.ID),
           NEW r, r = addToSide(levels, o, d)
    PROVE  SideOK(r.levels, d) /\ Len(r.levels) <= MaxLevels /\ Added(r, levels, o)
<1> USE DEF Added
<1>1. levels \in Seq(PriceLevel) /\ Len(levels) \in Nat /\ MaxLevels \in Nat
  BY LevelTypes, MaxLevelsAssumption DEF SideOK
<1>2. \A l, p, x : At(l, p, x) => HasPrice(l, p)
  BY DEF At, HasPrice
<1>3. CASE HasPrice(levels, o.Price)
  <2> DEFINE n == LevelOf(levels, o.Price)
             t == SetOrders(levels, n, Append(levels[n].Orders, o.ID))
  <2>1. r.levels = t /\ r.evicted = {}
    BY <1>3 DEF addToSide
  <2>2. /\ SideOK(t, d) /\ Len(t) = Len(levels)
        /\ \A p : HasPrice(t, p) <=> HasPrice(levels, p)
        /\ \A p, x : At(t, p, x) <=> At(levels, p, x) \/ (p = o.Price /\ x = o.ID)
    BY <1>3, AppendToLevel
  <2> HIDE DEF t
  <2>3. \A p, x : At(levels, p, x) \/ (p = o.Price /\ x = o.ID) => HasPrice(t, p)
    BY <2>2, <1>2
  <2> QED
    BY <2>1, <2>2, <2>3, <1>1
<1>4. CASE ~HasPrice(levels, o.Price)
  <2> DEFINE n  == SortedPosition(levels, o.Price, d)
             lv == [Price |-> o.Price, Orders |-> <<o.ID>>]
             s  == InsertAt(levels, n, lv)
             t  == SubSeq(s, 1, MaxLevels)
             ev == OrdersBeyond(s, MaxLevels)
  <2>1. r = IF Len(s) > MaxLevels THEN [levels |-> t, evicted |-> ev]
                                  ELSE [levels |-> s, evicted |-> {}]
    BY <1>4 DEF addToSide
  <2>2. o.Price \in Nat \ {0} /\ o.ID \in Nat \ {0}
    BY DEF Order
  <2>3. lv \in PriceLevel /\ lv.Price = o.Price /\ lv.Orders = <<o.ID>>
    BY <2>2 DEF PriceLevel
  <2>4. SplitAt(levels, n, o.Price, d)
    BY <2>2, <1>4, SortedPositionSplits
  <2> HIDE DEF n, lv, t, ev
  <2>5. Inserted(s, levels, n, lv)
    <3>1. levels \in Seq(PriceLevel) /\ n \in 1 .. Len(levels) + 1 /\ lv \in PriceLevel
      BY <1>1, <2>3, <2>4 DEF SplitAt
    <3> QED
      BY <3>1, InsertedAt
  <2> HIDE DEF s
  <2>6. /\ SideOK(s, d) /\ Len(s) = Len(levels) + 1
        /\ \A p, x : At(s, p, x) <=> At(levels, p, x) \/ (p = o.Price /\ x = o.ID)
    <3>1. lv \in PriceLevel /\ lv.Orders = <<o.ID>> /\ SplitAt(levels, n, lv.Price, d)
      BY <2>3, <2>4
    <3>2. SideOK(s, d) /\ Joined(s, levels, lv.Price, o.ID)
      BY <3>1, <2>5, InsertLevel
    <3> QED
      BY <3>2, <2>3, <2>5 DEF Joined, Inserted
  <2>7. CASE Len(s) > MaxLevels
    <3>1. r.levels = t /\ r.evicted = ev
      BY <2>1, <2>7
    <3>2. SideOK(t, d) /\ Len(t) = MaxLevels /\ Trimmed(t, ev, s)
      <4>1. CutAt(s, MaxLevels, t, ev)
        BY <1>1, <2>6, <2>7 DEF CutAt, t, ev
      <4> HIDE DEF t, ev
      <4> QED
        BY <2>6, <4>1, TrimLevels
    <3> QED
      BY <3>1, <3>2, <2>6, <1>1 DEF Trimmed
  <2>8. CASE ~(Len(s) > MaxLevels)
    <3>1. r.levels = s /\ r.evicted = {}
      BY <2>1, <2>8
    <3>2. \A p, x : At(levels, p, x) \/ (p = o.Price /\ x = o.ID) => HasPrice(s, p)
      BY <2>6, <1>2
    <3> QED
      BY <3>1, <3>2, <2>6, <2>8, <1>1
  <2> QED
    BY <2>7, <2>8
<1> QED
  BY <1>3, <1>4

-----------------------------------------------------------------------------
(* Removing an order.                                                      *)

InQueue(q, x) == \E j \in DOMAIN q : q[j] = x

Distinct(q) == \A j, k \in DOMAIN q : q[j] = q[k] => j = k

\* A queue of distinct orders loses exactly the order at j.
LEMMA RemoveFromQueue ==
    ASSUME NEW q \in Seq(Nat \ {0}), Distinct(q), NEW j \in DOMAIN q,
           NEW rest, rest = RemoveAt(q, j)
    PROVE  /\ rest \in Seq(Nat \ {0})
           /\ Distinct(rest)
           /\ \A x : InQueue(rest, x) <=> InQueue(q, x) /\ x # q[j]
<1>1. Len(q) \in Nat /\ DOMAIN q = 1 .. Len(q) /\ j \in 1 .. Len(q)
  BY LenProperties
<1>2. /\ rest \in Seq(Nat \ {0}) /\ Len(rest) = Len(q) - 1
      /\ \A k \in 1 .. Len(q) - 1 : rest[k] = IF k < j THEN q[k] ELSE q[k + 1]
  BY <1>1, RemoveAtProperties
<1>3. DOMAIN rest = 1 .. Len(q) - 1
  BY <1>2, LenProperties
<1> DEFINE old(k) == IF k < j THEN k ELSE k + 1
<1>4. \A k \in DOMAIN rest : old(k) \in DOMAIN q /\ old(k) # j /\ rest[k] = q[old(k)]
  BY <1>1, <1>2, <1>3, SMTT(30)
<1>5. \A k, l \in DOMAIN rest : old(k) = old(l) => k = l
  BY <1>1, <1>3
<1>6. Distinct(rest)
  <2> HIDE DEF old
  <2> QED
    BY <1>4, <1>5 DEF Distinct
<1>7. ASSUME NEW l \in DOMAIN q, l # j PROVE \E k \in DOMAIN rest : rest[k] = q[l]
  <2>1. CASE l < j
    <3>1. l \in DOMAIN rest /\ rest[l] = q[l]
      BY <2>1, <1>1, <1>2, <1>3
    <3> QED
      BY <3>1
  <2>2. CASE l > j
    <3>1. l - 1 \in 1 .. Len(q) - 1 /\ ~(l - 1 < j) /\ (l - 1) + 1 = l
      BY <2>2, <1>1
    <3>2. l - 1 \in DOMAIN rest /\ rest[l - 1] = q[l]
      BY <3>1, <1>2, <1>3
    <3> QED
      BY <3>2
  <2> QED
    BY <2>1, <2>2, <1>1, <1>7
<1>8. ASSUME NEW x PROVE InQueue(rest, x) <=> InQueue(q, x) /\ x # q[j]
  <2>1. ASSUME InQueue(rest, x) PROVE InQueue(q, x) /\ x # q[j]
    <3>1. PICK k \in DOMAIN rest : rest[k] = x
      BY <2>1 DEF InQueue
    <3> HIDE DEF old
    <3> QED
      BY <3>1, <1>4 DEF InQueue, Distinct
  <2>2. ASSUME InQueue(q, x), x # q[j] PROVE InQueue(rest, x)
    <3>1. PICK l \in DOMAIN q : q[l] = x
      BY <2>2 DEF InQueue
    <3> QED
      BY <3>1, <2>2, <1>7 DEF InQueue
  <2> QED
    BY <2>1, <2>2
<1> QED
  BY <1>2, <1>6, <1>8

\* The orders of r are those of levels without id.
Left(r, levels, id) == \A p, x : At(r, p, x) <=> At(levels, p, x) /\ x # id

\* Dropping level n drops the orders on it.
LEMMA DropLevel ==
    ASSUME NEW levels, NEW d \in BOOLEAN, SideOK(levels, d),
           NEW n \in DOMAIN levels, NEW id,
           \A x : InQueue(levels[n].Orders, x) <=> x = id,
           \A i \in DOMAIN levels : InQueue(levels[i].Orders, id) => i = n,
           NEW r, r = RemoveAt(levels, n)
    PROVE  SideOK(r, d) /\ Len(r) <= Len(levels) /\ Left(r, levels, id)
<1>1. /\ levels \in Seq(PriceLevel) /\ Len(levels) \in Nat /\ DOMAIN levels = 1 .. Len(levels)
      /\ n \in 1 .. Len(levels)
  BY LevelTypes DEF SideOK
<1>2. /\ r \in Seq(PriceLevel) /\ Len(r) = Len(levels) - 1
      /\ \A k \in 1 .. Len(levels) - 1 : r[k] = IF k < n THEN levels[k] ELSE levels[k + 1]
  BY <1>1, RemoveAtProperties
<1>3. DOMAIN r = 1 .. Len(levels) - 1
  BY <1>2, LenProperties
<1> DEFINE old(k) == IF k < n THEN k ELSE k + 1
<1>4. \A k \in DOMAIN r : old(k) \in DOMAIN levels /\ old(k) # n /\ r[k] = levels[old(k)]
  BY <1>1, <1>2, <1>3
<1>5. \A k, l \in DOMAIN r : k < l => old(k) < old(l)
  BY <1>1, <1>3
<1>6. ASSUME NEW l \in DOMAIN levels, l # n PROVE \E k \in DOMAIN r : r[k] = levels[l]
  <2>1. CASE l < n
    BY <2>1, <1>1, <1>2, <1>3
  <2>2. CASE l > n
    <3>1. l - 1 \in 1 .. Len(levels) - 1 /\ ~(l - 1 < n) /\ (l - 1) + 1 = l
      BY <2>2, <1>1
    <3>2. l - 1 \in DOMAIN r /\ r[l - 1] = levels[l]
      BY <3>1, <1>2, <1>3
    <3> QED
      BY <3>2
  <2> QED
    BY <2>1, <2>2, <1>1, <1>6
<1> HIDE DEF old
<1>7. SideSorted(r, d)
  BY <1>4, <1>5 DEF SideOK, SideSorted
<1>8. SideFilled(r) /\ SideDistinct(r)
  BY <1>4 DEF SideOK, SideFilled, SideDistinct
<1>9. ASSUME NEW p, NEW x PROVE At(r, p, x) <=> At(levels, p, x) /\ x # id
  <2>1. ASSUME At(r, p, x) PROVE At(levels, p, x) /\ x # id
    BY <2>1, <1>4 DEF At, InQueue
  <2>2. ASSUME At(levels, p, x), x # id PROVE At(r, p, x)
    <3>1. PICK l \in DOMAIN levels : levels[l].Price = p /\ InQueue(levels[l].Orders, x)
      BY <2>2 DEF At, InQueue
    <3>2. l # n
      BY <3>1, <2>2
    <3> QED
      BY <3>1, <3>2, <1>6 DEF At, InQueue
  <2> QED
    BY <2>1, <2>2
<1> QED
  BY <1>1, <1>2, <1>7, <1>8, <1>9 DEF SideOK, Left

\* Taking an order out of the queue of level n.
LEMMA ShortenLevel ==
    ASSUME NEW levels, NEW d \in BOOLEAN, SideOK(levels, d),
           NEW n \in DOMAIN levels, NEW id, NEW rest \in Seq(Nat \ {0}),
           rest # <<>>, Distinct(rest),
           \A x : InQueue(rest, x) <=> InQueue(levels[n].Orders, x) /\ x # id,
           \A i \in DOMAIN levels : InQueue(levels[i].Orders, id) => i = n,
           NEW r, r = SetOrders(levels, n, rest)
    PROVE  SideOK(r, d) /\ Len(r) <= Len(levels) /\ Left(r, levels, id)
<1>1. levels \in Seq(PriceLevel) /\ Len(levels) \in Nat
  BY LevelTypes DEF SideOK
<1>2. /\ r \in Seq(PriceLevel) /\ Len(r) = Len(levels) /\ DOMAIN r = DOMAIN levels
      /\ r[n].Orders = rest
      /\ \A i \in DOMAIN levels : r[i].Price = levels[i].Price
      /\ \A i \in DOMAIN levels \ {n} : r[i] = levels[i]
  BY <1>1, SetOrdersProperties
<1>3. SideSorted(r, d)
  BY <1>2 DEF SideOK, SideSorted
<1>4. SideFilled(r)
  BY <1>2 DEF SideOK, SideFilled
<1>5. SideDistinct(r)
  BY <1>2 DEF SideOK, SideDistinct, Distinct
<1>6. ASSUME NEW p, NEW x PROVE At(r, p, x) <=> At(levels, p, x) /\ x # id
  <2>1. \A i \in DOMAIN levels : InQueue(r[i].Orders, x) <=> InQueue(levels[i].Orders, x) /\ x # id
    BY <1>2
  <2>2. At(r, p, x) <=> \E i \in DOMAIN levels : levels[i].Price = p /\ InQueue(r[i].Orders, x)
    BY <1>2 DEF At, InQueue
  <2>3. At(levels, p, x) <=> \E i \in DOMAIN levels : levels[i].Price = p /\ InQueue(levels[i].Orders, x)
    BY DEF At, InQueue
  <2> QED
    BY <2>1, <2>2, <2>3
<1> QED
  BY <1>1, <1>2, <1>3, <1>4, <1>5, <1>6 DEF SideOK, Left

\* What removeFromSide does to a side on which the order rests.
LEMMA RemoveFromSide ==
    ASSUME NEW levels, NEW d \in BOOLEAN, SideOK(levels, d),
           NEW id, NEW p0, At(levels, p0, id), \A p : At(levels, p, id) => p = p0,
           NEW r, r = removeFromSide(levels, id)
    PROVE  SideOK(r, d) /\ Len(r) <= Len(levels) /\ Left(r, levels, id)
<1> DEFINE n == CHOOSE i \in DOMAIN levels :
                    \E j \in DOMAIN levels[i].Orders : Holds(levels, i, j, id)
           q == levels[n].Orders
           m == CHOOSE j \in DOMAIN levels[n].Orders : Holds(levels, n, j, id)
           rest == RemoveAt(q, m)
<1>1. \E i \in DOMAIN levels : \E j \in DOMAIN levels[i].Orders : Holds(levels, i, j, id)
  BY DEF At, Holds
<1>2. r = IF rest = <<>> THEN RemoveAt(levels, n) ELSE SetOrders(levels, n, rest)
  BY <1>1 DEF removeFromSide
<1>3. n \in DOMAIN levels /\ \E j \in DOMAIN levels[n].Orders : Holds(levels, n, j, id)
  BY <1>1
<1> HIDE DEF n
<1>4. m \in DOMAIN q /\ q[m] = id
  BY <1>3 DEF Holds
<1> HIDE DEF m
<1>5. levels \in Seq(PriceLevel) /\ q \in Seq(Nat \ {0}) /\ Distinct(q)
  BY <1>3, LevelTypes DEF SideOK, SideDistinct, Distinct
<1> HIDE DEF q
<1>6. /\ rest \in Seq(Nat \ {0}) /\ Distinct(rest)
      /\ \A x : InQueue(rest, x) <=> InQueue(q, x) /\ x # id
  BY <1>4, <1>5, RemoveFromQueue
<1> HIDE DEF rest
<1>7. ASSUME NEW i \in DOMAIN levels, InQueue(levels[i].Orders, id) PROVE i = n
  <2>1. At(levels, levels[i].Price, id) /\ At(levels, levels[n].Price, id)
    BY <1>3, <1>7 DEF At, InQueue, Holds
  <2>2. levels[i].Price = levels[n].Price
    BY <2>1
  <2> QED
    BY <2>2, <1>3, <1>5, PricesDistinct DEF SideOK
<1>8. CASE rest = <<>>
  <2>1. \A x : ~InQueue(rest, x)
    BY <1>8 DEF InQueue
  <2>2. InQueue(q, id)
    BY <1>4 DEF InQueue
  <2>3. \A x : InQueue(levels[n].Orders, x) <=> x = id
    BY <2>1, <2>2, <1>6 DEF q
  <2>4. r = RemoveAt(levels, n)
    BY <1>2, <1>8
  <2> QED
    BY <2>3, <2>4, <1>3, <1>7, DropLevel
<1>9. CASE rest # <<>>
  <2>1. r = SetOrders(levels, n, rest)
    BY <1>2, <1>9
  <2>2. \A x : InQueue(rest, x) <=> InQueue(levels[n].Orders, x) /\ x # id
    BY <1>6 DEF q
  <2> QED
    BY <2>1, <2>2, <1>3, <1>6, <1>7, <1>9, ShortenLevel
<1> QED
  BY <1>8, <1>9

-----------------------------------------------------------------------------
(* The methods of the book.                                                *)

\* The levels and orderMap say the same.
Matched(levels, map) ==
    \A side \in Sides : \A p, x :
        At(levels[side], p, x) <=> /\ x \in DOMAIN map
                                   /\ map[x].Side = side
                                   /\ map[x].Price = p

LevelsOK(levels) ==
    /\ levels \in [Sides -> Seq(PriceLevel)]
    /\ \A side \in Sides : SideOK(levels[side], side = SideBuy)
    /\ \A side \in Sides : Len(levels[side]) <= MaxLevels

MapOK(map) ==
    /\ map = [id \in DOMAIN map |-> map[id]]
    /\ \A id \in DOMAIN map : map[id] \in Order /\ map[id].ID = id

\* BookOK in terms of the relations above.
LEMMA BookView ==
    ASSUME NEW b, b = [levels |-> b.levels, orderMap |-> b.orderMap]
    PROVE  BookOK(b) <=> LevelsOK(b.levels) /\ MapOK(b.orderMap) /\ Matched(b.levels, b.orderMap)
<1> DEFINE levels == b.levels
           map == b.orderMap
<1>1. BookType(b) <=> levels \in [Sides -> Seq(PriceLevel)] /\ MapOK(map)
  BY DEF BookType, MapOK
<1> HIDE DEF levels, map
<1>2. ASSUME levels \in [Sides -> Seq(PriceLevel)]
      PROVE  LevelsOK(levels) <=> LevelsSorted(b) /\ LevelsBounded(b) /\ NoDuplicates(b)
  <2>1. LevelsSorted(b) <=> \A side \in Sides : SideSorted(levels[side], side = SideBuy)
    BY DEF LevelsSorted, SideSorted, levels
  <2>2. LevelsBounded(b) <=> /\ \A side \in Sides : SideFilled(levels[side])
                             /\ \A side \in Sides : Len(levels[side]) <= MaxLevels
    BY DEF LevelsBounded, SideFilled, levels
  <2>3. NoDuplicates(b) <=> \A side \in Sides : SideDistinct(levels[side])
    BY DEF NoDuplicates, SideDistinct, levels
  <2>4. \A side \in Sides : levels[side] \in Seq(PriceLevel)
    BY <1>2
  <2>5. LevelsOK(levels) <=> \A side \in Sides : /\ SideOK(levels[side], side = SideBuy)
                                                /\ Len(levels[side]) <= MaxLevels
    BY <1>2 DEF LevelsOK
  <2>6. \A side \in Sides : SideOK(levels[side], side = SideBuy) <=>
                /\ SideSorted(levels[side], side = SideBuy)
                /\ SideFilled(levels[side])
                /\ SideDistinct(levels[side])
    BY <2>4 DEF SideOK
  <2> QED
    BY <2>1, <2>2, <2>3, <2>5, <2>6
<1>3. Reachable(b) <=> \A side \in Sides : \A p, x : At(levels[side], p, x) =>
          x \in DOMAIN map /\ map[x].Side = side /\ map[x].Price = p
  <2>1. Reachable(b) <=> \A side \in Sides : \A i \in DOMAIN levels[side] :
            \A j \in DOMAIN levels[side][i].Orders :
                /\ levels[side][i].Orders[j] \in DOMAIN map
                /\ map[levels[side][i].Orders[j]].Side = side
                /\ map[levels[side][i].Orders[j]].Price = levels[side][i].Price
    BY DEF Reachable, levels, map
  <2> QED
    BY <2>1 DEF At
<1>4. ASSUME MapOK(map), \A side \in Sides : \A p, x : At(levels[side], p, x) =>
                 x \in DOMAIN map /\ map[x].Side = side /\ map[x].Price = p
      PROVE  NoOrphans(b) <=> \A side \in Sides : \A p, x :
                 x \in DOMAIN map /\ map[x].Side = side /\ map[x].Price = p => At(levels[side], p, x)
  <2>1. NoOrphans(b) <=> \A x \in DOMAIN map : \E p : At(levels[map[x].Side], p, x)
    BY DEF NoOrphans, Holds, At, levels, map
  <2>2. \A x \in DOMAIN map : map[x].Side \in Sides
    BY <1>4 DEF MapOK, Order
  <2> QED
    BY <2>1, <2>2, <1>4
<1> QED
  <2>1. BookOK(b) => LevelsOK(levels) /\ MapOK(map) /\ Matched(levels, map)
    BY <1>1, <1>2, <1>3, <1>4 DEF BookOK, Matched
  <2>2. LevelsOK(levels) /\ MapOK(map) /\ Matched(levels, map) => BookOK(b)
    BY <1>1, <1>2, <1>3, <1>4 DEF BookOK, Matched, LevelsOK
  <2> QED
    BY <2>1, <2>2 DEF levels, map

\* A fresh book is well formed.
THEOREM NewBookOK == BookOK(NewBook)
<1> DEFINE L == [side \in Sides |-> <<>>]
           M == [id \in {} |-> {}]
<1>1. NewBook = [levels |-> L, orderMap |-> M]
  BY DEF NewBook
<1>2. DOMAIN M = {} /\ MapOK(M)
  BY DEF MapOK
<1>3. L \in [Sides -> Seq(PriceLevel)] /\ \A side \in Sides : L[side] = <<>>
  OBVIOUS
<1> HIDE DEF L, M
<1>4. SideOK(<<>>, TRUE) /\ SideOK(<<>>, FALSE)
  BY DEF SideOK, SideSorted, SideFilled, SideDistinct
<1>5. LevelsOK(L)
  <2>1. \A side \in Sides : SideOK(L[side], side = SideBuy)
    BY <1>3, <1>4
  <2> QED
    BY <2>1, <1>3, MaxLevelsAssumption DEF LevelsOK
<1>6. Matched(L, M)
  BY <1>2, <1>3 DEF Matched, At
<1>7. NewBook.levels = L /\ NewBook.orderMap = M
  BY <1>1
<1> QED
  BY <1>1, <1>2, <1>5, <1>6, <1>7, BookView

\* AddOrder keeps the book well formed and evicts nobody else's orders but
\* those of the trimmed level: whoever stays keeps side, price and shares.
THEOREM AddOrderOK ==
    ASSUME NEW b, BookOK(b), b = [levels |-> b.levels, orderMap |-> b.orderMap],
           NEW o \in Order, o.ID \notin DOMAIN b.orderMap
    PROVE  BookOK(AddOrder(b, o))
<1> DEFINE d == (o.Side = SideBuy)
           old == b.levels[o.Side]
           r == addToSide(old, o, d)
           L == [b.levels EXCEPT ![o.Side] = r.levels]
           N == With(b.orderMap, o)
           M == Without(N, r.evicted)
<1>1. LevelsOK(b.levels) /\ MapOK(b.orderMap) /\ Matched(b.levels, b.orderMap)
  BY BookView
<1>2. o.Side \in Sides /\ d \in BOOLEAN
  BY DEF Order
<1>3. SideOK(old, d) /\ Len(old) <= MaxLevels
  BY <1>1, <1>2 DEF LevelsOK
<1>4. ~At(old, o.Price, o.ID)
  BY <1>1, <1>2 DEF Matched
<1>5. AddOrder(b, o) = [levels |-> L, orderMap |-> M]
  BY DEF AddOrder
<1>6. /\ DOMAIN N = DOMAIN b.orderMap \cup {o.ID} /\ N[o.ID] = o
      /\ \A x \in DOMAIN b.orderMap : N[x] = b.orderMap[x]
  BY DEF With
<1>7. /\ DOMAIN M = DOMAIN N \ r.evicted
      /\ \A x \in DOMAIN M : M[x] = N[x]
  BY DEF Without
<1>8. M = [x \in DOMAIN M |-> M[x]]
  BY DEF Without
<1>9. MapOK(M)
  BY <1>1, <1>6, <1>7, <1>8 DEF MapOK
<1> HIDE DEF M, N
<1>a. r = addToSide(old, o, d)
  OBVIOUS
<1> HIDE DEF r, d, old
<1>b. SideOK(r.levels, d) /\ Len(r.levels) <= MaxLevels /\ Added(r, old, o)
  BY <1>2, <1>3, <1>4, <1>a, AddToSide, Zenon
<1>c. /\ b.levels \in [Sides -> Seq(PriceLevel)] /\ r.levels \in Seq(PriceLevel)
      /\ L \in [Sides -> Seq(PriceLevel)]
      /\ L[o.Side] = r.levels /\ \A side \in Sides : side # o.Side => L[side] = b.levels[side]
  BY <1>1, <1>2, <1>b DEF LevelsOK, SideOK
<1> HIDE DEF L
<1>d. LevelsOK(L)
  <2>1. ASSUME NEW side \in Sides PROVE SideOK(L[side], side = SideBuy) /\ Len(L[side]) <= MaxLevels
    <3>1. CASE side = o.Side
      BY <3>1, <1>b, <1>c DEF d
    <3>2. CASE side # o.Side
      BY <3>2, <1>1, <1>c DEF LevelsOK
    <3> QED
      BY <3>1, <3>2
  <2> QED
    BY <2>1, <1>c DEF LevelsOK
<1>e. \A p, x : At(old, p, x) \/ (p = o.Price /\ x = o.ID) <=>
             x \in DOMAIN N /\ N[x].Side = o.Side /\ N[x].Price = p
  <2>1. \A p, x : At(old, p, x) <=> /\ x \in DOMAIN b.orderMap /\ b.orderMap[x].Side = o.Side
                                    /\ b.orderMap[x].Price = p
    BY <1>1, <1>2 DEF Matched, old
  <2> QED
    BY <2>1, <1>6
<1>f. \A x : x \in r.evicted <=> x \in DOMAIN N /\ N[x].Side = o.Side /\ ~HasPrice(r.levels, N[x].Price)
  BY <1>b, <1>e DEF Added
<1>g. Matched(L, M)
  <2> SUFFICES ASSUME NEW side \in Sides, NEW p, NEW x
               PROVE  At(L[side], p, x) <=> x \in DOMAIN M /\ M[x].Side = side /\ M[x].Price = p
    BY DEF Matched
  <2>1. CASE side = o.Side
    <3>1. At(r.levels, p, x) <=> /\ x \in DOMAIN N /\ N[x].Side = o.Side /\ N[x].Price = p
                                 /\ HasPrice(r.levels, p)
      <4>1. At(r.levels, p, x) <=> /\ At(old, p, x) \/ (p = o.Price /\ x = o.ID)
                                   /\ HasPrice(r.levels, p)
        BY <1>b DEF Added
      <4>2. At(old, p, x) \/ (p = o.Price /\ x = o.ID) <=>
                x \in DOMAIN N /\ N[x].Side = o.Side /\ N[x].Price = p
        BY <1>e
      <4> QED
        BY <4>1, <4>2
    <3> QED
      BY <2>1, <3>1, <1>7, <1>c, <1>f
  <2>2. CASE side # o.Side
    <3>1. At(L[side], p, x) <=> /\ x \in DOMAIN b.orderMap /\ b.orderMap[x].Side = side
                                /\ b.orderMap[x].Price = p
      BY <2>2, <1>1, <1>c, ZenonT(60) DEF Matched
    <3> QED
      BY <3>1, <2>2, <1>6, <1>7, <1>f
  <2> QED
    BY <2>1, <2>2
<1>h. AddOrder(b, o).levels = L /\ AddOrder(b, o).orderMap = M
  BY <1>5
<1> QED
  BY <1>5, <1>9, <1>d, <1>g, <1>h, BookView

\* RemoveOrder keeps the book well formed and removes the order.
THEOREM RemoveOrderOK ==
    ASSUME NEW b, BookOK(b), b = [levels |-> b.levels, orderMap |-> b.orderMap],
           NEW id \in DOMAIN b.orderMap
    PROVE  /\ BookOK(RemoveOrder(b, id))
           /\ RemoveOrder(b, id).orderMap = Without(b.orderMap, {id})
           /\ RemoveOrder(b, id) = [levels |-> RemoveOrder(b, id).levels,
                                    orderMap |-> RemoveOrder(b, id).orderMap]
<1> DEFINE s == b.orderMap[id].Side
           p0 == b.orderMap[id].Price
           d == (s = SideBuy)
           old == b.levels[s]
           r == removeFromSide(old, id)
           L == [b.levels EXCEPT ![s] = r]
           M == Without(b.orderMap, {id})
<1>1. LevelsOK(b.levels) /\ MapOK(b.orderMap) /\ Matched(b.levels, b.orderMap)
  BY BookView
<1>2. s \in Sides /\ d \in BOOLEAN
  BY <1>1 DEF MapOK, Order
<1>3. RemoveOrder(b, id) = [levels |-> L, orderMap |-> M]
  BY DEF RemoveOrder
<1>4. M = [x \in DOMAIN M |-> M[x]] /\ DOMAIN M = DOMAIN b.orderMap \ {id}
      /\ \A x \in DOMAIN M : M[x] = b.orderMap[x]
  BY DEF Without
<1>5. MapOK(M)
  BY <1>1, <1>4 DEF MapOK
<1>6. RemoveOrder(b, id).levels = L /\ RemoveOrder(b, id).orderMap = M
  BY <1>3
<1> HIDE DEF M
<1>7. SideOK(old, d) /\ Len(old) <= MaxLevels /\ Len(old) \in Nat
  BY <1>1, <1>2, LevelTypes DEF LevelsOK
<1>8. At(old, p0, id) /\ \A p : At(old, p, id) => p = p0
  <2>1. \A p : At(b.levels[s], p, id) <=> b.orderMap[id].Side = s /\ b.orderMap[id].Price = p
    BY <1>1, <1>2 DEF Matched
  <2> QED
    BY <2>1
<1>9. r = removeFromSide(old, id)
  OBVIOUS
<1> HIDE DEF r, d, old, p0
<1>a. SideOK(r, d) /\ Len(r) <= Len(old) /\ Left(r, old, id)
  BY <1>2, <1>7, <1>8, <1>9, RemoveFromSide
<1>b. Len(r) \in Nat /\ Len(r) <= MaxLevels
  BY <1>7, <1>a, LevelTypes, MaxLevelsAssumption DEF SideOK
<1>c. /\ L \in [Sides -> Seq(PriceLevel)]
      /\ L[s] = r /\ \A side \in Sides : side # s => L[side] = b.levels[side]
  BY <1>1, <1>2, <1>a DEF LevelsOK, SideOK
<1> HIDE DEF L
<1>d. LevelsOK(L)
  <2>1. ASSUME NEW side \in Sides PROVE SideOK(L[side], side = SideBuy) /\ Len(L[side]) <= MaxLevels
    <3>1. CASE side = s
      BY <3>1, <1>a, <1>b, <1>c DEF d
    <3>2. CASE side # s
      BY <3>2, <1>1, <1>c DEF LevelsOK
    <3> QED
      BY <3>1, <3>2
  <2> QED
    BY <2>1, <1>c DEF LevelsOK
<1>e. Matched(L, M)
  <2> SUFFICES ASSUME NEW side \in Sides, NEW p, NEW x
               PROVE  At(L[side], p, x) <=> x \in DOMAIN M /\ M[x].Side = side /\ M[x].Price = p
    BY DEF Matched
  <2>0. At(b.levels[side], p, x) <=> /\ x \in DOMAIN b.orderMap /\ b.orderMap[x].Side = side
                                     /\ b.orderMap[x].Price = p
    BY <1>1 DEF Matched
  <2>1. CASE side = s
    <3>1. At(L[side], p, x) <=> At(b.levels[side], p, x) /\ x # id
      BY <2>1, <1>a, <1>c DEF Left, old
    <3> QED
      BY <3>1, <2>0, <1>4
  <2>2. CASE side # s
    BY <2>2, <2>0, <1>4, <1>c
  <2> QED
    BY <2>1, <2>2
<1> QED
  BY <1>3, <1>5, <1>6, <1>d, <1>e, BookView DEF M

\* new is map with the order id reduced by n shares, or without it.
Reduced(map, id, n, new) ==
    /\ map[id].Shares <= n => new = Without(map, {id})
    /\ ~(map[id].Shares <= n) =>
           /\ DOMAIN new = DOMAIN map
           /\ \A x \in DOMAIN map : x # id => new[x] = map[x]
           /\ new[id] = [map[id] EXCEPT !.Shares = map[id].Shares - n]

\* ReduceOrder keeps the book well formed: a positive reduction either takes
\* the order out or leaves it in place with fewer shares, at least one.
THEOREM ReduceOrderOK ==
    ASSUME NEW b, BookOK(b), b = [levels |-> b.levels, orderMap |-> b.orderMap],
           NEW id \in DOMAIN b.orderMap, NEW n \in Nat \ {0}
    PROVE  /\ BookOK(ReduceOrder(b, id, n))
           /\ ReduceOrder(b, id, n) = [levels |-> ReduceOrder(b, id, n).levels,
                                       orderMap |-> ReduceOrder(b, id, n).orderMap]
           /\ Reduced(b.orderMap, id, n, ReduceOrder(b, id, n).orderMap)
<1> DEFINE o == b.orderMap[id]
           M == [b.orderMap EXCEPT ![id].Shares = @ - n]
<1>1. LevelsOK(b.levels) /\ MapOK(b.orderMap) /\ Matched(b.levels, b.orderMap)
  BY BookView
<1>2. o \in Order /\ o.Shares \in Nat /\ o.ID = id
  BY <1>1 DEF MapOK, Order
<1>3. CASE o.Shares <= n
  <2>1. ReduceOrder(b, id, n) = RemoveOrder(b, id)
    BY <1>2, <1>3 DEF ReduceOrder
  <2>2. /\ BookOK(RemoveOrder(b, id))
        /\ RemoveOrder(b, id).orderMap = Without(b.orderMap, {id})
        /\ RemoveOrder(b, id) = [levels |-> RemoveOrder(b, id).levels,
                                 orderMap |-> RemoveOrder(b, id).orderMap]
    BY RemoveOrderOK
  <2> QED
    BY <2>1, <2>2, <1>3 DEF Reduced
<1>4. CASE ~(o.Shares <= n)
  <2>1. ReduceOrder(b, id, n) = [b EXCEPT !.orderMap[id].Shares = @ - n]
    BY <1>2, <1>4 DEF ReduceOrder
  <2>2. [b EXCEPT !.orderMap[id].Shares = @ - n] = [levels |-> b.levels, orderMap |-> M]
    OBVIOUS
  <2>3. /\ DOMAIN M = DOMAIN b.orderMap
        /\ M = [x \in DOMAIN M |-> M[x]]
        /\ \A x \in DOMAIN M : x # id => M[x] = b.orderMap[x]
        /\ M[id] = [o EXCEPT !.Shares = o.Shares - n]
    BY <1>1 DEF MapOK
  <2>4. /\ M[id] \in Order /\ M[id].ID = id
        /\ M[id].Side = o.Side /\ M[id].Price = o.Price
    BY <2>3, <1>2, <1>4 DEF Order
  <2>5. \A x \in DOMAIN M : M[x].Side = b.orderMap[x].Side /\ M[x].Price = b.orderMap[x].Price
    BY <2>3, <2>4
  <2> HIDE DEF M
  <2>6. MapOK(M)
    BY <2>3, <2>4, <1>1 DEF MapOK
  <2>7. Matched(b.levels, M)
    BY <2>3, <2>5, <1>1 DEF Matched
  <2>8. /\ ReduceOrder(b, id, n).levels = b.levels /\ ReduceOrder(b, id, n).orderMap = M
        /\ ReduceOrder(b, id, n) = [levels |-> b.levels, orderMap |-> M]
    BY <2>1, <2>2
  <2>9. BookOK(ReduceOrder(b, id, n))
    BY <2>6, <2>7, <2>8, <1>1, BookView
  <2> QED
    BY <2>3, <2>8, <2>9, <1>4 DEF Reduced
<1> QED
  BY <1>3, <1>4

\* ReplaceOrder keeps the book well formed when the replacement's id is new.
THEOREM ReplaceOrderOK ==
    ASSUME NEW b, BookOK(b), b = [levels |-> b.levels, orderMap |-> b.orderMap],
           NEW oldID \in DOMAIN b.orderMap,
           NEW newID \in Nat \ {0}, newID \notin DOMAIN b.orderMap,
           NEW newPrice \in Nat \ {0}, NEW newShares \in Nat \ {0}
    PROVE  BookOK(ReplaceOrder(b, oldID, newID, newPrice, newShares))
<1> DEFINE o == Replacement(b.orderMap[oldID], newID, newPrice, newShares)
           c == RemoveOrder(b, oldID)
<1>1. ReplaceOrder(b, oldID, newID, newPrice, newShares) = AddOrder(c, o)
  BY DEF ReplaceOrder
<1>2. /\ BookOK(c) /\ c.orderMap = Without(b.orderMap, {oldID})
      /\ c = [levels |-> c.levels, orderMap |-> c.orderMap]
  BY RemoveOrderOK
<1>3. b.orderMap[oldID] \in Order
  BY DEF BookOK, BookType
<1>4. o \in Order /\ o.ID = newID
  BY <1>3 DEF Replacement, Order
<1> HIDE DEF c, o
<1>5. newID \notin DOMAIN c.orderMap
  BY <1>2 DEF Without
<1> QED
  BY <1>1, <1>2, <1>4, <1>5, AddOrderOK
=============================================================================
