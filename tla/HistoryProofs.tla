----------------------------- MODULE HistoryProofs -----------------------------
(***************************************************************************)
(* For days, candles, limits and requests of any size: types, and that the *)
(* pages of candles a client follows form one descending series that skips *)
(* no bar, and that a page of trades is exactly what was asked for.        *)
(***************************************************************************)
EXTENDS History, FiniteSetTheorems, WellFoundedInduction, SequenceTheorems, TLAPS

-----------------------------------------------------------------------------
(* Numbers.                                                                *)

\* A nonempty set of naturals has a least member: induction for what follows.
LEMMA LeastNat ==
    ASSUME NEW S \in SUBSET Nat, S # {}
    PROVE  \E x \in S : \A y \in S : x <= y
<1>1. PICK x \in S : \A y \in S : ~(<<y, x>> \in OpToRel(<, Nat))
  BY NatLessThanWellFounded, WFMin
<1>2. \A y \in S : ~(y < x)
  BY <1>1 DEF OpToRel
<1> QED
  BY <1>2

\* A set of numbers up to n that holds 0 and is closed under the next one is
\* all of them.
LEMMA UpTo ==
    ASSUME NEW n \in Nat, NEW S, 0 \in S,
           \A i \in 1 .. n : i - 1 \in S => i \in S
    PROVE  \A i \in 0 .. n : i \in S
<1> DEFINE R == (0 .. n) \ S
<1>1. SUFFICES ASSUME R # {}
               PROVE  FALSE
  OBVIOUS
<1>2. R \in SUBSET Nat
  OBVIOUS
<1>3. \E x \in R : \A y \in R : x <= y
  BY ONLY <1>1, <1>2, LeastNat
<1>4. PICK x \in R : \A y \in R : x <= y
  BY <1>3
<1>5. x \in 1 .. n /\ x - 1 \in 0 .. n
  BY <1>4
<1>6. x - 1 \in S
  BY <1>4, <1>5
<1> QED
  BY <1>4, <1>5, <1>6

LEMMA MinOfTwo ==
    ASSUME NEW a \in Int, NEW b \in Int
    PROVE  Min({a, b}) = IF a <= b THEN a ELSE b
BY DEF Min

LEMMA MaxOfTwo ==
    ASSUME NEW a \in Int, NEW b \in Int
    PROVE  Max({a, b}) = IF a <= b THEN b ELSE a
BY DEF Max

\* Min and Max of a finite set of instants.
LEMMA MinOfNats ==
    ASSUME NEW S \in SUBSET Nat, S # {}
    PROVE  Min(S) \in S /\ \A x \in S : Min(S) <= x
<1>1. PICK x \in S : \A y \in S : x <= y
  BY LeastNat
<1> QED
  BY <1>1 DEF Min

LEMMA MaxOfInts ==
    ASSUME NEW S \in SUBSET Int, S # {}, NEW n \in Int, NEW m \in Int, \A x \in S : m <= x /\ x <= n
    PROVE  Max(S) \in S /\ \A x \in S : x <= Max(S)
<1> DEFINE R == {k \in Nat : n - k \in S}
<1>0. PICK s \in S : TRUE
  OBVIOUS
<1>1. n - s \in R
  BY <1>0
<1>2. PICK k \in R : \A j \in R : k <= j
  BY <1>1, LeastNat
<1>3. \A x \in S : n - x \in R
  OBVIOUS
<1>4. \A x \in S : k <= n - x
  BY <1>2, <1>3
<1>5. n - k \in S
  BY <1>2
<1>6. \A x \in S : n - k >= x
  BY <1>4
<1> QED
  BY <1>5, <1>6 DEF Max

LEMMA Products ==
    ASSUME NEW a \in Int, NEW b \in Int, NEW n \in Nat \ {0}
    PROVE  /\ n * a < n * b <=> a < b
           /\ n * a <= n * b <=> a <= b
           /\ n * a \in Int
           /\ n * (a + b) = n * a + n * b
           /\ n * (a - b) = n * a - n * b
           /\ n * (a + 1) = n * a + n
           /\ n * (a - 1) = n * a - n
OBVIOUS

-----------------------------------------------------------------------------
(* Days and candles.                                                       *)

LEMMA ConstantFacts ==
    /\ DayLen \in Nat \ {0} /\ Step \in Nat \ {0}
    /\ DefaultLimit \in Nat \ {0} /\ MaxLimit \in Nat \ {0} /\ DefaultLimit <= MaxLimit
    /\ MaxAge \in Nat /\ Retention \in Nat /\ Today \in Nat /\ MaxTime \in Nat
    /\ MaxInserts \in Nat /\ MaxPages \in Nat /\ MaxFailures \in Nat /\ Today <= MaxTime
    /\ DayLen % Step = 0
BY HistoryAssumption DEF HistoryAssumption

LEMMA RequestFacts ==
    ASSUME NEW r \in Asked
    PROVE  /\ r.kind \in {"candles", "trades"}
           /\ r.from \in SUBSET Int /\ r.to \in SUBSET Int
           /\ r.limit \in Int /\ r.offset \in Nat /\ r.fill \in BOOLEAN
           /\ \A x, y \in r.from : x = y
           /\ \A x, y \in r.to : x = y
BY HistoryAssumption DEF HistoryAssumption

\* Where the day and the candle of an instant begin and end.
LEMMA DayBounds ==
    ASSUME NEW t \in Int
    PROVE  /\ dayUTC(t) \in Int
           /\ DayLen * dayUTC(t) <= t /\ t < DayLen * dayUTC(t) + DayLen
BY ConstantFacts DEF dayUTC

LEMMA CandleBounds ==
    ASSUME NEW t \in Int
    PROVE  /\ t \div Step \in Int
           /\ alignDown(t) = Step * (t \div Step)
           /\ alignDown(t) \in Int
           /\ alignDown(t) <= t /\ t < alignDown(t) + Step
BY ConstantFacts DEF alignDown

\* The instants at which a candle begins.
Aligned(x) == alignDown(x) = x

LEMMA AlignedFacts ==
    ASSUME NEW x \in Int
    PROVE  Aligned(x) <=> \E k \in Int : x = Step * k
<1>1. PICK c \in Int : alignDown(x) = Step * c /\ Step * c <= x /\ x < Step * c + Step
  BY CandleBounds
<1>2. ASSUME NEW k \in Int, x = Step * k
      PROVE  alignDown(x) = x
  <2>1. Step * c <= Step * k /\ Step * k < Step * (c + 1)
    BY <1>1, <1>2, ConstantFacts
  <2>2. c <= k /\ k < c + 1
    BY <2>1, ConstantFacts, Products
  <2>3. c = k
    BY <2>2
  <2> QED
    BY <1>1, <1>2, <2>3
<1> QED
  BY <1>1, <1>2 DEF Aligned

LEMMA DayAligned == \E k \in Nat \ {0} : DayLen = Step * k
BY ConstantFacts

LEMMA AlignedCandle ==
    ASSUME NEW t \in Int
    PROVE  alignDown(t) \in Int /\ Aligned(alignDown(t))
BY CandleBounds, AlignedFacts

\* A candle that begins below the start of another one ends there at the latest.
LEMMA AlignedStep ==
    ASSUME NEW x \in Int, NEW y \in Int, Aligned(x), Aligned(y)
    PROVE  /\ x < y => x <= y - Step
           /\ Aligned(y - Step)
           /\ x <= y => \E k \in Nat : y - x = Step * k
<1>1. PICK a \in Int : x = Step * a
  BY AlignedFacts
<1>2. PICK b \in Int : y = Step * b
  BY AlignedFacts
<1>3. y - Step = Step * (b - 1) /\ b - 1 \in Int /\ y - Step \in Int
  BY <1>2, ConstantFacts, Products
<1>4. Aligned(y - Step)
  BY <1>3, AlignedFacts
<1>5. ASSUME x < y
      PROVE  x <= y - Step
  <2>1. a < b
    BY <1>1, <1>2, <1>5, ConstantFacts, Products
  <2>2. Step * a <= Step * (b - 1)
    BY <2>1, ConstantFacts, Products
  <2> QED
    BY <1>1, <1>3, <2>2
<1>6. ASSUME x <= y
      PROVE  \E k \in Nat : y - x = Step * k
  <2>1. a <= b
    BY <1>1, <1>2, <1>6, ConstantFacts, Products
  <2>2. b - a \in Nat /\ y - x = Step * (b - a)
    BY <1>1, <1>2, <2>1, ConstantFacts, Products
  <2> QED
    BY <2>2
<1> QED
  BY <1>4, <1>5, <1>6

LEMMA AlignMonotone ==
    ASSUME NEW t \in Int, NEW u \in Int, t <= u
    PROVE  alignDown(t) <= alignDown(u)
<1>1. PICK a \in Int, b \in Int : /\ alignDown(t) = Step * a /\ Step * a <= t
                                 /\ alignDown(u) = Step * b /\ u < Step * b + Step
  BY CandleBounds
<1>2. Step * a < Step * (b + 1)
  BY <1>1, ConstantFacts
<1>3. a <= b
  BY <1>2, ConstantFacts, Products
<1>4. Step * a <= Step * b
  BY <1>3, ConstantFacts, Products
<1> QED
  BY <1>1, <1>4

\* An instant is below the start of a candle if and only if its own candle is.
LEMMA AlignBelow ==
    ASSUME NEW t \in Int, NEW x \in Int, Aligned(x)
    PROVE  (alignDown(t) < x <=> t < x) /\ (x <= t <=> x <= alignDown(t))
<1>1. alignDown(t) \in Int /\ alignDown(t) <= t
  BY CandleBounds
<1>2. x <= t => x <= alignDown(t)
  BY AlignMonotone DEF Aligned
<1> QED
  BY <1>1, <1>2

-----------------------------------------------------------------------------
(* Loops: a function defined by recursion on 0 .. n exists.                *)

Iterates(g, n, S, c, F) ==
    g \in [0 .. n -> S] /\ g[0] = c /\ \A i \in 1 .. n : g[i] = F[<<g[i - 1], i>>]

LEMMA Recursion ==
    ASSUME NEW n \in Nat, NEW S, NEW c \in S, NEW F \in [S \X (1 .. n) -> S]
    PROVE  \E g : Iterates(g, n, S, c, F)
<1> DEFINE M == {m \in 0 .. n : \E g : Iterates(g, m, S, c, F)}
<1>1. 0 \in M
  <2> DEFINE f == [i \in 0 .. 0 |-> c]
  <2>1. f \in [0 .. 0 -> S] /\ f[0] = c
    OBVIOUS
  <2>2. \A i \in 1 .. 0 : f[i] = F[<<f[i - 1], i>>]
    OBVIOUS
  <2> HIDE DEF f
  <2>3. Iterates(f, 0, S, c, F)
    BY <2>1, <2>2 DEF Iterates
  <2> QED
    BY <2>3
<1>2. ASSUME NEW m \in 1 .. n, m - 1 \in M
      PROVE  m \in M
  <2>1. PICK g : Iterates(g, m - 1, S, c, F)
    BY <1>2
  <2>2. g \in [0 .. m - 1 -> S] /\ g[0] = c /\ \A i \in 1 .. m - 1 : g[i] = F[<<g[i - 1], i>>]
    BY <2>1 DEF Iterates
  <2>3. m - 1 \in 0 .. m - 1 /\ m \in Int
    OBVIOUS
  <2>4. g[m - 1] \in S
    BY <2>2, <2>3
  <2> DEFINE z == F[<<g[m - 1], m>>]
             h == [i \in 0 .. m |-> IF i < m THEN g[i] ELSE z]
  <2>5. z \in S
    BY <2>4
  <2>6. h \in [0 .. m -> S]
    BY <2>2, <2>5
  <2>7. h[0] = c
    BY <2>2
  <2>8. ASSUME NEW i \in 1 .. m
        PROVE  h[i] = F[<<h[i - 1], i>>]
    <3>1. CASE i = m
      <4>1. h[i] = z /\ h[i - 1] = g[m - 1]
        BY <3>1
      <4> QED
        BY <3>1, <4>1
    <3>2. CASE i # m
      <4>1. h[i] = g[i] /\ h[i - 1] = g[i - 1] /\ i \in 1 .. m - 1
        BY <3>2
      <4> QED
        BY <2>2, <4>1
    <3> QED
      BY <3>1, <3>2
  <2> HIDE DEF h
  <2>9. Iterates(h, m, S, c, F)
    BY <2>6, <2>7, <2>8 DEF Iterates
  <2> QED
    BY <2>9
<1> HIDE DEF M
<1>3. \A i \in 0 .. n : i \in M
  BY ONLY <1>1, <1>2, UpTo, n \in Nat
<1> QED
  BY <1>3 DEF M

\* g[i] is the first i sequences, one after the other.
Joins(g, n, X, seqs) ==
    g \in [0 .. n -> Seq(X)] /\ g[0] = <<>> /\ \A i \in 1 .. n : g[i] = g[i - 1] \o seqs[i]

LEMMA JoinsExists ==
    ASSUME NEW X, NEW n \in Nat, NEW seqs \in [1 .. n -> Seq(X)]
    PROVE  \E g : Joins(g, n, X, seqs)
<1> DEFINE F == [p \in Seq(X) \X (1 .. n) |-> p[1] \o seqs[p[2]]]
<1>1. <<>> \in Seq(X)
  OBVIOUS
<1>2. F \in [Seq(X) \X (1 .. n) -> Seq(X)]
  OBVIOUS
<1>3. \A s \in Seq(X), i \in 1 .. n : F[<<s, i>>] = s \o seqs[i]
  OBVIOUS
<1> HIDE DEF F
<1>4. PICK g : Iterates(g, n, Seq(X), <<>>, F)
  BY ONLY <1>1, <1>2, Recursion, n \in Nat
<1>5. g \in [0 .. n -> Seq(X)] /\ g[0] = <<>> /\ \A i \in 1 .. n : g[i] = F[<<g[i - 1], i>>]
  BY <1>4 DEF Iterates
<1>6. ASSUME NEW i \in 1 .. n
      PROVE  g[i] = g[i - 1] \o seqs[i]
  <2>1. g[i - 1] \in Seq(X)
    BY <1>5
  <2> QED
    BY <1>3, <1>5, <2>1
<1> QED
  BY <1>5, <1>6 DEF Joins

LEMMA JoinsUnique ==
    ASSUME NEW X, NEW n \in Nat, NEW seqs, NEW g, NEW h, NEW m \in n .. n + 1, NEW more,
           Joins(g, n, X, seqs), Joins(h, m, X, more), \A i \in 1 .. n : more[i] = seqs[i]
    PROVE  g[n] = h[n]
<1> DEFINE A == {i \in 0 .. n : g[i] = h[i]}
<1>1. 0 \in A
  BY DEF Joins
<1>2. ASSUME NEW i \in 1 .. n, i - 1 \in A
      PROVE  i \in A
  <2>1. g[i - 1] = h[i - 1]
    BY <1>2
  <2>2. i \in 1 .. m
    OBVIOUS
  <2>3. g[i] = g[i - 1] \o seqs[i]
    BY Zenon DEF Joins
  <2>4. h[i] = h[i - 1] \o more[i]
    BY <2>2, Zenon DEF Joins
  <2>5. more[i] = seqs[i]
    OBVIOUS
  <2>6. g[i] = h[i]
    BY ONLY <2>1, <2>3, <2>4, <2>5, Zenon
  <2> QED
    BY <2>6
<1> HIDE DEF A
<1>3. \A i \in 0 .. n : i \in A
  BY ONLY <1>1, <1>2, UpTo, n \in Nat
<1> QED
  BY <1>3 DEF A

\* FlattenSeq joins one sequence after the other.
LEMMA Flatten ==
    ASSUME NEW X, NEW n \in Nat, NEW seqs \in [1 .. n -> Seq(X)], NEW g, Joins(g, n, X, seqs)
    PROVE  FlattenSeq(seqs) = g[n]
<1>1. Len(seqs) = n
  OBVIOUS
<1>2. g \in [0 .. n -> Seq(X)] /\ g[0] = <<>> /\ \A i \in 1 .. n : g[i] = g[i - 1] \o seqs[i]
  BY DEF Joins
<1>3. CASE n = 0
  <2>1. seqs = <<>> /\ FlattenSeq(seqs) = seqs
    BY <1>1, <1>3 DEF FlattenSeq
  <2> QED
    BY <1>2, <1>3, <2>1
<1>4. CASE n # 0
  <2> DEFINE Def(f) == f = [i \in 1 .. n |-> IF i = 1 THEN seqs[i] ELSE f[i - 1] \o seqs[i]]
             h == [i \in 1 .. n |-> g[i]]
             flatten == CHOOSE f : Def(f)
  <2>1. g[1] = seqs[1]
    <3>0. 1 \in 1 .. n /\ 1 - 1 = 0
      BY <1>4
    <3>1. g[1] = g[1 - 1] \o seqs[1] /\ seqs[1] \in Seq(X)
      BY <1>2, <3>0
    <3>2. g[1] = <<>> \o seqs[1]
      BY <1>2, <3>0, <3>1
    <3> QED
      BY <3>1, <3>2
  <2>2. Def(h)
    <3>1. ASSUME NEW i \in 1 .. n
          PROVE  h[i] = IF i = 1 THEN seqs[i] ELSE h[i - 1] \o seqs[i]
      <4>1. CASE i = 1
        BY <2>1, <4>1
      <4>2. CASE i # 1
        <5>1. i - 1 \in 1 .. n /\ h[i - 1] = g[i - 1] /\ h[i] = g[i]
          BY <4>2
        <5> QED
          BY <1>2, <4>2, <5>1
      <4> QED
        BY <4>1, <4>2
    <3> QED
      BY <3>1
  <2>3. Def(flatten)
    <3> HIDE DEF Def
    <3> QED
      BY <2>2
  <2>4. FlattenSeq(seqs) = flatten[n]
    BY <1>1, <1>4 DEF FlattenSeq
  <2>5. /\ \A i \in 1 .. n : flatten[i] = IF i = 1 THEN seqs[i] ELSE flatten[i - 1] \o seqs[i]
    <3> HIDE DEF flatten
    <3> QED
      BY <2>3
  <2> HIDE DEF flatten
  <2> DEFINE A == {i \in 0 .. n : i = 0 \/ flatten[i] = g[i]}
  <2>6. 0 \in A
    OBVIOUS
  <2>7. ASSUME NEW i \in 1 .. n, i - 1 \in A
        PROVE  i \in A
    <3>1. CASE i = 1
      BY <2>1, <2>5, <3>1
    <3>2. CASE i # 1
      <4>1. flatten[i - 1] = g[i - 1]
        BY <2>7, <3>2
      <4>2. flatten[i] = flatten[i - 1] \o seqs[i] /\ g[i] = g[i - 1] \o seqs[i]
        BY <1>2, <2>5, <3>2
      <4>3. flatten[i] = g[i]
        BY ONLY <4>1, <4>2, Zenon
      <4> QED
        BY <4>3
    <3> QED
      BY <3>1, <3>2
  <2> HIDE DEF A
  <2>8. \A i \in 0 .. n : i \in A
    BY ONLY <2>6, <2>7, UpTo, n \in Nat
  <2>9. n \in A
    BY <2>8
  <2>10. flatten[n] = g[n]
    BY <1>4, <2>9 DEF A
  <2> QED
    BY <2>4, <2>10
<1> QED
  BY <1>3, <1>4

\* One more sequence to join.
LEMMA FlattenAppend ==
    ASSUME NEW X, NEW seqs \in Seq(Seq(X)), NEW p \in Seq(X)
    PROVE  /\ FlattenSeq(seqs) \in Seq(X)
           /\ FlattenSeq(Append(seqs, p)) = FlattenSeq(seqs) \o p
<1>1. PICK n \in Nat : n = Len(seqs)
  OBVIOUS
<1>2. seqs \in [1 .. n -> Seq(X)]
  BY <1>1
<1>3. PICK more : more = Append(seqs, p)
  OBVIOUS
<1>4. more \in [1 .. n + 1 -> Seq(X)] /\ more[n + 1] = p /\ \A i \in 1 .. n : more[i] = seqs[i]
  <2>1. more \in Seq(Seq(X)) /\ Len(more) = n + 1
    BY <1>1, <1>3
  <2>2. more[n + 1] = p /\ \A i \in 1 .. n : more[i] = seqs[i]
    BY <1>1, <1>3
  <2> QED
    BY <2>1, <2>2
<1>5. n + 1 \in Nat /\ n + 1 \in n .. n + 1
  OBVIOUS
<1>6. PICK g : Joins(g, n, X, seqs)
  BY <1>2, JoinsExists
<1>7. PICK h : Joins(h, n + 1, X, more)
  BY ONLY <1>4, <1>5, JoinsExists
<1>8. FlattenSeq(seqs) = g[n]
  BY ONLY <1>2, <1>6, Flatten, n \in Nat
<1>9. FlattenSeq(more) = h[n + 1]
  BY ONLY <1>4, <1>5, <1>7, Flatten
<1>10. g[n] = h[n]
  BY ONLY <1>4, <1>5, <1>6, <1>7, JoinsUnique, n \in Nat
<1>11. h[n + 1] = h[n] \o more[n + 1] /\ g[n] \in Seq(X)
  <2>1. n + 1 \in 1 .. n + 1 /\ (n + 1) - 1 = n /\ n \in 0 .. n
    OBVIOUS
  <2>2. h[n + 1] = h[(n + 1) - 1] \o more[n + 1]
    BY <1>7, <2>1 DEF Joins
  <2> QED
    BY <1>6, <2>1, <2>2 DEF Joins
<1> QED
  BY <1>3, <1>4, <1>8, <1>9, <1>10, <1>11

-----------------------------------------------------------------------------
(* Newest first.                                                           *)

\* s has the n newest members of T, newest first, or all of them.
Newest(s, T, n) ==
    /\ s \in Seq(Int)
    /\ Len(s) <= n
    /\ \A i, j \in 1 .. Len(s) : i < j => s[i] > s[j]
    /\ \A i \in 1 .. Len(s) : s[i] \in T
    /\ \A t \in T : \/ \E i \in 1 .. Len(s) : s[i] = t
                    \/ Len(s) = n /\ \A i \in 1 .. Len(s) : s[i] > t

Newer(T, t) == {u \in T : u > t}

\* The number of newer members tells the members of T apart.
LEMMA RankFacts ==
    ASSUME NEW T \in SUBSET Int, IsFiniteSet(T)
    PROVE  /\ Cardinality(T) \in Nat
           /\ \A t \in T : Cardinality(Newer(T, t)) \in 0 .. Cardinality(T) - 1
           /\ \A t, v \in T : t < v => Cardinality(Newer(T, v)) < Cardinality(Newer(T, t))
           /\ \A t, v \in T : Cardinality(Newer(T, v)) = Cardinality(Newer(T, t)) => t = v
<1>1. Cardinality(T) \in Nat
  BY FS_CardinalityType
<1>2. ASSUME NEW t \in T
      PROVE  IsFiniteSet(Newer(T, t)) /\ Cardinality(Newer(T, t)) \in Nat
  <2>1. Newer(T, t) \in SUBSET T
    BY DEF Newer
  <2>2. IsFiniteSet(Newer(T, t))
    BY <2>1, FS_Subset
  <2> QED
    BY <2>2, FS_CardinalityType
<1>3. ASSUME NEW t \in T
      PROVE  Cardinality(Newer(T, t)) \in 0 .. Cardinality(T) - 1
  <2>1. Newer(T, t) \in SUBSET T /\ t \notin Newer(T, t)
    BY DEF Newer
  <2>2. Cardinality(Newer(T, t)) <= Cardinality(T)
    BY <2>1, FS_Subset
  <2>3. Cardinality(Newer(T, t)) # Cardinality(T)
    BY <2>1, FS_Subset
  <2> QED
    BY <1>1, <1>2, <2>2, <2>3
<1>4. ASSUME NEW t \in T, NEW v \in T, t < v
      PROVE  Cardinality(Newer(T, v)) < Cardinality(Newer(T, t))
  <2>1. Newer(T, v) \in SUBSET Newer(T, t)
    <3>1. ASSUME NEW u \in Newer(T, v)
          PROVE  u \in Newer(T, t)
      <4>1. u \in T /\ u > v /\ u \in Int /\ t \in Int /\ v \in Int
        BY DEF Newer
      <4>2. u > t
        BY <1>4, <4>1
      <4> QED
        BY <4>1, <4>2 DEF Newer
    <3> QED
      BY <3>1
  <2>2. v \in Newer(T, t) /\ v \notin Newer(T, v)
    BY <1>4 DEF Newer
  <2>3. IsFiniteSet(Newer(T, t)) /\ Cardinality(Newer(T, t)) \in Nat /\ Cardinality(Newer(T, v)) \in Nat
    BY <1>2
  <2>4. Cardinality(Newer(T, v)) <= Cardinality(Newer(T, t))
    BY <2>1, <2>3, FS_Subset
  <2>5. Cardinality(Newer(T, v)) # Cardinality(Newer(T, t))
    BY <2>1, <2>2, <2>3, FS_Subset
  <2> QED
    BY <2>3, <2>4, <2>5
<1>5. ASSUME NEW t \in T, NEW v \in T, Cardinality(Newer(T, v)) = Cardinality(Newer(T, t))
      PROVE  t = v
  BY <1>2, <1>4, <1>5
<1> QED
  BY <1>1, <1>3, <1>4, <1>5

\* There is a member for every rank.
LEMMA RankReached ==
    ASSUME NEW T \in SUBSET Int, IsFiniteSet(T), NEW k \in 0 .. Cardinality(T) - 1
    PROVE  \E t \in T : Cardinality(Newer(T, t)) = k
<1> DEFINE n == Cardinality(T)
           R == 0 .. n - 1
           f == [t \in T |-> Cardinality(Newer(T, t))]
<1>1. n \in Nat
  BY RankFacts
<1>2. f \in [T -> R] /\ \A t, v \in T : f[t] = f[v] => t = v
  BY RankFacts
<1>3. f \in Injection(T, R)
  BY <1>2 DEF Injection, IsInjective
<1>4. IsFiniteSet(R) /\ Cardinality(R) = n
  BY <1>1, FS_Interval
<1> HIDE DEF f
<1>5. f \in Surjection(T, R)
  BY ONLY <1>3, <1>4, FS_Injection
<1>6. \E t \in T : f[t] = k
  BY <1>5 DEF Surjection
<1> QED
  BY <1>6 DEF f

LEMMA NewestFirstIsNewest ==
    ASSUME NEW T \in SUBSET Int, IsFiniteSet(T)
    PROVE  /\ Newest(NewestFirst(T), T, Cardinality(T))
           /\ Len(NewestFirst(T)) = Cardinality(T)
           /\ \A t \in T : \E i \in 1 .. Cardinality(T) : NewestFirst(T)[i] = t
<1>1. PICK n \in Nat : n = Cardinality(T)
  BY RankFacts
<1>2. PICK s : s = NewestFirst(T)
  OBVIOUS
<1>3. s = [i \in 1 .. n |-> CHOOSE t \in T : Cardinality(Newer(T, t)) = i - 1]
  BY <1>1, <1>2 DEF NewestFirst, Newer
<1>4. ASSUME NEW i \in 1 .. n
      PROVE  s[i] \in T /\ Cardinality(Newer(T, s[i])) = i - 1
  <2>1. i - 1 \in 0 .. Cardinality(T) - 1
    BY <1>1
  <2>2. \E t \in T : Cardinality(Newer(T, t)) = i - 1
    BY <2>1, RankReached
  <2>3. s[i] = CHOOSE t \in T : Cardinality(Newer(T, t)) = i - 1
    BY <1>3
  <2> QED
    BY <2>2, <2>3
<1>5. s \in Seq(Int) /\ Len(s) = n
  <2>1. s \in [1 .. n -> Int]
    BY <1>3, <1>4
  <2> QED
    BY <2>1
<1>6. ASSUME NEW i \in 1 .. n, NEW j \in 1 .. n, i < j
      PROVE  s[i] > s[j]
  <2>1. s[i] \in T /\ s[j] \in T /\ s[i] \in Int /\ s[j] \in Int
    BY <1>4
  <2>2. Cardinality(Newer(T, s[i])) < Cardinality(Newer(T, s[j]))
    BY <1>4, <1>6
  <2>3. s[i] # s[j]
    BY <1>4, <1>6
  <2>4. ~(s[i] < s[j])
    <3>1. SUFFICES ASSUME s[i] < s[j]
                   PROVE  FALSE
      OBVIOUS
    <3>2. Cardinality(Newer(T, s[j])) < Cardinality(Newer(T, s[i]))
      BY <2>1, <3>1, RankFacts
    <3> QED
      BY <1>4, <2>2, <3>2
  <2> QED
    BY <2>1, <2>3, <2>4
<1>7. ASSUME NEW t \in T
      PROVE  \E i \in 1 .. n : s[i] = t
  <2>1. PICK k \in 0 .. n - 1 : k = Cardinality(Newer(T, t))
    BY <1>1, RankFacts
  <2>2. k + 1 \in 1 .. n /\ (k + 1) - 1 = k
    BY <2>1
  <2>3. s[k + 1] \in T /\ Cardinality(Newer(T, s[k + 1])) = k
    BY <1>4, <2>2
  <2>4. s[k + 1] = t
    BY <2>1, <2>3, RankFacts
  <2> QED
    BY <2>2, <2>4
<1> QED
  BY <1>1, <1>2, <1>4, <1>5, <1>6, <1>7 DEF Newest

\* A member at place i has i - 1 newer ones.
LEMMA NewestRank ==
    ASSUME NEW T \in SUBSET Int, IsFiniteSet(T), NEW s, NEW n, Newest(s, T, n), NEW i \in 1 .. Len(s)
    PROVE  Cardinality(Newer(T, s[i])) = i - 1
<1>1. /\ s \in Seq(Int) /\ Len(s) \in Nat
      /\ \A j, k \in 1 .. Len(s) : j < k => s[j] > s[k]
      /\ \A j \in 1 .. Len(s) : s[j] \in T /\ s[j] \in Int
  BY DEF Newest
<1> DEFINE N == Newer(T, s[i])
           f == [j \in 1 .. i - 1 |-> s[j]]
<1>2. \A j \in 1 .. i - 1 : j \in 1 .. Len(s) /\ j < i
  BY <1>1
<1>3. f \in [1 .. i - 1 -> N]
  BY <1>1, <1>2 DEF Newer
<1>4. \A j, k \in 1 .. i - 1 : f[j] = f[k] => j = k
  <2>1. ASSUME NEW j \in 1 .. i - 1, NEW k \in 1 .. i - 1, s[j] = s[k]
        PROVE  j = k
    <3>1. j \in 1 .. Len(s) /\ k \in 1 .. Len(s) /\ s[j] \in Int /\ s[k] \in Int
      BY <1>1, <1>2
    <3>2. ~(j < k) /\ ~(k < j)
      BY <1>1, <2>1, <3>1
    <3> QED
      BY <3>1, <3>2
  <2> QED
    BY <2>1
<1>5. ASSUME NEW u \in N
      PROVE  \E j \in 1 .. i - 1 : f[j] = u
  <2>1. u \in T /\ u \in Int /\ u > s[i] /\ s[i] \in Int
    BY <1>1 DEF Newer
  <2>2. PICK j \in 1 .. Len(s) : s[j] = u
    BY <2>1 DEF Newest
  <2>3. j < i
    BY <1>1, <2>1, <2>2
  <2> QED
    BY <2>2, <2>3
<1> HIDE DEF N, f
<1>6. f \in Bijection(1 .. i - 1, N)
  BY <1>3, <1>4, <1>5 DEF Bijection, Injection, Surjection, IsInjective
<1>7. ExistsBijection(1 .. i - 1, N) /\ i - 1 \in Nat
  BY <1>6 DEF ExistsBijection
<1>8. Cardinality(N) = i - 1
  BY ONLY <1>7, FS_CountingElements
<1> QED
  BY <1>8 DEF N

\* What a prefix of T by rank is.
LEMMA NewestByRank ==
    ASSUME NEW T \in SUBSET Int, IsFiniteSet(T), NEW n \in Nat, NEW s, Newest(s, T, n)
    PROVE  \A t \in T : (\E i \in 1 .. Len(s) : s[i] = t) <=> Cardinality(Newer(T, t)) < n
<1>1. s \in Seq(Int) /\ Len(s) \in Nat /\ Len(s) <= n
  BY DEF Newest
<1>2. ASSUME NEW i \in 1 .. Len(s)
      PROVE  Cardinality(Newer(T, s[i])) < n
  <2>1. Cardinality(Newer(T, s[i])) = i - 1
    BY NewestRank
  <2> QED
    BY <1>1, <2>1
<1>3. ASSUME NEW t \in T, Cardinality(Newer(T, t)) < n, ~\E i \in 1 .. Len(s) : s[i] = t
      PROVE  FALSE
  <2>1. Len(s) = n /\ \A i \in 1 .. Len(s) : s[i] > t /\ s[i] \in T
    BY <1>3 DEF Newest
  <2>2. CASE n = 0
    <3>1. Cardinality(Newer(T, t)) \in Nat
      BY RankFacts
    <3> QED
      BY <1>3, <2>2, <3>1
  <2>3. CASE n # 0
    <3>1. n \in 1 .. Len(s) /\ s[n] \in T /\ t < s[n] /\ s[n] \in Int
      BY <1>1, <2>1, <2>3
    <3>2. Cardinality(Newer(T, s[n])) = n - 1
      BY <3>1, NewestRank
    <3>3. Cardinality(Newer(T, s[n])) < Cardinality(Newer(T, t))
      BY <3>1, RankFacts
    <3>4. Cardinality(Newer(T, t)) \in Nat
      BY RankFacts
    <3> QED
      BY <1>3, <3>2, <3>3, <3>4
  <2> QED
    BY <2>2, <2>3
<1> QED
  BY <1>2, <1>3

\* A descending sequence of all of T is NewestFirst(T).
LEMMA WholeIsNewestFirst ==
    ASSUME NEW T \in SUBSET Int, NEW s \in Seq(Int),
           \A i, j \in 1 .. Len(s) : i < j => s[i] > s[j],
           \A i \in 1 .. Len(s) : s[i] \in T,
           \A t \in T : \E i \in 1 .. Len(s) : s[i] = t
    PROVE  s = NewestFirst(T)
<1>1. PICK n \in Nat : n = Len(s)
  OBVIOUS
<1>2. s \in [1 .. n -> T] /\ \A i \in 1 .. n : s[i] \in Int
  BY <1>1
<1>3. \A i, j \in 1 .. n : s[i] = s[j] => i = j
  <2>1. ASSUME NEW i \in 1 .. n, NEW j \in 1 .. n, s[i] = s[j]
        PROVE  i = j
    <3>1. ~(i < j) /\ ~(j < i)
      BY <1>1, <1>2, <2>1
    <3> QED
      BY <3>1
  <2> QED
    BY <2>1
<1>4. s \in Bijection(1 .. n, T)
  BY <1>1, <1>2, <1>3 DEF Bijection, Injection, Surjection, IsInjective
<1>5. ExistsBijection(1 .. n, T)
  BY <1>4 DEF ExistsBijection
<1>6. IsFiniteSet(T)
  BY <1>5, FS_NatBijection
<1>7. Cardinality(T) = n
  BY <1>5, FS_CountingElements
<1>8. Newest(s, T, n)
  BY <1>1 DEF Newest
<1>9. PICK r : r = NewestFirst(T)
  OBVIOUS
<1>10. Newest(r, T, n) /\ Len(r) = n /\ r \in Seq(Int)
  BY <1>6, <1>7, <1>9, NewestFirstIsNewest DEF Newest
<1>11. ASSUME NEW i \in 1 .. n
       PROVE  s[i] = r[i]
  <2>1. Cardinality(Newer(T, s[i])) = i - 1
    BY <1>1, <1>6, <1>8, NewestRank
  <2>2. Cardinality(Newer(T, r[i])) = i - 1
    BY <1>6, <1>10, NewestRank
  <2>3. s[i] \in T /\ r[i] \in T
    BY <1>2, <1>10 DEF Newest
  <2>4. Cardinality(Newer(T, s[i])) = Cardinality(Newer(T, r[i]))
    BY <2>1, <2>2
  <2>5. PICK a \in T, b \in T : a = s[i] /\ b = r[i]
    BY <2>3
  <2>6. Cardinality(Newer(T, b)) = Cardinality(Newer(T, a))
    BY <2>4, <2>5
  <2>7. a = b
    BY <1>6, <2>6, RankFacts
  <2> QED
    BY <2>5, <2>7
<1>12. s = r
  BY <1>1, <1>10, <1>11
<1> QED
  BY <1>9, <1>12

LEMMA CutFacts ==
    ASSUME NEW X, NEW s \in Seq(X), NEW n \in Nat
    PROVE  /\ Cut(s, n) \in Seq(X)
           /\ Len(Cut(s, n)) = IF n <= Len(s) THEN n ELSE Len(s)
           /\ \A i \in 1 .. Len(Cut(s, n)) : Cut(s, n)[i] = s[i]
           /\ Len(s) <= n => Cut(s, n) = s
<1>1. PICK k \in Nat : k = Min({n, Len(s)})
  BY MinOfTwo
<1>2. k = IF n <= Len(s) THEN n ELSE Len(s)
  BY <1>1, MinOfTwo
<1>3. Cut(s, n) = SubSeq(s, 1, k)
  BY <1>1 DEF Cut
<1>4. PICK c : c = SubSeq(s, 1, k)
  OBVIOUS
<1>5. c \in Seq(X) /\ Len(c) = k /\ \A i \in 1 .. k : c[i] = s[i]
  BY <1>2, <1>4
<1>6. Len(s) <= n => c = s
  BY <1>2, <1>5
<1> QED
  BY <1>2, <1>3, <1>4, <1>5, <1>6

LEMMA CutNewestFirst ==
    ASSUME NEW T \in SUBSET Int, IsFiniteSet(T), NEW n \in Nat
    PROVE  Newest(Cut(NewestFirst(T), n), T, n)
<1>1. PICK s : s = NewestFirst(T)
  OBVIOUS
<1>2. /\ s \in Seq(Int) /\ Len(s) \in Nat
      /\ \A i, j \in 1 .. Len(s) : i < j => s[i] > s[j]
      /\ \A i \in 1 .. Len(s) : s[i] \in T /\ s[i] \in Int
      /\ \A t \in T : \E i \in 1 .. Len(s) : s[i] = t
  BY <1>1, NewestFirstIsNewest DEF Newest
<1>3. PICK c : c = Cut(s, n)
  OBVIOUS
<1>4. /\ c \in Seq(Int) /\ Len(c) \in Nat
      /\ Len(c) = IF n <= Len(s) THEN n ELSE Len(s)
      /\ \A i \in 1 .. Len(c) : c[i] = s[i]
  BY <1>2, <1>3, CutFacts
<1>5. ASSUME NEW t \in T
      PROVE  \/ \E i \in 1 .. Len(c) : c[i] = t
             \/ Len(c) = n /\ \A i \in 1 .. Len(c) : c[i] > t
  <2>1. PICK k \in 1 .. Len(s) : s[k] = t
    BY <1>2
  <2>2. CASE k <= Len(c)
    BY <1>4, <2>1, <2>2
  <2>3. CASE ~(k <= Len(c))
    <3>1. Len(c) = n
      BY <1>4, <2>1, <2>3
    <3>2. \A i \in 1 .. Len(c) : i \in 1 .. Len(s) /\ i < k
      BY <1>2, <1>4, <2>3
    <3>3. \A i \in 1 .. Len(c) : c[i] > t
      BY <1>2, <1>4, <2>1, <3>2
    <3> QED
      BY <3>1, <3>3
  <2> QED
    BY <2>2, <2>3
<1>6. Newest(c, T, n)
  <2>1. \A i \in 1 .. Len(c) : i \in 1 .. Len(s)
    BY <1>2, <1>4
  <2>2. Len(c) <= n /\ \A i \in 1 .. Len(c) : c[i] \in T
    BY <1>2, <1>4, <2>1
  <2>3. \A i, j \in 1 .. Len(c) : i < j => c[i] > c[j]
    BY <1>2, <1>4, <2>1
  <2> QED
    BY <1>4, <1>5, <2>2, <2>3 DEF Newest
<1> QED
  BY <1>1, <1>3, <1>6

\* Nothing was asked for, or there is nothing.
LEMMA NothingIsNewest ==
    ASSUME NEW T, NEW n \in Nat, T = {} \/ n = 0
    PROVE  Newest(<<>>, T, n)
BY DEF Newest

\* Newer ones first, and older ones up to the number that is wanted.
LEMMA JoinNewest ==
    ASSUME NEW A \in SUBSET Int, NEW B \in SUBSET Int, NEW n \in Nat, NEW s, NEW r,
           Newest(s, A, n), Newest(r, B, n - Len(s)),
           \A a \in A, b \in B : a > b
    PROVE  Newest(s \o r, A \cup B, n)
<1>1. /\ s \in Seq(Int) /\ Len(s) \in Nat /\ Len(s) <= n
      /\ \A i, j \in 1 .. Len(s) : i < j => s[i] > s[j]
      /\ \A i \in 1 .. Len(s) : s[i] \in A
      /\ \A t \in A : \/ \E i \in 1 .. Len(s) : s[i] = t
                      \/ Len(s) = n /\ \A i \in 1 .. Len(s) : s[i] > t
  BY DEF Newest
<1>2. /\ r \in Seq(Int) /\ Len(r) \in Nat /\ Len(r) <= n - Len(s)
      /\ \A i, j \in 1 .. Len(r) : i < j => r[i] > r[j]
      /\ \A i \in 1 .. Len(r) : r[i] \in B
      /\ \A t \in B : \/ \E i \in 1 .. Len(r) : r[i] = t
                      \/ Len(r) = n - Len(s) /\ \A i \in 1 .. Len(r) : r[i] > t
  BY DEF Newest
<1>3. PICK q : q = s \o r
  OBVIOUS
<1>4. /\ q \in Seq(Int) /\ Len(q) = Len(s) + Len(r)
      /\ \A i \in 1 .. Len(s) : q[i] = s[i]
      /\ \A i \in 1 .. Len(q) : i > Len(s) => q[i] = r[i - Len(s)] /\ i - Len(s) \in 1 .. Len(r)
      /\ \A i \in 1 .. Len(r) : q[i + Len(s)] = r[i] /\ i + Len(s) \in 1 .. Len(q)
  BY <1>1, <1>2, <1>3
<1>5. ASSUME NEW i \in 1 .. Len(q)
      PROVE  IF i <= Len(s) THEN q[i] = s[i] /\ q[i] \in A ELSE q[i] \in B
  <2>1. CASE i <= Len(s)
    <3>1. i \in 1 .. Len(s)
      BY <1>1, <2>1
    <3> QED
      BY <1>1, <1>4, <3>1
  <2>2. CASE ~(i <= Len(s))
    <3>1. q[i] = r[i - Len(s)] /\ i - Len(s) \in 1 .. Len(r)
      BY <1>1, <1>4, <2>2
    <3> QED
      BY <1>2, <2>2, <3>1
  <2> QED
    BY <2>1, <2>2
<1>6. ASSUME NEW i \in 1 .. Len(q), NEW j \in 1 .. Len(q), i < j
      PROVE  q[i] > q[j]
  <2>1. CASE j <= Len(s)
    <3>1. i \in 1 .. Len(s) /\ j \in 1 .. Len(s)
      BY <1>1, <1>6, <2>1
    <3> QED
      BY <1>1, <1>4, <1>6, <3>1
  <2>2. CASE i <= Len(s) /\ ~(j <= Len(s))
    BY <1>5, <2>2
  <2>3. CASE ~(i <= Len(s)) /\ ~(j <= Len(s))
    <3>1. i - Len(s) \in 1 .. Len(r) /\ j - Len(s) \in 1 .. Len(r) /\ i - Len(s) < j - Len(s)
      BY <1>1, <1>2, <1>4, <1>6, <2>3
    <3>2. q[i] = r[i - Len(s)] /\ q[j] = r[j - Len(s)]
      BY <1>1, <1>4, <2>3
    <3> QED
      BY <1>2, <3>1, <3>2
  <2> QED
    BY <1>1, <1>6, <2>1, <2>2, <2>3
<1>7. ASSUME NEW t \in A
      PROVE  \/ \E i \in 1 .. Len(q) : q[i] = t
             \/ Len(q) = n /\ \A i \in 1 .. Len(q) : q[i] > t
  <2>1. CASE \E i \in 1 .. Len(s) : s[i] = t
    <3>1. PICK i \in 1 .. Len(s) : s[i] = t
      BY <2>1
    <3>2. i \in 1 .. Len(q) /\ q[i] = t
      BY <1>1, <1>2, <1>4, <3>1
    <3> QED
      BY <3>2
  <2>2. CASE Len(s) = n /\ \A i \in 1 .. Len(s) : s[i] > t
    <3>1. Len(q) = n /\ Len(q) = Len(s)
      BY <1>1, <1>2, <1>4, <2>2
    <3> QED
      BY <1>4, <2>2, <3>1
  <2> QED
    BY <1>1, <2>1, <2>2
<1>8. ASSUME NEW t \in B
      PROVE  \/ \E i \in 1 .. Len(q) : q[i] = t
             \/ Len(q) = n /\ \A i \in 1 .. Len(q) : q[i] > t
  <2>1. CASE \E i \in 1 .. Len(r) : r[i] = t
    BY <1>4, <2>1
  <2>2. CASE Len(r) = n - Len(s) /\ \A i \in 1 .. Len(r) : r[i] > t
    <3>1. Len(q) = n
      BY <1>1, <1>2, <1>4, <2>2
    <3>2. ASSUME NEW i \in 1 .. Len(q)
          PROVE  q[i] > t
      <4>1. CASE i <= Len(s)
        BY <1>5, <4>1
      <4>2. CASE ~(i <= Len(s))
        <5>1. q[i] = r[i - Len(s)] /\ i - Len(s) \in 1 .. Len(r)
          BY <1>1, <1>4, <4>2
        <5> QED
          BY <2>2, <5>1
      <4> QED
        BY <4>1, <4>2
    <3> QED
      BY <3>1, <3>2
  <2> QED
    BY <1>2, <2>1, <2>2
<1>9. Len(q) <= n
  BY <1>1, <1>2, <1>4
<1>10. \A i \in 1 .. Len(q) : q[i] \in A \cup B
  BY <1>5
<1>11. Newest(q, A \cup B, n)
  BY <1>4, <1>6, <1>7, <1>8, <1>9, <1>10 DEF Newest
<1> QED
  BY <1>3, <1>11

-----------------------------------------------------------------------------
(* Bars.                                                                   *)

Bar == [bucket : Int, trades : SUBSET Int]

LEMMA BarFields ==
    ASSUME NEW s \in Seq(Bar), NEW i \in 1 .. Len(s)
    PROVE  s[i] \in Bar /\ s[i].bucket \in Int /\ s[i].trades \in SUBSET Int
<1>1. s[i] \in Bar
  OBVIOUS
<1> QED
  BY <1>1 DEF Bar

\* Buckets that descend strictly.
Descends(s) ==
    /\ s \in Seq(Bar)
    /\ \A i, j \in 1 .. Len(s) : i < j => s[i].bucket > s[j].bucket

\* The trade's bucket is in s; s is full and has not come down to it.
Shown(s, t) == \E i \in 1 .. Len(s) : s[i].bucket = alignDown(t)
Below(s, t) == \A i \in 1 .. Len(s) : s[i].bucket > alignDown(t)

\* s has the n newest bars of T, newest first, or all of them.
NewestBars(s, T, n) ==
    /\ Descends(s)
    /\ Len(s) <= n
    /\ \A i \in 1 .. Len(s) : /\ \E t \in T : s[i].bucket = alignDown(t)
                              /\ s[i].trades = {t \in T : alignDown(t) = s[i].bucket}
    /\ \A t \in T : Shown(s, t) \/ (Len(s) = n /\ Below(s, t))

\* All the bars of T.
LEMMA BarsFacts ==
    ASSUME NEW T \in SUBSET Int, IsFiniteSet(T)
    PROVE  NewestBars(Bars(T), T, Len(Bars(T))) /\ \A t \in T : Shown(Bars(T), t)
<1> DEFINE f == [t \in T |-> alignDown(t)]
<1>1. PICK B : B = {alignDown(t) : t \in T}
  OBVIOUS
<1>2. B \in SUBSET Int
  BY <1>1, CandleBounds
<1>3. f \in Surjection(T, B)
  BY <1>1 DEF Surjection
<1>4. IsFiniteSet(B)
  <2> HIDE DEF f
  <2> QED
    BY <1>3, FS_Surjection
<1>5. PICK b : b = NewestFirst(B)
  OBVIOUS
<1>6. /\ b \in Seq(Int) /\ Len(b) \in Nat
      /\ \A i, j \in 1 .. Len(b) : i < j => b[i] > b[j]
      /\ \A i \in 1 .. Len(b) : b[i] \in B
      /\ \A x \in B : \E i \in 1 .. Len(b) : b[i] = x
  BY <1>2, <1>4, <1>5, NewestFirstIsNewest DEF Newest
<1>7. PICK s : s = Bars(T)
  OBVIOUS
<1>8. s = [i \in 1 .. Len(b) |-> [bucket |-> b[i], trades |-> {t \in T : alignDown(t) = b[i]}]]
  BY <1>1, <1>5, <1>6, <1>7 DEF Bars
<1>9. s \in Seq(Bar) /\ Len(s) = Len(b)
  <2>1. s \in [1 .. Len(b) -> Bar]
    BY <1>6, <1>8 DEF Bar
  <2> QED
    BY <1>6, <2>1
<1>10. \A i \in 1 .. Len(s) : s[i].bucket = b[i] /\ s[i].trades = {t \in T : alignDown(t) = s[i].bucket}
  BY <1>8, <1>9
<1>11. Descends(s)
  BY <1>6, <1>9, <1>10 DEF Descends
<1>12. \A i \in 1 .. Len(s) : \E t \in T : s[i].bucket = alignDown(t)
  BY <1>1, <1>6, <1>9, <1>10
<1>13. ASSUME NEW t \in T
       PROVE  Shown(s, t)
  <2>1. PICK i \in 1 .. Len(b) : b[i] = alignDown(t)
    BY <1>1, <1>6
  <2> QED
    BY <1>9, <1>10, <2>1 DEF Shown
<1>14. NewestBars(s, T, Len(s))
  BY <1>6, <1>9, <1>10, <1>11, <1>12, <1>13 DEF NewestBars
<1> QED
  BY <1>7, <1>13, <1>14

\* The first n of all the bars.
LEMMA CutBars ==
    ASSUME NEW T \in SUBSET Int, NEW s, NEW m, NewestBars(s, T, m), \A t \in T : Shown(s, t), NEW n \in Nat
    PROVE  NewestBars(Cut(s, n), T, n)
<1>1. /\ s \in Seq(Bar) /\ Len(s) \in Nat
      /\ \A i, j \in 1 .. Len(s) : i < j => s[i].bucket > s[j].bucket
      /\ \A i \in 1 .. Len(s) : /\ \E t \in T : s[i].bucket = alignDown(t)
                                /\ s[i].trades = {t \in T : alignDown(t) = s[i].bucket}
      /\ \A i \in 1 .. Len(s) : s[i].bucket \in Int
  <2>1. s \in Seq(Bar) /\ Len(s) \in Nat
    BY DEF NewestBars, Descends
  <2>2. \A i \in 1 .. Len(s) : s[i].bucket \in Int
    BY <2>1, BarFields
  <2> QED
    BY <2>1, <2>2, Zenon DEF NewestBars, Descends
<1>2. PICK c : c = Cut(s, n)
  OBVIOUS
<1>3. /\ c \in Seq(Bar) /\ Len(c) \in Nat
      /\ Len(c) = IF n <= Len(s) THEN n ELSE Len(s)
      /\ \A i \in 1 .. Len(c) : c[i] = s[i]
  BY <1>1, <1>2, CutFacts
<1>4. \A i \in 1 .. Len(c) : i \in 1 .. Len(s)
  BY <1>1, <1>3
<1>5. ASSUME NEW t \in T
      PROVE  Shown(c, t) \/ (Len(c) = n /\ Below(c, t))
  <2>1. PICK k \in 1 .. Len(s) : s[k].bucket = alignDown(t)
    BY DEF Shown
  <2>2. CASE k <= Len(c)
    <3>1. k \in 1 .. Len(c) /\ c[k].bucket = alignDown(t)
      BY <1>3, <2>1, <2>2
    <3> QED
      BY <3>1 DEF Shown
  <2>3. CASE ~(k <= Len(c))
    <3>1. Len(c) = n
      BY <1>3, <2>1, <2>3
    <3>2. \A i \in 1 .. Len(c) : i \in 1 .. Len(s) /\ i < k
      BY <1>3, <1>4, <2>3
    <3>3. \A i \in 1 .. Len(c) : c[i].bucket > alignDown(t)
      BY <1>1, <1>3, <2>1, <3>2
    <3> QED
      BY <3>1, <3>3 DEF Below
  <2> QED
    BY <2>2, <2>3
<1>6. Descends(c)
  BY <1>1, <1>3, <1>4 DEF Descends
<1>7. Len(c) <= n
  BY <1>1, <1>3
<1>8. \A i \in 1 .. Len(c) : /\ \E t \in T : c[i].bucket = alignDown(t)
                             /\ c[i].trades = {t \in T : alignDown(t) = c[i].bucket}
  <2>1. ASSUME NEW i \in 1 .. Len(c)
        PROVE  /\ \E t \in T : c[i].bucket = alignDown(t)
               /\ c[i].trades = {t \in T : alignDown(t) = c[i].bucket}
    <3>1. c[i] = s[i] /\ i \in 1 .. Len(s)
      BY <1>3, <1>4
    <3>2. /\ \E t \in T : s[i].bucket = alignDown(t)
          /\ s[i].trades = {t \in T : alignDown(t) = s[i].bucket}
      BY <1>1, <3>1
    <3> QED
      BY ONLY <3>1, <3>2, Zenon
  <2> QED
    BY <2>1
<1>9. NewestBars(c, T, n)
  BY <1>5, <1>6, <1>7, <1>8 DEF NewestBars
<1> QED
  BY <1>2, <1>9

LEMMA NoBars ==
    ASSUME NEW T, NEW n \in Nat, T = {} \/ n = 0
    PROVE  NewestBars(<<>>, T, n)
BY DEF NewestBars, Descends, Below, Shown

\* Where the parts of a joined sequence are.
LEMMA JoinPlaces ==
    ASSUME NEW X, NEW s \in Seq(X), NEW r \in Seq(X)
    PROVE  /\ s \o r \in Seq(X) /\ Len(s \o r) = Len(s) + Len(r)
           /\ \A i \in 1 .. Len(s) : (s \o r)[i] = s[i] /\ i \in 1 .. Len(s \o r)
           /\ \A i \in 1 .. Len(r) : (s \o r)[i + Len(s)] = r[i] /\ i + Len(s) \in 1 .. Len(s \o r)
           /\ \A i \in 1 .. Len(s \o r) :
                  \/ i \in 1 .. Len(s) /\ (s \o r)[i] = s[i]
                  \/ i - Len(s) \in 1 .. Len(r) /\ (s \o r)[i] = r[i - Len(s)]
OBVIOUS

\* Two descending series, the second below the first, are one.
LEMMA JoinDescends ==
    ASSUME NEW s, NEW r, Descends(s), Descends(r),
           \A i \in 1 .. Len(s), j \in 1 .. Len(r) : s[i].bucket > r[j].bucket
    PROVE  Descends(s \o r)
<1>1. /\ s \in Seq(Bar) /\ r \in Seq(Bar) /\ Len(s) \in Nat /\ Len(r) \in Nat
      /\ \A i, j \in 1 .. Len(s) : i < j => s[i].bucket > s[j].bucket
      /\ \A i, j \in 1 .. Len(r) : i < j => r[i].bucket > r[j].bucket
  BY DEF Descends
<1>2. PICK q : q = s \o r
  OBVIOUS
<1>3. /\ q \in Seq(Bar) /\ Len(q) = Len(s) + Len(r)
      /\ \A i \in 1 .. Len(s) : q[i] = s[i]
      /\ \A i \in 1 .. Len(q) : i > Len(s) => q[i] = r[i - Len(s)] /\ i - Len(s) \in 1 .. Len(r)
  BY <1>1, <1>2
<1>a. \A i \in 1 .. Len(q) : i > Len(s) => \E a \in 1 .. Len(r) : a = i - Len(s) /\ q[i] = r[a]
  BY <1>3
<1>4. ASSUME NEW i \in 1 .. Len(q), NEW j \in 1 .. Len(q), i < j
      PROVE  q[i].bucket > q[j].bucket
  <2>1. CASE j <= Len(s)
    <3>1. i \in 1 .. Len(s) /\ j \in 1 .. Len(s)
      BY <1>1, <1>4, <2>1
    <3> QED
      BY <1>1, <1>3, <1>4, <3>1
  <2>2. CASE i <= Len(s) /\ ~(j <= Len(s))
    <3>1. i \in 1 .. Len(s) /\ j - Len(s) \in 1 .. Len(r) /\ q[j] = r[j - Len(s)] /\ q[i] = s[i]
      BY <1>1, <1>3, <2>2
    <3> QED
      BY <3>1
  <2>3. CASE ~(i <= Len(s)) /\ ~(j <= Len(s))
    <3>0. i > Len(s) /\ j > Len(s)
      BY <1>1, <2>3
    <3>1. PICK a \in 1 .. Len(r) : a = i - Len(s) /\ q[i] = r[a]
      BY <1>a, <3>0
    <3>b. PICK b \in 1 .. Len(r) : b = j - Len(s) /\ q[j] = r[b]
      BY <1>a, <3>0
    <3>2. q[i] = r[a] /\ q[j] = r[b] /\ a < b
      BY <1>1, <1>4, <3>1, <3>b
    <3>3. r[a].bucket > r[b].bucket
      BY <1>1, <3>2, Zenon
    <3> QED
      BY <3>2, <3>3
  <2> QED
    BY <1>1, <1>4, <2>1, <2>2, <2>3
<1> QED
  BY <1>2, <1>3, <1>4 DEF Descends

\* Newer bars first, and older ones up to the number that is wanted.
LEMMA JoinBars ==
    ASSUME NEW A \in SUBSET Int, NEW B \in SUBSET Int, NEW n \in Nat, NEW s, NEW r,
           NewestBars(s, A, n), NewestBars(r, B, n - Len(s)),
           \A a \in A, b \in B : alignDown(a) > alignDown(b)
    PROVE  NewestBars(s \o r, A \cup B, n)
<1>1. /\ Descends(s) /\ s \in Seq(Bar) /\ Len(s) \in Nat /\ Len(s) <= n
      /\ \A i \in 1 .. Len(s) : /\ \E t \in A : s[i].bucket = alignDown(t)
                                /\ s[i].trades = {t \in A : alignDown(t) = s[i].bucket}
      /\ \A t \in A : Shown(s, t) \/ (Len(s) = n /\ Below(s, t))
  <2>1. s \in Seq(Bar) /\ Len(s) \in Nat
    BY DEF NewestBars, Descends
  <2> QED
    BY <2>1, Zenon DEF NewestBars
<1>2. /\ Descends(r) /\ r \in Seq(Bar) /\ Len(r) \in Nat /\ Len(r) <= n - Len(s)
      /\ \A i \in 1 .. Len(r) : /\ \E t \in B : r[i].bucket = alignDown(t)
                                /\ r[i].trades = {t \in B : alignDown(t) = r[i].bucket}
      /\ \A t \in B : Shown(r, t) \/ (Len(r) = n - Len(s) /\ Below(r, t))
  <2>1. r \in Seq(Bar) /\ Len(r) \in Nat
    BY DEF NewestBars, Descends
  <2> QED
    BY <2>1, Zenon DEF NewestBars
<1>3. \A t \in A \cup B : alignDown(t) \in Int
  BY CandleBounds
<1>4. \A i \in 1 .. Len(s), j \in 1 .. Len(r) : s[i].bucket > r[j].bucket
  <2>1. ASSUME NEW i \in 1 .. Len(s), NEW j \in 1 .. Len(r)
        PROVE  s[i].bucket > r[j].bucket
    <3>1. PICK a \in A : s[i].bucket = alignDown(a)
      BY <1>1, Zenon
    <3>2. PICK b \in B : r[j].bucket = alignDown(b)
      BY <1>2, Zenon
    <3> QED
      BY <3>1, <3>2
  <2> QED
    BY <2>1
<1>5. PICK q : q = s \o r
  OBVIOUS
<1>6. /\ q \in Seq(Bar) /\ Len(q) = Len(s) + Len(r)
      /\ \A i \in 1 .. Len(s) : q[i] = s[i] /\ i \in 1 .. Len(q)
      /\ \A i \in 1 .. Len(r) : q[i + Len(s)] = r[i] /\ i + Len(s) \in 1 .. Len(q)
      /\ \A i \in 1 .. Len(q) : \/ i \in 1 .. Len(s) /\ q[i] = s[i]
                                \/ i - Len(s) \in 1 .. Len(r) /\ q[i] = r[i - Len(s)]
  BY <1>1, <1>2, <1>5, JoinPlaces
<1>7. Descends(q)
  BY <1>1, <1>2, <1>4, <1>5, JoinDescends
<1>8. Len(q) <= n
  BY <1>1, <1>2, <1>6
<1>9. ASSUME NEW i \in 1 .. Len(q)
      PROVE  /\ \E t \in A \cup B : q[i].bucket = alignDown(t)
             /\ q[i].trades = {t \in A \cup B : alignDown(t) = q[i].bucket}
  <2>1. CASE i \in 1 .. Len(s) /\ q[i] = s[i]
    <3>1. PICK a \in A : s[i].bucket = alignDown(a)
      BY <1>1, <2>1, Zenon
    <3>2. s[i].trades = {t \in A : alignDown(t) = s[i].bucket}
      BY <1>1, <2>1, Zenon
    <3>3. \A b \in B : alignDown(b) # s[i].bucket
      BY <1>3, <3>1
    <3>4. {t \in A \cup B : alignDown(t) = s[i].bucket} = {t \in A : alignDown(t) = s[i].bucket}
      BY <3>3, Zenon
    <3> QED
      BY <2>1, <3>1, <3>2, <3>4, Zenon
  <2>2. CASE i - Len(s) \in 1 .. Len(r) /\ q[i] = r[i - Len(s)]
    <3>0. PICK k \in 1 .. Len(r) : q[i] = r[k]
      BY <2>2
    <3>1. PICK b \in B : r[k].bucket = alignDown(b)
      BY <1>2, <3>0, Zenon
    <3>2. r[k].trades = {t \in B : alignDown(t) = r[k].bucket}
      BY <1>2, <3>0, Zenon
    <3>3. \A a \in A : alignDown(a) # r[k].bucket
      BY <1>3, <3>1
    <3>4. {t \in A \cup B : alignDown(t) = r[k].bucket} = {t \in B : alignDown(t) = r[k].bucket}
      BY <3>3, Zenon
    <3> QED
      BY <3>0, <3>1, <3>2, <3>4, Zenon
  <2> QED
    BY <1>6, <2>1, <2>2
<1>10. ASSUME NEW t \in A
       PROVE  Shown(q, t) \/ (Len(q) = n /\ Below(q, t))
  <2>1. CASE Shown(s, t)
    <3>1. PICK i \in 1 .. Len(s) : s[i].bucket = alignDown(t)
      BY <2>1 DEF Shown
    <3>2. i \in 1 .. Len(q) /\ q[i].bucket = alignDown(t)
      BY <1>6, <3>1
    <3> QED
      BY <3>2 DEF Shown
  <2>2. CASE Len(s) = n /\ Below(s, t)
    <3>1. Len(q) = n /\ Len(q) = Len(s)
      BY <1>1, <1>2, <1>6, <2>2
    <3>2. \A i \in 1 .. Len(q) : q[i].bucket > alignDown(t)
      BY <1>6, <2>2, <3>1 DEF Below
    <3> QED
      BY <3>1, <3>2 DEF Below
  <2> QED
    BY <1>1, <2>1, <2>2
<1>11. ASSUME NEW t \in B
       PROVE  Shown(q, t) \/ (Len(q) = n /\ Below(q, t))
  <2>1. CASE Shown(r, t)
    <3>1. PICK i \in 1 .. Len(r) : r[i].bucket = alignDown(t)
      BY <2>1 DEF Shown
    <3>2. i + Len(s) \in 1 .. Len(q) /\ q[i + Len(s)].bucket = alignDown(t)
      BY <1>6, <3>1
    <3> QED
      BY <3>2 DEF Shown
  <2>2. CASE Len(r) = n - Len(s) /\ Below(r, t)
    <3>1. Len(q) = n
      BY <1>1, <1>2, <1>6, <2>2
    <3>2. ASSUME NEW i \in 1 .. Len(q)
          PROVE  q[i].bucket > alignDown(t)
      <4>1. CASE i \in 1 .. Len(s) /\ q[i] = s[i]
        <5>1. PICK a \in A : s[i].bucket = alignDown(a)
          BY <1>1, <4>1, Zenon
        <5> QED
          BY <4>1, <5>1
      <4>2. CASE i - Len(s) \in 1 .. Len(r) /\ q[i] = r[i - Len(s)]
        BY <2>2, <4>2 DEF Below
      <4> QED
        BY <1>6, <4>1, <4>2
    <3> QED
      BY <3>1, <3>2 DEF Below
  <2> QED
    BY <1>2, <2>1, <2>2
<1>12. NewestBars(q, A \cup B, n)
  BY <1>7, <1>8, <1>9, <1>10, <1>11 DEF NewestBars
<1> QED
  BY <1>5, <1>12

-----------------------------------------------------------------------------
(* The ring of the archive reader.                                         *)

Wrap(x, n) == IF x < n THEN x ELSE x - n

LEMMA WrapFacts ==
    ASSUME NEW n \in Nat \ {0}, NEW x \in 0 .. n + n - 1
    PROVE  x % n = Wrap(x, n) /\ Wrap(x, n) \in 0 .. n - 1
BY DEF Wrap

Rings(n) == [buf : [0 .. n - 1 -> Int], count : 0 .. n, head : 0 .. n - 1]

\* After i lines the ring has the last ones, as many as fit.
Holds(ring, lines, i, n) ==
    /\ ring \in Rings(n)
    /\ ring.count = IF i <= n THEN i ELSE n
    /\ \A k \in 0 .. ring.count - 1 :
           ring.buf[Wrap(ring.head + k, n)] = lines[i - ring.count + 1 + k]

LEMMA RingFields ==
    ASSUME NEW n \in Nat \ {0}, NEW ring \in Rings(n)
    PROVE  /\ ring.buf \in [0 .. n - 1 -> Int] /\ ring.count \in 0 .. n /\ ring.head \in 0 .. n - 1
           /\ Cardinality(DOMAIN ring.buf) = n
<1>1. ring.buf \in [0 .. n - 1 -> Int] /\ ring.count \in 0 .. n /\ ring.head \in 0 .. n - 1
  BY DEF Rings
<1>2. Cardinality(0 .. n - 1) = n
  BY FS_Interval
<1>3. DOMAIN ring.buf = 0 .. n - 1
  BY <1>1
<1> QED
  BY <1>1, <1>2, <1>3

\* There is room; the oldest makes room.
LEMMA PushOpen ==
    ASSUME NEW n \in Nat \ {0}, NEW ring \in Rings(n), NEW t \in Int, ring.count < n
    PROVE  /\ push(ring, t) \in Rings(n)
           /\ push(ring, t).count = ring.count + 1
           /\ push(ring, t).head = ring.head
           /\ push(ring, t).buf = [ring.buf EXCEPT ![Wrap(ring.head + ring.count, n)] = t]
<1>1. PICK b \in [0 .. n - 1 -> Int], c \in 0 .. n, h \in 0 .. n - 1 :
          ring = [buf |-> b, count |-> c, head |-> h]
  BY DEF Rings
<1>2. ring.buf = b /\ ring.count = c /\ ring.head = h
  BY <1>1
<1>3. Cardinality(DOMAIN ring.buf) = n
  BY RingFields
<1>4. h + c \in 0 .. n + n - 1
  BY <1>2
<1>5. (h + c) % n = Wrap(h + c, n) /\ Wrap(h + c, n) \in 0 .. n - 1
  BY <1>4, WrapFacts
<1>6. push(ring, t) = [ring EXCEPT !.buf[(h + c) % n] = t, !.count = @ + 1]
  BY <1>2, <1>3 DEF push
<1>7. push(ring, t) = [buf |-> [b EXCEPT ![Wrap(h + c, n)] = t], count |-> c + 1, head |-> h]
  BY <1>1, <1>5, <1>6
<1>8. [b EXCEPT ![Wrap(h + c, n)] = t] \in [0 .. n - 1 -> Int] /\ c + 1 \in 0 .. n
  BY <1>2, <1>5
<1>9. push(ring, t) \in Rings(n)
  BY <1>7, <1>8 DEF Rings
<1> QED
  BY <1>2, <1>7, <1>9

LEMMA PushFull ==
    ASSUME NEW n \in Nat \ {0}, NEW ring \in Rings(n), NEW t \in Int, ring.count = n
    PROVE  /\ push(ring, t) \in Rings(n)
           /\ push(ring, t).count = n
           /\ push(ring, t).head = Wrap(ring.head + 1, n)
           /\ push(ring, t).buf = [ring.buf EXCEPT ![ring.head] = t]
<1>1. PICK b \in [0 .. n - 1 -> Int], c \in 0 .. n, h \in 0 .. n - 1 :
          ring = [buf |-> b, count |-> c, head |-> h]
  BY DEF Rings
<1>2. ring.buf = b /\ ring.count = n /\ ring.head = h /\ c = n
  BY <1>1
<1>3. Cardinality(DOMAIN ring.buf) = n
  BY RingFields
<1>4. h + 1 \in 0 .. n + n - 1
  OBVIOUS
<1>5. (h + 1) % n = Wrap(h + 1, n) /\ Wrap(h + 1, n) \in 0 .. n - 1
  BY <1>4, WrapFacts
<1>6. push(ring, t) = [ring EXCEPT !.buf[h] = t, !.head = (@ + 1) % n]
  <2>1. ~(ring.count < Cardinality(DOMAIN ring.buf))
    BY <1>2, <1>3
  <2> QED
    BY <1>2, <1>3, <2>1 DEF push
<1>7. push(ring, t) = [buf |-> [b EXCEPT ![h] = t], count |-> c, head |-> Wrap(h + 1, n)]
  BY <1>1, <1>5, <1>6
<1>8. [b EXCEPT ![h] = t] \in [0 .. n - 1 -> Int]
  OBVIOUS
<1>9. push(ring, t) \in Rings(n)
  BY <1>5, <1>7, <1>8 DEF Rings
<1> QED
  BY <1>2, <1>7, <1>9

LEMMA PushHolds ==
    ASSUME NEW n \in Nat \ {0}, NEW lines, NEW i \in Nat, NEW ring, Holds(ring, lines, i, n),
           lines[i + 1] \in Int
    PROVE  Holds(push(ring, lines[i + 1]), lines, i + 1, n)
<1>1. PICK t \in Int : t = lines[i + 1]
  OBVIOUS
<1>2. ring \in Rings(n)
  BY DEF Holds
<1>3. PICK b \in [0 .. n - 1 -> Int], c \in 0 .. n, h \in 0 .. n - 1 :
          ring = [buf |-> b, count |-> c, head |-> h]
  BY <1>2 DEF Rings
<1>4. c = (IF i <= n THEN i ELSE n) /\ \A k \in 0 .. c - 1 : b[Wrap(h + k, n)] = lines[i - c + 1 + k]
  BY <1>3 DEF Holds
<1>5. PICK q : q = push(ring, t)
  OBVIOUS
<1>6. CASE c < n
  <2>1. q \in Rings(n) /\ q.count = c + 1 /\ q.head = h /\ q.buf = [b EXCEPT ![Wrap(h + c, n)] = t]
    <3>1. ring.buf = b /\ ring.count = c /\ ring.head = h
      BY <1>3
    <3>2. ring.count < n
      BY <1>6, <3>1
    <3>3. /\ push(ring, t) \in Rings(n)
          /\ push(ring, t).count = ring.count + 1
          /\ push(ring, t).head = ring.head
          /\ push(ring, t).buf = [ring.buf EXCEPT ![Wrap(ring.head + ring.count, n)] = t]
      BY ONLY n \in Nat \ {0}, t \in Int, <1>2, <3>2, PushOpen
    <3> QED
      BY ONLY <1>5, <3>1, <3>3, Zenon
  <2>2. c = i
    BY <1>4, <1>6
  <2>3. ASSUME NEW k \in 0 .. c
        PROVE  q.buf[Wrap(h + k, n)] = lines[(i + 1) - (c + 1) + 1 + k]
    <3>1. Wrap(h + k, n) \in 0 .. n - 1 /\ Wrap(h + c, n) \in 0 .. n - 1
      BY <1>6 DEF Wrap
    <3>2. CASE k = c
      <4>1. q.buf[Wrap(h + k, n)] = t
        BY <2>1, <3>1, <3>2
      <4>2. (i + 1) - (c + 1) + 1 + k = i + 1
        BY <2>2, <3>2
      <4> QED
        BY <1>1, <4>1, <4>2
    <3>3. CASE k # c
      <4>1. Wrap(h + k, n) # Wrap(h + c, n)
        BY <1>6, <3>3 DEF Wrap
      <4>2. q.buf[Wrap(h + k, n)] = b[Wrap(h + k, n)]
        BY <2>1, <3>1, <4>1
      <4>3. k \in 0 .. c - 1 /\ (i + 1) - (c + 1) + 1 + k = i - c + 1 + k
        BY <3>3
      <4> QED
        BY <1>4, <4>2, <4>3
    <3> QED
      BY <3>2, <3>3
  <2>4. c + 1 = IF i + 1 <= n THEN i + 1 ELSE n
    BY <1>6, <2>2
  <2>5. (c + 1) - 1 = c
    OBVIOUS
  <2>6. Holds(q, lines, i + 1, n)
    BY <2>1, <2>3, <2>4, <2>5 DEF Holds
  <2> QED
    BY <1>1, <1>5, <2>6
<1>7. CASE c = n
  <2>1. q \in Rings(n) /\ q.count = n /\ q.head = Wrap(h + 1, n) /\ q.buf = [b EXCEPT ![h] = t]
    <3>1. ring.buf = b /\ ring.count = n /\ ring.head = h
      BY <1>3, <1>7
    <3>2. ring.count = n
      BY <3>1
    <3>3. /\ push(ring, t) \in Rings(n)
          /\ push(ring, t).count = n
          /\ push(ring, t).head = Wrap(ring.head + 1, n)
          /\ push(ring, t).buf = [ring.buf EXCEPT ![ring.head] = t]
      BY ONLY n \in Nat \ {0}, t \in Int, <1>2, <3>2, PushFull
    <3> QED
      BY ONLY <1>5, <3>1, <3>3, Zenon
  <2>2. i >= n
    BY <1>4, <1>7
  <2>3. ASSUME NEW k \in 0 .. n - 1
        PROVE  q.buf[Wrap(Wrap(h + 1, n) + k, n)] = lines[(i + 1) - n + 1 + k]
    <3>1. CASE k = n - 1
      <4>1. Wrap(Wrap(h + 1, n) + k, n) = h
        BY <3>1 DEF Wrap
      <4>2. (i + 1) - n + 1 + k = i + 1
        BY <3>1
      <4>3. q.buf[h] = t
        BY <2>1
      <4> QED
        BY <1>1, <4>1, <4>2, <4>3
    <3>2. CASE k # n - 1
      <4>1. k + 1 \in 0 .. n - 1
        BY <3>2
      <4>2. Wrap(Wrap(h + 1, n) + k, n) = Wrap(h + (k + 1), n)
        BY <4>1 DEF Wrap
      <4>3. Wrap(h + (k + 1), n) # h /\ Wrap(h + (k + 1), n) \in 0 .. n - 1
        BY <4>1 DEF Wrap
      <4>4. q.buf[Wrap(h + (k + 1), n)] = b[Wrap(h + (k + 1), n)]
        BY <2>1, <4>3
      <4>5. b[Wrap(h + (k + 1), n)] = lines[i - n + 1 + (k + 1)]
        BY <1>4, <1>7, <4>1
      <4>6. i - n + 1 + (k + 1) = (i + 1) - n + 1 + k
        OBVIOUS
      <4> QED
        BY <4>2, <4>4, <4>5, <4>6
    <3> QED
      BY <3>1, <3>2
  <2>4. n = IF i + 1 <= n THEN i + 1 ELSE n
    BY <2>2
  <2>5. Holds(q, lines, i + 1, n)
    BY <2>1, <2>3, <2>4 DEF Holds
  <2> QED
    BY <1>1, <1>5, <2>5
<1> QED
  BY <1>6, <1>7

\* The tail of a day-file: its newest trades of the range, as many as fit.
TailRing(lines, n, ring) ==
    ring = [i \in 0 .. Len(lines) |-> IF i = 0 THEN newTail(n) ELSE push(ring[i - 1], lines[i])]

LEMMA TailRingHolds ==
    ASSUME NEW n \in Nat \ {0}, NEW lines \in Seq(Int), NEW ring, TailRing(lines, n, ring)
    PROVE  Holds(ring[Len(lines)], lines, Len(lines), n)
<1>1. PICK m \in Nat : m = Len(lines)
  OBVIOUS
<1>2. \A i \in 0 .. m : ring[i] = IF i = 0 THEN newTail(n) ELSE push(ring[i - 1], lines[i])
  BY <1>1 DEF TailRing
<1> DEFINE A == {i \in 0 .. m : Holds(ring[i], lines, i, n)}
<1>3. 0 \in A
  <2>1. ring[0] = newTail(n)
    BY <1>2
  <2>2. newTail(n) \in Rings(n) /\ newTail(n).count = 0
    BY DEF newTail, Rings
  <2>3. Holds(newTail(n), lines, 0, n)
    BY <2>2 DEF Holds
  <2> QED
    BY <2>1, <2>3
<1>4. ASSUME NEW i \in 1 .. m, i - 1 \in A
      PROVE  i \in A
  <2>1. PICK j \in Nat : j = i - 1 /\ j + 1 = i
    OBVIOUS
  <2>2. Holds(ring[j], lines, j, n)
    BY <1>4, <2>1
  <2>3. lines[j + 1] \in Int
    BY <1>1, <2>1
  <2>4. Holds(push(ring[j], lines[j + 1]), lines, j + 1, n)
    BY <2>2, <2>3, PushHolds
  <2>5. ring[i] = push(ring[i - 1], lines[i])
    BY <1>2
  <2>6. Holds(ring[i], lines, i, n)
    BY <2>1, <2>4, <2>5
  <2> QED
    BY <2>6
<1> HIDE DEF A
<1>5. \A i \in 0 .. m : i \in A
  BY ONLY m \in Nat, <1>3, <1>4, UpTo
<1> QED
  BY <1>1, <1>5 DEF A

LEMMA TailRingExists ==
    ASSUME NEW n \in Nat \ {0}, NEW lines \in Seq(Int)
    PROVE  \E ring : TailRing(lines, n, ring)
<1>1. PICK m \in Nat : m = Len(lines)
  OBVIOUS
<1> DEFINE F == [p \in Rings(n) \X (1 .. m) |-> push(p[1], lines[p[2]])]
<1>2. newTail(n) \in Rings(n)
  BY DEF newTail, Rings
<1>3. ASSUME NEW r \in Rings(n), NEW i \in 1 .. m
      PROVE  push(r, lines[i]) \in Rings(n)
  <2>1. PICK t \in Int : t = lines[i]
    BY <1>1
  <2>2. r.count < n \/ r.count = n
    BY RingFields
  <2> QED
    BY <2>1, <2>2, PushOpen, PushFull
<1>4. F \in [Rings(n) \X (1 .. m) -> Rings(n)] /\ \A r \in Rings(n), i \in 1 .. m : F[<<r, i>>] = push(r, lines[i])
  BY <1>3
<1> HIDE DEF F
<1>5. PICK g : Iterates(g, m, Rings(n), newTail(n), F)
  BY ONLY m \in Nat, <1>2, <1>4, Recursion
<1>6. g \in [0 .. m -> Rings(n)] /\ g[0] = newTail(n) /\ \A i \in 1 .. m : g[i] = F[<<g[i - 1], i>>]
  BY <1>5 DEF Iterates
<1>7. ASSUME NEW i \in 0 .. m
      PROVE  g[i] = IF i = 0 THEN newTail(n) ELSE push(g[i - 1], lines[i])
  <2>1. CASE i = 0
    BY <1>6, <2>1
  <2>2. CASE i # 0
    <3>1. i \in 1 .. m /\ i - 1 \in 0 .. m
      BY <2>2
    <3>2. g[i - 1] \in Rings(n)
      BY <1>6, <3>1
    <3>3. g[i] = F[<<g[i - 1], i>>]
      BY <1>6, <3>1
    <3> QED
      BY <1>4, <2>2, <3>1, <3>2, <3>3
  <2> QED
    BY <2>1, <2>2
<1>8. g = [i \in 0 .. m |-> IF i = 0 THEN newTail(n) ELSE push(g[i - 1], lines[i])]
  BY <1>6, <1>7
<1> QED
  BY <1>1, <1>8 DEF TailRing

LEMMA DayTail ==
    ASSUME NEW d, NEW f, NEW n \in Nat \ {0}, NEW T \in SUBSET Int, IsFiniteSet(T),
           T = {t \in files[d] : InRange(t, f)}
    PROVE  newestFirst(readDayTail(d, f, n)) = Cut(NewestFirst(T), n)
<1>1. PICK s : s = NewestFirst(T)
  OBVIOUS
<1>3. s \in Seq(Int)
  BY <1>1, NewestFirstIsNewest DEF Newest
<1>2. PICK m \in Nat : m = Len(s)
  BY <1>3
<1>4. PICK lines : lines = Reverse(s)
  OBVIOUS
<1>5. lines \in Seq(Int) /\ Len(lines) = m /\ \A i \in 1 .. m : lines[i] = s[m - i + 1]
  <2>1. lines = [i \in 1 .. m |-> s[(m - i) + 1]]
    BY <1>2, <1>4 DEF Reverse
  <2>2. \A i \in 1 .. m : s[(m - i) + 1] \in Int
    BY <1>2, <1>3
  <2>3. lines \in [1 .. m -> Int]
    BY <2>1, <2>2
  <2> QED
    BY <2>1, <2>3
<1>6. PICK ring : ring = CHOOSE g : TailRing(lines, n, g)
  OBVIOUS
<1>7. TailRing(lines, n, ring)
  BY <1>5, <1>6, TailRingExists
<1>8. readDayTail(d, f, n) = ring[m]
  <2>1. lines = Reverse(NewestFirst({t \in files[d] : InRange(t, f)}))
    BY <1>1, <1>4
  <2>2. readDayTail(d, f, n) = (CHOOSE g : TailRing(lines, n, g))[Len(lines)]
    BY ONLY <2>1, Zenon DEF readDayTail, TailRing
  <2> QED
    BY <1>5, <1>6, <2>2
<1>9. PICK r : r = ring[m]
  OBVIOUS
<1>10. Holds(r, lines, m, n)
  BY <1>5, <1>7, <1>9, TailRingHolds
<1>11. r \in Rings(n)
  BY <1>10 DEF Holds
<1>12. PICK b \in [0 .. n - 1 -> Int], c \in 0 .. n, h \in 0 .. n - 1 :
           b = r.buf /\ c = r.count /\ h = r.head
  BY <1>11, RingFields
<1>13. Cardinality(DOMAIN r.buf) = n
  BY <1>11, RingFields
<1>14. c = (IF m <= n THEN m ELSE n) /\ \A k \in 0 .. c - 1 : b[Wrap(h + k, n)] = lines[m - c + 1 + k]
  BY <1>10, <1>12 DEF Holds
<1>15. PICK q : q = newestFirst(r)
  OBVIOUS
<1>16. q = [i \in 1 .. c |-> b[(h + c - i) % n]]
  BY <1>12, <1>13, <1>15 DEF newestFirst
<1>17. ASSUME NEW i \in 1 .. c
       PROVE  q[i] = s[i]
  <2>1. PICK k \in 0 .. c - 1 : k = c - i
    OBVIOUS
  <2>2. h + c - i = h + k /\ h + k \in 0 .. n + n - 1
    BY <2>1
  <2>3. (h + k) % n = Wrap(h + k, n)
    BY <2>2, WrapFacts
  <2>4. q[i] = b[Wrap(h + k, n)]
    BY <1>16, <2>2, <2>3
  <2>5. m - c + 1 + k = m - i + 1 /\ m - i + 1 \in 1 .. m
    BY <1>14, <2>1
  <2>6. q[i] = lines[m - i + 1]
    BY <1>14, <2>4, <2>5
  <2>7. m - (m - i + 1) + 1 = i
    OBVIOUS
  <2> QED
    BY <1>5, <2>5, <2>6, <2>7
<1>18. PICK e : e = Cut(s, n)
  OBVIOUS
<1>19. e \in Seq(Int) /\ Len(e) = c /\ \A i \in 1 .. c : e[i] = s[i]
  <2>1. e \in Seq(Int) /\ Len(e) = (IF n <= Len(s) THEN n ELSE Len(s)) /\ \A i \in 1 .. Len(e) : e[i] = s[i]
    BY <1>3, <1>18, CutFacts
  <2>2. Len(e) = c
    BY <1>2, <1>14, <2>1
  <2> QED
    BY <2>1, <2>2
<1>20. q = e
  <2>1. q \in Seq(Int) /\ Len(q) = c
    <3>0. \A i \in 1 .. c : e[i] \in Int
      BY ONLY <1>19
    <3>1. \A i \in 1 .. c : q[i] \in Int
      BY ONLY <1>17, <1>19, <3>0
    <3>2. q \in [1 .. c -> Int]
      BY <1>16, <3>1
    <3> QED
      BY <3>2
  <2>2. \A i \in 1 .. Len(q) : q[i] = e[i]
    BY <1>17, <1>19, <2>1
  <2> QED
    BY <1>19, <2>1, <2>2, SeqEqual
<1> QED
  BY <1>1, <1>8, <1>9, <1>15, <1>18, <1>20

-----------------------------------------------------------------------------
(* The stores.                                                             *)

StoreOK ==
    /\ live \subseteq 0 .. MaxTime
    /\ files \in [Days -> SUBSET (0 .. MaxTime)]
    /\ \A d \in Days : \A t \in files[d] : dayUTC(t) = d

LEMMA FiniteInstants ==
    ASSUME NEW T \in SUBSET (0 .. MaxTime)
    PROVE  IsFiniteSet(T) /\ T \in SUBSET Int /\ T \in SUBSET Nat
<1>1. IsFiniteSet(0 .. MaxTime)
  BY ConstantFacts, FS_Interval
<1>2. IsFiniteSet(T)
  BY <1>1, FS_Subset
<1> QED
  BY <1>2, ConstantFacts

LEMMA DayMonotone ==
    ASSUME NEW t \in Int, NEW u \in Int, t <= u
    PROVE  dayUTC(t) <= dayUTC(u)
<1>1. PICK a \in Int : a = dayUTC(t) /\ DayLen * a <= t
  BY DayBounds
<1>2. PICK b \in Int : b = dayUTC(u) /\ u < DayLen * b + DayLen
  BY DayBounds
<1>3. DayLen * a < DayLen * (b + 1)
  BY <1>1, <1>2, ConstantFacts
<1>4. a < b + 1
  BY <1>3, ConstantFacts
<1> QED
  BY <1>1, <1>2, <1>4

LEMMA DaysFacts == Days \subseteq Nat /\ IsFiniteSet(Days) /\ \A t \in 0 .. MaxTime : dayUTC(t) \in Days
<1>1. dayUTC(0) = 0
  BY ConstantFacts DEF dayUTC
<1>2. dayUTC(MaxTime) \in Int
  BY ConstantFacts, DayBounds
<1>3. \A t \in 0 .. MaxTime : dayUTC(0) <= dayUTC(t) /\ dayUTC(t) <= dayUTC(MaxTime) /\ dayUTC(t) \in Int
  BY ConstantFacts, DayMonotone, DayBounds
<1>4. IsFiniteSet(0 .. dayUTC(MaxTime))
  BY <1>2, FS_Interval
<1> QED
  BY <1>1, <1>2, <1>3, <1>4 DEF Days

\* A later day comes after an earlier one, and so does its first candle.
LEMMA LaterDay ==
    ASSUME NEW t \in Int, NEW u \in Int, dayUTC(t) < dayUTC(u)
    PROVE  t < u /\ alignDown(t) < alignDown(u) /\ t < DayLen * dayUTC(u) /\ DayLen * dayUTC(u) <= alignDown(u)
<1>1. PICK a \in Int : a = dayUTC(t) /\ t < DayLen * a + DayLen
  BY DayBounds
<1>2. PICK b \in Int : b = dayUTC(u) /\ DayLen * b <= u
  BY DayBounds
<1>3. DayLen * (a + 1) <= DayLen * b
  BY <1>1, <1>2, ConstantFacts
<1>4. t < DayLen * b
  BY <1>1, <1>3, ConstantFacts
<1>5. PICK k \in Nat \ {0} : DayLen = Step * k
  BY DayAligned
<1>6. PICK c \in Int : c = u \div Step /\ alignDown(u) = Step * c /\ u < Step * c + Step
  BY CandleBounds, ConstantFacts
<1>7. Step * (k * b) < Step * (c + 1)
  BY <1>2, <1>5, <1>6, ConstantFacts
<1>8. k * b < c + 1
  <2>1. k * b \in Int
    BY <1>5
  <2> QED
    BY <1>7, <2>1, ConstantFacts, Products
<1>9. DayLen * b <= alignDown(u)
  BY <1>5, <1>6, <1>8, ConstantFacts
<1>10. alignDown(t) <= t /\ alignDown(t) \in Int /\ DayLen * b \in Int /\ alignDown(u) \in Int
  BY CandleBounds, ConstantFacts
<1> QED
  BY <1>2, <1>4, <1>9, <1>10

-----------------------------------------------------------------------------
(* The walk over the day-files.                                            *)

FileTrades(d, f, cursor) == {t \in files[d] : InRange(t, f) /\ \A x \in cursor : alignDown(t) < x}

Walked(days, i, f, cursor) == UNION {FileTrades(days[k], f, cursor) : k \in 1 .. i}

ColdTrades(f, cursor) == {t \in Archived : InRange(t, f) /\ \A x \in cursor : alignDown(t) < x}

\* Days with a file, newest first.
DaysDescend(days) ==
    /\ days \in Seq(Int)
    /\ \A i, j \in 1 .. Len(days) : i < j => days[i] > days[j]
    /\ \A i \in 1 .. Len(days) : days[i] \in Days

\* Resolve finds the file of every trade of the range.
LEMMA ResolveFacts ==
    ASSUME StoreOK, NEW f, f.from \in SUBSET Int, f.to \in SUBSET Int, NEW cursor
    PROVE  /\ DaysDescend(Resolve(f))
           /\ Walked(Resolve(f), Len(Resolve(f)), f, cursor) = ColdTrades(f, cursor)
<1>1. PICK D : D = {d \in Days : /\ files[d] # {}
                                 /\ \A x \in f.from : \A y \in f.to : x <= y
                                 /\ \A x \in f.from : dayUTC(x) <= d
                                 /\ \A x \in f.to : d <= dayUTC(x)}
  OBVIOUS
<1>a. D \in SUBSET Days
  BY <1>1
<1>2. D \in SUBSET Days /\ D \in SUBSET Int
  BY <1>a, DaysFacts
<1>3. IsFiniteSet(D)
  BY <1>2, DaysFacts, FS_Subset
<1>4. PICK days : days = Resolve(f)
  OBVIOUS
<1>5. days = NewestFirst(D)
  BY <1>1, <1>4 DEF Resolve
<1>6. /\ days \in Seq(Int)
      /\ \A i, j \in 1 .. Len(days) : i < j => days[i] > days[j]
      /\ \A i \in 1 .. Len(days) : days[i] \in D
      /\ \A d \in D : \E i \in 1 .. Len(days) : days[i] = d
  BY <1>2, <1>3, <1>5, NewestFirstIsNewest DEF Newest
<1>7. DaysDescend(days)
  BY <1>2, <1>6 DEF DaysDescend
<1>8. ASSUME NEW t \in ColdTrades(f, cursor)
      PROVE  t \in Walked(days, Len(days), f, cursor)
  <2>1. PICK d \in Days : t \in files[d]
    BY DEF ColdTrades, Archived
  <2>2. InRange(t, f) /\ \A x \in cursor : alignDown(t) < x
    BY DEF ColdTrades
  <2>3. dayUTC(t) = d /\ t \in Int
    BY <2>1, FiniteInstants DEF StoreOK
  <2>4. \A x \in f.from : t >= x /\ x \in Int
    BY <2>2 DEF InRange
  <2>5. \A x \in f.to : t <= x /\ x \in Int
    BY <2>2 DEF InRange
  <2>6. \A x \in f.from : dayUTC(x) <= d
    BY <2>3, <2>4, DayMonotone
  <2>7. \A x \in f.to : d <= dayUTC(x)
    BY <2>3, <2>5, DayMonotone
  <2>8. \A x \in f.from : \A y \in f.to : x <= y
    BY <2>3, <2>4, <2>5
  <2>9. d \in D
    BY <1>1, <2>1, <2>6, <2>7, <2>8
  <2>10. PICK i \in 1 .. Len(days) : days[i] = d
    BY <1>6, <2>9
  <2>11. t \in FileTrades(days[i], f, cursor)
    BY <2>1, <2>2, <2>10 DEF FileTrades
  <2> QED
    BY <2>11 DEF Walked
<1>9. ASSUME NEW t \in Walked(days, Len(days), f, cursor)
      PROVE  t \in ColdTrades(f, cursor)
  <2>1. PICK i \in 1 .. Len(days) : t \in FileTrades(days[i], f, cursor)
    BY DEF Walked
  <2>2. days[i] \in Days
    BY <1>7 DEF DaysDescend
  <2> QED
    BY <2>1, <2>2 DEF FileTrades, ColdTrades, Archived
<1>10. Walked(days, Len(days), f, cursor) = ColdTrades(f, cursor)
  BY <1>8, <1>9
<1> QED
  BY <1>4, <1>7, <1>10

LEMMA WalkStep ==
    ASSUME StoreOK, NEW days, DaysDescend(days), NEW f, NEW cursor, NEW i \in 1 .. Len(days)
    PROVE  /\ Walked(days, i, f, cursor) = Walked(days, i - 1, f, cursor) \cup FileTrades(days[i], f, cursor)
           /\ Walked(days, i, f, cursor) \in SUBSET (0 .. MaxTime)
           /\ Walked(days, i - 1, f, cursor) \in SUBSET (0 .. MaxTime)
           /\ FileTrades(days[i], f, cursor) \in SUBSET (0 .. MaxTime)
           /\ \A a \in Walked(days, i - 1, f, cursor), b \in FileTrades(days[i], f, cursor) :
                  a > b /\ alignDown(a) > alignDown(b)
<1>0. days \in Seq(Int) /\ Len(days) \in Nat /\ i \in Nat
  BY DEF DaysDescend
<1>1. 1 .. i = (1 .. i - 1) \cup {i}
  BY <1>0
<1>2. Walked(days, i, f, cursor) = Walked(days, i - 1, f, cursor) \cup FileTrades(days[i], f, cursor)
  BY <1>1 DEF Walked
<1>3. ASSUME NEW k \in 1 .. Len(days)
      PROVE  /\ days[k] \in Days /\ FileTrades(days[k], f, cursor) \in SUBSET (0 .. MaxTime)
             /\ \A t \in FileTrades(days[k], f, cursor) : dayUTC(t) = days[k]
  BY DEF DaysDescend, StoreOK, FileTrades
<1>4. \A k \in 1 .. i : k \in 1 .. Len(days)
  BY <1>0
<1>5. Walked(days, i, f, cursor) \in SUBSET (0 .. MaxTime)
  BY <1>3, <1>4 DEF Walked
<1>6. ASSUME NEW a \in Walked(days, i - 1, f, cursor), NEW b \in FileTrades(days[i], f, cursor)
      PROVE  a > b /\ alignDown(a) > alignDown(b)
  <2>1. PICK k \in 1 .. i - 1 : a \in FileTrades(days[k], f, cursor)
    BY DEF Walked
  <2>2. k \in 1 .. Len(days) /\ k < i
    BY <1>0
  <2>3. dayUTC(a) = days[k] /\ dayUTC(b) = days[i] /\ a \in Int /\ b \in Int
    BY <1>3, <2>1, <2>2, FiniteInstants
  <2>4. dayUTC(b) < dayUTC(a)
    BY <1>0, <2>2, <2>3 DEF DaysDescend
  <2> QED
    BY <2>3, <2>4, LaterDay, CandleBounds
<1> QED
  BY <1>2, <1>3, <1>5, <1>6

\* What one day-file gives.
LEMMA DayRead ==
    ASSUME StoreOK, NEW d \in Days, NEW f, NEW n \in Nat \ {0}
    PROVE  /\ newestFirst(readDayTail(d, f, n)) \in Seq(Int)
           /\ Newest(newestFirst(readDayTail(d, f, n)), FileTrades(d, f, {}), n)
<1>1. PICK T : T = {t \in files[d] : InRange(t, f)}
  OBVIOUS
<1>2. T \in SUBSET (0 .. MaxTime)
  BY <1>1 DEF StoreOK
<1>3. IsFiniteSet(T) /\ T \in SUBSET Int
  BY <1>2, FiniteInstants
<1>4. newestFirst(readDayTail(d, f, n)) = Cut(NewestFirst(T), n)
  BY <1>1, <1>3, DayTail
<1>5. Newest(Cut(NewestFirst(T), n), T, n)
  BY <1>3, CutNewestFirst
<1>6. FileTrades(d, f, {}) = T
  BY <1>1 DEF FileTrades
<1> QED
  BY <1>4, <1>5, <1>6 DEF Newest

\* The loop of Read.
ReadStep(found, d, f, n) ==
    IF Len(found) < n THEN found \o newestFirst(readDayTail(d, f, n - Len(found))) ELSE found

ReadLoop(days, f, n, g) ==
    g = [i \in 0 .. Len(days) |->
            IF i = 0 THEN <<>>
            ELSE IF Len(g[i - 1]) < n
            THEN g[i - 1] \o newestFirst(readDayTail(days[i], f, n - Len(g[i - 1])))
            ELSE g[i - 1]]

LEMMA ReadStepType ==
    ASSUME StoreOK, NEW d \in Days, NEW f, NEW n \in Nat, NEW found \in Seq(Int)
    PROVE  ReadStep(found, d, f, n) \in Seq(Int)
<1>1. CASE Len(found) < n
  <2>1. n - Len(found) \in Nat \ {0}
    BY <1>1
  <2>2. newestFirst(readDayTail(d, f, n - Len(found))) \in Seq(Int)
    BY <2>1, DayRead
  <2> QED
    BY <1>1, <2>2 DEF ReadStep
<1> QED
  BY <1>1 DEF ReadStep

LEMMA ReadLoopExists ==
    ASSUME StoreOK, NEW days, DaysDescend(days), NEW f, NEW n \in Nat
    PROVE  \E g : ReadLoop(days, f, n, g)
<1>1. PICK m \in Nat : m = Len(days)
  BY DEF DaysDescend
<1>2. \A i \in 1 .. m : days[i] \in Days
  BY <1>1 DEF DaysDescend
<1> DEFINE F == [p \in Seq(Int) \X (1 .. m) |-> ReadStep(p[1], days[p[2]], f, n)]
<1>3. <<>> \in Seq(Int)
  OBVIOUS
<1>4. \A s \in Seq(Int), i \in 1 .. m : ReadStep(s, days[i], f, n) \in Seq(Int)
  BY <1>2, ReadStepType
<1>5. F \in [Seq(Int) \X (1 .. m) -> Seq(Int)] /\ \A s \in Seq(Int), i \in 1 .. m : F[<<s, i>>] = ReadStep(s, days[i], f, n)
  BY <1>4
<1> HIDE DEF F
<1>6. PICK g : Iterates(g, m, Seq(Int), <<>>, F)
  BY ONLY m \in Nat, <1>3, <1>5, Recursion
<1>7. g \in [0 .. m -> Seq(Int)] /\ g[0] = <<>> /\ \A i \in 1 .. m : g[i] = F[<<g[i - 1], i>>]
  BY <1>6 DEF Iterates
<1>8. ASSUME NEW i \in 0 .. m
      PROVE  g[i] = IF i = 0 THEN <<>> ELSE ReadStep(g[i - 1], days[i], f, n)
  <2>1. CASE i = 0
    BY <1>7, <2>1
  <2>2. CASE i # 0
    <3>1. i \in 1 .. m /\ i - 1 \in 0 .. m
      BY <2>2
    <3>2. g[i - 1] \in Seq(Int)
      BY <1>7, <3>1
    <3>3. g[i] = F[<<g[i - 1], i>>]
      BY <1>7, <3>1
    <3> QED
      BY <1>5, <2>2, <3>1, <3>2, <3>3
  <2> QED
    BY <2>1, <2>2
<1>9. g = [i \in 0 .. m |-> IF i = 0 THEN <<>> ELSE ReadStep(g[i - 1], days[i], f, n)]
  BY <1>7, <1>8
<1> QED
  BY <1>1, <1>9 DEF ReadLoop, ReadStep

\* Read gives the newest trades of the range, up to the limit.
LEMMA ReadFacts ==
    ASSUME StoreOK, NEW f, f.from \in SUBSET Int, f.to \in SUBSET Int, NEW n \in Nat
    PROVE  Newest(Read(f, n), ColdTrades(f, {}), n)
<1>1. PICK days : days = Resolve(f)
  OBVIOUS
<1>2. DaysDescend(days) /\ Walked(days, Len(days), f, {}) = ColdTrades(f, {})
  BY <1>1, ResolveFacts
<1>3. PICK m \in Nat : m = Len(days)
  BY <1>2 DEF DaysDescend
<1>4. PICK g : g = CHOOSE h : ReadLoop(days, f, n, h)
  OBVIOUS
<1>5. ReadLoop(days, f, n, g)
  BY <1>2, <1>4, ReadLoopExists
<1>6. Read(f, n) = g[m]
  <2>1. Read(f, n) = (CHOOSE h : ReadLoop(days, f, n, h))[Len(days)]
    BY ONLY <1>1, Zenon DEF Read, ReadLoop
  <2> QED
    BY <1>3, <1>4, <2>1
<1>7. \A i \in 0 .. m : g[i] = IF i = 0 THEN <<>> ELSE ReadStep(g[i - 1], days[i], f, n)
  BY <1>3, <1>5 DEF ReadLoop, ReadStep
<1> DEFINE A == {i \in 0 .. m : Newest(g[i], Walked(days, i, f, {}), n)}
<1>8. 0 \in A
  <2>1. Walked(days, 0, f, {}) = {}
    BY DEF Walked
  <2>2. g[0] = <<>>
    BY <1>7
  <2>3. Newest(<<>>, {}, n)
    BY NothingIsNewest
  <2>4. Newest(g[0], Walked(days, 0, f, {}), n)
    BY ONLY <2>1, <2>2, <2>3, Zenon
  <2> QED
    BY <2>4
<1>9. ASSUME NEW i \in 1 .. m, i - 1 \in A
      PROVE  i \in A
  <2>1. PICK s : s = g[i - 1]
    OBVIOUS
  <2>2. Newest(s, Walked(days, i - 1, f, {}), n)
    BY <1>9, <2>1
  <2>3. s \in Seq(Int) /\ Len(s) \in Nat /\ Len(s) <= n
    BY <2>2 DEF Newest
  <2>4. i \in 1 .. Len(days) /\ days[i] \in Days
    BY <1>2, <1>3 DEF DaysDescend
  <2>5. PICK U, V : U = Walked(days, i - 1, f, {}) /\ V = FileTrades(days[i], f, {})
    OBVIOUS
  <2>6. /\ Walked(days, i, f, {}) = U \cup V
        /\ U \in SUBSET (0 .. MaxTime) /\ V \in SUBSET (0 .. MaxTime)
        /\ \A a \in U, b \in V : a > b
    BY <1>2, <2>4, <2>5, WalkStep
  <2>7. U \in SUBSET Int /\ V \in SUBSET Int
    BY <2>6, FiniteInstants
  <2>8. g[i] = ReadStep(s, days[i], f, n)
    BY <1>7, <2>1
  <2>9. CASE Len(s) < n
    <3>1. PICK r : r = newestFirst(readDayTail(days[i], f, n - Len(s)))
      OBVIOUS
    <3>2. n - Len(s) \in Nat \ {0}
      BY <2>3, <2>9
    <3>3. Newest(r, V, n - Len(s))
      BY <2>4, <2>5, <3>1, <3>2, DayRead
    <3>4. Newest(s \o r, U \cup V, n)
      BY <2>2, <2>5, <2>6, <2>7, <3>3, JoinNewest
    <3>5. g[i] = s \o r
      BY <2>8, <2>9, <3>1 DEF ReadStep
    <3>6. Newest(g[i], Walked(days, i, f, {}), n)
      BY ONLY <2>6, <3>4, <3>5, Zenon
    <3> QED
      BY <3>6
  <2>10. CASE ~(Len(s) < n)
    <3>1. n - Len(s) = 0
      BY <2>3, <2>10
    <3>2. Newest(<<>>, V, n - Len(s))
      BY <3>1, NothingIsNewest
    <3>3. Newest(s \o <<>>, U \cup V, n)
      BY <2>2, <2>5, <2>6, <2>7, <3>2, JoinNewest
    <3>4. s \o <<>> = s
      BY <2>3
    <3>5. g[i] = s
      BY <2>8, <2>10 DEF ReadStep
    <3>6. Newest(g[i], Walked(days, i, f, {}), n)
      BY ONLY <2>6, <3>3, <3>4, <3>5, Zenon
    <3> QED
      BY <3>6
  <2> QED
    BY <2>9, <2>10
<1> HIDE DEF A
<1>10. \A i \in 0 .. m : i \in A
  BY ONLY m \in Nat, <1>8, <1>9, UpTo
<1>11. Newest(g[m], Walked(days, m, f, {}), n)
  BY <1>10 DEF A
<1> QED
  BY <1>2, <1>3, <1>6, <1>11

\* All bars, for any larger number.
LEMMA WholeBars ==
    ASSUME NEW s, NEW T, NEW m, NewestBars(s, T, m), \A t \in T : Shown(s, t), NEW n \in Nat, Len(s) <= n
    PROVE  NewestBars(s, T, n)
BY Zenon DEF NewestBars

\* ReadCandles gives the newest bars of the range below the cursor, up to the
\* limit.
LEMMA ReadCandlesFacts ==
    ASSUME StoreOK, NEW f, f.from \in SUBSET Int, f.to \in SUBSET Int, NEW cursor, NEW n \in Nat
    PROVE  NewestBars(ReadCandles(f, cursor, n), ColdTrades(f, cursor), n)
<1>1. PICK days : days = Resolve(f)
  OBVIOUS
<1>2. DaysDescend(days) /\ Walked(days, Len(days), f, cursor) = ColdTrades(f, cursor)
  BY <1>1, ResolveFacts
<1>3. PICK m \in Nat : m = Len(days)
  BY <1>2 DEF DaysDescend
<1>4. DOMAIN days = 1 .. m
  BY <1>2, <1>3 DEF DaysDescend
<1>5. PICK seqs : seqs = [i \in 1 .. m |-> Bars(FileTrades(days[i], f, cursor))]
  OBVIOUS
<1>6. ASSUME NEW i \in 1 .. m
      PROVE  /\ seqs[i] \in Seq(Bar)
             /\ NewestBars(seqs[i], FileTrades(days[i], f, cursor), Len(seqs[i]))
             /\ \A t \in FileTrades(days[i], f, cursor) : Shown(seqs[i], t)
  <2>1. PICK V : V = FileTrades(days[i], f, cursor)
    OBVIOUS
  <2>2. V \in SUBSET (0 .. MaxTime)
    BY <1>2, <1>3, <2>1, WalkStep
  <2>3. V \in SUBSET Int /\ IsFiniteSet(V)
    BY <2>2, FiniteInstants
  <2>4. seqs[i] = Bars(V)
    BY <1>5, <2>1
  <2>5. NewestBars(seqs[i], V, Len(seqs[i])) /\ \A t \in V : Shown(seqs[i], t)
    BY <2>3, <2>4, BarsFacts
  <2>6. seqs[i] \in Seq(Bar)
    BY <2>5 DEF NewestBars, Descends
  <2> QED
    BY <2>1, <2>5, <2>6
<1>7. seqs \in [1 .. m -> Seq(Bar)]
  BY <1>5, <1>6
<1>8. PICK g : Joins(g, m, Bar, seqs)
  BY <1>7, JoinsExists
<1>9. FlattenSeq(seqs) = g[m]
  BY <1>7, <1>8, Flatten
<1>10. ReadCandles(f, cursor, n) = Cut(g[m], n)
  <2>1. seqs = [i \in DOMAIN days |-> Bars({t \in files[days[i]] : InRange(t, f) /\ \A x \in cursor : alignDown(t) < x})]
    BY <1>4, <1>5 DEF FileTrades
  <2>2. ReadCandles(f, cursor, n) = Cut(FlattenSeq(seqs), n)
    BY ONLY <1>1, <2>1, Zenon DEF ReadCandles
  <2> QED
    BY <1>9, <2>2
<1> DEFINE All(i) == /\ NewestBars(g[i], Walked(days, i, f, cursor), Len(g[i]))
                     /\ \A t \in Walked(days, i, f, cursor) : Shown(g[i], t)
           A == {i \in 0 .. m : All(i)}
<1>11. g[0] = <<>> /\ \A i \in 1 .. m : g[i] = g[i - 1] \o seqs[i]
  BY <1>8 DEF Joins
<1>12. 0 \in A
  <2>1. Walked(days, 0, f, cursor) = {}
    BY DEF Walked
  <2>2. NewestBars(<<>>, {}, 0) /\ Len(<<>>) = 0
    BY NoBars
  <2>3. All(0)
    BY ONLY <1>11, <2>1, <2>2, Zenon
  <2> QED
    BY <2>3
<1>13. ASSUME NEW i \in 1 .. m, i - 1 \in A
       PROVE  i \in A
  <2>1. PICK s, r, U, V : /\ s = g[i - 1] /\ r = seqs[i]
                          /\ U = Walked(days, i - 1, f, cursor) /\ V = FileTrades(days[i], f, cursor)
    OBVIOUS
  <2>2. NewestBars(s, U, Len(s)) /\ \A t \in U : Shown(s, t)
    BY <1>13, <2>1
  <2>3. NewestBars(r, V, Len(r)) /\ \A t \in V : Shown(r, t)
    BY <1>6, <2>1
  <2>4. s \in Seq(Bar) /\ r \in Seq(Bar) /\ Len(s) \in Nat /\ Len(r) \in Nat
    BY <2>2, <2>3 DEF NewestBars, Descends
  <2>5. /\ Walked(days, i, f, cursor) = U \cup V
        /\ U \in SUBSET (0 .. MaxTime) /\ V \in SUBSET (0 .. MaxTime)
        /\ \A a \in U, b \in V : alignDown(a) > alignDown(b)
    BY <1>2, <1>3, <2>1, WalkStep
  <2>6. U \in SUBSET Int /\ V \in SUBSET Int
    BY <2>5, FiniteInstants
  <2>7. PICK k \in Nat : k = Len(s) + Len(r) + 1
    BY <2>4
  <2>8. NewestBars(s, U, k)
    BY <2>2, <2>4, <2>7, WholeBars
  <2>9. k - Len(s) \in Nat /\ Len(r) <= k - Len(s)
    BY <2>4, <2>7
  <2>10. NewestBars(r, V, k - Len(s))
    BY <2>3, <2>9, WholeBars
  <2>11. PICK q : q = s \o r
    OBVIOUS
  <2>12. NewestBars(q, U \cup V, k)
    BY <2>5, <2>6, <2>8, <2>10, <2>11, JoinBars
  <2>13. Len(q) = Len(s) + Len(r) /\ Len(q) # k /\ Len(q) \in Nat
    BY <2>4, <2>7, <2>11
  <2>14. \A t \in U \cup V : Shown(q, t)
    BY <2>12, <2>13, Zenon DEF NewestBars
  <2>15. Len(q) <= Len(q)
    BY <2>13
  <2>16. NewestBars(q, U \cup V, Len(q))
    BY <2>12, <2>13, <2>14, <2>15, WholeBars
  <2>17. g[i] = q
    BY <1>11, <2>1, <2>11
  <2>18. All(i)
    BY ONLY <2>5, <2>14, <2>16, <2>17, Zenon
  <2> QED
    BY <2>18
<1> HIDE DEF A
<1>14. \A i \in 0 .. m : i \in A
  BY ONLY m \in Nat, <1>12, <1>13, UpTo
<1>15. All(m)
  BY <1>14 DEF A
<1>16. PICK T : T = Walked(days, m, f, cursor)
  OBVIOUS
<1>17. T \in SUBSET Int
  <2>1. T = ColdTrades(f, cursor)
    BY <1>2, <1>3, <1>16
  <2>2. T \in SUBSET (0 .. MaxTime)
    BY <2>1 DEF ColdTrades, Archived, StoreOK
  <2> QED
    BY <2>2, FiniteInstants
<1>18. NewestBars(Cut(g[m], n), T, n)
  BY <1>15, <1>16, <1>17, CutBars
<1> QED
  BY <1>2, <1>3, <1>10, <1>16, <1>18
-----------------------------------------------------------------------------
(* The invariant.                                                          *)

Candles == request.kind = "candles"

\* Rows are bars or trades; a query that runs may add a page.
RowsInv ==
    /\ Candles => merged \in Seq(Bar) /\ pages \in Seq(Seq(Bar))
    /\ ~Candles => merged \in Seq(Int) /\ pages \in Seq(Seq(Int))
    /\ at \in {"live", "cold"} => Len(pages) < MaxPages

\* Trades are stamped with the clock, only days that are over have a file, a
\* day in the table is younger than the files or in the last of them with all
\* its trades, and a trade that was seen and has gone does not come back.
ClockInv ==
    /\ live \subseteq 0 .. now
    /\ \A d \in Days : files[d] # {} => d < dayUTC(now)
    /\ moving # NoDay => moving < dayUTC(now)
    /\ \A t \in live, d \in Days : files[d] # {} /\ dayUTC(t) <= d => t \in files[d]
    /\ \A t \in wanted \ Stored : t < now

\* The boundary of a query for candles: what is older is archived and stays
\* so; what is younger is in the table, unless it was overtaken.
SplitInv ==
    Candles =>
        /\ Aligned(split) /\ split <= now
        /\ at \in {"live", "cold"} => \A t \in Stored : t < split => t \in Archived
        /\ at = "live" /\ ~overtaken => \A t \in Stored : t >= split => t \in live

\* The cursor is the last bucket the client has.
CursorInv ==
    /\ ~Candles => before = {}
    /\ Candles /\ at # "done" =>
           \/ before = {} /\ pages = <<>>
           \/ \E x \in Int : /\ before = {x} /\ Aligned(x)
                             /\ Len(Got) >= 1 /\ Got[Len(Got)].bucket = x

\* A trade the query is to find.
Owed(t) == InRange(t, request) /\ \A x \in before : alignDown(t) < x

InBar(s, t) == \E i \in 1 .. Len(s) : s[i].bucket = alignDown(t) /\ t \in s[i].trades

\* What the query has from the table: bars at or above the split and below
\* the cursor, and every trade of them.
MergedInv ==
    Candles /\ at = "cold" =>
        /\ Descends(merged) /\ Len(merged) <= limit
        /\ \A i \in 1 .. Len(merged) :
               \E t \in 0 .. now : Owed(t) /\ t >= split /\ merged[i].bucket = alignDown(t)
        /\ ~overtaken =>
               \A t \in wanted \cap Stored :
                   Owed(t) /\ t >= split => InBar(merged, t) \/ (Len(merged) = limit /\ Below(merged, t))

\* A query for trades: the rows of the table, and then a page of what is
\* stored, for a query whose split holds.
TradesInv ==
    ~Candles =>
        /\ at # "done" => pages = <<>>
        /\ steady /\ at = "cold" => Newest(merged, {t \in live : t >= split /\ InRange(t, request)}, need)
        /\ steady /\ at = "done" /\ SplitHolds =>
               \E s : /\ Newest(s, {t \in Stored : InRange(t, request)}, need)
                      /\ pages = <<SubSeq(s, request.offset + 1, Min({request.offset + limit, Len(s)}))>>

Inv ==
    /\ TypeOK /\ RowsInv /\ ClockInv /\ SplitInv /\ CursorInv
    /\ PagesDescend /\ MergedInv /\ NothingSkipped /\ TradesInv

LEMMA LimitFacts ==
    ASSUME TypeOK
    PROVE  /\ limit \in 1 .. MaxLimit /\ need \in 1 .. MaxLimit /\ need <= request.offset + limit
           /\ request \in Asked /\ request.offset \in Nat
<1>1. request \in Asked
  BY DEF TypeOK
<1>2. request.limit \in Int /\ request.offset \in Nat
  BY <1>1, RequestFacts
<1>3. limit \in 1 .. MaxLimit
  <2>1. Min({request.limit, MaxLimit}) = IF request.limit <= MaxLimit THEN request.limit ELSE MaxLimit
    BY <1>2, ConstantFacts, MinOfTwo
  <2> QED
    BY <1>2, <2>1, ConstantFacts DEF limit, ClampLimit
<1>4. request.offset + limit \in Int
  BY <1>2, <1>3
<1>5. need = IF request.offset + limit <= MaxLimit THEN request.offset + limit ELSE MaxLimit
  BY <1>4, ConstantFacts, MinOfTwo DEF need
<1> QED
  BY <1>1, <1>2, <1>3, <1>5, ConstantFacts

LEMMA TypeStore == ASSUME TypeOK PROVE StoreOK
BY DEF TypeOK, StoreOK

\* What the two stores are asked for.
LEMMA LiveFilterFacts ==
    ASSUME TypeOK
    PROVE  \A t \in Int : InRange(t, LiveFilter) <=> t >= split /\ InRange(t, request)
<1>1. request \in Asked /\ split \in Int
  BY DEF TypeOK
<1>2. /\ request.from \in SUBSET Int /\ request.to \in SUBSET Int
      /\ \A x, y \in request.from : x = y
  BY <1>1, RequestFacts
<1>3. request \in [kind : {"candles", "trades"}, from : SUBSET Int, to : SUBSET Int,
                   limit : Int, offset : Nat, fill : BOOLEAN]
  BY <1>1, HistoryAssumption DEF HistoryAssumption
<1>4. LiveFilter.from = {Max({split} \cup request.from)} /\ LiveFilter.to = request.to
  BY <1>3 DEF LiveFilter
<1>5. CASE request.from = {}
  <2>1. {split} \cup request.from = {split, split}
    BY <1>5
  <2>2. Max({split} \cup request.from) = split
    BY <1>1, <2>1, MaxOfTwo
  <2> QED
    BY <1>4, <1>5, <2>2 DEF InRange
<1>6. CASE request.from # {}
  <2>1. PICK x \in Int : request.from = {x}
    BY <1>2, <1>6
  <2>2. {split} \cup request.from = {split, x}
    BY <2>1
  <2>3. Max({split} \cup request.from) = IF split <= x THEN x ELSE split
    BY <1>1, <2>2, MaxOfTwo
  <2>4. \A t \in Int : (t >= IF split <= x THEN x ELSE split) <=> t >= split /\ t >= x
    BY <1>1
  <2> QED
    BY <1>4, <2>1, <2>3, <2>4 DEF InRange
<1> QED
  BY <1>5, <1>6

LEMMA ColdFilterFacts ==
    ASSUME TypeOK
    PROVE  /\ ColdFilter.from \in SUBSET Int /\ ColdFilter.to \in SUBSET Int
           /\ \A t \in Int : InRange(t, ColdFilter) <=> t < split /\ InRange(t, request)
<1>1. request \in Asked /\ split \in Int
  BY DEF TypeOK
<1>2. /\ request.from \in SUBSET Int /\ request.to \in SUBSET Int
      /\ \A x, y \in request.to : x = y
  BY <1>1, RequestFacts
<1>3. request \in [kind : {"candles", "trades"}, from : SUBSET Int, to : SUBSET Int,
                   limit : Int, offset : Nat, fill : BOOLEAN]
  BY <1>1, HistoryAssumption DEF HistoryAssumption
<1>4. ColdFilter.to = {Min({split - 1} \cup request.to)} /\ ColdFilter.from = request.from
  BY <1>3 DEF ColdFilter
<1>5. PICK last \in Int : last = split - 1
  BY <1>1
<1>6. CASE request.to = {}
  <2>1. {split - 1} \cup request.to = {last, last}
    BY <1>5, <1>6
  <2>2. Min({split - 1} \cup request.to) = last
    BY <2>1, MinOfTwo
  <2>3. \A t \in Int : t <= last <=> t < split
    BY <1>1, <1>5
  <2> QED
    BY <1>2, <1>4, <1>6, <2>2, <2>3 DEF InRange
<1>7. CASE request.to # {}
  <2>1. PICK x \in Int : request.to = {x}
    BY <1>2, <1>7
  <2>2. {split - 1} \cup request.to = {last, x}
    BY <1>5, <2>1
  <2>3. Min({split - 1} \cup request.to) = IF last <= x THEN last ELSE x
    BY <2>2, MinOfTwo
  <2>4. \A t \in Int : (t <= IF last <= x THEN last ELSE x) <=> t < split /\ t <= x
    BY <1>1, <1>5
  <2>5. (IF last <= x THEN last ELSE x) \in Int
    OBVIOUS
  <2> QED
    BY <1>2, <1>4, <2>1, <2>3, <2>4, <2>5 DEF InRange
<1> QED
  BY <1>6, <1>7

-----------------------------------------------------------------------------
(* What a query for candles has collected.                                 *)

LEMMA JoinRows ==
    ASSUME NEW s \in Seq(Bar), NEW r \in Seq(Bar), NEW t
    PROVE  /\ InBar(s \o r, t) <=> InBar(s, t) \/ InBar(r, t)
           /\ Below(s \o r, t) <=> Below(s, t) /\ Below(r, t)
<1>1. PICK q : q = s \o r
  OBVIOUS
<1>2. /\ \A i \in 1 .. Len(s) : \E j \in 1 .. Len(q) : q[j] = s[i]
      /\ \A i \in 1 .. Len(r) : \E j \in 1 .. Len(q) : q[j] = r[i]
      /\ \A i \in 1 .. Len(q) : \/ \E j \in 1 .. Len(s) : q[i] = s[j]
                                \/ \E j \in 1 .. Len(r) : q[i] = r[j]
  <2>1. /\ \A i \in 1 .. Len(s) : q[i] = s[i] /\ i \in 1 .. Len(q)
        /\ \A i \in 1 .. Len(r) : q[i + Len(s)] = r[i] /\ i + Len(s) \in 1 .. Len(q)
        /\ \A i \in 1 .. Len(q) : \/ i \in 1 .. Len(s) /\ q[i] = s[i]
                                  \/ i - Len(s) \in 1 .. Len(r) /\ q[i] = r[i - Len(s)]
    BY <1>1, JoinPlaces
  <2> QED
    BY <2>1
<1>3. InBar(q, t) <=> InBar(s, t) \/ InBar(r, t)
  <2>1. InBar(s, t) => InBar(q, t)
    BY ONLY <1>2, Zenon DEF InBar
  <2>2. InBar(r, t) => InBar(q, t)
    BY ONLY <1>2, Zenon DEF InBar
  <2>3. ASSUME InBar(q, t)
        PROVE  InBar(s, t) \/ InBar(r, t)
    <3>1. PICK i \in 1 .. Len(q) : q[i].bucket = alignDown(t) /\ t \in q[i].trades
      BY <2>3 DEF InBar
    <3>2. \/ \E j \in 1 .. Len(s) : q[i] = s[j]
          \/ \E j \in 1 .. Len(r) : q[i] = r[j]
      BY <1>2
    <3> QED
      BY ONLY <3>1, <3>2, Zenon DEF InBar
  <2> QED
    BY <2>1, <2>2, <2>3
<1>4. Below(q, t) <=> Below(s, t) /\ Below(r, t)
  BY <1>2, Zenon DEF Below
<1> QED
  BY <1>1, <1>3, <1>4

LEMMA LiveCandles ==
    ASSUME TypeOK, \A x \in before : x \in Int /\ Aligned(x)
    PROVE  NewestBars(PgQueryCandles(LiveFilter, before, limit), {t \in live : t >= split /\ Owed(t)}, limit)
<1>1. PICK T : T = {t \in live : t >= split /\ Owed(t)}
  OBVIOUS
<1>2. live \in SUBSET (0 .. MaxTime)
  BY DEF TypeOK
<1>3. \A t \in live : t \in Int
  BY <1>2, FiniteInstants
<1>4. \A t \in live : (\A x \in before : t < x) <=> (\A x \in before : alignDown(t) < x)
  BY <1>3, AlignBelow
<1>5. T = {t \in live : InRange(t, LiveFilter) /\ \A x \in before : t < x}
  BY <1>1, <1>3, <1>4, LiveFilterFacts DEF Owed
<1>6. T \in SUBSET (0 .. MaxTime)
  BY <1>1, <1>2
<1>7. T \in SUBSET Int /\ IsFiniteSet(T)
  BY <1>6, FiniteInstants
<1>8. NewestBars(Bars(T), T, Len(Bars(T))) /\ \A t \in T : Shown(Bars(T), t)
  BY <1>7, BarsFacts
<1>9. limit \in Nat
  BY LimitFacts
<1>10. NewestBars(Cut(Bars(T), limit), T, limit)
  BY <1>7, <1>8, <1>9, CutBars
<1>11. PgQueryCandles(LiveFilter, before, limit) = Cut(Bars(T), limit)
  BY <1>5 DEF PgQueryCandles
<1> QED
  BY <1>1, <1>10, <1>11

ColdOwed == {t \in Archived : t < split /\ Owed(t)}

LEMMA ArchivedFacts ==
    ASSUME TypeOK
    PROVE  Archived \in SUBSET (0 .. MaxTime) /\ Stored \in SUBSET (0 .. MaxTime)
<1>1. files \in [Days -> SUBSET (0 .. MaxTime)] /\ live \in SUBSET (0 .. MaxTime)
  BY DEF TypeOK
<1>2. ASSUME NEW t \in Archived
      PROVE  t \in 0 .. MaxTime
  <2>1. PICK d \in Days : t \in files[d]
    BY <1>2 DEF Archived
  <2>2. files[d] \in SUBSET (0 .. MaxTime)
    BY <1>1
  <2> QED
    BY <2>1, <2>2
<1>3. Archived \in SUBSET (0 .. MaxTime)
  BY <1>2
<1> QED
  BY <1>1, <1>3 DEF Stored

LEMMA ColdCandles ==
    ASSUME TypeOK, Candles, Len(merged) \in Nat, Len(merged) <= limit
    PROVE  NewestBars(Cold, ColdOwed, limit - Len(merged))
<1>1. limit \in Nat /\ request \in Asked /\ split \in Int
  BY LimitFacts DEF TypeOK
<1>2. limit - Len(merged) \in Nat
  BY <1>1
<1>3. \A t \in Archived : t \in Int
  BY ArchivedFacts, FiniteInstants
<1>4. CASE \E x \in request.from : x >= split
  <2>1. PICK x \in request.from : x >= split
    BY <1>4
  <2>2. x \in Int
    BY <1>1, RequestFacts
  <2>3. ColdOwed = {}
    BY <1>1, <1>3, <2>1, <2>2 DEF ColdOwed, Owed, InRange
  <2>4. Cold = <<>>
    BY <1>4 DEF Cold
  <2> QED
    BY <1>2, <2>3, <2>4, NoBars
<1>5. CASE ~(\E x \in request.from : x >= split) /\ Len(merged) < limit
  <2>1. Cold = ReadCandles(ColdFilter, before, limit - Len(merged))
    BY <1>5 DEF Cold, Candles
  <2>2. NewestBars(Cold, ColdTrades(ColdFilter, before), limit - Len(merged))
    BY <1>2, <2>1, TypeStore, ColdFilterFacts, ReadCandlesFacts
  <2>3. ColdTrades(ColdFilter, before) = ColdOwed
    BY <1>3, ColdFilterFacts DEF ColdTrades, ColdOwed, Owed
  <2> QED
    BY <2>2, <2>3
<1>6. CASE ~(\E x \in request.from : x >= split) /\ ~(Len(merged) < limit)
  <2>1. Cold = <<>>
    BY <1>6 DEF Cold, Candles
  <2>2. limit - Len(merged) = 0
    BY <1>1, <1>6
  <2> QED
    BY <1>2, <2>1, <2>2, NoBars
<1> QED
  BY <1>4, <1>5, <1>6

\* The rows of a page before fill and cut.
AllRows == merged \o Cold

LEMMA AllRowsFacts ==
    ASSUME Inv, Candles, at = "cold"
    PROVE  /\ Descends(AllRows) /\ AllRows \in Seq(Bar) /\ Len(AllRows) \in Nat /\ Len(AllRows) <= limit
           /\ \A i \in 1 .. Len(AllRows) : \E t \in Int : Owed(t) /\ AllRows[i].bucket = alignDown(t)
           /\ ~overtaken => \A t \in wanted \cap Stored :
                  Owed(t) => InBar(AllRows, t) \/ (Len(AllRows) = limit /\ Below(AllRows, t))
<1>1. TypeOK /\ SplitInv /\ MergedInv
  BY DEF Inv
<1>2. limit \in Nat /\ split \in Int /\ Aligned(split) /\ now \in Int
  BY <1>1, LimitFacts, ConstantFacts DEF TypeOK, SplitInv
<1>3. Descends(merged) /\ Len(merged) <= limit /\ merged \in Seq(Bar) /\ Len(merged) \in Nat
  BY <1>1 DEF MergedInv, Descends
<1>4. PICK m, c, q : m = merged /\ c = Cold /\ q = m \o c
  OBVIOUS
<1>5. \A i \in 1 .. Len(m) : \E t \in Int : Owed(t) /\ t >= split /\ m[i].bucket = alignDown(t)
  BY <1>1, <1>2, <1>4 DEF MergedInv
<1>6. NewestBars(c, ColdOwed, limit - Len(m))
  BY <1>1, <1>3, <1>4, ColdCandles
<1>7. /\ Descends(c) /\ c \in Seq(Bar) /\ Len(c) \in Nat /\ Len(c) <= limit - Len(m)
      /\ \A i \in 1 .. Len(c) : /\ \E t \in ColdOwed : c[i].bucket = alignDown(t)
                                /\ c[i].trades = {t \in ColdOwed : alignDown(t) = c[i].bucket}
      /\ \A t \in ColdOwed : Shown(c, t) \/ (Len(c) = limit - Len(m) /\ Below(c, t))
  <2>1. Descends(c) /\ c \in Seq(Bar) /\ Len(c) \in Nat
    BY <1>6 DEF NewestBars, Descends
  <2> QED
    BY <1>6, <2>1, Zenon DEF NewestBars
<1>8. \A t \in ColdOwed : t \in Int /\ t < split /\ Owed(t)
  BY <1>1, ArchivedFacts, FiniteInstants DEF ColdOwed
<1>9. ASSUME NEW i \in 1 .. Len(m)
      PROVE  m[i].bucket >= split /\ m[i].bucket \in Int
  <2>1. PICK t \in Int : t >= split /\ m[i].bucket = alignDown(t)
    BY <1>5
  <2> QED
    BY <1>2, <2>1, AlignBelow, CandleBounds
<1>10. ASSUME NEW i \in 1 .. Len(c)
       PROVE  c[i].bucket < split /\ c[i].bucket \in Int
  <2>1. PICK t \in ColdOwed : c[i].bucket = alignDown(t)
    BY <1>7, Zenon
  <2> QED
    BY <1>2, <1>8, <2>1, AlignBelow, CandleBounds
<1>11. Descends(q)
  <2>1. \A i \in 1 .. Len(m), j \in 1 .. Len(c) : m[i].bucket > c[j].bucket
    BY <1>2, <1>9, <1>10
  <2> QED
    BY <1>3, <1>4, <1>7, <2>1, JoinDescends
<1>12. q \in Seq(Bar) /\ Len(q) = Len(m) + Len(c) /\ Len(m) \in Nat /\ Len(m) <= limit
  BY <1>3, <1>4, <1>7
<1>13. ASSUME NEW i \in 1 .. Len(q)
       PROVE  \E t \in Int : Owed(t) /\ q[i].bucket = alignDown(t)
  <2>1. \/ \E j \in 1 .. Len(m) : q[i] = m[j]
        \/ \E j \in 1 .. Len(c) : q[i] = c[j]
    BY <1>3, <1>4, <1>7
  <2>2. ASSUME NEW j \in 1 .. Len(m), q[i] = m[j]
        PROVE  \E t \in Int : Owed(t) /\ q[i].bucket = alignDown(t)
    BY <1>5, <2>2
  <2>3. ASSUME NEW j \in 1 .. Len(c), q[i] = c[j]
        PROVE  \E t \in Int : Owed(t) /\ q[i].bucket = alignDown(t)
    <3>1. PICK t \in ColdOwed : c[j].bucket = alignDown(t)
      BY <1>7, Zenon
    <3> QED
      BY <1>8, <2>3, <3>1
  <2> QED
    BY <2>1, <2>2, <2>3
<1>14. ASSUME ~overtaken, NEW t \in wanted \cap Stored, Owed(t)
       PROVE  InBar(q, t) \/ (Len(q) = limit /\ Below(q, t))
  <2>0. t \in Int
    BY <1>1, ArchivedFacts, FiniteInstants
  <2>1. CASE t >= split
    <3>1. InBar(m, t) \/ (Len(m) = limit /\ Below(m, t))
      BY <1>1, <1>4, <1>14, <2>1 DEF MergedInv
    <3>2. CASE InBar(m, t)
      BY <1>3, <1>4, <1>7, <3>2, JoinRows
    <3>3. CASE Len(m) = limit /\ Below(m, t)
      <4>1. Len(c) = 0 /\ Len(q) = limit
        BY <1>2, <1>7, <1>12, <3>3
      <4>2. Below(c, t)
        BY <4>1 DEF Below
      <4>3. Below(q, t)
        BY <1>3, <1>4, <1>7, <3>3, <4>2, JoinRows
      <4> QED
        BY <4>1, <4>3
    <3> QED
      BY <3>1, <3>2, <3>3
  <2>2. CASE ~(t >= split)
    <3>1. t < split
      BY <1>2, <2>0, <2>2
    <3>2. t \in Archived
      BY <1>1, <1>14, <3>1 DEF SplitInv
    <3>3. t \in ColdOwed
      BY <1>14, <3>1, <3>2 DEF ColdOwed
    <3>4. CASE Shown(c, t)
      <4>1. PICK i \in 1 .. Len(c) : c[i].bucket = alignDown(t)
        BY <3>4 DEF Shown
      <4>2. c[i].trades = {u \in ColdOwed : alignDown(u) = c[i].bucket}
        BY <1>7, <4>1, Zenon
      <4>3. t \in c[i].trades
        BY <3>3, <4>1, <4>2
      <4>4. InBar(c, t)
        BY <4>1, <4>3 DEF InBar
      <4> QED
        BY <1>3, <1>4, <1>7, <4>4, JoinRows
    <3>5. CASE Len(c) = limit - Len(m) /\ Below(c, t)
      <4>1. Len(q) = limit
        BY <1>2, <1>12, <3>5
      <4>2. alignDown(t) < split /\ alignDown(t) \in Int
        BY <1>2, <2>0, <3>1, CandleBounds
      <4>3. Below(m, t)
        BY <1>2, <1>9, <4>2 DEF Below
      <4>4. Below(q, t)
        BY <1>3, <1>4, <1>7, <3>5, <4>3, JoinRows
      <4> QED
        BY <4>1, <4>4
    <3> QED
      BY <1>7, <3>3, <3>4, <3>5
  <2> QED
    BY <2>1, <2>2
<1>15. Len(q) \in Nat /\ Len(q) <= limit
  BY <1>2, <1>7, <1>12
<1>16. AllRows = q
  BY <1>4 DEF AllRows
<1> QED
  BY <1>11, <1>12, <1>13, <1>14, <1>15, <1>16
-----------------------------------------------------------------------------
(* fill=zero.                                                              *)

LEMMA Quotient ==
    ASSUME NEW k \in Int
    PROVE  (Step * k) \div Step = k
<1>1. Step * k \in Int
  BY ConstantFacts
<1>2. PICK c \in Int : c = (Step * k) \div Step /\ Step * c <= Step * k /\ Step * k < Step * c + Step
  BY <1>1, CandleBounds
<1>3. Step * k < Step * (c + 1)
  BY <1>2, ConstantFacts
<1>4. c <= k /\ k < c + 1
  BY <1>2, <1>3, ConstantFacts, Products
<1> QED
  BY <1>2, <1>4

\* One bar for each bucket from hi downwards.
FilledBar(s, b) ==
    IF \E c \in ToSet(s) : c.bucket = b
    THEN CHOOSE c \in ToSet(s) : c.bucket = b
    ELSE [bucket |-> b, trades |-> {}]

FilledBars(s, hi, n) == [i \in 1 .. n |-> FilledBar(s, hi - (i - 1) * Step)]

\* Bars of aligned buckets between low and hi.
Between(s, low, hi) ==
    /\ Descends(s)
    /\ \A i \in 1 .. Len(s) : Aligned(s[i].bucket) /\ low <= s[i].bucket /\ s[i].bucket <= hi

LEMMA InToSet ==
    ASSUME NEW X, NEW s \in Seq(X), NEW c
    PROVE  c \in ToSet(s) <=> \E i \in 1 .. Len(s) : c = s[i]
<1>1. DOMAIN s = 1 .. Len(s)
  OBVIOUS
<1> QED
  BY <1>1 DEF ToSet

\* The bar of a bucket: that of s, with its trades, or an empty one.
LEMMA FilledBarFacts ==
    ASSUME NEW s, Descends(s), NEW b \in Int
    PROVE  /\ FilledBar(s, b) \in Bar /\ FilledBar(s, b).bucket = b
           /\ \A i \in 1 .. Len(s) : s[i].bucket = b => FilledBar(s, b) = s[i]
<1>1. /\ s \in Seq(Bar) /\ Len(s) \in Nat
      /\ \A i, j \in 1 .. Len(s) : i < j => s[i].bucket > s[j].bucket
  BY DEF Descends
<1>2. \A i \in 1 .. Len(s) : s[i] \in Bar /\ s[i].bucket \in Int
  BY <1>1, BarFields
<1>3. \A i, j \in 1 .. Len(s) : s[i].bucket = s[j].bucket => i = j
  BY <1>1, <1>2
<1>a. \A x : x \in ToSet(s) <=> \E i \in 1 .. Len(s) : x = s[i]
  BY <1>1, InToSet
<1>4. PICK c : c = FilledBar(s, b)
  OBVIOUS
<1>5. CASE \E i \in 1 .. Len(s) : s[i].bucket = b
  <2>1. PICK i \in 1 .. Len(s) : s[i].bucket = b
    BY <1>5
  <2>2. \A x \in ToSet(s) : x.bucket = b => x = s[i]
    <3>1. ASSUME NEW x \in ToSet(s), x.bucket = b
          PROVE  x = s[i]
      <4>1. PICK j \in 1 .. Len(s) : x = s[j]
        BY <1>a, <3>1
      <4>2. s[j].bucket = s[i].bucket
        BY <2>1, <3>1, <4>1
      <4>3. i = j
        BY <1>3, <4>2
      <4> QED
        BY <4>1, <4>3
    <3> QED
      BY <3>1
  <2>3. s[i] \in ToSet(s)
    BY <1>1, <2>1, InToSet
  <2>4. c = s[i]
    BY <1>4, <2>1, <2>2, <2>3, Zenon DEF FilledBar
  <2>5. \A j \in 1 .. Len(s) : s[j].bucket = b => s[j] = s[i]
    BY <1>3, <2>1, Zenon
  <2> QED
    BY <1>2, <1>4, <2>1, <2>4, <2>5, Zenon
<1>6. CASE ~\E i \in 1 .. Len(s) : s[i].bucket = b
  <2>1. ~\E x \in ToSet(s) : x.bucket = b
    BY <1>6, <1>a, Zenon
  <2>2. c = [bucket |-> b, trades |-> {}]
    BY <1>4, <2>1 DEF FilledBar
  <2>3. c \in Bar /\ c.bucket = b
    BY <2>2 DEF Bar
  <2> QED
    BY <1>4, <1>6, <2>3, Zenon
<1> QED
  BY <1>5, <1>6

\* Bars of a descending series are at least Step apart.
LEMMA BarsApart ==
    ASSUME NEW s, NEW low, NEW hi \in Int, Between(s, low, hi)
    PROVE  \A i \in 1 .. Len(s) : s[i].bucket <= hi - (i - 1) * Step
<1>1. /\ s \in Seq(Bar) /\ Len(s) \in Nat
      /\ \A i, j \in 1 .. Len(s) : i < j => s[i].bucket > s[j].bucket
      /\ \A i \in 1 .. Len(s) : Aligned(s[i].bucket) /\ s[i].bucket <= hi
  BY DEF Descends, Between
<1>2. \A i \in 1 .. Len(s) : s[i].bucket \in Int
  BY <1>1, BarFields
<1> DEFINE A == {i \in 0 .. Len(s) : i >= 1 => s[i].bucket <= hi - (i - 1) * Step}
<1>3. 0 \in A
  BY <1>1
<1>4. ASSUME NEW i \in 1 .. Len(s), i - 1 \in A
      PROVE  i \in A
  <2>1. CASE i = 1
    <3>1. hi - (i - 1) * Step = hi
      BY <2>1, ConstantFacts
    <3> QED
      BY <1>1, <3>1
  <2>2. CASE i # 1
    <3>1. PICK j \in 1 .. Len(s) : j = i - 1
      BY <1>1, <2>2
    <3>2. s[j].bucket <= hi - (j - 1) * Step
      BY <1>4, <3>1
    <3>3. s[i].bucket < s[j].bucket
      BY <1>1, <3>1
    <3>4. s[i].bucket <= s[j].bucket - Step
      BY <1>1, <1>2, <3>3, AlignedStep
    <3>5. hi - (j - 1) * Step - Step = hi - (i - 1) * Step
      BY <3>1, ConstantFacts
    <3>6. hi - (j - 1) * Step \in Int /\ hi - (i - 1) * Step \in Int
      BY ConstantFacts
    <3>7. s[i].bucket <= hi - (i - 1) * Step
      <4>1. PICK u \in Int, v \in Int : u = hi - (j - 1) * Step /\ v = hi - (i - 1) * Step
        BY <3>6
      <4>2. u - Step = v /\ s[j].bucket <= u
        BY ONLY <3>2, <3>5, <4>1
      <4>3. s[i].bucket \in Int /\ s[j].bucket \in Int
        BY <1>2
      <4>4. s[i].bucket <= v
        BY ONLY <3>4, <4>2, <4>3, ConstantFacts, u \in Int, v \in Int
      <4> QED
        BY ONLY <4>1, <4>4
    <3> QED
      BY <3>7
  <2> QED
    BY <2>1, <2>2
<1> HIDE DEF A
<1>5. \A i \in 0 .. Len(s) : i \in A
  BY ONLY <1>1, <1>3, <1>4, UpTo
<1>6. \A i \in 1 .. Len(s) : i \in A
  BY <1>1, <1>5
<1> QED
  BY <1>6 DEF A

\* The filled bars go down from hi by Step, have all the bars of s they come
\* down to, and are as many as asked for if they do not come down to all.
Fills(P, n, s, hi, lim) ==
    /\ n \in 1 .. lim /\ P \in Seq(Bar) /\ Len(P) = n
    /\ \A i \in 1 .. n : P[i].bucket = hi - (i - 1) * Step
    /\ \A t \in Int : InBar(s, t) => InBar(P, t) \/ (Len(P) = lim /\ Below(P, t))
    /\ \A t \in Int : Len(s) = lim /\ Below(s, t) => Len(P) = lim /\ Below(P, t)

LEMMA FilledFacts ==
    ASSUME NEW s, NEW hi \in Int, NEW low \in Int, Between(s, low, hi), Aligned(hi), Aligned(low),
           NEW lim \in Nat \ {0}, Len(s) <= lim,
           NEW n, n = Min({(hi - Min({low, hi})) \div Step + 1, lim}),
           NEW P, P = FilledBars(s, hi, n)
    PROVE  Fills(P, n, s, hi, lim)
<1>1. /\ Descends(s) /\ s \in Seq(Bar) /\ Len(s) \in Nat
      /\ \A i \in 1 .. Len(s) : Aligned(s[i].bucket) /\ low <= s[i].bucket /\ s[i].bucket <= hi
  BY DEF Between, Descends
<1>2. \A i \in 1 .. Len(s) : s[i].bucket \in Int
  BY <1>1, BarFields
<1>3. PICK k \in Nat : /\ (hi - Min({low, hi})) \div Step = k
                       /\ low <= hi => hi - low = Step * k
  <2>1. CASE low <= hi
    <3>1. PICK j \in Nat : hi - low = Step * j
      BY <2>1, AlignedStep
    <3>2. Min({low, hi}) = low
      BY <2>1, MinOfTwo
    <3>3. (Step * j) \div Step = j
      BY Quotient
    <3> QED
      BY <3>1, <3>2, <3>3
  <2>2. CASE ~(low <= hi)
    <3>1. Min({low, hi}) = hi
      BY <2>2, MinOfTwo
    <3>2. (hi - hi) \div Step = 0
      BY ConstantFacts
    <3> QED
      BY <2>2, <3>1, <3>2
  <2> QED
    BY <2>1, <2>2
<1>4. n = (IF k + 1 <= lim THEN k + 1 ELSE lim) /\ n \in 1 .. lim
  <2>1. Min({k + 1, lim}) = IF k + 1 <= lim THEN k + 1 ELSE lim
    BY MinOfTwo
  <2>2. n = Min({k + 1, lim})
    BY <1>3, Zenon
  <2> QED
    BY ONLY <2>1, <2>2, k \in Nat, lim \in Nat \ {0}
<1>5. \A i \in 1 .. n : hi - (i - 1) * Step \in Int
  BY <1>4, ConstantFacts
<1>6. \A i \in 1 .. n : P[i] = FilledBar(s, hi - (i - 1) * Step)
  BY DEF FilledBars
<1>7. \A i \in 1 .. n : P[i] \in Bar /\ P[i].bucket = hi - (i - 1) * Step
  <2>1. ASSUME NEW i \in 1 .. n
        PROVE  P[i] \in Bar /\ P[i].bucket = hi - (i - 1) * Step
    <3>1. PICK b \in Int : b = hi - (i - 1) * Step
      BY <1>5
    <3>2. P[i] = FilledBar(s, b)
      BY ONLY <1>6, <3>1, i \in 1 .. n, Zenon
    <3>3. P[i] \in Bar /\ P[i].bucket = b
      BY ONLY <1>1, <3>2, FilledBarFacts, b \in Int
    <3> QED
      BY ONLY <3>1, <3>3, Zenon
  <2> QED
    BY ONLY <2>1
<1>8. P \in Seq(Bar) /\ Len(P) = n
  <2>1. DOMAIN P = 1 .. n /\ P = [i \in 1 .. n |-> P[i]]
    BY DEF FilledBars
  <2>2. P \in [1 .. n -> Bar]
    BY <1>7, <2>1
  <2>3. n \in Nat
    BY <1>4
  <2> QED
    BY ONLY <2>2, <2>3
<1>9. ASSUME NEW t \in Int, InBar(s, t)
      PROVE  InBar(P, t) \/ (Len(P) = lim /\ Below(P, t))
  <2>1. PICK i \in 1 .. Len(s) : s[i].bucket = alignDown(t) /\ t \in s[i].trades
    BY <1>9 DEF InBar
  <2>2. PICK b \in Int : b = alignDown(t) /\ Aligned(b) /\ low <= b /\ b <= hi
    BY <1>1, <1>2, <2>1
  <2>3. PICK j \in Nat : hi - b = Step * j
    BY <2>2, AlignedStep
  <2>4. j <= k
    <3>1. Step * j <= Step * k
      BY <1>3, <2>2, <2>3, ConstantFacts
    <3> QED
      BY <3>1, ConstantFacts, Products
  <2>5. CASE j + 1 <= n
    <3>1. PICK p \in 1 .. n : p = j + 1
      BY <1>4, <2>5
    <3>2. hi - (p - 1) * Step = b
      BY <2>3, <3>1, ConstantFacts
    <3>3. P[p] = FilledBar(s, b)
      BY <1>6, <3>2
    <3>4. FilledBar(s, b) = s[i]
      BY <1>1, <2>1, <2>2, FilledBarFacts
    <3>5. P[p].bucket = alignDown(t) /\ t \in P[p].trades
      BY <2>1, <3>3, <3>4
    <3> QED
      BY <1>8, <3>5 DEF InBar
  <2>6. CASE ~(j + 1 <= n)
    <3>1. n = lim /\ n <= j
      BY <1>4, <2>4, <2>6
    <3>2. ASSUME NEW p \in 1 .. n
          PROVE  P[p].bucket > b
      <4>1. p - 1 < j /\ p - 1 \in Int
        BY <1>4, <3>1
      <4>2. Step * (p - 1) < Step * j
        BY <4>1, ConstantFacts, Products
      <4>a. P[p].bucket = hi - (p - 1) * Step
        BY <1>7
      <4>b. (p - 1) * Step = Step * (p - 1)
        BY <4>1, ConstantFacts
      <4>3. P[p].bucket = hi - Step * (p - 1)
        BY ONLY <4>a, <4>b, Zenon
      <4>4. Step * (p - 1) \in Int
        BY ConstantFacts
      <4> QED
        BY <2>3, <4>2, <4>3, <4>4, ConstantFacts
    <3> QED
      BY <1>8, <2>2, <3>1, <3>2 DEF Below
  <2> QED
    BY <2>5, <2>6
<1>10. ASSUME NEW t \in Int, Len(s) = lim, Below(s, t)
       PROVE  Len(P) = lim /\ Below(P, t)
  <2>1. \A i \in 1 .. lim : s[i].bucket <= hi - (i - 1) * Step /\ s[i].bucket > alignDown(t)
    BY <1>10, BarsApart DEF Below
  <2>2. low <= s[lim].bucket /\ s[lim].bucket \in Int /\ s[lim].bucket <= hi - (lim - 1) * Step
    BY <1>1, <1>2, <1>10, <2>1
  <2>3. hi - (lim - 1) * Step \in Int /\ (lim - 1) * Step = Step * (lim - 1)
    BY ConstantFacts
  <2>4. low <= hi
    BY <1>1, <1>2, <1>10
  <2>5. Step * (lim - 1) <= Step * k
    BY <1>3, <2>2, <2>3, <2>4, ConstantFacts
  <2>6. lim - 1 <= k
    BY <2>5, ConstantFacts, Products
  <2>7. n = lim
    BY <1>4, <2>6
  <2>8. \A i \in 1 .. n : P[i].bucket > alignDown(t)
    <3>1. ASSUME NEW i \in 1 .. n
          PROVE  P[i].bucket > alignDown(t)
      <4>1. /\ s[i].bucket <= hi - (i - 1) * Step /\ s[i].bucket > alignDown(t)
            /\ s[i].bucket \in Int /\ alignDown(t) \in Int
        BY <1>2, <1>10, <2>1, <2>7, CandleBounds
      <4>2. P[i].bucket = hi - (i - 1) * Step /\ hi - (i - 1) * Step \in Int
        BY <1>5, <1>7
      <4> QED
        BY <4>1, <4>2
    <3> QED
      BY <3>1
  <2> QED
    BY <1>8, <2>7, <2>8 DEF Below
<1> QED
  BY <1>4, <1>7, <1>8, <1>9, <1>10 DEF Fills

\* The newest and the oldest bucket of a filled page.
FillHigh(s) ==
    IF before # {} THEN alignDown(The(before) - Step)
    ELSE IF request.to # {} THEN alignDown(The(request.to))
    ELSE Head(s).bucket

FillLow(s) ==
    IF request.from # {} THEN alignDown(The(request.from))
    ELSE IF s # <<>> THEN Last(s).bucket
    ELSE FillHigh(s)

\* Bars the query owes.
OwedBars(s) ==
    /\ Descends(s)
    /\ \A i \in 1 .. Len(s) : \E t \in Int : Owed(t) /\ s[i].bucket = alignDown(t)

LEMMA TheOnly ==
    ASSUME NEW x
    PROVE  The({x}) = x
BY DEF The

LEMMA OwedBuckets ==
    ASSUME NEW s, OwedBars(s), NEW i \in 1 .. Len(s)
    PROVE  s[i].bucket \in Int /\ Aligned(s[i].bucket)
<1>1. PICK t \in Int : s[i].bucket = alignDown(t)
  BY DEF OwedBars
<1> QED
  BY <1>1, AlignedCandle

LEMMA CursorFacts ==
    ASSUME Inv, Candles, at # "done"
    PROVE  \/ before = {} /\ pages = <<>>
           \/ \E x \in Int : before = {x} /\ Aligned(x)
BY DEF Inv, CursorInv

LEMMA FillHighFacts ==
    ASSUME Inv, Candles, at # "done", NEW s, OwedBars(s), before \cup request.to # {} \/ s # <<>>
    PROVE  /\ FillHigh(s) \in Int /\ Aligned(FillHigh(s))
           /\ \A i \in 1 .. Len(s) : s[i].bucket <= FillHigh(s)
           /\ \A x \in before : FillHigh(s) = x - Step
<1>1. request \in Asked
  BY DEF Inv, TypeOK
<1>2. request.to \in SUBSET Int /\ \A x, y \in request.to : x = y
  BY <1>1, RequestFacts
<1>3. CASE before # {}
  <2>1. PICK x \in Int : before = {x} /\ Aligned(x)
    BY <1>3, CursorFacts
  <2>2. x - Step \in Int /\ Aligned(x - Step)
    BY <2>1, ConstantFacts, AlignedStep
  <2>3. FillHigh(s) = x - Step
    BY <1>3, <2>1, <2>2, TheOnly DEF FillHigh, Aligned
  <2>4. ASSUME NEW i \in 1 .. Len(s)
        PROVE  s[i].bucket <= x - Step
    <3>1. PICK t \in Int : Owed(t) /\ s[i].bucket = alignDown(t)
      BY DEF OwedBars
    <3>2. s[i].bucket < x
      BY <2>1, <3>1 DEF Owed
    <3>3. s[i].bucket \in Int /\ Aligned(s[i].bucket)
      BY OwedBuckets
    <3> QED
      BY <2>1, <3>2, <3>3, AlignedStep
  <2> QED
    BY <2>1, <2>2, <2>3, <2>4
<1>4. CASE before = {} /\ request.to # {}
  <2>1. PICK x \in Int : request.to = {x}
    BY <1>2, <1>4
  <2>2. FillHigh(s) = alignDown(x)
    BY <1>4, <2>1, TheOnly DEF FillHigh
  <2>3. alignDown(x) \in Int /\ Aligned(alignDown(x))
    BY AlignedCandle
  <2>4. ASSUME NEW i \in 1 .. Len(s)
        PROVE  s[i].bucket <= alignDown(x)
    <3>1. PICK t \in Int : Owed(t) /\ s[i].bucket = alignDown(t)
      BY DEF OwedBars
    <3>2. t <= x
      BY <2>1, <3>1 DEF Owed, InRange
    <3> QED
      BY <3>1, <3>2, AlignMonotone
  <2> QED
    BY <1>4, <2>2, <2>3, <2>4
<1>5. CASE before = {} /\ request.to = {}
  <2>1. s # <<>> /\ s \in Seq(Bar) /\ Len(s) \in Nat
    BY <1>5 DEF OwedBars, Descends
  <2>2. 1 \in 1 .. Len(s) /\ Head(s) = s[1]
    BY <2>1
  <2>3. FillHigh(s) = s[1].bucket
    BY <1>5, <2>2 DEF FillHigh
  <2>4. ASSUME NEW i \in 1 .. Len(s)
        PROVE  s[i].bucket <= s[1].bucket
    <3>1. 1 < i => s[1].bucket > s[i].bucket
      BY <2>2 DEF OwedBars, Descends
    <3>2. s[i].bucket \in Int /\ s[1].bucket \in Int
      BY <2>2, OwedBuckets
    <3>3. i = 1 \/ 1 < i
      BY <2>1
    <3> QED
      BY <3>1, <3>2, <3>3
  <2> QED
    BY <1>5, <2>2, <2>3, <2>4, OwedBuckets
<1> QED
  BY <1>3, <1>4, <1>5

LEMMA FillLowFacts ==
    ASSUME Inv, Candles, at # "done", NEW s, OwedBars(s), before \cup request.to # {} \/ s # <<>>
    PROVE  /\ FillLow(s) \in Int /\ Aligned(FillLow(s))
           /\ \A i \in 1 .. Len(s) : FillLow(s) <= s[i].bucket
<1>1. request \in Asked
  BY DEF Inv, TypeOK
<1>2. request.from \in SUBSET Int /\ \A x, y \in request.from : x = y
  BY <1>1, RequestFacts
<1>3. s \in Seq(Bar) /\ Len(s) \in Nat
  BY DEF OwedBars, Descends
<1>4. CASE request.from # {}
  <2>1. PICK x \in Int : request.from = {x}
    BY <1>2, <1>4
  <2>2. FillLow(s) = alignDown(x)
    BY <1>4, <2>1, TheOnly DEF FillLow
  <2>3. alignDown(x) \in Int /\ Aligned(alignDown(x))
    BY AlignedCandle
  <2>4. ASSUME NEW i \in 1 .. Len(s)
        PROVE  alignDown(x) <= s[i].bucket
    <3>1. PICK t \in Int : Owed(t) /\ s[i].bucket = alignDown(t)
      BY DEF OwedBars
    <3>2. x <= t
      BY <2>1, <3>1 DEF Owed, InRange
    <3> QED
      BY <3>1, <3>2, AlignMonotone
  <2> QED
    BY <2>2, <2>3, <2>4
<1>5. CASE request.from = {} /\ s # <<>>
  <2>1. PICK m \in 1 .. Len(s) : m = Len(s)
    BY <1>3, <1>5
  <2>2. FillLow(s) = s[m].bucket
    BY <1>5, <2>1 DEF FillLow, Last
  <2>3. ASSUME NEW i \in 1 .. Len(s)
        PROVE  s[m].bucket <= s[i].bucket
    <3>1. i < m => s[i].bucket > s[m].bucket
      BY DEF OwedBars, Descends
    <3>2. s[i].bucket \in Int /\ s[m].bucket \in Int
      BY OwedBuckets
    <3>3. i = m \/ i < m
      BY <1>3, <2>1
    <3> QED
      BY <3>1, <3>2, <3>3
  <2> QED
    BY <2>2, <2>3, OwedBuckets
<1>6. CASE request.from = {} /\ s = <<>>
  <2>1. FillLow(s) = FillHigh(s) /\ Len(s) = 0
    BY <1>6 DEF FillLow
  <2> QED
    BY <2>1, FillHighFacts
<1> QED
  BY <1>4, <1>5, <1>6

-----------------------------------------------------------------------------
(* A page of candles.                                                      *)

\* Row b may follow a row of bucket x.
Follows(b, x) == IF request.fill THEN b = x - Step ELSE b < x

\* A page continues the cursor's series and has every trade it owes, down to
\* its last bucket if it is full.
GoodPage(p) ==
    /\ p \in Seq(Bar) /\ Len(p) <= limit
    /\ \A i \in 1 .. Len(p) : p[i].bucket \in Int /\ Aligned(p[i].bucket)
    /\ \A i \in 2 .. Len(p) : Follows(p[i].bucket, p[i - 1].bucket)
    /\ Len(p) >= 1 => \A x \in before : Follows(p[1].bucket, x)
    /\ ~overtaken => \A t \in wanted \cap Stored :
           Owed(t) => InBar(p, t) \/ (Len(p) = limit /\ Below(p, t))

LEMMA PlainPage ==
    ASSUME Inv, Candles, at = "cold", ~request.fill \/ AllRows = <<>>
    PROVE  GoodPage(AllRows)
<1>1. PICK q : q = AllRows
  OBVIOUS
<1>2. /\ Descends(q) /\ q \in Seq(Bar) /\ Len(q) \in Nat /\ Len(q) <= limit
      /\ \A i \in 1 .. Len(q) : \E t \in Int : Owed(t) /\ q[i].bucket = alignDown(t)
      /\ ~overtaken => \A t \in wanted \cap Stored :
             Owed(t) => InBar(q, t) \/ (Len(q) = limit /\ Below(q, t))
  BY <1>1, AllRowsFacts
<1>3. OwedBars(q)
  BY <1>2 DEF OwedBars
<1>4. \A i \in 1 .. Len(q) : q[i].bucket \in Int /\ Aligned(q[i].bucket)
  BY <1>3, OwedBuckets
<1>5. ASSUME NEW i \in 2 .. Len(q)
      PROVE  Follows(q[i].bucket, q[i - 1].bucket)
  <2>1. Len(q) # 0
    BY <1>2
  <2>2. ~request.fill
    BY <1>1, <2>1
  <2>3. PICK j \in 1 .. Len(q) : j = i - 1 /\ j < i /\ i \in 1 .. Len(q)
    BY <1>2
  <2>4. q[j].bucket > q[i].bucket
    BY <1>2, <2>3 DEF Descends
  <2>5. q[i].bucket < q[j].bucket
    BY <1>4, <2>3, <2>4
  <2> QED
    BY <2>2, <2>3, <2>5 DEF Follows
<1>6. ASSUME Len(q) >= 1, NEW x \in before
      PROVE  Follows(q[1].bucket, x)
  <2>1. ~request.fill /\ 1 \in 1 .. Len(q)
    BY <1>1, <1>2, <1>6
  <2>2. PICK t \in Int : Owed(t) /\ q[1].bucket = alignDown(t)
    BY <1>2, <2>1
  <2> QED
    BY <2>1, <2>2 DEF Owed, Follows
<1>7. GoodPage(q)
  BY <1>2, <1>4, <1>5, <1>6 DEF GoodPage
<1> QED
  BY <1>1, <1>7

LEMMA FilledPage ==
    ASSUME Inv, Candles, at = "cold", request.fill
    PROVE  GoodPage(FillCandles(AllRows, request, before, limit))
<1>1. PICK q : q = AllRows
  OBVIOUS
<1>2. /\ Descends(q) /\ q \in Seq(Bar) /\ Len(q) \in Nat /\ Len(q) <= limit
      /\ \A i \in 1 .. Len(q) : \E t \in Int : Owed(t) /\ q[i].bucket = alignDown(t)
      /\ ~overtaken => \A t \in wanted \cap Stored :
             Owed(t) => InBar(q, t) \/ (Len(q) = limit /\ Below(q, t))
  BY <1>1, AllRowsFacts
<1>3. OwedBars(q)
  BY <1>2 DEF OwedBars
<1>4. CASE before \cup request.to = {} /\ q = <<>>
  <2>1. FillCandles(q, request, before, limit) = q
    BY <1>4 DEF FillCandles
  <2> QED
    BY <1>1, <1>4, <2>1, PlainPage
<1>5. CASE before \cup request.to # {} \/ q # <<>>
  <2>1. at # "done" /\ TypeOK
    BY DEF Inv
  <2>2. PICK hi \in Int : /\ hi = FillHigh(q) /\ Aligned(hi)
                          /\ \A i \in 1 .. Len(q) : q[i].bucket <= hi
                          /\ \A x \in before : hi = x - Step
    BY <1>3, <1>5, <2>1, FillHighFacts
  <2>3. PICK low \in Int : /\ low = FillLow(q) /\ Aligned(low)
                           /\ \A i \in 1 .. Len(q) : low <= q[i].bucket
    BY <1>3, <1>5, <2>1, FillLowFacts
  <2>4. PICK n, p : n = Min({(hi - Min({low, hi})) \div Step + 1, limit}) /\ p = FilledBars(q, hi, n)
    OBVIOUS
  <2>5. FillCandles(q, request, before, limit) = p
    <3>1. FillCandles(q, request, before, limit) =
              FilledBars(q, FillHigh(q), Min({(FillHigh(q) - Min({FillLow(q), FillHigh(q)})) \div Step + 1, limit}))
      BY ONLY <1>5 DEF FillCandles, FilledBars, FilledBar, FillHigh, FillLow
    <3> QED
      BY ONLY <2>2, <2>3, <2>4, <3>1, Zenon
  <2>6. Between(q, low, hi)
    BY <1>2, <1>3, <2>2, <2>3, OwedBuckets DEF Between
  <2>7. limit \in Nat \ {0}
    BY <2>1, LimitFacts
  <2>a. PICK lim \in Nat \ {0} : lim = limit
    BY <2>7
  <2>b. /\ n = Min({(hi - Min({low, hi})) \div Step + 1, lim})
        /\ p = FilledBars(q, hi, n) /\ Len(q) <= lim /\ Aligned(hi) /\ Aligned(low)
    BY <1>2, <2>2, <2>3, <2>4, <2>a
  <2>c. Fills(p, n, q, hi, lim)
    BY ONLY <2>6, <2>b, FilledFacts, hi \in Int, low \in Int, lim \in Nat \ {0}
  <2>8. /\ n \in 1 .. limit /\ p \in Seq(Bar) /\ Len(p) = n
        /\ \A i \in 1 .. n : p[i].bucket = hi - (i - 1) * Step
        /\ \A t \in Int : InBar(q, t) => InBar(p, t) \/ (Len(p) = limit /\ Below(p, t))
        /\ \A t \in Int : Len(q) = limit /\ Below(q, t) => Len(p) = limit /\ Below(p, t)
    BY ONLY <2>a, <2>c DEF Fills
  <2>9. ASSUME NEW i \in 1 .. n
        PROVE  p[i].bucket \in Int /\ Aligned(p[i].bucket)
    <3>1. PICK a \in Int : hi = Step * a
      BY <2>2, AlignedFacts
    <3>2. p[i].bucket = Step * (a - (i - 1)) /\ a - (i - 1) \in Int
      BY <2>8, <3>1, ConstantFacts
    <3>3. Step * (a - (i - 1)) \in Int
      BY <3>2, ConstantFacts
    <3> QED
      BY <3>2, <3>3, AlignedFacts
  <2>10. ASSUME NEW i \in 2 .. n
         PROVE  Follows(p[i].bucket, p[i - 1].bucket)
    <3>1. i \in 1 .. n /\ i - 1 \in 1 .. n
      BY <2>8
    <3>2. p[i].bucket = hi - (i - 1) * Step /\ p[i - 1].bucket = hi - (i - 2) * Step
      BY <2>8, <3>1
    <3>3. hi - (i - 1) * Step = hi - (i - 2) * Step - Step
      BY <3>1, ConstantFacts
    <3> QED
      BY <3>2, <3>3 DEF Follows
  <2>11. ASSUME NEW x \in before
         PROVE  Follows(p[1].bucket, x)
    <3>1. 1 \in 1 .. n
      BY <2>8
    <3>2. p[1].bucket = hi
      BY <2>8, <3>1, ConstantFacts
    <3> QED
      BY <2>2, <3>2 DEF Follows
  <2>12. ASSUME ~overtaken, NEW t \in wanted \cap Stored, Owed(t)
         PROVE  InBar(p, t) \/ (Len(p) = limit /\ Below(p, t))
    <3>1. t \in Int
      BY <2>1, ArchivedFacts, FiniteInstants
    <3> QED
      BY <1>2, <2>8, <2>12, <3>1
  <2>13. GoodPage(p)
    BY <2>8, <2>9, <2>10, <2>11, <2>12 DEF GoodPage
  <2> QED
    BY <1>1, <2>5, <2>13
<1> QED
  BY <1>4, <1>5

LEMMA PageFacts ==
    ASSUME Inv, Candles, at = "cold"
    PROVE  GoodPage(Page)
<1>1. limit \in Nat /\ request.kind # "trades"
  BY LimitFacts DEF Inv, Candles
<1>2. PICK p : p = IF request.fill THEN FillCandles(AllRows, request, before, limit) ELSE AllRows
  OBVIOUS
<1>3. GoodPage(p)
  BY <1>2, PlainPage, FilledPage
<1>4. Page = Cut(p, limit)
  BY <1>1, <1>2 DEF Page, AllRows
<1>5. Cut(p, limit) = p
  BY <1>1, <1>3, CutFacts DEF GoodPage
<1> QED
  BY <1>3, <1>4, <1>5

-----------------------------------------------------------------------------
(* The stores change.                                                      *)

LEMMA ClockFacts ==
    ASSUME Inv
    PROVE  /\ now \in Int /\ now \in Nat /\ Today <= now /\ now <= MaxTime
           /\ \A t \in live : t \in Int /\ 0 <= t /\ t <= now /\ t <= MaxTime
           /\ \A t \in Archived : t \in Int /\ 0 <= t /\ t < now /\ t <= MaxTime
           /\ split \in Int
<1>1. TypeOK /\ ClockInv
  BY DEF Inv
<1>2. now \in Int /\ Today <= now /\ now <= MaxTime /\ split \in Int /\ now \in Nat
  BY <1>1, ConstantFacts DEF TypeOK
<1>3. \A t \in live : t \in Int /\ 0 <= t /\ t <= now /\ t <= MaxTime
  BY <1>1, <1>2, ConstantFacts DEF ClockInv, TypeOK
<1>4. ASSUME NEW t \in Archived
      PROVE  t \in Int /\ 0 <= t /\ t < now /\ t <= MaxTime
  <2>1. PICK d \in Days : t \in files[d]
    BY <1>4 DEF Archived
  <2>2. dayUTC(t) = d /\ t \in 0 .. MaxTime
    BY <1>1, <2>1 DEF TypeOK
  <2>3. d < dayUTC(now)
    BY <1>1, <2>1 DEF ClockInv
  <2>4. t \in Int
    BY <2>2
  <2>5. t < now
    BY <1>2, <2>2, <2>3, <2>4, LaterDay
  <2> QED
    BY <2>2, <2>5, ConstantFacts
<1> QED
  BY <1>2, <1>3, <1>4

\* A change of the stores leaves rows, cursor and pages alone.
LEMMA StoresFrame ==
    ASSUME Inv, UNCHANGED storesFrame
    PROVE  RowsInv' /\ CursorInv' /\ PagesDescend'
<1>1. /\ request' = request /\ before' = before /\ at' = at
      /\ merged' = merged /\ pages' = pages
  BY DEF storesFrame
<1>2. RowsInv /\ CursorInv /\ PagesDescend
  BY DEF Inv
<1>3. RowsInv'
  BY <1>1, <1>2 DEF RowsInv, Candles
<1>4. CursorInv'
  BY <1>1, <1>2 DEF CursorInv, Candles, Got
<1>5. PagesDescend'
  BY <1>1, <1>2 DEF PagesDescend, Got
<1> QED
  BY <1>3, <1>4, <1>5

\* A query has what it owes as long as nothing that was wanted comes back.
LEMMA StoresKeepQuery ==
    ASSUME Inv, UNCHANGED storesFrame, now' \in Int, now <= now', ~overtaken' => ~overtaken,
           wanted \cap Stored' \subseteq Stored
    PROVE  MergedInv' /\ NothingSkipped'
<1>1. /\ request' = request /\ before' = before /\ at' = at /\ split' = split
      /\ merged' = merged /\ pages' = pages /\ wanted' = wanted
  BY DEF storesFrame
<1>2. MergedInv /\ NothingSkipped /\ now \in Int
  BY ClockFacts DEF Inv
<1>3. limit' = limit /\ Got' = Got /\ \A t : Owed(t)' <=> Owed(t)
  BY <1>1 DEF limit, Owed, Got
<1>4. ASSUME Candles', at' = "cold"
      PROVE  /\ Descends(merged) /\ Len(merged) <= limit
             /\ \A i \in 1 .. Len(merged) :
                    \E t \in 0 .. now : Owed(t) /\ t >= split /\ merged[i].bucket = alignDown(t)
             /\ ~overtaken =>
                    \A t \in wanted \cap Stored :
                        Owed(t) /\ t >= split => InBar(merged, t) \/ (Len(merged) = limit /\ Below(merged, t))
  BY <1>1, <1>2, <1>4 DEF MergedInv, Candles
<1>5. \A t \in 0 .. now : t \in 0 .. now'
  BY <1>2
<1>6. ASSUME Candles', at' = "cold"
      PROVE  /\ (Descends(merged) /\ Len(merged) <= limit)'
             /\ (\A i \in 1 .. Len(merged) :
                    \E t \in 0 .. now : Owed(t) /\ t >= split /\ merged[i].bucket = alignDown(t))'
             /\ (~overtaken =>
                    \A t \in wanted \cap Stored :
                        Owed(t) /\ t >= split => InBar(merged, t) \/ (Len(merged) = limit /\ Below(merged, t)))'
  <2>1. (Descends(merged) /\ Len(merged) <= limit)'
    BY <1>1, <1>3, <1>4, <1>6 DEF Descends
  <2>2. ASSUME NEW i \in 1 .. Len(merged)
        PROVE  \E t \in 0 .. now' : Owed(t)' /\ t >= split /\ merged[i].bucket = alignDown(t)
    <3>1. PICK t \in 0 .. now : Owed(t) /\ t >= split /\ merged[i].bucket = alignDown(t)
      BY <1>4, <1>6
    <3> QED
      BY <1>3, <1>5, <3>1
  <2>3. ASSUME ~overtaken', NEW t \in wanted' \cap Stored', Owed(t)', t >= split'
        PROVE  InBar(merged, t) \/ (Len(merged) = limit /\ Below(merged, t))
    BY <1>1, <1>3, <1>4, <1>6, <2>3
  <2> QED
    BY <1>1, <1>3, <2>1, <2>2, <2>3 DEF InBar, Below
<1>7. MergedInv'
  BY <1>6 DEF MergedInv
<1>8. NothingSkipped'
  BY <1>1, <1>2, <1>3 DEF NothingSkipped
<1> QED
  BY <1>7, <1>8

LEMMA TickInv ==
    ASSUME Inv, Tick
    PROVE  Inv'
<1>1. TypeOK /\ ClockInv /\ SplitInv /\ TradesInv
  BY DEF Inv
<1>2. now' = now + 1 /\ now < MaxTime /\ UNCHANGED <<stores, client, steady, inserts, failures>>
  BY DEF Tick
<1>3. /\ live' = live /\ files' = files /\ moving' = moving /\ UNCHANGED storesFrame
      /\ request' = request /\ before' = before /\ at' = at /\ split' = split
      /\ merged' = merged /\ pages' = pages /\ wanted' = wanted
      /\ steady' = steady /\ overtaken' = overtaken /\ inserts' = inserts /\ failures' = failures
  BY <1>2 DEF stores, client, storesFrame
<1>4. now \in Int /\ now' \in Int /\ now <= now'
  BY <1>2, ClockFacts
<1>5. Stored' = Stored /\ Archived' = Archived
  BY <1>3 DEF Stored, Archived
<1>6. TypeOK'
  <2>1. now' \in Today .. MaxTime
    BY <1>2, <1>4, ClockFacts, ConstantFacts
  <2> QED
    BY <1>1, <1>3, <2>1 DEF TypeOK
<1>7. ClockInv'
  <2>1. dayUTC(now) <= dayUTC(now') /\ dayUTC(now) \in Int /\ dayUTC(now') \in Int
    BY <1>4, DayMonotone, DayBounds
  <2>2. \A d \in Days : d \in Int
    BY DaysFacts
  <2>3. moving # NoDay => moving \in Int
    BY <1>1, <2>2 DEF TypeOK
  <2>4. \A t \in wanted : t \in Int
    BY <1>1 DEF TypeOK
  <2>5. live' \subseteq 0 .. now'
    BY <1>1, <1>3, <1>4 DEF ClockInv
  <2>6. \A d \in Days : files'[d] # {} => d < dayUTC(now')
    BY <1>1, <1>3, <2>1, <2>2 DEF ClockInv
  <2>7. moving' # NoDay => moving' < dayUTC(now')
    BY <1>1, <1>3, <2>1, <2>3 DEF ClockInv
  <2>8. \A t \in wanted' \ Stored' : t < now'
    BY <1>1, <1>2, <1>3, <1>4, <1>5, <2>4 DEF ClockInv
  <2>9. \A t \in live', d \in Days : files'[d] # {} /\ dayUTC(t) <= d => t \in files'[d]
    BY <1>1, <1>3 DEF ClockInv
  <2> QED
    BY <2>5, <2>6, <2>7, <2>8, <2>9 DEF ClockInv
<1>8. SplitInv'
  <2>1. Candles => split' <= now'
    BY <1>1, <1>3, <1>4, ClockFacts DEF SplitInv
  <2> QED
    BY <1>1, <1>3, <1>5, <2>1 DEF SplitInv, Candles, Aligned
<1>9. MergedInv' /\ NothingSkipped'
  BY <1>3, <1>4, <1>5, StoresKeepQuery
<1>10. TradesInv'
  <2>1. (SplitHolds' <=> SplitHolds) /\ limit' = limit /\ need' = need
    BY <1>3, <1>5 DEF SplitHolds, limit, need
  <2> QED
    BY <1>1, <1>3, <1>5, <2>1 DEF TradesInv, Candles
<1>11. RowsInv' /\ CursorInv' /\ PagesDescend'
  BY <1>3, StoresFrame
<1> QED
  BY <1>6, <1>7, <1>8, <1>9, <1>10, <1>11 DEF Inv

\* What is left to show of an action that changes a store.
LEMMA StoresStep ==
    ASSUME Inv, UNCHANGED storesFrame, now' = now, steady' = FALSE, ~overtaken' => ~overtaken,
           wanted \cap Stored' \subseteq Stored, TypeOK', ClockInv', SplitInv'
    PROVE  Inv'
<1>1. now' \in Int /\ now <= now'
  BY ClockFacts
<1>2. MergedInv' /\ NothingSkipped'
  BY <1>1, StoresKeepQuery
<1>3. RowsInv' /\ CursorInv' /\ PagesDescend'
  BY StoresFrame
<1>4. request' = request /\ at' = at /\ pages' = pages
  BY DEF storesFrame
<1>5. TradesInv
  BY DEF Inv
<1>6. TradesInv'
  BY <1>4, <1>5 DEF TradesInv, Candles
<1> QED
  BY <1>2, <1>3, <1>6 DEF Inv

LEMMA InsertInv ==
    ASSUME Inv, Insert
    PROVE  Inv'
<1>1. TypeOK /\ ClockInv /\ SplitInv
  BY DEF Inv
<1>2. /\ now \notin Stored /\ inserts < MaxInserts /\ inserts' = inserts + 1
      /\ live' = live \cup {now} /\ steady' = FALSE
      /\ now' = now /\ files' = files /\ moving' = moving /\ UNCHANGED client /\ failures' = failures
  BY DEF Insert
<1>3. /\ request' = request /\ before' = before /\ at' = at /\ split' = split
      /\ merged' = merged /\ pages' = pages /\ wanted' = wanted /\ overtaken' = overtaken
      /\ UNCHANGED storesFrame
  BY <1>2 DEF client, storesFrame
<1>4. Archived' = Archived
  BY <1>2 DEF Archived
<1>5. Stored' = Stored \cup {now}
  BY <1>2, <1>4 DEF Stored
<1>6. wanted \cap Stored' \subseteq Stored
  <2>1. now \in wanted => now < now
    BY <1>1, <1>2 DEF ClockInv
  <2>2. now \notin wanted
    BY <2>1, ClockFacts
  <2> QED
    BY <1>5, <2>2
<1>7. TypeOK'
  <2>1. live' \subseteq 0 .. MaxTime
    BY <1>1, <1>2, ClockFacts, ConstantFacts DEF TypeOK
  <2>2. inserts' \in 0 .. MaxInserts
    BY <1>1, <1>2, ConstantFacts DEF TypeOK
  <2> QED
    BY <1>1, <1>2, <1>3, <2>1, <2>2 DEF TypeOK
<1>8. ClockInv'
  <2>a. live \subseteq 0 .. now /\ now \in 0 .. now
    BY <1>1, ClockFacts DEF ClockInv
  <2>1. live' \subseteq 0 .. now'
    BY <1>2, <2>a
  <2>2. ASSUME NEW t \in live', NEW d \in Days, files'[d] # {}, dayUTC(t) <= d
        PROVE  t \in files'[d]
    <3>1. CASE t \in live
      BY <1>1, <1>2, <2>2, <3>1 DEF ClockInv
    <3>2. CASE t = now
      <4>1. d < dayUTC(now) /\ d \in Int /\ dayUTC(now) \in Int
        BY <1>1, <1>2, <2>2, DaysFacts, ClockFacts, DayBounds DEF ClockInv
      <4> QED
        BY <2>2, <3>2, <4>1
    <3> QED
      BY <1>2, <3>1, <3>2
  <2>3. \A t \in wanted' \ Stored' : t < now'
    BY <1>1, <1>2, <1>3, <1>5 DEF ClockInv
  <2> QED
    BY <1>1, <1>2, <2>1, <2>2, <2>3 DEF ClockInv
<1>9. SplitInv'
  <2>1. ASSUME Candles
        PROVE  Aligned(split) /\ split <= now /\ ~(now < split)
    BY <1>1, <2>1, ClockFacts DEF SplitInv
  <2>2. ASSUME Candles, at \in {"live", "cold"}, NEW t \in Stored', t < split
        PROVE  t \in Archived'
    BY <1>1, <1>4, <1>5, <2>1, <2>2 DEF SplitInv
  <2>3. ASSUME Candles, at = "live", ~overtaken, NEW t \in Stored', t >= split
        PROVE  t \in live'
    BY <1>1, <1>2, <1>5, <2>3 DEF SplitInv
  <2> QED
    BY <1>2, <1>3, <2>1, <2>2, <2>3 DEF SplitInv, Candles, Aligned
<1> QED
  BY <1>2, <1>3, <1>6, <1>7, <1>8, <1>9, StoresStep

\* Old trades leave the table: DeleteRange and prune.
LEMMA LeaveInv ==
    ASSUME Inv, NEW gone \in SUBSET live, \A t \in gone : t < now, Leave(gone),
           UNCHANGED <<now, files, storesFrame, inserts>>, moving' \in {moving, NoDay},
           steady' = FALSE, failures' \in 0 .. MaxFailures
    PROVE  Inv'
<1>1. TypeOK /\ ClockInv /\ SplitInv
  BY DEF Inv
<1>2. /\ live' = live \ gone
      /\ overtaken' = (overtaken \/ (at = "live" /\ \E t \in gone : t >= split))
  BY DEF Leave
<1>3. /\ request' = request /\ before' = before /\ at' = at /\ split' = split
      /\ merged' = merged /\ pages' = pages /\ wanted' = wanted
      /\ now' = now /\ files' = files /\ inserts' = inserts
  BY DEF storesFrame
<1>4. Archived' = Archived
  BY <1>3 DEF Archived
<1>5. Stored' \subseteq Stored /\ \A t \in Stored \ Stored' : t \in gone
  BY <1>2, <1>4 DEF Stored
<1>6. ~overtaken' => ~overtaken
  BY <1>2
<1>7. TypeOK'
  <2>1. overtaken \in BOOLEAN
    BY <1>1 DEF TypeOK
  <2>2. overtaken' \in BOOLEAN
    BY <1>2, <2>1
  <2>3. live' \subseteq 0 .. MaxTime
    BY <1>1, <1>2 DEF TypeOK
  <2>4. moving' \in Days \cup {NoDay}
    BY <1>1 DEF TypeOK
  <2>5. {steady, overtaken}' \subseteq BOOLEAN
    BY <2>2
  <2> QED
    BY <1>1, <1>3, <2>3, <2>4, <2>5 DEF TypeOK
<1>8. ClockInv'
  <2>1. live' \subseteq 0 .. now'
    BY <1>1, <1>2, <1>3 DEF ClockInv
  <2>2. \A t \in live', d \in Days : files'[d] # {} /\ dayUTC(t) <= d => t \in files'[d]
    BY <1>1, <1>2, <1>3 DEF ClockInv
  <2>3. \A t \in wanted' \ Stored' : t < now'
    BY <1>1, <1>3, <1>5 DEF ClockInv
  <2>4. moving' # NoDay => moving' < dayUTC(now')
    BY <1>1, <1>3 DEF ClockInv
  <2> QED
    BY <1>1, <1>3, <2>1, <2>2, <2>3, <2>4 DEF ClockInv
<1>9. SplitInv'
  <2>1. ASSUME Candles, at \in {"live", "cold"}, NEW t \in Stored', t < split
        PROVE  t \in Archived'
    BY <1>1, <1>4, <1>5, <2>1 DEF SplitInv
  <2>2. ASSUME Candles, at = "live", ~overtaken', NEW t \in Stored', t >= split
        PROVE  t \in live'
    <3>1. t \in live
      BY <1>1, <1>5, <1>6, <2>2 DEF SplitInv
    <3>2. t \notin gone
      BY <1>2, <2>2
    <3> QED
      BY <1>2, <3>1, <3>2
  <2> QED
    BY <1>1, <1>3, <2>1, <2>2 DEF SplitInv, Candles, Aligned
<1>10. UNCHANGED storesFrame
  OBVIOUS
<1> QED
  BY <1>3, <1>5, <1>6, <1>7, <1>8, <1>9, <1>10, StoresStep

LEMMA DeleteRangeInv ==
    ASSUME Inv, DeleteRange
    PROVE  Inv'
<1>1. TypeOK /\ ClockInv /\ failures \in 0 .. MaxFailures
  BY DEF Inv, TypeOK
<1>2. /\ moving # NoDay /\ moving' = NoDay /\ steady' = FALSE
      /\ UNCHANGED <<now, files, storesFrame, inserts>>
  BY DEF DeleteRange
<1>3. CASE Leave({t \in live : dayUTC(t) = moving}) /\ failures' = failures
  <2>1. PICK gone : gone = {t \in live : dayUTC(t) = moving}
    OBVIOUS
  <2>2. ASSUME NEW t \in gone
        PROVE  t < now
    <3>1. t \in live /\ dayUTC(t) < dayUTC(now)
      BY <1>1, <1>2, <2>1 DEF ClockInv
    <3> QED
      BY <3>1, ClockFacts, LaterDay
  <2>3. gone \in SUBSET live /\ Leave(gone)
    BY <1>3, <2>1
  <2> QED
    BY <1>1, <1>2, <1>3, <2>2, <2>3, LeaveInv
<1>4. CASE failures < MaxFailures /\ failures' = failures + 1 /\ UNCHANGED <<live, overtaken>>
  <2>1. failures' \in 0 .. MaxFailures
    BY <1>1, <1>4, ConstantFacts
  <2>2. overtaken \in BOOLEAN
    BY <1>1 DEF TypeOK
  <2>3. Leave({})
    BY <1>4, <2>2 DEF Leave
  <2>4. {} \in SUBSET live /\ \A t \in {} : t < now
    OBVIOUS
  <2> QED
    BY <1>2, <2>1, <2>3, <2>4, LeaveInv
<1> QED
  BY <1>3, <1>4 DEF DeleteRange

LEMMA PruneInv ==
    ASSUME Inv, prune
    PROVE  Inv'
<1>1. TypeOK /\ failures \in 0 .. MaxFailures
  BY DEF Inv, TypeOK
<1>2. /\ Leave({t \in live : t < now - Retention}) /\ steady' = FALSE
      /\ now' = now /\ files' = files /\ moving' = moving /\ UNCHANGED storesFrame
      /\ inserts' = inserts /\ failures' = failures
  BY DEF prune
<1>3. PICK gone : gone = {t \in live : t < now - Retention}
  OBVIOUS
<1>4. \A t \in gone : t < now
  BY <1>3, ClockFacts, ConstantFacts
<1>5. gone \in SUBSET live /\ Leave(gone)
  BY <1>2, <1>3
<1> QED
  BY <1>1, <1>2, <1>4, <1>5, LeaveInv

\* A day-file has the trades of its day, and they are archived.
LEMMA FileFacts ==
    ASSUME TypeOK
    PROVE  /\ \A d \in Days : \A t \in files[d] : t \in Archived /\ dayUTC(t) = d
           /\ \A t \in Archived : dayUTC(t) \in Days /\ t \in files[dayUTC(t)]
<1>1. \A d \in Days : \A t \in files[d] : dayUTC(t) = d
  BY DEF TypeOK
<1>2. \A d \in Days : \A t \in files[d] : t \in Archived
  BY DEF Archived
<1>3. ASSUME NEW t \in Archived
      PROVE  dayUTC(t) \in Days /\ t \in files[dayUTC(t)]
  <2>1. PICK d \in Days : t \in files[d]
    BY <1>3 DEF Archived
  <2> QED
    BY <1>1, <2>1
<1> QED
  BY <1>1, <1>2, <1>3

LEMMA CommitFileInv ==
    ASSUME Inv, CommitFile
    PROVE  Inv'
<1>1. TypeOK /\ ClockInv /\ SplitInv
  BY DEF Inv
<1>2. PICK d : d = dayUTC(Min(live))
  OBVIOUS
<1>3. /\ live # {} /\ d < (now - MaxAge) \div DayLen
      /\ files' = [files EXCEPT ![d] = {t \in live : dayUTC(t) = d}] /\ moving' = d
      /\ steady' = FALSE /\ now' = now /\ live' = live /\ UNCHANGED client
      /\ inserts' = inserts /\ failures' = failures
  BY <1>2 DEF CommitFile
<1>4. /\ request' = request /\ before' = before /\ at' = at /\ split' = split
      /\ merged' = merged /\ pages' = pages /\ wanted' = wanted /\ overtaken' = overtaken
      /\ UNCHANGED storesFrame
  BY <1>3 DEF client, storesFrame
<1>5. d \in Days /\ d \in Int /\ \A t \in live : d <= dayUTC(t)
  <2>1. live \in SUBSET (0 .. MaxTime) /\ live \in SUBSET Nat
    BY <1>1, FiniteInstants DEF TypeOK
  <2>2. Min(live) \in live /\ \A t \in live : Min(live) <= t
    BY <1>3, <2>1, MinOfNats
  <2>3. d \in Days
    BY <1>2, <2>1, <2>2, DaysFacts
  <2>b. \A t \in live : t \in Int
    BY ClockFacts
  <2>a. PICK m \in Int : m = Min(live) /\ \A t \in live : m <= t /\ t \in Int
    BY ONLY <2>2, <2>b
  <2>4. \A t \in live : dayUTC(Min(live)) <= dayUTC(t)
    BY <2>a, DayMonotone
  <2> QED
    BY <1>2, <2>3, <2>4, DaysFacts
<1>6. d < dayUTC(now)
  <2>1. now - MaxAge \in Int /\ now - MaxAge <= now /\ now \in Int
    BY ClockFacts, ConstantFacts
  <2>2. dayUTC(now - MaxAge) <= dayUTC(now)
    BY <2>1, DayMonotone
  <2>3. dayUTC(now - MaxAge) \in Int /\ dayUTC(now) \in Int
    BY <2>1, DayBounds
  <2>4. d < dayUTC(now - MaxAge)
    BY <1>3 DEF dayUTC
  <2> QED
    BY <1>5, <2>2, <2>3, <2>4
<1>7. PICK T : T = {t \in live : dayUTC(t) = d}
  OBVIOUS
<1>8. /\ files \in [Days -> SUBSET (0 .. MaxTime)] /\ T \in SUBSET (0 .. MaxTime)
      /\ files' = [files EXCEPT ![d] = T]
  BY <1>1, <1>3, <1>7 DEF TypeOK
<1>9. /\ files' \in [Days -> SUBSET (0 .. MaxTime)] /\ files'[d] = T
      /\ \A e \in Days : e # d => files'[e] = files[e]
  BY <1>5, <1>8
<1>10. ASSUME NEW t \in Archived'
       PROVE  t \in Stored
  <2>1. PICK e \in Days : t \in files'[e]
    BY <1>10 DEF Archived
  <2>2. CASE e = d
    BY <1>7, <1>9, <2>1, <2>2 DEF Stored
  <2>3. CASE e # d
    BY <1>9, <2>1, <2>3 DEF Stored, Archived
  <2> QED
    BY <2>2, <2>3
<1>11. Stored' \subseteq Stored
  BY <1>3, <1>10 DEF Stored
<1>12. \A t \in Stored \ Stored' : t < now
  BY <1>3, ClockFacts DEF Stored
<1>13. TypeOK'
  <2>1. \A e \in Days : \A t \in files'[e] : dayUTC(t) = e
    BY <1>1, <1>7, <1>9 DEF TypeOK
  <2>2. moving' \in Days \cup {NoDay}
    BY <1>3, <1>5
  <2>3. {steady, overtaken}' \subseteq BOOLEAN
    BY <1>1, <1>3, <1>4 DEF TypeOK
  <2> QED
    BY <1>1, <1>3, <1>4, <1>9, <2>1, <2>2, <2>3 DEF TypeOK
<1>14. ClockInv'
  <2>1. \A e \in Days : files'[e] # {} => e < dayUTC(now')
    BY <1>1, <1>3, <1>6, <1>9 DEF ClockInv
  <2>2. ASSUME NEW t \in live', NEW e \in Days, files'[e] # {}, dayUTC(t) <= e
        PROVE  t \in files'[e]
    <3>1. CASE e = d
      <4>1. dayUTC(t) \in Int /\ t \in live
        BY <1>3, ClockFacts, DayBounds
      <4>2. dayUTC(t) = d
        BY <1>5, <2>2, <3>1, <4>1
      <4> QED
        BY <1>7, <1>9, <3>1, <4>1, <4>2
    <3>2. CASE e # d
      BY <1>1, <1>3, <1>9, <2>2, <3>2 DEF ClockInv
    <3> QED
      BY <3>1, <3>2
  <2>3. \A t \in wanted' \ Stored' : t < now'
    BY <1>1, <1>3, <1>4, <1>12 DEF ClockInv
  <2>4. live' \subseteq 0 .. now' /\ moving' < dayUTC(now')
    BY <1>1, <1>3, <1>6 DEF ClockInv
  <2> QED
    BY <2>1, <2>2, <2>3, <2>4 DEF ClockInv
<1>15. SplitInv'
  <2>1. ASSUME Candles, at \in {"live", "cold"}, NEW t \in Stored', t < split
        PROVE  t \in Archived'
    <3>1. t \in Archived
      BY <1>1, <1>11, <2>1 DEF SplitInv
    <3>2. CASE t \in live
      <4>1. dayUTC(t) \in Days /\ t \in files[dayUTC(t)]
        BY <1>1, <3>1, FileFacts
      <4>2. t \in files'[dayUTC(t)]
        BY <1>7, <1>9, <3>2, <4>1
      <4> QED
        BY <4>1, <4>2 DEF Archived
    <3>3. CASE t \notin live
      BY <1>3, <2>1, <3>3 DEF Stored
    <3> QED
      BY <3>2, <3>3
  <2>2. ASSUME Candles, at = "live", ~overtaken, NEW t \in Stored', t >= split
        PROVE  t \in live'
    BY <1>1, <1>3, <1>11, <2>2 DEF SplitInv
  <2> QED
    BY <1>1, <1>3, <1>4, <2>1, <2>2 DEF SplitInv, Candles, Aligned
<1> QED
  BY <1>3, <1>4, <1>11, <1>13, <1>14, <1>15, StoresStep

LEMMA RotateInv ==
    ASSUME Inv, rotate
    PROVE  Inv'
<1>1. TypeOK /\ ClockInv /\ SplitInv
  BY DEF Inv
<1>2. PICK d : d = dayUTC(Min(Archived))
  OBVIOUS
<1>3. /\ \A t \in live : files[dayUTC(t)] = {}
      /\ files' = [files EXCEPT ![d] = {}] /\ moving' = moving
      /\ steady' = FALSE /\ now' = now /\ live' = live /\ UNCHANGED client
      /\ inserts' = inserts /\ failures' = failures
  BY <1>2 DEF rotate
<1>4. /\ request' = request /\ before' = before /\ at' = at /\ split' = split
      /\ merged' = merged /\ pages' = pages /\ wanted' = wanted /\ overtaken' = overtaken
      /\ UNCHANGED storesFrame
  BY <1>3 DEF client, storesFrame
<1>5. files \in [Days -> SUBSET (0 .. MaxTime)]
  BY <1>1 DEF TypeOK
<1>6. /\ files' \in [Days -> SUBSET (0 .. MaxTime)]
      /\ \A e \in Days : \A t \in files'[e] : t \in files[e]
  BY <1>3, <1>5
<1>7. Archived' \subseteq Archived
  BY <1>6 DEF Archived
<1>8. Stored' \subseteq Stored /\ \A t \in Stored \ Stored' : t < now
  BY <1>3, <1>7, ClockFacts DEF Stored
<1>9. \A e \in Days : files'[e] # {} => files'[e] = files[e]
  BY <1>3, <1>5
<1>10. TypeOK'
  <2>1. \A e \in Days : \A t \in files'[e] : dayUTC(t) = e
    BY <1>1, <1>6 DEF TypeOK
  <2>2. {steady, overtaken}' \subseteq BOOLEAN
    BY <1>1, <1>3, <1>4 DEF TypeOK
  <2> QED
    BY <1>1, <1>3, <1>4, <1>6, <2>1, <2>2 DEF TypeOK
<1>11. ClockInv'
  <2>1. \A e \in Days : files'[e] # {} => e < dayUTC(now')
    BY <1>1, <1>3, <1>9 DEF ClockInv
  <2>2. \A t \in live', e \in Days : files'[e] # {} /\ dayUTC(t) <= e => t \in files'[e]
    BY <1>1, <1>3, <1>9 DEF ClockInv
  <2>3. \A t \in wanted' \ Stored' : t < now'
    BY <1>1, <1>3, <1>4, <1>8 DEF ClockInv
  <2> QED
    BY <1>1, <1>3, <2>1, <2>2, <2>3 DEF ClockInv
<1>12. SplitInv'
  <2>1. ASSUME Candles, at \in {"live", "cold"}, NEW t \in Stored', t < split
        PROVE  t \in Archived'
    <3>1. t \in Archived
      BY <1>1, <1>8, <2>1 DEF SplitInv
    <3>2. t \in files[dayUTC(t)]
      BY <1>1, <3>1, FileFacts
    <3>3. t \notin live
      BY <1>3, <3>2
    <3> QED
      BY <1>3, <2>1, <3>3 DEF Stored
  <2>2. ASSUME Candles, at = "live", ~overtaken, NEW t \in Stored', t >= split
        PROVE  t \in live'
    BY <1>1, <1>3, <1>8, <2>2 DEF SplitInv
  <2> QED
    BY <1>1, <1>3, <1>4, <2>1, <2>2 DEF SplitInv, Candles, Aligned
<1> QED
  BY <1>3, <1>4, <1>8, <1>10, <1>11, <1>12, StoresStep

-----------------------------------------------------------------------------
(* The queries.                                                            *)

\* The end of the newest archived day parts the stores.
LEMMA BoundsFacts ==
    ASSUME Inv
    PROVE  /\ Bounds \in Int /\ Aligned(Bounds) /\ Bounds <= now
           /\ \A t \in Stored : t < Bounds => t \in Archived
           /\ \A t \in Stored : t >= Bounds => t \in live
<1>1. TypeOK /\ ClockInv
  BY DEF Inv
<1>2. PICK S : S = {d \in Days : files[d] # {}} \cup {NoDay}
  OBVIOUS
<1>a. \A d \in Days : d \in Int /\ 0 <= d
  BY DaysFacts
<1>b. \A d \in S : d \in Days \/ d = -1
  BY <1>2 DEF NoDay
<1>3. S \in SUBSET Int /\ NoDay \in S /\ S # {}
  <2>1. \A d \in S : d \in Int
    BY ONLY <1>a, <1>b
  <2> QED
    BY <1>2, <2>1
<1>4. PICK top \in Int : top = dayUTC(MaxTime) /\ 0 <= top
  <2>1. dayUTC(MaxTime) \in Days /\ MaxTime \in Int
    BY ConstantFacts, DaysFacts
  <2> QED
    BY <1>a, <2>1
<1>5. \A d \in S : -1 <= d /\ d <= top
  <2>1. \A d \in Days : d <= top
    BY <1>4 DEF Days
  <2> QED
    BY <1>4, <1>a, <1>b, <2>1
<1>6. PICK m \in Int : /\ m = Max(S) /\ m \in S /\ -1 <= m
                       /\ \A d \in S : d <= m
  <2>1. Max(S) \in S /\ \A d \in S : d <= Max(S)
    BY ONLY <1>3, <1>5, MaxOfInts, top \in Int, -1 \in Int
  <2> QED
    BY <1>3, <1>5, <2>1
<1>7. PICK b \in Int : b = Bounds /\ b = DayLen * (m + 1) /\ b = DayLen * m + DayLen
  <2>1. Bounds = (m + 1) * DayLen
    BY <1>2, <1>6, Zenon DEF Bounds
  <2>2. /\ (m + 1) * DayLen \in Int /\ (m + 1) * DayLen = DayLen * (m + 1)
        /\ (m + 1) * DayLen = DayLen * m + DayLen
    BY ONLY ConstantFacts, m \in Int
  <2> QED
    BY ONLY <2>1, <2>2
<1>8. Aligned(b)
  <2>1. PICK k \in Nat \ {0} : DayLen = Step * k
    BY DayAligned
  <2>2. b = Step * (k * (m + 1)) /\ k * (m + 1) \in Int
    BY <1>7, <2>1, ConstantFacts
  <2> QED
    BY <2>2, AlignedFacts
<1>9. m = -1 \/ (m \in Days /\ files[m] # {})
  BY <1>2, <1>6 DEF NoDay
<1>10. b <= now
  <2>1. CASE m = -1
    BY <1>7, <2>1, ClockFacts, ConstantFacts
  <2>2. CASE m \in Days /\ files[m] # {}
    <3>1. m < dayUTC(now)
      BY <1>1, <2>2 DEF ClockInv
    <3>2. dayUTC(now) \in Int /\ DayLen * dayUTC(now) <= now /\ now \in Int
      BY ClockFacts, DayBounds
    <3>3. DayLen * (m + 1) <= DayLen * dayUTC(now) /\ DayLen * dayUTC(now) \in Int
      BY <3>1, <3>2, ConstantFacts, Products
    <3> QED
      BY <1>7, <3>2, <3>3
  <2> QED
    BY <1>9, <2>1, <2>2
<1>11. ASSUME NEW t \in live, t < b
       PROVE  t \in Archived
  <2>1. t \in Int /\ 0 <= t
    BY ClockFacts
  <2>2. dayUTC(t) \in Int /\ DayLen * dayUTC(t) <= t /\ DayLen * dayUTC(t) \in Int
    BY <2>1, DayBounds, ConstantFacts
  <2>3. DayLen * dayUTC(t) < DayLen * (m + 1)
    BY <1>7, <1>11, <2>1, <2>2
  <2>4. dayUTC(t) <= m
    BY <2>2, <2>3, ConstantFacts, Products
  <2>5. m \in Days /\ files[m] # {}
    <3>1. m # -1
      BY <1>7, <1>11, <2>1, ConstantFacts
    <3> QED
      BY <1>9, <3>1
  <2>6. t \in files[m]
    BY <1>1, <2>4, <2>5 DEF ClockInv
  <2> QED
    BY <2>5, <2>6 DEF Archived
<1>12. ASSUME NEW t \in Archived, t >= b
       PROVE  FALSE
  <2>1. t \in Int /\ dayUTC(t) \in Days /\ t \in files[dayUTC(t)]
    BY <1>1, ClockFacts, FileFacts
  <2>a. dayUTC(t) \in S
    BY <1>2, <2>1
  <2>2. dayUTC(t) <= m /\ dayUTC(t) \in Int
    BY <1>3, <1>6, <2>a
  <2>3. t < DayLen * dayUTC(t) + DayLen
    BY <2>1, DayBounds
  <2>4. DayLen * dayUTC(t) <= DayLen * m /\ DayLen * m \in Int /\ DayLen * dayUTC(t) \in Int
    BY <2>2, ConstantFacts, Products
  <2> QED
    BY <1>7, <1>12, <2>1, <2>3, <2>4, ConstantFacts
<1>13. ASSUME NEW t \in Stored
       PROVE  (t < b => t \in Archived) /\ (t >= b => t \in live)
  BY <1>11, <1>12 DEF Stored
<1> QED
  BY <1>7, <1>8, <1>10, <1>13

LEMMA FlattenNone == FlattenSeq(<<>>) = <<>>
<1>1. PICK z : z = <<>>
  OBVIOUS
<1>2. z \in [1 .. 0 -> Seq({})] /\ 0 \in Nat
  BY <1>1
<1>3. PICK g : Joins(g, 0, {}, z)
  BY ONLY <1>2, JoinsExists
<1>4. FlattenSeq(z) = g[0]
  BY ONLY <1>2, <1>3, Flatten
<1> QED
  BY <1>1, <1>3, <1>4 DEF Joins

LEMMA BeginInv ==
    ASSUME Inv, Begin
    PROVE  Inv'
<1>1. TypeOK /\ RowsInv /\ ClockInv /\ SplitInv /\ CursorInv /\ PagesDescend /\ NothingSkipped /\ TradesInv
  BY DEF Inv
<1>2. /\ at = "idle" /\ at' = "live" /\ steady' = TRUE
      /\ split' = (IF request.kind = "candles" THEN Bounds ELSE now - Retention)
      /\ wanted' = (IF pages = <<>> THEN Stored ELSE wanted)
      /\ now' = now /\ live' = live /\ files' = files /\ moving' = moving
      /\ request' = request /\ inserts' = inserts
      /\ before' = before /\ merged' = merged /\ pages' = pages /\ overtaken' = overtaken
      /\ failures' = failures
  BY DEF Begin, queryFrame, stores
<1>3. Stored' = Stored /\ Archived' = Archived /\ Got' = Got
  BY <1>2 DEF Stored, Archived, Got
<1>4. TypeOK'
  <2>1. split' \in Int
    BY <1>2, BoundsFacts, ClockFacts, ConstantFacts
  <2>2. wanted' \subseteq 0 .. MaxTime
    BY <1>1, <1>2, ArchivedFacts DEF TypeOK
  <2>3. {steady, overtaken}' \subseteq BOOLEAN
    BY <1>1, <1>2 DEF TypeOK
  <2> QED
    BY <1>1, <1>2, <2>1, <2>2, <2>3 DEF TypeOK
<1>5. RowsInv' /\ PagesDescend'
  <2>1. Len(pages) < MaxPages
    BY DEF Begin
  <2> QED
    BY <1>1, <1>2, <1>3, <2>1 DEF RowsInv, PagesDescend, Candles
<1>6. ClockInv'
  <2>1. \A t \in wanted' \ Stored' : t < now'
    BY <1>1, <1>2, <1>3 DEF ClockInv
  <2> QED
    BY <1>1, <1>2, <2>1 DEF ClockInv
<1>7. SplitInv'
  BY <1>2, <1>3, BoundsFacts DEF SplitInv, Candles, Aligned
<1>8. CursorInv'
  BY <1>1, <1>2, <1>3 DEF CursorInv, Candles
<1>9. MergedInv'
  BY <1>2 DEF MergedInv
<1>10. NothingSkipped'
  <2>1. CASE pages = <<>> /\ Candles
    <3>1. Got = <<>>
      BY <2>1, FlattenNone DEF Got
    <3>2. Len(Got) = 0
      BY <3>1
    <3>3. before = {}
      BY <1>1, <1>2, <2>1, <3>2 DEF CursorInv
    <3> QED
      BY <1>2, <3>3 DEF NothingSkipped
  <2>2. CASE pages # <<>> /\ Candles
    BY <1>1, <1>2, <1>3, <2>2 DEF NothingSkipped
  <2>3. CASE ~Candles
    BY <1>2, <2>3 DEF NothingSkipped, Candles
  <2> QED
    BY <2>1, <2>2, <2>3
<1>11. TradesInv'
  BY <1>1, <1>2 DEF TradesInv, Candles
<1> QED
  BY <1>4, <1>5, <1>6, <1>7, <1>8, <1>9, <1>10, <1>11 DEF Inv

\* The rows of the table that a query for trades gets.
LEMMA LiveTrades ==
    ASSUME TypeOK
    PROVE  Newest(PgQueryTrades(LiveFilter, need), {t \in live : t >= split /\ InRange(t, request)}, need)
<1>1. PICK T : T = {t \in live : t >= split /\ InRange(t, request)}
  OBVIOUS
<1>2. live \in SUBSET (0 .. MaxTime)
  BY DEF TypeOK
<1>3. \A t \in live : t \in Int
  BY <1>2, FiniteInstants
<1>4. T = {t \in live : InRange(t, LiveFilter)}
  BY <1>1, <1>3, LiveFilterFacts
<1>5. T \in SUBSET (0 .. MaxTime)
  BY <1>1, <1>2
<1>6. T \in SUBSET Int /\ IsFiniteSet(T)
  BY <1>5, FiniteInstants
<1>7. need \in Nat
  BY LimitFacts
<1>8. Newest(Cut(NewestFirst(T), need), T, need)
  BY <1>6, <1>7, CutNewestFirst
<1> QED
  BY <1>1, <1>4, <1>8 DEF PgQueryTrades

\* A range that ends below the split has nothing in the table.
LEMMA NothingLive ==
    ASSUME Inv, NEW x \in request.to, x < split
    PROVE  \A t \in Int : ~(t >= split /\ InRange(t, request))
<1>1. x \in Int /\ split \in Int
  <2>1. request \in Asked
    BY DEF Inv, TypeOK
  <2> QED
    BY <2>1, RequestFacts, ClockFacts
<1> QED
  BY <1>1 DEF InRange

LEMMA ReadLiveInv ==
    ASSUME Inv, ReadLive
    PROVE  Inv'
<1>1. TypeOK /\ RowsInv /\ ClockInv /\ SplitInv /\ CursorInv /\ PagesDescend /\ NothingSkipped /\ TradesInv
  BY DEF Inv
<1>2. /\ at = "live" /\ at' = "cold"
      /\ merged' = (IF \E x \in request.to : x < split THEN <<>>
                    ELSE IF request.kind = "candles" THEN PgQueryCandles(LiveFilter, before, limit)
                    ELSE PgQueryTrades(LiveFilter, need))
      /\ now' = now /\ live' = live /\ files' = files /\ moving' = moving
      /\ request' = request /\ inserts' = inserts
      /\ before' = before /\ split' = split /\ pages' = pages /\ wanted' = wanted
      /\ steady' = steady /\ overtaken' = overtaken /\ failures' = failures
  BY DEF ReadLive, queryFrame, stores
<1>3. /\ Stored' = Stored /\ Archived' = Archived /\ Got' = Got
      /\ limit' = limit /\ need' = need /\ \A t : Owed(t)' <=> Owed(t)
  BY <1>2 DEF Stored, Archived, Got, limit, need, Owed
<1>4. limit \in Nat /\ limit <= MaxLimit /\ need \in Nat /\ need <= MaxLimit
  BY <1>1, LimitFacts
<1>5. \A t \in live : t \in Int /\ t \in 0 .. now
  BY <1>1, ClockFacts DEF ClockInv
<1>6. PICK A : A = {t \in live : t >= split /\ Owed(t)}
  OBVIOUS
<1>7. ASSUME Candles
      PROVE  NewestBars(merged', A, limit)
  <2>1. CASE \E x \in request.to : x < split
    <3>1. A = {}
      BY <1>5, <1>6, <2>1, NothingLive DEF Owed
    <3>2. merged' = <<>>
      BY <1>2, <2>1
    <3> QED
      BY <1>4, <3>1, <3>2, NoBars
  <2>2. CASE ~\E x \in request.to : x < split
    <3>1. merged' = PgQueryCandles(LiveFilter, before, limit)
      BY <1>2, <1>7, <2>2 DEF Candles
    <3>2. \A x \in before : x \in Int /\ Aligned(x)
      BY <1>2, <1>7, CursorFacts
    <3> QED
      BY <1>1, <1>6, <3>1, <3>2, LiveCandles
  <2> QED
    BY <2>1, <2>2
<1>8. ASSUME ~Candles
      PROVE  Newest(merged', {t \in live : t >= split /\ InRange(t, request)}, need)
  <2>1. CASE \E x \in request.to : x < split
    <3>1. {t \in live : t >= split /\ InRange(t, request)} = {}
      BY <1>5, <2>1, NothingLive
    <3>2. merged' = <<>>
      BY <1>2, <2>1
    <3> QED
      BY <1>4, <3>1, <3>2, NothingIsNewest
  <2>2. CASE ~\E x \in request.to : x < split
    <3>1. merged' = PgQueryTrades(LiveFilter, need)
      BY <1>2, <1>8, <2>2 DEF Candles
    <3> QED
      BY <1>1, <3>1, LiveTrades
  <2> QED
    BY <2>1, <2>2
<1>9. PICK m : m = merged'
  OBVIOUS
<1>10. ASSUME Candles
       PROVE  /\ Descends(m) /\ m \in Seq(Bar) /\ Len(m) \in Nat /\ Len(m) <= limit
              /\ \A i \in 1 .. Len(m) : /\ \E t \in A : m[i].bucket = alignDown(t)
                                        /\ m[i].trades = {t \in A : alignDown(t) = m[i].bucket}
              /\ \A t \in A : Shown(m, t) \/ (Len(m) = limit /\ Below(m, t))
  <2>1. NewestBars(m, A, limit)
    BY <1>7, <1>9, <1>10
  <2>2. Descends(m) /\ m \in Seq(Bar) /\ Len(m) \in Nat
    BY <2>1 DEF NewestBars, Descends
  <2> QED
    BY <2>1, <2>2, Zenon DEF NewestBars
<1>11. ~Candles => m \in Seq(Int) /\ Len(m) \in Nat /\ Len(m) <= need
  BY <1>8, <1>9 DEF Newest
<1>12. TypeOK'
  <2>1. Len(merged') <= MaxLimit
    BY <1>4, <1>9, <1>10, <1>11, ConstantFacts
  <2>2. {steady, overtaken}' \subseteq BOOLEAN
    BY <1>1, <1>2 DEF TypeOK
  <2> QED
    BY <1>1, <1>2, <2>1, <2>2 DEF TypeOK
<1>13. RowsInv'
  BY <1>1, <1>2, <1>9, <1>10, <1>11 DEF RowsInv, Candles
<1>14. ClockInv' /\ PagesDescend' /\ CursorInv'
  BY <1>1, <1>2, <1>3 DEF ClockInv, PagesDescend, CursorInv, Candles
<1>15. SplitInv'
  BY <1>1, <1>2, <1>3 DEF SplitInv, Candles, Aligned
<1>16. MergedInv'
  <2>1. ASSUME Candles, NEW i \in 1 .. Len(m)
        PROVE  \E t \in 0 .. now : Owed(t) /\ t >= split /\ m[i].bucket = alignDown(t)
    <3>1. PICK t \in A : m[i].bucket = alignDown(t)
      BY <1>10, <2>1, Zenon
    <3> QED
      BY <1>5, <1>6, <3>1
  <2>2. ASSUME Candles, ~overtaken, NEW t \in wanted \cap Stored, Owed(t), t >= split
        PROVE  InBar(m, t) \/ (Len(m) = limit /\ Below(m, t))
    <3>1. t \in A
      BY <1>1, <1>2, <1>6, <2>2 DEF SplitInv
    <3>2. CASE Shown(m, t)
      <4>1. PICK i \in 1 .. Len(m) : m[i].bucket = alignDown(t)
        BY <3>2 DEF Shown
      <4>2. m[i].trades = {u \in A : alignDown(u) = m[i].bucket}
        BY <1>10, <2>2, <4>1, Zenon
      <4> QED
        BY <3>1, <4>1, <4>2 DEF InBar
    <3> QED
      BY <1>10, <2>2, <3>1, <3>2
  <2>3. Candles => Descends(m) /\ Len(m) <= limit
    BY <1>10
  <2> QED
    BY <1>2, <1>3, <1>9, <2>1, <2>2, <2>3 DEF MergedInv, Candles, Descends, InBar, Below
<1>17. NothingSkipped'
  BY <1>1, <1>2, <1>3 DEF NothingSkipped
<1>18. TradesInv'
  BY <1>1, <1>2, <1>3, <1>8 DEF TradesInv, Candles
<1> QED
  BY <1>12, <1>13, <1>14, <1>15, <1>16, <1>17, <1>18 DEF Inv

LEMMA QueryFailsInv ==
    ASSUME Inv, QueryFails
    PROVE  Inv'
<1>1. TypeOK /\ RowsInv /\ ClockInv /\ SplitInv /\ CursorInv /\ PagesDescend /\ NothingSkipped /\ TradesInv
  BY DEF Inv
<1>2. /\ at \in {"live", "cold"} /\ failures < MaxFailures /\ failures' = failures + 1
      /\ at' = "idle" /\ merged' = <<>>
      /\ now' = now /\ live' = live /\ files' = files /\ moving' = moving
      /\ request' = request /\ inserts' = inserts
      /\ before' = before /\ split' = split /\ pages' = pages /\ wanted' = wanted
      /\ steady' = steady /\ overtaken' = overtaken
  BY DEF QueryFails, queryFrame, stores
<1>3. Stored' = Stored /\ Archived' = Archived /\ Got' = Got
  BY <1>2 DEF Stored, Archived, Got
<1>4. TypeOK'
  <2>1. Len(merged') <= MaxLimit /\ failures' \in 0 .. MaxFailures
    BY <1>1, <1>2, ConstantFacts DEF TypeOK
  <2>2. {steady, overtaken}' \subseteq BOOLEAN
    BY <1>1, <1>2 DEF TypeOK
  <2> QED
    BY <1>1, <1>2, <2>1, <2>2 DEF TypeOK
<1>5. RowsInv'
  BY <1>1, <1>2 DEF RowsInv, Candles
<1>6. ClockInv' /\ PagesDescend' /\ CursorInv'
  BY <1>1, <1>2, <1>3 DEF ClockInv, PagesDescend, CursorInv, Candles
<1>7. SplitInv' /\ MergedInv'
  BY <1>1, <1>2, <1>3 DEF SplitInv, MergedInv, Candles, Aligned
<1>8. NothingSkipped'
  BY <1>1, <1>2, <1>3 DEF NothingSkipped
<1>9. TradesInv'
  BY <1>1, <1>2 DEF TradesInv, Candles
<1> QED
  BY <1>4, <1>5, <1>6, <1>7, <1>8, <1>9 DEF Inv

-----------------------------------------------------------------------------
(* The answer.                                                             *)

\* What the archive adds to a query for trades.
LEMMA ColdTradeRows ==
    ASSUME TypeOK, ~Candles, Len(merged) \in Nat
    PROVE  /\ Cold \in Seq(Int)
           /\ Len(merged) <= need =>
                  Newest(Cold, {t \in Archived : t < split /\ InRange(t, request)}, need - Len(merged))
<1>1. need \in Nat /\ request \in Asked /\ split \in Int
  BY LimitFacts DEF TypeOK
<1>2. \A t \in Archived : t \in Int
  BY ArchivedFacts, FiniteInstants
<1>3. PICK T : T = {t \in Archived : t < split /\ InRange(t, request)}
  OBVIOUS
<1>4. CASE \E x \in request.from : x >= split
  <2>1. PICK x \in request.from : x >= split
    BY <1>4
  <2>2. x \in Int
    BY <1>1, RequestFacts
  <2>3. T = {}
    BY <1>1, <1>2, <1>3, <2>1, <2>2 DEF InRange
  <2>4. Cold = <<>>
    BY <1>4 DEF Cold
  <2>5. Len(merged) <= need => need - Len(merged) \in Nat
    BY <1>1
  <2> QED
    BY <1>3, <2>3, <2>4, <2>5, NothingIsNewest
<1>5. CASE ~(\E x \in request.from : x >= split) /\ Len(merged) < need
  <2>1. PICK n \in Nat : n = need - Len(merged)
    BY <1>1, <1>5
  <2>2. Cold = Read(ColdFilter, n)
    BY <1>5, <2>1 DEF Cold, Candles
  <2>3. Newest(Cold, ColdTrades(ColdFilter, {}), n)
    BY <2>2, TypeStore, ColdFilterFacts, ReadFacts
  <2>4. ColdTrades(ColdFilter, {}) = T
    BY <1>2, <1>3, ColdFilterFacts DEF ColdTrades
  <2>5. Newest(Cold, T, n)
    BY <2>3, <2>4
  <2>6. Cold \in Seq(Int)
    BY <2>5 DEF Newest
  <2> QED
    BY <1>3, <2>1, <2>5, <2>6
<1>6. CASE ~(\E x \in request.from : x >= split) /\ ~(Len(merged) < need)
  <2>1. Cold = <<>>
    BY <1>6 DEF Cold, Candles
  <2>2. Len(merged) <= need => need - Len(merged) = 0
    BY <1>1, <1>6
  <2> QED
    BY <1>3, <2>1, <2>2, NothingIsNewest
<1> QED
  BY <1>4, <1>5, <1>6

\* Skipping offset rows.
Skips(p, s, o, l) ==
    /\ p \in Seq(Int) /\ Len(p) \in Nat /\ Len(p) <= l
    /\ \A i \in 1 .. Len(p) : p[i] = s[o + i] /\ o + i \in 1 .. Len(s) /\ o + i <= o + l
    /\ \A j \in 1 .. Len(s) : j > o /\ j <= o + l => j - o \in 1 .. Len(p)

LEMMA Skipped ==
    ASSUME NEW s \in Seq(Int), NEW o \in Nat, NEW l \in Nat \ {0},
           NEW p, p = SubSeq(s, o + 1, Min({o + l, Len(s)}))
    PROVE  Skips(p, s, o, l)
<1>1. PICK k \in Nat : k = Min({o + l, Len(s)}) /\ k = IF o + l <= Len(s) THEN o + l ELSE Len(s)
  <2>1. Len(s) \in Nat /\ o + l \in Nat
    OBVIOUS
  <2> QED
    BY <2>1, MinOfTwo
<1>2. p = SubSeq(s, o + 1, k)
  BY <1>1, Zenon
<1>3. k <= Len(s) /\ Len(s) \in Nat /\ k <= o + l /\ (k = Len(s) \/ k = o + l)
  BY <1>1
<1>4. CASE o < k
  <2>1. /\ p \in Seq(Int) /\ Len(p) = k - o
        /\ \A i \in 1 .. k - o : p[i] = s[o + i]
    <3>1. \A i \in o + 1 .. k : s[i] \in Int
      BY <1>3
    <3>2. /\ p \in Seq(Int) /\ Len(p) = IF o + 1 <= k THEN k - (o + 1) + 1 ELSE 0
          /\ \A i \in 1 .. k - (o + 1) + 1 : p[i] = s[(o + 1) + i - 1]
      BY ONLY <1>2, <3>1, SubSeqProperties, o + 1 \in Int, k \in Int
    <3>3. /\ o + 1 <= k /\ k - (o + 1) + 1 = k - o
          /\ \A i \in 1 .. k - o : (o + 1) + i - 1 = o + i
      BY ONLY <1>4, o \in Nat, k \in Nat
    <3> QED
      BY ONLY <3>2, <3>3
  <2>2. Len(p) \in Nat /\ Len(p) <= l
    BY ONLY <1>3, <1>4, <2>1, o \in Nat, l \in Nat \ {0}, k \in Nat
  <2>3. \A i \in 1 .. Len(p) : p[i] = s[o + i] /\ o + i \in 1 .. Len(s) /\ o + i <= o + l
    BY ONLY <1>3, <1>4, <2>1, o \in Nat, l \in Nat \ {0}, k \in Nat
  <2>4. \A j \in 1 .. Len(s) : j > o /\ j <= o + l => j - o \in 1 .. Len(p)
    BY ONLY <1>3, <1>4, <2>1, o \in Nat, l \in Nat \ {0}, k \in Nat
  <2> QED
    BY ONLY <2>1, <2>2, <2>3, <2>4 DEF Skips
<1>5. CASE ~(o < k)
  <2>1. p \in Seq(Int) /\ Len(p) = 0
    BY ONLY <1>2, <1>3, <1>5, s \in Seq(Int), o \in Nat, k \in Nat
  <2> QED
    BY ONLY <1>3, <1>5, <2>1, o \in Nat, l \in Nat \ {0}, k \in Nat DEF Skips
<1> QED
  BY <1>4, <1>5

\* A page of trades.
LEMMA TradePage ==
    ASSUME Inv, ~Candles, at = "cold"
    PROVE  /\ Page \in Seq(Int) /\ Len(Page) <= limit
           /\ steady /\ SplitHolds =>
                  \E s : /\ Newest(s, {t \in Stored : InRange(t, request)}, need)
                         /\ Page = SubSeq(s, request.offset + 1, Min({request.offset + limit, Len(s)}))
<1>1. TypeOK /\ TradesInv /\ merged \in Seq(Int) /\ request.kind = "trades"
  <2>1. request \in Asked
    BY DEF Inv, TypeOK
  <2> QED
    BY <2>1, RequestFacts DEF Inv, RowsInv, Candles
<1>2. PICK m, c, q : m = merged /\ c = Cold /\ q = m \o c
  OBVIOUS
<1>3. m \in Seq(Int) /\ c \in Seq(Int) /\ q \in Seq(Int) /\ Len(m) \in Nat
  BY <1>1, <1>2, ColdTradeRows
<1>4. Page = SubSeq(q, request.offset + 1, Min({request.offset + limit, Len(q)}))
  BY <1>1, <1>2 DEF Page
<1>5. limit \in Nat \ {0} /\ request.offset \in Nat /\ need \in Nat
  BY <1>1, LimitFacts
<1>6. Page \in Seq(Int) /\ Len(Page) <= limit
  <2>1. Skips(Page, q, request.offset, limit)
    BY ONLY <1>3, <1>4, <1>5, Skipped
  <2> QED
    BY <2>1 DEF Skips
<1>7. ASSUME steady, SplitHolds
      PROVE  Newest(q, {t \in Stored : InRange(t, request)}, need)
  <2>1. PICK A, B : /\ A = {t \in live : t >= split /\ InRange(t, request)}
                    /\ B = {t \in Archived : t < split /\ InRange(t, request)}
    OBVIOUS
  <2>2. Newest(m, A, need)
    BY <1>1, <1>2, <1>7, <2>1 DEF TradesInv
  <2>3. Len(m) <= need
    BY <2>2 DEF Newest
  <2>4. Newest(c, B, need - Len(m))
    BY <1>1, <1>2, <1>3, <2>1, <2>3, ColdTradeRows
  <2>5. \A t \in Stored : t \in Int
    BY <1>1, ArchivedFacts, FiniteInstants
  <2>6. split \in Int
    BY ClockFacts
  <2>7. A \in SUBSET Int /\ B \in SUBSET Int
    BY <2>1, <2>5 DEF Stored
  <2>8. \A a \in A, b \in B : a > b
    BY <2>1, <2>5, <2>6 DEF Stored
  <2>9. A \cup B = {t \in Stored : InRange(t, request)}
    <3>1. ASSUME NEW t \in Stored
          PROVE  t \in A \cup B <=> InRange(t, request)
      <4>1. t \in Int
        BY <2>5
      <4>2. CASE t < split
        BY <1>7, <2>1, <2>6, <4>1, <4>2 DEF SplitHolds
      <4>3. CASE ~(t < split)
        BY <1>7, <2>1, <2>6, <4>1, <4>3 DEF SplitHolds
      <4> QED
        BY <4>2, <4>3
    <3>2. \A t \in A \cup B : t \in Stored
      BY <2>1 DEF Stored
    <3> QED
      BY <3>1, <3>2
  <2>10. Newest(m \o c, A \cup B, need)
    BY <1>5, <2>2, <2>4, <2>7, <2>8, JoinNewest
  <2> QED
    BY <1>2, <2>9, <2>10
<1> QED
  BY <1>4, <1>6, <1>7

\* A page is added to what the client has.
LEMMA GotMore ==
    ASSUME NEW X, pages \in Seq(Seq(X)), NEW p \in Seq(X), pages' = Append(pages, p)
    PROVE  Got \in Seq(X) /\ Got' = Got \o p /\ pages' \in Seq(Seq(X))
<1>1. PICK s : s = pages
  OBVIOUS
<1>2. FlattenSeq(s) \in Seq(X) /\ FlattenSeq(Append(s, p)) = FlattenSeq(s) \o p
  BY <1>1, FlattenAppend
<1>3. Got = FlattenSeq(s) /\ Got' = FlattenSeq(Append(s, p))
  BY <1>1 DEF Got
<1> QED
  BY <1>2, <1>3

\* The series goes on.
LEMMA SeriesGoesOn ==
    ASSUME NEW s \in Seq(Bar), NEW p \in Seq(Bar),
           \A i \in 2 .. Len(s) : Follows(s[i].bucket, s[i - 1].bucket),
           \A i \in 2 .. Len(p) : Follows(p[i].bucket, p[i - 1].bucket),
           Len(s) >= 1 /\ Len(p) >= 1 => Follows(p[1].bucket, s[Len(s)].bucket)
    PROVE  \A i \in 2 .. Len(s \o p) : Follows((s \o p)[i].bucket, (s \o p)[i - 1].bucket)
<1>1. PICK q : q = s \o p
  OBVIOUS
<1>2. Len(s) \in Nat /\ Len(p) \in Nat /\ Len(q) = Len(s) + Len(p)
  BY <1>1
<1>3. /\ \A i \in 1 .. Len(s) : q[i] = s[i]
      /\ \A i \in 1 .. Len(q) : i > Len(s) => \E a \in 1 .. Len(p) : a = i - Len(s) /\ q[i] = p[a]
  BY <1>1
<1>4. ASSUME NEW i \in 2 .. Len(q)
      PROVE  Follows(q[i].bucket, q[i - 1].bucket)
  <2>1. i \in Int /\ i >= 2 /\ i \in 1 .. Len(q) /\ i - 1 \in 1 .. Len(q)
    BY <1>2
  <2>2. CASE i <= Len(s)
    <3>1. i \in 2 .. Len(s) /\ i \in 1 .. Len(s) /\ i - 1 \in 1 .. Len(s)
      BY <1>2, <2>1, <2>2
    <3>2. q[i] = s[i] /\ q[i - 1] = s[i - 1]
      BY <1>3, <3>1
    <3>3. Follows(s[i].bucket, s[i - 1].bucket)
      BY <3>1
    <3> QED
      BY ONLY <3>2, <3>3, Zenon
  <2>3. CASE i = Len(s) + 1
    <3>1. Len(s) \in 1 .. Len(s) /\ i > Len(s) /\ i - 1 = Len(s) /\ i - Len(s) = 1
      BY <1>2, <2>1, <2>3
    <3>2. q[i - 1] = s[Len(s)]
      BY <1>3, <3>1
    <3>3. 1 \in 1 .. Len(p) /\ q[i] = p[1]
      BY <1>3, <2>1, <3>1
    <3>4. Follows(p[1].bucket, s[Len(s)].bucket)
      BY <1>2, <3>1, <3>3
    <3> QED
      BY ONLY <3>2, <3>3, <3>4, Zenon
  <2>4. CASE i > Len(s) + 1
    <3>1. i > Len(s) /\ i - 1 > Len(s)
      BY <1>2, <2>1, <2>4
    <3>2. PICK a \in 1 .. Len(p) : a = i - Len(s) /\ q[i] = p[a]
      BY <1>3, <2>1, <3>1
    <3>3. PICK b \in 1 .. Len(p) : b = (i - 1) - Len(s) /\ q[i - 1] = p[b]
      BY <1>3, <2>1, <3>1
    <3>4. b = a - 1 /\ a \in 2 .. Len(p)
      BY <1>2, <2>1, <3>2, <3>3
    <3>5. Follows(p[a].bucket, p[a - 1].bucket)
      BY <3>4
    <3> QED
      BY ONLY <3>2, <3>3, <3>4, <3>5, Zenon
  <2> QED
    BY <1>2, <2>1, <2>2, <2>3, <2>4
<1> QED
  BY <1>1, <1>4

\* A bar of the client's candles has t.
LEMMA GotBar ==
    ASSUME NEW s \in Seq(Bar), NEW t
    PROVE  (\E c \in ToSet(s) : c.bucket = alignDown(t) /\ t \in c.trades) <=> InBar(s, t)
<1>1. \A c : c \in ToSet(s) <=> \E i \in 1 .. Len(s) : c = s[i]
  BY InToSet
<1> QED
  BY <1>1, Zenon DEF InBar

\* The type of a state with one more page.
LEMMA AnswerType ==
    ASSUME TypeOK, Answer, NEW X, pages \in Seq(Seq(X)), Page \in Seq(X), Len(Page) <= limit,
           Len(pages) < MaxPages, Len(Page) = limit /\ Candles => Last(Page).bucket \in Int
    PROVE  TypeOK'
<1>1. /\ pages' = Append(pages, Page) /\ merged' = <<>>
      /\ now' = now /\ live' = live /\ files' = files /\ moving' = moving
      /\ request' = request /\ inserts' = inserts
      /\ split' = split /\ wanted' = wanted
      /\ steady' = steady /\ overtaken' = overtaken /\ failures' = failures
  BY DEF Answer, queryFrame, stores
<1>2. \/ at' = "idle" /\ before' = {Last(Page).bucket} /\ Last(Page).bucket \in Int
      \/ at' = "done" /\ before' = before
  BY DEF Answer, Candles
<1>3. before' \subseteq Int /\ Cardinality(before') <= 1
  <2>1. CASE before' = before
    BY <2>1 DEF TypeOK
  <2>2. ASSUME NEW x \in Int, before' = {x}
        PROVE  before' \subseteq Int /\ Cardinality(before') <= 1
    <3>1. Cardinality({x}) = 1
      BY FS_Singleton
    <3> QED
      BY ONLY <2>2, <3>1
  <2> QED
    BY <1>2, <2>1, <2>2
<1>4. limit <= MaxLimit /\ limit \in Nat
  BY LimitFacts
<1>5. PICK r, p : r = pages' /\ p = Page
  OBVIOUS
<1>6. /\ r \in Seq(Seq(X)) /\ Len(r) = Len(pages) + 1
      /\ \A i \in 1 .. Len(r) : r[i] = p \/ \E j \in 1 .. Len(pages) : r[i] = pages[j]
  BY <1>1, <1>5
<1>7. Len(r) <= MaxPages
  BY <1>6, ConstantFacts
<1>8. ASSUME NEW c \in ToSet(r)
      PROVE  Len(c) <= MaxLimit
  <2>1. PICK i \in 1 .. Len(r) : c = r[i]
    BY <1>6, <1>8, InToSet
  <2>2. CASE c = p
    BY <1>4, <1>5, <2>2, ConstantFacts
  <2>3. CASE \E j \in 1 .. Len(pages) : c = pages[j]
    <3>1. c \in ToSet(pages)
      BY <2>3, InToSet
    <3> QED
      BY <3>1 DEF TypeOK
  <2> QED
    BY <1>6, <2>1, <2>2, <2>3
<1>9. Len(pages') <= MaxPages /\ \A c \in ToSet(pages') : Len(c) <= MaxLimit
  BY <1>5, <1>7, <1>8
<1>10. Len(merged') <= MaxLimit
  BY <1>1, ConstantFacts
<1>11. at' \in {"idle", "live", "cold", "done"} /\ {steady, overtaken}' \subseteq BOOLEAN
  BY <1>1, <1>2 DEF TypeOK
<1> QED
  BY <1>1, <1>3, <1>9, <1>10, <1>11 DEF TypeOK

LEMMA AnswerCandles ==
    ASSUME Inv, Answer, Candles
    PROVE  Inv'
<1>1. /\ TypeOK /\ RowsInv /\ ClockInv /\ SplitInv /\ CursorInv /\ PagesDescend
      /\ NothingSkipped /\ TradesInv
  BY DEF Inv
<1>2. PICK p : p = Page
  OBVIOUS
<1>3. /\ at = "cold" /\ pages' = Append(pages, p) /\ merged' = <<>>
      /\ now' = now /\ live' = live /\ files' = files /\ moving' = moving
      /\ request' = request /\ inserts' = inserts
      /\ split' = split /\ wanted' = wanted
      /\ steady' = steady /\ overtaken' = overtaken /\ failures' = failures
  BY <1>2 DEF Answer, queryFrame, stores
<1>4. \/ Len(p) = limit /\ at' = "idle" /\ before' = {Last(p).bucket}
      \/ Len(p) # limit /\ at' = "done" /\ before' = before
  BY <1>2 DEF Answer, Candles
<1>5. GoodPage(p)
  BY <1>2, <1>3, PageFacts
<1>6. /\ p \in Seq(Bar) /\ Len(p) \in Nat /\ Len(p) <= limit
      /\ \A i \in 1 .. Len(p) : p[i].bucket \in Int /\ Aligned(p[i].bucket)
      /\ \A i \in 2 .. Len(p) : Follows(p[i].bucket, p[i - 1].bucket)
      /\ Len(p) >= 1 => \A x \in before : Follows(p[1].bucket, x)
      /\ ~overtaken => \A t \in wanted \cap Stored :
             Owed(t) => InBar(p, t) \/ (Len(p) = limit /\ Below(p, t))
  BY <1>5 DEF GoodPage
<1>7. limit \in Nat \ {0}
  BY <1>1, LimitFacts
<1>8. pages \in Seq(Seq(Bar)) /\ Len(pages) < MaxPages
  BY <1>1, <1>3 DEF RowsInv
<1>9. PICK g, h : g = Got /\ h = Got'
  OBVIOUS
<1>10. g \in Seq(Bar) /\ h = g \o p /\ pages' \in Seq(Seq(Bar))
  BY <1>3, <1>6, <1>8, <1>9, GotMore
<1>11. Len(g) \in Nat /\ h \in Seq(Bar) /\ Len(h) = Len(g) + Len(p)
  BY <1>6, <1>10
<1>12. ASSUME Len(p) = limit
       PROVE  /\ Len(p) \in 1 .. Len(p) /\ Last(p) = p[Len(p)] /\ Last(p).bucket \in Int
              /\ Aligned(Last(p).bucket) /\ h[Len(h)] = Last(p) /\ Len(h) >= 1
  <2>1. Len(p) \in 1 .. Len(p) /\ Last(p) = p[Len(p)]
    BY <1>6, <1>7, <1>12 DEF Last
  <2>2. p[Len(p)].bucket \in Int /\ Aligned(p[Len(p)].bucket)
    BY <1>6, <2>1
  <2>3. h[Len(h)] = p[Len(p)] /\ Len(h) >= 1
    BY <1>6, <1>10, <1>11, <2>1
  <2> QED
    BY <2>1, <2>2, <2>3
<1>13. Stored' = Stored /\ Archived' = Archived /\ Candles'
  BY <1>3 DEF Stored, Archived, Candles
<1>14. TypeOK'
  BY <1>1, <1>2, <1>6, <1>8, <1>12, AnswerType
<1>15. RowsInv'
  BY <1>3, <1>4, <1>10, <1>13 DEF RowsInv
<1>16. ClockInv'
  BY <1>1, <1>3, <1>13 DEF ClockInv
<1>17. SplitInv' /\ MergedInv'
  BY <1>1, <1>3, <1>4 DEF SplitInv, MergedInv, Candles, Aligned
<1>18. CursorInv'
  <2>1. CASE Len(p) = limit /\ at' = "idle" /\ before' = {Last(p).bucket}
    <3>1. PICK x \in Int : x = Last(p).bucket /\ Aligned(x) /\ h[Len(h)].bucket = x /\ Len(h) >= 1
      BY <1>12, <2>1
    <3>2. before' = {x} /\ Aligned(x) /\ Len(Got') >= 1 /\ Got'[Len(Got')].bucket = x
      BY ONLY <1>9, <2>1, <3>1, Zenon
    <3> QED
      BY <1>13, <3>2 DEF CursorInv, Aligned
  <2>2. CASE at' = "done"
    BY <1>13, <2>2 DEF CursorInv
  <2> QED
    BY <1>4, <2>1, <2>2
<1>19. PagesDescend'
  <2>1. \A i \in 2 .. Len(g) : Follows(g[i].bucket, g[i - 1].bucket)
    BY <1>1, <1>9 DEF PagesDescend, Follows, Candles
  <2>2. ASSUME Len(g) >= 1, Len(p) >= 1
        PROVE  Follows(p[1].bucket, g[Len(g)].bucket)
    <3>1. Got # <<>>
      BY <1>9, <2>2
    <3>2. pages # <<>>
      BY <3>1, FlattenNone DEF Got
    <3>3. PICK x \in Int : before = {x} /\ g[Len(g)].bucket = x
      BY <1>1, <1>3, <1>9, <3>2 DEF CursorInv
    <3>4. Follows(p[1].bucket, x)
      BY <1>6, <2>2, <3>3
    <3> QED
      BY ONLY <3>3, <3>4, Zenon
  <2>3. \A i \in 2 .. Len(h) : Follows(h[i].bucket, h[i - 1].bucket)
    BY <1>6, <1>10, <2>1, <2>2, SeriesGoesOn
  <2> QED
    BY <1>3, <1>9, <2>3 DEF PagesDescend, Follows
<1>20. NothingSkipped'
  <2>1. SUFFICES ASSUME ~overtaken, NEW t \in wanted \cap Stored, InRange(t, request),
                        at' = "done" \/ \E x \in before' : alignDown(t) >= x
                 PROVE  \E c \in ToSet(h) : c.bucket = alignDown(t) /\ t \in c.trades
    BY <1>3, <1>9, <1>13 DEF NothingSkipped
  <2>2. t \in Int
    BY <1>1, ArchivedFacts, FiniteInstants
  <2>3. alignDown(t) \in Int
    BY <2>2, CandleBounds
  <2>4. InBar(h, t)
    <3>1. CASE Owed(t)
      <4>1. InBar(p, t) \/ (Len(p) = limit /\ Below(p, t))
        BY <1>6, <2>1, <3>1
      <4>2. ASSUME Len(p) = limit, Below(p, t)
            PROVE  FALSE
        <5>1. Last(p).bucket > alignDown(t) /\ Last(p).bucket \in Int
          BY <1>12, <4>2 DEF Below
        <5>2. alignDown(t) >= Last(p).bucket
          BY <1>4, <2>1, <4>2
        <5> QED
          BY <2>3, <5>1, <5>2
      <4> QED
        BY <1>6, <1>10, <4>1, <4>2, JoinRows
    <3>2. CASE ~Owed(t)
      <4>1. PICK x \in before : ~(alignDown(t) < x)
        BY <2>1, <3>2 DEF Owed
      <4>2. x \in Int
        BY <1>1 DEF TypeOK
      <4>3. alignDown(t) >= x
        BY <2>3, <4>1, <4>2
      <4>4. \E c \in ToSet(g) : c.bucket = alignDown(t) /\ t \in c.trades
        BY <1>1, <1>9, <2>1, <4>1, <4>3 DEF NothingSkipped, Candles
      <4>5. InBar(g, t)
        BY <1>10, <4>4, GotBar
      <4> QED
        BY <1>6, <1>10, <4>5, JoinRows
    <3> QED
      BY <3>1, <3>2
  <2> QED
    BY <1>11, <2>4, GotBar
<1>21. TradesInv'
  BY <1>13 DEF TradesInv
<1> QED
  BY <1>14, <1>15, <1>16, <1>17, <1>18, <1>19, <1>20, <1>21 DEF Inv

LEMMA AnswerTrades ==
    ASSUME Inv, Answer, ~Candles
    PROVE  Inv'
<1>1. TypeOK /\ RowsInv /\ ClockInv /\ CursorInv /\ TradesInv
  BY DEF Inv
<1>2. PICK p : p = Page
  OBVIOUS
<1>3. /\ at = "cold" /\ at' = "done" /\ pages' = Append(pages, p) /\ merged' = <<>>
      /\ now' = now /\ live' = live /\ files' = files /\ moving' = moving
      /\ request' = request /\ inserts' = inserts /\ before' = before
      /\ split' = split /\ wanted' = wanted
      /\ steady' = steady /\ overtaken' = overtaken /\ failures' = failures
  BY <1>2 DEF Answer, queryFrame, stores, Candles
<1>4. p \in Seq(Int) /\ Len(p) <= limit
  BY <1>2, <1>3, TradePage
<1>5. pages \in Seq(Seq(Int)) /\ Len(pages) < MaxPages /\ pages = <<>>
  BY <1>1, <1>3 DEF RowsInv, TradesInv
<1>6. Stored' = Stored /\ Archived' = Archived /\ ~Candles' /\ need' = need /\ limit' = limit
  BY <1>3 DEF Stored, Archived, Candles, need, limit
<1>7. TypeOK'
  BY <1>1, <1>2, <1>4, <1>5, AnswerType
<1>8. RowsInv'
  <2>1. pages' \in Seq(Seq(Int))
    BY <1>3, <1>4, <1>5
  <2> QED
    BY <1>3, <1>6, <2>1 DEF RowsInv
<1>9. ClockInv'
  BY <1>1, <1>3, <1>6 DEF ClockInv
<1>10. SplitInv' /\ MergedInv' /\ CursorInv'
  BY <1>1, <1>3, <1>6 DEF SplitInv, MergedInv, CursorInv
<1>11. PagesDescend' /\ NothingSkipped'
  BY <1>6 DEF PagesDescend, NothingSkipped, Candles
<1>12. TradesInv'
  <2>1. ASSUME steady, SplitHolds
        PROVE  \E s : /\ Newest(s, {t \in Stored : InRange(t, request)}, need)
                      /\ pages' = <<SubSeq(s, request.offset + 1, Min({request.offset + limit, Len(s)}))>>
    <3>1. PICK s : /\ Newest(s, {t \in Stored : InRange(t, request)}, need)
                   /\ p = SubSeq(s, request.offset + 1, Min({request.offset + limit, Len(s)}))
      BY <1>2, <1>3, <2>1, TradePage
    <3>2. pages' = <<p>>
      BY <1>3, <1>5
    <3> QED
      BY <3>1, <3>2
  <2>2. SplitHolds' <=> SplitHolds
    BY <1>3, <1>6 DEF SplitHolds
  <2> QED
    BY <1>3, <1>6, <2>1, <2>2 DEF TradesInv
<1> QED
  BY <1>7, <1>8, <1>9, <1>10, <1>11, <1>12 DEF Inv

-----------------------------------------------------------------------------
(* The theorems.                                                           *)

LEMMA InitInv ==
    ASSUME Init
    PROVE  Inv
<1>1. PICK T \in Past, d \in 0 .. (Today - MaxAge) \div DayLen :
          /\ live = {t \in T : dayUTC(t) >= d}
          /\ files = [e \in Days |-> IF e < d THEN {t \in T : dayUTC(t) = e} ELSE {}]
  BY DEF Init
<1>2. /\ now = Today /\ moving = NoDay /\ request \in Asked /\ before = {} /\ at = "idle"
      /\ split = 0 /\ merged = <<>> /\ pages = <<>> /\ wanted = {}
      /\ steady = TRUE /\ overtaken = FALSE /\ inserts = 0 /\ failures = 0
  BY DEF Init
<1>3. T \subseteq 0 .. Today
  BY HistoryAssumption DEF HistoryAssumption
<1>4. \A t \in T : t \in Int /\ 0 <= t /\ t <= Today /\ t \in 0 .. MaxTime
  BY <1>3, ConstantFacts
<1>5. d \in Int /\ d <= dayUTC(now) /\ dayUTC(now) \in Int
  <2>1. Today - MaxAge \in Int /\ Today - MaxAge <= Today /\ Today \in Int
    BY ConstantFacts
  <2>2. dayUTC(Today - MaxAge) <= dayUTC(Today) /\ dayUTC(Today) \in Int /\ dayUTC(Today - MaxAge) \in Int
    BY <2>1, DayMonotone, DayBounds
  <2>3. d \in Int /\ d <= dayUTC(Today - MaxAge)
    BY <2>2 DEF dayUTC
  <2> QED
    BY <1>2, <2>2, <2>3
<1>6. \A e \in Days : e \in Int
  BY DaysFacts
<1>7. \A e \in Days : \A t \in files[e] : t \in T /\ dayUTC(t) = e /\ e < d
  BY <1>1
<1>8. TypeOK
  <2>1. now \in Today .. MaxTime /\ live \subseteq 0 .. MaxTime
    BY <1>1, <1>2, <1>4, ConstantFacts
  <2>2. files \in [Days -> SUBSET (0 .. MaxTime)]
    <3>1. \A e \in Days : (IF e < d THEN {t \in T : dayUTC(t) = e} ELSE {}) \in SUBSET (0 .. MaxTime)
      BY <1>4
    <3> QED
      BY <1>1, <3>1
  <2>3. \A e \in Days : \A t \in files[e] : dayUTC(t) = e
    BY <1>7
  <2>4. Cardinality(before) <= 1
    BY <1>2, FS_EmptySet
  <2>5. Len(merged) <= MaxLimit /\ Len(pages) <= MaxPages /\ \A p \in ToSet(pages) : Len(p) <= MaxLimit
    BY <1>2, ConstantFacts DEF ToSet
  <2>6. inserts \in 0 .. MaxInserts /\ failures \in 0 .. MaxFailures /\ split \in Int
    BY <1>2, ConstantFacts
  <2> QED
    BY <1>2, <2>1, <2>2, <2>3, <2>4, <2>5, <2>6 DEF TypeOK
<1>9. RowsInv
  BY <1>2 DEF RowsInv
<1>10. ClockInv
  <2>1. live \subseteq 0 .. now
    BY <1>1, <1>2, <1>3
  <2>2. ASSUME NEW e \in Days, files[e] # {}
        PROVE  e < d /\ e < dayUTC(now)
    <3>1. e < d
      BY <1>7, <2>2
    <3> QED
      BY <1>5, <1>6, <3>1
  <2>3. ASSUME NEW t \in live, NEW e \in Days, files[e] # {}, dayUTC(t) <= e
        PROVE  FALSE
    <3>1. dayUTC(t) >= d /\ dayUTC(t) \in Int
      BY <1>1, <1>4, DayBounds
    <3> QED
      BY <1>5, <1>6, <2>2, <2>3, <3>1
  <2> QED
    BY <1>2, <2>1, <2>2, <2>3 DEF ClockInv
<1>11. SplitInv
  <2>1. Aligned(0)
    BY ConstantFacts DEF Aligned, alignDown
  <2> QED
    BY <1>2, <2>1, ConstantFacts DEF SplitInv
<1>12. CursorInv /\ MergedInv
  BY <1>2 DEF CursorInv, MergedInv
<1>13. PagesDescend
  <2>1. Got = <<>>
    BY <1>2, FlattenNone DEF Got
  <2>2. Len(Got) = 0
    BY <2>1
  <2> QED
    BY <2>2 DEF PagesDescend
<1>14. NothingSkipped /\ TradesInv
  BY <1>2 DEF NothingSkipped, TradesInv
<1> QED
  BY <1>8, <1>9, <1>10, <1>11, <1>12, <1>13, <1>14 DEF Inv

LEMMA StutterInv ==
    ASSUME Inv, UNCHANGED vars
    PROVE  Inv'
<1>1. /\ now' = now /\ live' = live /\ files' = files /\ moving' = moving
      /\ request' = request /\ before' = before /\ at' = at /\ split' = split
      /\ merged' = merged /\ pages' = pages /\ wanted' = wanted
      /\ steady' = steady /\ overtaken' = overtaken /\ inserts' = inserts /\ failures' = failures
      /\ UNCHANGED storesFrame
  BY DEF vars, stores, client, storesFrame
<1>2. TypeOK /\ ClockInv /\ SplitInv /\ TradesInv /\ now \in Int
  BY ClockFacts DEF Inv
<1>3. /\ Stored' = Stored /\ Archived' = Archived /\ (SplitHolds' <=> SplitHolds)
      /\ limit' = limit /\ need' = need
  BY <1>1 DEF Stored, Archived, SplitHolds, limit, need
<1>4. TypeOK' /\ ClockInv'
  BY <1>1, <1>2, <1>3 DEF TypeOK, ClockInv
<1>5. SplitInv'
  BY <1>1, <1>2, <1>3 DEF SplitInv, Candles, Aligned
<1>6. TradesInv'
  BY <1>1, <1>2, <1>3 DEF TradesInv, Candles
<1>7. MergedInv' /\ NothingSkipped'
  BY <1>1, <1>2, <1>3, StoresKeepQuery
<1>8. RowsInv' /\ CursorInv' /\ PagesDescend'
  BY <1>1, StoresFrame
<1> QED
  BY <1>4, <1>5, <1>6, <1>7, <1>8 DEF Inv

LEMMA StepInv ==
    ASSUME Inv, [Next]_vars
    PROVE  Inv'
<1>1. CASE Tick
  BY <1>1, TickInv
<1>2. CASE Insert
  BY <1>2, InsertInv
<1>3. CASE CommitFile
  BY <1>3, CommitFileInv
<1>4. CASE DeleteRange
  BY <1>4, DeleteRangeInv
<1>5. CASE prune
  BY <1>5, PruneInv
<1>6. CASE rotate
  BY <1>6, RotateInv
<1>7. CASE Begin
  BY <1>7, BeginInv
<1>8. CASE ReadLive
  BY <1>8, ReadLiveInv
<1>9. CASE Answer
  BY <1>9, AnswerCandles, AnswerTrades
<1>10. CASE QueryFails
  BY <1>10, QueryFailsInv
<1>11. CASE UNCHANGED vars
  BY <1>11, StutterInv
<1> QED
  BY <1>1, <1>2, <1>3, <1>4, <1>5, <1>6, <1>7, <1>8, <1>9, <1>10, <1>11 DEF Next

\* Every reachable state satisfies the invariant: the boundary of a query
\* keeps parting the stores, and its rows keep what it owes.
THEOREM HistoryInvariant == Spec => []Inv
<1>1. Init => Inv
  BY InitInv
<1>2. Inv /\ [Next]_vars => Inv'
  BY StepInv
<1> QED
  BY <1>1, <1>2, PTL DEF Spec

\* Types, and no page is longer than the limit, whatever limit is asked for.
THEOREM HistoryTypes == Spec => []TypeOK
<1>1. Inv => TypeOK
  BY DEF Inv
<1> QED
  BY <1>1, HistoryInvariant, PTL

\* The pages a client follows by X-Next-Cursor form one series: buckets
\* descend strictly, and by exactly one interval with fill=zero.
THEOREM PagesFormOneSeries == Spec => []PagesDescend
<1>1. Inv => PagesDescend
  BY DEF Inv
<1> QED
  BY <1>1, HistoryInvariant, PTL

\* No bar is missed: a trade that stays stored is in its bar once the pages
\* have come down to it, unless the archiver overtook a query.
THEOREM NoBarSkipped == Spec => []NothingSkipped
<1>1. Inv => NothingSkipped
  BY DEF Inv
<1> QED
  BY <1>1, HistoryInvariant, PTL

\* The rows of T that have at least o and less than n newer ones are a page
\* that skips o of the n newest.
Ranked(T, o, n) == {t \in T : Cardinality(Newer(T, t)) \in o .. n - 1}

LEMMA PageByRank ==
    ASSUME NEW T \in SUBSET Int, IsFiniteSet(T), NEW n \in Nat, NEW s, Newest(s, T, n),
           NEW o \in Nat, NEW l \in Nat \ {0}, n <= o + l,
           NEW p, p = SubSeq(s, o + 1, Min({o + l, Len(s)}))
    PROVE  p = NewestFirst(Ranked(T, o, n))
<1>1. /\ s \in Seq(Int) /\ Len(s) \in Nat /\ Len(s) <= n
      /\ \A i, j \in 1 .. Len(s) : i < j => s[i] > s[j]
      /\ \A i \in 1 .. Len(s) : s[i] \in T
  BY DEF Newest
<1>2. /\ p \in Seq(Int) /\ Len(p) \in Nat
      /\ \A i \in 1 .. Len(p) : p[i] = s[o + i] /\ o + i \in 1 .. Len(s)
      /\ \A j \in 1 .. Len(s) : j > o /\ j <= o + l => j - o \in 1 .. Len(p)
  <2>1. Skips(p, s, o, l)
    BY ONLY <1>1, Skipped, o \in Nat, l \in Nat \ {0}, p = SubSeq(s, o + 1, Min({o + l, Len(s)}))
  <2> QED
    BY <2>1 DEF Skips
<1>3. PICK U : U = {t \in T : Cardinality(Newer(T, t)) \in o .. n - 1}
  OBVIOUS
<1>4. U \in SUBSET Int
  BY <1>3
<1>5. \A i \in 1 .. Len(s) : Cardinality(Newer(T, s[i])) = i - 1
  BY NewestRank
<1>6. ASSUME NEW i \in 1 .. Len(p)
      PROVE  p[i] \in U
  <2>1. PICK k \in 1 .. Len(s) : k = o + i /\ p[i] = s[k]
    BY <1>2
  <2>2. Cardinality(Newer(T, s[k])) = k - 1 /\ s[k] \in T
    BY <1>1, <1>5
  <2>3. k - 1 \in o .. n - 1
    BY <1>1, <2>1
  <2> QED
    BY <1>3, <2>1, <2>2, <2>3
<1>7. ASSUME NEW t \in U
      PROVE  \E i \in 1 .. Len(p) : p[i] = t
  <2>1. t \in T /\ Cardinality(Newer(T, t)) \in o .. n - 1
    BY <1>3
  <2>2. Cardinality(Newer(T, t)) < n
    BY <2>1
  <2>3. PICK j \in 1 .. Len(s) : s[j] = t
    BY <2>1, <2>2, NewestByRank
  <2>4. j - 1 \in o .. n - 1
    BY <1>5, <2>1, <2>3
  <2>5. j > o /\ j <= o + l
    BY <2>4
  <2>6. PICK i \in 1 .. Len(p) : i = j - o
    BY <1>2, <2>5
  <2>7. o + i = j
    BY <2>6
  <2> QED
    BY <1>2, <2>3, <2>6, <2>7
<1>8. ASSUME NEW i \in 1 .. Len(p), NEW j \in 1 .. Len(p), i < j
      PROVE  p[i] > p[j]
  <2>1. PICK a \in 1 .. Len(s) : a = o + i /\ p[i] = s[a]
    BY <1>2
  <2>2. PICK b \in 1 .. Len(s) : b = o + j /\ p[j] = s[b]
    BY <1>2
  <2>3. a < b
    BY <1>8, <2>1, <2>2
  <2>4. s[a] > s[b]
    BY <1>1, <2>3
  <2> QED
    BY <2>1, <2>2, <2>4
<1>9. p = NewestFirst(U)
  BY ONLY <1>2, <1>4, <1>6, <1>7, <1>8, WholeIsNewestFirst
<1> QED
  BY <1>3, <1>9 DEF Ranked

LEMMA TradePageStatic ==
    ASSUME Inv
    PROVE  TradePageExact
<1> DEFINE newer(t)  == {u \in Stored : u > t /\ InRange(u, request)}
           onPage(t) == InRange(t, request) /\ Cardinality(newer(t)) \in request.offset .. need - 1
<1>1. SUFFICES ASSUME request.kind = "trades", at = "done", steady, SplitHolds
               PROVE  Got = NewestFirst({t \in Stored : onPage(t)})
  BY DEF TradePageExact
<1>2. TypeOK /\ TradesInv /\ ~Candles
  BY <1>1 DEF Inv, Candles
<1>3. PICK T : T = {t \in Stored : InRange(t, request)}
  OBVIOUS
<1>4. PICK s : /\ Newest(s, T, need)
               /\ pages = <<SubSeq(s, request.offset + 1, Min({request.offset + limit, Len(s)}))>>
  BY <1>1, <1>2, <1>3 DEF TradesInv
<1>5. PICK p : p = SubSeq(s, request.offset + 1, Min({request.offset + limit, Len(s)}))
  OBVIOUS
<1>6. /\ need \in Nat /\ limit \in Nat \ {0} /\ request.offset \in Nat
      /\ need <= request.offset + limit
  BY <1>2, LimitFacts
<1>7. T \in SUBSET Int /\ IsFiniteSet(T)
  <2>1. T \in SUBSET (0 .. MaxTime)
    BY <1>2, <1>3, ArchivedFacts
  <2> QED
    BY <2>1, FiniteInstants
<1>8. p = NewestFirst({t \in T : Cardinality(Newer(T, t)) \in request.offset .. need - 1})
  <2>1. PICK n \in Nat, o \in Nat, l \in Nat \ {0} :
            n = need /\ o = request.offset /\ l = limit /\ n <= o + l
    BY <1>6
  <2>2. Newest(s, T, n) /\ p = SubSeq(s, o + 1, Min({o + l, Len(s)}))
    BY <1>4, <1>5, <2>1
  <2>a. n <= o + l
    BY <2>1
  <2>3. p = NewestFirst(Ranked(T, o, n))
    BY ONLY <1>7, <2>2, <2>a, PageByRank, n \in Nat, o \in Nat, l \in Nat \ {0}
  <2> QED
    BY <2>1, <2>3 DEF Ranked
<1>9. \A t : newer(t) = Newer(T, t)
  BY <1>3 DEF Newer
<1>10. {t \in Stored : onPage(t)} = {t \in T : Cardinality(Newer(T, t)) \in request.offset .. need - 1}
  BY <1>3, <1>9
<1>11. Got = p
  <2>1. p \in Seq(Int)
    <3>1. s \in Seq(Int)
      BY <1>4 DEF Newest
    <3>2. Skips(p, s, request.offset, limit)
      BY ONLY <1>5, <1>6, <3>1, Skipped
    <3> QED
      BY <3>2 DEF Skips
  <2>2. PICK z : z = <<>>
    OBVIOUS
  <2>3. z \in Seq(Seq(Int)) /\ Append(z, p) = <<p>> /\ z \o p = p
    BY <2>1, <2>2
  <2>4. FlattenSeq(Append(z, p)) = FlattenSeq(z) \o p
    BY ONLY <2>1, <2>3, FlattenAppend
  <2>5. FlattenSeq(z) = z
    BY <2>2, FlattenNone
  <2>6. pages = Append(z, p)
    BY <1>4, <1>5, <2>3
  <2> QED
    BY ONLY <2>3, <2>4, <2>5, <2>6 DEF Got
<1> QED
  BY <1>8, <1>10, <1>11

\* A page of trades is exactly what limit and offset ask for, if no store
\* changed under the query and its split holds: for day-files and rings of any
\* size.
THEOREM TradePageIsExact == Spec => []TradePageExact
<1>1. Inv => TradePageExact
  BY TradePageStatic
<1> QED
  BY <1>1, HistoryInvariant, PTL

=============================================================================
