----------------------------- MODULE EngineProofs -----------------------------
(***************************************************************************)
(* For any number of symbols, sectors, turns and rejected draws and any    *)
(* stress configuration: Gaussian never returns a value twice, no price    *)
(* moves twice by one shock, and what a Step is given is in range.         *)
(***************************************************************************)
EXTENDS Engine, FiniteSetTheorems, TLAPS

Calls == [pc : {"none", "take", "u", "v", "keep"}, u : Nat, v : Nat]

\* The draws a call of Gaussian has made and not yet given away.
Pending(c) == IF c.pc = "v" THEN {c.u} ELSE IF c.pc = "keep" THEN {c.u, c.v} ELSE {}

\* Every draw is in one place only: returned, the spare, or pending in one
\* call.
RngInv ==
    /\ draws \in Nat /\ spare \in 0 .. draws
    /\ call \in [Runners -> Calls]
    /\ given \subseteq 1 .. draws /\ spare \notin given
    /\ IsFiniteSet(given) /\ calls = Cardinality(given)
    /\ \A r \in Runners : /\ Pending(call[r]) \subseteq 1 .. draws
                          /\ Pending(call[r]) \cap (given \cup {spare}) = {}
                          /\ call[r].pc = "keep" => call[r].u # call[r].v
    /\ \A r, q \in Runners : r # q => Pending(call[r]) \cap Pending(call[q]) = {}

\* Idle and Called are calls without pending draws.
LEMMA NothingPending ==
    /\ Idle \in Calls /\ Pending(Idle) = {} /\ Idle.pc # "keep"
    /\ Called \in Calls /\ Pending(Called) = {} /\ Called.pc # "keep"
BY DEF Idle, Called, Calls, Pending

\* The caller goes on with no draw pending.
LEMMA ReturnsFacts ==
    ASSUME NEW r \in Runners, NEW x, Returns(r, x)
    PROVE  /\ given' = given \cup {x} /\ calls' = calls + 1
           /\ \E c \in {Idle, Called} : call' = [call EXCEPT ![r] = c]
BY DEF Returns, ControllerUses, ShocksUse, TickUses

\* A fresh value is counted.
LEMMA CountFresh ==
    ASSUME NEW S, IsFiniteSet(S), NEW x, x \notin S
    PROVE  IsFiniteSet(S \cup {x}) /\ Cardinality(S \cup {x}) = Cardinality(S) + 1
BY FS_AddElement

\* A step of Gaussian that returns a value.
LEMMA ReturnRng ==
    ASSUME RngInv, NEW r \in Runners, NEW x \in 1 .. draws, x \notin given,
           Returns(r, x), draws' = draws,
           spare' \in 0 .. draws, spare' \notin given \cup {x},
           \A q \in Runners \ {r} : Pending(call[q]) \cap {x, spare'} = {}
    PROVE  RngInv'
<1>1. PICK c \in {Idle, Called} : call' = [call EXCEPT ![r] = c]
  BY ReturnsFacts
<1>2. c \in Calls /\ Pending(c) = {} /\ c.pc # "keep"
  BY NothingPending
<1>3. call' \in [Runners -> Calls] /\ call'[r] = c /\ \A q \in Runners \ {r} : call'[q] = call[q]
  BY <1>1, <1>2 DEF RngInv
<1>4. given' = given \cup {x} /\ calls' = calls + 1
  BY ReturnsFacts
<1>5. IsFiniteSet(given') /\ calls' = Cardinality(given')
  BY <1>4, CountFresh DEF RngInv
<1>6. \A q \in Runners : /\ Pending(call'[q]) \subseteq 1 .. draws'
                         /\ Pending(call'[q]) \cap (given' \cup {spare'}) = {}
                         /\ call'[q].pc = "keep" => call'[q].u # call'[q].v
  <2> SUFFICES ASSUME NEW q \in Runners
               PROVE  /\ Pending(call'[q]) \subseteq 1 .. draws'
                      /\ Pending(call'[q]) \cap (given' \cup {spare'}) = {}
                      /\ call'[q].pc = "keep" => call'[q].u # call'[q].v
    OBVIOUS
  <2>1. CASE q = r
    BY <2>1, <1>2, <1>3
  <2>2. CASE q # r
    BY <2>2, <1>3, <1>4 DEF RngInv
  <2> QED
    BY <2>1, <2>2
<1>7. \A p, q \in Runners : p # q => Pending(call'[p]) \cap Pending(call'[q]) = {}
  <2> SUFFICES ASSUME NEW p \in Runners, NEW q \in Runners, p # q
               PROVE  Pending(call'[p]) \cap Pending(call'[q]) = {}
    OBVIOUS
  <2>1. CASE p = r \/ q = r
    BY <2>1, <1>2, <1>3
  <2>2. CASE p # r /\ q # r
    BY <2>2, <1>3 DEF RngInv
  <2> QED
    BY <2>1, <2>2
<1>8. given' \subseteq 1 .. draws' /\ spare' \notin given' /\ draws' \in Nat /\ spare' \in 0 .. draws'
  BY <1>4 DEF RngInv
<1> QED
  BY <1>3, <1>5, <1>6, <1>7, <1>8 DEF RngInv

\* A step that moves one call on, with at most one new draw.
LEMMA CallRng ==
    ASSUME RngInv, NEW r \in Runners, NEW c \in Calls, call' = [call EXCEPT ![r] = c],
           draws' \in {draws, draws + 1}, UNCHANGED <<spare, given, calls>>,
           \A d \in Pending(c) : d \in Pending(call[r]) \/ (d = draws + 1 /\ d = draws'),
           c.pc = "keep" => c.u # c.v
    PROVE  RngInv'
<1>1. call' \in [Runners -> Calls] /\ call'[r] = c /\ \A q \in Runners \ {r} : call'[q] = call[q]
  BY DEF RngInv
<1>2. draws \in Nat /\ draws' \in Nat /\ 1 .. draws \subseteq 1 .. draws' /\ draws + 1 \notin 1 .. draws
  BY DEF RngInv
<1>3. Pending(c) \subseteq 1 .. draws'
  BY <1>2 DEF RngInv
<1>4. Pending(c) \cap (given \cup {spare}) = {}
  BY <1>2 DEF RngInv
<1>5. \A q \in Runners \ {r} : Pending(c) \cap Pending(call[q]) = {}
  BY <1>2 DEF RngInv
<1>6. \A q \in Runners : /\ Pending(call'[q]) \subseteq 1 .. draws'
                         /\ Pending(call'[q]) \cap (given' \cup {spare'}) = {}
                         /\ call'[q].pc = "keep" => call'[q].u # call'[q].v
  <2> SUFFICES ASSUME NEW q \in Runners
               PROVE  /\ Pending(call'[q]) \subseteq 1 .. draws'
                      /\ Pending(call'[q]) \cap (given' \cup {spare'}) = {}
                      /\ call'[q].pc = "keep" => call'[q].u # call'[q].v
    OBVIOUS
  <2>1. CASE q = r
    BY <2>1, <1>1, <1>3, <1>4
  <2>2. CASE q # r
    BY <2>2, <1>1, <1>2 DEF RngInv
  <2> QED
    BY <2>1, <2>2
<1>7. \A p, q \in Runners : p # q => Pending(call'[p]) \cap Pending(call'[q]) = {}
  <2> SUFFICES ASSUME NEW p \in Runners, NEW q \in Runners, p # q
               PROVE  Pending(call'[p]) \cap Pending(call'[q]) = {}
    OBVIOUS
  <2>1. CASE p = r
    BY <2>1, <1>1, <1>5
  <2>2. CASE q = r
    BY <2>2, <1>1, <1>5
  <2>3. CASE p # r /\ q # r
    BY <2>3, <1>1 DEF RngInv
  <2> QED
    BY <2>1, <2>2, <2>3
<1>8. given' \subseteq 1 .. draws' /\ spare' \in 0 .. draws'
  BY <1>2 DEF RngInv
<1> QED
  BY <1>1, <1>2, <1>6, <1>7, <1>8 DEF RngInv

\* A call that only begins to draw has no draw pending.
LEMMA CallForU ==
    ASSUME NEW c \in Calls, NEW m, m = [c EXCEPT !.pc = "u"]
    PROVE  m \in Calls /\ Pending(m) = {} /\ m.pc # "keep"
<1>1. m = [pc |-> "u", u |-> c.u, v |-> c.v] /\ c.u \in Nat /\ c.v \in Nat
  BY DEF Calls
<1>2. m.pc = "u" /\ m \in Calls
  BY <1>1 DEF Calls
<1> QED
  BY <1>2 DEF Pending

\* A call that has drawn u.
LEMMA CallForV ==
    ASSUME NEW c \in Calls, NEW n \in Nat, NEW m, m = [c EXCEPT !.pc = "v", !.u = n]
    PROVE  m \in Calls /\ Pending(m) = {n} /\ m.pc # "keep"
<1>1. m = [pc |-> "v", u |-> n, v |-> c.v] /\ c.v \in Nat
  BY DEF Calls
<1>2. m.pc = "v" /\ m.u = n /\ m \in Calls
  BY <1>1 DEF Calls
<1> QED
  BY <1>2 DEF Pending

\* Each section of Gaussian keeps the draws apart.
LEMMA GaussianRng ==
    ASSUME RngInv, NEW r \in Runners, Gaussian(r)
    PROVE  RngInv'
<1> DEFINE c == call[r]
<1>1. c \in Calls /\ c.u \in Nat /\ c.v \in Nat /\ draws \in Nat
  BY DEF RngInv, Calls
<1>2. CASE TakeSpare(r)
  <2>1. spare \in 1 .. draws /\ spare \notin given /\ 0 \notin given
    BY <1>2 DEF TakeSpare, RngInv
  <2>2. spare' = 0 /\ draws' = draws /\ Returns(r, spare)
    BY <1>2 DEF TakeSpare
  <2>3. \A q \in Runners \ {r} : Pending(call[q]) \cap {spare, 0} = {}
    BY DEF RngInv
  <2> QED
    BY <1>1, <2>1, <2>2, <2>3, ReturnRng
<1>3. CASE NoSpare(r)
  <2>1. PICK n : n = [c EXCEPT !.pc = "u"]
    OBVIOUS
  <2>2. n \in Calls /\ Pending(n) = {} /\ n.pc # "keep"
    BY <1>1, <2>1, CallForU
  <2>3. call' = [call EXCEPT ![r] = n] /\ UNCHANGED <<draws, spare, given, calls>>
    BY <1>3, <2>1 DEF NoSpare, rng
  <2> QED
    BY <2>2, <2>3, CallRng
<1>4. CASE DrawU(r)
  <2>1. PICK n : n = [c EXCEPT !.pc = "v", !.u = draws + 1]
    OBVIOUS
  <2>2. draws + 1 \in Nat
    BY <1>1
  <2>3. n \in Calls /\ Pending(n) = {draws + 1} /\ n.pc # "keep"
    BY <1>1, <2>1, <2>2, CallForV
  <2>4. call' = [call EXCEPT ![r] = n] /\ draws' = draws + 1 /\ UNCHANGED <<spare, given, calls>>
    BY <1>4, <2>1 DEF DrawU
  <2> QED
    BY <2>3, <2>4, CallRng
<1>5. CASE DrawV(r)
  <2>1. PICK k, n : k = [c EXCEPT !.pc = "keep", !.v = draws + 1] /\ n = [c EXCEPT !.pc = "u"]
    OBVIOUS
  <2>2. draws + 1 \in Nat
    BY <1>1
  <2>3. k \in Calls /\ Pending(k) = {c.u, draws + 1} /\ k.u = c.u /\ k.v = draws + 1
    <3> HIDE DEF c
    <3>1. k = [pc |-> "keep", u |-> c.u, v |-> draws + 1]
      BY <1>1, <2>1 DEF Calls
    <3>2. k.pc = "keep" /\ k.u = c.u /\ k.v = draws + 1 /\ k \in Calls
      BY <1>1, <2>2, <3>1 DEF Calls
    <3> QED
      BY <3>2 DEF Pending
  <2>4. n \in Calls /\ Pending(n) = {} /\ n.pc # "keep"
    BY <1>1, <2>1, CallForU
  <2>5. Pending(c) = {c.u} /\ c.u \in 1 .. draws
    BY <1>5 DEF DrawV, Pending, RngInv
  <2>6. call' = [call EXCEPT ![r] = k] \/ call' = [call EXCEPT ![r] = n]
    BY <1>5, <2>1 DEF DrawV
  <2>7. draws' = draws + 1 /\ UNCHANGED <<spare, given, calls>>
    BY <1>5 DEF DrawV
  <2>8. c.u # draws + 1
    BY <1>1, <2>5
  <2>9. CASE call' = [call EXCEPT ![r] = k]
    BY <2>3, <2>5, <2>7, <2>8, <2>9, CallRng
  <2>10. CASE call' = [call EXCEPT ![r] = n]
    BY <2>4, <2>7, <2>10, CallRng
  <2> QED
    BY <2>6, <2>9, <2>10
<1>6. CASE KeepSpare(r)
  <2>1. spare' = c.v /\ draws' = draws /\ Returns(r, c.u)
    BY <1>6 DEF KeepSpare
  <2>2. Pending(c) = {c.u, c.v} /\ c.u # c.v
    BY <1>6 DEF KeepSpare, Pending, RngInv
  <2>3. {c.u, c.v} \subseteq 1 .. draws /\ c.u \notin given /\ c.v \notin given
    BY <2>2 DEF RngInv
  <2>4. \A q \in Runners \ {r} : Pending(call[q]) \cap {c.u, c.v} = {}
    BY <2>2 DEF RngInv
  <2> QED
    BY <1>1, <2>1, <2>2, <2>3, <2>4, ReturnRng
<1> QED
  BY <1>2, <1>3, <1>4, <1>5, <1>6 DEF Gaussian

\* So does every other step of a runner.
LEMMA RunnerRng ==
    ASSUME RngInv, [Next]_vars
    PROVE  RngInv'
<1>1. ASSUME NEW r \in Runners, NEW c \in {Idle, Called}, call' = [call EXCEPT ![r] = c],
             UNCHANGED rng
      PROVE  RngInv'
  <2>1. c \in Calls /\ Pending(c) = {} /\ c.pc # "keep"
    BY NothingPending
  <2> QED
    BY <1>1, <2>1, CallRng DEF rng
<1>2. CASE UNCHANGED <<rng, call>>
  BY <1>2 DEF rng, RngInv
<1>3. ASSUME NEW r \in Runners, Runner(r) PROVE RngInv'
  <2>1. CASE Wake(r)
    BY <2>1, <1>1 DEF Wake
  <2>2. CASE GenerateSectorShocks(r) \/ Tick(r)
    BY <2>2, <1>1 DEF GenerateSectorShocks, Tick
  <2>3. CASE Step(r) \/ StressTick
    BY <2>3, <1>2 DEF Step, StressTick
  <2> QED
    BY <1>3, <2>1, <2>2, <2>3, GaussianRng DEF Runner
<1> QED
  BY <1>2, <1>3 DEF Next, vars

\* Every draw stays in one place, whatever the runners do.
THEOREM DrawsStayApart == Spec => []RngInv
<1>1. Init => RngInv
  <2> SUFFICES ASSUME Init PROVE RngInv
    OBVIOUS
  <2>1. call = [r \in Runners |-> Idle] /\ given = {} /\ draws = 0 /\ spare = 0 /\ calls = 0
    BY DEF Init
  <2>2. IsFiniteSet(given) /\ calls = Cardinality(given)
    BY <2>1, FS_EmptySet
  <2> QED
    BY <2>1, <2>2, NothingPending DEF RngInv
<1> QED
  BY <1>1, RunnerRng, PTL DEF Spec

\* Gaussian never returns a value twice, for any number of callers and any
\* interleaving of its sections.
THEOREM DeviatesAreUsedOnce == Spec => []DeviatesOnce
<1>1. RngInv => DeviatesOnce
  BY DEF RngInv, DeviatesOnce
<1> QED
  BY <1>1, DrawsStayApart, PTL

-----------------------------------------------------------------------------
(* Shocks.  The lock is what keeps the shocks that a runner has stored from  *)
(* being half overwritten; that another runner overwrites them between the   *)
(* two sections does no harm, since it puts values there nobody has seen.    *)

\* The shock of sector i is a value that the price of r has not moved by.
Unseen(r, i) == sectorShocks[i] # 0 /\ sectorShocks[i] \notin seen[r]

ShockTypes ==
    /\ at \in [Runners -> Places]
    /\ todo \in DOMAIN Sectors
    /\ sectorShocks \in [DOMAIN Sectors -> given \cup {0}]
    /\ seen \in [Runners -> SUBSET given]
    /\ ticks \in [Runners -> Nat]

\* Only one runner is inside a section, and a loop over the sectors starts at
\* the first.
OneInside ==
    /\ \A r \in Runners : at[r] \in {"shocks", "tick"} => lock = r
    /\ (\A r \in Runners : at[r] # "shocks") => todo = 1

\* What a runner has still to use is new to it, all that it has stored or, on
\* the way to Tick, the shock of every sector.
StillUnseen ==
    \A r \in Runners, i \in DOMAIN Sectors :
        /\ at[r] = "shocks" /\ i < todo => Unseen(r, i)
        /\ at[r] \in {"toTick", "tick"} => Unseen(r, i)

Counted == \A r \in Runners : IsFiniteSet(seen[r]) /\ Cardinality(seen[r]) = ticks[r]

ShockInv == ShockTypes /\ OneInside /\ StillUnseen /\ Counted

\* A sector's place in the sequence.
LEMMA SectorPlaces ==
    /\ Len(Sectors) \in Nat \ {0} /\ DOMAIN Sectors = 1 .. Len(Sectors)
    /\ \A r \in Runners : (CHOOSE i \in DOMAIN Sectors : Sectors[i] = SectorOf[r]) \in DOMAIN Sectors
BY EngineAssumption DEF EngineAssumption

\* A step that changes only where one runner is, outside of the sections.
LEMMA MoveShocks ==
    ASSUME ShockInv, NEW r \in Runners, NEW p \in {"idle", "controller", "spike", "toShocks"},
           at[r] \in {"idle", "controller", "spike", "step"},
           at' = [at EXCEPT ![r] = p],
           UNCHANGED market, given \subseteq given'
    PROVE  ShockInv'
<1>1. ShockTypes'
  BY DEF ShockInv, ShockTypes, Places, market
<1>2. \A q \in Runners : at'[q] \in {"shocks", "toTick", "tick"} => at'[q] = at[q]
  BY DEF ShockInv, ShockTypes
<1>3. \A q \in Runners : at[q] \in {"shocks"} => at'[q] = "shocks"
  BY DEF ShockInv, ShockTypes
<1>4. OneInside'
  BY <1>2, <1>3 DEF ShockInv, OneInside, market
<1>5. StillUnseen'
  BY <1>2 DEF ShockInv, StillUnseen, Unseen, market
<1>6. Counted'
  BY DEF ShockInv, Counted, market
<1> QED
  BY <1>1, <1>4, <1>5, <1>6 DEF ShockInv

\* A runner enters one of the sections.
LEMMA EnterShocks ==
    ASSUME ShockInv, NEW r \in Runners, GenerateSectorShocks(r) \/ Tick(r)
    PROVE  ShockInv'
<1>1. PICK p \in {"shocks", "tick"} :
          at' = [at EXCEPT ![r] = p] /\ (p = "tick" => at[r] = "toTick")
  BY DEF GenerateSectorShocks, Tick
<1>2. /\ lock = Nobody /\ lock' = r /\ at[r] \in {"toShocks", "toTick"}
      /\ UNCHANGED <<given, sectorShocks, todo, ticks, seen>>
  BY DEF GenerateSectorShocks, Tick, rng
<1>3. \A q \in Runners : at[q] \notin {"shocks", "tick"}
  BY <1>2, EngineAssumption DEF EngineAssumption, ShockInv, OneInside
<1>4. todo = 1
  BY <1>3 DEF ShockInv, OneInside
<1>5. at'[r] = p /\ \A q \in Runners \ {r} : at'[q] = at[q]
  BY <1>1 DEF ShockInv, ShockTypes
<1>6. ShockTypes'
  BY <1>1, <1>2 DEF ShockInv, ShockTypes, Places
<1>7. OneInside'
  BY <1>2, <1>3, <1>4, <1>5 DEF OneInside
<1>8. StillUnseen'
  <2> SUFFICES ASSUME NEW q \in Runners, NEW i \in DOMAIN Sectors,
                      (at'[q] = "shocks" /\ i < todo) \/ at'[q] \in {"toTick", "tick"}
               PROVE  Unseen(q, i)
    BY <1>2 DEF StillUnseen, Unseen
  <2>1. ~(i < todo)
    BY <1>4, SectorPlaces
  <2>2. at[q] = "toTick"
    BY <2>1, <1>1, <1>3, <1>5
  <2> QED
    BY <2>2 DEF ShockInv, StillUnseen
<1>9. Counted'
  BY <1>2 DEF ShockInv, Counted
<1> QED
  BY <1>6, <1>7, <1>8, <1>9 DEF ShockInv

\* GenerateSectorShocks stores a value that nobody has seen.
LEMMA StoreShock ==
    ASSUME ShockInv, NEW r \in Runners, NEW x, x # 0, x \notin given,
           ShocksUse(r, x), given' = given \cup {x}
    PROVE  ShockInv'
<1>1. /\ at[r] = "shocks" /\ lock = r /\ sectorShocks' = [sectorShocks EXCEPT ![todo] = x]
      /\ UNCHANGED <<ticks, seen>>
  BY DEF ShocksUse, ShockInv, OneInside
<1>2. \A q \in Runners \ {r} : at[q] \notin {"shocks", "tick"}
  BY <1>1 DEF ShockInv, OneInside
<1>3. todo \in DOMAIN Sectors /\ todo \in Nat /\ Len(Sectors) \in Nat
  BY SectorPlaces DEF ShockInv, ShockTypes
<1>4. /\ sectorShocks'[todo] = x
      /\ \A i \in DOMAIN Sectors : i # todo => sectorShocks'[i] = sectorShocks[i]
  BY <1>1, <1>3 DEF ShockInv, ShockTypes
<1>5. \A q \in Runners : x \notin seen[q]
  BY DEF ShockInv, ShockTypes
<1>6. \A q \in Runners, i \in DOMAIN Sectors : Unseen(q, i) \/ i = todo => Unseen(q, i)'
  BY <1>1, <1>4, <1>5 DEF Unseen
<1>7. Counted'
  BY <1>1 DEF ShockInv, Counted
<1>8. CASE todo < Len(Sectors)
  <2>1. todo' = todo + 1 /\ at' = at /\ lock' = lock
    BY <1>8 DEF ShocksUse
  <2>2. todo' \in DOMAIN Sectors
    BY <1>3, <1>8, <2>1, SectorPlaces
  <2>3. ShockTypes'
    BY <1>1, <2>1, <2>2 DEF ShockInv, ShockTypes
  <2>4. OneInside'
    BY <1>1, <2>1 DEF ShockInv, OneInside
  <2>5. StillUnseen'
    <3> SUFFICES ASSUME NEW q \in Runners, NEW i \in DOMAIN Sectors,
                        (at[q] = "shocks" /\ i < todo + 1) \/ at[q] \in {"toTick", "tick"}
                 PROVE  Unseen(q, i)'
      BY <2>1 DEF StillUnseen
    <3>1. i < todo + 1 => i < todo \/ i = todo
      BY <1>3, SectorPlaces
    <3> QED
      BY <1>6, <3>1 DEF ShockInv, StillUnseen
  <2> QED
    BY <1>7, <2>3, <2>4, <2>5 DEF ShockInv
<1>9. CASE ~(todo < Len(Sectors))
  <2>1. todo' = 1 /\ at' = [at EXCEPT ![r] = "toTick"]
    BY <1>9 DEF ShocksUse
  <2>2. at'[r] = "toTick" /\ \A q \in Runners \ {r} : at'[q] = at[q]
    BY <2>1 DEF ShockInv, ShockTypes
  <2>3. ShockTypes'
    BY <1>1, <2>1, SectorPlaces DEF ShockInv, ShockTypes, Places
  <2>4. OneInside'
    BY <1>2, <2>1, <2>2 DEF OneInside
  <2>5. \A i \in DOMAIN Sectors : i < todo \/ i = todo
    BY <1>3, <1>9, SectorPlaces
  <2>6. StillUnseen'
    <3> SUFFICES ASSUME NEW q \in Runners, NEW i \in DOMAIN Sectors,
                        at'[q] \in {"shocks", "toTick", "tick"}
                 PROVE  Unseen(q, i)'
      BY DEF StillUnseen
    <3>1. CASE q = r
      BY <1>1, <1>6, <2>5, <3>1 DEF ShockInv, StillUnseen
    <3>2. CASE q # r
      BY <1>2, <1>6, <2>2, <3>2 DEF ShockInv, StillUnseen
    <3> QED
      BY <3>1, <3>2
  <2> QED
    BY <1>7, <2>3, <2>4, <2>6 DEF ShockInv
<1> QED
  BY <1>8, <1>9

\* Tick moves the price by the shock of its sector, which it has not seen.
LEMMA UseShock ==
    ASSUME ShockInv, NEW r \in Runners, NEW x, TickUses(r, x), given' = given \cup {x}
    PROVE  ShockInv'
<1>1. /\ at[r] = "tick" /\ lock = r /\ at' = [at EXCEPT ![r] = "step"]
      /\ ticks' = [ticks EXCEPT ![r] = @ + 1]
      /\ seen' = [seen EXCEPT ![r] = @ \cup {ShockOf(r)}]
      /\ UNCHANGED <<sectorShocks, todo>>
  BY DEF TickUses, ShockInv, OneInside
<1>2. at'[r] = "step" /\ \A q \in Runners \ {r} : at'[q] = at[q] /\ at[q] \notin {"shocks", "tick"}
  BY <1>1 DEF ShockInv, ShockTypes, OneInside
<1>3. PICK i \in DOMAIN Sectors : ShockOf(r) = sectorShocks[i]
  BY SectorPlaces DEF ShockOf
<1>4. ShockOf(r) # 0 /\ ShockOf(r) \notin seen[r]
  BY <1>1, <1>3 DEF ShockInv, StillUnseen, Unseen
<1>5. ShockOf(r) \in given
  BY <1>3, <1>4 DEF ShockInv, ShockTypes
<1>6. /\ seen'[r] = seen[r] \cup {ShockOf(r)} /\ ticks'[r] = ticks[r] + 1
      /\ \A q \in Runners \ {r} : seen'[q] = seen[q] /\ ticks'[q] = ticks[q]
  BY <1>1 DEF ShockInv, ShockTypes
<1>7. ShockTypes'
  BY <1>1, <1>5 DEF ShockInv, ShockTypes, Places
<1>8. OneInside'
  <2>1. todo = 1
    BY <1>1, <1>2 DEF ShockInv, OneInside
  <2> QED
    BY <1>1, <1>2, <2>1 DEF OneInside
<1>9. StillUnseen'
  BY <1>1, <1>2, <1>6 DEF ShockInv, StillUnseen, Unseen
<1>10. Counted'
  <2>1. IsFiniteSet(seen'[r]) /\ Cardinality(seen'[r]) = ticks'[r]
    BY <1>4, <1>6, CountFresh DEF ShockInv, Counted
  <2> QED
    BY <1>6, <2>1 DEF ShockInv, Counted
<1> QED
  BY <1>7, <1>8, <1>9, <1>10 DEF ShockInv

\* What a call of Gaussian returns is new.
LEMMA ReturnShocks ==
    ASSUME ShockInv, NEW r \in Runners, NEW x, x # 0, x \notin given, Returns(r, x)
    PROVE  ShockInv'
<1>1. given' = given \cup {x}
  BY DEF Returns
<1>2. CASE ControllerUses(r, x)
  BY <1>1, <1>2, MoveShocks DEF ControllerUses
<1> QED
  BY <1>1, <1>2, StoreShock, UseShock DEF Returns

\* Every step keeps what the runners have still to use unseen.
LEMMA RunnerShocks ==
    ASSUME RngInv, ShockInv, [Next]_vars
    PROVE  ShockInv'
<1>1. CASE UNCHANGED <<market, at, given>>
  BY <1>1 DEF market, ShockInv, ShockTypes, OneInside, StillUnseen, Unseen, Counted
<1>2. ASSUME NEW r \in Runners, Gaussian(r) PROVE ShockInv'
  <2>1. CASE TakeSpare(r)
    BY <2>1, ReturnShocks DEF TakeSpare, RngInv
  <2>2. CASE KeepSpare(r)
    <3>1. call[r].u \in Pending(call[r]) /\ Returns(r, call[r].u)
      BY <2>2 DEF KeepSpare, Pending
    <3>2. call[r].u \in 1 .. draws /\ call[r].u \notin given
      BY <3>1 DEF RngInv
    <3> QED
      BY <3>1, <3>2, ReturnShocks
  <2>3. CASE NoSpare(r) \/ DrawU(r) \/ DrawV(r)
    BY <1>1, <2>3 DEF NoSpare, DrawU, DrawV, rng
  <2> QED
    BY <1>2, <2>1, <2>2, <2>3 DEF Gaussian
<1>3. ASSUME NEW r \in Runners, Wake(r) PROVE ShockInv'
  BY <1>3, MoveShocks DEF Wake, rng
<1>4. ASSUME NEW r \in Runners, Step(r) PROVE ShockInv'
  BY <1>4, MoveShocks DEF Step, rng
<1>5. CASE StressTick
  <2>1. Blitz \in Runners
    BY DEF Runners
  <2> QED
    BY <1>5, <2>1, MoveShocks DEF StressTick, rng
<1> QED
  BY <1>1, <1>2, <1>3, <1>4, <1>5, EnterShocks DEF Next, Runner, vars, rng

\* A price never moves twice by the same sector shock, nor by none, however
\* many runners regenerate the shocks between a runner's two sections.
THEOREM ShocksAreFresh == Spec => []FreshShocks
<1>1. Init => ShockInv
  <2> SUFFICES ASSUME Init PROVE ShockInv
    OBVIOUS
  <2>1. ShockTypes
    BY SectorPlaces DEF Init, ShockTypes, Places
  <2>2. OneInside /\ StillUnseen
    BY DEF Init, OneInside, StillUnseen
  <2>3. Counted
    BY FS_EmptySet DEF Init, Counted
  <2> QED
    BY <2>1, <2>2, <2>3 DEF ShockInv
<1>2. RngInv /\ ShockInv => FreshShocks
  <2> SUFFICES ASSUME RngInv, ShockInv, NEW r \in Runners
               PROVE  Cardinality(seen[r]) = ticks[r] /\ 0 \notin seen[r]
    BY DEF FreshShocks
  <2>1. seen[r] \subseteq given /\ 0 \notin given
    BY DEF RngInv, ShockInv, ShockTypes
  <2> QED
    BY <2>1 DEF ShockInv, Counted
<1> QED
  BY <1>1, <1>2, RunnerShocks, DrawsStayApart, PTL DEF Spec

-----------------------------------------------------------------------------
(* What the engine hands to a Step.                                          *)

InputInv ==
    /\ prices \in [Runners -> Nat \ {0}]
    /\ stress.phase \in Phases
    /\ stress.age \in Nat /\ stress.duration \in Nat
    /\ InputsInRange

\* The interval slides from max to min as the intensity goes from 0 to 1.
LEMMA IntervalInRange ==
    ASSUME NEW p \in Phases, NEW x \in 0 .. 10
    PROVE  Interval(p, x) \in StressConfig[p].min .. StressConfig[p].max
<1> DEFINE a == StressConfig[p].min
           b == StressConfig[p].max
<1>1. b \in Nat /\ a \in 1 .. b
  BY EngineAssumption DEF EngineAssumption
<1>2. Interval(p, x) = LET ms == (b * 10 - (b - a) * x) \div 10 IN IF ms < 1 THEN 1 ELSE ms
  BY DEF Interval
<1> HIDE DEF a, b
<1>3. (b - a) * x \in 0 .. (b - a) * 10
  <2>1. x \in {0, 1, 2, 3, 4, 5, 6, 7, 8, 9, 10}
    OBVIOUS
  <2> QED
    BY <1>1, <2>1
<1>4. PICK y \in Int : y = (b - a) * x
  BY <1>1
<1>5. (b * 10 - y) \div 10 \in a .. b
  BY <1>1, <1>3, <1>4
<1>6. Interval(p, x) = (b * 10 - y) \div 10
  BY <1>1, <1>2, <1>4, <1>5
<1> QED
  BY <1>5, <1>6 DEF a, b

\* The number of actions of a phase.
LEMMA ActionsInRange ==
    ASSUME NEW p \in Phases, NEW x \in 0 .. 10
    PROVE  NumActions(p, x) \in CASE p = "calm"   -> 1 .. 2
                                  [] p = "active" -> 3 .. 5
                                  [] p = "burst"  -> 5 .. 10
<1>1. CASE p = "calm"
  BY <1>1 DEF NumActions
<1>2. CASE p = "active"
  BY <1>2 DEF NumActions
<1>3. CASE p = "burst"
  BY <1>3 DEF NumActions
<1> QED
  BY <1>1, <1>2, <1>3 DEF Phases

\* A tick of the controller ends a phase that has lasted and stays in range.
LEMMA StressInputs ==
    ASSUME InputInv, StressTick
    PROVE  InputInv'
<1>1. PICK raw \in RawIntensity, spike \in BOOLEAN, pause \in 0 .. MaxPause :
          LET intensity == IF spike THEN 10 ELSE Clamp(raw)
              elapsed   == stress.age + pause
              over      == elapsed >= stress.duration
              phase     == IF over THEN updatePhase(intensity) ELSE stress.phase
          IN  \E d \in IF over THEN Lasts[phase] ELSE {stress.duration} :
                  stress' = [phase |-> phase, age |-> IF over THEN 0 ELSE elapsed,
                             duration |-> d, intensity |-> intensity,
                             interval |-> Interval(phase, intensity),
                             numActions |-> NumActions(phase, intensity)]
  BY DEF StressTick
<1> DEFINE x       == IF spike THEN 10 ELSE Clamp(raw)
           elapsed == stress.age + pause
           over    == elapsed >= stress.duration
           p       == IF over THEN updatePhase(x) ELSE stress.phase
<1>2. PICK d \in IF over THEN Lasts[p] ELSE {stress.duration} :
          stress' = [phase |-> p, age |-> IF over THEN 0 ELSE elapsed, duration |-> d,
                     intensity |-> x, interval |-> Interval(p, x), numActions |-> NumActions(p, x)]
  BY <1>1
<1>3. x \in 0 .. 10
  BY EngineAssumption DEF EngineAssumption, Clamp
<1>4. p \in Phases
  BY DEF updatePhase, Phases, InputInv
<1>5. elapsed \in Nat /\ stress.duration \in Nat
  BY EngineAssumption DEF EngineAssumption, InputInv
<1>6. d \in Nat /\ (over => d > 0)
  BY <1>4, <1>5, EngineAssumption DEF EngineAssumption
<1>7. /\ (IF over THEN 0 ELSE elapsed) \in Nat
      /\ (IF over THEN 0 ELSE elapsed) < d
  BY <1>2, <1>5, <1>6
<1>8. /\ stress'.phase = p /\ stress'.age = (IF over THEN 0 ELSE elapsed) /\ stress'.duration = d
      /\ stress'.interval = Interval(p, x) /\ stress'.numActions = NumActions(p, x)
  BY <1>2
<1> HIDE DEF x, p, over, elapsed
<1>9. prices' = prices
  BY DEF StressTick, market
<1>10. (stress.interval \in StressConfig[stress.phase].min .. StressConfig[stress.phase].max)'
  BY <1>3, <1>4, <1>8, IntervalInRange
<1>11. (stress.numActions \in CASE stress.phase = "calm"   -> 1 .. 2
                                [] stress.phase = "active" -> 3 .. 5
                                [] stress.phase = "burst"  -> 5 .. 10)'
  BY <1>3, <1>4, <1>8, ActionsInRange
<1>12. (stress.phase \in Phases /\ stress.age \in Nat /\ stress.duration \in Nat
        /\ stress.age < stress.duration)'
  BY <1>4, <1>6, <1>7, <1>8
<1>13. (prices \in [Runners -> Nat \ {0}] /\ \A r \in Runners : prices[r] >= 1)'
  BY <1>9 DEF InputInv
<1> QED
  BY <1>10, <1>11, <1>12, <1>13 DEF InputInv, InputsInRange

\* A price stays at one tick at least.
LEMMA PriceInputs ==
    ASSUME InputInv, NEW r \in Runners, NEW x, TickUses(r, x), stress' = stress
    PROVE  InputInv'
<1>1. PICK price \in 0 .. MaxPrice : prices' = [prices EXCEPT ![r] = Floored(price)]
  BY DEF TickUses
<1>2. Floored(price) \in Nat \ {0}
  BY EngineAssumption DEF Floored
<1>3. prices' \in [Runners -> Nat \ {0}]
  BY <1>1, <1>2 DEF InputInv
<1>4. \A q \in Runners : prices'[q] >= 1
  BY <1>3
<1> QED
  BY <1>3, <1>4, Zenon DEF InputInv, InputsInRange

\* Only the two ticks change what is handed on.
LEMMA RunnerInputs ==
    ASSUME InputInv, [Next]_vars
    PROVE  InputInv'
<1>1. CASE UNCHANGED <<prices, stress>>
  BY <1>1 DEF InputInv, InputsInRange
<1>2. ASSUME NEW r \in Runners, NEW x, Returns(r, x) PROVE InputInv'
  <2>1. CASE ControllerUses(r, x) \/ ShocksUse(r, x)
    BY <1>1, <1>2, <2>1 DEF Returns, ControllerUses, ShocksUse, market
  <2> QED
    BY <1>2, <2>1, PriceInputs DEF Returns
<1>3. ASSUME NEW r \in Runners, Gaussian(r) PROVE InputInv'
  <2>1. CASE NoSpare(r) \/ DrawU(r) \/ DrawV(r)
    BY <1>1, <2>1 DEF NoSpare, DrawU, DrawV, market
  <2> QED
    BY <1>2, <1>3, <2>1 DEF Gaussian, TakeSpare, KeepSpare
<1>4. ASSUME NEW r \in Runners, Wake(r) \/ GenerateSectorShocks(r) \/ Tick(r) \/ Step(r)
      PROVE  InputInv'
  BY <1>1, <1>4 DEF Wake, GenerateSectorShocks, Tick, Step, market
<1> QED
  BY <1>1, <1>3, <1>4, StressInputs DEF Next, Runner, vars, market

\* For any stress configuration and any prices, what a Step is given is in
\* the range that the simulator is built for.
THEOREM StepInputsInRange == Spec => []InputsInRange
<1>1. Init => InputInv
  <2> SUFFICES ASSUME Init PROVE InputInv
    OBVIOUS
  <2>1. PICK d \in Lasts["calm"] :
            stress = [phase |-> "calm", age |-> 0, duration |-> d, intensity |-> 0,
                      interval |-> StressConfig["calm"].max, numActions |-> 1]
    BY DEF Init
  <2>2. "calm" \in Phases /\ d \in Nat /\ d > 0
    BY EngineAssumption DEF EngineAssumption, Phases
  <2>3. StressConfig["calm"].max \in StressConfig["calm"].min .. StressConfig["calm"].max
    BY <2>2, EngineAssumption DEF EngineAssumption
  <2>4. prices \in [Runners -> Nat \ {0}] /\ \A r \in Runners : prices[r] >= 1
    BY DEF Init
  <2>5. /\ stress.phase = "calm" /\ stress.age = 0 /\ stress.duration = d
        /\ stress.interval = StressConfig["calm"].max /\ stress.numActions = 1
    BY <2>1
  <2> QED
    BY <2>2, <2>3, <2>4, <2>5 DEF InputInv, InputsInRange
<1>2. InputInv => InputsInRange
  BY DEF InputInv
<1> QED
  BY <1>1, <1>2, RunnerInputs, PTL DEF Spec
=============================================================================
