----------------------------- MODULE ArchiveProofs -----------------------------
(***************************************************************************)
(* For days, ages, delays and intervals of any length: types, that the     *)
(* archiver loses no trade, that its cursor leaves none behind, that       *)
(* retention deletes nothing it still needs, and that rotate removes the   *)
(* oldest files, as many as it must.                                       *)
(***************************************************************************)
EXTENDS Archive, FiniteSetTheorems, WellFoundedInduction, TLAPS

-----------------------------------------------------------------------------
(* Days.                                                                   *)

\* A day and the instants in it.
LEMMA DayBounds ==
    ASSUME NEW t \in Int
    PROVE  /\ dayUTC(t) \in Int
           /\ DayLen * dayUTC(t) <= t /\ t < DayLen * dayUTC(t) + DayLen
BY ArchiveAssumption DEF ArchiveAssumption, dayUTC

LEMMA DayMonotone ==
    ASSUME NEW t \in Int, NEW u \in Int, t <= u
    PROVE  dayUTC(t) <= dayUTC(u)
<1> DEFINE a == dayUTC(t)
           b == dayUTC(u)
<1>1. a \in Int /\ b \in Int /\ DayLen * a <= t /\ u < DayLen * b + DayLen /\ DayLen \in Nat \ {0}
  BY DayBounds, ArchiveAssumption DEF ArchiveAssumption
<1> HIDE DEF a, b
<1>2. DayLen * a < DayLen * (b + 1)
  BY <1>1
<1>3. a < b + 1
  BY <1>1, <1>2
<1> QED
  BY <1>1, <1>3 DEF a, b

\* A day later.
LEMMA DayLater ==
    ASSUME NEW t \in Int, NEW u \in Int, t + DayLen <= u
    PROVE  dayUTC(t) < dayUTC(u)
<1> DEFINE a == dayUTC(t)
           b == dayUTC(u)
<1>1. a \in Int /\ b \in Int /\ DayLen * a <= t /\ u < DayLen * b + DayLen /\ DayLen \in Nat \ {0}
  BY DayBounds, ArchiveAssumption DEF ArchiveAssumption
<1> HIDE DEF a, b
<1>2. DayLen * a < DayLen * b
  BY <1>1
<1>3. a < b
  BY <1>1, <1>2
<1> QED
  BY <1>1, <1>3 DEF a, b

\* The first day is day 0.
LEMMA DayNat ==
    ASSUME NEW t \in Nat
    PROVE  dayUTC(t) \in Nat
<1>1. dayUTC(0) = 0
  BY ArchiveAssumption DEF ArchiveAssumption, dayUTC
<1>2. dayUTC(0) <= dayUTC(t) /\ dayUTC(t) \in Int
  BY DayMonotone, DayBounds
<1> QED
  BY <1>1, <1>2

LEMMA DayInRange ==
    ASSUME NEW t \in Instants
    PROVE  dayUTC(t) \in Days
<1>1. t \in Nat /\ MaxTime \in Nat /\ t <= MaxTime
  BY ArchiveAssumption DEF ArchiveAssumption, Instants
<1> QED
  BY <1>1, DayNat, DayMonotone DEF Days
-----------------------------------------------------------------------------
(* The invariant.                                                          *)

\* Where a day is old enough: the cutoff of a cycle that begins now.
Cutoff == dayUTC(now - MaxAge)

\* Trades are stamped with the clock, an INSERT ends within MaxDelay, and
\* there are no more than MaxTrades.
TradesInv ==
    /\ live \subseteq saved
    /\ \A t \in stamped \cup saved : t <= now
    /\ \A t \in stamped : now <= t + MaxDelay
    /\ Cardinality(stamped \cup saved) <= MaxTrades

\* A cycle works on days that are old enough.
CycleInv ==
    /\ at # "idle" => up /\ cutoffDay <= Cutoff
    /\ at \in {"commit", "delete", "cursor"} => day < cutoffDay
    /\ cursor <= dayUTC(now)

\* The days it has passed have no trade in the table.
PassedInv ==
    at \in {"loop", "commit", "delete", "cursor"} =>
        \A t \in live : dayUTC(t) >= day \/ dayUTC(t) >= cutoffDay

\* The rows of the day it works on, from the SELECT to the DELETE.
BatchInv ==
    /\ batch \subseteq saved
    /\ at = "commit" => /\ \A t \in batch : dayUTC(t) = day
                        /\ RowsOf(day) \subseteq batch
                        /\ batch \subseteq live \cup pruned
                        /\ files[day] \subseteq batch \cup pruned
    /\ at = "delete" => files[day] = batch /\ RowsOf(day) \subseteq batch
    /\ at = "cursor" => RowsOf(day) = {}

\* A day-file is of a day that is old enough; while the day still has rows in
\* the table, the DELETE having failed, the file holds nothing else.
FilesInv ==
    \A d \in Days :
        /\ files[d] \subseteq saved
        /\ files[d] # {} => /\ d < Cutoff
                            /\ RowsOf(d) = {} \/ files[d] \subseteq live \cup pruned

Inv == /\ TypeOK /\ TradesInv /\ CycleInv /\ PassedInv /\ BatchInv /\ FilesInv
       /\ CursorPassesNothing /\ NothingVanishes


\* Facts the steps share.
LEMMA Clock ==
    ASSUME TypeOK
    PROVE  /\ now \in Nat /\ now <= MaxTime /\ MaxTime \in Nat /\ MaxAge \in Nat /\ MaxDelay \in Nat
           /\ MaxDelay <= MaxAge /\ Interval \in Nat \ {0} /\ DayLen \in Nat \ {0} /\ MaxTrades \in Nat
           /\ Cutoff \in Int /\ dayUTC(now) \in Days /\ Cutoff <= dayUTC(now) /\ dayUTC(now) \in Nat
           /\ dayUTC(MaxTime) \in Nat
<1>1. /\ now \in Nat /\ now <= MaxTime /\ MaxTime \in Nat /\ MaxAge \in Nat /\ MaxDelay \in Nat
      /\ MaxDelay <= MaxAge /\ Interval \in Nat \ {0} /\ DayLen \in Nat \ {0} /\ MaxTrades \in Nat
  BY ArchiveAssumption DEF ArchiveAssumption, TypeOK, Instants
<1>2. now - MaxAge \in Int /\ now \in Int /\ now - MaxAge <= now /\ now \in Instants
  BY <1>1 DEF Instants
<1>3. Cutoff \in Int /\ Cutoff <= dayUTC(now)
  BY <1>2, DayBounds, DayMonotone DEF Cutoff
<1>4. dayUTC(now) \in Days
  BY <1>2, DayInRange
<1>5. dayUTC(now) \in Nat /\ dayUTC(MaxTime) \in Nat
  BY <1>1, DayNat
<1> QED
  BY <1>1, <1>3, <1>4, <1>5

LEMMA InstantFacts ==
    ASSUME NEW t \in Instants
    PROVE  t \in Nat /\ dayUTC(t) \in Days /\ dayUTC(t) \in Nat
<1>1. t \in Nat
  BY ArchiveAssumption DEF ArchiveAssumption, Instants
<1> QED
  BY <1>1, DayInRange, DayNat

\* A trade that can still arrive is not of a day that is old enough.
LEMMA StampedYoung ==
    ASSUME TypeOK, TradesInv, NEW t \in stamped
    PROVE  dayUTC(t) >= Cutoff
<1>1. t \in Int /\ now - MaxAge \in Int /\ now - MaxAge <= t
  BY Clock, InstantFacts DEF TradesInv, TypeOK
<1> QED
  BY <1>1, DayMonotone, DayBounds DEF Cutoff

LEMMA FiniteTrades ==
    ASSUME NEW S \in SUBSET Instants
    PROVE  IsFiniteSet(S) /\ Cardinality(S) \in Nat
<1>1. IsFiniteSet(Instants)
  BY ArchiveAssumption, FS_Interval DEF ArchiveAssumption, Instants
<1> QED
  BY <1>1, FS_Subset, FS_CardinalityType

LEMMA BatchSize ==
    ASSUME TypeOK, TradesInv, BatchInv
    PROVE  Cardinality(batch) \in 0 .. MaxTrades
<1>1. stamped \cup saved \in SUBSET Instants /\ batch \in SUBSET (stamped \cup saved)
      /\ batch \in SUBSET Instants
  BY DEF TypeOK, BatchInv
<1>2. Cardinality(batch) <= Cardinality(stamped \cup saved)
  BY <1>1, FiniteTrades, FS_Subset
<1>3. Cardinality(batch) \in Nat /\ Cardinality(stamped \cup saved) \in Nat
  BY <1>1, FiniteTrades
<1> QED
  BY <1>2, <1>3, Clock DEF TradesInv

LEMMA EarliestTrade ==
    ASSUME TypeOK, live # {}
    PROVE  Min(live) \in live /\ \A t \in live : Min(live) <= t
<1>1. live \subseteq Nat
  BY InstantFacts DEF TypeOK
<1>2. \E x \in live : \A y \in live : ~(<<y, x>> \in OpToRel(<, Nat))
  BY <1>1, NatLessThanWellFounded, WFMin
<1>3. PICK x \in live : \A y \in live : ~(<<y, x>> \in OpToRel(<, Nat))
  BY <1>2
<1>4. \A y \in live : ~(y < x)
  BY <1>1, <1>3 DEF OpToRel
<1>5. \A y \in live : x <= y
  BY <1>1, <1>4
<1> QED
  BY <1>5 DEF Min

\* Init.
LEMMA InvInit == Init => Inv
<1> SUFFICES ASSUME Init PROVE Inv
  OBVIOUS
<1>1. MaxTime \in Nat /\ MaxTrades \in Nat /\ MaxFailures \in Nat
  BY ArchiveAssumption DEF ArchiveAssumption
<1>2. dayUTC(0) = 0 /\ dayUTC(MaxTime) \in Nat
  BY <1>1, ArchiveAssumption, DayNat DEF ArchiveAssumption, dayUTC
<1>3. TypeOK
  <2>1. 0 \in Instants /\ 0 \in Days /\ 0 \in 0 .. MaxFailures /\ 0 \in 0 .. MaxTrades
    BY <1>1, <1>2 DEF Instants, Days
  <2>2. up \in BOOLEAN /\ slow \in BOOLEAN
    BY DEF Init
  <2> QED
    BY <2>1, <2>2 DEF Init, TypeOK
<1>4. TradesInv
  BY <1>1, FS_EmptySet DEF Init, TradesInv
<1>5. CycleInv /\ PassedInv /\ BatchInv /\ FilesInv /\ CursorPassesNothing /\ NothingVanishes
  BY <1>2 DEF Init, CycleInv, PassedInv, BatchInv, FilesInv, CursorPassesNothing, NothingVanishes, NoDay
<1> QED
  BY <1>3, <1>4, <1>5 DEF Inv

\* Time and the process.
LEMMA InvTick == ASSUME Inv, Tick PROVE Inv'
<1>1. TypeOK /\ TradesInv /\ CycleInv /\ FilesInv
  BY DEF Inv
<1>2. /\ now' = now + 1 /\ now < MaxTime /\ UNCHANGED <<up, stamped, live, files, tmp, cursor, at, due, cutoffDay,
                                      day, batch, saved, pruned, rotated, failures>>
      /\ slow' = (slow \/ at # "idle")
  BY DEF Tick, disk, archiver
<1>3. TypeOK'
  BY <1>1, <1>2, Clock DEF TypeOK, Instants
<1>4. TradesInv'
  <2>1. \A t \in stamped \cup saved : t \in Nat
    BY <1>1, InstantFacts DEF TypeOK
  <2>2. \A t \in stamped : now + 1 <= t + MaxDelay
    BY <1>1, <2>1, Clock DEF Tick
  <2> QED
    BY <1>1, <1>2, <2>1, <2>2, Clock DEF TradesInv
<1>5. Cutoff \in Int /\ Cutoff' \in Int /\ Cutoff <= Cutoff' /\ dayUTC(now) <= dayUTC(now')
      /\ dayUTC(now) \in Int /\ dayUTC(now') \in Int
  <2>1. now - MaxAge \in Int /\ now' - MaxAge \in Int /\ now - MaxAge <= now' - MaxAge
        /\ now \in Int /\ now' \in Int /\ now <= now'
    BY <1>1, <1>2, Clock
  <2>2. Cutoff = dayUTC(now - MaxAge) /\ Cutoff' = dayUTC(now' - MaxAge)
    BY DEF Cutoff, dayUTC
  <2> QED
    BY <2>1, <2>2, DayMonotone, DayBounds
<1>6. CycleInv'
  <2>1. dayUTC(now)' = dayUTC(now') /\ cursor \in Int /\ cutoffDay \in Int
    BY <1>1, Clock DEF dayUTC, TypeOK, Days, NoDay
  <2> QED
    BY <1>1, <1>2, <1>5, <2>1 DEF CycleInv
<1>7. PassedInv' /\ BatchInv' /\ CursorPassesNothing' /\ NothingVanishes'
  BY <1>2 DEF Inv, PassedInv, BatchInv, RowsOf, CursorPassesNothing, NothingVanishes, Stored, Archived, dayUTC
<1>8. FilesInv'
  <2>1. \A d \in Days : d < Cutoff => d < Cutoff'
    BY <1>5, Clock, <1>1 DEF Days
  <2>2. \A d \in Days : RowsOf(d)' = RowsOf(d)
    BY <1>2 DEF RowsOf
  <2> QED
    BY <1>1, <1>2, <2>1, <2>2 DEF FilesInv
<1> QED
  BY <1>3, <1>4, <1>6, <1>7, <1>8 DEF Inv

LEMMA InvStart == ASSUME Inv, Start PROVE Inv'
<1>1. UNCHANGED <<now, stamped, live, files, tmp, cursor, at, cutoffDay, day, batch, saved, pruned, rotated,
                  slow, failures>> /\ up' = TRUE /\ due' = now
  BY DEF Start, disk, history
<1>2. TypeOK'
  BY <1>1, Clock DEF Inv, TypeOK
<1>3. TradesInv' /\ PassedInv' /\ BatchInv' /\ CursorPassesNothing' /\ NothingVanishes'
  BY <1>1 DEF Inv, TradesInv, PassedInv, BatchInv, RowsOf, CursorPassesNothing, NothingVanishes,
              Stored, Archived, dayUTC
<1>4. CycleInv' /\ FilesInv'
  BY <1>1 DEF Inv, CycleInv, FilesInv, RowsOf, Cutoff, dayUTC
<1> QED
  BY <1>2, <1>3, <1>4 DEF Inv

LEMMA InvCrash == ASSUME Inv, Crash PROVE Inv'
<1>1. /\ UNCHANGED <<now, live, files, cursor, due, saved, pruned, rotated, slow>>
      /\ stamped' = {} /\ at' = "idle" /\ batch' = {} /\ cutoffDay' = 0 /\ day' = 0 /\ up' = FALSE
      /\ failures' = failures + 1 /\ failures < MaxFailures
  BY DEF Crash, Fault, history
<1>2. PICK n \in 0 .. Cardinality(batch) : tmp' = IF at = "commit" THEN [tmp EXCEPT ![day] = n] ELSE tmp
  BY DEF Crash
<1>3. n \in 0 .. MaxTrades
  BY <1>2, BatchSize, Clock DEF Inv
<1>4. tmp' \in [Days -> 0 .. MaxTrades]
  BY <1>2, <1>3 DEF Inv, TypeOK
<1>5. 0 \in Days /\ failures' \in 0 .. MaxFailures
  BY <1>1, Clock, ArchiveAssumption DEF Inv, TypeOK, Days, ArchiveAssumption
<1>6. TypeOK'
  <2>1. up' \in BOOLEAN /\ slow' \in BOOLEAN
    BY <1>1 DEF Inv, TypeOK
  <2> QED
    BY <1>1, <1>4, <1>5, <2>1 DEF Inv, TypeOK
<1>7. TradesInv'
  <2>1. stamped \cup saved \in SUBSET Instants /\ saved \in SUBSET (stamped \cup saved)
        /\ saved \in SUBSET Instants
    BY DEF Inv, TypeOK
  <2>2. Cardinality(saved) <= Cardinality(stamped \cup saved) /\ Cardinality(saved) \in Nat
        /\ Cardinality(stamped \cup saved) \in Nat
    BY <2>1, FiniteTrades, FS_Subset
  <2>3. stamped' \cup saved' = saved
    BY <1>1
  <2>4. Cardinality(stamped' \cup saved') <= MaxTrades
    BY <2>2, <2>3, Clock DEF Inv, TradesInv
  <2> QED
    BY <1>1, <2>4 DEF Inv, TradesInv
<1>8. CycleInv' /\ PassedInv' /\ BatchInv'
  BY <1>1 DEF Inv, CycleInv, PassedInv, BatchInv, dayUTC
<1>9. FilesInv' /\ CursorPassesNothing' /\ NothingVanishes'
  BY <1>1 DEF Inv, FilesInv, RowsOf, CursorPassesNothing, NothingVanishes, Stored, Archived, Cutoff, dayUTC
<1> QED
  BY <1>6, <1>7, <1>8, <1>9 DEF Inv

\* The trade writers.
LEMMA InvSave == ASSUME Inv, SaveTrade PROVE Inv'
<1>1. /\ UNCHANGED <<now, up, live, files, tmp, cursor, at, due, cutoffDay, day, batch, saved, pruned, rotated,
                     slow, failures>>
      /\ stamped' = stamped \cup {now} /\ Cardinality(stamped \cup saved) < MaxTrades
  BY DEF SaveTrade, disk, archiver, history
<1>2. TypeOK'
  BY <1>1 DEF Inv, TypeOK
<1>3. TradesInv'
  <2>1. stamped \cup saved \in SUBSET Instants
    BY DEF Inv, TypeOK
  <2>2. Cardinality((stamped \cup saved) \cup {now}) <= Cardinality(stamped \cup saved) + 1
        /\ Cardinality((stamped \cup saved) \cup {now}) \in Nat
    <3>1. /\ IsFiniteSet((stamped \cup saved) \cup {now})
          /\ Cardinality((stamped \cup saved) \cup {now}) =
                 IF now \in stamped \cup saved THEN Cardinality(stamped \cup saved)
                                               ELSE Cardinality(stamped \cup saved) + 1
      BY <2>1, FiniteTrades, FS_AddElement
    <3> QED
      BY <2>1, <3>1, FiniteTrades
  <2>3. stamped' \cup saved' = (stamped \cup saved) \cup {now}
    BY <1>1
  <2>4. Cardinality(stamped' \cup saved') <= MaxTrades
    BY <1>1, <2>1, <2>2, <2>3, FiniteTrades, Clock DEF Inv
  <2>5. now <= now + MaxDelay /\ now <= now
    BY Clock DEF Inv
  <2> QED
    BY <1>1, <2>4, <2>5 DEF Inv, TradesInv
<1>4. CycleInv' /\ PassedInv' /\ BatchInv' /\ FilesInv' /\ NothingVanishes'
  BY <1>1 DEF Inv, CycleInv, PassedInv, BatchInv, FilesInv, RowsOf, NothingVanishes, Stored, Archived, Cutoff,
              dayUTC
<1>5. CursorPassesNothing'
  <2>1. dayUTC(now) >= cursor
    BY Clock DEF Inv, CycleInv, TypeOK, Days, NoDay
  <2> QED
    BY <1>1, <2>1 DEF Inv, CursorPassesNothing
<1> QED
  BY <1>2, <1>3, <1>4, <1>5 DEF Inv

LEMMA InvInsert == ASSUME Inv, Insert PROVE Inv'
<1>1. PICK t \in stamped : stamped' = stamped \ {t} /\ live' = live \cup {t} /\ saved' = saved \cup {t}
  BY DEF Insert
<1>2. UNCHANGED <<now, up, files, tmp, cursor, at, due, cutoffDay, day, batch, pruned, rotated, slow, failures>>
  BY DEF Insert, disk, archiver
<1>3. t \in Instants /\ dayUTC(t) >= Cutoff /\ dayUTC(t) \in Nat
  BY InstantFacts, StampedYoung DEF Inv, TypeOK
<1>4. TypeOK'
  BY <1>1, <1>2, <1>3 DEF Inv, TypeOK
<1>5. TradesInv'
  <2>1. stamped' \cup saved' = stamped \cup saved
    BY <1>1
  <2> QED
    BY <1>1, <1>2, <2>1 DEF Inv, TradesInv
<1>6. CycleInv'
  BY <1>2 DEF Inv, CycleInv, Cutoff, dayUTC
<1>7. \A d \in Days : d < Cutoff => RowsOf(d)' = RowsOf(d)
  BY <1>1, <1>3, Clock DEF RowsOf, Days, Inv
<1>8. at # "idle" => dayUTC(t) >= cutoffDay
  BY <1>3, Clock DEF Inv, CycleInv, TypeOK
<1>9. at \in {"commit", "delete", "cursor"} => RowsOf(day)' = RowsOf(day)
  <2>1. at \in {"commit", "delete", "cursor"} => day < Cutoff
    BY Clock DEF Inv, CycleInv, TypeOK, Days
  <2> QED
    BY <1>2, <1>7, <2>1 DEF Inv, TypeOK, RowsOf
<1>10. PassedInv'
  BY <1>1, <1>2, <1>8 DEF Inv, PassedInv
<1>11. BatchInv'
  BY <1>1, <1>2, <1>9 DEF Inv, BatchInv
<1>12. FilesInv'
  BY <1>1, <1>2, <1>7 DEF Inv, FilesInv, Cutoff, dayUTC
<1>13. CursorPassesNothing' /\ NothingVanishes'
  BY <1>1, <1>2 DEF Inv, CursorPassesNothing, NothingVanishes, Stored, Archived, dayUTC
<1> QED
  BY <1>4, <1>5, <1>6, <1>10, <1>11, <1>12, <1>13 DEF Inv

\* The pruner.
LEMMA InvPrune == ASSUME Inv, prune PROVE Inv'
<1> DEFINE old == {t \in live : t < now - Retention}
<1>1. live' = live \ old /\ pruned' = pruned \cup old
  BY DEF prune
<1>2. UNCHANGED <<now, up, stamped, files, tmp, cursor, at, due, cutoffDay, day, batch, saved, rotated, slow,
                  failures>>
  BY DEF prune, disk, archiver
<1>3. old \subseteq live /\ live' \subseteq live /\ live' \cup pruned' = live \cup pruned
  BY <1>1
<1> HIDE DEF old
<1>4. TypeOK'
  BY <1>1, <1>2, <1>3 DEF Inv, TypeOK, TradesInv
<1>5. \A d \in Days : RowsOf(d)' \subseteq RowsOf(d)
  BY <1>3 DEF RowsOf
<1>6. RowsOf(day)' \subseteq RowsOf(day)
  BY <1>2, <1>3 DEF RowsOf
<1>7. TradesInv' /\ PassedInv' /\ CursorPassesNothing'
  BY <1>2, <1>3 DEF Inv, TradesInv, PassedInv, CursorPassesNothing
<1>8. CycleInv'
  BY <1>2 DEF Inv, CycleInv, Cutoff, dayUTC
<1>9. BatchInv'
  BY <1>1, <1>2, <1>3, <1>6 DEF Inv, BatchInv
<1>10. FilesInv'
  BY <1>2, <1>3, <1>5 DEF Inv, FilesInv, Cutoff, dayUTC
<1>11. NothingVanishes'
  BY <1>2, <1>3 DEF Inv, NothingVanishes, Stored, Archived
<1> QED
  BY <1>4, <1>7, <1>8, <1>9, <1>10, <1>11 DEF Inv

\* The archiver.
LEMMA NextFiringType ==
    ASSUME TypeOK, due <= now
    PROVE  NextFiring \in Nat
<1> DEFINE q == (now - due) \div Interval
           a == due + Interval * (q + 1)
<1>1. now - due \in Nat /\ Interval \in Nat \ {0} /\ due \in Nat /\ MaxTime \in Nat
  BY Clock DEF TypeOK
<1>2. q \in Nat
  BY <1>1
<1> HIDE DEF q
<1>3. Interval * (q + 1) \in Nat
  BY <1>1, <1>2
<1>4. a \in Nat
  BY <1>1, <1>3
<1> HIDE DEF a
<1>5. {a, MaxTime} \in SUBSET Nat
  BY <1>1, <1>4
<1>6. \E x \in {a, MaxTime} : \A y \in {a, MaxTime} : x <= y
  <2>1. CASE a <= MaxTime
    BY <1>1, <1>4, <2>1
  <2>2. CASE MaxTime <= a
    BY <1>1, <1>4, <2>2
  <2> QED
    BY <1>1, <1>4, <2>1, <2>2
<1>7. Min({a, MaxTime}) \in {a, MaxTime}
  BY <1>6 DEF Min
<1> QED
  BY <1>5, <1>7 DEF NextFiring, a, q

LEMMA InvCycle == ASSUME Inv, cycle PROVE Inv'
<1>1. /\ UNCHANGED <<now, up, stamped, saved, pruned, slow, live, files, tmp, cursor, day, batch, rotated, failures>>
      /\ up /\ at = "idle" /\ due <= now /\ due' = NextFiring /\ cutoffDay' = Cutoff /\ at' = "start"
  BY DEF cycle, archiverFrame, disk, Cutoff, dayUTC
<1>2. TypeOK'
  BY <1>1, NextFiringType, Clock DEF Inv, TypeOK
<1>3. CycleInv'
  <2>1. Cutoff' = Cutoff /\ Cutoff \in Int
    BY <1>1, Clock DEF Inv, Cutoff, dayUTC
  <2> QED
    BY <1>1, <2>1 DEF Inv, CycleInv, dayUTC
<1>4. TradesInv' /\ PassedInv' /\ BatchInv' /\ FilesInv' /\ CursorPassesNothing' /\ NothingVanishes'
  BY <1>1 DEF Inv, TradesInv, PassedInv, BatchInv, FilesInv, RowsOf, CursorPassesNothing, NothingVanishes,
              Stored, Archived, Cutoff, dayUTC
<1> QED
  BY <1>2, <1>3, <1>4 DEF Inv

LEMMA InvStartDay == ASSUME Inv, startDay PROVE Inv'
<1>1. UNCHANGED <<now, up, stamped, saved, pruned, slow, live, files, tmp, cursor, due, cutoffDay, batch,
                  rotated, failures>> /\ at = "start" /\ at' \in {"idle", "loop"}
  BY DEF startDay, archiverFrame, disk
<1>2. day' \in Days /\ (at' = "loop" => \A t \in live : dayUTC(t) >= day')
  <2>1. CASE cursor # NoDay
    BY <2>1 DEF startDay, Inv, TypeOK, CursorPassesNothing
  <2>2. CASE cursor = NoDay /\ live = {}
    BY <2>2 DEF startDay, Inv, TypeOK
  <2>3. CASE cursor = NoDay /\ live # {}
    <3>1. Min(live) \in live /\ \A t \in live : Min(live) <= t
      BY <2>3, EarliestTrade DEF Inv
    <3>2. \A t \in live : t \in Instants /\ t \in Int /\ dayUTC(t) \in Days /\ dayUTC(t) \in Int
      BY InstantFacts DEF Inv, TypeOK
    <3>3. day' = dayUTC(Min(live))
      BY <2>3 DEF startDay
    <3> HIDE DEF Min
    <3>4. \A t \in live : dayUTC(Min(live)) <= dayUTC(t)
      BY <3>1, <3>2, DayMonotone
    <3> QED
      BY <3>1, <3>2, <3>3, <3>4
  <2> QED
    BY <2>1, <2>2, <2>3
<1>3. TypeOK'
  BY <1>1, <1>2 DEF Inv, TypeOK
<1>4. CycleInv' /\ PassedInv' /\ BatchInv'
  BY <1>1, <1>2 DEF Inv, CycleInv, PassedInv, BatchInv, Cutoff, dayUTC
<1>5. TradesInv' /\ FilesInv' /\ CursorPassesNothing' /\ NothingVanishes'
  BY <1>1 DEF Inv, TradesInv, FilesInv, RowsOf, CursorPassesNothing, NothingVanishes,
              Stored, Archived, Cutoff, dayUTC
<1> QED
  BY <1>3, <1>4, <1>5 DEF Inv

LEMMA InvSelect == ASSUME Inv, Select PROVE Inv'
<1>1. /\ UNCHANGED <<now, up, stamped, saved, pruned, slow, live, files, cursor, due, cutoffDay, day, rotated,
                     failures>>
      /\ at = "loop" /\ day < cutoffDay /\ batch' = RowsOf(day)
      /\ \/ batch' = {} /\ at' = "cursor" /\ tmp' = tmp
         \/ batch' # {} /\ at' = "commit" /\ tmp' = [tmp EXCEPT ![day] = 0]
  BY DEF Select, archiverFrame, disk
<1>2. RowsOf(day) \subseteq live /\ \A t \in RowsOf(day) : dayUTC(t) = day
  BY DEF RowsOf
<1>3. tmp' \in [Days -> 0 .. MaxTrades]
  BY <1>1, Clock DEF Inv, TypeOK
<1>4. TypeOK'
  BY <1>1, <1>2, <1>3 DEF Inv, TypeOK
<1>5. RowsOf(day)' = RowsOf(day)
  BY <1>1 DEF RowsOf
<1>6. BatchInv'
  <2>1. batch' \subseteq saved'
    BY <1>1, <1>2 DEF Inv, TradesInv
  <2>2. CASE at' = "cursor"
    BY <1>1, <1>5, <2>1, <2>2 DEF BatchInv
  <2>3. CASE at' = "commit"
    <3>1. RowsOf(day) # {} /\ day \in Days
      BY <1>1, <2>3 DEF Inv, TypeOK
    <3>2. files[day] \subseteq live \cup pruned /\ \A t \in files[day] : dayUTC(t) = day
      BY <3>1 DEF Inv, FilesInv, TypeOK
    <3>3. files[day] \subseteq RowsOf(day) \cup pruned
      BY <3>2 DEF RowsOf
    <3> QED
      BY <1>1, <1>2, <1>5, <2>1, <2>3, <3>3 DEF BatchInv
  <2> QED
    BY <1>1, <2>2, <2>3
<1>7. CycleInv' /\ PassedInv'
  BY <1>1 DEF Inv, CycleInv, PassedInv, Cutoff, dayUTC
<1>8. TradesInv' /\ FilesInv' /\ CursorPassesNothing' /\ NothingVanishes'
  BY <1>1 DEF Inv, TradesInv, FilesInv, RowsOf, CursorPassesNothing, NothingVanishes,
              Stored, Archived, Cutoff, dayUTC
<1> QED
  BY <1>4, <1>6, <1>7, <1>8 DEF Inv

LEMMA InvCommit == ASSUME Inv, CommitFile PROVE Inv'
<1>1. /\ UNCHANGED <<now, up, stamped, saved, pruned, slow, live, tmp, cursor, due, cutoffDay, day, batch, rotated,
                     failures>>
      /\ at = "commit" /\ at' = "delete" /\ files' = [files EXCEPT ![day] = batch]
  BY DEF CommitFile, archiverFrame
<1>2. /\ day \in Days /\ batch \subseteq Instants /\ batch \subseteq saved /\ RowsOf(day) \subseteq batch
      /\ batch \subseteq live \cup pruned /\ files[day] \subseteq batch \cup pruned
      /\ \A t \in batch : dayUTC(t) = day
  BY <1>1 DEF Inv, TypeOK, BatchInv
<1>3. /\ files' \in [Days -> SUBSET Instants] /\ files'[day] = batch
      /\ \A d \in Days \ {day} : files'[d] = files[d]
  BY <1>1, <1>2 DEF Inv, TypeOK
<1>4. TypeOK'
  BY <1>1, <1>2, <1>3 DEF Inv, TypeOK
<1>5. BatchInv'
  BY <1>1, <1>2, <1>3 DEF BatchInv, RowsOf
<1>6. FilesInv'
  <2>1. day < Cutoff
    BY <1>1, Clock DEF Inv, CycleInv, TypeOK, Days
  <2>2. \A d \in Days : RowsOf(d)' = RowsOf(d)
    BY <1>1 DEF RowsOf
  <2>3. Cutoff' = Cutoff
    BY <1>1 DEF Cutoff, dayUTC
  <2> QED
    BY <1>1, <1>2, <1>3, <2>1, <2>2, <2>3 DEF Inv, FilesInv
<1>7. NothingVanishes'
  <2>1. Archived \subseteq Archived' \cup pruned
    BY <1>2, <1>3 DEF Archived
  <2> QED
    BY <1>1, <2>1 DEF Inv, NothingVanishes, Stored
<1>8. CycleInv' /\ PassedInv' /\ TradesInv' /\ CursorPassesNothing'
  BY <1>1 DEF Inv, CycleInv, PassedInv, TradesInv, CursorPassesNothing, Cutoff, dayUTC
<1> QED
  BY <1>4, <1>5, <1>6, <1>7, <1>8 DEF Inv

LEMMA InvDelete == ASSUME Inv, DeleteRange PROVE Inv'
<1>1. /\ UNCHANGED <<now, up, stamped, saved, pruned, slow, files, tmp, cursor, due, cutoffDay, day, batch, rotated,
                     failures>>
      /\ at = "delete" /\ at' = "cursor" /\ live' = live \ RowsOf(day)
  BY DEF DeleteRange, archiverFrame, disk
<1>2. day \in Days /\ files[day] = batch /\ RowsOf(day) \subseteq files[day]
  BY <1>1 DEF Inv, TypeOK, BatchInv
<1>3. TypeOK'
  BY <1>1 DEF Inv, TypeOK
<1>4. RowsOf(day)' = {}
  BY <1>1 DEF RowsOf
<1>5. BatchInv'
  BY <1>1, <1>4 DEF Inv, BatchInv
<1>6. FilesInv'
  <2>1. SUFFICES ASSUME NEW d \in Days
                 PROVE  /\ files[d] \subseteq saved
                        /\ files[d] # {} => /\ d < Cutoff
                                            /\ RowsOf(d)' = {} \/ files[d] \subseteq live' \cup pruned
    BY <1>1 DEF FilesInv, Cutoff, dayUTC
  <2>2. CASE d = day
    BY <1>1, <1>4, <2>2 DEF Inv, FilesInv
  <2>3. CASE d # day
    <3>1. RowsOf(d)' = RowsOf(d)
      BY <1>1, <2>3 DEF RowsOf
    <3>2. \A t \in files[d] : t \notin RowsOf(day)
      BY <2>3 DEF Inv, TypeOK, RowsOf
    <3> QED
      BY <1>1, <3>1, <3>2 DEF Inv, FilesInv
  <2> QED
    BY <2>2, <2>3
<1>7. NothingVanishes'
  <2>1. RowsOf(day) \subseteq Archived /\ Archived' = Archived
    BY <1>1, <1>2 DEF Archived
  <2> QED
    BY <1>1, <2>1 DEF Inv, NothingVanishes, Stored
<1>8. CycleInv' /\ PassedInv' /\ TradesInv' /\ CursorPassesNothing'
  BY <1>1 DEF Inv, CycleInv, PassedInv, TradesInv, CursorPassesNothing, Cutoff, dayUTC
<1> QED
  BY <1>3, <1>5, <1>6, <1>7, <1>8 DEF Inv

LEMMA InvCursor == ASSUME Inv, saveCursor PROVE Inv'
<1>1. /\ UNCHANGED <<now, up, stamped, saved, pruned, slow, live, files, tmp, due, cutoffDay, rotated>>
      /\ at = "cursor" /\ at' = "loop" /\ day' = day + 1 /\ batch' = {}
      /\ cursor' = day + 1 \/ cursor' = cursor
      /\ failures' = failures \/ (failures < MaxFailures /\ failures' = failures + 1)
  BY DEF saveCursor, archiverFrame, disk, Fault
<1>2. /\ day \in Nat /\ day < cutoffDay /\ cutoffDay \in Int /\ cutoffDay <= Cutoff /\ Cutoff \in Int
      /\ Cutoff <= dayUTC(now) /\ dayUTC(now) \in Days /\ dayUTC(MaxTime) \in Nat
  BY <1>1, Clock DEF Inv, CycleInv, TypeOK, Days
<1>3. day + 1 \in Days /\ day + 1 <= cutoffDay /\ day + 1 <= dayUTC(now)
  BY <1>2 DEF Days
<1>4. failures' \in 0 .. MaxFailures
  BY <1>1, ArchiveAssumption DEF Inv, TypeOK, ArchiveAssumption
<1>5. TypeOK'
  BY <1>1, <1>3, <1>4 DEF Inv, TypeOK
<1>6. \A t \in live : dayUTC(t) \in Nat /\ (dayUTC(t) >= day + 1 \/ dayUTC(t) >= cutoffDay)
  <2>1. ASSUME NEW t \in live PROVE dayUTC(t) \in Nat /\ (dayUTC(t) >= day + 1 \/ dayUTC(t) >= cutoffDay)
    <3>1. dayUTC(t) \in Nat
      BY InstantFacts DEF Inv, TypeOK
    <3>2. dayUTC(t) # day
      BY <1>1 DEF Inv, BatchInv, RowsOf
    <3> QED
      BY <1>1, <1>2, <3>1, <3>2 DEF Inv, PassedInv
  <2> QED
    BY <2>1
<1>7. PassedInv'
  BY <1>1, <1>6 DEF PassedInv
<1>8. CursorPassesNothing'
  <2>1. \A t \in live : dayUTC(t) >= day + 1
    BY <1>2, <1>3, <1>6
  <2>2. \A t \in stamped : dayUTC(t) >= day + 1
    <3>1. \A t \in stamped : dayUTC(t) >= Cutoff /\ dayUTC(t) \in Nat
      BY StampedYoung, InstantFacts DEF Inv, TypeOK
    <3> QED
      BY <1>2, <1>3, <3>1
  <2> QED
    BY <1>1, <2>1, <2>2 DEF Inv, CursorPassesNothing
<1>9. CycleInv' /\ BatchInv'
  BY <1>1, <1>3 DEF Inv, CycleInv, BatchInv, Cutoff, dayUTC
<1>10. TradesInv' /\ FilesInv' /\ NothingVanishes'
  BY <1>1 DEF Inv, TradesInv, FilesInv, RowsOf, NothingVanishes, Stored, Archived, Cutoff, dayUTC
<1> QED
  BY <1>5, <1>7, <1>8, <1>9, <1>10 DEF Inv

LEMMA InvRotate == ASSUME Inv, rotate PROVE Inv'
<1>1. PICK stuck \in SUBSET Entries :
          LET gone == Removed(stuck)
              days == {e.day : e \in {f \in gone : f.part = 0}}
              left == {e.day : e \in {f \in gone : f.part = 1}}
          IN  /\ IF stuck = {} THEN UNCHANGED failures ELSE Fault
              /\ files' = [d \in Days |-> IF d \in days THEN {} ELSE files[d]]
              /\ tmp' = [d \in Days |-> IF d \in left THEN 0 ELSE tmp[d]]
              /\ rotated' = rotated \cup UNION {files[d] : d \in days}
  BY DEF rotate
<1> DEFINE gone == Removed(stuck)
           days == {e.day : e \in {f \in gone : f.part = 0}}
           left == {e.day : e \in {f \in gone : f.part = 1}}
<1>2. /\ failures' = failures \/ Fault
      /\ files' = [d \in Days |-> IF d \in days THEN {} ELSE files[d]]
      /\ tmp' = [d \in Days |-> IF d \in left THEN 0 ELSE tmp[d]]
      /\ rotated' = rotated \cup UNION {files[d] : d \in days}
  BY <1>1
<1>3. /\ UNCHANGED <<now, up, stamped, saved, pruned, slow, live, cursor, due, batch>>
      /\ at = "loop" /\ at' = "idle" /\ cutoffDay' = 0 /\ day' = 0
  BY DEF rotate, archiverFrame
<1>4. days \subseteq Days
  <2>1. \A e \in Entries : e.day \in Days
    BY DEF Entries
  <2>2. gone \subseteq Entries
    BY DEF Removed
  <2> QED
    BY <2>1, <2>2
<1> HIDE DEF days, left, gone
<1>5. \A d \in Days : files'[d] \subseteq files[d] /\ (files'[d] # {} => files'[d] = files[d])
  BY <1>2
<1>6. TypeOK'
  <2>1. files' \in [Days -> SUBSET Instants] /\ tmp' \in [Days -> 0 .. MaxTrades]
    BY <1>2, Clock DEF Inv, TypeOK
  <2>2. failures' \in 0 .. MaxFailures /\ 0 \in Days
    BY <1>2, ArchiveAssumption, Clock, SMTT(30) DEF Inv, TypeOK, ArchiveAssumption, Fault, Days
  <2>3. rotated' \subseteq saved'
    BY <1>2, <1>3, <1>4 DEF Inv, FilesInv, TypeOK
  <2> QED
    BY <1>3, <1>5, <2>1, <2>2, <2>3 DEF Inv, TypeOK
<1>7. FilesInv'
  BY <1>3, <1>5 DEF Inv, FilesInv, RowsOf, Cutoff, dayUTC
<1>8. NothingVanishes'
  <2>1. Archived \subseteq Archived' \cup rotated'
    BY <1>2 DEF Archived
  <2> QED
    BY <1>2, <1>3, <2>1 DEF Inv, NothingVanishes, Stored
<1>9. TradesInv' /\ CycleInv' /\ PassedInv' /\ BatchInv' /\ CursorPassesNothing'
  BY <1>3 DEF Inv, TradesInv, CycleInv, PassedInv, BatchInv, CursorPassesNothing, dayUTC
<1> QED
  BY <1>6, <1>7, <1>8, <1>9 DEF Inv

LEMMA InvFails == ASSUME Inv, cycleFails PROVE Inv'
<1>1. /\ UNCHANGED <<now, up, stamped, saved, pruned, slow, live, files, cursor, due, rotated>>
      /\ at' = "idle" /\ batch' = {} /\ cutoffDay' = 0 /\ day' = 0
      /\ failures < MaxFailures /\ failures' = failures + 1
  BY DEF cycleFails, archiverFrame, Fault
<1>2. PICK n \in {0, Cardinality(batch)} : tmp' = IF at = "commit" THEN [tmp EXCEPT ![day] = n] ELSE tmp
  BY DEF cycleFails
<1>3. n \in 0 .. MaxTrades
  BY <1>2, BatchSize, Clock DEF Inv
<1>4. tmp' \in [Days -> 0 .. MaxTrades]
  BY <1>2, <1>3 DEF Inv, TypeOK
<1>5. 0 \in Days /\ failures' \in 0 .. MaxFailures
  BY <1>1, Clock, ArchiveAssumption DEF Inv, TypeOK, Days, ArchiveAssumption
<1>6. TypeOK'
  BY <1>1, <1>4, <1>5 DEF Inv, TypeOK
<1>7. TradesInv' /\ CycleInv' /\ PassedInv' /\ BatchInv'
  BY <1>1 DEF Inv, TradesInv, CycleInv, PassedInv, BatchInv, dayUTC
<1>8. FilesInv' /\ CursorPassesNothing' /\ NothingVanishes'
  BY <1>1 DEF Inv, FilesInv, RowsOf, CursorPassesNothing, NothingVanishes, Stored, Archived, Cutoff, dayUTC
<1> QED
  BY <1>6, <1>7, <1>8 DEF Inv

LEMMA Invariance == Spec => []Inv
<1>1. ASSUME Inv, [Next]_vars PROVE Inv'
  <2>1. CASE UNCHANGED vars
    <3>1. UNCHANGED <<now, up, stamped, live, files, tmp, cursor, at, due, cutoffDay, day, batch, saved, pruned,
                      rotated, slow, failures>>
      BY <2>1 DEF vars, disk, archiver, history
    <3>2. TypeOK'
      BY <1>1, <3>1 DEF Inv, TypeOK
    <3>3. TradesInv' /\ CycleInv' /\ PassedInv' /\ BatchInv'
      BY <1>1, <3>1 DEF Inv, TradesInv, CycleInv, PassedInv, BatchInv, RowsOf, Cutoff, dayUTC
    <3>4. FilesInv' /\ CursorPassesNothing' /\ NothingVanishes'
      BY <1>1, <3>1 DEF Inv, FilesInv, RowsOf, CursorPassesNothing, NothingVanishes, Stored, Archived, Cutoff, dayUTC
    <3> QED
      BY <3>2, <3>3, <3>4 DEF Inv
  <2> QED
    BY <1>1, <2>1, InvTick, InvStart, InvCrash, InvSave, InvInsert, InvPrune, InvCycle, InvStartDay, InvSelect,
       InvCommit, InvDelete, InvCursor, InvRotate, InvFails DEF Next, Archiver
<1> QED
  BY <1>1, InvInit, PTL DEF Spec

\* Every variable has its type, and a day-file holds trades of its day only.
THEOREM TypeCorrect == Spec => []TypeOK
<1>1. Inv => TypeOK
  BY DEF Inv
<1> QED
  BY <1>1, Invariance, PTL

\* The archiver loses no trade, whatever fails between its SELECT, its rename
\* and its DELETE and whatever is inserted or pruned meanwhile.
THEOREM NoTradeVanishes == Spec => []NothingVanishes
<1>1. Inv => NothingVanishes
  BY DEF Inv
<1> QED
  BY <1>1, Invariance, PTL

\* The cursor passes no trade, in the table or on its way to it.
THEOREM CursorLeavesNothing == Spec => []CursorPassesNothing
<1>1. Inv => CursorPassesNothing
  BY DEF Inv
<1> QED
  BY <1>1, Invariance, PTL

-----------------------------------------------------------------------------
(* Retention and the archiver.                                             *)

\* Without failures and long cycles the archiver keeps its pace.
PaceInv ==
    failures = 0 /\ ~slow =>
        /\ ~up => live = {} /\ stamped = {}
        /\ up => due - Interval <= now /\ now <= due
        /\ up /\ at = "idle" => \A t \in live : dayUTC(t) >= dayUTC(due - Interval - MaxAge)
        /\ at # "idle" => /\ cutoffDay = Cutoff
                          /\ \A t \in live : dayUTC(t) >= dayUTC(now - Interval - MaxAge)

\* The ticker that fires in time fires next an interval later, or at the last
\* instant.
LEMMA NextFiringInTime ==
    ASSUME TypeOK, due = now
    PROVE  NextFiring \in Nat /\ NextFiring - Interval <= now /\ now <= NextFiring
<1>1. now \in Nat /\ now <= MaxTime /\ MaxTime \in Nat /\ Interval \in Nat \ {0}
  BY Clock
<1>2. (now - due) \div Interval = 0
  BY <1>1
<1>3. due + Interval * ((now - due) \div Interval + 1) = now + Interval
  BY <1>1, <1>2
<1>4. NextFiring = Min({now + Interval, MaxTime})
  BY <1>3 DEF NextFiring
<1>5. \E x \in {now + Interval, MaxTime} : \A y \in {now + Interval, MaxTime} : x <= y
  <2>1. CASE now + Interval <= MaxTime
    BY <1>1, <2>1
  <2>2. CASE MaxTime <= now + Interval
    BY <1>1, <2>2
  <2> QED
    BY <1>1, <2>1, <2>2
<1>6. /\ Min({now + Interval, MaxTime}) \in {now + Interval, MaxTime}
      /\ \A y \in {now + Interval, MaxTime} : Min({now + Interval, MaxTime}) <= y
  BY <1>5 DEF Min
<1> QED
  BY <1>1, <1>4, <1>6

\* A trade that arrives is young enough for the last cycle.
LEMMA StampedInPace ==
    ASSUME Inv, NEW t \in stamped, NEW n \in Int, n <= now
    PROVE  dayUTC(t) >= dayUTC(n - MaxAge)
<1>1. n - MaxAge \in Int /\ now - MaxAge \in Int /\ n - MaxAge <= now - MaxAge
  BY Clock DEF Inv
<1>2. dayUTC(n - MaxAge) <= Cutoff /\ dayUTC(n - MaxAge) \in Int /\ Cutoff \in Int
  BY <1>1, DayMonotone, DayBounds DEF Cutoff
<1>3. dayUTC(t) \in Nat /\ dayUTC(t) >= Cutoff
  BY StampedYoung, InstantFacts DEF Inv, TypeOK
<1> QED
  BY <1>2, <1>3

LEMMA PaceStep == ASSUME Inv, PaceInv, Next, failures' = 0, ~slow' PROVE PaceInv'
<1> DEFINE base(n) == dayUTC(n - Interval - MaxAge)
<1>1. /\ now \in Nat /\ now <= MaxTime /\ due \in Nat /\ Interval \in Nat \ {0} /\ MaxAge \in Nat /\ TypeOK
      /\ Interval \in Int /\ MaxAge \in Int /\ Cutoff \in Int /\ failures \in Nat
      /\ \A t \in live : dayUTC(t) \in Int
      /\ \A n \in Int : base(n) \in Int
  <2>1. /\ now \in Nat /\ now <= MaxTime /\ due \in Nat /\ Interval \in Nat \ {0} /\ MaxAge \in Nat /\ TypeOK
        /\ Cutoff \in Int /\ failures \in Nat
    BY Clock, ArchiveAssumption DEF Inv, TypeOK, ArchiveAssumption
  <2>2. \A t \in live : dayUTC(t) \in Int
    BY <2>1, InstantFacts DEF TypeOK
  <2>3. ASSUME NEW n \in Int PROVE base(n) \in Int
    <3>1. n - Interval - MaxAge \in Int
      BY <2>1
    <3> QED
      BY <3>1, DayBounds
  <2> QED
    BY <2>1, <2>2, <2>3
<1>2. CASE Tick
  <2>1. /\ now' = now + 1 /\ at = "idle" /\ failures = 0 /\ ~slow /\ (up => now < due)
        /\ UNCHANGED <<up, stamped, live, at, due>>
    BY <1>2 DEF Tick, archiver
  <2>2. /\ ~up => live = {} /\ stamped = {}
        /\ up => due - Interval <= now /\ now <= due
        /\ up => \A t \in live : dayUTC(t) >= base(due)
    BY <2>1 DEF PaceInv
  <2>3. up => due - Interval <= now' /\ now' <= due
    BY <1>1, <2>1, <2>2
  <2> QED
    BY <2>1, <2>2, <2>3 DEF PaceInv, dayUTC
<1>3. CASE Start
  <2>1. /\ ~up /\ up' /\ due' = now /\ failures = 0 /\ ~slow
        /\ UNCHANGED <<now, stamped, live, at, cutoffDay>>
    BY <1>3 DEF Start, history
  <2>2. live = {} /\ at = "idle"
    BY <2>1 DEF PaceInv, Inv, CycleInv
  <2>3. now - Interval <= now /\ now <= now
    BY <1>1
  <2> QED
    BY <2>1, <2>2, <2>3 DEF PaceInv
<1>4. CASE SaveTrade
  BY <1>4 DEF SaveTrade, PaceInv, archiver, history, Cutoff, dayUTC
<1>5. CASE Insert
  <2>1. PICK t \in stamped : stamped' = stamped \ {t} /\ live' = live \cup {t}
    BY <1>5 DEF Insert
  <2>2. UNCHANGED <<now, up, at, due, cutoffDay, slow, failures>>
    BY <1>5 DEF Insert, archiver
  <2>3. /\ up /\ due - Interval <= now /\ now <= due
        /\ at = "idle" => \A u \in live : dayUTC(u) >= base(due)
        /\ at # "idle" => cutoffDay = Cutoff /\ \A u \in live : dayUTC(u) >= base(now)
    BY <2>1, <2>2 DEF PaceInv
  <2>4. dayUTC(t) >= base(due) /\ dayUTC(t) >= base(now)
    <3>1. due - Interval \in Int /\ now - Interval \in Int /\ now - Interval <= now
      BY <1>1
    <3> QED
      BY <2>3, <3>1, StampedInPace
  <2> QED
    BY <2>1, <2>2, <2>3, <2>4 DEF PaceInv, Cutoff, dayUTC
<1>6. CASE prune
  <2>1. live' \subseteq live /\ UNCHANGED <<now, up, stamped, at, due, cutoffDay, slow, failures>>
    BY <1>6 DEF prune, archiver
  <2> QED
    BY <2>1 DEF PaceInv, Cutoff, dayUTC
<1>7. CASE cycle
  <2>1. /\ UNCHANGED <<now, up, stamped, slow, live, failures>>
        /\ up /\ at = "idle" /\ due <= now /\ due' = NextFiring /\ cutoffDay' = Cutoff /\ at' = "start"
    BY <1>7 DEF cycle, archiverFrame, Cutoff, dayUTC
  <2>2. now <= due /\ \A t \in live : dayUTC(t) >= base(due)
    BY <2>1 DEF PaceInv
  <2>3. due = now
    BY <1>1, <2>1, <2>2
  <2>4. due' - Interval <= now /\ now <= due'
    BY <1>1, <2>1, <2>3, NextFiringInTime
  <2>5. Cutoff' = Cutoff
    BY <2>1 DEF Cutoff, dayUTC
  <2> QED
    BY <2>1, <2>2, <2>3, <2>4, <2>5 DEF PaceInv, dayUTC
<1>8. CASE startDay
  <2>1. /\ UNCHANGED <<now, up, stamped, slow, live, failures, due, cutoffDay>> /\ at = "start"
        /\ at' = "loop" \/ (at' = "idle" /\ live = {})
    BY <1>8 DEF startDay, archiverFrame
  <2> QED
    BY <2>1 DEF PaceInv, Inv, CycleInv, Cutoff, dayUTC
<1>9. CASE Select \/ CommitFile \/ saveCursor
  <2>1. UNCHANGED <<now, up, stamped, slow, live, due, cutoffDay>> /\ at # "idle" /\ at' # "idle" /\ failures = 0
    BY <1>1, <1>9 DEF Select, CommitFile, saveCursor, archiverFrame, Fault
  <2> QED
    BY <2>1 DEF PaceInv, Cutoff, dayUTC
<1>10. CASE DeleteRange
  <2>1. /\ UNCHANGED <<now, up, stamped, slow, due, cutoffDay, failures>> /\ at # "idle" /\ at' # "idle"
        /\ live' \subseteq live
    BY <1>10 DEF DeleteRange, archiverFrame
  <2> QED
    BY <2>1 DEF PaceInv, Cutoff, dayUTC
<1>11. CASE rotate
  <2>1. /\ UNCHANGED <<now, up, stamped, slow, live, due>> /\ at = "loop" /\ at' = "idle" /\ ~(day < cutoffDay)
        /\ failures = 0
    <3>1. failures' = failures \/ failures' = failures + 1
      BY <1>11 DEF rotate, Fault
    <3>2. failures = 0
      BY <1>1, <3>1
    <3> QED
      BY <1>11, <3>2 DEF rotate, archiverFrame
  <2>2. up /\ cutoffDay = Cutoff /\ due - Interval <= now /\ now <= due
    BY <2>1 DEF PaceInv, Inv, CycleInv
  <2>3. \A t \in live : dayUTC(t) >= Cutoff
    <3>1. \A t \in live : dayUTC(t) >= day \/ dayUTC(t) >= cutoffDay
      BY <2>1 DEF Inv, PassedInv
    <3>2. day \in Int /\ cutoffDay \in Int
      BY <1>1, Clock DEF TypeOK, Days
    <3> QED
      BY <1>1, <2>1, <2>2, <3>1, <3>2
  <2>4. base(due) <= Cutoff
    <3>1. due - Interval - MaxAge \in Int /\ now - MaxAge \in Int /\ due - Interval - MaxAge <= now - MaxAge
      BY <1>1, <2>2
    <3> QED
      BY <3>1, DayMonotone DEF Cutoff
  <2>5. base(due) \in Int
    BY <1>1
  <2> HIDE DEF base
  <2>6. \A t \in live : dayUTC(t) >= base(due)
    BY <1>1, <2>3, <2>4, <2>5
  <2> QED
    BY <2>1, <2>2, <2>6 DEF PaceInv, base, dayUTC
<1>12. CASE Crash \/ cycleFails
  BY <1>1, <1>12 DEF Crash, cycleFails, Fault
<1> QED
  BY <1>2, <1>3, <1>4, <1>5, <1>6, <1>7, <1>8, <1>9, <1>10, <1>11, <1>12 DEF Next, Archiver

\* Retention that keeps trades for a day, the age at which a day is archived
\* and an interval of the ticker deletes nothing that is not in the archive,
\* as long as nothing fails and no cycle takes long.
THEOREM RetentionSparesArchive == Spec => PrunedAreArchived
<1>1. Init => PaceInv
  BY DEF Init, PaceInv
<1>2. ASSUME Inv, PaceInv, [Next]_vars PROVE PaceInv'
  <2>1. CASE UNCHANGED vars
    BY <1>2, <2>1 DEF vars, archiver, history, PaceInv, Cutoff, dayUTC
  <2>2. CASE ~(failures' = 0 /\ ~slow')
    BY <2>2 DEF PaceInv
  <2> QED
    BY <1>2, <2>1, <2>2, PaceStep
<1>3. ASSUME Inv, PaceInv, prune, Retention >= DayLen + MaxAge + Interval - 1, failures = 0, ~slow
      PROVE  FALSE
  <2>1. PICK t \in live : t < now - Retention
    BY <1>3 DEF prune
  <2>2. /\ t \in Nat /\ now \in Nat /\ due \in Nat /\ Interval \in Nat /\ MaxAge \in Nat /\ DayLen \in Nat
        /\ Retention \in Nat /\ up
    BY <1>3, InstantFacts, Clock, ArchiveAssumption DEF Inv, TypeOK, ArchiveAssumption, prune
  <2>3. t \in Int /\ now - Interval - MaxAge \in Int /\ due - Interval - MaxAge \in Int
        /\ t + DayLen <= now - Interval - MaxAge
    BY <1>3, <2>1, <2>2
  <2>4. dayUTC(t) < dayUTC(now - Interval - MaxAge)
    BY <2>3, DayLater
  <2>5. dayUTC(t) \in Int /\ dayUTC(now - Interval - MaxAge) \in Int /\ dayUTC(due - Interval - MaxAge) \in Int
    BY <2>3, DayBounds
  <2>6. CASE at = "idle"
    <3>1. now <= due /\ dayUTC(t) >= dayUTC(due - Interval - MaxAge)
      BY <1>3, <2>1, <2>2, <2>6 DEF PaceInv
    <3>2. now - Interval - MaxAge <= due - Interval - MaxAge
      BY <2>2, <3>1
    <3>3. dayUTC(now - Interval - MaxAge) <= dayUTC(due - Interval - MaxAge)
      BY <2>3, <3>2, DayMonotone
    <3> QED
      BY <2>4, <2>5, <3>1, <3>3
  <2>7. CASE at # "idle"
    BY <1>3, <2>1, <2>4, <2>5, <2>7 DEF PaceInv
  <2> QED
    BY <2>6, <2>7
<1>4. ASSUME Inv, PaceInv, [Next]_vars
      PROVE  [/\ Retention >= DayLen + MaxAge + Interval - 1
              /\ failures = 0 /\ ~slow
              => pruned' \ pruned \subseteq Archived \cup rotated]_vars
  <2>1. CASE prune
    BY <1>3, <1>4, <2>1
  <2>2. CASE ~prune
    <3>1. pruned' = pruned
      BY <1>4, <2>2 DEF Next, Tick, Start, Crash, SaveTrade, Insert, Archiver, cycle, startDay, Select,
         CommitFile, DeleteRange, saveCursor, rotate, cycleFails, archiverFrame, history, vars
    <3> QED
      BY <3>1
  <2> QED
    BY <2>1, <2>2
<1> QED
  BY <1>1, <1>2, <1>4, Invariance, PTL DEF Spec, PrunedAreArchived

-----------------------------------------------------------------------------
(* Sizes.  SizeOf adds up over disjoint sets of files and only grows with  *)
(* the set; rotate removes an initial segment of the files by age.         *)

\* The sets of files that rotate sees.
Sized(S) == IsFiniteSet(S) /\ \A e \in S : e.size \in Nat

Units(S) == UNION {{e} \X (1 .. e.size) : e \in S}

LEMMA UnitsIn ==
    ASSUME NEW S
    PROVE  \A u : u \in Units(S) <=> \E e \in S : \E i \in 1 .. e.size : u = <<e, i>>
BY DEF Units

LEMMA OneFile ==
    ASSUME NEW e, e.size \in Nat
    PROVE  /\ IsFiniteSet({e} \X (1 .. e.size))
           /\ Cardinality({e} \X (1 .. e.size)) = e.size
           /\ SizeOf({e}) = e.size
<1>1. IsFiniteSet({e}) /\ Cardinality({e}) = 1
  BY FS_Singleton
<1>2. IsFiniteSet(1 .. e.size) /\ Cardinality(1 .. e.size) = e.size
  BY FS_Interval
<1>3. /\ IsFiniteSet({e} \X (1 .. e.size))
      /\ Cardinality({e} \X (1 .. e.size)) = 1 * e.size
  <2> DEFINE A == {e}
             B == 1 .. e.size
  <2>1. IsFiniteSet(A) /\ IsFiniteSet(B) /\ Cardinality(A) = 1 /\ Cardinality(B) = e.size
    BY <1>1, <1>2
  <2> HIDE DEF A, B
  <2>2. IsFiniteSet(A \X B) /\ Cardinality(A \X B) = Cardinality(A) * Cardinality(B)
    BY ONLY <2>1, FS_Product, Zenon
  <2> QED
    BY <2>1, <2>2 DEF A, B
<1>4. UNION {{x} \X (1 .. x.size) : x \in {e}} = {e} \X (1 .. e.size)
  OBVIOUS
<1> QED
  BY <1>3, <1>4 DEF SizeOf

LEMMA UnitsFinite ==
    ASSUME NEW S, Sized(S)
    PROVE  IsFiniteSet(Units(S)) /\ SizeOf(S) = Cardinality(Units(S)) /\ SizeOf(S) \in Nat
<1> DEFINE T == {{e} \X (1 .. e.size) : e \in S}
<1>1. IsFiniteSet(T)
  <2> DEFINE f == [e \in S |-> {e} \X (1 .. e.size)]
  <2>1. f \in Surjection(S, T)
    BY DEF Surjection
  <2> HIDE DEF f, T
  <2> QED
    BY <2>1, FS_Surjection DEF Sized
<1>2. \A U \in T : IsFiniteSet(U)
  BY OneFile DEF Sized
<1> HIDE DEF T
<1>3. IsFiniteSet(UNION T)
  BY <1>1, <1>2, FS_UNION
<1> QED
  BY <1>3, FS_CardinalityType DEF Units, SizeOf, T

\* The sizes of two sets that share no file add up.
LEMMA SizesAdd ==
    ASSUME NEW S, NEW T, Sized(S), Sized(T), S \cap T = {}
    PROVE  SizeOf(S \cup T) = SizeOf(S) + SizeOf(T)
<1>1. Sized(S \cup T)
  BY FS_Union DEF Sized
<1>2. Units(S \cup T) = Units(S) \cup Units(T)
  BY DEF Units
<1>3. Units(S) \cap Units(T) = {}
  BY DEF Units
<1>4. IsFiniteSet(Units(S)) /\ IsFiniteSet(Units(T))
  BY UnitsFinite
<1>5. Cardinality(Units(S) \cup Units(T)) =
          Cardinality(Units(S)) + Cardinality(Units(T)) - Cardinality(Units(S) \cap Units(T))
  BY <1>4, FS_Union
<1>6. Cardinality(Units(S) \cap Units(T)) = 0
  BY <1>3, FS_EmptySet
<1>7. Cardinality(Units(S)) \in Nat /\ Cardinality(Units(T)) \in Nat
  BY <1>4, FS_CardinalityType
<1>8. SizeOf(S \cup T) = Cardinality(Units(S) \cup Units(T))
  BY <1>1, <1>2, UnitsFinite
<1>9. SizeOf(S) = Cardinality(Units(S)) /\ SizeOf(T) = Cardinality(Units(T))
  BY UnitsFinite
<1> QED
  BY <1>5, <1>6, <1>7, <1>8, <1>9

LEMMA SizesGrow ==
    ASSUME NEW S, Sized(S), NEW T \in SUBSET S
    PROVE  Sized(T) /\ SizeOf(T) <= SizeOf(S)
<1>1. Sized(T)
  BY FS_Subset DEF Sized
<1>2. Units(T) \subseteq Units(S)
  BY DEF Units
<1>3. Cardinality(Units(T)) <= Cardinality(Units(S))
  BY <1>2, UnitsFinite, FS_Subset
<1> QED
  BY <1>1, <1>3, UnitsFinite

\* The paths of files sort by day, and of one day the day-file comes first.
Aged(E) ==
    /\ \A e \in E : e.day \in Nat /\ e.part \in {0, 1}
    /\ \A e, f \in E : e.day = f.day /\ e.part = f.part => e = f

\* The files that go when none is stuck.
Excess(E) == {e \in E : SizeOf(E) - SizeOf({f \in E : Older(f, e)}) > MaxBytes}

\* A set of files has an oldest one.
LEMMA OldestFile ==
    ASSUME NEW E, Aged(E), E # {}
    PROVE  \E e \in E : \A f \in E : f = e \/ Older(e, f)
<1> DEFINE K == {2 * e.day + e.part : e \in E}
<1>1. K \subseteq Nat /\ K # {}
  BY DEF Aged
<1>2. \E x \in K : \A y \in K : ~(<<y, x>> \in OpToRel(<, Nat))
  <2> HIDE DEF K
  <2> QED
    BY <1>1, NatLessThanWellFounded, WFMin
<1>3. PICK x \in K : \A y \in K : ~(<<y, x>> \in OpToRel(<, Nat))
  BY <1>2
<1>4. \A y \in K : x <= y
  <2> HIDE DEF K
  <2>1. \A y \in K : ~(y < x)
    BY <1>1, <1>3 DEF OpToRel
  <2> QED
    BY <1>1, <2>1
<1>5. PICK e \in E : x = 2 * e.day + e.part
  OBVIOUS
<1>6. ASSUME NEW f \in E PROVE f = e \/ Older(e, f)
  <2>1. 2 * e.day + e.part <= 2 * f.day + f.part
    BY <1>4, <1>5
  <2>2. e.day \in Nat /\ f.day \in Nat /\ e.part \in {0, 1} /\ f.part \in {0, 1}
    BY DEF Aged
  <2>3. e.day < f.day \/ (e.day = f.day /\ e.part < f.part) \/ (e.day = f.day /\ e.part = f.part)
    BY <2>1, <2>2
  <2> QED
    BY <2>3 DEF Aged, Older
<1> QED
  BY <1>6

\* What is older than a file that goes, goes as well.
LEMMA OlderGoes ==
    ASSUME NEW E, Sized(E), Aged(E), NEW e \in Excess(E), NEW f \in E, Older(f, e)
    PROVE  f \in Excess(E)
<1> DEFINE O(g) == {h \in E : Older(h, g)}
<1>1. e \in E /\ SizeOf(E) - SizeOf(O(e)) > MaxBytes
  BY DEF Excess
<1>2. O(f) \subseteq O(e)
  BY <1>1 DEF Aged, Older
<1>3. Sized(O(e)) /\ Sized(O(f)) /\ O(e) \subseteq E
  BY SizesGrow
<1>4. SizeOf(O(f)) <= SizeOf(O(e))
  <2> HIDE DEF O
  <2> QED
    BY <1>2, <1>3, SizesGrow
<1>5. SizeOf(E) \in Nat /\ SizeOf(O(e)) \in Nat /\ SizeOf(O(f)) \in Nat /\ MaxBytes \in Nat
  <2> HIDE DEF O
  <2> QED
    BY <1>3, UnitsFinite, ArchiveAssumption DEF ArchiveAssumption
<1>6. SizeOf(E) - SizeOf(O(f)) > MaxBytes
  <2> HIDE DEF O
  <2> QED
    BY <1>1, <1>4, <1>5
<1> QED
  BY <1>6 DEF Excess

\* All that is left fits.
LEMMA RestFits ==
    ASSUME NEW E, Sized(E), Aged(E)
    PROVE  SizeOf(E \ Excess(E)) <= MaxBytes
<1>1. MaxBytes \in Nat
  BY ArchiveAssumption DEF ArchiveAssumption
<1>2. Excess(E) \subseteq E
  BY DEF Excess
<1>3. CASE E \ Excess(E) = {}
  <2>1. Units({}) = {} /\ Sized({})
    BY FS_EmptySet DEF Units, Sized
  <2>2. SizeOf({}) = 0
    BY <2>1, UnitsFinite, FS_EmptySet
  <2> QED
    BY <1>1, <1>3, <2>2
<1>4. CASE E \ Excess(E) # {}
  <2>1. Aged(E \ Excess(E))
    BY DEF Aged
  <2>2. PICK m \in E \ Excess(E) : \A f \in E \ Excess(E) : f = m \/ Older(m, f)
    BY <1>4, <2>1, OldestFile
  <2>3. \A f \in Excess(E) : Older(f, m)
    <3> SUFFICES ASSUME NEW f \in Excess(E) PROVE Older(f, m)
      OBVIOUS
    <3>1. ~Older(m, f) /\ f # m /\ f \in E /\ m \in E
      BY <1>2, <2>2, OlderGoes
    <3> QED
      BY <3>1 DEF Aged, Older
  <2>4. \A f \in E : Older(f, m) => f \in Excess(E)
    BY <2>2 DEF Aged, Older
  <2>5. {f \in E : Older(f, m)} = Excess(E)
    BY <1>2, <2>3, <2>4
  <2>6. ~(SizeOf(E) - SizeOf(Excess(E)) > MaxBytes)
    BY <2>2, <2>5 DEF Excess
  <2>7. Sized(Excess(E)) /\ Sized(E \ Excess(E))
    BY <1>2, SizesGrow
  <2>8. SizeOf(E) = SizeOf(Excess(E)) + SizeOf(E \ Excess(E))
    <3>1. Excess(E) \cup (E \ Excess(E)) = E /\ Excess(E) \cap (E \ Excess(E)) = {}
      BY <1>2
    <3> QED
      BY <2>7, <3>1, SizesAdd
  <2>9. SizeOf(Excess(E)) \in Nat /\ SizeOf(E \ Excess(E)) \in Nat
    BY <2>7, UnitsFinite
  <2> QED
    BY <1>1, <2>6, <2>8, <2>9
<1> QED
  BY <1>3, <1>4

\* With the files of the day that goes, it would not have fitted.
LEMMA NoMoreThanNeeded ==
    ASSUME NEW E, Sized(E), Aged(E), NEW e \in Excess(E), e.part = 0,
           \A f \in Excess(E) : f.day <= e.day,
           NEW D, Sized(D), \A f \in E : f.day = e.day => f \in D
    PROVE  SizeOf(E \ Excess(E)) + SizeOf(D) > MaxBytes
<1> DEFINE O == {h \in E : Older(h, e)}
           R == E \ Excess(E)
<1>1. e \in E /\ SizeOf(E) - SizeOf(O) > MaxBytes
  BY DEF Excess
<1>2. E \subseteq O \cup (R \cup (D \ R))
  <2> SUFFICES ASSUME NEW f \in E, ~Older(f, e), f.day # e.day PROVE f \notin Excess(E)
    OBVIOUS
  <2>1. f.day \in Nat /\ e.day \in Nat
    BY <1>1 DEF Aged
  <2> QED
    BY <2>1 DEF Older
<1>3. Sized(O) /\ Sized(R) /\ Sized(D \ R)
  BY SizesGrow
<1> HIDE DEF O, R
<1>4. Sized(R \cup (D \ R)) /\ Sized((R \cup (D \ R)) \ O)
  <2>1. Sized(R \cup (D \ R))
    BY <1>3, FS_Union DEF Sized
  <2> QED
    BY <2>1, SizesGrow
<1>5. Sized(O \cup ((R \cup (D \ R)) \ O))
  BY <1>3, <1>4, FS_Union DEF Sized
<1>6. SizeOf(E) <= SizeOf(O \cup ((R \cup (D \ R)) \ O))
  <2>1. E \subseteq O \cup ((R \cup (D \ R)) \ O)
    BY <1>2
  <2> QED
    BY <2>1, <1>5, SizesGrow
<1>7. SizeOf(O \cup ((R \cup (D \ R)) \ O)) = SizeOf(O) + SizeOf((R \cup (D \ R)) \ O)
  BY <1>3, <1>4, SizesAdd
<1>8. SizeOf((R \cup (D \ R)) \ O) <= SizeOf(R \cup (D \ R))
  BY <1>4, SizesGrow
<1>9. SizeOf(R \cup (D \ R)) = SizeOf(R) + SizeOf(D \ R)
  BY <1>3, SizesAdd
<1>10. SizeOf(D \ R) <= SizeOf(D)
  BY SizesGrow
<1>11. /\ SizeOf(E) \in Nat /\ SizeOf(O) \in Nat /\ SizeOf((R \cup (D \ R)) \ O) \in Nat
       /\ SizeOf(R \cup (D \ R)) \in Nat /\ SizeOf(R) \in Nat /\ SizeOf(D \ R) \in Nat /\ SizeOf(D) \in Nat
       /\ MaxBytes \in Nat
  BY <1>3, <1>4, UnitsFinite, ArchiveAssumption DEF ArchiveAssumption
<1>12. SizeOf(R) + SizeOf(D) > MaxBytes
  BY <1>1, <1>6, <1>7, <1>8, <1>9, <1>10, <1>11
<1> QED
  BY <1>12 DEF R

DayFile(d)  == [day |-> d, part |-> 0, size |-> Cardinality(files[d])]
TempFile(d) == [day |-> d, part |-> 1, size |-> tmp[d]]

LEMMA EntryCases ==
    \A x : x \in Entries <=> \/ \E d \in Days : files[d] # {} /\ x = DayFile(d)
                             \/ \E d \in Days : tmp[d] > 0 /\ x = TempFile(d)
BY DEF Entries, DayFile, TempFile

LEMMA FileSizes ==
    ASSUME TypeOK, NEW d \in Days
    PROVE  DayFile(d).size \in Nat /\ TempFile(d).size \in Nat
<1>1. files[d] \in SUBSET Instants /\ tmp[d] \in Nat
  BY ArchiveAssumption DEF TypeOK, ArchiveAssumption
<1> QED
  BY <1>1, FiniteTrades DEF DayFile, TempFile

LEMMA EntriesOK ==
    ASSUME TypeOK
    PROVE  Sized(Entries) /\ Aged(Entries)
<1>1. IsFiniteSet(Days) /\ Days \subseteq Nat
  BY Clock, FS_Interval DEF Days
<1>2. IsFiniteSet(Entries)
  <2> DEFINE A == {DayFile(d) : d \in Days}
             B == {TempFile(d) : d \in Days}
             f == [d \in Days |-> DayFile(d)]
             g == [d \in Days |-> TempFile(d)]
  <2>1. f \in Surjection(Days, A) /\ g \in Surjection(Days, B)
    BY DEF Surjection
  <2>2. Entries \subseteq A \cup B
    BY EntryCases
  <2> HIDE DEF f, g, A, B
  <2>3. IsFiniteSet(A) /\ IsFiniteSet(B)
    BY <1>1, <2>1, FS_Surjection
  <2> QED
    BY <2>2, <2>3, FS_Union, FS_Subset
<1>3. \A e \in Entries : e.size \in Nat
  BY EntryCases, FileSizes
<1>4. Aged(Entries)
  <2>1. \A e \in Entries : /\ e.day \in Nat /\ e.part \in {0, 1}
                           /\ e = IF e.part = 0 THEN DayFile(e.day) ELSE TempFile(e.day)
    BY <1>1, EntryCases DEF DayFile, TempFile
  <2> QED
    BY <2>1 DEF Aged
<1> QED
  BY <1>2, <1>3, <1>4 DEF Sized

\* What rotate does when it can remove every file it wants to.
Rotates(gone) ==
    /\ gone = Excess(Entries)
    /\ \A d \in Days :
          /\ files'[d] = IF files[d] # {} /\ DayFile(d) \in gone THEN {} ELSE files[d]
          /\ tmp'[d] = IF tmp[d] > 0 /\ TempFile(d) \in gone THEN 0 ELSE tmp[d]

LEMMA RotateRemoves ==
    ASSUME TypeOK, rotate, ~(failures' > failures)
    PROVE  \E gone : Rotates(gone)
<1>1. PICK stuck \in SUBSET Entries :
          LET gone == Removed(stuck)
              days == {e.day : e \in {f \in gone : f.part = 0}}
              left == {e.day : e \in {f \in gone : f.part = 1}}
          IN  /\ IF stuck = {} THEN UNCHANGED failures ELSE Fault
              /\ files' = [d \in Days |-> IF d \in days THEN {} ELSE files[d]]
              /\ tmp' = [d \in Days |-> IF d \in left THEN 0 ELSE tmp[d]]
              /\ rotated' = rotated \cup UNION {files[d] : d \in days}
  BY DEF rotate
<1>2. stuck = {}
  <2>1. failures \in Nat
    BY ArchiveAssumption DEF TypeOK, ArchiveAssumption
  <2> QED
    BY <1>1, <2>1 DEF Fault
<1>3. Removed(stuck) = Excess(Entries)
  <2>1. Entries \ {} = Entries
    OBVIOUS
  <2> QED
    BY <1>2, <2>1 DEF Removed, Excess
<1> DEFINE gone == Excess(Entries)
           days == {e.day : e \in {f \in gone : f.part = 0}}
           left == {e.day : e \in {f \in gone : f.part = 1}}
<1>4. /\ files' = [d \in Days |-> IF d \in days THEN {} ELSE files[d]]
      /\ tmp' = [d \in Days |-> IF d \in left THEN 0 ELSE tmp[d]]
  BY <1>1, <1>3
<1>5. gone \subseteq Entries
  BY DEF Excess
<1>6. ASSUME NEW d \in Days
      PROVE  /\ d \in days <=> files[d] # {} /\ DayFile(d) \in gone
             /\ d \in left <=> tmp[d] > 0 /\ TempFile(d) \in gone
  <2> HIDE DEF gone
  <2>1. \A e \in gone : e.part = 0 /\ e.day = d => files[d] # {} /\ e = DayFile(d)
    BY <1>5, EntryCases DEF DayFile, TempFile
  <2>2. \A e \in gone : e.part = 1 /\ e.day = d => tmp[d] > 0 /\ e = TempFile(d)
    BY <1>5, EntryCases DEF DayFile, TempFile
  <2>3. DayFile(d).part = 0 /\ DayFile(d).day = d /\ TempFile(d).part = 1 /\ TempFile(d).day = d
    BY DEF DayFile, TempFile
  <2> QED
    BY <2>1, <2>2, <2>3
<1> HIDE DEF gone, days, left
<1>7. Rotates(gone)
  BY <1>4, <1>6 DEF Rotates, gone
<1> QED
  BY <1>7

\* The files that are left.
LEMMA EntriesLeft ==
    ASSUME TypeOK, NEW gone, Rotates(gone)
    PROVE  Entries' = Entries \ gone
<1>1. \A d \in Days : tmp[d] \in Nat
  BY ArchiveAssumption DEF TypeOK, ArchiveAssumption
<1>2. ASSUME NEW d \in Days
      PROVE  /\ files'[d] # {} <=> files[d] # {} /\ DayFile(d) \notin gone
             /\ files'[d] # {} => DayFile(d)' = DayFile(d)
             /\ tmp'[d] > 0 <=> tmp[d] > 0 /\ TempFile(d) \notin gone
             /\ tmp'[d] > 0 => TempFile(d)' = TempFile(d)
  BY <1>1 DEF Rotates, DayFile, TempFile
<1>3. \A x : x \in Entries' <=> \/ \E d \in Days : files'[d] # {} /\ x = DayFile(d)'
                                \/ \E d \in Days : tmp'[d] > 0 /\ x = TempFile(d)'
  BY DEF Entries, DayFile, TempFile, Days, dayUTC
<1>4. \A x : x \in Entries' <=> x \in Entries /\ x \notin gone
  BY <1>2, <1>3, EntryCases
<1> QED
  BY <1>4

LEMMA RotateOldest ==
    ASSUME TypeOK, rotate, ~(failures' > failures), NEW d \in Days, files[d] # {}, files'[d] = {}
    PROVE  /\ \A e \in Days : e < d => files'[e] = {} /\ tmp'[e] = 0
           /\ SizeOf(Entries') <= MaxBytes
           /\ SizeOf(Entries') + Cardinality(files[d]) + tmp[d] > MaxBytes
                  \/ \E e \in Days : e > d /\ (files[e] # files'[e] \/ tmp[e] # tmp'[e])
<1>1. PICK gone : Rotates(gone)
  BY RotateRemoves
<1>2. Entries' = Entries \ gone /\ gone = Excess(Entries)
  BY <1>1, EntriesLeft DEF Rotates
<1>3. Sized(Entries) /\ Aged(Entries)
  BY EntriesOK
<1>4. DayFile(d) \in Excess(Entries)
  BY <1>1, <1>2 DEF Rotates
<1>5. Days \subseteq Nat
  BY Clock DEF Days
<1>6. ASSUME NEW e \in Days, e < d PROVE files'[e] = {} /\ tmp'[e] = 0
  <2>1. Older(DayFile(e), DayFile(d)) /\ Older(TempFile(e), DayFile(d))
    BY <1>6 DEF Older, DayFile, TempFile
  <2>2. files[e] # {} => DayFile(e) \in gone
    <3> SUFFICES ASSUME files[e] # {} PROVE DayFile(e) \in Excess(Entries)
      BY <1>2
    <3>1. DayFile(e) \in Entries
      BY EntryCases
    <3> QED
      BY <1>3, <1>4, <2>1, <3>1, OlderGoes
  <2>3. tmp[e] > 0 => TempFile(e) \in gone
    <3> SUFFICES ASSUME tmp[e] > 0 PROVE TempFile(e) \in Excess(Entries)
      BY <1>2
    <3>1. TempFile(e) \in Entries
      BY EntryCases
    <3> QED
      BY <1>3, <1>4, <2>1, <3>1, OlderGoes
  <2>4. tmp[e] \in Nat
    BY ArchiveAssumption DEF TypeOK, ArchiveAssumption
  <2> QED
    BY <1>1, <2>2, <2>3, <2>4 DEF Rotates
<1>7. SizeOf(Entries') <= MaxBytes
  BY <1>2, <1>3, RestFits
<1>8. ASSUME ~ \E e \in Days : e > d /\ (files[e] # files'[e] \/ tmp[e] # tmp'[e])
      PROVE  SizeOf(Entries') + Cardinality(files[d]) + tmp[d] > MaxBytes
  <2> DEFINE D == {DayFile(d)} \cup {TempFile(d)}
  <2>1. \A f \in gone : f.day <= d
    <3> SUFFICES ASSUME NEW f \in gone, f.day > d PROVE FALSE
      BY <1>2, <1>3, <1>5 DEF Excess, Aged
    <3>1. f \in Entries
      BY <1>2 DEF Excess
    <3>2. CASE \E e \in Days : files[e] # {} /\ f = DayFile(e)
      <4>1. PICK e \in Days : files[e] # {} /\ f = DayFile(e)
        BY <3>2
      <4>2. files'[e] = {} /\ e > d
        BY <1>1, <4>1 DEF Rotates, DayFile
      <4> QED
        BY <1>8, <4>1, <4>2
    <3>3. CASE \E e \in Days : tmp[e] > 0 /\ f = TempFile(e)
      <4>1. PICK e \in Days : tmp[e] > 0 /\ f = TempFile(e)
        BY <3>3
      <4>2. tmp'[e] = 0 /\ e > d
        BY <1>1, <4>1 DEF Rotates, TempFile
      <4>3. tmp[e] # tmp'[e]
        BY <4>1, <4>2
      <4> QED
        BY <1>8, <4>2, <4>3
    <3> QED
      BY <3>1, <3>2, <3>3, EntryCases
  <2>2. \A f \in Entries : f.day = d => f \in D
    BY EntryCases DEF DayFile, TempFile
  <2>3. DayFile(d).size \in Nat /\ TempFile(d).size \in Nat
    BY FileSizes
  <2>4. Sized({DayFile(d)}) /\ Sized({TempFile(d)}) /\ {DayFile(d)} \cap {TempFile(d)} = {}
    <3>1. DayFile(d).part # TempFile(d).part
      BY DEF DayFile, TempFile
    <3> QED
      BY <2>3, <3>1, FS_Singleton DEF Sized
  <2>5. Sized(D)
    BY <2>4, FS_Union DEF Sized
  <2>6. SizeOf(D) = DayFile(d).size + TempFile(d).size
    <3>1. SizeOf({DayFile(d)} \cup {TempFile(d)}) = SizeOf({DayFile(d)}) + SizeOf({TempFile(d)})
      BY <2>4, SizesAdd
    <3>2. SizeOf({DayFile(d)}) = DayFile(d).size /\ SizeOf({TempFile(d)}) = TempFile(d).size
      BY <2>3, OneFile
    <3> QED
      BY <3>1, <3>2
  <2>7. DayFile(d).part = 0 /\ DayFile(d).day = d
        /\ DayFile(d).size = Cardinality(files[d]) /\ TempFile(d).size = tmp[d]
    BY DEF DayFile, TempFile
  <2>8. SizeOf(Entries \ Excess(Entries)) + SizeOf(D) > MaxBytes
    <3> HIDE DEF D
    <3> QED
      BY <1>2, <1>3, <1>4, <2>1, <2>2, <2>5, <2>7, NoMoreThanNeeded
  <2>9. SizeOf(Entries \ Excess(Entries)) \in Nat
    BY <1>3, SizesGrow, UnitsFinite DEF Excess
  <2> QED
    BY <1>2, <2>3, <2>6, <2>7, <2>8, <2>9
<1> QED
  BY <1>6, <1>7, <1>8

\* A file is committed with rows in it.
CommitInv == at = "commit" => batch # {}

\* rotate deletes oldest first, all it has to and no more; no other step makes
\* a day-file vanish.
THEOREM RotationIsOldestFirst == Spec => RotatesOldestFirst
<1>1. Init => CommitInv
  BY DEF Init, CommitInv
<1>2. ASSUME CommitInv, [Next]_vars PROVE CommitInv'
  <2>1. CASE at' # "commit" \/ UNCHANGED <<at, batch>>
    BY <1>2, <2>1 DEF CommitInv
  <2>2. CASE Select
    BY <2>2 DEF Select, CommitInv
  <2> QED
    BY <1>2, <2>1, <2>2 DEF Next, Archiver, vars, archiver, Tick, Start, Crash, SaveTrade, Insert, prune, cycle,
       startDay, CommitFile, DeleteRange, saveCursor, rotate, cycleFails
<1>3. ASSUME Inv, CommitInv, [Next]_vars
      PROVE  [\A d \in Days : files[d] # {} /\ files'[d] = {} =>
                \/ failures' > failures
                \/ /\ \A e \in Days : e < d => files'[e] = {} /\ tmp'[e] = 0
                   /\ SizeOf(Entries') <= MaxBytes
                   /\ SizeOf(Entries') + Cardinality(files[d]) + tmp[d] > MaxBytes
                          \/ \E e \in Days : e > d /\ (files[e] # files'[e] \/ tmp[e] # tmp'[e])]_vars
  <2>1. CASE files' = files
    BY <2>1
  <2>2. CASE CommitFile
    <3>1. \A d \in Days : files[d] # {} => files'[d] # {}
      BY <1>3, <2>2 DEF CommitFile, CommitInv, Inv, TypeOK
    <3> QED
      BY <3>1
  <2>3. CASE rotate
    BY <1>3, <2>3, RotateOldest DEF Inv
  <2> QED
    BY <1>3, <2>1, <2>2, <2>3 DEF Next, Archiver, vars, disk, Tick, Start, Crash, SaveTrade, Insert, prune, cycle,
       startDay, Select, DeleteRange, saveCursor, cycleFails
<1>4. Spec => []CommitInv
  BY <1>1, <1>2, PTL DEF Spec
<1>5. []Inv /\ []CommitInv /\ [][Next]_vars =>
          [][\A d \in Days : files[d] # {} /\ files'[d] = {} =>
                \/ failures' > failures
                \/ /\ \A e \in Days : e < d => files'[e] = {} /\ tmp'[e] = 0
                   /\ SizeOf(Entries') <= MaxBytes
                   /\ SizeOf(Entries') + Cardinality(files[d]) + tmp[d] > MaxBytes
                          \/ \E e \in Days : e > d /\ (files[e] # files'[e] \/ tmp[e] # tmp'[e])]_vars
  BY <1>3, PTL
<1> QED
  BY <1>4, <1>5, Invariance, PTL DEF Spec, RotatesOldestFirst
=============================================================================
