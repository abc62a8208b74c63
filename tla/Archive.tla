-------------------------------- MODULE Archive --------------------------------
(***************************************************************************)
(* The way of a saved trade out of the live table: the archiver of         *)
(* internal/archive/archiver.go rolls whole days to day-files, and the     *)
(* pruner of internal/persist/retention.go deletes what is older than the  *)
(* retention period.  They and the trade writers run concurrently on one   *)
(* table, with no lock; a crash can come between any two steps.            *)
(*                                                                         *)
(* Time is counted in instants, DayLen of them a UTC day; the first day    *)
(* is 0.  A trade is its executed_at (at most one an instant, of one       *)
(* symbol), and the size of a file is its number of trades.                *)
(***************************************************************************)
EXTENDS Integers, FiniteSets, FiniteSetsExt

CONSTANTS
    DayLen,         \* instants in a day
    MaxAge,         \* Archiver.maxAge (ARCHIVE_AFTER_HOURS)
    Interval,       \* Archiver.interval (ARCHIVE_INTERVAL_HOURS)
    Retention,      \* retentionDays, in instants
    MaxBytes,       \* Archiver.maxBytes
    MaxDelay,       \* the longest an INSERT takes to reach the table once it is stamped
    MaxTime,        \* bound: the last instant
    MaxTrades,      \* bound: trades stamped
    MaxFailures     \* bound: crashes and failed calls

\* An INSERT that hangs for longer than a trade must age could arrive when
\* its day was archived; nothing in the code bounds it but the database.
ASSUME ArchiveAssumption ==
    /\ DayLen \in Nat \ {0}
    /\ Interval \in Nat \ {0}
    /\ MaxAge \in Nat /\ Retention \in Nat \ {0}
    /\ MaxDelay \in 0 .. MaxAge
    /\ {MaxBytes, MaxTime, MaxTrades, MaxFailures} \subseteq Nat

VARIABLES
    now,            \* the clock
    up,             \* the process runs
    stamped,        \* trades on their way to the table
    live,           \* the trades table
    files,          \* day -> trades of its day-file, {} when there is none
    tmp,            \* day -> size of its temp file, 0 when there is none or it is empty
    cursor,         \* sim_state 'archive_cursor': a day, or NoDay
    at,             \* where cycle is
    due,            \* the instant the archiver's ticker fires next
    cutoffDay,      \* locals of cycle
    day,
    batch,          \* the rows archiveDay reads and writes
    saved,          \* history: trades that were ever in the table
    pruned,         \* history: trades the pruner deleted
    rotated,        \* history: trades of the files rotate removed
    slow,           \* history: a cycle took longer than an instant
    failures        \* history: crashes and failed calls

archiver == <<at, due, cutoffDay, day, batch>>
disk     == <<files, tmp>>
history  == <<saved, pruned, rotated, slow>>

vars == <<now, up, stamped, live, disk, cursor, archiver, history, failures>>

Instants == 0 .. MaxTime
NoDay    == -1
dayUTC(t) == t \div DayLen
Days     == 0 .. dayUTC(MaxTime)

\* Mutant: the range takes in the first instant of the next day.
RowsUpTo(d) == {t \in live : d * DayLen <= t /\ t <= (d + 1) * DayLen}

\* The trades of the half-open range [d, d + 1) in the table.
RowsOf(d) == {t \in live : dayUTC(t) = d}

Archived == UNION {files[d] : d \in Days}
Stored   == live \cup Archived

Init ==
    /\ now = 0 /\ up = FALSE /\ failures = 0
    /\ stamped = {} /\ live = {}
    /\ files = [d \in Days |-> {}] /\ tmp = [d \in Days |-> 0] /\ cursor = NoDay
    /\ at = "idle" /\ due = 0 /\ cutoffDay = 0 /\ day = 0 /\ batch = {}
    /\ saved = {} /\ pruned = {} /\ rotated = {} /\ slow = FALSE

\* A call returns an error, or the process dies.
Fault == failures < MaxFailures /\ failures' = failures + 1

-----------------------------------------------------------------------------
(* Time, the process and the trade writers.                                *)

Tick ==
    /\ now < MaxTime
    /\ \A t \in stamped : now < t + MaxDelay
    /\ up /\ at = "idle" => now < due
    /\ now' = now + 1
    /\ slow' = (slow \/ at # "idle")
    /\ UNCHANGED <<up, stamped, live, disk, cursor, archiver, saved, pruned, rotated, failures>>

\* Run performs its first cycle at once.
Start ==
    /\ ~up /\ up' = TRUE
    /\ due' = now
    /\ UNCHANGED <<now, stamped, live, disk, cursor, at, cutoffDay, day, batch, history, failures>>

\* A temp file that was being written stays on disk with what reached it.
Crash ==
    /\ up /\ up' = FALSE
    /\ Fault
    /\ \E n \in 0 .. Cardinality(batch) :
           tmp' = IF at = "commit" THEN [tmp EXCEPT ![day] = n] ELSE tmp
    /\ stamped' = {} /\ at' = "idle" /\ batch' = {} /\ cutoffDay' = 0 /\ day' = 0
    /\ UNCHANGED <<now, live, files, cursor, due, history>>

\* SaveTrade: time.Now() is executed_at, and the INSERT arrives later.
SaveTrade ==
    /\ up /\ now \notin stamped \cup saved
    /\ Cardinality(stamped \cup saved) < MaxTrades
    /\ stamped' = stamped \cup {now}
    /\ UNCHANGED <<now, up, live, disk, cursor, archiver, history, failures>>

Insert ==
    /\ \E t \in stamped :
           /\ stamped' = stamped \ {t}
           /\ live' = live \cup {t}
           /\ saved' = saved \cup {t}
    /\ UNCHANGED <<now, up, disk, cursor, archiver, pruned, rotated, slow, failures>>

-----------------------------------------------------------------------------
(* The retention pruner: on start-up and then every hour.                  *)

prune ==
    LET old == {t \in live : t < now - Retention}
    IN  /\ up /\ old # {}
        /\ live' = live \ old
        /\ pruned' = pruned \cup old
        /\ UNCHANGED <<now, up, stamped, disk, cursor, archiver, saved, rotated, slow, failures>>

-----------------------------------------------------------------------------
(* The archiver.                                                           *)

archiverFrame == <<now, up, stamped, saved, pruned, slow>>

\* The ticker fires: it keeps its phase, and firings that were missed are
\* dropped.  At the last instant the clock stands and the ticker goes on.
NextFiring == Min({due + Interval * ((now - due) \div Interval + 1), MaxTime})

\* Mutant: today is archived as well.
cycleWithToday ==
    /\ up /\ at = "idle" /\ due <= now
    /\ due' = NextFiring
    /\ cutoffDay' = dayUTC(now) + 1
    /\ at' = "start"
    /\ UNCHANGED <<archiverFrame, live, disk, cursor, day, batch, rotated, failures>>

\* Mutant: the last day that is old enough is left for later.
cycleDayLate ==
    /\ up /\ at = "idle" /\ due <= now
    /\ due' = NextFiring
    /\ cutoffDay' = (now - MaxAge) \div DayLen - 1
    /\ at' = "start"
    /\ UNCHANGED <<archiverFrame, live, disk, cursor, day, batch, rotated, failures>>

\* loadCursor, and the clock is read.
cycle ==
    /\ up /\ at = "idle" /\ due <= now
    /\ due' = NextFiring
    /\ cutoffDay' = (now - MaxAge) \div DayLen
    /\ at' = "start"
    /\ UNCHANGED <<archiverFrame, live, disk, cursor, day, batch, rotated, failures>>

\* Mutant: the day after the cursor.
startAfterCursor ==
    /\ at = "start"
    /\ IF cursor # NoDay THEN day' = cursor + 1 /\ at' = "loop"
       ELSE IF live = {} THEN day' = day /\ at' = "idle"
       ELSE day' = dayUTC(Min(live)) /\ at' = "loop"
    /\ UNCHANGED <<archiverFrame, live, disk, cursor, due, cutoffDay, batch, rotated, failures>>

\* The cursor's day, or the day of the earliest trade; without a trade the
\* cycle is over.
startDay ==
    /\ at = "start"
    /\ IF cursor # NoDay THEN day' = cursor /\ at' = "loop"
       ELSE IF live = {} THEN day' = day /\ at' = "idle"
       ELSE day' = dayUTC(Min(live)) /\ at' = "loop"
    /\ UNCHANGED <<archiverFrame, live, disk, cursor, due, cutoffDay, batch, rotated, failures>>

\* archiveDay, the SELECT: one statement, so one state of the table.  A day
\* without rows makes no file; the first row creates (truncates) the temp
\* file.
Select ==
    /\ at = "loop" /\ day < cutoffDay
    /\ batch' = RowsOf(day)
    /\ IF batch' = {} THEN at' = "cursor" /\ UNCHANGED tmp
       ELSE at' = "commit" /\ tmp' = [tmp EXCEPT ![day] = 0]
    /\ UNCHANGED <<archiverFrame, live, files, cursor, due, cutoffDay, day, rotated, failures>>

\* commit: the temp file replaces the day-file, if there is one.
CommitFile ==
    /\ at = "commit"
    /\ files' = [files EXCEPT ![day] = batch]
    /\ at' = "delete"
    /\ UNCHANGED <<archiverFrame, live, tmp, cursor, due, cutoffDay, day, batch, rotated, failures>>

\* Mutant: the error of the DELETE is ignored.
DeleteRangeUnchecked ==
    /\ at = "delete"
    /\ \/ live' = live \ RowsOf(day) /\ UNCHANGED failures
       \/ Fault /\ UNCHANGED live
    /\ at' = "cursor"
    /\ UNCHANGED <<archiverFrame, disk, cursor, due, cutoffDay, day, batch, rotated>>

\* The DELETE has the bounds of the SELECT, not its rows.
DeleteRange ==
    /\ at = "delete"
    /\ live' = live \ RowsOf(day)
    /\ at' = "cursor"
    /\ UNCHANGED <<archiverFrame, disk, cursor, due, cutoffDay, day, batch, rotated, failures>>

\* saveCursor, whose error is logged only; then the next day.
saveCursor ==
    /\ at = "cursor"
    /\ \/ cursor' = day + 1 /\ UNCHANGED failures
       \/ Fault /\ UNCHANGED cursor
    /\ day' = day + 1
    /\ at' = "loop" /\ batch' = {}
    /\ UNCHANGED <<archiverFrame, live, disk, due, cutoffDay, rotated>>

\* The files that rotate finds: day-files and temp files, by path.
Entries ==
    {[day |-> d, part |-> 0, size |-> Cardinality(files[d])] : d \in {e \in Days : files[e] # {}}}
        \cup {[day |-> d, part |-> 1, size |-> tmp[d]] : d \in {e \in Days : tmp[e] > 0}}

\* Mutant: sorted newest first.
Newer(e, f) == e.day > f.day \/ (e.day = f.day /\ e.part > f.part)

Older(e, f) == e.day < f.day \/ (e.day = f.day /\ e.part < f.part)

\* The sizes of the files added up: every unit of every file, counted.
SizeOf(entries) == Cardinality(UNION {{e} \X (1 .. e.size) : e \in entries})

\* Oldest first until the total fits; stuck are the files that cannot be
\* removed, and those are passed over.
Removed(stuck) ==
    {e \in Entries \ stuck :
        SizeOf(Entries) - SizeOf({f \in Entries \ stuck : Older(f, e)}) > MaxBytes}

\* The archiver is the only one to change the directory.
rotate ==
    /\ at = "loop" /\ ~(day < cutoffDay)
    /\ \E stuck \in SUBSET Entries :
           LET gone == Removed(stuck)
               days == {e.day : e \in {f \in gone : f.part = 0}}
               left == {e.day : e \in {f \in gone : f.part = 1}}
           IN  /\ IF stuck = {} THEN UNCHANGED failures ELSE Fault
               /\ files' = [d \in Days |-> IF d \in days THEN {} ELSE files[d]]
               /\ tmp' = [d \in Days |-> IF d \in left THEN 0 ELSE tmp[d]]
               /\ rotated' = rotated \cup UNION {files[d] : d \in days}
    /\ at' = "idle" /\ cutoffDay' = 0 /\ day' = 0
    /\ UNCHANGED <<archiverFrame, live, cursor, due, batch>>

\* An error: the cycle returns, without rotate.  abort removes the temp file
\* but a failed commit leaves it.
cycleFails ==
    /\ at \in {"start", "loop", "commit", "delete"}
    /\ Fault
    /\ \E n \in {0, Cardinality(batch)} :
           tmp' = IF at = "commit" THEN [tmp EXCEPT ![day] = n] ELSE tmp
    /\ at' = "idle" /\ batch' = {} /\ cutoffDay' = 0 /\ day' = 0
    /\ UNCHANGED <<archiverFrame, live, files, cursor, due, rotated>>


-----------------------------------------------------------------------------

Archiver == cycle \/ startDay \/ Select \/ CommitFile \/ DeleteRange \/ saveCursor
               \/ rotate \/ cycleFails

Next == Tick \/ Start \/ Crash \/ SaveTrade \/ Insert \/ prune \/ Archiver

Spec == Init /\ [][Next]_vars

\* The process is started again, the ticker keeps firing (so time does not
\* stop), a cycle that began goes on and an INSERT ends.
FairSpec == Spec /\ WF_vars(Start) /\ WF_vars(Tick) /\ WF_vars(Archiver) /\ WF_vars(Insert)

-----------------------------------------------------------------------------
(* Properties.                                                             *)

\* Every variable has its type, and a day-file holds trades of its day.
TypeOK ==
    /\ now \in Instants /\ up \in BOOLEAN /\ failures \in 0 .. MaxFailures
    /\ stamped \subseteq Instants /\ live \subseteq Instants
    /\ files \in [Days -> SUBSET Instants]
    /\ \A d \in Days : \A t \in files[d] : dayUTC(t) = d
    /\ tmp \in [Days -> 0 .. MaxTrades]
    /\ cursor \in Days \cup {NoDay}
    /\ at \in {"idle", "start", "loop", "commit", "delete", "cursor"}
    /\ due \in Nat /\ cutoffDay \in Int /\ day \in Days /\ batch \subseteq Instants
    /\ saved \subseteq Instants /\ pruned \subseteq saved /\ rotated \subseteq saved
    /\ slow \in BOOLEAN

\* The archiver loses no trade: whatever crashes, failed calls, retries and
\* inserts come between its SELECT, its rename and its DELETE, a trade that
\* was saved is in the table or in a day-file, unless retention pruned it or
\* rotate removed its file.
NothingVanishes == saved \subseteq Stored \cup pruned \cup rotated

\* The cursor leaves no trade behind: the days it has passed have no trade in
\* the table and none can arrive, or it would stay there unarchived.
CursorPassesNothing == \A t \in live \cup stamped : dayUTC(t) >= cursor

\* rotate deletes oldest first, all it has to and no more: a day-file goes
\* only when everything older went, when all that is left fits, and when it
\* would not have fitted with the newest one removed.
RotatesOldestFirst ==
    [][\A d \in Days : files[d] # {} /\ files'[d] = {} =>
          \/ failures' > failures
          \/ /\ \A e \in Days : e < d => files'[e] = {} /\ tmp'[e] = 0
             /\ SizeOf(Entries') <= MaxBytes
             /\ SizeOf(Entries') + Cardinality(files[d]) + tmp[d] > MaxBytes
                    \/ \E e \in Days : e > d /\ (files[e] # files'[e] \/ tmp[e] # tmp'[e])]_vars

\* After any number of crashes and errors that is finite the archiver catches
\* up: again and again there is no trade in the table that is old enough to be
\* archived.
ArchiverCatchesUp == []<>(\A t \in live : dayUTC(t) >= (now - MaxAge) \div DayLen)

\* Retention deletes nothing that is not in the archive, if it keeps trades
\* for as long as the archiver can need: a day, the age at which a day is
\* archived and one interval of its ticker, with no failure and no cycle that
\* takes long.
PrunedAreArchived ==
    [][/\ Retention >= DayLen + MaxAge + Interval - 1
       /\ failures = 0 /\ ~slow
       => pruned' \ pruned \subseteq Archived \cup rotated]_vars
=============================================================================
