-------------------------------- MODULE History --------------------------------
(***************************************************************************)
(* A REST client that reads the history of one symbol: handleCandles and   *)
(* handleTrades of internal/api, History of internal/archive over the live *)
(* table (internal/persist/queries.go) and the day-files (reader.go,       *)
(* candles.go, catalog.go).  A query reads the boundary, then the live     *)
(* table, then the archive; trades arrive and days move between the stores *)
(* between any two of these steps, and between the pages of a client.      *)
(*                                                                         *)
(* Time is counted in instants, DayLen to a UTC day, Step to a candle; a   *)
(* trade is its executed_at.  A bar is its bucket and the set of trades it *)
(* aggregates, which determines open, high, low, close, volume and count.  *)
(* An optional parameter (a nil pointer in the code) is a set with at most *)
(* one member.  The archiver is module Archive's, in two steps.            *)
(***************************************************************************)
EXTENDS Integers, Sequences, FiniteSets, FiniteSetsExt, SequencesExt

CONSTANTS
    DayLen,         \* instants in a day
    Step,           \* instants in a candle (secs)
    MaxAge,         \* Archiver.maxAge
    Retention,      \* retentionDays, in instants
    DefaultLimit,   \* rows of a page when no limit is asked for
    MaxLimit,       \* most rows of a page
    Past,           \* the sets of trades that may exist at the start
    Today,          \* the instant of the start
    Asked,          \* the requests a client may make
    MaxTime,        \* bound: the last instant
    MaxInserts,     \* bound: trades that arrive
    MaxPages,       \* bound: pages a client reads
    MaxFailures     \* bound: failed queries and failed DELETEs

\* Every interval of intervalSeconds divides a day; a request has a bound or has
\* none; a trade that is stored at the start is not younger than the start.
ASSUME HistoryAssumption ==
    /\ {DayLen, Step, DefaultLimit, MaxLimit} \subseteq Nat \ {0}
    /\ DayLen % Step = 0
    /\ DefaultLimit <= MaxLimit
    /\ {MaxAge, Retention, Today, MaxTime, MaxInserts, MaxPages, MaxFailures} \subseteq Nat
    /\ Today <= MaxTime
    /\ \A T \in Past : T \subseteq 0 .. Today
    /\ Asked \subseteq [kind : {"candles", "trades"}, from : SUBSET Int, to : SUBSET Int,
                        limit : Int, offset : Nat, fill : BOOLEAN]
    /\ \A r \in Asked : (\A x, y \in r.from : x = y) /\ (\A x, y \in r.to : x = y)

VARIABLES
    now,            \* the clock
    live,           \* the trades table
    files,          \* day -> trades of its day-file, {} when there is none
    moving,         \* the day that is in its file and not yet deleted from the table, or NoDay
    request,        \* what the client asks for
    before,         \* the cursor of the page it asks for
    at,             \* its query: idle, live (to be read), cold (to be read), done
    split,          \* the query's boundary between the stores
    merged,         \* what the query has collected
    pages,          \* history: sequence of the pages the client got
    wanted,         \* history: trades stored when the client asked for its first page
    steady,         \* history: no store has changed since the query began
    overtaken,      \* history: trades left the table between the boundary and the live read of a query
    inserts,        \* history: trades that arrived
    failures        \* history: failures

stores  == <<live, files, moving>>
client  == <<request, before, at, split, merged, pages, wanted, overtaken>>
vars    == <<now, stores, client, steady, inserts, failures>>

NoDay     == -1
dayUTC(t) == t \div DayLen
Days      == 0 .. dayUTC(MaxTime)
Archived  == UNION {files[d] : d \in Days}
Stored    == live \cup Archived

The(option) == CHOOSE x \in option : TRUE
Cut(s, n)   == SubSeq(s, 1, Min({n, Len(s)}))

\* The members of T, newest first: the i-th has i - 1 newer ones.
NewestFirst(T) ==
    [i \in 1 .. Cardinality(T) |-> CHOOSE t \in T : Cardinality({u \in T : u > t}) = i - 1]

-----------------------------------------------------------------------------
(* The query layer.                                                        *)

\* Mutant: a limit that is too large is taken as it is.
ClampLimitUnbounded(n) == IF n <= 0 THEN DefaultLimit ELSE n

ClampLimit(n) == IF n <= 0 THEN DefaultLimit ELSE Min({n, MaxLimit})

\* The start of the candle with instant t.
alignDown(t) == t - (t % Step)

InRange(t, f) == (\A x \in f.from : t >= x) /\ (\A x \in f.to : t <= x)

\* The bars of a set of trades, newest first.
Bars(T) ==
    LET buckets == NewestFirst({alignDown(t) : t \in T})
    IN  [i \in DOMAIN buckets |->
            [bucket |-> buckets[i], trades |-> {t \in T : alignDown(t) = buckets[i]}]]

\* Mutant: the cursor is not excluded.
PgQueryCandlesFrom(f, cursor, limit) ==
    Cut(Bars({t \in live : InRange(t, f) /\ \A x \in cursor : t <= x}), limit)

\* PgTradeReader.QueryCandles without fill: the cursor bounds the trades.
PgQueryCandles(f, cursor, limit) ==
    Cut(Bars({t \in live : InRange(t, f) /\ \A x \in cursor : t < x}), limit)

PgQueryTrades(f, limit) == Cut(NewestFirst({t \in live : InRange(t, f)}), limit)

\* fillBounds and zeroFill: from the bucket under the cursor, or that of "to",
\* or the newest, down to that of "from", or the oldest.
FillCandles(bars, f, cursor, limit) ==
    IF cursor \cup f.to = {} /\ bars = <<>> THEN bars
    ELSE LET hi  == IF cursor # {} THEN alignDown(The(cursor) - Step)
                    ELSE IF f.to # {} THEN alignDown(The(f.to))
                    ELSE Head(bars).bucket
             low == IF f.from # {} THEN alignDown(The(f.from))
                    ELSE IF bars # <<>> THEN Last(bars).bucket
                    ELSE hi
             n   == Min({(hi - Min({low, hi})) \div Step + 1, limit})
             bar(b) == IF \E c \in ToSet(bars) : c.bucket = b
                       THEN CHOOSE c \in ToSet(bars) : c.bucket = b
                       ELSE [bucket |-> b, trades |-> {}]
         IN  [i \in 1 .. n |-> bar(hi - (i - 1) * Step)]

-----------------------------------------------------------------------------
(* The archive.                                                            *)

\* Mutant: the start of the newest archived day.
BoundsOfNewest == (Max({d \in Days : files[d] # {}} \cup {NoDay})) * DayLen

\* The end of the newest archived day (Catalog.Bounds); 0 without day-files,
\* and then the live table answers alone.
Bounds == (Max({d \in Days : files[d] # {}} \cup {NoDay}) + 1) * DayLen

\* Catalog.Resolve: the days whose file may have trades of the range, newest
\* first.
Resolve(f) ==
    NewestFirst({d \in Days : /\ files[d] # {}
                              /\ \A x \in f.from : \A y \in f.to : x <= y
                              /\ \A x \in f.from : dayUTC(x) <= d
                              /\ \A x \in f.to : d <= dayUTC(x)})

\* ReadCandles and readDayCandles: the cursor bounds the buckets.
ReadCandles(f, cursor, limit) ==
    LET days == Resolve(f)
        dayBars(d) == Bars({t \in files[d] : InRange(t, f) /\ \A x \in cursor : alignDown(t) < x})
    IN  Cut(FlattenSeq([i \in DOMAIN days |-> dayBars(days[i])]), limit)

\* The ring that keeps the newest trades of a day-file, which has its trades
\* in ascending order.
newTail(capacity) == [buf |-> [i \in 0 .. capacity - 1 |-> 0], count |-> 0, head |-> 0]

\* Mutant: a full ring overwrites its oldest trade and forgets to advance.
pushInPlace(ring, t) ==
    LET size == Cardinality(DOMAIN ring.buf)
    IN  IF ring.count < size
        THEN [ring EXCEPT !.buf[(ring.head + ring.count) % size] = t, !.count = @ + 1]
        ELSE [ring EXCEPT !.buf[ring.head] = t]

push(ring, t) ==
    LET size == Cardinality(DOMAIN ring.buf)
    IN  IF ring.count < size
        THEN [ring EXCEPT !.buf[(ring.head + ring.count) % size] = t, !.count = @ + 1]
        ELSE [ring EXCEPT !.buf[ring.head] = t, !.head = (@ + 1) % size]

newestFirst(ring) ==
    [i \in 1 .. ring.count |->
        ring.buf[(ring.head + ring.count - i) % Cardinality(DOMAIN ring.buf)]]

readDayTail(d, f, keep) ==
    LET lines == Reverse(NewestFirst({t \in files[d] : InRange(t, f)}))
        ring[i \in 0 .. Len(lines)] == IF i = 0 THEN newTail(keep) ELSE push(ring[i - 1], lines[i])
    IN  ring[Len(lines)]

\* Read: day-files newest first until the limit is reached.
Read(f, limit) ==
    LET days == Resolve(f)
        found[i \in 0 .. Len(days)] ==
            IF i = 0 THEN <<>>
            ELSE IF Len(found[i - 1]) < limit
            THEN found[i - 1] \o newestFirst(readDayTail(days[i], f, limit - Len(found[i - 1])))
            ELSE found[i - 1]
    IN  found[Len(days)]

-----------------------------------------------------------------------------
(* The stores change: a trade arrives, the archiver rolls a day, rotate    *)
(* and the pruner remove the oldest.                                       *)

storesFrame == <<request, before, at, split, merged, pages, wanted>>

Init ==
    /\ now = Today
    /\ \E T \in Past, d \in 0 .. (Today - MaxAge) \div DayLen :
           /\ live = {t \in T : dayUTC(t) >= d}
           /\ files = [e \in Days |-> IF e < d THEN {t \in T : dayUTC(t) = e} ELSE {}]
    /\ moving = NoDay
    /\ request \in Asked /\ before = {} /\ at = "idle"
    /\ split = 0 /\ merged = <<>> /\ pages = <<>> /\ wanted = {}
    /\ steady = TRUE /\ overtaken = FALSE /\ inserts = 0 /\ failures = 0

Tick ==
    /\ now < MaxTime
    /\ now' = now + 1
    /\ UNCHANGED <<stores, client, steady, inserts, failures>>

Insert ==
    /\ now \notin Stored /\ inserts < MaxInserts
    /\ inserts' = inserts + 1
    /\ live' = live \cup {now}
    /\ steady' = FALSE
    /\ UNCHANGED <<now, files, moving, client, failures>>

\* Trades leave the table; overtaken when a query is to read them there.
Leave(gone) ==
    /\ live' = live \ gone
    /\ overtaken' = (overtaken \/ (at = "live" /\ \E t \in gone : t >= split))

\* archiveDay: the file of the oldest day with trades appears ...
CommitFile ==
    /\ moving = NoDay /\ live # {}
    /\ LET d == dayUTC(Min(live))
       IN  /\ d < (now - MaxAge) \div DayLen
           /\ files' = [files EXCEPT ![d] = {t \in live : dayUTC(t) = d}]
           /\ moving' = d
    /\ steady' = FALSE
    /\ UNCHANGED <<now, live, client, inserts, failures>>

\* ... and its rows are deleted, or the DELETE fails and the day is rolled
\* again.
DeleteRange ==
    /\ moving # NoDay
    /\ \/ /\ Leave({t \in live : dayUTC(t) = moving})
          /\ UNCHANGED failures
       \/ /\ failures < MaxFailures /\ failures' = failures + 1
          /\ UNCHANGED <<live, overtaken>>
    /\ moving' = NoDay
    /\ steady' = FALSE
    /\ UNCHANGED <<now, files, storesFrame, inserts>>

prune ==
    /\ \E t \in live : t < now - Retention
    /\ Leave({t \in live : t < now - Retention})
    /\ steady' = FALSE
    /\ UNCHANGED <<now, files, moving, storesFrame, inserts, failures>>

\* At the end of a cycle; one whose DELETE failed ends without it.
rotate ==
    /\ Archived # {} /\ moving = NoDay
    /\ \A t \in live : files[dayUTC(t)] = {}
    /\ files' = [files EXCEPT ![dayUTC(Min(Archived))] = {}]
    /\ steady' = FALSE
    /\ UNCHANGED <<now, live, moving, client, inserts, failures>>

-----------------------------------------------------------------------------
(* The queries.                                                            *)

queryFrame == <<now, stores, request, inserts>>

limit == ClampLimit(request.limit)

\* The rows QueryTrades gathers before it skips offset of them.
need == Min({request.offset + limit, MaxLimit})

\* handleCandles or handleTrades: a query begins by fixing its boundary.
Begin ==
    /\ at = "idle" /\ Len(pages) < MaxPages
    /\ at' = "live"
    /\ split' = IF request.kind = "candles" THEN Bounds ELSE now - Retention
    /\ wanted' = IF pages = <<>> THEN Stored ELSE wanted
    /\ steady' = TRUE
    /\ UNCHANGED <<queryFrame, before, merged, pages, overtaken, failures>>

\* The request with its lower bound raised to the split.
LiveFilter == [request EXCEPT !.from = {Max({split} \cup @)}]

\* The live table, unless "to" is before the split; without day-files it gets
\* the request as it is, and the filter by 0 is no filter.
ReadLive ==
    /\ at = "live"
    /\ merged' = IF \E x \in request.to : x < split THEN <<>>
                 ELSE IF request.kind = "candles" THEN PgQueryCandles(LiveFilter, before, limit)
                 ELSE PgQueryTrades(LiveFilter, need)
    /\ at' = "cold"
    /\ UNCHANGED <<queryFrame, before, split, pages, wanted, steady, overtaken, failures>>

\* The request with its upper bound lowered to the instant before the split.
ColdFilter == [request EXCEPT !.to = {Min({split - 1} \cup @)}]

\* What the archive adds, when the page is not full and the range reaches
\* below the split.
Cold ==
    IF \E x \in request.from : x >= split THEN <<>>
    ELSE IF request.kind = "candles"
    THEN IF Len(merged) < limit THEN ReadCandles(ColdFilter, before, limit - Len(merged)) ELSE <<>>
    ELSE IF Len(merged) < need THEN Read(ColdFilter, need - Len(merged)) ELSE <<>>

\* The page: filled and cut, or (trades) with the offset skipped.
Page ==
    LET all == merged \o Cold
    IN  IF request.kind = "trades"
        THEN SubSeq(all, request.offset + 1, Min({request.offset + limit, Len(all)}))
        ELSE Cut(IF request.fill THEN FillCandles(all, request, before, limit) ELSE all, limit)

\* A full page of candles comes with a cursor (X-Next-Cursor), its oldest
\* bucket, and the client asks for the next page with it.
Answer ==
    /\ at = "cold"
    /\ pages' = Append(pages, Page)
    /\ IF request.kind = "candles" /\ Len(Page) = limit
       THEN at' = "idle" /\ before' = {Last(Page).bucket}
       ELSE at' = "done" /\ UNCHANGED before
    /\ merged' = <<>>
    /\ UNCHANGED <<queryFrame, split, wanted, steady, overtaken, failures>>

\* An error of the database, or rotate removed a file that Resolve had found:
\* the client asks again.
QueryFails ==
    /\ at \in {"live", "cold"} /\ failures < MaxFailures
    /\ failures' = failures + 1
    /\ at' = "idle" /\ merged' = <<>>
    /\ UNCHANGED <<queryFrame, before, split, pages, wanted, steady, overtaken>>

-----------------------------------------------------------------------------

Next == \/ Tick \/ Insert \/ CommitFile \/ DeleteRange \/ prune \/ rotate
        \/ Begin \/ ReadLive \/ Answer \/ QueryFails

Spec == Init /\ [][Next]_vars

-----------------------------------------------------------------------------
(* Properties.                                                             *)

\* Every variable has its type, and a page is never longer than its limit.
TypeOK ==
    /\ now \in Today .. MaxTime /\ live \subseteq 0 .. MaxTime
    /\ files \in [Days -> SUBSET (0 .. MaxTime)]
    /\ \A d \in Days : \A t \in files[d] : dayUTC(t) = d
    /\ moving \in Days \cup {NoDay}
    /\ request \in Asked /\ before \subseteq Int /\ Cardinality(before) <= 1
    /\ at \in {"idle", "live", "cold", "done"} /\ split \in Int
    /\ Len(merged) <= MaxLimit
    /\ Len(pages) <= MaxPages /\ \A p \in ToSet(pages) : Len(p) <= MaxLimit
    /\ wanted \subseteq 0 .. MaxTime
    /\ {steady, overtaken} \subseteq BOOLEAN
    /\ inserts \in 0 .. MaxInserts /\ failures \in 0 .. MaxFailures

\* The candles the client has, over all pages.
Got == FlattenSeq(pages)

\* Following X-Next-Cursor gives one series: however trades arrive, days move
\* to the archive and files go between the pages, buckets strictly descend, so
\* none comes twice or in two parts, and with fill=zero none is left out.
PagesDescend ==
    request.kind = "candles" =>
        \A i \in 2 .. Len(Got) :
            IF request.fill THEN Got[i].bucket = Got[i - 1].bucket - Step
            ELSE Got[i].bucket < Got[i - 1].bucket

\* No bar is missed: unless trades left the table just after a query had taken
\* its boundary, each trade that is stored from the first page on is in the bar of its
\* bucket once the pages have come down to that bucket, or have ended.
NothingSkipped ==
    request.kind = "candles" /\ ~overtaken =>
        \A t \in wanted \cap Stored :
            /\ InRange(t, request)
            /\ at = "done" \/ \E x \in before : alignDown(t) >= x
            => \E c \in ToSet(Got) : c.bucket = alignDown(t) /\ t \in c.trades

\* The stores agree with the retention cutoff of the query: all that is older
\* is archived, all that is younger is in the table.
SplitHolds == \A t \in Stored : IF t < split THEN t \in Archived ELSE t \in live

\* A page of trades is what limit and offset say of the stored trades, newest
\* first, if no store changed under the query and the split is right; the
\* rings, the walk over day-files and the merge skip and repeat nothing.
\* Beyond MaxLimit rows there is nothing.
TradePageExact ==
    request.kind = "trades" /\ at = "done" /\ steady /\ SplitHolds =>
        LET newer(t)  == {u \in Stored : u > t /\ InRange(u, request)}
            onPage(t) == /\ InRange(t, request)
                         /\ Cardinality(newer(t)) \in request.offset .. need - 1
        IN  Got = NewestFirst({t \in Stored : onPage(t)})

\* The split of QueryTrades has no gap: a page large enough has every trade
\* at or after the retention cutoff that is stored from its beginning to its
\* end.
TradesSpanStores ==
    request.kind = "trades" /\ at = "done" /\ request.offset = 0 /\ limit > Cardinality(Stored) =>
        \A t \in wanted \cap Stored : t >= split /\ InRange(t, request) => t \in ToSet(Got)
=============================================================================
