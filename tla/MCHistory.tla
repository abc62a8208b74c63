------------------------------- MODULE MCHistory -------------------------------
(* History on a small instance, for TLC.                                   *)
EXTENDS History

\* Up to three trades in the two days before the start: buckets with one and
\* with two trades, a day with three, a bucket without.
PastTrades == UNION {kSubset(k, {0, 1, 2, 4, 7}) : k \in 0 .. 3}

Option(S) == {{}} \cup {{x} : x \in S}

\* Candles by the page, with and without bounds that lie inside a bucket, and
\* trades with offsets and with limits outside 1 .. MaxLimit.
Requests ==
    [kind : {"candles"}, from : Option({1}), to : Option({Today - 3}), limit : {1, 2, MaxLimit + 1},
     offset : {0}, fill : BOOLEAN]
    \cup
    [kind : {"trades"}, from : Option({1}), to : Option({Today - 3}), limit : {0, 1, MaxLimit + 1},
     offset : {0, 1}, fill : {FALSE}]

\* All trades in one page.
AllTrades == [kind : {"trades"}, from : {{}}, to : {{}}, limit : {MaxLimit}, offset : {0}, fill : {FALSE}]
=============================================================================
