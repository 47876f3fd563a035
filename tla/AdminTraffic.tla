---------------------------- MODULE AdminTraffic ----------------------------
(***************************************************************************)
(* HTTP traffic metrics: counted in memory per minute, method and route,   *)
(* added to a table every 15 seconds, summed up for the dashboard.         *)
(*                                                                         *)
(*   src/src/admin/metrics/admin-traffic.service.ts                        *)
(*   src/src/admin/metrics/admin-traffic.middleware.ts                     *)
(*                                                                         *)
(* A flush takes the whole map and writes it in one transaction.  Requests *)
(* are recorded, and the next flush may begin, before it ends.  Method and *)
(* route of a key are one value.  A Map is the sequence of its entries.    *)
(***************************************************************************)
EXTENDS Integers, Sequences, FiniteSets, SequencesExt, Functions

CONSTANTS
    Routes,           \* method and normalized route
    Inputs,           \* finished requests: statusCode, latencyMs and bytes
    Flushes,          \* flushes in progress at the same time
    MAX_ACTIVE_KEYS,  \* 500
    retention,        \* in minutes
    MaxMinute, MaxRecords, MaxFailures, MaxCrashes  \* bounds

VARIABLES
    active,    \* this.active: accumulators in insertion order
    pending,   \* per flush: the map it took, << >> when it is not running
    table,     \* admin_http_metrics_minute: key |-> accumulator
    minute,    \* minuteBucket of the clock
    fate,      \* per key: requests recorded, and of these the ones dropped
               \* for want of room, stored twice, removed by retention, lost
               \* with the process
    failures, crashes

vars == <<active, pending, table, minute, fate, failures, crashes>>

Keys == (0..MaxMinute) \X Routes

LATENCY_BUCKET_LIMITS_MS == <<25, 50, 100, 250, 500, 1000, 2500, 5000, 10000>>
HISTOGRAM_SIZE == Len(LATENCY_BUCKET_LIMITS_MS) + 1

-----------------------------------------------------------------------------
(* Accumulators.                                                           *)

latencyBucketIndex(latencyMs) ==
    LET fits == {i \in DOMAIN LATENCY_BUCKET_LIMITS_MS :
                    latencyMs <= LATENCY_BUCKET_LIMITS_MS[i]}
    IN  IF fits = {} THEN HISTOGRAM_SIZE ELSE Min(fits)

boundedLatency(ms) == Max({0, Min({ms, 60000})})
boundedBytes(value) == IF value > 0 THEN Min({value, 100 * 1024 * 1024}) ELSE 0

statusClass(code) ==
    CASE code < 300 -> "2xx" [] code < 400 -> "3xx" [] code < 500 -> "4xx"
      [] OTHER -> "5xx"

\* samples, the requests that were counted, is not in the code.
NoRequests(key) ==
    [key |-> key, requestCount |-> 0,
     status |-> [c \in {"2xx", "3xx", "4xx", "5xx"} |-> 0],
     latencyHistogram |-> [i \in 1..HISTOGRAM_SIZE |-> 0],
     latencySumMs |-> 0, requestBytes |-> 0, responseBytes |-> 0,
     samples |-> [input \in Inputs |-> 0]]

\* What record adds to the accumulator of its key.
Count(metric, input) ==
    LET latency == boundedLatency(input.latencyMs)
    IN  [metric EXCEPT
            !.requestCount = @ + 1,
            !.status[statusClass(input.statusCode)] = @ + 1,
            !.latencyHistogram[latencyBucketIndex(latency)] = @ + 1,
            !.latencySumMs = @ + latency,
            !.requestBytes = @ + boundedBytes(input.requestBytes),
            !.responseBytes = @ + boundedBytes(input.responseBytes),
            !.samples[input] = @ + 1]

\* Field by field: mergeBack, ON CONFLICT DO UPDATE and mergeRows.
Plus(a, b) ==
    LET Sum(f, g) == [x \in DOMAIN f |-> f[x] + g[x]]
    IN  [a EXCEPT
            !.requestCount = @ + b.requestCount,
            !.status = Sum(@, b.status),
            !.latencyHistogram = Sum(@, b.latencyHistogram),
            !.latencySumMs = @ + b.latencySumMs,
            !.requestBytes = @ + b.requestBytes,
            !.responseBytes = @ + b.responseBytes,
            !.samples = Sum(@, b.samples)]

Has(map, key) == \E i \in DOMAIN map : map[i].key = key

\* A map with one more accumulator: added to the one of its key or, if there
\* is room, a new entry.
Merge(map, metric) ==
    IF Has(map, metric.key)
    THEN [i \in DOMAIN map |->
             IF map[i].key = metric.key THEN Plus(map[i], metric) ELSE map[i]]
    ELSE IF Len(map) < MAX_ACTIVE_KEYS THEN Append(map, metric)
    ELSE map

CountOf(map, key) ==
    FoldLeft(LAMBDA n, metric : IF metric.key = key THEN n + metric.requestCount ELSE n,
             0, map)

Init ==
    /\ active = << >>
    /\ pending = [f \in Flushes |-> << >>]
    /\ table = << >>
    /\ minute = 0
    /\ fate = [k \in Keys |-> [recorded |-> 0, dropped |-> 0, doubled |-> 0,
                               removed |-> 0, lost |-> 0]]
    /\ failures = 0
    /\ crashes = 0

-----------------------------------------------------------------------------
(* Recording and flushing.                                                 *)

\* A response is finished.  A new key is not recorded when there is no room.
record(route, input) ==
    LET key == <<minute, route>>
    IN  /\ FoldFunction(LAMBDA k, n : k.recorded + n, 0, fate) < MaxRecords
        /\ active' = Merge(active, Count(NoRequests(key), input))
        /\ fate' = [fate EXCEPT
               ![key].recorded = @ + 1,
               ![key].dropped = IF active' = active THEN @ + 1 ELSE @]
        /\ UNCHANGED <<pending, table, minute, failures, crashes>>

\* flush, by the timer or at shutdown, up to its transaction.
FlushStart(f) ==
    /\ active # << >>
    /\ pending[f] = << >>
    /\ pending' = [pending EXCEPT ![f] = active]
    /\ active' = << >>
    /\ UNCHANGED <<table, minute, fate, failures, crashes>>

\* The table once every accumulator is inserted or added to its row.
Stored(map) ==
    [k \in DOMAIN table \union {m.key : m \in ToSet(map)} |->
        LET own == SelectSeq(map, LAMBDA m : m.key = k)
        IN  CASE own = << >> -> table[k]
              [] k \notin DOMAIN table -> own[1]
              [] OTHER -> Plus(table[k], own[1])]

FlushCommitted(f) ==
    /\ pending[f] # << >>
    /\ table' = Stored(pending[f])
    /\ pending' = [pending EXCEPT ![f] = << >>]
    /\ UNCHANGED <<active, minute, fate, failures, crashes>>

\* Mutant: the map that was taken is put back as it was.
mergeBackReplace(map) == map

\* What was taken is added to what was recorded since.
mergeBack(map) == FoldLeft(Merge, active, map)

\* The transaction throws: rolled back, or committed with the answer lost,
\* which the code cannot tell apart.
FlushFailed(f, committed) ==
    LET taken == pending[f]
        put == mergeBack(taken)
    IN  /\ taken # << >>
        /\ failures < MaxFailures
        /\ failures' = failures + 1
        /\ table' = IF committed THEN Stored(taken) ELSE table
        /\ active' = put
        /\ pending' = [pending EXCEPT ![f] = << >>]
        /\ fate' = [k \in Keys |-> [fate[k] EXCEPT
               !.doubled = IF committed THEN @ + CountOf(taken, k) ELSE @,
               !.dropped = IF Has(taken, k) /\ ~Has(put, k)
                           THEN @ + CountOf(taken, k) ELSE @]]
        /\ UNCHANGED <<minute, crashes>>

\* The clock, read before the statement waited for a connection, is in some
\* minute up to this one, and anywhere in it: cutoff is the first minute that
\* does not start before the clock minus the retention.
cleanupRetention(cutoff) ==
    LET old == {k \in DOMAIN table : k[1] < cutoff}
    IN  /\ cutoff <= minute - retention + 1
        /\ old # {}
        /\ table' = Restrict(table, DOMAIN table \ old)
        /\ fate' = [k \in Keys |->
               IF k \in old
               THEN [fate[k] EXCEPT !.removed = @ + table[k].requestCount]
               ELSE fate[k]]
        /\ UNCHANGED <<active, pending, minute, failures, crashes>>

\* The process ends, by itself or after its last flush, and starts again:
\* what is in memory is gone.
Restart ==
    /\ crashes < MaxCrashes
    /\ crashes' = crashes + 1
    /\ active' = << >>
    /\ pending' = [f \in Flushes |-> << >>]
    /\ fate' = [k \in Keys |-> [fate[k] EXCEPT
           !.lost = @ + CountOf(active, k)
                      + FoldFunction(LAMBDA map, n : CountOf(map, k) + n, 0, pending)]]
    /\ UNCHANGED <<table, minute, failures>>

Tick ==
    /\ minute < MaxMinute
    /\ minute' = minute + 1
    /\ UNCHANGED <<active, pending, table, fate, failures, crashes>>

Next ==
    \/ \E route \in Routes, input \in Inputs : record(route, input)
    \/ \E f \in Flushes :
          \/ FlushStart(f) \/ FlushCommitted(f)
          \/ \E committed \in BOOLEAN : FlushFailed(f, committed)
    \/ \E cutoff \in 1..MaxMinute + 1 : cleanupRetention(cutoff)
    \/ Restart \/ Tick

Spec == Init /\ [][Next]_vars

-----------------------------------------------------------------------------
(* What the dashboard shows.                                               *)

\* Mutant: the bucket before is named.
percentileFromHistogramFloor(histogram, percent) ==
    LET total == FoldFunction(+, 0, histogram)
        target == (total * percent) \div 100
        upTo(i) == FoldFunctionOnSet(+, 0, histogram, 1..i)
        index == Min({i \in DOMAIN histogram : upTo(i) >= target})
    IN  IF index <= Len(LATENCY_BUCKET_LIMITS_MS)
        THEN LATENCY_BUCKET_LIMITS_MS[index] ELSE 10000

\* For a histogram that is not empty.  Math.ceil(total * p) is the exact one
\* for 0.5, 0.95 and 0.99: as doubles they are at most the fractions they
\* stand for, by so little that a product that should be an integer is
\* rounded to it, and any other is a hundredth away from the next integer.
percentileFromHistogram(histogram, percent) ==
    LET total == FoldFunction(+, 0, histogram)
        target == (total * percent + 99) \div 100
        upTo(i) == FoldFunctionOnSet(+, 0, histogram, 1..i)
        index == Min({i \in DOMAIN histogram : upTo(i) >= target})
    IN  IF index <= Len(LATENCY_BUCKET_LIMITS_MS)
        THEN LATENCY_BUCKET_LIMITS_MS[index] ELSE 10000

\* The totals of query: the rows since a minute, summed up.
totals(since) ==
    LET rows == Restrict(table, {k \in DOMAIN table : k[1] >= since})
    IN  FoldFunction(Plus, NoRequests(<<since, "all">>), rows)

-----------------------------------------------------------------------------
\* The variables hold what the class and the table allow: never more entries
\* in memory than there is room for.
TypeOK ==
    /\ Len(active) <= MAX_ACTIVE_KEYS
    /\ \A f \in Flushes : Len(pending[f]) <= MAX_ACTIVE_KEYS
    /\ \A m \in ToSet(active) : m.key \in Keys /\ m.requestCount \in 1..MaxRecords * (MaxFailures + 1)
    /\ DOMAIN table \subseteq Keys
    /\ minute \in 0..MaxMinute

\* However flushes overlap, fail and are merged back, every request is in one
\* place: in memory, in a running flush, in its row, or one of those known to
\* be dropped, removed by retention or lost with the process; only a commit
\* whose answer was lost counts requests twice.
CountsConserved ==
    \A k \in Keys :
        fate[k].recorded + fate[k].doubled =
            CountOf(active, k)
            + FoldFunction(LAMBDA map, n : CountOf(map, k) + n, 0, pending)
            + (IF k \in DOMAIN table THEN table[k].requestCount ELSE 0)
            + fate[k].dropped + fate[k].removed + fate[k].lost

\* The requests of a total with a latency of at most ms.
AtMost(total, ms) ==
    FoldFunctionOnSet(+, 0, total.samples, {i \in Inputs : i.latencyMs <= ms})

\* The totals shown agree with the requests they count, whatever was merged
\* on the way: the statuses add up, the latencies are the requests', and a
\* percentile is the smallest limit (10 s at most) that so many of the
\* requests stayed within.
SummaryIsTruthful ==
    \A since \in 0..minute :
        LET total == totals(since)
            n == total.requestCount
            limits == ToSet(LATENCY_BUCKET_LIMITS_MS)
        IN  /\ n = FoldFunction(+, 0, total.status)
            /\ n = FoldFunction(+, 0, total.samples)
            /\ total.latencySumMs =
                   FoldFunction(+, 0, [i \in Inputs |->
                       total.samples[i] * boundedLatency(i.latencyMs)])
            /\ \A percent \in {50, 95, 99} : n > 0 =>
                  LET p == percentileFromHistogram(total.latencyHistogram, percent)
                  IN  /\ p = 10000 \/ AtMost(total, p) * 100 >= n * percent
                      /\ \A ms \in limits : ms < p => AtMost(total, ms) * 100 < n * percent
=============================================================================
