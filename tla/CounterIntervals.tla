--------------------------- MODULE CounterIntervals --------------------------
(***************************************************************************)
(* The --interval print of simpleperf stat (the print_counters callback   *)
(* of StatCommand::Run): ReadCounters, AdjustToIntervalOnlyValues with    *)
(* --interval-only-values, then the summaries and comments of             *)
(* ShowCounters, with duration_in_sec measured from start_time.           *)
(*                                                                         *)
(* Time passes in ticks of one second; in a tick each monitored thread    *)
(* runs or not, and its fds count.  The NewThreadMonitor appends the fds  *)
(* of a new thread to every selection between prints.  ReadCounters lists *)
(* the fds of each selection in order, and AdjustToIntervalOnlyValues     *)
(* pairs them with last_sum_values_ by position.                         *)
(***************************************************************************)
EXTENDS Integers, Sequences, FiniteSets, SequencesExt

CONSTANTS
    SelTypes,      \* SelTypes[i]: event type of the i-th selection, in ReadCounters order
    Tids,          \* threads that can be monitored
    InitialTids,   \* threads opened by OpenEventFiles
    IntervalOnly,  \* --interval-only-values
    MaxTicks,      \* bound on seconds in one behaviour
    MaxPrints,     \* bound on interval prints in one behaviour
    NsPerSec       \* nanoseconds in a second (scaled down for TLC's integers)

ASSUME /\ InitialTids \subseteq Tids /\ InitialTids # {}
       /\ IntervalOnly \in BOOLEAN
       /\ MaxTicks \in Nat /\ MaxPrints \in Nat /\ NsPerSec \in Nat \ {0}

Sels == DOMAIN SelTypes

\* PerfCounter / CounterSum: value and time_running; a new fd reads zero.
Zero == [value |-> 0, running |-> 0]
Sub(a, b) == [value |-> a.value - b.value, running |-> a.running - b.running]

VARIABLES
    now,          \* seconds since start_time
    opened,       \* tids in the order their fds were appended to event_fds
    val,          \* val[i][t]: the kernel counter of selection i for thread t
    lastSum,      \* last_sum_values_
    shown,        \* the counters of the last print, after the adjustment
    summaries,    \* the summaries of the last print, with their comments
    prints,       \* prints so far
    lastPrintAt,  \* history: when the last print happened
    span,         \* history: the seconds the counts of the last print cover
    seen,         \* history: seen[i][t] = val[i][t] at the previous print
    expected      \* history: the per-fd counts the last print should show

vars == <<now, opened, val, lastSum, shown, summaries, prints, lastPrintAt, span, seen, expected>>

CS == INSTANCE CounterSummaries
        WITH Types <- ToSet(SelTypes), Mods <- {""},
             Families <- {ToSet(SelTypes) \X {""}}, Threads <- {0}, CpuKeys <- {-1},
             Groups <- Sels, Counts <- Nat, Runtimes <- Nat,
             RateBase <- [t \in ToSet(SelTypes) |-> <<>>], MaxLen <- 0, Duration <- 1,
             input <- <<>>

(***************************************************************************)
(* The kernel and the NewThreadMonitor.                                    *)
(***************************************************************************)
\* One second: every opened thread runs (1) or not (0); a running thread
\* adds a second to task-clock and to time_running, and a cycle to other
\* events.
Tick ==
    /\ now < MaxTicks
    /\ now' = now + 1
    /\ \E run \in [ToSet(opened) -> {0, 1}] :
         val' = [i \in Sels |-> [t \in Tids |->
                   IF t \in ToSet(opened)
                   THEN [value |-> val[i][t].value
                                   + run[t] * (IF SelTypes[i] = "task-clock" THEN NsPerSec ELSE 1),
                         running |-> val[i][t].running + run[t] * NsPerSec]
                   ELSE val[i][t]]]
    /\ UNCHANGED <<opened, lastSum, shown, summaries, prints, lastPrintAt, span, seen, expected>>

\* A scan opens a new thread: its fd is appended to every selection.
ScanOpens(t) ==
    /\ t \in Tids \ ToSet(opened)
    /\ opened' = Append(opened, t)
    /\ UNCHANGED <<now, val, lastSum, shown, summaries, prints, lastPrintAt, span, seen, expected>>

(***************************************************************************)
(* print_counters.                                                         *)
(***************************************************************************)
\* ReadCounters: per selection, one CounterInfo per fd, in event_fds order.
ReadCounters == [i \in Sels |-> [j \in 1 .. Len(opened) |-> val[i][opened[j]]]]

\* Pad a sequence to length n with zero sums (vector::resize).
Resize(s, n, z) == IF Len(s) < n THEN s \o [k \in 1 .. n - Len(s) |-> z] ELSE s

\* Fault variant of AdjustEvent: last_sum[j] not updated.
AdjustEventStale(c, last) ==
    LET l == Resize(last, Len(c), Zero)
    IN [counters |-> [j \in DOMAIN c |-> Sub(c[j], l[j])], last |-> l]

\* The inner loop for one event: delta = new_sum - last_sum[j], then
\* last_sum[j] = new_sum.
AdjustEvent(c, last) ==
    LET l == Resize(last, Len(c), Zero)
    IN [counters |-> [j \in DOMAIN c |-> Sub(c[j], l[j])],
        last |-> [j \in DOMAIN l |-> IF j <= Len(c) THEN c[j] ELSE l[j]]]

AdjustToIntervalOnlyValues(cs, lastAll) ==
    LET L == Resize(lastAll, Len(cs), <<>>)
    IN [counters |-> [i \in DOMAIN cs |-> AdjustEvent(cs[i], L[i]).counters],
        last |-> [i \in DOMAIN L |-> IF i <= Len(cs) THEN AdjustEvent(cs[i], L[i]).last
                                     ELSE L[i]]]

\* CounterSummaryBuilder without --per-thread or --per-core: one summary
\* per selection, summing its counters; every event here is counted all
\* the time.
BuildSummaries(cs) ==
    [i \in DOMAIN cs |->
        [type |-> SelTypes[i], mod |-> "", thread |-> 0, cpu |-> -1, group |-> i,
         full |-> TRUE,
         count |-> FoldSeq(LAMBDA c, acc : acc + c.value, 0, cs[i]),
         runtime |-> FoldSeq(LAMBDA c, acc : acc + c.running, 0, cs[i]),
         auto |-> FALSE, comment |-> <<>>]]

\* The interval timer fires: read, adjust, summarize and show.
PrintCounters ==
    LET cs == ReadCounters
        adj == AdjustToIntervalOnlyValues(cs, lastSum)
        out == IF IntervalOnly THEN adj.counters ELSE cs
    IN /\ prints < MaxPrints
       /\ now > lastPrintAt
       /\ lastSum' = IF IntervalOnly THEN adj.last ELSE lastSum
       /\ shown' = out
       /\ summaries' = CS!SummarizeCounters(BuildSummaries(out), now)
       /\ prints' = prints + 1
       /\ lastPrintAt' = now
       /\ span' = IF IntervalOnly THEN now - lastPrintAt ELSE now
       /\ expected' = [i \in Sels |-> [j \in 1 .. Len(opened) |->
                         IF IntervalOnly THEN Sub(val[i][opened[j]], seen[i][opened[j]])
                         ELSE val[i][opened[j]]]]
       /\ seen' = val
       /\ UNCHANGED <<now, opened, val>>

Init ==
    /\ now = 0
    /\ opened = SetToSortSeq(InitialTids, <)
    /\ val = [i \in Sels |-> [t \in Tids |-> Zero]]
    /\ lastSum = <<>>
    /\ shown = <<>>
    /\ summaries = <<>>
    /\ prints = 0
    /\ lastPrintAt = 0
    /\ span = 0
    /\ seen = [i \in Sels |-> [t \in Tids |-> Zero]]
    /\ expected = <<>>

Next ==
    \/ Tick
    \/ \E t \in Tids : ScanOpens(t)
    \/ PrintCounters
    \/ (now = MaxTicks \/ prints = MaxPrints) /\ UNCHANGED vars

Spec == Init /\ [][Next]_vars

(***************************************************************************)
(* Properties.                                                             *)
(***************************************************************************)
\* Help text of --interval-only-values: each print shows, for every fd,
\* what it counted since the previous print (for an fd opened since, all
\* it counted), although last_sum_values_ is matched to the counters by
\* position while scans append fds between prints.
IntervalCountsPerFd ==
    prints > 0 => shown = expected

\* GetCommentForSummary: "cpus used" of task-clock is its count divided by
\* the seconds the count covers, so a thread busy for a whole interval
\* shows one cpu.
CpusUsedOverCountedSpan ==
    \A k \in DOMAIN summaries :
        summaries[k].type = "task-clock" => summaries[k].comment[3] = span * NsPerSec
=============================================================================
