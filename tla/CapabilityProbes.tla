-------------------------- MODULE CapabilityProbes --------------------------
(***************************************************************************)
(* Two probes of the kernel that simpleperf runs, checked side by side     *)
(* (they share no state):                                                 *)
(*                                                                         *)
(* The CPU PMU counter probes of cmd_stat.cpp.  CheckHardwareCountersOnCpu *)
(* opens n cpu-cycles counters in one group on a cpu for a short workload *)
(* and answers whether all of them counted all the time.                  *)
(* PrintHardwareCounters (--print-hw-counter) probes n = 1, 2, ... on     *)
(* every online cpu until a probe says no; CheckHardwareCounterMultiplexing*)
(* probes, after the session, each cpu with the number of hardware events *)
(* GetHardwareCountersForCpus finds the session put on it, and warns.     *)
(*                                                                         *)
(* IsDumpingRegsForTracepointEventsSupported (event_selection_set.cpp):   *)
(* the main thread starts a thread, waits for its tid, opens a            *)
(* sched_switch tracepoint on it, sets done and joins it; the thread      *)
(* spins until done and sleeps once more, a sched-out that the tracepoint *)
(* samples.  The main thread then polls the buffer for a sample.          *)
(***************************************************************************)
EXTENDS Integers, Sequences, FiniteSets, SequencesExt, Folds

CONSTANTS
    Online,      \* GetOnlineCpus()
    MaxFree,     \* bound on the free counters of a cpu's PMU
    GroupEvents, \* GroupEvents[g]: "hw" or "sw" for each selection of group g
    GroupCpus,   \* GroupCpus[g]: the cpus of group g ({} = none)
    MaxPolls     \* iterations of the poll loop (1000 in the code)

Groups == DOMAIN GroupEvents

\* What PrintHardwareCounters showed for a cpu, besides a count.
Warning == -1
Unprinted == -2

VARIABLES
    free,        \* free[c]: counters the PMU of cpu c can give a group
    hasCycles,   \* FindEventTypeByName("cpu-cycles") finds the event
    faults,      \* a probe may fail for another reason (workload, affinity,
                 \* read, or an open refused with EMFILE or EACCES)
    printHw,     \* --print-hw-counter
    hpc,         \* "print", "check", "done"
    todo,        \* the cpus left to probe, in order
    avail,       \* available_counters of GetHardwareCountersOnCpu
    report,      \* report[c]: the count printed for c, Warning or Unprinted
    warned,      \* the multiplexing warning was logged
    kernelFixed, \* GetKernelVersion() >= 4.2
    regsOk,      \* the kernel dumps user regs for tracepoint samples
    mpc,         \* the main thread of the regs probe
    tpc,         \* the probe thread
    tidSet,      \* thread_id != 0
    done,        \* the atomic done flag
    fdOk,        \* the tracepoint fd and its buffer were created
    sampled,     \* the buffer holds a sample
    visible,     \* the sample is visible to GetAvailableMmapData
    polls,       \* the poll loop's timeout counter
    result       \* what the regs probe returned, once mpc = "returned"

hwVars == <<free, hasCycles, faults, printHw, hpc, todo, avail, report, warned>>
regVars == <<kernelFixed, regsOk, mpc, tpc, tidSet, done, fdOk, sampled, visible, polls, result>>
vars == <<hwVars, regVars>>

(***************************************************************************)
(* Hardware counters.                                                      *)
(***************************************************************************)
\* CheckHardwareCountersOnCpu(cpu, n): the answers it can give, "yes" and
\* "no" for true and false, "none" for std::nullopt.  A group of more counters than the PMU has free is refused
\* at open or never runs, so time_running falls behind time_enabled.
CheckHardwareCountersOnCpu(c, n) ==
    IF n = 0 THEN {"yes"}
    ELSE IF ~hasCycles THEN {"none"}
    ELSE {IF n <= free[c] THEN "yes" ELSE "no"} \cup (IF faults THEN {"none", "no"} ELSE {})

\* Fault variant of GetHardwareCountersForCpus: every selection counted,
\* not only the hardware events.
GetHardwareCountersForCpusAll ==
    LET pcpus(g) == IF GroupCpus[g] = {} THEN Online ELSE GroupCpus[g]
    IN [c \in UNION {pcpus(g) : g \in Groups} |->
          FoldSet(LAMBDA g, acc : acc + Len(GroupEvents[g]), 0,
                  {g \in Groups : c \in pcpus(g)})]

\* GetHardwareCountersForCpus: per cpu, the hardware events of every group
\* on it; a group with no cpus is on every online cpu.
GetHardwareCountersForCpus ==
    LET pcpus(g) == IF GroupCpus[g] = {} THEN Online ELSE GroupCpus[g]
        hw(g) == Len(SelectSeq(GroupEvents[g], LAMBDA e : e = "hw"))
    IN [c \in UNION {pcpus(g) : g \in Groups} |->
          FoldSet(LAMBDA g, acc : acc + hw(g), 0, {g \in Groups : c \in pcpus(g)})]

\* Fault variant of CountUp: the counter that failed is counted too.
CountUpPastRefusal(r) == avail + 1

\* The loop of GetHardwareCountersOnCpu: a yes counts one more counter.
CountUp(r) == IF r = "yes" THEN avail + 1 ELSE avail

\* One CheckHardwareCountersOnCpu(cpu, available_counters + 1) of
\* PrintHardwareCounters.  On no, the count is printed; on nullopt, a
\* warning; both move on to the next cpu.
PrintProbe ==
    LET c == Head(todo)
    IN /\ hpc = "print" /\ todo # <<>>
       /\ \E r \in CheckHardwareCountersOnCpu(c, avail + 1) :
            IF r = "yes"
            THEN /\ avail' = CountUp(r)
                 /\ UNCHANGED <<todo, report>>
            ELSE /\ report' = [report EXCEPT ![c] = IF r = "no" THEN CountUp(r) ELSE Warning]
                 /\ todo' = Tail(todo)
                 /\ avail' = 0
       /\ UNCHANGED <<free, hasCycles, faults, printHw, hpc, warned>>

\* CheckHardwareCounterMultiplexing: probe each cpu with its hardware
\* events; the first no logs the warning and breaks the loop, a nullopt
\* is skipped.
CheckProbe ==
    LET demand == GetHardwareCountersForCpus
        c == Head(todo)
    IN /\ hpc = "check" /\ todo # <<>>
       /\ \E r \in CheckHardwareCountersOnCpu(c, demand[c]) :
            IF r = "no"
            THEN /\ warned' = TRUE /\ hpc' = "done" /\ todo' = <<>>
            ELSE /\ todo' = Tail(todo) /\ UNCHANGED <<warned, hpc>>
       /\ UNCHANGED <<free, hasCycles, faults, printHw, avail, report>>

ProbesDone ==
    /\ hpc \in {"print", "check"} /\ todo = <<>>
    /\ hpc' = "done"
    /\ UNCHANGED <<free, hasCycles, faults, printHw, todo, avail, report, warned>>

\* Run: --print-hw-counter prints and returns (lines 588-591); otherwise the
\* check runs after CloseEventFiles (line 734).
HwInit ==
    /\ free \in [Online -> 0 .. MaxFree]
    /\ hasCycles \in BOOLEAN /\ faults \in BOOLEAN
    /\ printHw \in BOOLEAN
    /\ hpc = IF printHw THEN "print" ELSE "check"
    /\ todo = SetToSortSeq(IF printHw THEN Online ELSE DOMAIN GetHardwareCountersForCpus, <)
    /\ avail = 0
    /\ report = [c \in Online |-> Unprinted]
    /\ warned = FALSE

HwNext == PrintProbe \/ CheckProbe \/ ProbesDone

(***************************************************************************)
(* IsDumpingRegsForTracepointEventsSupported.                              *)
(***************************************************************************)
\* The thread sleeps: a sched-out, which the tracepoint samples once its
\* fd is open.
SchedOut == sampled' = (sampled \/ fdOk)

\* Lines 73-93: a kernel >= 4.2 needs no test, a missing sched_switch
\* tracepoint fails it; otherwise the thread is started.
RegsStart ==
    /\ mpc = "start"
    /\ \E hasSched \in BOOLEAN :
         IF kernelFixed \/ ~hasSched
         THEN /\ result' = kernelFixed /\ mpc' = "returned"
              /\ UNCHANGED tpc
         ELSE /\ tpc' = "setid" /\ mpc' = "waitid"
              /\ UNCHANGED result
    /\ UNCHANGED <<kernelFixed, regsOk, tidSet, done, fdOk, sampled, visible, polls>>

\* while (thread_id == 0) usleep(1);
WaitForTid ==
    /\ mpc = "waitid" /\ tidSet
    /\ mpc' = "open"
    /\ UNCHANGED <<kernelFixed, regsOk, tpc, tidSet, done, fdOk, sampled, visible, polls, result>>

\* Fault variant of OpenTracepoint: the failure path returns without
\* setting done.
OpenTracepointFailSkipsDone ==
    /\ mpc = "open"
    /\ \E ok \in BOOLEAN : fdOk' = ok /\ mpc' = IF ok THEN "setdone" ELSE "join"
    /\ UNCHANGED <<kernelFixed, regsOk, tpc, tidSet, done, sampled, visible, polls, result>>

\* OpenEventFile on the thread and CreateMappedBuffer; either may fail, and
\* both paths set done and join.
OpenTracepoint ==
    /\ mpc = "open"
    /\ \E ok \in BOOLEAN : fdOk' = ok
    /\ mpc' = "setdone"
    /\ UNCHANGED <<kernelFixed, regsOk, tpc, tidSet, done, sampled, visible, polls, result>>

SetDone ==
    /\ mpc = "setdone"
    /\ done' = TRUE /\ mpc' = "join"
    /\ UNCHANGED <<kernelFixed, regsOk, tpc, tidSet, fdOk, sampled, visible, polls, result>>

\* thread.join(); without an fd the probe returns false.
Join ==
    /\ mpc = "join" /\ tpc = "exited"
    /\ mpc' = IF fdOk THEN "poll" ELSE "returned"
    /\ result' = IF fdOk THEN result ELSE FALSE
    /\ UNCHANGED <<kernelFixed, regsOk, tpc, tidSet, done, fdOk, sampled, visible, polls>>

\* Fault variant of Poll: one iteration more than the loop allows.
PollPastTimeout ==
    /\ mpc = "poll"
    /\ IF visible
       THEN result' = regsOk /\ mpc' = "returned" /\ UNCHANGED polls
       ELSE IF polls <= MaxPolls
       THEN polls' = polls + 1 /\ UNCHANGED <<result, mpc>>
       ELSE result' = FALSE /\ mpc' = "returned" /\ UNCHANGED polls
    /\ UNCHANGED <<kernelFixed, regsOk, tpc, tidSet, done, fdOk, sampled, visible>>

\* Fault variant of Poll: no retry, an empty buffer answers false at once.
PollOnce ==
    /\ mpc = "poll"
    /\ IF visible
       THEN result' = regsOk /\ mpc' = "returned" /\ UNCHANGED polls
       ELSE result' = FALSE /\ mpc' = "returned" /\ UNCHANGED polls
    /\ UNCHANGED <<kernelFixed, regsOk, tpc, tidSet, done, fdOk, sampled, visible>>

\* One iteration of the poll loop: the first sample decides by its ip; with
\* none, sleep and count; after MaxPolls the probe returns false.
Poll ==
    /\ mpc = "poll"
    /\ IF visible
       THEN result' = regsOk /\ mpc' = "returned" /\ UNCHANGED polls
       ELSE IF polls < MaxPolls
       THEN polls' = polls + 1 /\ UNCHANGED <<result, mpc>>
       ELSE result' = FALSE /\ mpc' = "returned" /\ UNCHANGED polls
    /\ UNCHANGED <<kernelFixed, regsOk, tpc, tidSet, done, fdOk, sampled, visible>>

\* The thread: thread_id = gettid().
SetTid ==
    /\ tpc = "setid"
    /\ tidSet' = TRUE /\ tpc' = "spin"
    /\ UNCHANGED <<kernelFixed, regsOk, mpc, done, fdOk, sampled, visible, polls, result>>

\* while (!done) usleep(1);
Spin ==
    /\ tpc = "spin"
    /\ IF done THEN tpc' = "last" /\ UNCHANGED sampled
       ELSE SchedOut /\ UNCHANGED tpc
    /\ UNCHANGED <<kernelFixed, regsOk, mpc, tidSet, done, fdOk, visible, polls, result>>

\* Fault variant of LastSleep: no sleep after the loop.
LastSleepDropped ==
    /\ tpc = "last"
    /\ tpc' = "exited"
    /\ UNCHANGED <<kernelFixed, regsOk, mpc, tidSet, done, fdOk, sampled, visible, polls, result>>

\* usleep(1) after the loop, then the thread ends.
LastSleep ==
    /\ tpc = "last"
    /\ SchedOut /\ tpc' = "exited"
    /\ UNCHANGED <<kernelFixed, regsOk, mpc, tidSet, done, fdOk, visible, polls, result>>

\* The kernel makes a written sample visible to the reading cpu, some time
\* after it is written.
Publish ==
    /\ sampled /\ ~visible
    /\ visible' = TRUE
    /\ UNCHANGED <<kernelFixed, regsOk, mpc, tpc, tidSet, done, fdOk, sampled, polls, result>>

RegsInit ==
    /\ kernelFixed \in BOOLEAN /\ regsOk \in BOOLEAN
    /\ mpc = "start" /\ tpc = "none"
    /\ tidSet = FALSE /\ done = FALSE /\ fdOk = FALSE
    /\ sampled = FALSE /\ visible = FALSE
    /\ polls = 0 /\ result = FALSE

MainSteps == RegsStart \/ WaitForTid \/ OpenTracepoint \/ SetDone \/ Join \/ Poll
ThreadSteps == SetTid \/ Spin \/ LastSleep

Init == HwInit /\ RegsInit

Next ==
    \/ HwNext /\ UNCHANGED regVars
    \/ (MainSteps \/ ThreadSteps \/ Publish) /\ UNCHANGED hwVars
    \/ hpc = "done" /\ mpc = "returned" /\ UNCHANGED vars

\* Both threads are scheduled while runnable; the visibility of a sample is
\* not relied on, as the poll loop has a timeout.
Spec ==
    /\ Init /\ [][Next]_vars
    /\ WF_vars(HwNext /\ UNCHANGED regVars)
    /\ WF_vars(MainSteps /\ UNCHANGED hwVars)
    /\ WF_vars(ThreadSteps /\ UNCHANGED hwVars)

(***************************************************************************)
(* Properties.                                                             *)
(***************************************************************************)
ProbesTypeOK ==
    /\ free \in [Online -> 0 .. MaxFree] /\ avail \in 0 .. MaxFree
    /\ hpc \in {"print", "check", "done"} /\ todo \in Seq(Online)
    /\ report \in [Online -> {Warning, Unprinted} \cup 0 .. MaxFree]
    /\ mpc \in {"start", "waitid", "open", "setdone", "join", "poll", "returned"}
    /\ tpc \in {"none", "setid", "spin", "last", "exited"}
    /\ polls \in 0 .. MaxPolls /\ result \in BOOLEAN

\* The hardware events the session opened on cpu c, counted selection by
\* selection.
RequestedOn(c) ==
    Cardinality({<<g, k>> \in UNION {{g} \X DOMAIN GroupEvents[g] : g \in Groups} :
                   /\ GroupEvents[g][k] = "hw"
                   /\ c \in (IF GroupCpus[g] = {} THEN Online ELSE GroupCpus[g])})

\* --print-hw-counter: once every online cpu is probed, each shows a count
\* no larger than its free counters, or a warning; with no probe failing
\* for another reason, each shows exactly its free counters.
HwCountersReported ==
    hpc = "done" /\ printHw =>
        \A c \in Online :
            /\ report[c] \in {Warning} \cup 0 .. free[c]
            /\ ~faults /\ hasCycles => report[c] = free[c]

\* The multiplexing warning after the session ("the number of hardware
\* events are more than the number of available CPU PMU hardware
\* counters") is logged when, and only when, some cpu carries more hardware
\* events than its PMU has free counters, as long as no probe fails for
\* another reason.
MultiplexWarningExact ==
    hpc = "done" /\ ~printHw /\ ~faults /\ hasCycles =>
        (warned <=> \E c \in Online : RequestedOn(c) > free[c])

\* The usleep after the spin loop: once the thread has exited, a sched-out
\* happened while the tracepoint fd was open, so the buffer holds a sample
\* whichever way the thread and the main thread interleaved.
SampleBeforeJoin ==
    tpc = "exited" /\ fdOk => sampled

\* A kernel that dumps the regs is answered false, once the tracepoint fd
\* was opened, only when all MaxPolls iterations of the loop found the
\* buffer empty: the sample was published too late for the timeout.
FalseNegativeOnlyOnTimeout ==
    mpc = "returned" /\ ~result /\ fdOk /\ regsOk => polls = MaxPolls

\* The probe returns: the thread sees done on every path, so the join
\* ends, and the poll loop is bounded.
RegsProbeReturns == <>(mpc = "returned")
=============================================================================
