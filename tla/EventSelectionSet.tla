------------------------- MODULE EventSelectionSet -------------------------
(***************************************************************************)
(* Opening, filtering and closing the perf event files of an              *)
(* EventSelectionSet (event_selection_set.cpp).                           *)
(*                                                                         *)
(* OpenEventFilesForThreads walks the groups in order; for every (tid,    *)
(* cpu) pair it opens the group's selections as one transaction           *)
(* (OpenEventFilesOnGroup): the first fd is the group leader, a failed    *)
(* open closes the fds already opened for that pair.  The kernel side    *)
(* races with it: threads exit, cpus go offline and online, and the       *)
(* process runs out of fd numbers.  Each perf_event_open is one step, so  *)
(* those changes interleave with the opens.                               *)
(***************************************************************************)
EXTENDS Integers, Sequences, FiniteSets, SequencesExt, FiniteSetsExt

CONSTANTS
    Threads,      \* tids that can be monitored (pid_t, ordered as in std::set)
    Cpus,         \* cpu ids of the machine
    GroupSize,    \* GroupSize[g]: number of selections of group g
    GroupCpus,    \* GroupCpus[g]: group.cpus set by --cpu ({} = none)
    AllowedCpus,  \* AllowedCpus[g]: PMU cpumask of the group's first selection ({} = none)
    Filtered,     \* selections <<g, k>> carrying a tracepoint filter
    MaxFds,       \* fd numbers the process may hold (RLIMIT_NOFILE)
    MaxHotplug,   \* bound on cpu hotplug events in one behaviour
    NoFd          \* group_fd == nullptr

Groups == 1 .. Len(GroupSize)
Sel == UNION {{<<g, k>> : k \in 1 .. GroupSize[g]} : g \in Groups}
FdNums == 0 .. (MaxFds - 1)

ASSUME /\ Threads \subseteq Int /\ Cpus \subseteq Int
       /\ \A g \in Groups : GroupSize[g] \in Nat \ {0}
       /\ \A g \in Groups : GroupCpus[g] \subseteq Cpus /\ AllowedCpus[g] \subseteq Cpus
       /\ Filtered \subseteq Sel
       /\ MaxFds \in Nat \ {0} /\ MaxHotplug \in Nat
       /\ NoFd \notin Int

FdRec == [fd : FdNums, tid : Threads, cpu : Cpus, leader : FdNums \cup {NoFd},
          filtered : BOOLEAN]

VARIABLES
    alive,      \* kernel: threads that have not exited
    online,     \* kernel: cpus online
    hotplugs,   \* number of hotplug events so far
    kfds,       \* kernel: fd numbers open in the process
    eventFds,   \* eventFds[s]: selection.event_fds of selection s
    pending,    \* event_fds local to the running OpenEventFilesOnGroup
    call,       \* locals of the running OpenEventFilesForThreads
    phase,      \* where the command is
    offlined    \* history: cpus that were offline at some point

envVars == <<alive, online, hotplugs, offlined>>
vars == <<alive, online, hotplugs, kfds, eventFds, pending, call, phase, offlined>>

SortedSeq(S) == SetToSortSeq(S, <)

\* All fd records held by the selections of group g.
GroupRecs(g) == UNION {ToSet(eventFds[<<g, k>>]) : k \in 1 .. GroupSize[g]}
AllRecs == UNION {GroupRecs(g) : g \in Groups}

\* Fault variant of RequestedCpus: the PMU cpumask not taking over the
\* group's cpu list.
RequestedCpusIgnoreAllowed(g) == GroupCpus[g]

\* Fault variant of RequestedCpus: group.cpus (--cpu) left out.
RequestedCpusNoCpuOption(g) == AllowedCpus[g]

\* The cpu list of group g, as computed at lines 748-753 (before the online check).
RequestedCpus(g) == IF AllowedCpus[g] # {} THEN AllowedCpus[g] ELSE GroupCpus[g]

\* The (tid, cpu) pairs for which group g holds fds.
OpenedPairs(g) == {<<r.tid, r.cpu>> : r \in ToSet(eventFds[<<g, 1>>])}

(***************************************************************************)
(* The kernel.                                                             *)
(***************************************************************************)
ThreadExit(t) ==
    /\ t \in alive
    /\ alive' = alive \ {t}
    /\ UNCHANGED <<online, hotplugs, offlined, kfds, eventFds, pending, call, phase>>

\* The machine always keeps one cpu online.
CpuOffline(c) ==
    /\ c \in online /\ online # {c} /\ hotplugs < MaxHotplug
    /\ online' = online \ {c}
    /\ hotplugs' = hotplugs + 1
    /\ offlined' = offlined \cup {c}
    /\ UNCHANGED <<alive, kfds, eventFds, pending, call, phase>>

CpuOnline(c) ==
    /\ c \in Cpus \ online /\ hotplugs < MaxHotplug
    /\ online' = online \cup {c}
    /\ hotplugs' = hotplugs + 1
    /\ UNCHANGED <<alive, offlined, kfds, eventFds, pending, call, phase>>

\* perf_event_open(attr, tid, cpu, group_fd): fails (ESRCH, ENODEV, EMFILE)
\* when the thread has exited, the cpu is offline or no fd number is free;
\* otherwise returns the lowest free fd number.
OpenSucceeds(tid, cpu) == tid \in alive /\ cpu \in online /\ kfds # FdNums
LowestFreeFd == Min(FdNums \ kfds)

(***************************************************************************)
(* OpenEventFilesForThreads(threads).                                      *)
(***************************************************************************)

\* Start a call for the given thread set: snapshot GetOnlineCpus() and
\* enter the first group.  "from" is the caller the call returns to.
BeginOpen(threads, from) ==
    /\ call' = [threads |-> SortedSeq(threads), snap |-> online, g |-> 1,
                pcpus |-> <<>>, ti |-> 1, ci |-> 1, success |-> 0, from |-> from]
    /\ phase' = "group"

\* Where the command goes when the call returns true (ok) or false.
Return(ok) ==
    IF call.from = "main" THEN (IF ok THEN "opened" ELSE "failed") ELSE call.from

\* OpenEventFiles: PrepareThreads() has read the thread set, then opens.
OpenEventFilesFor(threads) ==
    /\ phase = "idle"
    /\ BeginOpen(threads, "main")
    /\ UNCHANGED <<envVars, kfds, eventFds, pending>>

\* With -t, the monitored threads are the tids named on the command line,
\* any of which may have exited since.
OpenEventFiles == \E ts \in SUBSET Threads \ {{}} : OpenEventFilesFor(ts)

\* Choose the group's cpu list; an explicit list must be online in the
\* snapshot taken at the start of the call.
StartGroup ==
    LET g == call.g
        req == RequestedCpus(g)
    IN /\ phase = "group"
       /\ req = {} \/ req \subseteq call.snap
       /\ call' = [call EXCEPT !.pcpus = SortedSeq(IF req = {} THEN call.snap ELSE req),
                               !.ti = 1, !.ci = 1, !.success = 0]
       /\ phase' = "open"
       /\ UNCHANGED <<envVars, kfds, eventFds, pending>>

StartGroupCpuOffline ==
    /\ phase = "group"
    /\ RequestedCpus(call.g) # {}
    /\ ~(RequestedCpus(call.g) \subseteq call.snap)
    /\ phase' = Return(FALSE)
    /\ UNCHANGED <<envVars, kfds, eventFds, pending, call>>

\* Fault variants of NextPair: an inner loop bound that is one too long,
\* and one that stops before the last cpu.
NextPairPastEnd(c) ==
    IF c.ci <= Len(c.pcpus) THEN [c EXCEPT !.ci = c.ci + 1]
    ELSE [c EXCEPT !.ti = c.ti + 1, !.ci = 1]
NextPairSkipLastCpu(c) ==
    IF c.ci + 1 < Len(c.pcpus) THEN [c EXCEPT !.ci = c.ci + 1]
    ELSE [c EXCEPT !.ti = c.ti + 1, !.ci = 1]

\* Move to the next (tid, cpu) pair of the nested loop.
NextPair(c) ==
    IF c.ci < Len(c.pcpus) THEN [c EXCEPT !.ci = c.ci + 1]
    ELSE [c EXCEPT !.ti = c.ti + 1, !.ci = 1]

\* Fault variant of GroupFd: every event opened with group_fd = nullptr.
GroupFdNull == NoFd

\* The group_fd passed to the next open: the first fd of the transaction.
GroupFd == IF pending = <<>> THEN NoFd ELSE pending[1].fd

\* Fault variant of UnwindPending: the opened fds released, not closed.
UnwindPendingKeep == kfds

\* Leaving OpenEventFilesOnGroup by "return false" destroys its event_fds.
UnwindPending == kfds \ {p.fd : p \in ToSet(pending)}

\* One EventFd::OpenEventFile of OpenEventFilesOnGroup: selection k of the
\* current group for the current (tid, cpu).  The last successful open of
\* the transaction moves the fds into the selections.
OpenSelection ==
    LET g == call.g
        tid == call.threads[call.ti]
        cpu == call.pcpus[call.ci]
        k == Len(pending) + 1
        rec == [fd |-> LowestFreeFd, tid |-> tid, cpu |-> cpu, filtered |-> FALSE,
                leader |-> GroupFd]
        txn == Append(pending, rec)
    IN /\ phase = "open"
       /\ call.ti <= Len(call.threads)
       /\ IF OpenSucceeds(tid, cpu)
          THEN /\ kfds' = kfds \cup {rec.fd}
               /\ IF k < GroupSize[g]
                  THEN /\ pending' = txn
                       /\ UNCHANGED <<eventFds, call>>
                  ELSE /\ eventFds' = [s \in Sel |->
                                         IF s[1] = g THEN Append(eventFds[s], txn[s[2]])
                                         ELSE eventFds[s]]
                       /\ pending' = <<>>
                       /\ call' = NextPair([call EXCEPT !.success = call.success + 1])
          ELSE /\ kfds' = UnwindPending
               /\ pending' = <<>>
               /\ call' = NextPair(call)
               /\ UNCHANGED eventFds
       /\ UNCHANGED <<envVars, phase>>

\* Fault variant of GroupFailed: success_count never checked.
GroupFailedNever == FALSE

\* No (tid, cpu) pair of the group could be opened.
GroupFailed == call.success = 0

\* After the loop: a group with no opened pair fails the call.
EndGroup ==
    /\ phase = "open"
    /\ call.ti > Len(call.threads)
    /\ phase' = IF GroupFailed THEN Return(FALSE)
                ELSE IF call.g < Len(GroupSize) THEN "group"
                ELSE "filter"
    /\ call' = IF ~GroupFailed /\ call.g < Len(GroupSize)
               THEN [call EXCEPT !.g = call.g + 1] ELSE call
    /\ UNCHANGED <<envVars, kfds, eventFds, pending>>

\* ApplyFilters: no address filters in a counting session, so only
\* ApplyTracepointFilters, which sets the filter on every fd of a filtered
\* selection.
ApplyFilters ==
    /\ phase = "filter"
    /\ eventFds' = [s \in Sel |->
                      IF s \in Filtered
                      THEN [i \in DOMAIN eventFds[s] |-> [eventFds[s][i] EXCEPT !.filtered = TRUE]]
                      ELSE eventFds[s]]
    /\ phase' = Return(TRUE)
    /\ UNCHANGED <<envVars, kfds, pending, call>>

\* Selection a comes before selection b in the walk over groups_ and
\* group.selections.
SelBefore(a, b) == a[1] < b[1] \/ (a[1] = b[1] /\ a[2] < b[2])

\* SetFilter (the PERF_EVENT_IOC_SET_FILTER ioctl) fails on fd i of the
\* filtered selection f: ApplyTracepointFilters returns false at once, so
\* the fds walked before it have the filter and the rest keep what they had.
ApplyFiltersFail ==
    /\ phase = "filter"
    /\ \E f \in Filtered : \E i \in 1 .. Len(eventFds[f]) :
          eventFds' = [s \in Sel |->
                         IF s \in Filtered /\ (SelBefore(s, f) \/ s = f)
                         THEN [j \in DOMAIN eventFds[s] |->
                                 IF SelBefore(s, f) \/ j < i
                                 THEN [eventFds[s][j] EXCEPT !.filtered = TRUE]
                                 ELSE eventFds[s][j]]
                         ELSE eventFds[s]]
    /\ phase' = Return(FALSE)
    /\ UNCHANGED <<envVars, kfds, pending, call>>

\* Clearing every selection's event_fds closes all fds.
DropEventFds ==
    /\ eventFds' = [s \in Sel |-> <<>>]
    /\ kfds' = {}

\* CloseEventFiles (or the destructor after a failed open) drops every fd.
CloseEventFiles ==
    /\ phase \in {"opened", "failed"}
    /\ DropEventFds
    /\ phase' = "closed"
    /\ UNCHANGED <<envVars, pending, call>>

Terminated == phase = "closed" /\ UNCHANGED vars

Init ==
    /\ alive = Threads
    /\ online \in SUBSET Cpus \ {{}}
    /\ offlined = Cpus \ online
    /\ hotplugs = 0
    /\ kfds = {}
    /\ eventFds = [s \in Sel |-> <<>>]
    /\ pending = <<>>
    /\ call = [threads |-> <<>>, snap |-> {}, g |-> 1, pcpus |-> <<>>, ti |-> 1, ci |-> 1,
               success |-> 0, from |-> "main"]
    /\ phase = "idle"

Kernel ==
    \/ \E t \in Threads : ThreadExit(t)
    \/ \E c \in Cpus : CpuOffline(c) \/ CpuOnline(c)

Command ==
    \/ OpenEventFiles \/ StartGroup \/ StartGroupCpuOffline \/ OpenSelection
    \/ EndGroup \/ ApplyFilters \/ ApplyFiltersFail \/ CloseEventFiles

Next == Kernel \/ Command \/ Terminated

\* The command is one process that keeps running while it has work.
Spec == Init /\ [][Next]_vars /\ WF_vars(Command)

(***************************************************************************)
(* Refinement of EventFilesAbstract: a selection's pairs are those of its *)
(* event_fds; the call is "busy" from the snapshot to its return.          *)
(***************************************************************************)
Abs == INSTANCE EventFilesAbstract
         WITH opened <- [s \in Sel |-> {<<r.tid, r.cpu>> : r \in ToSet(eventFds[s])}],
              status <- IF phase \in {"group", "open", "filter"} THEN "busy" ELSE phase,
              targets <- ToSet(call.threads),
              caller <- IF call.from = "main" THEN "idle" ELSE "opened"

(***************************************************************************)
(* Properties.                                                             *)
(***************************************************************************)

TypeOK ==
    /\ alive \subseteq Threads /\ online \subseteq Cpus /\ offlined \subseteq Cpus
    /\ hotplugs \in 0 .. MaxHotplug
    /\ kfds \subseteq FdNums
    /\ eventFds \in [Sel -> Seq(FdRec)]
    /\ pending \in Seq(FdRec)
    /\ phase \in {"idle", "group", "open", "filter", "opened", "failed", "closed"}
    /\ call.ti \in 1 .. Len(call.threads) + 1
    /\ call.ci \in 1 .. Max({1, Len(call.pcpus)})

\* Spec 8.3, OpenEventFilesOnGroup: in every group the selections hold fds
\* for the same (tid, cpu) pairs in the same order, and the i-th fd of every
\* follower was opened with the i-th fd of the first selection as group
\* leader, which itself has no leader.
GroupLeaderConsistency ==
    \A g \in Groups : \A k \in 1 .. GroupSize[g] :
        LET lead == eventFds[<<g, 1>>]
            sel == eventFds[<<g, k>>]
        IN /\ Len(sel) = Len(lead)
           /\ \A i \in DOMAIN sel :
                 /\ sel[i].tid = lead[i].tid /\ sel[i].cpu = lead[i].cpu
                 /\ sel[i].leader = IF k = 1 THEN NoFd ELSE lead[i].fd

\* OpenEventFilesOnGroup unwinds a failed transaction: every fd number the
\* process holds belongs to exactly one selection or to the open
\* transaction, so no perf event fd leaks when an open fails half-way.
NoFdLeak ==
    /\ kfds = {r.fd : r \in AllRecs} \cup {p.fd : p \in ToSet(pending)}
    /\ Cardinality(kfds) = Len(pending) + MapThenSumSet(LAMBDA s : Len(eventFds[s]), Sel)

\* Spec 8.1 and lines 769-780: when OpenEventFiles succeeds, every selection
\* has at least one fd.
OpenedCoversEverySelection ==
    phase = "opened" => \A s \in Sel : Len(eventFds[s]) > 0

\* OpenEventFilesForThreads implements EventFilesAbstract: the fds of a
\* (tid, cpu) pair appear in every selection of the group in one step and
\* never in part, only for a thread of the call alive at that moment on a
\* cpu online and allowed for the group (the PMU cpumask before --cpu);
\* a call that returns true leaves no selection empty; every call ends and
\* CloseEventFiles empties every selection.
OpenRefinesAbstract == Abs!ASpec

\* Lines 769-772: a (tid, cpu) pair is skipped only because the thread
\* exited or the cpu went offline.  So after a successful open every group
\* holds fds for each thread still alive on each of its cpus that stayed
\* online the whole time.
Completeness ==
    phase = "opened" =>
        \A g \in Groups :
            \A t \in alive \cap ToSet(call.threads) :
                \A c \in (IF RequestedCpus(g) = {} THEN call.snap ELSE RequestedCpus(g))
                          \ offlined :
                    <<t, c>> \in OpenedPairs(g)
=============================================================================
