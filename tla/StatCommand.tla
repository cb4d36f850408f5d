---------------------------- MODULE StatCommand ----------------------------
(***************************************************************************)
(* The counting session of StatCommand::Run (cmd_stat.cpp) around the     *)
(* EventSelectionSet: MonitorEachThread, OpenEventFiles, then the         *)
(* IOEventLoop with its callbacks (exit on signal, the --duration timer,  *)
(* the --interval print, CheckMonitoredTargets and the NewThreadMonitor   *)
(* scan), the final print and CloseEventFiles.                           *)
(*                                                                         *)
(* The monitored program is one process whose main thread is Pid; its     *)
(* threads are created and exit while simpleperf runs.  The loop is       *)
(* single-threaded: a callback runs to completion, so a scan's            *)
(* OpenEventFilesForThreads runs with phase leaving "loop" and returning  *)
(* to it, while the kernel keeps changing threads and cpus.               *)
(***************************************************************************)
EXTENDS EventSelectionSet

CONSTANTS
    InitialThreads,   \* threads of the -p process when simpleperf starts
    CommandLines,     \* the command lines a behaviour may start from
    MaxPrints         \* bound on interval prints in one behaviour

\* A command line: --per-thread, --monitor-new-thread, --interval != 0,
\* --duration != 0, and whether the target is a workload (stat -- cmd)
\* rather than -p.
CommandLine == [perThread : BOOLEAN, monitorNewThread : BOOLEAN, interval : BOOLEAN,
                duration : BOOLEAN, workload : BOOLEAN]

ASSUME /\ InitialThreads \subseteq Threads /\ InitialThreads # {}
       /\ CommandLines \subseteq CommandLine /\ CommandLines # {}
       \* ParseOptions, lines 887-892.
       /\ \A c \in CommandLines : c.monitorNewThread => c.perThread
       /\ MaxPrints \in Nat \ {0}

\* The monitored process: -p Pid, or the forked workload, whose pid is
\* the id of its main thread.
Pid == Min(InitialThreads)

VARIABLES
    born,        \* kernel: threads created so far
    tids,        \* event_selection_set_.threads_
    procs,       \* event_selection_set_.processes_ = {Pid} (TRUE) or {} (FALSE)
    threadInfo,  \* the tids that are keys of thread_info_
    prints,      \* interval prints so far
    exitReason,  \* why RunLoop returned: "none", "signal", "duration", "targets", "child"
    cmd,         \* the command line
    started,     \* Workload::Start has let the forked child exec
    reaped       \* the exited process has been reaped by its parent

statVars == <<born, tids, procs, threadInfo, prints, exitReason, cmd, started, reaped>>
allVars == <<vars, statVars>>

(***************************************************************************)
(* The kernel: the process creates threads, threads exit, cpus hotplug.   *)
(***************************************************************************)
\* The forked workload blocks on a pipe until Workload::Start; a -p
\* process runs from the start.
ProcessRuns == ~cmd.workload \/ started

\* A live process creates a thread.
Spawn(t) ==
    /\ t \in Threads \ born
    /\ alive # {} /\ ProcessRuns
    /\ born' = born \cup {t}
    /\ alive' = alive \cup {t}
    /\ UNCHANGED <<online, hotplugs, offlined, kfds, eventFds, pending, call, phase>>
    /\ UNCHANGED <<tids, procs, threadInfo, prints, exitReason, cmd, started, reaped>>

\* The parent of a -p process waits for it once its last thread has
\* exited.  The workload's parent is simpleperf, which reaps it only in
\* the Workload destructor, after Run.
Reap ==
    /\ alive = {} /\ ~reaped /\ ~cmd.workload
    /\ reaped' = TRUE
    /\ UNCHANGED <<vars, born, tids, procs, threadInfo, prints, exitReason, cmd, started>>

\* Fault variant of IsThreadAlive: every thread ever created counts as
\* alive, as if exited threads lingered like the unreaped leader.
IsThreadAliveUnreaped(t) == t \in born

\* IsThreadAlive(tid) tests that /proc/<tid> exists.  The directory of a
\* thread group leader stays while any thread of its process lives, and
\* after the last one exits until the process is reaped.
IsThreadAlive(t) == t \in alive \/ (t = Pid /\ ~reaped)

\* GetThreadsInProcess(Pid) lists /proc/<Pid>/task: the live threads, and
\* the group leader, which stays listed as a zombie until it is reaped.
GetThreadsInProcess == IF reaped THEN {} ELSE alive \cup {Pid}

\* PrepareThreads(processes_, threads_): threads_ plus the threads of every
\* monitored process.
PrepareThreads == tids \cup (IF procs THEN GetThreadsInProcess ELSE {})

(***************************************************************************)
(* StatCommand::Run before the loop.                                       *)
(***************************************************************************)
\* MonitorEachThread: the threads of the monitored process become the
\* monitored threads and thread_info_ keys; the process is dropped.
MonitorEachThread ==
    /\ phase = "setup"
    /\ cmd.perThread
    /\ tids' = GetThreadsInProcess
    /\ threadInfo' = GetThreadsInProcess
    /\ procs' = FALSE
    /\ phase' = "idle"
    /\ UNCHANGED <<envVars, kfds, eventFds, pending, call, born, prints, exitReason, cmd,
                   started, reaped>>

\* Without --per-thread the process itself stays monitored.
SkipMonitorEachThread ==
    /\ phase = "setup"
    /\ ~cmd.perThread
    /\ phase' = "idle"
    /\ UNCHANGED <<envVars, kfds, eventFds, pending, call, statVars>>

\* Step 3: OpenEventFiles on the monitored targets.
OpenSessionFiles ==
    /\ OpenEventFilesFor(PrepareThreads)
    /\ UNCHANGED statVars

\* Step 4 and 5: register the callbacks, start the timers, let the
\* workload exec (Workload::Start) and run the loop.
StartLoop ==
    /\ phase = "opened"
    /\ phase' = "loop"
    /\ started' = cmd.workload
    /\ UNCHANGED <<envVars, kfds, eventFds, pending, call, born, tids, procs, threadInfo,
                   prints, exitReason, cmd, reaped>>

\* Workload::Start fails: Run returns false and the destructor closes the
\* event files.
StartWorkloadFails ==
    /\ phase = "opened"
    /\ cmd.workload
    /\ phase' = "failed"
    /\ UNCHANGED <<envVars, kfds, eventFds, pending, call, statVars>>

(***************************************************************************)
(* Loop callbacks.  Each runs to completion before the next.               *)
(***************************************************************************)
ExitLoop(reason) ==
    /\ phase' = "exited"
    /\ exitReason' = reason
    /\ UNCHANGED <<envVars, kfds, eventFds, pending, call, born, tids, procs,
                   threadInfo, prints, cmd, started, reaped>>

\* Fault variant of ExitSignals: SIGCHLD left out.
ExitSignalsNoChld == {"SIGINT", "SIGTERM", "SIGHUP"}

\* The signals AddSignalEvents hands to exit_loop_callback.
ExitSignals == {"SIGCHLD", "SIGINT", "SIGTERM", "SIGHUP"}

\* SIGINT, SIGTERM or SIGHUP from the user.
ExitOnSignal ==
    /\ phase = "loop"
    /\ ExitLoop("signal")

\* The --duration timer.
DurationExpired ==
    /\ phase = "loop"
    /\ cmd.duration
    /\ ExitLoop("duration")

\* The --interval timer: print_counters reads every fd and prints.
IntervalPrint ==
    /\ phase = "loop"
    /\ cmd.interval /\ prints < MaxPrints
    /\ prints' = prints + 1
    /\ UNCHANGED <<envVars, kfds, eventFds, pending, call, phase, born, tids, procs,
                   threadInfo, exitReason, cmd, started, reaped>>

\* HasSampler(): some selection holds an fd.
HasSampler == \E s \in Sel : eventFds[s] # <<>>

\* Fault variant of TargetAlive: the loop over threads_ exits at the first
\* target that is gone.
TargetAliveAll == (\A t \in tids : IsThreadAlive(t)) /\ (procs => IsThreadAlive(Pid))

\* A monitored target whose /proc entry is still there.
TargetAlive == (\E t \in tids : IsThreadAlive(t)) \/ (procs /\ IsThreadAlive(Pid))

\* CheckMonitoredTargets, registered when the user named the targets (-p):
\* exits the loop when no target is alive.  Otherwise the callback changes
\* nothing.
CheckMonitoredTargets ==
    /\ phase = "loop"
    /\ ~cmd.workload
    /\ ~HasSampler \/ ~TargetAlive
    /\ ExitLoop("targets")

\* SIGCHLD: the workload has exited (it is reaped only after Run).
ChildExited ==
    /\ phase = "loop"
    /\ "SIGCHLD" \in ExitSignals
    /\ cmd.workload /\ alive = {}
    /\ ExitLoop("child")

\* Fault variant of NewTids: every thread of the process, as if the
\* threads_.count(tid) == 0 test were missing.
NewTidsAll == GetThreadsInProcess

\* The threads of the monitored process that are not keys of thread_info_.
NewTids == GetThreadsInProcess \ threadInfo

\* NewThreadMonitor::Scan: threads of the process that are not keys of
\* thread_info_ are added to it and get event files; the result of
\* OpenEventFilesForThreads is ignored, so the call returns to the loop.
\* A scan that finds no new thread changes nothing.
Scan ==
    LET new == NewTids
    IN /\ phase = "loop"
       /\ cmd.monitorNewThread
       /\ new # {}
       /\ threadInfo' = threadInfo \cup new
       /\ BeginOpen(new, "loop")
       /\ UNCHANGED <<envVars, kfds, eventFds, pending, born, tids, procs, prints, exitReason,
                      cmd, started, reaped>>

\* ReadCounter fails to read an fd, so ReadCounters and print_counters
\* return false.  From the --interval timer, a callback returning false
\* aborts RunLoop; for the final print (line 727) Run returns at once.
\* Either way Run returns false and the destructor closes the files.
PrintFails ==
    /\ \/ phase = "loop" /\ cmd.interval
       \/ phase = "exited" /\ ~cmd.interval
    /\ phase' = "failed"
    /\ UNCHANGED <<envVars, kfds, eventFds, pending, call, statVars>>

(***************************************************************************)
(* After the loop.                                                         *)
(***************************************************************************)
\* Step 6: without --interval the counters are printed once.
FinalPrint ==
    /\ phase = "exited"
    /\ phase' = "done"
    /\ prints' = IF cmd.interval THEN prints ELSE prints + 1
    /\ UNCHANGED <<envVars, kfds, eventFds, pending, call, born, tids, procs,
                   threadInfo, exitReason, cmd, started, reaped>>

\* Step 7 CloseEventFiles, or the destructor when OpenEventFiles failed.
CloseSession ==
    /\ phase \in {"done", "failed"}
    /\ DropEventFds
    /\ phase' = "closed"
    /\ UNCHANGED <<envVars, pending, call, statVars>>

SessionInit ==
    /\ cmd \in CommandLines
    /\ alive = IF cmd.workload THEN {Pid} ELSE InitialThreads
    /\ born = alive
    /\ online \in SUBSET Cpus \ {{}}
    /\ offlined = Cpus \ online
    /\ hotplugs = 0
    /\ kfds = {}
    /\ eventFds = [s \in Sel |-> <<>>]
    /\ pending = <<>>
    /\ call = [threads |-> <<>>, snap |-> {}, g |-> 1, pcpus |-> <<>>, ti |-> 1, ci |-> 1,
               success |-> 0, from |-> "main"]
    /\ phase = "setup"
    /\ tids = {}
    /\ procs = TRUE
    /\ threadInfo = {}
    /\ prints = 0
    /\ exitReason = "none"
    /\ started = FALSE
    /\ reaped = FALSE

SessionKernel ==
    \/ \E t \in Threads : ThreadExit(t) /\ ProcessRuns /\ UNCHANGED statVars
    \/ \E c \in Cpus : (CpuOffline(c) \/ CpuOnline(c)) /\ UNCHANGED statVars
    \/ \E t \in Threads : Spawn(t)
    \/ Reap

\* The steps of OpenEventFilesForThreads, shared by the open and the scans.
OpenSteps ==
    \/ StartGroup \/ StartGroupCpuOffline \/ OpenSelection \/ EndGroup \/ ApplyFilters
    \/ ApplyFiltersFail

\* The program's own steps: every one is taken once enabled, since the
\* loop keeps running its timers.  Neither a signal from the user nor the
\* --duration timer, which may be set far in the future, is relied on.
Program ==
    \/ MonitorEachThread \/ SkipMonitorEachThread \/ OpenSessionFiles \/ StartLoop
    \/ StartWorkloadFails
    \/ OpenSteps /\ UNCHANGED statVars
    \/ IntervalPrint \/ CheckMonitoredTargets \/ ChildExited \/ Scan
    \/ FinalPrint \/ CloseSession

SessionNext ==
    \/ SessionKernel
    \/ Program
    \/ ExitOnSignal \/ DurationExpired \/ PrintFails
    \/ phase = "closed" /\ UNCHANGED allVars

SessionSpec ==
    /\ SessionInit /\ [][SessionNext]_allVars
    /\ WF_allVars(Program)
    /\ WF_allVars(CheckMonitoredTargets)

(***************************************************************************)
(* Refinement of EventFilesAbstract over the whole session: the set is    *)
(* idle until OpenEventFiles, open from its return to the close, and     *)
(* busy during every call, the scans' included.                          *)
(***************************************************************************)
SessionStatus ==
    CASE phase \in {"setup", "idle"}                 -> "idle"
      [] phase \in {"group", "open", "filter"}       -> "busy"
      [] phase \in {"opened", "loop", "exited", "done"} -> "opened"
      [] OTHER                                      -> phase

SessionAbs == INSTANCE EventFilesAbstract
         WITH opened <- [s \in Sel |-> {<<r.tid, r.cpu>> : r \in ToSet(eventFds[s])}],
              status <- SessionStatus,
              targets <- ToSet(call.threads),
              caller <- IF call.from = "main" THEN "idle" ELSE "opened"

(***************************************************************************)
(* Properties.                                                             *)
(***************************************************************************)
\* Spec 8, CheckMonitoredTargets: the loop stops for lack of targets only
\* when no thread of the monitored process is alive, although threads_ is
\* fixed by MonitorEachThread and never learns the threads that the
\* NewThreadMonitor adds.
NoEarlyStop ==
    exitReason = "targets" => alive = {}

\* Some fd of a selection with a tracepoint filter lacks the filter.
FilterMissing == \E s \in Filtered : \E i \in DOMAIN eventFds[s] : ~eventFds[s][i].filtered

\* Lines 405-407: "It's okay for OpenEventFilesForThreads() to return
\* false.  It happens when the new threads exit before we can open event
\* files for them."  Scan has already made the new threads keys of
\* thread_info_, so it never offers them again; the call it ignores must
\* fail only for threads that are gone.  A scan's call returning false,
\* from the group loop or from ApplyFilters with an fd left unfiltered,
\* finds every thread of its batch exited.
ScanFailsOnlyForExitedThreads ==
    [][(/\ phase \in {"group", "open"} \/ (phase = "filter" /\ FilterMissing')
        /\ phase' = "loop") => (ToSet(call.threads) \cap alive = {})]_allVars

\* The monitored process is gone: the workload has exited, or a -p
\* process has exited and been reaped (a zombie keeps /proc/<Pid>).
ProcessGone == alive = {} /\ (cmd.workload \/ reaped)

\* Once the monitored process is gone the session ends, by SIGCHLD for a
\* workload and by the CheckMonitoredTargets timer for -p: the loop
\* exits, the counters are printed and the files are closed.
TargetsGoneEndsSession ==
    (phase = "loop" /\ ProcessGone) ~> (phase = "closed")

\* Scans open only threads that are not keys of thread_info_, which
\* MonitorEachThread fills with the threads it opens: no thread is opened
\* twice, so no selection holds two fds for one (tid, cpu) and no count is
\* summed twice into a print.
NoDuplicateCounters ==
    \A s \in Sel : \A i, j \in DOMAIN eventFds[s] :
        i # j => <<eventFds[s][i].tid, eventFds[s][i].cpu>> # <<eventFds[s][j].tid, eventFds[s][j].cpu>>

\* The session, the NewThreadMonitor's scans included, implements the
\* safety part of EventFilesAbstract: a (tid, cpu) pair enters every
\* selection of its group at once and only once, for a thread of the
\* running call that is alive, on a cpu online and allowed for the group;
\* no fd is dropped before CloseEventFiles.
SessionRefinesAbstract == SessionAbs!ASafety
=============================================================================
