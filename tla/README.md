# TLA+ models of simpleperf stat

This directory holds TLA+ specifications of the counting side of simpleperf:
`simpleperf stat` (`src/extras-refs_heads_main-simpleperf/cmd_stat.cpp`) and the
`EventSelectionSet` it drives (`event_selection_set.cpp`). TLC checks every
module. `PROJECT.json` lists the runs, the mutants, the map from definitions to
source lines, the findings and the hazards.

## The system

| Part | Source | State and operations | Model |
|---|---|---|---|
| Event selection set | `event_selection_set.cpp` | groups of selections; each selection holds `event_fds`, one per (tid, cpu). `OpenEventFilesForThreads` snapshots the online cpus, then opens every group for every pair as one transaction (`OpenEventFilesOnGroup`). `ApplyFilters`, `ReadCounters`, `CloseEventFiles`, `CheckMonitoredTargets` | `EventSelectionSet` |
| Stat session | `cmd_stat.cpp` `StatCommand::Run`, `MonitorEachThread`, `NewThreadMonitor`; `IOEventLoop.h` | targets (`threads_`, `processes_`), `thread_info_`, the loop's callbacks: exit on signal, the `--duration` timer, the `--interval` print, the target check, the new-thread scan | `StatCommand` |
| Building the selection set | `cmd_stat.cpp` `ParseOptions`; `event_selection_set.cpp` `AddEventGroup`, `SetCpusForNewEvents`, `SetTracepointFilter`, `BuildAndCheckEventSelection` | the options are pulled, then the ordered `-e`, `--group`, `--cpu`, `--tp-filter` options build the groups, then the final checks run and Run branches | `SelectionBuilder` |
| Counter summaries | `cmd_stat.cpp` `CounterSummaries`, `AdjustToIntervalOnlyValues`, `ShowCounters` | sums per event, the automatic u+k sums, the comments, interval deltas | `CounterSummaries`, `CounterIntervals` |
| Devfreq counters | `cmd_stat.cpp` `DevfreqCounters` | swaps `mem_latency` governors for `performance` and restores them in its destructor | `DevfreqCounters` |
| Hardware counter checks | `cmd_stat.cpp` 903-968, 1101-1117; `event_selection_set.cpp` 439-456 | `--print-hw-counter` counts each cpu's free PMU counters by probing; after the session, each cpu's hardware events are probed for multiplexing | `CapabilityProbes` |
| Tracepoint regs probe | `event_selection_set.cpp` 72-123 | a main thread and a probe thread: a tid handshake, a `done` flag, a join, then a bounded poll of the buffer | `CapabilityProbes` |
| Other capability probes | `event_selection_set.cpp` 42-70, 125-183 | each opens one probe event, or checks the kernel version, and returns a boolean | not modelled: one call, no control |
| Record-only options | `event_selection_set.cpp` (sample rate, branch sampling, DWARF, ETM, address filters, read thread) | used by `simpleperf record` | not modelled |
| Entry and security check | `main.cpp`; `cmd_stat.cpp` `StatCommand::Run` 575-597 | `AndroidSecurityCheck` reads and sets system properties shared by every simpleperf on the device; an app's uid is made non-dumpable; `Run` may hand the command to a simpleperf in the app's context (`--app`) | `SimpleperfMain` |
| Test files | | tests of commands whose code is not here | not modelled |

How they interact: `Run` parses the options into groups, then with
`--per-thread` replaces the monitored process by its threads
(`MonitorEachThread`). It opens the event files for those threads. Then it runs
the `IOEventLoop`. While the loop runs, the `NewThreadMonitor` scan calls
`OpenEventFilesForThreads` again for threads that appeared, and
`CheckMonitoredTargets` ends the loop once no target is alive. Meanwhile the
kernel creates and ends threads, takes cpus offline and online, and can run
out of fd numbers. Every `perf_event_open` is one step, so all of that
interleaves with the opens.

## Modules

### `EventSelectionSet.tla`

| Variable | Code |
|---|---|
| `alive`, `online`, `kfds` | the kernel: live threads, online cpus, the fd numbers the process holds |
| `eventFds[<<g, k>>]` | `groups_[g-1].selections[k-1].event_fds`; a record holds the fd number, tid, cpu, the group leader's fd (`group_fd`) and whether the tracepoint filter is set |
| `pending` | the local `event_fds` of a running `OpenEventFilesOnGroup` |
| `call` | the locals of `OpenEventFilesForThreads`: the sorted thread list, the `online_cpus` snapshot, the group, `pcpus`, both loop indices, `success_count`, and the caller it returns to |
| `phase` | the point in the control flow |
| `offlined` | a history variable: the cpus that were offline at some time |

Actions:
- `OpenEventFiles` opens for the threads of `PrepareThreads`: alone, any non-empty `-t` list of tids, some of which may have exited.
- `StartGroup` and `StartGroupCpuOffline` choose the cpu list and run the online check (lines 747-758).
- `OpenSelection` is one `EventFd::OpenEventFile` in `OpenEventFilesOnGroup`: one open of the transaction, with its commit or unwind.
- `EndGroup` checks `success_count`.
- `ApplyFilters` sets the tracepoint filters. `ApplyFiltersFail` is a `SetFilter` ioctl failing on one fd: the fds walked before it (groups, then selections, then fds, `SelBefore`) have the filter, the rest keep what they had, and the call returns false.
- `CloseEventFiles`.
- The kernel actions: `ThreadExit`, `CpuOffline`, `CpuOnline`.

`perf_event_open` fails when the thread has exited, the cpu is offline or every
fd number is taken. Otherwise it returns the lowest free number.

### `EventFilesAbstract.tla` and the refinement

`EventFilesAbstract` is what an open promises, with no loops, fd numbers or
transactions. Each selection holds a set of (tid, cpu) pairs. `AddPair`
puts a pair into every selection of a group in one step, only for a thread of
the call that is alive and a cpu that is online and allowed for the group.
`Finish(TRUE)` needs every selection to be non-empty, and `Close` empties
them. `EventSelectionSet` instantiates it as `Abs`. Its refinement mapping
takes a selection's pairs from its `event_fds`, and maps the phases `group`,
`open` and `filter` to `busy`. The `open_events` run checks
`OpenRefinesAbstract == Abs!ASpec`, fairness included: the detailed steps
that commit a transaction are the abstract `AddPair`, and every other
detailed step is an abstract step or a stutter.

The abstract spec also allows what a session does around the open:
- `Begin` from `opened`: a further call, as the `NewThreadMonitor` makes.
  It returns to `opened` whatever its result (`caller`).
- Threads are created.
- `Abandon`: the owner fails with the files open (`Workload::Start` failing).

`StatCommand` instantiates it as `SessionAbs`. `SessionStatus` maps
`setup`/`idle` to `idle`, the call's phases to `busy`, and everything from
`opened` to `done` to `opened`. The `session` run checks
`SessionRefinesAbstract == SessionAbs!ASafety`, the safety part only: a `-p`
session without `--duration` may rightly run until a signal that never comes.
The mapping takes sets of pairs, so it cannot see a second fd for a pair
already counted. Opening a scan's threads twice would go unnoticed by this
property.

### `StatCommand.tla`

It EXTENDS `EventSelectionSet` and adds the session. `Init` picks the
command line from the constant `CommandLines`: `--per-thread`,
`--monitor-new-thread`, `--interval`, `--duration`, and whether the target is
`-p Pid` or a workload (`stat -- cmd`). The actions are:
- the kernel's `Spawn` of new threads, and `Reap`: the parent of a `-p`
  process waits for it;
- the workload: it blocks until `StartLoop` runs `Workload::Start`
  (`ProcessRuns`), and `StartWorkloadFails` covers the start failing;
- `MonitorEachThread` and `SkipMonitorEachThread`;
- `OpenSessionFiles` and `StartLoop`;
- the callbacks `ExitOnSignal`, `DurationExpired`, `IntervalPrint`, `CheckMonitoredTargets` (registered only for `-p`), `ChildExited` (SIGCHLD, one of `ExitSignals`) and `Scan`;
- `PrintFails`: `ReadCounter` cannot read an fd. From the interval timer
  the callback's `false` aborts the loop (spec 4.5). Otherwise the final print
  fails. Either way `Run` returns false and the destructor closes the files;
- `FinalPrint` and `CloseSession`.

`Scan` reuses the open steps of `EventSelectionSet`: the call returns to the
loop whatever its result, as the code ignores it. `NewTids` is the scan's
filter: threads of the process that are not yet keys of `thread_info_`.

`IsThreadAlive` and `GetThreadsInProcess` live in `environment.cpp`, which is
not in this repository. They are modelled on what they read from `/proc`. The
directory of a thread group leader stays, and the leader stays listed in
`/proc/<pid>/task`, while any thread of its process lives. After the last
thread exits, they stay until the parent reaps the process. A workload is
reaped only by the `Workload` destructor, after `Run`.

### `SelectionBuilder.tla`

`StatCommand::ParseOptions` and the start of `Run`:
- `PullOptions` covers lines 744-829. A pull may fail: a bad `--duration`,
  `--interval`, `-p`, `-t`, probe or `--tracepoint-events` file. Otherwise it
  keeps `--app`, `--in-app` and whether the user is root (`opts`).
  `CheckEventType` (lines 831-835) is computed from them. It is false for a
  non-root shell given `--app`, and then `BuildAndCheckEventSelection` skips
  the kernel support check (`Unsupported`).

The ordered options follow, one action per option:
- `CpuOption` is `SetCpusForNewEvents`;
- `EventOption` adds one group per name of `-e`;
- `GroupOption` is `AddEventGroup`;
- `TpFilterOption` is `SetTracepointFilter`;
- `EndOptions` ends the list. It runs the final checks (`FinalChecks`,
  lines 877-900), over the values of `-a`, `-p`/`-t`, `--monitor-new-thread`,
  `--per-thread`, `--no-inherit`, `--per-core` and whether
  `BuildSummaryComparator` accepts the sort keys. It then takes Run's branch
  (lines 587-608): `--print-hw-counter` ends the command (`printed`); a
  non-root shell given `--app` hands it to the app (`delegated`); an empty
  set turns to the defaults;
- `AddDefaultMeasuredEventTypes` runs when no option added an event. It adds
  the defaults the kernel knows. Without kernel events, it skips `cpu-clock`
  and `task-clock` and adds the others with `:u`. A name whose attr is
  refused is skipped. Whether the kernel supports kernel events, and which
  attrs it accepts, are chosen nondeterministically. A default gets the cpus
  of `cpus_`, as any `AddEventType` does. It checks event support.

`groups` holds each group's names, cpus, the PMU cpumask and whether a filter
is set. `cpusOpt` is `cpus_`, with `{}` for `std::nullopt`. `cpusGiven` is a
history variable: the `--cpu` in force when each group was added. A `false`
from the code ends the command (`status = "error"`).

### `CounterSummaries.tla`

A pure module. `AutoGenerateSummaries`, `GenerateComments`,
`GetCommentForSummary` and `GetRateComment` are operators written as the code
runs them: an index loop that also visits the summaries it appends, and a
`FindSummary` that returns the first match. Each comment is its kind and the
numerator and denominator of its ratio. The checks compare them with
reference definitions over sets (`RefSummaries`), for every list of distinct
keys up to the bound. `IsMonitoredAtTheSameTime` is modelled on what the
spec says, as it reads the counters' scale.

### `CounterIntervals.tla`

The `--interval` callback `print_counters`. `PrintCounters` runs
`ReadCounters` and `AdjustToIntervalOnlyValues` (`lastSum` is
`last_sum_values_`, paired with the counters by position). It then runs the
summary step of `ShowCounters` through `INSTANCE CounterSummaries`, with the
seconds since `start_time`. `Tick` is one second of the kernel counting.
`ScanOpens` is a scan that appends a new thread's fds. `seen`, `expected` and
`span` are history variables: what each fd counted since the last print, and
the seconds that the printed counts cover. The builder's session-wide sum is
modelled from the spec (`CounterSummaryBuilder` is not in this repository).

### `DevfreqCounters.tla`

`UseStep` is one iteration of `DevfreqCounters::Use` over the devices, in
order. The read of a governor file can fail, and so can the write of one.
`Destroy` is the destructor, run when `Run` returns. It ignores the result of each write back, so any of them may fail and leave its device on `performance`; the history variable `unrestored` records which. `Setup` and `LoopEnds`
stand for the rest of `Run`, any step of which may return. `Killed` is a
signal that arrives before `AddSignalEvents` (line 678) takes over SIGINT,
SIGTERM and SIGHUP.

### `SimpleperfMain.tla`

Two simpleperf processes on one Android device. One is started from the shell, with the uid of the
shell or of root. The other runs in an app's uid; either that shell process starts it (`--app`, `RunInAppContext`), or the
app starts it itself (`AppLaunch`). They share the system properties
`security.perf_harden` (`harden`) and the grant
`persist.simpleperf.profile_app_uid` / `_expiration_time` (`grantUid`,
`grantExpiry`). `now` is `time(nullptr)` and advances by `Tick`.

- `AndroidSecurityCheck(p)` is the set of outcomes of the check, as
  `<<passed, perf_harden after it>>`, in the order the code takes:
  - root passes first;
  - then, on Android >= 13, an app whose uid the grant names, with an
    expiration ahead of `now` (`AppGrantValid`);
  - then, on Android >= 11, a `perf_harden` other than "0" is set to "0".
  `SetPropUids` are the uids the platform lets set it: an app cannot, as the
  comment in the code says. A permitted `SetProperty` may still fail.
- `Main(p)` is `main()`: the check, `PR_SET_DUMPABLE` 0 in an app's uid, and
  the command.
- `RunPrologue(p)` is `Run` up to line 597. `CheckPerfEventLimit` and
  `ParseOptions` may fail. `--app` from a non-root shell starts the
  app-context process and waits for it (`WaitApp`).
- Otherwise the shell process goes on into `DevfreqCounters`, taken as three
  instances that differ only in `IsRoot` and `UseDevfreq` (`StatStartUse`,
  `StatRun`). The app-context process cannot use devfreq counters, since
  it is not root. Its session is one step (`AppSessionEnds`).
- `hardenAtBoot`, `clearedBy`, `checkedAt` and `via` are history variables,
  read only by the properties.

### `CapabilityProbes.tla`

This module holds two probes that share no state. They are checked side by
side, and their steps interleave.

The hardware counter part:
- `CheckHardwareCountersOnCpu(c, n)` is the set of answers the probe can
  give: "yes", "no", or "none" (`std::nullopt`). With `n` at most the
  cpu's free counters the answer is yes. Beyond that, the group is refused at
  open or is multiplexed, and the answer is no.
- The variable `faults` lets a probe also fail for another reason (the
  workload, the cpu affinity, a read, or an open refused with EMFILE). The
  variable `hasCycles` says whether `cpu-cycles` is known.
- `PrintProbe` is one iteration of `GetHardwareCountersOnCpu` inside
  `PrintHardwareCounters`, and `CountUp` is its counter.
- `CheckProbe` is one iteration of `CheckHardwareCounterMultiplexing` over
  `GetHardwareCountersForCpus`.
- `report[c]` holds what was printed for cpu `c`: a count, `Warning`, or
  `Unprinted`.

The regs probe part:
- `mpc` and `tpc` are the program counters of the main thread and the probe
  thread. `tidSet` and `done` are the two atomics, and `fdOk` says the fd and
  its buffer were created.
- `sampled` says a sched-out happened while the fd was open. `visible` says
  the sample has reached the reading cpu (`Publish`, an environment step).
- `Poll` is one iteration of the poll loop, bounded by `MaxPolls`.

## Runs

| Run | Config | Result | What it shows |
|---|---|---|---|
| `open_events` | `EventSelectionSet.cfg` | pass, 9020 states | Every `-t` list over two threads, two cpus, a filtered tracepoint group on all cpus and a two-event group on a PMU with cpumask {1}, with hotplug and thread exits during the opens. The properties: every group's rows stay aligned with their leader (`GroupLeaderConsistency`); every held fd belongs to exactly one selection or to the open transaction (`NoFdLeak`); a successful open leaves no selection empty (`OpenedCoversEverySelection`); every live thread on every cpu that stayed online is covered (`Completeness`). The open implements `EventFilesAbstract` (`OpenRefinesAbstract`). |
| `fd_limit_partial_open` | `EventSelectionSet_FdLimit.cfg` | violation of `Completeness` | With one fd number too few, the last transaction fails with EMFILE and is unwound. `success_count` is already 1, so the call returns true while a live thread on an online cpu has no fds. The comment at lines 769-772 names only exits and offlined cpus as reasons to skip a pair. |
| `session` | `StatCommand.cfg` | pass, 297454 states | Three command lines: `stat -p 1 --per-thread --no-inherit --monitor-new-thread --interval`, `stat -p 1 --duration`, and `stat -- cmd`. Process 1 starts with threads 1 and 2 (the workload with thread 1) and may create thread 3. The loop stops for lack of targets only once no thread lives (`NoEarlyStop`). Once the process is gone the session ends (`TargetsGoneEndsSession`): for `-p` after the process is reaped, through the target check; for a workload through SIGCHLD. The session, scans included, implements the safety part of `EventFilesAbstract` (`SessionRefinesAbstract`). No selection holds two fds for one (tid, cpu), so no thread is counted twice (`NoDuplicateCounters`). |
| `scan_open_fails` | `StatCommand_ScanFails.cfg` | violation of `ScanFailsOnlyForExitedThreads` (an action property) | The comment at lines 405-407 says a scan's `OpenEventFilesForThreads` fails only when the new threads have exited. In TLC's trace, the tracepoint group has `--cpu 1` and cpu 1 goes offline. A scan then finds thread 3, and the call fails the group's online check before it opens any group. Thread 3 lives on with no fd. It is already a key of `thread_info_`, so no later scan retries it. |

| `build_selections` | `SelectionBuilder.cfg` | pass, 35948 states | Every command line of up to three ordered options, over a hardware event and its `:u` form, a tracepoint, `cpu-clock` and a name that cannot be built, followed by the default events when no option gave one. Event types skip the kernel support check only when the command is then handed to the app, so a set built to be opened in this process has no unsupported type (`UnsupportedOnlyHandedOff`). |
| `group_duplicate_name` | `SelectionBuilder_Unique.cfg` | violation of `UniqueNames` | `--group cpu-clock,cpu-clock` is accepted. |
| `cpu_option_backfills` | `SelectionBuilder_CpuOption.cfg` | violation of `CpuOptionPositional` | In `-e cpu-clock --cpu 0`, `cpu-clock` gets the list {0} of the `--cpu` option after it. |
| `summaries` | `CounterSummaries.cfg` | pass, 600721 states | Every list of up to three summaries, in two groups, from one of two families: `cpu-cycles` and `instructions` with modifiers u, k and none; or `cache-misses`, `cache-references`, `task-clock` and `cpu-cycles`. The generated sums and the comments equal the reference (`SummariesMatchReference`): no sum is made twice or for a pair counted at different times, and a miss rate is taken only against a base counted at the same time whose count is not zero. |
| `interval_only_values` | `CounterIntervals.cfg` | pass, 485 states | Up to three prints over three seconds, with a thread added by a scan between prints. Every print shows each fd's count since the previous print (`IntervalCountsPerFd`). Fds are only appended, so the pairing by position holds. |
| `interval_cpus_used` | `CounterIntervals_CpusUsed.cfg` | violation of `CpusUsedOverCountedSpan` | With `--interval-only-values`, the second print divides one interval's `task-clock` by the seconds since the start. |
| `capability_probes` | `CapabilityProbes.cfg` | pass, 33433 states | Two cpus, each with 0, 1 or 2 free counters. The session has two hardware and two software events on every cpu. With `--print-hw-counter`, every cpu shows at most its free counters or a warning, and exactly its free counters when no probe fails for another reason (`HwCountersReported`). After a session, the warning is logged exactly when some cpu carries more hardware events than it has free counters (`MultiplexWarningExact`, against the reference `RequestedOn`). In the regs probe, whichever way the threads interleave, the buffer holds a sample once the thread has exited with the fd open (`SampleBeforeJoin`), and the probe always returns (`RegsProbeReturns`). A kernel that does dump them is answered false, once the fd is open, only after every iteration of the poll loop found the buffer empty (`FalseNegativeOnlyOnTimeout`). |
| `main_and_devfreq` | `SimpleperfMain.cfg` | pass, 2716456 states | Android 10, 11 or 13; a shell simpleperf as root or shell, with or without `--app` and `--use-devfreq-counters`; an app that may start simpleperf itself; `perf_harden` at 0 or 1; a grant for the app or for another uid, expiring at time 0 or 1. No process profiles unless it is root, Android is older than 11, the user cleared `perf_harden` from the shell (by hand or through a simpleperf the shell ran), or, for the app on Android >= 13, its grant had not expired at the check. An app never lets itself in (`ProfilingNeedsConsent`). The simpleperf a shell starts with `--app` is never refused by its own check (`DelegatedCheckPasses`), because a missing grant falls through to the `perf_harden` the shell set. For the shell's `Run` over three devfreq devices, each starting with any governor or with no governor file, every return of `Run`, including after a failure part-way through `Use`, restores every governor whose write back in the destructor did not fail (`GovernorsRestoredOnReturn`). |

`NoEarlyStop` holds only because the zombie leader keeps `/proc/<pid>` alive.
For the same reason a `-p` session outlives its process until the parent
reaps it. `Reap` gets no fairness, so `TargetsGoneEndsSession` assumes the
reap has happened: a parent that never waits keeps `stat -p` running.
`threads_` is fixed by `MonitorEachThread` and never learns the threads that
the scan adds. A check of the threads' own entries would end the session while
a new thread runs.

### Bounds

- Threads {1, 2, 3} and cpus {0, 1}. Two threads are the fewest for one to
  exit while another is opened, and two cpus the fewest for a snapshot to go
  stale on one of them.
- `MaxHotplug = 2` allows an offline followed by an online during one call.
- `MaxFds` is either the exact number the session needs, or one fewer.
- `MaxPrints = 1`. One print reads every fd; more prints repeat the same
  state.
- `SelectionBuilder`: `--app`, `--in-app` and root take all eight
  combinations. `cpu-cycles:u` is the one event the kernel does not support.
  Three options of up to two names each. That is enough
  for an option before and after a `--cpu`, and for a group that repeats a
  name. There are three defaults: one the kernel knows in both forms, one
  clock that is skipped without kernel events, and one the kernel does not
  know.
- `CounterSummaries`: lists of up to three distinct keys. That is enough for a
  u, k and none triple, and for a miss/base pair next to a third summary. The
  counts are {0, 3}, to reach the zero guards.
- `CounterIntervals`: three seconds and three prints. A scan can add a thread
  before the second print, which then holds a new fd next to an old one.
- `DevfreqCounters` (in `SimpleperfMain`): three devices, enough for a failure after one swap and
  before another. Android 10, 11 and 13 are one version on each side of each
  version test. Two values of time let a grant expire exactly at the second
  of a check, and let an app start before or after the clock moves.
- The groups are the smallest that exercise both a transaction of two opens
  and a filtered tracepoint alone in its group. `SetTracepointFilter` requires
  that the tracepoint be alone in its group.

- `CapabilityProbes`: up to two free counters per cpu, so a count of 0, a
  count between, and a full PMU all occur. `MaxPolls = 2` stands for the 1000
  polls: one poll that finds nothing and one after it are enough.

### Fairness

The command is a single thread that keeps running while it has work, and its
timers keep firing. So `Program` (every step of the command, the timers
included, SIGCHLD) is weakly fair, and so is `CheckMonitoredTargets`. These
get no fairness, and may happen or not:
- a signal from the user;
- thread creation and exit;
- the reap of a `-p` process by its parent;
- cpu hotplug;
- the `--duration` timer, which may be set far in the future. The end of the
  session must not depend on it.

`SimpleperfMain` checks only safety, so it assumes no fairness. A session may run for
ever, and so may the app that never starts simpleperf.

In `CapabilityProbes`, the probe loops and both threads of the regs probe get
weak fairness: the scheduler runs a runnable thread. `Publish` gets none,
because the poll loop's timeout exists precisely for a sample that is late.

## Findings

1. `fd_limit_partial_open`: EMFILE part-way through `OpenEventFilesForThreads`
   is accepted silently (line 769).
2. `scan_open_fails`: `NewThreadMonitor::Scan` records new threads in
   `thread_info_` (`cmd_stat.cpp` line 401), then ignores a failed open
   (line 409), on the word of a comment that only exited threads make it fail.
   A live thread can fail too: a group's `--cpu` list may be offline, or the
   fds may run out. That thread is then never counted, since later scans skip
   it. A failure in a later group also skips `ApplyFilters` for the fds already
   opened, and a `SetFilter` failure (`ApplyFiltersFail`) leaves later fds
   counting without the tracepoint filter: the property covers both, and TLC
   finds the filter case alone when hotplug is bounded to 0.

3. `group_duplicate_name`: `BuildAndCheckEventSelection` compares a name
   only with groups already added (`event_selection_set.cpp` line 283).
4. `cpu_option_backfills`: `SetCpusForNewEvents` fills earlier groups. This is
   against the `--cpu` help text, though the spec describes what the code does.
5. `interval_cpus_used`: "cpus used" divides an interval's count by the whole
   run's duration (`cmd_stat.cpp` line 696). The spec does not say which
   duration applies.

Spec section 4.7 says the multiplexing check opens `requested_count + 1`
cycles events per cpu. The code opens `requested_count`
(`CheckHardwareCountersOnCpu(cpu, hardware_events)`, `cmd_stat.cpp` line
1103), which matches the text of its warning. `MultiplexWarningExact` checks
what the code does. With the spec's `+ 1`, a cpu whose PMU is exactly full
would trigger a false warning. This is not a run: the spec's wording is the
likelier error.

The kill before line 678 that leaves the devfreq governors swapped is the
behaviour spec section 8 accepts. It is a hazard in `PROJECT.json`, not a
finding.

## Plan and what is left

- Enable-on-exec of the workload's counters is not modelled, since no property
  here is about counts. Nor are system-wide targets. `--app` is modelled only
  as the hand-off of `SimpleperfMain`: the app-context session itself is one
  step.
- `RegisterAllCommands`, `RunSimpleperfCmd` and `RunInAppContext` are not in
  this repository. Only the `stat` command is dispatched. `CheckPerfEventLimit`'s
  answer is nondeterministic.
- The app grant is checked once, when the process starts. A session keeps
  profiling after the grant expires. This is listed as a hazard; nothing in
  the code promises otherwise.
- `environment.h` and `IOEventLoop.h` only declare functions; their bodies
  (`environment.cpp`, `IOEventLoop.cpp`) are not in this repository. What the
  model needs of them is modelled from spec 4.5 and from `/proc`. That covers
  `IsThreadAlive`, `GetThreadsInProcess` and `GetOnlineCpus`. It also covers
  the loop: callbacks run one at a time, a `false` aborts the loop, and
  `ExitLoop` ends it. The headers' lines are not in the map.
- The rest of `event_selection_set.cpp` serves `simpleperf record`: sample
  rates, branch and call-chain sampling, mmap buffers, the read thread, ETM
  enabling and its last-cpu rotation, and ids by attr. `stat` never calls it.
- Not modelled: formatting (`ShowText`, `ShowCSV`), kernel capability probes,
  record-only options, and the report, inject, api and dex tests.
- `CounterSummaryBuilder` (per-thread and per-core keys, sorting), `Show` and
  the hotplugged counters of `ReadCounters` are not modelled yet.
