--------------------------- MODULE DevfreqCounters ---------------------------
(***************************************************************************)
(* --use-devfreq-counters (cmd_stat.cpp): DevfreqCounters::Use walks      *)
(* /sys/class/devfreq/*/governor in order and writes "performance" over   *)
(* every "mem_latency" governor, recording the path; the destructor writes *)
(* "mem_latency" back to every recorded path when StatCommand::Run returns,*)
(* on its success path and on every early return after line 598.          *)
(*                                                                         *)
(* A read or a write of a governor file may fail.  A signal kills the     *)
(* process until AddSignalEvents (line 678) hands SIGINT, SIGTERM and      *)
(* SIGHUP to the IOEventLoop, which event_selection_set_ keeps until the   *)
(* command object is gone; afterwards a signal only ends the loop.        *)
(***************************************************************************)
EXTENDS Integers, Sequences, SequencesExt

CONSTANTS
    Devices,     \* the subdirectories of /sys/class/devfreq, in GetSubDirs order
    Governors,   \* governor names a device may start with
    NoFile,      \* a device without a regular governor file
    IsRoot,      \* IsRoot()
    UseDevfreq   \* --use-devfreq-counters

ASSUME /\ IsInjective(Devices)
       /\ {"mem_latency", "performance"} \subseteq Governors /\ NoFile \notin Governors
       /\ IsRoot \in BOOLEAN /\ UseDevfreq \in BOOLEAN

Devs == ToSet(Devices)

VARIABLES
    gov,      \* the content of each governor file (NoFile when there is none)
    paths,    \* mem_latency_governor_paths_
    i,        \* the loop index of Use over GetSubDirs
    pc,       \* "start", "use", "setup", "loop", "destroy", "returned", "killed"
    initGov,  \* history: the governors before simpleperf ran
    unrestored \* history: recorded paths whose write back failed

vars == <<gov, paths, i, pc, initGov, unrestored>>

\* The trimmed governor read from the file names the memory latency governor.
IsMemLatencyGovernor(g) == g = "mem_latency"

\* Run, lines 598-603: Use is called with --use-devfreq-counters.
StartUse ==
    /\ pc = "start"
    /\ pc' = IF ~UseDevfreq THEN "setup"
             ELSE IF IsRoot THEN "use" ELSE "destroy"
    /\ UNCHANGED <<gov, paths, i, initGov, unrestored>>

\* Fault variant of UseFail: paths kept in a local vector that is moved to
\* the member only when Use succeeds.
UseFailLocalPaths ==
    /\ pc' = "destroy"
    /\ paths' = <<>>

\* Use returns false; mem_latency_governor_paths_ keeps what was swapped.
UseFail ==
    /\ pc' = "destroy"
    /\ UNCHANGED paths

\* Fault variant of NextDevice: the index advanced twice per iteration.
NextDeviceTwice == i' = i + 2

\* The for loop of Use moves on to the next subdirectory.
NextDevice == i' = i + 1

\* One iteration of the loop of Use over the device i.
UseStep ==
    LET d == Devices[i]
    IN /\ pc = "use"
       /\ i <= Len(Devices)
       /\ \/ /\ gov[d] = NoFile
             /\ NextDevice /\ UNCHANGED <<gov, paths, pc>>
          \/ /\ gov[d] # NoFile
             /\ \/ UseFail /\ UNCHANGED <<gov, i>>                    \* read fails
                \/ /\ ~IsMemLatencyGovernor(gov[d])
                   /\ NextDevice /\ UNCHANGED <<gov, paths, pc>>
                \/ /\ IsMemLatencyGovernor(gov[d])
                   /\ \/ UseFail /\ UNCHANGED <<gov, i>>              \* write fails
                      \/ /\ gov' = [gov EXCEPT ![d] = "performance"]
                         /\ paths' = Append(paths, d)
                         /\ NextDevice /\ UNCHANGED pc
    /\ UNCHANGED <<initGov, unrestored>>

\* The loop of Use is over: Use returns true.
UseDone ==
    /\ pc = "use"
    /\ i > Len(Devices)
    /\ pc' = "setup"
    /\ UNCHANGED <<gov, paths, i, initGov, unrestored>>

\* Lines 603-680: the default events, the workload, OpenEventFiles, the
\* output file and AddSignalEvents; each may fail and return false.
Setup ==
    /\ pc = "setup"
    /\ \E ok \in BOOLEAN : pc' = IF ok THEN "loop" ELSE "destroy"
    /\ UNCHANGED <<gov, paths, i, initGov, unrestored>>

\* The loop ends (a signal, --duration, no more targets) and Run returns,
\* printing and closing the files or failing on the way.
LoopEnds ==
    /\ pc = "loop"
    /\ pc' = "destroy"
    /\ UNCHANGED <<gov, paths, i, initGov, unrestored>>

\* ~DevfreqCounters, as Run returns: "mem_latency" is written back to every
\* recorded path; the result of WriteStringToFile is not checked, so a
\* failed write leaves that device on "performance" and the loop goes on.
Destroy ==
    /\ pc = "destroy"
    /\ \E failed \in SUBSET ToSet(paths) :
          /\ gov' = [d \in Devs |-> IF d \in ToSet(paths) \ failed THEN "mem_latency" ELSE gov[d]]
          /\ unrestored' = failed
    /\ pc' = "returned"
    /\ UNCHANGED <<paths, i, initGov>>

\* SIGINT, SIGTERM or SIGHUP with the default action: the process dies and
\* no destructor runs.
Killed ==
    /\ pc \in {"start", "use", "setup"}
    /\ pc' = "killed"
    /\ UNCHANGED <<gov, paths, i, initGov, unrestored>>

Init ==
    /\ gov \in [Devs -> Governors \cup {NoFile}]
    /\ initGov = gov
    /\ unrestored = {}
    /\ paths = <<>>
    /\ i = 1
    /\ pc = "start"

Next ==
    \/ StartUse \/ UseStep \/ UseDone \/ Setup \/ LoopEnds \/ Destroy
    \/ Killed
    \/ pc \in {"returned", "killed"} /\ UNCHANGED vars

Spec == Init /\ [][Next]_vars

(***************************************************************************)
(* Properties.                                                             *)
(***************************************************************************)
DevfreqTypeOK ==
    /\ gov \in [Devs -> Governors \cup {NoFile}]
    /\ paths \in Seq(Devs)
    /\ unrestored \subseteq Devs
    /\ i \in 1 .. Len(Devices) + 1
    /\ pc \in {"start", "use", "setup", "loop", "destroy", "returned", "killed"}

\* Spec 6: the governors are restored on exit.  Whenever Run returns, on
\* success or after a failure part-way through Use or later, every device
\* has the governor it had before simpleperf ran, except a device whose
\* write back in the destructor failed.
GovernorsRestoredOnReturn ==
    pc = "returned" => \A d \in Devs : gov[d] = initGov[d] \/ d \in unrestored

=============================================================================
