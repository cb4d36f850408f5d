------------------------- MODULE EventFilesAbstract -------------------------
(***************************************************************************)
(* What OpenEventFilesForThreads promises, without its loops, its fd      *)
(* numbers or its transactions: each selection holds a set of (tid, cpu)  *)
(* pairs; a pair enters every selection of its group in one step, and    *)
(* only for a thread of the call that is alive and a cpu that is online  *)
(* and allowed for the group.  The call ends by succeeding, with no empty *)
(* selection, or by failing; CloseEventFiles empties every selection.     *)
(* Once the files are open, the owner may call again for more threads    *)
(* (the NewThreadMonitor); such a call returns to the open state whatever *)
(* its result.  The owner may also give up on open files with an error.  *)
(***************************************************************************)
EXTENDS Integers, Sequences, FiniteSets

CONSTANTS
    Threads,      \* tids that can be monitored
    Cpus,         \* cpu ids of the machine
    GroupSize,    \* GroupSize[g]: number of selections of group g
    GroupCpus,    \* GroupCpus[g]: the --cpu list of group g ({} = none)
    AllowedCpus   \* AllowedCpus[g]: the PMU cpumask of group g ({} = none)

Groups == 1 .. Len(GroupSize)
Sel == UNION {{<<g, k>> : k \in 1 .. GroupSize[g]} : g \in Groups}

\* The cpus a group may count on: the PMU's cpumask overrides the --cpu
\* list, and a group with neither counts on every cpu.
CpusFor(g) ==
    IF AllowedCpus[g] # {} THEN AllowedCpus[g]
    ELSE IF GroupCpus[g] # {} THEN GroupCpus[g]
    ELSE Cpus

VARIABLES
    alive,     \* threads that have not exited
    online,    \* cpus online
    opened,    \* opened[s]: the (tid, cpu) pairs selection s counts
    status,    \* "idle", "busy", "opened", "failed", "closed"
    targets,   \* the threads of the running call
    caller     \* the status the running call returns to: "idle" or "opened"

avars == <<alive, online, opened, status, targets, caller>>

AInit ==
    /\ alive \subseteq Threads
    /\ online \in SUBSET Cpus \ {{}}
    /\ opened = [s \in Sel |-> {}]
    /\ status = "idle"
    /\ targets = {}
    /\ caller = "idle"

Begin(T) ==
    /\ status \in {"idle", "opened"}
    /\ T \subseteq Threads
    /\ status' = "busy"
    /\ targets' = T
    /\ caller' = status
    /\ UNCHANGED <<alive, online, opened>>

AddPair(g, t, c) ==
    /\ status = "busy"
    /\ t \in targets \cap alive
    /\ c \in online \cap CpusFor(g)
    /\ <<t, c>> \notin opened[<<g, 1>>]
    /\ opened' = [s \in Sel |-> IF s[1] = g THEN opened[s] \cup {<<t, c>>} ELSE opened[s]]
    /\ UNCHANGED <<alive, online, status, targets, caller>>

Finish(ok) ==
    /\ status = "busy"
    /\ ok => \A s \in Sel : opened[s] # {}
    /\ status' = IF ok \/ caller = "opened" THEN "opened" ELSE "failed"
    /\ UNCHANGED <<alive, online, opened, targets, caller>>

\* The owner fails after the files were opened.
Abandon ==
    /\ status = "opened"
    /\ status' = "failed"
    /\ UNCHANGED <<alive, online, opened, targets, caller>>

Close ==
    /\ status \in {"opened", "failed"}
    /\ status' = "closed"
    /\ opened' = [s \in Sel |-> {}]
    /\ UNCHANGED <<alive, online, targets, caller>>

\* Threads are created and exit, and cpus go offline and online, at any
\* time.
Environment ==
    /\ \/ \E t \in alive : alive' = alive \ {t}
       \/ \E t \in Threads \ alive : alive' = alive \cup {t}
       \/ \E on \in SUBSET Cpus \ {{}} : online' = on /\ online' # online
    /\ UNCHANGED <<opened, status, targets, caller>>
    /\ alive' = alive \/ online' = online

Proceed == (\E T \in SUBSET Threads : Begin(T)) \/ Finish(TRUE) \/ Finish(FALSE) \/ Close

ANext ==
    \/ Proceed
    \/ \E g \in Groups, t \in Threads, c \in Cpus : AddPair(g, t, c)
    \/ Environment

ANextSafety == ANext \/ Abandon

\* Every call that starts ends, and the files are closed.
ASpec == AInit /\ [][ANext]_avars /\ WF_avars(Proceed)

\* The safety part, with the owner free to abandon open files and to keep
\* them open for ever.
ASafety == AInit /\ [][ANextSafety]_avars
=============================================================================
