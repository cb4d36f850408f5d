------------------------ MODULE MC_EventSelectionSet ------------------------
(***************************************************************************)
(* Model of simpleperf stat -t 1,2 sessions with two event groups, as    *)
(* sessions for TLC: two threads, two cpus, a tracepoint with a filter    *)
(* (SetTracepointFilter needs it alone in its group) on all online cpus,  *)
(* followed by a group of two events of a PMU whose cpumask is cpu 1.     *)
(***************************************************************************)
EXTENDS EventSelectionSet

MC_Threads == {1, 2}
MC_Cpus == {0, 1}
MC_GroupSize == <<1, 2>>
MC_GroupCpus == <<{}, {}>>
MC_AllowedCpus == <<{}, {1}>>
MC_Filtered == {<<1, 1>>}

\* 2 threads x 2 cpus x 1 selection + 2 threads x 1 cpu x 2 selections.
MC_MaxFds_Ample == 8
\* One fd short: the second pair of the last group fails on its second open.
MC_MaxFds_Short == 7
MC_MaxHotplug == 2
=============================================================================
