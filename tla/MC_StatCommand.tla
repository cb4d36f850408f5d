------------------------- MODULE MC_StatCommand ----------------------------
(***************************************************************************)
(* simpleperf stat on two cpus with the events                            *)
(*   --cpu 1 -e sched:sched_switch --tp-filter ...  --cpu 0,1 -e cycles   *)
(* and one of the targets and options                                     *)
(*   -p 1 --per-thread --no-inherit --monitor-new-thread --interval       *)
(*   -p 1 --duration                                                      *)
(*   -- cmd          (the workload gets pid 1)                            *)
(* Process 1 starts with threads 1 and 2 (a workload with thread 1 only)  *)
(* and may create thread 3.  The second --cpu leaves the tracepoint's cpu *)
(* list alone, as SetCpusForNewEvents only fills groups that have none.   *)
(***************************************************************************)
EXTENDS StatCommand

MC_Threads == {1, 2, 3}
MC_InitialThreads == {1, 2}
MC_Cpus == {0, 1}
MC_GroupSize == <<1, 1>>
MC_GroupCpus == <<{1}, {0, 1}>>
MC_AllowedCpus == <<{}, {}>>
MC_Filtered == {<<1, 1>>}

\* 3 threads x (1 + 2) cpus: every fd of the session fits.
MC_MaxFds == 9
MC_MaxHotplug == 2
MC_MaxPrints == 1

MC_PerThreadPid == [perThread |-> TRUE, monitorNewThread |-> TRUE, interval |-> TRUE,
                    duration |-> FALSE, workload |-> FALSE]
MC_DurationPid == [perThread |-> FALSE, monitorNewThread |-> FALSE, interval |-> FALSE,
                   duration |-> TRUE, workload |-> FALSE]
MC_Workload == [perThread |-> FALSE, monitorNewThread |-> FALSE, interval |-> FALSE,
                duration |-> FALSE, workload |-> TRUE]
MC_CommandLines == {MC_PerThreadPid, MC_DurationPid, MC_Workload}
MC_PerThreadOnly == {MC_PerThreadPid}
=============================================================================
