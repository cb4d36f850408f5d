------------------------ MODULE MC_SelectionBuilder -------------------------
(***************************************************************************)
(* Command lines of up to three ordered options over three events: a      *)
(* hardware counter, a tracepoint and cpu-clock with modifier u, which    *)
(* the stat command refuses; --cpu 0 or --cpu 1 on a two-cpu machine.     *)
(* The default events are cpu-cycles, cpu-clock and page-faults, which    *)
(* the kernel does not know; cpu-cycles:u stands for the user-only form.  *)
(* --app, --in-app and root take every combination.                       *)
(***************************************************************************)
EXTENDS SelectionBuilder

MC_Events == {"cpu-cycles", "sched:sched_switch", "cpu-clock:u", "cpu-cycles:u", "cpu-clock"}
MC_Tracepoints == {"sched:sched_switch"}
MC_Rejected == {"cpu-clock:u"}
\* A device whose PMU cannot count in user space only.
MC_Unsupported == {"cpu-cycles:u"}
MC_Cpus == {0, 1}
MC_PmuMask == [e \in MC_Events |-> {}]
MC_CpuLists == {{0}, {1}}
MC_Defaults == <<"cpu-cycles", "cpu-clock", "page-faults">>
MC_MaxNames == 2
MC_MaxOptions == 3
=============================================================================
