------------------------- MODULE MC_CounterIntervals -------------------------
(* simpleperf stat -p 1 --per-thread --monitor-new-thread --interval        *)
(* --interval-only-values -e task-clock,cpu-cycles: thread 1 is opened first, *)
(* thread 2 may be found by a scan.                                          *)
EXTENDS CounterIntervals

MC_SelTypes == <<"task-clock", "cpu-cycles">>
MC_Tids == {1, 2}
MC_InitialTids == {1}
MC_MaxTicks == 3
MC_MaxPrints == 3
MC_NsPerSec == 10
=============================================================================
