----------------------- MODULE MC_CounterSummaries --------------------------
(***************************************************************************)
(* Two input families for the summary step, each input list drawn from   *)
(* one.  Modifiers: cpu-cycles and instructions, each as :u, :k or both,   *)
(* so AutoGenerateSummaries and the cycles-per-instruction comment meet.   *)
(* Rates: cache-misses against cache-references, task-clock, cpu-cycles,  *)
(* with no modifier.                                                       *)
(***************************************************************************)
EXTENDS CounterSummaries

MC_Types_Mod == {"cpu-cycles", "instructions"}
MC_Types_Rate == {"cache-misses", "cache-references", "task-clock", "cpu-cycles"}
MC_Types == MC_Types_Mod \cup MC_Types_Rate
MC_Mods == {"u", "k", ""}
MC_Families == {MC_Types_Mod \X MC_Mods, MC_Types_Rate \X {""}}
MC_Threads == {1}
MC_CpuKeys == {-1}
MC_Groups == {1, 2}
MC_Counts == {0, 3}
MC_Runtimes == {0, 5}

\* COMMON_EVENT_RATE_MAP, the ARM table and the "-misses" rule, for the
\* event names of the inputs.
MC_RateBase ==
    [t \in MC_Types |-> IF t = "cache-misses" THEN <<"cache-references", "miss rate">>
                        ELSE <<>>]
MC_MaxLen == 3
MC_Duration == 2
MC_NsPerSec == 10
=============================================================================
