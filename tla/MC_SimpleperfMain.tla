------------------------- MODULE MC_SimpleperfMain --------------------------
(* A device on Android 10, 11 or 13, where the shell (and root) may set     *)
(* security.perf_harden and an app may not; time(nullptr) takes two values *)
(* so that a grant can expire at the second of a check; the three devfreq  *)
(* devices of MC_DevfreqCounters.                                           *)
EXTENDS SimpleperfMain

MC_Versions == {10, 11, 13}
MC_MaxTime == 1
MC_SetPropUids == {"root", "shell"}
MC_Devices == <<"d1", "d2", "d3">>
MC_Governors == {"mem_latency", "performance", "cpufreq"}
=============================================================================
