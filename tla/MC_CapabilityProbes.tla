----------------------- MODULE MC_CapabilityProbes --------------------------
(***************************************************************************)
(* Two online cpus whose PMUs have 0, 1 or 2 free counters, and a session *)
(*   --group cpu-cycles,task-clock -e instructions,cpu-clock              *)
(* with no --cpu: each group is on every online cpu, and each cpu carries *)
(* two hardware events next to two software events.                      *)
(***************************************************************************)
EXTENDS CapabilityProbes

MC_Online == {0, 1}
MC_MaxFree == 2
MC_GroupEvents == <<<<"hw", "sw">>, <<"hw">>, <<"sw">>>>
MC_GroupCpus == <<{}, {}, {}>>
MC_MaxPolls == 2
=============================================================================
