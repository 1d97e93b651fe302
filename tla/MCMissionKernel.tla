--------------------------- MODULE MCMissionKernel ---------------------------
(***************************************************************************)
(* Instances of MissionKernel for TLC.                                     *)
(***************************************************************************)
EXTENDS MissionKernel, TLC

\* One request for each thing the kernel does with a mode: executed because an empty label
\* means full mode, or because the runtime is not external; only observed; blocked until it
\* is approved; refused.
EveryRequest ==
  [mode : {"observe", "bogus"}, label : {"absent"}, external : {FALSE}]
  \cup [mode : {"assist"}, label : {"absent"}, external : {TRUE}]
  \cup [mode : {""}, label : {"absent", ""}, external : {FALSE}]

\* A request that is executed, for the runs about execution.
FullRequest == {[mode |-> "full", label |-> "absent", external |-> FALSE]}

MissionSymmetry == Permutations(Mission)
=============================================================================
