----------------------------- MODULE MCEventBus -----------------------------
(***************************************************************************)
(* Instances of EventBus for TLC.                                          *)
(***************************************************************************)
EXTENDS EventBus, TLC

\* Missions, and clients that all start out the same, may be exchanged.
Symmetry == Permutations(Mission) \cup Permutations(Client)
=============================================================================
