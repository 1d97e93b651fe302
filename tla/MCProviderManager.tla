-------------------------- MODULE MCProviderManager --------------------------
(***************************************************************************)
(* An instance of ProviderManager for TLC.                                 *)
(***************************************************************************)
EXTENDS ProviderManager, TLC

Symmetry == Permutations(Op)
==============================================================================
