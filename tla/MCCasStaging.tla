---------------------------- MODULE MCCasStaging ----------------------------
(* Two wake processes that build the same path. *)
EXTENDS CasStaging, TLC

Symmetry == Permutations(Wake) \cup Permutations(Content)
=============================================================================
