---------------------------- MODULE MCFuseDaemon ----------------------------
(* Two wakeboxes and two daemon processes at a time. *)
EXTENDS FuseDaemon, TLC

CONSTANTS c1, c2, d1, d2

Symmetry == Permutations({c1, c2}) \cup Permutations({d1, d2})
=============================================================================
