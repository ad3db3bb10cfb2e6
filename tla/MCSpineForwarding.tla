------------------------- MODULE MCSpineForwarding -------------------------
(* Symmetry of the safety runs of SpineForwarding. *)
EXTENDS SpineForwarding, TLC

Symmetry == Permutations(Pbps)
=============================================================================
