---------------------------- MODULE MCSpineLabel ----------------------------
(* Symmetry of the safety runs of SpineLabel. *)
EXTENDS SpineLabel, TLC

Symmetry ==
  Permutations(Pbps) \cup Permutations(PushLabels) \cup Permutations(Threads)
=============================================================================
