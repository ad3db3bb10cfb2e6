---------------------------- MODULE MCLeafPorts -----------------------------
(* Symmetry of the safety runs of LeafPorts. *)
EXTENDS LeafPorts, TLC

Symmetry ==
  Permutations(Csps) \cup Permutations(Cbps) \cup Permutations(PushLabels)
    \cup Permutations(Macs) \cup Permutations(Threads)
=============================================================================
