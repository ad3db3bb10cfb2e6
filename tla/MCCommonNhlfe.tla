--------------------------- MODULE MCCommonNhlfe ---------------------------
(* Model values and symmetry for the runs of CommonNhlfe. *)
EXTENDS CommonNhlfe, TLC

Symmetry ==
  Permutations(Threads) \cup Permutations(Ifaces) \cup Permutations(Names)
    \cup Permutations(Macs)
============================================================================
