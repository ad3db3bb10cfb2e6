--------------------------- MODULE MCE3Interface ---------------------------
(* E3Interface for TLC. *)
EXTENDS E3Interface, TLC

\* All lcores are of one NUMA node.
MCSocketOf == [l \in LCores |-> 0]

\* Interfaces are interchangeable, and none is named by an action.
Symmetry == Permutations(Ifaces)
=============================================================================
