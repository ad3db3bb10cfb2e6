------------------------------ MODULE MCApiRpc ------------------------------
(* The calls of the runs of ApiRpc, one of them unknown to the service.    *)
EXTENDS ApiRpc, TLC

CONSTANT Unknown

MCKnownCalls == Calls \ {Unknown}

Symmetry == Permutations(Callers) \cup Permutations(MCKnownCalls)
=============================================================================
