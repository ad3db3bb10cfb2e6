------------------------------ MODULE KeyTable ------------------------------
(***************************************************************************)
(* The promise of a fast index (e3infra/include/fast-index.h): keys map to *)
(* values, and one step of anybody changes the binding of one key, or      *)
(* empties the table.  table[k] is the set of the values k is bound to: it *)
(* has at most one element.                                                *)
(***************************************************************************)
CONSTANTS Keys, Values

VARIABLE table

TableInit == table = [k \in Keys |-> {}]

Set(k, v) == table' = [table EXCEPT ![k] = {v}]

Delete(k) == table' = [table EXCEPT ![k] = {}]

Clear == table' = [k \in Keys |-> {}]

TableNext ==
    \/ \E k \in Keys, v \in Values : Set(k, v)
    \/ \E k \in Keys : Delete(k)
    \/ Clear

TableSpec == TableInit /\ [][TableNext]_table
=============================================================================
