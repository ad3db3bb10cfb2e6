---------------------------- MODULE MCFastIndex ----------------------------
EXTENDS FastIndex, TLC

\* Two words per slot: a key of zeros, as a free slot looks, one that shares
\* a word with it, and one that lives in entries of another tag0.
Key(t0, t1, t2) == [tag0 |-> t0, tags |-> <<t1, t2>>]
TwoWordKeys == {Key(0, 0, 0), Key(0, 1, 0), Key(1, 1, 0)}

\* One word per slot (findex_2_2).
OneWordKeys == {[tag0 |-> 0, tags |-> <<t>>] : t \in 0..2}

Symmetry == Permutations(Entries)
=============================================================================
