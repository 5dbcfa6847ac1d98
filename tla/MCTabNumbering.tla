--------------------------- MODULE MCTabNumbering ---------------------------
(* TabNumbering with a small heap.  The blocks are interchangeable.        *)
EXTENDS TabNumbering, TLC

CONSTANTS b1, b2, b3, b4, b5

MCBlock == {b1, b2, b3, b4, b5}

Symmetry == Permutations(MCBlock)
=============================================================================
