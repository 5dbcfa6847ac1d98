----------------------------- MODULE MCDocFetch -----------------------------
(* DocFetch with a few places in memory.  The places, the bodies and the   *)
(* urls are interchangeable.                                               *)
EXTENDS DocFetch, TLC

CONSTANTS b1, b2, b3, p1, p2, p3, p4, u1, u2

MCBody == {b1, b2, b3}
MCPtr  == {p1, p2, p3, p4}
MCUrl  == {u1, u2}

Symmetry == Permutations(MCBody) \cup Permutations(MCPtr) \cup Permutations(MCUrl)
=============================================================================
