------------------------------ MODULE MCViMode ------------------------------
(* ViMode for the messages of up to five characters and newlines.  Lines   *)
(* that reach the last column are those typed with a short history.        *)
EXTENDS ViMode

Messages == UNION {[1..n -> BOOLEAN] : n \in 1..5}

LongWithFewLines == Len(history') = MaxHistory => len' < Cols - 1
=============================================================================
