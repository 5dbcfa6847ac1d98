-------------------------------- MODULE Pages --------------------------------
(***************************************************************************)
(* What fetching promises of the pages a session shows: a command asks for *)
(* one page; it is either answered, and then one page is added or takes    *)
(* the place of the one that was asked for again, or refused, and then     *)
(* every page stays what it was.  DocFetch, where the documents and their  *)
(* requests lie in memory and scripts send the browser elsewhere, is shown *)
(* to implement this module.                                               *)
(***************************************************************************)
EXTENDS Naturals, Sequences

CONSTANT Url    \* where a page can come from

VARIABLES
    shown,      \* the pages, in the order they were opened: where each is from
    asked       \* the place in shown of the page asked for, 0 for no request

vars == <<shown, asked>>

Init == shown = <<>> /\ asked = 0

(* A new page will be the last one; a refetched page stays in its place.   *)
Ask(place) ==
    /\ asked = 0
    /\ place \in 1..Len(shown) + 1
    /\ asked' = place
    /\ UNCHANGED shown

Answer(u) ==
    /\ asked # 0
    /\ shown' = IF asked > Len(shown) THEN Append(shown, u) ELSE [shown EXCEPT ![asked] = u]
    /\ asked' = 0

Refuse ==
    /\ asked # 0
    /\ asked' = 0
    /\ UNCHANGED shown

Next ==
    \/ \E place \in 1..Len(shown) + 1 : Ask(place)
    \/ \E u \in Url : Answer(u)
    \/ Refuse

Spec == Init /\ [][Next]_vars

=============================================================================
