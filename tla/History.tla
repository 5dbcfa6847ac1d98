------------------------------ MODULE History ------------------------------
(***************************************************************************)
(* What ahre promises of its tabs and their history, with no memory in     *)
(* sight: every tab is a tree of documents, a document that was opened     *)
(* from another one is its last child, and each tab shows one document.    *)
(* TabTree, the tree of TabNode structures of tab-node.c and tabs.c, is    *)
(* shown to implement this module.                                         *)
(***************************************************************************)
EXTENDS Naturals, Sequences, FiniteSets

CONSTANT Doc    \* the documents that can ever be fetched

VARIABLES
    roots,      \* the first document of each tab, in the order of the tabs
    kids,       \* kids[d] is the sequence of documents opened from d
    shown,      \* shown[t] is the document that tab t shows
    tab         \* the selected tab, 0 when there is none

vars == <<roots, kids, shown, tab>>

-----------------------------------------------------------------------------

(* The documents that were opened so far are those that have a (possibly  *)
(* empty) sequence of children.                                           *)
Opened == DOMAIN kids

Init ==
    /\ roots = <<>>
    /\ kids  = <<>>
    /\ shown = <<>>
    /\ tab   = 0

WithLeaf(k, d) == [x \in DOMAIN k \cup {d} |-> IF x = d THEN <<>> ELSE k[x]]

(* A URL is opened in a tab of its own, which becomes the selected one.    *)
OpenTab(d) ==
    /\ d \notin Opened
    /\ roots' = Append(roots, d)
    /\ kids'  = WithLeaf(kids, d)
    /\ shown' = Append(shown, d)
    /\ tab'   = Len(roots')

(* A document is opened from the one that is shown; stay tells whether the *)
(* tab goes on showing that one.                                           *)
OpenChild(d, stay) ==
    /\ tab # 0
    /\ d \notin Opened
    /\ kids'  = [WithLeaf(kids, d) EXCEPT ![shown[tab]] = Append(@, d)]
    /\ shown' = IF stay THEN shown ELSE [shown EXCEPT ![tab] = d]
    /\ UNCHANGED <<roots, tab>>

(* Going back shows the document the shown one was opened from.            *)
Back ==
    /\ tab # 0
    /\ \E p \in Opened :
          /\ \E i \in DOMAIN kids[p] : kids[p][i] = shown[tab]
          /\ shown' = [shown EXCEPT ![tab] = p]
    /\ UNCHANGED <<roots, kids, tab>>

SelectTab(t) ==
    /\ t \in DOMAIN roots
    /\ tab' = t
    /\ UNCHANGED <<roots, kids, shown>>

(* The documents of the tree of tab t: the closure of its root under kids. *)
TreeOf(t) ==
    LET Children(S) == {d \in Opened : \E p \in S : \E i \in DOMAIN kids[p] : kids[p][i] = d}
        level[k \in Nat] == IF k = 0 THEN {roots[t]} ELSE level[k-1] \cup Children(level[k-1])
    IN  level[Cardinality(Opened)]

(* Any document of the history can be shown again, in its own tab.         *)
Visit(t, d) ==
    /\ t \in DOMAIN roots
    /\ d \in TreeOf(t)
    /\ shown' = [shown EXCEPT ![t] = d]
    /\ tab'   = t
    /\ UNCHANGED <<roots, kids>>

Next ==
    \/ \E d \in Doc : OpenTab(d)
    \/ \E d \in Doc, stay \in BOOLEAN : OpenChild(d, stay)
    \/ Back
    \/ \E t \in DOMAIN roots : SelectTab(t)
    \/ \E t \in DOMAIN roots, d \in Opened : Visit(t, d)

Spec == Init /\ [][Next]_vars

=============================================================================
