---------------------------- MODULE TabNumbering ----------------------------
(***************************************************************************)
(* How the | command names the nodes of the tabs, and finds the node that  *)
(* was named: a number counts the nodes of all the tabs in the order they  *)
(* are listed (tabs.c), a path gives the number of a tab and then the      *)
(* index of a child at each level (tabs.h, tab-node.h).                    *)
(*                                                                         *)
(* The commands replace MoveTo and SelectTab of TabTree, which say no more *)
(* than that the node found is one of the tab found.                       *)
(***************************************************************************)
EXTENDS TabTree, SequencesExt

-----------------------------------------------------------------------------
(* Finding the node with a number.                                         *)

Childs(h, n) == [i \in 1 .. tab_node_child_count(h, n) |-> Child(h, n, i - 1)]

Roots(h) == [i \in DOMAIN Items(h, tabs) |-> RootPtr(i - 1)]

(* A search: how many nodes are still to be skipped, the node found or Nil,*)
(* and the tab that was searched last.                                     *)
Search(ix) == [ix |-> ix, out |-> Nil, tab |-> 0]

Found(s) == s.ix = 0 /\ s.out # Nil

(* A node that is not the one sought is skipped, then its childs are.      *)
RECURSIVE tab_node_enumerated_get_node(_, _, _)
tab_node_enumerated_get_node(h, n, s) ==
    IF s.ix = 0
    THEN [s EXCEPT !.out = n]
    ELSE FoldLeft(LAMBDA r, c : IF Found(r) THEN r ELSE tab_node_enumerated_get_node(h, c, r),
                  [s EXCEPT !.ix = @ - 1],
                  Childs(h, n))

tablist_enumerated_get_node(h, ix) ==
    FoldLeft(LAMBDA r, root :
                 IF Found(r) THEN r
                 ELSE tab_node_enumerated_get_node(h, root, [r EXCEPT !.tab = root[2] - 1]),
             Search(ix),
             Roots(h))

(* Finding the node at the end of a path below n; Nil when a child lacks.  *)
RECURSIVE tab_node_find_node(_, _, _)
tab_node_find_node(h, n, path) ==
    IF path = <<>> THEN n
    ELSE IF Head(path) < tab_node_child_count(h, n)
    THEN tab_node_find_node(h, Child(h, n, Head(path)), Tail(path))
    ELSE Nil

-----------------------------------------------------------------------------
(* What the listings show: each node, what names it and its mark.          *)

(* The node is its own current one, and the climb from it reaches the root *)
(* through childs that are each the current child of their parent.         *)
RECURSIVE climbs(_, _)
climbs(h, n) ==
    LET up == At(h, n).parent
    IN  \/ up = Nil
        \/ /\ n = Child(h, up, At(h, up).current_ix)
           /\ climbs(h, up)

tab_node_is_current_in_tab(h, n) == ~tab_node_have_current_child(h, n) /\ climbs(h, n)

Mark(h, n) ==
    IF n = CurrentNode(h) THEN "*"
    ELSE IF tab_node_is_current_in_tab(h, n) THEN "current in its tab"
    ELSE "none"

RECURSIVE tablist_to_node_list(_, _)
tablist_to_node_list(h, n) ==
    <<n>> \o FoldLeft(LAMBDA nodes, c : nodes \o tablist_to_node_list(h, c), <<>>, Childs(h, n))

(* Mutant: the offset of a tab is the length of the tab before it alone.   *)
tablist_info_titles_no_sum(h) ==
    LET lists == [i \in DOMAIN Roots(h) |-> tablist_to_node_list(h, Roots(h)[i])]
        Offset(i) == IF i = 1 THEN 0 ELSE Len(lists[i-1])
    IN  FlattenSeq([i \in DOMAIN lists |->
            [k \in DOMAIN lists[i] |->
                [ix   |-> Offset(i) + k - 1,
                 node |-> lists[i][k],
                 mark |-> Mark(h, lists[i][k])]]])

(* The list of titles; the number of a node counts those of earlier tabs.  *)
tablist_info_titles(h) ==
    LET lists == [i \in DOMAIN Roots(h) |-> tablist_to_node_list(h, Roots(h)[i])]
        offset[i \in Nat] == IF i = 0 THEN 0 ELSE offset[i-1] + Len(lists[i])
        OfTab(i) == [k \in DOMAIN lists[i] |->
                        [ix   |-> offset[i-1] + k - 1,
                         node |-> lists[i][k],
                         mark |-> Mark(h, lists[i][k])]]
    IN  FlattenSeq([i \in DOMAIN lists |-> OfTab(i)])

(* The lines of the tree of n, whose path is stack.                        *)
RECURSIVE session_tab_node_print(_, _, _)
session_tab_node_print(h, n, stack) ==
    <<[path |-> stack, node |-> n, mark |-> Mark(h, n)]>>
        \o FlattenSeq([i \in DOMAIN Childs(h, n) |->
                session_tab_node_print(h, Childs(h, n)[i], Append(stack, i - 1))])

tablist_info_tree(h) ==
    FlattenSeq([i \in DOMAIN Roots(h) |-> session_tab_node_print(h, Roots(h)[i], <<i - 1>>)])

-----------------------------------------------------------------------------
(* The commands.                                                           *)

(* Mutant: the tab of the node is not selected.                            *)
tablist_move_to_node_tab_kept(ix) ==
    LET s == tablist_enumerated_get_node(heap, ix)
    IN  /\ Found(s)
        /\ heap' = tab_node_set_as_current(heap, s.out)
        /\ UNCHANGED <<current_tab, tabs, fetched, cmd>>

tablist_move_to_node(ix) ==
    LET s == tablist_enumerated_get_node(heap, ix)
    IN  /\ Found(s)
        /\ heap' = tab_node_set_as_current(heap, s.out)
        /\ current_tab' = s.tab
        /\ UNCHANGED <<tabs, fetched, cmd>>

(* A path that ends after the number of a tab selects the tab; any other   *)
(* must end with a dot, also the one of the root ("0.").                   *)
tablist_move_to_path(path, dot) ==
    /\ Head(path) \in Tabs
    /\ IF Tail(path) = <<>> /\ ~dot
       THEN UNCHANGED heap
       ELSE LET n == tab_node_find_node(heap, RootPtr(Head(path)), Tail(path))
            IN  /\ dot
                /\ n # Nil
                /\ heap' = tab_node_set_as_current(heap, n)
    /\ current_tab' = Head(path)
    /\ UNCHANGED <<tabs, fetched, cmd>>

(* cmd_tabs_info on what follows the |: whether it starts with a dot, the  *)
(* numbers, and whether it ends with a dot.  A line that starts with a     *)
(* number has to be that number alone.  No number shows a listing; that    *)
(* and a line that is refused change nothing and are left out.             *)
cmd_tabs_info(dotted, nums, dot) ==
    /\ cmd = Idle
    /\ IF dotted THEN tablist_move_to_path(nums, dot)
       ELSE Len(nums) = 1 /\ ~dot /\ tablist_move_to_node(Head(nums))

Numbers == 0 .. MaxDocs

Lines == UNION {[1 .. k -> 0 .. MaxDocs - 1] : k \in 1 .. MaxDocs} \cup {<<MaxDocs>>}

NumberedNext ==
    \/ OpenUrl
    \/ FollowLink
    \/ \E kind \in {"links", "inputs"}, count \in 1 .. MaxRange : StartRange(kind, count)
    \/ FollowRangeLink
    \/ SubmitRangeInput
    \/ RangeElementFails
    \/ RangeStops
    \/ tablist_back
    \/ \E dotted, dot \in BOOLEAN, nums \in Lines : cmd_tabs_info(dotted, nums, dot)

NumberedSpec == Init /\ [][NumberedNext]_vars

-----------------------------------------------------------------------------
(* Properties.                                                             *)

(* The listings name every node once, by the number or path that finds it, *)
(* and every number below the count of nodes, and no other, finds one.     *)
ListingsAgree ==
    LET titles == tablist_info_titles(heap)
        tree   == tablist_info_tree(heap)
    IN  current_tab \in Tabs =>
        /\ {titles[i].node : i \in DOMAIN titles} = Ptrs(heap)
        /\ {tree[i].node : i \in DOMAIN tree} = Ptrs(heap)
        /\ Len(titles) = fetched /\ Len(tree) = fetched
        /\ \A i \in DOMAIN titles :
              /\ titles[i].ix = i - 1
              /\ titles[i].node = tree[i].node
              /\ titles[i].mark = tree[i].mark
        /\ \A i \in DOMAIN tree :
              tab_node_find_node(heap, RootPtr(Head(tree[i].path)), Tail(tree[i].path)) = tree[i].node
        /\ \A ix \in Numbers : Found(tablist_enumerated_get_node(heap, ix)) <=> ix < fetched

(* The climb that marks a node and the descent that shows a document agree:*)
(* one node of each tab is marked, the one its tab shows.                  *)
MarksAgree ==
    \A n \in Ptrs(heap) :
        tab_node_is_current_in_tab(heap, n)
            <=> \E t \in Tabs : n = tab_node_current_node(heap, RootPtr(t))

(* The numbers that are listed are the ones that find, and what is listed  *)
(* as shown is what is shown.                                              *)
NumbersAgree == ListingsAgree /\ MarksAgree

(* The node that was listed under a number is the current one once that    *)
(* number was typed, and what is listed under each number stays the same.  *)
(* Each such command is one of TabTree: it makes a node of the tree of the *)
(* tab it selects current, or selects a tab alone.                         *)
NumberSelectsListed ==
    [][/\ Next
       /\ \A ix \in Numbers :
             cmd_tabs_info(FALSE, <<ix>>, FALSE) =>
                 /\ tablist_info_titles(heap)'[ix + 1].mark = "*"
                 /\ tablist_info_titles(heap)'[ix + 1].node = tablist_info_titles(heap)[ix + 1].node
      ]_vars


=============================================================================
