------------------------------ MODULE TabTree ------------------------------
(***************************************************************************)
(* The tabs of a session (tabs.h, tabs.c) and the nodes of their trees     *)
(* (tab-node.h, tab-node.c), as they lie in memory.                        *)
(*                                                                         *)
(* A growable array, ArlOf(TabNode), owns a block that holds its nodes by  *)
(* value, one after the other; appending to it may move the nodes to       *)
(* another block, and every node carries a pointer to its parent, that is  *)
(* to a place inside a block.  A block that was released may be handed     *)
(* out again, so a pointer that was not corrected may come to point to a   *)
(* node that is not the parent.                                            *)
(*                                                                         *)
(* A command on a range of links or of inputs runs its callback once for   *)
(* each element; the callbacks are steps of their own, and nothing else    *)
(* runs in between since ahre has one thread.                              *)
(***************************************************************************)
EXTENDS Naturals, Sequences

CONSTANTS
    Block,      \* the blocks of memory that may be handed out
    Nil,        \* the null pointer
    MaxDocs,    \* bound: how many documents are fetched
    MaxRange    \* bound: how many elements a range names

ASSUME BlockAssumption == Nil \notin Block /\ Nil \notin Block \X Nat
ASSUME BoundAssumption == MaxDocs \in Nat /\ MaxRange \in Nat

VARIABLES
    heap,           \* heap[b]: the nodes in block b, <<>> when it is free
    tabs,           \* the block of the array of root nodes, or Nil
    current_tab,    \* the index of the current tab
    fetched,        \* ghost: the documents fetched so far are 1..fetched
    cmd             \* the range command that is running, or Idle

vars == <<heap, tabs, current_tab, fetched, cmd>>

Idle == [kind |-> "idle", left |-> 0, doc |-> 0]

-----------------------------------------------------------------------------
(* Memory.  The operators take the heap they work on, since a command may  *)
(* call several of the functions one after the other.                      *)

(* The places that hold a node; any other pointer dangles.                 *)
Ptrs(h) == UNION {{<<b, i>> : i \in DOMAIN h[b]} : b \in Block}

At(h, p) == h[p[1]][p[2]]

Put(h, p, node) == [h EXCEPT ![p[1]] = [h[p[1]] EXCEPT ![p[2]] = node]]

WithParent(node, p)     == [node EXCEPT !.parent = p]
WithIndex(node, ix)     == [node EXCEPT !.current_ix = ix]
WithChilds(node, b, ix) == [node EXCEPT !.childs = b, !.current_ix = ix]

(* The nodes of an array whose block is b: none before its first append.   *)
Items(h, b) == IF b = Nil THEN <<>> ELSE h[b]

tab_node_child_count(h, p) == Len(Items(h, At(h, p).childs))

tab_node_have_current_child(h, p) ==
    At(h, p).current_ix # tab_node_child_count(h, p)

(* Where an append may leave the items of the array of block b: where they *)
(* are, or in a block that is free.                                        *)
Placement(h, b) == {x \in Block : x = b \/ h[x] = <<>>}

(* Append to the array of block old, whose nodes are left in block new.    *)
ArlAppend(h, old, new, node) ==
    [x \in Block |-> IF x = new THEN Append(Items(h, old), node)
                     ELSE IF x = old THEN <<>> ELSE h[x]]

(* Every child of a node of block b is given the address of that node.     *)
_fix_childs_parents_(h, b) ==
    [x \in Block |->
        IF \E i \in DOMAIN h[b] : h[b][i].childs = x
        THEN LET owner == CHOOSE i \in DOMAIN h[b] : h[b][i].childs = x
             IN  [j \in DOMAIN h[x] |-> WithParent(h[x][j], <<b, owner>>)]
        ELSE h[x]]

(* Mutant: nobody corrects the parents after a move.                       *)
arl_of_tab_node_append_unfixed(h, old, new, node) == ArlAppend(h, old, new, node)

(* Parents are corrected only when an array that had a block was moved.    *)
arl_of_tab_node_append(h, old, new, node) ==
    LET appended == ArlAppend(h, old, new, node)
    IN  IF old # Nil /\ old # new
        THEN _fix_childs_parents_(appended, new)
        ELSE appended

(* Mutants: a node that shares its parent's array of childs; a node whose  *)
(* current_ix is the count of its siblings.                                *)
NewNode_sharing(d, parent) ==
    [doc |-> d, parent |-> parent, current_ix |-> 0,
     childs |-> IF parent = Nil THEN Nil ELSE At(heap, parent).childs]

NewNode_counting(d, parent) ==
    [doc |-> d, parent |-> parent, childs |-> Nil,
     current_ix |-> IF parent = Nil THEN 0 ELSE tab_node_child_count(heap, parent)]

NewNode(d, parent) == [doc |-> d, parent |-> parent, childs |-> Nil, current_ix |-> 0]

(* The array of childs of n gets the node and its last item is current.    *)
tab_node_append_move_child(h, n, node, new) ==
    LET appended == arl_of_tab_node_append(h, At(h, n).childs, new, node)
    IN  Put(appended, n, WithChilds(At(appended, n), new, Len(appended[new]) - 1))

-----------------------------------------------------------------------------
(* Which node is current.  No path is longer than the count of documents.  *)

Child(h, p, ix) == <<At(h, p).childs, ix + 1>>

(* Follow current_ix down from a root for as long as it names a child.     *)
tab_node_current_node(h, root) ==
    LET down[k \in Nat] ==
            IF k = 0 THEN root
            ELSE LET p == down[k-1]
                 IN  IF At(h, p).current_ix < tab_node_child_count(h, p)
                     THEN Child(h, p, At(h, p).current_ix)
                     ELSE p
    IN  down[fetched]

RootPtr(t) == <<tabs, t + 1>>

Tabs == {i - 1 : i \in DOMAIN Items(heap, tabs)}

CurrentNode(h) == tab_node_current_node(h, RootPtr(current_tab))

(* The nodes met when the parent pointers are followed up from n.          *)
Chain(h, n) ==
    LET up[k \in Nat] ==
            IF k = 0 THEN {n} \cap Ptrs(h)
            ELSE LET S == up[k-1]
                 IN  S \cup ({At(h, p).parent : p \in S} \cap Ptrs(h))
    IN  up[fetched]

(* The nodes of the tree of a root, found from the arrays of childs.       *)
Tree(h, root) ==
    LET below[k \in Nat] ==
            IF k = 0 THEN {root}
            ELSE LET S == below[k-1]
                 IN  S \cup {q \in Ptrs(h) : \E p \in S : q[1] = At(h, p).childs}
    IN  below[fetched]

(* Mutant: the ancestors are left as they were.                            *)
tab_node_set_as_current_alone(h, n) ==
    [b \in Block |-> [i \in DOMAIN h[b] |->
        IF <<b, i>> = n THEN WithIndex(h[b][i], tab_node_child_count(h, n)) ELSE h[b][i]]]

(* The node n shows its own document and each of its ancestors shows the   *)
(* child that the climb comes from.  The index of that child is computed   *)
(* from its address, which must lie in the array of childs.                *)
tab_node_set_as_current(h, n) ==
    LET chain == Chain(h, n)
        From(p) == {c \in Ptrs(h) : c \in chain /\ At(h, c).parent = p /\ c[1] = At(h, p).childs}
        Index(p) == IF p = n THEN tab_node_child_count(h, n)
                    ELSE IF From(p) # {} THEN (CHOOSE c \in From(p) : TRUE)[2] - 1
                    ELSE At(h, p).current_ix
    IN  [b \in Block |-> [i \in DOMAIN h[b] |-> WithIndex(h[b][i], Index(<<b, i>>))]]

-----------------------------------------------------------------------------
(* Commands.                                                               *)

Init ==
    /\ heap = [b \in Block |-> <<>>]
    /\ tabs = Nil
    /\ current_tab = 0
    /\ fetched = 0
    /\ cmd = Idle

(* A document was fetched without error.                                   *)
Fetch == fetched < MaxDocs /\ fetched' = fetched + 1

(* Mutant: the count of tabs is taken for the index of the last one.       *)
OpenUrl_past_end ==
    /\ cmd = Idle
    /\ Fetch
    /\ \E new \in Placement(heap, tabs) :
          /\ heap' = arl_of_tab_node_append(heap, tabs, new, NewNode(fetched + 1, Nil))
          /\ tabs' = new
          /\ current_tab' = Len(heap'[new])
    /\ UNCHANGED cmd

(* tablist_append_tree_from_url: the root of a new tab, which is selected. *)
OpenUrl ==
    /\ cmd = Idle
    /\ Fetch
    /\ \E new \in Placement(heap, tabs) :
          /\ heap' = arl_of_tab_node_append(heap, tabs, new, NewNode(fetched + 1, Nil))
          /\ tabs' = new
          /\ current_tab' = Len(heap'[new]) - 1
    /\ UNCHANGED cmd

(* The heaps that following a link or submitting a form from n may leave.  *)
Appended(n) ==
    {tab_node_append_move_child(heap, n, NewNode(fetched + 1, n), new) :
        new \in Placement(heap, At(heap, n).childs)}

(* tab_node_tree_append_ahref_from_node for a single link, and             *)
(* tab_node_tree_append_submit_input_node for a single input.              *)
FollowLink ==
    /\ cmd = Idle
    /\ current_tab \in Tabs
    /\ Fetch
    /\ \E n \in Ptrs(heap) : n = CurrentNode(heap) /\ heap' \in Appended(n)
    /\ UNCHANGED <<tabs, current_tab, cmd>>

(* A command on a range of elements of the current document starts.        *)
StartRange(kind, count) ==
    /\ cmd = Idle
    /\ current_tab \in Tabs
    /\ \E n \in Ptrs(heap) : /\ n = CurrentNode(heap)
                             /\ cmd' = [kind |-> kind, left |-> count, doc |-> At(heap, n).doc]
    /\ UNCHANGED <<heap, tabs, current_tab, fetched>>

NextElement == cmd' = IF cmd.left = 1 THEN Idle ELSE [cmd EXCEPT !.left = @ - 1]

(* tablist_back on heap h, whose current node is n: nothing happens at the *)
(* root of a tab.                                                          *)
Back(h, n) ==
    IF At(h, n).parent = Nil THEN h ELSE tab_node_set_as_current(h, At(h, n).parent)

(* Mutant: the session goes back after a link that failed to open, too.    *)
RangeElementFails_and_back ==
    /\ cmd # Idle
    /\ \E n \in Ptrs(heap) : n = CurrentNode(heap) /\ heap' = Back(heap, n)
    /\ NextElement
    /\ UNCHANGED <<tabs, current_tab, fetched>>

(* cmd_anchor_asterisk: the link is followed, then the session goes back.  *)
FollowRangeLink ==
    /\ cmd.kind = "links"
    /\ Fetch
    /\ \E n \in Ptrs(heap) :
          /\ n = CurrentNode(heap)
          /\ \E h \in Appended(n) : \E c \in Ptrs(h) : c = CurrentNode(h) /\ heap' = Back(h, c)
    /\ NextElement
    /\ UNCHANGED <<tabs, current_tab>>

(* cmd_input_default_node on a submit: the answer becomes current, so the  *)
(* next element of the range is submitted from the answer's node.          *)
SubmitRangeInput ==
    /\ cmd.kind = "inputs"
    /\ Fetch
    /\ \E n \in Ptrs(heap) : n = CurrentNode(heap) /\ heap' \in Appended(n)
    /\ NextElement
    /\ UNCHANGED <<tabs, current_tab>>

(* The callback fails: its error is printed and the range goes on.         *)
RangeElementFails ==
    /\ cmd # Idle
    /\ NextElement
    /\ UNCHANGED <<heap, tabs, current_tab, fetched>>

(* The range names an element the document does not have: it stops there.  *)
RangeStops ==
    /\ cmd # Idle
    /\ cmd' = Idle
    /\ UNCHANGED <<heap, tabs, current_tab, fetched>>

tablist_back ==
    /\ cmd = Idle
    /\ current_tab \in Tabs
    /\ \E n \in Ptrs(heap) : n = CurrentNode(heap) /\ heap' = Back(heap, n)
    /\ UNCHANGED <<tabs, current_tab, fetched, cmd>>

(* tablist_move_to_node, and tablist_move_to_path with a path: both find a *)
(* node in the tree of a tab (TabNumbering models how).                    *)
MoveTo(t, n) ==
    /\ cmd = Idle
    /\ n \in Tree(heap, RootPtr(t))
    /\ heap' = tab_node_set_as_current(heap, n)
    /\ current_tab' = t
    /\ UNCHANGED <<tabs, fetched, cmd>>

(* tablist_move_to_path with the number of a tab alone.                    *)
SelectTab(t) ==
    /\ cmd = Idle
    /\ current_tab' = t
    /\ UNCHANGED <<heap, tabs, fetched, cmd>>

Next ==
    \/ OpenUrl
    \/ FollowLink
    \/ \E kind \in {"links", "inputs"}, count \in 1 .. MaxRange : StartRange(kind, count)
    \/ FollowRangeLink
    \/ SubmitRangeInput
    \/ RangeElementFails
    \/ RangeStops
    \/ tablist_back
    \/ \E t \in Tabs, n \in Ptrs(heap) : MoveTo(t, n)
    \/ \E t \in Tabs : SelectTab(t)

Spec == Init /\ [][Next]_vars

-----------------------------------------------------------------------------
(* Properties.                                                             *)

Pointer == (Block \X Nat) \cup {Nil}

Node == [doc : 1 .. MaxDocs, parent : Pointer, childs : Block \cup {Nil}, current_ix : Nat]

(* Every variable has its type, and once there is a tab the current one is *)
(* a tab (tablist_current_tab would answer "no tabs in session" if not).   *)
TypeOK ==
    /\ heap \in [Block -> Seq(Node)]
    /\ tabs \in Block \cup {Nil}
    /\ current_tab \in IF tabs = Nil THEN {0} ELSE Tabs
    /\ fetched \in 0 .. MaxDocs
    /\ cmd \in [kind : {"idle", "links", "inputs"}, left : 0 .. MaxRange, doc : 0 .. MaxDocs]

(* The parent of a root is null.                                           *)
RootsHaveNoParent ==
    tabs # Nil => \A i \in DOMAIN heap[tabs] : heap[tabs][i].parent = Nil

(* Every node points to the node whose array of childs holds it, however   *)
(* often the arrays it lies in, or its parent lies in, were moved.         *)
ParentsValid ==
    /\ RootsHaveNoParent
    /\ \A p \in Ptrs(heap) :
          At(heap, p).childs # Nil =>
              \A i \in DOMAIN heap[At(heap, p).childs] : heap[At(heap, p).childs][i].parent = p

(* A block belongs to one array only, and an array that has a block has an *)
(* item in it: no node is reached in two ways, and none is in a free block.*)
BlocksDisjoint ==
    /\ \A p \in Ptrs(heap) : At(heap, p).childs # Nil =>
          /\ At(heap, p).childs # tabs
          /\ heap[At(heap, p).childs] # <<>>
          /\ \A q \in Ptrs(heap) : At(heap, q).childs = At(heap, p).childs => p = q
    /\ tabs # Nil => heap[tabs] # <<>>

(* A block in use is the block of some array: none is leaked when an array *)
(* moves.                                                                  *)
NoBlockLeaked ==
    \A b \in Block : heap[b] # <<>> =>
        b = tabs \/ \E p \in Ptrs(heap) : At(heap, p).childs = b

(* However often an array moves, a block has one array and an array in use *)
(* one block (tab-node.c:115-122, 36-93).                                  *)
BlocksOwned == BlocksDisjoint /\ NoBlockLeaked

(* current_ix names a child or, when it is the count of childs, the node   *)
(* itself; tab_node_have_current_child and tab_node_current_node agree     *)
(* only then.                                                              *)
CurrentIndexValid ==
    \A p \in Ptrs(heap) : At(heap, p).current_ix <= tab_node_child_count(heap, p)

(* Each fetched document is the document of one node of one tab: none is   *)
(* lost and none is owned by two nodes, which would free it twice.         *)
EachDocumentOnce ==
    /\ \A d \in 1 .. fetched : \E p \in Ptrs(heap) : At(heap, p).doc = d
    /\ \A p, q \in Ptrs(heap) : At(heap, p).doc = At(heap, q).doc => p = q
    /\ Ptrs(heap) = UNION {Tree(heap, RootPtr(t)) : t \in Tabs}

(* While a range of links is followed the session stays on the document    *)
(* the links are of: a failed element does not go back, an opened one does *)
(* (cmd_anchor_asterisk).                                                  *)
RangeStaysOnDocument ==
    cmd.kind = "links" => At(heap, CurrentNode(heap)).doc = cmd.doc

(* No document is lost, neither to the session nor to a range that is      *)
(* about it.                                                               *)
DocumentsKept == EachDocumentOnce /\ RangeStaysOnDocument

-----------------------------------------------------------------------------
(* The tree in memory implements the history that History promises.        *)

NodeOf(d) == CHOOSE p \in Ptrs(heap) : At(heap, p).doc = d

Docs(b) == LET nodes == Items(heap, b) IN [i \in DOMAIN nodes |-> nodes[i].doc]

H == INSTANCE History WITH
        Doc   <- 1 .. MaxDocs,
        roots <- Docs(tabs),
        kids  <- [d \in 1 .. fetched |-> Docs(At(heap, NodeOf(d)).childs)],
        shown <- [i \in DOMAIN Docs(tabs) |-> At(heap, tab_node_current_node(heap, <<tabs, i>>)).doc],
        tab   <- IF tabs = Nil THEN 0 ELSE current_tab + 1

(* Every step does to the history what some command of History does.       *)
ImplementsHistory == H!Spec

(* And each command does what the guide says of that command: a link shows its *)
(* document, or the old one when it is one of a range; going back shows the*)
(* document it came from, at a root it does nothing; and a document that   *)
(* was chosen is shown, in its own tab.                                    *)
CommandsKeepPromises ==
    /\ ImplementsHistory
    /\ [][ /\ OpenUrl => H!OpenTab(fetched')
           /\ FollowLink => H!OpenChild(fetched', FALSE)
           /\ SubmitRangeInput => H!OpenChild(fetched', FALSE)
           /\ FollowRangeLink => H!OpenChild(fetched', TRUE)
           /\ tablist_back => IF CurrentNode(heap)[1] = tabs THEN UNCHANGED H!vars ELSE H!Back
           /\ \A t \in Tabs : SelectTab(t) => H!SelectTab(t + 1)
           /\ \A t \in Tabs, n \in Ptrs(heap) : MoveTo(t, n) => H!Visit(t + 1, At(heap, n).doc)
         ]_vars
=============================================================================
