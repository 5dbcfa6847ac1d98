--------------------------- MODULE TabTreeProofs ---------------------------
(***************************************************************************)
(* Proofs about TabTree, for any set of blocks and any bounds.             *)
(***************************************************************************)
EXTENDS TabTree, SequenceTheorems, TLAPS

(* The invariant, for a heap h, an array of roots t and d documents.       *)
Typed(h, t) == h \in [Block -> Seq(Node)] /\ t \in Block \cup {Nil}

Owned(h, t) ==
    /\ \A p \in Ptrs(h) : At(h, p).childs # Nil =>
          /\ At(h, p).childs # t
          /\ h[At(h, p).childs] # <<>>
          /\ \A q \in Ptrs(h) : At(h, q).childs = At(h, p).childs => p = q
    /\ t # Nil => h[t] # <<>>
    /\ \A b \in Block : h[b] # <<>> => b = t \/ \E p \in Ptrs(h) : At(h, p).childs = b

Linked(h, t) ==
    /\ t # Nil => \A i \in DOMAIN h[t] : h[t][i].parent = Nil
    /\ \A p \in Ptrs(h) : At(h, p).childs # Nil =>
          \A i \in DOMAIN h[At(h, p).childs] : h[At(h, p).childs][i].parent = p

(* A child was fetched after its parent: no node is below itself.          *)
Ordered(h, d) ==
    \A p \in Ptrs(h) :
        /\ At(h, p).doc <= d
        /\ At(h, p).childs # Nil =>
              \A i \in DOMAIN h[At(h, p).childs] : At(h, p).doc < h[At(h, p).childs][i].doc

Indexed(h) ==
    \A p \in Ptrs(h) : At(h, p).current_ix <= tab_node_child_count(h, p)

HeapInv(h, t, d) ==
    Typed(h, t) /\ Owned(h, t) /\ Linked(h, t) /\ Ordered(h, d) /\ Indexed(h)

(* Where a node of the heap is after the array of block old was moved to   *)
(* block new.                                                              *)
Moved(p, old, new) == IF p # Nil /\ p[1] = old THEN <<new, p[2]>> ELSE p

(* A pointer is a block and an index of its array.                         *)
LEMMA PtrFacts ==
    ASSUME NEW h, NEW p
    PROVE  p \in Ptrs(h) <=> \E b \in Block : \E i \in DOMAIN h[b] : p = <<b, i>>
BY DEF Ptrs

(* The parts of a pointer, and what it points to.                          *)
LEMMA PtrType ==
    ASSUME NEW h, NEW t, Typed(h, t), NEW p \in Ptrs(h)
    PROVE  /\ p = <<p[1], p[2]>>
           /\ p[1] \in Block
           /\ p[2] \in DOMAIN h[p[1]]
           /\ p[2] \in Nat
           /\ p # Nil
           /\ p \in Pointer
           /\ At(h, p) \in Node
<1>1. PICK b \in Block : \E i \in DOMAIN h[b] : p = <<b, i>>
  BY PtrFacts
<1>2. PICK i \in DOMAIN h[b] : p = <<b, i>>
  BY <1>1
<1>3. h[b] \in Seq(Node) /\ i \in Nat /\ h[b][i] \in Node
  BY DEF Typed
<1>4. QED
  BY <1>2, <1>3, BlockAssumption DEF At, Pointer

(* A function on 1..n is a sequence.                                       *)
LEMMA SequenceOf ==
    ASSUME NEW S, NEW n \in Nat, NEW f, f = [j \in DOMAIN f |-> f[j]],
           DOMAIN f = 1 .. n, \A j \in 1 .. n : f[j] \in S
    PROVE  f \in Seq(S) /\ Len(f) = n
<1>1. f \in [1 .. n -> S]
  BY Zenon
<1>2. f \in Seq(S)
  BY <1>1, SeqDef
<1>3. QED
  BY <1>2, LenProperties

(* Only the array of childs and the index change.                          *)
LEMMA WithChildsFacts ==
    ASSUME NEW node \in Node, NEW b \in Block, NEW ix \in Nat
    PROVE  /\ WithChilds(node, b, ix) \in Node
           /\ WithChilds(node, b, ix).parent = node.parent
           /\ WithChilds(node, b, ix).doc = node.doc
           /\ WithChilds(node, b, ix).childs = b
           /\ WithChilds(node, b, ix).current_ix = ix
BY DEF WithChilds, Node

(* Only one field changes.                                                 *)
LEMMA WithFacts ==
    ASSUME NEW node \in Node
    PROVE  /\ \A p \in Pointer :
                /\ WithParent(node, p) \in Node
                /\ WithParent(node, p).parent = p
                /\ WithParent(node, p).doc = node.doc
                /\ WithParent(node, p).childs = node.childs
                /\ WithParent(node, p).current_ix = node.current_ix
           /\ \A ix \in Nat :
                /\ WithIndex(node, ix) \in Node
                /\ WithIndex(node, ix).parent = node.parent
                /\ WithIndex(node, ix).doc = node.doc
                /\ WithIndex(node, ix).childs = node.childs
                /\ WithIndex(node, ix).current_ix = ix
BY DEF WithParent, WithIndex, Node

-----------------------------------------------------------------------------
(* What ArlAppend leaves in each block.                                    *)

(* The array is in block new, with its new item; old is free if it moved.  *)
LEMMA ArlAppendShape ==
    ASSUME NEW h, NEW t, Typed(h, t),
           NEW old \in Block \cup {Nil}, NEW new \in Placement(h, old),
           NEW node \in Node,
           NEW g, g = ArlAppend(h, old, new, node)
    PROVE  /\ g \in [Block -> Seq(Node)]
           /\ new \in Block
           /\ g[new] = Append(Items(h, old), node)
           /\ Items(h, old) \in Seq(Node)
           /\ old # Nil /\ old # new => g[old] = <<>>
           /\ \A x \in Block : x # new /\ x # old => g[x] = h[x]
           /\ old # new => h[new] = <<>>
<1>1. new \in Block /\ (old # new => h[new] = <<>>)
  BY DEF Placement
<1>2. Items(h, old) \in Seq(Node)
  BY DEF Items, Typed
<1>3. <<>> \in Seq(Node) /\ Append(Items(h, old), node) \in Seq(Node)
  BY <1>2
<1>4. g = [x \in Block |-> IF x = new THEN Append(Items(h, old), node)
                           ELSE IF x = old THEN <<>> ELSE h[x]]
  BY DEF ArlAppend
<1>5. g[new] = Append(Items(h, old), node)
  BY <1>1, <1>4
<1>6. old # Nil /\ old # new => g[old] = <<>>
  BY <1>4
<1>7. \A x \in Block : x # new /\ x # old => g[x] = h[x]
  BY <1>4
<1>8. \A x \in Block : g[x] \in Seq(Node)
  <2> TAKE x \in Block
  <2>1. h[x] \in Seq(Node)
    BY DEF Typed
  <2>2. QED
    BY <2>1, <1>3, <1>5, <1>6, <1>7, BlockAssumption
<1>9. g \in [Block -> Seq(Node)]
  BY <1>4, <1>8
<1>10. QED
  BY <1>1, <1>2, <1>5, <1>6, <1>7, <1>9

(* What correcting the parents changes: the nodes of the arrays owned by   *)
(* the nodes of block b point to their owner.                              *)
OneOwner(h, b) ==
    \A i, j \in DOMAIN h[b] :
        h[b][i].childs # Nil /\ h[b][i].childs = h[b][j].childs => i = j

Fixed(h, b, g) ==
    /\ g \in [Block -> Seq(Node)]
    /\ \A x \in Block : DOMAIN g[x] = DOMAIN h[x] /\ Len(g[x]) = Len(h[x])
    /\ \A x \in Block : (\A i \in DOMAIN h[b] : h[b][i].childs # x) => g[x] = h[x]
    /\ \A i \in DOMAIN h[b] : h[b][i].childs # Nil =>
          \A j \in DOMAIN h[h[b][i].childs] :
              g[h[b][i].childs][j] = WithParent(h[h[b][i].childs][j], <<b, i>>)

(* The correction gives the childs of each item its address, no one else.  *)
LEMMA FixShape ==
    ASSUME NEW h \in [Block -> Seq(Node)], NEW b \in Block, OneOwner(h, b)
    PROVE  Fixed(h, b, _fix_childs_parents_(h, b))
<1> DEFINE g == _fix_childs_parents_(h, b)
<1> DEFINE owner(x) == CHOOSE i \in DOMAIN h[b] : h[b][i].childs = x
           Has(x)   == \E i \in DOMAIN h[b] : h[b][i].childs = x
           new(x)   == IF Has(x)
                       THEN [j \in DOMAIN h[x] |-> WithParent(h[x][j], <<b, owner(x)>>)]
                       ELSE h[x]
<1>1. g = [x \in Block |-> new(x)]
  BY DEF _fix_childs_parents_
<1> HIDE DEF g
<1>2. ASSUME NEW x \in Block
      PROVE  new(x) \in Seq(Node) /\ DOMAIN new(x) = DOMAIN h[x] /\ Len(new(x)) = Len(h[x])
  <2>1. h[x] \in Seq(Node)
    OBVIOUS
  <2>2. CASE ~ Has(x)
    BY <2>1, <2>2
  <2>3. CASE Has(x)
    <3>1. owner(x) \in DOMAIN h[b]
      BY <2>3
    <3>2. <<b, owner(x)>> \in Pointer
      <4>1. h[b] \in Seq(Node)
        OBVIOUS
      <4>2. owner(x) \in Nat
        BY <3>1, <4>1
      <4> HIDE DEF owner
      <4>3. QED
        BY <4>2 DEF Pointer
    <3> HIDE DEF owner
    <3> HIDE DEF Has
    <3>3. new(x) = [j \in DOMAIN h[x] |-> WithParent(h[x][j], <<b, owner(x)>>)]
      BY <2>3
    <3>4. \A j \in DOMAIN h[x] : new(x)[j] \in Node
      <4> TAKE j \in DOMAIN h[x]
      <4>1. h[x][j] \in Node
        BY <2>1
      <4>2. QED
        BY <4>1, <3>2, <3>3, WithFacts
    <3>5. DOMAIN new(x) = DOMAIN h[x] /\ new(x) = [j \in DOMAIN new(x) |-> new(x)[j]]
      BY <3>3, Zenon
    <3> HIDE DEF new
    <3>6. DOMAIN h[x] = 1 .. Len(h[x]) /\ Len(h[x]) \in Nat
      BY <2>1
    <3>7. QED
      BY <3>4, <3>5, <3>6, SequenceOf
  <2>4. QED
    BY <2>2, <2>3
<1>3. ASSUME NEW i \in DOMAIN h[b], h[b][i].childs # Nil, NEW j \in DOMAIN h[h[b][i].childs]
      PROVE  g[h[b][i].childs][j] = WithParent(h[h[b][i].childs][j], <<b, i>>)
  <2>1. h[b][i].childs \in Block
    <3>1. h[b] \in Seq(Node)
      OBVIOUS
    <3>2. h[b][i] \in Node
      BY <3>1
    <3>3. QED
      BY <1>3, <3>2 DEF Node
  <2>2. Has(h[b][i].childs)
    OBVIOUS
  <2>3. owner(h[b][i].childs) \in DOMAIN h[b] /\ h[b][owner(h[b][i].childs)].childs = h[b][i].childs
    BY <2>2
  <2>4. owner(h[b][i].childs) = i
    BY <1>3, <2>3 DEF OneOwner
  <2>5. g[h[b][i].childs] = new(h[b][i].childs)
    BY <1>1, <2>1
  <2>6. QED
    BY <2>2, <2>4, <2>5
<1>4. \A x \in Block : (\A i \in DOMAIN h[b] : h[b][i].childs # x) => g[x] = h[x]
  BY <1>1
<1>5. /\ \A x \in Block : g[x] = new(x)
      /\ DOMAIN g = Block
      /\ g = [x \in Block |-> g[x]]
  BY <1>1
<1> HIDE DEF new, Has, owner, g
<1>6. g \in [Block -> Seq(Node)] /\ \A x \in Block : DOMAIN g[x] = DOMAIN h[x] /\ Len(g[x]) = Len(h[x])
  BY <1>2, <1>5
<1>7. Fixed(h, b, g)
  BY <1>3, <1>4, <1>6 DEF Fixed
<1>8. QED
  BY <1>7 DEF g

-----------------------------------------------------------------------------
(* What the invariant says of one node.                                    *)

(* A root has no parent; the parent of another node holds its array.       *)
LEMMA OwnerOf ==
    ASSUME NEW h, NEW t, NEW d, HeapInv(h, t, d), NEW p \in Ptrs(h)
    PROVE  /\ p[1] = t => At(h, p).parent = Nil
           /\ p[1] # t => /\ At(h, p).parent \in Ptrs(h)
                          /\ At(h, At(h, p).parent).childs = p[1]
           /\ \A r \in Ptrs(h) : At(h, r).childs = p[1] =>
                 At(h, p).parent = r /\ At(h, r).doc < At(h, p).doc /\ p # r
<1>1. /\ p[1] \in Block /\ p[2] \in DOMAIN h[p[1]] /\ At(h, p) = h[p[1]][p[2]] /\ p[1] # Nil
      /\ h[p[1]] # <<>>
  <2>1. p[1] \in Block /\ p[2] \in DOMAIN h[p[1]] /\ At(h, p) = h[p[1]][p[2]]
    BY PtrType DEF HeapInv, At
  <2>2. h[p[1]] # <<>>
    BY <2>1
  <2>3. QED
    BY <2>1, <2>2, BlockAssumption
<1>2. p[1] = t => At(h, p).parent = Nil
  BY <1>1 DEF HeapInv, Linked
<1>3. ASSUME NEW r \in Ptrs(h), At(h, r).childs = p[1]
      PROVE  At(h, p).parent = r /\ At(h, r).doc < At(h, p).doc
  BY <1>1, <1>3 DEF HeapInv, Linked, Ordered
<1>4. ASSUME NEW r \in Ptrs(h), At(h, r).childs = p[1]
      PROVE  p # r
  <2>1. At(h, r).doc \in Nat
    BY PtrType DEF HeapInv, Node
  <2>2. QED
    BY <1>3, <1>4, <2>1
<1>5. p[1] # t => \E r \in Ptrs(h) : At(h, r).childs = p[1]
  BY <1>1 DEF HeapInv, Owned
<1>6. QED
  BY <1>2, <1>3, <1>4, <1>5

(* Appending a node to an array of the heap: the nodes that were there are *)
(* all there, where the array was moved to, and their parent pointers      *)
(* followed the nodes they point to.                                       *)
LEMMA AppendMoves ==
    ASSUME NEW h, NEW t, NEW d, HeapInv(h, t, d),
           NEW old \in Block \cup {Nil}, NEW new \in Placement(h, old),
           NEW node \in Node, node.childs = Nil,
           NEW g, g = arl_of_tab_node_append(h, old, new, node)
    PROVE  /\ g \in [Block -> Seq(Node)]
           /\ new \in Block
           /\ old # new => h[new] = <<>>
           /\ Len(g[new]) = Len(Items(h, old)) + 1
           /\ g[new][Len(Items(h, old)) + 1] = node
           /\ old # Nil /\ old # new => g[old] = <<>>
           /\ \A x \in Block : x # new /\ x # old => Len(g[x]) = Len(h[x])
           /\ \A p \in Ptrs(h) :
                 LET q == Moved(p, old, new)
                 IN  /\ q \in Ptrs(g)
                     /\ At(g, q).doc = At(h, p).doc
                     /\ At(g, q).childs = At(h, p).childs
                     /\ At(g, q).current_ix = At(h, p).current_ix
                     /\ At(g, q).parent = Moved(At(h, p).parent, old, new)
<1> DEFINE h1 == ArlAppend(h, old, new, node)
<1>1. /\ h1 \in [Block -> Seq(Node)]
      /\ new \in Block
      /\ h1[new] = Append(Items(h, old), node)
      /\ Items(h, old) \in Seq(Node)
      /\ old # Nil /\ old # new => h1[old] = <<>>
      /\ \A x \in Block : x # new /\ x # old => h1[x] = h[x]
      /\ old # new => h[new] = <<>>
  BY ArlAppendShape DEF HeapInv
<1> HIDE DEF h1
<1>2. /\ Len(h1[new]) = Len(Items(h, old)) + 1
      /\ h1[new][Len(Items(h, old)) + 1] = node
      /\ \A j \in DOMAIN Items(h, old) : j \in DOMAIN h1[new] /\ h1[new][j] = Items(h, old)[j]
  BY <1>1
<1>3. ASSUME NEW p \in Ptrs(h)
      PROVE  Moved(p, old, new) \in Ptrs(h1) /\ At(h1, Moved(p, old, new)) = At(h, p)
  <2>1. p = <<p[1], p[2]>> /\ p[1] \in Block /\ p[2] \in DOMAIN h[p[1]] /\ p # Nil
    BY PtrType DEF HeapInv
  <2>2. CASE p[1] = old
    <3>1. Moved(p, old, new) = <<new, p[2]>> /\ Items(h, old) = h[old]
      BY <2>1, <2>2, BlockAssumption DEF Moved, Items
    <3>2. p[2] \in DOMAIN h1[new] /\ h1[new][p[2]] = h[p[1]][p[2]]
      BY <1>2, <2>1, <2>2, <3>1
    <3>3. QED
      BY <1>1, <3>1, <3>2, PtrFacts DEF At
  <2>3. CASE p[1] # old
    <3>1. p[1] # new
      BY <1>1, <2>1, <2>3
    <3>2. Moved(p, old, new) = p /\ h1[p[1]] = h[p[1]]
      BY <1>1, <2>1, <2>3, <3>1 DEF Moved
    <3>3. QED
      BY <2>1, <3>2, PtrFacts DEF At
  <2>4. QED
    BY <2>2, <2>3
<1>4. CASE ~ (old # Nil /\ old # new)
  <2>1. g = h1
    BY <1>4 DEF arl_of_tab_node_append, h1
  <2>2. ASSUME NEW p \in Pointer
        PROVE  Moved(p, old, new) = p
    BY <1>1, <1>4, BlockAssumption DEF Moved, Pointer
  <2>3. ASSUME NEW p \in Ptrs(h)
        PROVE  At(h, p).parent \in Pointer
    BY PtrType DEF HeapInv, Node
  <2>4. QED
    BY <1>1, <1>2, <1>3, <2>1, <2>2, <2>3
<1>5. CASE old # Nil /\ old # new
  <2>1. g = _fix_childs_parents_(h1, new)
    BY <1>5 DEF arl_of_tab_node_append, h1
  <2>2. old \in Block /\ Items(h, old) = h[old] /\ h[new] = <<>>
    BY <1>1, <1>5 DEF Items
  <2>3. ASSUME NEW i \in DOMAIN h1[new], h1[new][i].childs # Nil
        PROVE  /\ i \in DOMAIN h[old] /\ h1[new][i] = h[old][i] /\ <<old, i>> \in Ptrs(h)
               /\ At(h, <<old, i>>) = h[old][i] /\ h1[new][i].childs # new
    <3>1. i \in DOMAIN h[old] /\ h1[new][i] = h[old][i]
      BY <1>1, <1>2, <2>2, <2>3
    <3>2. <<old, i>> \in Ptrs(h) /\ At(h, <<old, i>>) = h[old][i]
      BY <2>2, <3>1, PtrFacts DEF At
    <3>3. QED
      BY <2>2, <2>3, <3>1, <3>2 DEF HeapInv, Owned
  <2>4. OneOwner(h1, new)
    <3> SUFFICES ASSUME NEW i \in DOMAIN h1[new], NEW j \in DOMAIN h1[new],
                        h1[new][i].childs # Nil, h1[new][i].childs = h1[new][j].childs
                 PROVE  i = j
      BY DEF OneOwner
    <3>1. /\ <<old, i>> \in Ptrs(h) /\ At(h, <<old, i>>).childs = h1[new][i].childs
          /\ <<old, j>> \in Ptrs(h) /\ At(h, <<old, j>>).childs = h1[new][i].childs
      BY <2>3
    <3>2. <<old, i>> = <<old, j>>
      BY <3>1 DEF HeapInv, Owned
    <3>3. QED
      BY <3>2
  <2>5. /\ g \in [Block -> Seq(Node)]
        /\ \A x \in Block : DOMAIN g[x] = DOMAIN h1[x] /\ Len(g[x]) = Len(h1[x])
        /\ \A x \in Block : (\A i \in DOMAIN h1[new] : h1[new][i].childs # x) => g[x] = h1[x]
        /\ \A i \in DOMAIN h1[new] : h1[new][i].childs # Nil =>
              \A j \in DOMAIN h1[h1[new][i].childs] :
                  g[h1[new][i].childs][j] = WithParent(h1[h1[new][i].childs][j], <<new, i>>)
    <3>1. Fixed(h1, new, g)
      BY <1>1, <2>1, <2>4, FixShape
    <3>2. QED
      BY <3>1 DEF Fixed
  <2>6. g[new] = h1[new]
    BY <1>1, <2>3, <2>5, BlockAssumption
  <2>7. g[old] = <<>>
    <3>1. Len(g[old]) = 0 /\ g[old] \in Seq(Node)
      BY <1>1, <1>5, <2>2, <2>5
    <3>2. QED
      BY <3>1
  <2>8. \A x \in Block : x # new /\ x # old => Len(g[x]) = Len(h[x])
    BY <1>1, <2>5
  <2>9. ASSUME NEW p \in Ptrs(h)
        PROVE  LET q == Moved(p, old, new)
               IN  /\ q \in Ptrs(g)
                   /\ At(g, q).doc = At(h, p).doc
                   /\ At(g, q).childs = At(h, p).childs
                   /\ At(g, q).current_ix = At(h, p).current_ix
                   /\ At(g, q).parent = Moved(At(h, p).parent, old, new)
    <3> DEFINE q == Moved(p, old, new)
    <3>1. q \in Ptrs(h1) /\ At(h1, q) = At(h, p)
      BY <1>3
    <3>2. /\ p = <<p[1], p[2]>> /\ p[1] \in Block /\ p[2] \in DOMAIN h[p[1]] /\ p # Nil
          /\ At(h, p) \in Node
      BY PtrType DEF HeapInv
    <3>3. q = <<q[1], q[2]>> /\ q[1] \in Block /\ q[2] \in DOMAIN h1[q[1]] /\ At(h1, q) = h1[q[1]][q[2]]
      BY <1>1, <3>1, PtrType DEF Typed, At
    <3>4. q \in Ptrs(g)
      BY <2>5, <3>3, PtrFacts
    <3>5. q = IF p[1] = old THEN <<new, p[2]>> ELSE p
      BY <3>2 DEF Moved
    <3> HIDE DEF q
    <3>6. CASE \E i \in DOMAIN h1[new] : h1[new][i].childs = q[1]
      <4>1. PICK i \in DOMAIN h1[new] : h1[new][i].childs = q[1]
        BY <3>6
      <4>2. h1[new][i].childs # Nil
        BY <3>3, <4>1, BlockAssumption
      <4>3. q[1] # new /\ At(h, <<old, i>>).childs = q[1] /\ <<old, i>> \in Ptrs(h)
        BY <2>3, <4>1, <4>2
      <4>4. p = q
        BY <3>2, <3>5, <4>3
      <4>5. At(h, p).parent = <<old, i>>
        BY <4>3, <4>4, OwnerOf
      <4>6. Moved(<<old, i>>, old, new) = <<new, i>>
        <5>1. <<old, i>> # Nil
          BY <4>3, PtrType DEF HeapInv
        <5>2. QED
          BY <5>1 DEF Moved
      <4>7. At(g, q) = WithParent(At(h, p), <<new, i>>)
        <5>1. q[2] \in DOMAIN h1[h1[new][i].childs]
          BY <3>3, <4>1
        <5>2. g[q[1]][q[2]] = WithParent(h1[q[1]][q[2]], <<new, i>>)
          BY <2>5, <4>1, <4>2, <5>1
        <5>3. QED
          BY <3>1, <3>3, <5>2 DEF At
      <4>8. <<new, i>> \in Pointer
        BY <1>1 DEF Pointer
      <4>9. QED
        BY <3>2, <3>4, <4>5, <4>6, <4>7, <4>8, WithFacts DEF q
    <3>7. CASE \A i \in DOMAIN h1[new] : h1[new][i].childs # q[1]
      <4>1. At(g, q) = At(h, p)
        BY <2>5, <3>1, <3>3, <3>7 DEF At
      <4>2. Moved(At(h, p).parent, old, new) = At(h, p).parent
        <5>1. CASE At(h, p).parent = Nil
          BY <5>1 DEF Moved
        <5>2. CASE At(h, p).parent # Nil
          <6> DEFINE r == At(h, p).parent
          <6>1. r \in Ptrs(h) /\ At(h, r).childs = p[1] /\ p # r
            BY <5>2, OwnerOf
          <6>2. r = <<r[1], r[2]>> /\ r[2] \in DOMAIN h[r[1]] /\ At(h, r) = h[r[1]][r[2]]
            BY <6>1, PtrType DEF HeapInv, At
          <6> HIDE DEF r
          <6>3. ASSUME r[1] = old
                PROVE  FALSE
            <7>1. r[2] \in DOMAIN h1[new] /\ h1[new][r[2]].childs = p[1]
              BY <1>2, <2>2, <6>1, <6>2, <6>3
            <7>2. p[1] = old
              BY <3>5, <3>7, <7>1
            <7>3. At(h, r).childs = r[1]
              BY <6>1, <6>3, <7>2
            <7>4. QED
              BY <6>1, <7>3, OwnerOf
          <6>4. QED
            BY <6>3 DEF Moved, r
        <5>3. QED
          BY <5>1, <5>2
      <4>3. QED
        BY <3>4, <4>1, <4>2 DEF q
    <3>8. QED
      BY <3>6, <3>7
  <2>10. QED
    BY <1>1, <1>2, <2>2, <2>5, <2>6, <2>7, <2>8, <2>9
<1>6. QED
  BY <1>4, <1>5

-----------------------------------------------------------------------------
(* A new leaf.  Its holder m is the node that gets it as a child, or Nil   *)
(* when it is a root.                                                      *)

ArrayOf(h, t, m) == IF m = Nil THEN t ELSE At(h, m).childs

Leaf(h, old, new) == <<new, Len(Items(h, old)) + 1>>

(* Heap g is heap h where the array of m was moved from block old to block *)
(* new and got a leaf.                                                     *)
Grown(h, m, old, new, d, g) ==
    /\ Len(g[new]) = Len(Items(h, old)) + 1
    /\ old # Nil /\ old # new => g[old] = <<>>
    /\ \A x \in Block : x # new /\ x # old => Len(g[x]) = Len(h[x])
    /\ \A p \in Ptrs(h) :
          /\ Moved(p, old, new) \in Ptrs(g)
          /\ At(g, Moved(p, old, new)).doc = At(h, p).doc
          /\ At(g, Moved(p, old, new)).childs = IF p = m THEN new ELSE At(h, p).childs
          /\ At(g, Moved(p, old, new)).parent = Moved(At(h, p).parent, old, new)
          /\ At(g, Moved(p, old, new)).current_ix = IF p = m THEN Len(g[new]) - 1 ELSE At(h, p).current_ix
    /\ At(g, Leaf(h, old, new)).doc = d + 1
    /\ At(g, Leaf(h, old, new)).current_ix = 0
    /\ At(g, Leaf(h, old, new)).childs = Nil
    /\ At(g, Leaf(h, old, new)).parent = m

(* Every node but the leaf was a node, perhaps at another address.         *)
LEMMA GrownPtrs ==
    ASSUME NEW h, NEW t, NEW d, HeapInv(h, t, d),
           NEW m, NEW old \in Block \cup {Nil}, NEW new \in Placement(h, old),
           NEW g \in [Block -> Seq(Node)], Grown(h, m, old, new, d, g),
           NEW q \in Ptrs(g), q # Leaf(h, old, new)
    PROVE  \E p \in Ptrs(h) : q = Moved(p, old, new) /\ (q[1] = new => p[1] = old)
                              /\ (q[1] # new => p = q)
<1>1. /\ q = <<q[1], q[2]>> /\ q[1] \in Block /\ q[2] \in DOMAIN g[q[1]]
      /\ new \in Block /\ (old # new => h[new] = <<>>) /\ Items(h, old) \in Seq(Node)
      /\ h \in [Block -> Seq(Node)]
  <2>1. Typed(g, Nil)
    BY DEF Typed
  <2>2. Items(h, old) \in Seq(Node) /\ h \in [Block -> Seq(Node)]
    BY DEF HeapInv, Typed, Items
  <2>3. QED
    BY <2>1, <2>2, PtrType DEF Placement
<1>2. q[2] \in 1 .. Len(g[q[1]])
  BY <1>1
<1>3. CASE q[1] = new
  <2>1. q[2] \in 1 .. Len(Items(h, old))
    <3>1. q[2] \in 1 .. (Len(Items(h, old)) + 1) /\ Len(Items(h, old)) \in Nat
      BY <1>1, <1>2, <1>3 DEF Grown
    <3>2. q[2] # Len(Items(h, old)) + 1
      BY <1>1, <1>3 DEF Leaf
    <3>3. QED
      BY <3>1, <3>2
  <2>2. old # Nil
    BY <2>1 DEF Items
  <2>3. <<old, q[2]>> \in Ptrs(h) /\ <<old, q[2]>> # Nil
    <3>1. old \in Block /\ q[2] \in DOMAIN h[old]
      BY <1>1, <2>1, <2>2 DEF Items
    <3>2. <<old, q[2]>> \in Ptrs(h)
      BY <3>1, PtrFacts
    <3>3. QED
      BY <3>2, PtrType DEF HeapInv
  <2>4. QED
    BY <1>1, <1>3, <2>3 DEF Moved
<1>4. CASE q[1] # new
  <2>1. q[1] # old
    BY <1>1, <1>2, <1>4, BlockAssumption DEF Grown
  <2>2. q[2] \in DOMAIN h[q[1]]
    BY <1>1, <1>2, <1>4, <2>1 DEF Grown
  <2>3. q \in Ptrs(h)
    BY <1>1, <2>2, PtrFacts
  <2>4. QED
    BY <1>4, <2>1, <2>3 DEF Moved
<1>5. QED
  BY <1>3, <1>4

(* No other array is in the way of the one that grows.                     *)
LEMMA HolderAlone ==
    ASSUME NEW h, NEW t, NEW d, HeapInv(h, t, d),
           NEW m \in Ptrs(h) \cup {Nil}, NEW old, old = ArrayOf(h, t, m),
           NEW new \in Placement(h, old)
    PROVE  /\ old \in Block \cup {Nil}
           /\ new \in Block
           /\ m # Nil => m \in Ptrs(h) /\ m[1] # old /\ Moved(m, old, new) = m /\ new # t
                         /\ (t # Nil => old # t)
           /\ \A p \in Ptrs(h) : p # m /\ At(h, p).childs # Nil =>
                 At(h, p).childs # old /\ At(h, p).childs # new
<1>1. new \in Block /\ (old # new => h[new] = <<>>)
  BY DEF Placement
<1>2. CASE m = Nil
  <2>1. old = t
    BY <1>2 DEF ArrayOf
  <2>2. old \in Block \cup {Nil}
    BY <2>1 DEF HeapInv, Typed
  <2>3. QED
    BY <1>1, <1>2, <2>1, <2>2 DEF HeapInv, Owned
<1>3. CASE m # Nil
  <2>1. m \in Ptrs(h) /\ old = At(h, m).childs
    BY <1>3 DEF ArrayOf
  <2>2. old \in Block \cup {Nil}
    BY <2>1, PtrType DEF HeapInv, Node
  <2>3. m[1] # old
    BY <2>1, OwnerOf
  <2>4. t # Nil => old # t
    BY <2>1 DEF HeapInv, Owned
  <2>5. new # t
    BY <1>1, <2>4, BlockAssumption DEF HeapInv, Owned
  <2>6. \A p \in Ptrs(h) : p # m /\ At(h, p).childs # Nil =>
            At(h, p).childs # old /\ At(h, p).childs # new
    BY <1>1, <2>1 DEF HeapInv, Owned
  <2>7. QED
    BY <1>1, <1>3, <2>1, <2>2, <2>3, <2>4, <2>5, <2>6 DEF Moved
<1>4. QED
  BY <1>2, <1>3

(* The invariant is kept when an array grows.                              *)
LEMMA GrownInv ==
    ASSUME NEW h, NEW t, NEW d \in Nat, HeapInv(h, t, d),
           NEW m \in Ptrs(h) \cup {Nil}, NEW old, old = ArrayOf(h, t, m),
           NEW new \in Placement(h, old),
           NEW g \in [Block -> Seq(Node)], Grown(h, m, old, new, d, g),
           NEW t2, t2 = IF m = Nil THEN new ELSE t
    PROVE  HeapInv(g, t2, d + 1)
<1> DEFINE leaf == Leaf(h, old, new)
           M(p) == Moved(p, old, new)
<1>1. /\ old \in Block \cup {Nil}
      /\ new \in Block
      /\ m # Nil => m \in Ptrs(h) /\ m[1] # old /\ M(m) = m /\ new # t /\ (t # Nil => old # t)
      /\ \A p \in Ptrs(h) : p # m /\ At(h, p).childs # Nil =>
            At(h, p).childs # old /\ At(h, p).childs # new
  BY HolderAlone
<1>2. Items(h, old) \in Seq(Node) /\ t \in Block \cup {Nil} /\ h \in [Block -> Seq(Node)]
  BY <1>1 DEF HeapInv, Typed, Items
<1>3. old # new => h[new] = <<>>
  BY DEF Placement
<1>4. Typed(g, t2)
  BY <1>1, <1>2 DEF Typed
<1>5. leaf \in Ptrs(g) /\ leaf[1] = new
  <2>1. Len(Items(h, old)) + 1 \in DOMAIN g[new]
    <3>1. g[new] \in Seq(Node) /\ Len(Items(h, old)) \in Nat
      BY <1>1, <1>2
    <3>2. QED
      BY <3>1 DEF Grown
  <2>2. QED
    BY <1>1, <2>1, PtrFacts DEF Leaf
<1>6. \A q \in Ptrs(g) : q # leaf =>
          \E p \in Ptrs(h) : q = M(p) /\ (q[1] = new => p[1] = old) /\ (q[1] # new => p = q)
  BY <1>1, GrownPtrs
<1>7. /\ At(g, leaf).doc = d + 1
      /\ At(g, leaf).childs = Nil
      /\ At(g, leaf).parent = m
  BY DEF Grown
<1>8. ASSUME NEW p \in Ptrs(h)
      PROVE  /\ M(p) \in Ptrs(g)
             /\ At(g, M(p)).doc = At(h, p).doc
             /\ At(g, M(p)).childs = IF p = m THEN new ELSE At(h, p).childs
             /\ At(g, M(p)).parent = M(At(h, p).parent)
  BY DEF Grown
<1>9. /\ Len(g[new]) = Len(Items(h, old)) + 1
      /\ old # Nil /\ old # new => g[old] = <<>>
      /\ \A x \in Block : x # new /\ x # old => Len(g[x]) = Len(h[x])
  BY DEF Grown
<1>10. \A p \in Ptrs(h) : p # Nil /\ p[1] \in Block
  BY PtrType DEF HeapInv
<1> HIDE DEF leaf, M
<1>11. \A x \in Block : x # new /\ x # old => (g[x] = <<>> <=> h[x] = <<>>)
  <2> SUFFICES ASSUME NEW x \in Block, x # new, x # old
               PROVE  g[x] = <<>> <=> h[x] = <<>>
    OBVIOUS
  <2>1. Len(g[x]) = Len(h[x]) /\ g[x] \in Seq(Node) /\ h[x] \in Seq(Node)
    BY <1>2, <1>9
  <2>2. QED
    BY <2>1
<1>12. g[new] # <<>>
  BY <1>2, <1>9
<1>13. Owned(g, t2)
  <2>1. ASSUME NEW p \in Ptrs(h), p # m, At(h, p).childs # Nil
        PROVE  /\ At(h, p).childs # t2 /\ At(h, p).childs # new /\ At(h, p).childs # old
               /\ At(h, p).childs \in Block /\ g[At(h, p).childs] # <<>>
    <3>1. At(h, p).childs \in Block
      BY <2>1, PtrType DEF HeapInv, Node
    <3>2. At(h, p).childs # t /\ h[At(h, p).childs] # <<>>
      BY <2>1 DEF HeapInv, Owned
    <3>3. QED
      BY <1>1, <1>11, <2>1, <3>1, <3>2
  <2>2. ASSUME NEW q \in Ptrs(g), At(g, q).childs # Nil
        PROVE  /\ At(g, q).childs # t2
               /\ g[At(g, q).childs] # <<>>
               /\ \A r \in Ptrs(g) : At(g, r).childs = At(g, q).childs => q = r
    <3>1. PICK p \in Ptrs(h) : q = M(p)
      BY <1>6, <1>7, <2>2
    <3>2. CASE p = m
      <4>1. m # Nil /\ At(g, q).childs = new /\ t2 = t
        BY <1>8, <1>10, <3>1, <3>2
      <4>2. \A r \in Ptrs(g) : At(g, r).childs = new => q = r
        <5> SUFFICES ASSUME NEW r \in Ptrs(g), At(g, r).childs = new PROVE q = r
          OBVIOUS
        <5>1. PICK s \in Ptrs(h) : r = M(s)
          BY <1>1, <1>6, <1>7, BlockAssumption
        <5>2. s = m
          BY <1>1, <1>8, <5>1, <2>1, BlockAssumption
        <5>3. QED
          BY <3>1, <3>2, <5>1, <5>2
      <4>3. QED
        BY <1>1, <1>12, <4>1, <4>2
    <3>3. CASE p # m
      <4>1. At(g, q).childs = At(h, p).childs
        BY <1>8, <3>1, <3>3
      <4>2. \A r \in Ptrs(g) : At(g, r).childs = At(g, q).childs => q = r
        <5> SUFFICES ASSUME NEW r \in Ptrs(g), At(g, r).childs = At(g, q).childs PROVE q = r
          OBVIOUS
        <5>1. PICK s \in Ptrs(h) : r = M(s)
          BY <1>6, <1>7, <2>2
        <5>2. s # m /\ At(h, s).childs = At(h, p).childs
          BY <1>8, <2>1, <2>2, <3>3, <4>1, <5>1
        <5>3. s = p
          BY <2>2, <4>1, <5>2 DEF HeapInv, Owned
        <5>4. QED
          BY <3>1, <5>1, <5>3
      <4>3. QED
        BY <2>1, <2>2, <3>3, <4>1, <4>2
    <3>4. QED
      BY <3>2, <3>3
  <2>3. t2 # Nil => g[t2] # <<>>
    BY <1>1, <1>2, <1>11, <1>12 DEF HeapInv, Owned
  <2>4. ASSUME NEW b \in Block, g[b] # <<>>
        PROVE  b = t2 \/ \E q \in Ptrs(g) : At(g, q).childs = b
    <3>1. CASE b = new
      BY <1>1, <1>8, <3>1
    <3>2. CASE b # new
      <4>1. b # old
        BY <1>9, <2>4, <3>2, BlockAssumption
      <4>2. b = t \/ \E p \in Ptrs(h) : At(h, p).childs = b
        BY <1>11, <2>4, <3>2, <4>1 DEF HeapInv, Owned
      <4>3. CASE b = t
        BY <4>1, <4>3 DEF ArrayOf
      <4>4. CASE \E p \in Ptrs(h) : At(h, p).childs = b
        <5>1. PICK p \in Ptrs(h) : At(h, p).childs = b
          BY <4>4
        <5>2. p # m
          BY <1>10, <4>1, <5>1 DEF ArrayOf
        <5>3. QED
          BY <1>8, <5>1, <5>2
      <4>5. QED
        BY <4>2, <4>3, <4>4
    <3>3. QED
      BY <3>1, <3>2
  <2>5. QED
    BY <2>2, <2>3, <2>4 DEF Owned

<1>14. ASSUME NEW b \in Block, NEW i \in DOMAIN g[b], <<b, i>> # leaf
       PROVE  \E s \in Ptrs(h) : /\ <<b, i>> = M(s)
                                 /\ b = new => s[1] = old
                                 /\ b # new => s[1] = b
                                 /\ g[b][i].parent = M(At(h, s).parent)
                                 /\ g[b][i].doc = At(h, s).doc
  <2>1. <<b, i>> \in Ptrs(g) /\ At(g, <<b, i>>) = g[b][i]
    BY PtrFacts DEF At
  <2>2. PICK s \in Ptrs(h) : <<b, i>> = M(s) /\ (b = new => s[1] = old) /\ (b # new => s = <<b, i>>)
    BY <1>6, <1>14, <2>1
  <2>3. QED
    BY <1>8, <2>1, <2>2
<1>15. M(Nil) = Nil
  BY DEF M, Moved
<1>16. ASSUME NEW b \in Block, NEW i \in DOMAIN g[b], <<b, i>> = leaf
       PROVE  b = new /\ g[b][i].parent = m /\ g[b][i].doc = d + 1
  BY <1>5, <1>7, <1>16 DEF At
<1>17. ASSUME NEW q \in Ptrs(g), At(g, q).childs # Nil, NEW i \in DOMAIN g[At(g, q).childs]
       PROVE  g[At(g, q).childs][i].parent = q /\ At(g, q).doc < g[At(g, q).childs][i].doc
  <2> DEFINE c == At(g, q).childs
  <2>1. PICK p \in Ptrs(h) : q = M(p)
    BY <1>6, <1>7, <1>17
  <2>2. c \in Block /\ c # Nil /\ i \in DOMAIN g[c]
    <3>1. At(g, q) \in Node
      BY <1>4, PtrType
    <3>2. QED
      BY <1>17, <3>1 DEF Node
  <2>3. At(g, q).doc = At(h, p).doc /\ c = IF p = m THEN new ELSE At(h, p).childs
    BY <1>8, <2>1
  <2>4. At(h, p).doc \in Nat /\ At(h, p).doc <= d
    BY PtrType DEF HeapInv, Node, Ordered
  <2> HIDE DEF c
  <2>5. CASE <<c, i>> = leaf
    <3>1. c = new /\ g[c][i].parent = m /\ g[c][i].doc = d + 1
      BY <1>16, <2>2, <2>5
    <3>2. p = m /\ q = m
      BY <1>1, <1>10, <2>1, <2>2, <2>3, <3>1
    <3>3. QED
      BY <2>3, <2>4, <3>1, <3>2 DEF c
  <2>6. CASE <<c, i>> # leaf
    <3>1. PICK s \in Ptrs(h) : /\ c = new => s[1] = old
                               /\ c # new => s[1] = c
                               /\ g[c][i].parent = M(At(h, s).parent)
                               /\ g[c][i].doc = At(h, s).doc
      BY <1>14, <2>2, <2>6
    <3>2. At(h, p).childs = s[1]
      <4>1. CASE p = m
        BY <1>10, <2>3, <3>1, <4>1 DEF ArrayOf
      <4>2. CASE p # m
        BY <1>1, <2>2, <2>3, <3>1, <4>2
      <4>3. QED
        BY <4>1, <4>2
    <3>3. At(h, s).parent = p /\ At(h, p).doc < At(h, s).doc
      BY <3>2, OwnerOf
    <3>4. QED
      BY <2>1, <2>3, <3>1, <3>3 DEF c
  <2>7. QED
    BY <2>5, <2>6
<1>18. Linked(g, t2)
  <2>1. ASSUME t2 # Nil, NEW i \in DOMAIN g[t2]
        PROVE  g[t2][i].parent = Nil
    <3>1. t2 \in Block /\ (m = Nil => t2 = new /\ old = t) /\ (m # Nil => t2 = t /\ t2 # new)
      BY <1>1, <1>2, <2>1 DEF ArrayOf
    <3>2. CASE <<t2, i>> = leaf
      BY <1>16, <3>1, <3>2, <2>1
    <3>3. CASE <<t2, i>> # leaf
      <4>1. PICK s \in Ptrs(h) : /\ t2 = new => s[1] = old
                                 /\ t2 # new => s[1] = t2
                                 /\ g[t2][i].parent = M(At(h, s).parent)
        BY <1>14, <2>1, <3>1, <3>3
      <4>2. s[1] = t
        BY <3>1, <4>1
      <4>3. QED
        BY <1>15, <4>1, <4>2, OwnerOf
    <3>4. QED
      BY <3>2, <3>3
  <2>2. QED
    BY <1>17, <2>1 DEF Linked
<1>19. Ordered(g, d + 1)
  <2>1. ASSUME NEW q \in Ptrs(g)
        PROVE  At(g, q).doc <= d + 1
    <3>1. CASE q = leaf
      BY <1>7, <3>1
    <3>2. CASE q # leaf
      <4>1. PICK p \in Ptrs(h) : q = M(p)
        BY <1>6, <3>2
      <4>2. At(h, p).doc \in Nat /\ At(h, p).doc <= d
        BY PtrType DEF HeapInv, Node, Ordered
      <4>3. QED
        BY <1>8, <4>1, <4>2
    <3>3. QED
      BY <3>1, <3>2
  <2>2. QED
    BY <1>17, <2>1 DEF Ordered
<1>20. ASSUME NEW q \in Ptrs(g)
       PROVE  At(g, q).current_ix <= tab_node_child_count(g, q)
  <2>1. CASE q = leaf
    <3>1. At(g, leaf).current_ix = 0 /\ At(g, leaf).childs = Nil
      BY DEF Grown, leaf
    <3>2. tab_node_child_count(g, leaf) = 0
      BY <3>1 DEF tab_node_child_count, Items
    <3>3. QED
      BY <2>1, <3>1, <3>2
  <2>2. CASE q # leaf
    <3>1. PICK p \in Ptrs(h) : q = M(p)
      BY <1>6, <2>2
    <3>2. At(g, q).current_ix = IF p = m THEN Len(g[new]) - 1 ELSE At(h, p).current_ix
      BY <3>1 DEF Grown, M
    <3>3. At(g, q).childs = IF p = m THEN new ELSE At(h, p).childs
      BY <1>8, <3>1
    <3>4. CASE p = m
      <4>1. tab_node_child_count(g, q) = Len(g[new]) /\ Len(g[new]) \in Nat
        <5>1. At(g, q).childs = new /\ new # Nil /\ g[new] \in Seq(Node)
          BY <1>1, <3>3, <3>4, BlockAssumption
        <5>2. QED
          BY <5>1 DEF tab_node_child_count, Items
      <4>2. QED
        BY <3>2, <3>4, <4>1
    <3>5. CASE p # m
      <4>1. At(g, q).childs = At(h, p).childs /\ At(h, p).childs \in Block \cup {Nil}
        BY <3>3, <3>5, PtrType DEF HeapInv, Node
      <4>2. tab_node_child_count(g, q) = tab_node_child_count(h, p)
        BY <1>1, <1>9, <3>5, <4>1 DEF tab_node_child_count, Items
      <4>3. At(h, p).current_ix <= tab_node_child_count(h, p)
        BY DEF HeapInv, Indexed
      <4>4. QED
        BY <3>2, <3>5, <4>2, <4>3
    <3>6. QED
      BY <3>4, <3>5
  <2>3. QED
    BY <2>1, <2>2
<1>21. QED
  BY <1>4, <1>13, <1>18, <1>19, <1>20 DEF HeapInv, Indexed

-----------------------------------------------------------------------------
(* The two ways an array grows.                                            *)

(* A new tab: the array of roots grows by a leaf.                          *)
LEMMA RootAppend ==
    ASSUME NEW h, NEW t, NEW d \in Nat, HeapInv(h, t, d), d < MaxDocs,
           NEW new \in Placement(h, t)
    PROVE  /\ HeapInv(arl_of_tab_node_append(h, t, new, NewNode(d + 1, Nil)), new, d + 1)
           /\ Len(arl_of_tab_node_append(h, t, new, NewNode(d + 1, Nil))[new]) = Len(Items(h, t)) + 1
           /\ Grown(h, Nil, t, new, d, arl_of_tab_node_append(h, t, new, NewNode(d + 1, Nil)))
<1> DEFINE node == NewNode(d + 1, Nil)
           g == arl_of_tab_node_append(h, t, new, node)
<1>1. node \in Node /\ node.childs = Nil /\ node.doc = d + 1 /\ node.parent = Nil /\ node.current_ix = 0
  BY BoundAssumption DEF NewNode, Node, Pointer
<1>2. t \in Block \cup {Nil} /\ t = ArrayOf(h, t, Nil) /\ h \in [Block -> Seq(Node)]
  BY DEF HeapInv, Typed, ArrayOf
<1>3. \A p \in Ptrs(h) : p # Nil
  BY PtrType DEF HeapInv
<1> HIDE DEF node
<1>4. /\ g \in [Block -> Seq(Node)]
      /\ Len(g[new]) = Len(Items(h, t)) + 1
      /\ g[new][Len(Items(h, t)) + 1] = node
      /\ t # Nil /\ t # new => g[t] = <<>>
      /\ \A x \in Block : x # new /\ x # t => Len(g[x]) = Len(h[x])
      /\ \A p \in Ptrs(h) :
            /\ Moved(p, t, new) \in Ptrs(g)
            /\ At(g, Moved(p, t, new)).doc = At(h, p).doc
            /\ At(g, Moved(p, t, new)).childs = At(h, p).childs
            /\ At(g, Moved(p, t, new)).current_ix = At(h, p).current_ix
            /\ At(g, Moved(p, t, new)).parent = Moved(At(h, p).parent, t, new)
  BY <1>1, <1>2, AppendMoves
<1> HIDE DEF g
<1>5. At(g, Leaf(h, t, new)) = node
  BY <1>4 DEF At, Leaf
<1>6. Grown(h, Nil, t, new, d, g)
  BY <1>1, <1>3, <1>4, <1>5 DEF Grown
<1>7. HeapInv(g, new, d + 1)
  BY <1>2, <1>4, <1>6, GrownInv
<1>8. QED
  BY <1>4, <1>6, <1>7 DEF g, node

(* A new child: the array of childs of its parent grows by a leaf.         *)
LEMMA ChildAppend ==
    ASSUME NEW h, NEW t, NEW d \in Nat, HeapInv(h, t, d), d < MaxDocs,
           NEW n \in Ptrs(h), NEW new \in Placement(h, At(h, n).childs)
    PROVE  /\ HeapInv(tab_node_append_move_child(h, n, NewNode(d + 1, n), new), t, d + 1)
           /\ t # Nil => Len(tab_node_append_move_child(h, n, NewNode(d + 1, n), new)[t]) = Len(h[t])
           /\ Grown(h, n, At(h, n).childs, new, d, tab_node_append_move_child(h, n, NewNode(d + 1, n), new))
<1> DEFINE node == NewNode(d + 1, n)
           old  == At(h, n).childs
           g1   == arl_of_tab_node_append(h, old, new, node)
           kid  == WithChilds(At(g1, n), new, Len(g1[new]) - 1)
           g    == Put(g1, n, kid)
<1>1. n # Nil /\ n \in Pointer /\ n[1] \in Block /\ n = <<n[1], n[2]>>
  BY PtrType DEF HeapInv
<1>2. node \in Node /\ node.childs = Nil /\ node.doc = d + 1 /\ node.parent = n /\ node.current_ix = 0
  BY <1>1, BoundAssumption DEF NewNode, Node
<1>3. old = ArrayOf(h, t, n)
  BY <1>1 DEF ArrayOf
<1>4. /\ old \in Block \cup {Nil}
      /\ new \in Block
      /\ n[1] # old /\ Moved(n, old, new) = n /\ new # t /\ (t # Nil => old # t)
  BY <1>1, <1>3, HolderAlone
<1> HIDE DEF node, old
<1>5. /\ g1 \in [Block -> Seq(Node)]
      /\ old # new => h[new] = <<>>
      /\ Len(g1[new]) = Len(Items(h, old)) + 1
      /\ g1[new][Len(Items(h, old)) + 1] = node
      /\ old # Nil /\ old # new => g1[old] = <<>>
      /\ \A x \in Block : x # new /\ x # old => Len(g1[x]) = Len(h[x])
      /\ \A p \in Ptrs(h) :
            /\ Moved(p, old, new) \in Ptrs(g1)
            /\ At(g1, Moved(p, old, new)).doc = At(h, p).doc
            /\ At(g1, Moved(p, old, new)).childs = At(h, p).childs
            /\ At(g1, Moved(p, old, new)).current_ix = At(h, p).current_ix
            /\ At(g1, Moved(p, old, new)).parent = Moved(At(h, p).parent, old, new)
  BY <1>2, <1>4, AppendMoves DEF old
<1>6. g = tab_node_append_move_child(h, n, NewNode(d + 1, n), new)
  BY DEF tab_node_append_move_child, node, old
<1> HIDE DEF g1
<1>7. Typed(g1, t)
  BY <1>5 DEF Typed, HeapInv
<1>8. n \in Ptrs(g1) /\ n[2] \in DOMAIN g1[n[1]] /\ g1[n[1]][n[2]] \in Node /\ At(g1, n) = g1[n[1]][n[2]]
  BY <1>4, <1>5, <1>7, PtrType DEF At
<1>9. n[1] # new
  <2>1. n[2] \in DOMAIN h[n[1]]
    BY PtrType DEF HeapInv
  <2>2. QED
    BY <1>4, <1>5, <2>1
<1>10. Len(g1[new]) - 1 \in Nat
  <2>1. Items(h, old) \in Seq(Node)
    BY <1>4 DEF Items, HeapInv, Typed
  <2>2. QED
    BY <1>5, <2>1
<1>11. /\ kid \in Node
       /\ kid.doc = At(g1, n).doc
       /\ kid.parent = At(g1, n).parent
       /\ kid.childs = new
       /\ kid.current_ix = Len(g1[new]) - 1
  <2> HIDE DEF g1
  <2>1. At(g1, n) \in Node /\ new \in Block
    BY <1>4, <1>8
  <2>2. QED
    BY <1>10, <2>1, WithChildsFacts
<1> HIDE DEF kid
<1>12. /\ g \in [Block -> Seq(Node)]
       /\ \A x \in Block : Len(g[x]) = Len(g1[x]) /\ (x # n[1] => g[x] = g1[x])
       /\ \A i \in DOMAIN g1[n[1]] : g[n[1]][i] = IF i = n[2] THEN kid ELSE g1[n[1]][i]
  <2>1. g1[n[1]] \in Seq(Node) /\ n[2] \in 1 .. Len(g1[n[1]])
    BY <1>1, <1>5, <1>8
  <2> DEFINE row == [g1[n[1]] EXCEPT ![n[2]] = kid]
  <2>2. /\ row \in Seq(Node) /\ Len(row) = Len(g1[n[1]])
        /\ \A i \in 1 .. Len(g1[n[1]]) : row[i] = IF i = n[2] THEN kid ELSE g1[n[1]][i]
    BY <1>11, <2>1, ExceptSeq
  <2>3. g = [g1 EXCEPT ![n[1]] = row]
    BY DEF Put
  <2> HIDE DEF row, g
  <2>4. /\ g[n[1]] = row
        /\ \A x \in Block : x # n[1] => g[x] = g1[x]
        /\ g \in [Block -> Seq(Node)]
    BY <1>1, <1>5, <2>2, <2>3
  <2>5. DOMAIN g1[n[1]] = 1 .. Len(g1[n[1]])
    BY <2>1
  <2>6. QED
    BY <2>2, <2>4, <2>5
<1> HIDE DEF g
<1>13. Ptrs(g) = Ptrs(g1)
  <2>1. ASSUME NEW x \in Block
        PROVE  DOMAIN g[x] = DOMAIN g1[x]
    <3>1. g[x] \in Seq(Node) /\ g1[x] \in Seq(Node) /\ Len(g[x]) = Len(g1[x])
      BY <1>5, <1>12
    <3>2. QED
      BY <3>1
  <2>2. QED
    BY <2>1 DEF Ptrs
<1>14. ASSUME NEW p \in Ptrs(g1)
       PROVE  At(g, p) = IF p = n THEN kid ELSE At(g1, p)
  <2>1. p = <<p[1], p[2]>> /\ p[1] \in Block /\ p[2] \in DOMAIN g1[p[1]] /\ At(g1, p) = g1[p[1]][p[2]]
    BY <1>7, PtrType DEF At
  <2>2. CASE p[1] = n[1]
    BY <1>1, <1>12, <2>1, <2>2 DEF At
  <2>3. CASE p[1] # n[1]
    BY <1>12, <2>1, <2>3 DEF At
  <2>4. QED
    BY <2>2, <2>3
<1>15. ASSUME NEW p \in Ptrs(h)
       PROVE  Moved(p, old, new) = n <=> p = n
  <2>1. p = <<p[1], p[2]>> /\ p[1] \in Block /\ p # Nil
    BY PtrType DEF HeapInv
  <2>2. QED
    BY <1>4, <1>9, <2>1 DEF Moved
<1>16. At(g, Leaf(h, old, new)) = node
  <2>1. Leaf(h, old, new) \in Ptrs(g1) /\ Leaf(h, old, new) # n /\ At(g1, Leaf(h, old, new)) = node
    <3>1. Len(Items(h, old)) + 1 \in DOMAIN g1[new]
      <4>1. Items(h, old) \in Seq(Node) /\ g1[new] \in Seq(Node)
        BY <1>4, <1>5 DEF Items, HeapInv, Typed
      <4>2. QED
        BY <1>5, <4>1
    <3>2. QED
      BY <1>1, <1>4, <1>5, <1>9, <3>1, PtrFacts DEF Leaf, At
  <2>2. QED
    BY <1>14, <2>1
<1>17. Grown(h, n, old, new, d, g)
  <2>1. ASSUME NEW p \in Ptrs(h)
        PROVE  /\ Moved(p, old, new) \in Ptrs(g)
               /\ At(g, Moved(p, old, new)).doc = At(h, p).doc
               /\ At(g, Moved(p, old, new)).childs = IF p = n THEN new ELSE At(h, p).childs
               /\ At(g, Moved(p, old, new)).parent = Moved(At(h, p).parent, old, new)
               /\ At(g, Moved(p, old, new)).current_ix = IF p = n THEN Len(g[new]) - 1 ELSE At(h, p).current_ix
    <3>1. Len(g[new]) = Len(g1[new])
      BY <1>4, <1>12
    <3>2. QED
      BY <1>4, <1>5, <1>11, <1>13, <1>14, <1>15, <3>1
  <2>2. /\ Len(g[new]) = Len(Items(h, old)) + 1
        /\ \A x \in Block : x # new /\ x # old => Len(g[x]) = Len(h[x])
        /\ old # Nil /\ old # new => g[old] = <<>>
    BY <1>4, <1>5, <1>12
  <2>3. QED
    BY <1>2, <1>16, <2>1, <2>2 DEF Grown
<1>18. HeapInv(g, t, d + 1)
  <2>1. t = IF n = Nil THEN new ELSE t
    BY <1>1
  <2>2. QED
    BY <1>3, <1>12, <1>17, <2>1, GrownInv DEF old
<1>19. t # Nil => Len(g[t]) = Len(h[t])
  BY <1>4, <1>5, <1>12 DEF HeapInv, Typed
<1>20. QED
  BY <1>6, <1>17, <1>18, <1>19 DEF old

-----------------------------------------------------------------------------
(* Choosing the current node changes indexes of childs only.               *)

FromOf(h, n, p) == {c \in Ptrs(h) : c \in Chain(h, n) /\ At(h, c).parent = p /\ c[1] = At(h, p).childs}

IndexOf(h, n, p) ==
    IF p = n THEN tab_node_child_count(h, n)
    ELSE IF FromOf(h, n, p) # {} THEN (CHOOSE c \in FromOf(h, n, p) : TRUE)[2] - 1
    ELSE At(h, p).current_ix

(* Heap g has the nodes of heap h, with other indexes of childs.           *)
SameTree(h, g) ==
    /\ Ptrs(g) = Ptrs(h)
    /\ \A x \in Block : Len(g[x]) = Len(h[x])
    /\ \A p \in Ptrs(h) : /\ At(g, p).doc = At(h, p).doc
                          /\ At(g, p).parent = At(h, p).parent
                          /\ At(g, p).childs = At(h, p).childs

(* Choosing a node changes the indexes on its path, and nothing else.      *)
LEMMA SetCurrent ==
    ASSUME NEW h, NEW t, NEW d, HeapInv(h, t, d), NEW n \in Ptrs(h)
    PROVE  /\ HeapInv(tab_node_set_as_current(h, n), t, d)
           /\ t # Nil => Len(tab_node_set_as_current(h, n)[t]) = Len(h[t])
           /\ SameTree(h, tab_node_set_as_current(h, n))
           /\ \A p \in Ptrs(h) : At(tab_node_set_as_current(h, n), p).current_ix = IndexOf(h, n, p)
<1> DEFINE From(p)  == FromOf(h, n, p)
           Index(p) == IndexOf(h, n, p)
           g == tab_node_set_as_current(h, n)
<1>1. g = [b \in Block |-> [i \in DOMAIN h[b] |-> WithIndex(h[b][i], Index(<<b, i>>))]]
  BY DEF tab_node_set_as_current, IndexOf, FromOf
<1> HIDE DEF g, Index
<1>2. \A p \in Ptrs(h) : tab_node_child_count(h, p) \in Nat
  <2> TAKE p \in Ptrs(h)
  <2>1. At(h, p).childs \in Block \cup {Nil}
    BY PtrType DEF HeapInv, Node
  <2>2. Items(h, At(h, p).childs) \in Seq(Node)
    BY <2>1 DEF Items, HeapInv, Typed
  <2>3. QED
    BY <2>2 DEF tab_node_child_count
<1>3. ASSUME NEW p \in Ptrs(h)
      PROVE  Index(p) \in 0 .. tab_node_child_count(h, p)
  <2>1. CASE p = n
    BY <1>2, <2>1 DEF Index, IndexOf
  <2>2. CASE p # n /\ From(p) # {}
    <3>1. PICK c \in From(p) : c = CHOOSE x \in From(p) : TRUE
      BY <2>2
    <3>2. c \in Ptrs(h) /\ c[1] = At(h, p).childs
      BY DEF FromOf
    <3>3. c[1] \in Block /\ c[2] \in DOMAIN h[c[1]] /\ c[1] # Nil
      BY <3>2, PtrType, BlockAssumption DEF HeapInv
    <3>4. c[2] \in 1 .. tab_node_child_count(h, p)
      <4>1. h[c[1]] \in Seq(Node)
        BY <3>3 DEF HeapInv, Typed
      <4>2. tab_node_child_count(h, p) = Len(h[c[1]])
        BY <3>2, <3>3 DEF tab_node_child_count, Items
      <4>3. QED
        BY <3>3, <4>1, <4>2
    <3>5. Index(p) = c[2] - 1
      BY <2>2, <3>1 DEF Index, IndexOf
    <3>6. QED
      BY <1>2, <3>4, <3>5
  <2>3. CASE p # n /\ From(p) = {}
    <3>1. At(h, p).current_ix \in Nat /\ At(h, p).current_ix <= tab_node_child_count(h, p)
      BY PtrType DEF HeapInv, Indexed, Node
    <3>2. QED
      BY <1>2, <2>3, <3>1 DEF Index, IndexOf
  <2>4. QED
    BY <2>1, <2>2, <2>3
<1> HIDE DEF From
<1>4. ASSUME NEW b \in Block
      PROVE  /\ g[b] \in Seq(Node) /\ Len(g[b]) = Len(h[b]) /\ DOMAIN g[b] = DOMAIN h[b]
             /\ \A i \in DOMAIN h[b] : g[b][i] = WithIndex(h[b][i], Index(<<b, i>>))
  <2>1. h[b] \in Seq(Node)
    BY DEF HeapInv, Typed
  <2>2. g[b] = [i \in DOMAIN h[b] |-> WithIndex(h[b][i], Index(<<b, i>>))]
    BY <1>1
  <2>3. \A i \in DOMAIN h[b] : g[b][i] \in Node
    <3> TAKE i \in DOMAIN h[b]
    <3>1. <<b, i>> \in Ptrs(h)
      BY PtrFacts
    <3>2. Index(<<b, i>>) \in Nat
      BY <1>2, <1>3, <3>1
    <3>3. h[b][i] \in Node
      BY <2>1
    <3>4. QED
      BY <2>2, <3>2, <3>3, WithFacts
  <2>4. DOMAIN g[b] = DOMAIN h[b] /\ g[b] = [i \in DOMAIN g[b] |-> g[b][i]]
    BY <2>2, Zenon
  <2>5. DOMAIN h[b] = 1 .. Len(h[b]) /\ Len(h[b]) \in Nat
    BY <2>1
  <2>6. g[b] \in Seq(Node) /\ Len(g[b]) = Len(h[b])
    BY <2>3, <2>4, <2>5, SequenceOf
  <2>7. QED
    BY <2>2, <2>4, <2>6
<1>5. g \in [Block -> Seq(Node)]
  BY <1>1, <1>4
<1>6. Ptrs(g) = Ptrs(h)
  BY <1>4 DEF Ptrs
<1>7. ASSUME NEW p \in Ptrs(h)
      PROVE  /\ At(g, p).doc = At(h, p).doc
             /\ At(g, p).parent = At(h, p).parent
             /\ At(g, p).childs = At(h, p).childs
             /\ At(g, p).current_ix = Index(p)
  <2>1. /\ p = <<p[1], p[2]>> /\ p[1] \in Block /\ p[2] \in DOMAIN h[p[1]]
        /\ At(h, p) \in Node
    BY PtrType DEF HeapInv
  <2>2. At(g, p) = WithIndex(At(h, p), Index(p))
    BY <1>4, <2>1 DEF At
  <2>3. Index(p) \in Nat
    BY <1>2, <1>3
  <2>4. QED
    BY <2>1, <2>2, <2>3, WithFacts
<1>8. ASSUME NEW b \in Block, NEW i \in DOMAIN h[b]
      PROVE  g[b][i].parent = h[b][i].parent /\ g[b][i].doc = h[b][i].doc
  <2>1. <<b, i>> \in Ptrs(h)
    BY PtrFacts
  <2>2. QED
    BY <1>7, <2>1 DEF At
<1>9. \A b \in Block : g[b] = <<>> <=> h[b] = <<>>
  <2> TAKE b \in Block
  <2>1. h[b] \in Seq(Node)
    BY DEF HeapInv, Typed
  <2>2. QED
    BY <1>4, <2>1
<1>10. \A p \in Ptrs(h) : At(h, p).childs \in Block \cup {Nil} /\ tab_node_child_count(g, p) = tab_node_child_count(h, p)
  <2> TAKE p \in Ptrs(h)
  <2>1. At(h, p).childs \in Block \cup {Nil}
    BY PtrType DEF HeapInv, Node
  <2>2. QED
    BY <1>4, <1>7, <2>1 DEF tab_node_child_count, Items
<1>11. Typed(g, t)
  BY <1>5 DEF HeapInv, Typed
<1>12. Owned(g, t)
  BY <1>6, <1>7, <1>9, <1>10 DEF HeapInv, Owned, Typed
<1>13. Linked(g, t)
  <2>1. ASSUME t # Nil, NEW i \in DOMAIN g[t]
        PROVE  g[t][i].parent = Nil
    <3>1. t \in Block
      BY <2>1 DEF HeapInv, Typed
    <3>2. i \in DOMAIN h[t]
      BY <1>4, <3>1
    <3>3. h[t][i].parent = Nil
      BY <2>1, <3>2 DEF HeapInv, Linked
    <3>4. QED
      BY <1>8, <3>1, <3>2, <3>3
  <2>2. ASSUME NEW p \in Ptrs(g), At(g, p).childs # Nil, NEW i \in DOMAIN g[At(g, p).childs]
        PROVE  g[At(g, p).childs][i].parent = p
    <3>1. p \in Ptrs(h) /\ At(g, p).childs = At(h, p).childs /\ At(h, p).childs \in Block
      BY <1>6, <1>7, <1>10, <2>2
    <3>2. i \in DOMAIN h[At(h, p).childs]
      BY <1>4, <2>2, <3>1
    <3>3. h[At(h, p).childs][i].parent = p
      BY <2>2, <3>1, <3>2 DEF HeapInv, Linked
    <3>4. QED
      BY <1>8, <3>1, <3>2, <3>3
  <2>3. QED
    BY <2>1, <2>2 DEF Linked
<1>14. Ordered(g, d)
  <2>1. ASSUME NEW p \in Ptrs(g)
        PROVE  At(g, p).doc <= d
    BY <1>6, <1>7 DEF HeapInv, Ordered
  <2>2. ASSUME NEW p \in Ptrs(g), At(g, p).childs # Nil, NEW i \in DOMAIN g[At(g, p).childs]
        PROVE  At(g, p).doc < g[At(g, p).childs][i].doc
    <3>1. p \in Ptrs(h) /\ At(g, p).childs = At(h, p).childs /\ At(h, p).childs \in Block
          /\ At(g, p).doc = At(h, p).doc
      BY <1>6, <1>7, <1>10, <2>2
    <3>2. i \in DOMAIN h[At(h, p).childs]
      BY <1>4, <2>2, <3>1
    <3>3. At(h, p).doc < h[At(h, p).childs][i].doc
      BY <2>2, <3>1, <3>2 DEF HeapInv, Ordered
    <3>4. QED
      BY <1>8, <3>1, <3>2, <3>3
  <2>3. QED
    BY <2>1, <2>2 DEF Ordered
<1>15. Indexed(g)
  BY <1>2, <1>3, <1>6, <1>7, <1>10 DEF Indexed
<1>16. t # Nil => Len(g[t]) = Len(h[t])
  BY <1>4 DEF HeapInv, Typed
<1>17. SameTree(h, g)
  BY <1>4, <1>6, <1>7 DEF SameTree
<1>18. QED
  BY <1>7, <1>11, <1>12, <1>13, <1>14, <1>15, <1>16, <1>17 DEF HeapInv, g, Index

(* Going back keeps the invariant of the heap.                             *)
LEMMA GoBack ==
    ASSUME NEW h, NEW t, NEW d, HeapInv(h, t, d), NEW n \in Ptrs(h)
    PROVE  /\ HeapInv(Back(h, n), t, d)
           /\ t # Nil => Len(Back(h, n)[t]) = Len(h[t])
<1>1. CASE At(h, n).parent = Nil
  BY <1>1 DEF Back
<1>2. CASE At(h, n).parent # Nil
  <2>1. At(h, n).parent \in Ptrs(h)
    BY <1>2, OwnerOf
  <2>2. QED
    BY <1>2, <2>1, SetCurrent DEF Back
<1>3. QED
  BY <1>1, <1>2

-----------------------------------------------------------------------------
(* The invariant of the specification.                                     *)

(* The current tab is a tab of an array of roots of that length.           *)
TabIn(h, t, c) == IF t = Nil THEN c = 0 ELSE c \in Nat /\ c < Len(h[t])

(* A range command that is running has an element left.                    *)
Running == cmd = Idle \/ cmd.left >= 1

CmdTyped == cmd \in [kind : {"idle", "links", "inputs"}, left : 0 .. MaxRange, doc : 0 .. MaxDocs]

IInv ==
    /\ HeapInv(heap, tabs, fetched)
    /\ TabIn(heap, tabs, current_tab)
    /\ fetched \in 0 .. MaxDocs
    /\ CmdTyped
    /\ Running

(* The empty heap has it.                                                  *)
LEMMA InitInv == Init => IInv
<1> SUFFICES ASSUME Init PROVE IInv
  OBVIOUS
<1>1. Ptrs(heap) = {}
  BY DEF Init, Ptrs
<1>2. Typed(heap, tabs)
  BY DEF Init, Typed
<1>3. HeapInv(heap, tabs, fetched)
  BY <1>1, <1>2 DEF Init, HeapInv, Owned, Linked, Ordered, Indexed
<1>4. QED
  BY <1>3, BoundAssumption DEF Init, IInv, TabIn, CmdTyped, Running, Idle

(* The next element of a range keeps the command well typed.               *)
LEMMA NextElementInv ==
    ASSUME CmdTyped, Running, cmd # Idle, NextElement
    PROVE  CmdTyped' /\ Running'
<1>1. cmd.left \in Nat /\ cmd.left >= 1 /\ cmd.left <= MaxRange
  BY BoundAssumption DEF CmdTyped, Running
<1>2. CASE cmd.left = 1
  BY <1>2, BoundAssumption DEF NextElement, CmdTyped, Running, Idle
<1>3. CASE cmd.left # 1
  BY <1>1, <1>3, BoundAssumption DEF NextElement, CmdTyped, Running
<1>4. QED
  BY <1>2, <1>3

(* The index of a tab is one below the count of roots.                     *)
LEMMA TabOf ==
    ASSUME IInv, NEW c
    PROVE  /\ c \in Tabs => TabIn(heap, tabs, c)
           /\ TabIn(heap, tabs, c) /\ tabs # Nil => c \in Tabs
<1>1. Items(heap, tabs) \in Seq(Node)
  BY DEF IInv, HeapInv, Typed, Items
<1>2. CASE tabs = Nil
  BY <1>2 DEF Tabs, Items
<1>3. CASE tabs # Nil
  <2>1. DOMAIN heap[tabs] = 1 .. Len(heap[tabs]) /\ Len(heap[tabs]) \in Nat
    BY <1>1, <1>3 DEF Items
  <2>2. c \in Tabs => TabIn(heap, tabs, c)
    BY <1>3, <2>1 DEF Tabs, Items, TabIn
  <2>3. ASSUME TabIn(heap, tabs, c)
        PROVE  c \in Tabs
    <3>1. c + 1 \in DOMAIN heap[tabs] /\ c = (c + 1) - 1
      BY <1>3, <2>1, <2>3 DEF TabIn
    <3>2. QED
      BY <1>3, <3>1 DEF Tabs, Items
  <2>4. QED
    BY <2>2, <2>3
<1>4. QED
  BY <1>2, <1>3

(* A tab stays one while the count of roots does.                          *)
LEMMA SameRoots ==
    ASSUME NEW h, NEW g, NEW t, NEW c, TabIn(h, t, c), t # Nil => Len(g[t]) = Len(h[t])
    PROVE  TabIn(g, t, c)
BY DEF TabIn

(* What may become of the heap when a document is opened from node n.      *)
LEMMA AppendedInv ==
    ASSUME IInv, Fetch, NEW n \in Ptrs(heap), NEW h \in Appended(n)
    PROVE  /\ HeapInv(h, tabs, fetched')
           /\ tabs # Nil => Len(h[tabs]) = Len(heap[tabs])
           /\ fetched' \in 0 .. MaxDocs
<1>1. fetched \in Nat /\ fetched < MaxDocs /\ fetched' = fetched + 1 /\ fetched' \in 0 .. MaxDocs
  BY BoundAssumption DEF IInv, Fetch
<1>2. PICK new \in Placement(heap, At(heap, n).childs) :
         h = tab_node_append_move_child(heap, n, NewNode(fetched + 1, n), new)
  BY DEF Appended
<1>3. QED
  BY <1>1, <1>2, ChildAppend DEF IInv

(* Every step keeps the invariant.                                         *)
LEMMA NextInv == IInv /\ [Next]_vars => IInv'
<1> SUFFICES ASSUME IInv, [Next]_vars PROVE IInv'
  OBVIOUS
<1> USE DEF IInv
<1>1. CASE OpenUrl
  <2>1. PICK new \in Placement(heap, tabs) :
          /\ heap' = arl_of_tab_node_append(heap, tabs, new, NewNode(fetched + 1, Nil))
          /\ tabs' = new
          /\ current_tab' = Len(heap'[new]) - 1
    BY <1>1 DEF OpenUrl
  <2>2. fetched \in Nat /\ fetched < MaxDocs /\ fetched' = fetched + 1 /\ fetched' \in 0 .. MaxDocs
    BY <1>1, BoundAssumption DEF OpenUrl, Fetch
  <2>3. HeapInv(heap', tabs', fetched') /\ Len(heap'[new]) = Len(Items(heap, tabs)) + 1
    BY <2>1, <2>2, RootAppend
  <2>4. Items(heap, tabs) \in Seq(Node) /\ tabs' # Nil
    BY <2>1, BlockAssumption DEF Items, HeapInv, Typed, Placement
  <2>5. TabIn(heap, tabs, current_tab)'
    BY <2>1, <2>3, <2>4 DEF TabIn
  <2>6. QED
    BY <1>1, <2>2, <2>3, <2>5 DEF OpenUrl, CmdTyped, Running
<1>2. CASE FollowLink
  <2>1. PICK n \in Ptrs(heap) : heap' \in Appended(n)
    BY <1>2 DEF FollowLink
  <2>2. HeapInv(heap', tabs, fetched') /\ TabIn(heap', tabs, current_tab) /\ fetched' \in 0 .. MaxDocs
    BY <1>2, <2>1, AppendedInv, SameRoots DEF FollowLink
  <2>3. QED
    BY <1>2, <2>2 DEF FollowLink, CmdTyped, Running
<1>3. ASSUME NEW kind \in {"links", "inputs"}, NEW count \in 1 .. MaxRange, StartRange(kind, count)
      PROVE  IInv'
  <2>1. PICK n \in Ptrs(heap) : cmd' = [kind |-> kind, left |-> count, doc |-> At(heap, n).doc]
    BY <1>3 DEF StartRange
  <2>2. At(heap, n).doc \in 1 .. MaxDocs
    BY PtrType DEF HeapInv, Node
  <2>3. CmdTyped' /\ Running'
    BY <2>1, <2>2, BoundAssumption DEF CmdTyped, Running
  <2>4. QED
    BY <1>3, <2>3 DEF StartRange
<1>4. CASE FollowRangeLink
  <2>1. cmd # Idle
    BY <1>4 DEF FollowRangeLink, Idle
  <2>2. PICK n \in Ptrs(heap) :
           \E h \in Appended(n) : \E c \in Ptrs(h) : c = CurrentNode(h) /\ heap' = Back(h, c)
    BY <1>4 DEF FollowRangeLink
  <2>3. PICK h \in Appended(n) : \E c \in Ptrs(h) : heap' = Back(h, c)
    BY <2>2
  <2>4. PICK c \in Ptrs(h) : heap' = Back(h, c)
    BY <2>3
  <2>5. HeapInv(h, tabs, fetched') /\ TabIn(h, tabs, current_tab) /\ fetched' \in 0 .. MaxDocs
    BY <1>4, AppendedInv, SameRoots DEF FollowRangeLink
  <2>6. HeapInv(heap', tabs, fetched') /\ TabIn(heap', tabs, current_tab)
    BY <2>4, <2>5, GoBack, SameRoots
  <2>7. QED
    BY <1>4, <2>1, <2>5, <2>6, NextElementInv DEF FollowRangeLink
<1>5. CASE SubmitRangeInput
  <2>1. cmd # Idle
    BY <1>5 DEF SubmitRangeInput, Idle
  <2>2. PICK n \in Ptrs(heap) : heap' \in Appended(n)
    BY <1>5 DEF SubmitRangeInput
  <2>3. HeapInv(heap', tabs, fetched') /\ TabIn(heap', tabs, current_tab) /\ fetched' \in 0 .. MaxDocs
    BY <1>5, <2>2, AppendedInv, SameRoots DEF SubmitRangeInput
  <2>4. QED
    BY <1>5, <2>1, <2>3, NextElementInv DEF SubmitRangeInput
<1>6. CASE RangeElementFails
  BY <1>6, NextElementInv DEF RangeElementFails
<1>7. CASE RangeStops
  <2>1. CmdTyped' /\ Running'
    BY <1>7, BoundAssumption DEF RangeStops, CmdTyped, Running, Idle
  <2>2. QED
    BY <1>7, <2>1 DEF RangeStops
<1>8. CASE tablist_back
  <2>1. PICK n \in Ptrs(heap) : heap' = Back(heap, n)
    BY <1>8 DEF tablist_back
  <2>2. HeapInv(heap', tabs, fetched) /\ TabIn(heap', tabs, current_tab)
    BY <2>1, GoBack, SameRoots
  <2>3. QED
    BY <1>8, <2>2 DEF tablist_back, CmdTyped, Running
<1>9. ASSUME NEW t \in Tabs, NEW n \in Ptrs(heap), MoveTo(t, n)
      PROVE  IInv'
  <2>1. TabIn(heap, tabs, t)
    BY TabOf
  <2>2. HeapInv(heap', tabs, fetched) /\ TabIn(heap', tabs, t)
    BY <1>9, <2>1, SetCurrent, SameRoots DEF MoveTo
  <2>3. QED
    BY <1>9, <2>2 DEF MoveTo, CmdTyped, Running
<1>10. ASSUME NEW t \in Tabs, SelectTab(t)
       PROVE  IInv'
  <2>1. TabIn(heap, tabs, t)
    BY TabOf
  <2>2. QED
    BY <1>10, <2>1 DEF SelectTab, CmdTyped, Running
<1>11. CASE UNCHANGED vars
  BY <1>11 DEF vars, CmdTyped, Running
<1>12. QED
  BY <1>1, <1>2, <1>3, <1>4, <1>5, <1>6, <1>7, <1>8, <1>9, <1>10, <1>11 DEF Next

(* The invariant holds in every state.                                     *)
LEMMA Invariance == Spec => []IInv
BY InitInv, NextInv, PTL DEF Spec

-----------------------------------------------------------------------------
(* The theorems.                                                           *)

(* Every variable keeps its type; in particular the current tab is a tab   *)
(* once there is one, so that tablist_current_tab answers a node.          *)
THEOREM TypeCorrect == Spec => []TypeOK
<1>1. IInv => TypeOK
  <2> SUFFICES ASSUME IInv PROVE TypeOK
    OBVIOUS
  <2>1. current_tab \in IF tabs = Nil THEN {0} ELSE Tabs
    BY TabOf DEF IInv, TabIn
  <2>2. QED
    BY <2>1 DEF IInv, TypeOK, HeapInv, Typed, CmdTyped
<1>2. QED
  BY <1>1, Invariance, PTL

(* However often arrays of nodes are moved in memory, every parent pointer *)
(* is the address of the node whose array of childs holds the node, which  *)
(* is what tab_node_set_as_current and tablist_back climb.                 *)
THEOREM ParentsStayValid == Spec => []ParentsValid
<1>1. IInv => ParentsValid
  BY DEF IInv, HeapInv, Linked, ParentsValid, RootsHaveNoParent
<1>2. QED
  BY <1>1, Invariance, PTL

(* No two arrays share a block, no array points to a free block, and a     *)
(* block in use is always the block of an array of the session.            *)
THEOREM BlocksStayOwned == Spec => []BlocksOwned
<1>1. IInv => BlocksDisjoint
  BY DEF IInv, HeapInv, Owned, BlocksDisjoint
<1>2. IInv => NoBlockLeaked
  BY DEF IInv, HeapInv, Owned, NoBlockLeaked
<1>3. IInv => BlocksOwned
  BY <1>1, <1>2 DEF BlocksOwned
<1>4. QED
  BY <1>3, Invariance, PTL

(* current_ix is the index of a child or the count of childs.              *)
THEOREM IndexStaysValid == Spec => []CurrentIndexValid
<1>1. IInv => CurrentIndexValid
  BY DEF IInv, HeapInv, Indexed, CurrentIndexValid
<1>2. QED
  BY <1>1, Invariance, PTL
=============================================================================
