-------------------------- MODULE TabHistoryProofs --------------------------
(***************************************************************************)
(* Proofs that no document of TabTree is lost, and that TabTree implements *)
(* History, command by command, for any set of blocks and any bounds.      *)
(***************************************************************************)
EXTENDS TabTreeProofs, OrderProofs

-----------------------------------------------------------------------------
(* What is defined step by step.  The first k steps, and all of them.      *)
Steps(D, x, step, k, f) ==
    f \in [0..k -> D] /\ f[0] = x /\ \A i \in 0..k : i < k => f[i + 1] = step[f[i]]

(* There are k first steps, for every k ...                                *)
LEMMA StepsExist ==
    ASSUME NEW D, NEW x \in D, NEW step \in [D -> D], NEW n \in Nat
    PROVE  \E f : Steps(D, x, step, n, f)
<1> DEFINE S == {k \in 0..n : \E f : Steps(D, x, step, k, f)}
<1>1. 0 \in S
  <2> DEFINE f == [i \in 0..0 |-> x]
  <2>1. Steps(D, x, step, 0, f) BY DEF Steps
  <2> QED BY <2>1
<1>2. ASSUME NEW k \in 0..n, k \in S, k < n PROVE k + 1 \in S
  <2>1. PICK f : Steps(D, x, step, k, f) BY <1>2
  <2>2. f[k] \in D /\ step[f[k]] \in D
    <3>1. k \in 0..k BY <1>2
    <3> QED BY <2>1, <3>1 DEF Steps
  <2> DEFINE g == [i \in 0..(k + 1) |-> IF i = k + 1 THEN step[f[k]] ELSE f[i]]
  <2>3. \A i \in 0..(k + 1) : i # k + 1 => i \in 0..k BY <1>2
  <2>4. g \in [0..(k + 1) -> D]
    <3>1. \A i \in 0..k : f[i] \in D BY <2>1 DEF Steps
    <3> QED BY <2>2, <2>3, <3>1
  <2>5. g[0] = x
    <3>1. 0 \in 0..(k + 1) /\ 0 # k + 1 BY <1>2
    <3> QED BY <2>1, <3>1 DEF Steps
  <2>6. ASSUME NEW i \in 0..(k + 1), i < k + 1 PROVE g[i + 1] = step[g[i]]
    <3>1. i \in 0..k /\ i + 1 \in 0..(k + 1) /\ i # k + 1 BY <1>2, <2>6
    <3>2. CASE i = k BY <3>1, <3>2
    <3>3. CASE i # k
      <4>1. i < k /\ i + 1 # k + 1 BY <1>2, <3>1, <3>3
      <4> QED BY <2>1, <3>1, <4>1 DEF Steps
    <3> QED BY <3>2, <3>3
  <2> HIDE DEF g
  <2>7. Steps(D, x, step, k + 1, g) BY <2>4, <2>5, <2>6 DEF Steps
  <2>8. k + 1 \in 0..n BY <1>2
  <2> QED BY <2>7, <2>8
<1>3. \A k \in 0..n : k \in S
  <2> HIDE DEF S
  <2> QED BY <1>1, <1>2, SetInduction
<1> QED BY <1>3

(* ... they are the same as long as both go ...                            *)
LEMMA StepsAgree ==
    ASSUME NEW D, NEW x \in D, NEW step \in [D -> D], NEW m \in Nat, NEW n \in Nat, m <= n,
           NEW f, NEW g, Steps(D, x, step, m, f), Steps(D, x, step, n, g)
    PROVE  \A i \in 0..m : f[i] = g[i]
<1> DEFINE S == {i \in 0..m : f[i] = g[i]}
<1>1. 0 \in S BY DEF Steps
<1>2. ASSUME NEW i \in 0..m, i \in S, i < m PROVE i + 1 \in S
  <2>1. i \in 0..n /\ i < n /\ i + 1 \in 0..m BY <1>2
  <2> QED BY <1>2, <2>1 DEF Steps
<1>3. \A i \in 0..m : i \in S
  <2> HIDE DEF S
  <2> QED BY <1>1, <1>2, SetInduction
<1> QED BY <1>3

(* ... so there is a function that takes them all.                         *)
LEMMA Iterated ==
    ASSUME NEW D, NEW x \in D, NEW step \in [D -> D]
    PROVE  \E f \in [Nat -> D] : f[0] = x /\ \A k \in Nat : f[k + 1] = step[f[k]]
<1> DEFINE g(k) == CHOOSE f : Steps(D, x, step, k, f)
           f == [k \in Nat |-> g(k)[k]]
<1>1. \A k \in Nat : Steps(D, x, step, k, g(k)) BY StepsExist
<1> HIDE DEF g
<1>2. \A k \in Nat : g(k)[k] \in D
  <2> SUFFICES ASSUME NEW k \in Nat PROVE g(k)[k] \in D
    OBVIOUS
  <2>1. k \in 0..k OBVIOUS
  <2> QED BY <1>1, <2>1 DEF Steps
<1>3. f \in [Nat -> D] BY <1>2
<1>4. f[0] = x BY <1>1 DEF Steps
<1>5. ASSUME NEW k \in Nat PROVE f[k + 1] = step[f[k]]
  <2>1. k + 1 \in Nat /\ k <= k + 1 /\ k \in 0..k /\ k \in 0..(k + 1) /\ k < k + 1 OBVIOUS
  <2>2. g(k)[k] = g(k + 1)[k] BY <1>1, <2>1, StepsAgree
  <2>3. g(k + 1)[k + 1] = step[g(k + 1)[k]] BY <1>1, <2>1 DEF Steps
  <2> QED BY <2>1, <2>2, <2>3
<1> QED BY <1>3, <1>4, <1>5

(* Induction over the natural numbers, for sets.                           *)
LEMMA NatSets ==
    ASSUME NEW S, 0 \in S, \A k \in Nat : k \in S => k + 1 \in S
    PROVE  \A k \in Nat : k \in S
<1> SUFFICES ASSUME NEW n \in Nat PROVE n \in S
  OBVIOUS
<1>1. \A k \in 0..n : k \in S /\ k < n => k + 1 \in S OBVIOUS
<1>2. \A k \in 0..n : k \in S BY <1>1, SetInduction
<1>3. n \in 0..n OBVIOUS
<1> QED BY <1>2, <1>3

-----------------------------------------------------------------------------
(* The current node.                                                       *)

Stopped(h, p) == ~(At(h, p).current_ix < tab_node_child_count(h, p))

Follow(h, p) == IF Stopped(h, p) THEN p ELSE Child(h, p, At(h, p).current_ix)

DownIs(h, root, f) ==
    f = [k \in Nat |->
            IF k = 0 THEN root
            ELSE LET p == f[k-1]
                 IN  IF At(h, p).current_ix < tab_node_child_count(h, p)
                     THEN Child(h, p, At(h, p).current_ix)
                     ELSE p]

Down(h, root) == CHOOSE f : DownIs(h, root, f)

(* The operator of TabTree is the last of these steps ...                  *)
LEMMA CurrentIsDown ==
    \A h, root : tab_node_current_node(h, root) = Down(h, root)[fetched]
BY DEF tab_node_current_node, Down, DownIs

(* ... in the next state too.                                              *)
LEMMA CurrentIsDownNext ==
    (\A h, root : tab_node_current_node(h, root) = Down(h, root)[fetched])'
BY DEF tab_node_current_node, Down, DownIs

(* One step goes to a child, which was fetched later, or stays.            *)
LEMMA FollowFacts ==
    ASSUME NEW h, NEW t, NEW d, HeapInv(h, t, d), NEW p \in Ptrs(h)
    PROVE  /\ Follow(h, p) \in Ptrs(h)
           /\ Stopped(h, p) => Follow(h, p) = p
           /\ ~Stopped(h, p) => /\ At(h, p).childs \in Block
                                /\ Follow(h, p) = <<At(h, p).childs, At(h, p).current_ix + 1>>
                                /\ At(h, Follow(h, p)).parent = p
                                /\ At(h, p).doc < At(h, Follow(h, p)).doc
                                /\ Follow(h, p) # p
<1>1. At(h, p) \in Node /\ At(h, p).current_ix \in Nat /\ At(h, p).childs \in Block \cup {Nil}
  BY PtrType DEF HeapInv, Node
<1>2. Stopped(h, p) => Follow(h, p) = p BY DEF Follow
<1>3. ASSUME ~Stopped(h, p)
      PROVE  /\ Follow(h, p) \in Ptrs(h) /\ At(h, p).childs \in Block
             /\ Follow(h, p) = <<At(h, p).childs, At(h, p).current_ix + 1>>
  <2>1. At(h, p).current_ix < tab_node_child_count(h, p) BY <1>3 DEF Stopped
  <2>2. At(h, p).childs # Nil
    <3>1. ASSUME At(h, p).childs = Nil PROVE FALSE
      <4>1. tab_node_child_count(h, p) = 0 BY <3>1, EmptySeq DEF tab_node_child_count, Items
      <4> QED BY <1>1, <2>1, <4>1
    <3> QED BY <3>1
  <2>3. h[At(h, p).childs] \in Seq(Node) /\ tab_node_child_count(h, p) = Len(h[At(h, p).childs])
    BY <1>1, <2>2 DEF tab_node_child_count, Items, HeapInv, Typed
  <2>4. PICK l \in Nat, i \in Nat : l = Len(h[At(h, p).childs]) /\ i = At(h, p).current_ix BY <1>1, <2>3, LenProperties
  <2>5. i + 1 \in 1..l BY <2>1, <2>3, <2>4
  <2>6. At(h, p).current_ix + 1 \in DOMAIN h[At(h, p).childs] BY <2>3, <2>4, <2>5, LenProperties
  <2>7. Follow(h, p) = <<At(h, p).childs, At(h, p).current_ix + 1>> BY <1>3 DEF Follow, Child
  <2> QED BY <1>1, <2>2, <2>6, <2>7, PtrFacts
<1>4. ASSUME ~Stopped(h, p)
      PROVE  /\ At(h, Follow(h, p)).parent = p
             /\ At(h, p).doc < At(h, Follow(h, p)).doc
             /\ Follow(h, p) # p
  <2> DEFINE q == Follow(h, p)
  <2>1. q \in Ptrs(h) /\ At(h, p).childs = q[1] BY <1>3, <1>4
  <2> HIDE DEF q
  <2> QED BY <2>1, OwnerOf DEF q
<1> QED BY <1>1, <1>2, <1>3, <1>4

(* tab_node_current_node goes one step after the other.                    *)
LEMMA DownFacts ==
    ASSUME NEW h, NEW t, NEW d, HeapInv(h, t, d), NEW root \in Ptrs(h)
    PROVE  /\ Down(h, root)[0] = root
           /\ \A k \in Nat : /\ Down(h, root)[k] \in Ptrs(h)
                             /\ Down(h, root)[k + 1] = Follow(h, Down(h, root)[k])
<1> DEFINE D    == Ptrs(h)
           step == [p \in D |-> Follow(h, p)]
           T(p) == IF At(h, p).current_ix < tab_node_child_count(h, p)
                   THEN Child(h, p, At(h, p).current_ix) ELSE p
<1>1. \A p : Follow(h, p) = T(p) BY DEF Follow, Stopped
<1>2. step \in [D -> D] BY FollowFacts
<1>3. PICK f \in [Nat -> D] : f[0] = root /\ \A k \in Nat : f[k + 1] = step[f[k]]
  <2>1. root \in D OBVIOUS
  <2> HIDE DEF D, step
  <2> QED BY <1>2, <2>1, Iterated
<1>4. \E g : DownIs(h, root, g)
  <2>1. ASSUME NEW k \in Nat PROVE f[k] = IF k = 0 THEN root ELSE T(f[k - 1])
    <3>1. CASE k = 0 BY <1>3, <3>1
    <3>2. CASE k # 0
      <4>1. PICK j \in Nat : k = j + 1 /\ k - 1 = j
        <5>1. k - 1 \in Nat /\ k = (k - 1) + 1 BY <3>2
        <5> QED BY <5>1
      <4>2. f[j + 1] = step[f[j]] /\ f[j] \in D BY <1>3
      <4>3. step[f[j]] = T(f[j]) BY <1>1, <4>2
      <4> HIDE DEF T, step
      <4> QED BY <3>2, <4>1, <4>2, <4>3
    <3> QED BY <3>1, <3>2
  <2>2. f = [k \in Nat |-> f[k]] BY <1>3
  <2>3. f = [k \in Nat |-> IF k = 0 THEN root ELSE T(f[k - 1])]
    <3> HIDE DEF T
    <3> QED BY <2>1, <2>2
  <2>4. DownIs(h, root, f) BY <2>3 DEF DownIs
  <2> QED BY <2>4
<1>5. DownIs(h, root, Down(h, root)) BY <1>4 DEF Down
<1> DEFINE g == Down(h, root)
<1> HIDE DEF g
<1>6. g = [k \in Nat |-> IF k = 0 THEN root ELSE T(g[k - 1])] BY <1>5 DEF DownIs, g
<1> HIDE DEF T
<1>7. g[0] = root BY <1>6
<1>8. ASSUME NEW k \in Nat PROVE g[k + 1] = Follow(h, g[k])
  <2>1. k + 1 \in Nat /\ k + 1 # 0 /\ (k + 1) - 1 = k OBVIOUS
  <2>2. g[k + 1] = T(g[(k + 1) - 1]) BY <1>6, <2>1
  <2> QED BY <1>1, <2>1, <2>2
<1>9. \A k \in Nat : g[k] \in Ptrs(h)
  <2> DEFINE S == {k \in Nat : g[k] \in Ptrs(h)}
  <2>1. 0 \in S BY <1>7
  <2>2. ASSUME NEW k \in Nat, k \in S PROVE k + 1 \in S BY <1>8, <2>2, FollowFacts
  <2>3. \A k \in Nat : k \in S
    <3> HIDE DEF S
    <3> QED BY <2>1, <2>2, NatSets
  <2> QED BY <2>3
<1> QED BY <1>7, <1>8, <1>9 DEF g

(* Each step finds a later document or is the last: there are no more      *)
(* steps than documents.                                                   *)
LEMMA DownStops ==
    ASSUME NEW h, NEW t, NEW d \in Nat, HeapInv(h, t, d), NEW root \in Ptrs(h), NEW k \in Nat, k + 1 >= d
    PROVE  Stopped(h, Down(h, root)[k])
<1> DEFINE g == Down(h, root)
           S == {j \in Nat : Stopped(h, g[j]) \/ At(h, g[j]).doc >= j + 1}
<1>1. g[0] = root /\ \A j \in Nat : g[j] \in Ptrs(h) /\ g[j + 1] = Follow(h, g[j]) BY DownFacts
<1> HIDE DEF g
<1>2. \A p \in Ptrs(h) : At(h, p).doc \in Nat /\ At(h, p).doc >= 1 /\ At(h, p).doc <= d
  <2> SUFFICES ASSUME NEW p \in Ptrs(h) PROVE At(h, p).doc \in Nat /\ At(h, p).doc >= 1 /\ At(h, p).doc <= d
    OBVIOUS
  <2>1. At(h, p).doc \in 1 .. MaxDocs BY PtrType DEF HeapInv, Node
  <2> QED BY <2>1, BoundAssumption DEF HeapInv, Ordered
<1>3. 0 \in S BY <1>1, <1>2
<1>4. ASSUME NEW j \in Nat, j \in S PROVE j + 1 \in S
  <2>1. CASE Stopped(h, g[j]) BY <1>1, <2>1, FollowFacts
  <2>2. CASE ~Stopped(h, g[j])
    <3>1. At(h, g[j]).doc >= j + 1 BY <1>4, <2>2
    <3>2. At(h, g[j]).doc < At(h, g[j + 1]).doc BY <1>1, <2>2, FollowFacts
    <3>3. At(h, g[j]).doc \in Nat /\ At(h, g[j + 1]).doc \in Nat BY <1>1, <1>2
    <3>4. At(h, g[j + 1]).doc >= (j + 1) + 1 BY <3>1, <3>2, <3>3
    <3> QED BY <3>4
  <2> QED BY <2>1, <2>2
<1>5. k \in S
  <2> HIDE DEF S
  <2> QED BY <1>3, <1>4, NatSets
<1>6. CASE At(h, g[k]).doc >= k + 1
  <2> SUFFICES ASSUME ~Stopped(h, g[k]) PROVE FALSE
    BY DEF g
  <2>1. At(h, g[k]).doc < At(h, g[k + 1]).doc BY <1>1, FollowFacts
  <2>2. /\ At(h, g[k]).doc \in Nat /\ At(h, g[k]).doc >= k + 1
        /\ At(h, g[k + 1]).doc \in Nat /\ At(h, g[k + 1]).doc <= d
    BY <1>1, <1>2, <1>6
  <2> QED BY <2>1, <2>2
<1> QED BY <1>5, <1>6 DEF g

(* A node with no current child is the last ...                            *)
LEMMA DownStays ==
    ASSUME NEW h, NEW t, NEW d, HeapInv(h, t, d), NEW root \in Ptrs(h),
           NEW j \in Nat, Stopped(h, Down(h, root)[j]), NEW k \in Nat, k >= j
    PROVE  Down(h, root)[k] = Down(h, root)[j]
<1> DEFINE g == Down(h, root)
           S == {m \in Nat : g[j + m] = g[j]}
<1>1. \A i \in Nat : g[i] \in Ptrs(h) /\ g[i + 1] = Follow(h, g[i]) BY DownFacts
<1>2. Stopped(h, g[j]) OBVIOUS
<1> HIDE DEF g
<1>3. 0 \in S
  <2>1. j + 0 = j OBVIOUS
  <2> QED BY <2>1
<1>4. ASSUME NEW m \in Nat, m \in S PROVE m + 1 \in S
  <2>1. j + (m + 1) = (j + m) + 1 /\ j + m \in Nat OBVIOUS
  <2>2. g[(j + m) + 1] = g[j] BY <1>1, <1>2, <1>4, <2>1, FollowFacts
  <2> QED BY <2>1, <2>2
<1>5. k - j \in Nat /\ j + (k - j) = k OBVIOUS
<1>6. k - j \in S
  <2> HIDE DEF S
  <2> QED BY <1>3, <1>4, <1>5, NatSets
<1> QED BY <1>5, <1>6 DEF g

(* ... so the node is the same for every bound that is large enough.       *)
LEMMA DownEnds ==
    ASSUME NEW h, NEW t, NEW d \in Nat, HeapInv(h, t, d), NEW root \in Ptrs(h),
           NEW j \in Nat, j + 1 >= d, NEW k \in Nat, k + 1 >= d
    PROVE  Down(h, root)[j] = Down(h, root)[k]
<1>1. Stopped(h, Down(h, root)[j]) /\ Stopped(h, Down(h, root)[k]) BY DownStops
<1>2. k >= j \/ j >= k OBVIOUS
<1> QED BY <1>1, <1>2, DownStays

(* Two heaps where the steps from nodes in C are the same, through M.      *)
LEMMA DownMapped ==
    ASSUME NEW h, NEW t, NEW d, HeapInv(h, t, d), NEW g, NEW u, NEW e, HeapInv(g, u, e),
           NEW C, NEW M, NEW root \in C, C \subseteq Ptrs(h), M[root] \in Ptrs(g),
           \A p \in C : Follow(h, p) \in C /\ Follow(g, M[p]) = M[Follow(h, p)]
    PROVE  \A k \in Nat : Down(h, root)[k] \in C /\ Down(g, M[root])[k] = M[Down(h, root)[k]]
<1> DEFINE a == Down(h, root)
           b == Down(g, M[root])
           S == {k \in Nat : a[k] \in C /\ b[k] = M[a[k]]}
<1>1. a[0] = root /\ \A k \in Nat : a[k + 1] = Follow(h, a[k]) BY DownFacts
<1>2. b[0] = M[root] /\ \A k \in Nat : b[k + 1] = Follow(g, b[k]) BY DownFacts
<1> HIDE DEF a, b
<1>3. 0 \in S BY <1>1, <1>2
<1>4. ASSUME NEW k \in Nat, k \in S PROVE k + 1 \in S
  <2>1. a[k + 1] \in C /\ b[k + 1] = M[a[k + 1]] BY <1>1, <1>2, <1>4
  <2> QED BY <2>1
<1>5. \A k \in Nat : k \in S
  <2> HIDE DEF S
  <2> QED BY <1>3, <1>4, NatSets
<1> QED BY <1>5 DEF a, b

(* The set C has the parent of each of its nodes.                          *)
UpClosed(h, C) == \A p \in C : At(h, p).parent # Nil => At(h, p).parent \in C

(* So it has the root, if it has a node that is found from the root.       *)
LEMMA DownUp ==
    ASSUME NEW h, NEW t, NEW d, HeapInv(h, t, d), NEW root \in Ptrs(h), NEW C, UpClosed(h, C)
    PROVE  \A k \in Nat : Down(h, root)[k] \in C => root \in C
<1> DEFINE a == Down(h, root)
           S == {k \in Nat : a[k] \in C => root \in C}
<1>1. a[0] = root /\ \A k \in Nat : a[k] \in Ptrs(h) /\ a[k + 1] = Follow(h, a[k]) BY DownFacts
<1> HIDE DEF a
<1>2. 0 \in S BY <1>1
<1>3. ASSUME NEW k \in Nat, k \in S PROVE k + 1 \in S
  <2>1. a[k] \in Ptrs(h) /\ a[k] # Nil BY <1>1, PtrType DEF HeapInv
  <2>2. a[k + 1] = a[k] \/ At(h, a[k + 1]).parent = a[k] BY <1>1, FollowFacts
  <2>3. a[k + 1] \in C => a[k] \in C BY <2>1, <2>2 DEF UpClosed
  <2> QED BY <1>3, <2>3
<1>4. \A k \in Nat : k \in S
  <2> HIDE DEF S
  <2> QED BY <1>2, <1>3, NatSets
<1> QED BY <1>4 DEF a

-----------------------------------------------------------------------------
(* The ancestors of a node.  The set U has the first of them, up to q.     *)
Climb(h, n, U, q) ==
    /\ U \subseteq Ptrs(h) /\ n \in U /\ q \in U
    /\ \A p \in U : At(h, p).doc >= At(h, q).doc
    /\ \A p \in U : p # q => At(h, p).parent \in U
    /\ \A p, c \in U : At(h, p).parent = At(h, c).parent => p = c
    /\ \A p \in U : p # n => \E c \in U : At(h, c).parent = p

Parents(h, U) == {At(h, p).parent : p \in U} \cap Ptrs(h)

UpIs(h, n, f) ==
    f = [k \in Nat |-> IF k = 0 THEN {n} \cap Ptrs(h)
                       ELSE LET S == f[k-1]
                            IN  S \cup Parents(h, S)]

Up(h, n) == CHOOSE f : UpIs(h, n, f)

(* Chain is the last of these steps.                                       *)
LEMMA ChainIsUp == \A h, n : Chain(h, n) = Up(h, n)[fetched]
BY DEF Chain, Up, UpIs, Parents

(* Up starts at the node, and each step adds the parents.                  *)
LEMMA UpFacts ==
    ASSUME NEW h, NEW n \in Ptrs(h)
    PROVE  /\ Up(h, n)[0] = {n}
           /\ \A k \in Nat : /\ Up(h, n)[k] \subseteq Ptrs(h)
                             /\ Up(h, n)[k + 1] = Up(h, n)[k] \cup Parents(h, Up(h, n)[k])
<1> DEFINE D    == SUBSET Ptrs(h)
           T(S) == S \cup Parents(h, S)
           step == [S \in D |-> T(S)]
           first == {n} \cap Ptrs(h)
<1>1. step \in [D -> D] BY DEF Parents
<1>2. first \in D OBVIOUS
<1>3. PICK f \in [Nat -> D] : f[0] = first /\ \A k \in Nat : f[k + 1] = step[f[k]]
  <2> HIDE DEF D, step, first
  <2>1. \E f \in [Nat -> D] : f[0] = first /\ \A k \in Nat : f[k + 1] = step[f[k]] BY <1>1, <1>2, Iterated, Z3
  <2> QED BY <2>1
<1>4. \E g : UpIs(h, n, g)
  <2>1. ASSUME NEW k \in Nat PROVE f[k] = IF k = 0 THEN first ELSE T(f[k - 1])
    <3>1. CASE k = 0 BY <1>3, <3>1
    <3>2. CASE k # 0
      <4>1. PICK j \in Nat : k = j + 1 /\ k - 1 = j
        <5>1. k - 1 \in Nat /\ k = (k - 1) + 1 BY <3>2
        <5> QED BY <5>1
      <4>2. f[j + 1] = step[f[j]] /\ f[j] \in D BY <1>3
      <4> HIDE DEF T, D
      <4>3. step[f[j]] = T(f[j]) BY <4>2
      <4> HIDE DEF step
      <4> QED BY <3>2, <4>1, <4>2, <4>3
    <3> QED BY <3>1, <3>2
  <2>2. f = [k \in Nat |-> f[k]] BY <1>3
  <2>3. f = [k \in Nat |-> IF k = 0 THEN first ELSE T(f[k - 1])]
    <3> HIDE DEF T, first
    <3> QED BY <2>1, <2>2
  <2>4. UpIs(h, n, f) BY <2>3 DEF UpIs
  <2> QED BY <2>4
<1>5. UpIs(h, n, Up(h, n)) BY <1>4 DEF Up
<1> DEFINE g == Up(h, n)
<1> HIDE DEF g
<1>6. g = [k \in Nat |-> IF k = 0 THEN first ELSE T(g[k - 1])] BY <1>5 DEF UpIs, g
<1>7. g[0] = {n} BY <1>6
<1> HIDE DEF T, first
<1>8. ASSUME NEW k \in Nat PROVE g[k + 1] = T(g[k])
  <2>1. k + 1 \in Nat /\ k + 1 # 0 /\ (k + 1) - 1 = k OBVIOUS
  <2>2. g[k + 1] = T(g[(k + 1) - 1]) BY <1>6, <2>1
  <2> QED BY <2>1, <2>2
<1>9. \A k \in Nat : g[k] \subseteq Ptrs(h)
  <2> DEFINE S == {k \in Nat : g[k] \subseteq Ptrs(h)}
  <2>1. 0 \in S BY <1>7
  <2>2. ASSUME NEW k \in Nat, k \in S PROVE k + 1 \in S BY <1>8, <2>2 DEF T, Parents
  <2>3. \A k \in Nat : k \in S
    <3> HIDE DEF S
    <3> QED BY <2>1, <2>2, NatSets
  <2> QED BY <2>3
<1> QED BY <1>7, <1>8, <1>9 DEF g, T

(* A step up adds the parent of the last.                                  *)
LEMMA ClimbStep ==
    ASSUME NEW h, NEW t, NEW d, HeapInv(h, t, d), NEW n, NEW U, NEW q, Climb(h, n, U, q),
           NEW V, V = U \cup Parents(h, U)
    PROVE  \/ At(h, q).parent = Nil /\ V = U
           \/ At(h, q).parent # Nil /\ Climb(h, n, V, At(h, q).parent) /\ At(h, At(h, q).parent).doc < At(h, q).doc
<1>1. \A p \in Ptrs(h) : /\ At(h, p).doc \in Nat /\ p # Nil
                         /\ At(h, p).parent = Nil \/ (At(h, p).parent \in Ptrs(h) /\ At(h, At(h, p).parent).doc < At(h, p).doc)
  <2> SUFFICES ASSUME NEW p \in Ptrs(h)
               PROVE  /\ At(h, p).doc \in Nat /\ p # Nil
                      /\ At(h, p).parent = Nil \/ (At(h, p).parent \in Ptrs(h) /\ At(h, At(h, p).parent).doc < At(h, p).doc)
    OBVIOUS
  <2>1. At(h, p).doc \in Nat /\ p # Nil BY PtrType DEF HeapInv, Node
  <2> QED BY <2>1, OwnerOf
<1>2. CASE At(h, q).parent = Nil
  <2>1. Nil \notin Ptrs(h) BY <1>1
  <2>2. V = U BY <1>2, <2>1 DEF Climb, Parents
  <2> QED BY <1>2, <2>2
<1>3. CASE At(h, q).parent # Nil
  <2> DEFINE r == At(h, q).parent
  <2>1. r \in Ptrs(h) /\ At(h, r).doc < At(h, q).doc BY <1>1, <1>3 DEF Climb
  <2>2. r \notin U
    <3>1. At(h, r).doc \in Nat /\ At(h, q).doc \in Nat BY <1>1, <2>1 DEF Climb
    <3> HIDE DEF r
    <3> QED BY <2>1, <3>1 DEF Climb
  <2>3. V = U \cup {r} BY <2>1 DEF Climb, Parents
  <2> DEFINE P(p) == At(h, p).parent
             d1(p) == At(h, p).doc
  <2>4. \A p \in V : d1(p) >= d1(r)
    <3> SUFFICES ASSUME NEW p \in U PROVE d1(p) >= d1(r)
      BY <1>1, <2>1, <2>3
    <3>1. d1(p) \in Nat /\ d1(q) \in Nat /\ d1(r) \in Nat /\ d1(p) >= d1(q) BY <1>1, <2>1 DEF Climb
    <3> HIDE DEF d1
    <3> QED BY <2>1, <3>1 DEF d1
  <2>5. \A p \in V : p # r => P(p) \in V BY <2>3 DEF Climb
  <2>6. \A p \in U : P(p) # P(r)
    <3> SUFFICES ASSUME NEW p \in U, P(p) = P(r) PROVE FALSE
      OBVIOUS
    <3>1. P(p) # Nil
      <4>1. CASE p = q BY <1>3, <4>1
      <4>2. CASE p # q BY <1>1, <4>2 DEF Climb
      <4> QED BY <4>1, <4>2
    <3>2. d1(P(r)) < d1(r) /\ P(r) \in Ptrs(h) BY <1>1, <2>1, <3>1
    <3>3. P(p) \in V BY <2>2, <2>3, <2>5
    <3>4. d1(P(r)) >= d1(r) /\ d1(P(r)) \in Nat /\ d1(r) \in Nat BY <1>1, <2>1, <2>4, <3>2, <3>3
    <3> HIDE DEF d1, P
    <3> QED BY <3>2, <3>4
  <2>7. \A p, c \in V : P(p) = P(c) => p = c BY <2>3, <2>6 DEF Climb
  <2>8. \A p \in V : p # n => \E c \in V : P(c) = p BY <2>3 DEF Climb
  <2>9. V \subseteq Ptrs(h) /\ n \in V /\ r \in V BY <2>1, <2>3 DEF Climb
  <2>10. Climb(h, n, V, r) BY <2>4, <2>5, <2>7, <2>8, <2>9 DEF Climb
  <2> QED BY <1>3, <2>1, <2>10
<1> QED BY <1>2, <1>3

(* The ancestors of a node: each has its parent, no two the same, and each *)
(* but the node is the parent of one.                                      *)
LEMMA ChainFacts ==
    ASSUME NEW h, NEW t, NEW d \in Nat, HeapInv(h, t, d), fetched \in Nat, d <= fetched + 1, NEW n \in Ptrs(h)
    PROVE  /\ Chain(h, n) \subseteq Ptrs(h) /\ n \in Chain(h, n)
           /\ UpClosed(h, Chain(h, n))
           /\ \A p, c \in Chain(h, n) : At(h, p).parent = At(h, c).parent => p = c
           /\ \A p \in Chain(h, n) : p # n => \E c \in Chain(h, n) : At(h, c).parent = p
<1> DEFINE u == Up(h, n)
           S == {k \in Nat : \E q \in Ptrs(h) : Climb(h, n, u[k], q) /\ (At(h, q).parent = Nil \/ At(h, q).doc + k <= d)}
<1>1. u[0] = {n} /\ \A k \in Nat : u[k + 1] = u[k] \cup Parents(h, u[k]) BY UpFacts
<1> HIDE DEF u
<1>2. \A p \in Ptrs(h) : /\ At(h, p).doc \in Nat /\ At(h, p).doc >= 1 /\ At(h, p).doc <= d
                         /\ At(h, p).parent = Nil \/ (At(h, p).parent \in Ptrs(h) /\ At(h, At(h, p).parent).doc < At(h, p).doc)
  <2> SUFFICES ASSUME NEW p \in Ptrs(h)
               PROVE  /\ At(h, p).doc \in Nat /\ At(h, p).doc >= 1 /\ At(h, p).doc <= d
                      /\ At(h, p).parent = Nil \/ (At(h, p).parent \in Ptrs(h) /\ At(h, At(h, p).parent).doc < At(h, p).doc)
    OBVIOUS
  <2>1. At(h, p).doc \in 1 .. MaxDocs BY PtrType DEF HeapInv, Node
  <2>2. At(h, p).doc \in Nat /\ At(h, p).doc >= 1 /\ At(h, p).doc <= d BY <2>1, BoundAssumption DEF HeapInv, Ordered
  <2> QED BY <2>2, OwnerOf
<1>3. 0 \in S
  <2>1. Climb(h, n, u[0], n) BY <1>1, <1>2 DEF Climb
  <2>2. At(h, n).doc + 0 <= d BY <1>2
  <2> QED BY <2>1, <2>2
<1>4. ASSUME NEW k \in Nat, k \in S PROVE k + 1 \in S
  <2>1. PICK q \in Ptrs(h) : Climb(h, n, u[k], q) /\ (At(h, q).parent = Nil \/ At(h, q).doc + k <= d) BY <1>4
  <2>2. \/ At(h, q).parent = Nil /\ u[k + 1] = u[k]
        \/ At(h, q).parent # Nil /\ Climb(h, n, u[k + 1], At(h, q).parent) /\ At(h, At(h, q).parent).doc < At(h, q).doc
    <3> DEFINE V == u[k + 1]
    <3>1. V = u[k] \cup Parents(h, u[k]) BY <1>1
    <3> HIDE DEF V
    <3>2. \/ At(h, q).parent = Nil /\ V = u[k]
          \/ At(h, q).parent # Nil /\ Climb(h, n, V, At(h, q).parent) /\ At(h, At(h, q).parent).doc < At(h, q).doc
      <4> DEFINE U == u[k]
      <4>1. Climb(h, n, U, q) /\ V = U \cup Parents(h, U) BY <2>1, <3>1
      <4> HIDE DEF U, S
      <4>2. \/ At(h, q).parent = Nil /\ V = U
            \/ At(h, q).parent # Nil /\ Climb(h, n, V, At(h, q).parent) /\ At(h, At(h, q).parent).doc < At(h, q).doc
        BY <4>1, ClimbStep
      <4> QED BY <4>2 DEF U
    <3> QED BY <3>2 DEF V
  <2>3. CASE At(h, q).parent = Nil BY <2>1, <2>2, <2>3
  <2>4. CASE At(h, q).parent # Nil
    <3> DEFINE r == At(h, q).parent
    <3>1. Climb(h, n, u[k + 1], r) /\ At(h, r).doc < At(h, q).doc /\ r \in Ptrs(h) BY <1>2, <2>2, <2>4
    <3> HIDE DEF r
    <3>2. At(h, q).doc + k <= d BY <2>1, <2>4
    <3>3. At(h, r).doc + (k + 1) <= d
      <4>1. At(h, r).doc \in Nat /\ At(h, q).doc \in Nat BY <1>2, <3>1
      <4> QED BY <3>1, <3>2, <4>1
    <3> QED BY <3>1, <3>3
  <2> QED BY <2>3, <2>4
<1>5. fetched \in S
  <2> HIDE DEF S
  <2> QED BY <1>3, <1>4, NatSets
<1>6. PICK q \in Ptrs(h) : Climb(h, n, u[fetched], q) /\ (At(h, q).parent = Nil \/ At(h, q).doc + fetched <= d) BY <1>5
<1>7. At(h, q).parent = Nil
  <2> SUFFICES ASSUME At(h, q).parent # Nil PROVE FALSE
    OBVIOUS
  <2> DEFINE r == At(h, q).parent
  <2>1. r \in Ptrs(h) /\ At(h, r).doc < At(h, q).doc BY <1>2
  <2> HIDE DEF r
  <2>2. At(h, r).doc \in Nat /\ At(h, r).doc >= 1 /\ At(h, q).doc \in Nat BY <1>2, <2>1
  <2> QED BY <1>6, <2>1, <2>2
<1>8. Chain(h, n) = u[fetched] BY ChainIsUp DEF u
<1> QED BY <1>6, <1>7, <1>8 DEF Climb, UpClosed

(* There is one root among them.                                           *)
LEMMA OneRoot ==
    ASSUME NEW h, NEW t, NEW d \in Nat, HeapInv(h, t, d), fetched \in Nat, d <= fetched + 1, NEW n \in Ptrs(h),
           NEW r \in Chain(h, n), NEW s \in Chain(h, n), r[1] = t, s[1] = t
    PROVE  r = s
<1>1. r \in Ptrs(h) /\ s \in Ptrs(h) BY ChainFacts
<1>2. At(h, r).parent = Nil /\ At(h, s).parent = Nil BY <1>1, OwnerOf
<1> QED BY <1>2, ChainFacts

-----------------------------------------------------------------------------
(* The trees of the tabs.                                                  *)
Kids(h, U) == {q \in Ptrs(h) : \E p \in U : q[1] = At(h, p).childs}

BelowIs(h, root, f) ==
    f = [k \in Nat |-> IF k = 0 THEN {root}
                       ELSE LET S == f[k-1]
                            IN  S \cup Kids(h, S)]

Below(h, root) == CHOOSE f : BelowIs(h, root, f)

(* Tree is the last of these steps.                                        *)
LEMMA TreeIsBelow == \A h, root : Tree(h, root) = Below(h, root)[fetched]
BY DEF Tree, Below, BelowIs, Kids

(* Below starts at the root, and each step adds the childs.                *)
LEMMA BelowFacts ==
    ASSUME NEW h, NEW root \in Ptrs(h)
    PROVE  /\ Below(h, root)[0] = {root}
           /\ \A k \in Nat : /\ Below(h, root)[k] \subseteq Ptrs(h)
                             /\ root \in Below(h, root)[k]
                             /\ Below(h, root)[k + 1] = Below(h, root)[k] \cup Kids(h, Below(h, root)[k])
<1> DEFINE D    == SUBSET Ptrs(h)
           T(S) == S \cup Kids(h, S)
           step == [S \in D |-> T(S)]
           first == {root}
<1>1. step \in [D -> D] BY DEF Kids
<1>2. first \in D OBVIOUS
<1>3. PICK f \in [Nat -> D] : f[0] = first /\ \A k \in Nat : f[k + 1] = step[f[k]]
  <2> HIDE DEF D, step, first
  <2>1. \E f \in [Nat -> D] : f[0] = first /\ \A k \in Nat : f[k + 1] = step[f[k]] BY <1>1, <1>2, Iterated, Z3
  <2> QED BY <2>1
<1>4. \E g : BelowIs(h, root, g)
  <2>1. ASSUME NEW k \in Nat PROVE f[k] = IF k = 0 THEN first ELSE T(f[k - 1])
    <3>1. CASE k = 0 BY <1>3, <3>1
    <3>2. CASE k # 0
      <4>1. PICK j \in Nat : k = j + 1 /\ k - 1 = j
        <5>1. k - 1 \in Nat /\ k = (k - 1) + 1 BY <3>2
        <5> QED BY <5>1
      <4>2. f[j + 1] = step[f[j]] /\ f[j] \in D BY <1>3
      <4> HIDE DEF T, D
      <4>3. step[f[j]] = T(f[j]) BY <4>2
      <4> HIDE DEF step
      <4> QED BY <3>2, <4>1, <4>2, <4>3
    <3> QED BY <3>1, <3>2
  <2>2. f = [k \in Nat |-> f[k]] BY <1>3
  <2>3. f = [k \in Nat |-> IF k = 0 THEN first ELSE T(f[k - 1])]
    <3> HIDE DEF T, first
    <3> QED BY <2>1, <2>2
  <2>4. BelowIs(h, root, f) BY <2>3 DEF BelowIs
  <2> QED BY <2>4
<1>5. BelowIs(h, root, Below(h, root)) BY <1>4 DEF Below
<1> DEFINE g == Below(h, root)
<1> HIDE DEF g
<1>6. g = [k \in Nat |-> IF k = 0 THEN first ELSE T(g[k - 1])] BY <1>5 DEF BelowIs, g
<1>7. g[0] = {root} BY <1>6
<1> HIDE DEF T, first
<1>8. ASSUME NEW k \in Nat PROVE g[k + 1] = T(g[k])
  <2>1. k + 1 \in Nat /\ k + 1 # 0 /\ (k + 1) - 1 = k OBVIOUS
  <2>2. g[k + 1] = T(g[(k + 1) - 1]) BY <1>6, <2>1
  <2> QED BY <2>1, <2>2
<1>9. \A k \in Nat : g[k] \subseteq Ptrs(h) /\ root \in g[k]
  <2> DEFINE S == {k \in Nat : g[k] \subseteq Ptrs(h) /\ root \in g[k]}
  <2>1. 0 \in S BY <1>7
  <2>2. ASSUME NEW k \in Nat, k \in S PROVE k + 1 \in S BY <1>8, <2>2 DEF T, Kids
  <2>3. \A k \in Nat : k \in S
    <3> HIDE DEF S
    <3> QED BY <2>1, <2>2, NatSets
  <2> QED BY <2>3
<1> QED BY <1>7, <1>8, <1>9 DEF g, T

(* A set that has the parents of its nodes has the root of a tree, if it   *)
(* has a node of it.                                                       *)
LEMMA TreeUp ==
    ASSUME NEW h, NEW t, NEW d, HeapInv(h, t, d), fetched \in Nat, NEW root \in Ptrs(h), NEW C, UpClosed(h, C),
           NEW n \in Tree(h, root), n \in C
    PROVE  root \in C
<1> DEFINE g == Below(h, root)
           S == {k \in Nat : \A p \in g[k] : p \in C => root \in C}
<1>1. g[0] = {root} /\ \A k \in Nat : g[k] \subseteq Ptrs(h) /\ g[k + 1] = g[k] \cup Kids(h, g[k]) BY BelowFacts
<1>2. n \in g[fetched] BY TreeIsBelow
<1> HIDE DEF g
<1>3. 0 \in S BY <1>1
<1>4. ASSUME NEW k \in Nat, k \in S PROVE k + 1 \in S
  <2> SUFFICES ASSUME NEW q \in g[k + 1], q \in C PROVE root \in C
    OBVIOUS
  <2>1. CASE q \in g[k] BY <1>4, <2>1
  <2>2. CASE q \in Kids(h, g[k])
    <3>1. PICK p \in g[k] : q[1] = At(h, p).childs BY <2>2 DEF Kids
    <3>2. p \in Ptrs(h) /\ q \in Ptrs(h) BY <1>1, <2>2, <3>1 DEF Kids
    <3>3. At(h, q).parent = p /\ p # Nil BY <3>1, <3>2, OwnerOf, PtrType DEF HeapInv
    <3>4. p \in C BY <3>3 DEF UpClosed
    <3> QED BY <1>4, <3>1, <3>4
  <2> QED BY <1>1, <2>1, <2>2
<1>5. fetched \in S
  <2> HIDE DEF S
  <2> QED BY <1>3, <1>4, NatSets
<1> QED BY <1>2, <1>5

(* Every node is in the tree of a tab.                                     *)
LEMMA TreesCover ==
    ASSUME NEW h, NEW t, NEW d \in Nat, HeapInv(h, t, d), fetched \in Nat, d <= fetched + 1, NEW n \in Ptrs(h)
    PROVE  \E r \in Ptrs(h) : r[1] = t /\ n \in Tree(h, r)
<1> DEFINE In(p, k) == \E r \in Ptrs(h) : r[1] = t /\ p \in Below(h, r)[k]
           S == {k \in Nat : \A p \in Ptrs(h) : At(h, p).doc <= k + 1 => In(p, k)}
<1>1. \A p \in Ptrs(h) : /\ At(h, p).doc \in Nat /\ At(h, p).doc >= 1 /\ At(h, p).doc <= d
                         /\ p[1] # t => \E q \in Ptrs(h) : At(h, q).childs = p[1] /\ At(h, q).doc < At(h, p).doc
  <2> SUFFICES ASSUME NEW p \in Ptrs(h)
               PROVE  /\ At(h, p).doc \in Nat /\ At(h, p).doc >= 1 /\ At(h, p).doc <= d
                      /\ p[1] # t => \E q \in Ptrs(h) : At(h, q).childs = p[1] /\ At(h, q).doc < At(h, p).doc
    OBVIOUS
  <2>1. At(h, p).doc \in 1 .. MaxDocs BY PtrType DEF HeapInv, Node
  <2>2. At(h, p).doc \in Nat /\ At(h, p).doc >= 1 /\ At(h, p).doc <= d BY <2>1, BoundAssumption DEF HeapInv, Ordered
  <2> QED BY <2>2, OwnerOf
<1>2. \A p \in Ptrs(h), k \in Nat : p[1] = t => In(p, k) BY BelowFacts
<1>3. ASSUME NEW k \in Nat, NEW p \in Ptrs(h), In(p, k), NEW q \in Ptrs(h), At(h, p).childs = q[1]
      PROVE  In(q, k + 1)
  <2>1. PICK r \in Ptrs(h) : r[1] = t /\ p \in Below(h, r)[k] BY <1>3
  <2>2. q \in Kids(h, Below(h, r)[k]) BY <1>3, <2>1 DEF Kids
  <2>3. Below(h, r)[k + 1] = Below(h, r)[k] \cup Kids(h, Below(h, r)[k]) BY <2>1, BelowFacts
  <2> QED BY <2>1, <2>2, <2>3
<1> HIDE DEF In
<1>4. 0 \in S
  <2> SUFFICES ASSUME NEW p \in Ptrs(h), At(h, p).doc <= 0 + 1 PROVE In(p, 0)
    OBVIOUS
  <2>1. ASSUME p[1] # t PROVE FALSE
    <3>1. PICK q \in Ptrs(h) : At(h, q).doc < At(h, p).doc BY <1>1, <2>1
    <3>2. At(h, q).doc \in Nat /\ At(h, q).doc >= 1 /\ At(h, p).doc \in Nat BY <1>1
    <3> QED BY <3>1, <3>2
  <2> QED BY <1>2, <2>1
<1>5. ASSUME NEW k \in Nat, k \in S PROVE k + 1 \in S
  <2> SUFFICES ASSUME NEW p \in Ptrs(h), At(h, p).doc <= (k + 1) + 1 PROVE In(p, k + 1)
    OBVIOUS
  <2>1. CASE p[1] = t BY <1>2, <2>1
  <2>2. CASE p[1] # t
    <3>1. PICK q \in Ptrs(h) : At(h, q).childs = p[1] /\ At(h, q).doc < At(h, p).doc BY <1>1, <2>2
    <3>2. At(h, q).doc \in Nat /\ At(h, p).doc \in Nat BY <1>1
    <3>3. At(h, q).doc <= k + 1 BY <3>1, <3>2
    <3>4. In(q, k) BY <1>5, <3>3
    <3> QED BY <1>3, <3>1, <3>4
  <2> QED BY <2>1, <2>2
<1>6. fetched \in S
  <2> HIDE DEF S
  <2> QED BY <1>4, <1>5, NatSets
<1>7. In(n, fetched)
  <2>1. At(h, n).doc <= fetched + 1
    <3>1. At(h, n).doc \in Nat /\ At(h, n).doc <= d BY <1>1
    <3> QED BY <3>1
  <2> QED BY <1>6, <2>1
<1> QED BY <1>7, TreeIsBelow DEF In

-----------------------------------------------------------------------------
(* The current nodes after an append.                                      *)

(* The leaf is a node of the heap that grew, with no child.                *)
LEMMA LeafFacts ==
    ASSUME NEW h, NEW t, NEW d, HeapInv(h, t, d),
           NEW m \in Ptrs(h) \cup {Nil}, NEW old, old = ArrayOf(h, t, m), NEW new \in Placement(h, old),
           NEW g \in [Block -> Seq(Node)], Grown(h, m, old, new, d, g)
    PROVE  /\ Leaf(h, old, new) \in Ptrs(g)
           /\ Follow(g, Leaf(h, old, new)) = Leaf(h, old, new)
<1> DEFINE leaf == Leaf(h, old, new)
<1>1. old \in Block \cup {Nil} /\ new \in Block BY HolderAlone
<1>2. Items(h, old) \in Seq(Node) /\ g[new] \in Seq(Node) BY <1>1 DEF HeapInv, Typed, Items
<1>3. Len(Items(h, old)) + 1 \in DOMAIN g[new]
  <2>1. DOMAIN g[new] = 1 .. Len(g[new]) /\ Len(Items(h, old)) \in Nat BY <1>2, LenProperties
  <2> QED BY <2>1 DEF Grown
<1>4. leaf \in Ptrs(g) BY <1>1, <1>3, PtrFacts DEF Leaf
<1>5. tab_node_child_count(g, leaf) = 0 BY EmptySeq DEF Grown, tab_node_child_count, Items
<1>6. At(g, leaf).current_ix = 0 BY DEF Grown
<1>7. Follow(g, leaf) = leaf BY <1>5, <1>6 DEF Follow, Stopped
<1> QED BY <1>4, <1>7

(* The nodes but the holder go on as before.                               *)
LEMMA GrownFollow ==
    ASSUME NEW h, NEW t, NEW d, HeapInv(h, t, d),
           NEW m \in Ptrs(h) \cup {Nil}, NEW old, old = ArrayOf(h, t, m), NEW new \in Placement(h, old),
           NEW g \in [Block -> Seq(Node)], Grown(h, m, old, new, d, g),
           NEW p \in Ptrs(h), p # m
    PROVE  Follow(g, Moved(p, old, new)) = Moved(Follow(h, p), old, new)
<1> DEFINE q == Moved(p, old, new)
           c == At(h, p).childs
           x == At(h, p).current_ix
<1>1. At(g, q).childs = c /\ At(g, q).current_ix = x BY DEF Grown
<1>2. c \in Block \cup {Nil} BY PtrType DEF HeapInv, Node
<1>3. c # Nil => c # old /\ c # new BY HolderAlone
<1> HIDE DEF q
<1>4. tab_node_child_count(g, q) = tab_node_child_count(h, p)
  <2>1. CASE c = Nil BY <1>1, <2>1 DEF tab_node_child_count, Items
  <2>2. CASE c # Nil
    <3>1. Len(g[c]) = Len(h[c]) BY <1>2, <1>3, <2>2 DEF Grown
    <3> QED BY <1>1, <2>2, <3>1 DEF tab_node_child_count, Items
  <2> QED BY <2>1, <2>2
<1>5. Stopped(g, q) <=> Stopped(h, p) BY <1>1, <1>4 DEF Stopped
<1>6. CASE Stopped(h, p)
  <2>1. Follow(g, q) = q /\ Follow(h, p) = p BY <1>5, <1>6 DEF Follow
  <2> QED BY <2>1 DEF q
<1>7. CASE ~Stopped(h, p)
  <2>1. c \in Block /\ Follow(h, p) = <<c, x + 1>> BY <1>7, FollowFacts
  <2>2. Follow(g, q) = <<c, x + 1>> BY <1>1, <1>5, <1>7 DEF Follow, Child
  <2>3. c # old BY <1>3, <2>1, BlockAssumption
  <2>4. Moved(<<c, x + 1>>, old, new) = <<c, x + 1>> BY <2>3 DEF Moved
  <2> QED BY <2>1, <2>2, <2>4 DEF q
<1> QED BY <1>6, <1>7

(* A root whose current node was the holder of the leaf shows the leaf;    *)
(* every other shows the node it showed.                                   *)
LEMMA GrownCurrent ==
    ASSUME NEW h, NEW t, NEW d \in Nat, HeapInv(h, t, d),
           NEW m \in Ptrs(h) \cup {Nil}, m # Nil => Stopped(h, m),
           NEW old, old = ArrayOf(h, t, m), NEW new \in Placement(h, old),
           NEW g \in [Block -> Seq(Node)], Grown(h, m, old, new, d, g),
           NEW k \in Nat, k >= d, NEW r \in Ptrs(h)
    PROVE  Down(g, Moved(r, old, new))[k] =
               IF Down(h, r)[k] = m THEN Leaf(h, old, new) ELSE Moved(Down(h, r)[k], old, new)
<1> DEFINE leaf == Leaf(h, old, new)
           M(p) == Moved(p, old, new)
           u == IF m = Nil THEN new ELSE t
           a == Down(h, r)
           b == Down(g, M(r))
           S == {j \in Nat : b[j] = M(a[j]) \/ (a[j] = m /\ b[j] = leaf)}
<1>1. HeapInv(g, u, d + 1) BY GrownInv
<1>2. \A p \in Ptrs(h) : M(p) \in Ptrs(g) BY DEF Grown
<1>3. a[0] = r /\ \A j \in Nat : a[j] \in Ptrs(h) /\ a[j + 1] = Follow(h, a[j]) BY DownFacts
<1>4. b[0] = M(r) /\ \A j \in Nat : b[j] \in Ptrs(g) /\ b[j + 1] = Follow(g, b[j])
  <2> DEFINE z == M(r)
  <2>1. z \in Ptrs(g) BY <1>2
  <2> HIDE DEF z, u
  <2>2. Down(g, z)[0] = z /\ \A j \in Nat : Down(g, z)[j] \in Ptrs(g) /\ Down(g, z)[j + 1] = Follow(g, Down(g, z)[j])
    BY <1>1, <2>1, DownFacts
  <2> QED BY <2>2 DEF z
<1>5. leaf \in Ptrs(g) /\ Follow(g, leaf) = leaf BY LeafFacts
<1>6. \A p \in Ptrs(h) : p # m => Follow(g, M(p)) = M(Follow(h, p)) BY GrownFollow
<1>7. ASSUME m # Nil
      PROVE  m \in Ptrs(h) /\ M(m) = m /\ Follow(h, m) = m /\ Follow(g, m) = leaf /\ ~Stopped(g, m)
  <2>1. m \in Ptrs(h) /\ M(m) = m /\ new \in Block /\ old \in Block \cup {Nil} BY <1>7, HolderAlone
  <2>2. Follow(h, m) = m BY <1>7, <2>1, FollowFacts
  <2>3. At(g, m).childs = new /\ At(g, m).current_ix = Len(g[new]) - 1 BY <2>1 DEF Grown
  <2>4. Items(h, old) \in Seq(Node) BY <2>1 DEF HeapInv, Typed, Items
  <2>5. PICK l \in Nat : l = Len(Items(h, old)) /\ Len(g[new]) = l + 1 BY <2>4, LenProperties DEF Grown
  <2>6. tab_node_child_count(g, m) = l + 1 BY <2>1, <2>3, <2>5, BlockAssumption DEF tab_node_child_count, Items
  <2>7. At(g, m).current_ix = l BY <2>3, <2>5
  <2>8. ~Stopped(g, m) BY <2>6, <2>7 DEF Stopped
  <2>9. Follow(g, m) = leaf BY <2>3, <2>5, <2>7, <2>8 DEF Follow, Child, Leaf
  <2> QED BY <2>1, <2>2, <2>8, <2>9
<1>8. \A p \in Ptrs(h) : p # Nil BY PtrType DEF HeapInv
<1> HIDE DEF leaf, M, u, a, b
<1>9. 0 \in S BY <1>3, <1>4
<1>10. ASSUME NEW j \in Nat, j \in S PROVE j + 1 \in S
  <2>1. CASE a[j] # m
    <3>1. b[j + 1] = M(a[j + 1]) BY <1>3, <1>4, <1>6, <1>10, <2>1
    <3> QED BY <3>1
  <2>2. CASE a[j] = m
    <3>1. m # Nil BY <1>3, <1>8, <2>2
    <3>2. a[j + 1] = m BY <1>3, <1>7, <2>2, <3>1
    <3>3. b[j + 1] = leaf BY <1>4, <1>5, <1>7, <1>10, <2>2, <3>1
    <3> QED BY <3>2, <3>3
  <2> QED BY <2>1, <2>2
<1>11. k \in S
  <2> HIDE DEF S
  <2> QED BY <1>9, <1>10, NatSets
<1>12. CASE a[k] # m BY <1>11, <1>12 DEF a, b, M, leaf
<1>13. CASE a[k] = m
  <2>1. m # Nil BY <1>3, <1>8, <1>13
  <2>2. Stopped(g, b[k])
    <3> DEFINE z == M(r)
    <3>1. z \in Ptrs(g) BY <1>2
    <3>2. d + 1 \in Nat /\ k + 1 >= d + 1 OBVIOUS
    <3> HIDE DEF z
    <3>3. Stopped(g, Down(g, z)[k]) BY <1>1, <3>1, <3>2, DownStops
    <3> QED BY <3>3 DEF b, z
  <2>3. b[k] # m BY <1>7, <2>1, <2>2
  <2>4. b[k] = leaf BY <1>7, <1>11, <1>13, <2>1, <2>3
  <2> QED BY <1>13, <2>4 DEF a, b, M, leaf
<1> QED BY <1>12, <1>13

-----------------------------------------------------------------------------
(* The current nodes after tab_node_set_as_current.                        *)

(* The node is the last, each of its ancestors goes on to another of them, *)
(* and every other node goes on as before.                                 *)
LEMMA SetFollow ==
    ASSUME NEW h, NEW t, NEW d \in Nat, HeapInv(h, t, d), fetched \in Nat, d <= fetched + 1, NEW n \in Ptrs(h),
           NEW g, g = tab_node_set_as_current(h, n)
    PROVE  /\ HeapInv(g, t, d) /\ SameTree(h, g)
           /\ Stopped(g, n) /\ Follow(g, n) = n
           /\ \A p \in Chain(h, n) : p # n => ~Stopped(g, p) /\ Follow(g, p) \in Chain(h, n)
           /\ \A p \in Ptrs(h) : p \notin Chain(h, n) => Follow(g, p) = Follow(h, p)
<1> DEFINE Q == Chain(h, n)
<1>1. HeapInv(g, t, d) /\ SameTree(h, g) /\ \A p \in Ptrs(h) : At(g, p).current_ix = IndexOf(h, n, p) BY SetCurrent
<1>2. \A p \in Ptrs(h) : At(g, p).childs = At(h, p).childs /\ tab_node_child_count(g, p) = tab_node_child_count(h, p)
                         /\ At(h, p).childs \in Block \cup {Nil}
  <2> SUFFICES ASSUME NEW p \in Ptrs(h)
               PROVE  At(g, p).childs = At(h, p).childs /\ tab_node_child_count(g, p) = tab_node_child_count(h, p)
                      /\ At(h, p).childs \in Block \cup {Nil}
    OBVIOUS
  <2>1. At(g, p).childs = At(h, p).childs BY <1>1 DEF SameTree
  <2>2. At(h, p).childs \in Block \cup {Nil} BY PtrType DEF HeapInv, Node
  <2>3. At(h, p).childs \in Block => Len(g[At(h, p).childs]) = Len(h[At(h, p).childs]) BY <1>1 DEF SameTree
  <2> QED BY <2>1, <2>2, <2>3 DEF tab_node_child_count, Items
<1>3. /\ Q \subseteq Ptrs(h) /\ n \in Q /\ UpClosed(h, Q)
      /\ \A p, c \in Q : At(h, p).parent = At(h, c).parent => p = c
      /\ \A p \in Q : p # n => \E c \in Q : At(h, c).parent = p
  BY ChainFacts
<1> HIDE DEF Q
<1>4. Stopped(g, n) /\ Follow(g, n) = n
  <2>1. At(g, n).current_ix = tab_node_child_count(g, n) BY <1>1, <1>2 DEF IndexOf
  <2>2. At(g, n).current_ix \in Nat
    <3>1. n \in Ptrs(g) BY <1>1 DEF SameTree
    <3> QED BY <1>1, <3>1, PtrType DEF HeapInv, Node
  <2>3. Stopped(g, n) BY <2>1, <2>2 DEF Stopped
  <2> QED BY <2>3 DEF Follow
<1>5. ASSUME NEW p \in Q, p # n PROVE ~Stopped(g, p) /\ Follow(g, p) \in Q
  <2>1. PICK c \in Q : At(h, c).parent = p BY <1>3, <1>5
  <2>2. c \in Ptrs(h) /\ p \in Ptrs(h) /\ p # Nil BY <1>3, PtrType DEF HeapInv
  <2>3. c[1] = At(h, p).childs BY <2>1, <2>2, OwnerOf
  <2>4. FromOf(h, n, p) = {c} BY <1>3, <2>1, <2>2, <2>3 DEF FromOf, Q
  <2>5. At(g, p).current_ix = c[2] - 1 BY <1>1, <1>5, <2>2, <2>4 DEF IndexOf
  <2>6. c = <<c[1], c[2]>> /\ c[1] \in Block /\ c[2] \in DOMAIN h[c[1]] /\ c[2] \in Nat BY <2>2, PtrType DEF HeapInv
  <2>7. c[2] \in 1..Len(h[c[1]])
    <3>1. h[c[1]] \in Seq(Node) BY <2>6 DEF HeapInv, Typed
    <3> QED BY <2>6, <3>1
  <2>8. tab_node_child_count(h, p) = Len(h[c[1]]) BY <2>3, <2>6, BlockAssumption DEF tab_node_child_count, Items
  <2>9. Len(h[c[1]]) \in Nat
    <3>1. h[c[1]] \in Seq(Node) BY <2>6 DEF HeapInv, Typed
    <3> QED BY <3>1, LenProperties
  <2>10. ~Stopped(g, p)
    <3>1. c[2] - 1 < Len(h[c[1]]) BY <2>6, <2>7, <2>9
    <3> QED BY <1>2, <2>2, <2>5, <2>8, <3>1 DEF Stopped
  <2>11. (c[2] - 1) + 1 = c[2] BY <2>6
  <2>12. Follow(g, p) = <<c[1], c[2]>> BY <1>2, <2>2, <2>3, <2>5, <2>10, <2>11 DEF Follow, Child
  <2> QED BY <2>6, <2>10, <2>12
<1>6. ASSUME NEW p \in Ptrs(h), p \notin Q PROVE Follow(g, p) = Follow(h, p)
  <2>1. p # Nil /\ p # n BY <1>3, <1>6, PtrType DEF HeapInv
  <2>2. FromOf(h, n, p) = {}
    <3>1. \A c \in Q : At(h, c).parent # p BY <1>3, <1>6, <2>1 DEF UpClosed
    <3> QED BY <3>1 DEF FromOf, Q
  <2>3. At(g, p).current_ix = At(h, p).current_ix BY <1>1, <2>1, <2>2 DEF IndexOf
  <2>4. Stopped(g, p) <=> Stopped(h, p) BY <1>2, <2>3 DEF Stopped
  <2> QED BY <1>2, <2>3, <2>4 DEF Follow, Child
<1> QED BY <1>1, <1>4, <1>5, <1>6 DEF Q

(* A root above the node shows it, every other root what it showed.        *)
LEMMA SetShows ==
    ASSUME NEW h, NEW t, NEW d \in Nat, HeapInv(h, t, d), fetched \in Nat, d <= fetched + 1, NEW n \in Ptrs(h),
           NEW g, g = tab_node_set_as_current(h, n),
           NEW r \in Ptrs(h), NEW k \in Nat, k + 1 >= d
    PROVE  Down(g, r)[k] = IF r \in Chain(h, n) THEN n ELSE Down(h, r)[k]
<1> DEFINE Q == Chain(h, n)
<1>1. /\ HeapInv(g, t, d) /\ SameTree(h, g)
      /\ Stopped(g, n) /\ Follow(g, n) = n
      /\ \A p \in Q : p # n => ~Stopped(g, p) /\ Follow(g, p) \in Q
      /\ \A p \in Ptrs(h) : p \notin Q => Follow(g, p) = Follow(h, p)
  BY SetFollow
<1>2. Q \subseteq Ptrs(h) /\ n \in Q /\ UpClosed(h, Q) BY ChainFacts
<1> HIDE DEF Q
<1>3. r \in Ptrs(g) BY <1>1 DEF SameTree
<1>4. CASE r \in Q
  <2> DEFINE b == Down(g, r)
             S == {j \in Nat : b[j] \in Q}
  <2>1. b[0] = r /\ \A j \in Nat : b[j + 1] = Follow(g, b[j]) BY <1>1, <1>3, DownFacts
  <2>2. Stopped(g, b[k]) BY <1>1, <1>3, DownStops
  <2> HIDE DEF b
  <2>3. 0 \in S BY <1>4, <2>1
  <2>4. ASSUME NEW j \in Nat, j \in S PROVE j + 1 \in S BY <1>1, <1>2, <2>1, <2>4
  <2>5. k \in S
    <3> HIDE DEF S
    <3> QED BY <2>3, <2>4, NatSets
  <2>6. b[k] = n BY <1>1, <2>2, <2>5
  <2> QED BY <1>4, <2>6 DEF b, Q
<1>5. CASE r \notin Q
  <2> DEFINE C == Ptrs(h) \ Q
             M == [p \in Ptrs(h) |-> p]
  <2>1. r \in C /\ C \subseteq Ptrs(h) /\ M[r] = r /\ M[r] \in Ptrs(g) BY <1>3, <1>5
  <2>2. ASSUME NEW p \in C PROVE Follow(h, p) \in C /\ Follow(g, M[p]) = M[Follow(h, p)]
    <3>1. p \in Ptrs(h) /\ p \notin Q /\ p # Nil BY PtrType DEF HeapInv
    <3>2. Follow(h, p) \in Ptrs(h) BY <3>1, FollowFacts
    <3>3. Follow(h, p) = p \/ At(h, Follow(h, p)).parent = p BY <3>1, FollowFacts
    <3>4. Follow(h, p) \notin Q BY <1>2, <3>1, <3>3 DEF UpClosed
    <3> QED BY <1>1, <3>1, <3>2, <3>4
  <2>3. \A p \in C : Follow(h, p) \in C /\ Follow(g, M[p]) = M[Follow(h, p)] BY <2>2
  <2> HIDE DEF C, M
  <2>4. \A j \in Nat : Down(h, r)[j] \in C /\ Down(g, M[r])[j] = M[Down(h, r)[j]]
    BY <1>1, <2>1, <2>3, DownMapped, Z3
  <2>5. Down(h, r)[k] \in Ptrs(h) BY DownFacts
  <2>6. Down(g, r)[k] = Down(h, r)[k] BY <2>1, <2>4, <2>5 DEF M
  <2> QED BY <1>5, <2>6 DEF Q
<1> QED BY <1>4, <1>5

(* The root is above the current node ...                                  *)
LEMMA RootOfCurrent ==
    ASSUME NEW h, NEW t, NEW d \in Nat, HeapInv(h, t, d), fetched \in Nat, d <= fetched + 1,
           NEW r \in Ptrs(h), NEW k \in Nat
    PROVE  r \in Chain(h, Down(h, r)[k])
<1> DEFINE n == Down(h, r)[k]
           C == Chain(h, n)
<1>1. n \in Ptrs(h) BY DownFacts
<1>2. n \in C /\ UpClosed(h, C)
  <2> HIDE DEF n
  <2> QED BY <1>1, ChainFacts
<1> HIDE DEF C
<1> QED BY <1>2, DownUp DEF C

(* ... and above the parent of the current node, if that is not the root.  *)
LEMMA RootOfParent ==
    ASSUME NEW h, NEW t, NEW d \in Nat, HeapInv(h, t, d), fetched \in Nat, d <= fetched + 1,
           NEW r \in Ptrs(h), r[1] = t, NEW k \in Nat, NEW p, p = At(h, Down(h, r)[k]).parent, p # Nil
    PROVE  p \in Ptrs(h) /\ r \in Chain(h, p)
<1> DEFINE n == Down(h, r)[k]
           C == Chain(h, p) \cup {n}
<1>1. n \in Ptrs(h) BY DownFacts
<1>2. p \in Ptrs(h) BY <1>1, OwnerOf
<1>3. p \in Chain(h, p) /\ UpClosed(h, Chain(h, p)) BY <1>2, ChainFacts
<1>4. UpClosed(h, C) BY <1>3 DEF UpClosed
<1>5. n \in C OBVIOUS
<1>6. r \in C
  <2> HIDE DEF C
  <2> QED BY <1>4, <1>5, DownUp
<1>7. r # n BY <1>1, OwnerOf
<1> QED BY <1>2, <1>6, <1>7

(* After going back the tab shows the parent, unless there is none; the    *)
(* other tabs show what they showed.                                       *)
LEMMA BackShows ==
    ASSUME NEW h, NEW t, NEW d \in Nat, HeapInv(h, t, d), fetched \in Nat, d <= fetched + 1,
           NEW r \in Ptrs(h), r[1] = t, NEW j \in Nat, NEW n, n = Down(h, r)[j],
           NEW s \in Ptrs(h), s[1] = t, NEW k \in Nat, k + 1 >= d,
           NEW p, p = At(h, n).parent
    PROVE  Down(Back(h, n), s)[k] = IF s = r /\ p # Nil THEN p ELSE Down(h, s)[k]
<1>1. CASE p = Nil BY <1>1 DEF Back
<1>2. CASE p # Nil
  <2>1. p \in Ptrs(h) /\ r \in Chain(h, p) BY <1>2, RootOfParent
  <2>2. s \in Chain(h, p) => s = r BY <2>1, OneRoot
  <2>3. Down(tab_node_set_as_current(h, p), s)[k] = IF s \in Chain(h, p) THEN p ELSE Down(h, s)[k] BY <2>1, SetShows
  <2> QED BY <1>2, <2>1, <2>2, <2>3 DEF Back
<1> QED BY <1>1, <1>2

-----------------------------------------------------------------------------
(* Each document belongs to one node of the heap.                          *)
OnePerDoc(h, d) ==
    /\ \A e \in 1 .. d : \E p \in Ptrs(h) : At(h, p).doc = e
    /\ \A p, q \in Ptrs(h) : At(h, p).doc = At(h, q).doc => p = q

(* A heap that grew by a leaf has one node more for one document more.     *)
LEMMA GrownDocs ==
    ASSUME NEW h, NEW t, NEW d \in Nat, HeapInv(h, t, d), OnePerDoc(h, d),
           NEW m \in Ptrs(h) \cup {Nil}, NEW old, old = ArrayOf(h, t, m), NEW new \in Placement(h, old),
           NEW g \in [Block -> Seq(Node)], Grown(h, m, old, new, d, g)
    PROVE  OnePerDoc(g, d + 1)
<1> DEFINE leaf == Leaf(h, old, new)
           M(p) == Moved(p, old, new)
<1>1. leaf \in Ptrs(g) /\ At(g, leaf).doc = d + 1 BY LeafFacts DEF Grown
<1>2. \A p \in Ptrs(h) : M(p) \in Ptrs(g) /\ At(g, M(p)).doc = At(h, p).doc /\ At(h, p).doc \in Nat /\ At(h, p).doc <= d
  <2> SUFFICES ASSUME NEW p \in Ptrs(h)
               PROVE  M(p) \in Ptrs(g) /\ At(g, M(p)).doc = At(h, p).doc /\ At(h, p).doc \in Nat /\ At(h, p).doc <= d
    OBVIOUS
  <2>1. At(h, p).doc \in Nat BY PtrType DEF HeapInv, Node
  <2> QED BY <2>1 DEF Grown, HeapInv, Ordered
<1>3. \A q \in Ptrs(g) : q # leaf => \E p \in Ptrs(h) : q = M(p)
  <2>1. old \in Block \cup {Nil} BY HolderAlone
  <2> QED BY <2>1, GrownPtrs
<1> HIDE DEF leaf, M
<1>4. ASSUME NEW e \in 1 .. (d + 1) PROVE \E p \in Ptrs(g) : At(g, p).doc = e
  <2>1. CASE e = d + 1 BY <1>1, <2>1
  <2>2. CASE e # d + 1
    <3>1. e \in 1 .. d BY <2>2
    <3>2. PICK p \in Ptrs(h) : At(h, p).doc = e BY <3>1 DEF OnePerDoc
    <3> QED BY <1>2, <3>2
  <2> QED BY <2>1, <2>2
<1>5. \A p \in Ptrs(h) : At(h, p).doc # d + 1 BY <1>2
<1>6. ASSUME NEW p \in Ptrs(g), NEW q \in Ptrs(g), At(g, p).doc = At(g, q).doc PROVE p = q
  <2>1. CASE p = leaf \/ q = leaf BY <1>1, <1>2, <1>3, <1>5, <1>6, <2>1
  <2>2. CASE p # leaf /\ q # leaf
    <3>1. PICK a \in Ptrs(h) : p = M(a) BY <1>3, <2>2
    <3>2. PICK b \in Ptrs(h) : q = M(b) BY <1>3, <2>2
    <3>3. a = b BY <1>2, <1>6, <3>1, <3>2 DEF OnePerDoc
    <3> QED BY <3>1, <3>2, <3>3
  <2> QED BY <2>1, <2>2
<1> QED BY <1>4, <1>6 DEF OnePerDoc

(* Changing indexes moves no document.                                     *)
LEMMA SameDocs ==
    ASSUME NEW h, NEW d, OnePerDoc(h, d), NEW g, SameTree(h, g)
    PROVE  OnePerDoc(g, d)
BY DEF OnePerDoc, SameTree

(* Going back changes indexes only.                                        *)
LEMMA BackTree ==
    ASSUME NEW h, NEW t, NEW d, HeapInv(h, t, d), NEW n \in Ptrs(h)
    PROVE  SameTree(h, Back(h, n))
<1>1. CASE At(h, n).parent = Nil BY <1>1 DEF Back, SameTree
<1>2. CASE At(h, n).parent # Nil
  <2>1. At(h, n).parent \in Ptrs(h) BY <1>2, OwnerOf
  <2> QED BY <1>2, <2>1, SetCurrent DEF Back
<1> QED BY <1>1, <1>2

-----------------------------------------------------------------------------
(* The invariant.  While a range of links is followed the current node is  *)
(* the one the range started from.                                         *)
OnDocument ==
    cmd.kind = "links" => /\ tabs # Nil
                          /\ At(heap, Down(heap, RootPtr(current_tab))[fetched]).doc = cmd.doc

DInv == IInv /\ OnePerDoc(heap, fetched) /\ OnDocument

(* The current tab has a root.                                             *)
LEMMA RootOf ==
    ASSUME NEW h, NEW t, NEW d, HeapInv(h, t, d), t # Nil, NEW c, TabIn(h, t, c)
    PROVE  <<t, c + 1>> \in Ptrs(h) /\ <<t, c + 1>>[1] = t
<1>1. t \in Block /\ h[t] \in Seq(Node) BY DEF HeapInv, Typed
<1>2. DOMAIN h[t] = 1 .. Len(h[t]) /\ Len(h[t]) \in Nat BY <1>1
<1>3. c + 1 \in DOMAIN h[t] BY <1>2 DEF TabIn
<1> QED BY <1>1, <1>3, PtrFacts

(* A document opened from node n.                                          *)
LEMMA AppendedFacts ==
    ASSUME IInv, Fetch, NEW n \in Ptrs(heap), NEW h \in Appended(n)
    PROVE  \E new \in Placement(heap, At(heap, n).childs) :
              /\ h \in [Block -> Seq(Node)]
              /\ HeapInv(h, tabs, fetched + 1)
              /\ Grown(heap, n, At(heap, n).childs, new, fetched, h)
              /\ At(heap, n).childs = ArrayOf(heap, tabs, n)
<1>1. fetched \in Nat /\ fetched < MaxDocs BY BoundAssumption DEF IInv, Fetch
<1>2. PICK new \in Placement(heap, At(heap, n).childs) :
         h = tab_node_append_move_child(heap, n, NewNode(fetched + 1, n), new)
  BY DEF Appended
<1>3. HeapInv(h, tabs, fetched + 1) /\ Grown(heap, n, At(heap, n).childs, new, fetched, h)
  BY <1>1, <1>2, ChildAppend DEF IInv
<1>4. n # Nil BY PtrType DEF IInv, HeapInv
<1> QED BY <1>3, <1>4 DEF HeapInv, Typed, ArrayOf

(* At first there is no document.                                          *)
LEMMA InitDInv == Init => DInv
<1> SUFFICES ASSUME Init PROVE DInv
  OBVIOUS
<1>1. Ptrs(heap) = {} BY DEF Init, Ptrs
<1>2. 1 .. fetched = {} BY DEF Init
<1>3. OnePerDoc(heap, fetched) BY <1>1, <1>2 DEF OnePerDoc
<1>4. OnDocument BY DEF Init, Idle, OnDocument
<1> QED BY <1>3, <1>4, InitInv DEF DInv

(* What is shown when a document was opened from the current node: the     *)
(* document in the current tab, and in the others what they showed.        *)
LEMMA OpenedShows ==
    ASSUME IInv, tabs # Nil, Fetch, NEW n \in Ptrs(heap), n = CurrentNode(heap), NEW h \in Appended(n),
           NEW s \in Ptrs(heap), s[1] = tabs, NEW k \in Nat, k >= fetched
    PROVE  /\ s \in Ptrs(h) /\ n \in Ptrs(h) /\ At(h, n).doc = At(heap, n).doc
           /\ Down(h, s)[k] \in Ptrs(h)
           /\ At(h, Down(h, s)[k]).doc =
                  IF s = RootPtr(current_tab) THEN fetched + 1 ELSE At(heap, Down(heap, s)[k]).doc
           /\ s = RootPtr(current_tab) => At(h, Down(h, s)[k]).parent = n
<1> DEFINE root == RootPtr(current_tab)
           old == At(heap, n).childs
<1>1. fetched \in Nat /\ HeapInv(heap, tabs, fetched) BY BoundAssumption DEF IInv
<1>2. PICK new \in Placement(heap, old) :
              /\ h \in [Block -> Seq(Node)]
              /\ HeapInv(h, tabs, fetched + 1)
              /\ Grown(heap, n, old, new, fetched, h)
              /\ old = ArrayOf(heap, tabs, n)
  BY AppendedFacts
<1>3. root \in Ptrs(heap) /\ root[1] = tabs BY <1>1, RootOf DEF IInv, RootPtr
<1>4. n = Down(heap, root)[fetched] BY CurrentIsDown DEF CurrentNode
<1> HIDE DEF root, old
<1>5. Stopped(heap, n) BY <1>1, <1>3, <1>4, DownStops
<1>6. n # Nil /\ Moved(n, old, new) = n /\ old # tabs
  <2>1. n # Nil BY <1>1, PtrType DEF HeapInv
  <2> QED BY <1>1, <1>2, <2>1, HolderAlone
<1>7. Moved(s, old, new) = s BY <1>6 DEF Moved
<1>8. Down(h, s)[k] = IF Down(heap, s)[k] = n THEN Leaf(heap, old, new) ELSE Moved(Down(heap, s)[k], old, new)
  <2>1. Down(h, Moved(s, old, new))[k] =
            IF Down(heap, s)[k] = n THEN Leaf(heap, old, new) ELSE Moved(Down(heap, s)[k], old, new)
    BY <1>1, <1>2, <1>5, GrownCurrent
  <2> QED BY <1>7, <2>1
<1>9. Down(heap, root)[k] = n
  <2>1. fetched + 1 >= fetched /\ k + 1 >= fetched BY <1>1
  <2> QED BY <1>1, <1>3, <1>4, <2>1, DownEnds
<1>10. s # root => Down(heap, s)[k] # n
  <2> SUFFICES ASSUME s # root, Down(heap, s)[k] = n PROVE FALSE
    OBVIOUS
  <2>1. fetched <= fetched + 1 BY <1>1
  <2>2. s \in Chain(heap, n) BY <1>1, <2>1, RootOfCurrent
  <2>3. root \in Chain(heap, n) BY <1>1, <1>3, <1>4, <2>1, RootOfCurrent
  <2>4. s = root BY <1>1, <1>3, <2>1, <2>2, <2>3, OneRoot
  <2> QED BY <2>4
<1>11. \A p \in Ptrs(heap) : Moved(p, old, new) \in Ptrs(h) /\ At(h, Moved(p, old, new)).doc = At(heap, p).doc
  BY <1>2 DEF Grown
<1>12. Down(heap, s)[k] \in Ptrs(heap) BY <1>1, DownFacts
<1>13. Leaf(heap, old, new) \in Ptrs(h) /\ At(h, Leaf(heap, old, new)).doc = fetched + 1 /\ At(h, Leaf(heap, old, new)).parent = n
  BY <1>1, <1>2, LeafFacts DEF Grown
<1> QED BY <1>6, <1>7, <1>8, <1>9, <1>10, <1>11, <1>12, <1>13 DEF root

(* What is shown when the session went back after that: what was shown.    *)
LEMMA RangedShows ==
    ASSUME IInv, tabs # Nil, Fetch, NEW n \in Ptrs(heap), n = CurrentNode(heap), NEW h \in Appended(n),
           NEW c \in Ptrs(h), c = CurrentNode(h), NEW g, g = Back(h, c),
           NEW s \in Ptrs(heap), s[1] = tabs, NEW k \in Nat, k >= fetched
    PROVE  At(g, Down(g, s)[k]).doc = At(heap, Down(heap, s)[k]).doc
<1> DEFINE root == RootPtr(current_tab)
<1>1. fetched \in Nat /\ HeapInv(heap, tabs, fetched) BY BoundAssumption DEF IInv
<1>2. HeapInv(h, tabs, fetched + 1) BY AppendedFacts
<1>3. root \in Ptrs(heap) /\ root[1] = tabs BY <1>1, RootOf DEF IInv, RootPtr
<1>4. c = Down(h, root)[fetched] BY CurrentIsDown DEF CurrentNode
<1>5. fetched \in Nat /\ fetched >= fetched BY <1>1
<1>6. root \in Ptrs(h) /\ n \in Ptrs(h) /\ At(h, n).doc = At(heap, n).doc /\ At(h, c).parent = n
  <2>1. /\ root \in Ptrs(h) /\ n \in Ptrs(h) /\ At(h, n).doc = At(heap, n).doc
        /\ At(h, Down(h, root)[fetched]).parent = n
    BY <1>3, <1>5, OpenedShows
  <2> QED BY <1>4, <2>1
<1>7. /\ s \in Ptrs(h) /\ Down(h, s)[k] \in Ptrs(h)
      /\ s # root => At(h, Down(h, s)[k]).doc = At(heap, Down(heap, s)[k]).doc
  BY OpenedShows
<1>8. SameTree(h, g) BY <1>2, BackTree
<1>9. n # Nil BY <1>1, PtrType DEF HeapInv
<1> HIDE DEF root
<1>10. Down(g, s)[k] = IF s = root THEN n ELSE Down(h, s)[k]
  <2>1. k + 1 >= fetched + 1 /\ fetched + 1 <= fetched + 1 /\ fetched + 1 \in Nat BY <1>1
  <2>2. Down(g, s)[k] = IF s = root /\ n # Nil THEN n ELSE Down(h, s)[k]
    BY <1>1, <1>2, <1>3, <1>4, <1>6, <1>7, <2>1, BackShows
  <2> QED BY <1>9, <2>2
<1>11. CASE s = root
  <2>1. n = Down(heap, root)[fetched] BY CurrentIsDown DEF CurrentNode, root
  <2>2. fetched + 1 >= fetched /\ k + 1 >= fetched BY <1>1
  <2>3. Down(heap, root)[k] = n BY <1>1, <1>3, <2>1, <2>2, DownEnds
  <2>4. At(g, n).doc = At(h, n).doc BY <1>6, <1>8 DEF SameTree
  <2> QED BY <1>6, <1>10, <1>11, <2>3, <2>4
<1>12. CASE s # root BY <1>7, <1>8, <1>10, <1>12 DEF SameTree
<1> QED BY <1>11, <1>12

(* Every step keeps the invariant.                                         *)
LEMMA NextDInv == DInv /\ [Next]_vars => DInv'
<1> SUFFICES ASSUME DInv, [Next]_vars PROVE DInv'
  OBVIOUS
<1>1. IInv /\ IInv' /\ OnePerDoc(heap, fetched) /\ OnDocument BY NextInv DEF DInv
<1>2. fetched \in Nat /\ HeapInv(heap, tabs, fetched) BY <1>1, BoundAssumption DEF IInv
<1>3. Idle.kind = "idle" BY DEF Idle
<1>4. ASSUME cmd' = cmd, cmd = Idle PROVE OnDocument' BY <1>3, <1>4 DEF OnDocument
<1>5. ASSUME NEW n \in Ptrs(heap), heap' \in Appended(n), Fetch PROVE OnePerDoc(heap', fetched')
  <2>1. PICK new \in Placement(heap, At(heap, n).childs) :
              /\ heap' \in [Block -> Seq(Node)]
              /\ Grown(heap, n, At(heap, n).childs, new, fetched, heap')
              /\ At(heap, n).childs = ArrayOf(heap, tabs, n)
    BY <1>1, <1>5, AppendedFacts
  <2>2. OnePerDoc(heap', fetched + 1) BY <1>1, <1>2, <2>1, GrownDocs
  <2> QED BY <1>5, <2>2 DEF Fetch
<1>6. CASE OpenUrl
  <2>1. PICK new \in Placement(heap, tabs) : heap' = arl_of_tab_node_append(heap, tabs, new, NewNode(fetched + 1, Nil))
    BY <1>6 DEF OpenUrl
  <2>2. fetched < MaxDocs /\ fetched' = fetched + 1 BY <1>6 DEF OpenUrl, Fetch
  <2>3. Grown(heap, Nil, tabs, new, fetched, heap') BY <1>2, <2>1, <2>2, RootAppend
  <2>4. heap' \in [Block -> Seq(Node)] BY <1>1 DEF IInv, HeapInv, Typed
  <2>5. tabs = ArrayOf(heap, tabs, Nil) BY DEF ArrayOf
  <2>6. OnePerDoc(heap', fetched') BY <1>1, <1>2, <2>2, <2>3, <2>4, <2>5, GrownDocs
  <2> QED BY <1>1, <1>4, <1>6, <2>6 DEF OpenUrl, DInv
<1>7. CASE FollowLink
  <2>1. PICK n \in Ptrs(heap) : heap' \in Appended(n) BY <1>7 DEF FollowLink
  <2>2. OnePerDoc(heap', fetched') BY <1>5, <1>7, <2>1 DEF FollowLink
  <2> QED BY <1>1, <1>4, <1>7, <2>2 DEF FollowLink, DInv
<1>8. ASSUME NEW kind \in {"links", "inputs"}, NEW count \in 1 .. MaxRange, StartRange(kind, count)
      PROVE  DInv'
  <2>1. PICK n \in Ptrs(heap) : n = CurrentNode(heap) /\ cmd' = [kind |-> kind, left |-> count, doc |-> At(heap, n).doc]
    BY <1>8 DEF StartRange
  <2>2. n = Down(heap, RootPtr(current_tab))[fetched] BY <2>1, CurrentIsDown DEF CurrentNode
  <2>3. tabs # Nil BY <1>8 DEF StartRange, Tabs, Items
  <2>4. OnDocument'
    <3>1. UNCHANGED <<heap, tabs, current_tab, fetched>> /\ cmd'.doc = At(heap, n).doc BY <1>8, <2>1 DEF StartRange
    <3> QED BY <2>2, <2>3, <3>1 DEF OnDocument, RootPtr
  <2> QED BY <1>1, <1>8, <2>4 DEF StartRange, DInv
<1>9. CASE FollowRangeLink
  <2>1. cmd.kind = "links" /\ Fetch /\ NextElement /\ UNCHANGED <<tabs, current_tab>> BY <1>9 DEF FollowRangeLink
  <2>2. PICK n \in Ptrs(heap) :
           /\ n = CurrentNode(heap)
           /\ \E h \in Appended(n) : \E c \in Ptrs(h) : c = CurrentNode(h) /\ heap' = Back(h, c)
    BY <1>9 DEF FollowRangeLink
  <2>3. PICK h \in Appended(n) : \E c \in Ptrs(h) : c = CurrentNode(h) /\ heap' = Back(h, c) BY <2>2
  <2>4. PICK c \in Ptrs(h) : c = CurrentNode(h) /\ heap' = Back(h, c) BY <2>3
  <2>5. tabs # Nil /\ At(heap, Down(heap, RootPtr(current_tab))[fetched]).doc = cmd.doc BY <1>1, <2>1 DEF OnDocument
  <2>6. fetched' = fetched + 1 /\ fetched + 1 \in Nat /\ fetched + 1 >= fetched BY <1>2, <2>1 DEF Fetch
  <2>7. OnePerDoc(heap', fetched')
    <3>1. PICK new \in Placement(heap, At(heap, n).childs) :
              /\ h \in [Block -> Seq(Node)]
              /\ HeapInv(h, tabs, fetched + 1)
              /\ Grown(heap, n, At(heap, n).childs, new, fetched, h)
              /\ At(heap, n).childs = ArrayOf(heap, tabs, n)
      BY <1>1, <2>1, AppendedFacts
    <3>2. OnePerDoc(h, fetched + 1) BY <1>1, <1>2, <3>1, GrownDocs
    <3>3. SameTree(h, heap') BY <2>4, <3>1, BackTree
    <3> QED BY <2>6, <3>2, <3>3, SameDocs
  <2>8. RootPtr(current_tab) \in Ptrs(heap) /\ RootPtr(current_tab)[1] = tabs BY <1>1, <1>2, <2>5, RootOf DEF IInv, RootPtr
  <2>9. At(heap', Down(heap', RootPtr(current_tab))[fetched + 1]).doc = At(heap, Down(heap, RootPtr(current_tab))[fetched + 1]).doc
    BY <1>1, <2>1, <2>2, <2>4, <2>5, <2>6, <2>8, RangedShows
  <2>10. Down(heap, RootPtr(current_tab))[fetched + 1] = Down(heap, RootPtr(current_tab))[fetched]
    <3>1. (fetched + 1) + 1 >= fetched /\ fetched + 1 >= fetched BY <1>2
    <3> QED BY <1>2, <2>6, <2>8, <3>1, DownEnds
  <2>11. RootPtr(current_tab)' = RootPtr(current_tab) BY <2>1 DEF RootPtr
  <2>12. cmd'.kind = "links" => cmd'.doc = cmd.doc BY <1>1, <1>3, <2>1 DEF NextElement, IInv, CmdTyped
  <2>13. OnDocument' BY <2>1, <2>5, <2>6, <2>9, <2>10, <2>11, <2>12 DEF OnDocument
  <2> QED BY <1>1, <2>7, <2>13 DEF DInv
<1>10. CASE SubmitRangeInput
  <2>1. PICK n \in Ptrs(heap) : heap' \in Appended(n) BY <1>10 DEF SubmitRangeInput
  <2>2. OnePerDoc(heap', fetched') BY <1>5, <1>10, <2>1 DEF SubmitRangeInput
  <2>3. cmd'.kind # "links"
    <3>1. cmd.kind = "inputs" /\ NextElement BY <1>10 DEF SubmitRangeInput
    <3> QED BY <1>1, <1>3, <3>1 DEF NextElement, IInv, CmdTyped
  <2>4. OnDocument' BY <2>3 DEF OnDocument
  <2> QED BY <1>1, <2>2, <2>4 DEF DInv
<1>11. CASE RangeElementFails
  <2>1. cmd'.kind = "links" => cmd'.doc = cmd.doc /\ cmd.kind = "links"
    <3>1. NextElement BY <1>11 DEF RangeElementFails
    <3> QED BY <1>1, <1>3, <3>1 DEF NextElement, IInv, CmdTyped
  <2>2. UNCHANGED <<heap, tabs, current_tab, fetched>> BY <1>11 DEF RangeElementFails
  <2>3. OnDocument' BY <1>1, <2>1, <2>2 DEF OnDocument, RootPtr
  <2> QED BY <1>1, <2>2, <2>3 DEF DInv
<1>12. CASE RangeStops BY <1>1, <1>3, <1>12 DEF RangeStops, OnDocument, DInv
<1>13. CASE tablist_back
  <2>1. PICK n \in Ptrs(heap) : heap' = Back(heap, n) BY <1>13 DEF tablist_back
  <2>2. SameTree(heap, heap') BY <1>2, <2>1, BackTree
  <2>3. OnePerDoc(heap', fetched') BY <1>1, <1>13, <2>2, SameDocs DEF tablist_back
  <2> QED BY <1>1, <1>4, <1>13, <2>3 DEF tablist_back, DInv
<1>14. ASSUME NEW t \in Tabs, NEW n \in Ptrs(heap), MoveTo(t, n) PROVE DInv'
  <2>1. SameTree(heap, heap') BY <1>2, <1>14, SetCurrent DEF MoveTo
  <2>2. OnePerDoc(heap', fetched') BY <1>1, <1>14, <2>1, SameDocs DEF MoveTo
  <2> QED BY <1>1, <1>4, <1>14, <2>2 DEF MoveTo, DInv
<1>15. ASSUME NEW t \in Tabs, SelectTab(t) PROVE DInv'
  BY <1>1, <1>4, <1>15 DEF SelectTab, DInv
<1>16. CASE UNCHANGED vars
  <2>1. OnDocument' BY <1>1, <1>16 DEF vars, OnDocument, RootPtr
  <2> QED BY <1>1, <1>16, <2>1 DEF vars, DInv
<1> QED BY <1>6, <1>7, <1>8, <1>9, <1>10, <1>11, <1>12, <1>13, <1>14, <1>15, <1>16 DEF Next

(* The invariant holds in every state.                                     *)
LEMMA DInvariance == Spec => []DInv
BY InitDInv, NextDInv, PTL DEF Spec

(* Each fetched document is that of one node of one tab, and no node is    *)
(* outside of the trees of the tabs; while a range of links is followed    *)
(* the session comes back to the document of the links after each.         *)
THEOREM DocumentsAreKept == Spec => []DocumentsKept
<1>1. DInv => DocumentsKept
  <2> SUFFICES ASSUME DInv PROVE DocumentsKept
    OBVIOUS
  <2>1. IInv /\ OnePerDoc(heap, fetched) /\ OnDocument BY DEF DInv
  <2>2. fetched \in Nat /\ HeapInv(heap, tabs, fetched) BY <2>1, BoundAssumption DEF IInv
  <2>3. RangeStaysOnDocument BY <2>1, CurrentIsDown DEF OnDocument, RangeStaysOnDocument, CurrentNode
  <2>4. ASSUME NEW p \in Ptrs(heap) PROVE \E t \in Tabs : p \in Tree(heap, RootPtr(t))
    <3>1. fetched <= fetched + 1 BY <2>2
    <3>2. PICK r \in Ptrs(heap) : r[1] = tabs /\ p \in Tree(heap, r) BY <2>2, <3>1, TreesCover
    <3>3. r = <<r[1], r[2]>> /\ r[1] \in Block /\ r[2] \in DOMAIN heap[r[1]] /\ r[2] \in Nat BY <2>2, PtrType DEF HeapInv
    <3>4. tabs # Nil /\ r[2] \in DOMAIN Items(heap, tabs) BY <3>2, <3>3, BlockAssumption DEF Items
    <3>5. r[2] - 1 \in Tabs /\ (r[2] - 1) + 1 = r[2] BY <3>3, <3>4 DEF Tabs
    <3>6. RootPtr(r[2] - 1) = r BY <3>2, <3>3, <3>5 DEF RootPtr
    <3> QED BY <3>2, <3>5, <3>6
  <2>5. ASSUME NEW t \in Tabs PROVE Tree(heap, RootPtr(t)) \subseteq Ptrs(heap)
    <3>1. TabIn(heap, tabs, t) /\ tabs # Nil BY <2>1, TabOf DEF Tabs, Items
    <3>2. RootPtr(t) \in Ptrs(heap) BY <2>2, <3>1, RootOf DEF RootPtr
    <3> QED BY <2>2, <3>2, TreeIsBelow, BelowFacts
  <2>6. Ptrs(heap) = UNION {Tree(heap, RootPtr(t)) : t \in Tabs} BY <2>4, <2>5
  <2>7. EachDocumentOnce BY <2>1, <2>6 DEF EachDocumentOnce, OnePerDoc
  <2> QED BY <2>3, <2>7 DEF DocumentsKept
<1> QED BY <1>1, DInvariance, PTL

-----------------------------------------------------------------------------
(* The history of a heap.                                                  *)
DocsAt(h, b) == [i \in DOMAIN Items(h, b) |-> Items(h, b)[i].doc]

NodeAt(h, e) == CHOOSE p \in Ptrs(h) : At(h, p).doc = e

KidsAt(h, f) == [e \in 1 .. f |-> DocsAt(h, At(h, NodeAt(h, e)).childs)]

ShownAt(h, t, f) == [i \in DOMAIN DocsAt(h, t) |-> At(h, Down(h, <<t, i>>)[f]).doc]

(* The documents of an array, in the order of its items.                   *)
LEMMA DocsFacts ==
    ASSUME NEW h \in [Block -> Seq(Node)], NEW b \in Block \cup {Nil}
    PROVE  /\ Items(h, b) \in Seq(Node) /\ Len(Items(h, b)) \in Nat
           /\ DocsAt(h, b) \in Seq(Nat) /\ Len(DocsAt(h, b)) = Len(Items(h, b))
           /\ DOMAIN DocsAt(h, b) = 1 .. Len(Items(h, b))
           /\ \A i \in 1 .. Len(Items(h, b)) : DocsAt(h, b)[i] = At(h, <<b, i>>).doc /\ <<b, i>> \in Ptrs(h)
<1> DEFINE s == Items(h, b)
           f == DocsAt(h, b)
<1>1. s \in Seq(Node) BY DEF Items
<1>2. Len(s) \in Nat /\ DOMAIN s = 1 .. Len(s) /\ \A i \in 1 .. Len(s) : s[i] \in Node BY <1>1, LenProperties, ElementOfSeq
<1>3. ASSUME NEW i \in 1 .. Len(s) PROVE s[i] = At(h, <<b, i>>) /\ <<b, i>> \in Ptrs(h)
  <2>1. b # Nil
    <3>1. ASSUME b = Nil PROVE FALSE
      <4>1. Len(s) = 0 BY <3>1, EmptySeq DEF Items
      <4> QED BY <4>1
    <3> QED BY <3>1
  <2>2. s = h[b] BY <2>1 DEF Items
  <2>3. <<b, i>> \in Ptrs(h) BY <1>2, <2>1, <2>2, PtrFacts
  <2>4. s[i] = At(h, <<b, i>>) BY <2>2 DEF At
  <2> QED BY <2>3, <2>4
<1>4. f = [i \in 1 .. Len(s) |-> s[i].doc] BY <1>2 DEF DocsAt
<1>5. \A i \in 1 .. Len(s) : s[i].doc \in Nat BY <1>2 DEF Node
<1> HIDE DEF f, s
<1>6. f \in [1 .. Len(s) -> Nat] BY <1>4, <1>5
<1>7. f \in Seq(Nat) BY <1>2, <1>6, SeqDef
<1>8. Len(f) = Len(s) BY <1>2, <1>6, <1>7, LenProperties
<1>9. \A i \in 1 .. Len(s) : f[i] = At(h, <<b, i>>).doc BY <1>3, <1>4
<1>10. DOMAIN f = 1 .. Len(s) BY <1>4
<1> QED BY <1>1, <1>2, <1>3, <1>7, <1>8, <1>9, <1>10 DEF f, s

(* Sequences with the same length and the same items are the same.         *)
LEMMA SameSeq ==
    ASSUME NEW S, NEW a \in Seq(S), NEW b \in Seq(S), Len(a) = Len(b), \A i \in 1 .. Len(a) : a[i] = b[i]
    PROVE  a = b
BY SeqEqual

(* Changing indexes keeps the documents of every array ...                 *)
LEMMA SameTreeDocs ==
    ASSUME NEW h \in [Block -> Seq(Node)], NEW g \in [Block -> Seq(Node)], SameTree(h, g), NEW b \in Block \cup {Nil}
    PROVE  DocsAt(g, b) = DocsAt(h, b)
<1>1. Len(Items(g, b)) = Len(Items(h, b))
  <2>1. CASE b = Nil BY <2>1 DEF Items
  <2>2. CASE b # Nil
    <3>1. b \in Block BY <2>2
    <3> QED BY <2>2, <3>1 DEF Items, SameTree
  <2> QED BY <2>1, <2>2
<1>2. /\ DocsAt(h, b) \in Seq(Nat) /\ Len(DocsAt(h, b)) = Len(Items(h, b))
      /\ \A i \in 1 .. Len(Items(h, b)) : DocsAt(h, b)[i] = At(h, <<b, i>>).doc /\ <<b, i>> \in Ptrs(h)
  BY DocsFacts
<1>3. /\ DocsAt(g, b) \in Seq(Nat) /\ Len(DocsAt(g, b)) = Len(Items(g, b))
      /\ \A i \in 1 .. Len(Items(g, b)) : DocsAt(g, b)[i] = At(g, <<b, i>>).doc
  BY DocsFacts
<1>4. \A i \in 1 .. Len(Items(h, b)) : DocsAt(g, b)[i] = DocsAt(h, b)[i]
  BY <1>1, <1>2, <1>3 DEF SameTree
<1> QED BY <1>1, <1>2, <1>3, <1>4, SameSeq

(* Append adds the new document to the array that grows.                   *)
LEMMA GrownArrays ==
    ASSUME NEW h, NEW t, NEW d \in Nat, HeapInv(h, t, d),
           NEW m \in Ptrs(h) \cup {Nil}, NEW old, old = ArrayOf(h, t, m), NEW new \in Placement(h, old),
           NEW g \in [Block -> Seq(Node)], Grown(h, m, old, new, d, g)
    PROVE  /\ DocsAt(g, new) = Append(DocsAt(h, old), d + 1)
           /\ \A b \in Block \cup {Nil} : b = Nil \/ (b # old /\ b # new) => DocsAt(g, b) = DocsAt(h, b)
<1>1. h \in [Block -> Seq(Node)] /\ old \in Block \cup {Nil} /\ new \in Block BY HolderAlone DEF HeapInv, Typed
<1> DEFINE l == Len(Items(h, old))
           a == DocsAt(h, old)
           z == DocsAt(g, new)
<1>2. /\ l \in Nat /\ a \in Seq(Nat) /\ Len(a) = l
      /\ \A i \in 1 .. l : a[i] = At(h, <<old, i>>).doc /\ <<old, i>> \in Ptrs(h)
  BY <1>1, DocsFacts
<1>3. Items(g, new) = g[new] BY <1>1, BlockAssumption DEF Items
<1>4. Len(Items(g, new)) = l + 1 BY <1>3 DEF Grown
<1>5. z \in Seq(Nat) /\ Len(z) = l + 1 /\ \A i \in 1 .. (l + 1) : z[i] = At(g, <<new, i>>).doc
  BY <1>1, <1>4, DocsFacts
<1>6. At(g, <<new, l + 1>>).doc = d + 1 BY DEF Grown, Leaf
<1>7. ASSUME NEW i \in 1 .. l PROVE At(g, <<new, i>>).doc = a[i]
  <2>1. <<old, i>> \in Ptrs(h) /\ <<old, i>> # Nil BY <1>2, PtrType DEF HeapInv
  <2>2. Moved(<<old, i>>, old, new) = <<new, i>> BY <2>1 DEF Moved
  <2>3. At(g, Moved(<<old, i>>, old, new)).doc = At(h, <<old, i>>).doc BY <2>1 DEF Grown
  <2> QED BY <1>2, <2>2, <2>3
<1> HIDE DEF l, a, z
<1>8. z = Append(a, d + 1)
  <2>1. Append(a, d + 1) \in Seq(Nat) /\ Len(Append(a, d + 1)) = l + 1
    BY <1>2, AppendProperties
  <2>2. \A i \in 1 .. (l + 1) : Append(a, d + 1)[i] = IF i = l + 1 THEN d + 1 ELSE a[i] BY <1>2
  <2>3. \A i \in 1 .. (l + 1) : i # l + 1 => i \in 1 .. l BY <1>2
  <2>4. \A i \in 1 .. (l + 1) : z[i] = Append(a, d + 1)[i] BY <1>5, <1>6, <1>7, <2>2, <2>3
  <2> QED BY <1>5, <2>1, <2>4, SameSeq
<1>9. ASSUME NEW b \in Block \cup {Nil}, b = Nil \/ (b # old /\ b # new) PROVE DocsAt(g, b) = DocsAt(h, b)
  <2>1. Len(Items(g, b)) = Len(Items(h, b))
    <3>1. CASE b = Nil BY <3>1 DEF Items
    <3>2. CASE b # Nil
      <4>1. b \in Block /\ b # old /\ b # new BY <1>9, <3>2
      <4> QED BY <3>2, <4>1 DEF Items, Grown
    <3> QED BY <3>1, <3>2
  <2>2. /\ DocsAt(h, b) \in Seq(Nat) /\ Len(DocsAt(h, b)) = Len(Items(h, b))
        /\ \A i \in 1 .. Len(Items(h, b)) : DocsAt(h, b)[i] = At(h, <<b, i>>).doc /\ <<b, i>> \in Ptrs(h)
    BY <1>1, DocsFacts
  <2>3. /\ DocsAt(g, b) \in Seq(Nat) /\ Len(DocsAt(g, b)) = Len(Items(g, b))
        /\ \A i \in 1 .. Len(Items(g, b)) : DocsAt(g, b)[i] = At(g, <<b, i>>).doc
    BY <1>1, DocsFacts
  <2>4. ASSUME NEW i \in 1 .. Len(Items(h, b)) PROVE DocsAt(g, b)[i] = DocsAt(h, b)[i]
    <3>1. <<b, i>> \in Ptrs(h) BY <2>2
    <3>2. b # Nil BY <3>1, PtrType, BlockAssumption DEF HeapInv
    <3>3. Moved(<<b, i>>, old, new) = <<b, i>> BY <1>9, <3>2 DEF Moved
    <3>4. At(g, <<b, i>>).doc = At(h, <<b, i>>).doc BY <3>1, <3>3 DEF Grown
    <3> QED BY <2>1, <2>2, <2>3, <3>4
  <2> QED BY <2>1, <2>2, <2>3, <2>4, SameSeq
<1> QED BY <1>8, <1>9 DEF a, z

(* The node of a document is the one that has it.                          *)
LEMMA NodeIs ==
    ASSUME NEW h, NEW d, OnePerDoc(h, d)
    PROVE  /\ \A p \in Ptrs(h) : NodeAt(h, At(h, p).doc) = p
           /\ \A e \in 1 .. d : NodeAt(h, e) \in Ptrs(h) /\ At(h, NodeAt(h, e)).doc = e
BY DEF OnePerDoc, NodeAt

(* The new leaf is the last document that was opened from its parent.      *)
LEMMA GrownKids ==
    ASSUME NEW h, NEW t, NEW d \in Nat, HeapInv(h, t, d), OnePerDoc(h, d),
           NEW m \in Ptrs(h) \cup {Nil}, NEW old, old = ArrayOf(h, t, m), NEW new \in Placement(h, old),
           NEW g \in [Block -> Seq(Node)], Grown(h, m, old, new, d, g)
    PROVE  /\ DOMAIN KidsAt(h, d) = 1 .. d /\ DOMAIN KidsAt(g, d + 1) = 1 .. (d + 1)
           /\ KidsAt(g, d + 1)[d + 1] = <<>>
           /\ \A e \in 1 .. d : KidsAt(g, d + 1)[e] =
                 IF NodeAt(h, e) = m THEN Append(KidsAt(h, d)[e], d + 1) ELSE KidsAt(h, d)[e]
<1> DEFINE leaf == Leaf(h, old, new)
           M(p) == Moved(p, old, new)
<1>1. h \in [Block -> Seq(Node)] /\ old \in Block \cup {Nil} /\ new \in Block BY HolderAlone DEF HeapInv, Typed
<1>2. OnePerDoc(g, d + 1) BY GrownDocs
<1>3. leaf \in Ptrs(g) /\ At(g, leaf).doc = d + 1 /\ At(g, leaf).childs = Nil BY LeafFacts DEF Grown
<1>4. NodeAt(g, d + 1) = leaf BY <1>2, <1>3, NodeIs
<1>5. d + 1 \in 1 .. (d + 1) /\ \A e \in 1 .. d : e \in 1 .. (d + 1) OBVIOUS
<1>6. KidsAt(g, d + 1)[d + 1] = <<>>
  <2>1. KidsAt(g, d + 1)[d + 1] = DocsAt(g, Nil) BY <1>3, <1>4, <1>5 DEF KidsAt
  <2>2. DocsAt(g, Nil) \in Seq(Nat) /\ Len(DocsAt(g, Nil)) = Len(Items(g, Nil)) BY <1>1, DocsFacts
  <2>3. Len(Items(g, Nil)) = 0 BY EmptySeq DEF Items
  <2> QED BY <2>1, <2>2, <2>3, EmptySeq
<1>7. ASSUME NEW e \in 1 .. d
      PROVE  KidsAt(g, d + 1)[e] = IF NodeAt(h, e) = m THEN Append(KidsAt(h, d)[e], d + 1) ELSE KidsAt(h, d)[e]
  <2> DEFINE p == NodeAt(h, e)
             c == At(h, p).childs
  <2>1. p \in Ptrs(h) /\ At(h, p).doc = e BY NodeIs
  <2>2. M(p) \in Ptrs(g) /\ At(g, M(p)).doc = e /\ At(g, M(p)).childs = IF p = m THEN new ELSE c BY <2>1 DEF Grown
  <2> HIDE DEF p, M
  <2>3. NodeAt(g, e) = M(p) BY <1>2, <2>2, NodeIs
  <2>4. KidsAt(g, d + 1)[e] = DocsAt(g, IF p = m THEN new ELSE c) BY <1>5, <2>2, <2>3 DEF KidsAt
  <2>5. KidsAt(h, d)[e] = DocsAt(h, c) BY DEF KidsAt, p
  <2>6. c \in Block \cup {Nil} BY <2>1, PtrType DEF HeapInv, Node
  <2>7. CASE p = m
    <3>1. c = old BY <2>1, <2>7, PtrType DEF ArrayOf, HeapInv
    <3>2. DocsAt(g, new) = Append(DocsAt(h, old), d + 1) BY GrownArrays
    <3> QED BY <2>4, <2>5, <2>7, <3>1, <3>2 DEF p
  <2>8. CASE p # m
    <3>1. c = Nil \/ (c # old /\ c # new) BY <2>1, <2>8, HolderAlone
    <3>2. DocsAt(g, c) = DocsAt(h, c) BY <2>6, <3>1, GrownArrays
    <3> QED BY <2>4, <2>5, <2>8, <3>2 DEF p
  <2> QED BY <2>7, <2>8
<1> QED BY <1>6, <1>7 DEF KidsAt

(* ... and so what was opened from each document.                          *)
LEMMA SameTreeKids ==
    ASSUME NEW h \in [Block -> Seq(Node)], NEW g \in [Block -> Seq(Node)], SameTree(h, g), NEW d, OnePerDoc(h, d)
    PROVE  KidsAt(g, d) = KidsAt(h, d)
<1>1. OnePerDoc(g, d) BY SameDocs
<1>2. ASSUME NEW e \in 1 .. d PROVE DocsAt(g, At(g, NodeAt(g, e)).childs) = DocsAt(h, At(h, NodeAt(h, e)).childs)
  <2> DEFINE p == NodeAt(h, e)
  <2>1. p \in Ptrs(h) /\ At(h, p).doc = e BY NodeIs
  <2> HIDE DEF p
  <2>2. p \in Ptrs(g) /\ At(g, p).doc = e /\ At(g, p).childs = At(h, p).childs BY <2>1 DEF SameTree
  <2>3. NodeAt(g, e) = p BY <1>1, <2>2, NodeIs
  <2>4. Typed(h, Nil) BY DEF Typed
  <2>5. At(h, p).childs \in Block \cup {Nil} BY <2>1, <2>4, PtrType DEF Node
  <2>6. DocsAt(g, At(h, p).childs) = DocsAt(h, At(h, p).childs) BY <2>5, SameTreeDocs
  <2> QED BY <2>2, <2>3, <2>6 DEF p
<1> QED BY <1>2 DEF KidsAt

-----------------------------------------------------------------------------
(* The documents that are shown.                                           *)
LEMMA ShownFacts ==
    ASSUME NEW h, NEW t, NEW d, HeapInv(h, t, d), NEW f \in Nat
    PROVE  /\ Len(DocsAt(h, t)) \in Nat /\ DOMAIN DocsAt(h, t) = 1 .. Len(DocsAt(h, t))
           /\ DOMAIN ShownAt(h, t, f) = 1 .. Len(DocsAt(h, t))
           /\ ShownAt(h, t, f) \in Seq(Nat) /\ Len(ShownAt(h, t, f)) = Len(DocsAt(h, t))
           /\ \A i \in 1 .. Len(DocsAt(h, t)) : /\ <<t, i>> \in Ptrs(h) /\ <<t, i>>[1] = t
                                                /\ ShownAt(h, t, f)[i] = At(h, Down(h, <<t, i>>)[f]).doc
<1> DEFINE l == Len(DocsAt(h, t))
           s == ShownAt(h, t, f)
<1>1. h \in [Block -> Seq(Node)] /\ t \in Block \cup {Nil} BY DEF HeapInv, Typed
<1>2. l \in Nat /\ DOMAIN DocsAt(h, t) = 1 .. l /\ \A i \in 1 .. l : <<t, i>> \in Ptrs(h) BY <1>1, DocsFacts
<1>3. s = [i \in 1 .. l |-> At(h, Down(h, <<t, i>>)[f]).doc] BY <1>2 DEF ShownAt
<1>4. ASSUME NEW i \in 1 .. l PROVE At(h, Down(h, <<t, i>>)[f]).doc \in Nat
  <2> DEFINE r == <<t, i>>
  <2>1. r \in Ptrs(h) BY <1>2
  <2> HIDE DEF r
  <2>2. Down(h, r)[f] \in Ptrs(h) BY <2>1, DownFacts
  <2>3. At(h, Down(h, r)[f]).doc \in Nat BY <2>2, PtrType DEF HeapInv, Node
  <2> QED BY <2>3 DEF r
<1> HIDE DEF s, l
<1>5. s \in [1 .. l -> Nat] BY <1>3, <1>4
<1>6. s \in Seq(Nat) BY <1>2, <1>5, SeqDef
<1>7. Len(s) = l BY <1>2, <1>5, <1>6, LenProperties
<1>8. \A i \in 1 .. l : <<t, i>> \in Ptrs(h) /\ <<t, i>>[1] = t BY <1>2
<1>9. \A i \in 1 .. l : s[i] = At(h, Down(h, <<t, i>>)[f]).doc BY <1>3
<1>10. DOMAIN s = 1 .. l BY <1>3
<1> QED BY <1>2, <1>6, <1>7, <1>8, <1>9, <1>10 DEF l, s

(* A new tab shows its document, the others what they showed.              *)
LEMMA TabShown ==
    ASSUME NEW h, NEW t, NEW d \in Nat, HeapInv(h, t, d), NEW new \in Placement(h, t),
           NEW g \in [Block -> Seq(Node)], Grown(h, Nil, t, new, d, g)
    PROVE  ShownAt(g, new, d + 1) = Append(ShownAt(h, t, d), d + 1)
<1> DEFINE a == ShownAt(h, t, d)
           b == ShownAt(g, new, d + 1)
           l == Len(DocsAt(h, t))
<1>1. t = ArrayOf(h, t, Nil) BY DEF ArrayOf
<1>2. HeapInv(g, new, d + 1) /\ d + 1 \in Nat BY <1>1, GrownInv
<1>3. Len(DocsAt(g, new)) = l + 1
  <2>1. DocsAt(g, new) = Append(DocsAt(h, t), d + 1) BY <1>1, GrownArrays
  <2>2. DocsAt(h, t) \in Seq(Nat) BY DocsFacts DEF HeapInv, Typed
  <2> QED BY <2>1, <2>2, AppendProperties
<1>4. /\ l \in Nat /\ a \in Seq(Nat) /\ Len(a) = l
      /\ \A i \in 1 .. l : <<t, i>> \in Ptrs(h) /\ a[i] = At(h, Down(h, <<t, i>>)[d]).doc
  BY ShownFacts
<1>5. /\ b \in Seq(Nat) /\ Len(b) = l + 1
      /\ \A i \in 1 .. (l + 1) : b[i] = At(g, Down(g, <<new, i>>)[d + 1]).doc
  BY <1>2, <1>3, ShownFacts
<1> HIDE DEF a, b
<1>6. ASSUME NEW i \in 1 .. l PROVE b[i] = a[i]
  <2> DEFINE r == <<t, i>>
             q == Down(h, r)[d + 1]
  <2>1. r \in Ptrs(h) /\ r # Nil BY <1>4, PtrType DEF HeapInv
  <2>2. Moved(r, t, new) = <<new, i>> BY <2>1 DEF Moved
  <2>3. a[i] = At(h, Down(h, r)[d]).doc BY <1>4
  <2> HIDE DEF r
  <2>4. q = Down(h, r)[d]
    <3>1. d + 1 \in Nat /\ d + 1 >= d /\ (d + 1) + 1 >= d OBVIOUS
    <3> QED BY <2>1, <3>1, DownEnds
  <2>5. q \in Ptrs(h) /\ q # Nil
    <3>1. q \in Ptrs(h) BY <1>2, <2>1, DownFacts
    <3> QED BY <3>1, PtrType DEF HeapInv
  <2>6. Down(g, Moved(r, t, new))[d + 1] = IF q = Nil THEN Leaf(h, t, new) ELSE Moved(q, t, new)
    <3>1. d + 1 >= d OBVIOUS
    <3> QED BY <1>1, <1>2, <2>1, <3>1, GrownCurrent
  <2> HIDE DEF q
  <2>7. At(g, Moved(q, t, new)).doc = At(h, q).doc BY <2>5 DEF Grown
  <2>8. i \in 1 .. (l + 1) BY <1>4
  <2> QED BY <1>5, <2>2, <2>3, <2>4, <2>5, <2>6, <2>7, <2>8
<1>7. b[l + 1] = d + 1
  <2> DEFINE leaf == Leaf(h, t, new)
             e == Down(g, leaf)
             S == {k \in Nat : e[k] = leaf}
  <2>1. leaf \in Ptrs(g) /\ Follow(g, leaf) = leaf BY <1>1, LeafFacts
  <2>2. At(g, leaf).doc = d + 1 BY DEF Grown
  <2>3. leaf = <<new, l + 1>>
    <3>1. l = Len(Items(h, t)) BY DocsFacts DEF HeapInv, Typed
    <3> QED BY <3>1 DEF Leaf
  <2> HIDE DEF leaf
  <2>4. e[0] = leaf /\ \A k \in Nat : e[k + 1] = Follow(g, e[k]) BY <1>2, <2>1, DownFacts
  <2> HIDE DEF e
  <2>5. 0 \in S BY <2>4
  <2>6. ASSUME NEW k \in Nat, k \in S PROVE k + 1 \in S
    <3>1. e[k] = leaf BY <2>6
    <3>2. e[k + 1] = Follow(g, e[k]) BY <2>4
    <3>3. e[k + 1] = leaf BY <2>1, <3>1, <3>2
    <3> QED BY <3>3
  <2>7. d + 1 \in S
    <3> HIDE DEF S
    <3> QED BY <1>2, <2>5, <2>6, NatSets
  <2>8. l + 1 \in 1 .. (l + 1) BY <1>4
  <2> QED BY <1>5, <2>2, <2>3, <2>7, <2>8 DEF e
<1> HIDE DEF l
<1>8. Append(a, d + 1) \in Seq(Nat) /\ Len(Append(a, d + 1)) = l + 1 BY <1>4, AppendProperties
<1>9. \A i \in 1 .. (l + 1) : Append(a, d + 1)[i] = IF i = l + 1 THEN d + 1 ELSE a[i] BY <1>4
<1>10. \A i \in 1 .. (l + 1) : i # l + 1 => i \in 1 .. l BY <1>4
<1>11. \A i \in 1 .. (l + 1) : b[i] = Append(a, d + 1)[i] BY <1>6, <1>7, <1>9, <1>10
<1>12. b = Append(a, d + 1) BY <1>5, <1>8, <1>11, SameSeq
<1> QED BY <1>12 DEF a, b

(* Choosing a node below root i shows its document in that tab only.       *)
LEMMA SetShown ==
    ASSUME NEW h, NEW t, NEW d \in Nat, HeapInv(h, t, d), fetched \in Nat, d <= fetched + 1, NEW n \in Ptrs(h),
           NEW g, g = tab_node_set_as_current(h, n),
           NEW i \in 1 .. Len(DocsAt(h, t)), <<t, i>> \in Chain(h, n)
    PROVE  ShownAt(g, t, d) = [ShownAt(h, t, d) EXCEPT ![i] = At(h, n).doc]
<1> DEFINE a == ShownAt(h, t, d)
           b == ShownAt(g, t, d)
           l == Len(DocsAt(h, t))
<1>1. HeapInv(g, t, d) /\ SameTree(h, g) BY SetFollow
<1>2. h \in [Block -> Seq(Node)] /\ g \in [Block -> Seq(Node)] /\ t \in Block \cup {Nil} BY <1>1 DEF HeapInv, Typed
<1>3. DocsAt(g, t) = DocsAt(h, t) BY <1>1, <1>2, SameTreeDocs
<1>4. /\ l \in Nat /\ a \in Seq(Nat) /\ Len(a) = l /\ DOMAIN a = 1 .. l
      /\ \A j \in 1 .. l : <<t, j>> \in Ptrs(h) /\ <<t, j>>[1] = t /\ a[j] = At(h, Down(h, <<t, j>>)[d]).doc
  BY ShownFacts
<1>5. /\ b \in Seq(Nat) /\ Len(b) = l /\ DOMAIN b = 1 .. l
      /\ \A j \in 1 .. l : b[j] = At(g, Down(g, <<t, j>>)[d]).doc
  BY <1>1, <1>3, ShownFacts
<1> HIDE DEF a, b
<1>6. ASSUME NEW j \in 1 .. l PROVE b[j] = IF j = i THEN At(h, n).doc ELSE a[j]
  <2> DEFINE r == <<t, j>>
             s == <<t, i>>
  <2>1. r \in Ptrs(h) /\ r[1] = t /\ s \in Chain(h, n) /\ s[1] = t BY <1>4
  <2>2. r = s <=> j = i OBVIOUS
  <2> HIDE DEF r, s
  <2>3. d + 1 >= d OBVIOUS
  <2>4. Down(g, r)[d] = IF r \in Chain(h, n) THEN n ELSE Down(h, r)[d] BY <2>1, <2>3, SetShows
  <2>5. r \in Chain(h, n) <=> r = s BY <2>1, OneRoot
  <2>6. Down(h, r)[d] \in Ptrs(h) BY <2>1, DownFacts
  <2>7. At(g, Down(g, r)[d]).doc = IF j = i THEN At(h, n).doc ELSE At(h, Down(h, r)[d]).doc
    BY <1>1, <2>2, <2>4, <2>5, <2>6 DEF SameTree
  <2> QED BY <1>4, <1>5, <2>7 DEF r
<1> HIDE DEF l
<1>7. \A j \in 1 .. l : b[j] = [a EXCEPT ![i] = At(h, n).doc][j] BY <1>4, <1>6
<1>8. DOMAIN [a EXCEPT ![i] = At(h, n).doc] = 1 .. l BY <1>4
<1>9. b = [j \in 1 .. l |-> b[j]] BY <1>5
<1>10. [a EXCEPT ![i] = At(h, n).doc] = [j \in 1 .. l |-> [a EXCEPT ![i] = At(h, n).doc][j]] BY <1>4
<1>11. b = [a EXCEPT ![i] = At(h, n).doc] BY <1>7, <1>9, <1>10
<1> QED BY <1>11 DEF a, b

-----------------------------------------------------------------------------
(* What each command does to the history.                                  *)
WithLeafOf(k, e) == [x \in DOMAIN k \cup {e} |-> IF x = e THEN <<>> ELSE k[x]]

(* A document opened from the current node is its last kid and is shown.   *)
LEMMA OpenedHistory ==
    ASSUME DInv, tabs # Nil, Fetch, NEW n \in Ptrs(heap), n = CurrentNode(heap), NEW h \in Appended(n),
           NEW i, i = current_tab + 1
    PROVE  /\ HeapInv(h, tabs, fetched + 1) /\ OnePerDoc(h, fetched + 1)
           /\ DocsAt(h, tabs) = DocsAt(heap, tabs)
           /\ At(heap, n).doc = ShownAt(heap, tabs, fetched)[i]
           /\ ShownAt(h, tabs, fetched + 1) = [ShownAt(heap, tabs, fetched) EXCEPT ![i] = fetched + 1]
           /\ KidsAt(h, fetched + 1) =
                 [WithLeafOf(KidsAt(heap, fetched), fetched + 1) EXCEPT ![At(heap, n).doc] = Append(@, fetched + 1)]
<1> DEFINE f == fetched + 1
           a == ShownAt(heap, tabs, fetched)
           b == ShownAt(h, tabs, f)
           l == Len(DocsAt(heap, tabs))
           old == At(heap, n).childs
<1>1. IInv /\ fetched \in Nat /\ HeapInv(heap, tabs, fetched) /\ OnePerDoc(heap, fetched)
  BY BoundAssumption DEF DInv, IInv
<1>2. PICK new \in Placement(heap, old) :
              /\ h \in [Block -> Seq(Node)]
              /\ HeapInv(h, tabs, f)
              /\ Grown(heap, n, old, new, fetched, h)
              /\ old = ArrayOf(heap, tabs, n)
  BY <1>1, AppendedFacts
<1>3. n # Nil /\ old # tabs /\ new # tabs /\ tabs \in Block
  <2>1. n # Nil BY <1>1, PtrType DEF HeapInv
  <2>2. tabs \in Block BY <1>1 DEF HeapInv, Typed
  <2> QED BY <1>1, <1>2, <2>1, <2>2, HolderAlone
<1>4. OnePerDoc(h, f) BY <1>1, <1>2, GrownDocs
<1>5. DocsAt(h, tabs) = DocsAt(heap, tabs) BY <1>1, <1>2, <1>3, GrownArrays
<1>6. /\ l \in Nat /\ a \in Seq(Nat) /\ Len(a) = l /\ DOMAIN a = 1 .. l
      /\ \A j \in 1 .. l : <<tabs, j>> \in Ptrs(heap) /\ <<tabs, j>>[1] = tabs
                           /\ a[j] = At(heap, Down(heap, <<tabs, j>>)[fetched]).doc
  BY <1>1, ShownFacts
<1>7. DOMAIN b = 1 .. l /\ \A j \in 1 .. l : b[j] = At(h, Down(h, <<tabs, j>>)[f]).doc
  <2>1. f \in Nat BY <1>1
  <2> HIDE DEF f
  <2> QED BY <1>2, <1>5, <2>1, ShownFacts
<1>8. i \in 1 .. l /\ RootPtr(current_tab) = <<tabs, i>>
  <2>1. current_tab \in Nat /\ current_tab < Len(heap[tabs]) BY <1>1 DEF IInv, TabIn
  <2>2. Len(heap[tabs]) = l /\ heap \in [Block -> Seq(Node)]
    <3>1. heap \in [Block -> Seq(Node)] BY <1>1 DEF HeapInv, Typed
    <3>2. l = Len(Items(heap, tabs)) BY <1>3, <3>1, DocsFacts
    <3> QED BY <3>1, <3>2 DEF Items
  <2> QED BY <1>6, <2>1, <2>2 DEF RootPtr
<1>9. At(heap, n).doc = a[i] BY <1>6, <1>8, CurrentIsDown DEF CurrentNode
<1> HIDE DEF a, b
<1>10. ASSUME NEW j \in 1 .. l PROVE b[j] = IF j = i THEN f ELSE a[j]
  <2> DEFINE s == <<tabs, j>>
  <2>1. s \in Ptrs(heap) /\ s[1] = tabs BY <1>6
  <2>2. s = RootPtr(current_tab) <=> j = i BY <1>8
  <2>3. a[j] = At(heap, Down(heap, s)[fetched]).doc /\ b[j] = At(h, Down(h, s)[f]).doc BY <1>6, <1>7
  <2> HIDE DEF s
  <2>4. f \in Nat /\ f >= fetched /\ f + 1 >= fetched /\ fetched + 1 >= fetched BY <1>1
  <2>5. f = fetched + 1 OBVIOUS
  <2> HIDE DEF f
  <2>6. At(h, Down(h, s)[f]).doc = IF s = RootPtr(current_tab) THEN f ELSE At(heap, Down(heap, s)[f]).doc
    BY <1>1, <2>1, <2>4, <2>5, OpenedShows
  <2>7. Down(heap, s)[f] = Down(heap, s)[fetched] BY <1>1, <2>1, <2>4, DownEnds
  <2> QED BY <2>2, <2>3, <2>6, <2>7
<1> HIDE DEF l, f
<1>11. b = [a EXCEPT ![i] = f]
  <2>1. b = [j \in 1 .. l |-> b[j]] BY <1>7 DEF b, ShownAt
  <2>2. [a EXCEPT ![i] = f] = [j \in 1 .. l |-> IF j = i THEN f ELSE a[j]] BY <1>6, <1>8
  <2> QED BY <1>10, <2>1, <2>2
<1>12. KidsAt(h, f) = [WithLeafOf(KidsAt(heap, fetched), f) EXCEPT ![At(heap, n).doc] = Append(@, f)]
  <2> DEFINE K == KidsAt(heap, fetched)
             G == KidsAt(h, f)
             e == At(heap, n).doc
             W == WithLeafOf(K, f)
             R == [W EXCEPT ![e] = Append(@, f)]
  <2>1. /\ DOMAIN K = 1 .. fetched /\ DOMAIN G = 1 .. f /\ G[f] = <<>>
        /\ \A x \in 1 .. fetched : G[x] = IF NodeAt(heap, x) = n THEN Append(K[x], f) ELSE K[x]
    BY <1>1, <1>2, GrownKids DEF f
  <2>2. NodeAt(heap, e) = n /\ \A x \in 1 .. fetched : NodeAt(heap, x) = n => x = e BY <1>1, NodeIs
  <2>3. e \in 1 .. fetched
    <3>1. e \in Nat /\ e >= 1 /\ e <= fetched
      <4>1. e \in 1 .. MaxDocs BY <1>1, PtrType DEF HeapInv, Node
      <4> QED BY <1>1, <4>1, BoundAssumption DEF HeapInv, Ordered
    <3> QED BY <1>1, <3>1
  <2>4. f \notin 1 .. fetched /\ 1 .. f = (1 .. fetched) \cup {f} BY <1>1 DEF f
  <2>5. G = [x \in 1 .. f |-> G[x]] BY <2>1 DEF KidsAt
  <2> HIDE DEF K, G, e
  <2>6. W = [x \in 1 .. f |-> IF x = f THEN <<>> ELSE K[x]] BY <2>1, <2>4 DEF WithLeafOf
  <2> HIDE DEF W
  <2>7. R = [x \in 1 .. f |-> IF x = e THEN Append(W[x], f) ELSE W[x]] BY <2>3, <2>4, <2>6
  <2>8. ASSUME NEW x \in 1 .. f PROVE G[x] = IF x = e THEN Append(W[x], f) ELSE W[x]
    <3>1. CASE x = f BY <2>1, <2>3, <2>4, <2>6, <3>1
    <3>2. CASE x # f
      <4>1. x \in 1 .. fetched BY <2>4, <3>2
      <4>2. W[x] = K[x] BY <2>6, <3>2
      <4>3. G[x] = IF NodeAt(heap, x) = n THEN Append(K[x], f) ELSE K[x] BY <2>1, <4>1
      <4> QED BY <2>2, <4>1, <4>2, <4>3
    <3> QED BY <3>1, <3>2
  <2>9. G = R BY <2>5, <2>7, <2>8
  <2> QED BY <2>9 DEF G, W, K, e
<1> QED BY <1>2, <1>4, <1>5, <1>9, <1>11, <1>12 DEF a, b, f

(* The same, when the session then goes back: what is shown stays.         *)
LEMMA RangedHistory ==
    ASSUME DInv, tabs # Nil, Fetch, NEW n \in Ptrs(heap), n = CurrentNode(heap), NEW h \in Appended(n),
           NEW c \in Ptrs(h), c = CurrentNode(h), NEW g, g = Back(h, c)
    PROVE  /\ DocsAt(g, tabs) = DocsAt(heap, tabs)
           /\ ShownAt(g, tabs, fetched + 1) = ShownAt(heap, tabs, fetched)
           /\ KidsAt(g, fetched + 1) = KidsAt(h, fetched + 1)
<1> DEFINE f == fetched + 1
           a == ShownAt(heap, tabs, fetched)
           b == ShownAt(g, tabs, f)
           l == Len(DocsAt(heap, tabs))
<1>1. IInv /\ fetched \in Nat /\ HeapInv(heap, tabs, fetched) BY BoundAssumption DEF DInv, IInv
<1>2. HeapInv(h, tabs, f) /\ OnePerDoc(h, f) /\ DocsAt(h, tabs) = DocsAt(heap, tabs) BY OpenedHistory
<1>3. SameTree(h, g) BY <1>2, BackTree
<1>4. HeapInv(g, tabs, f) BY <1>2, GoBack
<1>5. h \in [Block -> Seq(Node)] /\ g \in [Block -> Seq(Node)] /\ tabs \in Block \cup {Nil} BY <1>2, <1>4 DEF HeapInv, Typed
<1>6. DocsAt(g, tabs) = DocsAt(heap, tabs) BY <1>2, <1>3, <1>5, SameTreeDocs
<1>7. KidsAt(g, f) = KidsAt(h, f) BY <1>2, <1>3, <1>5, SameTreeKids
<1>8. /\ l \in Nat /\ DOMAIN a = 1 .. l
      /\ \A j \in 1 .. l : <<tabs, j>> \in Ptrs(heap) /\ <<tabs, j>>[1] = tabs
                           /\ a[j] = At(heap, Down(heap, <<tabs, j>>)[fetched]).doc
  BY <1>1, ShownFacts
<1>9. DOMAIN b = 1 .. l /\ \A j \in 1 .. l : b[j] = At(g, Down(g, <<tabs, j>>)[f]).doc
  <2>1. f \in Nat BY <1>1
  <2> HIDE DEF f
  <2> QED BY <1>4, <1>6, <2>1, ShownFacts
<1>10. a = [j \in 1 .. l |-> a[j]] /\ b = [j \in 1 .. l |-> b[j]] BY <1>8, <1>9 DEF ShownAt
<1> HIDE DEF a, b
<1>11. ASSUME NEW j \in 1 .. l PROVE b[j] = a[j]
  <2> DEFINE s == <<tabs, j>>
  <2>1. s \in Ptrs(heap) /\ s[1] = tabs BY <1>8
  <2>2. a[j] = At(heap, Down(heap, s)[fetched]).doc /\ b[j] = At(g, Down(g, s)[f]).doc BY <1>8, <1>9
  <2> HIDE DEF s
  <2>3. f \in Nat /\ f >= fetched /\ f + 1 >= fetched /\ fetched + 1 >= fetched BY <1>1
  <2> HIDE DEF f
  <2>4. At(g, Down(g, s)[f]).doc = At(heap, Down(heap, s)[f]).doc BY <1>1, <2>1, <2>3, RangedShows
  <2>5. Down(heap, s)[f] = Down(heap, s)[fetched] BY <1>1, <2>1, <2>3, DownEnds
  <2> QED BY <2>2, <2>4, <2>5
<1>12. b = a BY <1>10, <1>11
<1> QED BY <1>6, <1>7, <1>12 DEF a, b

(* A new tab.                                                              *)
LEMMA TabHistory ==
    ASSUME DInv, fetched < MaxDocs, NEW new \in Placement(heap, tabs),
           NEW g, g = arl_of_tab_node_append(heap, tabs, new, NewNode(fetched + 1, Nil))
    PROVE  /\ DocsAt(g, new) = Append(DocsAt(heap, tabs), fetched + 1)
           /\ ShownAt(g, new, fetched + 1) = Append(ShownAt(heap, tabs, fetched), fetched + 1)
           /\ KidsAt(g, fetched + 1) = WithLeafOf(KidsAt(heap, fetched), fetched + 1)
           /\ Len(DocsAt(g, new)) = Len(g[new])
<1> DEFINE f == fetched + 1
           K == KidsAt(heap, fetched)
           G == KidsAt(g, f)
           W == WithLeafOf(K, f)
<1>1. fetched \in Nat /\ HeapInv(heap, tabs, fetched) /\ OnePerDoc(heap, fetched) BY BoundAssumption DEF DInv, IInv
<1>2. HeapInv(g, new, f) /\ Grown(heap, Nil, tabs, new, fetched, g) BY <1>1, RootAppend
<1>3. tabs = ArrayOf(heap, tabs, Nil) /\ g \in [Block -> Seq(Node)] /\ new \in Block BY <1>2 DEF ArrayOf, HeapInv, Typed, Placement
<1>4. DocsAt(g, new) = Append(DocsAt(heap, tabs), f) BY <1>1, <1>2, <1>3, GrownArrays
<1>5. ShownAt(g, new, f) = Append(ShownAt(heap, tabs, fetched), f) BY <1>1, <1>2, <1>3, TabShown
<1>6. Len(DocsAt(g, new)) = Len(g[new])
  <2>1. Items(g, new) = g[new] BY <1>3, BlockAssumption DEF Items
  <2>2. new \in Block \cup {Nil} BY <1>3
  <2>3. Len(DocsAt(g, new)) = Len(Items(g, new)) BY <1>3, <2>2, DocsFacts
  <2> QED BY <2>1, <2>3
<1>7. /\ DOMAIN K = 1 .. fetched /\ DOMAIN G = 1 .. f /\ G[f] = <<>>
      /\ \A x \in 1 .. fetched : G[x] = IF NodeAt(heap, x) = Nil THEN Append(K[x], f) ELSE K[x]
  BY <1>1, <1>2, <1>3, GrownKids
<1>8. \A x \in 1 .. fetched : NodeAt(heap, x) # Nil
  <2>1. \A x \in 1 .. fetched : NodeAt(heap, x) \in Ptrs(heap) BY <1>1, NodeIs
  <2> QED BY <1>1, <2>1, PtrType DEF HeapInv
<1>9. f \notin 1 .. fetched /\ 1 .. f = (1 .. fetched) \cup {f} BY <1>1
<1>10. G = [x \in 1 .. f |-> G[x]] BY <1>7 DEF KidsAt
<1> HIDE DEF f, K, G
<1>11. W = [x \in 1 .. f |-> IF x = f THEN <<>> ELSE K[x]] BY <1>7, <1>9 DEF WithLeafOf
<1>12. ASSUME NEW x \in 1 .. f PROVE G[x] = IF x = f THEN <<>> ELSE K[x] BY <1>7, <1>8, <1>9
<1>13. G = W BY <1>10, <1>11, <1>12
<1> QED BY <1>4, <1>5, <1>6, <1>13 DEF f, G, K

(* Choosing node n below root i shows its document there.                  *)
LEMMA ChosenHistory ==
    ASSUME DInv, NEW n \in Ptrs(heap), NEW i \in 1 .. Len(DocsAt(heap, tabs)), <<tabs, i>> \in Chain(heap, n),
           NEW g, g = tab_node_set_as_current(heap, n)
    PROVE  /\ DocsAt(g, tabs) = DocsAt(heap, tabs)
           /\ KidsAt(g, fetched) = KidsAt(heap, fetched)
           /\ ShownAt(g, tabs, fetched) = [ShownAt(heap, tabs, fetched) EXCEPT ![i] = At(heap, n).doc]
<1>1. fetched \in Nat /\ HeapInv(heap, tabs, fetched) /\ OnePerDoc(heap, fetched) BY BoundAssumption DEF DInv, IInv
<1>2. HeapInv(g, tabs, fetched) /\ SameTree(heap, g) BY <1>1, SetCurrent
<1>3. heap \in [Block -> Seq(Node)] /\ g \in [Block -> Seq(Node)] /\ tabs \in Block \cup {Nil}
  BY <1>1, <1>2 DEF HeapInv, Typed
<1>4. DocsAt(g, tabs) = DocsAt(heap, tabs) BY <1>2, <1>3, SameTreeDocs
<1>5. KidsAt(g, fetched) = KidsAt(heap, fetched) BY <1>1, <1>2, <1>3, SameTreeKids
<1>6. fetched <= fetched + 1 BY <1>1
<1>7. ShownAt(g, tabs, fetched) = [ShownAt(heap, tabs, fetched) EXCEPT ![i] = At(heap, n).doc]
  BY <1>1, <1>6, SetShown
<1> QED BY <1>4, <1>5, <1>7

-----------------------------------------------------------------------------
(* The documents below a document, level by level.                         *)
KidsOf(k, S) == {d \in DOMAIN k : \E p \in S : \E i \in DOMAIN k[p] : k[p][i] = d}

LevelIs(k, d, f) == f = [j \in Nat |-> IF j = 0 THEN {d} ELSE f[j-1] \cup KidsOf(k, f[j-1])]

Level(k, d) == CHOOSE f : LevelIs(k, d, f)

(* The levels of TreeOf: the first is the root, each adds the kids.        *)
LEMMA LevelFacts ==
    ASSUME NEW k, NEW d
    PROVE  /\ Level(k, d)[0] = {d}
           /\ \A j \in Nat : Level(k, d)[j + 1] = Level(k, d)[j] \cup KidsOf(k, Level(k, d)[j])
<1> DEFINE D    == SUBSET (DOMAIN k \cup {d})
           T(S) == S \cup KidsOf(k, S)
           step == [S \in D |-> T(S)]
           first == {d}
<1>1. step \in [D -> D] BY DEF KidsOf
<1>2. first \in D OBVIOUS
<1>3. PICK f \in [Nat -> D] : f[0] = first /\ \A j \in Nat : f[j + 1] = step[f[j]]
  <2> HIDE DEF D, step, first
  <2>1. \E f \in [Nat -> D] : f[0] = first /\ \A j \in Nat : f[j + 1] = step[f[j]] BY <1>1, <1>2, Iterated, Z3
  <2> QED BY <2>1
<1>4. \E g : LevelIs(k, d, g)
  <2>1. ASSUME NEW j \in Nat PROVE f[j] = IF j = 0 THEN first ELSE T(f[j - 1])
    <3>1. CASE j = 0 BY <1>3, <3>1
    <3>2. CASE j # 0
      <4>1. PICK i \in Nat : j = i + 1 /\ j - 1 = i
        <5>1. j - 1 \in Nat /\ j = (j - 1) + 1 BY <3>2
        <5> QED BY <5>1
      <4>2. f[i + 1] = step[f[i]] /\ f[i] \in D BY <1>3
      <4> HIDE DEF T, D
      <4>3. step[f[i]] = T(f[i]) BY <4>2
      <4> HIDE DEF step
      <4> QED BY <3>2, <4>1, <4>2, <4>3
    <3> QED BY <3>1, <3>2
  <2>2. f = [j \in Nat |-> f[j]] BY <1>3
  <2>3. f = [j \in Nat |-> IF j = 0 THEN first ELSE T(f[j - 1])]
    <3> HIDE DEF T, first
    <3> QED BY <2>1, <2>2
  <2>4. LevelIs(k, d, f) BY <2>3 DEF LevelIs
  <2> QED BY <2>4
<1>5. LevelIs(k, d, Level(k, d)) BY <1>4 DEF Level
<1> DEFINE g == Level(k, d)
<1> HIDE DEF g
<1>6. g = [j \in Nat |-> IF j = 0 THEN first ELSE T(g[j - 1])] BY <1>5 DEF LevelIs, g
<1>7. g[0] = {d} BY <1>6
<1> HIDE DEF T, first
<1>8. ASSUME NEW j \in Nat PROVE g[j + 1] = T(g[j])
  <2>1. j + 1 \in Nat /\ j + 1 # 0 /\ (j + 1) - 1 = j OBVIOUS
  <2>2. g[j + 1] = T(g[(j + 1) - 1]) BY <1>6, <2>1
  <2> QED BY <2>1, <2>2
<1> QED BY <1>7, <1>8 DEF g, T

(* A child's document is among the children of its parent's document.      *)
LEMMA KidDoc ==
    ASSUME DInv, NEW p \in Ptrs(heap), NEW q \in Ptrs(heap), q[1] = At(heap, p).childs
    PROVE  /\ At(heap, p).doc \in DOMAIN KidsAt(heap, fetched)
           /\ At(heap, q).doc \in DOMAIN KidsAt(heap, fetched)
           /\ \E i \in DOMAIN KidsAt(heap, fetched)[At(heap, p).doc] :
                 KidsAt(heap, fetched)[At(heap, p).doc][i] = At(heap, q).doc
<1> DEFINE K == KidsAt(heap, fetched)
<1>1. fetched \in Nat /\ HeapInv(heap, tabs, fetched) /\ OnePerDoc(heap, fetched) BY BoundAssumption DEF DInv, IInv
<1>2. \A x \in Ptrs(heap) : At(heap, x).doc \in 1 .. fetched
  <2> SUFFICES ASSUME NEW x \in Ptrs(heap) PROVE At(heap, x).doc \in 1 .. fetched
    OBVIOUS
  <2>1. At(heap, x).doc \in 1 .. MaxDocs BY <1>1, PtrType DEF HeapInv, Node
  <2> QED BY <1>1, <2>1, BoundAssumption DEF HeapInv, Ordered
<1>3. NodeAt(heap, At(heap, p).doc) = p BY <1>1, NodeIs
<1>4. K[At(heap, p).doc] = DocsAt(heap, q[1]) BY <1>2, <1>3 DEF KidsAt
<1>5. q = <<q[1], q[2]>> /\ q[1] \in Block /\ q[1] # Nil /\ q[2] \in DOMAIN heap[q[1]] BY <1>1, PtrType, BlockAssumption DEF HeapInv
<1>6. heap \in [Block -> Seq(Node)] BY <1>1 DEF HeapInv, Typed
<1>7. q[2] \in DOMAIN Items(heap, q[1]) /\ Items(heap, q[1])[q[2]] = At(heap, q) BY <1>5 DEF Items, At
<1>8. q[2] \in DOMAIN DocsAt(heap, q[1]) /\ DocsAt(heap, q[1])[q[2]] = At(heap, q).doc BY <1>7 DEF DocsAt
<1>9. At(heap, p).doc \in DOMAIN K /\ At(heap, q).doc \in DOMAIN K BY <1>2 DEF KidsAt
<1> QED BY <1>4, <1>8, <1>9

(* The documents of the nodes below a root are below its document.         *)
LEMMA LevelHas ==
    ASSUME DInv, NEW root \in Ptrs(heap), NEW n \in Tree(heap, root)
    PROVE  At(heap, n).doc \in Level(KidsAt(heap, fetched), At(heap, root).doc)[fetched]
<1> DEFINE K == KidsAt(heap, fetched)
           b == Below(heap, root)
           v == Level(K, At(heap, root).doc)
           S == {j \in Nat : \A p \in b[j] : At(heap, p).doc \in v[j]}
<1>1. fetched \in Nat /\ HeapInv(heap, tabs, fetched) /\ OnePerDoc(heap, fetched) BY BoundAssumption DEF DInv, IInv
<1>2. b[0] = {root} /\ \A j \in Nat : b[j] \subseteq Ptrs(heap) /\ b[j + 1] = b[j] \cup Kids(heap, b[j]) BY BelowFacts
<1>3. v[0] = {At(heap, root).doc} /\ \A j \in Nat : v[j + 1] = v[j] \cup KidsOf(K, v[j]) BY LevelFacts
<1>4. n \in b[fetched] BY TreeIsBelow
<1>5. ASSUME NEW p \in Ptrs(heap), NEW q \in Ptrs(heap), q[1] = At(heap, p).childs
      PROVE  /\ At(heap, q).doc \in DOMAIN K
             /\ \E i \in DOMAIN K[At(heap, p).doc] : K[At(heap, p).doc][i] = At(heap, q).doc
  BY <1>5, KidDoc
<1> HIDE DEF K, b, v
<1>6. 0 \in S BY <1>2, <1>3
<1>7. ASSUME NEW j \in Nat, j \in S PROVE j + 1 \in S
  <2> SUFFICES ASSUME NEW q \in b[j + 1] PROVE At(heap, q).doc \in v[j + 1]
    OBVIOUS
  <2>1. CASE q \in b[j] BY <1>3, <1>7, <2>1
  <2>2. CASE q \in Kids(heap, b[j])
    <3>1. PICK p \in b[j] : q[1] = At(heap, p).childs BY <2>2 DEF Kids
    <3>2. p \in Ptrs(heap) /\ q \in Ptrs(heap) BY <1>2, <2>2 DEF Kids
    <3>3. At(heap, p).doc \in v[j] BY <1>7
    <3>4. At(heap, q).doc \in KidsOf(K, v[j]) BY <1>5, <3>1, <3>2, <3>3 DEF KidsOf
    <3> QED BY <1>3, <3>4
  <2> QED BY <1>2, <2>1, <2>2
<1>8. fetched \in S
  <2> HIDE DEF S
  <2> QED BY <1>1, <1>6, <1>7, NatSets
<1> QED BY <1>4, <1>8 DEF v, K

-----------------------------------------------------------------------------
(* The variables of History, as TabTree maps them.                         *)
HRoots == Docs(tabs)
HKids  == [d \in 1 .. fetched |-> Docs(At(heap, NodeOf(d)).childs)]
HShown == [i \in DOMAIN Docs(tabs) |-> At(heap, tab_node_current_node(heap, <<tabs, i>>)).doc]
HTab   == IF tabs = Nil THEN 0 ELSE current_tab + 1

(* The mapping, in the terms of the lemmas above ...                       *)
LEMMA Mapped ==
    /\ HRoots = DocsAt(heap, tabs)
    /\ HKids = KidsAt(heap, fetched)
    /\ HShown = ShownAt(heap, tabs, fetched)
<1>1. HRoots = DocsAt(heap, tabs) BY DEF HRoots, Docs, DocsAt
<1>2. HKids = KidsAt(heap, fetched) BY DEF HKids, KidsAt, Docs, DocsAt, NodeOf, NodeAt
<1>3. HShown = [i \in DOMAIN Docs(tabs) |-> At(heap, Down(heap, <<tabs, i>>)[fetched]).doc] BY CurrentIsDown DEF HShown
<1>4. HShown = ShownAt(heap, tabs, fetched) BY <1>3 DEF ShownAt, Docs, DocsAt
<1> QED BY <1>1, <1>2, <1>4

(* ... and in the next state.                                              *)
LEMMA MappedNext ==
    /\ HRoots' = DocsAt(heap', tabs')
    /\ HKids' = KidsAt(heap', fetched')
    /\ HShown' = ShownAt(heap', tabs', fetched')
<1>1. HRoots' = DocsAt(heap', tabs') BY DEF HRoots, Docs, DocsAt
<1>2. HKids' = KidsAt(heap', fetched') BY DEF HKids, KidsAt, Docs, DocsAt, NodeOf, NodeAt
<1>3. HShown' = [i \in DOMAIN Docs(tabs)' |-> At(heap', Down(heap', <<tabs', i>>)[fetched']).doc]
  BY CurrentIsDownNext DEF HShown
<1>4. HShown' = ShownAt(heap', tabs', fetched') BY <1>3 DEF ShownAt, Docs, DocsAt
<1> QED BY <1>1, <1>2, <1>4

(* The cardinality that History counts levels by is the usual one.         *)
LEMMA SameCard == \A S : H!Cardinality(S) = Cardinality(S)
BY DEF H!Cardinality, Cardinality

(* The documents of a tree of History are a level.                         *)
LEMMA TreeIsLevel == \A i : H!TreeOf(i) = Level(HKids, HRoots[i])[H!Cardinality(DOMAIN HKids)]
BY DEF H!TreeOf, H!Opened, Level, LevelIs, KidsOf, HKids, HRoots

(* Once there is a node there is a tab.                                    *)
LEMMA NodeMeansTab ==
    ASSUME IInv, NEW n \in Ptrs(heap)
    PROVE  tabs # Nil
<1>1. fetched \in Nat /\ HeapInv(heap, tabs, fetched) BY BoundAssumption DEF IInv
<1>2. fetched <= fetched + 1 BY <1>1
<1>3. PICK r \in Ptrs(heap) : r[1] = tabs BY <1>1, <1>2, TreesCover
<1> QED BY <1>1, <1>3, PtrType, BlockAssumption DEF HeapInv

(* The current tab is a tab of the history.                                *)
LEMMA TabMapped ==
    ASSUME IInv, tabs # Nil
    PROVE  /\ HTab = current_tab + 1 /\ HTab # 0
           /\ HTab \in DOMAIN HShown /\ HTab \in 1 .. Len(DocsAt(heap, tabs))
           /\ RootPtr(current_tab) = <<tabs, HTab>>
           /\ CurrentNode(heap) = Down(heap, <<tabs, HTab>>)[fetched]
           /\ HShown[HTab] = At(heap, CurrentNode(heap)).doc
<1>1. fetched \in Nat /\ HeapInv(heap, tabs, fetched) BY BoundAssumption DEF IInv
<1>2. current_tab \in Nat /\ current_tab < Len(heap[tabs]) BY DEF IInv, TabIn
<1>3. Len(heap[tabs]) = Len(DocsAt(heap, tabs))
  <2>1. heap \in [Block -> Seq(Node)] /\ tabs \in Block \cup {Nil} BY <1>1 DEF HeapInv, Typed
  <2>2. Len(DocsAt(heap, tabs)) = Len(Items(heap, tabs)) BY <2>1, DocsFacts
  <2> QED BY <2>2 DEF Items
<1>4. /\ Len(DocsAt(heap, tabs)) \in Nat
      /\ DOMAIN ShownAt(heap, tabs, fetched) = 1 .. Len(DocsAt(heap, tabs))
      /\ \A i \in 1 .. Len(DocsAt(heap, tabs)) :
            ShownAt(heap, tabs, fetched)[i] = At(heap, Down(heap, <<tabs, i>>)[fetched]).doc
  BY <1>1, ShownFacts
<1>5. HTab = current_tab + 1 BY DEF HTab
<1>6. HTab \in 1 .. Len(DocsAt(heap, tabs)) /\ HTab # 0 BY <1>2, <1>3, <1>4, <1>5
<1>7. RootPtr(current_tab) = <<tabs, HTab>> BY <1>5 DEF RootPtr
<1>8. CurrentNode(heap) = Down(heap, <<tabs, HTab>>)[fetched] BY <1>7, CurrentIsDown DEF CurrentNode
<1> QED BY <1>4, <1>5, <1>6, <1>7, <1>8, Mapped

(* Opening a url: a tab of its own.                                        *)
LEMMA OpenUrlStep ==
    ASSUME DInv, OpenUrl
    PROVE  fetched' \in 1 .. MaxDocs /\ H!OpenTab(fetched')
<1>1. IInv /\ fetched \in Nat /\ fetched < MaxDocs /\ fetched' = fetched + 1 /\ fetched' \in 1 .. MaxDocs
  BY BoundAssumption DEF DInv, IInv, OpenUrl, Fetch
<1>2. PICK new \in Placement(heap, tabs) :
          /\ heap' = arl_of_tab_node_append(heap, tabs, new, NewNode(fetched + 1, Nil))
          /\ tabs' = new
          /\ current_tab' = Len(heap'[new]) - 1
  BY DEF OpenUrl
<1>3. /\ DocsAt(heap', new) = Append(DocsAt(heap, tabs), fetched + 1)
      /\ ShownAt(heap', new, fetched + 1) = Append(ShownAt(heap, tabs, fetched), fetched + 1)
      /\ KidsAt(heap', fetched + 1) = WithLeafOf(KidsAt(heap, fetched), fetched + 1)
      /\ Len(DocsAt(heap', new)) = Len(heap'[new])
  BY <1>1, <1>2, TabHistory
<1>4. HRoots' = Append(HRoots, fetched') /\ HShown' = Append(HShown, fetched') /\ HKids' = WithLeafOf(HKids, fetched')
  BY <1>1, <1>2, <1>3, Mapped, MappedNext
<1>5. HTab' = Len(HRoots')
  <2>1. new # Nil BY BlockAssumption DEF Placement
  <2>2. Len(heap'[new]) \in Nat
    <3>1. IInv' BY NextInv DEF Next, DInv
    <3>2. heap' \in [Block -> Seq(Node)] BY <3>1 DEF IInv, HeapInv, Typed
    <3>3. heap'[new] \in Seq(Node) BY <3>2 DEF Placement
    <3> QED BY <3>3, LenProperties
  <2>3. Len(HRoots') = Len(heap'[new]) BY <1>2, <1>3, MappedNext
  <2> QED BY <1>2, <2>1, <2>2, <2>3 DEF HTab
<1>6. fetched' \notin DOMAIN HKids BY <1>1 DEF HKids
<1>7. H!OpenTab(fetched')
  BY <1>4, <1>5, <1>6 DEF H!OpenTab, H!Opened, H!WithLeaf, WithLeafOf, HRoots, HKids, HShown, HTab
<1> QED BY <1>1, <1>7

(* Following a link, or a form: a kid of what was shown.                   *)
LEMMA OpenStep ==
    ASSUME DInv, Fetch, UNCHANGED <<tabs, current_tab>>,
           NEW n \in Ptrs(heap), n = CurrentNode(heap), heap' \in Appended(n)
    PROVE  fetched' \in 1 .. MaxDocs /\ H!OpenChild(fetched', FALSE)
<1>1. IInv /\ fetched \in Nat /\ fetched' = fetched + 1 /\ fetched' \in 1 .. MaxDocs
  BY BoundAssumption DEF DInv, IInv, Fetch
<1>2. tabs # Nil BY <1>1, NodeMeansTab
<1>3. HTab = current_tab + 1 /\ HTab # 0 /\ HShown[HTab] = At(heap, n).doc BY <1>1, <1>2, TabMapped
<1>4. /\ DocsAt(heap', tabs) = DocsAt(heap, tabs)
      /\ ShownAt(heap', tabs, fetched + 1) = [ShownAt(heap, tabs, fetched) EXCEPT ![HTab] = fetched + 1]
      /\ KidsAt(heap', fetched + 1) =
            [WithLeafOf(KidsAt(heap, fetched), fetched + 1) EXCEPT ![At(heap, n).doc] = Append(@, fetched + 1)]
  BY <1>2, <1>3, OpenedHistory
<1>5. /\ HRoots' = HRoots /\ HShown' = [HShown EXCEPT ![HTab] = fetched']
      /\ HKids' = [WithLeafOf(HKids, fetched') EXCEPT ![HShown[HTab]] = Append(@, fetched')]
  BY <1>1, <1>3, <1>4, Mapped, MappedNext
<1>6. HTab' = HTab BY DEF HTab
<1>7. fetched' \notin DOMAIN HKids BY <1>1 DEF HKids
<1>8. H!OpenChild(fetched', FALSE)
  BY <1>3, <1>5, <1>6, <1>7 DEF H!OpenChild, H!Opened, H!WithLeaf, WithLeafOf, HRoots, HKids, HShown, HTab
<1> QED BY <1>1, <1>8

(* A link of a range: a kid, while the old document is shown.              *)
LEMMA RangeStep ==
    ASSUME DInv, FollowRangeLink
    PROVE  fetched' \in 1 .. MaxDocs /\ H!OpenChild(fetched', TRUE)
<1>1. /\ IInv /\ fetched \in Nat /\ fetched' = fetched + 1 /\ fetched' \in 1 .. MaxDocs
      /\ Fetch /\ UNCHANGED <<tabs, current_tab>>
  BY BoundAssumption DEF DInv, IInv, Fetch, FollowRangeLink
<1>2. PICK n \in Ptrs(heap) :
          /\ n = CurrentNode(heap)
          /\ \E h \in Appended(n) : \E c \in Ptrs(h) : c = CurrentNode(h) /\ heap' = Back(h, c)
  BY DEF FollowRangeLink
<1>3. PICK h \in Appended(n) : \E c \in Ptrs(h) : c = CurrentNode(h) /\ heap' = Back(h, c) BY <1>2
<1>4. PICK c \in Ptrs(h) : c = CurrentNode(h) /\ heap' = Back(h, c) BY <1>3
<1>5. tabs # Nil BY <1>1, NodeMeansTab
<1>6. HTab = current_tab + 1 /\ HTab # 0 /\ HShown[HTab] = At(heap, n).doc BY <1>1, <1>2, <1>5, TabMapped
<1>7. KidsAt(h, fetched + 1) =
            [WithLeafOf(KidsAt(heap, fetched), fetched + 1) EXCEPT ![At(heap, n).doc] = Append(@, fetched + 1)]
  BY <1>1, <1>2, <1>5, <1>6, OpenedHistory
<1>8. /\ DocsAt(heap', tabs) = DocsAt(heap, tabs)
      /\ ShownAt(heap', tabs, fetched + 1) = ShownAt(heap, tabs, fetched)
      /\ KidsAt(heap', fetched + 1) = KidsAt(h, fetched + 1)
  BY <1>1, <1>2, <1>4, <1>5, RangedHistory
<1>9. /\ HRoots' = HRoots /\ HShown' = HShown
      /\ HKids' = [WithLeafOf(HKids, fetched') EXCEPT ![HShown[HTab]] = Append(@, fetched')]
  BY <1>1, <1>6, <1>7, <1>8, Mapped, MappedNext
<1>10. HTab' = HTab BY <1>1 DEF HTab
<1>11. fetched' \notin DOMAIN HKids BY <1>1 DEF HKids
<1>12. H!OpenChild(fetched', TRUE)
  BY <1>6, <1>9, <1>10, <1>11 DEF H!OpenChild, H!Opened, H!WithLeaf, WithLeafOf, HRoots, HKids, HShown, HTab
<1> QED BY <1>1, <1>12

(* Going back: the document the shown one was opened from.                 *)
LEMMA BackStep ==
    ASSUME DInv, tablist_back
    PROVE  IF CurrentNode(heap)[1] = tabs THEN UNCHANGED H!vars ELSE H!Back
<1>1. IInv /\ fetched \in Nat /\ HeapInv(heap, tabs, fetched) /\ UNCHANGED <<tabs, current_tab, fetched>>
  BY BoundAssumption DEF DInv, IInv, tablist_back
<1>2. PICK n \in Ptrs(heap) : n = CurrentNode(heap) /\ heap' = Back(heap, n) BY DEF tablist_back
<1>3. tabs # Nil BY <1>1, NodeMeansTab
<1>4. /\ HTab # 0 /\ HTab \in 1 .. Len(DocsAt(heap, tabs))
      /\ n = Down(heap, <<tabs, HTab>>)[fetched] /\ HShown[HTab] = At(heap, n).doc
  BY <1>1, <1>2, <1>3, TabMapped
<1>5. HTab' = HTab BY <1>1 DEF HTab
<1>6. CASE n[1] = tabs
  <2>1. heap' = heap BY <1>1, <1>2, <1>6, OwnerOf DEF Back
  <2>2. HRoots' = HRoots /\ HKids' = HKids /\ HShown' = HShown BY <1>1, <2>1, Mapped, MappedNext
  <2>3. UNCHANGED H!vars BY <1>5, <2>2 DEF H!vars, HRoots, HKids, HShown, HTab
  <2> QED BY <1>2, <1>6, <2>3
<1>7. CASE n[1] # tabs
  <2> DEFINE p == At(heap, n).parent
             root == <<tabs, HTab>>
  <2>1. p \in Ptrs(heap) /\ At(heap, p).childs = n[1] BY <1>1, <1>7, OwnerOf
  <2>2. p # Nil BY <1>1, <2>1, PtrType DEF HeapInv
  <2>3. root \in Ptrs(heap) /\ root[1] = tabs BY <1>1, <1>4, ShownFacts
  <2>4. root \in Chain(heap, p)
    <3>1. fetched <= fetched + 1 BY <1>1
    <3>2. n = Down(heap, root)[fetched] BY <1>4
    <3> HIDE DEF root, p
    <3>3. p = At(heap, Down(heap, root)[fetched]).parent BY <3>2 DEF p
    <3> QED BY <1>1, <2>2, <2>3, <3>1, <3>3, RootOfParent
  <2>5. heap' = tab_node_set_as_current(heap, p) BY <1>2, <2>2 DEF Back
  <2> HIDE DEF p
  <2>6. /\ DocsAt(heap', tabs) = DocsAt(heap, tabs)
        /\ KidsAt(heap', fetched) = KidsAt(heap, fetched)
        /\ ShownAt(heap', tabs, fetched) = [ShownAt(heap, tabs, fetched) EXCEPT ![HTab] = At(heap, p).doc]
    BY <1>4, <2>1, <2>4, <2>5, ChosenHistory
  <2>7. HRoots' = HRoots /\ HKids' = HKids /\ HShown' = [HShown EXCEPT ![HTab] = At(heap, p).doc]
    BY <1>1, <2>6, Mapped, MappedNext
  <2>8. /\ At(heap, p).doc \in DOMAIN HKids
        /\ \E i \in DOMAIN HKids[At(heap, p).doc] : HKids[At(heap, p).doc][i] = HShown[HTab]
    BY <1>4, <2>1, KidDoc, Mapped
  <2>9. H!Back BY <1>4, <1>5, <2>7, <2>8 DEF H!Back, H!Opened, HRoots, HKids, HShown, HTab
  <2> QED BY <1>2, <1>7, <2>9
<1> QED BY <1>6, <1>7

(* Selecting a tab changes nothing else.                                   *)
LEMMA SelectStep ==
    ASSUME DInv, NEW t \in Tabs, SelectTab(t)
    PROVE  t + 1 \in DOMAIN HRoots /\ H!SelectTab(t + 1)
<1>1. IInv /\ UNCHANGED <<heap, tabs, fetched>> /\ current_tab' = t BY DEF DInv, SelectTab
<1>2. tabs # Nil BY EmptySeq DEF Tabs, Items
<1>3. HRoots' = HRoots /\ HKids' = HKids /\ HShown' = HShown BY <1>1, Mapped, MappedNext
<1>4. HTab' = t + 1 BY <1>1, <1>2 DEF HTab
<1>5. t + 1 \in DOMAIN HRoots
  <2>1. heap \in [Block -> Seq(Node)] /\ tabs \in Block \cup {Nil} BY <1>1 DEF IInv, HeapInv, Typed
  <2>2. Items(heap, tabs) \in Seq(Node) BY <2>1, DocsFacts
  <2>3. PICK i \in DOMAIN Items(heap, tabs) : t = i - 1 BY DEF Tabs
  <2>4. i \in Nat BY <2>2, <2>3
  <2>5. t + 1 = i BY <2>3, <2>4
  <2> QED BY <2>3, <2>5 DEF HRoots, Docs
<1>6. H!SelectTab(t + 1) BY <1>3, <1>4, <1>5 DEF H!SelectTab, HRoots, HKids, HShown, HTab
<1> QED BY <1>5, <1>6

(* Moving to a node: its document, in its own tab.                         *)
LEMMA MoveStep ==
    ASSUME DInv, NEW t \in Tabs, NEW n \in Ptrs(heap), MoveTo(t, n)
    PROVE  t + 1 \in DOMAIN HRoots /\ At(heap, n).doc \in DOMAIN HKids /\ H!Visit(t + 1, At(heap, n).doc)
<1> DEFINE i == t + 1
           root == <<tabs, i>>
           e == At(heap, n).doc
<1>1. /\ IInv /\ fetched \in Nat /\ HeapInv(heap, tabs, fetched) /\ UNCHANGED <<tabs, fetched>>
      /\ n \in Tree(heap, RootPtr(t)) /\ heap' = tab_node_set_as_current(heap, n) /\ current_tab' = t
  BY BoundAssumption DEF DInv, IInv, MoveTo
<1>2. tabs # Nil BY <1>1, NodeMeansTab
<1>3. i \in DOMAIN HRoots
  <2>1. heap \in [Block -> Seq(Node)] /\ tabs \in Block \cup {Nil} BY <1>1 DEF IInv, HeapInv, Typed
  <2>2. Items(heap, tabs) \in Seq(Node) BY <2>1, DocsFacts
  <2>3. PICK j \in DOMAIN Items(heap, tabs) : t = j - 1 BY DEF Tabs
  <2>4. j \in Nat BY <2>2, <2>3
  <2>5. t + 1 = j BY <2>3, <2>4
  <2> QED BY <2>3, <2>5 DEF HRoots, Docs
<1>4. /\ i \in 1 .. Len(DocsAt(heap, tabs)) /\ root \in Ptrs(heap)
      /\ HRoots[i] = At(heap, root).doc
  <2>1. heap \in [Block -> Seq(Node)] /\ tabs \in Block \cup {Nil} BY <1>1 DEF HeapInv, Typed
  <2>2. HRoots = DocsAt(heap, tabs) BY Mapped
  <2>3. i \in 1 .. Len(DocsAt(heap, tabs)) BY <1>1, <1>3, <2>2, ShownFacts
  <2>4. Len(DocsAt(heap, tabs)) = Len(Items(heap, tabs)) /\ \A j \in 1 .. Len(Items(heap, tabs)) :
           DocsAt(heap, tabs)[j] = At(heap, <<tabs, j>>).doc /\ <<tabs, j>> \in Ptrs(heap)
    BY <2>1, DocsFacts
  <2> HIDE DEF i
  <2> QED BY <2>2, <2>3, <2>4
<1>5. n \in Tree(heap, root) BY <1>1 DEF RootPtr
<1> HIDE DEF root
<1>6. root \in Chain(heap, n)
  <2> DEFINE C == Chain(heap, n)
  <2>1. fetched <= fetched + 1 BY <1>1
  <2>2. n \in C /\ UpClosed(heap, C) BY <1>1, <2>1, ChainFacts
  <2> HIDE DEF C
  <2>3. root \in C BY <1>1, <1>4, <1>5, <2>2, TreeUp
  <2> QED BY <2>3 DEF C
<1>7. /\ DocsAt(heap', tabs) = DocsAt(heap, tabs)
      /\ KidsAt(heap', fetched) = KidsAt(heap, fetched)
      /\ ShownAt(heap', tabs, fetched) = [ShownAt(heap, tabs, fetched) EXCEPT ![i] = e]
  <2>1. <<tabs, i>> \in Chain(heap, n) BY <1>6 DEF root
  <2> HIDE DEF i
  <2> QED BY <1>1, <1>4, <2>1, ChosenHistory
<1>8. HRoots' = HRoots /\ HKids' = HKids /\ HShown' = [HShown EXCEPT ![i] = e] BY <1>1, <1>7, Mapped, MappedNext
<1>9. HTab' = i BY <1>1, <1>2 DEF HTab
<1>10. DOMAIN HKids = 1 .. fetched BY DEF HKids
<1>11. e \in H!TreeOf(i)
  <2>1. e \in Level(HKids, HRoots[i])[fetched] BY <1>4, <1>5, LevelHas, Mapped
  <2>2. Cardinality(1 .. fetched) = fetched BY <1>1, FS_Interval
  <2>3. H!Cardinality(DOMAIN HKids) = fetched BY <1>10, <2>2, SameCard
  <2> QED BY <2>1, <2>3, TreeIsLevel
<1>12. e \in DOMAIN HKids
  <2>1. e \in Nat /\ e >= 1 /\ e <= fetched
    <3>1. e \in 1 .. MaxDocs BY <1>1, PtrType DEF HeapInv, Node
    <3> QED BY <1>1, <3>1, BoundAssumption DEF HeapInv, Ordered
  <2> QED BY <1>1, <1>10, <2>1
<1> HIDE DEF i, e
<1>13. H!Visit(i, e) BY <1>3, <1>8, <1>9, <1>11 DEF H!Visit, HRoots, HKids, HShown, HTab
<1> QED BY <1>3, <1>12, <1>13 DEF i, e

(* Steps that leave the heap leave the history.                            *)
LEMMA StayStep ==
    ASSUME UNCHANGED <<heap, tabs, current_tab, fetched>>
    PROVE  UNCHANGED H!vars
<1>1. HRoots' = HRoots /\ HKids' = HKids /\ HShown' = HShown BY Mapped, MappedNext
<1>2. HTab' = HTab BY DEF HTab
<1> QED BY <1>1, <1>2 DEF H!vars, HRoots, HKids, HShown, HTab
-----------------------------------------------------------------------------
(* With no tab there is no history.                                        *)
LEMMA InitHistory == Init => H!Init
<1> SUFFICES ASSUME Init PROVE H!Init
  OBVIOUS
<1>1. tabs = Nil /\ fetched = 0 BY DEF Init
<1>2. HRoots = <<>> BY <1>1, EmptySeq DEF HRoots, Docs, Items
<1>3. HKids = <<>>
  <2>1. 1 .. fetched = {} BY <1>1
  <2> QED BY <2>1 DEF HKids
<1>4. HShown = <<>>
  <2>1. DOMAIN Docs(tabs) = {} BY <1>2 DEF HRoots
  <2> QED BY <2>1 DEF HShown
<1>5. HTab = 0 BY <1>1 DEF HTab
<1> QED BY <1>2, <1>3, <1>4, <1>5 DEF H!Init, HRoots, HKids, HShown, HTab

(* What each command does to the history.                                  *)
Promises ==
    /\ OpenUrl => H!OpenTab(fetched')
    /\ FollowLink => H!OpenChild(fetched', FALSE)
    /\ SubmitRangeInput => H!OpenChild(fetched', FALSE)
    /\ FollowRangeLink => H!OpenChild(fetched', TRUE)
    /\ tablist_back => IF CurrentNode(heap)[1] = tabs THEN UNCHANGED H!vars ELSE H!Back
    /\ \A t \in Tabs : SelectTab(t) => H!SelectTab(t + 1)
    /\ \A t \in Tabs, n \in Ptrs(heap) : MoveTo(t, n) => H!Visit(t + 1, At(heap, n).doc)

(* A link and the submission of a range's input open a document alike.     *)
LEMMA LinkStep ==
    ASSUME DInv, FollowLink \/ SubmitRangeInput
    PROVE  fetched' \in 1 .. MaxDocs /\ H!OpenChild(fetched', FALSE)
<1>1. Fetch /\ UNCHANGED <<tabs, current_tab>> BY DEF FollowLink, SubmitRangeInput
<1>2. PICK n \in Ptrs(heap) : n = CurrentNode(heap) /\ heap' \in Appended(n) BY DEF FollowLink, SubmitRangeInput
<1> QED BY <1>1, <1>2, OpenStep

(* Each command keeps its promise.                                         *)
LEMMA PromisesNext == DInv => Promises
<1> SUFFICES ASSUME DInv PROVE Promises
  OBVIOUS
<1>1. OpenUrl => H!OpenTab(fetched') BY OpenUrlStep
<1>2. (FollowLink \/ SubmitRangeInput) => H!OpenChild(fetched', FALSE) BY LinkStep
<1>3. FollowRangeLink => H!OpenChild(fetched', TRUE) BY RangeStep
<1>4. tablist_back => IF CurrentNode(heap)[1] = tabs THEN UNCHANGED H!vars ELSE H!Back BY BackStep
<1>5. \A t \in Tabs : SelectTab(t) => H!SelectTab(t + 1) BY SelectStep
<1>6. \A t \in Tabs, n \in Ptrs(heap) : MoveTo(t, n) => H!Visit(t + 1, At(heap, n).doc) BY MoveStep
<1> QED BY <1>1, <1>2, <1>3, <1>4, <1>5, <1>6 DEF Promises

(* Every step is a command of the history or changes nothing of it.        *)
LEMMA HistoryNext == DInv /\ [Next]_vars => [H!Next]_(H!vars)
<1> SUFFICES ASSUME DInv, [Next]_vars PROVE H!Next \/ UNCHANGED H!vars
  OBVIOUS
<1>1. CASE OpenUrl BY <1>1, OpenUrlStep DEF H!Next
<1>2. CASE FollowLink \/ SubmitRangeInput
  <2>1. fetched' \in 1 .. MaxDocs /\ H!OpenChild(fetched', FALSE) BY <1>2, LinkStep
  <2> QED BY <2>1 DEF H!Next
<1>3. CASE FollowRangeLink
  <2>1. fetched' \in 1 .. MaxDocs /\ H!OpenChild(fetched', TRUE) BY <1>3, RangeStep
  <2> QED BY <2>1 DEF H!Next
<1>4. CASE tablist_back BY <1>4, BackStep DEF H!Next
<1>5. ASSUME NEW t \in Tabs, SelectTab(t) PROVE H!Next
  <2>1. t + 1 \in DOMAIN HRoots /\ H!SelectTab(t + 1) BY <1>5, SelectStep
  <2> QED BY <2>1 DEF H!Next, HRoots
<1>6. ASSUME NEW t \in Tabs, NEW n \in Ptrs(heap), MoveTo(t, n) PROVE H!Next
  <2>1. t + 1 \in DOMAIN HRoots /\ At(heap, n).doc \in DOMAIN HKids /\ H!Visit(t + 1, At(heap, n).doc)
    BY <1>6, MoveStep
  <2> QED BY <2>1 DEF H!Next, H!Opened, HRoots, HKids
<1>7. CASE \/ \E kind \in {"links", "inputs"}, count \in 1 .. MaxRange : StartRange(kind, count)
           \/ RangeElementFails \/ RangeStops \/ UNCHANGED vars
  <2>1. UNCHANGED <<heap, tabs, current_tab, fetched>> BY <1>7 DEF StartRange, RangeElementFails, RangeStops, vars
  <2> QED BY <2>1, StayStep
<1> QED BY <1>1, <1>2, <1>3, <1>4, <1>5, <1>6, <1>7 DEF Next

(* The trees of TabNode structures, wherever their arrays are moved to,    *)
(* are the history that History describes: each step of the session does   *)
(* to it what one of its commands does, or nothing (tabs.c:36-211).        *)
THEOREM HistoryImplemented == Spec => ImplementsHistory
BY InitHistory, HistoryNext, DInvariance, PTL DEF Spec, ImplementsHistory, H!Spec

(* And each command of the program does what the guide says of that one:   *)
(* a link shows its document, or the old one when it is one of a range;    *)
(* going back shows the document it came from and does nothing at a root;  *)
(* a chosen document is shown in its own tab (tabs.c:89-211).              *)
THEOREM PromisesKept == Spec => CommandsKeepPromises
<1>1. DInv /\ [Next]_vars => [Promises]_vars BY PromisesNext
<1>2. Spec => [][Promises]_vars BY <1>1, DInvariance, PTL DEF Spec
<1> QED BY <1>2, HistoryImplemented DEF CommandsKeepPromises, Promises
=============================================================================
