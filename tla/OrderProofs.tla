---------------------------- MODULE OrderProofs ----------------------------
(***************************************************************************)
(* Lemmas about finite sets of naturals that other proofs rest on: ranks,  *)
(* least and greatest elements, and induction on a set, in place of the    *)
(* theorems of the library that take an operator.                          *)
(***************************************************************************)
EXTENDS FiniteSetsExt, FiniteSetTheorems, TLAPS

UpTo(i, I) == {j \in I : j <= i}

(* The place of an element among those in I before it or at it.            *)
LEMMA RankOnto ==
    ASSUME NEW n \in Nat, NEW I \in SUBSET (1..n)
    PROVE  /\ Cardinality(I) \in Nat
           /\ \A k \in 1..Cardinality(I) : \E i \in I : Cardinality(UpTo(i, I)) = k
           /\ \A i \in I : Cardinality(UpTo(i, I)) \in 1..Cardinality(I)
<1>1. IsFiniteSet(I) /\ Cardinality(I) \in Nat
  <2>1. IsFiniteSet(1..n) BY FS_Interval
  <2>2. IsFiniteSet(I) BY <2>1, FS_Subset
  <2> QED BY <2>2, FS_CardinalityType
<1> DEFINE f == [i \in I |-> Cardinality(UpTo(i, I))]
           m == Cardinality(I)
<1>2. \A i \in I : UpTo(i, I) \in SUBSET I /\ i \in UpTo(i, I) BY DEF UpTo
<1>3. \A i \in I : IsFiniteSet(UpTo(i, I)) /\ Cardinality(UpTo(i, I)) \in Nat /\ Cardinality(UpTo(i, I)) <= m
  BY <1>1, <1>2, FS_Subset, FS_CardinalityType
<1>4. \A i \in I : Cardinality(UpTo(i, I)) # 0 BY <1>2, <1>3, FS_EmptySet
<1>5. \A i, j \in I : i < j => Cardinality(UpTo(i, I)) # Cardinality(UpTo(j, I))
  <2> SUFFICES ASSUME NEW i \in I, NEW j \in I, i < j, Cardinality(UpTo(i, I)) = Cardinality(UpTo(j, I)) PROVE FALSE
    OBVIOUS
  <2>1. UpTo(i, I) \in SUBSET UpTo(j, I)
    <3>1. i \in Nat /\ j \in Nat OBVIOUS
    <3>2. ASSUME NEW k \in I, k <= i PROVE k <= j
      <4>1. k \in Nat OBVIOUS
      <4> QED BY <3>1, <3>2, <4>1
    <3> QED BY <3>2 DEF UpTo
  <2>2. UpTo(j, I) = UpTo(i, I) BY <1>3, <2>1, FS_Subset
  <2>3. j \in UpTo(j, I) /\ j \notin UpTo(i, I) BY DEF UpTo
  <2> QED BY <2>2, <2>3
<1>6. f \in Injection(I, 1..m)
  <2>1. f \in [I -> 1..m] BY <1>1, <1>3, <1>4
  <2>2. \A i, j \in I : f[i] = f[j] => i = j BY <1>5
  <2> QED BY <2>1, <2>2 DEF Injection, IsInjective
<1>7. IsFiniteSet(1..m) /\ Cardinality(1..m) = m BY <1>1, FS_Interval
<1> HIDE DEF f, m
<1>8. f \in Surjection(I, 1..m) BY <1>6, <1>7, FS_Injection DEF m
<1>9. \A k \in 1..m : \E i \in I : f[i] = k BY <1>8 DEF Surjection
<1>10. \A i \in I : f[i] \in 1..m BY <1>6 DEF Injection
<1> QED BY <1>1, <1>9, <1>10 DEF f, m

(* A set of naturals up to n has a least element.                          *)
LEMMA LeastIn ==
    ASSUME NEW n \in Nat, NEW S \in SUBSET (1..n), S # {}
    PROVE  \E m \in S : \A x \in S : m <= x
<1>1. IsFiniteSet(S)
  <2>1. IsFiniteSet(1..n) BY FS_Interval
  <2> QED BY <2>1, FS_Subset
<1>2. Cardinality(S) \in Nat /\ Cardinality(S) # 0 BY <1>1, FS_CardinalityType, FS_EmptySet
<1>3. 1 \in 1..Cardinality(S) BY <1>2
<1>4. PICK m \in S : Cardinality(UpTo(m, S)) = 1 BY <1>3, RankOnto
<1>5. ASSUME NEW x \in S PROVE m <= x
  <2>1. IsFiniteSet(UpTo(m, S)) BY <1>1, FS_Subset DEF UpTo
  <2>2. PICK y : UpTo(m, S) = {y} BY <1>4, <2>1, FS_Singleton
  <2>3. m \in UpTo(m, S) BY DEF UpTo
  <2>4. x <= m => x = m BY <2>2, <2>3 DEF UpTo
  <2> QED BY <2>4
<1> QED BY <1>5

(* Min is the least.                                                       *)
LEMMA MinIn ==
    ASSUME NEW n \in Nat, NEW S \in SUBSET (1..n), S # {}
    PROVE  Min(S) \in S /\ \A x \in S : Min(S) <= x
BY LeastIn DEF Min

(* A set of naturals up to n has a greatest element.                       *)
LEMMA MaxIn ==
    ASSUME NEW n \in Nat, NEW S \in SUBSET (1..n), S # {}
    PROVE  Max(S) \in S /\ \A x \in S : Max(S) >= x
<1> DEFINE T == {y \in 1..n : n + 1 - y \in S}
<1>1. PICK x \in S : TRUE OBVIOUS
<1>2. n + 1 - x \in T
  <2>1. n + 1 - x \in 1..n /\ n + 1 - (n + 1 - x) = x OBVIOUS
  <2> QED BY <2>1
<1>3. PICK m \in T : \A y \in T : m <= y BY <1>2, LeastIn
<1>4. n + 1 - m \in S OBVIOUS
<1>5. ASSUME NEW y \in S PROVE n + 1 - m >= y
  <2>1. n + 1 - y \in 1..n /\ n + 1 - (n + 1 - y) = y OBVIOUS
  <2>2. n + 1 - y \in T BY <2>1
  <2>3. m <= n + 1 - y BY <1>3, <2>2
  <2> QED BY <2>3
<1> QED BY <1>4, <1>5 DEF Max

(* Induction up to n.                                                      *)
LEMMA SetInduction ==
    ASSUME NEW n \in Nat, NEW S, 0 \in S, \A k \in 0..n : k \in S /\ k < n => k + 1 \in S
    PROVE  \A k \in 0..n : k \in S
<1> DEFINE Out == {k \in 1..n : k \notin S}
<1> SUFFICES ASSUME NEW k \in 0..n, k \notin S PROVE FALSE
  OBVIOUS
<1>1. k \in Out OBVIOUS
<1>2. PICK m \in Out : \A x \in Out : m <= x BY <1>1, LeastIn
<1>3. m - 1 \in 0..n /\ m - 1 < n /\ m - 1 + 1 = m OBVIOUS
<1>4. m - 1 \notin Out BY <1>2, <1>3
<1>5. m - 1 \in S BY <1>3, <1>4
<1> QED BY <1>3, <1>5
=============================================================================
