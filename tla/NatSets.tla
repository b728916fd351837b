------------------------------ MODULE NatSets ------------------------------
(* Least and greatest elements of sets of natural numbers, and induction   *)
(* over the numbers and over finite sets.                                  *)
EXTENDS Integers, FiniteSetsExt, FiniteSetTheorems, WellFoundedInduction, TLAPS

(* A nonempty set of natural numbers has a least element.                  *)
LEMMA LeastElement ==
  ASSUME NEW T, T \subseteq Nat, T # {}
  PROVE  \E m \in T : \A k \in T : m <= k
<1>1. \E R : IsWellFoundedOn(R, Nat) /\ \A k, m \in Nat : k < m => <<k, m>> \in R
  <2>1. ASSUME NEW k \in Nat, NEW m \in Nat, k < m PROVE <<k, m>> \in OpToRel(<, Nat)
    <3>1. <<k, m>>[1] < <<k, m>>[2] /\ <<k, m>> \in Nat \X Nat
      BY <2>1
    <3> QED
      BY <3>1, Zenon DEF OpToRel
  <2> QED
    BY <2>1, NatLessThanWellFounded, Zenon
<1>2. PICK R : IsWellFoundedOn(R, Nat) /\ \A k, m \in Nat : k < m => <<k, m>> \in R
  BY <1>1
<1>3. PICK m \in T : \A k \in T : ~ (<<k, m>> \in R)
  <2>1. IsWellFoundedOn(R, Nat)
    BY <1>2
  <2> QED
    BY <2>1, WFMin, Zenon
<1>4. ASSUME NEW k \in T PROVE m <= k
  <2>1. k \in Nat /\ m \in Nat /\ ~ (k < m)
    BY <1>2, <1>3
  <2> QED
    BY <2>1
<1> QED
  BY <1>4

(* Min finds the least element. *)
LEMMA MinExists ==
  ASSUME NEW T, T \subseteq Nat, T # {}
  PROVE  Min(T) \in T /\ \A y \in T : Min(T) <= y
<1>1. \E x \in T : \A y \in T : x <= y
  BY LeastElement
<1> QED
  BY <1>1 DEF Min

(* A bounded set has a greatest element, which Max finds. *)
LEMMA MaxExists ==
  ASSUME NEW n \in Nat, NEW T, T \subseteq 0..n, T # {}
  PROVE  Max(T) \in T /\ \A y \in T : Max(T) >= y
<1> DEFINE U == {n - x : x \in T}
<1>1. U \subseteq Nat /\ U # {}
  <2>1. \A x \in T : n - x \in Nat
    OBVIOUS
  <2> QED
    BY <2>1
<1>2. PICK m \in U : \A u \in U : m <= u
  BY <1>1, LeastElement
<1>3. PICK x \in T : m = n - x
  BY <1>2
<1>4. \A y \in T : x >= y
  <2> TAKE y \in T
  <2>1. n - y \in U
    OBVIOUS
  <2> QED
    BY <1>2, <1>3, <2>1
<1> QED
  BY <1>3, <1>4 DEF Max

(* Induction, for a property given by the set of the numbers that have it. *)
LEMMA Induction ==
  ASSUME NEW T, 0 \in T, \A n \in Nat : n \in T => n + 1 \in T
  PROVE  \A n \in Nat : n \in T
<1> SUFFICES ASSUME Nat \ T # {} PROVE FALSE
  OBVIOUS
<1>1. PICK m \in Nat \ T : \A k \in Nat \ T : m <= k
  BY LeastElement
<1>2. m # 0 /\ m - 1 \in Nat /\ (m - 1) + 1 = m /\ ~ (m <= m - 1)
  BY <1>1
<1>3. m - 1 \in T
  BY <1>1, <1>2
<1> QED
  BY <1>1, <1>2, <1>3

(* Induction over the finite subsets of D, in the same form: T are those   *)
(* that have the property.                                                 *)
LEMMA SubsetInduction ==
  ASSUME NEW D, NEW T,
         \A S \in SUBSET D : IsFiniteSet(S) /\ (\A x \in S : S \ {x} \in T) => S \in T
  PROVE  \A S \in SUBSET D : IsFiniteSet(S) => S \in T
<1> DEFINE Left == {S \in SUBSET D : IsFiniteSet(S) /\ S \notin T}
           Sizes == {Cardinality(S) : S \in Left}
<1> SUFFICES ASSUME Left # {} PROVE FALSE
  OBVIOUS
<1>1. Sizes \subseteq Nat /\ Sizes # {}
  BY FS_CardinalityType
<1>2. PICK m \in Sizes : \A k \in Sizes : m <= k
  BY <1>1, LeastElement
<1>3. PICK S \in Left : m = Cardinality(S)
  BY <1>2
<1>4. ASSUME NEW x \in S PROVE S \ {x} \in T
  <2>1. IsFiniteSet(S \ {x}) /\ Cardinality(S \ {x}) = m - 1 /\ S \ {x} \in SUBSET D
    BY <1>3, FS_RemoveElement
  <2>2. m \in Nat /\ ~ (m <= m - 1)
    BY <1>1, <1>2
  <2>3. S \ {x} \notin Left
    BY <1>2, <2>1, <2>2
  <2> QED
    BY <2>1, <2>3
<1> QED
  BY <1>3, <1>4
=============================================================================
