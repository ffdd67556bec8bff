------------------------------ MODULE Induction ------------------------------
(***************************************************************************)
(* Induction over the natural numbers, and what the proofs of this project *)
(* take from it.  The theorems of module NaturalsInduction are about an    *)
(* operator, which the provers cannot instantiate; these are about a set,  *)
(* and rest on the finite sets being well-founded by inclusion.            *)
(***************************************************************************)
EXTENDS Integers, FiniteSetTheorems, WellFoundedInduction, TLAPS

\* Induction over the natural numbers, for a set of them.
LEMMA SetInduction ==
    ASSUME NEW Z \in SUBSET Nat, 0 \in Z, \A n \in Z : n + 1 \in Z
    PROVE  Z = Nat
<1> SUFFICES ASSUME Nat \ Z # {} PROVE FALSE
  OBVIOUS
<1> DEFINE T == {0 .. n : n \in Nat \ Z}
           R == StrictSubsetOrdering(Nat)
<1>1. T \subseteq FiniteSubsetsOf(Nat)
  <2> SUFFICES ASSUME NEW n \in Nat PROVE 0 .. n \in FiniteSubsetsOf(Nat)
    OBVIOUS
  <2>1. IsFiniteSet(0 .. n)
    BY FS_Interval
  <2> QED  BY <2>1 DEF FiniteSubsetsOf
<1>2. T # {}
  OBVIOUS
<1>3. IsWellFoundedOn(R, FiniteSubsetsOf(Nat))
  BY FS_StrictSubsetOrderingWellFounded
<1>4. \E x \in T : \A y \in T : ~ (<<y, x>> \in R)
  <2> HIDE DEF T, R
  <2> QED  BY <1>1, <1>2, <1>3, WFMin
<1>5. PICK n \in Nat \ Z : \A m \in Nat \ Z : <<0 .. m, 0 .. n>> \notin R
  BY <1>4
<1>6. n - 1 \in Nat \ Z
  OBVIOUS
<1>7. 0 .. n - 1 \subseteq 0 .. n /\ n \notin 0 .. n - 1 /\ n \in 0 .. n
  OBVIOUS
<1>8. <<0 .. n - 1, 0 .. n>> \in R
  BY <1>7 DEF StrictSubsetOrdering
<1> QED  BY <1>5, <1>6, <1>8

\* A set of them that is not empty has a least element.
LEMMA Smallest ==
    ASSUME NEW S \in SUBSET Nat, S # {}
    PROVE  \E x \in S : \A y \in S : x <= y
<1> SUFFICES ASSUME \A x \in S : \E y \in S : y < x PROVE FALSE
  OBVIOUS
<1> DEFINE Z == {n \in Nat : \A x \in S : n < x}
<1>1. 0 \in Z
  OBVIOUS
<1>2. \A n \in Z : n + 1 \in Z
  OBVIOUS
<1>3. Z \in SUBSET Nat
  OBVIOUS
<1>4. Z = Nat
  <2> HIDE DEF Z
  <2> QED  BY <1>1, <1>2, <1>3, SetInduction
<1>5. PICK x \in S : TRUE
  OBVIOUS
<1> QED  BY <1>4, <1>5

\* A set of them with an upper bound has a greatest element.
LEMMA Greatest ==
    ASSUME NEW n \in Nat, NEW S \in SUBSET (0 .. n), S # {}
    PROVE  \E x \in S : \A y \in S : y <= x
<1> DEFINE T == {n - x : x \in S}
<1>1. T \in SUBSET Nat /\ T # {}
  <2>1. \A x \in S : x \in 0 .. n
    OBVIOUS
  <2>2. \A x \in S : n - x \in Nat
    BY <2>1
  <2>3. PICK x \in S : TRUE
    OBVIOUS
  <2>4. n - x \in T
    OBVIOUS
  <2> QED  BY <2>2, <2>4
<1>2. PICK z \in T : \A y \in T : z <= y
  <2> HIDE DEF T
  <2> QED  BY <1>1, Smallest
<1>3. PICK x \in S : z = n - x
  OBVIOUS
<1>4. \A y \in S : n - x <= n - y
  BY <1>2, <1>3
<1> QED  BY <1>4

=============================================================================
