---------------------------- MODULE IndexLemmas ----------------------------
(***************************************************************************)
(* Facts about naturals that the proofs of the parsers and of the argument *)
(* builder use to reason about loops written as recursive functions over   *)
(* 0..n: induction stated for a set (the library's induction theorems take *)
(* an operator parameter, which the provers cannot instantiate), and the   *)
(* least and the greatest of a set of positions.                           *)
(***************************************************************************)
EXTENDS Naturals, WellFoundedInduction, TLAPS

(* Induction over the naturals, stated for a set: a set that holds 0 and   *)
(* the successor of each of its naturals holds every natural.              *)
LEMMA SetInduction ==
  ASSUME NEW S, 0 \in S, \A n \in S \cap Nat : n + 1 \in S
  PROVE  Nat \subseteq S
<1> SUFFICES ASSUME Nat \ S # {} PROVE FALSE
  OBVIOUS
<1> DEFINE R == OpToRel(<, Nat)
<1>1. \E x \in Nat \ S : \A y \in Nat \ S : ~(<<y, x>> \in R)
  BY NatLessThanWellFounded, WFMin
<1>2. PICK x \in Nat \ S : \A y \in Nat \ S : ~(<<y, x>> \in R)
  BY <1>1
<1>3. x # 0
  OBVIOUS
<1>4. x - 1 \in S
  <2>1. x - 1 \in Nat /\ <<x - 1, x>> \in R
    BY <1>2, <1>3 DEF OpToRel
  <2> QED
    BY <2>1, <1>2
<1>5. (x - 1) + 1 \in S
  BY <1>3, <1>4
<1>6. (x - 1) + 1 = x
  BY <1>3
<1> QED
  BY <1>5, <1>6, Zenon

(* A nonempty set of positions 1..n has a least and a greatest element.    *)
LEMMA MinMaxIdx ==
  ASSUME NEW n \in Nat, NEW T \in SUBSET (1..n), T # {}
  PROVE  /\ \E i \in T : \A j \in T : i <= j
         /\ \E i \in T : \A j \in T : j <= i
<1> DEFINE R == OpToRel(<, Nat)
<1>0. \A a, b \in Nat : <<a, b>> \in R <=> a < b
  BY DEF OpToRel
<1>1. \E i \in T : \A j \in T : i <= j
  <2>1. T \subseteq Nat
    OBVIOUS
  <2>2. \E x \in T : \A y \in T : ~(<<y, x>> \in R)
    BY <2>1, NatLessThanWellFounded, WFMin
  <2>3. PICK x \in T : \A y \in T : ~(<<y, x>> \in R)
    BY <2>2
  <2>4. \A j \in T : x <= j
    <3> TAKE j \in T
    <3>1. ~(<<j, x>> \in R)
      BY <2>3
    <3>2. ~(j < x)
      BY <3>1, <2>1, <1>0
    <3> QED
      BY <3>2, <2>1
  <2> QED
    BY <2>4
<1>2. \E i \in T : \A j \in T : j <= i
  <2> DEFINE U == {d \in Nat : n - d \in T}
  <2>1. U \subseteq Nat /\ U # {}
    <3>1. PICK t \in T : TRUE
      OBVIOUS
    <3>2. n - t \in U
      BY <3>1
    <3> QED
      BY <3>2
  <2>2. \E x \in U : \A y \in U : ~(<<y, x>> \in R)
    BY <2>1, NatLessThanWellFounded, WFMin
  <2>3. PICK x \in U : \A y \in U : ~(<<y, x>> \in R)
    BY <2>2
  <2>4. \A j \in T : n - j \in U
    OBVIOUS
  <2>5. n - x \in T
    BY <2>3
  <2>6. \A j \in T : j <= n - x
    <3> TAKE j \in T
    <3>1. n - j \in U /\ ~(<<n - j, x>> \in R)
      BY <2>3, <2>4
    <3>2. ~(n - j < x)
      BY <3>1, <1>0
    <3> QED
      BY <3>2
  <2> QED
    BY <2>5, <2>6
<1> QED
  BY <1>1, <1>2

=============================================================================
