---------------------------- MODULE LeastNumbers ----------------------------
(***************************************************************************)
(* Least elements of sets of natural numbers, and induction over a set,    *)
(* for the proofs of this project.                                         *)
(***************************************************************************)
EXTENDS Integers, WellFoundedInduction, TLAPS

(* Every nonempty set of natural numbers has a least element.              *)
LEMMA NatOrder ==
  \E R : IsWellFoundedOn(R, Nat) /\ \A x, y \in Nat : x < y => <<x, y>> \in R
<1>1. \A x, y \in Nat : x < y => <<x, y>> \in OpToRel(<, Nat)
  BY DEF OpToRel
<1> QED  BY <1>1, NatLessThanWellFounded

LEMMA LeastNatural ==
  ASSUME NEW T, T \subseteq Nat, T # {}
  PROVE  \E x \in T : \A y \in T : x <= y
<1>1. PICK R : IsWellFoundedOn(R, Nat) /\ \A x, y \in Nat : x < y => <<x, y>> \in R
  BY NatOrder
<1>2. IsWellFoundedOn(R, Nat)
  BY <1>1
<1>3. \A x, y \in Nat : x < y => <<x, y>> \in R
  BY <1>1
<1>4. \E x \in T : \A y \in T : ~(<<y, x>> \in R)
  BY <1>2, WFMin
<1>5. PICK x \in T : \A y \in T : ~(<<y, x>> \in R)
  BY <1>4
<1>6. \A y \in T : x <= y
  <2> TAKE y \in T
  <2>1. x \in Nat /\ y \in Nat
    OBVIOUS
  <2>2. ~(y < x)
    BY <1>3, <1>5, <2>1
  <2> QED  BY <2>1, <2>2
<1> QED  BY <1>6

(* What holds of 0 and of a number's successor holds of every number.      *)
LEMMA SetInduction ==
  ASSUME NEW T, 0 \in T, \A n \in Nat : n \in T => n + 1 \in T
  PROVE  Nat \subseteq T
<1> SUFFICES ASSUME Nat \ T # {} PROVE FALSE
  OBVIOUS
<1>1. PICK n \in Nat \ T : \A y \in Nat \ T : n <= y
  BY LeastNatural
<1>2. n # 0 /\ n \in Nat
  OBVIOUS
<1>3. n - 1 \in Nat /\ ~(n <= n - 1)
  BY <1>2
<1>4. n - 1 \in T
  BY <1>1, <1>3
<1>5. (n - 1) + 1 \in T
  BY <1>3, <1>4
<1> QED  BY <1>2, <1>5

(* The least element of a set of positive numbers, or 0.                   *)
First(S) == IF S = {} THEN 0 ELSE CHOOSE i \in S : \A j \in S : i <= j

LEMMA FirstIs ==
  ASSUME NEW S, S \subseteq Nat \ {0}
  PROVE  /\ S = {} => First(S) = 0
         /\ S # {} => First(S) \in S /\ First(S) \in Nat \ {0} /\ \A j \in S : First(S) <= j
<1>1. ASSUME S # {} PROVE \E i \in S : \A j \in S : i <= j
  BY <1>1, LeastNatural
<1>2. ASSUME S # {} PROVE First(S) \in S /\ \A j \in S : First(S) <= j
  BY <1>1, <1>2 DEF First
<1> QED  BY <1>2 DEF First

(* Larger numbers do not change the first one.                             *)
LEMMA FirstStays ==
  ASSUME NEW S, NEW T, NEW n \in Nat, S # {}, S \subseteq T, T \subseteq Nat \ {0},
         \A i \in S : i <= n, \A i \in T \ S : i > n
  PROVE  First(T) = First(S)
<1> DEFINE x == First(S)
           y == First(T)
<1>1. x \in S /\ x \in Nat /\ \A j \in S : x <= j
  BY FirstIs
<1>2. y \in T /\ y \in Nat /\ \A j \in T : y <= j
  BY FirstIs
<1> HIDE DEF x, y
<1>3. y <= x /\ x <= n
  BY <1>1, <1>2
<1>4. y \in S
  <2>1. ~(y > n)
    BY <1>1, <1>2, <1>3
  <2> QED  BY <2>1, <1>2
<1>5. x <= y
  BY <1>1, <1>4
<1>6. x = y
  BY <1>1, <1>2, <1>3, <1>5
<1> QED  BY <1>6 DEF x, y
=============================================================================
