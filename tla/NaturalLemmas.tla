---------------------------- MODULE NaturalLemmas ----------------------------
(***************************************************************************)
(* The least and the greatest of some natural numbers, which the proofs    *)
(* about loops and choices take the first or the last counterexample by.   *)
(***************************************************************************)
EXTENDS Integers, WellFoundedInduction, TLAPS

\* A nonempty set of naturals has a least element.
LEMMA LeastNatural ==
  ASSUME NEW T \in SUBSET Nat, T # {}
  PROVE  \E x \in T : \A y \in T : x <= y
<1> DEFINE Less == {ss \in Nat \X Nat : ss[1] < ss[2]}
<1>1. IsWellFoundedOn(Less, Nat)
  BY NatLessThanWellFounded DEF OpToRel
<1>2. \E x \in T : \A y \in T : ~ (<<y, x>> \in Less)
  <2> HIDE DEF Less
  <2> QED BY <1>1, WFMin
<1>3. PICK x \in T : \A y \in T : ~ (<<y, x>> \in Less)
  BY <1>2
<1>4. ASSUME NEW y \in T PROVE x <= y
  <2>1. ~(<<y, x>>[1] < <<y, x>>[2])
    BY <1>3, <1>4
  <2> QED BY <2>1
<1> QED BY <1>4

\* A nonempty set of naturals up to n has a greatest element.
LEMMA GreatestNatural ==
  ASSUME NEW n \in Nat, NEW S \in SUBSET (1 .. n), S # {}
  PROVE  \E x \in S : \A y \in S : y <= x
<1> DEFINE Bounds == {m \in Nat : \A y \in S : y <= m}
<1>1. Bounds \in SUBSET Nat /\ n \in Bounds
  OBVIOUS
<1>2. PICK x \in Bounds : \A m \in Bounds : x <= m
  <2> HIDE DEF Bounds
  <2> QED BY <1>1, LeastNatural
<1>3. x \in Nat /\ \A y \in S : y \in 1 .. n /\ y <= x
  BY <1>2
<1>4. x \in S
  <2> SUFFICES ASSUME x \notin S PROVE FALSE
    OBVIOUS
  <2>1. x - 1 \in Nat /\ \A y \in S : y <= x - 1
    <3>1. PICK y \in S : TRUE
      OBVIOUS
    <3> QED BY <1>3, <3>1
  <2>2. x - 1 \in Bounds
    BY <2>1
  <2>3. x <= x - 1
    BY <1>2, <2>2
  <2> QED BY <1>3, <2>3
<1> QED BY <1>3, <1>4
=============================================================================
