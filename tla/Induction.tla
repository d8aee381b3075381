----------------------------- MODULE Induction -----------------------------
(***************************************************************************)
(* Induction on the natural numbers, for recursive functions over archives  *)
(* and over records.  The library's induction theorems take a predicate as  *)
(* a parameter, which the provers cannot instantiate; a set stands for it   *)
(* here, and a counterexample would have a least member.                    *)
(***************************************************************************)
EXTENDS Integers, WellFoundedInduction, TLAPS

\* A set of numbers that is not empty has a least member.
LEMMA LeastNumber ==
    ASSUME NEW T, T \subseteq Nat, T # {}
    PROVE  \E n \in T : \A m \in T : n =< m
<1> DEFINE R == {ss \in Nat \X Nat : ss[1] < ss[2]}
<1>1. IsWellFoundedOn(R, Nat)
  BY NatLessThanWellFounded DEF OpToRel
<1>2. PICK n \in T : \A m \in T : <<m, n>> \notin R
  <2> HIDE DEF R
  <2>1. QED  BY <1>1, WFMin
<1>3. \A m \in T : ~(m < n)
  BY <1>2
<1>4. QED  BY <1>3

\* A set that has 0, and with each number the next, has every number up to a bound.
LEMMA UpTo ==
    ASSUME NEW n \in Nat, NEW T, 0 \in T,
           \A k \in 1 .. n : k - 1 \in T => k \in T
    PROVE  0 .. n \subseteq T
<1> DEFINE Others == (0 .. n) \ T
<1>1. SUFFICES ASSUME Others # {} PROVE FALSE
  OBVIOUS
<1>2. PICK k \in Others : \A m \in Others : k =< m
  <2>1. Others \subseteq Nat
    OBVIOUS
  <2> HIDE DEF Others
  <2>2. QED  BY <1>1, <2>1, LeastNumber
<1>3. k \in 1 .. n /\ k - 1 \in 0 .. n
  OBVIOUS
<1>4. k - 1 \notin Others
  BY <1>2, <1>3
<1>5. QED  BY <1>3, <1>4
=============================================================================
