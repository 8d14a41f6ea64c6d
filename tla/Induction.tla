----------------------------- MODULE Induction -----------------------------
(***************************************************************************)
(* The two forms in which the proofs use that the natural numbers are      *)
(* well-founded: a set of them that is not empty has a least element, and  *)
(* one that has zero, and with every number the next, has all of them.     *)
(***************************************************************************)
EXTENDS Integers, WellFoundedInduction, TLAPS

Less == {pair \in Nat \X Nat : pair[1] < pair[2]}

\* A set of natural numbers that is not empty has a least element.
LEMMA LeastElement ==
  ASSUME NEW T, T \subseteq Nat, T # {}
  PROVE  \E m \in T : \A k \in T : m <= k
<1>1. IsWellFoundedOn(Less, Nat)
  BY NatLessThanWellFounded DEF OpToRel, Less
<1>2. PICK m \in T : \A k \in T : <<k, m>> \notin Less
  BY <1>1, WFMin
<1>3. \A k \in T : k \in Nat /\ m \in Nat /\ ~(k < m)
  BY <1>2 DEF Less
<1>. QED
  BY <1>2, <1>3

\* Induction, with the set of the numbers a statement is true of.
LEMMA SetInduction ==
  ASSUME NEW S, 0 \in S, \A n \in Nat : n \in S => n + 1 \in S
  PROVE  \A n \in Nat : n \in S
<1> DEFINE T == {n \in Nat : n \notin S}
<1>1. SUFFICES ASSUME T # {} PROVE FALSE
  OBVIOUS
<1>2. PICK m \in T : \A k \in T : m <= k
  BY <1>1, LeastElement
<1>3. m \in Nat /\ m \notin S /\ m # 0
  OBVIOUS
<1>4. m - 1 \in Nat /\ m - 1 + 1 = m
  BY <1>3
<1>5. m - 1 \notin T
  BY <1>2, <1>4
<1>. QED
  BY <1>3, <1>4, <1>5

=============================================================================
