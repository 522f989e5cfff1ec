---------------------------- MODULE NaturalFacts ----------------------------
(***************************************************************************)
(* Least and greatest members of sets of naturals.  The proofs use them in *)
(* place of induction: what fails somewhere fails first somewhere.         *)
(***************************************************************************)
EXTENDS Integers, WellFoundedInduction, TLAPS

\* A set of naturals has a least member.
LEMMA LeastExists ==
    ASSUME NEW T \in SUBSET Nat, T # {}
    PROVE  \E x \in T : \A y \in T : x <= y
<1> DEFINE R == OpToRel(<, Nat)
<1>1. IsWellFoundedOn(R, Nat)
  BY NatLessThanWellFounded
<1>2. \A x, y \in Nat : y < x => <<y, x>> \in R
  BY DEF OpToRel
<1> HIDE DEF R
<1>3. PICK x \in T : \A y \in T : ~ (<<y, x>> \in R)
  BY <1>1, WFMin
<1>4. x \in Nat /\ \A y \in T : y \in Nat
  OBVIOUS
<1>5. \A y \in T : ~ (y < x)
  BY <1>2, <1>3, <1>4
<1> QED BY <1>4, <1>5

\* A set of naturals with a bound has a greatest member.
LEMMA GreatestExists ==
    ASSUME NEW n \in Nat, NEW T \in SUBSET (1 .. n), T # {}
    PROVE  \E x \in T : \A y \in T : y <= x
<1> DEFINE U == {n - j : j \in T}
<1>1. U # {}
  OBVIOUS
<1>2. U \in SUBSET Nat
  OBVIOUS
<1>3. \E u \in U : \A v \in U : u <= v
  <2> HIDE DEF U
  <2> QED BY <1>1, <1>2, LeastExists
<1>4. PICK x \in T : \A y \in T : n - x <= n - y
  BY <1>3
<1> QED BY <1>4
=============================================================================
