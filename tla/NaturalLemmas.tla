---------------------------- MODULE NaturalLemmas ----------------------------
(***************************************************************************)
(* Facts about sets of natural numbers that the proofs of other modules    *)
(* need.                                                                   *)
(***************************************************************************)
EXTENDS Naturals, FiniteSetTheorems, WellFoundedInduction, TLAPS

\* A set of natural numbers has a least member, and what lies below a number
\* is finite.
LEMMA FiniteBelow ==
  ASSUME NEW T \in SUBSET Nat, NEW m \in Nat
  PROVE  /\ IsFiniteSet({n \in T : n < m})
         /\ Cardinality({n \in T : n < m}) \in Nat
<1> DEFINE B == {n \in T : n < m}
<1>1. \A n \in T : n \in Nat
  OBVIOUS
<1>2. \A n \in B : n \in Nat /\ n <= m
  BY <1>1
<1>3. B \in SUBSET Nat
  BY <1>2
<1> HIDE DEF B
<1>4. IsFiniteSet(B)
  BY <1>2, <1>3, FS_BoundedSetOfNaturals
<1>5. Cardinality(B) \in Nat
  BY <1>4, FS_CardinalityType
<1> QED
  BY <1>4, <1>5 DEF B

LEMMA BelowLess ==
  ASSUME NEW T \in SUBSET Nat, NEW m \in Nat, NEW n \in Nat, n < m
  PROVE  {k \in T : k < n} \subseteq {k \in T : k < m}
<1>1. \A k \in T : k \in Nat
  OBVIOUS
<1>2. \A k \in T : k < n => k < m
  BY <1>1
<1> QED
  BY ONLY <1>2

LEMMA LeastMember ==
  ASSUME NEW T \in SUBSET Nat, T # {}
  PROVE  \E m \in T : \A n \in T : ~(n < m)
<1> DEFINE Below(m) == {n \in T : n < m}
           D == {Below(m) : m \in T}
<1>1. D \subseteq FiniteSubsetsOf(Nat) /\ D # {}
  <2>1. \A m \in T : Below(m) \in SUBSET Nat /\ IsFiniteSet(Below(m))
    BY FiniteBelow
  <2> QED BY <2>1 DEF FiniteSubsetsOf
<1>2. PICK d \in D : \A e \in D : ~(<<e, d>> \in StrictSubsetOrdering(Nat))
  <2> HIDE DEF D
  <2>1. IsWellFoundedOn(StrictSubsetOrdering(Nat), FiniteSubsetsOf(Nat))
    BY FS_StrictSubsetOrderingWellFounded
  <2> QED BY ONLY <1>1, <2>1, WFMin
<1>3. PICK m \in T : d = Below(m)
  BY <1>2
<1>4. ASSUME NEW n \in T, n < m PROVE FALSE
  <2>1. Below(n) \subseteq Below(m) /\ n \in Below(m) /\ n \notin Below(n)
    <3>1. n \in Nat /\ m \in Nat
      OBVIOUS
    <3>2. Below(n) \subseteq Below(m)
      BY <1>4, <3>1, BelowLess
    <3> QED BY <1>4, <3>1, <3>2
  <2>2. <<Below(n), Below(m)>> \in StrictSubsetOrdering(Nat)
    BY <2>1 DEF StrictSubsetOrdering
  <2> QED BY <1>2, <1>3, <2>2
<1> QED
  BY <1>4

=============================================================================
