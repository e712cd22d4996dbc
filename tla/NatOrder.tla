------------------------------ MODULE NatOrder ------------------------------
(* The least element of a set of numbers, for the choices of the components. *)
EXTENDS Integers, TLAPS, FiniteSetTheorems, WellFoundedInduction

\* A nonempty set of natural numbers has a smallest element.  The strict subset
\* ordering of the intervals 1..n stands for the order of the numbers.
LEMMA SmallestNat ==
  ASSUME NEW N \in SUBSET Nat, N # {}
  PROVE  \E x \in N : \A y \in N : x <= y
<1>. DEFINE T == {1..n : n \in N}
<1>1. IsWellFoundedOn(StrictSubsetOrdering(Nat), FiniteSubsetsOf(Nat))
  BY FS_StrictSubsetOrderingWellFounded
<1>2. T \subseteq FiniteSubsetsOf(Nat)
  <2>1. \A n \in N : IsFiniteSet(1..n)
    BY FS_Interval
  <2>2. \A n \in N : 1..n \in SUBSET Nat
    OBVIOUS
  <2>3. \A n \in N : 1..n \in FiniteSubsetsOf(Nat)
    BY <2>1, <2>2 DEF FiniteSubsetsOf
  <2>. QED
    BY <2>3
<1>3. T # {}
  OBVIOUS
<1>. HIDE DEF T
<1>4. PICK t \in T : \A u \in T : ~(<<u, t>> \in StrictSubsetOrdering(Nat))
  BY <1>1, <1>2, <1>3, WFMin
<1>5. PICK x \in N : t = 1..x
  BY DEF T
<1>6. ASSUME NEW y \in N, y < x PROVE FALSE
  <2>1. 1..y \in T
    BY DEF T
  <2>2. 1..y \subseteq 1..x /\ 1..y # 1..x
    <3>1. x \in 1..x /\ x \notin 1..y
      BY <1>6
    <3>. QED
      BY <3>1, <1>6
  <2>3. <<1..y, 1..x>> \in StrictSubsetOrdering(Nat)
    BY <2>2 DEF StrictSubsetOrdering
  <2>. QED
    BY <2>1, <2>3, <1>4, <1>5
<1>. QED
  BY <1>6
=============================================================================
