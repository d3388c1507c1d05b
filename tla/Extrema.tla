------------------------------ MODULE Extrema -------------------------------
(***************************************************************************)
(* The minimum and the maximum of a set of natural numbers.  The searches  *)
(* of the code over its fixed arrays are written with them.                *)
(***************************************************************************)
EXTENDS Integers, FiniteSetsExt, WellFoundedInduction, TLAPS

\* A nonempty set of natural numbers has its minimum in it: a search for the
\* first match of an array that has one returns a match.
LEMMA MinInSet ==
    ASSUME NEW S \in SUBSET Nat, S # {}
    PROVE  Min(S) \in S /\ \A y \in S : Min(S) <= y
<1>1. PICK x \in S : \A y \in S : ~(<<y, x>> \in OpToRel(<, Nat))
    BY NatLessThanWellFounded, WFMin
<1>2. ASSUME NEW y \in S PROVE x =< y
    <2>1. y < x => <<y, x>> \in OpToRel(<, Nat)
        BY Zenon DEF OpToRel
    <2>2. ~(y < x)
        BY <1>1, <2>1
    <2>3. QED
        BY <2>2
<1>3. QED
    BY <1>2 DEF Min

\* So has a bounded one its maximum: a search for the last match.
LEMMA MaxInSet ==
    ASSUME NEW n \in Nat, NEW S \in SUBSET (0 .. n), S # {}
    PROVE  Max(S) \in S
<1> DEFINE T == {n - x : x \in S}
<1>1. \A x \in S : x \in 0 .. n /\ n - x \in Nat
    OBVIOUS
<1>2. T \in SUBSET Nat /\ T # {}
    BY <1>1
<1>3. Min(T) \in T /\ \A y \in T : Min(T) <= y
    BY <1>2, MinInSet
<1>4. PICK x \in S : Min(T) = n - x
    BY <1>3
<1>5. ASSUME NEW y \in S PROVE x >= y
    <2>1. n - y \in T
        OBVIOUS
    <2>2. n - x <= n - y
        BY <1>3, <1>4, <2>1
    <2>3. QED
        BY <1>1, <2>2
<1>6. QED
    BY <1>5 DEF Max
=============================================================================
