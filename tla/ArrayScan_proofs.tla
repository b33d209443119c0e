-------------------------- MODULE ArrayScan_proofs --------------------------
(***************************************************************************)
(* What a search of an array answers.                                      *)
(***************************************************************************)
EXTENDS ArrayScan, FiniteSetTheorems, WellFoundedInduction, TLAPS

\* A finite set of integers has a smallest element.  The sets of smaller
\* elements are ordered by strict inclusion, which is well-founded on the
\* subsets of a finite set: the element whose set is minimal is the
\* smallest.
LEMMA LeastElement ==
    ASSUME NEW S, IsFiniteSet(S), S \subseteq Int, S # {}
    PROVE  Min(S) \in S /\ \A y \in S : Min(S) <= y
<1> DEFINE Below(x) == {y \in S : y < x}
           T == {Below(x) : x \in S}
<1>1. T \subseteq SUBSET S /\ T # {}
  OBVIOUS
<1>2. IsWellFoundedOn(StrictSubsetOrdering(S), SUBSET S)
  BY FS_StrictSubsetOrderingWellFounded, FS_FiniteSubsetsOfFinite
<1>3. PICK t \in T : \A u \in T : <<u, t>> \notin StrictSubsetOrdering(S)
  <2> HIDE DEF T
  <2> QED BY <1>1, <1>2, WFMin
<1>4. PICK x \in S : t = Below(x)
  OBVIOUS
<1>5. ASSUME NEW y \in S PROVE x <= y
  <2>1. SUFFICES ASSUME y < x PROVE FALSE
    OBVIOUS
  <2>2. ASSUME NEW z \in Below(y) PROVE z \in Below(x)
    BY <2>1
  <2>3. y \in Below(x) /\ y \notin Below(y)
    BY <2>1
  <2>4. Below(y) \in T
    OBVIOUS
  <2> HIDE DEF Below
  <2> QED BY <2>2, <2>3, <2>4, <1>1, <1>3, <1>4 DEF StrictSubsetOrdering
<1> QED BY <1>5 DEF Min

\* A search of an array of n elements answers -1 or the first of the
\* matching indices.
LEMMA FirstOfArray ==
    ASSUME NEW n \in Nat, NEW S \in SUBSET (0 .. n - 1)
    PROVE  /\ FirstOf(S) \in S \cup {-1}
           /\ FirstOf(S) = -1 <=> S = {}
           /\ \A i \in S : FirstOf(S) <= i
<1>0. S \subseteq Int /\ -1 \notin S
  OBVIOUS
<1>1. IsFiniteSet(S)
  <2>1. IsFiniteSet(0 .. n - 1)
    BY FS_Interval, 0 \in Int, n - 1 \in Int
  <2> QED BY <2>1, FS_Subset
<1>2. CASE S = {}
  BY <1>2 DEF FirstOf
<1>3. CASE S # {}
  <2>1. Min(S) \in S /\ \A y \in S : Min(S) <= y
    BY <1>0, <1>1, <1>3, LeastElement
  <2>2. FirstOf(S) = Min(S)
    BY <1>3 DEF FirstOf
  <2>3. FirstOf(S) # -1
    BY <1>0, <2>1, <2>2
  <2> QED BY <1>3, <2>1, <2>2, <2>3
<1> QED BY <1>2, <1>3
=============================================================================
