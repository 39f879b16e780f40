------------------------------ MODULE Extrema ------------------------------
(***************************************************************************)
(* Min and Max of FiniteSetsExt, which the models choose identifiers and   *)
(* directory entries with: every nonempty set of naturals has a least      *)
(* element, every nonempty bounded one a greatest.                         *)
(***************************************************************************)
EXTENDS Integers, FiniteSets, FiniteSetsExt, TLAPS, FiniteSetTheorems, WellFoundedInduction

\* A nonempty set of naturals has a least element: the sets of the elements
\* below each are finite, and one of them is minimal for strict inclusion.
LEMMA NatHasMinimum ==
  ASSUME NEW S \in SUBSET Nat, S # {}
  PROVE  \E x \in S : \A y \in S : x <= y
<1> DEFINE Below(x) == {y \in S : y < x}
           T == {Below(x) : x \in S}
<1>1. T \subseteq FiniteSubsetsOf(Nat) /\ T # {}
  <2>1. ASSUME NEW x \in S PROVE Below(x) \in FiniteSubsetsOf(Nat)
    <3>1. x \in Nat /\ Below(x) \in SUBSET Nat /\ \A y \in Below(x) : y <= x
      <4>1. x \in Nat OBVIOUS
      <4>2. Below(x) \in SUBSET Nat OBVIOUS
      <4>3. ASSUME NEW y \in Below(x) PROVE y <= x
        BY <4>1
      <4> QED BY <4>1, <4>2, <4>3
    <3>2. IsFiniteSet(Below(x))
      <4> HIDE DEF Below
      <4> QED BY <3>1, FS_BoundedSetOfNaturals
    <3> QED BY <3>1, <3>2 DEF FiniteSubsetsOf
  <2> QED BY <2>1
<1>2. PICK b \in T : \A c \in T : <<c, b>> \notin StrictSubsetOrdering(Nat)
  <2> HIDE DEF T
  <2> QED BY <1>1, FS_StrictSubsetOrderingWellFounded, WFMin
<1>3. PICK x \in S : b = Below(x)
  BY <1>2
<1>4. ASSUME NEW y \in S, ~(x <= y) PROVE FALSE
  <2>1. y \in Nat /\ x \in Nat /\ y < x
    BY <1>4
  <2>2. Below(y) \subseteq Below(x) /\ y \in Below(x) /\ y \notin Below(y)
    <3>1. \A z \in Below(y) : z \in S /\ z \in Nat /\ z < y /\ z < x
      BY <2>1
    <3>2. y \in Below(x) BY <2>1
    <3>3. y \notin Below(y) BY <2>1
    <3> QED BY <3>1, <3>2, <3>3
  <2>3. Below(y) \in T
    OBVIOUS
  <2>4. Below(x) \in SUBSET Nat /\ Below(y) \in SUBSET Nat
    OBVIOUS
  <2>5. <<Below(y), Below(x)>> \in StrictSubsetOrdering(Nat)
    <3> HIDE DEF Below
    <3> QED BY <2>2, <2>4 DEF StrictSubsetOrdering
  <2> QED BY <2>3, <2>5, <1>2, <1>3
<1> QED BY <1>4

\* Min returns the least element of a nonempty set of naturals.
LEMMA MinIn ==
  ASSUME NEW S \in SUBSET Nat, S # {}
  PROVE  Min(S) \in S /\ \A y \in S : Min(S) <= y
BY NatHasMinimum DEF Min

\* Max returns the greatest element of a nonempty finite set of naturals: of the
\* sets of the elements above each, one is minimal.
LEMMA MaxIn ==
  ASSUME NEW S \in SUBSET Nat, IsFiniteSet(S), S # {}
  PROVE  Max(S) \in S /\ \A y \in S : y <= Max(S)
<1> DEFINE Above(x) == {y \in S : y > x}
           T == {Above(x) : x \in S}
<1>1. T \subseteq FiniteSubsetsOf(Nat) /\ T # {}
  <2>1. ASSUME NEW x \in S PROVE Above(x) \in FiniteSubsetsOf(Nat)
    <3>1. Above(x) \in SUBSET S
      OBVIOUS
    <3>2. IsFiniteSet(Above(x))
      <4> HIDE DEF Above
      <4> QED BY <3>1, FS_Subset
    <3> QED BY <3>1, <3>2 DEF FiniteSubsetsOf
  <2> QED BY <2>1
<1>2. PICK b \in T : \A c \in T : <<c, b>> \notin StrictSubsetOrdering(Nat)
  <2> HIDE DEF T
  <2> QED BY <1>1, FS_StrictSubsetOrderingWellFounded, WFMin
<1>3. PICK x \in S : b = Above(x)
  BY <1>2
<1>4. ASSUME NEW y \in S, ~(y <= x) PROVE FALSE
  <2>1. y \in Nat /\ x \in Nat /\ y > x
    BY <1>4
  <2>2. Above(y) \subseteq Above(x) /\ y \in Above(x) /\ y \notin Above(y)
    <3>1. \A z \in Above(y) : z \in S /\ z \in Nat /\ z > y /\ z > x
      BY <2>1
    <3>2. y \in Above(x) BY <2>1
    <3>3. y \notin Above(y) BY <2>1
    <3> QED BY <3>1, <3>2, <3>3
  <2>3. Above(y) \in T
    OBVIOUS
  <2>4. Above(x) \in SUBSET Nat /\ Above(y) \in SUBSET Nat
    OBVIOUS
  <2>5. <<Above(y), Above(x)>> \in StrictSubsetOrdering(Nat)
    <3> HIDE DEF Above
    <3> QED BY <2>2, <2>4 DEF StrictSubsetOrdering
  <2> QED BY <2>3, <2>5, <1>2, <1>3
<1>5. \E z \in S : \A y \in S : z >= y
  BY <1>4
<1>6. Max(S) \in S /\ \A y \in S : Max(S) >= y
  BY <1>5 DEF Max
<1> QED BY <1>6

\* Max of two integers.
LEMMA MaxOfTwo ==
  ASSUME NEW a \in Int, NEW b \in Int
  PROVE  /\ Max({a, b}) = IF a >= b THEN a ELSE b
         /\ Max({a, b}) \in Int
<1> DEFINE m == IF a >= b THEN a ELSE b
<1>1. m \in {a, b} /\ \A y \in {a, b} : m >= y
  OBVIOUS
<1>2. Max({a, b}) \in {a, b} /\ \A y \in {a, b} : Max({a, b}) >= y
  BY <1>1 DEF Max
<1> QED BY <1>2
=============================================================================
