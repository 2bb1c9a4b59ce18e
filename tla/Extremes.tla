------------------------------ MODULE Extremes ------------------------------
(***************************************************************************)
(* Every set of numbers with something in it has a least one, and a        *)
(* greatest one if it is bounded: the facts about page cuts and cursors    *)
(* that the proofs of the other modules cite.                              *)
(***************************************************************************)
EXTENDS Integers, FiniteSetTheorems, WellFoundedInduction, TLAPS

\* A family of finite sets of numbers has a member with no other strictly inside it.
LEMMA MinimalMember ==
  ASSUME NEW F, F # {}, \A T \in F : T \in SUBSET Int /\ IsFiniteSet(T)
  PROVE  \E T \in F : \A U \in F : ~(U \subseteq T /\ U # T)
<1> DEFINE order == StrictSubsetOrdering(Int)
<1>1. IsWellFoundedOn(order, FiniteSubsetsOf(Int))
  BY FS_StrictSubsetOrderingWellFounded
<1>2. F \subseteq FiniteSubsetsOf(Int)
  BY DEF FiniteSubsetsOf
<1> HIDE DEF order
<1>3. PICK T \in F : \A U \in F : <<U, T>> \notin order
  BY <1>1, <1>2, WFMin
<1> QED
  BY <1>3 DEF order, StrictSubsetOrdering

\* A bounded set of numbers has a greatest one.
LEMMA GreatestExists ==
  ASSUME NEW S \in SUBSET Int, S # {}, NEW b \in Int, \A s \in S : s <= b
  PROVE  \E m \in S : \A s \in S : s <= m
<1> DEFINE F == {s .. b : s \in S}
<1>1. \A s \in S : s .. b \in SUBSET Int /\ IsFiniteSet(s .. b)
  BY FS_Interval
<1>2. PICK T \in F : \A U \in F : ~(U \subseteq T /\ U # T)
  <2>1. F # {} /\ \A T \in F : T \in SUBSET Int /\ IsFiniteSet(T)
    BY <1>1
  <2> HIDE DEF F
  <2> QED
    BY <2>1, MinimalMember
<1>3. PICK m \in S : T = m .. b
  BY DEF F
<1>4. ASSUME NEW s \in S, m < s
      PROVE  FALSE
  <2>1. s .. b \subseteq T /\ s .. b # T
    BY <1>3, <1>4
  <2>2. s .. b \in F
    BY DEF F
  <2> QED
    BY <1>2, <2>1, <2>2
<1> QED
  BY <1>4

\* A set of numbers bounded from below has a least one.
LEMMA LeastExists ==
  ASSUME NEW S \in SUBSET Int, S # {}, NEW b \in Int, \A s \in S : b <= s
  PROVE  \E m \in S : \A s \in S : m <= s
<1> DEFINE F == {b .. s : s \in S}
<1>1. \A s \in S : b .. s \in SUBSET Int /\ IsFiniteSet(b .. s)
  BY FS_Interval
<1>2. PICK T \in F : \A U \in F : ~(U \subseteq T /\ U # T)
  <2>1. F # {} /\ \A T \in F : T \in SUBSET Int /\ IsFiniteSet(T)
    BY <1>1
  <2> HIDE DEF F
  <2> QED
    BY <2>1, MinimalMember
<1>3. PICK m \in S : T = b .. m
  BY DEF F
<1>4. ASSUME NEW s \in S, s < m
      PROVE  FALSE
  <2>1. b .. s \subseteq T /\ b .. s # T
    BY <1>3, <1>4
  <2>2. b .. s \in F
    BY DEF F
  <2> QED
    BY <1>2, <2>1, <2>2
<1> QED
  BY <1>4
=============================================================================
