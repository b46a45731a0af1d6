-------------------------- MODULE CountingTheorems --------------------------
(***************************************************************************)
(* Facts about finite sets and sets of naturals that the proofs about the  *)
(* gate, the store and the Syncer share.                                   *)
(***************************************************************************)
EXTENDS Integers, FiniteSets, FiniteSetTheorems, WellFoundedInduction, NaturalsInduction, TLAPS

\* A non-empty set of naturals has a least member.
LEMMA SetOfNatHasMin ==
    ASSUME NEW T \in SUBSET Nat, T # {}
    PROVE  \E x \in T : \A y \in T : x <= y
<1> DEFINE R == OpToRel(<, Nat)
<1>1. IsWellFoundedOn(R, Nat)
  BY NatLessThanWellFounded
<1>2. \A x, y \in Nat : y < x => <<y, x>> \in R
  BY DEF OpToRel
<1> HIDE DEF R
<1>3. PICK x \in T : \A y \in T : ~(<<y, x>> \in R)
  BY <1>1, WFMin
<1>4. \A y \in T : ~(y < x)
  BY <1>2, <1>3
<1>5. \A y \in T : x <= y
  BY <1>4
<1> QED
  BY <1>5

\* A non-empty bounded set of naturals has a greatest member.
LEMMA BoundedSetHasMax ==
    ASSUME NEW n \in Nat, NEW T \in SUBSET (0..n), T # {}
    PROVE  \E x \in T : \A y \in T : y <= x
<1> DEFINE U == {n - t : t \in T}
<1>1. \A t \in T : n - t \in Nat
  OBVIOUS
<1>2. PICK t \in T : n - t \in U
  OBVIOUS
<1>3. U \in SUBSET Nat /\ U # {}
  BY <1>1, <1>2
<1>4. PICK u \in U : \A v \in U : u <= v
  <2> HIDE DEF U
  <2> QED
    BY <1>3, SetOfNatHasMin
<1>5. PICK x \in T : u = n - x
  OBVIOUS
<1>6. \A y \in T : n - x <= n - y
  BY <1>4, <1>5
<1>7. \A y \in T : y <= x
  BY <1>6
<1> QED
  BY <1>7

\* A subset of a finite set is finite and no larger.
LEMMA SubsetCount ==
    ASSUME NEW S, IsFiniteSet(S), NEW T \in SUBSET S
    PROVE  /\ IsFiniteSet(T)
           /\ Cardinality(T) \in Nat /\ Cardinality(S) \in Nat
           /\ Cardinality(T) <= Cardinality(S)
<1>1. IsFiniteSet(T) /\ Cardinality(T) <= Cardinality(S)
  BY FS_Subset
<1> QED
  BY <1>1, FS_CardinalityType

\* A set grows by one member.
LEMMA OneMore ==
    ASSUME NEW S, IsFiniteSet(S), NEW x, x \notin S
    PROVE  Cardinality(S) \in Nat /\ Cardinality(S \cup {x}) = Cardinality(S) + 1
BY FS_AddElement, FS_CardinalityType

\* A set loses one member.
LEMMA OneLess ==
    ASSUME NEW S, IsFiniteSet(S), NEW x \in S
    PROVE  /\ Cardinality(S) \in Nat \ {0}
           /\ Cardinality(S \ {x}) = Cardinality(S) - 1
<1>1. Cardinality(S) \in Nat /\ Cardinality(S) # 0
  BY FS_CardinalityType, FS_EmptySet
<1> QED
  BY <1>1, FS_RemoveElement

-----------------------------------------------------------------------------
(* The first members of a finite set in a strict total order, which is given *)
(* as a set of pairs.                                                        *)

StrictOrder(R, S) ==
    /\ \A x \in S : <<x, x>> \notin R
    /\ \A x, y, z \in S : <<x, y>> \in R /\ <<y, z>> \in R => <<x, z>> \in R
    /\ \A x, y \in S : x = y \/ <<x, y>> \in R \/ <<y, x>> \in R

Below(S, R, x) == {y \in S : <<y, x>> \in R}

\* ORDER BY R LIMIT n.
Lowest(S, R, n) == {x \in S : Cardinality(Below(S, R, x)) < n}

LEMMA BelowCount ==
    ASSUME NEW S, IsFiniteSet(S), NEW R, NEW x
    PROVE  IsFiniteSet(Below(S, R, x)) /\ Cardinality(Below(S, R, x)) \in Nat
<1>1. Below(S, R, x) \in SUBSET S
  BY DEF Below
<1> QED
  BY <1>1, SubsetCount

\* A later member has a higher rank.
LEMMA RankGrows ==
    ASSUME NEW S, IsFiniteSet(S), NEW R, StrictOrder(R, S), NEW x \in S, NEW y \in S,
           <<x, y>> \in R
    PROVE  Cardinality(Below(S, R, x)) < Cardinality(Below(S, R, y))
<1>1. x \notin Below(S, R, x)
  BY DEF Below, StrictOrder
<1>2. PICK A, B : A = Below(S, R, x) /\ B = Below(S, R, y)
  OBVIOUS
<1>3. A \cup {x} \in SUBSET B
  BY <1>2 DEF Below, StrictOrder
<1>4. IsFiniteSet(A) /\ IsFiniteSet(B)
  BY <1>2, BelowCount
<1>5. Cardinality(A) \in Nat /\ Cardinality(A \cup {x}) = Cardinality(A) + 1
  BY <1>1, <1>2, <1>4, OneMore
<1>6. Cardinality(B) \in Nat /\ Cardinality(A \cup {x}) <= Cardinality(B)
  BY <1>3, <1>4, SubsetCount
<1> QED
  BY <1>2, <1>5, <1>6

\* What is left out comes after what is not.
LEMMA LowestFirst ==
    ASSUME NEW S, IsFiniteSet(S), NEW R, StrictOrder(R, S), NEW n \in Nat,
           NEW x \in Lowest(S, R, n), NEW y \in S, y \notin Lowest(S, R, n)
    PROVE  <<x, y>> \in R
<1>1. PICK i \in Nat, j \in Nat : /\ i = Cardinality(Below(S, R, x))
                                  /\ j = Cardinality(Below(S, R, y))
  BY BelowCount
<1>2. x \in S /\ i < n /\ ~(j < n) /\ x # y
  BY <1>1 DEF Lowest
<1>3. <<y, x>> \notin R
  <2> SUFFICES ASSUME <<y, x>> \in R PROVE FALSE
    OBVIOUS
  <2>1. j < i
    BY <1>1, <1>2, RankGrows
  <2> QED
    BY <1>1, <1>2, <2>1
<1> QED
  BY <1>2, <1>3 DEF StrictOrder

\* There are at most n of them: a member's rank is its own.
LEMMA LowestBounded ==
    ASSUME NEW S, IsFiniteSet(S), NEW R, StrictOrder(R, S), NEW n \in Nat
    PROVE  /\ Lowest(S, R, n) \in SUBSET S /\ IsFiniteSet(Lowest(S, R, n))
           /\ Cardinality(Lowest(S, R, n)) \in Nat
           /\ Cardinality(Lowest(S, R, n)) <= n
<1>1. PICK K : K = Lowest(S, R, n)
  OBVIOUS
<1>2. K \in SUBSET S
  BY <1>1 DEF Lowest
<1>3. PICK rank : rank = [x \in K |-> Cardinality(Below(S, R, x))]
  OBVIOUS
<1>4. \A x \in K : rank[x] \in 0..(n - 1)
  BY <1>1, <1>2, <1>3, BelowCount DEF Lowest
<1>5. ASSUME NEW x \in K, NEW y \in K, rank[x] = rank[y] PROVE x = y
  <2>1. rank[x] \in Nat /\ rank[y] \in Nat
    BY <1>2, <1>3, BelowCount
  <2>2. <<x, y>> \notin R
    BY <1>2, <1>3, <1>5, <2>1, RankGrows
  <2>3. <<y, x>> \notin R
    BY <1>2, <1>3, <1>5, <2>1, RankGrows
  <2> QED
    BY <1>2, <2>2, <2>3 DEF StrictOrder
<1>6. rank \in Injection(K, 0..(n - 1))
  BY <1>3, <1>4, <1>5 DEF Injection, IsInjective
<1>7. IsFiniteSet(0..(n - 1)) /\ Cardinality(0..(n - 1)) = n
  BY FS_Interval
<1>8. Cardinality(K) <= n
  BY <1>6, <1>7, FS_Injection
<1>9. IsFiniteSet(K) /\ Cardinality(K) \in Nat
  BY <1>2, SubsetCount
<1> QED
  BY <1>1, <1>2, <1>8, <1>9

\* There are n of them, or nothing is left out.
LEMMA LowestFull ==
    ASSUME NEW S, IsFiniteSet(S), NEW R, StrictOrder(R, S), NEW n \in Nat,
           Lowest(S, R, n) # S
    PROVE  Cardinality(Lowest(S, R, n)) = n
<1>1. PICK K : K = Lowest(S, R, n)
  OBVIOUS
<1>2. K \in SUBSET S /\ IsFiniteSet(K) /\ Cardinality(K) \in Nat /\ Cardinality(K) <= n
  BY <1>1, LowestBounded
<1>3. PICK T : T = {Cardinality(Below(S, R, x)) : x \in S \ K}
  OBVIOUS
<1>4. T \in SUBSET Nat /\ T # {}
  BY <1>1, <1>2, <1>3, BelowCount
<1>5. PICK i \in T : \A j \in T : i <= j
  BY <1>4, SetOfNatHasMin
<1>6. PICK y \in S \ K : i = Cardinality(Below(S, R, y))
  BY <1>3, <1>5
<1>7. Below(S, R, y) \in SUBSET K
  <2> SUFFICES ASSUME NEW x \in Below(S, R, y), x \notin K PROVE FALSE
    OBVIOUS
  <2>1. x \in S /\ <<x, y>> \in R
    BY DEF Below
  <2>2. Cardinality(Below(S, R, x)) < i
    BY <1>6, <2>1, RankGrows
  <2>3. PICK j \in T : j = Cardinality(Below(S, R, x))
    BY <1>3, <2>1
  <2>4. i \in Nat /\ j \in Nat /\ i <= j /\ j < i
    BY <1>4, <1>5, <2>2, <2>3
  <2> QED
    BY <2>4
<1>8. i \in Nat /\ i <= Cardinality(K)
  BY <1>2, <1>4, <1>6, <1>7, SubsetCount
<1>9. ~(i < n)
  BY <1>1, <1>6 DEF Lowest
<1> QED
  BY <1>1, <1>2, <1>8, <1>9

\* Nothing is left out of a set that is small enough.
LEMMA LowestAll ==
    ASSUME NEW S, IsFiniteSet(S), NEW R, StrictOrder(R, S), NEW n \in Nat,
           Cardinality(S) <= n
    PROVE  Lowest(S, R, n) = S
<1>1. ASSUME NEW x \in S PROVE x \in Lowest(S, R, n)
  <2>1. Below(S, R, x) \in SUBSET (S \ {x})
    BY DEF Below, StrictOrder
  <2>2. /\ Cardinality(S) \in Nat \ {0} /\ Cardinality(S \ {x}) = Cardinality(S) - 1
        /\ IsFiniteSet(S \ {x})
    BY OneLess, SubsetCount
  <2>3. /\ Cardinality(Below(S, R, x)) \in Nat
        /\ Cardinality(Below(S, R, x)) <= Cardinality(S \ {x})
    BY <2>1, <2>2, SubsetCount
  <2> QED
    BY <2>2, <2>3 DEF Lowest
<1> QED
  BY <1>1 DEF Lowest

=============================================================================
