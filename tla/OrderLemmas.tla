---------------------------- MODULE OrderLemmas ----------------------------
(***************************************************************************)
(* Facts about sets of naturals that the proofs of several components      *)
(* need: a least member, the n-th member, and lists made of the members in *)
(* their order.                                                            *)
(***************************************************************************)
EXTENDS Integers, Sequences, FiniteSetTheorems, TLAPS

\* The least member of a set, from the fact that strict inclusion of finite
\* sets is well founded.  A proof by induction on n \in Nat takes it for the set
\* of counterexamples.
LEMMA LeastMember ==
  ASSUME NEW T \in SUBSET Nat, T # {}
  PROVE  \E n \in T : \A m \in T : n <= m
<1> DEFINE U == {1..n : n \in T}
           R == StrictSubsetOrdering(Nat)
<1>1. U \subseteq FiniteSubsetsOf(Nat)
  BY FS_Interval DEF FiniteSubsetsOf
<1>2. IsWellFoundedOn(R, FiniteSubsetsOf(Nat))
  BY FS_StrictSubsetOrderingWellFounded
<1>3. \E u \in U : \A v \in U : <<v, u>> \notin R
  <2>1. U # {}
    OBVIOUS
  <2> HIDE DEF U, R
  <2> QED
    BY <1>1, <1>2, <2>1, WFMin
<1>4. PICK n \in T : \A m \in T : <<1..m, 1..n>> \notin R
  BY <1>3
<1>5. \A m \in T : m < n => <<1..m, 1..n>> \in R
  BY DEF StrictSubsetOrdering
<1>6. \A m \in T : ~(m < n)
  BY <1>4, <1>5
<1> HIDE DEF U, R
<1> QED
  BY <1>6

\* How many members of S are not above n.
Rank(S, n) == Cardinality({m \in S : m <= n})

\* The i-th member of S.
NthOf(S, i) == CHOOSE n \in S : Rank(S, n) = i

LEMMA RankGrows ==
  ASSUME NEW S \in SUBSET Nat, IsFiniteSet(S), NEW x \in S, NEW y \in S, x < y
  PROVE  Rank(S, x) < Rank(S, y)
<1> DEFINE X == {m \in S : m <= x}
           Y == {m \in S : m <= y}
<1>1. IsFiniteSet(Y) /\ IsFiniteSet(X)
  BY FS_Subset
<1>2. X \in SUBSET Y /\ y \in Y /\ y \notin X
  <2>1. \A m \in S : m <= x => m <= y
    OBVIOUS
  <2>2. y <= y /\ ~(y <= x)
    OBVIOUS
  <2> QED
    BY <2>1, <2>2
<1>3. Cardinality(X) <= Cardinality(Y) /\ Cardinality(X) # Cardinality(Y)
  BY <1>1, <1>2, FS_Subset
<1>4. Cardinality(X) \in Nat /\ Cardinality(Y) \in Nat
  BY <1>1, FS_CardinalityType
<1> QED
  BY <1>3, <1>4 DEF Rank

LEMMA RankType ==
  ASSUME NEW S \in SUBSET Nat, IsFiniteSet(S), NEW x \in S
  PROVE  Rank(S, x) \in 1..Cardinality(S)
<1> DEFINE X == {m \in S : m <= x}
<1>1. IsFiniteSet(X) /\ Cardinality(X) <= Cardinality(S) /\ x \in X
  BY FS_Subset
<1>2. Cardinality(X) \in Nat /\ Cardinality(X) # 0 /\ Cardinality(S) \in Nat
  BY <1>1, FS_CardinalityType, FS_EmptySet
<1> QED
  BY <1>1, <1>2 DEF Rank

\* Each place from 1 to the size of the set has its member.
LEMMA NthMember ==
  ASSUME NEW S \in SUBSET Nat, IsFiniteSet(S), NEW i \in 1..Cardinality(S)
  PROVE  NthOf(S, i) \in S /\ Rank(S, NthOf(S, i)) = i
<1> SUFFICES ASSUME \A n \in S : Rank(S, n) # i PROVE FALSE
  BY DEF NthOf
<1> DEFINE T == (1..Cardinality(S)) \ {i}
           f == [n \in S |-> Rank(S, n)]
<1>1. Cardinality(S) \in Nat
  BY FS_CardinalityType
<1>2. IsFiniteSet(T) /\ Cardinality(T) < Cardinality(S)
  <2>1. IsFiniteSet(1..Cardinality(S)) /\ Cardinality(1..Cardinality(S)) = Cardinality(S)
    BY <1>1, FS_Interval
  <2> QED
    <3>1. /\ IsFiniteSet((1..Cardinality(S)) \ {i})
          /\ Cardinality((1..Cardinality(S)) \ {i}) = Cardinality(1..Cardinality(S)) - 1
      BY <2>1, FS_RemoveElement
    <3> QED
      BY <1>1, <2>1, <3>1
<1>3. f \in [S -> T]
  BY RankType
<1>4. \E x, y \in S : x # y /\ f[x] = f[y]
  <2> HIDE DEF f, T
  <2> QED
    BY <1>2, <1>3, FS_PigeonHole
<1>5. PICK x \in S, y \in S : x # y /\ Rank(S, x) = Rank(S, y)
  BY <1>4
<1>6. CASE x < y
  BY <1>1, <1>5, <1>6, RankGrows, RankType
<1>7. CASE y < x
  BY <1>1, <1>5, <1>7, RankGrows, RankType
<1> QED
  BY <1>5, <1>6, <1>7

\* And each member its place.
LEMMA PlaceOf ==
  ASSUME NEW S \in SUBSET Nat, IsFiniteSet(S), NEW n \in S
  PROVE  Rank(S, n) \in 1..Cardinality(S) /\ NthOf(S, Rank(S, n)) = n
<1> DEFINE k == NthOf(S, Rank(S, n))
<1>1. Rank(S, n) \in 1..Cardinality(S)
  BY RankType
<1>2. k \in S /\ Rank(S, k) = Rank(S, n) /\ Rank(S, n) \in Nat
  BY <1>1, NthMember
<1> HIDE DEF k
<1>3. ~(n < k)
  BY <1>2, RankGrows
<1>4. ~(k < n)
  BY <1>2, RankGrows
<1>5. k \in Nat /\ n \in Nat
  BY <1>2
<1>6. k = n
  BY <1>3, <1>4, <1>5
<1> QED
  BY <1>1, <1>6 DEF k

\* The members of S in their order.
LEMMA InOrder ==
  ASSUME NEW S \in SUBSET Nat, IsFiniteSet(S), NEW f,
         DOMAIN f = 1..Cardinality(S), f = [i \in DOMAIN f |-> f[i]],
         \A i \in 1..Cardinality(S) : f[i] = NthOf(S, i)
  PROVE  /\ f \in Seq(S) /\ Len(f) = Cardinality(S) /\ DOMAIN f = 1..Cardinality(S)
         /\ \A i, j \in DOMAIN f : i < j => f[i] < f[j]
         /\ \A n \in S : \E i \in DOMAIN f : f[i] = n
<1>1. Cardinality(S) \in Nat
  BY FS_CardinalityType
<1>2. \A i \in 1..Cardinality(S) : f[i] \in S /\ Rank(S, f[i]) = i
  BY NthMember
<1>3. f \in Seq(S) /\ Len(f) = Cardinality(S) /\ DOMAIN f = 1..Cardinality(S)
  BY <1>1, <1>2
<1>4. ASSUME NEW i \in DOMAIN f, NEW j \in DOMAIN f, i < j, ~(f[i] < f[j]) PROVE FALSE
  <2>1. f[i] \in S /\ f[j] \in S /\ Rank(S, f[i]) = i /\ Rank(S, f[j]) = j
    BY <1>2, <1>3
  <2>2. CASE f[j] < f[i]
    <3>1. Rank(S, f[j]) < Rank(S, f[i])
      BY <2>1, <2>2, RankGrows
    <3> QED
      BY <1>1, <1>3, <1>4, <2>1, <3>1
  <2>3. CASE f[j] = f[i]
    BY <1>1, <1>3, <1>4, <2>1, <2>3
  <2>4. f[i] \in Nat /\ f[j] \in Nat
    BY <2>1
  <2> QED
    BY <1>4, <2>2, <2>3, <2>4
<1>5. ASSUME NEW n \in S PROVE \E i \in DOMAIN f : f[i] = n
  BY <1>3, <1>5, PlaceOf
<1> QED
  BY <1>3, <1>4, <1>5
=============================================================================
