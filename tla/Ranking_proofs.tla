----------------------------- MODULE Ranking_proofs ----------------------------
(***************************************************************************)
(* What an ORDER BY returns: every element of the set, each once.           *)
(***************************************************************************)
EXTENDS Ranking, FiniteSetTheorems, TLAPS

\* An element has a rank of its own.
LEMMA RankRange ==
    ASSUME NEW S, IsFiniteSet(S), NEW before, Ordering(S, before), NEW x \in S
    PROVE  Rank(x, S, before) \in 1 .. Cardinality(S)
<1> DEFINE below == {y \in S : <<y, x>> \in before}
<1>1. below \in SUBSET (S \ {x})
  BY DEF Ordering
<1>2. IsFiniteSet(S \ {x}) /\ Cardinality(S \ {x}) = Cardinality(S) - 1
  BY FS_RemoveElement
<1> HIDE DEF below
<1>3. IsFiniteSet(below) /\ Cardinality(below) <= Cardinality(S) - 1
  <2>1. PICK rest : rest = S \ {x}
    OBVIOUS
  <2>2. IsFiniteSet(rest) /\ below \in SUBSET rest
    BY <1>1, <1>2, <2>1
  <2>3. IsFiniteSet(below) /\ Cardinality(below) <= Cardinality(rest)
    BY <2>2, FS_Subset
  <2> QED BY <1>2, <2>1, <2>3
<1>4. Cardinality(below) \in Nat /\ Cardinality(S) \in Nat
  BY <1>3, FS_CardinalityType
<1> QED BY <1>3, <1>4 DEF Rank, below

LEMMA RankGrows ==
    ASSUME NEW S, IsFiniteSet(S), NEW before, Ordering(S, before), NEW x \in S, NEW y \in S,
           <<x, y>> \in before
    PROVE  Rank(x, S, before) < Rank(y, S, before)
<1> DEFINE below(z) == {w \in S : <<w, z>> \in before}
<1>1. below(x) \in SUBSET S /\ x \notin below(x)
  BY DEF Ordering
<1>2. below(x) \union {x} \in SUBSET below(y) /\ below(y) \in SUBSET S
  BY DEF Ordering
<1>3. IsFiniteSet(below(x)) /\ IsFiniteSet(below(y))
  BY <1>1, <1>2, FS_Subset
<1>4. Cardinality(below(x) \union {x}) = Cardinality(below(x)) + 1
  BY <1>1, <1>3, FS_AddElement
<1>5. Cardinality(below(x) \union {x}) <= Cardinality(below(y))
  BY <1>2, <1>3, FS_Subset
<1>6. Cardinality(below(x)) \in Nat /\ Cardinality(below(y)) \in Nat
  BY <1>3, FS_CardinalityType
<1>7. Rank(x, S, before) = Cardinality(below(x)) + 1 /\ Rank(y, S, before) = Cardinality(below(y)) + 1
  BY DEF Rank
<1> HIDE DEF below
<1> QED BY <1>4, <1>5, <1>6, <1>7

\* Every row is returned, in one place.
LEMMA InOrderIsBijection ==
    ASSUME NEW S, IsFiniteSet(S), NEW before, Ordering(S, before)
    PROVE  /\ InOrder(S, before) \in [1 .. Cardinality(S) -> S]
           /\ \A m, n \in 1 .. Cardinality(S) : InOrder(S, before)[m] = InOrder(S, before)[n] => m = n
           /\ \A x \in S : InOrder(S, before)[Rank(x, S, before)] = x
           /\ \A n \in 1 .. Cardinality(S) : Rank(InOrder(S, before)[n], S, before) = n
<1> DEFINE N == 1 .. Cardinality(S)
           rank == [x \in S |-> Rank(x, S, before)]
<1>1. Cardinality(S) \in Nat
  BY FS_CardinalityType
<1>2. IsFiniteSet(N) /\ Cardinality(N) = Cardinality(S)
  BY <1>1, FS_Interval
<1>3. \A x, y \in S : Rank(x, S, before) = Rank(y, S, before) => x = y
  <2> SUFFICES ASSUME NEW x \in S, NEW y \in S, x # y PROVE Rank(x, S, before) # Rank(y, S, before)
    OBVIOUS
  <2>1. Rank(x, S, before) \in Nat /\ Rank(y, S, before) \in Nat
    BY <1>1, RankRange
  <2>2. <<x, y>> \in before \/ <<y, x>> \in before
    BY DEF Ordering
  <2> QED BY <2>1, <2>2, RankGrows
<1>4. rank \in Injection(S, N)
  BY <1>3, RankRange DEF Injection, IsInjective
<1>5. rank \in Surjection(S, N)
  <2> HIDE DEF rank, N
  <2> QED BY <1>2, <1>4, FS_Injection
<1>6. \A n \in N : \E x \in S : Rank(x, S, before) = n
  BY <1>5 DEF Surjection
<1>7. ASSUME NEW n \in N PROVE InOrder(S, before)[n] \in S /\ Rank(InOrder(S, before)[n], S, before) = n
  <2>1. InOrder(S, before)[n] = CHOOSE x \in S : Rank(x, S, before) = n
    BY DEF InOrder
  <2> HIDE DEF N
  <2>2. \E x \in S : Rank(x, S, before) = n
    BY <1>6
  <2> QED BY <2>1, <2>2, Zenon
<1>8. InOrder(S, before) \in [N -> S]
  BY <1>7 DEF InOrder
<1> QED BY <1>3, <1>7, <1>8, RankRange

\* A set of positions has a last one.
LEMMA LastOne ==
    ASSUME NEW n \in Nat, NEW S \in SUBSET (1 .. n), S # {}
    PROVE  \E x \in S : \A y \in S : y <= x
<1> DEFINE before == {pair \in S \X S : pair[1] < pair[2]}
           c      == Cardinality(S)
           x      == InOrder(S, before)[c]
<1>1. IsFiniteSet(S) /\ c \in Nat /\ c # 0
  <2>1. IsFiniteSet(1 .. n)
    BY FS_Interval
  <2>2. IsFiniteSet(S)
    BY <2>1, FS_Subset
  <2> QED BY <2>2, FS_CardinalityType, FS_EmptySet
<1>2. \A a, b \in S : <<a, b>> \in before <=> a < b
  OBVIOUS
<1>3. \A a \in S : a \in Nat
  OBVIOUS
<1> HIDE DEF before
<1>4. Ordering(S, before)
  BY <1>2, <1>3 DEF Ordering
<1> HIDE DEF c
<1>5. x \in S /\ Rank(x, S, before) = c
  BY <1>1, <1>4, InOrderIsBijection DEF c
<1> HIDE DEF x
<1>6. ASSUME NEW y \in S PROVE y <= x
  <2>1. Rank(y, S, before) \in 1 .. c
    BY <1>1, <1>4, RankRange DEF c
  <2>2. CASE x < y
    <3>1. <<x, y>> \in before
      BY <1>2, <1>5, <2>2
    <3>2. Rank(x, S, before) < Rank(y, S, before)
      BY <1>1, <1>4, <1>5, <3>1, RankGrows
    <3> QED BY <1>1, <1>5, <2>1, <3>2
  <2> QED BY <1>3, <1>5, <2>2
<1> QED BY <1>5, <1>6

\* And a first one.
LEMMA FirstOne ==
    ASSUME NEW n \in Nat, NEW S \in SUBSET (1 .. n), S # {}
    PROVE  \E x \in S : \A y \in S : x <= y
<1> DEFINE mirror == {n + 1 - x : x \in S}
<1>1. mirror \in SUBSET (1 .. n) /\ mirror # {}
  <2>1. \A x \in S : n + 1 - x \in 1 .. n
    OBVIOUS
  <2> QED BY <2>1
<1>2. \A x \in S : n + 1 - x \in mirror
  OBVIOUS
<1>3. \A z \in mirror : \E x \in S : z = n + 1 - x
  OBVIOUS
<1> HIDE DEF mirror
<1>4. PICK z \in mirror : \A y \in mirror : y <= z
  BY <1>1, LastOne
<1>5. PICK x \in S : z = n + 1 - x
  BY <1>3
<1>6. \A y \in S : x <= y
  BY <1>2, <1>4, <1>5
<1> QED BY <1>6

===============================================================================
