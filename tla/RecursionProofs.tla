-------------------------- MODULE RecursionProofs --------------------------
(***************************************************************************)
(* Lemmas about numbers and recursion that the proofs of several modules   *)
(* rest on: least and greatest elements, and when a recursive definition   *)
(* has a solution.                                                         *)
(***************************************************************************)
EXTENDS Integers, FiniteSets, FiniteSetsExt, FiniteSetTheorems, WellFoundedInduction, TLAPS

\* Every set of natural numbers that is not empty has a least element.
LEMMA LeastNumber ==
  ASSUME NEW S \in SUBSET Nat, S # {}
  PROVE  \E n \in S : \A m \in S : n <= m
<1>1. PICK n \in S : \A m \in S : ~ (<<m, n>> \in OpToRel(<, Nat))
  BY NatLessThanWellFounded, WFMin
<1>2. \A m \in S : ~ (m < n)
  BY <1>1 DEF OpToRel
<1> QED BY <1>2

\* A set of numbers with a bound has a greatest element.
LEMMA MaxBounds ==
  ASSUME NEW n \in Nat, NEW S \in SUBSET (0 .. n), S # {}
  PROVE  Max(S) \in S /\ \A x \in S : x <= Max(S)
<1> DEFINE T == {n - x : x \in S}
<1>1. T \subseteq Nat /\ T # {}
  <2>1. \A x \in S : n - x \in Nat
    OBVIOUS
  <2>2. PICK x \in S : TRUE
    OBVIOUS
  <2>3. n - x \in T
    OBVIOUS
  <2> QED BY <2>1, <2>3
<1>2. PICK t \in T : \A u \in T : t <= u
  <2> HIDE DEF T
  <2> QED BY <1>1, LeastNumber
<1>3. \A u \in T : ~ (u < t)
  <2>1. \A u \in T : u \in Nat
    BY <1>1
  <2> HIDE DEF T
  <2> QED BY <2>1, <1>2
<1>4. PICK m \in S : t = n - m
  OBVIOUS
<1>5. \A x \in S : m >= x
  <2> TAKE x \in S
  <2>1. ~ (n - x < n - m)
    BY <1>3, <1>4
  <2>2. m \in Nat /\ x \in Nat
    OBVIOUS
  <2> HIDE DEF T
  <2> QED BY <2>1, <2>2
<1> QED BY <1>4, <1>5 DEF Max

\* A finite set of integers has a least element.
LEMMA MinBounds ==
  ASSUME NEW S \in SUBSET Int, IsFiniteSet(S), S # {}
  PROVE  Min(S) \in S /\ \A x \in S : Min(S) <= x
<1> DEFINE Below(x) == {y \in S : y < x}
           Sizes == {n \in Nat : \E x \in S : Cardinality(Below(x)) = n}
<1>0. \A x \in S : x \in Int
  OBVIOUS
<1>1. \A x \in S : IsFiniteSet(Below(x)) /\ Cardinality(Below(x)) \in Nat
  BY FS_Subset, FS_CardinalityType
<1>2. PICK n \in Sizes : \A k \in Sizes : n <= k
  <2>1. Sizes \in SUBSET Nat /\ Sizes # {}
    BY <1>1
  <2> HIDE DEF Sizes
  <2> QED BY <2>1, LeastNumber
<1>3. PICK x \in S : Cardinality(Below(x)) = n
  OBVIOUS
<1>4. \A y \in S : x <= y
  <2> SUFFICES ASSUME NEW y \in S, y < x PROVE FALSE
    BY <1>0
  <2>1. Below(y) \subseteq Below(x) /\ y \in Below(x) /\ y \notin Below(y)
    <3>1. x \in Int /\ y \in Int /\ y < x
      BY <1>0
    <3>2. \A z \in S : z < y => z < x
      BY <1>0, <3>1
    <3>3. ~ (y < y)
      BY <3>1
    <3> QED BY <3>1, <3>2, <3>3
  <2>2. Cardinality(Below(y)) < Cardinality(Below(x))
    <3>1. Below(y) # Below(x) /\ IsFiniteSet(Below(x)) /\ Below(y) \subseteq Below(x)
      BY <2>1, <1>1
    <3>2. /\ Cardinality(Below(y)) <= Cardinality(Below(x))
          /\ Cardinality(Below(y)) = Cardinality(Below(x)) => Below(y) = Below(x)
      <4> HIDE DEF Below
      <4> QED BY <3>1, FS_Subset
    <3>3. Cardinality(Below(y)) \in Nat /\ Cardinality(Below(x)) \in Nat
      BY <1>1
    <3> HIDE DEF Below
    <3> QED BY <3>1, <3>2, <3>3
  <2>3. Cardinality(Below(y)) \in Sizes
    BY <1>1
  <2> HIDE DEF Below, Sizes
  <2> QED BY <2>2, <2>3, <1>1, <1>2, <1>3
<1> QED BY <1>3, <1>4 DEF Min

\* F[f] is what a recursive definition makes of f.  If its value at p depends on f at
\* arguments of a lower measure only, then the definition has a solution.
Descends(F, S, V, h) ==
  \A f, g \in [S -> V] : \A p \in S :
    (\A q \in S : h[q] < h[p] => f[q] = g[q]) => F[f][p] = F[g][p]

Recursive(F, S, V, h, N) ==
  /\ F \in [[S -> V] -> [S -> V]] /\ [S -> V] # {}
  /\ h \in [S -> Nat] /\ N \in Nat /\ \A p \in S : h[p] < N
  /\ Descends(F, S, V, h)

LEMMA RecursionHasSolution ==
  ASSUME NEW F, NEW S, NEW V, NEW h, NEW N, Recursive(F, S, V, h, N)
  PROVE  \E f \in [S -> V] : f = F[f]
<1> DEFINE Solves(f, n) == \A p \in S : h[p] < n => f[p] = F[f][p]
           Bad == {n \in Nat : ~ \E f \in [S -> V] : Solves(f, n)}
<1> USE DEF Recursive
<1>1. Bad = {}
  <2> SUFFICES ASSUME Bad # {} PROVE FALSE
    OBVIOUS
  <2>1. PICK n \in Bad : \A k \in Bad : n <= k
    <3>1. Bad \in SUBSET Nat
      OBVIOUS
    <3> HIDE DEF Bad
    <3> QED BY <3>1, LeastNumber
  <2>2. n # 0
    <3> PICK f0 \in [S -> V] : TRUE
      OBVIOUS
    <3>1. Solves(f0, 0)
      OBVIOUS
    <3> HIDE DEF Solves
    <3> QED BY <3>1
  <2>3. n \in Nat /\ n - 1 \in Nat
    BY <2>2
  <2>4. PICK f \in [S -> V] : Solves(f, n - 1)
    <3>1. n - 1 \notin Bad
      <4> HIDE DEF Bad
      <4> QED BY <2>1, <2>3
    <3> HIDE DEF Solves
    <3> QED BY <2>3, <3>1
  <2> DEFINE g == F[f]
  <2>5. g \in [S -> V]
    OBVIOUS
  <2>6. Solves(g, n)
    <3> SUFFICES ASSUME NEW p \in S, h[p] < n PROVE F[f][p] = F[g][p]
      OBVIOUS
    <3>1. ASSUME NEW q \in S, h[q] < h[p] PROVE f[q] = g[q]
      <4>1. h[q] < n - 1
        BY <2>3, <3>1
      <4> QED BY <4>1, <2>4
    <3> HIDE DEF g
    <3> QED BY <3>1, <2>5 DEF Descends
  <2> HIDE DEF Solves, g
  <2> QED BY <2>1, <2>5, <2>6
<1>2. PICK f \in [S -> V] : Solves(f, N)
  <2> HIDE DEF Solves
  <2> QED BY <1>1
<1>3. \A p \in S : f[p] = F[f][p]
  BY <1>2
<1>4. F[f] \in [S -> V]
  OBVIOUS
<1>5. f = F[f]
  BY <1>3, <1>4
<1> QED BY <1>5
=============================================================================
