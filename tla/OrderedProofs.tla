---------------------------- MODULE OrderedProofs ----------------------------
(***************************************************************************)
(* Sorting by an order that never ties puts everything in one place, and   *)
(* in order; and the least element and induction over the natural numbers, *)
(* from the well-foundedness of <.                                         *)
(***************************************************************************)
EXTENDS Ordered, FiniteSetTheorems, WellFoundedInduction, TLAPS

\* A set of natural numbers has a least element, if it has any.
LEMMA Least ==
  ASSUME NEW T \in SUBSET Nat, T # {}
  PROVE  \E m \in T : \A k \in T : m <= k
<1>1. PICK m \in T : \A k \in T : ~(<<k, m>> \in OpToRel(<, Nat))
  BY NatLessThanWellFounded, WFMin
<1>2. \A k \in T : ~(k < m)
  BY <1>1 DEF OpToRel
<1> QED
  BY <1>2

\* Induction: a set with 0 and every successor is all of them.
LEMMA Induct ==
  ASSUME NEW S \in SUBSET Nat, 0 \in S, \A n \in S : n + 1 \in S
  PROVE  S = Nat
<1>1. SUFFICES ASSUME Nat \ S # {} PROVE FALSE
  OBVIOUS
<1>2. PICK m \in Nat \ S : \A k \in Nat \ S : m <= k
  BY <1>1, Least
<1>3. m # 0 /\ m - 1 \in Nat
  BY <1>2
<1>4. m - 1 \in S
  BY <1>2, <1>3
<1> QED
  BY <1>2, <1>3, <1>4

-----------------------------------------------------------------------------

LEMMA AheadFinite ==
  ASSUME NEW S, IsFiniteSet(S), NEW R, NEW x
  PROVE  IsFiniteSet(Ahead(S, R, x)) /\ Cardinality(Ahead(S, R, x)) \in Nat
<1>1. Ahead(S, R, x) \in SUBSET S
  BY DEF Ahead
<1>2. IsFiniteSet(Ahead(S, R, x))
  BY <1>1, FS_Subset
<1> QED
  BY <1>2, FS_CardinalityType

\* Of two elements, the one ahead has fewer ahead of it.
LEMMA FewerAhead ==
  ASSUME NEW S, IsFiniteSet(S), NEW R, NeverTies(S, R),
         NEW x \in S, NEW z \in S, <<x, z>> \in R
  PROVE  Cardinality(Ahead(S, R, x)) < Cardinality(Ahead(S, R, z))
<1>1. Ahead(S, R, x) \subseteq Ahead(S, R, z)
  BY DEF Ahead, NeverTies
<1>2. x \in Ahead(S, R, z) /\ x \notin Ahead(S, R, x)
  BY DEF Ahead, NeverTies
<1>3. IsFiniteSet(Ahead(S, R, z))
  BY FS_Subset DEF Ahead
<1>4. Ahead(S, R, x) \in SUBSET Ahead(S, R, z)
  BY <1>1
<1>5. /\ IsFiniteSet(Ahead(S, R, x))
      /\ Cardinality(Ahead(S, R, x)) <= Cardinality(Ahead(S, R, z))
      /\ Cardinality(Ahead(S, R, z)) = Cardinality(Ahead(S, R, x))
           => Ahead(S, R, z) = Ahead(S, R, x)
  BY <1>3, <1>4, FS_Subset, Zenon
<1>6. Cardinality(Ahead(S, R, x)) \in Nat /\ Cardinality(Ahead(S, R, z)) \in Nat
  BY <1>3, <1>5, FS_CardinalityType
<1> QED
  BY <1>2, <1>5, <1>6

\* Every place is someone's.
LEMMA EveryPlace ==
  ASSUME NEW S, IsFiniteSet(S), NEW R, NeverTies(S, R)
  PROVE  /\ Cardinality(S) \in Nat
         /\ \A x \in S : Cardinality(Ahead(S, R, x)) + 1 \in 1..Cardinality(S)
         /\ \A j \in 1..Cardinality(S) :
              \E x \in S : Cardinality(Ahead(S, R, x)) = j - 1
<1> DEFINE N == Cardinality(S)
           place == [x \in S |-> Cardinality(Ahead(S, R, x)) + 1]
<1>1. N \in Nat
  BY FS_CardinalityType
<1>2. \A x \in S : Cardinality(Ahead(S, R, x)) + 1 \in 1..N
  <2> TAKE x \in S
  <2>1. Ahead(S, R, x) \in SUBSET (S \ {x})
    BY DEF Ahead, NeverTies
  <2>2. IsFiniteSet(S \ {x}) /\ Cardinality(S \ {x}) = N - 1
    BY FS_RemoveElement
  <2>3. IsFiniteSet(Ahead(S, R, x)) /\ Cardinality(Ahead(S, R, x)) <= N - 1
    BY <2>1, <2>2, FS_Subset
  <2>4. Cardinality(Ahead(S, R, x)) \in Nat
    BY <2>3, FS_CardinalityType
  <2> QED
    BY <1>1, <2>3, <2>4
<1>3. \A x, z \in S : place[x] = place[z] => x = z
  <2> SUFFICES ASSUME NEW x \in S, NEW z \in S, x # z
               PROVE  Cardinality(Ahead(S, R, x)) # Cardinality(Ahead(S, R, z))
    BY AheadFinite
  <2>1. <<x, z>> \in R \/ <<z, x>> \in R
    BY DEF NeverTies
  <2>2. CASE <<x, z>> \in R
    BY <2>2, AheadFinite, FewerAhead
  <2>3. CASE <<z, x>> \in R
    BY <2>3, AheadFinite, FewerAhead
  <2> QED
    BY <2>1, <2>2, <2>3
<1>4. place \in Injection(S, 1..N)
  BY <1>2, <1>3 DEF Injection, IsInjective
<1>5. IsFiniteSet(1..N) /\ Cardinality(1..N) = N
  BY <1>1, FS_Interval
<1>6. place \in Surjection(S, 1..N)
  BY <1>4, <1>5, FS_Injection
<1>7. \A j \in 1..N : \E x \in S : place[x] = j
  BY <1>6 DEF Surjection
<1>8. ASSUME NEW j \in 1..N
      PROVE  \E x \in S : Cardinality(Ahead(S, R, x)) = j - 1
  <2>1. PICK x \in S : Cardinality(Ahead(S, R, x)) + 1 = j
    BY <1>7
  <2>2. Cardinality(Ahead(S, R, x)) \in Int
    BY AheadFinite
  <2> QED
    BY <2>1, <2>2
<1> QED
  BY <1>1, <1>2, <1>8

\* What sorting by an order that never ties gives: each element has one
\* place, and who is ahead of whom is as the order says.  The screens sort
\* their rows, menus and labels so (options, Sorted, Topk, Ends).
THEOREM InOrderCorrect ==
  ASSUME NEW S, IsFiniteSet(S), NEW R, NeverTies(S, R)
  PROVE  /\ Cardinality(S) \in Nat
         /\ InOrder(S, R) \in [1..Cardinality(S) -> S]
         /\ \A x \in S : \E j \in 1..Cardinality(S) : InOrder(S, R)[j] = x
         /\ \A i, j \in 1..Cardinality(S) :
              i < j => /\ <<InOrder(S, R)[i], InOrder(S, R)[j]>> \in R
                       /\ InOrder(S, R)[i] # InOrder(S, R)[j]
<1> DEFINE N == Cardinality(S)
           s == InOrder(S, R)
           before(x) == Cardinality(Ahead(S, R, x))
<1>1. N \in Nat
  BY EveryPlace
<1>2. ASSUME NEW j \in 1..N
      PROVE  s[j] \in S /\ before(s[j]) = j - 1
  <2>1. s[j] = CHOOSE x \in S : before(x) = j - 1
    BY DEF InOrder
  <2>2. \E x \in S : before(x) = j - 1
    BY EveryPlace
  <2> HIDE DEF before, s
  <2> QED
    BY <2>1, <2>2
<1>3. \A x, z \in S : <<x, z>> \in R => before(x) < before(z)
  BY FewerAhead
<1>4. \A x \in S : before(x) \in Nat
  BY AheadFinite
<1>5. \A x, z \in S : x # z => <<x, z>> \in R \/ <<z, x>> \in R
  BY DEF NeverTies
<1>6. s \in [1..N -> S]
  <2>1. s = [j \in 1..N |-> CHOOSE x \in S : before(x) = j - 1]
    BY DEF InOrder
  <2>2. \A j \in 1..N : s[j] \in S
    BY <1>2
  <2>3. \A j \in 1..N : (CHOOSE x \in S : before(x) = j - 1) \in S
    BY <2>1, <2>2
  <2> HIDE DEF s, before
  <2> QED
    BY <2>1, <2>3
<1>7. ASSUME NEW i \in 1..N, NEW j \in 1..N, i < j
      PROVE  <<s[i], s[j]>> \in R /\ s[i] # s[j]
  <2>1. /\ s[i] \in S /\ before(s[i]) = i - 1
        /\ s[j] \in S /\ before(s[j]) = j - 1
    BY <1>2
  <2>2. i \in Int /\ j \in Int /\ i < j
    BY <1>1, <1>7
  <2>3. s[i] # s[j] /\ ~(before(s[j]) < before(s[i]))
    <3> HIDE DEF before, s
    <3> QED
      BY <2>1, <2>2
  <2> HIDE DEF before, s
  <2> QED
    BY <1>3, <1>5, <2>1, <2>3
<1>8. ASSUME NEW x \in S
      PROVE  \E j \in 1..N : s[j] = x
  <2>1. before(x) + 1 \in 1..N
    BY EveryPlace
  <2>2. /\ s[before(x) + 1] \in S
        /\ before(s[before(x) + 1]) = before(x)
    BY <1>2, <1>4, <2>1
  <2>3. ~(before(x) < before(s[before(x) + 1])) /\ ~(before(s[before(x) + 1]) < before(x))
    BY <1>4, <2>2
  <2>4. s[before(x) + 1] = x
    <3> HIDE DEF before, s
    <3> QED
      BY <1>3, <1>5, <2>2, <2>3
  <2> QED
    BY <2>1, <2>4
<1> QED
  BY <1>1, <1>6, <1>7, <1>8
=============================================================================
