--------------------------- MODULE DashboardProofs ---------------------------
(***************************************************************************)
(* Theorems about Dashboard, for any fleet, whatever its nodes report, and *)
(* any names, values and configurations.                                   *)
(***************************************************************************)
EXTENDS Dashboard, OrderedProofs

\* The fleet is made of what its nodes reported.
FleetIsReported ==
  \E S \in SUBSET Nodes :
    /\ fleet \in [S -> UNION {Reports[n] : n \in Nodes}]
    /\ \A n \in S : fleet[n] \in Reports[n]

\* The node that is charted is the one that is remembered.
Remembers == On("metrics") /\ Shown # {} => saved = Chosen(fleet, page.nodeId)

\* A graph has given a slot to everything it charts; and as long as it has seen
\* no more names than there are colours, the slots it gave are the first ones,
\* each to one name, and after that they are not.
ColoursKnown ==
  On("metrics") /\ page.card # None =>
    LET assigned == page.card.assigned
    IN /\ \A i \in DOMAIN page.card.series : page.card.series[i].name \in DOMAIN assigned
       /\ IsInjective(assigned) <=> Cardinality(DOMAIN assigned) <= Colours
       /\ Cardinality(DOMAIN assigned) <= Colours =>
            \A name \in DOMAIN assigned : assigned[name] < Cardinality(DOMAIN assigned)

DashInv == TypeOK /\ FleetIsReported /\ Remembers /\ ColoursKnown

\* What no step but Refetch and ToggleSection disturbs.
CardStays ==
  On("metrics")' => page'.card = None \/ (On("metrics") /\ page'.card = page.card)
ToggledStay ==
  On("node") /\ On("node")' /\ page'.id = page.id => page'.toggled = page.toggled

-----------------------------------------------------------------------------
(* The operators                                                           *)

\* Min chooses the least element.
LEMMA MinOK ==
  ASSUME NEW T \in SUBSET Nat, T # {}
  PROVE  Min(T) \in T /\ \A k \in T : Min(T) <= k
<1>1. \E m \in T : \A k \in T : m <= k
  BY Least
<1> QED
  BY <1>1 DEF Min

LEMMA SubOrder ==
  ASSUME NEW S, NEW R, NeverTies(S, R), NEW T \in SUBSET S
  PROVE  NeverTies(T, R)
BY DEF NeverTies

LEMMA ByNameOK ==
  ASSUME NEW S \in {Nodes, Groups, SeriesNames}
  PROVE  NeverTies(S, ByName(S))
<1>1. \A m \in S : Rank[m] \in Nat
  BY RankAssumption
<1>2. \A m, n \in S : Rank[m] = Rank[n] => m = n
  BY RankAssumption
<1> QED
  BY <1>1, <1>2 DEF NeverTies, ByName

LEMMA ByTimeOK == NeverTies(Stamps, ByTime)
<1>1. \A t \in Stamps : t \in Nat
  BY SeriesAssumption
<1> QED
  BY <1>1 DEF NeverTies, ByTime

\* The first of the nodes, in the provider's order, is one of them.
LEMMA ChosenOK ==
  ASSUME NEW S \in SUBSET Nodes, NEW X, NEW nodes \in [S -> X], NEW id
  PROVE  /\ id \in S => Chosen(nodes, id) = id
         /\ S # {} => Chosen(nodes, id) \in S
         /\ S = {} => Chosen(nodes, id) = None
<1>1. CASE id \in S
  BY <1>1 DEF Chosen
<1>2. CASE id \notin S /\ S = {}
  <2>1. nodes = <<>>
    BY <1>2
  <2> QED
    BY <1>2, <2>1 DEF Chosen
<1>3. CASE id \notin S /\ S # {}
  <2> DEFINE R == {p \in Nodes \X Nodes :
                     \/ Rank[GroupOf[p[1]]] < Rank[GroupOf[p[2]]]
                     \/ GroupOf[p[1]] = GroupOf[p[2]] /\ Rank[p[1]] < Rank[p[2]]}
  <2>1. nodes # <<>>
    BY <1>3
  <2>2. NeverTies(S, R)
    <3>1. \A m \in Nodes : Rank[m] \in Nat /\ Rank[GroupOf[m]] \in Nat /\ GroupOf[m] \in Groups
      BY RankAssumption
    <3>2. \A m, n \in Nodes : Rank[m] = Rank[n] => m = n
      BY RankAssumption
    <3>3. \A m, n \in Groups : Rank[m] = Rank[n] => m = n
      BY RankAssumption
    <3>4. \A m, n \in S : <<m, n>> \in R <=>
             \/ Rank[GroupOf[m]] < Rank[GroupOf[n]]
             \/ GroupOf[m] = GroupOf[n] /\ Rank[m] < Rank[n]
      OBVIOUS
    <3> HIDE DEF R
    <3> QED
      BY <3>1, <3>2, <3>3, <3>4 DEF NeverTies
  <2>3. IsFiniteSet(S)
    BY NodesAssumption, FS_Subset
  <2>4. InOrder(S, R) \in [1..Cardinality(S) -> S] /\ Cardinality(S) \in Nat
    BY <2>2, <2>3, InOrderCorrect
  <2>5. 1 \in 1..Cardinality(S)
    BY <1>3, <2>3, <2>4, FS_EmptySet
  <2>6. Chosen(nodes, id) = InOrder(S, R)[1]
    BY <1>3, <2>1 DEF Chosen, options
  <2> QED
    BY <1>3, <2>4, <2>5, <2>6
<1> QED
  BY <1>1, <1>2, <1>3

\* The fleet is a function on nodes.
LEMMA ShownOK ==
  ASSUME FleetIsReported
  PROVE  /\ Shown \in SUBSET Nodes
         /\ fleet \in [Shown -> UNION {Reports[n] : n \in Nodes}]
         /\ \A n \in Shown : fleet[n] \in Reports[n] /\ IsSnapshot(fleet[n])
<1>1. PICK S \in SUBSET Nodes :
        /\ fleet \in [S -> UNION {Reports[n] : n \in Nodes}]
        /\ \A n \in S : fleet[n] \in Reports[n]
  BY DEF FleetIsReported
<1>2. Shown = S
  BY <1>1 DEF Shown
<1> QED
  BY <1>1, <1>2, ReportsAssumption

LEMMA ChosenShown ==
  ASSUME FleetIsReported, NEW id
  PROVE  /\ id \in Shown => Chosen(fleet, id) = id
         /\ Shown # {} => Chosen(fleet, id) \in Shown
         /\ Shown = {} => Chosen(fleet, id) = None
         /\ Chosen(fleet, id) \in Nodes \cup {None}
<1> DEFINE X == UNION {Reports[n] : n \in Nodes}
<1>1. Shown \in SUBSET Nodes /\ fleet \in [Shown -> X]
  BY ShownOK
<1> HIDE DEF X
<1>2. /\ id \in Shown => Chosen(fleet, id) = id
      /\ Shown # {} => Chosen(fleet, id) \in Shown
      /\ Shown = {} => Chosen(fleet, id) = None
  BY <1>1, ChosenOK
<1> QED
  BY <1>1, <1>2

LEMMA ScreenOK ==
  ASSUME TypeOK
  PROVE  /\ On("fleet") => page \in FleetScreen
         /\ On("node") => page \in NodeScreen
         /\ On("metrics") => page \in MetricsScreen
         /\ On("config") => page \in ConfigScreen
BY DEF TypeOK, On, FleetScreen, NodeScreen, MetricsScreen, ConfigScreen

-----------------------------------------------------------------------------
(* The graphs                                                              *)

\* An answer charts series, each of a name that is charted.
LEMMA TopkOK ==
  ASSUME NEW highest \in [Stamps -> SUBSET SeriesNames]
  PROVE  /\ Topk(highest) \in Seq(SeriesKinds)
         /\ \A i \in DOMAIN Topk(highest) : Topk(highest)[i].name \in SeriesNames
         /\ \A i, j \in DOMAIN Topk(highest) :
              Topk(highest)[i].name = Topk(highest)[j].name => i = j
<1> DEFINE S == {s \in SeriesNames : \E t \in Stamps : s \in highest[t]}
           names == InOrder(S, ByName(SeriesNames))
           seen(i) == {t \in Stamps : names[i] \in highest[t]}
<1>1. IsFiniteSet(S) /\ NeverTies(S, ByName(SeriesNames))
  <2>1. S \in SUBSET SeriesNames
    OBVIOUS
  <2> HIDE DEF S
  <2> QED
    BY <2>1, SeriesAssumption, FS_Subset, ByNameOK, SubOrder
<1>2. Cardinality(S) \in Nat /\ names \in [1..Cardinality(S) -> S]
  <2> HIDE DEF S
  <2> QED
    BY <1>1, InOrderCorrect
<1>6. \A i, j \in 1..Cardinality(S) : names[i] = names[j] => i = j
  <2>1. \A i, j \in 1..Cardinality(S) :
          i < j => <<names[i], names[j]>> \in ByName(SeriesNames) /\ names[i] # names[j]
    <3> HIDE DEF S
    <3> QED
      BY <1>1, InOrderCorrect, Zenon
  <2> HIDE DEF names
  <2> SUFFICES ASSUME NEW i \in 1..Cardinality(S), NEW j \in 1..Cardinality(S), i # j
               PROVE  names[i] # names[j]
    OBVIOUS
  <2>2. i < j \/ j < i
    BY <1>2
  <2> QED
    BY <2>1, <2>2
<1>3. \A i \in 1..Cardinality(S) : names[i] \in SeriesNames
  BY <1>2
<1>4. ASSUME NEW i \in 1..Cardinality(S)
      PROVE  [name |-> names[i], stamps |-> InOrder(seen(i), ByTime)] \in SeriesKinds
  <2>1. seen(i) \in SUBSET Stamps
    OBVIOUS
  <2> HIDE DEF seen, names
  <2> QED
    BY <1>3, <2>1 DEF SeriesKinds
<1>5. Topk(highest) =
        [i \in 1..Cardinality(S) |->
           [name |-> names[i], stamps |-> InOrder(seen(i), ByTime)]]
  BY <1>2 DEF Topk
<1> HIDE DEF seen, names, S
<1> QED
  BY <1>2, <1>3, <1>4, <1>5, <1>6

\* The new names of an answer come one before another as they are first met.
MetBefore(names, new) ==
  {p \in new \X new :
     \E i \in DOMAIN names : names[i] = p[1] /\ \A j \in 1..i : names[j] # p[2]}

LEMMA FirstMet ==
  ASSUME NEW n \in Nat, NEW X, NEW names \in [1..n -> X], NEW new \in SUBSET Range(names)
  PROVE  NeverTies(new, MetBefore(names, new))
<1> DEFINE before(x, z) == \E i \in DOMAIN names : names[i] = x /\ \A j \in 1..i : names[j] # z
           first(x, i) == i \in 1..n /\ names[i] = x /\ \A j \in 1..n : names[j] = x => i <= j
           R == MetBefore(names, new)
<1>1. ASSUME NEW x \in new
      PROVE  \E i \in 1..n : first(x, i)
  <2> DEFINE T == {i \in 1..n : names[i] = x}
  <2>1. T \in SUBSET Nat /\ T # {}
    BY DEF Range
  <2>2. PICK m \in T : \A k \in T : m <= k
    BY <2>1, Least
  <2> QED
    BY <2>2
<1>2. ASSUME NEW x \in new, NEW z \in new, NEW i, NEW k, first(x, i), first(z, k)
      PROVE  before(x, z) <=> i < k
  <2>1. ASSUME before(x, z) PROVE i < k
    <3>1. PICK j \in 1..n : names[j] = x /\ \A l \in 1..j : names[l] # z
      BY <2>1
    <3>2. i <= j
      BY <1>2, <3>1
    <3>3. ~(k <= j)
      BY <1>2, <3>1
    <3> QED
      BY <1>2, <3>2, <3>3
  <2>2. ASSUME i < k PROVE before(x, z)
    <3>1. \A j \in 1..i : names[j] # z
      BY <1>2, <2>2
    <3> QED
      BY <1>2, <3>1
  <2> QED
    BY <2>1, <2>2
<1>3. ASSUME NEW x \in new, NEW z \in new, NEW i, first(x, i), first(z, i)
      PROVE  x = z
  BY <1>3
<1>4. \A x, i : first(x, i) => i \in Int
  OBVIOUS
<1>5. \A x, z \in new : <<x, z>> \in R <=> before(x, z)
  BY DEF MetBefore
<1> HIDE DEF before, first, R
<1>6. ASSUME NEW x \in new
      PROVE  <<x, x>> \notin R
  <2>1. PICK i \in 1..n : first(x, i)
    BY <1>1
  <2>2. before(x, x) <=> i < i
    BY <1>2, <2>1
  <2> QED
    BY <1>5, <2>2
<1>7. ASSUME NEW x \in new, NEW z \in new, NEW w \in new, <<x, z>> \in R, <<z, w>> \in R
      PROVE  <<x, w>> \in R
  <2>1. PICK i \in 1..n : first(x, i)
    BY <1>1
  <2>2. PICK j \in 1..n : first(z, j)
    BY <1>1
  <2>3. PICK k \in 1..n : first(w, k)
    BY <1>1
  <2>4. i < j /\ j < k
    BY <1>2, <1>5, <1>7, <2>1, <2>2, <2>3
  <2>5. i < k
    BY <2>4
  <2> QED
    BY <1>2, <1>5, <2>1, <2>3, <2>5
<1>8. ASSUME NEW x \in new, NEW z \in new
      PROVE  x = z \/ <<x, z>> \in R \/ <<z, x>> \in R
  <2>1. PICK i \in 1..n : first(x, i)
    BY <1>1
  <2>2. PICK k \in 1..n : first(z, k)
    BY <1>1
  <2>3. i = k \/ i < k \/ k < i
    OBVIOUS
  <2> QED
    BY <1>2, <1>3, <1>5, <2>1, <2>2, <2>3
<1>9. NeverTies(new, R)
  BY <1>6, <1>7, <1>8 DEF NeverTies
<1> QED
  BY <1>9 DEF R

\* A name keeps its slot; and slots that were the first ones, each given to
\* one name, are so again, as long as there are enough of them.
LEMMA AssignOK ==
  ASSUME NEW S \in SUBSET SeriesNames, NEW assigned \in [S -> 0..(Colours - 1)],
         NEW n \in Nat, NEW names \in [1..n -> SeriesNames]
  PROVE  /\ Assign(assigned, names) \in [S \cup Range(names) -> 0..(Colours - 1)]
         /\ \A name \in S : Assign(assigned, names)[name] = assigned[name]
         /\ /\ Cardinality(S) <= Colours =>
                 /\ IsInjective(assigned)
                 /\ \A name \in S : assigned[name] < Cardinality(S)
            /\ Cardinality(S \cup Range(names)) <= Colours
            => /\ IsInjective(Assign(assigned, names))
               /\ \A name \in S \cup Range(names) :
                    Assign(assigned, names)[name] < Cardinality(S \cup Range(names))
<1> DEFINE new == Range(names) \ S
           R == MetBefore(names, new)
           count(name) == Cardinality(Ahead(new, R, name))
           a == Assign(assigned, names)
           T == S \cup Range(names)
<1>1. Colours \in Nat \ {0}
  BY ColoursAssumption
<1>2. new \in SUBSET SeriesNames /\ T = S \cup new /\ S \cap new = {}
  BY DEF Range
<1>3. /\ IsFiniteSet(new) /\ Cardinality(new) \in Nat
      /\ IsFiniteSet(S) /\ Cardinality(S) \in Nat
  BY <1>2, SeriesAssumption, FS_Subset, FS_CardinalityType
<1>4. NeverTies(new, R)
  <2>1. new \in SUBSET Range(names)
    OBVIOUS
  <2> HIDE DEF new
  <2> QED
    BY <2>1, FirstMet
<1>5. Cardinality(T) = Cardinality(S) + Cardinality(new)
  <2>1. Cardinality(S \cup new) = Cardinality(S) + Cardinality(new) - Cardinality(S \cap new)
    BY <1>3, FS_Union
  <2>2. Cardinality(S \cap new) = 0
    BY <1>2, FS_EmptySet
  <2> HIDE DEF new, T
  <2> QED
    BY <1>2, <1>3, <2>1, <2>2
<1>6. \A name \in new : count(name) \in Nat /\ count(name) < Cardinality(new)
  <2>1. \A name \in new : count(name) \in Nat
    BY <1>3, AheadFinite
  <2>2. \A name \in new : count(name) + 1 \in 1..Cardinality(new)
    BY <1>3, <1>4, EveryPlace
  <2> HIDE DEF count, new, R
  <2> QED
    BY <1>3, <2>1, <2>2
<1>7. \A x, z \in new : x # z => count(x) # count(z)
  <2>1. \A x, z \in new : <<x, z>> \in R => count(x) < count(z)
    <3> HIDE DEF new, R
    <3> QED
      BY <1>3, <1>4, FewerAhead
  <2>2. \A x, z \in new : x # z => <<x, z>> \in R \/ <<z, x>> \in R
    BY <1>4 DEF NeverTies
  <2> HIDE DEF count, new, R
  <2> SUFFICES ASSUME NEW x \in new, NEW z \in new, x # z
               PROVE  count(x) # count(z)
    OBVIOUS
  <2>3. count(x) \in Nat /\ count(z) \in Nat
    BY <1>6
  <2>4. count(x) < count(z) \/ count(z) < count(x)
    BY <2>1, <2>2
  <2> QED
    BY <2>3, <2>4
<1>8. a = [name \in T |-> IF name \in S THEN assigned[name]
                          ELSE (Cardinality(S) + count(name)) % Colours]
  <2>1. \A name \in new :
          {m \in new : \E i \in DOMAIN names : names[i] = m /\ \A j \in 1..i : names[j] # name}
            = Ahead(new, R, name)
    BY DEF Ahead, MetBefore
  <2>2. a = [name \in S \cup new |->
               IF name \in S THEN assigned[name]
               ELSE (Cardinality(S) + Cardinality(
                      {m \in new : \E i \in DOMAIN names :
                         names[i] = m /\ \A j \in 1..i : names[j] # name})) % Colours]
    BY DEF Assign
  <2> HIDE DEF a, new, R, T
  <2> QED
    BY <1>2, <2>1, <2>2
<1>9. ASSUME NEW name \in T
      PROVE  (IF name \in S THEN assigned[name]
              ELSE (Cardinality(S) + count(name)) % Colours) \in 0..(Colours - 1)
  <2>1. CASE name \in S
    BY <2>1
  <2>2. CASE name \notin S
    <3>1. name \in new
      BY <1>2, <2>2
    <3>2. (Cardinality(S) + count(name)) \in Nat
      <4>1. count(name) \in Nat
        BY <1>6, <3>1
      <4> HIDE DEF count
      <4> QED
        BY <1>3, <4>1
    <3>3. (Cardinality(S) + count(name)) % Colours \in 0..(Colours - 1)
      <4> HIDE DEF count
      <4> QED
        BY <1>1, <3>2
    <3> QED
      BY <2>2, <3>3
  <2> QED
    BY <2>1, <2>2
<1>10. a \in [T -> 0..(Colours - 1)] /\ \A name \in S : a[name] = assigned[name]
  <2> HIDE DEF a, count, new, R
  <2> QED
    BY <1>8, <1>9
<1>11. ASSUME Cardinality(S) <= Colours => /\ IsInjective(assigned)
                                           /\ \A name \in S : assigned[name] < Cardinality(S),
              Cardinality(T) <= Colours
       PROVE  IsInjective(a) /\ \A name \in T : a[name] < Cardinality(T)
  <2>1. /\ Cardinality(S) <= Colours
        /\ \A name \in S : assigned[name] < Cardinality(S) /\ assigned[name] \in Nat
    BY <1>1, <1>3, <1>5, <1>11
  <2>2. \A m, name \in S : assigned[m] = assigned[name] => m = name
    BY <1>11, <2>1 DEF IsInjective
  <2>3. \A name \in S : a[name] = assigned[name]
    BY <1>10
  <2>4. ASSUME NEW name \in new
        PROVE  a[name] = Cardinality(S) + count(name)
    <3> HIDE DEF a, count, new, R
    <3>1. a[name] = (Cardinality(S) + count(name)) % Colours
      BY <1>2, <1>8
    <3>2. Cardinality(S) + count(name) \in Nat /\ Cardinality(S) + count(name) < Colours
      BY <1>1, <1>3, <1>5, <1>6, <1>11
    <3> QED
      BY <1>1, <3>1, <3>2
  <2> HIDE DEF a, count, new, R
  <2>5. \A m, name \in T : a[m] = a[name] => m = name
    BY <1>2, <1>3, <1>6, <1>7, <2>1, <2>2, <2>3, <2>4
  <2>6. \A name \in T : a[name] < Cardinality(T)
    BY <1>2, <1>3, <1>5, <1>6, <2>1, <2>3, <2>4
  <2>7. DOMAIN a = T
    BY <1>10
  <2> QED
    BY <2>5, <2>6, <2>7 DEF IsInjective
<1> QED
  BY <1>10, <1>11

\* A graph that has given no slots gives them in the order of its series.
LEMMA AssignAnew ==
  ASSUME NEW n \in Nat, NEW names \in [1..n -> SeriesNames],
         \A i, j \in 1..n : names[i] = names[j] => i = j
  PROVE  \A i \in 1..n : Assign(<<>>, names)[names[i]] = (i - 1) % Colours
<1> SUFFICES ASSUME NEW i \in 1..n
             PROVE  Assign(<<>>, names)[names[i]] = (i - 1) % Colours
  OBVIOUS
<1> DEFINE new == Range(names) \ DOMAIN <<>>
           earlier == {m \in new : \E k \in DOMAIN names :
                         names[k] = m /\ \A j \in 1..k : names[j] # names[i]}
           before == [j \in 1..(i - 1) |-> names[j]]
<1>1. new = Range(names) /\ names[i] \in new /\ names[i] \notin DOMAIN <<>>
  BY DEF Range
<1>2. Assign(<<>>, names)[names[i]] = (Cardinality(DOMAIN <<>>) + Cardinality(earlier)) % Colours
  BY <1>1 DEF Assign
<1>3. \A k \in 1..n : (\A j \in 1..k : names[j] # names[i]) <=> k \in 1..(i - 1)
  <2> SUFFICES ASSUME NEW k \in 1..n
               PROVE  (\A j \in 1..k : names[j] # names[i]) <=> k < i
    OBVIOUS
  <2>1. \A j \in 1..k : j \in 1..n /\ (names[j] = names[i] <=> j = i)
    OBVIOUS
  <2>2. i \in 1..k <=> ~(k < i)
    OBVIOUS
  <2> QED
    BY <2>1, <2>2
<1>4. \A m : m \in earlier <=> \E k \in 1..(i - 1) : names[k] = m
  <2>1. DOMAIN names = 1..n /\ 1..(i - 1) \subseteq 1..n
    OBVIOUS
  <2>2. \A k \in 1..n : names[k] \in new
    BY <1>1 DEF Range
  <2> HIDE DEF new
  <2> QED
    BY <1>3, <2>1, <2>2
<1>5. before \in Bijection(1..(i - 1), earlier)
  <2>1. \A j \in 1..(i - 1) : before[j] = names[j] /\ before[j] \in earlier
    BY <1>4
  <2>2. before \in [1..(i - 1) -> earlier]
    BY <2>1
  <2>3. \A j, k \in 1..(i - 1) : before[j] = before[k] => j = k
    OBVIOUS
  <2>4. \A m \in earlier : \E j \in 1..(i - 1) : before[j] = m
    BY <1>4, <2>1
  <2> HIDE DEF before, earlier
  <2> QED
    BY <2>2, <2>3, <2>4 DEF Bijection, Injection, Surjection, IsInjective
<1>6. Cardinality(earlier) = i - 1
  <2>1. IsFiniteSet(1..(i - 1)) /\ Cardinality(1..(i - 1)) = i - 1
    BY FS_Interval
  <2> HIDE DEF before, earlier
  <2> QED
    BY <1>5, <2>1, FS_Bijection DEF ExistsBijection
<1>7. Cardinality(DOMAIN <<>>) = 0
  BY FS_EmptySet
<1> HIDE DEF earlier
<1> QED
  BY <1>2, <1>6, <1>7

-----------------------------------------------------------------------------
(* Steps                                                                   *)

\* What every step but Refetch and ToggleSection gives.
Kept ==
  /\ TypeOK' /\ FleetIsReported' /\ Remembers'
  /\ CardStays /\ ToggledStay

LEMMA TurnAway ==
  ASSUME TypeOK, FleetIsReported, NEW newPage \in FleetScreen \cup ConfigScreen, Turn(newPage)
  PROVE  Kept
<1>1. page' = newPage /\ fleet' = fleet /\ saved' = saved
  BY DEF Turn
<1>2. TypeOK'
  BY <1>1 DEF TypeOK
<1>3. FleetIsReported'
  BY <1>1 DEF FleetIsReported
<1>4. ~On("metrics")' /\ ~On("node")'
  BY <1>1 DEF On, FleetScreen, ConfigScreen
<1> QED
  BY <1>2, <1>3, <1>4 DEF Kept, Remembers, CardStays, ToggledStay

LEMMA TurnToNode ==
  ASSUME TypeOK, FleetIsReported, NEW newPage \in NodeScreen, Turn(newPage),
         On("node") /\ newPage.id = page.id => newPage.toggled = page.toggled
  PROVE  Kept
<1>1. page' = newPage /\ fleet' = fleet /\ saved' = saved
  BY DEF Turn
<1>2. TypeOK'
  BY <1>1 DEF TypeOK
<1>3. FleetIsReported'
  BY <1>1 DEF FleetIsReported
<1>4. ~On("metrics")'
  BY <1>1 DEF On, NodeScreen
<1> QED
  BY <1>1, <1>2, <1>3, <1>4 DEF Kept, Remembers, CardStays, ToggledStay

\* The metrics page goes on, with another node or another fleet.
LEMMA ChartOK ==
  ASSUME TypeOK, On("metrics"), NEW newPage \in MetricsScreen,
         newPage.card \in {None, page.card},
         NEW S \in SUBSET Nodes, NEW X, NEW nodes \in [S -> X], Chart(nodes, newPage)
  PROVE  /\ saved' \in Nodes \cup {None}
         /\ page' \in MetricsScreen
         /\ page'.nodeId = newPage.nodeId
         /\ page'.card \in {None, page.card}
         /\ S # {} => saved' = Chosen(nodes, newPage.nodeId)
<1>1. /\ S # {} => Chosen(nodes, newPage.nodeId) \in S
      /\ S = {} => Chosen(nodes, newPage.nodeId) = None
  BY ChosenOK
<1>2. None \notin Nodes
  BY NodesAssumption
<1>3. saved \in Nodes \cup {None}
  BY DEF TypeOK
<1>4. page' = newPage \/ page' = [newPage EXCEPT !.card = None]
  BY DEF Chart
<1>5. saved' = IF Chosen(nodes, newPage.nodeId) = None THEN saved
               ELSE Chosen(nodes, newPage.nodeId)
  BY DEF Chart
<1>6. page' \in MetricsScreen /\ page'.nodeId = newPage.nodeId /\ page'.card \in {None, page.card}
  BY <1>4 DEF MetricsScreen
<1> QED
  BY <1>1, <1>2, <1>3, <1>5, <1>6

\* The provider hands out another fleet.
LEMMA ProvideOK ==
  ASSUME TypeOK, NEW S \in SUBSET Nodes,
         NEW nodes \in [S -> UNION {Reports[n] : n \in Nodes}],
         \A n \in S : nodes[n] \in Reports[n], Provide(nodes)
  PROVE  Kept
<1> DEFINE X == UNION {Reports[n] : n \in Nodes}
<1>1. fleet' = nodes
  BY DEF Provide
<1>2. /\ \E T \in SUBSET Nodes : fleet' \in [T -> X]
      /\ FleetIsReported'
  BY <1>1 DEF FleetIsReported
<1>3. CASE On("metrics")
  <2>1. Chart(nodes, page) /\ page \in MetricsScreen
    BY <1>3, ScreenOK DEF Provide
  <2>2. page.card \in {None, page.card} /\ nodes \in [S -> X]
    OBVIOUS
  <2> HIDE DEF X
  <2>3. /\ saved' \in Nodes \cup {None}
        /\ page' \in MetricsScreen
        /\ page'.nodeId = page.nodeId
        /\ page'.card \in {None, page.card}
        /\ S # {} => saved' = Chosen(nodes, page.nodeId)
    BY <1>3, <2>1, <2>2, ChartOK
  <2>4. Shown' = S
    BY <1>1 DEF Shown
  <2>5. Remembers'
    BY <1>1, <2>3, <2>4 DEF Remembers
  <2>6. On("metrics")' /\ ~On("node")
    BY <1>3, <2>3 DEF On, MetricsScreen
  <2>7. TypeOK'
    BY <1>2, <2>3 DEF TypeOK, X
  <2> QED
    BY <1>2, <1>3, <2>3, <2>5, <2>6, <2>7 DEF Kept, CardStays, ToggledStay
<1>4. CASE ~On("metrics")
  <2>1. page' = page /\ saved' = saved
    BY <1>4 DEF Provide
  <2>2. TypeOK'
    BY <1>2, <2>1 DEF TypeOK
  <2>3. ~On("metrics")'
    BY <1>4, <2>1 DEF On
  <2> QED
    BY <1>2, <2>1, <2>2, <2>3 DEF Kept, Remembers, CardStays, ToggledStay
<1> QED
  BY <1>3, <1>4

LEMMA ArrivesOK ==
  ASSUME TypeOK, FleetIsReported, NEW n \in Nodes, Arrives(n)
  PROVE  Kept
<1>1. PICK snapshot \in Reports[n] :
        Provide([m \in Shown \cup {n} |-> IF m = n THEN snapshot ELSE fleet[m]])
  BY DEF Arrives
<1> DEFINE nodes == [m \in Shown \cup {n} |-> IF m = n THEN snapshot ELSE fleet[m]]
<1>2. Shown \in SUBSET Nodes /\ \A m \in Shown : fleet[m] \in Reports[m]
  BY ShownOK
<1>3. Shown \cup {n} \in SUBSET Nodes
  BY <1>2
<1>4. \A m \in Shown \cup {n} : nodes[m] \in Reports[m]
  BY <1>2
<1>5. nodes \in [Shown \cup {n} -> UNION {Reports[m] : m \in Nodes}]
  BY <1>3, <1>4
<1> HIDE DEF nodes
<1> QED
  BY <1>1, <1>3, <1>4, <1>5, ProvideOK DEF nodes

LEMMA LeavesOK ==
  ASSUME TypeOK, FleetIsReported, NEW n \in Nodes, Leaves(n)
  PROVE  Kept
<1> DEFINE nodes == [m \in Shown \ {n} |-> fleet[m]]
<1>1. Provide(nodes)
  BY DEF Leaves
<1>2. Shown \in SUBSET Nodes /\ \A m \in Shown : fleet[m] \in Reports[m]
  BY ShownOK
<1>3. Shown \ {n} \in SUBSET Nodes
  BY <1>2
<1>4. \A m \in Shown \ {n} : nodes[m] \in Reports[m]
  BY <1>2
<1>5. nodes \in [Shown \ {n} -> UNION {Reports[m] : m \in Nodes}]
  BY <1>3, <1>4
<1> HIDE DEF nodes
<1> QED
  BY <1>1, <1>3, <1>4, <1>5, ProvideOK

LEMMA GoOK ==
  ASSUME TypeOK, FleetIsReported, NEW route \in {"fleet", "metrics", "config"}, Go(route)
  PROVE  Kept
<1>1. CASE route = "fleet"
  <2>1. Turn(OpenFleet)
    BY <1>1 DEF Go
  <2>2. OpenFleet \in FleetScreen
    BY DEF OpenFleet, FleetScreen, Filters, Sorts, SortKeys
  <2> QED
    BY <2>1, <2>2, TurnAway
<1>2. CASE route = "config"
  <2>1. Turn(OpenConfig)
    BY <1>2 DEF Go
  <2>2. OpenConfig \in ConfigScreen
    BY DEF OpenConfig, ConfigScreen
  <2> QED
    BY <2>1, <2>2, TurnAway
<1>3. CASE route = "metrics"
  <2>1. /\ ~On("metrics") /\ page' = OpenMetrics(saved) /\ fleet' = fleet
        /\ saved' = IF Chosen(fleet, saved) = None THEN saved ELSE Chosen(fleet, saved)
    BY <1>3 DEF Go
  <2>2. saved \in Nodes \cup {None} /\ None \notin Nodes
    BY NodesAssumption DEF TypeOK
  <2>3. /\ Shown # {} => Chosen(fleet, saved) \in Shown
        /\ Shown = {} => Chosen(fleet, saved) = None
        /\ Shown \in SUBSET Nodes
    BY ShownOK, ChosenShown
  <2>4. /\ page' \in MetricsScreen
        /\ page'.nodeId = saved /\ page'.card = None /\ page'.route = "metrics"
    BY <2>1, <2>2 DEF OpenMetrics, MetricsScreen
  <2>5. Shown # {} => saved' = Chosen(fleet, saved)
    BY <2>1, <2>2, <2>3
  <2>6. saved' \in Nodes \cup {None}
    BY <2>1, <2>2, <2>3
  <2>7. TypeOK' /\ FleetIsReported'
    BY <2>1, <2>4, <2>6 DEF TypeOK, FleetIsReported
  <2>8. Remembers'
    BY <2>1, <2>4, <2>5 DEF Remembers, Shown
  <2> QED
    BY <2>4, <2>7, <2>8 DEF Kept, CardStays, ToggledStay, On
<1> QED
  BY <1>1, <1>2, <1>3

LEMMA GoToNodeOK ==
  ASSUME TypeOK, FleetIsReported, NEW id \in Nodes, GoToNode(id)
  PROVE  Kept
<1>1. CASE On("node")
  <2>1. Turn([page EXCEPT !.id = id]) /\ page.id # id
    BY <1>1 DEF GoToNode
  <2>2. page \in NodeScreen
    BY <1>1, ScreenOK
  <2>3. [page EXCEPT !.id = id] \in NodeScreen /\ [page EXCEPT !.id = id].id = id
    BY <2>2 DEF NodeScreen
  <2> QED
    BY <2>1, <2>3, TurnToNode
<1>2. CASE ~On("node")
  <2>1. Turn(OpenNode(id))
    BY <1>2 DEF GoToNode
  <2>2. OpenNode(id) \in NodeScreen
    BY DEF OpenNode, NodeScreen, Filters
  <2> QED
    BY <1>2, <2>1, <2>2, TurnToNode
<1> QED
  BY <1>1, <1>2

LEMMA SetFilterOK ==
  ASSUME TypeOK, FleetIsReported, NEW filter \in Filters, SetFilter(filter)
  PROVE  Kept
<1> DEFINE newPage == [page EXCEPT !.filter = filter]
<1>1. Turn(newPage)
  BY DEF SetFilter
<1>2. CASE On("fleet")
  <2>1. newPage \in FleetScreen
    BY <1>2, ScreenOK DEF FleetScreen
  <2> QED
    BY <1>1, <2>1, TurnAway
<1>3. CASE On("node")
  <2>1. newPage \in NodeScreen /\ newPage.toggled = page.toggled
    BY <1>3, ScreenOK DEF NodeScreen
  <2> QED
    BY <1>1, <2>1, TurnToNode
<1> QED
  BY <1>2, <1>3 DEF SetFilter

LEMMA FleetPageOK ==
  ASSUME TypeOK, FleetIsReported,
         \/ ToggleProblemsOnly
         \/ ToggleGrouped
         \/ \E key \in SortKeys : toggleSort(key)
         \/ \E n \in Nodes : ToggleRow(n)
  PROVE  Kept
<1>1. page \in FleetScreen
  BY ScreenOK DEF ToggleProblemsOnly, ToggleGrouped, toggleSort, ToggleRow
<1>2. CASE ToggleProblemsOnly
  <2>1. [page EXCEPT !.problemsOnly = ~@] \in FleetScreen
    BY <1>1 DEF FleetScreen
  <2> QED
    BY <1>2, <2>1, TurnAway DEF ToggleProblemsOnly
<1>3. CASE ToggleGrouped
  <2>1. [page EXCEPT !.grouped = ~@] \in FleetScreen
    BY <1>1 DEF FleetScreen
  <2> QED
    BY <1>3, <2>1, TurnAway DEF ToggleGrouped
<1>4. ASSUME NEW key \in SortKeys, toggleSort(key)
      PROVE  Kept
  <2> DEFINE sort == [key |-> key,
                      dir |-> IF page.sort.key = key THEN -page.sort.dir
                              ELSE IF key \in {"name", "group", "health"} THEN 1 ELSE -1]
  <2>1. Turn([page EXCEPT !.sort = sort])
    BY <1>4 DEF toggleSort
  <2>2. page.sort \in Sorts
    BY <1>1 DEF FleetScreen
  <2>3. -page.sort.dir \in {1, -1}
    BY <2>2 DEF Sorts
  <2>4. sort \in Sorts
    BY <2>2, <2>3 DEF Sorts
  <2> HIDE DEF sort
  <2>5. [page EXCEPT !.sort = sort] \in FleetScreen
    BY <1>1, <2>4 DEF FleetScreen
  <2> QED
    BY <2>1, <2>5, TurnAway
<1>5. ASSUME NEW n \in Nodes, ToggleRow(n)
      PROVE  Kept
  <2> DEFINE expanded == IF n \in page.expanded THEN page.expanded \ {n}
                         ELSE page.expanded \cup {n}
  <2>1. Turn([page EXCEPT !.expanded = expanded])
    BY <1>5 DEF ToggleRow
  <2>2. expanded \in SUBSET Nodes
    BY <1>1 DEF FleetScreen
  <2> HIDE DEF expanded
  <2>3. [page EXCEPT !.expanded = expanded] \in FleetScreen
    BY <1>1, <2>2 DEF FleetScreen
  <2> QED
    BY <2>1, <2>3, TurnAway
<1> QED
  BY <1>2, <1>3, <1>4, <1>5

LEMMA ToggleShowAllOK ==
  ASSUME TypeOK, FleetIsReported, ToggleShowAll
  PROVE  Kept
<1>1. On("node") /\ Turn([page EXCEPT !.showAll = ~@])
  BY DEF ToggleShowAll, Grouped
<1>2. page \in NodeScreen
  BY <1>1, ScreenOK
<1>3. /\ [page EXCEPT !.showAll = ~@] \in NodeScreen
      /\ [page EXCEPT !.showAll = ~@].toggled = page.toggled
  BY <1>2 DEF NodeScreen
<1> QED
  BY <1>1, <1>3, TurnToNode

LEMMA PickNodeOK ==
  ASSUME TypeOK, FleetIsReported, NEW n \in Nodes, PickNode(n)
  PROVE  Kept
<1> DEFINE newPage == [page EXCEPT !.nodeId = n]
           X == UNION {Reports[m] : m \in Nodes}
<1>1. On("metrics") /\ Chart(fleet, newPage) /\ fleet' = fleet
  BY DEF PickNode
<1>2. page \in MetricsScreen
  BY <1>1, ScreenOK
<1>3. newPage \in MetricsScreen /\ newPage.card \in {None, page.card}
  BY <1>2 DEF MetricsScreen
<1>4. Shown \in SUBSET Nodes /\ fleet \in [Shown -> X]
  BY ShownOK
<1> HIDE DEF X, newPage
<1>5. /\ saved' \in Nodes \cup {None}
      /\ page' \in MetricsScreen
      /\ page'.nodeId = newPage.nodeId
      /\ page'.card \in {None, page.card}
      /\ Shown # {} => saved' = Chosen(fleet, newPage.nodeId)
  BY <1>1, <1>3, <1>4, ChartOK
<1>6. TypeOK' /\ FleetIsReported'
  BY <1>1, <1>5 DEF TypeOK, FleetIsReported
<1>7. Remembers'
  BY <1>1, <1>5 DEF Remembers, Shown
<1>8. ~On("node")
  BY <1>1 DEF On
<1> QED
  BY <1>1, <1>5, <1>6, <1>7, <1>8 DEF Kept, CardStays, ToggledStay

LEMMA PickRangeOK ==
  ASSUME TypeOK, FleetIsReported, Remembers, PickRange
  PROVE  Kept
<1>1. /\ On("metrics") /\ page' = [page EXCEPT !.card = None]
      /\ fleet' = fleet /\ saved' = saved
  BY DEF PickRange, Turn
<1>2. page \in MetricsScreen
  BY <1>1, ScreenOK
<1>3. /\ page' \in MetricsScreen /\ page'.card = None
      /\ page'.nodeId = page.nodeId
  BY <1>1, <1>2 DEF MetricsScreen
<1>4. TypeOK' /\ FleetIsReported'
  BY <1>1, <1>3 DEF TypeOK, FleetIsReported
<1>5. Remembers'
  BY <1>1, <1>3 DEF Remembers, Shown
<1>6. ~On("node")
  BY <1>1 DEF On
<1> QED
  BY <1>3, <1>4, <1>5, <1>6 DEF Kept, CardStays, ToggledStay

LEMMA ConfigPageOK ==
  ASSUME TypeOK, FleetIsReported,
         \/ \E n \in Nodes : PickLeft(n)
         \/ \E n \in Nodes \cup {None} : PickRight(n)
         \/ ToggleEditing
         \/ \E n \in Nodes : ConfigAnswered(n)
  PROVE  Kept
<1>1. page \in ConfigScreen
  BY ScreenOK DEF PickLeft, PickRight, ToggleEditing, ConfigAnswered
<1>2. ASSUME NEW n \in Nodes, PickLeft(n)
      PROVE  Kept
  <2>1. [page EXCEPT !.leftId = n] \in ConfigScreen
    BY <1>1 DEF ConfigScreen
  <2> QED
    BY <1>2, <2>1, TurnAway DEF PickLeft
<1>3. ASSUME NEW n \in Nodes \cup {None}, PickRight(n)
      PROVE  Kept
  <2>1. [page EXCEPT !.rightId = n] \in ConfigScreen
    BY <1>1 DEF ConfigScreen
  <2> QED
    BY <1>3, <2>1, TurnAway DEF PickRight
<1>4. CASE ToggleEditing
  <2>1. [page EXCEPT !.editing = ~@] \in ConfigScreen
    BY <1>1 DEF ConfigScreen
  <2> QED
    BY <1>4, <2>1, TurnAway DEF ToggleEditing
<1>5. ASSUME NEW n \in Nodes, ConfigAnswered(n)
      PROVE  Kept
  <2>1. PICK config \in Configs : Turn([page EXCEPT !.answers[n] = config])
    BY <1>5 DEF ConfigAnswered
  <2>2. [page EXCEPT !.answers[n] = config] \in ConfigScreen
    BY <1>1 DEF ConfigScreen
  <2> QED
    BY <2>1, <2>2, TurnAway
<1> QED
  BY <1>2, <1>3, <1>4, <1>5

LEMMA RefetchOK ==
  ASSUME DashInv, Refetch
  PROVE  DashInv' /\ ColourStep /\ ToggledStay
<1> USE DEF DashInv
<1> DEFINE assigned == IF page.card = None THEN <<>> ELSE page.card.assigned
<1>1. PICK highest \in [Stamps -> kSubset(MaxSeries, SeriesNames)] :
        /\ On("metrics")
        /\ Turn([page EXCEPT !.card =
             [series |-> Topk(highest),
              assigned |-> Assign(assigned, [i \in DOMAIN Topk(highest) |->
                                               Topk(highest)[i].name])]])
  BY DEF Refetch
<1> DEFINE series == Topk(highest)
           names == [i \in DOMAIN series |-> series[i].name]
           new == Assign(assigned, names)
           card == [series |-> series, assigned |-> new]
<1>2. page \in MetricsScreen
  BY <1>1, ScreenOK
<1>3. /\ page' = [page EXCEPT !.card = card]
      /\ fleet' = fleet /\ saved' = saved
  BY <1>1 DEF Turn
<1>4. /\ series \in Seq(SeriesKinds) /\ \A i \in DOMAIN series : series[i].name \in SeriesNames
      /\ \A i, j \in DOMAIN series : series[i].name = series[j].name => i = j
  <2>1. highest \in [Stamps -> SUBSET SeriesNames]
    BY DEF kSubset
  <2> QED
    BY <2>1, TopkOK
<1>5. PICK S \in SUBSET SeriesNames :
        /\ assigned \in [S -> 0..(Colours - 1)]
        /\ page.card # None => S = DOMAIN page.card.assigned /\ assigned = page.card.assigned
        /\ Cardinality(S) <= Colours =>
             /\ IsInjective(assigned)
             /\ \A name \in S : assigned[name] < Cardinality(S)
  <2>1. CASE page.card = None
    <3>1. assigned = <<>> /\ <<>> \in [{} -> 0..(Colours - 1)]
      BY <2>1
    <3>2. IsInjective(<<>>)
      BY DEF IsInjective
    <3> QED
      BY <2>1, <3>1, <3>2
  <2>2. CASE page.card # None
    <3>1. page.card \in Card
      BY <1>2, <2>2 DEF MetricsScreen
    <3>2. PICK S \in SUBSET SeriesNames : page.card.assigned \in [S -> 0..(Colours - 1)]
      BY <3>1 DEF Card
    <3>3. DOMAIN page.card.assigned = S /\ assigned = page.card.assigned
      BY <2>2, <3>2
    <3> HIDE DEF assigned
    <3> QED
      BY <1>1, <2>2, <3>2, <3>3 DEF ColoursKnown
  <2> QED
    BY <2>1, <2>2
<1> HIDE DEF assigned, series
<1>6. /\ Len(series) \in Nat /\ DOMAIN series = 1..Len(series)
      /\ names \in [1..Len(series) -> SeriesNames]
      /\ \A i \in DOMAIN series : names[i] = series[i].name
      /\ \A i, j \in 1..Len(series) : names[i] = names[j] => i = j
  BY <1>4
<1>16. page.card = None =>
         \A i \in DOMAIN series : new[series[i].name] = (i - 1) % Colours
  <2> SUFFICES ASSUME page.card = None
               PROVE  \A i \in DOMAIN series : new[series[i].name] = (i - 1) % Colours
    OBVIOUS
  <2>1. assigned = <<>>
    BY DEF assigned
  <2> HIDE DEF names
  <2>2. \A i \in 1..Len(series) : Assign(<<>>, names)[names[i]] = (i - 1) % Colours
    BY <1>6, AssignAnew
  <2>3. new = Assign(<<>>, names)
    BY <2>1
  <2> HIDE DEF new
  <2> QED
    BY <1>6, <2>2, <2>3
<1> DEFINE T == S \cup Range(names)
<1>7. T \in SUBSET SeriesNames /\ \A i \in DOMAIN series : series[i].name \in T
  BY <1>6 DEF Range
<1> HIDE DEF names
<1>8. /\ new \in [T -> 0..(Colours - 1)]
      /\ \A name \in S : new[name] = assigned[name]
      /\ Cardinality(T) <= Colours =>
           IsInjective(new) /\ \A name \in T : new[name] < Cardinality(T)
  BY <1>5, <1>6, AssignOK
<1>17. IsInjective(new) => Cardinality(T) <= Colours
  <2> SUFFICES ASSUME IsInjective(new) PROVE Cardinality(T) <= Colours
    OBVIOUS
  <2> HIDE DEF new, T
  <2>1. new \in Injection(T, 0..(Colours - 1))
    BY <1>8 DEF IsInjective, Injection
  <2>2. /\ IsFiniteSet(0..(Colours - 1))
        /\ Cardinality(0..(Colours - 1)) = Colours
    BY ColoursAssumption, FS_Interval
  <2> QED
    BY <2>1, <2>2, FS_Injection
<1> HIDE DEF new, T
<1>9. DOMAIN new = T /\ S \subseteq T
  BY <1>8 DEF T
<1>10. card \in Card /\ card.series = series /\ card.assigned = new /\ card # None
  <2>1. card \in Card /\ card.series = series /\ card.assigned = new
    BY <1>4, <1>7, <1>8 DEF Card
  <2> QED
    BY <2>1, NothingAssumption
<1> HIDE DEF card
<1>11. /\ page' \in MetricsScreen /\ page'.card = card
       /\ page'.nodeId = page.nodeId
  BY <1>2, <1>3, <1>10 DEF MetricsScreen
<1>12. TypeOK' /\ FleetIsReported'
  BY <1>3, <1>11 DEF TypeOK, FleetIsReported
<1>13. Remembers'
  BY <1>1, <1>3, <1>11 DEF Remembers, Shown
<1>14. ColoursKnown'
  BY <1>7, <1>8, <1>9, <1>10, <1>11, <1>17 DEF ColoursKnown
<1>15. ColourStep
  <2>1. page'.card.series = series /\ page'.card.assigned = new
    BY <1>10, <1>11
  <2>2. page.card # None =>
          \A n \in DOMAIN page.card.assigned : n \in DOMAIN new /\ new[n] = page.card.assigned[n]
    BY <1>5, <1>8, <1>9
  <2>3. IsInjective(new) <=> Cardinality(DOMAIN new) <= Colours
    BY <1>8, <1>9, <1>17
  <2>4. \A i \in DOMAIN series : series[i].name \in DOMAIN new
    BY <1>7, <1>9
  <2> QED
    BY <1>16, <2>1, <2>2, <2>3, <2>4 DEF ColourStep
<1> QED
  BY <1>1, <1>12, <1>13, <1>14, <1>15 DEF On, ToggledStay

\* The sections of a node are its frontends, one section each.
LEMMA GroupingOK ==
  ASSUME NEW node, IsSnapshot(node)
  PROVE  /\ DOMAIN groupServices(node).services = DOMAIN node.frontends
         /\ \A i \in DOMAIN node.frontends :
              LET s == groupServices(node).services[i]
                  f == node.frontends[i]
              IN /\ s.frontend = f.name
                 /\ s.backends = {b \in node.backends : b.name \in f.routed}
                 /\ s.missing = (f.routed \ NamesOf(node.backends)) \ Dynamic
         /\ \A i, j \in DOMAIN node.frontends :
              groupServices(node).services[i].frontend = groupServices(node).services[j].frontend
                => i = j
         /\ groupServices(node).orphans =
              {b \in node.backends :
                 \A i \in DOMAIN node.frontends : b.name \notin node.frontends[i].routed}
         /\ groupServices(node).unavailable = ~node.readable
<1>1. DOMAIN groupServices(node).services = DOMAIN node.frontends
  BY DEF groupServices
<1>2. \A i \in DOMAIN node.frontends :
        LET s == groupServices(node).services[i]
            f == node.frontends[i]
        IN /\ s.frontend = f.name
           /\ s.backends = {b \in node.backends : b.name \in f.routed}
           /\ s.missing = (f.routed \ NamesOf(node.backends)) \ Dynamic
  BY DEF groupServices
<1>3. \A i, j \in DOMAIN node.frontends :
        node.frontends[i].name = node.frontends[j].name => i = j
  BY DEF IsSnapshot
<1>4. \A i, j \in DOMAIN node.frontends :
        groupServices(node).services[i].frontend = groupServices(node).services[j].frontend
          => i = j
  BY <1>2, <1>3
<1>5. /\ groupServices(node).orphans =
           {b \in node.backends :
              \A i \in DOMAIN node.frontends : b.name \notin node.frontends[i].routed}
      /\ groupServices(node).unavailable = ~node.readable
  BY DEF groupServices
<1> QED
  BY <1>1, <1>2, <1>4, <1>5

LEMMA OneSectionEach ==
  ASSUME NEW node, IsSnapshot(node),
         NEW s \in ServicesOf(groupServices(node)), NEW t \in ServicesOf(groupServices(node)),
         s.frontend = t.frontend
  PROVE  s = t
BY GroupingOK DEF ServicesOf

\* A choice says whether the section is open.
LEMMA ChoiceRules ==
  ASSUME NEW key \in SectionKeys, page.toggled[key] # None, page.toggled[key] \in BOOLEAN
  PROVE  (key \in OpenSections) = page.toggled[key]
<1>1. PICK s \in ServicesOf(grouping) : s.frontend = key
  BY DEF SectionKeys
<1>2. \A t \in ServicesOf(grouping) : t.frontend = key => (isOpen(t) <=> page.toggled[key])
  BY DEF isOpen
<1>3. key \in OpenSections <=> \E t \in ServicesOf(grouping) : isOpen(t) /\ t.frontend = key
  BY DEF OpenSections
<1>4. key \in OpenSections <=> page.toggled[key]
  BY <1>1, <1>2, <1>3
<1> QED
  BY <1>4

\* A section is that of a frontend.
LEMMA KeysAreSections ==
  ASSUME FleetIsReported, Grouped
  PROVE  /\ IsSnapshot(fleet[page.id])
         /\ SectionKeys \subseteq Sections
<1>1. page.id \in Shown /\ Shown \subseteq Nodes /\ fleet[page.id] \in Reports[page.id]
  BY ShownOK DEF Grouped
<1>2. /\ IsSnapshot(fleet[page.id])
      /\ \A i \in DOMAIN fleet[page.id].frontends :
           fleet[page.id].frontends[i].name \in Sections
  BY <1>1, ReportsAssumption
<1>3. ASSUME NEW s \in ServicesOf(grouping)
      PROVE  s.frontend \in Sections
  BY <1>2, GroupingOK DEF ServicesOf, grouping
<1> QED
  BY <1>2, <1>3 DEF SectionKeys

\* As long as the choices are the same, so is what they say.
LEMMA ChoicesHold ==
  ASSUME TypeOK, FleetIsReported, ToggledStay
  PROVE  ChoiceStep
<1> SUFFICES ASSUME Grouped, Grouped', page'.id = page.id,
                    NEW key \in SectionKeys \cap SectionKeys'
             PROVE  LET turned == (key \in OpenSections) # (key \in OpenSections')
                    IN \/ page'.toggled[key] # page.toggled[key] /\ turned
                       \/ /\ page'.toggled[key] = page.toggled[key]
                          /\ page.toggled[key] # None => ~turned
  BY DEF ChoiceStep
<1>1. page'.toggled = page.toggled
  BY DEF ToggledStay, Grouped
<1>2. page \in NodeScreen /\ key \in Sections
  BY ScreenOK, KeysAreSections DEF Grouped
<1>3. page.toggled[key] \in BOOLEAN \cup {None}
  BY <1>2 DEF NodeScreen
<1>4. CASE page.toggled[key] = None
  BY <1>1, <1>4
<1>5. CASE page.toggled[key] # None
  <2>1. (key \in OpenSections) = page.toggled[key]
    BY <1>3, <1>5, ChoiceRules
  <2>2. (key \in OpenSections') = page'.toggled[key]
    <3>1. PICK s \in ServicesOf(grouping)' : s.frontend = key
      BY DEF SectionKeys
    <3>2. \A t \in ServicesOf(grouping)' :
            t.frontend = key => (isOpen(t)' <=> page'.toggled[key])
      BY <1>1, <1>5 DEF isOpen
    <3>3. key \in OpenSections' <=> \E t \in ServicesOf(grouping)' : isOpen(t)' /\ t.frontend = key
      BY DEF OpenSections
    <3>4. key \in OpenSections' <=> page'.toggled[key]
      BY <3>1, <3>2, <3>3
    <3> QED
      BY <1>1, <1>3, <1>5, <3>4
  <2> QED
    BY <1>1, <2>1, <2>2
<1> QED
  BY <1>3, <1>4, <1>5

\* A click turns over the section it is on, and leaves the other choices.
LEMMA ToggleSectionOK ==
  ASSUME TypeOK, FleetIsReported, NEW key \in Sections, ToggleSection(key)
  PROVE  TypeOK' /\ FleetIsReported' /\ Remembers' /\ CardStays /\ ChoiceStep
<1>1. PICK s \in listed :
        /\ Grouped /\ s.frontend = key
        /\ Turn([page EXCEPT !.toggled[key] = ~isOpen(s)])
  BY DEF ToggleSection
<1> DEFINE open == isOpen(s)
<1>2. page \in NodeScreen
  BY <1>1, ScreenOK DEF Grouped
<1>3. open \in BOOLEAN
  <2>1. page.toggled[key] \in BOOLEAN \cup {None}
    BY <1>2 DEF NodeScreen
  <2>2. CASE page.toggled[key] = None
    BY <1>1, <2>2 DEF isOpen, defaultOpen
  <2>3. CASE page.toggled[key] # None
    BY <1>1, <2>1, <2>3 DEF isOpen
  <2> QED
    BY <2>2, <2>3
<1>4. page' = [page EXCEPT !.toggled[key] = ~open] /\ fleet' = fleet /\ saved' = saved
  BY <1>1 DEF Turn
<1>5. s \in ServicesOf(grouping)
  BY DEF listed, matching
<1>6. page.toggled[key] # None => (open <=> page.toggled[key])
  BY <1>1 DEF isOpen
<1> HIDE DEF open
<1>7. (~open) \in BOOLEAN
  BY <1>3
<1>8. /\ page' \in NodeScreen
      /\ page'.id = page.id /\ page'.toggled[key] = ~open
      /\ \A other \in Sections : other # key => page'.toggled[other] = page.toggled[other]
  BY <1>2, <1>4, <1>7 DEF NodeScreen
<1>9. TypeOK' /\ FleetIsReported'
  BY <1>4, <1>8 DEF TypeOK, FleetIsReported
<1>10. ~On("metrics")'
  BY <1>8 DEF On, NodeScreen
<1>11. ASSUME NEW other \in SectionKeys \cap SectionKeys'
       PROVE  LET turned == (other \in OpenSections) # (other \in OpenSections')
              IN \/ page'.toggled[other] # page.toggled[other] /\ turned
                 \/ /\ page'.toggled[other] = page.toggled[other]
                    /\ page.toggled[other] # None => ~turned
  <2>1. grouping' = grouping
    BY <1>4, <1>8 DEF grouping
  <2>2. other \in Sections
    BY <1>1, KeysAreSections
  <2>3. page.toggled[other] \in BOOLEAN \cup {None}
    BY <1>2, <2>2 DEF NodeScreen
  <2>4. other \in OpenSections' <=>
          \E t \in ServicesOf(grouping) : isOpen(t)' /\ t.frontend = other
    BY <2>1 DEF OpenSections
  <2>5. CASE other = key
    <3>1. \A t \in ServicesOf(grouping) : t.frontend = key => t = s
      BY <1>1, <1>5, KeysAreSections, OneSectionEach DEF grouping
    <3>2. key \in OpenSections <=> open
      BY <1>1, <1>5, <3>1 DEF OpenSections, open
    <3>3. \A t : t.frontend = key => (isOpen(t)' <=> ~open)
      BY <1>7, <1>8, NothingAssumption DEF isOpen
    <3>4. key \in OpenSections' <=> ~open
      BY <1>1, <1>5, <2>4, <2>5, <3>3
    <3>5. page'.toggled[key] # page.toggled[key]
      BY <1>3, <1>6, <1>7, <1>8, <2>3, <2>5, NothingAssumption
    <3> QED
      BY <2>5, <3>2, <3>4, <3>5
  <2>6. CASE other # key
    <3>1. page'.toggled[other] = page.toggled[other]
      BY <1>8, <2>2, <2>6
    <3>2. CASE page.toggled[other] = None
      BY <3>1, <3>2
    <3>3. CASE page.toggled[other] # None
      <4>1. (other \in OpenSections) = page.toggled[other]
        BY <2>3, <3>3, ChoiceRules
      <4>2. \A t : t.frontend = other => (isOpen(t)' <=> page.toggled[other])
        BY <3>1, <3>3 DEF isOpen
      <4>3. \E t \in ServicesOf(grouping) : t.frontend = other
        BY DEF SectionKeys
      <4>4. other \in OpenSections' <=> page.toggled[other]
        BY <2>4, <4>2, <4>3
      <4> QED
        BY <2>3, <3>1, <3>3, <4>1, <4>4
    <3> QED
      BY <3>2, <3>3
  <2> QED
    BY <2>5, <2>6
<1>12. ChoiceStep
  BY <1>11 DEF ChoiceStep
<1> QED
  BY <1>9, <1>10, <1>12 DEF Remembers, CardStays

LEMMA InitOK == Init => DashInv
<1> SUFFICES ASSUME Init PROVE DashInv
  OBVIOUS
<1>1. fleet \in [{} -> UNION {Reports[n] : n \in Nodes}]
  BY DEF Init
<1>2. OpenFleet \in FleetScreen
  BY DEF OpenFleet, FleetScreen, Filters, Sorts, SortKeys
<1>3. ~On("metrics")
  BY <1>2 DEF Init, On, FleetScreen
<1>4. {} \in SUBSET Nodes /\ \A n \in {} : fleet[n] \in Reports[n]
  OBVIOUS
<1>5. TypeOK
  BY <1>1, <1>2, <1>4 DEF Init, TypeOK
<1>6. FleetIsReported
  BY <1>1, <1>4 DEF FleetIsReported
<1> QED
  BY <1>3, <1>5, <1>6 DEF DashInv, Remembers, ColoursKnown

\* A step that only keeps or drops a graph keeps what is known of it.
LEMMA KeptOK ==
  ASSUME DashInv, Kept
  PROVE  DashInv' /\ ColourStep /\ ChoiceStep
<1> USE DEF DashInv, Kept
<1>1. ColoursKnown'
  BY DEF ColoursKnown, CardStays
<1>2. ColourStep
  BY DEF ColoursKnown, CardStays, ColourStep
<1>3. ChoiceStep
  BY ChoicesHold
<1> QED
  BY <1>1, <1>2, <1>3

LEMMA NextOK ==
  DashInv /\ [Next]_vars => DashInv' /\ ColourStep /\ ChoiceStep
<1> SUFFICES ASSUME DashInv, [Next]_vars PROVE DashInv' /\ ColourStep /\ ChoiceStep
  OBVIOUS
<1>1. TypeOK /\ FleetIsReported /\ Remembers
  BY DEF DashInv
<1>2. ASSUME NEW n \in Nodes, Arrives(n) PROVE Kept
  BY <1>1, <1>2, ArrivesOK
<1>3. ASSUME NEW n \in Nodes, Leaves(n) PROVE Kept
  BY <1>1, <1>3, LeavesOK
<1>4. ASSUME NEW route \in {"fleet", "metrics", "config"}, Go(route) PROVE Kept
  BY <1>1, <1>4, GoOK
<1>5. ASSUME NEW n \in Nodes, GoToNode(n) PROVE Kept
  BY <1>1, <1>5, GoToNodeOK
<1>6. ASSUME NEW filter \in Filters, SetFilter(filter) PROVE Kept
  BY <1>1, <1>6, SetFilterOK
<1>7. ASSUME \/ ToggleProblemsOnly
             \/ ToggleGrouped
             \/ \E key \in SortKeys : toggleSort(key)
             \/ \E n \in Nodes : ToggleRow(n)
      PROVE  Kept
  BY <1>1, <1>7, FleetPageOK
<1>8. ASSUME ToggleShowAll PROVE Kept
  BY <1>1, <1>8, ToggleShowAllOK
<1>9. ASSUME NEW key \in Sections, ToggleSection(key)
      PROVE  DashInv' /\ ColourStep /\ ChoiceStep
  <2>1. TypeOK' /\ FleetIsReported' /\ Remembers' /\ CardStays /\ ChoiceStep
    BY <1>1, <1>9, ToggleSectionOK
  <2>2. ColoursKnown' /\ ColourStep
    BY <2>1 DEF DashInv, ColoursKnown, CardStays, ColourStep
  <2> QED
    BY <2>1, <2>2 DEF DashInv
<1>10. ASSUME NEW n \in Nodes, PickNode(n) PROVE Kept
  BY <1>1, <1>10, PickNodeOK
<1>11. ASSUME PickRange PROVE Kept
  BY <1>1, <1>11, PickRangeOK
<1>12. ASSUME Refetch PROVE DashInv' /\ ColourStep /\ ChoiceStep
  <2>1. DashInv' /\ ColourStep /\ ToggledStay
    BY <1>12, RefetchOK
  <2>2. ChoiceStep
    BY <1>1, <2>1, ChoicesHold DEF DashInv
  <2> QED
    BY <2>1, <2>2
<1>13. ASSUME \/ \E n \in Nodes : PickLeft(n)
              \/ \E n \in Nodes \cup {None} : PickRight(n)
              \/ ToggleEditing
              \/ \E n \in Nodes : ConfigAnswered(n)
       PROVE  Kept
  BY <1>1, <1>13, ConfigPageOK
<1>14. ASSUME UNCHANGED vars PROVE Kept
  BY <1>1, <1>14
  DEF vars, Kept, TypeOK, FleetIsReported, Remembers, CardStays, ToggledStay, On, Shown
<1> QED
  BY <1>2, <1>3, <1>4, <1>5, <1>6, <1>7, <1>8, <1>9, <1>10, <1>11, <1>12, <1>13, <1>14,
     KeptOK DEF Next

-----------------------------------------------------------------------------
(* Theorems                                                                *)

\* What the screens rest on holds in every reachable state: each shows a
\* fleet of reported nodes, the metrics page charts the node it remembers,
\* and a graph gives its slots in order.
THEOREM DashboardCorrect == Spec => []DashInv
BY InitOK, NextOK, PTL DEF Spec

\* Every screen's state, and the fleet's, is of its type.
THEOREM DashboardTypeCorrect == Spec => []TypeOK
<1>1. DashInv => TypeOK
  BY DEF DashInv
<1> QED
  BY <1>1, DashboardCorrect, PTL

\* A name keeps its slot as long as its graph is on the page, and no longer; a
\* graph that comes back gives its slots anew; and colours repeat once there are
\* more names than colours (against TimeSeriesChart.tsx:24 and :10), for any
\* palette, names and answers.
THEOREM ColoursStayCorrect == Spec => ColoursStay
BY DashboardCorrect, NextOK, PTL DEF Spec, ColoursStay

\* "A manual toggle always wins, so a section you closed stays closed"
\* (NodeDetail.tsx:103), for any node and any polls.
THEOREM ChoicesStickCorrect == Spec => ChoicesStick
BY DashboardCorrect, NextOK, PTL DEF Spec, ChoicesStick

\* "Remembered across visits" (Metrics.tsx:30): the metrics page charts a
\* node of the fleet whenever there is one, and the one it remembers.
THEOREM ChartsARealNodeCorrect == Spec => []ChartsARealNode
<1>1. DashInv => ChartsARealNode
  <2> SUFFICES ASSUME DashInv, On("metrics"), Shown # {}
               PROVE  /\ Chosen(fleet, page.nodeId) \in Shown
                      /\ page.nodeId \in Shown => Chosen(fleet, page.nodeId) = page.nodeId
                      /\ Chosen(fleet, saved) = Chosen(fleet, page.nodeId)
    BY DEF ChartsARealNode
  <2>1. /\ Chosen(fleet, page.nodeId) \in Shown
        /\ page.nodeId \in Shown => Chosen(fleet, page.nodeId) = page.nodeId
    BY ChosenShown DEF DashInv
  <2>2. saved = Chosen(fleet, page.nodeId)
    BY DEF DashInv, Remembers
  <2>3. Chosen(fleet, saved) = saved
    BY <2>1, <2>2, ChosenShown DEF DashInv
  <2> QED
    BY <2>1, <2>2, <2>3
<1> QED
  BY <1>1, DashboardCorrect, PTL

-----------------------------------------------------------------------------
(* What a screen shows, whatever the nodes report                          *)

\* Filtering never leaves a section with headers above empty tables
\* (NodeDetail.tsx:644), for any names and any filter.
LEMMA FilterOK == FilterLeavesRows
<1>1. ASSUME NEW b, BackendMatches(b)
      PROVE  \/ VisibleServers(b, FALSE) # {}
             \/ b.servers = {} /\ match(b.name)
  BY <1>1 DEF BackendMatches, VisibleServers
<1>2. ASSUME NEW s \in listed
      PROVE  \/ \E b \in s.backends : \/ VisibleServers(b, match(s.frontend)) # {}
                                      \/ b.servers = {} /\ match(b.name)
             \/ \A b \in s.backends : b.servers = {}
             \/ \E name \in s.missing : match(name)
  <2>1. serviceMatches(s)
    BY DEF listed, matching
  <2>2. CASE match(s.frontend)
    <3>1. \A b \in s.backends : VisibleServers(b, match(s.frontend)) = b.servers
      BY <2>2 DEF VisibleServers
    <3> QED
      BY <3>1
  <2>3. CASE \E name \in s.missing : match(name)
    BY <2>3
  <2>4. CASE \E b \in s.backends : BackendMatches(b)
    <3>1. PICK b \in s.backends : BackendMatches(b)
      BY <2>4
    <3>2. VisibleServers(b, FALSE) \subseteq VisibleServers(b, match(s.frontend))
      BY DEF VisibleServers
    <3> QED
      BY <1>1, <3>1, <3>2
  <2> QED
    BY <2>1, <2>2, <2>3, <2>4 DEF serviceMatches
<1>3. \A b \in visibleOrphans \cup flatBackends : BackendMatches(b)
  BY DEF visibleOrphans, flatBackends
<1>4. \A b \in IF Grouped THEN visibleOrphans ELSE flatBackends :
        VisibleServers(b, FALSE) # {} \/ b.servers = {}
  BY <1>1, <1>3
<1> QED
  BY <1>2, <1>4 DEF FilterLeavesRows

THEOREM FilterLeavesRowsCorrect == Spec => []FilterLeavesRows
BY FilterOK, PTL

-----------------------------------------------------------------------------
(* One node, several judges                                                *)

LEMMA ServersFinite ==
  ASSUME NEW node, IsSnapshot(node)
  PROVE  /\ IsFiniteSet(ServersOf(node)) /\ IsFiniteSet(DownServers(node))
         /\ Cardinality(ServersOf(node)) \in Nat /\ Cardinality(DownServers(node)) \in Nat
<1> DEFINE tables == {{b.name} \X b.servers : b \in node.backends}
           table == [b \in node.backends |-> {b.name} \X b.servers]
<1>1. IsFiniteSet(node.backends) /\ \A b \in node.backends : IsFiniteSet(b.servers)
  BY DEF IsSnapshot
<1>2. table \in Surjection(node.backends, tables)
  BY DEF Surjection
<1>3. IsFiniteSet(tables)
  <2> HIDE DEF table, tables
  <2> QED
    BY <1>1, <1>2, FS_Surjection
<1>4. \A t \in tables : IsFiniteSet(t)
  <2> TAKE t \in tables
  <2>1. PICK b \in node.backends : t = {b.name} \X b.servers
    OBVIOUS
  <2>2. IsFiniteSet({b.name}) /\ IsFiniteSet(b.servers)
    BY <1>1, FS_Singleton
  <2> QED
    BY <2>1, <2>2, FS_Product
<1>5. IsFiniteSet(UNION tables)
  <2> HIDE DEF tables
  <2> QED
    BY <1>3, <1>4, FS_UNION
<1>6. IsFiniteSet(ServersOf(node))
  BY <1>5 DEF ServersOf
<1>7. DownServers(node) \in SUBSET ServersOf(node)
  BY DEF DownServers
<1>8. IsFiniteSet(DownServers(node))
  BY <1>6, <1>7, FS_Subset
<1> QED
  BY <1>6, <1>8, FS_CardinalityType

\* A server is down when one of a backend is, and it is not a backup.
LEMMA DownOK ==
  ASSUME NEW node, IsSnapshot(node)
  PROVE  /\ DownServers(node) # {} <=>
              \E b \in node.backends : \E s \in b.servers : ~s.up /\ ~s.backup
         /\ \A b \in node.backends :
              Up(Active(b)) # Active(b) <=> \E s \in b.servers : ~s.up /\ ~s.backup
<1>1. ASSUME NEW p \in DownServers(node)
      PROVE  \E b \in node.backends : \E s \in b.servers : ~s.up /\ ~s.backup
  BY DEF DownServers, ServersOf
<1>2. ASSUME NEW b \in node.backends, NEW s \in b.servers, ~s.up /\ ~s.backup
      PROVE  DownServers(node) # {}
  <2>1. <<b.name, s>> \in ServersOf(node)
    BY DEF ServersOf
  <2>2. <<b.name, s>>[2] = s
    OBVIOUS
  <2> QED
    BY <1>2, <2>1, <2>2 DEF DownServers
<1>3. \A b \in node.backends :
        Up(Active(b)) # Active(b) <=> \E s \in b.servers : ~s.up /\ ~s.backup
  BY DEF Up, Active
<1> QED
  BY <1>1, <1>2, <1>3

\* A backend counts less than its total when a server that counts is down.
LEMMA CountsOK ==
  ASSUME NEW node, IsSnapshot(node), NEW b \in node.backends
  PROVE  /\ counts(b).up < counts(b).total <=> Up(Active(b)) # Active(b)
         /\ counts(b).total > 0 /\ counts(b).up = 0 => Up(Active(b)) # Active(b)
         /\ degraded(b) <=> \/ Up(Active(b)) # Active(b)
                            \/ \E s \in b.servers : s.backup /\ ~s.up
<1>1. /\ IsFiniteSet(b.servers)
      /\ b.servers_up = Cardinality(Up(b.servers))
      /\ b.servers_total = Cardinality(b.servers)
  BY DEF IsSnapshot
<1>2. ASSUME NEW S, IsFiniteSet(S), Up(S) \in SUBSET S
      PROVE  /\ Cardinality(Up(S)) \in Nat /\ Cardinality(S) \in Nat
             /\ Cardinality(Up(S)) < Cardinality(S) <=> Up(S) # S
  <2>1. /\ IsFiniteSet(Up(S)) /\ Cardinality(Up(S)) <= Cardinality(S)
        /\ Cardinality(Up(S)) = Cardinality(S) => S = Up(S)
    BY <1>2, FS_Subset
  <2>2. Cardinality(Up(S)) \in Nat /\ Cardinality(S) \in Nat
    BY <1>2, <2>1, FS_CardinalityType
  <2> QED
    BY <2>1, <2>2
<1>3. /\ Up(b.servers) \in SUBSET b.servers
      /\ Up(Active(b)) \in SUBSET Active(b)
      /\ Active(b) \in SUBSET b.servers
  BY DEF Up, Active
<1>4. IsFiniteSet(Active(b))
  BY <1>1, <1>3, FS_Subset
<1>5. degraded(b) <=> Up(b.servers) # b.servers
  BY <1>1, <1>2, <1>3 DEF degraded
<1>6. Up(b.servers) # b.servers <=> \/ Up(Active(b)) # Active(b)
                                   \/ \E s \in b.servers : s.backup /\ ~s.up
  BY DEF Up, Active
<1>7. CASE b.servers = {}
  <2>1. counts(b).up = 0 /\ counts(b).total = 0
    <3>1. Up(b.servers) = {}
      BY <1>7 DEF Up
    <3>2. Cardinality({}) = 0
      BY FS_EmptySet
    <3> QED
      BY <1>1, <1>7, <3>1, <3>2 DEF counts
  <2>2. Up(Active(b)) = Active(b)
    BY <1>7 DEF Up, Active
  <2> QED
    BY <1>5, <1>6, <2>1, <2>2
<1>8. CASE b.servers # {}
  <2>1. /\ counts(b).up = Cardinality(Up(Active(b)))
        /\ counts(b).total = Cardinality(Active(b))
    BY <1>8 DEF counts
  <2>2. /\ counts(b).up \in Nat /\ counts(b).total \in Nat
        /\ counts(b).up < counts(b).total <=> Up(Active(b)) # Active(b)
    BY <1>2, <1>3, <1>4, <2>1
  <2>3. counts(b).total > 0 /\ counts(b).up = 0 => Up(Active(b)) # Active(b)
    BY <2>2
  <2> QED
    BY <1>5, <1>6, <2>2, <2>3
<1> QED
  BY <1>7, <1>8

\* How the labels of a node, the count of problems and that of nodes go by it.
LEMMA LabelsAgree ==
  ASSUME NEW name, NEW node, IsSnapshot(node)
  PROVE  LET state == toRow(name, node).state
             lost == DownServers(node) # {}
         IN /\ <<state, stateOf(node)>> \in
                 {<<"disabled", "OFF">>, <<"pending", "PENDING">>, <<"down", "DOWN">>,
                  <<"degraded", "DEGRADED">>, <<"ok", "UP">>}
            /\ IsProblem(node) <=> state \in {"down", "degraded"} \/ (state = "disabled" /\ lost)
            /\ node.enabled /\ ~node.reachable <=> state \in {"down", "pending"}
            /\ ~node.reachable => ~lost
            /\ lost /\ state # "disabled" <=> state = "degraded"
<1> DEFINE state == toRow(name, node).state
           isDown == DownServers(node) # {}
<1>1. state = IF ~node.enabled THEN "disabled"
              ELSE IF node.pending THEN "pending"
              ELSE IF ~node.reachable THEN "down"
              ELSE IF isDown THEN "degraded" ELSE "ok"
  BY DEF toRow
<1>2. stateOf(node) = IF ~node.enabled THEN "OFF"
                      ELSE IF node.pending THEN "PENDING"
                      ELSE IF ~node.reachable THEN "DOWN"
                      ELSE IF isDown THEN "DEGRADED" ELSE "UP"
  BY DownOK DEF stateOf
<1>3. IsProblem(node) <=> (node.enabled /\ ~node.reachable /\ ~node.pending) \/ isDown
  BY DEF IsProblem
<1>4. (node.pending => ~node.reachable) /\ (~node.reachable => ~isDown)
  BY DownOK DEF IsSnapshot
<1>5. isDown <=> DownServers(node) # {}
  OBVIOUS
<1>6. SUFFICES
        /\ <<state, stateOf(node)>> \in
             {<<"disabled", "OFF">>, <<"pending", "PENDING">>, <<"down", "DOWN">>,
              <<"degraded", "DEGRADED">>, <<"ok", "UP">>}
        /\ IsProblem(node) <=> state \in {"down", "degraded"} \/ (state = "disabled" /\ isDown)
        /\ node.enabled /\ ~node.reachable <=> state \in {"down", "pending"}
        /\ isDown /\ state # "disabled" <=> state = "degraded"
  BY <1>4
<1> HIDE DEF state, isDown
<1>7. CASE ~node.enabled
  BY <1>1, <1>2, <1>3, <1>7
<1>8. CASE node.enabled /\ node.pending
  BY <1>1, <1>2, <1>3, <1>4, <1>8
<1>9. CASE node.enabled /\ ~node.pending /\ ~node.reachable
  BY <1>1, <1>2, <1>3, <1>4, <1>9
<1>10. CASE node.enabled /\ ~node.pending /\ node.reachable
  BY <1>1, <1>2, <1>3, <1>4, <1>10
<1> QED
  BY <1>7, <1>8, <1>9, <1>10

\* A server that is down, or a target that is missing, is said of a service or
\* of an unrouted backend, and nothing else is.
LEMMA HealthOK ==
  ASSUME NEW node, IsSnapshot(node)
  PROVE  LET services == ServicesOf(groupServices(node))
             orphans == groupServices(node).orphans
         IN /\ \A s \in services : serviceHealth(s) # "ok" <=>
                 s.missing # {} \/ \E b \in s.backends : Up(Active(b)) # Active(b)
            /\ \A b \in node.backends :
                 (\E s \in services : b \in s.backends) \/ b \in orphans
            /\ DownServers(node) # {} \/ (\E s \in services : s.missing # {}) <=>
                 \/ \E s \in services : serviceHealth(s) # "ok"
                 \/ \E b \in orphans : Up(Active(b)) # Active(b)
<1> DEFINE services == ServicesOf(groupServices(node))
           orphans == groupServices(node).orphans
           ill(b) == Up(Active(b)) # Active(b)
<1>1. /\ \A s \in services : s.backends \in SUBSET node.backends
      /\ orphans \in SUBSET node.backends
  BY GroupingOK DEF ServicesOf
<1>2. ASSUME NEW s \in services
      PROVE  serviceHealth(s) # "ok" <=> s.missing # {} \/ \E b \in s.backends : ill(b)
  <2>1. \A b \in s.backends :
          /\ counts(b).up < counts(b).total <=> ill(b)
          /\ counts(b).total > 0 /\ counts(b).up = 0 => ill(b)
    BY <1>1, CountsOK
  <2> HIDE DEF ill
  <2> QED
    BY <2>1 DEF serviceHealth
<1>3. ASSUME NEW b \in node.backends
      PROVE  (\E s \in services : b \in s.backends) \/ b \in orphans
  <2>1. CASE \E i \in DOMAIN node.frontends : b.name \in node.frontends[i].routed
    <3>1. PICK i \in DOMAIN node.frontends : b.name \in node.frontends[i].routed
      BY <2>1
    <3>2. b \in groupServices(node).services[i].backends
      BY <3>1, GroupingOK
    <3>3. groupServices(node).services[i] \in services
      BY GroupingOK DEF ServicesOf
    <3> QED
      BY <3>2, <3>3
  <2>2. CASE \A i \in DOMAIN node.frontends : b.name \notin node.frontends[i].routed
    BY <2>2, GroupingOK
  <2> QED
    BY <2>1, <2>2
<1>4. DownServers(node) # {} <=> \E b \in node.backends : ill(b)
  BY DownOK
<1>5. DownServers(node) # {} \/ (\E s \in services : s.missing # {}) <=>
        \/ \E s \in services : serviceHealth(s) # "ok"
        \/ \E b \in orphans : ill(b)
  <2> HIDE DEF services, orphans, ill
  <2> QED
    BY <1>1, <1>2, <1>3, <1>4
<1> QED
  BY <1>2, <1>3, <1>5

\* Of a fleet, servers are down when they are of one of its nodes, and the API
\* leaves out nodes that have none.
LEMMA SumsOK ==
  ASSUME FleetIsReported
  PROVE  /\ servers_down(fleet) = api_servers_down(fleet)
         /\ servers_down(fleet) = 0 <=> \A n \in Shown : DownServers(fleet[n]) = {}
         /\ nodes_down(fleet) = 0 <=> \A n \in Shown : ~(fleet[n].enabled /\ ~fleet[n].reachable)
<1> DEFINE downs == {n \in Shown : fleet[n].enabled /\ ~fleet[n].reachable}
           tables == {{n} \X DownServers(fleet[n]) : n \in Shown}
           table == [n \in Shown |-> {n} \X DownServers(fleet[n])]
           answering == {m \in Shown : fleet[m].reachable}
<1>1. Shown \in SUBSET Nodes /\ \A n \in Shown : IsSnapshot(fleet[n])
  BY ShownOK
<1>2. IsFiniteSet(Shown)
  BY <1>1, NodesAssumption, FS_Subset
<1>3. nodes_down(fleet) = 0 <=> downs = {}
  <2>1. nodes_down(fleet) = Cardinality(downs)
    BY DEF nodes_down, Shown
  <2>2. IsFiniteSet(downs)
    BY <1>2, FS_Subset
  <2> HIDE DEF downs
  <2> QED
    BY <2>1, <2>2, FS_EmptySet
<1>4. servers_down(fleet) = 0 <=> UNION tables = {}
  <2>1. table \in Surjection(Shown, tables)
    BY DEF Surjection
  <2>2. IsFiniteSet(tables)
    <3> HIDE DEF table, tables
    <3> QED
      BY <1>2, <2>1, FS_Surjection
  <2>3. \A t \in tables : IsFiniteSet(t)
    <3> TAKE t \in tables
    <3>1. PICK n \in Shown : t = {n} \X DownServers(fleet[n])
      OBVIOUS
    <3>2. IsFiniteSet({n}) /\ IsFiniteSet(DownServers(fleet[n]))
      BY <1>1, ServersFinite, FS_Singleton
    <3> QED
      BY <3>1, <3>2, FS_Product
  <2>4. IsFiniteSet(UNION tables)
    <3> HIDE DEF tables
    <3> QED
      BY <2>2, <2>3, FS_UNION
  <2>5. Cardinality(UNION tables) = servers_down(fleet)
    BY DEF servers_down, Shown
  <2> HIDE DEF tables
  <2> QED
    BY <2>4, <2>5, FS_EmptySet
<1>5. UNION tables = {} <=> \A n \in Shown : DownServers(fleet[n]) = {}
  <2>1. ASSUME NEW n \in Shown, UNION tables = {} PROVE DownServers(fleet[n]) = {}
    <3>1. {n} \X DownServers(fleet[n]) \in tables
      OBVIOUS
    <3>2. \A p \in DownServers(fleet[n]) : <<n, p>> \in UNION tables
      BY <3>1
    <3> HIDE DEF tables
    <3> QED
      BY <2>1, <3>2
  <2>2. ASSUME \A n \in Shown : DownServers(fleet[n]) = {} PROVE UNION tables = {}
    <3>1. \A t \in tables : t = {}
      <4> TAKE t \in tables
      <4>1. PICK n \in Shown : t = {n} \X DownServers(fleet[n])
        OBVIOUS
      <4>2. DownServers(fleet[n]) = {}
        BY <2>2
      <4> QED
        BY <4>1, <4>2
    <3> HIDE DEF tables
    <3> QED
      BY <3>1
  <2> QED
    BY <2>1, <2>2
<1>6. servers_down(fleet) = api_servers_down(fleet)
  <2> DEFINE heard == {{n} \X DownServers(fleet[n]) : n \in answering}
  <2>1. \A n \in Shown \ answering : {n} \X DownServers(fleet[n]) = {}
    <3> TAKE n \in Shown \ answering
    <3>1. DownServers(fleet[n]) = {}
      BY <1>1, LabelsAgree
    <3> QED
      BY <3>1
  <2>2. \A t \in tables : t \in heard \/ t = {}
    BY <2>1
  <2>3. \A t \in heard : t \in tables
    OBVIOUS
  <2>4. UNION tables = UNION heard
    <3> HIDE DEF tables, heard
    <3> QED
      BY <2>2, <2>3
  <2> QED
    BY <2>4 DEF servers_down, api_servers_down, Shown
<1> QED
  BY <1>3, <1>4, <1>5, <1>6

\* What the filter leaves, and what it hides, is what is counted.
LEMMA ProblemsCounted ==
  ASSUME FleetIsReported, page.problemsOnly, page.filter = Everything
  PROVE  problemCount = Cardinality(rows) + Cardinality(
           {n \in Shown : toRow(n, fleet[n]).state = "disabled" /\ DownServers(fleet[n]) # {}})
<1> DEFINE state(n) == toRow(n, fleet[n]).state
           hidden == {n \in Shown : state(n) = "disabled" /\ DownServers(fleet[n]) # {}}
           counted == {n \in Shown : state(n) \in {"down", "degraded"}}
           row == [n \in counted |-> toRow(n, fleet[n])]
<1>1. \A n \in Shown : IsProblem(fleet[n]) <=> n \in counted \/ n \in hidden
  BY ShownOK, LabelsAgree
<1>2. {n \in Shown : IsProblem(fleet[n])} = counted \cup hidden /\ counted \cap hidden = {}
  BY <1>1
<1>3. IsFiniteSet(Shown)
  BY ShownOK, NodesAssumption, FS_Subset
<1>4. IsFiniteSet(counted) /\ IsFiniteSet(hidden)
  BY <1>3, FS_Subset
<1>5. Cardinality(counted \cup hidden) = Cardinality(counted) + Cardinality(hidden)
  <2> HIDE DEF counted, hidden
  <2>1. Cardinality(counted \cup hidden)
          = Cardinality(counted) + Cardinality(hidden) - Cardinality(counted \cap hidden)
    BY <1>4, FS_Union
  <2>2. Cardinality(counted \cap hidden) = 0
    BY <1>2, FS_EmptySet
  <2>3. Cardinality(counted) \in Nat /\ Cardinality(hidden) \in Nat
    BY <1>4, FS_CardinalityType
  <2> QED
    BY <2>1, <2>2, <2>3
<1>6. rows = {toRow(n, fleet[n]) : n \in counted}
  BY DEF rows, RowPasses, Matches
<1>7. row \in Bijection(counted, rows)
  <2>1. row \in [counted -> rows] /\ \A r \in rows : \E n \in counted : row[n] = r
    BY <1>6
  <2>2. \A n \in counted : row[n].name = n
    BY DEF toRow
  <2> HIDE DEF row, counted
  <2> QED
    BY <2>1, <2>2 DEF Bijection, Injection, Surjection, IsInjective
<1>8. Cardinality(rows) = Cardinality(counted)
  <2> HIDE DEF row, counted
  <2> QED
    BY <1>4, <1>7, FS_Bijection DEF ExistsBijection
<1> QED
  BY <1>2, <1>5, <1>8 DEF problemCount

\* "The distinction has to hold in four places that compute it independently"
\* (README.md:117): where the rules by which a node is judged part, and that
\* they part nowhere else, for any fleet, whatever it reports.
THEOREM AnswersComparedCorrect == Spec => []AnswersCompared
<1>1. DashInv => AnswersCompared
  <2> SUFFICES ASSUME DashInv PROVE AnswersCompared
    OBVIOUS
  <2> DEFINE label(n) == toRow(n, fleet[n]).state
             lost(n) == DownServers(fleet[n]) # {}
             hidden == {n \in Shown : label(n) = "disabled" /\ lost(n)}
             grouped(n) == groupServices(fleet[n])
  <2>1. FleetIsReported /\ \A n \in Shown : IsSnapshot(fleet[n])
    BY ShownOK DEF DashInv
  <2>2. On("fleet") /\ page.problemsOnly /\ page.filter = Everything =>
          problemCount = Cardinality(rows) + Cardinality(hidden)
    BY <2>1, ProblemsCounted
  <2>3. \A n \in Shown :
          /\ <<label(n), stateOf(fleet[n])>> \in
               {<<"disabled", "OFF">>, <<"pending", "PENDING">>, <<"down", "DOWN">>,
                <<"degraded", "DEGRADED">>, <<"ok", "UP">>}
          /\ fleet[n].enabled /\ ~fleet[n].reachable <=> label(n) \in {"down", "pending"}
          /\ lost(n) /\ label(n) # "disabled" <=> label(n) = "degraded"
    BY <2>1, LabelsAgree
  <2>4. nodes_down(fleet) = Cardinality({n \in Shown : label(n) \in {"down", "pending"}})
    <3>1. {n \in Shown : fleet[n].enabled /\ ~fleet[n].reachable}
            = {n \in Shown : label(n) \in {"down", "pending"}}
      <4> HIDE DEF label
      <4> QED
        BY <2>3
    <3> QED
      BY <3>1 DEF nodes_down, Shown
  <2>5. allUp(fleet) <=>
          Shown # {} /\ \A n \in Shown : label(n) \in {"ok", "disabled"} /\ n \notin hidden
    <3>1. allUp(fleet) <=>
            /\ Shown # {}
            /\ \A n \in Shown : ~(fleet[n].enabled /\ ~fleet[n].reachable)
            /\ \A n \in Shown : ~lost(n)
      BY <2>1, SumsOK DEF allUp, Shown
    <3>2. \A n \in Shown : n \in hidden <=> label(n) = "disabled" /\ lost(n)
      OBVIOUS
    <3>3. \A n \in Shown : label(n) \in {"disabled", "pending", "down", "degraded", "ok"}
      <4> HIDE DEF label
      <4> QED
        BY <2>3
    <3> HIDE DEF label, lost, hidden
    <3> QED
      BY <2>3, <3>1, <3>2, <3>3
  <2>6. \A n \in Shown :
          /\ lost(n) \/ (\E s \in ServicesOf(grouped(n)) : s.missing # {}) <=>
               \/ \E s \in ServicesOf(grouped(n)) : serviceHealth(s) # "ok"
               \/ \E b \in grouped(n).orphans : Up(Active(b)) # Active(b)
          /\ \A b \in fleet[n].backends :
               degraded(b) <=> \/ Up(Active(b)) # Active(b)
                               \/ \E s \in b.servers : s.backup /\ ~s.up
    BY <2>1, HealthOK, CountsOK
  <2>7. servers_down(fleet) = api_servers_down(fleet)
    BY <2>1, SumsOK
  <2> QED
    BY <2>2, <2>3, <2>4, <2>5, <2>6, <2>7 DEF AnswersCompared
<1> QED
  BY <1>1, DashboardCorrect, PTL

-----------------------------------------------------------------------------
(* What is shown of the services                                           *)

\* An expanded row has one table of servers for every backend of the node.
LEMMA OneTableEach ==
  ASSUME NEW node, IsSnapshot(node), node.readable, NEW c \in node.backends
  PROVE  TablesOf(node, c.name) = 1
<1> DEFINE g == groupServices(node)
           b == c.name
           reach == {i \in DOMAIN g.services : b \in NamesOf(g.services[i].backends)}
           tables == {i \in DOMAIN g.services :
                        /\ b \in NamesOf(g.services[i].backends)
                        /\ serversShownUnder(g, b) = g.services[i].frontend}
<1>1. ~g.unavailable
  BY GroupingOK DEF IsSnapshot
<1>2. TablesOf(node, b) = Cardinality(tables) + IF b \in NamesOf(g.orphans) THEN 1 ELSE 0
  BY <1>1 DEF TablesOf
<1>3. ASSUME NEW i \in DOMAIN g.services
      PROVE  b \in NamesOf(g.services[i].backends) <=> b \in node.frontends[i].routed
  BY GroupingOK DEF NamesOf
<1>4. b \in NamesOf(g.orphans) <=>
        \A i \in DOMAIN node.frontends : b \notin node.frontends[i].routed
  BY GroupingOK DEF NamesOf
<1>5. DOMAIN g.services = DOMAIN node.frontends /\ DOMAIN node.frontends \subseteq Nat
  <2>1. DOMAIN g.services = DOMAIN node.frontends
    BY GroupingOK
  <2>2. /\ IsFiniteSet(DOMAIN node.frontends)
        /\ DOMAIN node.frontends = 1..Cardinality(DOMAIN node.frontends)
    BY DEF IsSnapshot
  <2>3. Cardinality(DOMAIN node.frontends) \in Nat
    BY <2>2, FS_CardinalityType
  <2> QED
    BY <2>1, <2>2, <2>3
<1>6. b \in NamesOf(g.orphans) <=> reach = {}
  BY <1>3, <1>4, <1>5
<1>7. serversShownUnder(g, b) = g.services[Min(reach)].frontend
  BY DEF serversShownUnder
<1>8. CASE reach = {}
  <2>1. tables = {}
    BY <1>8
  <2>2. Cardinality(tables) = 0
    BY <2>1, FS_EmptySet
  <2> QED
    BY <1>2, <1>6, <1>8, <2>2
<1>9. CASE reach # {}
  <2>1. Min(reach) \in reach
    BY <1>5, <1>9, MinOK
  <2>2. tables = {Min(reach)}
    <3>1. Min(reach) \in tables
      BY <1>7, <2>1
    <3>2. \A i \in tables : i = Min(reach)
      <4>1. \A i, j \in DOMAIN g.services :
              g.services[i].frontend = g.services[j].frontend => i = j
        BY GroupingOK
      <4>2. Min(reach) \in DOMAIN g.services
        BY <2>1
      <4> QED
        BY <1>7, <4>1, <4>2
    <3> QED
      BY <3>1, <3>2
  <2>3. Cardinality(tables) = 1
    <3> HIDE DEF tables
    <3> QED
      BY <2>2, FS_Singleton
  <2> QED
    BY <1>2, <1>6, <1>9, <2>3
<1> QED
  BY <1>8, <1>9

\* "Still shown - never silently dropped" (services.ts:39), for any node.
THEOREM NothingDroppedCorrect == Spec => []NothingDropped
<1>1. DashInv => NothingDropped
  <2> SUFFICES ASSUME DashInv PROVE NothingDropped
    OBVIOUS
  <2>1. ASSUME Grouped, ~filtering,
               NEW b \in {c \in fleet[page.id].backends : Up(Active(c)) # Active(c)}
        PROVE  \/ \E s \in listed :
                    b \in s.backends /\ (isOpen(s) \/ page.toggled[s.frontend] = FALSE)
               \/ b \in visibleOrphans
    <3>1. IsSnapshot(fleet[page.id]) /\ SectionKeys \subseteq Sections
      BY <2>1, KeysAreSections DEF DashInv
    <3>2. \A name : match(name)
      BY <2>1 DEF match, Matches, filtering
    <3>3. CASE \E s \in ServicesOf(grouping) : b \in s.backends
      <4>1. PICK s \in ServicesOf(grouping) : b \in s.backends
        BY <3>3
      <4>2. serviceHealth(s) # "ok"
        BY <3>1, <4>1, HealthOK DEF grouping
      <4>3. s \in listed
        BY <3>2, <4>1, <4>2 DEF listed, matching, serviceMatches
      <4>4. page.toggled[s.frontend] \in BOOLEAN \cup {None}
        <5>1. page \in NodeScreen /\ s.frontend \in Sections
          BY <2>1, <3>1, <4>1, ScreenOK DEF DashInv, Grouped, SectionKeys
        <5> QED
          BY <5>1 DEF NodeScreen
      <4>5. isOpen(s) \/ page.toggled[s.frontend] = FALSE
        <5>1. CASE page.toggled[s.frontend] = None
          BY <4>2, <5>1 DEF isOpen, defaultOpen
        <5>2. CASE page.toggled[s.frontend] # None
          BY <4>4, <5>2 DEF isOpen
        <5> QED
          BY <5>1, <5>2
      <4> QED
        BY <4>1, <4>3, <4>5
    <3>4. CASE b \in grouping.orphans
      BY <3>2, <3>4 DEF visibleOrphans, BackendMatches
    <3> QED
      BY <3>1, <3>3, <3>4, HealthOK DEF grouping
  <2>2. ASSUME NEW n \in Shown, fleet[n].readable, NEW b \in fleet[n].backends
        PROVE  TablesOf(fleet[n], b.name) = 1
    BY <2>2, ShownOK, OneTableEach DEF DashInv
  <2> QED
    BY <2>1, <2>2 DEF NothingDropped
<1> QED
  BY <1>1, DashboardCorrect, PTL

-----------------------------------------------------------------------------
(* The comparison                                                          *)

\* Settings in a listing are not null, so two listings of a proxy are the
\* same when there is no setting that they differ in.
LEMMA FieldsOK ==
  ASSUME NEW p, NEW q
  PROVE  LET a == flatten(p)
             b == flatten(q)
         IN /\ Fields(a, b) = {} <=> a = b
            /\ {[path |-> f.path, a |-> f.b, b |-> f.a] : f \in Fields(a, b)} = Fields(b, a)
            /\ \A path : (\E f \in Fields(a, b) : f.path = path) <=> At(a, path) # At(b, path)
<1> DEFINE D == {x \in DOMAIN p : p[x] # Null /\ x[1] \notin Ignored}
           E == {x \in DOMAIN q : q[x] # Null /\ x[1] \notin Ignored}
           a == flatten(p)
           b == flatten(q)
<1>1. /\ a = [x \in D |-> p[x]] /\ b = [x \in E |-> q[x]]
      /\ \A x \in D : p[x] # Null
      /\ \A x \in E : q[x] # Null
  BY DEF flatten, Restrict
<1> HIDE DEF D, E, a, b
<1>2. /\ DOMAIN a = D /\ DOMAIN b = E
      /\ \A x \in D : a[x] # Null
      /\ \A x \in E : b[x] # Null
  BY <1>1
<1>3. \A x \in D \cup E : [path |-> x, a |-> At(a, x), b |-> At(b, x)] \in Fields(a, b)
                            <=> At(a, x) # At(b, x)
  BY <1>2 DEF Fields
<1>4. \A f \in Fields(a, b) : /\ f.path \in D \cup E /\ At(a, f.path) # At(b, f.path)
                              /\ f = [path |-> f.path, a |-> At(a, f.path), b |-> At(b, f.path)]
  BY <1>2 DEF Fields
<1>5. \A f \in Fields(b, a) : /\ f.path \in D \cup E /\ At(a, f.path) # At(b, f.path)
                              /\ f = [path |-> f.path, a |-> At(b, f.path), b |-> At(a, f.path)]
  BY <1>2 DEF Fields
<1>6. ASSUME Fields(a, b) = {} PROVE a = b
  <2>1. \A x \in D \cup E : At(a, x) = At(b, x)
    BY <1>3, <1>6
  <2>2. D = E
    BY <1>2, <2>1 DEF At
  <2>3. \A x \in D : p[x] = q[x]
    BY <1>1, <2>1, <2>2 DEF At
  <2> QED
    BY <1>1, <2>2, <2>3
<1>7. ASSUME a = b PROVE Fields(a, b) = {}
  BY <1>7 DEF Fields
<1>8. \A path : (\E f \in Fields(a, b) : f.path = path) <=> At(a, path) # At(b, path)
  <2> TAKE path
  <2>1. CASE path \in D \cup E
    BY <1>3, <1>4, <2>1
  <2>2. CASE path \notin D \cup E
    BY <1>2, <1>4, <2>2 DEF At
  <2> QED
    BY <2>1, <2>2
<1>9. {[path |-> f.path, a |-> f.b, b |-> f.a] : f \in Fields(a, b)} = Fields(b, a)
  <2>1. \A f \in Fields(a, b) : [path |-> f.path, a |-> f.b, b |-> f.a] \in Fields(b, a)
    BY <1>2, <1>4 DEF Fields
  <2>2. ASSUME NEW f \in Fields(b, a)
        PROVE  \E e \in Fields(a, b) : f = [path |-> e.path, a |-> e.b, b |-> e.a]
    <3>1. [path |-> f.path, a |-> At(a, f.path), b |-> At(b, f.path)] \in Fields(a, b)
      BY <1>3, <1>5
    <3> QED
      BY <1>5, <3>1
  <2> QED
    BY <2>1, <2>2
<1> QED
  BY <1>6, <1>7, <1>8, <1>9 DEF a, b

\* What the comparison of two lists of proxies says of one name.
LEMMA RowOK ==
  ASSUME NEW a, NEW b, NEW name \in DOMAIN a \cup DOMAIN b
  PROVE  LET row == diffProxies(a, b)[name]
             back == diffProxies(b, a)[name]
         IN /\ row.status \in {"only-a", "only-b", "same", "differs"}
            /\ row.status = "only-a" <=> name \notin DOMAIN b
            /\ row.status = "only-b" <=> name \notin DOMAIN a
            /\ row.status = "same" <=> /\ name \in DOMAIN a /\ name \in DOMAIN b
                                       /\ flatten(a[name]) = flatten(b[name])
            /\ back.status = "same" <=> row.status = "same"
            /\ row.status = "only-a" <=> back.status = "only-b"
            /\ {[path |-> f.path, a |-> f.b, b |-> f.a] : f \in row.fields} = back.fields
<1> DEFINE row == diffProxies(a, b)[name]
           back == diffProxies(b, a)[name]
           fa == flatten(a[name])
           fb == flatten(b[name])
<1>1. CASE name \notin DOMAIN b
  <2>1. row = [status |-> "only-a", fields |-> {}] /\ name \in DOMAIN a
    BY <1>1 DEF diffProxies
  <2>2. back = [status |-> "only-b", fields |-> {}]
    BY <1>1, <2>1 DEF diffProxies
  <2> HIDE DEF row, back
  <2> QED
    BY <1>1, <2>1, <2>2 DEF row, back
<1>2. CASE name \notin DOMAIN a
  <2>1. row = [status |-> "only-b", fields |-> {}] /\ name \in DOMAIN b
    BY <1>2 DEF diffProxies
  <2>2. back = [status |-> "only-a", fields |-> {}]
    BY <1>2, <2>1 DEF diffProxies
  <2> HIDE DEF row, back
  <2> QED
    BY <1>2, <2>1, <2>2 DEF row, back
<1>3. CASE name \in DOMAIN a /\ name \in DOMAIN b
  <2>1. row = [status |-> IF Fields(fa, fb) = {} THEN "same" ELSE "differs",
               fields |-> Fields(fa, fb)]
    BY <1>3 DEF diffProxies
  <2>2. back = [status |-> IF Fields(fb, fa) = {} THEN "same" ELSE "differs",
                fields |-> Fields(fb, fa)]
    BY <1>3 DEF diffProxies
  <2>3. /\ Fields(fa, fb) = {} <=> fa = fb
        /\ Fields(fb, fa) = {} <=> fa = fb
        /\ {[path |-> f.path, a |-> f.b, b |-> f.a] : f \in Fields(fa, fb)} = Fields(fb, fa)
        /\ \A p : (\E f \in Fields(fa, fb) : f.path = p) <=> At(fa, p) # At(fb, p)
    BY FieldsOK
  <2>4. /\ row.status = IF fa = fb THEN "same" ELSE "differs"
        /\ back.status = IF fa = fb THEN "same" ELSE "differs"
        /\ row.fields = Fields(fa, fb) /\ back.fields = Fields(fb, fa)
    BY <2>1, <2>2, <2>3
  <2> HIDE DEF row, back, fa, fb
  <2> QED
    BY <1>3, <2>3, <2>4 DEF row, back, fa, fb
<1> QED
  BY <1>1, <1>2, <1>3

\* Nothing has changed when the two listings are the same.
LEMMA ChangedOK ==
  ASSUME NEW a, NEW b, IsFiniteSet(DOMAIN a), IsFiniteSet(DOMAIN b)
  PROVE  LET there == Changed(diffProxies(a, b))
             back == Changed(diffProxies(b, a))
         IN /\ there = back
            /\ Cardinality(there) \in Nat
            /\ Cardinality(there) = 0 <=>
                 [name \in DOMAIN a |-> flatten(a[name])] = [name \in DOMAIN b |-> flatten(b[name])]
<1> DEFINE D == DOMAIN a \cup DOMAIN b
           there == Changed(diffProxies(a, b))
           back == Changed(diffProxies(b, a))
           la == [name \in DOMAIN a |-> flatten(a[name])]
           lb == [name \in DOMAIN b |-> flatten(b[name])]
<1>1. DOMAIN diffProxies(a, b) = D /\ DOMAIN diffProxies(b, a) = D
  BY DEF diffProxies
<1>2. there = {name \in D : diffProxies(a, b)[name].status # "same"}
  BY <1>1 DEF Changed
<1>3. back = {name \in D : diffProxies(b, a)[name].status # "same"}
  BY <1>1 DEF Changed
<1>4. \A name \in D : diffProxies(b, a)[name].status = "same"
                        <=> diffProxies(a, b)[name].status = "same"
  BY RowOK
<1>5. there = back
  BY <1>2, <1>3, <1>4
<1>6. IsFiniteSet(D)
  BY FS_Union
<1>7. there \in SUBSET D
  BY <1>2
<1>8. IsFiniteSet(there) /\ Cardinality(there) \in Nat
  <2> HIDE DEF there, D
  <2> QED
    BY <1>6, <1>7, FS_Subset, FS_CardinalityType
<1>9. there = {} <=> la = lb
  <2>1. ASSUME there = {} PROVE la = lb
    <3>1. \A name \in D : diffProxies(a, b)[name].status = "same"
      BY <1>2, <2>1
    <3>2. \A name \in D : /\ name \in DOMAIN a /\ name \in DOMAIN b
                          /\ flatten(a[name]) = flatten(b[name])
      BY <3>1, RowOK
    <3> QED
      BY <3>2
  <2>2. ASSUME la = lb PROVE there = {}
    <3>1. DOMAIN la = DOMAIN a /\ DOMAIN lb = DOMAIN b
      OBVIOUS
    <3>2. DOMAIN a = DOMAIN b
      <4> HIDE DEF la, lb
      <4> QED
        BY <2>2, <3>1
    <3>3. \A name \in DOMAIN a : la[name] = flatten(a[name])
      OBVIOUS
    <3>4. \A name \in DOMAIN b : lb[name] = flatten(b[name])
      OBVIOUS
    <3>5. \A name \in D : flatten(a[name]) = flatten(b[name])
      <4> HIDE DEF la, lb
      <4> QED
        BY <2>2, <3>2, <3>3, <3>4
    <3>6. \A name \in D : diffProxies(a, b)[name].status = "same"
      BY <3>2, <3>5, RowOK
    <3> QED
      BY <1>2, <3>6
  <2> QED
    BY <2>1, <2>2
<1>10. Cardinality(there) = 0 <=> la = lb
  <2> HIDE DEF there, la, lb
  <2> QED
    BY <1>8, <1>9, FS_EmptySet
<1> QED
  BY <1>5, <1>8, <1>10

\* The comparison says "identical" exactly when the two sides declare the
\* same, and reads the same from the other side (configdiff.ts:43, 104), for
\* any two configurations.
THEOREM DiffIsTheDifferenceCorrect == Spec => []DiffIsTheDifference
<1>1. DashInv => DiffIsTheDifference
  <2> SUFFICES ASSUME DashInv, Comparing PROVE DiffIsTheDifference
    BY DEF DiffIsTheDifference
  <2> DEFINE a == Answer(left)
             b == Answer(right)
             listing == <<describe(a), describe(b)>>
             mirrored == diffConfigs(b, a)
  <2>1. IsConfig(a) /\ IsConfig(b)
    <3>1. page \in ConfigScreen /\ a # None /\ b # None
      BY ScreenOK DEF Comparing, DashInv
    <3>2. left \in Nodes \cup {None} /\ right \in Nodes \cup {None}
      BY ChosenShown, ShownOK DEF left, right, DashInv
    <3>3. a \in Configs /\ b \in Configs
      BY <3>1, <3>2 DEF Answer, ConfigScreen
    <3> QED
      BY <3>3, ConfigsAssumption
  <2>2. /\ diff.frontends = diffProxies(a.frontends, b.frontends)
        /\ diff.backends = diffProxies(a.backends, b.backends)
        /\ diff.changed = Cardinality(Changed(diffProxies(a.frontends, b.frontends)))
                          + Cardinality(Changed(diffProxies(a.backends, b.backends)))
    BY DEF diff, diffConfigs
  <2>3. /\ mirrored.frontends = diffProxies(b.frontends, a.frontends)
        /\ mirrored.backends = diffProxies(b.backends, a.backends)
        /\ mirrored.changed = Cardinality(Changed(diffProxies(b.frontends, a.frontends)))
                              + Cardinality(Changed(diffProxies(b.backends, a.backends)))
    BY DEF diffConfigs
  <2> HIDE DEF a, b, mirrored
  <2>4. /\ listing[1] = describe(a) /\ listing[2] = describe(b)
        /\ listing[1]["frontends"] = [name \in DOMAIN a.frontends |-> flatten(a.frontends[name])]
        /\ listing[1]["backends"] = [name \in DOMAIN a.backends |-> flatten(a.backends[name])]
        /\ listing[2]["frontends"] = [name \in DOMAIN b.frontends |-> flatten(b.frontends[name])]
        /\ listing[2]["backends"] = [name \in DOMAIN b.backends |-> flatten(b.backends[name])]
    BY DEF describe
  <2>5. listing[1] = listing[2] <=> /\ listing[1]["frontends"] = listing[2]["frontends"]
                                    /\ listing[1]["backends"] = listing[2]["backends"]
    BY DEF describe
  <2>6. /\ IsFiniteSet(DOMAIN a.frontends) /\ IsFiniteSet(DOMAIN a.backends)
        /\ IsFiniteSet(DOMAIN b.frontends) /\ IsFiniteSet(DOMAIN b.backends)
    BY <2>1 DEF IsConfig
  <2>7. (diff.changed = 0 <=> listing[1] = listing[2]) /\ diff.changed = mirrored.changed
    <3> HIDE DEF listing
    <3> QED
      BY <2>2, <2>3, <2>4, <2>5, <2>6, ChangedOK
  <2>8. ASSUME NEW kind \in {"frontends", "backends"}, NEW name \in DOMAIN diff[kind]
        PROVE  LET row == diff[kind][name]
                   back == mirrored[kind][name]
               IN /\ row.status = "only-a" <=> back.status = "only-b"
                  /\ {[path |-> f.path, a |-> f.b, b |-> f.a] : f \in row.fields} = back.fields
                  /\ row.status \in {"same", "differs"} =>
                       \A p \in DOMAIN a[kind][name] \cup DOMAIN b[kind][name] :
                         (\E f \in row.fields : f.path = p)
                           <=> At(listing[1][kind][name], p) # At(listing[2][kind][name], p)
    <3>1. /\ diff[kind] = diffProxies(a[kind], b[kind])
          /\ mirrored[kind] = diffProxies(b[kind], a[kind])
      BY <2>2, <2>3
    <3>2. name \in DOMAIN a[kind] \cup DOMAIN b[kind]
      BY <2>8, <3>1 DEF diffProxies
    <3>3. /\ name \in DOMAIN a[kind] => listing[1][kind][name] = flatten(a[kind][name])
          /\ name \in DOMAIN b[kind] => listing[2][kind][name] = flatten(b[kind][name])
      BY DEF describe
    <3> HIDE DEF listing
    <3>4. diff[kind][name].status \in {"same", "differs"} =>
            /\ listing[1][kind][name] = flatten(a[kind][name])
            /\ listing[2][kind][name] = flatten(b[kind][name])
      BY <3>1, <3>2, <3>3, RowOK
    <3> DEFINE ak == a[kind]
               bk == b[kind]
               row == diffProxies(ak, bk)[name]
               back == diffProxies(bk, ak)[name]
    <3>5. diff[kind][name] = row /\ mirrored[kind][name] = back
      BY <3>1
    <3>6. name \in DOMAIN ak \cup DOMAIN bk
      BY <3>2
    <3> HIDE DEF ak, bk
    <3>7. /\ row.status = "only-a" <=> back.status = "only-b"
          /\ {[path |-> f.path, a |-> f.b, b |-> f.a] : f \in row.fields} = back.fields
      BY <3>6, RowOK
    <3>8. ASSUME row.status \in {"same", "differs"}, NEW p
          PROVE  (\E f \in row.fields : f.path = p)
                   <=> At(flatten(ak[name]), p) # At(flatten(bk[name]), p)
      <4>1. name \in DOMAIN ak /\ name \in DOMAIN bk
        BY <3>6, <3>8, RowOK
      <4>2. row.fields = Fields(flatten(ak[name]), flatten(bk[name]))
        BY <4>1 DEF diffProxies
      <4> QED
        BY <4>2, FieldsOK
    <3> HIDE DEF row, back
    <3> QED
      BY <3>4, <3>5, <3>7, <3>8 DEF ak, bk
  <2> QED
    BY <2>7, <2>8 DEF DiffIsTheDifference, a, b, mirrored
<1> QED
  BY <1>1, DashboardCorrect, PTL

-----------------------------------------------------------------------------
(* The fleet table                                                         *)

LEMMA RowsOK ==
  ASSUME FleetIsReported
  PROVE  /\ IsFiniteSet(rows)
         /\ \A r, s \in rows : r.name = s.name => r = s
         /\ \A r \in rows :
              /\ r.name \in Nodes
              /\ r.health \in Nat /\ r.serversDown \in Nat /\ r.serversTotal \in Nat
              /\ r.state \in {"down", "degraded"} <=> r.health <= 1
<1> DEFINE all == {toRow(n, fleet[n]) : n \in Shown}
           row == [n \in Shown |-> toRow(n, fleet[n])]
<1>1. Shown \in SUBSET Nodes /\ \A n \in Shown : IsSnapshot(fleet[n])
  BY ShownOK
<1>2. rows \in SUBSET all
  BY DEF rows
<1>3. IsFiniteSet(rows)
  <2>1. IsFiniteSet(Shown)
    BY <1>1, NodesAssumption, FS_Subset
  <2>2. row \in Surjection(Shown, all)
    BY DEF Surjection
  <2>3. IsFiniteSet(all)
    <3> HIDE DEF row, all
    <3> QED
      BY <2>1, <2>2, FS_Surjection
  <2> HIDE DEF all
  <2> QED
    BY <1>2, <2>3, FS_Subset
<1>4. \A r \in rows : \E n \in Shown : r = toRow(n, fleet[n])
  BY <1>2
<1>5. \A n \in Shown : toRow(n, fleet[n]).name = n
  BY DEF toRow
<1>6. \A r, s \in rows : r.name = s.name => r = s
  BY <1>4, <1>5
<1>7. ASSUME NEW n \in Shown
      PROVE  LET r == toRow(n, fleet[n])
             IN /\ r.health \in Nat /\ r.serversDown \in Nat /\ r.serversTotal \in Nat
                /\ r.state \in {"down", "degraded"} <=> r.health <= 1
  <2> DEFINE node == fleet[n]
             r == toRow(n, node)
             state == IF ~node.enabled THEN "disabled"
                      ELSE IF node.pending THEN "pending"
                      ELSE IF ~node.reachable THEN "down"
                      ELSE IF DownServers(node) # {} THEN "degraded" ELSE "ok"
  <2>1. /\ r.state = state
        /\ r.health = [down |-> 0, degraded |-> 1, pending |-> 2, ok |-> 3, disabled |-> 4][state]
        /\ r.serversDown = Cardinality(DownServers(node))
        /\ r.serversTotal = Cardinality(ServersOf(node))
    BY DEF toRow
  <2>2. r.serversDown \in Nat /\ r.serversTotal \in Nat
    BY <1>1, <2>1, ServersFinite
  <2>3. state \in {"down", "degraded", "pending", "ok", "disabled"}
    OBVIOUS
  <2> HIDE DEF state, r
  <2>4. r.health \in Nat /\ (r.state \in {"down", "degraded"} <=> r.health <= 1)
    BY <2>1, <2>3
  <2> QED
    BY <2>2, <2>4 DEF r
<1> QED
  BY <1>1, <1>3, <1>4, <1>5, <1>6, <1>7

\* A row is before another by what the table is sorted by, or by its name.
LEMMA RowOrder ==
  ASSUME FleetIsReported, page \in FleetScreen
  PROVE  /\ NeverTies(rows, {p \in rows \X rows : RowBefore(page.sort, p[1], p[2])})
         /\ \A r, s \in rows : RowBefore(page.sort, r, s) =>
              /\ page.sort.dir = 1 => SortValue(r, page.sort.key) <= SortValue(s, page.sort.key)
              /\ SortValue(r, page.sort.key) = SortValue(s, page.sort.key)
                   => Rank[r.name] < Rank[s.name]
<1> DEFINE value(r) == SortValue(r, page.sort.key)
           R == {p \in rows \X rows : RowBefore(page.sort, p[1], p[2])}
<1>1. page.sort.key \in SortKeys /\ page.sort.dir \in {1, -1}
  BY DEF FleetScreen, Sorts
<1>2. /\ \A n \in Nodes : Rank[n] \in Nat /\ Rank[GroupOf[n]] \in Nat
      /\ \A m, n \in Nodes : Rank[m] = Rank[n] => m = n
  BY RankAssumption
<1>3. /\ \A r, s \in rows : r.name = s.name => r = s
      /\ \A r \in rows : /\ r.name \in Nodes /\ r.health \in Nat
                         /\ r.serversDown \in Nat /\ r.serversTotal \in Nat
  BY RowsOK
<1>4. \A r \in rows : value(r) \in Int
  <2> TAKE r \in rows
  <2>1. r.name \in Nodes /\ r.health \in Nat /\ r.serversDown \in Nat /\ r.serversTotal \in Nat
    BY <1>3
  <2>2. Rank[r.name] \in Nat /\ Rank[GroupOf[r.name]] \in Nat
    BY <1>2, <2>1
  <2> QED
    BY <1>1, <2>1, <2>2 DEF SortValue, SortKeys
<1>5. \A r, s \in rows :
        RowBefore(page.sort, r, s) <=>
          \/ page.sort.dir = 1 /\ value(r) < value(s)
          \/ page.sort.dir = -1 /\ value(s) < value(r)
          \/ value(r) = value(s) /\ Rank[r.name] < Rank[s.name]
  <2> TAKE r, s \in rows
  <2>1. RowBefore(page.sort, r, s) <=>
          \/ (value(r) - value(s)) * page.sort.dir < 0
          \/ value(r) = value(s) /\ Rank[r.name] < Rank[s.name]
    BY DEF RowBefore
  <2>2. value(r) \in Int /\ value(s) \in Int
    BY <1>4
  <2> HIDE DEF value
  <2>3. CASE page.sort.dir = 1
    <3>1. (value(r) - value(s)) * page.sort.dir = value(r) - value(s)
      BY <2>2, <2>3
    <3> QED
      BY <2>1, <2>2, <2>3, <3>1
  <2>4. CASE page.sort.dir = -1
    <3>1. (value(r) - value(s)) * page.sort.dir = value(s) - value(r)
      BY <2>2, <2>4
    <3> QED
      BY <2>1, <2>2, <2>4, <3>1
  <2> QED
    BY <1>1, <2>3, <2>4
<1>6. \A r \in rows : Rank[r.name] \in Int
  BY <1>2, <1>3
<1>7. \A r, s \in rows : Rank[r.name] = Rank[s.name] => r = s
  BY <1>2, <1>3
<1>8. \A r, s \in rows : <<r, s>> \in R <=> RowBefore(page.sort, r, s)
  OBVIOUS
<1> HIDE DEF value, R
<1>9. NeverTies(rows, R)
  <2>1. CASE page.sort.dir = 1
    BY <1>4, <1>5, <1>6, <1>7, <1>8, <2>1 DEF NeverTies
  <2>2. CASE page.sort.dir = -1
    BY <1>4, <1>5, <1>6, <1>7, <1>8, <2>2 DEF NeverTies
  <2> QED
    BY <1>1, <2>1, <2>2
<1>10. \A r, s \in rows : RowBefore(page.sort, r, s) =>
         /\ page.sort.dir = 1 => value(r) <= value(s)
         /\ value(r) = value(s) => Rank[r.name] < Rank[s.name]
  BY <1>4, <1>5
<1> QED
  BY <1>9, <1>10 DEF value, R

\* A table has each of its rows in one place, in order.
LEMMA SortedOK ==
  ASSUME FleetIsReported, page \in FleetScreen, NEW T \in SUBSET rows
  PROVE  /\ Range(Sorted(T)) = T
         /\ \A i, j \in DOMAIN Sorted(T) :
              /\ Sorted(T)[i] = Sorted(T)[j] => i = j
              /\ i < j => RowBefore(page.sort, Sorted(T)[i], Sorted(T)[j])
<1> DEFINE R == {p \in rows \X rows : RowBefore(page.sort, p[1], p[2])}
           s == Sorted(T)
           N == Cardinality(T)
<1>1. NeverTies(T, R)
  BY RowOrder, SubOrder
<1>2. IsFiniteSet(T)
  BY RowsOK, FS_Subset
<1>3. s = InOrder(T, R)
  BY DEF Sorted
<1>4. /\ N \in Nat /\ s \in [1..N -> T]
      /\ \A x \in T : \E j \in 1..N : s[j] = x
      /\ \A i, j \in 1..N : i < j => <<s[i], s[j]>> \in R /\ s[i] # s[j]
  <2> HIDE DEF R, s
  <2> QED
    BY <1>1, <1>2, <1>3, InOrderCorrect
<1>5. \A r, q : <<r, q>> \in R => RowBefore(page.sort, r, q)
  OBVIOUS
<1> HIDE DEF R, s, N
<1>6. DOMAIN s = 1..N
  BY <1>4
<1>7. Range(s) = T
  BY <1>4, <1>6 DEF Range
<1>8. ASSUME NEW i \in DOMAIN s, NEW j \in DOMAIN s
      PROVE  /\ s[i] = s[j] => i = j
             /\ i < j => RowBefore(page.sort, s[i], s[j])
  <2>1. i \in 1..N /\ j \in 1..N /\ (i = j \/ i < j \/ j < i)
    BY <1>4, <1>6
  <2> QED
    BY <1>4, <1>5, <2>1
<1> QED
  BY <1>7, <1>8 DEF s

\* The page's tables share out its rows.
LEMMA SectionsOK ==
  ASSUME FleetIsReported, page \in FleetScreen
  PROVE  \E T :
           /\ \A k \in DOMAIN sections : T[k] \in SUBSET rows /\ sections[k] = Sorted(T[k])
           /\ \A r \in rows : \E k \in DOMAIN sections : r \in T[k]
           /\ \A k, l \in DOMAIN sections : \A r \in rows : r \in T[k] /\ r \in T[l] => k = l
<1>1. CASE ~page.grouped
  <2>1. sections = <<Sorted(rows)>>
    BY <1>1 DEF sections
  <2> DEFINE T == [k \in {1} |-> rows]
  <2>2. DOMAIN sections = {1} /\ sections[1] = Sorted(rows)
    BY <2>1
  <2>3. T[1] = rows
    OBVIOUS
  <2> HIDE DEF T
  <2> QED
    BY <2>2, <2>3
<1>2. CASE page.grouped
  <2> DEFINE G == {GroupOf[r.name] : r \in rows}
             groups == InOrder(G, ByName(Groups))
             T == [k \in DOMAIN groups |-> {r \in rows : GroupOf[r.name] = groups[k]}]
             group == [r \in rows |-> GroupOf[r.name]]
  <2>1. sections = [k \in DOMAIN groups |-> Sorted({r \in rows : GroupOf[r.name] = groups[k]})]
    BY <1>2 DEF sections
  <2>2. G \in SUBSET Groups
    BY RowsOK, RankAssumption
  <2>3. IsFiniteSet(G)
    <3>1. group \in Surjection(rows, G)
      BY DEF Surjection
    <3> HIDE DEF group, G
    <3> QED
      BY <3>1, RowsOK, FS_Surjection
  <2>4. NeverTies(G, ByName(Groups))
    <3> HIDE DEF G
    <3> QED
      BY <2>2, ByNameOK, SubOrder
  <2>5. /\ Cardinality(G) \in Nat /\ groups \in [1..Cardinality(G) -> G]
        /\ \A x \in G : \E j \in 1..Cardinality(G) : groups[j] = x
        /\ \A i, j \in 1..Cardinality(G) : i < j => groups[i] # groups[j]
    <3> DEFINE R == ByName(Groups)
    <3>1. groups = InOrder(G, R) /\ NeverTies(G, R)
      BY <2>4
    <3> HIDE DEF G, R, groups
    <3>2. /\ Cardinality(G) \in Nat
          /\ InOrder(G, R) \in [1..Cardinality(G) -> G]
          /\ \A x \in G : \E j \in 1..Cardinality(G) : InOrder(G, R)[j] = x
          /\ \A i, j \in 1..Cardinality(G) :
               i < j => /\ <<InOrder(G, R)[i], InOrder(G, R)[j]>> \in R
                        /\ InOrder(G, R)[i] # InOrder(G, R)[j]
      BY <2>3, <3>1, InOrderCorrect
    <3> QED
      BY <3>1, <3>2
  <2>6. DOMAIN sections = DOMAIN groups /\ DOMAIN groups = 1..Cardinality(G)
    BY <2>1, <2>5
  <2>7. \A r \in rows : GroupOf[r.name] \in G
    OBVIOUS
  <2> HIDE DEF G, groups, group
  <2>8. \A k \in DOMAIN sections : T[k] \in SUBSET rows /\ sections[k] = Sorted(T[k])
    BY <2>1
  <2>9. \A r \in rows : \E k \in DOMAIN sections : r \in T[k]
    BY <2>5, <2>6, <2>7
  <2>10. ASSUME NEW k \in DOMAIN sections, NEW l \in DOMAIN sections, NEW r \in rows,
                r \in T[k], r \in T[l]
         PROVE  k = l
    <3>1. groups[k] = groups[l]
      BY <2>6, <2>10
    <3>2. k \in 1..Cardinality(G) /\ l \in 1..Cardinality(G) /\ (k = l \/ k < l \/ l < k)
      BY <2>5, <2>6
    <3> QED
      BY <2>5, <3>1, <3>2
  <2> HIDE DEF T
  <2> QED
    BY <2>8, <2>9, <2>10
<1> QED
  BY <1>1, <1>2

\* A table sorted by state has no healthy node above a node in trouble, rows
\* that tie go by name whichever way it is sorted (README.md:695), and every
\* row is in one place of one table: for any fleet and any sort.
THEOREM ProblemsLeadCorrect == Spec => []ProblemsLead
<1>1. DashInv => ProblemsLead
  <2> SUFFICES ASSUME DashInv, On("fleet") PROVE ProblemsLead
    BY DEF ProblemsLead
  <2>1. FleetIsReported /\ page \in FleetScreen
    BY ScreenOK DEF DashInv
  <2>2. PICK T :
          /\ \A k \in DOMAIN sections : T[k] \in SUBSET rows /\ sections[k] = Sorted(T[k])
          /\ \A r \in rows : \E k \in DOMAIN sections : r \in T[k]
          /\ \A k, l \in DOMAIN sections : \A r \in rows : r \in T[k] /\ r \in T[l] => k = l
    BY <2>1, SectionsOK
  <2>3. ASSUME NEW k \in DOMAIN sections
        PROVE  /\ Range(sections[k]) = T[k] /\ T[k] \in SUBSET rows
               /\ \A i, j \in DOMAIN sections[k] :
                    /\ sections[k][i] = sections[k][j] => i = j
                    /\ i < j => RowBefore(page.sort, sections[k][i], sections[k][j])
    BY <2>1, <2>2, SortedOK
  <2>4. \A k \in DOMAIN sections : \A i \in DOMAIN sections[k] :
          sections[k][i] \in T[k] /\ sections[k][i] \in rows
    BY <2>3 DEF Range
  <2>5. ASSUME NEW k \in DOMAIN sections, NEW i \in DOMAIN sections[k],
               NEW j \in DOMAIN sections[k], i < j
        PROVE  LET r == sections[k][i]
                   s == sections[k][j]
               IN /\ page.sort = [key |-> "health", dir |-> 1] /\ s.state \in {"down", "degraded"}
                       => r.state \in {"down", "degraded"}
                  /\ SortValue(r, page.sort.key) = SortValue(s, page.sort.key)
                       => Rank[r.name] < Rank[s.name]
    <3> DEFINE r == sections[k][i]
               s == sections[k][j]
    <3>1. r \in rows /\ s \in rows /\ RowBefore(page.sort, r, s)
      BY <2>3, <2>4, <2>5
    <3> HIDE DEF r, s
    <3>2. /\ page.sort.dir = 1 => SortValue(r, page.sort.key) <= SortValue(s, page.sort.key)
          /\ SortValue(r, page.sort.key) = SortValue(s, page.sort.key)
               => Rank[r.name] < Rank[s.name]
      BY <2>1, <3>1, RowOrder
    <3>3. ASSUME page.sort = [key |-> "health", dir |-> 1], s.state \in {"down", "degraded"}
          PROVE  r.state \in {"down", "degraded"}
      <4>1. page.sort.key = "health" /\ page.sort.dir = 1
        BY <3>3
      <4>2. SortValue(r, "health") = r.health /\ SortValue(s, "health") = s.health
        BY DEF SortValue
      <4>3. r.health <= s.health
        BY <3>2, <4>1, <4>2
      <4> QED
        BY <2>1, <3>1, <3>3, <4>3, RowsOK
    <3> QED
      BY <3>2, <3>3 DEF r, s
  <2>6. rows = UNION {Range(sections[k]) : k \in DOMAIN sections}
    BY <2>2, <2>3
  <2>7. ASSUME NEW k \in DOMAIN sections, NEW l \in DOMAIN sections,
               NEW i \in DOMAIN sections[k], NEW j \in DOMAIN sections[l],
               sections[k][i] = sections[l][j]
        PROVE  k = l /\ i = j
    <3>1. k = l
      BY <2>2, <2>4, <2>7
    <3> QED
      BY <2>3, <2>7, <3>1
  <2> QED
    BY <2>5, <2>6, <2>7 DEF ProblemsLead
<1> QED
  BY <1>1, DashboardCorrect, PTL

-----------------------------------------------------------------------------
(* The labels of a graph                                                   *)

\* A value up to the top of the scale is inside the plot.
LEMMA HeightOK ==
  ASSUME NEW v \in Nat, NEW top \in Nat \ {0}, v <= top
  PROVE  y(v, top) \in Int /\ Top <= y(v, top) /\ y(v, top) <= Top + PlotH
<1> DEFINE q == (v * PlotH) \div top
<1>1. Top \in Nat /\ PlotH \in Nat
  BY PlotAssumption
<1>2. v * PlotH \in Nat
  BY <1>1
<1>3. q \in Int /\ top * q <= v * PlotH /\ v * PlotH < top * q + top
  BY <1>2
<1>4. v * PlotH <= top * PlotH
  BY <1>1
<1> HIDE DEF q
<1>5. 0 <= q
  <2> SUFFICES ASSUME q <= -1 PROVE FALSE
    BY <1>3
  <2>1. top * q <= top * (-1)
    BY <1>3
  <2> QED
    BY <1>2, <1>3, <2>1
<1>6. q <= PlotH
  <2> SUFFICES ASSUME PlotH + 1 <= q PROVE FALSE
    BY <1>1, <1>3
  <2>1. top * (PlotH + 1) <= top * q
    BY <1>1, <1>3
  <2>2. top * (PlotH + 1) = top * PlotH + top
    BY <1>1
  <2>3. top * PlotH \in Nat /\ top * q \in Int
    BY <1>1, <1>3
  <2> QED
    BY <1>2, <1>3, <1>4, <2>1, <2>2, <2>3
<1>7. y(v, top) = Top + PlotH - q
  BY DEF y, q
<1> QED
  BY <1>1, <1>3, <1>5, <1>6, <1>7

\* A scale reaches as high as the value it is made for.
LEMMA NiceMaxOK ==
  ASSUME NEW v \in Values
  PROVE  niceMax(v) \in Nat \ {0} /\ v <= niceMax(v)
<1>1. v \in Nat
  BY ValuesAssumption
<1>2. CASE v = 0
  BY <1>2 DEF niceMax
<1>3. CASE v # 0
  <2> DEFINE base == CHOOSE p \in Powers : p <= v /\ v < 10 * p
             steps == {step \in {1, 2, 5, 10} : v <= step * base}
  <2>1. \E p \in Powers : p <= v /\ v < 10 * p
    BY <1>3, ValuesAssumption
  <2>2. base \in Powers /\ base <= v /\ v < 10 * base
    BY <2>1
  <2>3. base \in Nat \ {0}
    BY <2>2, ValuesAssumption
  <2> HIDE DEF base
  <2>4. 10 \in steps
    BY <1>1, <2>2, <2>3
  <2>5. steps \in SUBSET Nat /\ steps # {}
    BY <2>4
  <2>6. Min(steps) \in steps
    <3> HIDE DEF steps
    <3> QED
      BY <2>5, MinOK
  <2>7. Min(steps) \in {1, 2, 5, 10} /\ v <= Min(steps) * base
    BY <2>6
  <2>8. niceMax(v) = base * Min(steps)
    BY <1>1, <1>3 DEF niceMax, base
  <2> HIDE DEF steps
  <2> QED
    BY <1>1, <2>3, <2>7, <2>8
<1> QED
  BY <1>2, <1>3

\* Labels are pushed one by one, down from the first.
LEMMA PushedOK ==
  ASSUME NEW n \in Nat, NEW ys \in [1..n -> Int]
  PROVE  LET pushed == PushedDown(ys)
         IN /\ pushed \in [1..n -> Int]
            /\ \A i \in 1..n :
                 pushed[i] = IF i > 1 /\ ys[i] - pushed[i - 1] < MIN_GAP
                             THEN pushed[i - 1] + MIN_GAP ELSE ys[i]
<1> DEFINE step(f, i) == IF i > 1 /\ ys[i] - f[i - 1] < MIN_GAP
                         THEN f[i - 1] + MIN_GAP ELSE ys[i]
           upTo(k) == \E f \in [1..k -> Int] : \A i \in 1..k : f[i] = step(f, i)
           S == {k \in Nat : k <= n => upTo(k)}
<1>1. MIN_GAP \in Int
  BY PlotAssumption
<1>2. 0 \in S
  <2> DEFINE f == [i \in 1..0 |-> 0]
  <2>1. f \in [1..0 -> Int] /\ \A i \in 1..0 : f[i] = step(f, i)
    OBVIOUS
  <2> QED
    BY <2>1
<1>3. ASSUME NEW k \in S PROVE k + 1 \in S
  <2>0. k \in Nat /\ (k <= n => upTo(k))
    <3> HIDE DEF upTo
    <3> QED
      BY <1>3
  <2> SUFFICES ASSUME k + 1 <= n PROVE upTo(k + 1)
    <3> HIDE DEF upTo
    <3> QED
      BY <2>0
  <2>1. PICK f \in [1..k -> Int] : \A i \in 1..k : f[i] = step(f, i)
    BY <2>0
  <2> DEFINE g == [i \in 1..(k + 1) |-> IF i = k + 1 THEN step(f, k + 1) ELSE f[i]]
  <2>2. step(f, k + 1) \in Int
    BY <1>1
  <2>3. g \in [1..(k + 1) -> Int]
    <3> HIDE DEF step
    <3> QED
      BY <2>2
  <2>4. ASSUME NEW i \in 1..(k + 1)
        PROVE  g[i] = step(g, i)
    <3>1. i > 1 => i - 1 \in 1..k /\ g[i - 1] = f[i - 1]
      BY <2>4
    <3>2. step(g, i) = step(f, i)
      <4> HIDE DEF g
      <4> QED
        BY <3>1
    <3>3. g[i] = step(f, i)
      BY <2>1
    <3> QED
      BY <3>2, <3>3
  <2> HIDE DEF g, step
  <2> QED
    BY <2>3, <2>4
<1>4. S = Nat
  <2> HIDE DEF upTo
  <2>1. S \in SUBSET Nat
    OBVIOUS
  <2> HIDE DEF S
  <2> QED
    BY <1>2, <1>3, <2>1, Induct
<1>5. upTo(n)
  <2>1. n \in S
    BY <1>4
  <2> HIDE DEF upTo
  <2> QED
    BY <2>1
<1>6. PICK f \in [1..n -> Int] : \A i \in 1..n : f[i] = step(f, i)
  BY <1>5
<1>7. f = [i \in DOMAIN ys |-> step(f, i)]
  <2> HIDE DEF step
  <2> QED
    BY <1>6
<1> DEFINE pushed == PushedDown(ys)
<1>8. pushed = [i \in DOMAIN ys |-> step(pushed, i)]
  BY <1>7 DEF PushedDown
<1>9. \A i \in 1..n : pushed[i] = step(pushed, i)
  <2> HIDE DEF pushed, step
  <2> QED
    BY <1>8
<1>10. pushed \in [1..n -> Int]
  <2> DEFINE B == {k \in Nat : k \in 1..n => pushed[k] \in Int}
  <2>1. 0 \in B
    OBVIOUS
  <2>2. ASSUME NEW k \in B PROVE k + 1 \in B
    <3> HIDE DEF pushed
    <3> QED
      BY <1>1, <1>9, <2>2
  <2>3. B = Nat
    <3>1. B \in SUBSET Nat
      OBVIOUS
    <3> HIDE DEF B
    <3> QED
      BY <2>1, <2>2, <3>1, Induct
  <2>4. \A k \in 1..n : pushed[k] \in Int
    <3> HIDE DEF pushed
    <3>1. \A k \in 1..n : k \in B
      BY <2>3
    <3> QED
      BY <3>1
  <2>5. DOMAIN pushed = 1..n /\ pushed = [i \in 1..n |-> step(pushed, i)]
    <3>1. DOMAIN ys = 1..n
      OBVIOUS
    <3> HIDE DEF pushed, step
    <3> QED
      BY <1>8, <3>1
  <2> HIDE DEF pushed, step
  <2> QED
    BY <1>9, <2>4, <2>5
<1> QED
  BY <1>9, <1>10

\* Pushed labels are apart, so none is below the last; and labels that were
\* apart are where they were.
LEMMA ApartOK ==
  ASSUME NEW n \in Nat \ {0}, NEW ys \in [1..n -> Int]
  PROVE  LET pushed == PushedDown(ys)
         IN /\ \A i \in 1..n : i > 1 => pushed[i] - pushed[i - 1] >= MIN_GAP
            /\ \A i \in 1..n : pushed[i] <= pushed[n]
            /\ (\A i \in 1..n : i > 1 => ys[i] - ys[i - 1] >= MIN_GAP)
                 => \A i \in 1..n : pushed[i] = ys[i]
<1> DEFINE pushed == PushedDown(ys)
<1>1. MIN_GAP \in Nat
  BY PlotAssumption
<1>2. /\ pushed \in [1..n -> Int]
      /\ \A i \in 1..n : pushed[i] = IF i > 1 /\ ys[i] - pushed[i - 1] < MIN_GAP
                                     THEN pushed[i - 1] + MIN_GAP ELSE ys[i]
  BY PushedOK
<1> HIDE DEF pushed
<1>3. ASSUME NEW i \in 1..n, i > 1
      PROVE  pushed[i] - pushed[i - 1] >= MIN_GAP
  <2>1. i - 1 \in 1..n /\ pushed[i - 1] \in Int /\ pushed[i] \in Int /\ ys[i] \in Int
    BY <1>2, <1>3
  <2>2. pushed[i] = IF ys[i] - pushed[i - 1] < MIN_GAP
                    THEN pushed[i - 1] + MIN_GAP ELSE ys[i]
    BY <1>2, <1>3
  <2> QED
    BY <1>1, <2>1, <2>2
<1>4. \A i \in 1..n : pushed[i] <= pushed[n]
  <2> DEFINE B == {k \in Nat : k < n => pushed[n - k] <= pushed[n]}
  <2>1. 0 \in B
    BY <1>2
  <2>2. ASSUME NEW k \in B PROVE k + 1 \in B
    <3> SUFFICES ASSUME k + 1 < n PROVE pushed[n - (k + 1)] <= pushed[n]
      OBVIOUS
    <3>1. /\ n - k \in 1..n /\ n - k > 1 /\ n - (k + 1) = (n - k) - 1
          /\ n - (k + 1) \in 1..n /\ n \in 1..n
      OBVIOUS
    <3>2. pushed[n - k] - pushed[n - (k + 1)] >= MIN_GAP
      BY <1>3, <3>1
    <3>3. pushed[n - k] <= pushed[n]
      OBVIOUS
    <3>4. pushed[n - k] \in Int /\ pushed[n - (k + 1)] \in Int /\ pushed[n] \in Int
      BY <1>2, <3>1
    <3> QED
      BY <1>1, <3>2, <3>3, <3>4
  <2>3. B = Nat
    <3>1. B \in SUBSET Nat
      OBVIOUS
    <3> HIDE DEF B
    <3> QED
      BY <2>1, <2>2, <3>1, Induct
  <2> TAKE i \in 1..n
  <2>4. n - i \in B
    <3> HIDE DEF B
    <3> QED
      BY <2>3
  <2>5. n - i < n /\ n - (n - i) = i
    OBVIOUS
  <2> QED
    BY <2>4, <2>5
<1>5. ASSUME \A i \in 1..n : i > 1 => ys[i] - ys[i - 1] >= MIN_GAP
      PROVE  \A i \in 1..n : pushed[i] = ys[i]
  <2> DEFINE B == {k \in Nat : k \in 1..n => pushed[k] = ys[k]}
  <2>1. 0 \in B
    OBVIOUS
  <2>2. ASSUME NEW k \in B PROVE k + 1 \in B
    <3> SUFFICES ASSUME k + 1 \in 1..n PROVE pushed[k + 1] = ys[k + 1]
      OBVIOUS
    <3>1. CASE k = 0
      BY <1>2, <3>1
    <3>2. CASE k # 0
      <4>1. k \in 1..n /\ k + 1 > 1 /\ (k + 1) - 1 = k
        BY <3>2
      <4>2. pushed[k] = ys[k]
        BY <4>1
      <4>3. ys[k + 1] - ys[k] >= MIN_GAP
        BY <1>5, <4>1
      <4>4. ys[k + 1] \in Int /\ ys[k] \in Int
        BY <4>1
      <4>5. ~(ys[k + 1] - pushed[k] < MIN_GAP)
        BY <1>1, <4>2, <4>3, <4>4
      <4> QED
        BY <1>2, <4>1, <4>5
    <3> QED
      BY <3>1, <3>2
  <2>3. B = Nat
    <3>1. B \in SUBSET Nat
      OBVIOUS
    <3> HIDE DEF B
    <3> QED
      BY <2>1, <2>2, <3>1, Induct
  <2> TAKE i \in 1..n
  <2>4. i \in B
    BY <2>3
  <2> QED
    BY <2>4
<1> QED
  BY <1>3, <1>4, <1>5 DEF pushed

LEMMA LayoutOK ==
  ASSUME NEW n \in Nat \ {0}, NEW ends \in [1..n -> Int],
         \A i \in 1..n : ends[i] <= Top + PlotH
  PROVE  LET labels == layoutLabels(ends)
         IN /\ DOMAIN labels = 1..n
            /\ \A i \in 1..n : labels[i] <= Top + PlotH
            /\ \A i \in 1..n : i > 1 => labels[i] - labels[i - 1] >= MIN_GAP
            /\ (\A i \in 1..n : i > 1 => ends[i] - ends[i - 1] >= MIN_GAP) => labels = ends
<1> DEFINE pushed == PushedDown(ends)
           bottom == Top + PlotH
           shift == IF pushed[n] > bottom THEN pushed[n] - bottom ELSE 0
           labels == layoutLabels(ends)
<1>1. Top \in Nat /\ PlotH \in Nat /\ MIN_GAP \in Nat
  BY PlotAssumption
<1>2. pushed \in [1..n -> Int]
  BY PushedOK
<1>3. /\ \A i \in 1..n : i > 1 => pushed[i] - pushed[i - 1] >= MIN_GAP
      /\ \A i \in 1..n : pushed[i] <= pushed[n]
      /\ (\A i \in 1..n : i > 1 => ends[i] - ends[i - 1] >= MIN_GAP)
           => \A i \in 1..n : pushed[i] = ends[i]
  BY ApartOK
<1>4. labels = [i \in 1..n |-> pushed[i] - shift]
  <2>1. DOMAIN ends = 1..n /\ Len(ends) = n /\ ends # <<>>
    OBVIOUS
  <2> QED
    BY <2>1 DEF layoutLabels
<1> HIDE DEF pushed, labels
<1>5. pushed[n] \in Int /\ shift \in Int /\ shift >= 0 /\ pushed[n] - shift <= bottom
  BY <1>1, <1>2
<1>6. \A i \in 1..n : labels[i] <= bottom
  <2> TAKE i \in 1..n
  <2>1. pushed[i] \in Int /\ pushed[i] <= pushed[n] /\ labels[i] = pushed[i] - shift
    BY <1>2, <1>3, <1>4
  <2> HIDE DEF shift
  <2> QED
    BY <1>1, <1>5, <2>1
<1>7. ASSUME NEW i \in 1..n, i > 1
      PROVE  labels[i] - labels[i - 1] >= MIN_GAP
  <2>1. i - 1 \in 1..n
    BY <1>7
  <2>2. /\ pushed[i] \in Int /\ pushed[i - 1] \in Int
        /\ labels[i] = pushed[i] - shift /\ labels[i - 1] = pushed[i - 1] - shift
    BY <1>2, <1>4, <2>1
  <2>3. pushed[i] - pushed[i - 1] >= MIN_GAP
    BY <1>3, <1>7
  <2> HIDE DEF shift
  <2> QED
    BY <1>1, <1>5, <2>2, <2>3
<1>8. ASSUME \A i \in 1..n : i > 1 => ends[i] - ends[i - 1] >= MIN_GAP
      PROVE  labels = ends
  <2>1. \A i \in 1..n : pushed[i] = ends[i]
    BY <1>3, <1>8
  <2>2. shift = 0
    BY <1>1, <2>1
  <2>3. \A i \in 1..n : pushed[i] - shift = ends[i]
    BY <2>1, <2>2
  <2> HIDE DEF shift
  <2> QED
    BY <1>4, <2>3
<1>9. DOMAIN labels = 1..n
  BY <1>4
<1> QED
  BY <1>6, <1>7, <1>8, <1>9 DEF labels

LEMMA SeqDomain ==
  ASSUME NEW S, NEW s \in Seq(S)
  PROVE  Len(s) \in Nat /\ DOMAIN s = 1..Len(s)
OBVIOUS

\* Lines that end no higher than the scale end inside the plot.
LEMMA EndsOK ==
  ASSUME NEW n \in Nat, NEW top \in Nat \ {0}, NEW last \in [1..n -> Nat],
         \A i \in 1..n : last[i] <= top
  PROVE  /\ Ends(last, top) \in [1..n -> Int]
         /\ \A i \in 1..n : Top <= Ends(last, top)[i] /\ Ends(last, top)[i] <= Top + PlotH
<1> DEFINE height(i) == y(last[i], top)
           R == {p \in (DOMAIN last) \X (DOMAIN last) :
                   LET one == y(last[p[1]], top)
                       two == y(last[p[2]], top)
                   IN one < two \/ (one = two /\ p[1] < p[2])}
           lines == InOrder(1..n, R)
<1>1. \A i \in 1..n : height(i) \in Int /\ Top <= height(i) /\ height(i) <= Top + PlotH
  BY HeightOK
<1>2. \A i, j \in 1..n : <<i, j>> \in R <=>
        height(i) < height(j) \/ (height(i) = height(j) /\ i < j)
  OBVIOUS
<1>3. NeverTies(1..n, R)
  <2> HIDE DEF R, height
  <2>1. \A i \in 1..n : <<i, i>> \notin R
    BY <1>1, <1>2
  <2>2. ASSUME NEW i \in 1..n, NEW j \in 1..n, NEW k \in 1..n,
               <<i, j>> \in R, <<j, k>> \in R
        PROVE  <<i, k>> \in R
    <3>1. height(i) \in Int /\ height(j) \in Int /\ height(k) \in Int
      BY <1>1
    <3>2. height(i) < height(j) \/ (height(i) = height(j) /\ i < j)
      BY <1>2, <2>2
    <3>3. height(j) < height(k) \/ (height(j) = height(k) /\ j < k)
      BY <1>2, <2>2
    <3>4. height(i) < height(k) \/ (height(i) = height(k) /\ i < k)
      BY <3>1, <3>2, <3>3
    <3> QED
      BY <1>2, <3>4
  <2>3. ASSUME NEW i \in 1..n, NEW j \in 1..n, i # j
        PROVE  <<i, j>> \in R \/ <<j, i>> \in R
    <3>1. height(i) \in Int /\ height(j) \in Int
      BY <1>1
    <3>2. \/ height(i) < height(j) \/ (height(i) = height(j) /\ i < j)
          \/ height(j) < height(i) \/ (height(j) = height(i) /\ j < i)
      BY <3>1, <2>3
    <3> QED
      BY <1>2, <3>2
  <2> QED
    BY <2>1, <2>2, <2>3 DEF NeverTies
<1>4. IsFiniteSet(1..n) /\ Cardinality(1..n) = n
  BY FS_Interval
<1>5. lines \in [1..n -> 1..n]
  <2> HIDE DEF R
  <2> QED
    BY <1>3, <1>4, InOrderCorrect
<1>6. Ends(last, top) = [k \in DOMAIN lines |-> y(last[lines[k]], top)]
  BY DEF Ends
<1> HIDE DEF lines
<1>7. \A k \in 1..n : lines[k] \in 1..n
  BY <1>5
<1>8. DOMAIN lines = 1..n
  BY <1>5
<1> QED
  BY <1>1, <1>6, <1>7, <1>8

\* "Push end-labels apart so a tight cluster of lines stays readable"
\* (TimeSeriesChart.tsx:219), for a plot of any size, any number of series
\* and any values.
THEOREM LabelsAreApartCorrect == Spec => []LabelsAreApart
<1>1. DashInv => LabelsAreApart
  <2> SUFFICES ASSUME DashInv, On("metrics"), page.card # None,
                      page.card.series # <<>>,
                      NEW peak \in Values,
                      NEW last \in [DOMAIN page.card.series -> {v \in Values : v <= peak}]
               PROVE  LET ends == Ends(last, niceMax(peak))
                          labels == layoutLabels(ends)
                      IN /\ \A i \in DOMAIN ends : Top <= ends[i] /\ ends[i] <= Top + PlotH
                         /\ \A i \in DOMAIN labels : labels[i] <= Top + PlotH
                         /\ \A i \in DOMAIN labels : i > 1 => labels[i] - labels[i - 1] >= MIN_GAP
                         /\ (\A i \in DOMAIN ends : i > 1 => ends[i] - ends[i - 1] >= MIN_GAP)
                              => labels = ends
    BY DEF LabelsAreApart
  <2> DEFINE n == Len(page.card.series)
             top == niceMax(peak)
             ends == Ends(last, top)
  <2>1. page.card.series \in Seq(SeriesKinds)
    <3>1. page.card \in Card
      BY ScreenOK DEF DashInv, MetricsScreen
    <3> QED
      BY <3>1 DEF Card
  <2>2. n \in Nat \ {0} /\ DOMAIN page.card.series = 1..n
    <3>1. n \in Nat /\ DOMAIN page.card.series = 1..n
      BY <2>1, SeqDomain
    <3>2. n # 0
      BY <2>1
    <3> QED
      BY <3>1, <3>2
  <2>3. top \in Nat \ {0} /\ peak <= top /\ peak \in Nat
    BY NiceMaxOK, ValuesAssumption
  <2>4. last \in [1..n -> Nat] /\ \A i \in 1..n : last[i] <= top
    <3> HIDE DEF n, top
    <3>1. \A i \in 1..n : last[i] \in Values /\ last[i] <= peak
      BY <2>2
    <3>2. \A i \in 1..n : last[i] \in Nat
      BY <3>1, ValuesAssumption
    <3> QED
      BY <2>2, <2>3, <3>1, <3>2
  <2> HIDE DEF n, top
  <2>5. /\ ends \in [1..n -> Int]
        /\ \A i \in 1..n : Top <= ends[i] /\ ends[i] <= Top + PlotH
    BY <2>2, <2>3, <2>4, EndsOK
  <2>6. DOMAIN ends = 1..n
    BY <2>5
  <2> HIDE DEF ends
  <2> QED
    BY <2>2, <2>5, <2>6, LayoutOK DEF ends, top
<1> QED
  BY <1>1, DashboardCorrect, PTL
=============================================================================
