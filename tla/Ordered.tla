------------------------------ MODULE Ordered ------------------------------
(***************************************************************************)
(* Sorting by an order that never ties: the element in place j is the one  *)
(* with j - 1 others ahead of it.                                          *)
(***************************************************************************)
EXTENDS Naturals, FiniteSets

\* An order is a set of pairs <<x, y>>, x ahead of y.
Ahead(S, R, x) == {y \in S : <<y, x>> \in R}

InOrder(S, R) ==
  [j \in 1..Cardinality(S) |-> CHOOSE x \in S : Cardinality(Ahead(S, R, x)) = j - 1]

NeverTies(S, R) ==
  /\ \A x \in S : <<x, x>> \notin R
  /\ \A x, y, z \in S : <<x, y>> \in R /\ <<y, z>> \in R => <<x, z>> \in R
  /\ \A x, y \in S : x = y \/ <<x, y>> \in R \/ <<y, x>> \in R
=============================================================================
