----------------------------- MODULE MCNodePage -----------------------------
(* One node whose only backend has an active server and its backup, so     *)
(* that taking the active one out leaves it without one, and a second node *)
(* that reports nothing.                                                   *)
EXTENDS NodePage, TLC

CONSTANTS n1, n2, s1, s2, b1

OneBackend == s1 :> b1 @@ s2 :> b1
OneEmpty == n1 :> {s1, s2} @@ n2 :> {}
=============================================================================
