----------------------------- MODULE BulkAction -----------------------------
(***************************************************************************)
(* What a bulk action promises its caller (applyBulk in bulk.ts): every    *)
(* target is called once, never more than Limit calls are out at a time,   *)
(* every outcome is reported, and the report is in the caller's order.     *)
(* Which worker makes which call, and in which order the answers come, is  *)
(* not part of the promise.                                                *)
(***************************************************************************)
EXTENDS Naturals, Sequences, FiniteSets

CONSTANTS
  Limit     \* concurrency

VARIABLES
  targets,  \* the targets of the action that is running; <<>>: none is
  asked,    \* the targets whose call is out
  settled,  \* the outcomes known so far: target -> ok
  report    \* what the action resolved with; <<>>: it has not yet

vars == <<targets, asked, settled, report>>

Elements(s) == {s[i] : i \in 1..Len(s)}
NoOutcome == [t \in {} |-> FALSE]

Init ==
  /\ targets = <<>>
  /\ asked = {}
  /\ settled = NoOutcome
  /\ report = <<>>

Begin ==
  /\ targets = <<>>
  /\ asked' \subseteq Elements(targets')
  /\ Cardinality(asked') <= Limit
  /\ UNCHANGED <<settled, report>>

\* Some calls are answered and some others go out, each target once.
Advance ==
  /\ report = <<>>
  /\ \E done \in SUBSET asked,
        next \in SUBSET (Elements(targets) \ (asked \cup DOMAIN settled)) :
       /\ asked' = (asked \ done) \cup next
       /\ Cardinality(asked') <= Limit
       /\ settled' \in [DOMAIN settled \cup done -> BOOLEAN]
       /\ \A t \in DOMAIN settled : settled'[t] = settled[t]
  /\ UNCHANGED <<targets, report>>

Resolve ==
  /\ targets # <<>> /\ report = <<>>
  /\ DOMAIN settled = Elements(targets)
  /\ report' = [i \in 1..Len(targets) |-> [target |-> targets[i], ok |-> settled[targets[i]]]]
  /\ UNCHANGED <<targets, asked, settled>>

\* The caller goes on with the report.
Finish ==
  /\ report # <<>>
  /\ targets' = <<>>
  /\ asked' = {}
  /\ settled' = NoOutcome
  /\ report' = <<>>

Next == Begin \/ Advance \/ Resolve \/ Finish

\* The action never rejects and never hangs: it ends in a report.
Ends == targets # <<>> ~> report # <<>>

Safety == Init /\ [][Next]_vars
Spec == Safety /\ Ends
=============================================================================
