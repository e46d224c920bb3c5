------------------------------ MODULE BulkPool ------------------------------
(***************************************************************************)
(* applyBulk (bulk.ts): a few workers share one queue of targets.  Each    *)
(* takes a target, awaits its call, records the outcome, and takes the     *)
(* next; the function resolves when every worker has found the queue       *)
(* empty.  JavaScript runs each stretch between two awaits undisturbed, so *)
(* recording an outcome and taking the next target are one step.           *)
(*                                                                         *)
(* Every call of applyBulk has a queue and workers of its own, and nothing *)
(* in it waits for another call: several can run at a time.                *)
(***************************************************************************)
EXTENDS Naturals, Sequences, FiniteSets

CONSTANTS
  Runs,     \* the calls of applyBulk; bounds how many run at a time
  Servers,  \* what can be a target: the keys "backend server" (keyOf)
  Limit,    \* concurrency
  None      \* undefined, what shift() returns of an empty queue

ASSUME LimitAssumption == Limit \in Nat \ {0}
ASSUME NoneAssumption == None \notin Servers

VARIABLE runs  \* what each call of applyBulk is at

Workers == 1..Limit
Result == [target : Servers, ok : BOOLEAN]

\* at: whether it runs, and whether it has resolved.  targets: its argument.
\* queue: the targets nobody has taken.  hand: the target each worker awaits
\* the call of.  results: the outcomes, in the order they came.
Run == [at : {"idle", "running", "resolved"}, targets : Seq(Servers),
        queue : Seq(Servers), hand : [Workers -> Servers \cup {None}],
        results : Seq(Result)]

PoolTypeOK == runs \in [Runs -> Run]

EmptyHands == [w \in Workers |-> None]
NoRun == [at |-> "idle", targets |-> <<>>, queue |-> <<>>, hand |-> EmptyHands,
          results |-> <<>>]

PoolInit == runs = [p \in Runs |-> NoRun]

\* min(concurrency, targets.length) workers start and take one target each.
Started(ts) ==
  [at |-> "running", targets |-> ts,
   queue |-> SubSeq(ts, Limit + 1, Len(ts)),
   hand |-> [w \in Workers |-> IF w <= Len(ts) THEN ts[w] ELSE None],
   results |-> <<>>]

applyBulk(p, ts) ==
  /\ runs[p].at = "idle"
  /\ runs' = [runs EXCEPT ![p] = Started(ts)]

\* A mutant: the next target stays in the queue for the next worker.
MutRecordedPeeks(R, w, ok) ==
  [at |-> R.at, targets |-> R.targets, queue |-> R.queue,
   hand |-> [R.hand EXCEPT ![w] = IF R.queue = <<>> THEN None ELSE Head(R.queue)],
   results |-> Append(R.results, [target |-> R.hand[w], ok |-> ok])]

\* Worker w of R records what its call came to, and takes the next target.
Recorded(R, w, ok) ==
  [at |-> R.at, targets |-> R.targets,
   queue |-> IF R.queue = <<>> THEN R.queue ELSE Tail(R.queue),
   hand |-> [R.hand EXCEPT ![w] = IF R.queue = <<>> THEN None ELSE Head(R.queue)],
   results |-> Append(R.results, [target |-> R.hand[w], ok |-> ok])]

\* A mutant: a worker without a target goes on.
MutAnswerNothing(p, w, ok) ==
  /\ runs[p].at = "running"
  /\ runs' = [runs EXCEPT ![p] = Recorded(runs[p], w, ok)]

\* A call is answered or fails; its worker records that and goes on.
Answer(p, w, ok) ==
  /\ runs[p].at = "running"
  /\ runs[p].hand[w] # None
  /\ runs' = [runs EXCEPT ![p] = Recorded(runs[p], w, ok)]

\* A mutant: the outcomes stay in the order they came.
MutInCallersOrder(ts, rs) == rs

\* results.sort by rank: the workers finish out of order.
InCallersOrder(ts, rs) ==
  [i \in 1..Len(ts) |-> CHOOSE r \in {rs[j] : j \in 1..Len(rs)} : r.target = ts[i]]

Resolved(R) ==
  [at |-> "resolved", targets |-> R.targets, queue |-> R.queue, hand |-> R.hand,
   results |-> InCallersOrder(R.targets, R.results)]

resolve(p) ==
  /\ runs[p].at = "running"
  /\ runs[p].hand = EmptyHands
  /\ runs' = [runs EXCEPT ![p] = Resolved(runs[p])]

\* The caller's code after the await.
Resume(p) ==
  /\ runs[p].at = "resolved"
  /\ runs' = [runs EXCEPT ![p] = NoRun]

\* The picked keys are a JavaScript Set: none comes twice, and the page has
\* no bulk dialog when none is picked.
Once(s) == \A i, j \in 1..Len(s) : s[i] = s[j] => i = j
Picks == UNION {{s \in [1..n -> Servers] : Once(s)} : n \in 1..Cardinality(Servers)}

PoolNext ==
  \E p \in Runs :
    \/ \E ts \in Picks : applyBulk(p, ts)
    \/ \E w \in Workers, ok \in BOOLEAN : Answer(p, w, ok)
    \/ resolve(p)
    \/ Resume(p)

PoolSpec == PoolInit /\ [][PoolNext]_runs

\* Every request of a browser ends, and the code that awaits it runs.
FairPoolSpec ==
  /\ PoolSpec
  /\ \A p \in Runs :
       /\ \A w \in Workers : WF_runs(\E ok \in BOOLEAN : Answer(p, w, ok))
       /\ WF_runs(resolve(p))

-----------------------------------------------------------------------------
(* Properties                                                              *)

InHand(R) == {R.hand[w] : w \in Workers} \ {None}
Answered(R) == {R.results[i].target : i \in 1..Len(R.results)}
Waiting(R) == {R.queue[i] : i \in 1..Len(R.queue)}

\* The workers share the queue: at any time every target is waiting, in one
\* worker's hand or answered, and only one of the three, and only once; no
\* server is called twice and none is forgotten (bulk.ts:114).
TargetsOnce(R) ==
  R.at = "running" =>
    /\ {R.targets[i] : i \in 1..Len(R.targets)}
         = Waiting(R) \cup InHand(R) \cup Answered(R)
    /\ Waiting(R) \cap InHand(R) = {} /\ Waiting(R) \cap Answered(R) = {}
    /\ InHand(R) \cap Answered(R) = {}
    /\ Once(R.queue)
    /\ \A v, w \in Workers : R.hand[v] = R.hand[w] => v = w \/ R.hand[v] = None
    /\ \A i, j \in 1..Len(R.results) :
         R.results[i].target = R.results[j].target => i = j
EveryTargetOnce == \A p \in Runs : TargetsOnce(runs[p])

Bulk(p) == INSTANCE BulkAction WITH
  targets <- runs[p].targets,
  asked <- InHand(runs[p]),
  settled <- [t \in Answered(runs[p]) |->
                [target |-> t, ok |-> TRUE] \in
                  {runs[p].results[i] : i \in 1..Len(runs[p].results)}],
  report <- IF runs[p].at = "resolved" THEN runs[p].results ELSE <<>>

\* Each run implements what a bulk action promises, whatever the others do:
\* one call per target, at most Limit of its own at a time, and a complete
\* report in the caller's order in the end (the comment above applyBulk,
\* bulk.ts:94).
BulkPromise ==
  /\ \A p \in Runs : Bulk(p)!Init
  /\ [][\A p \in Runs : Bulk(p)!Next \/ UNCHANGED Bulk(p)!vars]_runs
  /\ \A p \in Runs : Bulk(p)!Ends
=============================================================================
