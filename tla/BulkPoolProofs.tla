--------------------------- MODULE BulkPoolProofs ---------------------------
(***************************************************************************)
(* Theorems about BulkPool, for any number of runs at a time, any targets  *)
(* and any number of workers.  EveryTargetOnce is not inductive alone: a   *)
(* worker that stops must have found the queue empty (IdleMeansDrained),   *)
(* or targets would be left behind, and the hands must be empty when the   *)
(* action is over (AtRest).  With both, every step of a run is a step of   *)
(* BulkAction.  What one step does is shown of a run P and what it becomes *)
(* Q, and then of the runs of the module.                                  *)
(***************************************************************************)
EXTENDS BulkPool, SequenceTheorems, FiniteSetTheorems, TLAPS

-----------------------------------------------------------------------------
(* The inductive invariant, in parts                                       *)

\* A worker is without a target only when none is left to take.
IdleMeansDrained(P) ==
  P.at = "running" =>
    /\ P.targets # <<>>
    /\ (\E w \in Workers : P.hand[w] = None) => P.queue = <<>>

\* Nothing is out once the action has resolved, and nothing known before it
\* starts; the report names the targets in order.
AtRest(P) ==
  /\ P.at # "running" => P.hand = EmptyHands
  /\ P.at = "idle" => P.targets = <<>> /\ P.results = <<>>
  /\ P.at = "resolved" =>
       /\ P.targets # <<>>
       /\ Len(P.results) = Len(P.targets)
       /\ \A i \in 1..Len(P.targets) : P.results[i].target = P.targets[i]

Inv(P) ==
  /\ P \in Run
  /\ Once(P.targets)
  /\ IdleMeansDrained(P)
  /\ AtRest(P)
  /\ TargetsOnce(P)

RunsInv == runs \in [Runs -> Run] /\ \A p \in Runs : Inv(runs[p])

-----------------------------------------------------------------------------
(* Sequences                                                               *)

Of(s) == {s[i] : i \in 1..Len(s)}

\* Taking from the queue.
LEMMA Taking ==
  ASSUME NEW S, NEW q \in Seq(S), q # <<>>
  PROVE  /\ Head(q) \in S
         /\ Tail(q) \in Seq(S)
         /\ Len(q) \in Nat /\ Len(q) >= 1
         /\ Head(q) = q[1]
         /\ Len(Tail(q)) = Len(q) - 1
         /\ \A i \in 1..Len(Tail(q)) : Tail(q)[i] = q[i + 1]
  OBVIOUS

LEMMA TakingOnce ==
  ASSUME NEW S, NEW q \in Seq(S), q # <<>>, Once(q)
  PROVE  /\ Of(q) = {Head(q)} \cup Of(Tail(q))
         /\ Head(q) \notin Of(Tail(q))
         /\ Once(Tail(q))
<1> DEFINE t == Tail(q)
<1>1. /\ Len(q) \in Nat /\ Len(q) >= 1 /\ Head(q) = q[1] /\ Len(t) = Len(q) - 1
      /\ \A i \in 1..Len(t) : t[i] = q[i + 1]
  BY Taking
<1> HIDE DEF t
<1>2. Of(q) = {Head(q)} \cup Of(t)
  <2>1. Of(t) \subseteq Of(q)
    BY <1>1 DEF Of
  <2>2. ASSUME NEW i \in 1..Len(q), i # 1
        PROVE  q[i] \in Of(t)
    <3>1. i - 1 \in 1..Len(t) /\ t[i - 1] = q[(i - 1) + 1] /\ (i - 1) + 1 = i
      BY <1>1, <2>2
    <3> QED
      BY <3>1 DEF Of
  <2>3. Head(q) \in Of(q)
    BY <1>1 DEF Of
  <2> QED
    BY <1>1, <2>1, <2>2, <2>3 DEF Of
<1>3. Head(q) \notin Of(t)
  <2> SUFFICES ASSUME NEW i \in 1..Len(t), t[i] = Head(q) PROVE FALSE
    BY DEF Of
  <2>1. i + 1 \in 1..Len(q) /\ 1 \in 1..Len(q) /\ q[i + 1] = q[1] /\ i + 1 # 1
    BY <1>1
  <2> QED
    BY <2>1 DEF Once
<1>4. Once(t)
  <2> SUFFICES ASSUME NEW i \in 1..Len(t), NEW j \in 1..Len(t), t[i] = t[j]
               PROVE  i = j
    BY DEF Once
  <2>1. i + 1 \in 1..Len(q) /\ j + 1 \in 1..Len(q) /\ q[i + 1] = q[j + 1]
    BY <1>1
  <2>2. i + 1 = j + 1
    BY <2>1 DEF Once
  <2> QED
    BY <2>2
<1> QED
  BY <1>2, <1>3, <1>4 DEF t

LEMMA Adding ==
  ASSUME NEW S, NEW s \in Seq(S), NEW e \in S
  PROVE  /\ Append(s, e) \in Seq(S)
         /\ Len(Append(s, e)) = Len(s) + 1
         /\ \A i \in 1..Len(s) : Append(s, e)[i] = s[i]
         /\ Append(s, e)[Len(s) + 1] = e
         /\ Len(s) \in Nat
  OBVIOUS

LEMMA AddingTo ==
  ASSUME NEW S, NEW s \in Seq(S), NEW e \in S
  PROVE  Of(Append(s, e)) = Of(s) \cup {e}
<1> DEFINE t == Append(s, e)
<1>1. /\ Len(t) = Len(s) + 1 /\ Len(s) \in Nat /\ t[Len(s) + 1] = e
      /\ \A i \in 1..Len(s) : t[i] = s[i]
  BY Adding
<1> HIDE DEF t
<1>2. Of(t) \subseteq Of(s) \cup {e}
  <2> SUFFICES ASSUME NEW i \in 1..Len(t) PROVE t[i] \in Of(s) \cup {e}
    BY DEF Of
  <2>1. i \in 1..Len(s) \/ i = Len(s) + 1
    BY <1>1
  <2> QED
    BY <1>1, <2>1 DEF Of
<1>3. Of(s) \subseteq Of(t) /\ e \in Of(t)
  <2>1. \A i \in 1..Len(s) : i \in 1..Len(t)
    BY <1>1
  <2>2. Len(s) + 1 \in 1..Len(t)
    BY <1>1
  <2> QED
    BY <1>1, <2>1, <2>2 DEF Of
<1> QED
  BY <1>2, <1>3 DEF t

\* The picks: sequences of servers, none twice, never empty.
LEMMA PicksAre ==
  ASSUME NEW ts \in Picks
  PROVE  ts \in Seq(Servers) /\ Once(ts) /\ ts # <<>> /\ Len(ts) \in Nat /\ Len(ts) >= 1
<1>1. PICK n \in 1..Cardinality(Servers) : ts \in [1..n -> Servers] /\ Once(ts)
  BY DEF Picks
<1>2. n \in Nat /\ n >= 1
  OBVIOUS
<1>3. ts \in Seq(Servers) /\ Len(ts) = n
  BY <1>1, <1>2
<1>4. ts # <<>>
  BY <1>2, <1>3
<1> QED
  BY <1>1, <1>2, <1>3, <1>4

-----------------------------------------------------------------------------
(* The inductive invariant                                                 *)

\* EveryTargetOnce for an action that runs, over Of.
LEMMA OnceRunning ==
  ASSUME NEW P
  PROVE  TargetsOnce(P) <=>
    (P.at = "running" =>
       /\ Of(P.targets) = Of(P.queue) \cup InHand(P) \cup Answered(P)
       /\ Of(P.queue) \cap InHand(P) = {} /\ Of(P.queue) \cap Answered(P) = {}
       /\ InHand(P) \cap Answered(P) = {}
       /\ Once(P.queue)
       /\ \A v, w \in Workers : P.hand[v] = P.hand[w] => v = w \/ P.hand[v] = None
       /\ \A i, j \in 1..Len(P.results) : P.results[i].target = P.results[j].target => i = j)
BY DEF TargetsOnce, Of, Waiting

\* A run is made of its parts.
LEMMA MadeARun ==
  ASSUME NEW a \in {"idle", "running", "resolved"}, NEW ts \in Seq(Servers),
         NEW q \in Seq(Servers), NEW h \in [Workers -> Servers \cup {None}],
         NEW rs \in Seq(Result)
  PROVE  [at |-> a, targets |-> ts, queue |-> q, hand |-> h, results |-> rs] \in Run
BY DEF Run

LEMMA NoRunInv == Inv(NoRun)
<1>1. /\ NoRun.at = "idle" /\ NoRun.targets = <<>> /\ NoRun.results = <<>>
      /\ NoRun.hand = EmptyHands
  BY DEF NoRun
<1>2. NoRun \in Run
  BY DEF NoRun, Run, EmptyHands
<1>3. Once(NoRun.targets)
  BY <1>1 DEF Once
<1> QED
  BY <1>1, <1>2, <1>3 DEF Inv, IdleMeansDrained, AtRest, TargetsOnce

LEMMA StartInv ==
  ASSUME NEW ts \in Picks, NEW Q, Q = Started(ts)
  PROVE  Inv(Q)
<1> USE LimitAssumption, NoneAssumption
<1>1. ts \in Seq(Servers) /\ Once(ts) /\ ts # <<>> /\ Len(ts) \in Nat /\ Len(ts) >= 1
  BY PicksAre
<1>2. /\ Q = [at |-> Q.at, targets |-> Q.targets, queue |-> Q.queue, hand |-> Q.hand,
              results |-> Q.results]
      /\ Q.at = "running" /\ Q.targets = ts /\ Q.results = <<>>
      /\ Q.hand = [w \in Workers |-> IF w <= Len(ts) THEN ts[w] ELSE None]
      /\ Q.queue = SubSeq(ts, Limit + 1, Len(ts))
  BY DEF Started
<1>3. /\ Q.queue \in Seq(Servers)
      /\ Len(Q.queue) = IF Limit < Len(ts) THEN Len(ts) - Limit ELSE 0
      /\ \A i \in 1..Len(Q.queue) : Q.queue[i] = ts[Limit + i]
  BY <1>1, <1>2
<1>4. \A i \in 1..Len(ts) : ts[i] \in Servers /\ ts[i] # None
  BY <1>1
<1>5. Q.hand \in [Workers -> Servers \cup {None}]
  BY <1>1, <1>2, <1>4 DEF Workers
<1>6. Q \in Run
  <2>1. Q.results \in Seq(Result)
    BY <1>2
  <2>2. Q.at \in {"idle", "running", "resolved"} /\ Q.targets \in Seq(Servers)
    BY <1>1, <1>2
  <2>3. [at |-> Q.at, targets |-> Q.targets, queue |-> Q.queue, hand |-> Q.hand,
          results |-> Q.results] \in Run
    BY <1>3, <1>5, <2>1, <2>2, MadeARun
  <2> QED
    BY <1>2, <2>3
<1>7. \A i \in 1..Len(Q.queue) : Limit + i \in 1..Len(ts) /\ Limit + i > Limit
  BY <1>1, <1>3
<1>8. InHand(Q) = {ts[w] : w \in {v \in Workers : v <= Len(ts)}}
  BY <1>1, <1>2, <1>4 DEF InHand, Workers
<1>9. Of(ts) = Of(Q.queue) \cup InHand(Q)
  <2>1. ASSUME NEW i \in 1..Len(ts) PROVE ts[i] \in Of(Q.queue) \cup InHand(Q)
    <3>1. CASE i <= Limit
      BY <1>8, <3>1 DEF Workers
    <3>2. CASE ~(i <= Limit)
      <4>1. i - Limit \in 1..Len(Q.queue) /\ Limit + (i - Limit) = i
        BY <1>1, <1>3, <3>2
      <4> QED
        BY <1>3, <4>1 DEF Of
    <3> QED
      BY <3>1, <3>2
  <2>2. Of(Q.queue) \subseteq Of(ts)
    BY <1>3, <1>7 DEF Of
  <2>3. InHand(Q) \subseteq Of(ts)
    BY <1>1, <1>8 DEF Of, Workers
  <2> QED
    BY <2>1, <2>2, <2>3 DEF Of
<1>10. Of(Q.queue) \cap InHand(Q) = {}
  <2> SUFFICES ASSUME NEW i \in 1..Len(Q.queue), NEW w \in Workers, w <= Len(ts),
                      Q.queue[i] = ts[w]
               PROVE  FALSE
    BY <1>8 DEF Of
  <2>1. Limit + i \in 1..Len(ts) /\ Limit + i > Limit /\ ts[Limit + i] = ts[w]
    BY <1>3, <1>7
  <2>2. w \in 1..Len(ts) /\ w <= Limit
    BY <1>1 DEF Workers
  <2>3. Limit + i = w
    BY <1>1, <2>1, <2>2 DEF Once
  <2> QED
    BY <2>1, <2>2, <2>3
<1>11. Once(Q.queue)
  <2> SUFFICES ASSUME NEW i \in 1..Len(Q.queue), NEW j \in 1..Len(Q.queue),
                      Q.queue[i] = Q.queue[j]
               PROVE  i = j
    BY DEF Once
  <2>1. Limit + i = Limit + j
    BY <1>1, <1>3, <1>7 DEF Once
  <2> QED
    BY <2>1
<1>12. \A v, w \in Workers : Q.hand[v] = Q.hand[w] => v = w \/ Q.hand[v] = None
  <2> SUFFICES ASSUME NEW v \in Workers, NEW w \in Workers, Q.hand[v] = Q.hand[w],
                      Q.hand[v] # None
               PROVE  v = w
    OBVIOUS
  <2>1. v \in 1..Len(ts) /\ w \in 1..Len(ts) /\ ts[v] = ts[w]
    BY <1>1, <1>2 DEF Workers
  <2> QED
    BY <1>1, <2>1 DEF Once
<1>13. Answered(Q) = {}
  BY <1>2 DEF Answered
<1>14. TargetsOnce(Q)
  <2>1. \A i, j \in 1..Len(Q.results) :
          Q.results[i].target = Q.results[j].target => i = j
    BY <1>2
  <2>2. /\ {Q.targets[i] : i \in 1..Len(Q.targets)} = Waiting(Q) \cup InHand(Q) \cup Answered(Q)
        /\ Waiting(Q) = Of(Q.queue)
    BY <1>2, <1>9, <1>13 DEF Waiting, Of
  <2>3. /\ Waiting(Q) \cap InHand(Q) = {} /\ Waiting(Q) \cap Answered(Q) = {}
        /\ InHand(Q) \cap Answered(Q) = {}
    BY <1>10, <1>13, <2>2
  <2> QED
    BY <1>11, <1>12, <2>1, <2>2, <2>3 DEF TargetsOnce
<1>15. IdleMeansDrained(Q)
  <2>1. ASSUME NEW w \in Workers, Q.hand[w] = None PROVE Q.queue = <<>>
    <3>1. w > Len(ts)
      BY <1>1, <1>2, <1>4, <2>1 DEF Workers
    <3>2. Len(Q.queue) = 0
      BY <1>1, <1>3, <3>1 DEF Workers
    <3> QED
      BY <1>3, <3>2
  <2> QED
    BY <1>1, <1>2, <2>1 DEF IdleMeansDrained
<1> QED
  BY <1>1, <1>2, <1>6, <1>14, <1>15 DEF Inv, AtRest

\* A worker's outcome moves its target from the hands to the answered, and
\* the head of the queue into its hand.
LEMMA AnswerMoves ==
  ASSUME NEW P, Inv(P), NEW w \in Workers, NEW ok \in BOOLEAN,
         P.at = "running", P.hand[w] # None, NEW Q, Q = Recorded(P, w, ok)
  PROVE  /\ P.hand[w] \in Servers /\ P.hand[w] \in InHand(P)
         /\ Q.results \in Seq(Result)
         /\ Answered(Q) = Answered(P) \cup {P.hand[w]}
         /\ P.queue = <<>> => /\ Q.queue = <<>>
                            /\ InHand(Q) = InHand(P) \ {P.hand[w]}
         /\ P.queue # <<>> => /\ Of(P.queue) = {Head(P.queue)} \cup Of(Q.queue)
                            /\ Head(P.queue) \notin Of(Q.queue)
                            /\ Head(P.queue) \in Servers /\ Head(P.queue) # None
                            /\ Q.queue \in Seq(Servers) /\ Once(Q.queue)
                            /\ InHand(Q) = (InHand(P) \ {P.hand[w]}) \cup {Head(P.queue)}
<1> USE NoneAssumption
<1>1. /\ P.at = "running" /\ P.hand[w] # None
      /\ Q.results = Append(P.results, [target |-> P.hand[w], ok |-> ok])
      /\ Q.hand = [P.hand EXCEPT ![w] = IF P.queue = <<>> THEN None ELSE Head(P.queue)]
      /\ Q.queue = IF P.queue = <<>> THEN P.queue ELSE Tail(P.queue)
  BY DEF Recorded
<1>2. /\ P.queue \in Seq(Servers) /\ P.hand \in [Workers -> Servers \cup {None}]
      /\ P.results \in Seq(Result)
  BY DEF Inv, Run
<1>3. /\ Once(P.queue)
      /\ \A u, v \in Workers : P.hand[u] = P.hand[v] => u = v \/ P.hand[u] = None
  BY <1>1, OnceRunning DEF Inv
<1>4. P.hand[w] \in Servers /\ P.hand[w] \in InHand(P)
  BY <1>1, <1>2 DEF InHand
<1> DEFINE r == [target |-> P.hand[w], ok |-> ok]
<1>5. r \in Result /\ r.target = P.hand[w]
  BY <1>4 DEF Result
<1> HIDE DEF r
<1>6. Q.results = Append(P.results, r)
  BY <1>1 DEF r
<1>7. Q.results \in Seq(Result) /\ Of(Q.results) = Of(P.results) \cup {r}
  BY <1>2, <1>5, <1>6, Adding, AddingTo
<1>8. Answered(Q) = Answered(P) \cup {P.hand[w]}
  <2>1. Answered(P) = {e.target : e \in Of(P.results)}
    BY DEF Answered, Of
  <2>2. Answered(Q) = {e.target : e \in Of(Q.results)}
    BY DEF Answered, Of
  <2> QED
    BY <1>5, <1>7, <2>1, <2>2
<1>9. P.queue # <<>> =>
        /\ Of(P.queue) = {Head(P.queue)} \cup Of(Q.queue) /\ Head(P.queue) \notin Of(Q.queue)
        /\ Head(P.queue) \in Servers /\ Q.queue \in Seq(Servers) /\ Once(Q.queue)
  BY <1>1, <1>2, <1>3, Taking, TakingOnce
<1> DEFINE next == IF P.queue = <<>> THEN None ELSE Head(P.queue)
<1>10. Q.hand = [P.hand EXCEPT ![w] = next]
  BY <1>1
<1> HIDE DEF next
<1>11. InHand(Q) = (InHand(P) \ {P.hand[w]}) \cup ({next} \ {None})
  <2>1. \A v \in Workers : Q.hand[v] = IF v = w THEN next ELSE P.hand[v]
    BY <1>2, <1>10
  <2>2. \A v \in Workers \ {w} : P.hand[v] # P.hand[w]
    BY <1>1, <1>3
  <2> QED
    BY <1>1, <2>1, <2>2 DEF InHand
<1> QED
  BY <1>1, <1>4, <1>7, <1>8, <1>9, <1>11 DEF next

LEMMA AnswerInv ==
  ASSUME NEW P, Inv(P), NEW w \in Workers, NEW ok \in BOOLEAN,
         P.at = "running", P.hand[w] # None, NEW Q, Q = Recorded(P, w, ok)
  PROVE  Inv(Q)
<1> USE NoneAssumption
<1>1. /\ Q = [at |-> Q.at, targets |-> Q.targets, queue |-> Q.queue, hand |-> Q.hand,
              results |-> Q.results]
      /\ P.at = "running" /\ P.hand[w] # None /\ Q.at = P.at /\ Q.targets = P.targets
      /\ Q.results = Append(P.results, [target |-> P.hand[w], ok |-> ok])
      /\ Q.hand = [P.hand EXCEPT ![w] = IF P.queue = <<>> THEN None ELSE Head(P.queue)]
  BY DEF Recorded
<1>2. /\ P.queue \in Seq(Servers) /\ P.hand \in [Workers -> Servers \cup {None}]
      /\ P.results \in Seq(Result) /\ P.targets \in Seq(Servers)
  BY DEF Inv, Run
<1>3. /\ Of(P.targets) = Of(P.queue) \cup InHand(P) \cup Answered(P)
      /\ Of(P.queue) \cap InHand(P) = {} /\ Of(P.queue) \cap Answered(P) = {}
      /\ InHand(P) \cap Answered(P) = {}
      /\ Once(P.queue)
      /\ \A u, v \in Workers : P.hand[u] = P.hand[v] => u = v \/ P.hand[u] = None
      /\ \A i, j \in 1..Len(P.results) : P.results[i].target = P.results[j].target => i = j
  BY <1>1, OnceRunning DEF Inv
<1>4. Q \in Run
  <2>1. Q.queue \in Seq(Servers)
    BY <1>2, AnswerMoves
  <2>2. Q.hand \in [Workers -> Servers \cup {None}]
    BY <1>1, <1>2, AnswerMoves
  <2>3. Q.results \in Seq(Result)
    BY AnswerMoves
  <2>4. Q.at \in {"idle", "running", "resolved"} /\ Q.targets \in Seq(Servers)
    BY <1>1, <1>2
  <2>5. [at |-> Q.at, targets |-> Q.targets, queue |-> Q.queue, hand |-> Q.hand,
          results |-> Q.results] \in Run
    BY <2>1, <2>2, <2>3, <2>4, MadeARun
  <2> QED
    BY <1>1, <2>5
<1>5. Of(<<>>) = {}
  BY DEF Of
<1>6. /\ Of(P.targets) = Of(Q.queue) \cup InHand(Q) \cup Answered(Q)
      /\ Of(Q.queue) \cap InHand(Q) = {} /\ Of(Q.queue) \cap Answered(Q) = {}
      /\ InHand(Q) \cap Answered(Q) = {}
  <2>1. CASE P.queue = <<>>
    BY <1>3, <1>5, <2>1, AnswerMoves
  <2>2. CASE P.queue # <<>>
    <3>1. /\ P.hand[w] \in InHand(P)
          /\ Answered(Q) = Answered(P) \cup {P.hand[w]}
          /\ Of(P.queue) = {Head(P.queue)} \cup Of(Q.queue) /\ Head(P.queue) \notin Of(Q.queue)
          /\ InHand(Q) = (InHand(P) \ {P.hand[w]}) \cup {Head(P.queue)}
      BY <2>2, AnswerMoves
    <3> QED
      BY <1>3, <3>1
  <2> QED
    BY <2>1, <2>2
<1>7. Once(Q.queue)
  <2>1. CASE P.queue = <<>>
    BY <2>1, AnswerMoves DEF Once
  <2>2. CASE P.queue # <<>>
    BY <2>2, AnswerMoves
  <2> QED
    BY <2>1, <2>2
<1>8. \A u, v \in Workers : Q.hand[u] = Q.hand[v] => u = v \/ Q.hand[u] = None
  <2>1. \A v \in Workers \ {w} : Q.hand[v] = P.hand[v]
    BY <1>1, <1>2
  <2>2. Q.hand[w] = IF P.queue = <<>> THEN None ELSE Head(P.queue)
    BY <1>1, <1>2
  <2>3. P.queue # <<>> => \A v \in Workers : P.hand[v] # Head(P.queue)
    <3> SUFFICES ASSUME P.queue # <<>>, NEW v \in Workers PROVE P.hand[v] # Head(P.queue)
      OBVIOUS
    <3>1. Head(P.queue) \in Of(P.queue) /\ Head(P.queue) # None
      BY AnswerMoves
    <3>2. Head(P.queue) \notin InHand(P)
      BY <1>3, <3>1
    <3> QED
      BY <3>1, <3>2 DEF InHand
  <2> QED
    BY <1>3, <2>1, <2>2, <2>3
<1>9. \A i, j \in 1..Len(Q.results) : Q.results[i].target = Q.results[j].target => i = j
  <2> DEFINE r == [target |-> P.hand[w], ok |-> ok]
  <2>1. r \in Result /\ r.target = P.hand[w]
    BY AnswerMoves DEF Result
  <2> HIDE DEF r
  <2>2. Q.results = Append(P.results, r)
    BY <1>1 DEF r
  <2>3. /\ Len(Q.results) = Len(P.results) + 1 /\ Len(P.results) \in Nat
        /\ \A i \in 1..Len(P.results) : Q.results[i] = P.results[i]
        /\ Q.results[Len(P.results) + 1] = r
    BY <1>2, <2>1, <2>2, Adding
  <2>4. \A i \in 1..Len(P.results) : P.results[i].target # P.hand[w]
    BY <1>3, AnswerMoves DEF Answered
  <2>5. ASSUME NEW i \in 1..Len(Q.results), NEW j \in 1..Len(Q.results),
               Q.results[i].target = Q.results[j].target
        PROVE  i = j
    <3>1. CASE i \in 1..Len(P.results) /\ j \in 1..Len(P.results)
      BY <1>3, <2>3, <2>5, <3>1
    <3>2. CASE i = Len(P.results) + 1 /\ j \in 1..Len(P.results)
      BY <2>1, <2>3, <2>4, <2>5, <3>2
    <3>3. CASE i \in 1..Len(P.results) /\ j = Len(P.results) + 1
      BY <2>1, <2>3, <2>4, <2>5, <3>3
    <3> QED
      BY <2>3, <3>1, <3>2, <3>3
  <2> QED
    BY <2>5
<1>10. TargetsOnce(Q)
  <2>1. {Q.targets[i] : i \in 1..Len(Q.targets)} = Of(P.targets) /\ Waiting(Q) = Of(Q.queue)
    BY <1>1 DEF Waiting, Of
  <2> QED
    BY <1>6, <1>7, <1>8, <1>9, <2>1 DEF TargetsOnce
<1>11. IdleMeansDrained(Q)
  <2> SUFFICES ASSUME NEW v \in Workers, Q.hand[v] = None PROVE Q.queue = <<>>
    BY <1>1 DEF Inv, IdleMeansDrained
  <2>1. CASE P.queue = <<>>
    BY <2>1, AnswerMoves
  <2>2. CASE P.queue # <<>>
    <3>1. v # w
      BY <1>1, <1>2, <2>2, AnswerMoves
    <3>2. P.hand[v] = None
      BY <1>1, <1>2, <3>1
    <3> QED
      BY <1>1, <2>2, <3>2 DEF Inv, IdleMeansDrained
  <2> QED
    BY <2>1, <2>2
<1> QED
  BY <1>1, <1>4, <1>10, <1>11 DEF Inv, AtRest

\* When every worker has stopped, every target has been answered, once.
LEMMA AllAnswered ==
  ASSUME NEW P, Inv(P), P.at = "running", P.hand = EmptyHands
  PROVE  /\ P.targets # <<>>
         /\ Of(P.targets) = Answered(P)
         /\ \A i \in 1..Len(P.targets) :
              \E j \in 1..Len(P.results) :
                /\ P.results[j].target = P.targets[i]
                /\ \A k \in 1..Len(P.results) : P.results[k].target = P.targets[i] => k = j
<1>1. P.at = "running" /\ P.hand = EmptyHands /\ P.targets # <<>>
  BY DEF Resolved, Inv, IdleMeansDrained
<1>2. InHand(P) = {}
  BY <1>1 DEF InHand, EmptyHands
<1>3. 1 \in Workers /\ P.hand[1] = None
  BY <1>1, LimitAssumption DEF Workers, EmptyHands
<1>4. P.queue = <<>>
  BY <1>1, <1>3 DEF Inv, IdleMeansDrained
<1>5. Of(P.queue) = {}
  BY <1>4 DEF Of
<1>6. /\ Of(P.targets) = Answered(P)
      /\ \A i, j \in 1..Len(P.results) : P.results[i].target = P.results[j].target => i = j
  BY <1>1, <1>2, <1>5, OnceRunning DEF Inv
<1>7. ASSUME NEW i \in 1..Len(P.targets)
      PROVE  \E j \in 1..Len(P.results) :
               /\ P.results[j].target = P.targets[i]
               /\ \A k \in 1..Len(P.results) : P.results[k].target = P.targets[i] => k = j
  <2>1. P.targets[i] \in Answered(P)
    BY <1>6 DEF Of
  <2>2. PICK j \in 1..Len(P.results) : P.results[j].target = P.targets[i]
    BY <2>1 DEF Answered
  <2> QED
    BY <1>6, <2>2
<1> QED
  BY <1>1, <1>6, <1>7

\* Sorting by rank loses no outcome and adds none.
LEMMA SortedIs ==
  ASSUME NEW P, Inv(P), P.at = "running", P.hand = EmptyHands,
         NEW Q, Q = Resolved(P)
  PROVE  /\ Q.results \in Seq(Result)
         /\ Len(Q.results) = Len(P.targets)
         /\ \A i \in 1..Len(P.targets) :
              Q.results[i] \in Of(P.results) /\ Q.results[i].target = P.targets[i]
         /\ Of(Q.results) = Of(P.results)
<1>1. Q.results = [i \in 1..Len(P.targets) |->
                    CHOOSE r \in Of(P.results) : r.target = P.targets[i]]
  BY DEF Resolved, InCallersOrder, Of
<1>2. P.results \in Seq(Result) /\ P.targets \in Seq(Servers) /\ Len(P.targets) \in Nat
  BY DEF Inv, Run
<1>3. \A r \in Of(P.results) : r \in Result
  BY <1>2 DEF Of
<1>4. ASSUME NEW i \in 1..Len(P.targets)
      PROVE  /\ Q.results[i] \in Of(P.results)
             /\ Q.results[i].target = P.targets[i]
             /\ \A r \in Of(P.results) : r.target = P.targets[i] => r = Q.results[i]
  <2>1. PICK j \in 1..Len(P.results) :
          /\ P.results[j].target = P.targets[i]
          /\ \A k \in 1..Len(P.results) : P.results[k].target = P.targets[i] => k = j
    BY AllAnswered
  <2>2. P.results[j] \in Of(P.results)
    BY DEF Of
  <2>3. \E r \in Of(P.results) : r.target = P.targets[i]
    BY <2>1, <2>2
  <2>4. Q.results[i] \in Of(P.results) /\ Q.results[i].target = P.targets[i]
    BY <1>1, <2>3
  <2>5. \A r \in Of(P.results) : r.target = P.targets[i] => r = P.results[j]
    BY <2>1 DEF Of
  <2> QED
    BY <2>4, <2>5
<1>5. Q.results \in [1..Len(P.targets) -> Result]
  BY <1>1, <1>3, <1>4
<1>6. Q.results \in Seq(Result) /\ Len(Q.results) = Len(P.targets)
  BY <1>2, <1>5
<1>7. Of(Q.results) \subseteq Of(P.results)
  BY <1>4, <1>6 DEF Of
<1>8. Of(P.results) \subseteq Of(Q.results)
  <2> SUFFICES ASSUME NEW r \in Of(P.results) PROVE r \in Of(Q.results)
    OBVIOUS
  <2>1. r.target \in Of(P.targets)
    <3>1. r.target \in Answered(P)
      BY DEF Answered, Of
    <3> QED
      BY <3>1, AllAnswered
  <2>2. PICK i \in 1..Len(P.targets) : r.target = P.targets[i]
    BY <2>1 DEF Of
  <2>3. r = Q.results[i]
    BY <1>4, <2>2
  <2> QED
    BY <1>6, <2>3 DEF Of
<1> QED
  BY <1>4, <1>6, <1>7, <1>8

LEMMA ResolveInv ==
  ASSUME NEW P, Inv(P), P.at = "running", P.hand = EmptyHands,
         NEW Q, Q = Resolved(P)
  PROVE  Inv(Q)
<1>1. /\ Q = [at |-> Q.at, targets |-> Q.targets, queue |-> Q.queue, hand |-> Q.hand,
              results |-> Q.results]
      /\ P.at = "running" /\ Q.at = "resolved" /\ P.hand = EmptyHands
      /\ Q.targets = P.targets /\ Q.queue = P.queue /\ Q.hand = P.hand
  BY DEF Resolved
<1>2. Q \in Run
  <2>1. /\ Q.targets \in Seq(Servers) /\ Q.queue \in Seq(Servers)
        /\ Q.hand \in [Workers -> Servers \cup {None}]
    BY <1>1 DEF Inv, Run
  <2> QED
    BY <1>1, <2>1, SortedIs, MadeARun
<1>3. Once(Q.targets)
  BY <1>1 DEF Inv, Once
<1>4. AtRest(Q)
  BY <1>1, SortedIs, AllAnswered DEF AtRest, EmptyHands
<1> QED
  BY <1>1, <1>2, <1>3, <1>4 DEF Inv, IdleMeansDrained, TargetsOnce

LEMMA StepInv ==
  ASSUME RunsInv, PoolNext
  PROVE  RunsInv'
<1>1. PICK p \in Runs :
        \/ \E ts \in Picks : applyBulk(p, ts)
        \/ \E w \in Workers, ok \in BOOLEAN : Answer(p, w, ok)
        \/ resolve(p)
        \/ Resume(p)
  BY DEF PoolNext
<1> DEFINE Q == runs'[p]
<1>2. runs' = [runs EXCEPT ![p] = Q] /\ Inv(Q)
  <2>0. Inv(runs[p]) /\ runs \in [Runs -> Run]
    BY DEF RunsInv, Inv
  <2>1. ASSUME NEW ts \in Picks, applyBulk(p, ts)
        PROVE  runs' = [runs EXCEPT ![p] = Q] /\ Inv(Q)
    BY <2>0, <2>1, StartInv DEF applyBulk
  <2>2. ASSUME NEW w \in Workers, NEW ok \in BOOLEAN, Answer(p, w, ok)
        PROVE  runs' = [runs EXCEPT ![p] = Q] /\ Inv(Q)
    BY <2>0, <2>2, AnswerInv DEF Answer
  <2>3. CASE resolve(p)
    BY <2>0, <2>3, ResolveInv DEF resolve
  <2>4. CASE Resume(p)
    BY <2>0, <2>4, NoRunInv DEF Resume
  <2> QED
    BY <1>1, <2>1, <2>2, <2>3, <2>4
<1> HIDE DEF Q
<1>3. \A q \in Runs : runs'[q] = IF q = p THEN Q ELSE runs[q]
  BY <1>2 DEF RunsInv
<1> QED
  BY <1>2, <1>3 DEF RunsInv, Inv

LEMMA NextInv == RunsInv /\ [PoolNext]_runs => RunsInv'
<1>1. CASE UNCHANGED runs
  BY <1>1 DEF RunsInv
<1> QED
  BY <1>1, StepInv

\* The inductive invariant of every call of applyBulk (bulk.ts:106).
THEOREM InvCorrect == PoolSpec => []RunsInv
<1>1. PoolInit => RunsInv
  BY NoRunInv DEF PoolInit, RunsInv, Inv
<1> QED
  BY <1>1, NextInv, PTL DEF PoolSpec

\* The queues, hands and outcomes of bulk actions keep their types.
THEOREM TypeCorrect == PoolSpec => []PoolTypeOK
<1>1. RunsInv => PoolTypeOK
  BY DEF RunsInv, PoolTypeOK
<1> QED
  BY <1>1, InvCorrect, PTL

\* However many workers share a queue and however many bulk actions run,
\* every target of each is waiting, out or answered, once and in one place
\* (bulk.ts:114).
THEOREM EveryTargetOnceCorrect == PoolSpec => []EveryTargetOnce
<1>1. RunsInv => EveryTargetOnce
  BY DEF RunsInv, Inv, EveryTargetOnce
<1> QED
  BY <1>1, InvCorrect, PTL

-----------------------------------------------------------------------------
(* Each run implements BulkAction                                          *)

\* What BulkAction's variables stand for.
Settled(P) == [t \in Answered(P) |-> [target |-> t, ok |-> TRUE] \in Of(P.results)]
Report(P) == IF P.at = "resolved" THEN P.results ELSE <<>>

\* BulkAction's actions on a run before and after a step.
Begins(P, Q) ==
  /\ P.targets = <<>>
  /\ InHand(Q) \subseteq Of(Q.targets)
  /\ Cardinality(InHand(Q)) <= Limit
  /\ Settled(Q) = Settled(P) /\ Report(Q) = Report(P)

Advances(P, Q) ==
  /\ Report(P) = <<>>
  /\ \E done \in SUBSET InHand(P),
        new \in SUBSET (Of(P.targets) \ (InHand(P) \cup DOMAIN Settled(P))) :
       /\ InHand(Q) = (InHand(P) \ done) \cup new
       /\ Cardinality(InHand(Q)) <= Limit
       /\ Settled(Q) \in [DOMAIN Settled(P) \cup done -> BOOLEAN]
       /\ \A t \in DOMAIN Settled(P) : Settled(Q)[t] = Settled(P)[t]
  /\ Q.targets = P.targets /\ Report(Q) = Report(P)

Resolves(P, Q) ==
  /\ P.targets # <<>> /\ Report(P) = <<>>
  /\ DOMAIN Settled(P) = Of(P.targets)
  /\ Report(Q) = [i \in 1..Len(P.targets) |->
                    [target |-> P.targets[i], ok |-> Settled(P)[P.targets[i]]]]
  /\ Q.targets = P.targets /\ InHand(Q) = InHand(P) /\ Settled(Q) = Settled(P)

Finishes(P, Q) ==
  /\ Report(P) # <<>>
  /\ Q.targets = <<>> /\ InHand(Q) = {} /\ DOMAIN Settled(Q) = {}
  /\ Report(Q) = <<>>

\* No more calls are out than there are workers.
LEMMA FewInHand ==
  ASSUME NEW h \in [Workers -> Servers \cup {None}]
  PROVE  Cardinality({h[w] : w \in Workers} \ {None}) <= Limit
<1> USE LimitAssumption
<1> DEFINE held == {w \in Workers : h[w] # None}
           taken == {h[w] : w \in Workers} \ {None}
           taker == [w \in held |-> h[w]]
<1>1. IsFiniteSet(Workers) /\ Cardinality(Workers) = Limit
  BY FS_Interval DEF Workers
<1>2. held \in SUBSET Workers
  OBVIOUS
<1>3. IsFiniteSet(held) /\ Cardinality(held) <= Cardinality(Workers)
  BY <1>1, <1>2, FS_Subset
<1>4. taker \in Surjection(held, taken)
  BY DEF Surjection
<1> HIDE DEF held, taken, taker
<1>5. IsFiniteSet(taken) /\ Cardinality(taken) <= Cardinality(held)
  BY <1>3, <1>4, FS_Surjection
<1>6. Cardinality(taken) \in Nat /\ Cardinality(held) \in Nat
  BY <1>3, <1>5, FS_CardinalityType
<1> QED
  BY <1>1, <1>3, <1>5, <1>6 DEF taken

\* BulkAction counts as this module does.
LEMMA StartBegins ==
  ASSUME NEW P, NEW Q, Inv(P),
         P.at = "idle", NEW ts \in Picks, Q = Started(ts)
  PROVE  Begins(P, Q)
<1>1. Inv(Q)
  BY StartInv
<1>2. /\ P.at = "idle" /\ Q.at = "running" /\ Q.targets = ts /\ Q.results = <<>>
      /\ P.targets = <<>> /\ P.results = <<>>
  BY DEF Started, Inv, AtRest
<1>3. InHand(Q) \subseteq Of(Q.targets)
  BY <1>1, <1>2 DEF Inv, TargetsOnce, Of
<1>4. Cardinality(InHand(Q)) <= Limit
  <2>1. Q.hand \in [Workers -> Servers \cup {None}]
    BY <1>1 DEF Inv, Run
  <2> QED
    BY <2>1, FewInHand DEF InHand
<1>5. Settled(Q) = Settled(P) /\ Report(Q) = Report(P)
  BY <1>2 DEF Settled, Report, Answered, Of
<1> QED
  BY <1>2, <1>3, <1>4, <1>5 DEF Begins

LEMMA AnswerAdvances ==
  ASSUME NEW P, NEW Q, Inv(P),
         NEW w \in Workers, NEW ok \in BOOLEAN, P.at = "running", P.hand[w] # None,
         Q = Recorded(P, w, ok)
  PROVE  Advances(P, Q)
<1> DEFINE next == IF P.queue = <<>> THEN {} ELSE {Head(P.queue)}
           r == [target |-> P.hand[w], ok |-> ok]
<1>1. /\ P.at = "running" /\ Q.at = P.at /\ Q.targets = P.targets
      /\ Q.results = Append(P.results, r)
  BY DEF Recorded
<1>2. /\ Of(P.targets) = Of(P.queue) \cup InHand(P) \cup Answered(P)
      /\ Of(P.queue) \cap InHand(P) = {} /\ Of(P.queue) \cap Answered(P) = {}
      /\ InHand(P) \cap Answered(P) = {}
  BY <1>1, OnceRunning DEF Inv
<1>3. P.hand[w] \in InHand(P) /\ Answered(Q) = Answered(P) \cup {P.hand[w]}
  BY AnswerMoves
<1>4. InHand(Q) = (InHand(P) \ {P.hand[w]}) \cup next
  BY AnswerMoves
<1>5. next \subseteq Of(P.targets) \ (InHand(P) \cup Answered(P))
  <2>1. P.queue # <<>> => Head(P.queue) \in Of(P.queue)
    BY AnswerMoves
  <2> QED
    BY <1>2, <2>1
<1>6. Cardinality(InHand(Q)) <= Limit
  <2>1. Q.hand \in [Workers -> Servers \cup {None}]
    BY AnswerInv DEF Inv, Run
  <2> QED
    BY <2>1, FewInHand DEF InHand
<1>7. Of(Q.results) = Of(P.results) \cup {r}
  <2>1. r \in Result
    BY AnswerMoves DEF Result
  <2>2. P.results \in Seq(Result)
    BY DEF Inv, Run
  <2> HIDE DEF r
  <2> QED
    BY <1>1, <2>1, <2>2, AddingTo
<1>8. Settled(Q) = [t \in Answered(P) \cup {P.hand[w]} |->
                    [target |-> t, ok |-> TRUE] \in Of(Q.results)]
  BY <1>3 DEF Settled, Of
<1>9. Settled(Q) \in [DOMAIN Settled(P) \cup {P.hand[w]} -> BOOLEAN]
  BY <1>8 DEF Settled
<1>10. \A t \in DOMAIN Settled(P) : Settled(Q)[t] = Settled(P)[t]
  <2> SUFFICES ASSUME NEW t \in Answered(P) PROVE Settled(Q)[t] = Settled(P)[t]
    BY DEF Settled
  <2>1. t # P.hand[w]
    BY <1>2, <1>3
  <2>2. [target |-> t, ok |-> TRUE] # r
    BY <2>1
  <2>3. [target |-> t, ok |-> TRUE] \in Of(Q.results)
          <=> [target |-> t, ok |-> TRUE] \in Of(P.results)
    BY <1>7, <2>2
  <2> QED
    BY <1>8, <2>3 DEF Settled
<1>11. Report(P) = <<>> /\ Report(Q) = Report(P)
  BY <1>1 DEF Report
<1> HIDE DEF next, r
<1>12. {P.hand[w]} \in SUBSET InHand(P)
  BY <1>3
<1>13. next \in SUBSET (Of(P.targets) \ (InHand(P) \cup DOMAIN Settled(P)))
  BY <1>5 DEF Settled
<1>14. \E done \in SUBSET InHand(P), new \in SUBSET (Of(P.targets) \ (InHand(P) \cup DOMAIN Settled(P))) :
         /\ InHand(Q) = (InHand(P) \ done) \cup new
         /\ Cardinality(InHand(Q)) <= Limit
         /\ Settled(Q) \in [DOMAIN Settled(P) \cup done -> BOOLEAN]
         /\ \A t \in DOMAIN Settled(P) : Settled(Q)[t] = Settled(P)[t]
  BY <1>4, <1>6, <1>9, <1>10, <1>12, <1>13
<1> QED
  BY <1>1, <1>11, <1>14 DEF Advances

LEMMA ResolveResolves ==
  ASSUME NEW P, NEW Q, Inv(P),
         P.at = "running", P.hand = EmptyHands, Q = Resolved(P)
  PROVE  Resolves(P, Q)
<1>1. /\ P.at = "running" /\ Q.at = "resolved" /\ P.hand = EmptyHands
      /\ Q.targets = P.targets /\ Q.queue = P.queue /\ Q.hand = P.hand
  BY DEF Resolved
<1>2. /\ P.targets # <<>> /\ Of(P.targets) = Answered(P)
  BY AllAnswered
<1>3. /\ Q.results \in Seq(Result)
      /\ Len(Q.results) = Len(P.targets)
      /\ \A i \in 1..Len(P.targets) :
           Q.results[i] \in Of(P.results) /\ Q.results[i].target = P.targets[i]
      /\ Of(Q.results) = Of(P.results)
  BY SortedIs
<1>4. InHand(Q) = InHand(P)
  BY <1>1 DEF InHand
<1>5. Answered(Q) = Answered(P)
  <2>1. Answered(P) = {e.target : e \in Of(P.results)}
    BY DEF Answered, Of
  <2>2. Answered(Q) = {e.target : e \in Of(Q.results)}
    BY DEF Answered, Of
  <2> QED
    BY <1>3, <2>1, <2>2
<1>6. Settled(Q) = Settled(P)
  BY <1>3, <1>5 DEF Settled
<1>7. DOMAIN Settled(P) = Of(P.targets)
  BY <1>2 DEF Settled
<1>8. Q.results = [i \in 1..Len(P.targets) |->
                    [target |-> P.targets[i], ok |-> Settled(P)[P.targets[i]]]]
  <2>1. ASSUME NEW i \in 1..Len(P.targets)
        PROVE  Q.results[i] = [target |-> P.targets[i], ok |-> Settled(P)[P.targets[i]]]
    <3>1. Q.results[i] \in Result
      BY <1>3
    <3>2. P.targets[i] \in Answered(P)
      BY <1>2 DEF Of
    <3>3. Settled(P)[P.targets[i]] <=> [target |-> P.targets[i], ok |-> TRUE] \in Of(P.results)
      BY <3>2 DEF Settled
    <3>4. \A r \in Of(P.results) : r.target = P.targets[i] => r = Q.results[i]
      <4> SUFFICES ASSUME NEW r \in Of(P.results), r.target = P.targets[i]
                   PROVE  r = Q.results[i]
        OBVIOUS
      <4>1. PICK j \in 1..Len(P.results) :
              \A k \in 1..Len(P.results) : P.results[k].target = P.targets[i] => k = j
        BY AllAnswered
      <4>2. PICK k \in 1..Len(P.results) : r = P.results[k]
        BY DEF Of
      <4>3. PICK l \in 1..Len(P.results) : Q.results[i] = P.results[l]
        BY <1>3 DEF Of
      <4>4. k = j
        BY <4>1, <4>2
      <4>5. l = j
        BY <1>3, <4>1, <4>3
      <4> QED
        BY <4>2, <4>3, <4>4, <4>5
    <3>5. CASE Q.results[i].ok = TRUE
      <4>1. Q.results[i] = [target |-> P.targets[i], ok |-> TRUE]
        BY <1>3, <3>1, <3>5 DEF Result
      <4> QED
        BY <1>3, <3>3, <4>1 DEF Settled
    <3>6. CASE Q.results[i].ok = FALSE
      <4>1. Q.results[i] = [target |-> P.targets[i], ok |-> FALSE]
        BY <1>3, <3>1, <3>6 DEF Result
      <4>2. [target |-> P.targets[i], ok |-> TRUE] \notin Of(P.results)
        BY <3>4, <3>6
      <4>3. Settled(P)[P.targets[i]] = ([target |-> P.targets[i], ok |-> TRUE] \in Of(P.results))
        BY <3>2 DEF Settled
      <4>4. ([target |-> P.targets[i], ok |-> TRUE] \in Of(P.results)) = FALSE
        BY <4>2, SMT
      <4>5. Settled(P)[P.targets[i]] = FALSE
        BY <4>3, <4>4
      <4> QED
        BY <4>1, <4>5
    <3> QED
      BY <3>1, <3>5, <3>6 DEF Result
  <2>2. Q.results = [i \in 1..Len(P.targets) |-> Q.results[i]]
    BY <1>3
  <2> QED
    BY <2>1, <2>2
<1>9. Report(P) = <<>> /\ Report(Q) = Q.results
  BY <1>1 DEF Report
<1> QED
  BY <1>1, <1>2, <1>4, <1>6, <1>7, <1>8, <1>9 DEF Resolves

LEMMA ResumeFinishes ==
  ASSUME NEW P, NEW Q, Inv(P),
         P.at = "resolved", Q = NoRun
  PROVE  Finishes(P, Q)
<1>1. /\ P.at = "resolved" /\ Q.at = "idle" /\ Q.targets = <<>> /\ Q.results = <<>>
      /\ Q.hand = P.hand /\ P.hand = EmptyHands
      /\ P.targets # <<>> /\ Len(P.results) = Len(P.targets)
  BY DEF NoRun, Inv, AtRest
<1>2. P.results # <<>>
  BY <1>1 DEF Inv, Run
<1>3. Report(P) # <<>> /\ Report(Q) = <<>>
  BY <1>1, <1>2 DEF Report
<1>4. InHand(Q) = {} /\ Answered(Q) = {}
  BY <1>1 DEF InHand, EmptyHands, Answered
<1>5. DOMAIN Settled(Q) = {}
  BY <1>4 DEF Settled
<1> QED
  BY <1>1, <1>3, <1>4, <1>5 DEF Finishes

LEMMA SameCount == \A p, S : Bulk(p)!Cardinality(S) = Cardinality(S)
BY DEF Bulk!Cardinality, Cardinality

LEMMA VarsMapped ==
  ASSUME NEW p
  PROVE  /\ Bulk(p)!vars = <<runs[p].targets, InHand(runs[p]), Settled(runs[p]),
                             Report(runs[p])>>
         /\ Bulk(p)!vars' = <<runs'[p].targets, InHand(runs'[p]), Settled(runs'[p]),
                              Report(runs'[p])>>
BY DEF Bulk!vars, Settled, Report, Of, InHand, Answered

LEMMA ActionsMapped ==
  ASSUME NEW p
  PROVE  /\ Begins(runs[p], runs'[p]) => Bulk(p)!Begin
         /\ Advances(runs[p], runs'[p]) => Bulk(p)!Advance
         /\ Resolves(runs[p], runs'[p]) => Bulk(p)!Resolve
         /\ Finishes(runs[p], runs'[p]) => Bulk(p)!Finish
<1>1. Begins(runs[p], runs'[p]) => Bulk(p)!Begin
  BY SameCount, VarsMapped
  DEF Begins, Bulk!Begin, Bulk!vars, Bulk!Elements, Settled, Report, Of, InHand, Answered
<1>2. Advances(runs[p], runs'[p]) => Bulk(p)!Advance
  BY SameCount
  DEF Advances, Bulk!Advance, Bulk!Elements, Settled, Report, Of, InHand, Answered
<1>3. Resolves(runs[p], runs'[p]) => Bulk(p)!Resolve
  BY DEF Resolves, Bulk!Resolve, Bulk!Elements, Settled, Report, Of, InHand, Answered
<1>4. Finishes(runs[p], runs'[p]) => Bulk(p)!Finish
  BY DEF Finishes, Bulk!Finish, Bulk!NoOutcome, Settled, Report, Of, InHand, Answered
<1> QED
  BY <1>1, <1>2, <1>3, <1>4

LEMMA StartsThere ==
  ASSUME NEW p \in Runs, PoolInit
  PROVE  Bulk(p)!Init
<1>1. runs[p] = NoRun
  BY DEF PoolInit
<1>2. /\ runs[p].at = "idle" /\ runs[p].targets = <<>> /\ runs[p].hand = EmptyHands
      /\ runs[p].results = <<>>
  BY <1>1 DEF NoRun
<1>3. InHand(runs[p]) = {} /\ Answered(runs[p]) = {}
  BY <1>2 DEF InHand, EmptyHands, Answered
<1> QED
  BY <1>2, <1>3 DEF Bulk!Init, Bulk!NoOutcome

LEMMA StepsThere ==
  ASSUME NEW p \in Runs, RunsInv, [PoolNext]_runs
  PROVE  Bulk(p)!Next \/ UNCHANGED Bulk(p)!vars
<1>1. CASE UNCHANGED runs
  BY <1>1, VarsMapped
<1>2. ASSUME NEW q \in Runs, q # p, NEW Q, runs' = [runs EXCEPT ![q] = Q]
      PROVE  UNCHANGED Bulk(p)!vars
  <2>1. runs'[p] = runs[p]
    BY <1>2 DEF RunsInv
  <2> QED
    BY <2>1, VarsMapped
<1>3. ASSUME NEW q \in Runs,
             \/ \E ts \in Picks : applyBulk(q, ts)
             \/ \E w \in Workers, ok \in BOOLEAN : Answer(q, w, ok)
             \/ resolve(q)
             \/ Resume(q)
      PROVE  Bulk(p)!Next \/ UNCHANGED Bulk(p)!vars
  <2>1. CASE q # p
    BY <1>2, <1>3, <2>1 DEF applyBulk, Answer, resolve, Resume
  <2>2. CASE q = p
    <3>1. Inv(runs[p]) /\ runs \in [Runs -> Run]
      BY DEF RunsInv
    <3>2. ASSUME NEW ts \in Picks, applyBulk(p, ts) PROVE Bulk(p)!Next
      BY <3>1, <3>2, StartBegins, ActionsMapped DEF applyBulk, Bulk!Next
    <3>3. ASSUME NEW w \in Workers, NEW ok \in BOOLEAN, Answer(p, w, ok)
          PROVE  Bulk(p)!Next
      BY <3>1, <3>3, AnswerAdvances, ActionsMapped DEF Answer, Bulk!Next
    <3>4. CASE resolve(p)
      BY <3>1, <3>4, ResolveResolves, ActionsMapped DEF resolve, Bulk!Next
    <3>5. CASE Resume(p)
      BY <3>1, <3>5, ResumeFinishes, ActionsMapped DEF Resume, Bulk!Next
    <3> QED
      BY <1>3, <2>2, <3>2, <3>3, <3>4, <3>5
  <2> QED
    BY <2>1, <2>2
<1> QED
  BY <1>1, <1>3 DEF PoolNext

\* Each run keeps the safety part of what a bulk action promises, whatever the
\* others do: each target called once, no more than Limit of its calls at a
\* time, and a report with every outcome in the caller's order (the comment
\* above applyBulk, bulk.ts:94), for any number of runs, targets and workers.
THEOREM PoolImplements == PoolSpec => \A p \in Runs : Bulk(p)!Safety
<1> SUFFICES ASSUME NEW p \in Runs
             PROVE  PoolSpec => Bulk(p)!Safety
  OBVIOUS
<1>1. PoolInit => Bulk(p)!Init
  BY StartsThere
<1>2. RunsInv /\ [PoolNext]_runs => [Bulk(p)!Next]_(Bulk(p)!vars)
  BY StepsThere
<1> QED
  BY <1>1, <1>2, InvCorrect, PTL DEF PoolSpec, Bulk!Safety
=============================================================================
