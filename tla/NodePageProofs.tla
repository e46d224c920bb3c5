--------------------------- MODULE NodePageProofs ---------------------------
(***************************************************************************)
(* Theorems about NodePage, for any nodes and servers and any number of    *)
(* workers, of bulk actions at a time and of single actions in flight.     *)
(* The invariant PageInv is that of the runs and of what the page          *)
(* remembers; it makes every step of the page a step of BulkPool or none.  *)
(* What the forecast of a bulk action comes to needs more: ForecastFollows *)
(* follows the action call by call.                                        *)
(***************************************************************************)
EXTENDS NodePage, BulkPoolProofs

PageTypeOK ==
  /\ serving \in [Nodes -> SUBSET Servers]
  /\ snap \in [Nodes -> SUBSET Servers]
  /\ shown \in Nodes
  /\ picked \subseteq Servers
  /\ bulk \in AdminStates \cup {None}
  /\ bulkBusy \in BOOLEAN
  /\ bulkResults \subseteq Servers
  /\ job \in [Runs -> Job \cup {None}]
  /\ pending \in Action \cup {None}
  /\ holdMinutes \in Windows
  /\ actionBusy \in BOOLEAN
  /\ actionError \in BOOLEAN
  /\ calls \in [Slots -> Call \cup {None}]

\* There is something to do when the page asks whether to do it.
AsksForSomething == bulk # None => picked # {}

\* The page knows what each run is for.
JobRuns == \A p \in Runs : (job[p] # None) = (runs[p].at # "idle")

\* Run p was started by the page that is open.
Here(p) == job[p] # None /\ job[p].here

\* What keeps the bulk dialog busy, and what makes it so.
BulkWaits ==
  /\ bulkBusy => bulk # None /\ \E p \in Runs : Here(p)
  /\ \A p, q \in Runs : Here(p) /\ Here(q) => p = q
  /\ \A p \in Runs : Here(p) => bulkBusy

ActionWaits == actionBusy => \E i \in Slots : calls[i] # None /\ calls[i].here

Page ==
  /\ PageTypeOK
  /\ FailuresStayPicked
  /\ BulkWaits
  /\ ActionWaits
  /\ AsksForSomething
  /\ JobRuns

PageInv == RunsInv /\ Page

-----------------------------------------------------------------------------
(* The operators                                                           *)

\* A backend that is forecast is one of the node's.
LEMMA EmptiedOK ==
  ASSUME NEW n \in Nodes, NEW up, NEW ts, NEW state
  PROVE  Emptied(n, up, ts, state) \subseteq Backends
<1>1. Listed[n] \subseteq Servers
  BY ListedAssumption
<1> QED
  BY <1>1, ListedAssumption DEF Emptied

\* What else touches the node ends the forecast and nothing else.
LEMMA UncalmOK ==
  ASSUME NEW n, NEW ps, job \in [Runs -> Job \cup {None}]
  PROVE  /\ Uncalm(n, ps) \in [Runs -> Job \cup {None}]
         /\ \A p \in Runs :
              /\ (Uncalm(n, ps)[p] = None) = (job[p] = None)
              /\ job[p] # None => Uncalm(n, ps)[p].here = job[p].here
              /\ IF p \in ps /\ job[p] # None /\ job[p].node = n
                 THEN Uncalm(n, ps)[p].forecast = None
                 ELSE Uncalm(n, ps)[p] = job[p]
<1>1. ASSUME NEW p \in Runs, job[p] # None
      PROVE  /\ [job[p] EXCEPT !.forecast = None] \in Job
             /\ [job[p] EXCEPT !.forecast = None].here = job[p].here
             /\ [job[p] EXCEPT !.forecast = None].forecast = None
  <2>1. job[p] \in Job
    BY <1>1
  <2> QED
    BY <2>1 DEF Job
<1>2. \A p \in Runs :
        Uncalm(n, ps)[p] = IF p \in ps /\ job[p] # None /\ job[p].node = n
                           THEN [job[p] EXCEPT !.forecast = None] ELSE job[p]
  BY DEF Uncalm
<1>3. Uncalm(n, ps) \in [Runs -> Job \cup {None}]
  <2>1. \A p \in Runs :
          (IF p \in ps /\ job[p] # None /\ job[p].node = n
           THEN [job[p] EXCEPT !.forecast = None] ELSE job[p]) \in Job \cup {None}
    BY <1>1
  <2> QED
    BY <2>1 DEF Uncalm
<1> QED
  BY <1>1, <1>2, <1>3, NothingAssumption

\* After a call is sent the page is busy, with that call in flight.
LEMMA SendOK ==
  ASSUME PageTypeOK, NEW s \in Servers, NEW state \in AdminStates,
         NEW dialog \in BOOLEAN, Send(s, state, dialog)
  PROVE  /\ calls' \in [Slots -> Call \cup {None}]
         /\ actionBusy' \in BOOLEAN /\ actionError' \in BOOLEAN
         /\ \E i \in Slots : calls'[i] # None /\ calls'[i].here
<1> DEFINE call == [node |-> shown, here |-> TRUE, server |-> s, state |-> state,
                    dialog |-> dialog]
<1>1. PICK i \in Slots : /\ calls' = [calls EXCEPT ![i] = call]
                         /\ actionBusy' = TRUE /\ actionError' = FALSE
  BY DEF Send
<1>2. call \in Call /\ call.here
  BY DEF PageTypeOK, Call
<1>3. calls'[i] = call /\ calls' \in [Slots -> Call \cup {None}]
  BY <1>1, <1>2 DEF PageTypeOK
<1> QED
  BY <1>1, <1>2, <1>3, NothingAssumption

\* A call touches only the node it goes to, and only the server it names.
LEMMA LandOK ==
  ASSUME PageTypeOK, NEW n \in Nodes, NEW s \in Servers, NEW state,
         NEW outcome, Land(n, s, state, outcome)
  PROVE  /\ serving' \in [Nodes -> SUBSET Servers]
         /\ outcome = "refused" => serving' = serving
         /\ \A m \in Nodes : m # n => serving'[m] = serving[m]
         /\ outcome # "refused" =>
              serving'[n] = IF state = "ready" THEN serving[n] \cup {s}
                            ELSE serving[n] \ {s}
<1>1. CASE outcome = "refused"
  BY <1>1 DEF Land, PageTypeOK
<1>2. CASE outcome # "refused" /\ state = "ready"
  <2>1. serving' = [serving EXCEPT ![n] = @ \cup {s}]
    BY <1>2 DEF Land
  <2> QED
    BY <1>2, <2>1 DEF PageTypeOK
<1>3. CASE outcome # "refused" /\ state # "ready"
  <2>1. serving' = [serving EXCEPT ![n] = @ \ {s}]
    BY <1>3 DEF Land
  <2> QED
    BY <1>3, <2>1 DEF PageTypeOK
<1> QED
  BY <1>1, <1>2, <1>3

LEMMA FailedOK == ASSUME PageInv, NEW p \in Runs PROVE Failed(p) \subseteq Servers
<1>1. runs[p].results \in Seq(Result)
  BY DEF PageInv, RunsInv, Run
<1>2. \A i \in 1..Len(runs[p].results) : runs[p].results[i] \in Result
  BY <1>1
<1>3. \A rs \in Result : rs.target \in Servers
  BY DEF Result
<1> QED
  BY <1>2, <1>3 DEF Failed

\* Whatever the order, an action has the picked servers as its targets.
LEMMA OrdersArePicks ==
  ASSUME NEW S \in SUBSET Servers, S # {}, NEW ts \in Orders(S)
  PROVE  ts \in Picks /\ Of(ts) = S
<1> DEFINE n == Cardinality(S)
<1>1. IsFiniteSet(S) /\ n \in Nat /\ n <= Cardinality(Servers)
      /\ Cardinality(Servers) \in Nat
  BY ServersAssumption, FS_Subset, FS_CardinalityType
<1>2. n # 0
  BY <1>1, FS_EmptySet
<1>3. n \in 1..Cardinality(Servers)
  BY <1>1, <1>2
<1>4. ts \in [1..n -> S] /\ Once(ts)
  BY DEF Orders
<1>5. ts \in [1..n -> Servers]
  BY <1>4
<1>6. ts \in Picks
  BY <1>3, <1>4, <1>5 DEF Picks
<1>7. Len(ts) = n
  BY <1>1, <1>4
<1>8. IsFiniteSet(1..n) /\ Cardinality(1..n) = n
  BY <1>1, <1>2, FS_Interval
<1>9. ts \in Injection(1..n, S)
  BY <1>4, <1>7 DEF Once, Injection, IsInjective
<1>10. ts \in Surjection(1..n, S)
  BY <1>1, <1>8, <1>9, FS_Injection
<1>11. Of(ts) = S
  BY <1>4, <1>7, <1>10 DEF Of, Surjection
<1> QED
  BY <1>6, <1>11

-----------------------------------------------------------------------------
(* The page and its pool                                                   *)

LEMMA StartRuns ==
  ASSUME PageInv, runBulk
  PROVE  \E p \in Runs, ts \in Picks :
           /\ applyBulk(p, ts) /\ Of(ts) = picked
           /\ job' = [job EXCEPT ![p] =
                [node |-> shown, here |-> TRUE, state |-> bulk,
                 forecast |->
                   IF snap[shown] = serving[shown] /\ NothingOutTo(shown)
                   THEN [before |-> {b \in Backends : ActiveUp(serving[shown], b) # {}},
                         warned |-> Emptied(shown, snap[shown], picked, bulk)]
                   ELSE None]]
<1>1. picked \in SUBSET Servers /\ picked # {}
  BY DEF runBulk, PageInv, Page, PageTypeOK, AsksForSomething
<1> QED
  BY <1>1, OrdersArePicks DEF runBulk

LEMMA OperatorRuns ==
  ASSUME PageInv, Operator
  PROVE  [PoolNext]_runs
<1>1. CASE runBulk
  BY <1>1, StartRuns DEF PoolNext
<1>2. CASE ~runBulk
  <2>1. UNCHANGED runs
    BY <1>2 DEF Operator, togglePick, pickAll, ClearPicks, AskBulk, CancelBulk, CloseResults,
       ClickReady, ClickOut, ChooseWindow, CancelAction, ConfirmAction, Navigate, Reopen,
       jobVars
  <2> QED
    BY <2>1
<1> QED
  BY <1>1, <1>2

LEMMA StepRuns ==
  ASSUME PageInv, [Next]_vars
  PROVE  [PoolNext]_runs
<1>1. CASE Operator
  BY <1>1, OperatorRuns
<1>2. ASSUME NEW n \in Nodes, NEW s \in Servers, Change(n, s) PROVE UNCHANGED runs
  BY <1>2 DEF Change
<1>3. ASSUME NEW n \in Nodes, Poll(n) PROVE UNCHANGED runs
  BY <1>3 DEF Poll, jobVars
<1>4. ASSUME NEW p \in Runs, NEW w \in Workers, WorkerAnswers(p, w) PROVE PoolNext
  <2>1. PICK outcome \in Outcomes : BulkAnswer(p, w, outcome)
    BY <1>4 DEF WorkerAnswers
  <2>2. Answer(p, w, outcome = "ok") /\ (outcome = "ok") \in BOOLEAN
    BY <2>1 DEF BulkAnswer
  <2> QED
    BY <2>2 DEF PoolNext
<1>5. ASSUME NEW p \in Runs, BulkResolve(p) PROVE PoolNext
  BY <1>5 DEF BulkResolve, PoolNext
<1>6. ASSUME NEW p \in Runs, BulkResume(p) PROVE PoolNext
  BY <1>6 DEF BulkResume, PoolNext
<1>7. ASSUME NEW i \in Slots, CallSettles(i) PROVE UNCHANGED runs
  BY <1>7 DEF CallSettles, Settle
<1>8. ASSUME UNCHANGED vars PROVE UNCHANGED runs
  BY <1>8 DEF vars, jobVars
<1> QED
  BY <1>1, <1>2, <1>3, <1>4, <1>5, <1>6, <1>7, <1>8 DEF Next

-----------------------------------------------------------------------------
(* The page                                                                *)

LEMMA PageInit == ASSUME Init PROVE PageInv
<1>1. RunsInv
  BY NoRunInv DEF Init, PoolInit, RunsInv, Inv
<1>2. PageTypeOK
  BY WindowAssumption DEF Init, PageTypeOK
<1>3. JobRuns
  BY DEF Init, PoolInit, JobRuns, NoRun
<1> QED
  BY <1>1, <1>2, <1>3
  DEF Init, PageInv, Page, FailuresStayPicked, BulkWaits, Here, ActionWaits,
      AsksForSomething

\* The step neither starts a run nor ends one, nor takes one from its page.
KeepsJobs ==
  /\ job' \in [Runs -> Job \cup {None}]
  /\ \A p \in Runs : /\ (job'[p] = None) = (job[p] = None)
                     /\ job[p] # None => job'[p].here = job[p].here
                     /\ (runs'[p].at = "idle") = (runs[p].at = "idle")

LEMMA SameJobs == ASSUME PageInv, UNCHANGED <<job, runs>> PROVE KeepsJobs
BY DEF PageInv, Page, PageTypeOK, KeepsJobs

LEMMA JobsKept ==
  ASSUME PageInv, KeepsJobs, UNCHANGED <<bulk, bulkBusy>>
  PROVE  JobRuns' /\ BulkWaits'
<1>1. \A p \in Runs : Here(p)' = Here(p)
  BY DEF KeepsJobs, Here
<1>2. JobRuns'
  BY DEF PageInv, Page, JobRuns, KeepsJobs
<1>3. BulkWaits'
  BY <1>1 DEF PageInv, Page, BulkWaits
<1> QED
  BY <1>2, <1>3

\* The steps that change neither what is listed and picked, nor what the
\* page waits for.
LEMMA QuietStep ==
  ASSUME PageInv, KeepsJobs,
         serving' \in [Nodes -> SUBSET Servers],
         snap' \in [Nodes -> SUBSET Servers],
         shown' \in Nodes,
         pending' \in Action \cup {None},
         holdMinutes' \in Windows,
         actionError' \in BOOLEAN,
         UNCHANGED <<picked, bulk, bulkBusy, bulkResults, actionBusy, calls>>
  PROVE  Page'
<1>1. JobRuns' /\ BulkWaits'
  BY JobsKept
<1> QED
  BY <1>1 DEF PageInv, Page, PageTypeOK, FailuresStayPicked, ActionWaits,
              AsksForSomething, KeepsJobs

\* Picking, possible only while nothing is listed and nothing asked.
LEMMA PickStep ==
  ASSUME PageInv, Free, picked' \subseteq Servers,
         UNCHANGED <<serving, snap, shown, bulk, bulkBusy, bulkResults, job, runs,
                     pending, holdMinutes, actionBusy, actionError, calls>>
  PROVE  Page'
<1>1. JobRuns' /\ BulkWaits'
  BY SameJobs, JobsKept
<1> QED
  BY <1>1 DEF PageInv, Page, Free, PageTypeOK, FailuresStayPicked, ActionWaits,
              AsksForSomething

\* Sending a single action.
LEMMA SendStep ==
  ASSUME PageInv, NEW s \in Servers, NEW state \in AdminStates,
         NEW dialog \in BOOLEAN, Send(s, state, dialog),
         UNCHANGED <<serving, snap, shown, picked, bulk, bulkBusy, bulkResults, job,
                     runs, pending, holdMinutes>>
  PROVE  Page'
<1>1. PageTypeOK
  BY DEF PageInv, Page
<1>2. /\ calls' \in [Slots -> Call \cup {None}]
      /\ actionBusy' \in BOOLEAN /\ actionError' \in BOOLEAN
      /\ \E i \in Slots : calls'[i] # None /\ calls'[i].here
  BY <1>1, SendOK
<1>3. JobRuns' /\ BulkWaits'
  BY SameJobs, JobsKept
<1> QED
  BY <1>2, <1>3 DEF PageInv, Page, PageTypeOK, FailuresStayPicked, ActionWaits,
                    AsksForSomething

\* A confirmed action gets a run of its own, and no other run is of this page.
LEMMA RunBulkStep == ASSUME PageInv, runBulk PROVE Page'
<1> DEFINE forecast == [before |-> {b \in Backends : ActiveUp(serving[shown], b) # {}},
                        warned |-> Emptied(shown, snap[shown], picked, bulk)]
           known == IF snap[shown] = serving[shown] /\ NothingOutTo(shown)
                    THEN forecast ELSE None
           started == [node |-> shown, here |-> TRUE, state |-> bulk, forecast |-> known]
<1>1. shown \in Nodes /\ bulk \in AdminStates
  BY DEF runBulk, PageInv, Page, PageTypeOK
<1>2. Emptied(shown, snap[shown], picked, bulk) \subseteq Backends
  BY <1>1, EmptiedOK
<1>3. forecast \in [before : SUBSET Backends, warned : SUBSET Backends]
  BY <1>2
<1>4. started \in Job /\ started.here
  BY <1>1, <1>3 DEF Job
<1>5. PICK p \in Runs, ts \in Picks :
        applyBulk(p, ts) /\ job' = [job EXCEPT ![p] = started]
  BY StartRuns
<1> HIDE DEF started
<1>6. UNCHANGED <<serving, snap, shown, picked, bulk, bulkResults, pending, holdMinutes,
                  actionBusy, actionError, calls>>
  BY DEF runBulk, fleetVars, dialogVars, actionVars
<1>7. bulkBusy' = TRUE /\ bulk # None /\ ~bulkBusy
  BY DEF runBulk
<1>8. /\ job \in [Runs -> Job \cup {None}]
      /\ job' \in [Runs -> Job \cup {None}]
      /\ \A q \in Runs : job'[q] = IF q = p THEN started ELSE job[q]
  BY <1>4, <1>5 DEF PageInv, Page, PageTypeOK
<1>9. started # None
  BY <1>4, NothingAssumption
<1>10. \A q \in Runs : Here(q)' <=> q = p
  BY <1>4, <1>7, <1>8, <1>9 DEF Here, PageInv, Page, BulkWaits
<1>11. BulkWaits'
  BY <1>6, <1>7, <1>10 DEF BulkWaits
<1>12. JobRuns'
  <2>1. /\ runs' = [runs EXCEPT ![p] = Started(ts)] /\ Started(ts).at = "running"
        /\ runs \in [Runs -> Run]
    BY <1>5 DEF applyBulk, Started, PageInv, RunsInv
  <2>2. \A q \in Runs : runs'[q].at = IF q = p THEN "running" ELSE runs[q].at
    BY <2>1
  <2> QED
    BY <1>8, <1>9, <2>2 DEF JobRuns, PageInv, Page
<1> QED
  BY <1>6, <1>7, <1>8, <1>11, <1>12
  DEF PageInv, Page, PageTypeOK, FailuresStayPicked, ActionWaits, AsksForSomething

\* A page that is opened again remembers nothing, and the calls and runs of
\* the one before go on without it.
LEMMA ReopenStep == ASSUME PageInv, NEW n \in Nodes, Reopen(n) PROVE Page'
<1>1. ASSUME NEW p \in Runs, job[p] # None
      PROVE  /\ [job[p] EXCEPT !.here = FALSE, !.forecast = None] \in Job
             /\ ~[job[p] EXCEPT !.here = FALSE, !.forecast = None].here
  <2>1. job[p] \in Job
    BY <1>1 DEF PageInv, Page, PageTypeOK
  <2> QED
    BY <2>1 DEF Job
<1>2. job' = [p \in Runs |-> IF job[p] = None THEN None
                             ELSE [job[p] EXCEPT !.here = FALSE, !.forecast = None]]
  BY DEF Reopen
<1>3. job' \in [Runs -> Job \cup {None}]
  <2>1. \A p \in Runs :
          (IF job[p] = None THEN None
           ELSE [job[p] EXCEPT !.here = FALSE, !.forecast = None]) \in Job \cup {None}
    BY <1>1
  <2> QED
    BY <1>2, <2>1
<1>4. \A p \in Runs : (job'[p] = None) = (job[p] = None) /\ ~Here(p)'
  BY <1>1, <1>2, NothingAssumption DEF Here
<1>5. ASSUME NEW i \in Slots
      PROVE  (IF calls[i] = None THEN None ELSE [calls[i] EXCEPT !.here = FALSE])
               \in Call \cup {None}
  BY DEF PageInv, Page, PageTypeOK, Call
<1>6. calls' \in [Slots -> Call \cup {None}]
  BY <1>5 DEF Reopen
<1>7. /\ shown' = n /\ picked' = {} /\ bulk' = None /\ bulkBusy' = FALSE
      /\ bulkResults' = {} /\ pending' = None /\ actionBusy' = FALSE
      /\ actionError' = FALSE /\ holdMinutes' = NoWindow
      /\ UNCHANGED <<serving, snap, runs>>
  BY DEF Reopen, fleetVars
<1>8. BulkWaits'
  BY <1>4, <1>7 DEF BulkWaits
<1>9. JobRuns'
  BY <1>4, <1>7 DEF JobRuns, PageInv, Page
<1> QED
  BY <1>3, <1>6, <1>7, <1>8, <1>9, WindowAssumption
  DEF PageInv, Page, PageTypeOK, FailuresStayPicked, ActionWaits, AsksForSomething

\* Asking and cancelling, while no bulk action of this page runs.
LEMMA BulkIdleStep ==
  ASSUME PageInv, ~bulkBusy, bulk' \in AdminStates \cup {None},
         bulk' # None => picked # {},
         UNCHANGED <<serving, snap, shown, picked, bulkBusy, bulkResults, job, runs,
                     pending, holdMinutes, actionBusy, actionError, calls>>
  PROVE  Page'
<1>1. \A p \in Runs : Here(p)' = Here(p)
  BY DEF Here
<1>2. BulkWaits'
  BY <1>1 DEF PageInv, Page, BulkWaits
<1> QED
  BY <1>2 DEF PageInv, Page, PageTypeOK, FailuresStayPicked, ActionWaits,
              AsksForSomething, JobRuns

LEMMA OperatorStep == ASSUME PageInv, Operator PROVE Page'
<1> USE DEF fleetVars, bulkVars, jobVars, dialogVars, actionVars
<1>0. /\ Listed[shown] \subseteq Servers
      /\ picked \subseteq Servers
  BY ListedAssumption DEF PageInv, Page, PageTypeOK
<1>1. ASSUME NEW s \in Servers, togglePick(s) PROVE Page'
  <2>1. picked' \subseteq Servers
    BY <1>0, <1>1 DEF togglePick
  <2> QED
    BY <1>1, <2>1, PickStep DEF togglePick
<1>2. ASSUME NEW visible \in SUBSET Servers, pickAll(visible) PROVE Page'
  <2>1. picked' \subseteq Servers
    BY <1>0, <1>2 DEF pickAll
  <2> QED
    BY <1>2, <2>1, PickStep DEF pickAll
<1>3. ASSUME ClearPicks PROVE Page'
  BY <1>3, PickStep DEF ClearPicks
<1>4. ASSUME NEW state \in AdminStates, AskBulk(state) PROVE Page'
  <2>1. ~bulkBusy /\ ~bulkBusy'
    BY <1>4 DEF AskBulk, Free, PageInv, Page, BulkWaits
  <2> QED
    BY <1>4, <2>1, BulkIdleStep DEF AskBulk, Free, PageInv, Page, FailuresStayPicked
<1>5. ASSUME CancelBulk PROVE Page'
  <2>1. None \in AdminStates \cup {None}
    OBVIOUS
  <2> QED
    BY <1>5, <2>1, BulkIdleStep DEF CancelBulk, PageInv, Page, FailuresStayPicked
<1>6. ASSUME runBulk PROVE Page'
  BY <1>6, RunBulkStep
<1>7. ASSUME CloseResults PROVE Page'
  <2>1. JobRuns' /\ BulkWaits'
    BY <1>7, SameJobs, JobsKept DEF CloseResults
  <2> QED
    BY <1>7, <2>1 DEF CloseResults, PageInv, Page, PageTypeOK, FailuresStayPicked,
                      ActionWaits, AsksForSomething
<1>8. ASSUME NEW s \in Servers, ClickReady(s) PROVE Page'
  <2>1. "ready" \in AdminStates /\ FALSE \in BOOLEAN
    BY DEF AdminStates
  <2> QED
    BY <1>8, <2>1, SendStep DEF ClickReady
<1>9. ASSUME NEW s \in Servers, NEW state \in OutStates, ClickOut(s, state) PROVE Page'
  <2>1. pending' \in Action
    BY <1>9 DEF ClickOut, Action
  <2> QED
    BY <1>9, <2>1, QuietStep, SameJobs DEF ClickOut, PageInv, Page, PageTypeOK
<1>10. ASSUME NEW window \in Windows, ChooseWindow(window) PROVE Page'
  BY <1>10, QuietStep, SameJobs DEF ChooseWindow, PageInv, Page, PageTypeOK
<1>11. ASSUME CancelAction PROVE Page'
  BY <1>11, QuietStep, SameJobs DEF CancelAction, PageInv, Page, PageTypeOK
<1>12. ASSUME ConfirmAction PROVE Page'
  <2>1. pending \in Action
    BY <1>12 DEF ConfirmAction, PageInv, Page, PageTypeOK
  <2>2. pending.server \in Servers /\ pending.state \in AdminStates /\ TRUE \in BOOLEAN
    BY <2>1 DEF Action, AdminStates
  <2>3. Send(pending.server, pending.state, TRUE)
    BY <1>12 DEF ConfirmAction
  <2>4. UNCHANGED <<serving, snap, shown, picked, bulk, bulkBusy, bulkResults, job, runs,
                    pending, holdMinutes>>
    BY <1>12 DEF ConfirmAction
  <2> QED
    BY <2>2, <2>3, <2>4, SendStep
<1>13. ASSUME NEW n \in Nodes, Navigate(n) PROVE Page'
  BY <1>13, QuietStep, SameJobs DEF Navigate, PageInv, Page, PageTypeOK
<1>14. ASSUME NEW n \in Nodes, Reopen(n) PROVE Page'
  BY <1>14, ReopenStep
<1> QED
  BY <1>1, <1>2, <1>3, <1>4, <1>5, <1>6, <1>7, <1>8, <1>9, <1>10, <1>11, <1>12, <1>13,
     <1>14 DEF Operator

\* The end of a bulk action clears the dialog of the page that started it
\* and lists and picks the same failures; the end of one whose page was left
\* changes nothing on the page that is open.
LEMMA ResumeStep == ASSUME PageInv, NEW p \in Runs, BulkResume(p) PROVE Page'
<1>1. /\ Failed(p) \subseteq Servers
      /\ UNCHANGED <<serving, snap, shown, pending, holdMinutes, actionBusy, actionError,
                     calls>>
  BY FailedOK DEF BulkResume, fleetVars, dialogVars, actionVars
<1>2. /\ job' \in [Runs -> Job \cup {None}]
      /\ \A q \in Runs : job'[q] = IF q = p THEN None ELSE job[q]
  BY DEF BulkResume, PageInv, Page, PageTypeOK
<1>3. JobRuns'
  <2>1. /\ runs' = [runs EXCEPT ![p] = NoRun] /\ NoRun.at = "idle"
        /\ runs \in [Runs -> Run]
    BY DEF BulkResume, Resume, NoRun, PageInv, RunsInv
  <2>2. \A q \in Runs : runs'[q].at = IF q = p THEN "idle" ELSE runs[q].at
    BY <2>1
  <2> QED
    BY <1>2, <2>2 DEF JobRuns, PageInv, Page
<1>4. job[p] # None
  BY DEF BulkResume, Resume, PageInv, Page, JobRuns
<1>5. \A q \in Runs : Here(q)' = (q # p /\ Here(q))
  BY <1>2 DEF Here
<1>6. CASE job[p].here
  <2>1. /\ bulkBusy' = FALSE /\ bulk' = None /\ bulkResults' = Failed(p)
        /\ picked' = Failed(p)
    BY <1>6 DEF BulkResume
  <2>2. \A q \in Runs : ~Here(q)'
    BY <1>4, <1>5, <1>6 DEF Here, PageInv, Page, BulkWaits
  <2>3. BulkWaits'
    BY <2>1, <2>2 DEF BulkWaits
  <2> QED
    BY <1>1, <1>2, <1>3, <2>1, <2>3 DEF PageInv, Page, PageTypeOK, FailuresStayPicked,
                                        ActionWaits, AsksForSomething
<1>7. CASE ~job[p].here
  <2>1. UNCHANGED <<bulk, bulkBusy, bulkResults, picked>>
    BY <1>7 DEF BulkResume, bulkVars
  <2>2. \A q \in Runs : Here(q)' = Here(q)
    BY <1>5, <1>7 DEF Here
  <2>3. BulkWaits'
    BY <2>1, <2>2 DEF PageInv, Page, BulkWaits
  <2> QED
    BY <1>1, <1>2, <1>3, <2>1, <2>3 DEF PageInv, Page, PageTypeOK, FailuresStayPicked,
                                        ActionWaits, AsksForSomething
<1> QED
  BY <1>6, <1>7

\* What else touches node n, as far as the runs are concerned.
LEMMA UncalmKeeps ==
  ASSUME PageInv, NEW n, NEW ps, job' = job \/ job' = Uncalm(n, ps),
         \A p \in Runs : (runs'[p].at = "idle") = (runs[p].at = "idle")
  PROVE  KeepsJobs
<1>1. job \in [Runs -> Job \cup {None}]
  BY DEF PageInv, Page, PageTypeOK
<1> QED
  BY <1>1, UncalmOK DEF KeepsJobs

\* An answer the page hears ends its wait; one that comes after the page was
\* left is not the one a page waits for.
LEMMA SettleStep ==
  ASSUME PageInv, NEW i \in Slots, NEW outcome \in Outcomes, Settle(i, outcome)
  PROVE  Page'
<1>1. calls[i] \in Call /\ calls' = [calls EXCEPT ![i] = None]
  BY DEF Settle, PageInv, Page, PageTypeOK
<1>2. calls' \in [Slots -> Call \cup {None}]
  BY <1>1 DEF PageInv, Page, PageTypeOK
<1>3. serving' \in [Nodes -> SUBSET Servers]
  <2>1. calls[i].node \in Nodes /\ calls[i].server \in Servers
    BY <1>1 DEF Call
  <2> QED
    BY <2>1, LandOK DEF Settle, PageInv, Page
<1>4. UNCHANGED <<snap, shown, picked, bulk, bulkBusy, bulkResults, runs, holdMinutes>>
  BY DEF Settle, bulkVars
<1>5. KeepsJobs
  <2>1. job' = job \/ job' = Uncalm(calls[i].node, Runs)
    BY DEF Settle
  <2> QED
    BY <1>4, <2>1, UncalmKeeps
<1>6. JobRuns' /\ BulkWaits'
  BY <1>4, <1>5, JobsKept
<1>7. CASE calls[i].here
  <2>1. /\ actionBusy' = FALSE /\ pending' \in {None, pending}
        /\ actionError' \in BOOLEAN
    BY <1>7 DEF Settle
  <2> QED
    BY <1>2, <1>3, <1>4, <1>5, <1>6, <2>1
    DEF PageInv, Page, PageTypeOK, FailuresStayPicked, ActionWaits, AsksForSomething,
        KeepsJobs
<1>8. CASE ~calls[i].here
  <2>1. UNCHANGED <<actionBusy, pending, actionError>>
    BY <1>8 DEF Settle
  <2>2. ASSUME actionBusy' PROVE \E j \in Slots : calls'[j] # None /\ calls'[j].here
    <3>1. PICK j \in Slots : calls[j] # None /\ calls[j].here
      BY <2>1, <2>2 DEF PageInv, Page, ActionWaits
    <3>2. j # i
      BY <1>8, <3>1
    <3>3. calls'[j] = calls[j]
      BY <1>1, <3>2 DEF PageInv, Page, PageTypeOK
    <3> QED
      BY <3>1, <3>3
  <2> QED
    BY <1>2, <1>3, <1>4, <1>5, <1>6, <2>1, <2>2
    DEF PageInv, Page, PageTypeOK, FailuresStayPicked, ActionWaits, AsksForSomething,
        KeepsJobs
<1> QED
  BY <1>7, <1>8

LEMMA ChangeStep ==
  ASSUME PageInv, NEW n \in Nodes, NEW s \in Servers, Change(n, s)
  PROVE  Page'
<1>1. KeepsJobs
  BY UncalmKeeps DEF Change
<1>2. serving' \in [Nodes -> SUBSET Servers]
  BY DEF Change, PageInv, Page, PageTypeOK
<1> QED
  BY <1>1, <1>2, QuietStep
  DEF Change, bulkVars, dialogVars, actionVars, PageInv, Page, PageTypeOK

LEMMA AnswerStep ==
  ASSUME PageInv, NEW p \in Runs, NEW w \in Workers, NEW outcome \in Outcomes,
         BulkAnswer(p, w, outcome)
  PROVE  Page'
<1>1. job[p] \in Job /\ Awaited(p, w) \in Servers
  BY NoneAssumption DEF BulkAnswer, Awaited, PageInv, RunsInv, Run, Page, PageTypeOK
<1>2. serving' \in [Nodes -> SUBSET Servers]
  <2>1. job[p].node \in Nodes
    BY <1>1 DEF Job
  <2> QED
    BY <1>1, <2>1, LandOK DEF BulkAnswer, PageInv, Page
<1>3. \A q \in Runs : runs'[q].at = runs[q].at
  <2>1. /\ runs' = [runs EXCEPT ![p] = Recorded(runs[p], w, outcome = "ok")]
        /\ runs \in [Runs -> Run]
    BY DEF BulkAnswer, Answer, PageInv, RunsInv
  <2>2. Recorded(runs[p], w, outcome = "ok").at = runs[p].at
    BY DEF Recorded
  <2> QED
    BY <2>1, <2>2
<1>4. KeepsJobs
  <2>1. job' = job \/ job' = Uncalm(job[p].node, Runs \ {p})
    BY DEF BulkAnswer
  <2> QED
    BY <1>3, <2>1, UncalmKeeps
<1> QED
  BY <1>2, <1>4, QuietStep
  DEF BulkAnswer, bulkVars, dialogVars, actionVars, PageInv, Page, PageTypeOK

LEMMA PageNext == ASSUME PageInv, [Next]_vars PROVE PageInv'
<1> USE DEF fleetVars, bulkVars, jobVars, dialogVars, actionVars
<1>1. RunsInv'
  BY StepRuns, NextInv DEF PageInv
<1>2. CASE Operator
  BY <1>1, <1>2, OperatorStep DEF PageInv
<1>3. ASSUME NEW n \in Nodes, NEW s \in Servers, Change(n, s) PROVE Page'
  BY <1>3, ChangeStep
<1>4. ASSUME NEW n \in Nodes, Poll(n) PROVE Page'
  <2>1. snap' \in [Nodes -> SUBSET Servers]
    BY <1>4 DEF Poll, PageInv, Page, PageTypeOK
  <2> QED
    BY <1>4, <2>1, QuietStep, SameJobs DEF Poll, PageInv, Page, PageTypeOK
<1>5. ASSUME NEW p \in Runs, NEW w \in Workers, WorkerAnswers(p, w) PROVE Page'
  BY <1>5, AnswerStep DEF WorkerAnswers
<1>6. ASSUME NEW p \in Runs, BulkResolve(p) PROVE Page'
  <2>1. /\ runs' = [runs EXCEPT ![p] = Resolved(runs[p])] /\ runs[p].at = "running"
        /\ Resolved(runs[p]).at = "resolved" /\ runs \in [Runs -> Run]
    BY <1>6 DEF BulkResolve, resolve, Resolved, PageInv, RunsInv
  <2>2. \A q \in Runs : (runs'[q].at = "idle") = (runs[q].at = "idle")
    BY <2>1
  <2>3. KeepsJobs
    BY <1>6, <2>2 DEF BulkResolve, KeepsJobs, PageInv, Page, PageTypeOK
  <2> QED
    BY <1>6, <2>3, QuietStep DEF BulkResolve, PageInv, Page, PageTypeOK
<1>7. ASSUME NEW p \in Runs, BulkResume(p) PROVE Page'
  BY <1>7, ResumeStep
<1>8. ASSUME NEW i \in Slots, CallSettles(i) PROVE Page'
  BY <1>8, SettleStep DEF CallSettles
<1>9. ASSUME UNCHANGED vars PROVE Page'
  BY <1>9, QuietStep, SameJobs DEF vars, PageInv, Page, PageTypeOK
<1> QED
  BY <1>1, <1>2, <1>3, <1>4, <1>5, <1>6, <1>7, <1>8, <1>9 DEF Next, PageInv

-----------------------------------------------------------------------------
(* The forecast                                                            *)

\* Nothing is up that the node does not report.
OnlyListed == \A n \in Nodes : serving[n] \subseteq Listed[n]

\* While the forecast of run p stands: a backend it did not name has a server
\* up that the action does not take, or is only given servers; one it named
\* has all its active servers among the targets, and those answered for are
\* out.
ForecastFollows(p) ==
  job[p] # None /\ job[p].forecast # None =>
    LET up == serving[job[p].node]
        before == job[p].forecast.before
        warned == job[p].forecast.warned
    IN /\ warned \subseteq before
       /\ \A b \in before \ warned :
            \E s \in ActiveUp(up, b) :
              job[p].state = "ready" \/ s \notin Of(runs[p].targets)
       /\ \A b \in warned :
            job[p].state # "ready" /\ ActiveUp(up, b) \subseteq Of(runs[p].targets)
       /\ job[p].state # "ready" =>
            \A r \in Of(runs[p].results) : r.ok => r.target \notin up

Forecast == OnlyListed /\ \A p \in Runs : ForecastFollows(p)

LEMMA ForecastInit == ASSUME Init PROVE Forecast
BY DEF Init, Forecast, OnlyListed, ForecastFollows

\* A step that leaves a run and the node it is on alone, or ends the forecast.
LEMMA AsideStep ==
  ASSUME NEW p \in Runs, ForecastFollows(p),
         \/ job'[p] = None
         \/ job'[p].forecast = None
         \/ /\ job'[p] = job[p]
            /\ job[p] # None => serving'[job[p].node] = serving[job[p].node]
            /\ runs'[p].targets = runs[p].targets
            /\ Of(runs'[p].results) = Of(runs[p].results)
  PROVE  ForecastFollows(p)'
<1>1. CASE job'[p] = None \/ job'[p].forecast = None
  BY <1>1 DEF ForecastFollows
<1>2. CASE /\ job'[p] = job[p]
           /\ job[p] # None => serving'[job[p].node] = serving[job[p].node]
           /\ runs'[p].targets = runs[p].targets
           /\ Of(runs'[p].results) = Of(runs[p].results)
  <2>1. ASSUME job[p] # None, job[p].forecast # None PROVE ForecastFollows(p)'
    <3>1. /\ serving'[job'[p].node] = serving[job[p].node]
          /\ Of(runs'[p].targets) = Of(runs[p].targets)
          /\ Of(runs'[p].results) = Of(runs[p].results)
          /\ job'[p] = job[p]
      BY <1>2, <2>1
    <3> QED
      BY <2>1, <3>1 DEF ForecastFollows, ActiveUp
  <2>2. ASSUME job[p] = None \/ job[p].forecast = None PROVE ForecastFollows(p)'
    BY <1>2, <2>2 DEF ForecastFollows
  <2> QED
    BY <2>1, <2>2
<1> QED
  BY <1>1, <1>2

\* A step that leaves all of them alone.
LEMMA AllAsideStep ==
  ASSUME Forecast, UNCHANGED <<serving, job, runs>>
  PROVE  Forecast'
<1>1. \A p \in Runs : ForecastFollows(p)'
  BY AsideStep DEF Forecast
<1> QED
  BY <1>1 DEF Forecast, OnlyListed

\* What the page shows before the action is what it starts from.
LEMMA ForecastStarts == ASSUME PageInv, Forecast, runBulk PROVE Forecast'
<1> DEFINE up == serving[shown]
           before == {b \in Backends : ActiveUp(up, b) # {}}
           warned == Emptied(shown, snap[shown], picked, bulk)
           started == [node |-> shown, here |-> TRUE, state |-> bulk,
                       forecast |->
                         IF snap[shown] = up /\ NothingOutTo(shown)
                         THEN [before |-> before, warned |-> warned]
                         ELSE None]
<1>1. PICK p \in Runs, ts \in Picks :
        applyBulk(p, ts) /\ Of(ts) = picked /\ job' = [job EXCEPT ![p] = started]
  BY StartRuns
<1>2. /\ runs' = [runs EXCEPT ![p] = Started(ts)] /\ serving' = serving
      /\ Started(ts).targets = ts /\ Started(ts).results = <<>>
      /\ runs \in [Runs -> Run] /\ job \in [Runs -> Job \cup {None}]
  BY <1>1 DEF runBulk, applyBulk, Started, fleetVars, PageInv, RunsInv, Page, PageTypeOK
<1>3. OnlyListed'
  BY <1>2 DEF Forecast, OnlyListed
<1>4. Of(runs'[p].results) = {} /\ Of(runs'[p].targets) = picked
  BY <1>1, <1>2 DEF Of
<1>5. ASSUME NEW q \in Runs, q # p PROVE ForecastFollows(q)'
  <2>1. job'[q] = job[q] /\ runs'[q] = runs[q]
    BY <1>1, <1>2, <1>5
  <2> QED
    BY <1>2, <2>1, AsideStep DEF Forecast
<1>6. ForecastFollows(p)'
  <2>0. job'[p] = started
    BY <1>1, <1>2
  <2> SUFFICES ASSUME snap[shown] = up /\ NothingOutTo(shown)
               PROVE  ForecastFollows(p)'
    BY <2>0 DEF ForecastFollows
  <2>1. /\ job'[p].node = shown /\ job'[p].state = bulk
        /\ job'[p].forecast = [before |-> before, warned |-> warned]
    BY <2>0
  <2>2. /\ shown \in Nodes /\ up \subseteq Listed[shown] /\ up \subseteq Servers
    BY DEF PageInv, Page, PageTypeOK, Forecast, OnlyListed
  <2>3. \A b \in Backends : \A s \in ActiveUp(up, b) :
          s \in Listed[shown] /\ BackendOf[s] = b
    BY <2>2 DEF ActiveUp
  <2>4. \A b \in warned : /\ b \in Backends /\ ActiveUp(up, b) # {}
                          /\ bulk # "ready" /\ ActiveUp(up, b) \subseteq picked
    <3> SUFFICES ASSUME NEW b \in warned
                 PROVE  /\ b \in Backends /\ ActiveUp(up, b) # {}
                        /\ bulk # "ready" /\ ActiveUp(up, b) \subseteq picked
      OBVIOUS
    <3> DEFINE picks == {s \in picked : BackendOf[s] = b}
    <3>0. b \in Emptied(shown, up, picked, bulk)
      OBVIOUS
    <3>1. b \in Backends /\ ActiveUp(up, b) # {}
      <4>1. b \in Backends
        BY <2>2, <3>0, EmptiedOK
      <4>2. ActiveUp(up, b) # {}
        BY <3>0 DEF Emptied
      <4> QED
        BY <4>1, <4>2
    <3>2. (IF bulk = "ready" THEN ActiveUp(up \cup (picks \cap Listed[shown]), b)
           ELSE ActiveUp(up, b) \ picks) = {}
      BY <3>0 DEF Emptied
    <3>3. bulk # "ready"
      <4>1. ActiveUp(up, b) \subseteq ActiveUp(up \cup (picks \cap Listed[shown]), b)
        BY DEF ActiveUp
      <4> QED
        BY <3>1, <3>2, <4>1
    <3> QED
      BY <3>1, <3>2, <3>3
  <2>5. \A b \in before \ warned :
          \E s \in ActiveUp(up, b) : bulk = "ready" \/ s \notin picked
    <3> SUFFICES ASSUME NEW b \in before \ warned, bulk # "ready"
                 PROVE  \E s \in ActiveUp(up, b) : s \notin picked
      OBVIOUS
    <3> DEFINE picks == {s \in picked : BackendOf[s] = b}
    <3>1. PICK r \in ActiveUp(up, b) : TRUE
      OBVIOUS
    <3>2. b \in {BackendOf[s] : s \in Listed[shown]}
      BY <2>3, <3>1
    <3>3. picks = {} \/ ActiveUp(up, b) \ picks # {}
      BY <3>2 DEF Emptied
    <3>4. \E s \in ActiveUp(up, b) : s \notin picks
      BY <3>1, <3>3
    <3> QED
      BY <2>3, <3>4
  <2>6. warned \subseteq before
    BY <2>4
  <2> HIDE DEF before, warned, started
  <2>7. job'[p].forecast.before = before /\ job'[p].forecast.warned = warned
    BY <2>1
  <2> QED
    BY <1>2, <1>4, <2>1, <2>4, <2>5, <2>6, <2>7 DEF ForecastFollows
<1> QED
  BY <1>3, <1>5, <1>6 DEF Forecast

\* What else touches node n: either a run is on another node or its forecast
\* is over.
LEMMA ForecastEnds ==
  ASSUME PageInv, Forecast, NEW n \in Nodes, NEW ps, NEW p \in ps \cap Runs,
         runs'[p].targets = runs[p].targets,
         Of(runs'[p].results) = Of(runs[p].results),
         \/ job' = Uncalm(n, ps) /\ \A m \in Nodes : m # n => serving'[m] = serving[m]
         \/ job' = job /\ serving' = serving
  PROVE  ForecastFollows(p)'
<1>1. job \in [Runs -> Job \cup {None}] /\ ForecastFollows(p)
  BY DEF PageInv, Page, PageTypeOK, Forecast
<1>2. CASE job' = job /\ serving' = serving
  BY <1>1, <1>2, AsideStep
<1>3. CASE job' = Uncalm(n, ps) /\ \A m \in Nodes : m # n => serving'[m] = serving[m]
  <2>1. CASE job[p] # None /\ job[p].node = n
    BY <1>1, <1>3, <2>1, UncalmOK, AsideStep
  <2>2. CASE ~(job[p] # None /\ job[p].node = n)
    <3>1. job'[p] = job[p]
      BY <1>1, <1>3, <2>2, UncalmOK
    <3>2. job[p] # None => job[p].node \in Nodes
      BY <1>1 DEF Job
    <3> QED
      BY <1>1, <1>3, <2>2, <3>1, <3>2, AsideStep
  <2> QED
    BY <2>1, <2>2
<1> QED
  BY <1>2, <1>3

\* A call of an action gives a backend a server, or takes a target out of it.
LEMMA ForecastAnswers ==
  ASSUME PageInv, Forecast, NEW p \in Runs, NEW w \in Workers,
         NEW outcome \in Outcomes, BulkAnswer(p, w, outcome)
  PROVE  Forecast'
<1> DEFINE P == runs[p]
           Q == runs'[p]
           t == runs[p].hand[w]
           n == job[p].node
           ok == (outcome = "ok")
<1>1. /\ job[p] \in Job /\ n \in Nodes /\ t \in Servers
      /\ P \in Run /\ Inv(P) /\ ok \in BOOLEAN
  BY NoneAssumption
  DEF BulkAnswer, Awaited, PageInv, RunsInv, Run, Page, PageTypeOK, Job
<1>2. /\ P.at = "running" /\ P.hand[w] # None /\ Q = Recorded(P, w, ok)
      /\ \A q \in Runs : q # p => runs'[q] = runs[q]
  BY DEF BulkAnswer, Answer, PageInv, RunsInv
<1>3. t \in Of(P.targets)
  <2>1. t \in InHand(P)
    BY <1>2 DEF InHand
  <2> QED
    BY <1>1, <1>2, <2>1, OnceRunning DEF Inv
<1>4. /\ Q.targets = P.targets
      /\ Of(Q.results) = Of(P.results) \cup {[target |-> t, ok |-> ok]}
  <2>1. /\ P.results \in Seq(Result)
        /\ [target |-> t, ok |-> ok] \in Result
    BY <1>1 DEF Run, Result
  <2>2. /\ Q.targets = P.targets
        /\ Q.results = Append(P.results, [target |-> t, ok |-> ok])
    BY <1>2 DEF Recorded
  <2> QED
    BY <2>1, <2>2, AddingTo
<1>5. /\ Land(n, t, job[p].state, outcome) /\ outcome \in Possible(n, t)
      /\ job' = IF outcome = "refused" THEN job ELSE Uncalm(n, Runs \ {p})
  BY DEF BulkAnswer, Awaited
<1>6. /\ serving' \in [Nodes -> SUBSET Servers]
      /\ outcome = "refused" => serving' = serving
      /\ \A m \in Nodes : m # n => serving'[m] = serving[m]
      /\ outcome # "refused" =>
           serving'[n] = IF job[p].state = "ready" THEN serving[n] \cup {t}
                         ELSE serving[n] \ {t}
  BY <1>1, <1>5, LandOK DEF PageInv, Page
<1>7. outcome # "refused" => t \in Listed[n]
  BY <1>5 DEF Possible
<1>8. job'[p] = job[p]
  BY <1>5, UncalmOK DEF PageInv, Page, PageTypeOK
<1> HIDE DEF t, n, P, Q, ok
<1>9. OnlyListed'
  <2> SUFFICES ASSUME NEW m \in Nodes PROVE serving'[m] \subseteq Listed[m]
    BY DEF OnlyListed
  <2>1. serving[m] \subseteq Listed[m]
    BY DEF Forecast, OnlyListed
  <2> QED
    BY <1>6, <1>7, <2>1
<1>10. ASSUME NEW q \in Runs, q # p PROVE ForecastFollows(q)'
  <2>1. /\ runs'[q].targets = runs[q].targets
        /\ Of(runs'[q].results) = Of(runs[q].results)
        /\ q \in (Runs \ {p}) \cap Runs
    BY <1>2, <1>10
  <2> QED
    BY <1>1, <1>5, <1>6, <2>1, ForecastEnds
<1>11. ForecastFollows(p)'
  <2> DEFINE before == job[p].forecast.before
             warned == job[p].forecast.warned
             up == serving[n]
             upAfter == serving'[n]
  <2> SUFFICES ASSUME job[p] # None, job[p].forecast # None
               PROVE  /\ warned \subseteq before
                      /\ \A b \in before \ warned :
                           \E s \in ActiveUp(upAfter, b) :
                             job[p].state = "ready" \/ s \notin Of(P.targets)
                      /\ \A b \in warned :
                           /\ job[p].state # "ready"
                           /\ ActiveUp(upAfter, b) \subseteq Of(P.targets)
                      /\ job[p].state # "ready" =>
                           \A r \in Of(Q.results) : r.ok => r.target \notin upAfter
    BY <1>4, <1>8 DEF ForecastFollows, n, P, Q
  <2>1. /\ warned \subseteq before
        /\ \A b \in before \ warned :
             \E s \in ActiveUp(up, b) : job[p].state = "ready" \/ s \notin Of(P.targets)
        /\ \A b \in warned :
             job[p].state # "ready" /\ ActiveUp(up, b) \subseteq Of(P.targets)
        /\ job[p].state # "ready" =>
             \A r \in Of(P.results) : r.ok => r.target \notin up
    BY DEF Forecast, ForecastFollows, n, P
  <2>2. /\ job[p].state = "ready" => up \subseteq upAfter
        /\ job[p].state # "ready" => upAfter \subseteq up /\ up \ {t} \subseteq upAfter
        /\ job[p].state # "ready" /\ ok => t \notin upAfter
    BY <1>6 DEF ok
  <2> HIDE DEF before, warned, up, upAfter
  <2>3. ASSUME NEW b \in before \ warned
        PROVE  \E s \in ActiveUp(upAfter, b) :
                 job[p].state = "ready" \/ s \notin Of(P.targets)
    BY <1>3, <2>1, <2>2, <2>3 DEF ActiveUp
  <2>4. ASSUME NEW b \in warned
        PROVE  job[p].state # "ready" /\ ActiveUp(upAfter, b) \subseteq Of(P.targets)
    BY <2>1, <2>2, <2>4 DEF ActiveUp
  <2>5. ASSUME job[p].state # "ready", NEW r \in Of(Q.results), r.ok
        PROVE  r.target \notin upAfter
    <3>1. CASE r \in Of(P.results)
      BY <2>1, <2>2, <2>5, <3>1
    <3>2. CASE r = [target |-> t, ok |-> ok]
      BY <2>2, <2>5, <3>2
    <3> QED
      BY <1>4, <2>5, <3>1, <3>2
  <2> QED
    BY <2>1, <2>3, <2>4, <2>5
<1> QED
  BY <1>9, <1>10, <1>11 DEF Forecast

LEMMA ForecastNext == ASSUME PageInv, Forecast, [Next]_vars PROVE Forecast'
<1>1. CASE Operator
  <2>1. CASE runBulk
    BY <2>1, ForecastStarts
  <2>2. ASSUME NEW n \in Nodes, Reopen(n) PROVE Forecast'
    <3>1. OnlyListed'
      BY <2>2 DEF Reopen, fleetVars, Forecast, OnlyListed
    <3>2. ASSUME NEW p \in Runs PROVE job'[p] = None \/ job'[p].forecast = None
      <4>1. CASE job[p] = None
        BY <2>2, <4>1 DEF Reopen
      <4>2. CASE job[p] # None
        <5>1. job[p] \in Job
          BY <4>2 DEF PageInv, Page, PageTypeOK
        <5>2. job'[p] = [job[p] EXCEPT !.here = FALSE, !.forecast = None]
          BY <2>2, <4>2 DEF Reopen
        <5> QED
          BY <5>1, <5>2 DEF Job
      <4> QED
        BY <4>1, <4>2
    <3> QED
      BY <3>1, <3>2, AsideStep DEF Forecast
  <2>3. CASE ~runBulk /\ \A n \in Nodes : ~Reopen(n)
    <3>1. UNCHANGED <<serving, job, runs>>
      BY <1>1, <2>3 DEF Operator, togglePick, pickAll, ClearPicks, AskBulk, CancelBulk,
         CloseResults, ClickReady, ClickOut, ChooseWindow, CancelAction, ConfirmAction,
         Navigate, fleetVars, jobVars
    <3> QED
      BY <3>1, AllAsideStep
  <2> QED
    BY <2>1, <2>2, <2>3
<1>2. ASSUME NEW n \in Nodes, NEW s \in Servers, Change(n, s) PROVE Forecast'
  <2>1. /\ s \in Listed[n]
        /\ serving' = [serving EXCEPT ![n] = IF s \in @ THEN @ \ {s} ELSE @ \cup {s}]
        /\ job' = Uncalm(n, Runs) /\ runs' = runs
    BY <1>2 DEF Change
  <2>2. \A m \in Nodes : serving[m] \subseteq Listed[m]
    BY DEF Forecast, OnlyListed
  <2>3. OnlyListed' /\ \A m \in Nodes : m # n => serving'[m] = serving[m]
    BY <2>1, <2>2 DEF OnlyListed, PageInv, Page, PageTypeOK
  <2> QED
    BY <2>1, <2>3, ForecastEnds DEF Forecast
<1>3. ASSUME NEW n \in Nodes, Poll(n) PROVE Forecast'
  BY <1>3, AllAsideStep DEF Poll, jobVars
<1>4. ASSUME NEW p \in Runs, NEW w \in Workers, WorkerAnswers(p, w) PROVE Forecast'
  BY <1>4, ForecastAnswers DEF WorkerAnswers
<1>5. ASSUME NEW p \in Runs, BulkResolve(p) PROVE Forecast'
  <2>1. /\ UNCHANGED <<serving, job>>
        /\ runs' = [runs EXCEPT ![p] = Resolved(runs[p])]
        /\ runs[p].at = "running" /\ runs[p].hand = EmptyHands
        /\ runs \in [Runs -> Run] /\ Inv(runs[p])
    BY <1>5 DEF BulkResolve, resolve, fleetVars, PageInv, RunsInv
  <2>2. /\ runs'[p] = Resolved(runs[p])
        /\ Resolved(runs[p]).targets = runs[p].targets
    BY <2>1 DEF Resolved
  <2>3. Of(runs'[p].results) = Of(runs[p].results)
    BY <2>1, <2>2, SortedIs
  <2>4. \A q \in Runs : /\ runs'[q].targets = runs[q].targets
                        /\ Of(runs'[q].results) = Of(runs[q].results)
    BY <2>1, <2>2, <2>3
  <2>5. \A q \in Runs : ForecastFollows(q)'
    BY <2>1, <2>4, AsideStep DEF Forecast
  <2> QED
    BY <2>1, <2>5 DEF Forecast, OnlyListed
<1>6. ASSUME NEW p \in Runs, BulkResume(p) PROVE Forecast'
  <2>1. /\ serving' = serving
        /\ \A q \in Runs : job'[q] = IF q = p THEN None ELSE job[q]
        /\ \A q \in Runs : q # p => runs'[q] = runs[q]
    BY <1>6 DEF BulkResume, Resume, fleetVars, PageInv, RunsInv, Page, PageTypeOK
  <2>2. \A q \in Runs : ForecastFollows(q)'
    BY <2>1, AsideStep DEF Forecast
  <2> QED
    BY <2>1, <2>2 DEF Forecast, OnlyListed
<1>7. ASSUME NEW i \in Slots, NEW outcome \in Outcomes, Settle(i, outcome) PROVE Forecast'
  <2> DEFINE n == calls[i].node
             s == calls[i].server
  <2>1. calls[i] \in Call /\ n \in Nodes /\ s \in Servers
    BY <1>7 DEF Settle, PageInv, Page, PageTypeOK, Call
  <2>2. /\ outcome \in Possible(n, s)
        /\ Land(n, s, calls[i].state, outcome)
        /\ job' = IF outcome = "refused" THEN job ELSE Uncalm(n, Runs)
        /\ runs' = runs
    BY <1>7 DEF Settle
  <2>3. /\ serving' \in [Nodes -> SUBSET Servers]
        /\ outcome = "refused" => serving' = serving
        /\ \A m \in Nodes : m # n => serving'[m] = serving[m]
        /\ outcome # "refused" =>
             serving'[n] = IF calls[i].state = "ready" THEN serving[n] \cup {s}
                           ELSE serving[n] \ {s}
    BY <2>1, <2>2, LandOK DEF PageInv, Page
  <2>4. outcome # "refused" => s \in Listed[n]
    BY <2>2 DEF Possible
  <2>5. \A m \in Nodes : serving[m] \subseteq Listed[m]
    BY DEF Forecast, OnlyListed
  <2> HIDE DEF n, s
  <2>6. OnlyListed'
    BY <2>3, <2>4, <2>5 DEF OnlyListed
  <2>7. \A p \in Runs : ForecastFollows(p)'
    BY <2>1, <2>2, <2>3, ForecastEnds
  <2> QED
    BY <2>6, <2>7 DEF Forecast
<1>8. CASE UNCHANGED vars
  BY <1>8, AllAsideStep DEF vars, fleetVars, jobVars
<1> QED
  BY <1>1, <1>2, <1>3, <1>4, <1>5, <1>6, <1>7, <1>8 DEF Next, CallSettles

\* A forecast that is followed holds: what it did not name keeps a server,
\* and once every target has its answer, what it named has none.
LEMMA ForecastHolds == ASSUME PageInv, Forecast PROVE ImpactHolds
<1> SUFFICES ASSUME NEW p \in Runs, job[p] # None, job[p].forecast # None
             PROVE  LET gone == {b \in job[p].forecast.before :
                                   ActiveUp(serving[job[p].node], b) = {}}
                    IN /\ gone \subseteq job[p].forecast.warned
                       /\ runs[p].at = "resolved" /\ Failed(p) = {} =>
                            gone = job[p].forecast.warned
  BY DEF ImpactHolds
<1> DEFINE up == serving[job[p].node]
           before == job[p].forecast.before
           warned == job[p].forecast.warned
           R == runs[p]
<1>1. /\ warned \subseteq before
      /\ \A b \in before \ warned :
           \E s \in ActiveUp(up, b) : job[p].state = "ready" \/ s \notin Of(R.targets)
      /\ \A b \in warned :
           job[p].state # "ready" /\ ActiveUp(up, b) \subseteq Of(R.targets)
      /\ job[p].state # "ready" =>
           \A r \in Of(R.results) : r.ok => r.target \notin up
  BY DEF Forecast, ForecastFollows
<1>2. ASSUME R.at = "resolved", Failed(p) = {}, NEW b \in warned
      PROVE  ActiveUp(up, b) = {}
  <2> SUFFICES ASSUME NEW s \in ActiveUp(up, b) PROVE FALSE
    OBVIOUS
  <2>1. PICK i \in 1..Len(R.targets) : s = R.targets[i]
    BY <1>1, <1>2 DEF Of
  <2>2. i \in 1..Len(R.results) /\ R.results[i].target = s
    BY <1>2, <2>1 DEF PageInv, RunsInv, Inv, AtRest
  <2>3. R.results[i].ok
    BY <1>2, <2>2 DEF Failed
  <2>4. s \notin up
    BY <1>1, <1>2, <2>2, <2>3 DEF Of
  <2> QED
    BY <2>4 DEF ActiveUp
<1> HIDE DEF up, before, warned, R
<1>3. {b \in before : ActiveUp(up, b) = {}} \subseteq warned
  BY <1>1
<1> QED
  BY <1>1, <1>2, <1>3 DEF up, before, warned, R

-----------------------------------------------------------------------------
(* The theorems                                                            *)

\* The invariant of the page, its calls and its pool: what it lists is what
\* it has picked, what makes it busy is in flight, and it asks only about
\* something (runBulk and applyAction in NodeDetail.tsx).
THEOREM PageCorrect == Spec => []PageInv
BY PageInit, PageNext, PTL DEF Spec

\* The variables of the page and of its pool keep their types.
THEOREM PageTypeCorrect == Spec => []TypeOK
<1>1. PageInv => TypeOK
  BY DEF PageInv, RunsInv, Page, PageTypeOK, TypeOK, PoolTypeOK
<1> QED
  BY <1>1, PageCorrect, PTL

\* While the failures of a bulk action are listed, exactly those are picked,
\* whatever is clicked, answered or navigated to in between
\* (NodeDetail.tsx:370).
THEOREM FailuresStayPickedCorrect == Spec => []FailuresStayPicked
BY PageCorrect, PTL DEF PageInv, Page

\* A dialog that refuses to close waits for a call of the page it is on that
\* is still in flight, and a page runs one bulk action of its own at a time,
\* however many of pages that were left are still out (ConfirmDialog.tsx,
\* NodeDetail.tsx:130 and 173).
THEOREM BusyDialogsWaitCorrect == Spec => []BusyDialogsWait
<1>1. PageInv => BusyDialogsWait
  BY DEF PageInv, Page, BusyDialogsWait, BulkWaits, Here, ActionWaits
<1> QED
  BY <1>1, PageCorrect, PTL

\* The pages drive their runs as BulkPool allows, whatever else happens on
\* them and however many are left with their runs still out: no run starts
\* without a target, and each is answered by its own workers and reported to
\* its own page, once (runBulk, NodeDetail.tsx:130).
THEOREM RunsThePoolCorrect == Spec => RunsThePool
<1>1. Init => PoolInit
  BY DEF Init
<1>2. PageInv /\ [Next]_vars => [PoolNext]_runs
  BY StepRuns
<1> QED
  BY <1>1, <1>2, PageCorrect, PTL DEF Spec, RunsThePool, PoolSpec

\* Every bulk action that pages start keeps the promise of a bulk action,
\* those that run beside another one included: at most Limit calls of its own
\* at a time.
THEOREM PageImplements == Spec => \A p \in Runs : Bulk(p)!Safety
BY RunsThePoolCorrect, PoolImplements DEF RunsThePool

\* The impact shown before a bulk action is what the action does: it takes
\* the last active server only from the backends it named, and from all of
\* them if every call works, unless something else touches the node
\* (assessImpact, bulk.ts:47), for any backends, servers and picks.
THEOREM ImpactHoldsCorrect == Spec => []ImpactHolds
<1>1. Init => Forecast
  BY ForecastInit
<1>2. PageInv /\ Forecast /\ [Next]_vars => Forecast'
  BY ForecastNext
<1>3. PageInv /\ Forecast => ImpactHolds
  BY ForecastHolds
<1> QED
  BY <1>1, <1>2, <1>3, PageCorrect, PTL DEF Spec
=============================================================================
