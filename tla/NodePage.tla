------------------------------ MODULE NodePage ------------------------------
(***************************************************************************)
(* The page of one node (NodeDetail.tsx): servers are picked row by row or *)
(* backend by backend, a bulk action (BulkPool) changes all of them, and   *)
(* single actions are sent from a row or from a dialog (ConfirmDialog.tsx, *)
(* Modal.tsx).  The page shows the snapshots the fleet provider hands it,  *)
(* which are behind the load balancer until its next poll.                 *)
(*                                                                         *)
(* The router keeps the page mounted when it goes from one node to         *)
(* another, so everything the page remembers goes with it; leaving to      *)
(* another screen unmounts the page while its calls are still out, and a   *)
(* page opened again starts its actions beside those.                      *)
(***************************************************************************)
EXTENDS BulkPool

CONSTANTS
  Nodes,       \* the nodes whose page can be shown
  Backends,    \* the backends
  BackendOf,   \* key -> backend
  Backup,      \* the keys of backup servers
  Listed,      \* node -> the keys it reports
  ReadOnly,    \* the nodes without the set_admin_state capability
  OutStates,   \* the states that take a server out: drain and maint
  Windows,     \* the auto-revert windows on offer (WINDOWS)
  NoWindow,    \* "Until I put it back"
  MaxCalls,    \* bound on single actions in flight
  MaxOut       \* bound on single and bulk actions in flight

ASSUME RunsAssumption == Runs \subseteq Nat
ASSUME ReadyAssumption == "ready" \notin OutStates
ASSUME ServersAssumption == IsFiniteSet(Servers)
ASSUME ListedAssumption ==
  /\ BackendOf \in [Servers -> Backends]
  /\ Listed \in [Nodes -> SUBSET Servers]
ASSUME WindowAssumption == NoWindow \in Windows

VARIABLES
  serving,      \* node -> the servers that are up
  snap,         \* node -> those that were up in the snapshot on the page
  shown,        \* useParams().nodeId
  picked,       \* the picked keys
  bulk,         \* the bulk change being confirmed
  bulkBusy,
  bulkResults,  \* its failures, which is all of the results the page lists
  job,          \* what each applyBulk that is running was started for
  pending,      \* the single action being confirmed
  holdMinutes,  \* the window its dialog shows
  actionBusy,
  actionError,  \* whether there is an error for the dialog to show
  calls         \* the single actions in flight

fleetVars == <<serving, snap>>
bulkVars == <<bulk, bulkBusy, bulkResults>>
jobVars == <<job, runs>>
dialogVars == <<pending, holdMinutes>>
actionVars == <<actionBusy, actionError, calls>>
vars == <<fleetVars, shown, picked, bulkVars, jobVars, dialogVars, actionVars>>

AdminStates == {"ready"} \cup OutStates
Slots == 1..MaxCalls
Outcomes == {"ok", "refused", "lost"}

\* here: the page that sent it is still mounted.
\* forecast: history for ImpactHolds, kept as long as nothing else touches
\* the node: the backends that had an active server up, and those named.
Job == [node : Nodes, here : BOOLEAN, state : AdminStates,
        forecast : [before : SUBSET Backends, warned : SUBSET Backends] \cup {None}]
Action == [server : Servers, state : OutStates]
Call == [node : Nodes, here : BOOLEAN, server : Servers, state : AdminStates,
         dialog : BOOLEAN]

ASSUME NothingAssumption == None \notin Job /\ None \notin Call

TypeOK ==
  /\ PoolTypeOK
  /\ serving \in [Nodes -> SUBSET Servers]
  /\ snap \in [Nodes -> SUBSET Servers]
  /\ shown \in Nodes
  /\ picked \subseteq Servers
  /\ bulk \in AdminStates \cup {None}
  /\ bulkBusy \in BOOLEAN
  /\ bulkResults \subseteq Servers
  /\ job \in [Runs -> Job \cup {None}]
  /\ pending \in Action \cup {None}
  /\ holdMinutes \in Windows
  /\ actionBusy \in BOOLEAN
  /\ actionError \in BOOLEAN
  /\ calls \in [Slots -> Call \cup {None}]

Init ==
  /\ PoolInit
  /\ serving \in [Nodes -> SUBSET Servers]
  /\ \A n \in Nodes : serving[n] \subseteq Listed[n]
  /\ snap = serving
  /\ shown \in Nodes
  /\ picked = {}
  /\ bulk = None /\ bulkBusy = FALSE /\ bulkResults = {}
  /\ job = [p \in Runs |-> None]
  /\ pending = None /\ holdMinutes = NoWindow
  /\ actionBusy = FALSE /\ actionError = FALSE
  /\ calls = [i \in Slots |-> None]

-----------------------------------------------------------------------------
(* The load balancer, and the snapshot the page shows of it                *)

\* What a call can come to: it works, it is refused, or it works and the
\* answer is lost.  A read-only node refuses, and so does one that does not
\* have the server.
Possible(n, s) ==
  IF n \notin ReadOnly /\ s \in Listed[n] THEN Outcomes ELSE {"refused"}

Land(n, s, state, outcome) ==
  serving' = IF outcome = "refused" THEN serving
             ELSE [serving EXCEPT ![n] = IF state = "ready" THEN @ \cup {s} ELSE @ \ {s}]

\* Something else touched node n, on which the bulk actions in ps may run.
Uncalm(n, ps) ==
  [p \in Runs |-> IF p \in ps /\ job[p] # None /\ job[p].node = n
                  THEN [job[p] EXCEPT !.forecast = None] ELSE job[p]]

\* A health check takes a server out or brings it back.
Change(n, s) ==
  /\ s \in Listed[n]
  /\ serving' = [serving EXCEPT ![n] = IF s \in @ THEN @ \ {s} ELSE @ \cup {s}]
  /\ job' = Uncalm(n, Runs)
  /\ UNCHANGED <<snap, shown, picked, bulkVars, runs, dialogVars, actionVars>>

Poll(n) ==
  /\ snap[n] # serving[n]
  /\ snap' = [snap EXCEPT ![n] = serving[n]]
  /\ UNCHANGED <<serving, shown, picked, bulkVars, jobVars, dialogVars,
                 actionVars>>

-----------------------------------------------------------------------------
(* Picking                                                                 *)

\* An open dialog makes the page behind it inert.
Free == bulk = None /\ pending = None /\ bulkResults = {}

CanAct == shown \notin ReadOnly
Rows == Listed[shown]

togglePick(s) ==
  /\ Free /\ CanAct /\ s \in Rows
  /\ picked' = IF s \in picked THEN picked \ {s} ELSE picked \cup {s}
  /\ UNCHANGED <<fleetVars, shown, bulkVars, jobVars, dialogVars, actionVars>>

\* The box of a backend's header acts on the rows the filter shows: it takes
\* them out when all of them are picked.
pickAll(visible) ==
  /\ Free /\ CanAct
  /\ visible # {} /\ visible \subseteq Rows
  /\ \A r, s \in visible : BackendOf[r] = BackendOf[s]
  /\ picked' = IF visible \subseteq picked THEN picked \ visible ELSE picked \cup visible
  /\ UNCHANGED <<fleetVars, shown, bulkVars, jobVars, dialogVars, actionVars>>

ClearPicks ==
  /\ Free /\ picked # {}
  /\ picked' = {}
  /\ UNCHANGED <<fleetVars, shown, bulkVars, jobVars, dialogVars, actionVars>>

-----------------------------------------------------------------------------
(* A bulk action: confirm, run, report                                     *)

ActiveUp(up, b) == {s \in up \ Backup : BackendOf[s] = b}

\* A mutant: a backup that is up counts as capacity that is left.
MutEmptied(n, up, targets_, state) ==
  {b \in {BackendOf[s] : s \in Listed[n]} :
     /\ state # "ready"
     /\ {s \in targets_ : BackendOf[s] = b} # {}
     /\ ActiveUp(up, b) # {}
     /\ {s \in up \ targets_ : BackendOf[s] = b} = {}}

\* assessImpact: the backends of the page that a change leaves with no
\* active server up.
Emptied(n, up, targets_, state) ==
  {b \in {BackendOf[s] : s \in Listed[n]} :
     LET picks == {s \in targets_ : BackendOf[s] = b}
         after == IF state = "ready" THEN ActiveUp(up \cup (picks \cap Listed[n]), b)
                  ELSE ActiveUp(up, b) \ picks
     IN picks # {} /\ ActiveUp(up, b) # {} /\ after = {}}

\* A mutant: the buttons are there when nothing is picked.
MutAskBulk(state) ==
  /\ Free /\ CanAct
  /\ bulk' = state
  /\ UNCHANGED <<fleetVars, shown, picked, bulkBusy, bulkResults, jobVars,
                 dialogVars, actionVars>>

AskBulk(state) ==
  /\ Free /\ CanAct /\ picked # {}
  /\ bulk' = state
  /\ UNCHANGED <<fleetVars, shown, picked, bulkBusy, bulkResults, jobVars,
                 dialogVars, actionVars>>

CancelBulk ==
  /\ bulk # None /\ ~bulkBusy
  /\ bulk' = None
  /\ UNCHANGED <<fleetVars, shown, picked, bulkBusy, bulkResults, jobVars,
                 dialogVars, actionVars>>

\* Less than MaxOut actions are in flight.
MoreMayGoOut ==
  Cardinality({i \in Slots : calls[i] # None})
    + Cardinality({p \in Runs : job[p] # None}) < MaxOut

NothingOutTo(n) ==
  /\ \A i \in Slots : calls[i] # None => calls[i].node # n
  /\ \A p \in Runs : job[p] # None => job[p].node # n

\* The picks, in the order they came to be picked, which nothing depends on.
Orders(S) == {ts \in [1..Cardinality(S) -> S] : Once(ts)}

\* A page opened again starts a run of its own beside those of the pages
\* before it.
runBulk ==
  /\ bulk # None /\ ~bulkBusy
  /\ MoreMayGoOut
  /\ bulkBusy' = TRUE
  /\ \E p \in Runs :
       /\ \A q \in Runs : q < p => job[q] # None
       /\ \E ts \in Orders(picked) : applyBulk(p, ts)
       /\ job' = [job EXCEPT ![p] =
            [node |-> shown, here |-> TRUE, state |-> bulk,
             forecast |->
               IF snap[shown] = serving[shown] /\ NothingOutTo(shown)
               THEN [before |-> {b \in Backends : ActiveUp(serving[shown], b) # {}},
                     warned |-> Emptied(shown, snap[shown], picked, bulk)]
               ELSE None]]
  /\ UNCHANGED <<fleetVars, shown, picked, bulk, bulkResults, dialogVars,
                 actionVars>>

\* The target that worker w of run p awaits the call of.
Awaited(p, w) == runs[p].hand[w]

BulkAnswer(p, w, outcome) ==
  /\ job[p] # None /\ Awaited(p, w) # None
  /\ outcome \in Possible(job[p].node, Awaited(p, w))
  /\ Land(job[p].node, Awaited(p, w), job[p].state, outcome)
  /\ Answer(p, w, outcome = "ok")
  /\ job' = IF outcome = "refused" THEN job ELSE Uncalm(job[p].node, Runs \ {p})
  /\ UNCHANGED <<snap, shown, picked, bulkVars, dialogVars, actionVars>>

BulkResolve(p) ==
  /\ resolve(p)
  /\ UNCHANGED <<fleetVars, shown, picked, bulkVars, job, dialogVars,
                 actionVars>>

\* A mutant: the failures are kept as results, not as targets.
MutFailed(p) ==
  LET results == runs[p].results IN
  {results[i] : i \in {j \in 1..Len(results) : ~results[j].ok}}

Failed(p) ==
  LET results == runs[p].results IN
  {results[i].target : i \in {j \in 1..Len(results) : ~results[j].ok}}

\* A mutant: the picks are dropped with the action.
MutBulkResume(p) ==
  /\ Resume(p)
  /\ job' = [job EXCEPT ![p] = None]
  /\ IF job[p].here
     THEN /\ bulkBusy' = FALSE
          /\ bulk' = None
          /\ bulkResults' = Failed(p)
          /\ picked' = {}
     ELSE UNCHANGED <<bulkVars, picked>>
  /\ UNCHANGED <<fleetVars, shown, dialogVars, actionVars>>

\* The rest of runBulk.  A page that was left meanwhile hears nothing.
BulkResume(p) ==
  /\ Resume(p)
  /\ job' = [job EXCEPT ![p] = None]
  /\ IF job[p].here
     THEN /\ bulkBusy' = FALSE
          /\ bulk' = None
          /\ bulkResults' = Failed(p)
          /\ picked' = Failed(p)
     ELSE UNCHANGED <<bulkVars, picked>>
  /\ UNCHANGED <<fleetVars, shown, dialogVars, actionVars>>

CloseResults ==
  /\ bulkResults # {}
  /\ bulkResults' = {}
  /\ UNCHANGED <<fleetVars, shown, picked, bulk, bulkBusy, jobVars, dialogVars,
                 actionVars>>

-----------------------------------------------------------------------------
(* Single actions: from a row (ready), or through the dialog               *)

\* The first part of applyAction.
Send(s, state, dialog) ==
  \E i \in Slots :
    /\ MoreMayGoOut
    /\ calls[i] = None
    /\ \A j \in Slots : j < i => calls[j] # None
    /\ calls' = [calls EXCEPT ![i] =
         [node |-> shown, here |-> TRUE, server |-> s, state |-> state,
          dialog |-> dialog]]
    /\ actionBusy' = TRUE
    /\ actionError' = FALSE

\* The ready button of a row that is not up; actionBusy does not disable it.
ClickReady(s) ==
  /\ Free /\ CanAct /\ s \in Rows \ snap[shown]
  /\ Send(s, "ready", FALSE)
  /\ UNCHANGED <<fleetVars, shown, picked, bulkVars, jobVars, dialogVars>>

\* The drain and maint buttons open the dialog.
ClickOut(s, state) ==
  /\ Free /\ CanAct /\ s \in Rows
  /\ pending' = [server |-> s, state |-> state]
  /\ UNCHANGED <<fleetVars, shown, picked, bulkVars, jobVars, holdMinutes,
                 actionVars>>

ChooseWindow(window) ==
  /\ pending # None
  /\ window # holdMinutes
  /\ holdMinutes' = window
  /\ UNCHANGED <<fleetVars, shown, picked, bulkVars, jobVars, pending,
                 actionVars>>

CancelAction ==
  /\ pending # None /\ ~actionBusy
  /\ pending' = None
  /\ actionError' = FALSE
  /\ UNCHANGED <<fleetVars, shown, picked, bulkVars, jobVars, holdMinutes,
                 actionBusy, calls>>

ConfirmAction ==
  /\ pending # None /\ ~actionBusy
  /\ Send(pending.server, pending.state, TRUE)
  /\ UNCHANGED <<fleetVars, shown, picked, bulkVars, jobVars, dialogVars>>

\* A mutant: only an answer ends the wait, an error does not.
MutSettle(i, outcome) ==
  /\ calls[i] # None
  /\ outcome \in Possible(calls[i].node, calls[i].server)
  /\ Land(calls[i].node, calls[i].server, calls[i].state, outcome)
  /\ job' = IF outcome = "refused" THEN job ELSE Uncalm(calls[i].node, Runs)
  /\ calls' = [calls EXCEPT ![i] = None]
  /\ IF calls[i].here
     THEN /\ actionBusy' = (actionBusy /\ outcome # "ok")
          /\ pending' = IF outcome = "ok" THEN None ELSE pending
          /\ actionError' = (actionError \/ (outcome # "ok" /\ calls[i].dialog))
     ELSE UNCHANGED <<actionBusy, pending, actionError>>
  /\ UNCHANGED <<snap, shown, picked, bulkVars, runs, holdMinutes>>

\* The rest of applyAction.  What it does to the dialog and to the busy flag
\* it does to whichever dialog is open by then.
Settle(i, outcome) ==
  /\ calls[i] # None
  /\ outcome \in Possible(calls[i].node, calls[i].server)
  /\ Land(calls[i].node, calls[i].server, calls[i].state, outcome)
  /\ job' = IF outcome = "refused" THEN job ELSE Uncalm(calls[i].node, Runs)
  /\ calls' = [calls EXCEPT ![i] = None]
  /\ IF calls[i].here
     THEN /\ actionBusy' = FALSE
          /\ pending' = IF outcome = "ok" THEN None ELSE pending
          /\ actionError' = (actionError \/ (outcome # "ok" /\ calls[i].dialog))
     ELSE UNCHANGED <<actionBusy, pending, actionError>>
  /\ UNCHANGED <<snap, shown, picked, bulkVars, runs, holdMinutes>>

-----------------------------------------------------------------------------
(* The route                                                               *)

\* From /nodes/a to /nodes/b, by the search box or the browser's history.
Navigate(n) ==
  /\ n # shown
  /\ shown' = n
  /\ UNCHANGED <<fleetVars, picked, bulkVars, jobVars, dialogVars, actionVars>>

\* To another screen and back, as long as there is a run left for the page
\* that is opened.
Reopen(n) ==
  /\ \E p \in Runs : job[p] = None
  /\ shown' = n
  /\ picked' = {}
  /\ bulk' = None /\ bulkBusy' = FALSE /\ bulkResults' = {}
  /\ pending' = None /\ holdMinutes' = NoWindow
  /\ actionBusy' = FALSE /\ actionError' = FALSE
  /\ job' = [p \in Runs |-> IF job[p] = None THEN None
                           ELSE [job[p] EXCEPT !.here = FALSE, !.forecast = None]]
  /\ calls' = [i \in Slots |-> IF calls[i] = None THEN None
                               ELSE [calls[i] EXCEPT !.here = FALSE]]
  /\ UNCHANGED <<fleetVars, runs>>

Operator ==
  \/ \E s \in Servers : togglePick(s)
  \/ \E visible \in SUBSET Servers : pickAll(visible)
  \/ ClearPicks
  \/ \E state \in AdminStates : AskBulk(state)
  \/ CancelBulk
  \/ runBulk
  \/ CloseResults
  \/ \E s \in Servers : ClickReady(s)
  \/ \E s \in Servers, state \in OutStates : ClickOut(s, state)
  \/ \E window \in Windows : ChooseWindow(window)
  \/ CancelAction
  \/ ConfirmAction
  \/ \E n \in Nodes : Navigate(n)
  \/ \E n \in Nodes : Reopen(n)

WorkerAnswers(p, w) == \E outcome \in Outcomes : BulkAnswer(p, w, outcome)
CallSettles(i) == \E outcome \in Outcomes : Settle(i, outcome)

Next ==
  \/ Operator
  \/ \E n \in Nodes, s \in Servers : Change(n, s)
  \/ \E n \in Nodes : Poll(n)
  \/ \E p \in Runs, w \in Workers : WorkerAnswers(p, w)
  \/ \E p \in Runs : BulkResolve(p)
  \/ \E p \in Runs : BulkResume(p)
  \/ \E i \in Slots : CallSettles(i)

Spec == Init /\ [][Next]_vars

-----------------------------------------------------------------------------
(* Properties                                                              *)

\* The pages drive their runs as BulkPool allows, so what BulkPool shows holds
\* of each: every run has a target, and whatever page is left, opened again or
\* starts another run meanwhile, nobody but its own workers takes its targets
\* and nobody but its own page takes its report, once.
RunsThePool == PoolSpec

\* The impact shown before a bulk action is what the action does: while
\* nothing else touches the node, it takes the last active server only from
\* backends it named, and from all of those if every call works.
ImpactHolds ==
  \A p \in Runs :
    job[p] # None /\ job[p].forecast # None =>
      LET gone == {b \in job[p].forecast.before :
                     ActiveUp(serving[job[p].node], b) = {}}
      IN /\ gone \subseteq job[p].forecast.warned
         /\ runs[p].at = "resolved" /\ Failed(p) = {} => gone = job[p].forecast.warned

\* "Failures stay selected so you can retry them" (NodeDetail.tsx:370): while
\* the failures of a bulk action are listed, exactly those are picked.
FailuresStayPicked == bulkResults # {} => picked = bulkResults

\* A dialog that refuses to close has a call of this page in flight: a page
\* that is opened again is not busy with the calls of the one before, runs one
\* bulk action of its own at a time however many of those are still out, and
\* no answer leaves its dialog busy for good.
BusyDialogsWait ==
  /\ bulkBusy => bulk # None /\ \E p \in Runs : job[p] # None /\ job[p].here
  /\ \A p, q \in Runs :
       job[p] # None /\ job[p].here /\ job[q] # None /\ job[q].here => p = q
  /\ actionBusy => \E i \in Slots : calls[i] # None /\ calls[i].here

\* "While true the dialog refuses to dismiss, so a submit is never orphaned"
\* (Modal.tsx:10): while the call a dialog sent is in flight, the dialog is
\* open on that action.
NoOrphanedSubmit ==
  \A i \in Slots :
    calls[i] # None /\ calls[i].dialog /\ calls[i].here =>
      pending = [server |-> calls[i].server, state |-> calls[i].state]
=============================================================================
