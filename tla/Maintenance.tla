---------------------------- MODULE Maintenance ----------------------------
(***************************************************************************)
(* Timed maintenance windows: the admin-state endpoint that drains a       *)
(* server and records a hold (routers/actions.py), the poll cycle that     *)
(* observes the fleet (poller.py) and the sweep at its end that gives the  *)
(* server back when the window closes (maintenance.py).                    *)
(*                                                                         *)
(* Three stores meet here and no transaction spans them: the admin state   *)
(* on the HAProxy node, the maintenance_holds table, and the snapshot the  *)
(* cycle took before it read the table.  Every await of the code is a      *)
(* point where another request, the sweep, a crash or an outsider may act, *)
(* so every action below runs from one await to the next.  Nothing keeps   *)
(* two requests on one server apart: operators, screens and the rows of    *)
(* one screen may overlap.                                                 *)
(*                                                                         *)
(* A request creates at most one hold, so a hold is named by the request   *)
(* that creates it: its server, state and window are those of ask[r].      *)
(* Time is abstracted to the one thing the sweep reads of it, whether a    *)
(* hold's expires_at has passed (due).                                     *)
(***************************************************************************)
EXTENDS Naturals, FiniteSets

CONSTANTS
  Nodes,       \* HAProxy nodes in the inventory
  Servers,     \* (node, backend, server) triples the dashboard can act on
  NodeOf,      \* the node of each server
  Requests,    \* PUT .../admin-state requests, numbered in the order they are
               \* sent; bounds how many are ever made
  NoRequest,   \* "no request": not a member of Requests
  Asks,        \* the bodies clients send
  Outsiders,   \* admin states set on a node past the dashboard (or "absent")
  MaxFaults    \* bound on crashes, outages, failed checks and lost answers

AdminStates == {"ready", "drain", "maint"}

\* What the node holds of a server: its admin state, or that the server is
\* not in the backend (any more).
Reported == AdminStates \cup {"absent"}

ASSUME ServersAssumption == Servers # {}
ASSUME NodeOfAssumption == NodeOf \in [Servers -> Nodes]
ASSUME RequestsAssumption == Requests \subseteq Nat
ASSUME NoRequestAssumption == NoRequest \notin Requests
ASSUME OutsidersAssumption == Outsiders \subseteq Reported
ASSUME MaxFaultsAssumption == MaxFaults \in Nat

VARIABLES
  nodeRow,     \* the nodes table: "enabled", "disabled" or "deleted"
  up,          \* whether the Data Plane API of a node answers
  adminState,  \* the admin state on the node itself
  failing,     \* servers whose health check fails
  ask,         \* the body of each request
  pc,          \* where each request is
  selected,    \* the open holds a request read and is about to release
  hold,        \* the maintenance_holds row of each request
  due,         \* the holds whose expires_at has passed
  cycle,       \* where the poller is
  toPoll,      \* nodes this cycle still has to poll
  view,        \* the status column of this cycle's snapshots; "unknown": none
  batch,       \* holds due_holds() returned and the sweep has still to handle
  current,     \* the hold whose revert call is in flight
  closing,     \* releases the sweep's session holds, uncommitted
  faults,      \* crashes, outages, failed checks and lost answers so far
  before,      \* history: holds open on its server when a request was sent
  touched,     \* history: servers acted on since this cycle polled them
  overruled,   \* history: holds whose server somebody moved to another state
  returned,    \* history: holds whose server the sweep put back
  ailed,       \* history: holds whose drained server a poll found failing
  fresh,       \* history: holds committed while this cycle polls
  outrun       \* history: holds opened and due within one cycle

nodeVars == <<nodeRow, up, failing>>
requestVars == <<ask, pc, selected, before>>
sweepVars == <<batch, current, closing>>
pollVars == <<cycle, toPoll, view>>
causeVars == <<overruled, returned, ailed, outrun>>
vars == <<nodeRow, up, adminState, failing, ask, pc, selected, hold, due,
          cycle, toPoll, view, batch, current, closing, faults, before,
          touched, overruled, returned, ailed, fresh, outrun>>

-----------------------------------------------------------------------------
(* Requests and the holds they create                                      *)

\* The body of a request: payload.state, and whether for_minutes is given.
Ask == [server : Servers, state : AdminStates, timed : BOOLEAN]
ASSUME AsksAssumption == Asks # {} /\ Asks \subseteq Ask

\* "failed": no effect on the node.  "lost": the node changed, but the
\* request ended before its hold was committed.  "done": answered 200.
RequestPc ==
  {"idle", "calling", "applied", "selected", "done", "failed", "lost"}

\* Both a later change and the sweep release a hold as "superseded"; the one
\* a later change released is "replaced" here.
HoldStatus == {"none", "open", "replaced", "superseded", "expired", "gone"}

\* What the status column of a snapshot can show of a server.
Statuses == {"UP", "DRAIN", "MAINT", "DOWN", "absent"}

\* HAProxy mixes admin state and health in that column: a maintained server
\* is not checked, one that fails its check is DOWN, drained or not.
Status(s) ==
  IF adminState[s] = "absent" THEN "absent"
  ELSE IF adminState[s] = "maint" THEN "MAINT"
  ELSE IF s \in failing THEN "DOWN"
  ELSE IF adminState[s] = "drain" THEN "DRAIN" ELSE "UP"

\* state.upper()
Upper == [ready |-> "READY", drain |-> "DRAIN", maint |-> "MAINT"]

InFlight(r) == pc[r] \in {"calling", "applied", "selected"}

\* if payload.for_minutes and payload.state != "ready"
MakesHold(r) == ask[r].timed /\ ask[r].state # "ready"

ServerOf(r) == ask[r].server
NodeOfHold(r) == NodeOf[ServerOf(r)]
Busy(s) == \E r \in Requests : InFlight(r) /\ ServerOf(r) = s

\* A snapshot that is missing or unreachable says nothing of its servers.
Unseen(s) == view[s] = "unknown"
Touch(s) == IF Unseen(s) THEN touched ELSE touched \cup {s}

\* The holds that a call on the node has set and no sweep has released.
Holding(r) ==
  /\ pc[r] \in {"applied", "selected", "done"}
  /\ MakesHold(r)
  /\ hold[r] \in {"none", "open", "replaced"}

\* Those on s that a change of s to st takes out of the state they set.
Displaced(s, st) ==
  {r \in Requests : Holding(r) /\ ServerOf(r) = s /\ ask[r].state # st}

\* _supersede_holds: the open holds on the request's own server.
OpenHoldsOn(s) == {h \in Requests : hold[h] = "open" /\ ServerOf(h) = s}

TypeOK ==
  /\ nodeRow \in [Nodes -> {"enabled", "disabled", "deleted"}]
  /\ up \in [Nodes -> BOOLEAN]
  /\ adminState \in [Servers -> Reported]
  /\ failing \in SUBSET Servers
  /\ ask \in [Requests -> Ask]
  /\ pc \in [Requests -> RequestPc]
  /\ selected \in [Requests -> SUBSET Requests]
  /\ hold \in [Requests -> HoldStatus]
  /\ due \in SUBSET Requests
  /\ cycle \in {"idle", "polling", "sweeping", "reverting"}
  /\ toPoll \in SUBSET Nodes
  /\ view \in [Servers -> Statuses \cup {"unknown"}]
  /\ batch \in SUBSET Requests
  /\ current \in Requests \cup {NoRequest}
  /\ closing \in [Requests -> {"keep", "superseded", "expired"}]
  /\ faults \in 0..MaxFaults
  /\ before \in [Requests -> SUBSET Requests]
  /\ touched \in SUBSET Servers
  /\ overruled \in SUBSET Requests
  /\ returned \in SUBSET Requests
  /\ ailed \in SUBSET Requests
  /\ fresh \in SUBSET Requests
  /\ outrun \in SUBSET Requests

NothingClosing == [r \in Requests |-> "keep"]
NothingSeen == [s \in Servers |-> "unknown"]

Init ==
  /\ nodeRow = [n \in Nodes |-> "enabled"]
  /\ up = [n \in Nodes |-> TRUE]
  /\ adminState = [s \in Servers |-> "ready"]
  /\ failing = {}
  /\ ask = [r \in Requests |-> CHOOSE a \in Asks : TRUE]
  /\ pc = [r \in Requests |-> "idle"]
  /\ selected = [r \in Requests |-> {}]
  /\ hold = [r \in Requests |-> "none"]
  /\ due = {}
  /\ cycle = "idle"
  /\ toPoll = {}
  /\ view = NothingSeen
  /\ batch = {}
  /\ current = NoRequest
  /\ closing = NothingClosing
  /\ faults = 0
  /\ before = [r \in Requests |-> {}]
  /\ touched = {}
  /\ overruled = {}
  /\ returned = {}
  /\ ailed = {}
  /\ fresh = {}
  /\ outrun = {}

-----------------------------------------------------------------------------
(* PUT .../admin-state                                                     *)

\* _driver_for: 404 when the node row is gone, else a driver for the node.
Begin(r, a) ==
  /\ pc[r] = "idle"
  /\ \A q \in Requests : q < r => pc[q] # "idle"
  /\ nodeRow[NodeOf[a.server]] # "deleted"
  /\ ask' = [ask EXCEPT ![r] = a]
  /\ pc' = [pc EXCEPT ![r] = "calling"]
  /\ before' = [before EXCEPT ![r] = OpenHoldsOn(a.server)]
  /\ touched' = Touch(a.server)
  /\ UNCHANGED <<nodeVars, adminState, selected, hold, due, pollVars,
                 sweepVars, faults, causeVars, fresh>>

\* The node applies driver.set_server_admin_state.
CallSucceeds(r) ==
  /\ pc[r] = "calling"
  /\ up[NodeOfHold(r)]
  /\ adminState[ServerOf(r)] # "absent"
  /\ adminState' = [adminState EXCEPT ![ServerOf(r)] = ask[r].state]
  /\ overruled' = overruled \cup Displaced(ServerOf(r), ask[r].state)
  /\ pc' = [pc EXCEPT ![r] = "applied"]
  /\ UNCHANGED <<nodeVars, ask, selected, before, hold, due, pollVars,
                 sweepVars, faults, touched, returned, ailed, fresh, outrun>>

\* UnsupportedOperation, DriverError or ValueError before the node acted:
\* a failure is audited and answered 501 or 502.
CallFails(r) ==
  /\ pc[r] = "calling"
  /\ pc' = [pc EXCEPT ![r] = "failed"]
  /\ UNCHANGED <<nodeVars, adminState, ask, selected, before, hold, due,
                 pollVars, sweepVars, faults, touched, causeVars, fresh>>

\* A hold is superseded only when the new change sets another state.
MutSelectOtherState(r) ==
  /\ pc[r] = "applied"
  /\ selected' = [selected EXCEPT ![r] =
                    {h \in OpenHoldsOn(ServerOf(r)) :
                       ask[h].state # ask[r].state}]
  /\ pc' = [pc EXCEPT ![r] = "selected"]
  /\ UNCHANGED <<nodeVars, adminState, ask, before, hold, due, pollVars,
                 sweepVars, faults, touched, causeVars, fresh>>

\* The success is audited (and committed), then _supersede_holds reads the
\* open holds on this server.  Their release stays in the session.
SelectHolds(r) ==
  /\ pc[r] = "applied"
  /\ selected' = [selected EXCEPT ![r] = OpenHoldsOn(ServerOf(r))]
  /\ pc' = [pc EXCEPT ![r] = "selected"]
  /\ UNCHANGED <<nodeVars, adminState, ask, before, hold, due, pollVars,
                 sweepVars, faults, touched, causeVars, fresh>>

\* What the commit leaves in row h: an UPDATE of a row that was deleted
\* matches nothing.
AfterChange(r, h) ==
  IF h = r /\ MakesHold(r) THEN "open"
  ELSE IF h \in selected[r] /\ hold[h] # "gone" THEN "replaced"
  ELSE hold[h]

\* One commit writes the superseded holds, the new hold and its audit row.
\* It needs the node row: the new hold references it.
CommitHolds(r) ==
  /\ pc[r] = "selected"
  /\ MakesHold(r) => nodeRow[NodeOfHold(r)] # "deleted"
  /\ hold' = [h \in Requests |-> AfterChange(r, h)]
  /\ fresh' = IF cycle = "polling" THEN fresh \cup {r} ELSE fresh
  /\ pc' = [pc EXCEPT ![r] = "done"]
  /\ selected' = [selected EXCEPT ![r] = {}]
  /\ UNCHANGED <<nodeVars, adminState, ask, before, due, pollVars, sweepVars,
                 faults, touched, causeVars>>

\* The commit fails: the hold's foreign key, or an UPDATE of a deleted row.
CommitFails(r) ==
  /\ pc[r] = "selected"
  /\ nodeRow[NodeOfHold(r)] = "deleted"
  /\ MakesHold(r) \/ selected[r] # {}
  /\ pc' = [pc EXCEPT ![r] = "lost"]
  /\ selected' = [selected EXCEPT ![r] = {}]
  /\ UNCHANGED <<nodeVars, adminState, ask, before, hold, due, pollVars,
                 sweepVars, faults, touched, causeVars, fresh>>

\* The node's answer is lost after it acted (a timeout is a DriverError and
\* answered 502), or the database fails one of the two commits.
RequestLost(r) ==
  /\ pc[r] \in {"applied", "selected"}
  /\ faults < MaxFaults
  /\ faults' = faults + 1
  /\ pc' = [pc EXCEPT ![r] = "lost"]
  /\ selected' = [selected EXCEPT ![r] = {}]
  /\ UNCHANGED <<nodeVars, adminState, ask, before, hold, due, pollVars,
                 sweepVars, touched, causeVars, fresh>>

-----------------------------------------------------------------------------
(* The poll cycle                                                          *)

Enabled == {n \in Nodes : nodeRow[n] = "enabled"}

\* poll_once reads the enabled nodes.
StartCycle ==
  /\ cycle = "idle"
  /\ Enabled # {}
  /\ cycle' = "polling"
  /\ toPoll' = Enabled
  /\ UNCHANGED <<nodeVars, adminState, requestVars, hold, due, view, sweepVars,
                 faults, touched, causeVars, fresh>>

\* No node is enabled: poll_once returns 0 and no sweep runs.
EmptyCycle ==
  /\ cycle = "idle"
  /\ Enabled = {}
  /\ UNCHANGED vars

\* The drain holds on node n whose server is drained and fails its check.
Ailments(n) ==
  {r \in Requests : /\ Holding(r) /\ NodeOfHold(r) = n
                    /\ ask[r].state = "drain"
                    /\ adminState[ServerOf(r)] = "drain"
                    /\ ServerOf(r) \in failing}

\* poll_node: one node's snapshot, with the status column of its servers; a
\* node that does not answer gets an unreachable snapshot, which says nothing
\* of its servers.
PollNode(n) ==
  /\ cycle = "polling"
  /\ n \in toPoll
  /\ toPoll' = toPoll \ {n}
  /\ view' = [s \in Servers |->
                IF NodeOf[s] # n THEN view[s]
                ELSE IF up[n] THEN Status(s) ELSE "unknown"]
  /\ touched' = touched \cup {s \in Servers : NodeOf[s] = n /\ Busy(s)}
  /\ ailed' = IF up[n] THEN ailed \cup Ailments(n) ELSE ailed
  /\ UNCHANGED <<nodeVars, adminState, requestVars, hold, due, cycle,
                 sweepVars, faults, overruled, returned, fresh, outrun>>

\* The cycle is over: its snapshots are gone with its local variables.
EndCycle ==
  /\ cycle' = "idle"
  /\ view' = NothingSeen
  /\ touched' = {}

\* After the snapshots are stored and the alerts delivered, sweep() reads
\* the holds that are due; it returns at once when there are none.
ReadDue ==
  LET found == {r \in Requests : hold[r] = "open" /\ r \in due} IN
  /\ cycle = "polling"
  /\ toPoll = {}
  /\ batch' = found
  /\ IF found = {} THEN EndCycle
     ELSE cycle' = "sweeping" /\ UNCHANGED <<view, touched>>
  /\ outrun' = outrun \cup (found \cap fresh)
  /\ fresh' = {}
  /\ UNCHANGED <<nodeVars, adminState, requestVars, hold, due, toPoll, current,
                 closing, faults, overruled, returned, ailed>>

-----------------------------------------------------------------------------
(* The sweep                                                               *)

\* still_held matches the status the snapshot shows with the hold's state.
StillHeld(r) == view[ServerOf(r)] = Upper[ask[r].state]

\* The snapshot is not checked for reachability before it is compared.
MutCloseUnneeded(r) ==
  /\ cycle = "sweeping"
  /\ r \in batch
  /\ nodeRow[NodeOfHold(r)] = "deleted" \/ ~StillHeld(r)
  /\ batch' = batch \ {r}
  /\ closing' = [closing EXCEPT ![r] = "superseded"]
  /\ UNCHANGED <<nodeVars, adminState, requestVars, hold, due, pollVars,
                 current, faults, touched, causeVars, fresh>>

\* The node row is gone, the server is not in the snapshot, or the snapshot
\* shows another state: the hold is released as superseded.
CloseUnneeded(r) ==
  /\ cycle = "sweeping"
  /\ r \in batch
  /\ \/ nodeRow[NodeOfHold(r)] = "deleted"
     \/ ~Unseen(ServerOf(r)) /\ ~StillHeld(r)
  /\ batch' = batch \ {r}
  /\ closing' = [closing EXCEPT ![r] = "superseded"]
  /\ UNCHANGED <<nodeVars, adminState, requestVars, hold, due, pollVars,
                 current, faults, touched, causeVars, fresh>>

\* No snapshot, or an unreachable one: the hold is kept for the next cycle.
KeepUnseen(r) ==
  /\ cycle = "sweeping"
  /\ r \in batch
  /\ nodeRow[NodeOfHold(r)] # "deleted"
  /\ Unseen(ServerOf(r))
  /\ batch' = batch \ {r}
  /\ UNCHANGED <<nodeVars, adminState, requestVars, hold, due, pollVars,
                 current, closing, faults, touched, causeVars, fresh>>

\* The sweep reverts every due hold it has a snapshot for, whatever state
\* the snapshot shows.
MutStartRevert(r) ==
  /\ cycle = "sweeping"
  /\ r \in batch
  /\ nodeRow[NodeOfHold(r)] # "deleted"
  /\ ~Unseen(ServerOf(r))
  /\ batch' = batch \ {r}
  /\ current' = r
  /\ cycle' = "reverting"
  /\ UNCHANGED <<nodeVars, adminState, requestVars, hold, due, toPoll, view,
                 closing, faults, touched, causeVars, fresh>>

\* The snapshot shows the hold's own state: ask the node to put it back.
StartRevert(r) ==
  /\ cycle = "sweeping"
  /\ r \in batch
  /\ nodeRow[NodeOfHold(r)] # "deleted"
  /\ StillHeld(r)
  /\ batch' = batch \ {r}
  /\ current' = r
  /\ cycle' = "reverting"
  /\ UNCHANGED <<nodeVars, adminState, requestVars, hold, due, toPoll, view,
                 closing, faults, touched, causeVars, fresh>>

\* The node obeys, whatever its state is by now: adminState becomes ready.
PutBack(s) ==
  /\ up[NodeOf[s]]
  /\ adminState[s] # "absent"
  /\ adminState' = [adminState EXCEPT ![s] = "ready"]
  /\ returned' = returned \cup Displaced(s, "ready")

\* The call returns: the hold is released as expired, uncommitted.
RevertSucceeds ==
  /\ cycle = "reverting"
  /\ PutBack(ServerOf(current))
  /\ closing' = [closing EXCEPT ![current] = "expired"]
  /\ current' = NoRequest
  /\ cycle' = "sweeping"
  /\ UNCHANGED <<nodeVars, requestVars, hold, due, toPoll, view, batch, faults,
                 touched, overruled, ailed, fresh, outrun>>

\* The node acts but its answer is lost: a DriverError, so the hold is kept.
RevertUnanswered ==
  /\ cycle = "reverting"
  /\ faults < MaxFaults
  /\ faults' = faults + 1
  /\ PutBack(ServerOf(current))
  /\ current' = NoRequest
  /\ cycle' = "sweeping"
  /\ UNCHANGED <<nodeVars, requestVars, hold, due, toPoll, view, batch,
                 closing, touched, overruled, ailed, fresh, outrun>>

\* A failed call releases the hold all the same.
MutRevertFails ==
  /\ cycle = "reverting"
  /\ \/ /\ ~up[NodeOfHold(current)] \/ adminState[ServerOf(current)] = "absent"
        /\ UNCHANGED faults
     \/ /\ faults < MaxFaults
        /\ faults' = faults + 1
  /\ closing' = [closing EXCEPT ![current] = "expired"]
  /\ current' = NoRequest
  /\ cycle' = "sweeping"
  /\ UNCHANGED <<nodeVars, adminState, requestVars, hold, due, toPoll, view,
                 batch, touched, causeVars, fresh>>

\* DriverError or ValueError: the node is down or refuses; the hold is kept.
RevertFails ==
  /\ cycle = "reverting"
  /\ \/ /\ ~up[NodeOfHold(current)] \/ adminState[ServerOf(current)] = "absent"
        /\ UNCHANGED faults
     \/ /\ faults < MaxFaults
        /\ faults' = faults + 1
  /\ current' = NoRequest
  /\ cycle' = "sweeping"
  /\ UNCHANGED <<nodeVars, adminState, requestVars, hold, due, toPoll, view,
                 batch, closing, touched, causeVars, fresh>>

\* The release is written whether or not the sweep decided one.
MutAfterSweep(r) == IF hold[r] = "gone" THEN "gone" ELSE closing[r]

AfterSweep(r) ==
  IF closing[r] = "keep" \/ hold[r] = "gone" THEN hold[r] ELSE closing[r]

\* sweep() returns without session.commit().
MutCommitSweep ==
  /\ cycle = "sweeping"
  /\ batch = {}
  /\ closing' = NothingClosing
  /\ EndCycle
  /\ UNCHANGED <<nodeVars, adminState, requestVars, hold, due, toPoll, batch,
                 current, faults, causeVars, fresh>>

\* The one commit at the end of sweep() writes every release.
CommitSweep ==
  /\ cycle = "sweeping"
  /\ batch = {}
  /\ hold' = [r \in Requests |-> AfterSweep(r)]
  /\ closing' = NothingClosing
  /\ EndCycle
  /\ UNCHANGED <<nodeVars, adminState, requestVars, due, toPoll, batch,
                 current, faults, causeVars, fresh>>

\* A released row was deleted with its node meanwhile: its UPDATE matches no
\* row, the commit raises and every release of the sweep is rolled back.
RollbackSweep ==
  /\ cycle = "sweeping"
  /\ batch = {}
  /\ \E r \in Requests : closing[r] # "keep" /\ hold[r] = "gone"
  /\ closing' = NothingClosing
  /\ EndCycle
  /\ UNCHANGED <<nodeVars, adminState, requestVars, hold, due, toPoll, batch,
                 current, faults, causeVars, fresh>>

-----------------------------------------------------------------------------
(* Time, the inventory, the nodes and the process                          *)

\* expires_at passes, for all the code knows within the cycle that the window
\* was opened in: only for_minutes >= 1 keeps them apart.
WindowCloses(r) ==
  /\ hold[r] = "open"
  /\ r \notin due
  /\ due' = due \cup {r}
  /\ UNCHANGED <<nodeVars, adminState, requestVars, hold, pollVars, sweepVars,
                 faults, touched, causeVars, fresh>>

\* PATCH /api/nodes/{id} with "enabled".
ToggleNode(n) ==
  /\ nodeRow[n] # "deleted"
  /\ nodeRow' = [nodeRow EXCEPT
                   ![n] = IF @ = "enabled" THEN "disabled" ELSE "enabled"]
  /\ UNCHANGED <<up, failing, adminState, requestVars, hold, due, pollVars,
                 sweepVars, faults, touched, causeVars, fresh>>

\* The hold rows stay behind.
MutDeleteNode(n) ==
  /\ nodeRow[n] # "deleted"
  /\ nodeRow' = [nodeRow EXCEPT ![n] = "deleted"]
  /\ UNCHANGED <<up, failing, adminState, requestVars, hold, due, pollVars,
                 sweepVars, faults, touched, causeVars, fresh>>

\* DELETE /api/nodes/{id}: the hold rows go with the node (ON DELETE CASCADE).
DeleteNode(n) ==
  /\ nodeRow[n] # "deleted"
  /\ nodeRow' = [nodeRow EXCEPT ![n] = "deleted"]
  /\ hold' = [r \in Requests |->
                IF hold[r] # "none" /\ NodeOfHold(r) = n
                THEN "gone" ELSE hold[r]]
  /\ UNCHANGED <<up, failing, adminState, requestVars, due, pollVars,
                 sweepVars, faults, touched, causeVars, fresh>>

NodeGoesDown(n) ==
  /\ up[n]
  /\ faults < MaxFaults
  /\ faults' = faults + 1
  /\ up' = [up EXCEPT ![n] = FALSE]
  /\ UNCHANGED <<nodeRow, failing, adminState, requestVars, hold, due,
                 pollVars, sweepVars, touched, causeVars, fresh>>

NodeComesUp(n) ==
  /\ ~up[n]
  /\ up' = [up EXCEPT ![n] = TRUE]
  /\ UNCHANGED <<nodeRow, failing, adminState, requestVars, hold, due,
                 pollVars, sweepVars, faults, touched, causeVars, fresh>>

\* Someone sets the state on the node itself, or edits the configuration.
OutsideChange(s, st) ==
  /\ adminState[s] # st
  /\ adminState' = [adminState EXCEPT ![s] = st]
  /\ overruled' = overruled \cup Displaced(s, st)
  /\ touched' = Touch(s)
  /\ UNCHANGED <<nodeVars, requestVars, hold, due, pollVars, sweepVars, faults,
                 returned, ailed, fresh, outrun>>

ServerFails(s) ==
  /\ s \notin failing
  /\ faults < MaxFaults
  /\ faults' = faults + 1
  /\ failing' = failing \cup {s}
  /\ UNCHANGED <<nodeRow, up, adminState, requestVars, hold, due, pollVars,
                 sweepVars, touched, causeVars, fresh>>

ServerPasses(s) ==
  /\ s \in failing
  /\ failing' = failing \ {s}
  /\ UNCHANGED <<nodeRow, up, adminState, requestVars, hold, due, pollVars,
                 sweepVars, faults, touched, causeVars, fresh>>

\* The process dies: every request and the cycle end where they are.  What
\* is committed, and what the nodes did, stays.
Crash ==
  /\ faults < MaxFaults
  /\ faults' = faults + 1
  /\ pc' = [r \in Requests |-> IF pc[r] = "calling" THEN "failed"
                               ELSE IF InFlight(r) THEN "lost" ELSE pc[r]]
  /\ selected' = [r \in Requests |-> {}]
  /\ EndCycle
  /\ toPoll' = {}
  /\ batch' = {}
  /\ current' = NoRequest
  /\ closing' = NothingClosing
  /\ fresh' = {}
  /\ UNCHANGED <<nodeVars, adminState, ask, before, hold, due, causeVars>>

-----------------------------------------------------------------------------
RequestNext ==
  \E r \in Requests :
    \/ \E a \in Asks : Begin(r, a)
    \/ CallSucceeds(r)
    \/ CallFails(r)
    \/ SelectHolds(r)
    \/ CommitHolds(r)
    \/ CommitFails(r)
    \/ RequestLost(r)

PollerNext ==
  \/ StartCycle
  \/ EmptyCycle
  \/ \E n \in Nodes : PollNode(n)
  \/ ReadDue
  \/ \E r \in Requests : CloseUnneeded(r) \/ KeepUnseen(r) \/ StartRevert(r)
  \/ RevertSucceeds
  \/ RevertUnanswered
  \/ RevertFails
  \/ CommitSweep
  \/ RollbackSweep

EnvironmentNext ==
  \/ \E r \in Requests : WindowCloses(r)
  \/ \E n \in Nodes :
       ToggleNode(n) \/ DeleteNode(n) \/ NodeGoesDown(n) \/ NodeComesUp(n)
  \/ \E s \in Servers, st \in Outsiders : OutsideChange(s, st)
  \/ \E s \in Servers : ServerFails(s) \/ ServerPasses(s)
  \/ Crash

Next == RequestNext \/ PollerNext \/ EnvironmentNext

Spec == Init /\ [][Next]_vars

\* The poll loop runs as long as the process does and is started with it,
\* time passes, and an outage ends.  Nobody is obliged to send a request.
Fairness ==
  /\ WF_vars(PollerNext)
  /\ \A r \in Requests : WF_vars(WindowCloses(r))
  /\ \A n \in Nodes : WF_vars(NodeComesUp(n))

FairSpec == Spec /\ Fairness

-----------------------------------------------------------------------------
(* Properties                                                              *)

\* What can happen to a hold's server that lets the sweep drop the hold: it
\* left the state the hold set; a poll found it failing its check while it was
\* drained, and DOWN is not DRAIN; or the window was opened and due within one
\* cycle, so that the snapshot may be older than the hold.
Left == overruled \cup returned
Doubted == ailed \cup outrun

\* "Any manual change supersedes an open hold on the same server"
\* (actions.py): a change that is answered has ended every window that was
\* open on its server when it was sent, whatever overlapped it.
LaterChangeSupersedes ==
  \A r \in Requests : pc[r] = "done" => \A h \in before[r] : hold[h] # "open"

\* When the revert call of a due hold is about to go out and nobody acted on
\* the server since this cycle polled it, no change that was sent after the
\* hold was acknowledged has been answered, and the server is in the state
\* the hold set, unless the sweep itself has put it back already (two holds
\* of requests that overlapped, due in one cycle).
QuietRevertIsWanted ==
  (cycle = "reverting" /\ ServerOf(current) \notin touched)
    => /\ \A r \in Requests : pc[r] = "done" => current \notin before[r]
       /\ \/ adminState[ServerOf(current)] = ask[current].state
          \/ adminState[ServerOf(current)] = "ready" /\ current \in returned

\* The sweep never drops a hold without a cause: whatever calls, polls,
\* commits and crashes it went through, a hold it released is one whose
\* server left the state the hold set, was found failing while drained, or
\* was due in the cycle that saw it opened.
ReleasedForCause ==
  \A r \in Requests :
    hold[r] \in {"superseded", "expired"} => r \in Left \cup Doubted

\* "Anything else means somebody changed it after the hold was created"
\* (still_held): a due hold whose window is older than the snapshot, and whose
\* server shows another status than the hold's state, has had its server
\* changed by somebody.
MismatchMeansChanged ==
  \A r \in batch \ outrun :
    Unseen(ServerOf(r)) \/ StillHeld(r) \/ r \in Left

\* The table of holds goes through what Windows allows: whatever is in
\* flight, an answered change has ended the windows that were open when it
\* was sent, no window ends otherwise but for a cause or with its node, and
\* nothing but a new window is ever opened.
OpenWindows == {r \in Requests : hold[r] = "open"}
EndedWindows == {r \in Requests : hold[r] \notin {"none", "open"}}
GoneNodes == {n \in Nodes : nodeRow[n] = "deleted"}
Asked == {r \in Requests : InFlight(r)}
Settled == {r \in Requests : pc[r] \in {"done", "failed", "lost"}}
Promise == INSTANCE Windows WITH
  Changes <- Requests,
  server <- [r \in Requests |-> ServerOf(r)],
  asked <- Asked,
  settled <- Settled,
  open <- OpenWindows,
  ended <- EndedWindows,
  left <- Left,
  doubted <- Doubted,
  gone <- GoneNodes
WindowsAreKept == Promise!Spec

\* "A hold that no longer matches reality is abandoned, not enforced"
\* (maintenance.py): the sweep's call never changes a server that is in
\* another state than its hold set.
AbandonedNotEnforced ==
  [][cycle = "reverting" /\ cycle' = "sweeping" /\ adminState' # adminState
       => adminState[ServerOf(current)] = ask[current].state]_vars

\* Every open hold is released in the end, if its node stays enabled.
HoldsAreReleased ==
  \A r \in Requests :
    hold[r] = "open" ~> hold[r] # "open" \/ nodeRow[NodeOfHold(r)] # "enabled"

\* "Failure is retried, never swallowed": a server with an open hold leaves
\* the state the hold set, unless its node is switched off or deleted, a later
\* change replaced the hold, or the sweep had one of the two reasons to doubt
\* that it still holds.
HeldServersReturn ==
  \A r \in Requests :
    hold[r] = "open"
      ~> \/ r \in Left \cup Doubted
         \/ hold[r] = "replaced"
         \/ nodeRow[NodeOfHold(r)] # "enabled"
=============================================================================
