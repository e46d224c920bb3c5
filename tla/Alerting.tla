------------------------------ MODULE Alerting ------------------------------
(***************************************************************************)
(* Alert notifications: evaluate() turns the snapshots of a poll cycle     *)
(* into problem keys, decide() folds them into the state kept in Redis,    *)
(* deliver() posts one payload at a time and save_state() remembers what   *)
(* was decided (alerting.py, called from poller.poll_once).                *)
(*                                                                         *)
(* Every node serves one backend with the same servers.  Wall-clock stamps *)
(* are kept as ages that saturate: decide() only asks whether a problem is *)
(* ForTicks old, or whether RepeatTicks have passed since it was notified. *)
(* Only the poller writes the alert state, so load_state, evaluate and     *)
(* decide are one step; every post and the save are steps of their own,    *)
(* between which the fleet, time and faults go on.                         *)
(***************************************************************************)
EXTENDS Naturals, FiniteSets

CONSTANTS
  Nodes,            \* enabled nodes, polled every cycle
  Servers,          \* the servers of a node's backend
  Backups,          \* those of them with "backup" set
  ForTicks,         \* alert_for_seconds
  RepeatTicks,      \* alert_repeat_seconds; 0 disables repeats
  Disturbances,     \* what may go wrong, see below
  MaxDisturbances   \* bound on how often it does

\* loss: a post fails.   load: Redis fails load_state.   save: it fails
\* save_state.   crash: the API dies in a run.   mute: the webhook URL is
\* cleared, and set again.
DisturbanceKinds == {"loss", "load", "save", "crash", "mute"}

ASSUME BackupsAssumption == Backups \subseteq Servers
ASSUME TicksAssumption == ForTicks \in Nat /\ RepeatTicks \in Nat
ASSUME DisturbancesAssumption ==
  Disturbances \subseteq DisturbanceKinds /\ MaxDisturbances \in Nat

Keys == {"node-down", "backend-down", "backend-degraded"} \X Nodes

VARIABLES
  reachable,    \* nodes whose Data Plane API answers
  up,           \* servers of each node that pass their health check
  hooked,       \* whether a webhook URL is configured
  stored,       \* the alert state in Redis: key -> entry
  phase,        \* "idle" or "running" (between decide and save_state)
  firing,       \* firing payloads still to post
  resolving,    \* resolved payloads still to post
  next,         \* the state decide() returned, saved after the posts
  shot,         \* nodes this run's snapshots showed reachable
  faults,       \* disturbances so far
  suffered,     \* history: their kinds
  heard,        \* keys the receiver believes to be firing
  seen,         \* history: how long each problem has been in every snapshot
  opened,       \* history: keys decided firing and not decided resolved since
  quiet         \* history: time since each key was last decided firing

fleetVars == <<reachable, up>>
runVars == <<phase, firing, resolving, next, shot>>
historyVars == <<seen, opened, quiet>>
faultVars == <<faults, suffered>>
vars == <<reachable, up, hooked, stored, phase, firing, resolving, next, shot,
          faults, suffered, heard, seen, opened, quiet>>

\* {"since", "notified"}: age is now - since, told is notified not None, and
\* rest is now - notified.
Entry == [age : 0..ForTicks, told : BOOLEAN, rest : 0..RepeatTicks]

States == UNION {[K -> Entry] : K \in SUBSET Keys}

EmptyState == [k \in {} |-> [age |-> 0, told |-> FALSE, rest |-> 0]]

\* What a run has to post: of the state it will save the firing keys, and the
\* resolved ones of the state it took up.
TypeOK ==
  /\ reachable \in SUBSET Nodes
  /\ up \in [Nodes -> SUBSET Servers]
  /\ hooked \in BOOLEAN
  /\ stored \in States
  /\ phase \in {"idle", "running"}
  /\ firing \in SUBSET Keys
  /\ resolving \in SUBSET Keys
  /\ next \in States
  /\ firing \subseteq DOMAIN next /\ resolving \cap DOMAIN next = {}
  /\ shot \in SUBSET Nodes
  /\ faults \in 0..MaxDisturbances
  /\ suffered \in SUBSET Disturbances
  /\ heard \in SUBSET Keys
  /\ seen \in UNION {[K -> 0..ForTicks] : K \in SUBSET Keys}
  /\ opened \in SUBSET Keys
  /\ quiet \in [Keys -> 0..ForTicks]

-----------------------------------------------------------------------------
(* evaluate(): the problems in a set of snapshots                          *)

\* Backups are excluded from the judgement, and without active servers there
\* is nothing to judge.
Active == Servers \ Backups
Unreachable == Nodes \ reachable
Down == {n \in reachable : Active # {} /\ up[n] \cap Active = {}}
Degraded == {n \in reachable : up[n] \cap Active \notin {{}, Active}}

Problems ==
  ({"node-down"} \X Unreachable)
    \cup ({"backend-down"} \X Down)
    \cup ({"backend-degraded"} \X Degraded)

-----------------------------------------------------------------------------
(* decide(): what to send, and the state to keep                           *)

Told(known, k) == k \in DOMAIN known /\ known[k].told

\* A problem fires as soon as it is seen a second time, without the delay.
MutFires(known, k) ==
  IF Told(known, k) THEN RepeatTicks > 0 /\ known[k].rest >= RepeatTicks
  ELSE k \in DOMAIN known

\* notified is None: fires once the problem has lasted; else: repeats.
Fires(known, k) ==
  IF Told(known, k) THEN RepeatTicks > 0 /\ known[k].rest >= RepeatTicks
  ELSE (IF k \in DOMAIN known THEN known[k].age ELSE 0) >= ForTicks

\* The stamp of the last notice is not renewed by a repeat.
MutNextEntry(known, k) ==
  [age  |-> IF k \in DOMAIN known THEN known[k].age ELSE 0,
   told |-> Told(known, k) \/ Fires(known, k),
   rest |-> IF Told(known, k) THEN known[k].rest ELSE 0]

NextEntry(known, k) ==
  [age  |-> IF k \in DOMAIN known THEN known[k].age ELSE 0,
   told |-> Told(known, k) \/ Fires(known, k),
   rest |-> IF Told(known, k) /\ ~Fires(known, k) THEN known[k].rest ELSE 0]

\* Mutants: every problem that cleared is announced as recovered; and what was
\* announced is, whether it cleared or not.
MutResolved(current, known) == DOMAIN known \ current
MutResolvedStill(current, known) == {k \in DOMAIN known : known[k].told}

Resolved(current, known) == {k \in DOMAIN known \ current : known[k].told}

-----------------------------------------------------------------------------
(* run(): evaluate, decide, deliver, remember                              *)

Disturb(kind) ==
  /\ kind \in Disturbances
  /\ faults < MaxDisturbances
  /\ faults' = faults + 1
  /\ suffered' = suffered \cup {kind}

\* What a cycle's snapshots add to the history of each problem.
Observe == seen' = [k \in Problems |-> IF k \in DOMAIN seen THEN seen[k] ELSE 0]

\* From load_state to the first post, given what load_state returned.
RunFrom(known) ==
  LET fires == {k \in Problems : Fires(known, k)}
      ends == Resolved(Problems, known)
  IN
  /\ phase = "idle"
  /\ hooked
  /\ phase' = "running"
  /\ firing' = fires
  /\ resolving' = ends
  /\ next' = [k \in Problems |-> NextEntry(known, k)]
  /\ shot' = reachable
  /\ opened' = (opened \cup fires) \ ends
  /\ quiet' = [k \in Keys |-> IF k \in fires THEN 0 ELSE quiet[k]]
  /\ Observe
  /\ UNCHANGED <<fleetVars, hooked, stored, heard>>

Run == RunFrom(stored) /\ UNCHANGED faultVars

\* load_state fails: "treating the fleet as new".
RunUnread == RunFrom(EmptyState) /\ Disturb("load")

\* No webhook: run() returns at once and the state is left as it is.
RunMuted ==
  /\ phase = "idle"
  /\ ~hooked
  /\ Observe
  /\ UNCHANGED <<fleetVars, hooked, stored, runVars, faultVars, heard, opened, quiet>>

\* The payloads go out one by one, the firing ones first.
Ready(k) == phase = "running" /\ (k \in firing \/ (firing = {} /\ k \in resolving))

PostedFrom(k) ==
  /\ Ready(k)
  /\ firing' = firing \ {k}
  /\ resolving' = IF k \in firing THEN resolving ELSE resolving \ {k}
  /\ UNCHANGED <<fleetVars, hooked, stored, phase, next, shot, historyVars>>

\* The resolved payload carries another key than the one that fired.
MutPost(k) ==
  /\ PostedFrom(k)
  /\ heard' = heard \cup {k}
  /\ UNCHANGED faultVars

\* The receiver opens or closes the incident with the payload's key.
Post(k) ==
  /\ PostedFrom(k)
  /\ heard' = IF k \in firing THEN heard \cup {k} ELSE heard \ {k}
  /\ UNCHANGED faultVars

\* A timeout, or a status of 400 and above: a log line, and the next payload.
PostLost(k) ==
  /\ PostedFrom(k)
  /\ Disturb("loss")
  /\ UNCHANGED heard

Finish ==
  /\ phase = "running"
  /\ firing = {} /\ resolving = {}
  /\ phase' = "idle"
  /\ next' = EmptyState
  /\ UNCHANGED <<fleetVars, hooked, firing, resolving, shot, heard, historyVars>>

\* The state is saved only when something was posted.
MutSave == Finish /\ UNCHANGED <<stored, faultVars>>

Save == Finish /\ stored' = next /\ UNCHANGED faultVars

SaveFails == Finish /\ Disturb("save") /\ UNCHANGED stored

Crash ==
  /\ phase = "running"
  /\ Disturb("crash")
  /\ phase' = "idle"
  /\ firing' = {}
  /\ resolving' = {}
  /\ next' = EmptyState
  /\ UNCHANGED <<fleetVars, hooked, stored, shot, heard, historyVars>>

-----------------------------------------------------------------------------
(* The fleet, the settings page and time                                   *)

Later(t, limit) == IF t < limit THEN t + 1 ELSE limit

Aged(state) ==
  [k \in DOMAIN state |->
     [age |-> Later(state[k].age, ForTicks), told |-> state[k].told,
      rest |-> Later(state[k].rest, RepeatTicks)]]

Tick ==
  /\ stored' = Aged(stored)
  /\ next' = Aged(next)
  /\ seen' = [k \in DOMAIN seen |-> Later(seen[k], ForTicks)]
  /\ quiet' = [k \in Keys |-> Later(quiet[k], ForTicks)]
  /\ UNCHANGED <<fleetVars, hooked, phase, firing, resolving, shot, faultVars,
                 heard, opened>>

NodeChanges(n) ==
  /\ reachable' = IF n \in reachable THEN reachable \ {n} ELSE reachable \cup {n}
  /\ UNCHANGED <<up, hooked, stored, runVars, faultVars, heard, historyVars>>

ServerChanges(n, s) ==
  /\ up' = [up EXCEPT ![n] = IF s \in @ THEN @ \ {s} ELSE @ \cup {s}]
  /\ UNCHANGED <<reachable, hooked, stored, runVars, faultVars, heard, historyVars>>

Mute ==
  /\ hooked
  /\ Disturb("mute")
  /\ hooked' = FALSE
  /\ UNCHANGED <<fleetVars, stored, runVars, heard, historyVars>>

Unmute ==
  /\ ~hooked
  /\ hooked' = TRUE
  /\ UNCHANGED <<fleetVars, stored, runVars, faultVars, heard, historyVars>>

Init ==
  /\ reachable = Nodes
  /\ up = [n \in Nodes |-> Servers]
  /\ hooked = TRUE
  /\ stored = EmptyState
  /\ phase = "idle"
  /\ firing = {}
  /\ resolving = {}
  /\ next = EmptyState
  /\ shot = Nodes
  /\ faults = 0
  /\ suffered = {}
  /\ heard = {}
  /\ seen = [k \in {} |-> 0]
  /\ opened = {}
  /\ quiet = [k \in Keys |-> ForTicks]

RunNext ==
  \/ Run
  \/ RunUnread
  \/ RunMuted
  \/ \E k \in Keys : Post(k) \/ PostLost(k)
  \/ Save
  \/ SaveFails
  \/ Crash

FleetNext ==
  \/ \E n \in Nodes : NodeChanges(n)
  \/ \E n \in Nodes, s \in Servers : ServerChanges(n, s)

Next == RunNext \/ Tick \/ FleetNext \/ Mute \/ Unmute

Spec == Init /\ [][Next]_vars

\* The poller keeps running, time passes, and the settings page is used to
\* set the URL again.  Nothing obliges a node or a server to change.
FairSpec == Spec /\ WF_vars(RunNext) /\ WF_vars(Tick) /\ WF_vars(Unmute)

-----------------------------------------------------------------------------
(* Properties                                                              *)

\* "A problem must persist before it is worth a message": a firing payload is
\* about a problem that every snapshot has shown for ForTicks.  Failed posts
\* and a state that cannot be read never make it earlier; a state left behind
\* by a crash, a failed save or a cleared webhook may.
FiresAfterPersisting ==
  suffered \subseteq {"loss", "load"}
    => \A k \in firing : k \in DOMAIN seen /\ seen[k] >= ForTicks

\* "Alerts fire on a transition, not on a state": two notices of the same key
\* are apart by the delay or by the repeat interval, through posts that fail
\* and a Redis that cannot be read.
NoticesAreSpaced ==
  [][suffered' \subseteq {"loss", "load"} =>
       \A k \in Keys : phase = "idle" /\ k \in firing'
         => quiet[k] >= ForTicks \/ (RepeatTicks > 0 /\ quiet[k] >= RepeatTicks)]_vars

\* A recovery is announced only for a key that was announced, and once,
\* unless a run dies or fails to save what it announced.
ResolvesWhatFired ==
  [][phase = "idle" /\ suffered' \cap {"crash", "save"} = {}
       => resolving' \subseteq opened]_vars

\* While every post landed and every run was read and saved, the receiver
\* believes between runs exactly what the state in Redis says it was told,
\* also when the webhook was cleared for a while.
BeliefMatchesState ==
  suffered \subseteq {"mute"} /\ phase = "idle"
    => heard = {k \in DOMAIN stored : stored[k].told}

\* A problem that never goes away is announced in the end, although a
\* delivery may fail: the repeat is the retry.
TroubleIsHeard ==
  \A k \in Keys : <>[](k \in Problems /\ hooked) => <>(k \in heard)
=============================================================================
