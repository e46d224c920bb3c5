------------------------------ MODULE LiveView ------------------------------
(***************************************************************************)
(* The live fleet view: the poller stores every snapshot in Redis and      *)
(* publishes it (state.py, poller.py), an SSE stream subscribes and then   *)
(* primes its client from the cache (routers/events.py), and each browser  *)
(* tab folds a REST answer and the stream's snapshots into one map and     *)
(* shows it at its own pace (useFleet.tsx).                                *)
(*                                                                         *)
(* Three copies of the truth travel at their own speed: the cache, the     *)
(* messages on a stream, and a REST answer that was read earlier.  A       *)
(* snapshot is represented by the number of its poll, so a copy that is    *)
(* behind shows.  Messages of different nodes do not disturb each other,   *)
(* so a stream keeps one queue per node.                                   *)
(***************************************************************************)
EXTENDS Naturals, Sequences, SequencesExt

CONSTANTS
  Nodes,      \* the nodes of the inventory, all enabled
  Screens,    \* browser tabs, each with one FleetProvider
  MaxPolls,   \* bound on the polls of a node
  MaxFaults   \* bound on dropped and refused streams and failed stores

ASSUME MaxPollsAssumption == MaxPolls \in Nat
ASSUME MaxFaultsAssumption == MaxFaults \in Nat

VARIABLES
  row,          \* nodes in the nodes table
  dropping,     \* nodes deleted, their cached snapshot not dropped yet
  polls,        \* polls of each node so far
  stage,        \* where this cycle is with each node
  cache,        \* the snapshot cached in Redis; 0: none
  published,    \* history: the last snapshot of each node published, until
                \* it expires
  stream,       \* the EventSource of each screen and the request behind it
  wire,         \* snapshots on their way to a screen, per node
  rest,         \* the GET /api/fleet of each screen
  incoming,     \* incoming.current: node -> snapshot; 0: a pending entry
  visible,      \* what the table shows
  mode,         \* the refresh mode
  pending,      \* whether held updates are announced (pending > 0)
  overwritten,  \* history: nodes whose snapshot an older answer replaced
  faults        \* faults so far

pollVars == <<polls, stage>>
redisVars == <<cache, published>>
streamVars == <<stream, wire>>
viewVars == <<incoming, visible, mode, pending, overwritten>>
vars == <<row, dropping, polls, stage, cache, published, stream, wire, rest,
          incoming, visible, mode, pending, overwritten, faults>>

Snapshots == 1..MaxPolls
Cached == 0..MaxPolls
Modes == {"live", "timed", "paused"}

\* A map from some of the nodes to what is known of them.
Maps == UNION {[N -> Cached] : N \in SUBSET Nodes}
EmptyMap == [n \in {} |-> 0]

\* why: the provider's first call, or the Refresh button's.
NoCall == [kind |-> "none"]
Rest ==
  {NoCall} \cup [kind : {"asked"}, why : {"prime", "refresh"}]
           \cup [kind : {"rows"}, why : {"prime", "refresh"}, nodes : SUBSET Nodes]
           \cup [kind : {"answer"}, why : {"prime", "refresh"}, map : Maps]

TypeOK ==
  /\ row \in SUBSET Nodes
  /\ dropping \in SUBSET Nodes
  /\ polls \in [Nodes -> Cached]
  /\ stage \in [Nodes -> {"out", "asked", "taken", "set"}]
  /\ cache \in [Nodes -> Cached]
  /\ published \in [Nodes -> Cached]
  /\ stream \in [Screens -> {"off", "subscribed", "live", "closed"}]
  /\ wire \in [Screens -> [Nodes -> Seq(Snapshots)]]
  /\ rest \in [Screens -> Rest]
  /\ incoming \in [Screens -> Maps]
  /\ visible \in [Screens -> Maps]
  /\ mode \in [Screens -> Modes]
  /\ pending \in [Screens -> BOOLEAN]
  /\ overwritten \in [Screens -> SUBSET Nodes]
  /\ faults \in 0..MaxFaults

NothingSent == [n \in Nodes |-> <<>>]

Init ==
  /\ row = Nodes
  /\ dropping = {}
  /\ polls = [n \in Nodes |-> 0]
  /\ stage = [n \in Nodes |-> "out"]
  /\ cache = [n \in Nodes |-> 0]
  /\ published = [n \in Nodes |-> 0]
  /\ stream = [c \in Screens |-> "off"]
  /\ wire = [c \in Screens |-> NothingSent]
  /\ rest = [c \in Screens |-> [kind |-> "asked", why |-> "prime"]]
  /\ incoming = [c \in Screens |-> EmptyMap]
  /\ visible = [c \in Screens |-> EmptyMap]
  /\ mode \in [Screens -> Modes]
  /\ pending = [c \in Screens |-> FALSE]
  /\ overwritten = [c \in Screens |-> {}]
  /\ faults = 0

Fault == faults < MaxFaults /\ faults' = faults + 1

-----------------------------------------------------------------------------
(* poll_once: poll every node, then store and publish every snapshot       *)

Due == {n \in row : polls[n] < MaxPolls}

StartCycle ==
  /\ \A n \in Nodes : stage[n] = "out"
  /\ Due # {}
  /\ stage' = [n \in Nodes |-> IF n \in Due THEN "asked" ELSE "out"]
  /\ UNCHANGED <<row, dropping, polls, redisVars, streamVars, rest, viewVars, faults>>

PollNode(n) ==
  /\ stage[n] = "asked"
  /\ polls' = [polls EXCEPT ![n] = @ + 1]
  /\ stage' = [stage EXCEPT ![n] = "taken"]
  /\ UNCHANGED <<row, dropping, redisVars, streamVars, rest, viewVars, faults>>

\* store_snapshot, first half.  It starts when every node has been polled.
SetSnapshot(n) ==
  /\ stage[n] = "taken"
  /\ \A m \in Nodes : stage[m] # "asked"
  /\ cache' = [cache EXCEPT ![n] = polls[n]]
  /\ stage' = [stage EXCEPT ![n] = "set"]
  /\ UNCHANGED <<row, dropping, polls, published, streamVars, rest, viewVars, faults>>

\* Redis hands a message to the subscriptions it has at that moment.
Listening(c) == stream[c] \in {"subscribed", "live"}

\* store_snapshot, second half.
PublishSnapshot(n) ==
  /\ stage[n] = "set"
  /\ published' = [published EXCEPT ![n] = IF cache[n] = 0 THEN @ ELSE polls[n]]
  /\ wire' = [c \in Screens |->
                IF Listening(c)
                THEN [wire[c] EXCEPT ![n] = Append(@, polls[n])] ELSE wire[c]]
  /\ stage' = [stage EXCEPT ![n] = "out"]
  /\ UNCHANGED <<row, dropping, polls, cache, stream, rest, viewVars, faults>>

\* Redis refuses the SET or the PUBLISH; gather(return_exceptions=True) goes on.
StoreFails(n) ==
  /\ stage[n] = "set" \/ (stage[n] = "taken" /\ \A m \in Nodes : stage[m] # "asked")
  /\ Fault
  /\ stage' = [stage EXCEPT ![n] = "out"]
  /\ UNCHANGED <<row, dropping, polls, redisVars, streamVars, rest, viewVars>>

-----------------------------------------------------------------------------
(* DELETE /api/nodes/{id}: commit, then drop the cached snapshot           *)

DeleteNode(n) ==
  /\ n \in row
  /\ row' = row \ {n}
  /\ dropping' = dropping \cup {n}
  /\ UNCHANGED <<pollVars, redisVars, streamVars, rest, viewVars, faults>>

DropSnapshot(n) ==
  /\ n \in dropping
  /\ dropping' = dropping \ {n}
  /\ cache' = [cache EXCEPT ![n] = 0]
  /\ UNCHANGED <<row, pollVars, published, streamVars, rest, viewVars, faults>>

\* The snapshot is stored without a time to live.
MutExpire(n) == FALSE /\ UNCHANGED vars

\* state_ttl_seconds pass without a new snapshot: nobody polls the node, or its
\* polls and stores take that long.
Expire(n) ==
  /\ cache[n] # 0
  /\ cache' = [cache EXCEPT ![n] = 0]
  /\ published' = [published EXCEPT ![n] = 0]
  /\ UNCHANGED <<row, dropping, pollVars, streamVars, rest, viewVars, faults>>

-----------------------------------------------------------------------------
(* GET /api/events: subscribe, prime, then forward                         *)

Subscribe(c) ==
  /\ stream[c] = "off"
  /\ stream' = [stream EXCEPT ![c] = "subscribed"]
  /\ UNCHANGED <<row, dropping, pollVars, redisVars, wire, rest, viewVars, faults>>

\* A key that expired between SCAN and MGET is sent as a null.
MutPrime(c) ==
  /\ stream[c] = "subscribed"
  /\ stream' = [stream EXCEPT ![c] = "live"]
  /\ wire' = [wire EXCEPT ![c] = [n \in Nodes |-> <<cache[n]>> \o @[n]]]
  /\ UNCHANGED <<row, dropping, pollVars, redisVars, rest, viewVars, faults>>

\* get_all_snapshots: the cache goes out before what was published meanwhile.
Prime(c) ==
  /\ stream[c] = "subscribed"
  /\ stream' = [stream EXCEPT ![c] = "live"]
  /\ wire' = [wire EXCEPT ![c] = [n \in Nodes |->
                IF cache[n] = 0 THEN @[n] ELSE <<cache[n]>> \o @[n]]]
  /\ UNCHANGED <<row, dropping, pollVars, redisVars, rest, viewVars, faults>>

\* The connection ends: the browser opens another by itself.
DropStream(c) ==
  /\ Listening(c)
  /\ Fault
  /\ stream' = [stream EXCEPT ![c] = "off"]
  /\ wire' = [wire EXCEPT ![c] = NothingSent]
  /\ UNCHANGED <<row, dropping, pollVars, redisVars, rest, viewVars>>

\* The answer is not a 200: an EventSource does not try again.
RefuseStream(c) ==
  /\ stream[c] = "off"
  /\ Fault
  /\ stream' = [stream EXCEPT ![c] = "closed"]
  /\ UNCHANGED <<row, dropping, pollVars, redisVars, wire, rest, viewVars>>

-----------------------------------------------------------------------------
(* FleetProvider                                                           *)

\* Map.set
With(map, n, snapshot) ==
  [m \in DOMAIN map \cup {n} |-> IF m = n THEN snapshot ELSE map[m]]

\* Snapshots are thrown away while the table is paused.
MutReceive(c, n) ==
  /\ stream[c] = "live"
  /\ wire[c][n] # <<>>
  /\ wire' = [wire EXCEPT ![c][n] = Tail(@)]
  /\ overwritten' = [overwritten EXCEPT ![c] = @ \ {n}]
  /\ incoming' = IF mode[c] = "paused" THEN incoming
                 ELSE [incoming EXCEPT ![c] = With(@, n, Head(wire[c][n]))]
  /\ visible' = IF mode[c] = "live" THEN [visible EXCEPT ![c] = incoming'[c]] ELSE visible
  /\ pending' = IF mode[c] = "live" THEN pending ELSE [pending EXCEPT ![c] = TRUE]
  /\ UNCHANGED <<row, dropping, pollVars, redisVars, stream, rest, mode, faults>>

\* The stream's handler: keep the snapshot, and show it in live mode.
Receive(c, n) ==
  /\ stream[c] = "live"
  /\ wire[c][n] # <<>>
  /\ wire' = [wire EXCEPT ![c][n] = Tail(@)]
  /\ overwritten' = [overwritten EXCEPT ![c] = @ \ {n}]
  /\ incoming' = [incoming EXCEPT ![c] = With(@, n, Head(wire[c][n]))]
  /\ visible' = IF mode[c] = "live" THEN [visible EXCEPT ![c] = incoming'[c]] ELSE visible
  /\ pending' = IF mode[c] = "live" THEN pending ELSE [pending EXCEPT ![c] = TRUE]
  /\ UNCHANGED <<row, dropping, pollVars, redisVars, stream, rest, mode, faults>>

\* commit()
Commit(c) ==
  /\ visible' = [visible EXCEPT ![c] = incoming[c]]
  /\ pending' = [pending EXCEPT ![c] = FALSE]

\* The timer commits what it had when it was set.
MutTimer(c) == mode[c] = "timed" /\ UNCHANGED vars

Timer(c) ==
  /\ mode[c] = "timed"
  /\ Commit(c)
  /\ UNCHANGED <<row, dropping, pollVars, redisVars, streamVars, rest, incoming,
                 mode, overwritten, faults>>

\* Leaving a pause waits for the next update before it shows anything.
MutSetMode(c, m) ==
  /\ mode[c] # m
  /\ mode' = [mode EXCEPT ![c] = m]
  /\ UNCHANGED <<row, dropping, pollVars, redisVars, streamVars, rest, incoming,
                 visible, pending, overwritten, faults>>

\* Every change of mode shows the current state, except a pause.
SetMode(c, m) ==
  /\ mode[c] # m
  /\ mode' = [mode EXCEPT ![c] = m]
  /\ IF m = "paused" THEN UNCHANGED <<visible, pending>> ELSE Commit(c)
  /\ UNCHANGED <<row, dropping, pollVars, redisVars, streamVars, rest, incoming,
                 overwritten, faults>>

\* refreshNow.  One REST call of a screen is modelled at a time.
RefreshNow(c) ==
  /\ rest[c] = NoCall
  /\ rest' = [rest EXCEPT ![c] = [kind |-> "asked", why |-> "refresh"]]
  /\ UNCHANGED <<row, dropping, pollVars, redisVars, streamVars, viewVars, faults>>

\* GET /api/fleet reads the nodes table, then the cache.
ReadRows(c) ==
  /\ rest[c].kind = "asked"
  /\ rest' = [rest EXCEPT ![c] = [kind |-> "rows", why |-> rest[c].why, nodes |-> row]]
  /\ UNCHANGED <<row, dropping, pollVars, redisVars, streamVars, viewVars, faults>>

\* A node without a snapshot is pending, not left out.
ReadSnapshots(c) ==
  /\ rest[c].kind = "rows"
  /\ rest' = [rest EXCEPT ![c] = [kind |-> "answer", why |-> rest[c].why,
                                  map |-> [n \in rest[c].nodes |-> cache[n]]]]
  /\ UNCHANGED <<row, dropping, pollVars, redisVars, streamVars, viewVars, faults>>

\* The answer replaces the map and is shown at once; only refreshNow commits.
Answered(c) ==
  LET map == rest[c].map
      older == {n \in DOMAIN map \cap DOMAIN incoming[c] : map[n] < incoming[c][n]}
  IN
  /\ rest[c].kind = "answer"
  /\ rest' = [rest EXCEPT ![c] = NoCall]
  /\ incoming' = [incoming EXCEPT ![c] = map]
  /\ visible' = [visible EXCEPT ![c] = map]
  /\ pending' = IF rest[c].why = "refresh" THEN [pending EXCEPT ![c] = FALSE] ELSE pending
  /\ overwritten' = [overwritten EXCEPT ![c] = @ \cup older]
  /\ UNCHANGED <<row, dropping, pollVars, redisVars, streamVars, mode, faults>>

\* The call fails: refreshNow commits what has been collected all the same.
RestFails(c) ==
  /\ rest[c] # NoCall
  /\ rest' = [rest EXCEPT ![c] = NoCall]
  /\ IF rest[c].why = "refresh" THEN Commit(c) ELSE UNCHANGED <<visible, pending>>
  /\ UNCHANGED <<row, dropping, pollVars, redisVars, streamVars, incoming, mode,
                 overwritten, faults>>

\* The page is loaded again; the mode is kept in localStorage.
Reload(c) ==
  /\ stream' = [stream EXCEPT ![c] = "off"]
  /\ wire' = [wire EXCEPT ![c] = NothingSent]
  /\ rest' = [rest EXCEPT ![c] = [kind |-> "asked", why |-> "prime"]]
  /\ incoming' = [incoming EXCEPT ![c] = EmptyMap]
  /\ visible' = [visible EXCEPT ![c] = EmptyMap]
  /\ pending' = [pending EXCEPT ![c] = FALSE]
  /\ overwritten' = [overwritten EXCEPT ![c] = {}]
  /\ UNCHANGED <<row, dropping, pollVars, redisVars, mode, faults>>

-----------------------------------------------------------------------------
PollerNext ==
  \/ StartCycle
  \/ \E n \in Nodes :
       PollNode(n) \/ SetSnapshot(n) \/ PublishSnapshot(n) \/ StoreFails(n)

InventoryNext == \E n \in Nodes : DeleteNode(n) \/ DropSnapshot(n)

ScreenNext(c) ==
  \/ Subscribe(c) \/ Prime(c)
  \/ \E n \in Nodes : Receive(c, n)
  \/ Timer(c)
  \/ ReadRows(c) \/ ReadSnapshots(c) \/ Answered(c) \/ RestFails(c)

OperatorNext(c) ==
  \/ \E m \in Modes : SetMode(c, m)
  \/ RefreshNow(c)
  \/ Reload(c)

Next ==
  \/ PollerNext
  \/ InventoryNext
  \/ \E n \in Nodes : Expire(n)
  \/ \E c \in Screens :
       ScreenNext(c) \/ OperatorNext(c) \/ DropStream(c) \/ RefuseStream(c)

Spec == Init /\ [][Next]_vars

\* The poller runs, time passes, a stream forwards what it has, and a timer
\* that is set goes off.  Nobody is obliged to use a screen, and the snapshot of
\* a node that is polled need not expire.
Fairness ==
  /\ WF_vars(PollerNext)
  /\ \A n \in Nodes : WF_vars(DropSnapshot(n)) /\ WF_vars(n \notin row /\ Expire(n))
  /\ \A c \in Screens :
       /\ WF_vars(Prime(c))
       /\ \A n \in Nodes : WF_vars(Receive(c, n))
       /\ WF_vars(Timer(c))

FairSpec == Spec /\ Fairness

-----------------------------------------------------------------------------
(* Properties                                                              *)

\* The newest snapshot of a node that a screen has or is being sent.
Newest(c, n) ==
  IF wire[c][n] # <<>> THEN Last(wire[c][n])
  ELSE IF n \in DOMAIN incoming[c] THEN incoming[c][n] ELSE 0

\* "One REST call for the initial picture, then SSE deltas" (useFleet.tsx)
\* leaves no gap: a screen on a live stream has, or is being sent, the last
\* snapshot published of every node, through reconnects, pauses, failed
\* stores and REST answers; unless it expired since, or an older answer
\* replaced it.
StreamMissesNothing ==
  \A c \in Screens, n \in row :
    stream[c] = "live" /\ n \notin overwritten[c] => Newest(c, n) >= published[n]

\* A table that does not show what has arrived says so, in every mode but
\* live, where it always shows it ("PAUSED and the count of held updates
\* rather than letting a frozen page look like stale data", README).
HeldIsAnnounced ==
  \A c \in Screens : visible[c] # incoming[c] => pending[c] /\ mode[c] # "live"

\* A node's cached snapshot does not outlive the node: one stored by a cycle
\* that was under way when the node was deleted goes away in the end.
GhostsFade ==
  \A n \in Nodes : n \notin row ~> cache[n] = 0

\* A screen whose stream stays up and that is not paused ends up showing the
\* last snapshot published of every node, unless it expired or an older answer
\* replaced it.
ScreensCatchUp ==
  \A c \in Screens :
    <>[](stream[c] = "live" /\ mode[c] # "paused")
      => <>[](\A n \in row \ overwritten[c] : published[n] # 0 =>
                n \in DOMAIN visible[c] /\ visible[c][n] >= published[n])
=============================================================================
