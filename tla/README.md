# HAProxyOps in TLA+

TLA+ models of the parts of HAProxyOps that keep state and can go wrong between
two steps: on the server timed maintenance windows, alert notifications,
configuration writes and the live fleet view; in the browser bulk actions, the
page of a node and the screens that judge, filter, compare and chart the fleet.
TLC checks them on small instances; TLAPS proves every safety property the
passing runs check, for every instance. Paths are relative to the repository
(`backend/app/`, `frontend/src/`).

## 1. The system

HAProxyOps is one FastAPI process with one background poller, a Postgres
database, a Redis instance, and a React front end. It manages HAProxy nodes
through their Data Plane API, or reads them through the CSV statistics page.

| Component | State | Operations | Interacts with |
| --- | --- | --- | --- |
| Poller (`poller.py`) | where a cycle is; the snapshots of the cycle | read the enabled nodes, poll all, store and publish all, run alerting, run the sweep, sleep | drivers, Redis, alerting, maintenance |
| Snapshot cache (`state.py`) | one JSON snapshot per node with a time to live; one pub/sub channel | store (SET, then PUBLISH), read one or all, drop | poller writes; fleet reads, streams, exporter and node deletion |
| Maintenance holds (`maintenance.py`, `maintenance_holds`) | open holds: server, state, expiry | due, still held?, revert, release, sweep | actions create and supersede holds; the sweep calls the driver |
| Runtime actions (`routers/actions.py`) | requests in flight | set the admin state (with a window), set a weight, list holds | driver, holds, audit |
| Alerting (`alerting.py`) | one Redis key: problem -> since, notified | evaluate, decide, deliver, load and save | poller, webhook receiver, settings store |
| Settings store (`settings_store.py`) | one row: encrypted webhook URL | read with fallback, set, clear | alerting, settings router |
| Fleet reads and raw configuration (`routers/fleet.py`) | none of its own | fleet, node, raw config, validate, apply, audit list | cache, driver |
| Event stream (`routers/events.py`) | one subscription per client | subscribe, prime, forward, keep alive, close | Redis, browsers |
| Node inventory (`routers/nodes.py`) | `nodes` table | create, update, delete, test | poller reads; deletion drops the cached snapshot and cascades to holds |
| Drivers (`drivers/`) | routing cache per node | snapshot, raw config, runtime and configuration writes | the HAProxy nodes |
| Sessions (`auth.py`, `deps.py`, `revocation.py`, `ratelimit.py`, `security.py`) | users; denied tokens, cut-offs and failure counters in Redis | sign in, sign out, revoke, create user, role check | every router |
| Metrics (`metrics.py`, `prom_export.py`) | none | range queries, exposition of the cache | Prometheus, cache |
| Start-up (`main.py`, `db.py`) | schema revision | migrate, first admin, start and stop the poller | all |
| Fleet provider (`useFleet.tsx`) | collected and shown snapshots, refresh mode, pending count | first read, stream handler, timer, mode change, resync | REST, event stream |
| Config editor (`ConfigEditor.tsx`, `pages/Config.tsx`) | query data, draft, validation, dialog | read, edit, validate, confirm, apply, switch node | raw config endpoints |
| Bulk actions (`bulk.ts`) | the queue the workers share, the outcomes so far | forecast the impact, apply with at most four in flight, report in order | node page, action endpoints |
| Node page (`pages/NodeDetail.tsx`) | picks, dialogs, busy flags, failures, filter, sections | pick, act on one server or on all picked, filter, toggle, go to another node | provider, bulk actions, services |
| Fleet page and shell (`pages/Fleet.tsx`, `Shell.tsx`) | filter, problems only, groups, expanded rows, sort | all of these | provider, services |
| Metrics page and graphs (`pages/Metrics.tsx`, `TimeSeriesChart.tsx`) | chosen and remembered node, the range's answer, colours | pick a node or range, refetch | provider, Prometheus |
| Configuration comparison (`pages/Config.tsx`) | the two nodes, what each answered | pick either, edit one | provider, configuration endpoints |
| Pure rules (`services.ts`, `configdiff.ts`) | none | group and judge services, diff configurations | the screens |

What is hard here is that no transaction spans the stores: the state of a
server is on the node, the hold in Postgres, the snapshot in Redis and in the
memory of a cycle, and a copy of it in each browser. Each `await` is a place
where another actor may go. `PROJECT.json` lists the hazards line by line.

What makes each component correct:

- *Maintenance*: a server taken out for a time comes back, a change ends every
  window it finds on its server, and the sweep never acts against a newer
  decision.
- *Alerting*: a notice is about a persistent problem, on a transition, and the
  receiver ends up believing what is so.
- *Configuration writes*: no write undoes another one, nothing unvalidated or
  meant for another node is applied.
- *Live view*: nothing published is missed, nothing old is passed off as new,
  and a frozen table says so.
- *Bulk actions*: every target is called once, at most four at a time, and the
  action ends in a report of every outcome in the caller's order.
- *Node page*: the forecast before a bulk action is what it does, failures stay
  picked for a retry, and no dialog stays busy for good.
- *Screens*: the rules that judge a node part nowhere but where it is said,
  trouble is shown without being asked for, what the user chose outlives polls,
  a comparison says "identical" exactly when it is, and a line of a graph keeps
  its colour while the graph is on the page.
- *Sessions, inventory, routing cache* (not modelled): a revoked token is
  refused and a lockout ends; unique names under concurrent requests; cached
  routing that follows the configuration.

## 2. Modules

| Module | Models | Proofs |
| --- | --- | --- |
| `Windows` | what timed maintenance promises (abstract) | |
| `Maintenance` | admin-state requests, holds, the poll cycle and its sweep; implements `Windows` | `MaintenanceProofs` |
| `MCMaintenance` | the one server TLC checks `Maintenance` on | |
| `Alerting` | one alerting run per cycle, its state, posts and receiver | `AlertingProofs` |
| `ConfigWrites` | the editor screen, the weight request, the driver's calls, the node | `ConfigWritesProofs` |
| `LiveView` | cache, channel, event stream, REST read, fleet provider | `LiveViewProofs` |
| `BulkAction` | what a bulk action promises its caller (abstract) | |
| `BulkPool` | the workers and their queue; implements `BulkAction` | `BulkPoolProofs` |
| `NodePage` | the page of a node, composed with `BulkPool` (EXTENDS) | `NodePageProofs` |
| `MCNodePage` | the small node TLC checks `NodePage` on | |
| `Ordered` | sorting by an order that never ties | `OrderedProofs` |
| `Services` | the rules that judge nodes and group services, as operators | |
| `ConfigDiff` | the comparison of two configurations, as operators | |
| `Charts` | colours, scale, labels and pointer of the graphs, as operators | |
| `Dashboard` | the screens over the provider's nodes, composed of the four above | `DashboardProofs` |
| `MCDashboard` | the snapshots, names and configurations TLC checks `Dashboard` on | |

An action is the code from one `await` to the next: what another task can see
in between is a state. Logging, wording and audit rows are left out; calls to a
node or a receiver may succeed, fail before they have an effect, or have it and
lose the answer. The `map` of `PROJECT.json` gives the lines of every
definition. Operators named `Mut...` are deliberate faults of the definition
that follows them; no specification uses them.

### Maintenance

One variable per place the truth is kept: `adminState` and `failing` on the
node, `hold` in Postgres, `view` the snapshots of the running cycle, `closing`
what the sweep's session will commit. `due` abstracts the clock to the question
the sweep asks of it: a window may close at any time after it was opened, within
the cycle that saw it opened too. A request goes `calling` (the driver call),
`applied` (the node answered), `selected` (it has read the open holds it
supersedes), `done` (committed): the three awaits of `set_admin_state`. Nothing
keeps two requests on one server apart, so they overlap in any way. The poller
goes `polling`, `sweeping`, `reverting` and back. `CloseUnneeded`, `KeepUnseen`
and `StartRevert` are the three ways out of the body of `sweep`'s loop;
`RevertSucceeds`, `RevertUnanswered` and `RevertFails` the outcomes of its call;
`CommitSweep` the one commit at its end, `RollbackSweep` the exception that
`poll_once` swallows. `Crash` ends every request and the cycle and keeps the
node, the table and nothing else. `DeleteNode` cascades to the hold rows.

What the sweep compares is the status column of a snapshot, not the state that
was set. `Status` says how HAProxy makes that column: a maintained server is
MAINT whatever its health, and one that fails its check is DOWN, drained or
not. `PollNode` stores it and `StillHeld` is the code's test of it. So a hold
can be dropped although nobody touched its server; the variable `ailed` records
that a poll found a drained server failing, `outrun` that a hold was opened and
due within one cycle (the snapshot may then be older than the hold), and the
properties name the two as the only doubts on which a hold is dropped.
`before`, `touched`, `overruled`, `returned` and `fresh` are history as well.

`Windows` is what an operator can rely on: a change that is answered has ended
every window that was open on its server when it was sent, and may open one of
its own; a window ends otherwise only once its server has left the state the
window put it in, or was doubted to be in it, or with its node; and what has
ended stays so. A change may miss the window that another opens while both are
under way: then several stay open, each of which still ends once and for a
cause. The refinement mapping takes the open rows of the table for the open
windows, the released and deleted ones for the ended, `before` for what a change
found, `Left` (`overruled`, `returned`) for the servers that left, and
`Doubted` (`ailed`, `outrun`) for the doubts.

| Run | Shows |
| --- | --- |
| `maintenance` | `LaterChangeSupersedes`, `QuietRevertIsWanted`, `ReleasedForCause`, `WindowsAreKept` (the table implements `Windows`), and that every open hold is released and every held server returns, unless its node is switched off, a later change replaced the hold, or there was a doubt |
| `maintenance_override` | the sweep overrides a change made after its poll (violation) |
| `maintenance_drained_down` | a drained server fails its check and its hold is dropped as if somebody had changed it (violation) |

Bounds: one server, two requests with any of four bodies (ready, drain, drain
for a time, maint), one fault, states set from outside `{"ready", "absent"}`.
Two requests are enough for a hold and the change that supersedes it, or two
that overlap and leave two windows; holds of different servers interact only
through the sweep's single commit, which the model keeps. Holds are drain
holds, since a maintained server's status is never anything else. One fault
places an outage, a failed check, a crash or a lost answer at any point. A
fault leaves the hold open, which is where the next attempt starts from, so
more faults repeat what one does; the theorems hold for any number of them, of
requests and of servers.

### Alerting

`stored` is the Redis key; `next` the state `decide` returned and `save_state`
has yet to write. Stamps are ages that saturate at the thresholds they are
compared with, so the clock is unbounded and the state finite. Only the poller
runs alerting, so `load_state`, `evaluate` and `decide` are one step
(`Run`, `RunUnread` when Redis fails, `RunMuted` without a webhook); each post
is a step (`Post`, `PostLost`), firing before resolving as in the code, then
`Save` or `SaveFails`. `heard` is what the receiver believes. `Problems` is
`evaluate`: an unreachable node reports only itself, backups do not count.

| Run | Shows |
| --- | --- |
| `alerting` | `FiresAfterPersisting`, `NoticesAreSpaced`, `ResolvesWhatFired`, `BeliefMatchesState`, `TroubleIsHeard` |

Bounds: one node (keys of different nodes do not interact), two active servers
and a backup (so up, degraded and down differ and a backup can be seen not to
matter), a delay of two ticks and a repeat of three (so that the delay, the
repeat and the ticks in between are distinct), one disturbance of any of the
five kinds. Each property names the disturbances under which it holds.

### ConfigWrites

A setting is represented by the version that last changed it, so an undone
change is visible in the file. The screen's query reads the text and then the
version (`ReadText`, `ReadVersion`); a refetch may start at any time the
library starts one (`Reconnect`). `draft`, `validated` and `confirming` are the
component's state; `call` the mutation in flight, with the text and version it
captured. `Switch` is the node picker and resets what the effect resets, which
is not `confirming`. A weight request reads the server, then the version, and
puts the whole server back. `Accepts` is the node's version check.

| Run | Shows |
| --- | --- |
| `config` | `FreshWritesUndoNothing`, `TextsStayHome`, `EditsAreValidated`, with a weight request, another client, and a switch of nodes with calls in flight |
| `config_silent_overwrite` | a concurrent edit undone without a 409 (violation) |

Bounds: two writes in all (`MaxWrites`; one under the screen or the weight
request, and its own), on one of two nodes or on both, one screen and one weight
request; two settings, the field of a server that is weighed and another one of
it, which is also the one edited on the screen (`Typed`). Settings outside the
server that is weighed, more writes and several screens are left to the
theorems.

### LiveView

A snapshot is the number of its poll. `cache` is Redis, `wire` what the channel
and the HTTP response still hold for a screen, `rest` a REST read with its two
steps (rows, then snapshots), `incoming` and `visible` the provider's two maps,
`pending` whether the held updates are counted. `SetSnapshot` and
`PublishSnapshot` are the two halves of `store_snapshot`; `Subscribe`, `Prime`
and `Receive` the stream; `Commit` is `commit()`, which `Timer`, `SetMode` and
`refreshNow` call. `Expire` is the time to live: it may pass at any time a
snapshot is cached, as the polls and the stores of a node may take that long;
for a node that is gone, which nobody refreshes, it must pass in the end. What
has expired is not claimed to reach anybody. A mode change commits in an effect
after the render; the two are one step. A screen has one REST call in flight at
a time.

| Run | Shows |
| --- | --- |
| `live` | `StreamMissesNothing`, `HeldIsAnnounced`, `GhostsFade`, `ScreensCatchUp` |

Bounds: one node and one screen (neither nodes nor screens influence each
other except through the end of a poll cycle), three polls (cached, published
and on the wire can all differ), one fault.

### BulkAction and BulkPool

`BulkAction` says what the comment above `applyBulk` says: calls go out, at most
`Limit` at a time and one per target, outcomes come in any order, and the action
ends in a report in the caller's order. `BulkPool` is the code, for any number
of calls of `applyBulk` beside each other (`Runs`): `applyBulk` fills the
workers' hands, `Answer` records an outcome and takes the next target (one
step, as JavaScript does not yield between the two), `resolve` is the
`Promise.all` and the sort, `Resume` the caller's code after the await. A call
that throws is an outcome like any other. The refinement mapping takes the
hands for the calls that are out and the outcomes for what is settled.

| Run | Shows |
| --- | --- |
| `bulk` | `EveryTargetOnce`; `BulkPromise`, that every run of the pool implements `BulkAction` with its liveness |

Bounds: two runs beside each other, up to three targets and two workers each, so
that the queue is longer than the workers' hands, runs empty under one of them
first, and a selection smaller than the number of workers occurs too. The
theorems hold for any numbers.

### NodePage

`serving` is what is up on the nodes, `snap` what the page shows of it. A bulk
action goes `AskBulk`, `runBulk`, the pool's steps with the node's answers
(`BulkAnswer`), `BulkResolve`, and `BulkResume`, which is the rest of `runBulk`
after the await: the failures are listed and stay picked. A single action goes
`ClickReady` or `ClickOut` and `ConfirmAction`, then `Settle`, which does what it
does to whichever dialog is open by then. Calls may work, be refused, or work and
lose the answer. `Navigate` keeps the page mounted and all it remembers, as
the router does; `Reopen` unmounts it while its calls are out (`here` is FALSE
from then on). Picks, like the failures listed, are a set: the order in which
they came to be picked is that of the calls, and `Orders` leaves it open. A page
opened anew starts its bulk action in a run of its own, beside that of the page
before, as the code does: with `Limit` calls out for each, so eight for two.
`job` says what each run was started for; its `forecast` is history, kept as
long as nothing but the run's own calls touches the node. `MaxOut` and the
number of `Runs` bound the actions in flight.

| Run | Shows |
| --- | --- |
| `node_page` | `ImpactHolds`, `FailuresStayPicked`, `BusyDialogsWait`, and `RunsThePool`: what the pages do to the runs of the pool is what `BulkPool` allows |
| `node_page_orphaned` | an answer closes the dialog of another call, which is then in flight with nothing to show for it (violation) |

Bounds: one active server and its backup in one backend, so that taking the
active one out empties the backend although a server is up, and a second node
that reports nothing, to navigate to; one worker, since what several do is
`bulk`; two actions in flight, bulk ones in any mix with a single one
(`node_page_orphaned` has one run and two single calls, which it needs). A page
is opened again only while a run is left for it.

### Services, ConfigDiff, Charts and Dashboard

`Services`, `ConfigDiff` and `Charts` are the pure functions of the front end.
`Services` has the judgements of a node (`toRow`, `stateOf`, `IsProblem`,
`allUp`) and `groupServices` with `serviceHealth`; a snapshot is its flags, its
frontends with what they route to, and its backends with their servers.
Frontends are in order, since the first that reaches a backend shows its
servers; backends and servers are sets of records with distinct names, as the
order in which a list is drawn is no property here. `IsSnapshot` says what any
driver can report: names distinct within a list, a frontend listing a backend
once (`routed_backends`), nothing under a node that was never polled or did not
answer, and a backend's `servers_up` and `servers_total` the counts of its list,
as the drivers make them; `counts` is the fallback of `serviceHealth` to those
totals. `ConfigDiff` flattens and compares; a setting is a path, and an ignored
key is ignored at the top only. `Charts` is `useSeriesColors`, `niceMax`, the
scale, `layoutLabels` and the pointer. Where the code sorts, `Ordered` gives the
one sequence in order; every order used here ends in a name or an index and so
never ties, which is also why the code's sort has one outcome.

`Dashboard` mounts one screen at a time over the provider's nodes. `Arrives` and
`Leaves` are what the provider commits (`LiveView` says when); `Go` and
`GoToNode` the routes, with what a screen forgets when it is left; the other
actions what a user can do on each screen, and the answers to its queries
(`Refetch`, `ConfigAnswered`). What is shown (`rows`, `sections`, `listed`,
`diff`, ...) is worked out from that state as the components do at each render.

| Run | Shows |
| --- | --- |
| `dashboard` | `AnswersCompared`, `ProblemsLead`, `NothingDropped`, `FilterLeavesRows`, `ChoicesStick`, `ChartsARealNode`, `DiffIsTheDifference`, `ColoursStay`, `LabelsAreApart` |
| `dashboard_pointer` | one index reads two series at different times (violation) |

Two of these properties say how far the code is from what its texts promise.
`AnswersCompared` states by exactly which nodes the rules differ. The count on
"Problems only" includes the disabled nodes whose last snapshot has a server
down, which the filter hides, although `README.md:117-120` and
`Fleet.test.tsx:276` have the two agree; the shell's `nodes_down` includes nodes
that were not polled yet (`useFleet.tsx:171`), which are no problems; and a
backend is marked for a backup that is down, which no other rule minds.
`ColoursStay` states what becomes of "as long as the page is open" and "never
cycled" (`TimeSeriesChart.tsx:24`, `:10`): a name keeps its colour as long as its
graph is mounted; a change of the range or the node unmounts the graphs, and one
that comes back gives its colours anew, by position; and two names of a graph
share a colour exactly when it has seen more names than there are colours.

Bounds: two nodes in two groups whose order is not the names', with a handful of
snapshots each that cover what a node can be reported as, a backend with no
servers included; `ServiceLimit` one, so that one node is large and the other
small; two colours for three names, so that the palette runs out; three lines at
most, ending at six values chosen to fall together, apart, and at both ends of
the scale; two stamps with at most two series each, so that a series can be
missing at one. Values and pixels are whole numbers. A filter is a needle with
the set of names that contain it, which is all that matching letters is used
for.

## 3. Fairness

Fairness is asked only of what the code or the world guarantees.

- `Maintenance`: the poll loop (`poll_loop` runs for the life of the process
  and a crash restarts it), time (`WindowCloses`), the end of an outage. No
  fairness for requests, for enabling a node, or for success: that the call
  does succeed follows from the bound on faults and the end of outages.
- `Alerting`: the run and the clock; a cleared webhook is set again. A lost
  post is a choice at every attempt and bounded, not excluded by fairness.
- `ConfigWrites`: calls under way end, since every one has a timeout. Its runs
  check action properties, which hold with or without it.
- `LiveView`: the poller, the time to live, the stream's forwarding, and a timer
  that is set. Nobody is obliged to use a screen, and a refused stream is not
  retried (an `EventSource` does not), so `ScreensCatchUp` speaks of streams
  that stay up.
- `BulkPool`: every request of a browser ends, with an answer or an error
  (`Answer` of each worker), and the code that awaits it runs (`resolve`). The
  caller owes nothing: `Ends` asks for the report, not for what is done with it.
- `NodePage` and `Dashboard` claim safety only and state no fairness.

## 4. What is proved

TLAPS proves the theorems for every value of the constants that meets the
`ASSUME`s: any number of nodes, servers, requests, screens, workers, versions,
faults. Each proof module has an inductive invariant in named parts, a lemma
that every step preserves it with one proof step per action, and short temporal
theorems.

- `MaintenanceProofs`: `TypeCorrect`, `LaterChangeCorrect`,
  `QuietRevertCorrect`, `ReleasedForCauseCorrect` and `WindowsAreKeptCorrect`,
  the refinement of `Windows`, in which a commit of a request is an answer, the
  sweep's commit a release, a deletion takes its windows along, and every other
  step stutters or is something that happens to a server. None assumes anything
  of how requests overlap or how long a cycle is, and none of the properties is
  inductive alone. That a change ends what it found needs that the windows open
  when it was sent are selected, or have ended meanwhile (`SupersedeInv`). The
  quiet revert needs what a snapshot nobody touched since says of the server
  (`AsSeen`) and of the holds on it (`QuietInv`), which needs that a request in
  flight marks its server (`FlightInv`). Release for a cause needs what the
  snapshot proves about the past: a change that was applied put the server where
  the hold has it, or the hold is excused (`AppliedInv`); the cycle saw the
  state of the hold, or it is excused (`SeenInv`); and what is waiting to be
  committed already has its cause (`ClosingInv`).
- `AlertingProofs`: `TypeCorrect`, `FiresAfterPersistingCorrect`,
  `BeliefMatchesStateCorrect`, `NoticesAreSpacedCorrect`,
  `ResolvesWhatFiredCorrect`. The invariant is about `Known`, the saved state
  between runs and the decided one during a run: its ages are not older than the
  problem (`AgeInv`) nor its silence longer than the real one (`QuietInv`), what
  it calls told is open (`OpenedInv`), and the posts to come turn the receiver's
  belief into it (`BeliefInv`).
- `ConfigWritesProofs`: `TypeCorrect`, `TextsStayHomeCorrect`,
  `FreshWritesCorrect`, `EditsValidatedCorrect`. `AllFit` says that every text
  in the system was read from the node it would go to, at a version not newer
  than the node's, and equals its file if nothing was written since; `GateInv`
  what the disabled button, the dialog and the resets keep about a draft.
- `LiveViewProofs`: `TypeCorrect`, `StreamMissesNothingCorrect`,
  `HeldIsAnnouncedCorrect`. That a stream has no gap needs three facts about
  different places: the cache is never behind the channel for a node that exists
  (`CacheInv`, from SET before PUBLISH), the last message on a stream is of the
  last snapshot published (`StreamInv`), and a REST answer has an entry for every
  row there still is (`RestInv`).
- `BulkPoolProofs`: `TypeCorrect`, `EveryTargetOnceCorrect` and
  `PoolImplements`, that the steps of each run are `BulkAction`'s or stutter,
  whatever the other runs do. That no target is left behind needs that a worker
  only stops on an empty queue (`IdleMeansDrained`); that the report is complete
  needs what a run leaves at rest (`AtRest`). `PoolImplements` is about the
  safety of the promise; that the action ends is checked by `bulk`.
- `NodePageProofs`: `PageTypeCorrect`, `FailuresStayPickedCorrect`,
  `BusyDialogsWaitCorrect`, `RunsThePoolCorrect`, `ImpactHoldsCorrect`, and
  `PageImplements`, which chains `RunsThePool` with `PoolImplements`. `PageInv`
  contains the runs' invariant: that the failures stay picked needs to know
  which job the results are of (`JobRuns`) and that a page has one job of its
  own at a time (`BulkWaits`), and that no empty job starts needs that a dialog
  that asks has picks to ask about (`AsksForSomething`). The forecast needs a
  second invariant about the past: since it was made, only the run's own calls
  touched the node, and each backend is as the targets still waiting, out and
  answered make it (`ForecastFollows`, with `OnlyListed`).
- `OrderedProofs`: `InOrderCorrect`, that `Ordered` sorts. It is the place where
  an argument by induction is needed, and it is made with a least counterexample
  in a set of numbers, which the provers can follow.
- `DashboardProofs`: `DashboardTypeCorrect`, `ColoursStayCorrect`,
  `ChoicesStickCorrect`, `ChartsARealNodeCorrect`, `FilterLeavesRowsCorrect`,
  `AnswersComparedCorrect`, `NothingDroppedCorrect`,
  `DiffIsTheDifferenceCorrect`, `ProblemsLeadCorrect`, `LabelsAreApartCorrect`,
  for any fleet, reports, names, needles, configurations, values and plot. The
  inductive part is small (`DashInv`): what is shown was reported, the page and
  the storage agree on a node, and a graph's slots are the first ones, each to
  one name, until the colours run out, and shared from then on (`ColoursKnown`).
  The rest is about the operators: the counts the screens add up are zero
  exactly when no active server is down, the servers of each backend are listed
  under one frontend, the first that reaches it, a comparison is symmetric, and
  a label is pushed past the one above it.

The assumptions on constants are those of the code. `NodesAssumption`,
`SeriesAssumption` and `ConfigsAssumption` say that lists are finite;
`RankAssumption` that distinct names compare as different (node names are
unique, and so are the groups' and series' keys); `ReportsAssumption` is
`IsSnapshot`; `ValuesAssumption` that every value has its power of ten, which
`niceMax` takes from a logarithm; `NothingAssumption` that null is none of the
things it stands for the absence of.

An attempt to prove `FilterLeavesRows` as it was first written failed for a good
reason: a section listed for the name of a backend that has no servers shows no
row although another backend of the section has some. The property now has that
case, and the run has a node that reports such a backend (`Emptied`).

Only model-checked is what the prover cannot reach: liveness
(`HoldsAreReleased`, `HeldServersReturn`, `TroubleIsHeard`, `GhostsFade`,
`ScreensCatchUp`, the end of `BulkPromise`). Every other property of a passing
run is a theorem.

Five runs exhibit a disagreement between the code and what it says of itself;
they are listed under `findings` with both lines.

## 5. What is not modelled

- Cryptography, TLS, HTTP framing, logging and its redaction, rendering,
  translations of field names, deployment files: no protocol of their own.
- Durations of calls: timeouts are outcomes, not times. That a slow webhook
  delays the sweep is therefore a hazard without a property.
- Sessions and sign-in, the check-then-insert of names, the routing cache, audit
  rows: see the roadmap.
- The weight editor of a row and its notices; the table of numbers under a
  graph and the open state of a backend's rows; Lua frontends (a caption).
- The forms and lists of the other pages, each over one request.
- Several API replicas: the code states it is run as one.

Some behaviours are in the models and in the runs, and no property claims
otherwise, because the code has them: a timed change whose answer is lost or
whose process dies has no hold to end it (`RequestLost`, `Crash`); two
overlapping requests may leave two windows; a cycle longer than a window may
drop a fresh hold (`outrun`); a resolution whose post fails is not sent again;
the alerts of a node that becomes unreachable are announced as resolved; the
confirmation dialog of the editor stays open across an edit and a switch of
node; an older REST answer may replace newer snapshots. Those that are hazards
are in the list with a note.

Further hazards no model reaches: the delay a dead webhook puts on the sweep; a
crash between an apply and its audit row; two requests that create nodes of one
name; a snapshot of a deleted node on the wire, which a screen keeps until its
next resync.

## 6. Roadmap

In order; each item names what it adds.

1. `Sessions`: sign-in with its rate limiter, tokens with issue times in whole
   seconds, sign-out, revocation, role changes, and Redis outages; a revoked
   session is refused while Redis answers, a lockout ends.
2. `Inventory`: check-then-insert of node names, user names and the settings
   row, with two requests each; deletion against the poller; audit rows.
3. `RoutingCache`: the version-keyed cache of routing rules in the driver, with
   failed lookups, configuration changes and both API versions.
4. `Alerting`: nodes that are disabled; an abstract alert channel refined by it
   where no disturbance occurs.
5. `NodePage`: the weight editor.

Theorems still worth proving: that overlapping requests leave at most as many
open windows as there were requests at once; the refinement of 4; safety of
`Sessions` and `RoutingCache`.
