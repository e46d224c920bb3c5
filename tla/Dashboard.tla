----------------------------- MODULE Dashboard -----------------------------
(***************************************************************************)
(* The screens that show the fleet (App.tsx's routes to Fleet.tsx,         *)
(* NodeDetail.tsx, Metrics.tsx and Config.tsx), one mounted at a time over *)
(* the nodes of one fleet provider, which change under it with every poll. *)
(* What a screen shows is worked out by Services, ConfigDiff and Charts    *)
(* from the nodes and from what the screen remembers.                      *)
(*                                                                         *)
(* Picking servers and acting on them is in NodePage, editing a            *)
(* configuration in ConfigWrites.                                          *)
(***************************************************************************)
EXTENDS Services, ConfigDiff, Charts

CONSTANTS
  Nodes,         \* node ids; they stand for the nodes' names too
  Groups,
  GroupOf,       \* node -> group
  Rank,          \* node, group or series -> its place in the alphabet
  Reports,       \* node -> the snapshots it can have
  ServiceLimit,  \* SERVICE_LIMIT
  Needles,       \* what can be typed into a filter, other than nothing
  Hits,          \* needle -> the names that contain it
  Sections,      \* the services' keys
  SeriesNames,   \* what is charted
  Stamps,        \* the timestamps of a query's answer, 1..n
  MaxSeries,     \* MAX_SERIES of the server's topk()
  Configs        \* what a node can declare

CONSTANTS None, Everything   \* no choice made; an empty filter

ASSUME NodesAssumption == IsFiniteSet(Nodes) /\ None \notin Nodes
ASSUME ReportsAssumption ==
  \A n \in Nodes : \A node \in Reports[n] :
    /\ IsSnapshot(node)
    /\ \A i \in DOMAIN node.frontends : node.frontends[i].name \in Sections
ASSUME RankAssumption ==
  /\ GroupOf \in [Nodes -> Groups]
  /\ Rank \in [Nodes \cup Groups \cup SeriesNames -> Nat]
  /\ \A S \in {Nodes, Groups, SeriesNames} : \A m, n \in S : Rank[m] = Rank[n] => m = n
ASSUME SeriesAssumption ==
  IsFiniteSet(SeriesNames) /\ Stamps \subseteq Nat /\ IsFiniteSet(Stamps)
ASSUME ConfigsAssumption == \A config \in Configs : IsConfig(config)

VARIABLES
  fleet,   \* the provider's nodes: a partial function from ids to snapshots
  saved,   \* the metrics page's node in localStorage
  page     \* the mounted screen, with its state
vars == <<fleet, saved, page>>

-----------------------------------------------------------------------------
(* The screens' state                                                      *)

SortKeys == {"health", "name", "group", "serversDown", "serversTotal"}
Sorts == [key : SortKeys, dir : {1, -1}]
Filters == Needles \cup {Everything}
ByTime == {p \in Stamps \X Stamps : p[1] < p[2]}
SeriesKinds == {[name |-> name, stamps |-> InOrder(S, ByTime)] :
                  name \in SeriesNames, S \in SUBSET Stamps}
Card == [series : Seq(SeriesKinds),
         assigned : UNION {[S -> 0..(Colours - 1)] : S \in SUBSET SeriesNames}]
ASSUME NothingAssumption == None \notin Configs /\ None \notin BOOLEAN /\ None \notin Card

FleetScreen == [route : {"fleet"}, filter : Filters, problemsOnly : BOOLEAN,
                grouped : BOOLEAN, expanded : SUBSET Nodes, sort : Sorts]
NodeScreen == [route : {"node"}, id : Nodes, filter : Filters, showAll : BOOLEAN,
               toggled : [Sections -> BOOLEAN \cup {None}]]
MetricsScreen == [route : {"metrics"}, nodeId : Nodes \cup {None}, card : Card \cup {None}]
ConfigScreen == [route : {"config"}, leftId : Nodes \cup {None},
                 rightId : Nodes \cup {None}, editing : BOOLEAN,
                 answers : [Nodes -> Configs \cup {None}]]

TypeOK ==
  /\ \E S \in SUBSET Nodes : fleet \in [S -> UNION {Reports[n] : n \in Nodes}]
  /\ saved \in Nodes \cup {None}
  /\ page \in FleetScreen \cup NodeScreen \cup MetricsScreen \cup ConfigScreen

OpenFleet == [route |-> "fleet", filter |-> Everything, problemsOnly |-> FALSE,
              grouped |-> FALSE, expanded |-> {}, sort |-> [key |-> "health", dir |-> 1]]
OpenNode(id) == [route |-> "node", id |-> id, filter |-> Everything, showAll |-> FALSE,
                 toggled |-> [s \in Sections |-> None]]
OpenMetrics(remembered) == [route |-> "metrics", nodeId |-> remembered, card |-> None]
OpenConfig == [route |-> "config", leftId |-> None, rightId |-> None, editing |-> FALSE,
               answers |-> [n \in Nodes |-> None]]

On(route) == page.route = route
Shown == DOMAIN fleet
Matches(filter, name) == filter = Everything \/ name \in Hits[filter]

ByName(S) == {p \in S \X S : Rank[p[1]] < Rank[p[2]]}

\* The provider hands its nodes out by group, then name; a page that has no
\* choice, or whose choice is gone, takes the first.
options(nodes) ==
  InOrder(DOMAIN nodes, {p \in Nodes \X Nodes :
    \/ Rank[GroupOf[p[1]]] < Rank[GroupOf[p[2]]]
    \/ GroupOf[p[1]] = GroupOf[p[2]] /\ Rank[p[1]] < Rank[p[2]]})

Chosen(nodes, id) ==
  IF id \in DOMAIN nodes THEN id
  ELSE IF nodes = <<>> THEN None ELSE options(nodes)[1]

-----------------------------------------------------------------------------
(* The fleet table                                                         *)

SortValue(row, key) ==
  CASE key = "name" -> Rank[row.name]
    [] key = "group" -> Rank[GroupOf[row.name]]
    [] OTHER -> row[key]

\* A mutant: rows that tie stay in the provider's order.
MutRowBefore(sort, r, s) ==
  LET x == SortValue(r, sort.key)
      w == SortValue(s, sort.key)
  IN \/ (x - w) * sort.dir < 0
     \/ x = w /\ Rank[GroupOf[r.name]] < Rank[GroupOf[s.name]]

RowBefore(sort, r, s) ==
  LET x == SortValue(r, sort.key)
      w == SortValue(s, sort.key)
  IN \/ (x - w) * sort.dir < 0
     \/ x = w /\ Rank[r.name] < Rank[s.name]

RowPasses(row) ==
  /\ Matches(page.filter, row.name) \/ Matches(page.filter, GroupOf[row.name])
  /\ page.problemsOnly => row.state \in {"down", "degraded"}

rows == {r \in {toRow(n, fleet[n]) : n \in Shown} : RowPasses(r)}

Sorted(S) == InOrder(S, {p \in rows \X rows : RowBefore(page.sort, p[1], p[2])})

\* The tables on the page: one, or one per group in the groups' order.
sections ==
  IF ~page.grouped THEN <<Sorted(rows)>>
  ELSE LET groups == InOrder({GroupOf[r.name] : r \in rows}, ByName(Groups))
       IN [k \in DOMAIN groups |-> Sorted({r \in rows : GroupOf[r.name] = groups[k]})]

problemCount == Cardinality({n \in Shown : IsProblem(fleet[n])})

-----------------------------------------------------------------------------
(* The services of a node                                                  *)

grouping == groupServices(fleet[page.id])
match(name) == Matches(page.filter, name)

BackendMatches(b) == match(b.name) \/ \E s \in b.servers : match(s.name)

serviceMatches(service) ==
  \/ match(service.frontend)
  \/ \E name \in service.missing : match(name)
  \/ \E b \in service.backends : BackendMatches(b)

atScale == Cardinality(DOMAIN grouping.services) > ServiceLimit
filtering == page.filter # Everything
matching == {s \in ServicesOf(grouping) : serviceMatches(s)}

\* A mutant: only what is down is a problem.
MutListed ==
  IF filtering \/ ~atScale \/ page.showAll THEN matching
  ELSE {s \in matching : serviceHealth(s) = "down"}

listed ==
  IF filtering \/ ~atScale \/ page.showAll THEN matching
  ELSE {s \in matching : serviceHealth(s) # "ok"}

visibleOrphans == {b \in grouping.orphans : BackendMatches(b)}

defaultOpen(service) == serviceHealth(service) # "ok" \/ filtering \/ ~atScale

isOpen(service) ==
  IF page.toggled[service.frontend] = None THEN defaultOpen(service)
  ELSE page.toggled[service.frontend]

SectionKeys == {s.frontend : s \in ServicesOf(grouping)}
OpenSections == {s.frontend : s \in {t \in ServicesOf(grouping) : isOpen(t)}}

\* A mutant: every server is held against the filter by itself.
MutVisibleServers(backend, parentMatched) ==
  {s \in backend.servers : match(backend.name) \/ match(s.name)}

\* The server rows of a backend that the filter leaves.
VisibleServers(backend, parentMatched) ==
  {s \in backend.servers : parentMatched \/ match(backend.name) \/ match(s.name)}

\* The lists of a node whose configuration cannot be read.
flatBackends == {b \in fleet[page.id].backends : BackendMatches(b)}

\* A node that is not there shows a line of text, and one whose configuration
\* cannot be read its lists, instead of services.
Grouped == On("node") /\ page.id \in Shown /\ ~grouping.unavailable

-----------------------------------------------------------------------------
(* The nodes and configurations a comparison is of                         *)

left == Chosen(fleet, page.leftId)
right == IF page.rightId \in Shown THEN page.rightId ELSE None
Answer(n) == IF n = None THEN None ELSE page.answers[n]
Comparing == On("config") /\ Answer(left) # None /\ Answer(right) # None
diff == diffConfigs(Answer(left), Answer(right))

-----------------------------------------------------------------------------
(* Steps                                                                   *)

Turn(newPage) == page' = newPage /\ UNCHANGED <<fleet, saved>>

\* A mutant: what is charted is not remembered.
MutChart(nodes, newPage) ==
  /\ page' = IF Chosen(nodes, newPage.nodeId) = Chosen(fleet, page.nodeId) THEN newPage
             ELSE [newPage EXCEPT !.card = None]
  /\ saved' = saved

\* The graphs are keyed by the node they are of, and that node is remembered.
Chart(nodes, newPage) ==
  LET selected == Chosen(nodes, newPage.nodeId)
  IN /\ page' = IF selected = Chosen(fleet, page.nodeId) THEN newPage
                ELSE [newPage EXCEPT !.card = None]
     /\ saved' = IF selected = None THEN saved ELSE selected

Provide(nodes) ==
  /\ fleet' = nodes
  /\ IF On("metrics") THEN Chart(nodes, page) ELSE UNCHANGED <<page, saved>>

\* The provider commits a snapshot of a node, or a list without it.
Arrives(n) ==
  \E snapshot \in Reports[n] :
    /\ n \in Shown => fleet[n] # snapshot
    /\ Provide([m \in Shown \cup {n} |-> IF m = n THEN snapshot ELSE fleet[m]])
Leaves(n) ==
  /\ n \in Shown
  /\ Provide([m \in Shown \ {n} |-> fleet[m]])

\* Routes.  From one node to another the page stays mounted.
Go(route) ==
  /\ ~On(route)
  /\ CASE route = "fleet" -> Turn(OpenFleet)
       [] route = "config" -> Turn(OpenConfig)
       [] route = "metrics" ->
            /\ page' = OpenMetrics(saved)
            /\ LET selected == Chosen(fleet, saved)
               IN saved' = IF selected = None THEN saved ELSE selected
            /\ UNCHANGED fleet
GoToNode(id) ==
  IF On("node") THEN page.id # id /\ Turn([page EXCEPT !.id = id])
  ELSE Turn(OpenNode(id))

SetFilter(filter) ==
  /\ On("fleet") \/ (On("node") /\ page.id \in Shown)
  /\ filter # page.filter
  /\ Turn([page EXCEPT !.filter = filter])

ToggleProblemsOnly == On("fleet") /\ Turn([page EXCEPT !.problemsOnly = ~@])
ToggleGrouped == On("fleet") /\ Turn([page EXCEPT !.grouped = ~@])

toggleSort(key) ==
  /\ On("fleet")
  /\ Turn([page EXCEPT !.sort =
       [key |-> key,
        dir |-> IF @.key = key THEN -@.dir
                ELSE IF key \in {"name", "group", "health"} THEN 1 ELSE -1]])

\* Only a row that is shown can be expanded or closed.
ToggleRow(n) ==
  /\ On("fleet")
  /\ n \in NamesOf(rows)
  /\ Turn([page EXCEPT !.expanded = IF n \in @ THEN @ \ {n} ELSE @ \cup {n}])

ToggleShowAll ==
  /\ Grouped /\ atScale /\ ~filtering
  /\ Turn([page EXCEPT !.showAll = ~@])

\* A mutant: a click turns over the choice instead of what is shown.
MutToggleSection(key) ==
  /\ Grouped
  /\ key \in {s.frontend : s \in listed}
  /\ Turn([page EXCEPT !.toggled[key] = IF @ = None THEN TRUE ELSE ~@])

ToggleSection(key) ==
  /\ Grouped
  /\ \E s \in listed :
       /\ s.frontend = key
       /\ Turn([page EXCEPT !.toggled[key] = ~isOpen(s)])

PickNode(n) ==
  /\ On("metrics")
  /\ n \in Shown \ {Chosen(fleet, page.nodeId)}
  /\ Chart(fleet, [page EXCEPT !.nodeId = n])
  /\ UNCHANGED fleet

\* Another range: its answer is in the cache, or the graphs go until it comes.
PickRange ==
  /\ On("metrics") /\ page.card # None
  /\ Turn([page EXCEPT !.card = None])

\* An answer to a topk() query: the server evaluates it stamp by stamp, and a
\* series has the stamps at which it is among the highest.
Topk(highest) ==
  LET names == InOrder({s \in SeriesNames : \E t \in Stamps : s \in highest[t]},
                       ByName(SeriesNames))
  IN [i \in DOMAIN names |->
        [name |-> names[i],
         stamps |-> InOrder({t \in Stamps : names[i] \in highest[t]}, ByTime)]]

Refetch ==
  /\ On("metrics") /\ Shown # {}
  /\ \E highest \in [Stamps -> kSubset(MaxSeries, SeriesNames)] :
       LET series == Topk(highest)
           assigned == IF page.card = None THEN <<>> ELSE page.card.assigned
       IN Turn([page EXCEPT !.card =
            [series |-> series,
             assigned |-> Assign(assigned, [i \in DOMAIN series |-> series[i].name])]])

PickLeft(n) ==
  /\ On("config") /\ n \in Shown
  /\ n # left
  /\ Turn([page EXCEPT !.leftId = n])

\* The menu leaves out the node on the left.
PickRight(n) ==
  /\ On("config") /\ n \in (Shown \ {left}) \cup {None}
  /\ n # page.rightId
  /\ Turn([page EXCEPT !.rightId = n])

ToggleEditing ==
  /\ On("config") /\ Shown # {} /\ right = None
  /\ Turn([page EXCEPT !.editing = ~@])

\* A node in view is asked for its configuration; what it declares may have
\* changed since it was last asked.
ConfigAnswered(n) ==
  /\ On("config") /\ n \in {left, right} \ {None}
  /\ \E config \in Configs \ {page.answers[n]} :
       Turn([page EXCEPT !.answers[n] = config])

-----------------------------------------------------------------------------

Init ==
  /\ fleet = <<>>
  /\ saved \in Nodes \cup {None}
  /\ page = OpenFleet

Next ==
  \/ \E n \in Nodes : Arrives(n)
  \/ \E n \in Nodes : Leaves(n)
  \/ \E route \in {"fleet", "metrics", "config"} : Go(route)
  \/ \E n \in Nodes : GoToNode(n)
  \/ \E filter \in Filters : SetFilter(filter)
  \/ ToggleProblemsOnly
  \/ ToggleGrouped
  \/ \E key \in SortKeys : toggleSort(key)
  \/ \E n \in Nodes : ToggleRow(n)
  \/ ToggleShowAll
  \/ \E key \in Sections : ToggleSection(key)
  \/ \E n \in Nodes : PickNode(n)
  \/ PickRange
  \/ Refetch
  \/ \E n \in Nodes : PickLeft(n)
  \/ \E n \in Nodes \cup {None} : PickRight(n)
  \/ ToggleEditing
  \/ \E n \in Nodes : ConfigAnswered(n)

Spec == Init /\ [][Next]_vars

-----------------------------------------------------------------------------
(* Properties                                                              *)

\* "The distinction has to hold in four places that compute it independently"
\* (README.md:117; "the same fact, two answers", services.ts:100).  It is said
\* where they part, and that they part nowhere else.  The two labels of a node
\* never do.  The count beside "Problems only" is of the rows that the filter
\* leaves (Fleet.test.tsx:276) and of the disabled nodes whose last snapshot
\* has a server down, which it hides; the shell counts as down the nodes that
\* read DOWN and those not polled yet, which are no problems; its sum of
\* servers and the API's are one; all is up when every row is well or is that
\* of a disabled node without such a server.  A node has a server down,
\* whatever its row says, or a target that is missing, exactly when one of its
\* services or unrouted backends is not well; and a backend is marked for a
\* backup too, which nothing else is.
AnswersCompared ==
  LET label(n) == toRow(n, fleet[n]).state
      lost(n) == DownServers(fleet[n]) # {}
      hidden == {n \in Shown : label(n) = "disabled" /\ lost(n)}
  IN /\ On("fleet") /\ page.problemsOnly /\ page.filter = Everything =>
          problemCount = Cardinality(rows) + Cardinality(hidden)
     /\ nodes_down(fleet) = Cardinality({n \in Shown : label(n) \in {"down", "pending"}})
     /\ servers_down(fleet) = api_servers_down(fleet)
     /\ allUp(fleet) <=>
          Shown # {} /\ \A n \in Shown : label(n) \in {"ok", "disabled"} /\ n \notin hidden
     /\ \A n \in Shown :
          LET grouped == groupServices(fleet[n])
          IN /\ <<label(n), stateOf(fleet[n])>> \in
                  {<<"disabled", "OFF">>, <<"pending", "PENDING">>, <<"down", "DOWN">>,
                   <<"degraded", "DEGRADED">>, <<"ok", "UP">>}
             /\ lost(n) \/ (\E s \in ServicesOf(grouped) : s.missing # {}) <=>
                  \/ \E s \in ServicesOf(grouped) : serviceHealth(s) # "ok"
                  \/ \E b \in grouped.orphans : Up(Active(b)) # Active(b)
             /\ \A b \in fleet[n].backends :
                  degraded(b) <=> \/ Up(Active(b)) # Active(b)
                                  \/ \E s \in b.servers : s.backup /\ ~s.up

\* A table sorted by state has no healthy node above a node in trouble, and
\* rows that tie are in the order of their names whichever way it is sorted
\* (README.md:695); and every row is in one place of one table.
ProblemsLead ==
  On("fleet") =>
    /\ \A k \in DOMAIN sections : \A i, j \in DOMAIN sections[k] : i < j =>
         LET r == sections[k][i]
             s == sections[k][j]
         IN /\ page.sort = [key |-> "health", dir |-> 1] /\ s.state \in {"down", "degraded"}
                 => r.state \in {"down", "degraded"}
            /\ SortValue(r, page.sort.key) = SortValue(s, page.sort.key)
                 => Rank[r.name] < Rank[s.name]
    /\ rows = UNION {Range(sections[k]) : k \in DOMAIN sections}
    /\ \A k, l \in DOMAIN sections :
         \A i \in DOMAIN sections[k], j \in DOMAIN sections[l] :
           sections[k][i] = sections[l][j] => k = l /\ i = j

\* "Still shown - never silently dropped" (services.ts:39): with an empty
\* filter, every backend that has lost an active server is in a section that
\* is on the page, open unless it was closed by hand, or among the unrouted;
\* and an expanded row has one server table for every backend.
NothingDropped ==
  /\ Grouped /\ ~filtering =>
       \A b \in {c \in fleet[page.id].backends : Up(Active(c)) # Active(c)} :
         \/ \E s \in listed :
              b \in s.backends /\ (isOpen(s) \/ page.toggled[s.frontend] = FALSE)
         \/ b \in visibleOrphans
  /\ On("fleet") =>
       \A n \in page.expanded \cap Shown :
         fleet[n].readable =>
           \A b \in fleet[n].backends : TablesOf(fleet[n], b.name) = 1

\* Filtering never leaves a section with headers above empty tables
\* (NodeDetail.tsx:644): a section that is listed for a name shows a row, or
\* has no rows at all, or is listed for a backend that has no servers or does
\* not report.
FilterLeavesRows ==
  /\ Grouped =>
       \A s \in listed :
         \/ \E b \in s.backends : \/ VisibleServers(b, match(s.frontend)) # {}
                                  \/ b.servers = {} /\ match(b.name)
         \/ \A b \in s.backends : b.servers = {}
         \/ \E name \in s.missing : match(name)
  /\ On("node") /\ page.id \in Shown =>
       \A b \in IF Grouped THEN visibleOrphans ELSE flatBackends :
         VisibleServers(b, FALSE) # {} \/ b.servers = {}

\* "A manual toggle always wins, so a section you closed stays closed"
\* (NodeDetail.tsx:103): a click on a section turns it over, and it stays so
\* whatever the polls say until it is clicked again.
ChoiceStep ==
  Grouped /\ Grouped' /\ page'.id = page.id =>
    \A key \in SectionKeys \cap SectionKeys' :
      LET turned == (key \in OpenSections) # (key \in OpenSections')
      IN \/ page'.toggled[key] # page.toggled[key] /\ turned
         \/ page'.toggled[key] = page.toggled[key] /\ (page.toggled[key] # None => ~turned)

ChoicesStick == [][ChoiceStep]_vars

\* The comparison says "identical" exactly when both sides declare the same
\* proxies with the same settings, whatever is null and whatever is ignored;
\* it reads the same from the other side; and settings it does not list are
\* those a plain listing shows alike (configdiff.ts:43, configdiff.ts:104).
DiffIsTheDifference ==
  Comparing =>
    LET a == Answer(left)
        b == Answer(right)
        listing == <<describe(a), describe(b)>>
        mirrored == diffConfigs(b, a)
    IN /\ (diff.changed = 0) <=> (listing[1] = listing[2])
       /\ diff.changed = mirrored.changed
       /\ \A kind \in {"frontends", "backends"} : \A name \in DOMAIN diff[kind] :
            LET row == diff[kind][name]
                back == mirrored[kind][name]
            IN /\ row.status = "only-a" <=> back.status = "only-b"
               /\ {[path |-> f.path, a |-> f.b, b |-> f.a] : f \in row.fields} = back.fields
               /\ row.status \in {"same", "differs"} =>
                    \A p \in DOMAIN a[kind][name] \cup DOMAIN b[kind][name] :
                      (\E f \in row.fields : f.path = p)
                        <=> At(listing[1][kind][name], p) # At(listing[2][kind][name], p)

\* "A name keeps the slot it was first given, for as long as the page is
\* open", and the order of the colours is "never cycled"
\* (TimeSeriesChart.tsx:24, :10): neither is so, and this is what is.  A name
\* keeps its slot as long as its graph is on the page.  A graph that comes back,
\* of another range or another node, gives its slots anew, by position.  And the
\* colours are cycled: two names have the same one exactly when the graph has
\* seen more names than there are colours, which a topk() that changes its mind
\* makes happen.
ColourStep ==
  On("metrics") /\ On("metrics")' /\ page'.card # None =>
    LET new == page'.card.assigned
        name(i) == page'.card.series[i].name
    IN /\ \A i \in DOMAIN page'.card.series : name(i) \in DOMAIN new
       /\ page.card # None =>
            \A n \in DOMAIN page.card.assigned :
              n \in DOMAIN new /\ new[n] = page.card.assigned[n]
       /\ page.card = None =>
            \A i \in DOMAIN page'.card.series : new[name(i)] = (i - 1) % Colours
       /\ IsInjective(new) <=> Cardinality(DOMAIN new) <= Colours

ColoursStay == [][ColourStep]_vars

\* "Push end-labels apart so a tight cluster of lines stays readable"
\* (TimeSeriesChart.tsx:219): whatever values the lines of a graph end at,
\* none higher than its peak, they end inside the plot, and their labels are
\* in the lines' order, apart, and not below the plot, and stay at their
\* lines when those are apart.
LabelsAreApart ==
  On("metrics") /\ page.card # None /\ page.card.series # <<>> =>
    \A peak \in Values :
      \A last \in [DOMAIN page.card.series -> {v \in Values : v <= peak}] :
        LET ends == Ends(last, niceMax(peak))
            labels == layoutLabels(ends)
        IN /\ \A i \in DOMAIN ends : Top <= ends[i] /\ ends[i] <= Top + PlotH
           /\ \A i \in DOMAIN labels : labels[i] <= Top + PlotH
           /\ \A i \in DOMAIN labels : i > 1 => labels[i] - labels[i - 1] >= MIN_GAP
           /\ (\A i \in DOMAIN ends : i > 1 => ends[i] - ends[i - 1] >= MIN_GAP)
                => labels = ends

\* "Every series in a panel shares the query's timestamps, so one index
\* addresses all of them" (TimeSeriesChart.tsx:124): what the pointer reads
\* of a series is of the stamp it points at.
OneIndexReadsOneStamp ==
  On("metrics") /\ page.card # None =>
    LET series == page.card.series
    IN \A index \in DOMAIN series[1].stamps : \A i \in DOMAIN series :
         ReadAt(series, index)[i] \subseteq {series[1].stamps[index]}

\* "Remembered across visits" and "recover if the remembered node has since
\* been removed" (Metrics.tsx:30, 43): the metrics page charts a node of the
\* fleet whenever there is one, the one that was picked while it is there,
\* and opening the page again charts the same.
ChartsARealNode ==
  On("metrics") /\ Shown # {} =>
    /\ Chosen(fleet, page.nodeId) \in Shown
    /\ page.nodeId \in Shown => Chosen(fleet, page.nodeId) = page.nodeId
    /\ Chosen(fleet, saved) = Chosen(fleet, page.nodeId)
=============================================================================
