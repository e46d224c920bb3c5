------------------------------ MODULE Services ------------------------------
(***************************************************************************)
(* How a snapshot is read (services.ts, Fleet.tsx, Metrics.tsx,            *)
(* ServiceSummary.tsx): which backends a frontend reaches, how a service   *)
(* is doing, how a node is doing.  Several screens judge the same snapshot *)
(* with rules of their own; each rule is a definition here.                *)
(*                                                                         *)
(* A snapshot is a record: enabled, pending and reachable; readable, the   *)
(* read_config capability; frontends, a sequence of [name, routed]; and    *)
(* backends, a set of [name, servers, servers_up, servers_total], where a  *)
(* server is [name, up, backup].  Only the order of the frontends makes a  *)
(* difference: the first that reaches a backend shows its servers.         *)
(***************************************************************************)
EXTENDS Naturals, FiniteSetsExt

CONSTANT Dynamic   \* rule targets that are expressions (isDynamicTarget)

NamesOf(list) == {x.name : x \in list}
Active(b) == {s \in b.servers : ~s.backup}
Up(servers) == {s \in servers : s.up}

\* What a driver reports: names are distinct within a list, and a frontend
\* lists a backend once (routed_backends); the API counts the servers it lists
\* (state.py:57), backups among them.  A node that did not answer, or was not
\* asked yet, has nothing to show.
IsSnapshot(node) ==
  /\ {node.enabled, node.pending, node.reachable, node.readable} \subseteq BOOLEAN
  /\ IsFiniteSet(DOMAIN node.frontends)
  /\ DOMAIN node.frontends = 1..Cardinality(DOMAIN node.frontends)
  /\ \A i, j \in DOMAIN node.frontends :
       node.frontends[i].name = node.frontends[j].name => i = j
  /\ IsFiniteSet(node.backends)
  /\ \A b, c \in node.backends : b.name = c.name => b = c
  /\ \A b \in node.backends :
       /\ IsFiniteSet(b.servers)
       /\ \A s \in b.servers : s.up \in BOOLEAN /\ s.backup \in BOOLEAN
       /\ b.servers_up = Cardinality(Up(b.servers))
       /\ b.servers_total = Cardinality(b.servers)
  /\ node.pending => ~node.reachable
  /\ ~node.reachable => node.backends = {}

-----------------------------------------------------------------------------
(* groupServices                                                           *)

groupServices(node) ==
  [services |-> [i \in DOMAIN node.frontends |->
     LET f == node.frontends[i]
         silent == f.routed \ NamesOf(node.backends)
     IN [frontend |-> f.name,
         backends |-> {b \in node.backends : b.name \in f.routed},
         missing |-> silent \ Dynamic,
         dynamic |-> silent \cap Dynamic]],
   shared |-> {b \in NamesOf(node.backends) :
                 Cardinality({i \in DOMAIN node.frontends :
                                b \in node.frontends[i].routed}) > 1},
   orphans |-> {b \in node.backends :
                  \A i \in DOMAIN node.frontends : b.name \notin node.frontends[i].routed},
   unavailable |-> ~node.readable]

ServicesOf(grouping) == {grouping.services[i] : i \in DOMAIN grouping.services}

\* A mutant: backups count as capacity.
MutServiceHealth(service) ==
  IF service.missing # {} THEN "down"
  ELSE IF \E b \in service.backends : Up(b.servers) # b.servers THEN "degraded" ELSE "ok"

\* The active servers, or the totals of a backend whose servers are not listed.
counts(b) ==
  IF b.servers = {} THEN [up |-> b.servers_up, total |-> b.servers_total]
  ELSE [up |-> Cardinality(Up(Active(b))), total |-> Cardinality(Active(b))]

serviceHealth(service) ==
  IF \/ \E b \in service.backends : counts(b).total > 0 /\ counts(b).up = 0
     \/ service.missing # {}
  THEN "down"
  ELSE IF \E b \in service.backends : counts(b).up < counts(b).total
       THEN "degraded" ELSE "ok"

\* How a backend is marked where it is listed: of all its servers.
degraded(b) == b.servers_up < b.servers_total

-----------------------------------------------------------------------------
(* What the screens say of a node                                          *)

ServersOf(node) == UNION {{b.name} \X b.servers : b \in node.backends}
DownServers(node) == {p \in ServersOf(node) : ~p[2].up /\ ~p[2].backup}

\* toRow, as far as the rows are sorted and coloured by it.
toRow(name, node) ==
  LET state == IF ~node.enabled THEN "disabled"
               ELSE IF node.pending THEN "pending"
               ELSE IF ~node.reachable THEN "down"
               ELSE IF DownServers(node) # {} THEN "degraded" ELSE "ok"
  IN [name |-> name,
      state |-> state,
      health |-> [down |-> 0, degraded |-> 1, pending |-> 2, ok |-> 3, disabled |-> 4][state],
      serversDown |-> Cardinality(DownServers(node)),
      serversTotal |-> Cardinality(ServersOf(node))]

\* The label of the metrics page's picker.
stateOf(node) ==
  IF ~node.enabled THEN "OFF"
  ELSE IF node.pending THEN "PENDING"
  ELSE IF ~node.reachable THEN "DOWN"
  ELSE IF \E b \in node.backends : \E s \in b.servers : ~s.up /\ ~s.backup
       THEN "DEGRADED" ELSE "UP"

\* What problemCount of the fleet page counts.
IsProblem(node) ==
  \/ node.enabled /\ ~node.reachable /\ ~node.pending
  \/ DownServers(node) # {}

\* The provider's summary of the nodes it hands out, as the shell reads it.
nodes_down(nodes) == Cardinality({n \in DOMAIN nodes : nodes[n].enabled /\ ~nodes[n].reachable})
servers_down(nodes) == Cardinality(UNION {{n} \X DownServers(nodes[n]) : n \in DOMAIN nodes})
\* The same sum in the answer of /api/fleet, which leaves nodes out.
api_servers_down(nodes) ==
  Cardinality(UNION {{n} \X DownServers(nodes[n]) :
                       n \in {m \in DOMAIN nodes : nodes[m].reachable}})
allUp(nodes) == DOMAIN nodes # {} /\ nodes_down(nodes) = 0 /\ servers_down(nodes) = 0

-----------------------------------------------------------------------------
(* ServiceSummary: an expanded row of the fleet table                      *)

\* The frontend whose section lists the servers of a backend: the first that
\* reaches it.
serversShownUnder(grouping, b) ==
  grouping.services[Min({i \in DOMAIN grouping.services :
                           b \in NamesOf(grouping.services[i].backends)})].frontend

\* How many server tables of a backend an expanded row has.
TablesOf(node, b) ==
  LET grouping == groupServices(node)
  IN IF grouping.unavailable THEN 0
     ELSE Cardinality({i \in DOMAIN grouping.services :
                         /\ b \in NamesOf(grouping.services[i].backends)
                         /\ serversShownUnder(grouping, b) = grouping.services[i].frontend})
          + IF b \in NamesOf(grouping.orphans) THEN 1 ELSE 0
=============================================================================
