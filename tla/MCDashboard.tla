---------------------------- MODULE MCDashboard ----------------------------
(* Two nodes whose groups invert their names.  The first has two frontends *)
(* that share a backend, so with a ServiceLimit of one it is a large node; *)
(* the second has one.  Their snapshots cover what a node can be reported  *)
(* as: healthy, without a backup, degraded, down, with a backend that has  *)
(* no servers, unreachable, not polled yet, disabled with and without its  *)
(* last snapshot, without read_config.                                     *)
EXTENDS Dashboard, TLC

Server(name, up, backup) == [name |-> name, up |-> up, backup |-> backup]
Frontend(name, routed) == [name |-> name, routed |-> routed]
Node(enabled, pending, reachable, readable, frontends, backends) ==
  [enabled |-> enabled, pending |-> pending, reachable |-> reachable,
   readable |-> readable, frontends |-> frontends, backends |-> backends]

Backend(name, servers) ==
  [name |-> name, servers |-> servers,
   servers_up |-> Cardinality(Up(servers)), servers_total |-> Cardinality(servers)]

\* A pool of two servers and a backup, and a second pool of one.
Pool(up) == Backend("b1",
  {Server("s1", "s1" \in up, FALSE), Server("s2", "s2" \in up, FALSE),
   Server("s3", "s3" \in up, TRUE)})
Other(up) == Backend("b2", {Server("s4", "s4" \in up, FALSE)})
All == {"s1", "s2", "s3", "s4"}
Backends(up) == {Pool(up), Other(up)}

Two == <<Frontend("f1", {"b1"}), Frontend("f2", {"b1", "b2"})>>
Unrouted == <<Frontend("f1", {"b1"}), Frontend("f2", {"expr", "b1"})>>
Gone == <<Frontend("f1", {"b1", "gone"}), Frontend("f2", {"b2"})>>
One == <<Frontend("f1", {"b1", "b2"})>>

Polled(frontends, up) == Node(TRUE, FALSE, TRUE, TRUE, frontends, Backends(up))
Emptied == Node(TRUE, FALSE, TRUE, TRUE, Gone,
                Backends(All) \cup {Backend("gone", {})})
Unreachable == Node(TRUE, FALSE, FALSE, TRUE, <<>>, {})
Pending == Node(TRUE, TRUE, FALSE, FALSE, <<>>, {})
Disabled == Node(FALSE, TRUE, FALSE, FALSE, <<>>, {})

ReportsOf ==
  [n \in {"n1", "n2"} |->
     IF n = "n1"
     THEN {Polled(Two, All), Polled(Two, All \ {"s3"}), Polled(Two, All \ {"s2"}),
           Polled(Two, {"s3", "s4"}), Polled(Unrouted, All \ {"s4"}),
           Polled(Gone, All), Emptied, Unreachable,
           [Polled(Two, All \ {"s1"}) EXCEPT !.enabled = FALSE]}
     ELSE {Polled(One, All), Polled(One, All \ {"s4"}), Pending, Disabled, Unreachable,
           Node(TRUE, FALSE, TRUE, FALSE,
                <<Frontend("f1", {})>>, Backends(All \ {"s1"}))}]

GroupOfNode == [n \in {"n1", "n2"} |-> IF n = "n1" THEN "g2" ELSE "g1"]
Alphabet ==
  [x \in {"n1", "n2", "g1", "g2", "p1", "p2", "p3"} |->
     IF x \in {"n1", "g1", "p1"} THEN 1 ELSE IF x = "p3" THEN 3 ELSE 2]
HitsOf == [x \in {"f1", "b1", "s2", "gone", "n1"} |-> {x}]

Proxy(uri) == (<<"balance">> :> "rr") @@ (<<"from">> :> uri) @@ (<<"check", "uri">> :> uri)
Declares(proxies) == [frontends |-> "f1" :> (<<"mode">> :> "http"), backends |-> proxies]
ConfigSet ==
  {Declares("b1" :> Proxy("/a")), Declares("b1" :> Proxy("/b")),
   Declares("b1" :> [Proxy("/a") EXCEPT ![<<"from">>] = "other", ![<<"check", "uri">>] = Null]),
   Declares("b1" :> (<<"balance">> :> "rr")),
   Declares("b2" :> Proxy("/a"))}
=============================================================================
