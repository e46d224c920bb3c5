----------------------------- MODULE ConfigDiff -----------------------------
(***************************************************************************)
(* The comparison of two configurations (configdiff.ts).  A proxy is its   *)
(* leaves: a function from paths, sequences of keys, to values, with Null  *)
(* for a setting that is reported as null.  A configuration is             *)
(* [frontends, backends], and each of these a function from names to       *)
(* proxies.                                                                *)
(***************************************************************************)
EXTENDS Naturals, FiniteSetsExt, Functions

CONSTANTS
  Null,      \* null or undefined
  Ignored    \* the top-level keys that say nothing (IGNORED)

\* flatten: no nulls, and none of what lies under an ignored key.
flatten(proxy) ==
  Restrict(proxy, {p \in DOMAIN proxy : proxy[p] # Null /\ p[1] \notin Ignored})

\* A node declares finitely many proxies.
IsConfig(config) ==
  IsFiniteSet(DOMAIN config.frontends) /\ IsFiniteSet(DOMAIN config.backends)

At(flat, path) == IF path \in DOMAIN flat THEN flat[path] ELSE Null

\* A mutant: only the left side's settings are gone through.
MutFields(a, b) ==
  {[path |-> p, a |-> At(a, p), b |-> At(b, p)] : p \in {q \in DOMAIN a : At(a, q) # At(b, q)}}

Fields(a, b) ==
  {[path |-> p, a |-> At(a, p), b |-> At(b, p)] :
     p \in {q \in DOMAIN a \cup DOMAIN b : At(a, q) # At(b, q)}}

diffProxies(a, b) ==
  [name \in DOMAIN a \cup DOMAIN b |->
     CASE name \notin DOMAIN b -> [status |-> "only-a", fields |-> {}]
       [] name \notin DOMAIN a -> [status |-> "only-b", fields |-> {}]
       [] OTHER -> LET fields == Fields(flatten(a[name]), flatten(b[name])) IN
                   [status |-> IF fields = {} THEN "same" ELSE "differs",
                    fields |-> fields]]

Changed(rows) == {name \in DOMAIN rows : rows[name].status # "same"}

diffConfigs(a, b) ==
  LET frontends == diffProxies(a.frontends, b.frontends)
      backends == diffProxies(a.backends, b.backends)
  IN [frontends |-> frontends,
      backends |-> backends,
      changed |-> Cardinality(Changed(frontends)) + Cardinality(Changed(backends))]

\* One configuration as a plain list of settings.
describe(config) ==
  [kind \in {"frontends", "backends"} |->
     [name \in DOMAIN config[kind] |-> flatten(config[kind][name])]]
=============================================================================
