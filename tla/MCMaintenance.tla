--------------------------- MODULE MCMaintenance ---------------------------
(* One server of one node, drained for a while or until it is changed, put *)
(* into maintenance or given back.  Holds are drain holds: the state that  *)
(* the status column confuses with the server's health.                    *)
EXTENDS Maintenance, TLC

CONSTANTS n1, s1

OneServer == s1 :> n1

Body(state, timed) == [server |-> s1, state |-> state, timed |-> timed]
Bodies ==
  {Body("ready", FALSE), Body("drain", FALSE), Body("drain", TRUE),
   Body("maint", FALSE)}
=============================================================================
