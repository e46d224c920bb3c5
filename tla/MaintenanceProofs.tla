------------------------- MODULE MaintenanceProofs -------------------------
(***************************************************************************)
(* Theorems about Maintenance, for every inventory, every number of        *)
(* requests, overlapping as they may, and every bound.  The invariant is   *)
(* in parts, each with a lemma that the steps preserve it, one step of the *)
(* proof per action:                                                       *)
(*   CycleInv, HoldInv, FlightInv      the shape of cycles, rows, requests *)
(*   SupersedeInv, QuietInv            what a later change ends, and what  *)
(*                                     an undisturbed sweep finds          *)
(*   AppliedInv, SeenInv, GoneInv, ClosingInv                              *)
(*                                     why a hold may be released          *)
(***************************************************************************)
EXTENDS Maintenance, TLAPS

-----------------------------------------------------------------------------
(* The inductive invariant, in parts                                       *)

\* r is in the hands of the running sweep: read as due, not yet decided.
Pending(r) == r \in batch \/ (cycle = "reverting" /\ current = r)

\* The sweep may release r.
Excused(r) == r \in Left \cup Doubted

\* The shape of a cycle.
CycleInv ==
  /\ cycle = "reverting" => current \in Requests \ batch
  /\ cycle \in {"idle", "polling"} => batch = {}
  /\ cycle = "idle" => view = NothingSeen

\* Who may have a hold row, and what refers to hold rows.
HoldInv ==
  /\ \A r \in Requests : hold[r] # "none" => pc[r] = "done" /\ MakesHold(r)
  /\ \A r \in due : hold[r] # "none"
  /\ \A r \in Requests : Pending(r) \/ closing[r] # "keep"
       => hold[r] \in {"open", "replaced", "gone"}
  /\ \A r \in Requests : hold[r] = "gone" => nodeRow[NodeOfHold(r)] = "deleted"
  /\ \A r \in Requests : pc[r] # "selected" => selected[r] = {}
  /\ \A r \in Requests : \A h \in selected[r] \cup before[r] :
       hold[h] # "none" /\ ServerOf(h) = ServerOf(r)

\* A request in flight marks its server, once the cycle has polled it.
FlightInv ==
  \A r \in Requests :
    InFlight(r) => Unseen(ServerOf(r)) \/ ServerOf(r) \in touched

\* A change that read the open holds read those that were open when it was
\* sent, unless they have ended meanwhile.
SupersedeInv ==
  /\ LaterChangeSupersedes
  /\ \A r \in Requests : pc[r] = "selected" =>
       \A h \in before[r] : hold[h] = "open" => h \in selected[r]

\* Where nobody acted since the poll, the snapshot is right about admin
\* states, and what the sweep is about to put back is in the state of its
\* hold, or has been put back by the sweep already.
AsSeen(s) ==
  /\ view[s] = "DRAIN" => adminState[s] = "drain"
  /\ view[s] = "MAINT" => adminState[s] = "maint"
InPlace(r) ==
  \/ adminState[ServerOf(r)] = ask[r].state
  \/ adminState[ServerOf(r)] = "ready" /\ r \in returned
QuietInv ==
  /\ \A r \in Requests :
       Pending(r) /\ ServerOf(r) \notin touched /\ ~Unseen(ServerOf(r))
         => \A q \in Requests : pc[q] = "done" => r \notin before[q]
  /\ \A s \in Servers : cycle = "polling" /\ s \notin touched => AsSeen(s)
  /\ \A r \in batch :
       ServerOf(r) \notin touched /\ StillHeld(r)
           => hold[r] = "gone" \/ InPlace(r)
  /\ cycle = "reverting" => ~Unseen(ServerOf(current))
  /\ cycle = "reverting" /\ ServerOf(current) \notin touched
       => InPlace(current)

\* The server of a hold the sweep has not released is in the hold's state, or
\* the hold is excused.
AppliedInv ==
  \A r \in Requests :
    Holding(r) => adminState[ServerOf(r)] = ask[r].state \/ Excused(r)

\* What a snapshot of this cycle shows of the server of an older hold is the
\* hold's state, or the hold is excused.
SeenInv ==
  \A r \in Requests :
    /\ hold[r] \in {"open", "replaced"}
    /\ Pending(r) \/ (cycle = "polling" /\ r \notin fresh)
    => Unseen(ServerOf(r)) \/ StillHeld(r) \/ Excused(r)

\* The sweep is about to release only what is excused, or deleted.
ClosingInv ==
  \A r \in Requests : closing[r] # "keep" => hold[r] = "gone" \/ Excused(r)

\* A deleted node has no hold rows left.
GoneInv ==
  \A r \in Requests :
    nodeRow[NodeOfHold(r)] = "deleted" => hold[r] \in {"none", "gone"}

-----------------------------------------------------------------------------
(* Type correctness                                                        *)

\* The steps of every request, of the poller and of the environment keep the
\* variables in their types.
LEMMA TypeStep ==
  ASSUME TypeOK, [Next]_vars
  PROVE  TypeOK'
<1> USE NodeOfAssumption, NoRequestAssumption, OutsidersAssumption,
        AsksAssumption, MaxFaultsAssumption DEF TypeOK, RequestPc, HoldStatus,
        Statuses, nodeVars, requestVars, sweepVars, pollVars, causeVars
<1>1. ASSUME NEW r \in Requests, NEW a \in Asks, Begin(r, a) PROVE TypeOK'
  BY <1>1 DEF Begin, Ask, Touch, OpenHoldsOn
<1>2. ASSUME NEW r \in Requests, CallSucceeds(r) PROVE TypeOK'
  BY <1>2 DEF CallSucceeds, ServerOf, Displaced, Ask, Reported
<1>3. ASSUME NEW r \in Requests, CallFails(r) PROVE TypeOK'
  BY <1>3 DEF CallFails
<1>4. ASSUME NEW r \in Requests, SelectHolds(r) PROVE TypeOK'
  BY <1>4 DEF SelectHolds, OpenHoldsOn
<1>5. ASSUME NEW r \in Requests, CommitHolds(r) PROVE TypeOK'
  BY <1>5 DEF CommitHolds, AfterChange
<1>6. ASSUME NEW r \in Requests, CommitFails(r) PROVE TypeOK'
  BY <1>6 DEF CommitFails
<1>7. ASSUME NEW r \in Requests, RequestLost(r) PROVE TypeOK'
  BY <1>7 DEF RequestLost
<1>8. ASSUME StartCycle PROVE TypeOK'
  BY <1>8 DEF StartCycle, Enabled
<1>9. ASSUME EmptyCycle PROVE TypeOK'
  BY <1>9 DEF EmptyCycle, vars
<1>10. ASSUME NEW n \in Nodes, PollNode(n) PROVE TypeOK'
  BY <1>10 DEF PollNode, Status, Ailments
<1>11. ASSUME ReadDue PROVE TypeOK'
  BY <1>11 DEF ReadDue, EndCycle, NothingSeen
<1>12. ASSUME NEW r \in Requests, CloseUnneeded(r) PROVE TypeOK'
  BY <1>12 DEF CloseUnneeded
<1>13. ASSUME NEW r \in Requests, KeepUnseen(r) PROVE TypeOK'
  BY <1>13 DEF KeepUnseen
<1>14. ASSUME NEW r \in Requests, StartRevert(r) PROVE TypeOK'
  BY <1>14 DEF StartRevert
<1>15. ASSUME RevertSucceeds PROVE TypeOK'
  BY <1>15 DEF RevertSucceeds, PutBack, Displaced, Reported, AdminStates
<1>16. ASSUME RevertUnanswered PROVE TypeOK'
  <2> USE <1>16 DEF RevertUnanswered, PutBack
  <2>1. faults' \in 0..MaxFaults
    OBVIOUS
  <2>2. returned' \in SUBSET Requests
    BY DEF Displaced
  <2>3. adminState' \in [Servers -> Reported]
    BY DEF Reported, AdminStates
  <2> QED
    BY <2>1, <2>2, <2>3
<1>17. ASSUME RevertFails PROVE TypeOK'
  BY <1>17 DEF RevertFails
<1>18. ASSUME CommitSweep PROVE TypeOK'
  BY <1>18 DEF CommitSweep, AfterSweep, NothingClosing, EndCycle, NothingSeen
<1>19. ASSUME RollbackSweep PROVE TypeOK'
  BY <1>19 DEF RollbackSweep, NothingClosing, EndCycle, NothingSeen
<1>20. ASSUME NEW r \in Requests, WindowCloses(r) PROVE TypeOK'
  BY <1>20 DEF WindowCloses
<1>21. ASSUME NEW n \in Nodes, ToggleNode(n) PROVE TypeOK'
  BY <1>21 DEF ToggleNode
<1>22. ASSUME NEW n \in Nodes, DeleteNode(n) PROVE TypeOK'
  BY <1>22 DEF DeleteNode
<1>23. ASSUME NEW n \in Nodes, NodeGoesDown(n) PROVE TypeOK'
  BY <1>23 DEF NodeGoesDown
<1>24. ASSUME NEW n \in Nodes, NodeComesUp(n) PROVE TypeOK'
  BY <1>24 DEF NodeComesUp
<1>25. ASSUME NEW s \in Servers, NEW st \in Outsiders, OutsideChange(s, st)
             PROVE TypeOK'
  BY <1>25 DEF OutsideChange, Displaced, Touch
<1>26. ASSUME NEW s \in Servers, ServerFails(s) PROVE TypeOK'
  BY <1>26 DEF ServerFails
<1>27. ASSUME NEW s \in Servers, ServerPasses(s) PROVE TypeOK'
  BY <1>27 DEF ServerPasses
<1>28. ASSUME Crash PROVE TypeOK'
  BY <1>28 DEF Crash, NothingClosing, EndCycle, NothingSeen
<1>29. CASE UNCHANGED vars
  BY <1>29 DEF vars
<1> QED
  BY <1>1, <1>2, <1>3, <1>4, <1>5, <1>6, <1>7, <1>8, <1>9, <1>10, <1>11, <1>12,
     <1>13, <1>14, <1>15, <1>16, <1>17, <1>18, <1>19, <1>20, <1>21, <1>22,
     <1>23, <1>24, <1>25, <1>26, <1>27, <1>28, <1>29
     DEF Next, RequestNext, PollerNext, EnvironmentNext

\* A request can be made, so the initial value of ask is well typed.
LEMMA InitType == Init => TypeOK
<1>1. (CHOOSE a \in Asks : TRUE) \in Ask
  BY AsksAssumption
<1>2. Init => ask \in [Requests -> Ask]
  BY <1>1 DEF Init
<1>3. Init => /\ nodeRow \in [Nodes -> {"enabled", "disabled", "deleted"}]
              /\ up \in [Nodes -> BOOLEAN]
              /\ adminState \in [Servers -> Reported]
              /\ view \in [Servers -> Statuses \cup {"unknown"}]
              /\ faults \in 0..MaxFaults
  BY MaxFaultsAssumption DEF Init, AdminStates, Reported, NothingSeen
<1>4. Init => /\ pc \in [Requests -> RequestPc]
              /\ selected \in [Requests -> SUBSET Requests]
              /\ before \in [Requests -> SUBSET Requests]
              /\ hold \in [Requests -> HoldStatus]
              /\ closing \in [Requests -> {"keep", "superseded", "expired"}]
  BY DEF Init, RequestPc, HoldStatus, NothingClosing
<1> QED
  BY <1>2, <1>3, <1>4 DEF Init, TypeOK

\* Every variable keeps its type in every behaviour of the specification.
THEOREM TypeCorrect == Spec => []TypeOK
<1>1. Init => TypeOK
  BY InitType
<1>2. TypeOK /\ [Next]_vars => TypeOK'
  BY TypeStep
<1>3. QED
  BY <1>1, <1>2, PTL DEF Spec

-----------------------------------------------------------------------------
(* The structure: cycles, hold rows and requests                           *)

\* Steps keep the shape of a cycle.
LEMMA CycleStep ==
  ASSUME TypeOK, CycleInv, [Next]_vars
  PROVE  CycleInv'
<1> USE NoRequestAssumption DEF TypeOK, CycleInv, nodeVars, requestVars,
        sweepVars, pollVars, causeVars
<1>1. ASSUME NEW r \in Requests, NEW a \in Asks, Begin(r, a) PROVE CycleInv'
  BY <1>1 DEF Begin
<1>2. ASSUME NEW r \in Requests, CallSucceeds(r) PROVE CycleInv'
  BY <1>2 DEF CallSucceeds
<1>3. ASSUME NEW r \in Requests, CallFails(r) PROVE CycleInv'
  BY <1>3 DEF CallFails
<1>4. ASSUME NEW r \in Requests, SelectHolds(r) PROVE CycleInv'
  BY <1>4 DEF SelectHolds
<1>5. ASSUME NEW r \in Requests, CommitHolds(r) PROVE CycleInv'
  BY <1>5 DEF CommitHolds
<1>6. ASSUME NEW r \in Requests, CommitFails(r) PROVE CycleInv'
  BY <1>6 DEF CommitFails
<1>7. ASSUME NEW r \in Requests, RequestLost(r) PROVE CycleInv'
  BY <1>7 DEF RequestLost
<1>8. ASSUME StartCycle PROVE CycleInv'
  BY <1>8 DEF StartCycle
<1>9. ASSUME EmptyCycle PROVE CycleInv'
  BY <1>9 DEF EmptyCycle, vars
<1>10. ASSUME NEW n \in Nodes, PollNode(n) PROVE CycleInv'
  BY <1>10 DEF PollNode
<1>11. ASSUME ReadDue PROVE CycleInv'
  BY <1>11 DEF ReadDue, EndCycle
<1>12. ASSUME NEW r \in Requests, CloseUnneeded(r) PROVE CycleInv'
  BY <1>12 DEF CloseUnneeded
<1>13. ASSUME NEW r \in Requests, KeepUnseen(r) PROVE CycleInv'
  BY <1>13 DEF KeepUnseen
<1>14. ASSUME NEW r \in Requests, StartRevert(r) PROVE CycleInv'
  BY <1>14 DEF StartRevert
<1>15. ASSUME RevertSucceeds PROVE CycleInv'
  BY <1>15 DEF RevertSucceeds
<1>16. ASSUME RevertUnanswered PROVE CycleInv'
  BY <1>16 DEF RevertUnanswered
<1>17. ASSUME RevertFails PROVE CycleInv'
  BY <1>17 DEF RevertFails
<1>18. ASSUME CommitSweep PROVE CycleInv'
  BY <1>18 DEF CommitSweep, EndCycle
<1>19. ASSUME RollbackSweep PROVE CycleInv'
  BY <1>19 DEF RollbackSweep, EndCycle
<1>20. ASSUME NEW r \in Requests, WindowCloses(r) PROVE CycleInv'
  BY <1>20 DEF WindowCloses
<1>21. ASSUME NEW n \in Nodes, ToggleNode(n) PROVE CycleInv'
  BY <1>21 DEF ToggleNode
<1>22. ASSUME NEW n \in Nodes, DeleteNode(n) PROVE CycleInv'
  BY <1>22 DEF DeleteNode
<1>23. ASSUME NEW n \in Nodes, NodeGoesDown(n) PROVE CycleInv'
  BY <1>23 DEF NodeGoesDown
<1>24. ASSUME NEW n \in Nodes, NodeComesUp(n) PROVE CycleInv'
  BY <1>24 DEF NodeComesUp
<1>25. ASSUME NEW s \in Servers, NEW st \in Outsiders, OutsideChange(s, st)
             PROVE CycleInv'
  BY <1>25 DEF OutsideChange
<1>26. ASSUME NEW s \in Servers, ServerFails(s) PROVE CycleInv'
  BY <1>26 DEF ServerFails
<1>27. ASSUME NEW s \in Servers, ServerPasses(s) PROVE CycleInv'
  BY <1>27 DEF ServerPasses
<1>28. ASSUME Crash PROVE CycleInv'
  BY <1>28 DEF Crash, EndCycle
<1>29. CASE UNCHANGED vars
  BY <1>29 DEF vars
<1> QED
  BY <1>1, <1>2, <1>3, <1>4, <1>5, <1>6, <1>7, <1>8, <1>9, <1>10, <1>11, <1>12,
     <1>13, <1>14, <1>15, <1>16, <1>17, <1>18, <1>19, <1>20, <1>21, <1>22,
     <1>23, <1>24, <1>25, <1>26, <1>27, <1>28, <1>29
     DEF Next, RequestNext, PollerNext, EnvironmentNext

\* Steps keep the facts about who has a hold row.
LEMMA HoldStep ==
  ASSUME TypeOK, CycleInv, HoldInv, [Next]_vars
  PROVE  HoldInv'
<1> USE NoRequestAssumption DEF TypeOK, CycleInv, HoldInv, Pending, MakesHold,
        ServerOf, NodeOfHold, nodeVars, requestVars, sweepVars, pollVars,
        causeVars
<1>1. ASSUME NEW r \in Requests, NEW a \in Asks, Begin(r, a) PROVE HoldInv'
  BY <1>1 DEF Begin, OpenHoldsOn
<1>2. ASSUME NEW r \in Requests, CallSucceeds(r) PROVE HoldInv'
  BY <1>2 DEF CallSucceeds
<1>3. ASSUME NEW r \in Requests, CallFails(r) PROVE HoldInv'
  BY <1>3 DEF CallFails
<1>4. ASSUME NEW r \in Requests, SelectHolds(r) PROVE HoldInv'
  BY <1>4 DEF SelectHolds, OpenHoldsOn
<1>5. ASSUME NEW r \in Requests, CommitHolds(r) PROVE HoldInv'
  BY <1>5 DEF CommitHolds, AfterChange
<1>6. ASSUME NEW r \in Requests, CommitFails(r) PROVE HoldInv'
  BY <1>6 DEF CommitFails
<1>7. ASSUME NEW r \in Requests, RequestLost(r) PROVE HoldInv'
  BY <1>7 DEF RequestLost
<1>8. ASSUME StartCycle PROVE HoldInv'
  BY <1>8 DEF StartCycle
<1>9. ASSUME EmptyCycle PROVE HoldInv'
  BY <1>9 DEF EmptyCycle, vars
<1>10. ASSUME NEW n \in Nodes, PollNode(n) PROVE HoldInv'
  BY <1>10 DEF PollNode
<1>11. ASSUME ReadDue PROVE HoldInv'
  BY <1>11 DEF ReadDue, EndCycle
<1>12. ASSUME NEW r \in Requests, CloseUnneeded(r) PROVE HoldInv'
  BY <1>12 DEF CloseUnneeded
<1>13. ASSUME NEW r \in Requests, KeepUnseen(r) PROVE HoldInv'
  BY <1>13 DEF KeepUnseen
<1>14. ASSUME NEW r \in Requests, StartRevert(r) PROVE HoldInv'
  BY <1>14 DEF StartRevert
<1>15. ASSUME RevertSucceeds PROVE HoldInv'
  BY <1>15 DEF RevertSucceeds
<1>16. ASSUME RevertUnanswered PROVE HoldInv'
  BY <1>16 DEF RevertUnanswered
<1>17. ASSUME RevertFails PROVE HoldInv'
  BY <1>17 DEF RevertFails
<1>18. ASSUME CommitSweep PROVE HoldInv'
  BY <1>18 DEF CommitSweep, AfterSweep, NothingClosing, EndCycle
<1>19. ASSUME RollbackSweep PROVE HoldInv'
  BY <1>19 DEF RollbackSweep, NothingClosing, EndCycle
<1>20. ASSUME NEW r \in Requests, WindowCloses(r) PROVE HoldInv'
  BY <1>20 DEF WindowCloses
<1>21. ASSUME NEW n \in Nodes, ToggleNode(n) PROVE HoldInv'
  BY <1>21 DEF ToggleNode
<1>22. ASSUME NEW n \in Nodes, DeleteNode(n) PROVE HoldInv'
  BY <1>22 DEF DeleteNode
<1>23. ASSUME NEW n \in Nodes, NodeGoesDown(n) PROVE HoldInv'
  BY <1>23 DEF NodeGoesDown
<1>24. ASSUME NEW n \in Nodes, NodeComesUp(n) PROVE HoldInv'
  BY <1>24 DEF NodeComesUp
<1>25. ASSUME NEW s \in Servers, NEW st \in Outsiders, OutsideChange(s, st)
             PROVE HoldInv'
  BY <1>25 DEF OutsideChange
<1>26. ASSUME NEW s \in Servers, ServerFails(s) PROVE HoldInv'
  BY <1>26 DEF ServerFails
<1>27. ASSUME NEW s \in Servers, ServerPasses(s) PROVE HoldInv'
  BY <1>27 DEF ServerPasses
<1>28. ASSUME Crash PROVE HoldInv'
  BY <1>28 DEF Crash, NothingClosing, InFlight, EndCycle
<1>29. CASE UNCHANGED vars
  BY <1>29 DEF vars
<1> QED
  BY <1>1, <1>2, <1>3, <1>4, <1>5, <1>6, <1>7, <1>8, <1>9, <1>10, <1>11, <1>12,
     <1>13, <1>14, <1>15, <1>16, <1>17, <1>18, <1>19, <1>20, <1>21, <1>22,
     <1>23, <1>24, <1>25, <1>26, <1>27, <1>28, <1>29
     DEF Next, RequestNext, PollerNext, EnvironmentNext

\* Steps keep every polled server with a request in flight marked as touched.
LEMMA FlightStep ==
  ASSUME TypeOK, FlightInv, [Next]_vars
  PROVE  FlightInv'
<1> USE DEF TypeOK, FlightInv, InFlight, ServerOf, Unseen, nodeVars,
        requestVars, sweepVars, pollVars, causeVars
<1>1. ASSUME NEW r \in Requests, NEW a \in Asks, Begin(r, a) PROVE FlightInv'
  BY <1>1 DEF Begin, Touch, Unseen, Ask
<1>2. ASSUME NEW r \in Requests, CallSucceeds(r) PROVE FlightInv'
  BY <1>2 DEF CallSucceeds
<1>3. ASSUME NEW r \in Requests, CallFails(r) PROVE FlightInv'
  BY <1>3 DEF CallFails
<1>4. ASSUME NEW r \in Requests, SelectHolds(r) PROVE FlightInv'
  BY <1>4 DEF SelectHolds
<1>5. ASSUME NEW r \in Requests, CommitHolds(r) PROVE FlightInv'
  BY <1>5 DEF CommitHolds
<1>6. ASSUME NEW r \in Requests, CommitFails(r) PROVE FlightInv'
  BY <1>6 DEF CommitFails
<1>7. ASSUME NEW r \in Requests, RequestLost(r) PROVE FlightInv'
  BY <1>7 DEF RequestLost
<1>8. ASSUME StartCycle PROVE FlightInv'
  BY <1>8 DEF StartCycle
<1>9. ASSUME EmptyCycle PROVE FlightInv'
  BY <1>9 DEF EmptyCycle, vars
<1>10. ASSUME NEW n \in Nodes, PollNode(n) PROVE FlightInv'
  BY <1>10 DEF PollNode, Busy, Ask
<1>11. ASSUME ReadDue PROVE FlightInv'
  BY <1>11 DEF ReadDue, EndCycle, NothingSeen, Ask
<1>12. ASSUME NEW r \in Requests, CloseUnneeded(r) PROVE FlightInv'
  BY <1>12 DEF CloseUnneeded
<1>13. ASSUME NEW r \in Requests, KeepUnseen(r) PROVE FlightInv'
  BY <1>13 DEF KeepUnseen
<1>14. ASSUME NEW r \in Requests, StartRevert(r) PROVE FlightInv'
  BY <1>14 DEF StartRevert
<1>15. ASSUME RevertSucceeds PROVE FlightInv'
  BY <1>15 DEF RevertSucceeds
<1>16. ASSUME RevertUnanswered PROVE FlightInv'
  BY <1>16 DEF RevertUnanswered
<1>17. ASSUME RevertFails PROVE FlightInv'
  BY <1>17 DEF RevertFails
<1>18. ASSUME CommitSweep PROVE FlightInv'
  BY <1>18 DEF CommitSweep, EndCycle, NothingSeen, Ask
<1>19. ASSUME RollbackSweep PROVE FlightInv'
  BY <1>19 DEF RollbackSweep, EndCycle, NothingSeen, Ask
<1>20. ASSUME NEW r \in Requests, WindowCloses(r) PROVE FlightInv'
  BY <1>20 DEF WindowCloses
<1>21. ASSUME NEW n \in Nodes, ToggleNode(n) PROVE FlightInv'
  BY <1>21 DEF ToggleNode
<1>22. ASSUME NEW n \in Nodes, DeleteNode(n) PROVE FlightInv'
  BY <1>22 DEF DeleteNode
<1>23. ASSUME NEW n \in Nodes, NodeGoesDown(n) PROVE FlightInv'
  BY <1>23 DEF NodeGoesDown
<1>24. ASSUME NEW n \in Nodes, NodeComesUp(n) PROVE FlightInv'
  BY <1>24 DEF NodeComesUp
<1>25. ASSUME NEW s \in Servers, NEW st \in Outsiders, OutsideChange(s, st)
             PROVE FlightInv'
  BY <1>25 DEF OutsideChange, Touch, Unseen
<1>26. ASSUME NEW s \in Servers, ServerFails(s) PROVE FlightInv'
  BY <1>26 DEF ServerFails
<1>27. ASSUME NEW s \in Servers, ServerPasses(s) PROVE FlightInv'
  BY <1>27 DEF ServerPasses
<1>28. ASSUME Crash PROVE FlightInv'
  BY <1>28 DEF Crash, EndCycle
<1>29. CASE UNCHANGED vars
  BY <1>29 DEF vars
<1> QED
  BY <1>1, <1>2, <1>3, <1>4, <1>5, <1>6, <1>7, <1>8, <1>9, <1>10, <1>11, <1>12,
     <1>13, <1>14, <1>15, <1>16, <1>17, <1>18, <1>19, <1>20, <1>21, <1>22,
     <1>23, <1>24, <1>25, <1>26, <1>27, <1>28, <1>29
     DEF Next, RequestNext, PollerNext, EnvironmentNext

BaseInv == TypeOK /\ CycleInv /\ HoldInv /\ FlightInv

LEMMA BaseCorrect == Spec => []BaseInv
<1>1. Init => BaseInv
  <2>1. Init => CycleInv /\ HoldInv /\ FlightInv
    BY DEF Init, CycleInv, HoldInv, FlightInv, Pending, InFlight,
        NothingClosing
  <2> QED
    BY <2>1, InitType DEF BaseInv
<1>2. BaseInv /\ [Next]_vars => BaseInv'
  BY TypeStep, CycleStep, HoldStep, FlightStep DEF BaseInv
<1>3. QED
  BY <1>1, <1>2, PTL DEF Spec

-----------------------------------------------------------------------------
(* Later changes end windows, and the quiet revert                         *)

\* A commit ends what its request found open, and nothing opens a window again.
LEMMA SupersedeStep ==
  ASSUME TypeOK, HoldInv, SupersedeInv, [Next]_vars
  PROVE  SupersedeInv'
<1> USE DEF TypeOK, HoldInv, SupersedeInv, LaterChangeSupersedes, nodeVars,
        requestVars, sweepVars, pollVars, causeVars
<1>1. ASSUME NEW r \in Requests, NEW a \in Asks, Begin(r, a) PROVE
             SupersedeInv'
  BY <1>1 DEF Begin, OpenHoldsOn
<1>2. ASSUME NEW r \in Requests, CallSucceeds(r) PROVE SupersedeInv'
  BY <1>2 DEF CallSucceeds
<1>3. ASSUME NEW r \in Requests, CallFails(r) PROVE SupersedeInv'
  BY <1>3 DEF CallFails
<1>4. ASSUME NEW r \in Requests, SelectHolds(r) PROVE SupersedeInv'
  BY <1>4 DEF SelectHolds, OpenHoldsOn
<1>5. ASSUME NEW r \in Requests, CommitHolds(r) PROVE SupersedeInv'
  BY <1>5 DEF CommitHolds, AfterChange
<1>6. ASSUME NEW r \in Requests, CommitFails(r) PROVE SupersedeInv'
  BY <1>6 DEF CommitFails
<1>7. ASSUME NEW r \in Requests, RequestLost(r) PROVE SupersedeInv'
  BY <1>7 DEF RequestLost
<1>8. ASSUME StartCycle PROVE SupersedeInv'
  BY <1>8 DEF StartCycle
<1>9. ASSUME EmptyCycle PROVE SupersedeInv'
  BY <1>9 DEF EmptyCycle, vars
<1>10. ASSUME NEW n \in Nodes, PollNode(n) PROVE SupersedeInv'
  BY <1>10 DEF PollNode
<1>11. ASSUME ReadDue PROVE SupersedeInv'
  BY <1>11 DEF ReadDue
<1>12. ASSUME NEW r \in Requests, CloseUnneeded(r) PROVE SupersedeInv'
  BY <1>12 DEF CloseUnneeded
<1>13. ASSUME NEW r \in Requests, KeepUnseen(r) PROVE SupersedeInv'
  BY <1>13 DEF KeepUnseen
<1>14. ASSUME NEW r \in Requests, StartRevert(r) PROVE SupersedeInv'
  BY <1>14 DEF StartRevert
<1>15. ASSUME RevertSucceeds PROVE SupersedeInv'
  BY <1>15 DEF RevertSucceeds
<1>16. ASSUME RevertUnanswered PROVE SupersedeInv'
  BY <1>16 DEF RevertUnanswered
<1>17. ASSUME RevertFails PROVE SupersedeInv'
  BY <1>17 DEF RevertFails
<1>18. ASSUME CommitSweep PROVE SupersedeInv'
  BY <1>18 DEF CommitSweep, AfterSweep
<1>19. ASSUME RollbackSweep PROVE SupersedeInv'
  BY <1>19 DEF RollbackSweep
<1>20. ASSUME NEW r \in Requests, WindowCloses(r) PROVE SupersedeInv'
  BY <1>20 DEF WindowCloses
<1>21. ASSUME NEW n \in Nodes, ToggleNode(n) PROVE SupersedeInv'
  BY <1>21 DEF ToggleNode
<1>22. ASSUME NEW n \in Nodes, DeleteNode(n) PROVE SupersedeInv'
  BY <1>22 DEF DeleteNode
<1>23. ASSUME NEW n \in Nodes, NodeGoesDown(n) PROVE SupersedeInv'
  BY <1>23 DEF NodeGoesDown
<1>24. ASSUME NEW n \in Nodes, NodeComesUp(n) PROVE SupersedeInv'
  BY <1>24 DEF NodeComesUp
<1>25. ASSUME NEW s \in Servers, NEW st \in Outsiders, OutsideChange(s, st)
             PROVE SupersedeInv'
  BY <1>25 DEF OutsideChange
<1>26. ASSUME NEW s \in Servers, ServerFails(s) PROVE SupersedeInv'
  BY <1>26 DEF ServerFails
<1>27. ASSUME NEW s \in Servers, ServerPasses(s) PROVE SupersedeInv'
  BY <1>27 DEF ServerPasses
<1>28. ASSUME Crash PROVE SupersedeInv'
  BY <1>28 DEF Crash, InFlight
<1>29. CASE UNCHANGED vars
  BY <1>29 DEF vars
<1> QED
  BY <1>1, <1>2, <1>3, <1>4, <1>5, <1>6, <1>7, <1>8, <1>9, <1>10, <1>11, <1>12,
     <1>13, <1>14, <1>15, <1>16, <1>17, <1>18, <1>19, <1>20, <1>21, <1>22,
     <1>23, <1>24, <1>25, <1>26, <1>27, <1>28, <1>29
     DEF Next, RequestNext, PollerNext, EnvironmentNext

\* A change of one server's admin state by somebody else than the sweep: the
\* server is marked as touched, or this cycle has not polled it.
LEMMA QuietChange ==
  ASSUME TypeOK, CycleInv, QuietInv, NEW s \in Servers,
         s \in touched' \/ Unseen(s), touched \subseteq touched',
         \A t \in Servers \ {s} : adminState'[t] = adminState[t],
         UNCHANGED <<hold, batch, view, cycle, current, ask, before,
             returned>>,
         \A q \in Requests : pc'[q] = "done" => pc[q] = "done"
  PROVE  QuietInv'
<1> USE DEF TypeOK, Ask, ServerOf
<1>1. \A r \in Requests : StillHeld(r) => ~Unseen(ServerOf(r))
  BY DEF StillHeld, Unseen, Upper, AdminStates
<1>2. \A r \in Requests :
        Pending(r)' /\ ServerOf(r)' \notin touched' /\ ~Unseen(ServerOf(r))'
          => \A q \in Requests : pc'[q] = "done" => r \notin before'[q]
  BY DEF QuietInv, Pending, Unseen
<1>3. \A t \in Servers : cycle' = "polling" /\ t \notin touched' => AsSeen(t)'
  BY DEF QuietInv, AsSeen, Unseen
<1>4. \A r \in Requests :
        /\ InPlace(r) /\ ServerOf(r) # s => InPlace(r)'
        /\ ServerOf(r)' = ServerOf(r) /\ (StillHeld(r)' <=> StillHeld(r))
        /\ Unseen(ServerOf(r))' <=> Unseen(ServerOf(r))
  BY DEF InPlace, StillHeld, Unseen
<1>5. \A r \in batch' :
        ServerOf(r)' \notin touched' /\ StillHeld(r)'
            => hold'[r] = "gone" \/ InPlace(r)'
  BY <1>1, <1>4 DEF QuietInv
<1>6. cycle' = "reverting" => ~Unseen(ServerOf(current))'
  BY DEF QuietInv, Unseen
<1>7. cycle' = "reverting" /\ ServerOf(current)' \notin touched'
        => InPlace(current)'
  BY <1>4 DEF CycleInv, QuietInv, Unseen
<1> QED
  BY <1>2, <1>3, <1>5, <1>6, <1>7 DEF QuietInv

\* Where nobody acts, the snapshot and the order of changes stay right.
LEMMA QuietStep ==
  ASSUME TypeOK, CycleInv, HoldInv, FlightInv, SupersedeInv, QuietInv,
         [Next]_vars
  PROVE  QuietInv'
<1> USE NoRequestAssumption, NodeOfAssumption DEF TypeOK, QuietInv, ServerOf,
        nodeVars, requestVars, sweepVars, pollVars, causeVars
<1>1. ASSUME NEW r \in Requests, NEW a \in Asks, Begin(r, a) PROVE QuietInv'
  <2>1. /\ UNCHANGED <<adminState, hold, batch, view, cycle, current,
                        returned>>
        /\ touched \subseteq touched'
        /\ \A q \in Requests \ {r} : ask'[q] = ask[q] /\ before'[q] = before[q]
        /\ \A q \in Requests : pc'[q] = "done" => pc[q] = "done"
    BY <1>1 DEF Begin, Touch
  <2>2. ~Pending(r)
    BY <1>1 DEF Begin, HoldInv
  <2>3. \A q \in Requests : Pending(q)' => Pending(q) /\ q # r
    BY <2>1, <2>2 DEF Pending
  <2>4. \A q \in Requests \ {r} : /\ ServerOf(q)' = ServerOf(q)
                                  /\ StillHeld(q)' <=> StillHeld(q)
                                  /\ InPlace(q)' <=> InPlace(q)
    BY <2>1 DEF StillHeld, InPlace
  <2>5. \A q \in Requests :
          Pending(q)' /\ ServerOf(q)' \notin touched' /\ ~Unseen(ServerOf(q))'
            => \A x \in Requests : pc'[x] = "done" => q \notin before'[x]
    <3>1. \A x \in Requests : pc'[x] = "done" => x # r
      BY <1>1 DEF Begin
    <3> QED
      BY <2>1, <2>3, <2>4, <3>1 DEF Unseen
  <2>6. \A s \in Servers : cycle' = "polling" /\ s \notin touched' => AsSeen(s)'
    BY <2>1 DEF AsSeen
  <2>7. \A q \in batch' :
          ServerOf(q)' \notin touched' /\ StillHeld(q)'
            => hold'[q] = "gone" \/ InPlace(q)'
    BY <2>1, <2>3, <2>4 DEF Pending
  <2>8. cycle' = "reverting" =>
          /\ ~Unseen(ServerOf(current))'
          /\ ServerOf(current)' \notin touched' => InPlace(current)'
    BY <2>1, <2>2, <2>4 DEF CycleInv, Pending, Unseen
  <2> HIDE DEF TypeOK, ServerOf
  <2> QED
    BY <2>5, <2>6, <2>7, <2>8
<1>2. ASSUME NEW r \in Requests, CallSucceeds(r) PROVE QuietInv'
  <2>1. ServerOf(r) \in Servers
    BY DEF Ask
  <2>2. ServerOf(r) \in touched \/ Unseen(ServerOf(r))
    BY <1>2 DEF CallSucceeds, FlightInv, InFlight
  <2>3. /\ UNCHANGED <<hold, batch, view, cycle, current, ask, before,
             returned, touched>>
        /\ \A t \in Servers \ {ServerOf(r)} : adminState'[t] = adminState[t]
        /\ \A q \in Requests : pc'[q] = "done" => pc[q] = "done"
    BY <1>2 DEF CallSucceeds
  <2> HIDE DEF QuietInv, TypeOK, ServerOf
  <2> QED
    BY <2>1, <2>2, <2>3, QuietChange
<1>3. ASSUME NEW r \in Requests, CallFails(r) PROVE QuietInv'
  BY <1>3 DEF CallFails, CycleInv, HoldInv, Pending, StillHeld, InPlace,
        AsSeen, Unseen
<1>4. ASSUME NEW r \in Requests, SelectHolds(r) PROVE QuietInv'
  BY <1>4 DEF SelectHolds, CycleInv, HoldInv, Pending, StillHeld, InPlace,
        AsSeen, Unseen
<1>5. ASSUME NEW r \in Requests, CommitHolds(r) PROVE QuietInv'
  BY <1>5 DEF CommitHolds, InFlight, FlightInv, AfterChange, CycleInv, HoldInv,
        Pending, StillHeld, InPlace, AsSeen, Unseen
<1>6. ASSUME NEW r \in Requests, CommitFails(r) PROVE QuietInv'
  BY <1>6 DEF CommitFails, CycleInv, HoldInv, Pending, StillHeld, InPlace,
        AsSeen, Unseen
<1>7. ASSUME NEW r \in Requests, RequestLost(r) PROVE QuietInv'
  BY <1>7 DEF RequestLost, CycleInv, HoldInv, Pending, StillHeld, InPlace,
        AsSeen, Unseen
<1>8. ASSUME StartCycle PROVE QuietInv'
  BY <1>8 DEF StartCycle, NothingSeen, CycleInv, HoldInv, Pending, StillHeld,
        InPlace, AsSeen, Unseen
<1>9. ASSUME EmptyCycle PROVE QuietInv'
  BY <1>9 DEF EmptyCycle, vars, CycleInv, HoldInv, Pending, StillHeld, InPlace,
        AsSeen, Unseen
<1>10. ASSUME NEW n \in Nodes, PollNode(n) PROVE QuietInv'
  BY <1>10 DEF PollNode, Status, Ask, CycleInv, HoldInv, Pending, StillHeld,
        InPlace, AsSeen, Unseen
<1>11. ASSUME ReadDue PROVE QuietInv'
  <2> USE <1>11 DEF ReadDue, Pending, StillHeld, InPlace, AsSeen, Unseen
  <2>1. CASE batch' = {}
    <3>1. cycle' = "idle"
      BY <2>1 DEF EndCycle
    <3> QED
      BY <2>1, <3>1
  <2>2. CASE batch' # {}
    <3>1. cycle' = "sweeping" /\ UNCHANGED <<view, touched, adminState, ask,
            hold, pc, before>>
      BY <2>2
    <3>2. \A r \in batch' : hold[r] = "open" /\ ServerOf(r) \in Servers
      BY DEF Ask
    <3>3. \A r \in batch' : ask[r].state \in {"drain", "maint"}
      BY <3>2 DEF HoldInv, MakesHold, Ask, AdminStates
    <3>4. ASSUME NEW r \in batch', ServerOf(r) \notin touched, StillHeld(r)
          PROVE  adminState[ServerOf(r)] = ask[r].state
      BY <3>2, <3>3, <3>4 DEF Upper
    <3>5. \A r \in batch', q \in Requests :
            pc[q] = "done" => r \notin before[q]
      BY <3>2 DEF SupersedeInv, LaterChangeSupersedes
    <3> QED
      BY <3>1, <3>4, <3>5
  <2> QED
    BY <2>1, <2>2
<1>12. ASSUME NEW r \in Requests, CloseUnneeded(r) PROVE QuietInv'
  BY <1>12 DEF CloseUnneeded, CycleInv, HoldInv, Pending, StillHeld, InPlace,
        AsSeen, Unseen
<1>13. ASSUME NEW r \in Requests, KeepUnseen(r) PROVE QuietInv'
  BY <1>13 DEF KeepUnseen, CycleInv, HoldInv, Pending, StillHeld, InPlace,
        AsSeen, Unseen
<1>14. ASSUME NEW r \in Requests, StartRevert(r) PROVE QuietInv'
  BY <1>14 DEF StartRevert, Upper, Ask, AdminStates, NodeOfHold, CycleInv,
        HoldInv, Pending, StillHeld, InPlace, AsSeen, Unseen
<1>15. ASSUME RevertSucceeds PROVE QuietInv'
  <2> USE <1>15 DEF RevertSucceeds, PutBack, Pending
  <2> DEFINE s == ServerOf(current)
  <2>1. current \in Requests /\ s \in Servers
    BY DEF CycleInv, Ask
  <2>2. cycle' = "sweeping" /\ batch' = batch /\ current \notin batch
    BY DEF CycleInv
  <2>3. ASSUME NEW r \in batch, s \notin touched, ServerOf(r) = s,
                 StillHeld(r),
               hold[r] # "gone"
        PROVE  adminState'[s] = "ready" /\ r \in returned'
    <3>1. InPlace(r)
      BY <2>3
    <3>2. Holding(r)
      BY <2>3 DEF HoldInv, Holding
    <3>3. ask[r].state # "ready"
      BY <3>2 DEF Holding, MakesHold
    <3>4. adminState'[s] = "ready"
      BY <2>1
    <3>5. r \in Displaced(s, "ready")
      BY <2>3, <3>2, <3>3 DEF Displaced
    <3> QED
      BY <3>4, <3>5
  <2>4. ASSUME NEW r \in batch, ServerOf(r) \notin touched, StillHeld(r),
               hold[r] # "gone"
        PROVE  InPlace(r)'
    <3>1. CASE ServerOf(r) = s
      BY <2>3, <2>4, <3>1 DEF InPlace
    <3>2. CASE ServerOf(r) # s
      <4>1. adminState'[ServerOf(r)] = adminState[ServerOf(r)]
        BY <3>2 DEF Ask
      <4> QED
        BY <2>4, <4>1 DEF InPlace
    <3> QED
      BY <3>1, <3>2
  <2> QED
    BY <2>2, <2>4 DEF StillHeld, Unseen, AsSeen
<1>16. ASSUME RevertUnanswered PROVE QuietInv'
  <2> USE <1>16 DEF RevertUnanswered, PutBack, Pending
  <2> DEFINE s == ServerOf(current)
  <2>1. current \in Requests /\ s \in Servers
    BY DEF CycleInv, Ask
  <2>2. cycle' = "sweeping" /\ batch' = batch /\ current \notin batch
    BY DEF CycleInv
  <2>3. ASSUME NEW r \in batch, s \notin touched, ServerOf(r) = s,
                 StillHeld(r),
               hold[r] # "gone"
        PROVE  adminState'[s] = "ready" /\ r \in returned'
    <3>1. InPlace(r)
      BY <2>3
    <3>2. Holding(r)
      BY <2>3 DEF HoldInv, Holding
    <3>3. ask[r].state # "ready"
      BY <3>2 DEF Holding, MakesHold
    <3>4. adminState'[s] = "ready"
      BY <2>1
    <3>5. r \in Displaced(s, "ready")
      BY <2>3, <3>2, <3>3 DEF Displaced
    <3> QED
      BY <3>4, <3>5
  <2>4. ASSUME NEW r \in batch, ServerOf(r) \notin touched, StillHeld(r),
               hold[r] # "gone"
        PROVE  InPlace(r)'
    <3>1. CASE ServerOf(r) = s
      BY <2>3, <2>4, <3>1 DEF InPlace
    <3>2. CASE ServerOf(r) # s
      <4>1. adminState'[ServerOf(r)] = adminState[ServerOf(r)]
        BY <3>2 DEF Ask
      <4> QED
        BY <2>4, <4>1 DEF InPlace
    <3> QED
      BY <3>1, <3>2
  <2> QED
    BY <2>2, <2>4 DEF StillHeld, Unseen, AsSeen
<1>17. ASSUME RevertFails PROVE QuietInv'
  BY <1>17 DEF RevertFails, CycleInv, HoldInv, Pending, StillHeld, InPlace,
        AsSeen, Unseen
<1>18. ASSUME CommitSweep PROVE QuietInv'
  BY <1>18 DEF CommitSweep, EndCycle, CycleInv, HoldInv, Pending, StillHeld,
        InPlace, AsSeen, Unseen
<1>19. ASSUME RollbackSweep PROVE QuietInv'
  BY <1>19 DEF RollbackSweep, EndCycle, CycleInv, HoldInv, Pending, StillHeld,
        InPlace, AsSeen, Unseen
<1>20. ASSUME NEW r \in Requests, WindowCloses(r) PROVE QuietInv'
  BY <1>20 DEF WindowCloses, CycleInv, HoldInv, Pending, StillHeld, InPlace,
        AsSeen, Unseen
<1>21. ASSUME NEW n \in Nodes, ToggleNode(n) PROVE QuietInv'
  BY <1>21 DEF ToggleNode, CycleInv, HoldInv, Pending, StillHeld, InPlace,
        AsSeen, Unseen
<1>22. ASSUME NEW n \in Nodes, DeleteNode(n) PROVE QuietInv'
  BY <1>22 DEF DeleteNode, NodeOfHold, CycleInv, HoldInv, Pending, StillHeld,
        InPlace, AsSeen, Unseen
<1>23. ASSUME NEW n \in Nodes, NodeGoesDown(n) PROVE QuietInv'
  BY <1>23 DEF NodeGoesDown, CycleInv, HoldInv, Pending, StillHeld, InPlace,
        AsSeen, Unseen
<1>24. ASSUME NEW n \in Nodes, NodeComesUp(n) PROVE QuietInv'
  BY <1>24 DEF NodeComesUp, CycleInv, HoldInv, Pending, StillHeld, InPlace,
        AsSeen, Unseen
<1>25. ASSUME NEW s \in Servers, NEW st \in Outsiders, OutsideChange(s, st)
             PROVE QuietInv'
  <2>1. s \in touched' \/ Unseen(s)
    BY <1>25 DEF OutsideChange, Touch
  <2>2. /\ UNCHANGED <<hold, batch, view, cycle, current, ask, before,
             returned, pc>>
        /\ touched \subseteq touched'
        /\ \A t \in Servers \ {s} : adminState'[t] = adminState[t]
    BY <1>25 DEF OutsideChange, Touch
  <2> HIDE DEF QuietInv, TypeOK, ServerOf
  <2> QED
    BY <2>1, <2>2, QuietChange
<1>26. ASSUME NEW s \in Servers, ServerFails(s) PROVE QuietInv'
  BY <1>26 DEF ServerFails, CycleInv, HoldInv, Pending, StillHeld, InPlace,
        AsSeen, Unseen
<1>27. ASSUME NEW s \in Servers, ServerPasses(s) PROVE QuietInv'
  BY <1>27 DEF ServerPasses, CycleInv, HoldInv, Pending, StillHeld, InPlace,
        AsSeen, Unseen
<1>28. ASSUME Crash PROVE QuietInv'
  BY <1>28 DEF Crash, EndCycle, CycleInv, HoldInv, Pending, StillHeld, InPlace,
        AsSeen, Unseen
<1>29. CASE UNCHANGED vars
  BY <1>29 DEF vars, CycleInv, HoldInv, Pending, StillHeld, InPlace, AsSeen,
        Unseen
<1> HIDE DEF QuietInv, TypeOK
<1> QED
  BY <1>1, <1>2, <1>3, <1>4, <1>5, <1>6, <1>7, <1>8, <1>9, <1>10, <1>11, <1>12,
     <1>13, <1>14, <1>15, <1>16, <1>17, <1>18, <1>19, <1>20, <1>21, <1>22,
     <1>23, <1>24, <1>25, <1>26, <1>27, <1>28, <1>29
     DEF Next, RequestNext, PollerNext, EnvironmentNext

QuietIndInv == BaseInv /\ SupersedeInv /\ QuietInv

LEMMA QuietCorrect == Spec => []QuietIndInv
<1>1. Init => SupersedeInv /\ QuietInv
  BY DEF Init, SupersedeInv, LaterChangeSupersedes, QuietInv, Pending, AsSeen
<1>2. QuietIndInv /\ [Next]_vars /\ BaseInv' => QuietIndInv'
  BY SupersedeStep, QuietStep DEF QuietIndInv, BaseInv
<1>3. QED
  BY <1>1, <1>2, BaseCorrect, PTL DEF Spec, QuietIndInv

\* Whatever requests on a server overlap: a change that is answered has ended
\* every window that was open on its server when it was sent
\* (_supersede_holds).
THEOREM LaterChangeCorrect == Spec => []LaterChangeSupersedes
<1>1. QuietIndInv => LaterChangeSupersedes
  BY DEF QuietIndInv, SupersedeInv
<1>2. QED
  BY <1>1, QuietCorrect, PTL

\* The sweep never overrides a decision that was settled when the cycle
\* polled the server: what it is about to put back is in the state of its
\* hold, or back already, and no change sent after the hold has been answered.
THEOREM QuietRevertCorrect == Spec => []QuietRevertIsWanted
<1>1. QuietIndInv => QuietRevertIsWanted
  <2> SUFFICES ASSUME QuietIndInv, cycle = "reverting",
                      ServerOf(current) \notin touched
               PROVE  /\ \A r \in Requests :
                           pc[r] = "done" => current \notin before[r]
                      /\ InPlace(current)
    BY DEF QuietRevertIsWanted, InPlace
  <2>1. current \in Requests /\ Pending(current)
    BY DEF QuietIndInv, BaseInv, CycleInv, Pending
  <2> QED
    BY <2>1 DEF QuietIndInv, QuietInv
<1>2. QED
  BY <1>1, QuietCorrect, PTL

-----------------------------------------------------------------------------
(* No hold is dropped without cause                                        *)

\* The history of causes follows every change of a held server.
LEMMA AppliedStep ==
  ASSUME TypeOK, HoldInv, ReleasedForCause, AppliedInv, [Next]_vars
  PROVE  AppliedInv'
<1> USE NoRequestAssumption DEF TypeOK, AppliedInv, Holding, MakesHold,
        Excused, Left, Doubted, ServerOf, Ask, nodeVars, requestVars,
        sweepVars, pollVars, causeVars
<1>1. ASSUME NEW r \in Requests, NEW a \in Asks, Begin(r, a) PROVE AppliedInv'
  BY <1>1 DEF Begin
<1>2. ASSUME NEW r \in Requests, CallSucceeds(r) PROVE AppliedInv'
  BY <1>2 DEF CallSucceeds, Displaced, Holding
<1>3. ASSUME NEW r \in Requests, CallFails(r) PROVE AppliedInv'
  BY <1>3 DEF CallFails
<1>4. ASSUME NEW r \in Requests, SelectHolds(r) PROVE AppliedInv'
  BY <1>4 DEF SelectHolds
<1>5. ASSUME NEW r \in Requests, CommitHolds(r) PROVE AppliedInv'
  BY <1>5 DEF CommitHolds, AfterChange, ReleasedForCause, HoldStatus, HoldInv
<1>6. ASSUME NEW r \in Requests, CommitFails(r) PROVE AppliedInv'
  BY <1>6 DEF CommitFails
<1>7. ASSUME NEW r \in Requests, RequestLost(r) PROVE AppliedInv'
  BY <1>7 DEF RequestLost
<1>8. ASSUME StartCycle PROVE AppliedInv'
  BY <1>8 DEF StartCycle
<1>9. ASSUME EmptyCycle PROVE AppliedInv'
  BY <1>9 DEF EmptyCycle, vars
<1>10. ASSUME NEW n \in Nodes, PollNode(n) PROVE AppliedInv'
  BY <1>10 DEF PollNode
<1>11. ASSUME ReadDue PROVE AppliedInv'
  BY <1>11 DEF ReadDue
<1>12. ASSUME NEW r \in Requests, CloseUnneeded(r) PROVE AppliedInv'
  BY <1>12 DEF CloseUnneeded
<1>13. ASSUME NEW r \in Requests, KeepUnseen(r) PROVE AppliedInv'
  BY <1>13 DEF KeepUnseen
<1>14. ASSUME NEW r \in Requests, StartRevert(r) PROVE AppliedInv'
  BY <1>14 DEF StartRevert
<1>15. ASSUME RevertSucceeds PROVE AppliedInv'
  BY <1>15 DEF RevertSucceeds, PutBack, Displaced, Holding
<1>16. ASSUME RevertUnanswered PROVE AppliedInv'
  BY <1>16 DEF RevertUnanswered, PutBack, Displaced, Holding
<1>17. ASSUME RevertFails PROVE AppliedInv'
  BY <1>17 DEF RevertFails
<1>18. ASSUME CommitSweep PROVE AppliedInv'
  BY <1>18 DEF CommitSweep, AfterSweep
<1>19. ASSUME RollbackSweep PROVE AppliedInv'
  BY <1>19 DEF RollbackSweep
<1>20. ASSUME NEW r \in Requests, WindowCloses(r) PROVE AppliedInv'
  BY <1>20 DEF WindowCloses
<1>21. ASSUME NEW n \in Nodes, ToggleNode(n) PROVE AppliedInv'
  BY <1>21 DEF ToggleNode
<1>22. ASSUME NEW n \in Nodes, DeleteNode(n) PROVE AppliedInv'
  BY <1>22 DEF DeleteNode
<1>23. ASSUME NEW n \in Nodes, NodeGoesDown(n) PROVE AppliedInv'
  BY <1>23 DEF NodeGoesDown
<1>24. ASSUME NEW n \in Nodes, NodeComesUp(n) PROVE AppliedInv'
  BY <1>24 DEF NodeComesUp
<1>25. ASSUME NEW s \in Servers, NEW st \in Outsiders, OutsideChange(s, st)
             PROVE AppliedInv'
  BY <1>25 DEF OutsideChange, Displaced, Holding
<1>26. ASSUME NEW s \in Servers, ServerFails(s) PROVE AppliedInv'
  BY <1>26 DEF ServerFails
<1>27. ASSUME NEW s \in Servers, ServerPasses(s) PROVE AppliedInv'
  BY <1>27 DEF ServerPasses
<1>28. ASSUME Crash PROVE AppliedInv'
  BY <1>28 DEF Crash, InFlight
<1>29. CASE UNCHANGED vars
  BY <1>29 DEF vars
<1> QED
  BY <1>1, <1>2, <1>3, <1>4, <1>5, <1>6, <1>7, <1>8, <1>9, <1>10, <1>11, <1>12,
     <1>13, <1>14, <1>15, <1>16, <1>17, <1>18, <1>19, <1>20, <1>21, <1>22,
     <1>23, <1>24, <1>25, <1>26, <1>27, <1>28, <1>29
     DEF Next, RequestNext, PollerNext, EnvironmentNext

\* A snapshot taken this cycle is evidence about every older hold.
LEMMA SeenStep ==
  ASSUME TypeOK, CycleInv, HoldInv, AppliedInv, ReleasedForCause, SeenInv,
         [Next]_vars
  PROVE  SeenInv'
<1> USE DEF TypeOK, SeenInv, Excused, Left, Doubted, ServerOf, nodeVars,
        requestVars, sweepVars, pollVars, causeVars
<1>1. ASSUME NEW r \in Requests, NEW a \in Asks, Begin(r, a) PROVE SeenInv'
  BY <1>1 DEF Begin, HoldInv, Pending, Unseen, StillHeld
<1>2. ASSUME NEW r \in Requests, CallSucceeds(r) PROVE SeenInv'
  BY <1>2 DEF CallSucceeds, Pending, Unseen, StillHeld
<1>3. ASSUME NEW r \in Requests, CallFails(r) PROVE SeenInv'
  BY <1>3 DEF CallFails, Pending, Unseen, StillHeld
<1>4. ASSUME NEW r \in Requests, SelectHolds(r) PROVE SeenInv'
  BY <1>4 DEF SelectHolds, Pending, Unseen, StillHeld
<1>5. ASSUME NEW r \in Requests, CommitHolds(r) PROVE SeenInv'
  <2> SUFFICES ASSUME NEW q \in Requests, hold'[q] \in {"open", "replaced"},
                      Pending(q)' \/ (cycle' = "polling" /\ q \notin fresh')
               PROVE  Unseen(ServerOf(q))' \/ StillHeld(q)' \/ Excused(q)'
    BY DEF SeenInv
  <2>1. /\ Pending(q) \/ (cycle = "polling" /\ q \notin fresh)
        /\ Unseen(ServerOf(q))' <=> Unseen(ServerOf(q))
        /\ StillHeld(q)' <=> StillHeld(q)
        /\ Excused(q)' <=> Excused(q)
    BY <1>5 DEF CommitHolds, Pending, Unseen, StillHeld
  <2>2. CASE hold[q] \in {"open", "replaced"}
    BY <2>1, <2>2
  <2>3. CASE hold[q] = "none"
    <3>1. q = r /\ ~Pending(q)
      BY <1>5, <2>3 DEF CommitHolds, AfterChange, HoldInv
    <3> QED
      BY <1>5, <2>1, <3>1 DEF CommitHolds, Pending
  <2>4. CASE hold[q] \in {"superseded", "expired"}
    BY <2>1, <2>4 DEF ReleasedForCause, Excused
  <2>5. CASE hold[q] = "gone"
    BY <1>5, <2>5 DEF CommitHolds, AfterChange, HoldInv
  <2> QED
    BY <2>2, <2>3, <2>4, <2>5 DEF HoldStatus
<1>6. ASSUME NEW r \in Requests, CommitFails(r) PROVE SeenInv'
  BY <1>6 DEF CommitFails, Pending, Unseen, StillHeld
<1>7. ASSUME NEW r \in Requests, RequestLost(r) PROVE SeenInv'
  BY <1>7 DEF RequestLost, Pending, Unseen, StillHeld
<1>8. ASSUME StartCycle PROVE SeenInv'
  BY <1>8 DEF StartCycle, CycleInv, NothingSeen, Ask, Pending, Unseen,
        StillHeld
<1>9. ASSUME EmptyCycle PROVE SeenInv'
  BY <1>9 DEF EmptyCycle, vars, Pending, Unseen, StillHeld
<1>10. ASSUME NEW n \in Nodes, PollNode(n) PROVE SeenInv'
  <2> USE <1>10 DEF PollNode
  <2> SUFFICES ASSUME NEW r \in Requests, hold[r] \in {"open", "replaced"},
                      r \notin fresh
               PROVE  Unseen(ServerOf(r))' \/ StillHeld(r)' \/ Excused(r)'
    BY DEF CycleInv, Pending
  <2>1. Excused(r) => Excused(r)'
    OBVIOUS
  <2>2. Holding(r) /\ ServerOf(r) \in Servers /\ ask[r].state \in {"drain", "maint"}
    BY DEF HoldInv, Holding, MakesHold, Ask, AdminStates
  <2>3. CASE NodeOf[ServerOf(r)] # n
    BY <2>1, <2>2, <2>3 DEF Unseen, StillHeld
  <2>4. CASE NodeOf[ServerOf(r)] = n /\ ~up[n]
    BY <2>2, <2>4 DEF Unseen
  <2>5. CASE NodeOf[ServerOf(r)] = n /\ up[n]
    <3>1. view'[ServerOf(r)] = Status(ServerOf(r))
      BY <2>2, <2>5
    <3>2. CASE Excused(r)
      BY <2>1, <3>2
    <3>3. CASE adminState[ServerOf(r)] = ask[r].state
      <4>1. CASE ask[r].state = "drain" /\ ServerOf(r) \in failing
        <5>1. r \in Ailments(n)
          BY <2>2, <2>5, <3>3, <4>1 DEF Ailments, NodeOfHold, ServerOf
        <5> QED
          BY <2>5, <5>1
      <4>2. CASE ~(ask[r].state = "drain" /\ ServerOf(r) \in failing)
        BY <2>2, <3>1, <3>3, <4>2 DEF Status, StillHeld, Upper
      <4> QED
        BY <4>1, <4>2
    <3> QED
      BY <2>2, <3>2, <3>3 DEF AppliedInv
  <2> QED
    BY <2>3, <2>4, <2>5
<1>11. ASSUME ReadDue PROVE SeenInv'
  <2> USE <1>11 DEF ReadDue
  <2>1. batch = {} /\ cycle' # "polling" /\ cycle' # "reverting"
    BY DEF CycleInv, EndCycle
  <2>2. CASE batch' = {}
    BY <2>1, <2>2 DEF Pending
  <2>3. CASE batch' # {}
    <3>1. UNCHANGED <<view, ask, hold>>
      BY <2>3
    <3>2. ASSUME NEW r \in batch' PROVE Unseen(ServerOf(r)) \/ StillHeld(r) \/ Excused(r)'
      <4>1. CASE r \in fresh
        BY <4>1
      <4>2. CASE r \notin fresh
        BY <4>2
      <4> QED
        BY <4>1, <4>2
    <3> QED
      BY <2>1, <3>1, <3>2 DEF Pending, Unseen, StillHeld
  <2> QED
    BY <2>2, <2>3
<1>12. ASSUME NEW r \in Requests, CloseUnneeded(r) PROVE SeenInv'
  BY <1>12 DEF CloseUnneeded, Pending, Unseen, StillHeld
<1>13. ASSUME NEW r \in Requests, KeepUnseen(r) PROVE SeenInv'
  BY <1>13 DEF KeepUnseen, Pending, Unseen, StillHeld
<1>14. ASSUME NEW r \in Requests, StartRevert(r) PROVE SeenInv'
  BY <1>14 DEF StartRevert, Pending, Unseen, StillHeld
<1>15. ASSUME RevertSucceeds PROVE SeenInv'
  BY <1>15 DEF RevertSucceeds, PutBack, Pending, Unseen, StillHeld
<1>16. ASSUME RevertUnanswered PROVE SeenInv'
  BY <1>16 DEF RevertUnanswered, PutBack, Pending, Unseen, StillHeld
<1>17. ASSUME RevertFails PROVE SeenInv'
  BY <1>17 DEF RevertFails, Pending, Unseen, StillHeld
<1>18. ASSUME CommitSweep PROVE SeenInv'
  BY <1>18 DEF CommitSweep, AfterSweep, EndCycle, CycleInv, Pending, Unseen,
        StillHeld
<1>19. ASSUME RollbackSweep PROVE SeenInv'
  BY <1>19 DEF RollbackSweep, EndCycle, Pending, Unseen, StillHeld
<1>20. ASSUME NEW r \in Requests, WindowCloses(r) PROVE SeenInv'
  BY <1>20 DEF WindowCloses, Pending, Unseen, StillHeld
<1>21. ASSUME NEW n \in Nodes, ToggleNode(n) PROVE SeenInv'
  BY <1>21 DEF ToggleNode, Pending, Unseen, StillHeld
<1>22. ASSUME NEW n \in Nodes, DeleteNode(n) PROVE SeenInv'
  BY <1>22 DEF DeleteNode, Pending, Unseen, StillHeld
<1>23. ASSUME NEW n \in Nodes, NodeGoesDown(n) PROVE SeenInv'
  BY <1>23 DEF NodeGoesDown, Pending, Unseen, StillHeld
<1>24. ASSUME NEW n \in Nodes, NodeComesUp(n) PROVE SeenInv'
  BY <1>24 DEF NodeComesUp, Pending, Unseen, StillHeld
<1>25. ASSUME NEW s \in Servers, NEW st \in Outsiders, OutsideChange(s, st)
             PROVE SeenInv'
  BY <1>25 DEF OutsideChange, Pending, Unseen, StillHeld
<1>26. ASSUME NEW s \in Servers, ServerFails(s) PROVE SeenInv'
  BY <1>26 DEF ServerFails, Pending, Unseen, StillHeld
<1>27. ASSUME NEW s \in Servers, ServerPasses(s) PROVE SeenInv'
  BY <1>27 DEF ServerPasses, Pending, Unseen, StillHeld
<1>28. ASSUME Crash PROVE SeenInv'
  BY <1>28 DEF Crash, EndCycle, Pending, Unseen, StillHeld
<1>29. CASE UNCHANGED vars
  BY <1>29 DEF vars, Pending, Unseen, StillHeld
<1> HIDE DEF SeenInv, TypeOK
<1> QED
  BY <1>1, <1>2, <1>3, <1>4, <1>5, <1>6, <1>7, <1>8, <1>9, <1>10, <1>11, <1>12,
     <1>13, <1>14, <1>15, <1>16, <1>17, <1>18, <1>19, <1>20, <1>21, <1>22,
     <1>23, <1>24, <1>25, <1>26, <1>27, <1>28, <1>29
     DEF Next, RequestNext, PollerNext, EnvironmentNext

\* Deleting a node deletes its hold rows, and nothing brings one back.
LEMMA GoneStep ==
  ASSUME TypeOK, HoldInv, GoneInv, [Next]_vars
  PROVE  GoneInv'
<1> USE DEF TypeOK, GoneInv, NodeOfHold, ServerOf, nodeVars, requestVars,
        sweepVars, pollVars, causeVars
<1>1. ASSUME NEW r \in Requests, NEW a \in Asks, Begin(r, a) PROVE GoneInv'
  BY <1>1 DEF Begin, HoldInv
<1>2. ASSUME NEW r \in Requests, CallSucceeds(r) PROVE GoneInv'
  BY <1>2 DEF CallSucceeds
<1>3. ASSUME NEW r \in Requests, CallFails(r) PROVE GoneInv'
  BY <1>3 DEF CallFails
<1>4. ASSUME NEW r \in Requests, SelectHolds(r) PROVE GoneInv'
  BY <1>4 DEF SelectHolds
<1>5. ASSUME NEW r \in Requests, CommitHolds(r) PROVE GoneInv'
  BY <1>5 DEF CommitHolds, AfterChange, HoldInv, NodeOfHold
<1>6. ASSUME NEW r \in Requests, CommitFails(r) PROVE GoneInv'
  BY <1>6 DEF CommitFails
<1>7. ASSUME NEW r \in Requests, RequestLost(r) PROVE GoneInv'
  BY <1>7 DEF RequestLost
<1>8. ASSUME StartCycle PROVE GoneInv'
  BY <1>8 DEF StartCycle
<1>9. ASSUME EmptyCycle PROVE GoneInv'
  BY <1>9 DEF EmptyCycle, vars
<1>10. ASSUME NEW n \in Nodes, PollNode(n) PROVE GoneInv'
  BY <1>10 DEF PollNode
<1>11. ASSUME ReadDue PROVE GoneInv'
  BY <1>11 DEF ReadDue
<1>12. ASSUME NEW r \in Requests, CloseUnneeded(r) PROVE GoneInv'
  BY <1>12 DEF CloseUnneeded
<1>13. ASSUME NEW r \in Requests, KeepUnseen(r) PROVE GoneInv'
  BY <1>13 DEF KeepUnseen
<1>14. ASSUME NEW r \in Requests, StartRevert(r) PROVE GoneInv'
  BY <1>14 DEF StartRevert
<1>15. ASSUME RevertSucceeds PROVE GoneInv'
  BY <1>15 DEF RevertSucceeds
<1>16. ASSUME RevertUnanswered PROVE GoneInv'
  BY <1>16 DEF RevertUnanswered
<1>17. ASSUME RevertFails PROVE GoneInv'
  BY <1>17 DEF RevertFails
<1>18. ASSUME CommitSweep PROVE GoneInv'
  BY <1>18 DEF CommitSweep, AfterSweep, HoldInv
<1>19. ASSUME RollbackSweep PROVE GoneInv'
  BY <1>19 DEF RollbackSweep
<1>20. ASSUME NEW r \in Requests, WindowCloses(r) PROVE GoneInv'
  BY <1>20 DEF WindowCloses
<1>21. ASSUME NEW n \in Nodes, ToggleNode(n) PROVE GoneInv'
  BY <1>21 DEF ToggleNode
<1>22. ASSUME NEW n \in Nodes, DeleteNode(n) PROVE GoneInv'
  BY <1>22 DEF DeleteNode
<1>23. ASSUME NEW n \in Nodes, NodeGoesDown(n) PROVE GoneInv'
  BY <1>23 DEF NodeGoesDown
<1>24. ASSUME NEW n \in Nodes, NodeComesUp(n) PROVE GoneInv'
  BY <1>24 DEF NodeComesUp
<1>25. ASSUME NEW s \in Servers, NEW st \in Outsiders, OutsideChange(s, st)
             PROVE GoneInv'
  BY <1>25 DEF OutsideChange
<1>26. ASSUME NEW s \in Servers, ServerFails(s) PROVE GoneInv'
  BY <1>26 DEF ServerFails
<1>27. ASSUME NEW s \in Servers, ServerPasses(s) PROVE GoneInv'
  BY <1>27 DEF ServerPasses
<1>28. ASSUME Crash PROVE GoneInv'
  BY <1>28 DEF Crash
<1>29. CASE UNCHANGED vars
  BY <1>29 DEF vars
<1> QED
  BY <1>1, <1>2, <1>3, <1>4, <1>5, <1>6, <1>7, <1>8, <1>9, <1>10, <1>11, <1>12,
     <1>13, <1>14, <1>15, <1>16, <1>17, <1>18, <1>19, <1>20, <1>21, <1>22,
     <1>23, <1>24, <1>25, <1>26, <1>27, <1>28, <1>29
     DEF Next, RequestNext, PollerNext, EnvironmentNext

\* What the sweep is about to release is excused or deleted.
LEMMA ClosingStep ==
  ASSUME TypeOK, CycleInv, HoldInv, SeenInv, GoneInv, ClosingInv, [Next]_vars
  PROVE  ClosingInv'
<1> USE NoRequestAssumption DEF TypeOK, ClosingInv, Excused, Left, Doubted,
        ServerOf, nodeVars, requestVars, sweepVars, pollVars, causeVars
<1>1. ASSUME NEW r \in Requests, NEW a \in Asks, Begin(r, a) PROVE ClosingInv'
  BY <1>1 DEF Begin
<1>2. ASSUME NEW r \in Requests, CallSucceeds(r) PROVE ClosingInv'
  BY <1>2 DEF CallSucceeds
<1>3. ASSUME NEW r \in Requests, CallFails(r) PROVE ClosingInv'
  BY <1>3 DEF CallFails
<1>4. ASSUME NEW r \in Requests, SelectHolds(r) PROVE ClosingInv'
  BY <1>4 DEF SelectHolds
<1>5. ASSUME NEW r \in Requests, CommitHolds(r) PROVE ClosingInv'
  BY <1>5 DEF CommitHolds, AfterChange, HoldInv
<1>6. ASSUME NEW r \in Requests, CommitFails(r) PROVE ClosingInv'
  BY <1>6 DEF CommitFails
<1>7. ASSUME NEW r \in Requests, RequestLost(r) PROVE ClosingInv'
  BY <1>7 DEF RequestLost
<1>8. ASSUME StartCycle PROVE ClosingInv'
  BY <1>8 DEF StartCycle
<1>9. ASSUME EmptyCycle PROVE ClosingInv'
  BY <1>9 DEF EmptyCycle, vars
<1>10. ASSUME NEW n \in Nodes, PollNode(n) PROVE ClosingInv'
  BY <1>10 DEF PollNode
<1>11. ASSUME ReadDue PROVE ClosingInv'
  BY <1>11 DEF ReadDue
<1>12. ASSUME NEW r \in Requests, CloseUnneeded(r) PROVE ClosingInv'
  BY <1>12 DEF CloseUnneeded, Unseen, StillHeld, NodeOfHold, HoldInv, Pending,
        SeenInv, GoneInv, CycleInv
<1>13. ASSUME NEW r \in Requests, KeepUnseen(r) PROVE ClosingInv'
  BY <1>13 DEF KeepUnseen
<1>14. ASSUME NEW r \in Requests, StartRevert(r) PROVE ClosingInv'
  BY <1>14 DEF StartRevert
<1>15. ASSUME RevertSucceeds PROVE ClosingInv'
  BY <1>15 DEF RevertSucceeds, PutBack, Displaced, Holding, HoldInv, MakesHold,
        Pending, CycleInv
<1>16. ASSUME RevertUnanswered PROVE ClosingInv'
  BY <1>16 DEF RevertUnanswered, PutBack
<1>17. ASSUME RevertFails PROVE ClosingInv'
  BY <1>17 DEF RevertFails
<1>18. ASSUME CommitSweep PROVE ClosingInv'
  BY <1>18 DEF CommitSweep, NothingClosing
<1>19. ASSUME RollbackSweep PROVE ClosingInv'
  BY <1>19 DEF RollbackSweep, NothingClosing
<1>20. ASSUME NEW r \in Requests, WindowCloses(r) PROVE ClosingInv'
  BY <1>20 DEF WindowCloses
<1>21. ASSUME NEW n \in Nodes, ToggleNode(n) PROVE ClosingInv'
  BY <1>21 DEF ToggleNode
<1>22. ASSUME NEW n \in Nodes, DeleteNode(n) PROVE ClosingInv'
  BY <1>22 DEF DeleteNode
<1>23. ASSUME NEW n \in Nodes, NodeGoesDown(n) PROVE ClosingInv'
  BY <1>23 DEF NodeGoesDown
<1>24. ASSUME NEW n \in Nodes, NodeComesUp(n) PROVE ClosingInv'
  BY <1>24 DEF NodeComesUp
<1>25. ASSUME NEW s \in Servers, NEW st \in Outsiders, OutsideChange(s, st)
             PROVE ClosingInv'
  BY <1>25 DEF OutsideChange
<1>26. ASSUME NEW s \in Servers, ServerFails(s) PROVE ClosingInv'
  BY <1>26 DEF ServerFails
<1>27. ASSUME NEW s \in Servers, ServerPasses(s) PROVE ClosingInv'
  BY <1>27 DEF ServerPasses
<1>28. ASSUME Crash PROVE ClosingInv'
  BY <1>28 DEF Crash, NothingClosing
<1>29. CASE UNCHANGED vars
  BY <1>29 DEF vars
<1> QED
  BY <1>1, <1>2, <1>3, <1>4, <1>5, <1>6, <1>7, <1>8, <1>9, <1>10, <1>11, <1>12,
     <1>13, <1>14, <1>15, <1>16, <1>17, <1>18, <1>19, <1>20, <1>21, <1>22,
     <1>23, <1>24, <1>25, <1>26, <1>27, <1>28, <1>29
     DEF Next, RequestNext, PollerNext, EnvironmentNext

\* Every commit of the sweep that releases a hold has a cause.
LEMMA ReleasedStep ==
  ASSUME TypeOK, HoldInv, ClosingInv, ReleasedForCause, [Next]_vars
  PROVE  ReleasedForCause'
<1> USE DEF TypeOK, ReleasedForCause, Left, Doubted, nodeVars, requestVars,
        sweepVars, pollVars, causeVars
<1>1. ASSUME NEW r \in Requests, NEW a \in Asks, Begin(r, a) PROVE
             ReleasedForCause'
  BY <1>1 DEF Begin
<1>2. ASSUME NEW r \in Requests, CallSucceeds(r) PROVE ReleasedForCause'
  BY <1>2 DEF CallSucceeds
<1>3. ASSUME NEW r \in Requests, CallFails(r) PROVE ReleasedForCause'
  BY <1>3 DEF CallFails
<1>4. ASSUME NEW r \in Requests, SelectHolds(r) PROVE ReleasedForCause'
  BY <1>4 DEF SelectHolds
<1>5. ASSUME NEW r \in Requests, CommitHolds(r) PROVE ReleasedForCause'
  BY <1>5 DEF CommitHolds, AfterChange
<1>6. ASSUME NEW r \in Requests, CommitFails(r) PROVE ReleasedForCause'
  BY <1>6 DEF CommitFails
<1>7. ASSUME NEW r \in Requests, RequestLost(r) PROVE ReleasedForCause'
  BY <1>7 DEF RequestLost
<1>8. ASSUME StartCycle PROVE ReleasedForCause'
  BY <1>8 DEF StartCycle
<1>9. ASSUME EmptyCycle PROVE ReleasedForCause'
  BY <1>9 DEF EmptyCycle, vars
<1>10. ASSUME NEW n \in Nodes, PollNode(n) PROVE ReleasedForCause'
  BY <1>10 DEF PollNode
<1>11. ASSUME ReadDue PROVE ReleasedForCause'
  BY <1>11 DEF ReadDue
<1>12. ASSUME NEW r \in Requests, CloseUnneeded(r) PROVE ReleasedForCause'
  BY <1>12 DEF CloseUnneeded
<1>13. ASSUME NEW r \in Requests, KeepUnseen(r) PROVE ReleasedForCause'
  BY <1>13 DEF KeepUnseen
<1>14. ASSUME NEW r \in Requests, StartRevert(r) PROVE ReleasedForCause'
  BY <1>14 DEF StartRevert
<1>15. ASSUME RevertSucceeds PROVE ReleasedForCause'
  BY <1>15 DEF RevertSucceeds, PutBack
<1>16. ASSUME RevertUnanswered PROVE ReleasedForCause'
  BY <1>16 DEF RevertUnanswered, PutBack
<1>17. ASSUME RevertFails PROVE ReleasedForCause'
  BY <1>17 DEF RevertFails
<1>18. ASSUME CommitSweep PROVE ReleasedForCause'
  BY <1>18 DEF CommitSweep, AfterSweep, ClosingInv, Excused
<1>19. ASSUME RollbackSweep PROVE ReleasedForCause'
  BY <1>19 DEF RollbackSweep
<1>20. ASSUME NEW r \in Requests, WindowCloses(r) PROVE ReleasedForCause'
  BY <1>20 DEF WindowCloses
<1>21. ASSUME NEW n \in Nodes, ToggleNode(n) PROVE ReleasedForCause'
  BY <1>21 DEF ToggleNode
<1>22. ASSUME NEW n \in Nodes, DeleteNode(n) PROVE ReleasedForCause'
  BY <1>22 DEF DeleteNode
<1>23. ASSUME NEW n \in Nodes, NodeGoesDown(n) PROVE ReleasedForCause'
  BY <1>23 DEF NodeGoesDown
<1>24. ASSUME NEW n \in Nodes, NodeComesUp(n) PROVE ReleasedForCause'
  BY <1>24 DEF NodeComesUp
<1>25. ASSUME NEW s \in Servers, NEW st \in Outsiders, OutsideChange(s, st)
             PROVE ReleasedForCause'
  BY <1>25 DEF OutsideChange
<1>26. ASSUME NEW s \in Servers, ServerFails(s) PROVE ReleasedForCause'
  BY <1>26 DEF ServerFails
<1>27. ASSUME NEW s \in Servers, ServerPasses(s) PROVE ReleasedForCause'
  BY <1>27 DEF ServerPasses
<1>28. ASSUME Crash PROVE ReleasedForCause'
  BY <1>28 DEF Crash
<1>29. CASE UNCHANGED vars
  BY <1>29 DEF vars
<1> QED
  BY <1>1, <1>2, <1>3, <1>4, <1>5, <1>6, <1>7, <1>8, <1>9, <1>10, <1>11, <1>12,
     <1>13, <1>14, <1>15, <1>16, <1>17, <1>18, <1>19, <1>20, <1>21, <1>22,
     <1>23, <1>24, <1>25, <1>26, <1>27, <1>28, <1>29
     DEF Next, RequestNext, PollerNext, EnvironmentNext

CauseIndInv ==
  /\ BaseInv
  /\ AppliedInv /\ SeenInv /\ GoneInv /\ ClosingInv
  /\ ReleasedForCause

LEMMA CauseCorrect == Spec => []CauseIndInv
<1>1. Init => CauseIndInv \/ ~BaseInv
  BY DEF Init, CauseIndInv, AppliedInv, SeenInv, GoneInv, ClosingInv,
         ReleasedForCause, Holding, NothingClosing
<1>2. CauseIndInv /\ [Next]_vars /\ BaseInv' => CauseIndInv'
  BY AppliedStep, SeenStep, GoneStep, ClosingStep, ReleasedStep
     DEF CauseIndInv, BaseInv
<1>3. QED
  BY <1>1, <1>2, BaseCorrect, PTL DEF Spec

\* The sweep releases a hold only after its server left the state it set, a
\* poll found the server failing while drained, or the window was due in the
\* cycle it was opened in: failed calls, unreachable nodes, rollbacks and
\* crashes never drop one.
THEOREM ReleasedForCauseCorrect == Spec => []ReleasedForCause
<1>1. CauseIndInv => ReleasedForCause
  BY DEF CauseIndInv
<1>2. QED
  BY <1>1, CauseCorrect, PTL

-----------------------------------------------------------------------------
(* The holds are windows as Windows promises them                          *)

WindowInv == QuietIndInv /\ CauseIndInv

\* No hold is written, no server of a request changes, no node is deleted.
HoldsStay ==
  /\ hold' = hold /\ ask' = ask /\ before' = before
  /\ \A n \in Nodes : nodeRow'[n] = "deleted" <=> nodeRow[n] = "deleted"

\* No request starts or ends.
RequestsStay ==
  \A r \in Requests :
    /\ InFlight(r)' <=> InFlight(r)
    /\ pc'[r] \in {"done", "failed", "lost"} <=> pc[r] \in {"done", "failed", "lost"}

CausesStay == Left' = Left /\ Doubted' = Doubted

LEMMA SameWindows ==
  ASSUME HoldsStay
  PROVE  /\ OpenWindows' = OpenWindows /\ EndedWindows' = EndedWindows
         /\ GoneNodes' = GoneNodes
         /\ [r \in Requests |-> ServerOf(r)]' = [r \in Requests |-> ServerOf(r)]
BY DEF HoldsStay, OpenWindows, EndedWindows, GoneNodes, ServerOf

LEMMA StayThere ==
  ASSUME HoldsStay, RequestsStay, CausesStay
  PROVE  [Promise!Next]_Promise!vars
<1>1. Asked' = Asked /\ Settled' = Settled
  BY DEF RequestsStay, Asked, Settled
<1> QED
  BY <1>1, SameWindows DEF Promise!vars, Promise!changeVars, HoldsStay,
      CausesStay

LEMMA HappenThere ==
  ASSUME TypeOK', HoldsStay, RequestsStay, Left \subseteq Left',
           Doubted \subseteq Doubted'
  PROVE  [Promise!Next]_Promise!vars
<1>1. Asked' = Asked /\ Settled' = Settled
  BY DEF RequestsStay, Asked, Settled
<1>2. Left' \in SUBSET Requests /\ Doubted' \in SUBSET Requests
  BY DEF TypeOK, Left, Doubted
<1>3. Promise!Happen(Left', Doubted')
  BY <1>1, SameWindows DEF Promise!Happen, Promise!changeVars, HoldsStay
<1> QED
  BY <1>2, <1>3 DEF Promise!Next

LEMMA GiveUpThere ==
  ASSUME HoldsStay, CausesStay, NEW C \in SUBSET Asked,
         \A r \in Requests :
           IF r \in C THEN pc'[r] \in {"failed", "lost"} ELSE pc'[r] = pc[r]
  PROVE  [Promise!Next]_Promise!vars
<1>1. Asked' = Asked \ C /\ Settled' = Settled \cup C
  BY DEF Asked, Settled, InFlight
<1>2. Promise!GiveUp(C)
  BY <1>1, SameWindows DEF Promise!GiveUp, HoldsStay, CausesStay
<1>3. C \in SUBSET Requests
  BY DEF Asked
<1> QED
  BY <1>2, <1>3 DEF Promise!Next

LEMMA BeginThere ==
  ASSUME WindowInv, NEW r \in Requests, NEW a \in Asks, Begin(r, a)
  PROVE  [Promise!Next]_Promise!vars
<1>1. TypeOK /\ HoldInv
  BY DEF WindowInv, CauseIndInv, BaseInv
<1>2. a.server \in Servers
  BY AsksAssumption DEF Ask
<1>3. hold[r] = "none" /\ pc[r] = "idle"
  BY <1>1 DEF Begin, HoldInv
<1>4. /\ ask' = [ask EXCEPT ![r] = a] /\ pc' = [pc EXCEPT ![r] = "calling"]
      /\ before' = [before EXCEPT ![r] = OpenHoldsOn(a.server)]
      /\ UNCHANGED <<hold, nodeRow, overruled, returned, ailed, outrun>>
  BY DEF Begin, nodeVars, causeVars
<1> DEFINE server == [q \in Requests |-> ServerOf(q)]
<1>5. server' = [server EXCEPT ![r] = a.server]
  BY <1>1, <1>4 DEF ServerOf, TypeOK
<1>6. OpenHoldsOn(a.server) = Promise!OpenOn(a.server)
  BY DEF Promise!OpenOn, OpenHoldsOn, OpenWindows
<1>7. Asked' = Asked \cup {r} /\ Settled' = Settled /\ r \notin Asked \cup Settled
  BY <1>1, <1>3, <1>4 DEF Asked, Settled, InFlight, TypeOK
<1>8. UNCHANGED <<OpenWindows, EndedWindows, GoneNodes, Left, Doubted>>
  BY <1>4 DEF OpenWindows, EndedWindows, GoneNodes, Left, Doubted
<1>9. Promise!Send(r, a.server)
  BY <1>4, <1>5, <1>6, <1>7, <1>8 DEF Promise!Send
<1> QED
  BY <1>2, <1>9 DEF Promise!Next

LEMMA CommitHoldsThere ==
  ASSUME WindowInv, NEW r \in Requests, CommitHolds(r)
  PROVE  [Promise!Next]_Promise!vars
<1>1. TypeOK /\ HoldInv /\ SupersedeInv
  BY DEF WindowInv, QuietIndInv, CauseIndInv, BaseInv
<1> DEFINE new == IF MakesHold(r) THEN {r} ELSE {}
           found == OpenWindows \cap selected[r]
<1>2. hold[r] = "none" /\ ask' = ask /\ before' = before
  BY <1>1 DEF HoldInv, CommitHolds
<1>3. found \in SUBSET Promise!OpenOn(ServerOf(r))
  BY <1>1 DEF Promise!OpenOn, OpenWindows, HoldInv
<1>4. before[r] \cap OpenWindows \subseteq found
  BY <1>1 DEF SupersedeInv, CommitHolds, OpenWindows
<1>5. ASSUME NEW h \in Requests, h # r
      PROVE  /\ hold'[h] = "open" <=> hold[h] = "open" /\ h \notin selected[r]
             /\ hold'[h] \notin {"none", "open"}
                  <=> hold[h] \notin {"none", "open"} \/ (hold[h] = "open" /\ h \in selected[r])
  <2>1. hold'[h] = IF h \in selected[r] /\ hold[h] # "gone" THEN "replaced" ELSE hold[h]
    BY <1>5 DEF CommitHolds, AfterChange
  <2>2. h \in selected[r] => hold[h] # "none"
    BY <1>1 DEF HoldInv
  <2> QED
    BY <2>1, <2>2
<1>6. hold'[r] = IF MakesHold(r) THEN "open" ELSE "none"
  BY <1>1, <1>2 DEF CommitHolds, AfterChange, HoldInv
<1>7. OpenWindows' = (OpenWindows \ found) \cup new
  BY <1>2, <1>5, <1>6 DEF OpenWindows
<1>8. EndedWindows' = EndedWindows \cup found
  BY <1>2, <1>5, <1>6 DEF OpenWindows, EndedWindows
<1>9. /\ Asked' = Asked \ {r} /\ Settled' = Settled \cup {r} /\ r \in Asked
  BY <1>1 DEF CommitHolds, Asked, Settled, InFlight, TypeOK
<1>10. /\ [q \in Requests |-> ServerOf(q)]' = [q \in Requests |-> ServerOf(q)]
       /\ UNCHANGED <<GoneNodes, Left, Doubted>>
  BY <1>2 DEF CommitHolds, ServerOf, nodeVars, causeVars, GoneNodes, Left,
      Doubted
<1>11. new # {} => NodeOf[ServerOf(r)] \notin GoneNodes
  BY DEF CommitHolds, GoneNodes, NodeOfHold
<1>12. new \in {{}, {r}}
  OBVIOUS
<1> HIDE DEF new, found
<1>13. Promise!Answer(r, found, new)
  BY <1>2, <1>4, <1>7, <1>8, <1>9, <1>10, <1>11 DEF Promise!Answer
<1> QED
  BY <1>3, <1>12, <1>13 DEF Promise!Next

LEMMA CommitSweepThere ==
  ASSUME WindowInv, CommitSweep
  PROVE  [Promise!Next]_Promise!vars
<1> DEFINE W == {r \in Requests : hold[r] = "open" /\ closing[r] # "keep"}
<1>1. TypeOK /\ HoldInv /\ ClosingInv
  BY DEF WindowInv, CauseIndInv, BaseInv
<1>2. /\ UNCHANGED <<ask, pc, before, nodeRow, overruled, returned, ailed,
           outrun>>
      /\ hold' = [r \in Requests |-> AfterSweep(r)]
  BY DEF CommitSweep, requestVars, nodeVars, causeVars
<1>3. W \subseteq OpenWindows \cap (Left \cup Doubted)
  BY <1>1 DEF ClosingInv, Excused, OpenWindows
<1>4. \A r \in Requests : closing[r] \in {"keep", "superseded", "expired"}
  BY <1>1 DEF TypeOK
<1>5. \A r \in Requests : hold'[r] = "open" <=> hold[r] = "open" /\ r \notin W
  BY <1>2, <1>4 DEF AfterSweep
<1>6. \A r \in Requests :
        hold'[r] \notin {"none", "open"} <=> hold[r] \notin {"none", "open"} \/ r \in W
  BY <1>1, <1>2, <1>4 DEF AfterSweep, HoldInv
<1>7. OpenWindows' = OpenWindows \ W
  BY <1>5 DEF OpenWindows
<1>8. EndedWindows' = EndedWindows \cup W
  BY <1>6 DEF EndedWindows
<1>9. /\ [q \in Requests |-> ServerOf(q)]' = [q \in Requests |-> ServerOf(q)]
      /\ UNCHANGED <<Asked, Settled, GoneNodes, Left, Doubted>>
  BY <1>2 DEF ServerOf, Asked, Settled, InFlight, GoneNodes, Left, Doubted
<1>10. Promise!Release(W)
  BY <1>2, <1>3, <1>7, <1>8, <1>9 DEF Promise!Release, Promise!changeVars
<1>11. W \in SUBSET OpenWindows
  BY <1>3
<1> QED
  BY <1>10, <1>11 DEF Promise!Next

LEMMA DeleteNodeThere ==
  ASSUME WindowInv, NEW n \in Nodes, DeleteNode(n)
  PROVE  [Promise!Next]_Promise!vars
<1>1. TypeOK
  BY DEF WindowInv, CauseIndInv, BaseInv
<1>2. /\ UNCHANGED <<ask, pc, before, overruled, returned, ailed, outrun>>
      /\ hold' = [r \in Requests |->
                    IF hold[r] # "none" /\ NodeOfHold(r) = n THEN "gone" ELSE hold[r]]
  BY DEF DeleteNode, requestVars, causeVars
<1> DEFINE W == {w \in OpenWindows : NodeOf[[q \in Requests |-> ServerOf(q)][w]] = n}
<1>3. W = {r \in Requests : hold[r] = "open" /\ NodeOfHold(r) = n}
  BY DEF OpenWindows, NodeOfHold
<1>4. OpenWindows' = OpenWindows \ W
  BY <1>2, <1>3 DEF OpenWindows
<1>5. EndedWindows' = EndedWindows \cup W
  BY <1>2, <1>3 DEF EndedWindows
<1>6. n \notin GoneNodes /\ GoneNodes' = GoneNodes \cup {n}
  BY <1>1 DEF DeleteNode, GoneNodes, TypeOK
<1>7. /\ [q \in Requests |-> ServerOf(q)]' = [q \in Requests |-> ServerOf(q)]
      /\ UNCHANGED <<Asked, Settled, Left, Doubted>>
  BY <1>2 DEF ServerOf, Asked, Settled, InFlight, Left, Doubted
<1>8. Promise!DeleteNode(n)
  BY <1>2, <1>4, <1>5, <1>6, <1>7 DEF Promise!DeleteNode, Promise!changeVars
<1> QED
  BY <1>8 DEF Promise!Next

\* Every step of the code is one of the promise's, or none of its business.
LEMMA WindowStep ==
  ASSUME WindowInv, TypeOK', [Next]_vars
  PROVE  [Promise!Next]_Promise!vars
<1> DEFINE Goal == [Promise!Next]_Promise!vars
<1>0. TypeOK /\ HoldInv
  BY DEF WindowInv, CauseIndInv, BaseInv
<1> USE <1>0, NodeOfAssumption DEF TypeOK, HoldsStay, RequestsStay, CausesStay,
        Left, Doubted, nodeVars, requestVars, sweepVars, pollVars, causeVars
<1>1. ASSUME NEW r \in Requests, NEW a \in Asks, Begin(r, a) PROVE Goal
  BY <1>1, BeginThere
<1>2. ASSUME NEW r \in Requests, CallSucceeds(r) PROVE Goal
  <2>1. HoldsStay /\ RequestsStay
    BY <1>2 DEF CallSucceeds, InFlight
  <2>2. Left \subseteq Left' /\ Doubted \subseteq Doubted'
    BY <1>2 DEF CallSucceeds, PutBack
  <2> QED
    BY <2>1, <2>2, HappenThere
<1>3. ASSUME NEW r \in Requests, CallFails(r) PROVE Goal
  <2>1. r \in Asked /\ pc'[r] \in {"failed", "lost"}
    BY <1>3 DEF CallFails, Asked, InFlight
  <2>2. HoldsStay /\ CausesStay
    BY <1>3 DEF CallFails
  <2>3. \A q \in Requests \ {r} : pc'[q] = pc[q]
    BY <1>3 DEF CallFails
  <2> DEFINE C == {r}
  <2>4. C \in SUBSET Asked
    BY <2>1
  <2>5. \A q \in Requests :
          IF q \in C THEN pc'[q] \in {"failed", "lost"} ELSE pc'[q] = pc[q]
    BY <2>1, <2>3
  <2> HIDE DEF C, HoldsStay, CausesStay
  <2> QED
    BY <2>2, <2>4, <2>5, GiveUpThere
<1>4. ASSUME NEW r \in Requests, SelectHolds(r) PROVE Goal
  BY <1>4, StayThere DEF SelectHolds, InFlight
<1>5. ASSUME NEW r \in Requests, CommitHolds(r) PROVE Goal
  BY <1>5, CommitHoldsThere
<1>6. ASSUME NEW r \in Requests, CommitFails(r) PROVE Goal
  <2>1. r \in Asked /\ pc'[r] \in {"failed", "lost"}
    BY <1>6 DEF CommitFails, Asked, InFlight
  <2>2. HoldsStay /\ CausesStay
    BY <1>6 DEF CommitFails
  <2>3. \A q \in Requests \ {r} : pc'[q] = pc[q]
    BY <1>6 DEF CommitFails
  <2> DEFINE C == {r}
  <2>4. C \in SUBSET Asked
    BY <2>1
  <2>5. \A q \in Requests :
          IF q \in C THEN pc'[q] \in {"failed", "lost"} ELSE pc'[q] = pc[q]
    BY <2>1, <2>3
  <2> HIDE DEF C, HoldsStay, CausesStay
  <2> QED
    BY <2>2, <2>4, <2>5, GiveUpThere
<1>7. ASSUME NEW r \in Requests, RequestLost(r) PROVE Goal
  <2>1. r \in Asked /\ pc'[r] \in {"failed", "lost"}
    BY <1>7 DEF RequestLost, Asked, InFlight
  <2>2. HoldsStay /\ CausesStay
    BY <1>7 DEF RequestLost
  <2>3. \A q \in Requests \ {r} : pc'[q] = pc[q]
    BY <1>7 DEF RequestLost
  <2> DEFINE C == {r}
  <2>4. C \in SUBSET Asked
    BY <2>1
  <2>5. \A q \in Requests :
          IF q \in C THEN pc'[q] \in {"failed", "lost"} ELSE pc'[q] = pc[q]
    BY <2>1, <2>3
  <2> HIDE DEF C, HoldsStay, CausesStay
  <2> QED
    BY <2>2, <2>4, <2>5, GiveUpThere
<1>8. ASSUME StartCycle PROVE Goal
  BY <1>8, StayThere DEF StartCycle, InFlight
<1>9. ASSUME EmptyCycle PROVE Goal
  BY <1>9, StayThere DEF EmptyCycle, vars, InFlight
<1>10. ASSUME NEW n \in Nodes, PollNode(n) PROVE Goal
  <2>1. HoldsStay /\ RequestsStay
    BY <1>10 DEF PollNode, InFlight
  <2>2. Left \subseteq Left' /\ Doubted \subseteq Doubted'
    BY <1>10 DEF PollNode, PutBack
  <2> QED
    BY <2>1, <2>2, HappenThere
<1>11. ASSUME ReadDue PROVE Goal
  <2>1. HoldsStay /\ RequestsStay
    BY <1>11 DEF ReadDue, InFlight
  <2>2. Left \subseteq Left' /\ Doubted \subseteq Doubted'
    BY <1>11 DEF ReadDue, PutBack
  <2> QED
    BY <2>1, <2>2, HappenThere
<1>12. ASSUME NEW r \in Requests, CloseUnneeded(r) PROVE Goal
  BY <1>12, StayThere DEF CloseUnneeded, InFlight
<1>13. ASSUME NEW r \in Requests, KeepUnseen(r) PROVE Goal
  BY <1>13, StayThere DEF KeepUnseen, InFlight
<1>14. ASSUME NEW r \in Requests, StartRevert(r) PROVE Goal
  BY <1>14, StayThere DEF StartRevert, InFlight
<1>15. ASSUME RevertSucceeds PROVE Goal
  <2>1. HoldsStay /\ RequestsStay
    BY <1>15 DEF RevertSucceeds, InFlight
  <2>2. Left \subseteq Left' /\ Doubted \subseteq Doubted'
    BY <1>15 DEF RevertSucceeds, PutBack
  <2> QED
    BY <2>1, <2>2, HappenThere
<1>16. ASSUME RevertUnanswered PROVE Goal
  <2>1. HoldsStay /\ RequestsStay
    BY <1>16 DEF RevertUnanswered, InFlight
  <2>2. Left \subseteq Left' /\ Doubted \subseteq Doubted'
    BY <1>16 DEF RevertUnanswered, PutBack
  <2> QED
    BY <2>1, <2>2, HappenThere
<1>17. ASSUME RevertFails PROVE Goal
  BY <1>17, StayThere DEF RevertFails, InFlight
<1>18. ASSUME CommitSweep PROVE Goal
  BY <1>18, CommitSweepThere
<1>19. ASSUME RollbackSweep PROVE Goal
  BY <1>19, StayThere DEF RollbackSweep, InFlight
<1>20. ASSUME NEW r \in Requests, WindowCloses(r) PROVE Goal
  BY <1>20, StayThere DEF WindowCloses, InFlight
<1>21. ASSUME NEW n \in Nodes, ToggleNode(n) PROVE Goal
  BY <1>21, StayThere DEF ToggleNode, InFlight
<1>22. ASSUME NEW n \in Nodes, DeleteNode(n) PROVE Goal
  BY <1>22, DeleteNodeThere
<1>23. ASSUME NEW n \in Nodes, NodeGoesDown(n) PROVE Goal
  BY <1>23, StayThere DEF NodeGoesDown, InFlight
<1>24. ASSUME NEW n \in Nodes, NodeComesUp(n) PROVE Goal
  BY <1>24, StayThere DEF NodeComesUp, InFlight
<1>25. ASSUME NEW s \in Servers, NEW st \in Outsiders, OutsideChange(s, st)
             PROVE Goal
  <2>1. HoldsStay /\ RequestsStay
    BY <1>25 DEF OutsideChange, InFlight
  <2>2. Left \subseteq Left' /\ Doubted \subseteq Doubted'
    BY <1>25 DEF OutsideChange, PutBack
  <2> QED
    BY <2>1, <2>2, HappenThere
<1>26. ASSUME NEW s \in Servers, ServerFails(s) PROVE Goal
  BY <1>26, StayThere DEF ServerFails, InFlight
<1>27. ASSUME NEW s \in Servers, ServerPasses(s) PROVE Goal
  BY <1>27, StayThere DEF ServerPasses, InFlight
<1>28. ASSUME Crash PROVE Goal
  <2>1. HoldsStay /\ CausesStay
    BY <1>28 DEF Crash
  <2>2. \A r \in Requests :
          IF r \in Asked THEN pc'[r] \in {"failed", "lost"} ELSE pc'[r] = pc[r]
    BY <1>28 DEF Crash, Asked, InFlight
  <2> QED
    BY <2>1, <2>2, GiveUpThere
<1>29. CASE UNCHANGED vars
  BY <1>29, StayThere DEF vars, InFlight
<1>30. Goal
  BY <1>1, <1>2, <1>3, <1>4, <1>5, <1>6, <1>7, <1>8, <1>9, <1>10, <1>11, <1>12,
     <1>13, <1>14, <1>15, <1>16, <1>17, <1>18, <1>19, <1>20, <1>21, <1>22,
     <1>23, <1>24, <1>25, <1>26, <1>27, <1>28, <1>29
     DEF Next, RequestNext, PollerNext, EnvironmentNext
<1> QED
  BY <1>30

\* The table of holds keeps the promise of timed maintenance
\* (_supersede_holds and sweep): each window is opened once, and ended by the
\* changes sent after it that are answered, by the sweep for a cause, or with
\* its node; whatever requests overlap and however long a cycle takes.
THEOREM WindowsAreKeptCorrect == Spec => WindowsAreKept
<1>1. Init => Promise!Init
  <2> SUFFICES ASSUME Init PROVE Promise!Init
    OBVIOUS
  <2>1. [q \in Requests |-> ServerOf(q)] \in [Requests -> Servers]
    BY InitType DEF TypeOK, Ask, ServerOf
  <2>2. OpenWindows = {} /\ EndedWindows = {} /\ GoneNodes = {}
    BY DEF Init, OpenWindows, EndedWindows, GoneNodes
  <2>3. Asked = {} /\ Settled = {} /\ Left = {} /\ Doubted = {}
    BY DEF Init, Asked, Settled, InFlight, Left, Doubted
  <2> QED
    BY <2>1, <2>2, <2>3 DEF Init, Promise!Init
<1>2. WindowInv /\ TypeOK' /\ [Next]_vars => [Promise!Next]_Promise!vars
  BY WindowStep
<1>3. QuietIndInv /\ CauseIndInv => WindowInv
  BY DEF WindowInv
<1> QED
  BY <1>1, <1>2, <1>3, QuietCorrect, CauseCorrect, TypeCorrect, PTL
     DEF Spec, WindowsAreKept, Promise!Spec
=============================================================================
