--------------------------- MODULE AlertingProofs ---------------------------
(***************************************************************************)
(* Theorems about Alerting, for every fleet, delay and repeat interval,    *)
(* and any number of disturbances.  Between two runs the facts are about   *)
(* the state in Redis, during a run about the state decide() returned;     *)
(* Known is whichever it is.                                               *)
(***************************************************************************)
EXTENDS Alerting, TLAPS

-----------------------------------------------------------------------------
(* The inductive invariant, in parts                                       *)

Known == IF phase = "idle" THEN stored ELSE next

ToldKeys(state) == {k \in DOMAIN state : state[k].told}

\* Nothing is left to post between runs, and only a cleared webhook is unset.
RunInv ==
  /\ phase = "idle" => firing = {} /\ resolving = {}
  /\ ~hooked => "mute" \in suffered

\* What the state says of a problem is not older than the problem itself.
AgeInv ==
  suffered \subseteq {"loss", "load"} =>
    /\ \A k \in DOMAIN Known :
         /\ k \in DOMAIN seen
         /\ Known[k].age <= seen[k]
         /\ Known[k].told => seen[k] >= ForTicks
    /\ \A k \in firing : k \in DOMAIN seen /\ seen[k] >= ForTicks

\* Nor does it forget a notice: since the last one at least that time passed.
QuietInv ==
  suffered \subseteq {"loss", "load"} =>
    \A k \in DOMAIN Known :
      IF Known[k].told THEN quiet[k] >= Known[k].rest \/ quiet[k] = ForTicks
      ELSE quiet[k] >= Known[k].age

\* What it calls told was announced and not resolved since.
OpenedInv ==
  suffered \cap {"crash", "save"} = {} => ToldKeys(Known) \subseteq opened

\* The posts still to come turn what the receiver believes into what the
\* state says.
BeliefInv ==
  suffered \subseteq {"mute"} => (heard \cup firing) \ resolving = ToldKeys(Known)

-----------------------------------------------------------------------------
(* States, entries and ages                                                *)

LEMMA StatesAre ==
  \A state \in States : DOMAIN state \subseteq Keys /\ state \in [DOMAIN state -> Entry]
BY DEF States

LEMMA StatesHave ==
  ASSUME NEW K \in SUBSET Keys, NEW state \in [K -> Entry]
  PROVE  state \in States
BY DEF States

LEMMA EmptyIsState == EmptyState \in States /\ DOMAIN EmptyState = {}
<1>1. EmptyState \in [{} -> Entry]
  BY DEF EmptyState
<1>2. {} \in SUBSET Keys
  OBVIOUS
<1> QED
  BY <1>1, <1>2, StatesHave

LEMMA ProblemsAreKeys == TypeOK => Problems \subseteq Keys
BY DEF TypeOK, Problems, Keys, Unreachable, Down, Degraded

LEMMA LaterIs ==
  ASSUME NEW limit \in Nat, NEW t \in 0..limit
  PROVE  /\ Later(t, limit) \in 0..limit
         /\ Later(t, limit) >= t
         /\ \A u \in 0..limit : u <= t => Later(u, limit) <= Later(t, limit)
         /\ t = limit => Later(t, limit) = limit
         /\ Later(t, limit) = t + 1 \/ Later(t, limit) = limit
         /\ Later(t, limit) <= t + 1
BY DEF Later

LEMMA AgedIs ==
  ASSUME NEW state \in States
  PROVE  /\ Aged(state) \in States
         /\ DOMAIN Aged(state) = DOMAIN state
         /\ \A k \in DOMAIN state :
              /\ Aged(state)[k].age = Later(state[k].age, ForTicks)
              /\ Aged(state)[k].told = state[k].told
              /\ Aged(state)[k].rest = Later(state[k].rest, RepeatTicks)
<1>1. Aged(state) \in [DOMAIN state -> Entry]
  BY StatesAre, LaterIs, TicksAssumption DEF Aged, Entry
<1>2. Aged(state) \in States
  BY <1>1, StatesAre, StatesHave
<1> QED
  BY <1>1, <1>2 DEF Aged

\* What decide() keeps of a problem.
LEMMA NextEntryIs ==
  ASSUME NEW known \in States, NEW k
  PROVE  /\ NextEntry(known, k) \in Entry
         /\ NextEntry(known, k).age = IF k \in DOMAIN known THEN known[k].age ELSE 0
         /\ NextEntry(known, k).told = (Told(known, k) \/ Fires(known, k))
         /\ NextEntry(known, k).rest
              = IF Told(known, k) /\ ~Fires(known, k) THEN known[k].rest ELSE 0
BY StatesAre, TicksAssumption DEF NextEntry, Entry, Told, Fires

-----------------------------------------------------------------------------
(* Type correctness                                                        *)

LEMMA InitType == ASSUME Init PROVE TypeOK
BY EmptyIsState, TicksAssumption, DisturbancesAssumption DEF Init, TypeOK

\* A run from any state takes up and returns proper states.
LEMMA RunFromType ==
  ASSUME TypeOK, NEW known \in States, RunFrom(known)
  PROVE  /\ next' \in States
         /\ seen' \in UNION {[K -> 0..ForTicks] : K \in SUBSET Keys}
         /\ firing' \in SUBSET Keys /\ resolving' \in SUBSET Keys
         /\ firing' \subseteq DOMAIN next' /\ resolving' \cap DOMAIN next' = {}
         /\ opened' \in SUBSET Keys
         /\ quiet' \in [Keys -> 0..ForTicks]
<1>1. Problems \subseteq Keys
  BY ProblemsAreKeys
<1>2. next' \in States
  <2>1. next' \in [Problems -> Entry]
    BY NextEntryIs DEF RunFrom
  <2> QED
    BY <1>1, <2>1, StatesHave
<1>3. seen' \in [Problems -> 0..ForTicks]
  BY TicksAssumption DEF RunFrom, Observe, TypeOK
<1>4. /\ firing' \subseteq Problems /\ resolving' \subseteq DOMAIN known
      /\ DOMAIN next' = Problems /\ resolving' \cap Problems = {}
  BY DEF RunFrom, Resolved
<1>5. DOMAIN known \subseteq Keys
  BY StatesAre
<1>6. opened' \in SUBSET Keys /\ quiet' \in [Keys -> 0..ForTicks]
  BY <1>1, TicksAssumption DEF RunFrom, TypeOK
<1> QED
  BY <1>1, <1>2, <1>3, <1>4, <1>5, <1>6

LEMMA TypeStep == ASSUME TypeOK, [Next]_vars PROVE TypeOK'
<1> USE DEF fleetVars, runVars, historyVars, faultVars, Disturb, DisturbanceKinds
<1>1. ASSUME Run PROVE TypeOK'
  <2>1. RunFrom(stored) /\ stored \in States
    BY <1>1 DEF Run, TypeOK
  <2> QED
    BY <1>1, <2>1, RunFromType DEF Run, RunFrom, TypeOK
<1>2. ASSUME RunUnread PROVE TypeOK'
  <2>1. RunFrom(EmptyState)
    BY <1>2 DEF RunUnread
  <2> QED
    BY <1>2, <2>1, RunFromType, EmptyIsState, DisturbancesAssumption
    DEF RunUnread, RunFrom, TypeOK
<1>3. ASSUME RunMuted PROVE TypeOK'
  <2>1. seen' \in [Problems -> 0..ForTicks]
    BY <1>3, TicksAssumption DEF RunMuted, Observe, TypeOK
  <2> QED
    BY <1>3, <2>1, ProblemsAreKeys DEF RunMuted, TypeOK
<1>4. ASSUME NEW k \in Keys, Post(k) PROVE TypeOK'
  BY <1>4 DEF Post, PostedFrom, TypeOK
<1>5. ASSUME NEW k \in Keys, PostLost(k) PROVE TypeOK'
  BY <1>5, DisturbancesAssumption DEF PostLost, PostedFrom, TypeOK
<1>6. ASSUME Save PROVE TypeOK'
  BY <1>6, EmptyIsState DEF Save, Finish, TypeOK
<1>7. ASSUME SaveFails PROVE TypeOK'
  BY <1>7, EmptyIsState, DisturbancesAssumption DEF SaveFails, Finish, TypeOK
<1>8. ASSUME Crash PROVE TypeOK'
  BY <1>8, EmptyIsState, DisturbancesAssumption DEF Crash, TypeOK
<1>9. ASSUME Tick PROVE TypeOK'
  <2>1. /\ Aged(stored) \in States /\ Aged(next) \in States
        /\ DOMAIN Aged(next) = DOMAIN next
    BY AgedIs DEF TypeOK
  <2>2. seen' \in [DOMAIN seen -> 0..ForTicks]
    BY <1>9, LaterIs, TicksAssumption DEF Tick, TypeOK
  <2>3. quiet' \in [Keys -> 0..ForTicks]
    BY <1>9, LaterIs, TicksAssumption DEF Tick, TypeOK
  <2>4. DOMAIN seen \in SUBSET Keys
    BY DEF TypeOK
  <2> QED
    BY <1>9, <2>1, <2>2, <2>3, <2>4 DEF Tick, TypeOK
<1>10. ASSUME NEW n \in Nodes, NodeChanges(n) PROVE TypeOK'
  BY <1>10 DEF NodeChanges, TypeOK
<1>11. ASSUME NEW n \in Nodes, NEW s \in Servers, ServerChanges(n, s) PROVE TypeOK'
  BY <1>11 DEF ServerChanges, TypeOK
<1>12. ASSUME Mute PROVE TypeOK'
  <2>1. faults' \in 0..MaxDisturbances /\ suffered' \in SUBSET Disturbances
    BY <1>12, DisturbancesAssumption DEF Mute, TypeOK
  <2> QED
    BY <1>12, <2>1 DEF Mute, TypeOK
<1>13. ASSUME Unmute PROVE TypeOK'
  BY <1>13 DEF Unmute, TypeOK
<1>14. CASE UNCHANGED vars
  BY <1>14 DEF vars, TypeOK
<1> QED
  BY <1>1, <1>2, <1>3, <1>4, <1>5, <1>6, <1>7, <1>8, <1>9, <1>10, <1>11, <1>12,
     <1>13, <1>14 DEF Next, RunNext, FleetNext

\* The variables always have their types.
THEOREM TypeCorrect == Spec => []TypeOK
<1>1. Init => TypeOK
  BY InitType
<1>2. TypeOK /\ [Next]_vars => TypeOK'
  BY TypeStep
<1> QED
  BY <1>1, <1>2, PTL DEF Spec
-----------------------------------------------------------------------------
(* The invariant                                                           *)

Inv == TypeOK /\ RunInv /\ AgeInv /\ QuietInv /\ OpenedInv /\ BeliefInv

LEMMA InitInv == ASSUME Init PROVE Inv
<1>1. TypeOK
  BY InitType
<1>2. RunInv /\ AgeInv /\ QuietInv /\ OpenedInv
  BY EmptyIsState DEF Init, RunInv, AgeInv, QuietInv, OpenedInv, Known, ToldKeys
<1>3. BeliefInv
  BY EmptyIsState DEF Init, BeliefInv, Known, ToldKeys
<1> QED
  BY <1>1, <1>2, <1>3 DEF Inv

\* What the state returned by a run says of each problem.
LEMMA RunFromIs ==
  ASSUME TypeOK, NEW known \in States, RunFrom(known)
  PROVE  /\ phase = "idle" /\ phase' = "running"
         /\ DOMAIN next' = Problems /\ DOMAIN seen' = Problems
         /\ \A k \in Problems :
              /\ next'[k] = NextEntry(known, k)
              /\ seen'[k] = IF k \in DOMAIN seen THEN seen[k] ELSE 0
         /\ firing' = {k \in Problems : Fires(known, k)}
         /\ resolving' = {k \in DOMAIN known \ Problems : known[k].told}
         /\ opened' = (opened \cup firing') \ resolving'
         /\ \A k \in Keys : quiet'[k] = IF k \in firing' THEN 0 ELSE quiet[k]
         /\ UNCHANGED <<hooked, heard>>
BY DEF RunFrom, Observe, Resolved

\* A run starts from the state in Redis, or from nothing.
LEMMA RunKeeps ==
  ASSUME Inv, NEW known \in {stored, EmptyState}, RunFrom(known),
         suffered \subseteq suffered',
         known = stored \/ "load" \in suffered'
  PROVE  AgeInv' /\ QuietInv' /\ OpenedInv' /\ BeliefInv'
<1> DEFINE K == DOMAIN known
<1>1. /\ known \in States /\ K \subseteq DOMAIN stored
      /\ \A k \in K : known[k] = stored[k] /\ known[k] \in Entry
      /\ phase = "idle" /\ Known = stored /\ Known' = next'
  BY EmptyIsState, StatesAre, RunFromIs DEF Inv, TypeOK, Known
<1>2. /\ DOMAIN next' = Problems /\ Problems \subseteq Keys
      /\ \A k \in Problems :
           /\ next'[k].age = IF k \in K THEN known[k].age ELSE 0
           /\ next'[k].told = (Told(known, k) \/ Fires(known, k))
           /\ next'[k].rest = IF Told(known, k) /\ ~Fires(known, k) THEN known[k].rest ELSE 0
  BY <1>1, RunFromIs, NextEntryIs, ProblemsAreKeys DEF Inv
<1>3. AgeInv'
  <2> SUFFICES ASSUME suffered' \subseteq {"loss", "load"}
               PROVE  /\ \A k \in Problems :
                           /\ k \in DOMAIN seen'
                           /\ next'[k].age <= seen'[k]
                           /\ next'[k].told => seen'[k] >= ForTicks
                      /\ \A k \in firing' : k \in DOMAIN seen' /\ seen'[k] >= ForTicks
    BY <1>1, <1>2 DEF AgeInv
  <2>1. \A k \in K :
          /\ k \in DOMAIN seen
          /\ known[k].age <= seen[k]
          /\ known[k].told => seen[k] >= ForTicks
    BY <1>1 DEF Inv, AgeInv
  <2>2. /\ DOMAIN seen' = Problems
        /\ \A k \in Problems : seen'[k] = IF k \in DOMAIN seen THEN seen[k] ELSE 0
        /\ \A k \in DOMAIN seen : seen[k] \in 0..ForTicks
    BY <1>1, RunFromIs DEF Inv, TypeOK
  <2>3. \A k \in Problems : Fires(known, k) => seen'[k] >= ForTicks
    BY <1>1, <2>1, <2>2, TicksAssumption DEF Fires, Told, Entry
  <2>4. ASSUME NEW k \in Problems PROVE next'[k].age <= seen'[k]
    BY <1>1, <1>2, <2>1, <2>2, TicksAssumption DEF Entry
  <2>5. ASSUME NEW k \in Problems, next'[k].told PROVE seen'[k] >= ForTicks
    <3>1. Told(known, k) \/ Fires(known, k)
      BY <1>2, <2>5
    <3>2. Told(known, k) => seen'[k] >= ForTicks
      BY <2>1, <2>2 DEF Told
    <3> QED
      BY <2>3, <3>1, <3>2
  <2>6. \A k \in firing' : k \in Problems /\ Fires(known, k)
    BY <1>1, RunFromIs DEF Inv
  <2> QED
    BY <2>2, <2>3, <2>4, <2>5, <2>6
<1>4. QuietInv'
  <2> SUFFICES ASSUME suffered' \subseteq {"loss", "load"}, NEW k \in Problems
               PROVE  IF next'[k].told
                      THEN quiet'[k] >= next'[k].rest \/ quiet'[k] = ForTicks
                      ELSE quiet'[k] >= next'[k].age
    BY <1>1, <1>2 DEF QuietInv
  <2>1. k \in K => IF known[k].told
                   THEN quiet[k] >= known[k].rest \/ quiet[k] = ForTicks
                   ELSE quiet[k] >= known[k].age
    BY <1>1 DEF Inv, QuietInv
  <2>2. quiet'[k] = (IF Fires(known, k) THEN 0 ELSE quiet[k]) /\ quiet[k] \in Nat
    BY <1>1, <1>2, RunFromIs DEF Inv, TypeOK
  <2>3. CASE Fires(known, k)
    <3>1. next'[k].told
      BY <1>2, <2>3
    <3>2. next'[k].rest = 0 /\ quiet'[k] = 0
      BY <1>2, <2>2, <2>3
    <3> QED
      BY <3>1, <3>2
  <2>4. CASE Told(known, k) /\ ~Fires(known, k)
    BY <1>2, <2>1, <2>2, <2>4 DEF Told
  <2>5. CASE ~Told(known, k) /\ ~Fires(known, k)
    <3>1. ~next'[k].told
      BY <1>2, <2>5
    <3>2. quiet[k] >= next'[k].age
      BY <1>2, <2>1, <2>2, <2>5 DEF Told
    <3> QED
      BY <2>2, <2>5, <3>1, <3>2
  <2> QED
    BY <2>3, <2>4, <2>5
<1>5. OpenedInv'
  <2> SUFFICES ASSUME suffered' \cap {"crash", "save"} = {}, NEW k \in Problems, next'[k].told
               PROVE  k \in opened'
    BY <1>1, <1>2 DEF OpenedInv, ToldKeys
  <2>1. Told(known, k) => k \in opened
    BY <1>1 DEF Inv, OpenedInv, ToldKeys, Told
  <2> QED
    BY <1>1, <1>2, <2>1, RunFromIs DEF Inv
<1>6. BeliefInv'
  <2> SUFFICES ASSUME suffered' \subseteq {"mute"}
               PROVE  (heard' \cup firing') \ resolving' = {k \in Problems : next'[k].told}
    BY <1>1, <1>2 DEF BeliefInv, ToldKeys
  <2>1. known = stored /\ heard = {k \in K : known[k].told}
    BY <1>1 DEF Inv, RunInv, BeliefInv, ToldKeys
  <2> QED
    BY <1>1, <1>2, <2>1, RunFromIs DEF Told, Inv
<1> QED
  BY <1>3, <1>4, <1>5, <1>6

\* Time adds the same to the state as to the history.
LEMMA TickKeeps == ASSUME Inv, Tick PROVE AgeInv' /\ QuietInv' /\ OpenedInv' /\ BeliefInv'
<1>1. Known \in States /\ Known' = Aged(Known) /\ UNCHANGED <<suffered, firing, opened, heard, resolving>>
  BY DEF Tick, Known, Inv, TypeOK, runVars, faultVars
<1>2. /\ DOMAIN Known' = DOMAIN Known
      /\ \A k \in DOMAIN Known :
           /\ k \in Keys /\ Known[k] \in Entry
           /\ Known'[k].age = Later(Known[k].age, ForTicks)
           /\ Known'[k].told = Known[k].told
           /\ Known'[k].rest = Later(Known[k].rest, RepeatTicks)
  BY <1>1, AgedIs, StatesAre
<1>3. /\ DOMAIN seen' = DOMAIN seen
      /\ \A k \in DOMAIN seen :
           seen[k] \in 0..ForTicks /\ seen'[k] = Later(seen[k], ForTicks)
      /\ \A k \in Keys : quiet[k] \in 0..ForTicks /\ quiet'[k] = Later(quiet[k], ForTicks)
  BY DEF Tick, Inv, TypeOK
<1>4. AgeInv'
  <2> SUFFICES ASSUME suffered \subseteq {"loss", "load"}
               PROVE  /\ \A k \in DOMAIN Known :
                           /\ k \in DOMAIN seen
                           /\ Known'[k].age <= seen'[k]
                           /\ Known[k].told => seen'[k] >= ForTicks
                      /\ \A k \in firing : k \in DOMAIN seen /\ seen'[k] >= ForTicks
    BY <1>1, <1>2, <1>3 DEF AgeInv
  <2>1. \A k \in DOMAIN seen : seen[k] >= ForTicks => seen'[k] >= ForTicks
    BY <1>3, TicksAssumption DEF Later
  <2>2. \A k \in DOMAIN Known :
          k \in DOMAIN seen /\ Known[k].age <= seen[k] => Known'[k].age <= seen'[k]
    <3> SUFFICES ASSUME NEW k \in DOMAIN Known, k \in DOMAIN seen, Known[k].age <= seen[k]
                 PROVE  Known'[k].age <= seen'[k]
      OBVIOUS
    <3>1. Known[k].age \in 0..ForTicks /\ seen[k] \in 0..ForTicks
      BY <1>2, <1>3 DEF Entry
    <3> QED
      BY <1>2, <1>3, <3>1, LaterIs, TicksAssumption
  <2> QED
    BY <2>1, <2>2 DEF Inv, AgeInv
<1>5. QuietInv'
  <2> SUFFICES ASSUME suffered \subseteq {"loss", "load"}, NEW k \in DOMAIN Known
               PROVE  IF Known[k].told
                      THEN quiet'[k] >= Known'[k].rest \/ quiet'[k] = ForTicks
                      ELSE quiet'[k] >= Known'[k].age
    BY <1>1, <1>2 DEF QuietInv
  <2>1. IF Known[k].told THEN quiet[k] >= Known[k].rest \/ quiet[k] = ForTicks
        ELSE quiet[k] >= Known[k].age
    BY DEF Inv, QuietInv
  <2>2. /\ quiet[k] \in 0..ForTicks /\ quiet'[k] = Later(quiet[k], ForTicks)
        /\ Known[k].age \in 0..ForTicks /\ Known[k].rest \in 0..RepeatTicks
    BY <1>2, <1>3 DEF Entry
  <2> QED
    BY <1>2, <2>1, <2>2, TicksAssumption DEF Later
<1>6. OpenedInv' /\ BeliefInv'
  BY <1>1, <1>2 DEF Inv, OpenedInv, BeliefInv, ToldKeys
<1> QED
  BY <1>4, <1>5, <1>6

LEMMA InvStep == ASSUME Inv, [Next]_vars PROVE Inv'
<1> USE DEF fleetVars, runVars, historyVars, faultVars, Disturb
<1>1. TypeOK'
  BY TypeStep DEF Inv
<1>2. ASSUME Run PROVE Inv'
  <2>1. AgeInv' /\ QuietInv' /\ OpenedInv' /\ BeliefInv'
    BY <1>2, RunKeeps DEF Run
  <2>2. RunInv'
    BY <1>2 DEF Run, RunFrom, Inv, RunInv
  <2> QED
    BY <1>1, <2>1, <2>2 DEF Inv
<1>3. ASSUME RunUnread PROVE Inv'
  <2>1. AgeInv' /\ QuietInv' /\ OpenedInv' /\ BeliefInv'
    BY <1>3, RunKeeps DEF RunUnread
  <2>2. RunInv'
    BY <1>3 DEF RunUnread, RunFrom, Inv, RunInv
  <2> QED
    BY <1>1, <2>1, <2>2 DEF Inv
<1>4. ASSUME RunMuted PROVE Inv'
  <2>1. "mute" \in suffered
    BY <1>4 DEF RunMuted, Inv, RunInv
  <2> QED
    BY <1>1, <1>4, <2>1
    DEF RunMuted, Inv, RunInv, AgeInv, QuietInv, OpenedInv, BeliefInv, Known, ToldKeys
<1>5. ASSUME NEW k \in Keys, Post(k) PROVE Inv'
  <2>1. RunInv' /\ AgeInv' /\ QuietInv' /\ OpenedInv'
    BY <1>5 DEF Post, PostedFrom, Inv, RunInv, AgeInv, QuietInv, OpenedInv, Known, ToldKeys, Ready
  <2>2. ToldKeys(Known)' = ToldKeys(Known)
    BY <1>5 DEF Post, PostedFrom, Known, ToldKeys
  <2>3. BeliefInv'
    BY <1>5, <2>2 DEF Post, PostedFrom, Ready, Inv, BeliefInv
  <2> QED
    BY <1>1, <2>1, <2>3 DEF Inv
<1>6. ASSUME NEW k \in Keys, PostLost(k) PROVE Inv'
  BY <1>1, <1>6 DEF PostLost, PostedFrom, Ready, Inv, RunInv, AgeInv, QuietInv, OpenedInv,
     BeliefInv, Known, ToldKeys
<1>7. ASSUME Save PROVE Inv'
  BY <1>1, <1>7 DEF Save, Finish, Inv, RunInv, AgeInv, QuietInv, OpenedInv, BeliefInv, Known,
     ToldKeys
<1>8. ASSUME SaveFails PROVE Inv'
  BY <1>1, <1>8 DEF SaveFails, Finish, Inv, RunInv, AgeInv, QuietInv, OpenedInv, BeliefInv
<1>9. ASSUME Crash PROVE Inv'
  BY <1>1, <1>9 DEF Crash, Inv, RunInv, AgeInv, QuietInv, OpenedInv, BeliefInv
<1>10. ASSUME Tick PROVE Inv'
  <2>1. RunInv'
    BY <1>10 DEF Tick, Inv, RunInv
  <2> QED
    BY <1>1, <1>10, <2>1, TickKeeps DEF Inv
<1>11. ASSUME NEW n \in Nodes, NodeChanges(n) PROVE Inv'
  BY <1>1, <1>11 DEF NodeChanges, Inv, RunInv, AgeInv, QuietInv, OpenedInv, BeliefInv, Known,
     ToldKeys
<1>12. ASSUME NEW n \in Nodes, NEW s \in Servers, ServerChanges(n, s) PROVE Inv'
  BY <1>1, <1>12 DEF ServerChanges, Inv, RunInv, AgeInv, QuietInv, OpenedInv, BeliefInv, Known,
     ToldKeys
<1>13. ASSUME Mute PROVE Inv'
  BY <1>1, <1>13 DEF Mute, Inv, RunInv, AgeInv, QuietInv, OpenedInv, BeliefInv, Known, ToldKeys
<1>14. ASSUME Unmute PROVE Inv'
  BY <1>1, <1>14 DEF Unmute, Inv, RunInv, AgeInv, QuietInv, OpenedInv, BeliefInv, Known, ToldKeys
<1>15. CASE UNCHANGED vars
  BY <1>1, <1>15 DEF vars, Inv, RunInv, AgeInv, QuietInv, OpenedInv, BeliefInv, Known, ToldKeys
<1> QED
  BY <1>2, <1>3, <1>4, <1>5, <1>6, <1>7, <1>8, <1>9, <1>10, <1>11, <1>12, <1>13,
     <1>14, <1>15 DEF Next, RunNext, FleetNext

THEOREM InvCorrect == Spec => []Inv
<1>1. Init => Inv
  BY InitInv
<1>2. Inv /\ [Next]_vars => Inv'
  BY InvStep
<1> QED
  BY <1>1, <1>2, PTL DEF Spec

-----------------------------------------------------------------------------
(* The properties                                                          *)

\* A firing payload is about a problem every snapshot has shown for ForTicks.
THEOREM FiresAfterPersistingCorrect == Spec => []FiresAfterPersisting
<1>1. Inv => FiresAfterPersisting
  BY DEF Inv, AgeInv, FiresAfterPersisting
<1> QED
  BY <1>1, InvCorrect, PTL

\* Between runs the receiver believes what the state says it was told.
THEOREM BeliefMatchesStateCorrect == Spec => []BeliefMatchesState
<1>1. Inv => BeliefMatchesState
  BY DEF Inv, RunInv, BeliefInv, BeliefMatchesState, Known, ToldKeys
<1> QED
  BY <1>1, InvCorrect, PTL

\* Between two runs only a run puts payloads in the queues.
LEMMA OnlyRunsPost ==
  ASSUME Inv, [Next]_vars, phase = "idle", firing' # {} \/ resolving' # {}
  PROVE  /\ suffered \subseteq suffered'
         /\ \E known \in {stored, EmptyState} : RunFrom(known)
<1>1. firing = {} /\ resolving = {}
  BY DEF Inv, RunInv
<1>2. Run \/ RunUnread
  BY <1>1 DEF Next, RunNext, FleetNext, RunMuted, Post, PostLost, PostedFrom, Ready, Save,
     SaveFails, Finish, Crash, Tick, NodeChanges, ServerChanges, Mute, Unmute, vars, runVars
<1> QED
  BY <1>2 DEF Run, RunUnread, Disturb, faultVars

\* Two notices of a key are apart by the delay or by the repeat interval.
THEOREM NoticesAreSpacedCorrect == Spec => NoticesAreSpaced
<1> DEFINE P == suffered' \subseteq {"loss", "load"} =>
                  \A k \in Keys : phase = "idle" /\ k \in firing'
                    => quiet[k] >= ForTicks \/ (RepeatTicks > 0 /\ quiet[k] >= RepeatTicks)
<1>1. Inv /\ [Next]_vars => P
  <2> SUFFICES ASSUME Inv, [Next]_vars, suffered' \subseteq {"loss", "load"},
                      NEW k \in Keys, phase = "idle", k \in firing'
               PROVE  quiet[k] >= ForTicks \/ (RepeatTicks > 0 /\ quiet[k] >= RepeatTicks)
    OBVIOUS
  <2>1. PICK known \in {stored, EmptyState} : RunFrom(known)
    BY OnlyRunsPost
  <2>2. suffered \subseteq {"loss", "load"}
    BY OnlyRunsPost
  <2>3. known \in States /\ stored \in States
    BY EmptyIsState DEF Inv, TypeOK
  <2>4. Fires(known, k)
    BY <2>1, <2>3, RunFromIs DEF Inv
  <2>5. quiet[k] \in 0..ForTicks
    BY DEF Inv, TypeOK
  <2>6. k \in DOMAIN known =>
          /\ known[k] \in Entry
          /\ IF known[k].told THEN quiet[k] >= known[k].rest \/ quiet[k] = ForTicks
             ELSE quiet[k] >= known[k].age
    BY <2>2, <2>3, EmptyIsState, StatesAre DEF Inv, QuietInv, Known
  <2> QED
    BY <2>4, <2>5, <2>6, TicksAssumption DEF Fires, Told, Entry
<1> QED
  BY <1>1, InvCorrect, PTL DEF Spec, NoticesAreSpaced

\* A recovery is announced only for a key that was announced, and once.
THEOREM ResolvesWhatFiredCorrect == Spec => ResolvesWhatFired
<1>1. Inv /\ [Next]_vars
        => (phase = "idle" /\ suffered' \cap {"crash", "save"} = {} => resolving' \subseteq opened)
  <2> SUFFICES ASSUME Inv, [Next]_vars, phase = "idle",
                      suffered' \cap {"crash", "save"} = {}, NEW k \in resolving'
               PROVE  k \in opened
    OBVIOUS
  <2>1. PICK known \in {stored, EmptyState} : RunFrom(known)
    BY OnlyRunsPost
  <2>2. suffered \cap {"crash", "save"} = {}
    BY OnlyRunsPost
  <2>3. k \in DOMAIN known /\ known[k].told
    BY <2>1, EmptyIsState, RunFromIs DEF Inv, TypeOK
  <2>4. k \in ToldKeys(stored)
    BY <2>3, EmptyIsState DEF ToldKeys
  <2> QED
    BY <2>2, <2>4 DEF Inv, OpenedInv, Known
<1> QED
  BY <1>1, InvCorrect, PTL DEF Spec, ResolvesWhatFired
=============================================================================
