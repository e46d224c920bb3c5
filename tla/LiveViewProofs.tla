-------------------------- MODULE LiveViewProofs --------------------------
(***************************************************************************)
(* Theorems about LiveView, for any number of nodes, screens, polls and    *)
(* faults.  CacheInv relates the cache to what was published, StreamInv    *)
(* what is on the wire, and RestInv what a REST call read of the nodes     *)
(* table; together they close the gaps a snapshot could fall through.      *)
(***************************************************************************)
EXTENDS LiveView, SequenceTheorems, TLAPS

-----------------------------------------------------------------------------
(* The inductive invariant, in parts                                       *)

\* A cycle polls only what the bound leaves, and stores only what was polled.
StageInv ==
  \A n \in Nodes :
    /\ stage[n] = "asked" => polls[n] < MaxPolls
    /\ stage[n] \in {"taken", "set"} => polls[n] >= 1

\* SET comes before PUBLISH, and only a node that is gone loses its snapshot.
CacheInv ==
  /\ dropping \cap row = {}
  /\ \A n \in Nodes : published[n] <= polls[n]
  /\ \A n \in row : published[n] <= cache[n]
  /\ \A n \in row : stage[n] = "set" => cache[n] \in {0, polls[n]}

\* The last message for a node on a stream is of the last snapshot published.
StreamInv ==
  /\ \A c \in Screens : ~Listening(c) => wire[c] = NothingSent
  /\ \A c \in Screens, n \in row :
       wire[c][n] # <<>> => Last(wire[c][n]) >= published[n]

\* Rows are deleted only, so an answer has an entry for every node there is.
RestInv ==
  \A c \in Screens :
    /\ rest[c].kind = "rows" => row \subseteq rest[c].nodes
    /\ rest[c].kind = "answer" => row \subseteq DOMAIN rest[c].map

Inv == TypeOK /\ StageInv /\ CacheInv /\ StreamInv /\ RestInv /\ StreamMissesNothing

-----------------------------------------------------------------------------
(* Maps, sequences and answers                                             *)

LEMMA MapsAre ==
  \A map \in Maps : DOMAIN map \subseteq Nodes /\ map \in [DOMAIN map -> Cached]
BY DEF Maps

LEMMA MapsHave ==
  ASSUME NEW N \in SUBSET Nodes, NEW map \in [N -> Cached]
  PROVE  map \in Maps
BY DEF Maps

LEMMA EmptyIsMap == EmptyMap \in Maps /\ DOMAIN EmptyMap = {}
<1>1. EmptyMap \in [{} -> Cached]
  BY DEF EmptyMap
<1> QED
  BY <1>1, MapsHave

\* Map.set adds or replaces one entry.
LEMMA WithIs ==
  ASSUME NEW map \in Maps, NEW n \in Nodes, NEW snapshot \in Cached
  PROVE  /\ With(map, n, snapshot) \in Maps
         /\ DOMAIN With(map, n, snapshot) = DOMAIN map \cup {n}
         /\ With(map, n, snapshot)[n] = snapshot
         /\ \A m \in DOMAIN map \ {n} : With(map, n, snapshot)[m] = map[m]
<1>1. DOMAIN map \cup {n} \in SUBSET Nodes
  BY MapsAre
<1>2. With(map, n, snapshot) \in [DOMAIN map \cup {n} -> Cached]
  BY MapsAre DEF With
<1>3. With(map, n, snapshot) \in Maps
  BY <1>1, <1>2, MapsHave
<1> QED
  BY <1>2, <1>3 DEF With

LEMMA RestKinds ==
  \A r \in Rest :
    /\ r # NoCall => r.why \in {"prime", "refresh"}
    /\ r.kind = "asked" => r # NoCall
    /\ r.kind = "rows" => r # NoCall /\ r.nodes \in SUBSET Nodes
    /\ r.kind = "answer" => r # NoCall /\ r.map \in Maps
BY DEF Rest, NoCall

LEMMA LastIn == ASSUME NEW S, NEW s \in Seq(S), s # <<>> PROVE Last(s) \in S
<1>1. Len(s) \in 1 .. Len(s)
  BY EmptySeq
<1> QED
  BY <1>1, ElementOfSeq DEF Last

\* What is last after a message is sent or primed with.
LEMMA LastIs ==
  ASSUME NEW S, NEW s \in Seq(S), NEW x \in S
  PROVE  /\ Append(s, x) \in Seq(S) /\ Append(s, x) # <<>> /\ Last(Append(s, x)) = x
         /\ <<x>> \o s \in Seq(S) /\ <<x>> \o s # <<>>
         /\ Last(<<x>> \o s) = IF s = <<>> THEN x ELSE Last(s)
<1> Len(s) \in Nat /\ (s # <<>> => Len(s) >= 1) /\ <<x>> \in Seq(S) /\ Len(<<x>>) = 1
  BY EmptySeq
<1>1. /\ Append(s, x) \in Seq(S) /\ Len(Append(s, x)) = Len(s) + 1
      /\ Append(s, x)[Len(s) + 1] = x
  OBVIOUS
<1>2. /\ <<x>> \o s \in Seq(S) /\ Len(<<x>> \o s) = 1 + Len(s)
      /\ \A i \in 1 .. 1 + Len(s) :
           (<<x>> \o s)[i] = IF i <= 1 THEN <<x>>[i] ELSE s[i - 1]
  BY ConcatProperties
<1>3. Last(Append(s, x)) = x /\ Append(s, x) # <<>>
  <2>1. Append(s, x) # <<>>
    BY <1>1, EmptySeq
  <2> QED
    BY <1>1, <2>1 DEF Last
<1>4. Last(<<x>> \o s) = (IF s = <<>> THEN x ELSE Last(s)) /\ <<x>> \o s # <<>>
  BY <1>2 DEF Last
<1> QED
  BY <1>1, <1>2, <1>3, <1>4

\* Taking a message off a stream leaves the last one, or takes it.
LEMMA TailIs ==
  ASSUME NEW S, NEW s \in Seq(S), s # <<>>
  PROVE  /\ Tail(s) \in Seq(S) /\ Head(s) \in S
         /\ IF Tail(s) = <<>> THEN Last(s) = Head(s) ELSE Last(Tail(s)) = Last(s)
<1>1. /\ Head(s) \in S /\ Tail(s) \in Seq(S) /\ Len(Tail(s)) = Len(s) - 1
      /\ \A i \in 1 .. Len(Tail(s)) : Tail(s)[i] = s[i + 1]
      /\ Len(s) \in Nat
  BY HeadTailProperties
<1>2. ASSUME Tail(s) = <<>> PROVE Last(s) = Head(s)
  <2>1. Len(s) = 1
    <3>1. Len(<<>>) = 0
      OBVIOUS
    <3>2. Len(s) - 1 = 0
      BY <1>1, <1>2, <3>1, Zenon
    <3> QED
      BY <3>2
  <2>2. Head(s) = s[1]
    BY <2>1
  <2> QED
    BY <2>1, <2>2 DEF Last
<1>3. ASSUME Tail(s) # <<>> PROVE Last(Tail(s)) = Last(s)
  <2>1. Len(Tail(s)) >= 1
    BY <1>1, <1>3, EmptySeq
  <2> QED
    BY <1>1, <2>1 DEF Last
<1> QED
  BY <1>1, <1>2, <1>3

-----------------------------------------------------------------------------
(* Type correctness                                                        *)

LEMMA InitType == ASSUME Init PROVE TypeOK /\ StageInv
BY EmptyIsMap, MaxPollsAssumption, MaxFaultsAssumption
DEF Init, TypeOK, StageInv, Cached, Snapshots, Rest, NothingSent, Modes

\* Polling, storing, streaming and the screens keep the variables in their
\* types, and a cycle within the bound on polls.
LEMMA TypeStep == ASSUME TypeOK, StageInv, [Next]_vars PROVE TypeOK' /\ StageInv'
<1> USE MaxPollsAssumption, MaxFaultsAssumption
    DEF pollVars, redisVars, streamVars, viewVars, Cached, Snapshots, Fault
<1>1. ASSUME StartCycle PROVE TypeOK' /\ StageInv'
  BY <1>1 DEF StartCycle, Due, TypeOK, StageInv
<1>2. ASSUME NEW n \in Nodes, PollNode(n) PROVE TypeOK' /\ StageInv'
  BY <1>2 DEF PollNode, TypeOK, StageInv
<1>3. ASSUME NEW n \in Nodes, SetSnapshot(n) PROVE TypeOK' /\ StageInv'
  BY <1>3 DEF SetSnapshot, TypeOK, StageInv
<1>4. ASSUME NEW n \in Nodes, PublishSnapshot(n) PROVE TypeOK' /\ StageInv'
  <2>1. polls[n] \in Snapshots
    BY <1>4 DEF PublishSnapshot, TypeOK, StageInv
  <2>2. \A c \in Screens : Append(wire[c][n], polls[n]) \in Seq(Snapshots)
    BY <2>1, LastIs DEF TypeOK
  <2>3. wire' \in [Screens -> [Nodes -> Seq(Snapshots)]]
    BY <1>4, <2>2 DEF PublishSnapshot, TypeOK
  <2> QED
    BY <1>4, <2>3 DEF PublishSnapshot, TypeOK, StageInv
<1>5. ASSUME NEW n \in Nodes, StoreFails(n) PROVE TypeOK' /\ StageInv'
  BY <1>5 DEF StoreFails, TypeOK, StageInv
<1>6. ASSUME NEW n \in Nodes, DeleteNode(n) PROVE TypeOK' /\ StageInv'
  BY <1>6 DEF DeleteNode, TypeOK, StageInv
<1>7. ASSUME NEW n \in Nodes, DropSnapshot(n) PROVE TypeOK' /\ StageInv'
  BY <1>7 DEF DropSnapshot, TypeOK, StageInv
<1>8. ASSUME NEW n \in Nodes, Expire(n) PROVE TypeOK' /\ StageInv'
  BY <1>8 DEF Expire, TypeOK, StageInv
<1>9. ASSUME NEW c \in Screens, Subscribe(c) PROVE TypeOK' /\ StageInv'
  BY <1>9 DEF Subscribe, TypeOK, StageInv
<1>10. ASSUME NEW c \in Screens, Prime(c) PROVE TypeOK' /\ StageInv'
  <2>1. \A n \in Nodes :
          cache[n] # 0 => cache[n] \in Snapshots /\ <<cache[n]>> \o wire[c][n] \in Seq(Snapshots)
    BY LastIs DEF TypeOK
  <2>2. wire' \in [Screens -> [Nodes -> Seq(Snapshots)]]
    BY <1>10, <2>1 DEF Prime, TypeOK
  <2> QED
    BY <1>10, <2>2 DEF Prime, TypeOK, StageInv
<1>11. ASSUME NEW c \in Screens, DropStream(c) PROVE TypeOK' /\ StageInv'
  BY <1>11 DEF DropStream, NothingSent, TypeOK, StageInv
<1>12. ASSUME NEW c \in Screens, RefuseStream(c) PROVE TypeOK' /\ StageInv'
  BY <1>12 DEF RefuseStream, TypeOK, StageInv
<1>13. ASSUME NEW c \in Screens, NEW n \in Nodes, Receive(c, n) PROVE TypeOK' /\ StageInv'
  <2>1. wire[c][n] \in Seq(Snapshots) /\ wire[c][n] # <<>>
    BY <1>13 DEF Receive, TypeOK
  <2>2. Tail(wire[c][n]) \in Seq(Snapshots) /\ Head(wire[c][n]) \in Snapshots
    <3> HIDE DEF Snapshots
    <3> QED
      BY <2>1, TailIs
  <2>3. With(incoming[c], n, Head(wire[c][n])) \in Maps
    <3>1. Head(wire[c][n]) \in Cached
      BY <2>2
    <3>2. incoming[c] \in Maps
      BY DEF TypeOK
    <3> QED
      BY <3>1, <3>2, WithIs, Zenon
  <2>4. wire' \in [Screens -> [Nodes -> Seq(Snapshots)]]
    BY <1>13, <2>2 DEF Receive, TypeOK
  <2>5. incoming' \in [Screens -> Maps]
    BY <1>13, <2>3 DEF Receive, TypeOK
  <2> QED
    BY <1>13, <2>4, <2>5 DEF Receive, TypeOK, StageInv
<1>14. ASSUME NEW c \in Screens, Timer(c) PROVE TypeOK' /\ StageInv'
  BY <1>14 DEF Timer, Commit, TypeOK, StageInv
<1>15. ASSUME NEW c \in Screens, NEW m \in Modes, SetMode(c, m) PROVE TypeOK' /\ StageInv'
  BY <1>15 DEF SetMode, Commit, TypeOK, StageInv
<1>16. ASSUME NEW c \in Screens, RefreshNow(c) PROVE TypeOK' /\ StageInv'
  BY <1>16 DEF RefreshNow, Rest, TypeOK, StageInv
<1>17. ASSUME NEW c \in Screens, ReadRows(c) PROVE TypeOK' /\ StageInv'
  <2>1. rest[c].why \in {"prime", "refresh"}
    BY <1>17, RestKinds DEF ReadRows, TypeOK
  <2>2. [kind |-> "rows", why |-> rest[c].why, nodes |-> row] \in Rest
    BY <2>1 DEF Rest, TypeOK
  <2> QED
    BY <1>17, <2>2 DEF ReadRows, TypeOK, StageInv
<1>18. ASSUME NEW c \in Screens, ReadSnapshots(c) PROVE TypeOK' /\ StageInv'
  <2> DEFINE map == [n \in rest[c].nodes |-> cache[n]]
  <2>1. rest[c].why \in {"prime", "refresh"} /\ rest[c].nodes \in SUBSET Nodes
    BY <1>18, RestKinds DEF ReadSnapshots, TypeOK
  <2>2. map \in Maps
    <3>1. map \in [rest[c].nodes -> Cached]
      BY <2>1 DEF TypeOK
    <3> QED
      BY <2>1, <3>1, MapsHave
  <2>3. [kind |-> "answer", why |-> rest[c].why, map |-> map] \in Rest
    BY <2>1, <2>2 DEF Rest
  <2> QED
    BY <1>18, <2>3 DEF ReadSnapshots, TypeOK, StageInv
<1>19. ASSUME NEW c \in Screens, Answered(c) PROVE TypeOK' /\ StageInv'
  <2>1. rest[c].map \in Maps
    BY <1>19, RestKinds DEF Answered, TypeOK
  <2>2. DOMAIN rest[c].map \subseteq Nodes
    BY <2>1, MapsAre
  <2>3. NoCall \in Rest
    BY DEF Rest
  <2> QED
    BY <1>19, <2>1, <2>2, <2>3 DEF Answered, TypeOK, StageInv
<1>20. ASSUME NEW c \in Screens, RestFails(c) PROVE TypeOK' /\ StageInv'
  <2>1. NoCall \in Rest
    BY DEF Rest
  <2> QED
    BY <1>20, <2>1 DEF RestFails, Commit, TypeOK, StageInv
<1>21. ASSUME NEW c \in Screens, Reload(c) PROVE TypeOK' /\ StageInv'
  <2>1. [kind |-> "asked", why |-> "prime"] \in Rest
    BY DEF Rest
  <2> QED
    BY <1>21, <2>1, EmptyIsMap DEF Reload, NothingSent, TypeOK, StageInv
<1>22. ASSUME UNCHANGED vars PROVE TypeOK' /\ StageInv'
  BY <1>22 DEF vars, TypeOK, StageInv
<1> QED
  BY <1>1, <1>2, <1>3, <1>4, <1>5, <1>6, <1>7, <1>8, <1>9, <1>10, <1>11,
     <1>12, <1>13, <1>14, <1>15, <1>16, <1>17, <1>18, <1>19, <1>20, <1>21, <1>22
  DEF Next, PollerNext, InventoryNext, ScreenNext, OperatorNext

\* The state of the poller, Redis, streams and screens keeps its type.
THEOREM TypeCorrect == Spec => []TypeOK
<1>1. Init => TypeOK /\ StageInv
  BY InitType
<1>2. TypeOK /\ StageInv /\ [Next]_vars => (TypeOK /\ StageInv)'
  BY TypeStep
<1> QED
  BY <1>1, <1>2, PTL DEF Spec

-----------------------------------------------------------------------------
(* Nothing published falls between the cache, the streams and the screens  *)

LEMMA InitInv == ASSUME Init PROVE Inv
<1>1. TypeOK /\ StageInv
  BY InitType
<1>2. CacheInv /\ StreamInv /\ RestInv /\ StreamMissesNothing
  BY DEF Init, CacheInv, StreamInv, RestInv, StreamMissesNothing, Listening, NothingSent
<1> QED
  BY <1>1, <1>2 DEF Inv

LEMMA CacheStep == ASSUME TypeOK, StageInv, CacheInv, [Next]_vars PROVE CacheInv'
<1> USE DEF pollVars, redisVars, streamVars, viewVars, Cached, TypeOK, StageInv, CacheInv
<1>1. ASSUME StartCycle PROVE CacheInv'
  BY <1>1 DEF StartCycle
<1>2. ASSUME NEW n \in Nodes, PollNode(n) PROVE CacheInv'
  BY <1>2 DEF PollNode
<1>3. ASSUME NEW n \in Nodes, SetSnapshot(n) PROVE CacheInv'
  BY <1>3 DEF SetSnapshot
<1>4. ASSUME NEW n \in Nodes, PublishSnapshot(n) PROVE CacheInv'
  BY <1>4 DEF PublishSnapshot
<1>5. ASSUME NEW n \in Nodes, StoreFails(n) PROVE CacheInv'
  BY <1>5 DEF StoreFails
<1>6. ASSUME NEW n \in Nodes, DeleteNode(n) PROVE CacheInv'
  BY <1>6 DEF DeleteNode
<1>7. ASSUME NEW n \in Nodes, DropSnapshot(n) PROVE CacheInv'
  BY <1>7 DEF DropSnapshot
<1>8. ASSUME NEW n \in Nodes, Expire(n) PROVE CacheInv'
  BY <1>8 DEF Expire
<1>9. ASSUME UNCHANGED <<row, dropping, pollVars, redisVars>> PROVE CacheInv'
  BY <1>9
<1> QED
  BY <1>1, <1>2, <1>3, <1>4, <1>5, <1>6, <1>7, <1>8, <1>9
  DEF Next, PollerNext, InventoryNext, ScreenNext, OperatorNext, vars,
      Subscribe, Prime, DropStream, RefuseStream, Receive, Timer, SetMode,
      RefreshNow, ReadRows, ReadSnapshots, Answered, RestFails, Reload

LEMMA RestStep == ASSUME TypeOK, RestInv, [Next]_vars PROVE RestInv'
<1> USE DEF pollVars, redisVars, streamVars, viewVars, TypeOK, RestInv
<1>1. ASSUME NEW n \in Nodes, DeleteNode(n) PROVE RestInv'
  BY <1>1 DEF DeleteNode
<1>2. ASSUME NEW c \in Screens, RefreshNow(c) PROVE RestInv'
  BY <1>2 DEF RefreshNow
<1>3. ASSUME NEW c \in Screens, ReadRows(c) PROVE RestInv'
  BY <1>3 DEF ReadRows
<1>4. ASSUME NEW c \in Screens, ReadSnapshots(c) PROVE RestInv'
  BY <1>4 DEF ReadSnapshots
<1>5. ASSUME NEW c \in Screens, Answered(c) PROVE RestInv'
  BY <1>5 DEF Answered, NoCall
<1>6. ASSUME NEW c \in Screens, RestFails(c) PROVE RestInv'
  BY <1>6 DEF RestFails, NoCall
<1>7. ASSUME NEW c \in Screens, Reload(c) PROVE RestInv'
  BY <1>7 DEF Reload
<1>8. ASSUME UNCHANGED <<row, rest>> PROVE RestInv'
  BY <1>8
<1> QED
  BY <1>1, <1>2, <1>3, <1>4, <1>5, <1>6, <1>7, <1>8
  DEF Next, PollerNext, InventoryNext, ScreenNext, OperatorNext, vars,
      StartCycle, PollNode, SetSnapshot, PublishSnapshot, StoreFails,
      DropSnapshot, Expire, Subscribe, Prime, DropStream, RefuseStream,
      Receive, Timer, SetMode

LEMMA StreamStep ==
  ASSUME Inv, [Next]_vars, TypeOK'
  PROVE  StreamInv' /\ StreamMissesNothing'
<1> USE DEF pollVars, redisVars, streamVars, viewVars, Inv, Listening
<1>1. ASSUME NEW n \in Nodes, PublishSnapshot(n) PROVE StreamInv' /\ StreamMissesNothing'
  <2>1. polls[n] \in Snapshots
    BY <1>1 DEF PublishSnapshot, TypeOK, StageInv, Snapshots, Cached
  <2>2. ASSUME NEW c \in Screens
        PROVE  Append(wire[c][n], polls[n]) # <<>> /\ Last(Append(wire[c][n], polls[n])) = polls[n]
    <3>1. wire[c][n] \in Seq(Snapshots)
      BY DEF TypeOK
    <3>2. /\ Append(wire[c][n], polls[n]) # <<>>
          /\ Len(Append(wire[c][n], polls[n])) = Len(wire[c][n]) + 1
          /\ Append(wire[c][n], polls[n])[Len(wire[c][n]) + 1] = polls[n]
      BY <2>1, <3>1
    <3> QED
      BY <3>2 DEF Last
  <2>3. /\ \A m \in Nodes : published'[m] = IF m = n /\ cache[n] # 0
                                            THEN polls[n] ELSE published[m]
        /\ \A m \in Nodes : published[m] <= polls[m]
        /\ \A c \in Screens, m \in Nodes :
             wire'[c][m] = IF Listening(c) /\ m = n THEN Append(wire[c][n], polls[n])
                           ELSE wire[c][m]
        /\ \A c \in Screens : ~Listening(c) => wire'[c] = wire[c]
        /\ UNCHANGED <<row, stream, incoming, overwritten>>
    BY <1>1 DEF PublishSnapshot, TypeOK, Inv, CacheInv
  <2>4. polls[n] \in Nat /\ row \subseteq Nodes /\ \A m \in Nodes : published[m] \in Nat
    BY DEF TypeOK, Cached
  <2>5. StreamInv'
    <3>1. ASSUME NEW c \in Screens, NEW m \in row, wire'[c][m] # <<>>
          PROVE  Last(wire'[c][m]) >= published'[m]
      <4>1. CASE m # n
        BY <2>3, <2>4, <3>1, <4>1 DEF StreamInv
      <4>2. CASE m = n /\ Listening(c)
        BY <2>2, <2>3, <2>4, <4>2
      <4>3. CASE m = n /\ ~Listening(c)
        BY <2>3, <2>4, <3>1, <4>3 DEF StreamInv, NothingSent
      <4> QED
        BY <4>1, <4>2, <4>3
    <3> QED
      BY <2>3, <3>1 DEF StreamInv
  <2>6. StreamMissesNothing'
    <3>1. ASSUME NEW c \in Screens, NEW m \in row, stream'[c] = "live", m \notin overwritten'[c]
          PROVE  Newest(c, m)' >= published'[m]
      <4>1. CASE m # n
        BY <2>3, <2>4, <3>1, <4>1 DEF StreamMissesNothing, Newest
      <4>2. CASE m = n
        <5>1. wire'[c][n] = Append(wire[c][n], polls[n]) /\ published'[n] <= polls[n]
          <6>1. Listening(c)
            BY <2>3, <3>1 DEF Listening
          <6>2. wire'[c][n] = Append(wire[c][n], polls[n])
            BY <2>3, <6>1
          <6>3. published'[n] = polls[n] \/ published'[n] = published[n]
            BY <2>3
          <6>4. polls[n] \in Nat /\ published[n] \in Nat /\ published[n] <= polls[n]
            BY <2>3, <2>4
          <6> QED
            BY <6>2, <6>3, <6>4
        <5>2. wire'[c][n] # <<>> /\ Last(wire'[c][n]) = polls[n]
          BY <2>2, <5>1
        <5>3. Newest(c, m)' = polls[n]
          BY <4>2, <5>2 DEF Newest
        <5> QED
          BY <2>4, <4>2, <5>1, <5>3
      <4> QED
        BY <4>1, <4>2
    <3> QED
      BY <2>3, <3>1 DEF StreamMissesNothing
  <2> QED
    BY <2>5, <2>6
<1>2. ASSUME NEW n \in Nodes, DeleteNode(n) PROVE StreamInv' /\ StreamMissesNothing'
  BY <1>2 DEF DeleteNode, StreamInv, StreamMissesNothing, Newest, TypeOK
<1>3. ASSUME NEW c \in Screens, Subscribe(c) PROVE StreamInv' /\ StreamMissesNothing'
  BY <1>3 DEF Subscribe, StreamInv, StreamMissesNothing, Newest, TypeOK
<1>4. ASSUME NEW c \in Screens, Prime(c) PROVE StreamInv' /\ StreamMissesNothing'
  <2>1. ASSUME NEW n \in row
        PROVE  /\ cache[n] = 0 => wire'[c][n] = wire[c][n] /\ published[n] = 0
               /\ cache[n] # 0 => wire'[c][n] # <<>>
               /\ wire'[c][n] # <<>> => Last(wire'[c][n]) >= published[n]
    <3>1. n \in Nodes /\ published[n] <= cache[n] /\ published[n] \in Nat
      BY <2>1 DEF TypeOK, CacheInv, Cached
    <3>2. wire'[c][n] = IF cache[n] = 0 THEN wire[c][n] ELSE <<cache[n]>> \o wire[c][n]
      BY <1>4, <3>1 DEF Prime, TypeOK
    <3>3. CASE cache[n] = 0
      BY <2>1, <3>1, <3>2, <3>3 DEF StreamInv
    <3>4. CASE cache[n] # 0
      <4>1. cache[n] \in Snapshots /\ wire[c][n] \in Seq(Snapshots)
        BY <3>1, <3>4 DEF TypeOK, Cached, Snapshots
      <4>2. /\ wire'[c][n] # <<>>
            /\ Last(wire'[c][n]) = IF wire[c][n] = <<>> THEN cache[n] ELSE Last(wire[c][n])
        BY <3>2, <3>4, <4>1, LastIs
      <4> QED
        BY <2>1, <3>1, <3>4, <4>2 DEF StreamInv
    <3> QED
      BY <3>3, <3>4
  <2>2. /\ stream' = [stream EXCEPT ![c] = "live"] /\ stream[c] = "subscribed"
        /\ \A d \in Screens \ {c} : wire'[d] = wire[d]
        /\ UNCHANGED <<row, published, incoming, overwritten>>
    BY <1>4 DEF Prime, TypeOK
  <2>3. StreamInv'
    BY <2>1, <2>2 DEF StreamInv, TypeOK
  <2>4. \A n \in row : Newest(c, n)' >= published[n]
    BY <2>1, <2>2 DEF Newest, TypeOK, Maps, Cached
  <2>5. StreamMissesNothing'
    BY <2>2, <2>4 DEF StreamMissesNothing, Newest, TypeOK
  <2> QED
    BY <2>3, <2>5
<1>5. ASSUME NEW c \in Screens, DropStream(c) PROVE StreamInv' /\ StreamMissesNothing'
  BY <1>5 DEF DropStream, StreamInv, StreamMissesNothing, Newest, TypeOK, NothingSent
<1>6. ASSUME NEW c \in Screens, RefuseStream(c) PROVE StreamInv' /\ StreamMissesNothing'
  BY <1>6 DEF RefuseStream, StreamInv, StreamMissesNothing, Newest, TypeOK
<1>7. ASSUME NEW c \in Screens, NEW n \in Nodes, Receive(c, n)
      PROVE  StreamInv' /\ StreamMissesNothing'
  <2>1. wire[c][n] \in Seq(Snapshots) /\ wire[c][n] # <<>> /\ stream[c] = "live"
    BY <1>7 DEF Receive, TypeOK
  <2>2. IF Tail(wire[c][n]) = <<>> THEN Last(wire[c][n]) = Head(wire[c][n])
        ELSE Last(Tail(wire[c][n])) = Last(wire[c][n])
    BY <2>1, TailIs
  <2>3. /\ wire' = [wire EXCEPT ![c][n] = Tail(@)]
        /\ incoming' = [incoming EXCEPT ![c] = With(@, n, Head(wire[c][n]))]
        /\ overwritten' = [overwritten EXCEPT ![c] = @ \ {n}]
        /\ UNCHANGED <<row, published, stream>>
    BY <1>7 DEF Receive
  <2>4. StreamInv'
    BY <2>1, <2>2, <2>3 DEF StreamInv, TypeOK
  <2>5. /\ Head(wire[c][n]) \in Snapshots /\ incoming[c] \in Maps
        /\ incoming'[c] = With(incoming[c], n, Head(wire[c][n]))
    <3>1. Head(wire[c][n]) \in Snapshots
      BY <2>1, TailIs
    <3> QED
      BY <2>3, <3>1 DEF TypeOK
  <2>6. /\ DOMAIN incoming'[c] = DOMAIN incoming[c] \cup {n}
        /\ incoming'[c][n] = Head(wire[c][n])
        /\ \A m \in DOMAIN incoming[c] \ {n} : incoming'[c][m] = incoming[c][m]
    <3>1. Head(wire[c][n]) \in Cached
      BY <2>5 DEF Snapshots, Cached
    <3> DEFINE map == With(incoming[c], n, Head(wire[c][n]))
    <3>2. /\ DOMAIN map = DOMAIN incoming[c] \cup {n}
          /\ map[n] = Head(wire[c][n])
          /\ \A m \in DOMAIN incoming[c] \ {n} : map[m] = incoming[c][m]
      BY <2>5, <3>1, WithIs, Zenon
    <3> QED
      BY <2>5, <3>2, Zenon
  <2>7. n \in row => Newest(c, n)' >= published[n]
    BY <2>1, <2>2, <2>3, <2>6 DEF Newest, StreamInv, TypeOK
  <2>8. \A m \in row \ {n} : Newest(c, m)' = Newest(c, m)
    BY <2>3, <2>6 DEF Newest, TypeOK
  <2>9. \A d \in Screens \ {c}, m \in row : Newest(d, m)' = Newest(d, m)
    BY <2>3 DEF Newest, TypeOK
  <2>10. StreamMissesNothing'
    BY <2>3, <2>7, <2>8, <2>9 DEF StreamMissesNothing, TypeOK
  <2> QED
    BY <2>4, <2>10
<1>8. ASSUME NEW c \in Screens, Answered(c) PROVE StreamInv' /\ StreamMissesNothing'
  <2> DEFINE map == rest[c].map
  <2>1. /\ incoming' = [incoming EXCEPT ![c] = map]
        /\ overwritten' = [overwritten EXCEPT ![c] = @ \cup
             {n \in DOMAIN map \cap DOMAIN incoming[c] : map[n] < incoming[c][n]}]
        /\ UNCHANGED <<row, published, streamVars>>
    BY <1>8 DEF Answered
  <2>2. map \in Maps /\ incoming[c] \in Maps /\ row \subseteq DOMAIN map
    BY <1>8, RestKinds DEF Answered, TypeOK, RestInv
  <2>3. \A n \in row : map[n] \in Nat /\ (n \in DOMAIN incoming[c] => incoming[c][n] \in Nat)
    BY <2>2, MapsAre DEF Cached
  <2>4. StreamInv'
    BY <2>1 DEF StreamInv
  <2>5. ASSUME NEW n \in row, n \notin overwritten'[c], stream[c] = "live"
        PROVE  Newest(c, n)' >= published[n]
    <3>1. n \notin overwritten[c] /\ (n \in DOMAIN incoming[c] => map[n] >= incoming[c][n])
      BY <2>1, <2>2, <2>3, <2>5 DEF TypeOK
    <3>2. Newest(c, n) >= published[n] /\ published[n] \in Nat
      BY <2>5, <3>1 DEF StreamMissesNothing, TypeOK, Cached
    <3>3. Newest(c, n)' = IF wire[c][n] # <<>> THEN Last(wire[c][n]) ELSE map[n]
      BY <2>1, <2>2 DEF Newest, TypeOK
    <3> QED
      BY <2>2, <2>3, <3>1, <3>2, <3>3 DEF Newest
  <2>6. \A d \in Screens \ {c}, m \in row : Newest(d, m)' = Newest(d, m)
    BY <2>1 DEF Newest, TypeOK
  <2>7. StreamMissesNothing'
    BY <2>1, <2>5, <2>6 DEF StreamMissesNothing, TypeOK
  <2> QED
    BY <2>4, <2>7
<1>9. ASSUME NEW c \in Screens, Reload(c) PROVE StreamInv' /\ StreamMissesNothing'
  BY <1>9 DEF Reload, StreamInv, StreamMissesNothing, Newest, TypeOK, NothingSent
<1>10. ASSUME UNCHANGED <<row, published, streamVars, incoming, overwritten>>
       PROVE  StreamInv' /\ StreamMissesNothing'
  BY <1>10 DEF StreamInv, StreamMissesNothing, Newest
<1>11. ASSUME NEW n \in Nodes, Expire(n) PROVE StreamInv' /\ StreamMissesNothing'
  <2>1. /\ \A m \in Nodes : published'[m] = IF m = n THEN 0 ELSE published[m]
        /\ UNCHANGED <<row, streamVars, incoming, overwritten>>
    BY <1>11 DEF Expire, viewVars, TypeOK
  <2>2. /\ row \subseteq Nodes /\ \A m \in Nodes : published[m] \in Nat
        /\ \A c \in Screens, m \in Nodes : Newest(c, m)' = Newest(c, m)
    BY <2>1 DEF TypeOK, Cached, Newest
  <2>3. StreamInv'
    <3>1. ASSUME NEW c \in Screens, NEW m \in row, wire[c][m] # <<>>
          PROVE  Last(wire[c][m]) >= published'[m]
      <4>1. Last(wire[c][m]) >= published[m] /\ Last(wire[c][m]) \in Snapshots
        BY <2>2, <3>1, LastIn DEF StreamInv, TypeOK
      <4> QED
        BY <2>1, <2>2, <4>1 DEF Snapshots
    <3> QED
      BY <2>1, <3>1 DEF StreamInv, Listening
  <2>4. StreamMissesNothing'
    <3>1. ASSUME NEW c \in Screens, NEW m \in row, Newest(c, m) >= published[m]
          PROVE  Newest(c, m) >= published'[m]
      <4>1. Newest(c, m) \in Nat
        <5>1. wire[c][m] \in Seq(Snapshots) /\ incoming[c] \in [DOMAIN incoming[c] -> Cached]
          BY <2>2, MapsAre DEF TypeOK
        <5>2. wire[c][m] # <<>> => Last(wire[c][m]) \in Snapshots
          BY <5>1, LastIn
        <5> QED
          BY <5>1, <5>2 DEF Newest, Snapshots, Cached
      <4> QED
        BY <2>1, <2>2, <3>1, <4>1
    <3> QED
      BY <2>1, <2>2, <3>1 DEF StreamMissesNothing
  <2> QED
    BY <2>3, <2>4
<1> QED
  BY <1>1, <1>2, <1>3, <1>4, <1>5, <1>6, <1>7, <1>8, <1>9, <1>10, <1>11
  DEF Next, PollerNext, InventoryNext, ScreenNext, OperatorNext, vars,
      StartCycle, PollNode, SetSnapshot, StoreFails, DropSnapshot,
      Timer, SetMode, RefreshNow, ReadRows, ReadSnapshots, RestFails

LEMMA InvStep == ASSUME Inv, [Next]_vars PROVE Inv'
<1>1. TypeOK' /\ StageInv'
  BY TypeStep DEF Inv
<1> QED
  BY <1>1, CacheStep, RestStep, StreamStep DEF Inv

\* The inductive invariant holds of every reachable state.
THEOREM InvCorrect == Spec => []Inv
<1>1. Init => Inv
  BY InitInv
<1>2. Inv /\ [Next]_vars => Inv'
  BY InvStep
<1> QED
  BY <1>1, <1>2, PTL DEF Spec

\* A screen on a live stream has, or is being sent, the last snapshot
\* published of every node, unless an older answer replaced it.
THEOREM StreamMissesNothingCorrect == Spec => []StreamMissesNothing
<1>1. Inv => StreamMissesNothing
  BY DEF Inv
<1> QED
  BY <1>1, InvCorrect, PTL

-----------------------------------------------------------------------------
(* What a table holds back is announced                                    *)

LEMMA HeldStep ==
  ASSUME TypeOK, HeldIsAnnounced, [Next]_vars
  PROVE  HeldIsAnnounced'
<1> USE DEF pollVars, redisVars, streamVars, viewVars, TypeOK, HeldIsAnnounced
<1>1. ASSUME NEW c \in Screens, NEW n \in Nodes, Receive(c, n) PROVE HeldIsAnnounced'
  BY <1>1 DEF Receive
<1>2. ASSUME NEW c \in Screens, Timer(c) PROVE HeldIsAnnounced'
  BY <1>2 DEF Timer, Commit
<1>3. ASSUME NEW c \in Screens, NEW m \in Modes, SetMode(c, m) PROVE HeldIsAnnounced'
  BY <1>3 DEF SetMode, Commit
<1>4. ASSUME NEW c \in Screens, Answered(c) PROVE HeldIsAnnounced'
  BY <1>4 DEF Answered
<1>5. ASSUME NEW c \in Screens, RestFails(c) PROVE HeldIsAnnounced'
  <2>1. Commit(c) \/ UNCHANGED <<visible, pending>>
    BY <1>5 DEF RestFails
  <2>2. UNCHANGED <<incoming, mode>>
    BY <1>5 DEF RestFails
  <2>3. CASE Commit(c)
    BY <2>2, <2>3 DEF Commit
  <2>4. CASE UNCHANGED <<visible, pending>>
    BY <2>2, <2>4
  <2> QED
    BY <2>1, <2>3, <2>4
<1>6. ASSUME NEW c \in Screens, Reload(c) PROVE HeldIsAnnounced'
  BY <1>6 DEF Reload
<1>7. ASSUME UNCHANGED viewVars PROVE HeldIsAnnounced'
  BY <1>7
<1> QED
  BY <1>1, <1>2, <1>3, <1>4, <1>5, <1>6, <1>7
  DEF Next, PollerNext, InventoryNext, ScreenNext, OperatorNext, vars,
      StartCycle, PollNode, SetSnapshot, PublishSnapshot, StoreFails,
      DeleteNode, DropSnapshot, Expire, Subscribe, Prime, DropStream,
      RefuseStream, RefreshNow, ReadRows, ReadSnapshots

\* A table that does not show what has arrived says so, whatever the mode.
THEOREM HeldIsAnnouncedCorrect == Spec => []HeldIsAnnounced
<1>1. Init => HeldIsAnnounced
  BY DEF Init, HeldIsAnnounced
<1>2. TypeOK /\ HeldIsAnnounced /\ [Next]_vars => HeldIsAnnounced'
  BY HeldStep
<1> QED
  BY <1>1, <1>2, TypeCorrect, PTL DEF Spec
=============================================================================
