------------------------- MODULE ConfigWritesProofs -------------------------
(***************************************************************************)
(* Theorems about ConfigWrites, for every set of nodes, screens, weight    *)
(* requests and settings.  The invariant has two parts: AllFit relates     *)
(* every text to the node it was read from, and GateInv relates a draft    *)
(* to the validation that lets it be applied.                              *)
(***************************************************************************)
EXTENDS ConfigWrites, TLAPS

-----------------------------------------------------------------------------
(* The inductive invariant                                                 *)

\* A text of node n: not newer than the node, read from that node, and what
\* the node still has when nothing was written since.
Fits(text, n) ==
  /\ text.base <= version[n]
  /\ text.file.home = n
  /\ text.base = version[n] => text.file = config[n]

\* Every text fits the node it would be written to, and only a draft or what
\* is sent holds edits.
AllFit ==
  /\ \A n \in Nodes : config[n].home = n
  /\ \A e \in Editors, n \in Nodes :
       loaded[e][n] # None => Fits(loaded[e][n].text, n) /\ loaded[e][n].text.edits = {}
  /\ \A e \in Editors, n \in Nodes :
       fetch[e][n].kind = "text" => Fits(fetch[e][n].text, n) /\ fetch[e][n].text.edits = {}
  /\ \A e \in Editors : draft[e] # None => Fits(draft[e].text, shown[e])
  /\ \A e \in Editors : call[e] # None => Fits(call[e].text, call[e].node)
  /\ \A k \in Weighings :
       weighing[k].kind \in {"read", "put"}
         => Fits(weighing[k].text, weighing[k].node) /\ weighing[k].text.edits = {Weight}

Approved(n, text) == [kind |-> "valid", node |-> n, text |-> text]

\* What the disabled button, the modal dialog and validate.reset() keep.
GateInv ==
  \A e \in Editors :
    /\ validated[e] /\ draft[e] # None
         => approved[e] = Approved(shown[e], draft[e].text)
    /\ confirming[e] /\ draft[e] # None => validated[e]
    /\ call[e].kind = "validate" /\ draft[e] # None
         => call[e].node = shown[e] /\ call[e].text = draft[e].text
    /\ call[e].kind = "apply" => confirming[e]
    /\ call[e].kind = "apply" /\ call[e].text.edits # {}
         => approved[e] = Approved(call[e].node, call[e].text)

Inv == TypeOK /\ AllFit /\ GateInv

-----------------------------------------------------------------------------
(* Type correctness                                                        *)

\* A query, a request in flight and a weight request hold a text when their
\* kind says so.
LEMMA FetchKinds ==
  /\ None \in Fetch /\ Asked \in Fetch /\ Failed \in Fetch
  /\ \A x \in Fetch : x.kind = "text" => x.text \in Text
BY DEF Fetch, None, Asked, Failed

LEMMA RequestKinds ==
  \A x \in {None} \cup Request :
    x # None \/ x.kind # "none" => x \in Request /\ x.node \in Nodes /\ x.text \in Text
BY DEF Request, None

LEMMA WeighingKinds ==
  \A x \in Weighing :
    x.kind \in {"read", "put"} => x.node \in Nodes /\ x.text \in Text
BY DEF Weighing, None

\* What a node answers is a text, and so is a text with one more edit.
LEMMA TextOfType ==
  ASSUME TypeOK, NEW n \in Nodes
  PROVE  TextOf(n) \in Text
BY DEF TypeOK, TextOf, Text

LEMMA EditedType ==
  ASSUME NEW t \in Text, NEW s \in Settings
  PROVE  Edited(t, s) \in Text
BY DEF Text, Edited

\* What a screen shows is a text.
LEMMA ShownType ==
  ASSUME TypeOK, NEW e \in Editors, HasText(e)
  PROVE  TextShown(e) \in Text /\ loaded[e][shown[e]].version \in Versions
BY DEF TypeOK, TextShown, HasText, Loaded, Draft, None

\* The node's next version is one, and what is written is a file.
LEMMA WrittenType ==
  ASSUME TypeOK, NEW n \in Nodes, NEW t \in Text, NEW v, Accepts(n, v)
  PROVE  /\ version[n] + 1 \in Versions
         /\ Written(n, t) \in File
         /\ ServerWritten(n, t) \in File
<1>1. version[n] + 1 \in Versions
  BY MaxVersionAssumption DEF TypeOK, Accepts, Versions
<1>2. Written(n, t) \in File
  BY <1>1 DEF Written, Text, File
<1>3. ServerWritten(n, t) \in File
  <2> DEFINE f == [s \in Settings |-> IF s \in ServerSettings
                                     THEN Written(n, t).setting[s]
                                     ELSE config[n].setting[s]]
  <2>1. config[n] \in File /\ f \in [Settings -> Versions]
    BY <1>2 DEF TypeOK, File
  <2>2. ServerWritten(n, t) = [config[n] EXCEPT !.setting = f]
    BY <2>1 DEF ServerWritten, File
  <2> QED
    BY <2>1, <2>2 DEF File
<1> QED
  BY <1>1, <1>2, <1>3

LEMMA WriteType ==
  ASSUME TypeOK, NEW n \in Nodes, NEW f \in File, version[n] + 1 \in Versions,
         Write(n, f)
  PROVE  version' \in [Nodes -> Versions] /\ config' \in [Nodes -> File]
BY DEF TypeOK, Write

\* Every step keeps the variables in their types.
LEMMA TypeStep == ASSUME TypeOK, [Next]_vars PROVE TypeOK'
<1> USE DEF TypeOK, screenVars
<1>1. ASSUME NEW e \in Editors, NEW n \in Nodes, ReadText(e, n) PROVE TypeOK'
  BY <1>1, TextOfType DEF ReadText, Fetch
<1>2. ASSUME NEW e \in Editors, NEW n \in Nodes, ReadVersion(e, n) PROVE TypeOK'
  <2>1. [kind |-> "data", text |-> fetch[e][n].text, version |-> version[n]] \in Loaded
    BY <1>2, FetchKinds DEF ReadVersion, Loaded
  <2> QED
    BY <1>2, <2>1, FetchKinds DEF ReadVersion
<1>3. ASSUME NEW e \in Editors, NEW n \in Nodes, FetchFails(e, n) PROVE TypeOK'
  BY <1>3 DEF FetchFails, Fetch, Failed
<1>4. ASSUME NEW e \in Editors, Valid(e) PROVE TypeOK'
  BY <1>4 DEF Valid, Request, Approval, None
<1>5. ASSUME NEW e \in Editors, NotValid(e) PROVE TypeOK'
  BY <1>5 DEF NotValid, None
<1>6. ASSUME NEW e \in Editors, ApplySucceeds(e) PROVE TypeOK'
  <2>1. /\ call[e].node \in Nodes
        /\ call[e].text \in Text
    BY <1>6 DEF ApplySucceeds, Request, None
  <2>2. Accepts(call[e].node, call[e].version)
    BY <1>6 DEF ApplySucceeds
  <2>3. version' \in [Nodes -> Versions] /\ config' \in [Nodes -> File]
    BY <1>6, <2>1, <2>2, WrittenType, WriteType DEF ApplySucceeds
  <2> QED
    BY <1>6, <2>3 DEF ApplySucceeds, Fetch, Asked, Draft, None
<1>7. ASSUME NEW e \in Editors, ApplyUnanswered(e) PROVE TypeOK'
  <2>1. /\ call[e].node \in Nodes
        /\ call[e].text \in Text
    BY <1>7 DEF ApplyUnanswered, Request, None
  <2>2. Accepts(call[e].node, call[e].version)
    BY <1>7 DEF ApplyUnanswered
  <2>3. version' \in [Nodes -> Versions] /\ config' \in [Nodes -> File]
    BY <1>7, <2>1, <2>2, WrittenType, WriteType DEF ApplyUnanswered
  <2> QED
    BY <1>7, <2>3 DEF ApplyUnanswered, None
<1>8. ASSUME NEW e \in Editors, ApplyFails(e) PROVE TypeOK'
  BY <1>8 DEF ApplyFails, None
<1>9. ASSUME NEW k \in Weighings, ReadServerVersion(k) PROVE TypeOK'
  <2>1. [kind |-> "put", node |-> weighing[k].node, text |-> weighing[k].text,
         version |-> version[weighing[k].node]] \in Weighing
    BY <1>9, WeighingKinds DEF ReadServerVersion, Weighing
  <2> QED
    BY <1>9, <2>1 DEF ReadServerVersion
<1>10. ASSUME NEW k \in Weighings, PutServer(k) PROVE TypeOK'
  <2>1. /\ weighing[k].node \in Nodes
        /\ weighing[k].text \in Text
    BY <1>10 DEF PutServer, Weighing, None
  <2>2. Accepts(weighing[k].node, weighing[k].version)
    BY <1>10 DEF PutServer
  <2>3. version' \in [Nodes -> Versions] /\ config' \in [Nodes -> File]
    BY <1>10, <2>1, <2>2, WrittenType, WriteType DEF PutServer
  <2> QED
    BY <1>10, <2>3 DEF PutServer, Weighing
<1>11. ASSUME NEW k \in Weighings, WeighingFails(k) PROVE TypeOK'
  BY <1>11 DEF WeighingFails, Weighing
<1>12. ASSUME NEW e \in Editors, Reconnect(e) PROVE TypeOK'
  BY <1>12 DEF Reconnect, Fetch, Asked
<1>13. ASSUME NEW e \in Editors, NEW s \in Settings, Type(e, s) PROVE TypeOK'
  BY <1>13, ShownType, EditedType DEF Type, Draft
<1>14. ASSUME NEW e \in Editors, Discard(e) PROVE TypeOK'
  BY <1>14 DEF Discard, Draft, None
<1>15. ASSUME NEW e \in Editors, AskValidate(e) PROVE TypeOK'
  BY <1>15, ShownType DEF AskValidate, NewCall, Request
<1>16. ASSUME NEW e \in Editors, OpenDialog(e) PROVE TypeOK'
  BY <1>16 DEF OpenDialog
<1>17. ASSUME NEW e \in Editors, CloseDialog(e) PROVE TypeOK'
  BY <1>17 DEF CloseDialog
<1>18. ASSUME NEW e \in Editors, Confirm(e) PROVE TypeOK'
  BY <1>18, ShownType DEF Confirm, NewCall, Request
<1>19. ASSUME NEW e \in Editors, NEW n \in Nodes, Switch(e, n) PROVE TypeOK'
  <2>1. fetch' \in [Editors -> [Nodes -> Fetch]]
    BY <1>19, FetchKinds DEF Switch, Show
  <2> QED
    BY <1>19, <2>1 DEF Switch, Draft
<1>20. ASSUME NEW k \in Weighings, NEW n \in Nodes, ReadServer(k, n) PROVE TypeOK'
  BY <1>20, TextOfType, EditedType, ServerSettingsAssumption
     DEF ReadServer, Weighing
<1>21. ASSUME NEW n \in Nodes, NEW s \in Settings, OutsideWrite(n, s) PROVE TypeOK'
  <2>1. Edited(TextOf(n), s) \in Text
    BY TextOfType, EditedType
  <2>2. version' \in [Nodes -> Versions] /\ config' \in [Nodes -> File]
    BY <1>21, <2>1, WrittenType, WriteType DEF OutsideWrite
  <2> QED
    BY <1>21, <2>2 DEF OutsideWrite
<1>22. CASE UNCHANGED vars
  BY <1>22 DEF vars
<1> QED
  BY TypedAssumption,
      <1>1, <1>2, <1>3, <1>4, <1>5, <1>6, <1>7, <1>8, <1>9, <1>10, <1>11,
      <1>12, <1>13, <1>14, <1>15, <1>16, <1>17, <1>18, <1>19, <1>20, <1>21,
      <1>22 DEF Next, Answer, Demand

LEMMA InitInv == ASSUME Init PROVE Inv
<1>1. TypeOK
  BY HomeAssumption, MaxVersionAssumption
  DEF Init, TypeOK, File, Versions, Loaded, Fetch, Asked, Draft, None, Weighing
<1>2. AllFit
  BY <1>1 DEF Init, AllFit, None, Asked
<1>3. GateInv
  BY DEF Init, GateInv, None
<1> QED
  BY <1>1, <1>2, <1>3 DEF Inv

\* The variables always have their types.
THEOREM TypeCorrect == Spec => []TypeOK
<1>1. Init => TypeOK
  BY InitInv DEF Inv
<1>2. TypeOK /\ [Next]_vars => TypeOK'
  BY TypeStep
<1> QED
  BY <1>1, <1>2, PTL DEF Spec

-----------------------------------------------------------------------------
(* Texts and the nodes they were read from                                 *)

\* What a node answers fits it.
LEMMA TextOfFits ==
  ASSUME TypeOK, AllFit, NEW n \in Nodes
  PROVE  Fits(TextOf(n), n)
BY DEF TypeOK, AllFit, Fits, TextOf, Versions

\* A server put back leaves the rest of the file where it is.
LEMMA ServerWrittenHome ==
  ASSUME TypeOK, NEW n \in Nodes, NEW t
  PROVE  ServerWritten(n, t).home = config[n].home
BY DEF TypeOK, File, ServerWritten

\* Only the file and its base matter to whether a text fits.
LEMMA EditedFits ==
  ASSUME NEW t \in Text, NEW n, Fits(t, n), NEW s
  PROVE  Fits(Edited(t, s), n)
BY DEF Text, Fits, Edited

\* What a screen shows fits the node it shows.
LEMMA ShownFits ==
  ASSUME TypeOK, AllFit, NEW e \in Editors, HasText(e)
  PROVE  Fits(TextShown(e), shown[e])
BY DEF TypeOK, AllFit, TextShown, HasText

\* A text that fits still does after a write to any node.
LEMMA WriteKeepsFit ==
  ASSUME TypeOK, NEW n \in Nodes, NEW f, Write(n, f),
         NEW t \in Text, NEW m \in Nodes, Fits(t, m)
  PROVE  Fits(t, m)'
BY DEF TypeOK, Write, Fits, Text, Versions

\* So a write to a node, of a file that is at home there, keeps AllFit when
\* the step adds no text.
LEMMA WriteKeepsAllFit ==
  ASSUME TypeOK, TypeOK', AllFit, NEW n \in Nodes, NEW f, Write(n, f), f.home = n,
         UNCHANGED <<shown, loaded>>,
         \A e \in Editors, m \in Nodes :
           fetch'[e][m] = fetch[e][m] \/ fetch'[e][m].kind # "text",
         \A e \in Editors : draft'[e] \in {draft[e], None},
         \A e \in Editors : call'[e] \in {call[e], None},
         \A k \in Weighings :
           weighing'[k] = weighing[k] \/ weighing'[k].kind \notin {"read", "put"}
  PROVE  AllFit'
<1>1. \A m \in Nodes : config'[m].home = m
  BY DEF TypeOK, AllFit, Write
<1>2. \A e \in Editors, m \in Nodes :
        (loaded[e][m] # None => Fits(loaded[e][m].text, m) /\ loaded[e][m].text.edits = {})'
  BY WriteKeepsFit DEF TypeOK, AllFit, Loaded
<1>3. \A e \in Editors, m \in Nodes :
        (fetch[e][m].kind = "text"
           => Fits(fetch[e][m].text, m) /\ fetch[e][m].text.edits = {})'
  <2> SUFFICES ASSUME NEW e \in Editors, NEW m \in Nodes, fetch'[e][m].kind = "text"
               PROVE  Fits(fetch[e][m].text, m)' /\ fetch'[e][m].text.edits = {}
    OBVIOUS
  <2>1. fetch'[e][m] = fetch[e][m]
    OBVIOUS
  <2>2. fetch[e][m].text \in Text /\ Fits(fetch[e][m].text, m) /\ fetch[e][m].text.edits = {}
    BY <2>1, FetchKinds DEF TypeOK, AllFit
  <2>3. Fits(fetch[e][m].text, m)'
    BY <2>1, <2>2, WriteKeepsFit DEF Fits
  <2> QED
    BY <2>1, <2>2, <2>3
<1>4. \A e \in Editors : (draft[e] # None => Fits(draft[e].text, shown[e]))'
  <2> SUFFICES ASSUME NEW e \in Editors, draft'[e] # None
               PROVE  Fits(draft[e].text, shown[e])'
    OBVIOUS
  <2>1. draft'[e] = draft[e]
    OBVIOUS
  <2>2. draft[e].text \in Text /\ shown[e] \in Nodes /\ Fits(draft[e].text, shown[e])
    BY <2>1 DEF TypeOK, AllFit, Draft
  <2> QED
    BY <2>1, <2>2, WriteKeepsFit DEF Fits
<1>5. \A e \in Editors : (call[e] # None => Fits(call[e].text, call[e].node))'
  <2> SUFFICES ASSUME NEW e \in Editors, call'[e] # None
               PROVE  Fits(call[e].text, call[e].node)'
    OBVIOUS
  <2>1. call'[e] = call[e]
    OBVIOUS
  <2>2. call[e].text \in Text /\ call[e].node \in Nodes /\ Fits(call[e].text, call[e].node)
    BY <2>1 DEF TypeOK, AllFit, Request
  <2> QED
    BY <2>1, <2>2, WriteKeepsFit DEF Fits
<1>6. \A k \in Weighings :
        (weighing[k].kind \in {"read", "put"}
           => Fits(weighing[k].text, weighing[k].node) /\ weighing[k].text.edits = {Weight})'
  <2> SUFFICES ASSUME NEW k \in Weighings, weighing'[k].kind \in {"read", "put"}
               PROVE  Fits(weighing[k].text, weighing[k].node)' /\ weighing'[k].text.edits = {Weight}
    OBVIOUS
  <2>1. weighing'[k] = weighing[k]
    OBVIOUS
  <2>2. /\ weighing[k].text \in Text
        /\ weighing[k].node \in Nodes
        /\ Fits(weighing[k].text, weighing[k].node)
        /\ weighing[k].text.edits = {Weight}
    BY <2>1, WeighingKinds DEF TypeOK, AllFit
  <2> QED
    BY <2>1, <2>2, WriteKeepsFit DEF Fits
<1> QED
  BY <1>1, <1>2, <1>3, <1>4, <1>5, <1>6 DEF AllFit

\* Every step keeps every text fitting the node it would be written to.
LEMMA FitStep == ASSUME TypeOK, TypeOK', AllFit, [Next]_vars PROVE AllFit'
<1>1. ASSUME NEW e \in Editors, NEW n \in Nodes, ReadText(e, n) PROVE AllFit'
  <2>1. Fits(TextOf(n), n) /\ TextOf(n).edits = {}
    BY TextOfFits DEF TextOf
  <2> QED
    BY <1>1, <2>1 DEF ReadText, TypeOK, AllFit, Fits
<1>2. ASSUME NEW e \in Editors, NEW n \in Nodes, ReadVersion(e, n) PROVE AllFit'
  <2>1. /\ UNCHANGED <<version, config, shown, draft, call, weighing>>
        /\ Fits(fetch[e][n].text, n) /\ fetch[e][n].text.edits = {}
    BY <1>2 DEF ReadVersion, AllFit
  <2>2. \A d \in Editors, m \in Nodes :
          /\ loaded'[d][m] = loaded[d][m] \/ (loaded'[d][m].text = fetch[e][n].text /\ m = n)
          /\ fetch'[d][m] = fetch[d][m] \/ fetch'[d][m] = None
    BY <1>2 DEF ReadVersion, TypeOK
  <2> QED
    BY <2>1, <2>2 DEF AllFit, Fits, None
<1>3. ASSUME NEW e \in Editors, NEW n \in Nodes, FetchFails(e, n) PROVE AllFit'
  BY <1>3 DEF FetchFails, AllFit, Fits, TypeOK, Failed
<1>4. ASSUME NEW e \in Editors, Valid(e) PROVE AllFit'
  BY <1>4 DEF Valid, AllFit, Fits, TypeOK
<1>5. ASSUME NEW e \in Editors, NotValid(e) PROVE AllFit'
  BY <1>5 DEF NotValid, AllFit, Fits, TypeOK
<1>6. ASSUME NEW e \in Editors, ApplySucceeds(e) PROVE AllFit'
  <2>1. /\ call[e].node \in Nodes
        /\ Written(call[e].node, call[e].text).home = call[e].node
    BY <1>6 DEF ApplySucceeds, TypeOK, Request, Text, File, AllFit, Fits, Written, None
  <2>2. Write(call[e].node, Written(call[e].node, call[e].text))
    BY <1>6 DEF ApplySucceeds
  <2>3. /\ UNCHANGED <<shown, loaded, weighing>>
        /\ \A d \in Editors, m \in Nodes :
             fetch'[d][m] = fetch[d][m] \/ fetch'[d][m].kind # "text"
        /\ \A d \in Editors : draft'[d] \in {draft[d], None}
        /\ \A d \in Editors : call'[d] \in {call[d], None}
    BY <1>6 DEF ApplySucceeds, TypeOK, Asked
  <2> QED
    BY <2>1, <2>2, <2>3, WriteKeepsAllFit
<1>7. ASSUME NEW e \in Editors, ApplyUnanswered(e) PROVE AllFit'
  <2>1. /\ call[e].node \in Nodes
        /\ Written(call[e].node, call[e].text).home = call[e].node
    BY <1>7 DEF ApplyUnanswered, TypeOK, Request, Text, File, AllFit, Fits, Written, None
  <2>2. Write(call[e].node, Written(call[e].node, call[e].text))
    BY <1>7 DEF ApplyUnanswered
  <2>3. /\ UNCHANGED <<shown, loaded, weighing>>
        /\ \A d \in Editors, m \in Nodes :
             fetch'[d][m] = fetch[d][m] \/ fetch'[d][m].kind # "text"
        /\ \A d \in Editors : draft'[d] \in {draft[d], None}
        /\ \A d \in Editors : call'[d] \in {call[d], None}
    BY <1>7 DEF ApplyUnanswered, TypeOK, Asked
  <2> QED
    BY <2>1, <2>2, <2>3, WriteKeepsAllFit
<1>8. ASSUME NEW e \in Editors, ApplyFails(e) PROVE AllFit'
  BY <1>8 DEF ApplyFails, AllFit, Fits, TypeOK
<1>9. ASSUME NEW k \in Weighings, ReadServerVersion(k) PROVE AllFit'
  <2>1. \A j \in Weighings :
          weighing'[j] = weighing[j]
            \/ /\ weighing[j].kind = "read"
               /\ weighing'[j].node = weighing[j].node
               /\ weighing'[j].text = weighing[j].text
    BY <1>9 DEF ReadServerVersion, TypeOK
  <2>2. UNCHANGED <<version, config, shown, loaded, fetch, draft, call>>
    BY <1>9 DEF ReadServerVersion, screenVars
  <2> QED
    BY <2>1, <2>2 DEF AllFit, Fits
<1>10. ASSUME NEW k \in Weighings, PutServer(k) PROVE AllFit'
  <2>1. /\ weighing[k].node \in Nodes
        /\ ServerWritten(weighing[k].node, weighing[k].text).home = weighing[k].node
    BY <1>10, WeighingKinds, ServerWrittenHome DEF PutServer, TypeOK, AllFit
  <2>2. Write(weighing[k].node, ServerWritten(weighing[k].node, weighing[k].text))
    BY <1>10 DEF PutServer
  <2>3. /\ UNCHANGED <<shown, loaded, fetch, draft, call>>
        /\ \A j \in Weighings :
             weighing'[j] = weighing[j] \/ weighing'[j].kind \notin {"read", "put"}
    BY <1>10 DEF PutServer, TypeOK, screenVars
  <2> QED
    BY <2>1, <2>2, <2>3, WriteKeepsAllFit
<1>11. ASSUME NEW k \in Weighings, WeighingFails(k) PROVE AllFit'
  <2>1. \A j \in Weighings :
          weighing'[j] = weighing[j] \/ weighing'[j].kind = "over"
    BY <1>11 DEF WeighingFails, TypeOK
  <2>2. UNCHANGED <<version, config, shown, loaded, fetch, draft, call>>
    BY <1>11 DEF WeighingFails, screenVars
  <2> QED
    BY <2>1, <2>2 DEF AllFit, Fits
<1>12. ASSUME NEW e \in Editors, Reconnect(e) PROVE AllFit'
  BY <1>12 DEF Reconnect, AllFit, Fits, TypeOK, Asked
<1>13. ASSUME NEW e \in Editors, NEW s \in Settings, Type(e, s) PROVE AllFit'
  <2>0. PICK t : t = Edited(TextShown(e), s)
    OBVIOUS
  <2>1. TextShown(e) \in Text /\ Fits(TextShown(e), shown[e])
    BY <1>13, ShownType, ShownFits DEF Type
  <2>2. UNCHANGED <<version, config, shown, loaded, fetch, weighing>>
    BY <1>13 DEF Type
  <2>3. Fits(t, shown[e])
    BY <2>0, <2>1, EditedFits
  <2>4. \A d \in Editors : draft'[d] = draft[d] \/ (d = e /\ draft'[d].text = t)
    BY <1>13, <2>0 DEF Type, TypeOK
  <2>5. \A d \in Editors : call'[d] \in {call[d], None}
    BY <1>13 DEF Type, TypeOK
  <2>6. \A d \in Editors : (draft[d] # None => Fits(draft[d].text, shown[d]))'
    <3> SUFFICES ASSUME NEW d \in Editors, draft'[d] # None
                 PROVE  Fits(draft[d].text, shown[d])'
      OBVIOUS
    <3>1. Fits(draft'[d].text, shown[d])
      BY <2>3, <2>4 DEF AllFit
    <3> QED
      BY <2>2, <3>1 DEF Fits
  <2> QED
    BY <2>2, <2>5, <2>6 DEF AllFit, Fits
<1>14. ASSUME NEW e \in Editors, Discard(e) PROVE AllFit'
  BY <1>14 DEF Discard, AllFit, Fits, TypeOK
<1>15. ASSUME NEW e \in Editors, AskValidate(e) PROVE AllFit'
  <2>1. Fits(TextShown(e), shown[e])
    BY <1>15, ShownFits DEF AskValidate
  <2>2. \A d \in Editors :
          call'[d] = call[d]
            \/ /\ d = e
               /\ call'[d].node = shown[e]
               /\ call'[d].text = TextShown(e)
    BY <1>15 DEF AskValidate, NewCall, TypeOK
  <2>3. UNCHANGED <<version, config, shown, loaded, fetch, draft, weighing>>
    BY <1>15 DEF AskValidate
  <2> QED
    BY <2>1, <2>2, <2>3 DEF AllFit, Fits
<1>16. ASSUME NEW e \in Editors, OpenDialog(e) PROVE AllFit'
  BY <1>16 DEF OpenDialog, AllFit, Fits, TypeOK
<1>17. ASSUME NEW e \in Editors, CloseDialog(e) PROVE AllFit'
  BY <1>17 DEF CloseDialog, AllFit, Fits, TypeOK
<1>18. ASSUME NEW e \in Editors, Confirm(e) PROVE AllFit'
  <2>1. Fits(TextShown(e), shown[e])
    BY <1>18, ShownFits DEF Confirm
  <2>2. \A d \in Editors :
          call'[d] = call[d]
            \/ /\ d = e
               /\ call'[d].node = shown[e]
               /\ call'[d].text = TextShown(e)
    BY <1>18 DEF Confirm, NewCall, TypeOK
  <2>3. UNCHANGED <<version, config, shown, loaded, fetch, draft, weighing>>
    BY <1>18 DEF Confirm
  <2> QED
    BY <2>1, <2>2, <2>3 DEF AllFit, Fits
<1>19. ASSUME NEW e \in Editors, NEW n \in Nodes, Switch(e, n) PROVE AllFit'
  <2>1. \A d \in Editors :
          draft'[d] = None \/ (draft'[d] = draft[d] /\ shown'[d] = shown[d])
    BY <1>19 DEF Switch, TypeOK
  <2>2. \A d \in Editors, m \in Nodes : fetch'[d][m] \in {fetch[d][m], Asked}
    BY <1>19 DEF Switch, Show, TypeOK
  <2>3. UNCHANGED <<version, config, loaded, call, weighing>>
    BY <1>19 DEF Switch
  <2> QED
    BY <2>1, <2>2, <2>3 DEF AllFit, Fits, Asked
<1>20. ASSUME NEW k \in Weighings, NEW n \in Nodes, ReadServer(k, n) PROVE AllFit'
  <2>0. PICK t : t = Edited(TextOf(n), Weight)
    OBVIOUS
  <2>1. TextOf(n) \in Text /\ Fits(TextOf(n), n)
    BY TextOfType, TextOfFits
  <2>2. UNCHANGED <<version, config, shown, loaded, fetch, draft, call>>
    BY <1>20 DEF ReadServer, screenVars
  <2>3. Fits(t, n) /\ t.edits = {Weight}
    BY <2>0, <2>1, EditedFits DEF Text, TextOf, Edited
  <2>4. \A j \in Weighings :
          weighing'[j] = weighing[j] \/ (weighing'[j].node = n /\ weighing'[j].text = t)
    BY <1>20, <2>0 DEF ReadServer, TypeOK
  <2>5. \A j \in Weighings :
          (weighing[j].kind \in {"read", "put"}
             => Fits(weighing[j].text, weighing[j].node) /\ weighing[j].text.edits = {Weight})'
    <3> SUFFICES ASSUME NEW j \in Weighings, weighing'[j].kind \in {"read", "put"}
                 PROVE  (Fits(weighing[j].text, weighing[j].node)
                           /\ weighing[j].text.edits = {Weight})'
      OBVIOUS
    <3>1. /\ Fits(weighing'[j].text, weighing'[j].node)
          /\ weighing'[j].text.edits = {Weight}
      BY <2>3, <2>4 DEF AllFit
    <3> QED
      BY <2>2, <3>1 DEF Fits
  <2> QED
    BY <2>2, <2>5 DEF AllFit, Fits
<1>21. ASSUME NEW n \in Nodes, NEW s \in Settings, OutsideWrite(n, s) PROVE AllFit'
  <2>1. Written(n, Edited(TextOf(n), s)).home = n
    BY DEF TypeOK, File, AllFit, Written, TextOf, Edited
  <2>2. Write(n, Written(n, Edited(TextOf(n), s)))
    BY <1>21 DEF OutsideWrite
  <2>3. UNCHANGED <<shown, loaded, fetch, draft, call, weighing>>
    BY <1>21 DEF OutsideWrite, screenVars
  <2> QED
    BY <2>1, <2>2, <2>3, WriteKeepsAllFit
<1>22. CASE UNCHANGED vars
  BY <1>22 DEF vars, AllFit, Fits
<1> QED
  BY TypedAssumption,
      <1>1, <1>2, <1>3, <1>4, <1>5, <1>6, <1>7, <1>8, <1>9, <1>10, <1>11,
      <1>12, <1>13, <1>14, <1>15, <1>16, <1>17, <1>18, <1>19, <1>20, <1>21,
      <1>22 DEF Next, Answer, Demand

-----------------------------------------------------------------------------
(* Drafts and the gate in front of apply                                   *)

\* Every step keeps a draft behind the gate until the node has found it valid.
LEMMA GateStep == ASSUME TypeOK, AllFit, GateInv, [Next]_vars PROVE GateInv'
<1>1. ASSUME NEW e \in Editors, NEW n \in Nodes, ReadText(e, n) PROVE GateInv'
  BY <1>1 DEF ReadText, GateInv
<1>2. ASSUME NEW e \in Editors, NEW n \in Nodes, ReadVersion(e, n) PROVE GateInv'
  BY <1>2 DEF ReadVersion, GateInv
<1>3. ASSUME NEW e \in Editors, NEW n \in Nodes, FetchFails(e, n) PROVE GateInv'
  BY <1>3 DEF FetchFails, GateInv
<1>4. ASSUME NEW e \in Editors, Valid(e) PROVE GateInv'
  BY <1>4 DEF Valid, GateInv, TypeOK, Approved, None
<1>5. ASSUME NEW e \in Editors, NotValid(e) PROVE GateInv'
  BY <1>5 DEF NotValid, GateInv, TypeOK, None
<1>6. ASSUME NEW e \in Editors, ApplySucceeds(e) PROVE GateInv'
  BY <1>6 DEF ApplySucceeds, GateInv, TypeOK, None
<1>7. ASSUME NEW e \in Editors, ApplyUnanswered(e) PROVE GateInv'
  BY <1>7 DEF ApplyUnanswered, GateInv, TypeOK, None
<1>8. ASSUME NEW e \in Editors, ApplyFails(e) PROVE GateInv'
  BY <1>8 DEF ApplyFails, GateInv, TypeOK, None
<1>9. ASSUME NEW k \in Weighings, ReadServerVersion(k) PROVE GateInv'
  BY <1>9 DEF ReadServerVersion, GateInv, screenVars
<1>10. ASSUME NEW k \in Weighings, PutServer(k) PROVE GateInv'
  BY <1>10 DEF PutServer, GateInv, screenVars
<1>11. ASSUME NEW k \in Weighings, WeighingFails(k) PROVE GateInv'
  BY <1>11 DEF WeighingFails, GateInv, screenVars
<1>12. ASSUME NEW e \in Editors, Reconnect(e) PROVE GateInv'
  BY <1>12 DEF Reconnect, GateInv
<1>13. ASSUME NEW e \in Editors, NEW s \in Settings, Type(e, s) PROVE GateInv'
  BY <1>13 DEF Type, GateInv, TypeOK, None
<1>14. ASSUME NEW e \in Editors, Discard(e) PROVE GateInv'
  BY <1>14 DEF Discard, GateInv, TypeOK, None
<1>15. ASSUME NEW e \in Editors, AskValidate(e) PROVE GateInv'
  BY <1>15 DEF AskValidate, GateInv, TypeOK, NewCall, TextShown, None
<1>16. ASSUME NEW e \in Editors, OpenDialog(e) PROVE GateInv'
  BY <1>16 DEF OpenDialog, GateInv, TypeOK
<1>17. ASSUME NEW e \in Editors, CloseDialog(e) PROVE GateInv'
  BY <1>17 DEF CloseDialog, GateInv, TypeOK, None
<1>18. ASSUME NEW e \in Editors, Confirm(e) PROVE GateInv'
  <2>1. call[e] = None /\ confirming[e] /\ HasText(e)
    BY <1>18 DEF Confirm
  <2>2. TextShown(e).edits # {}
          => approved[e] = Approved(shown[e], TextShown(e))
    BY <2>1 DEF GateInv, AllFit, TextShown, HasText, TypeOK
  <2>3. \A d \in Editors :
          call'[d] = call[d]
            \/ /\ d = e
               /\ call'[d].kind = "apply"
               /\ call'[d].node = shown[e]
               /\ call'[d].text = TextShown(e)
    BY <1>18 DEF Confirm, NewCall, TypeOK
  <2>4. UNCHANGED <<shown, draft, validated, confirming, approved>>
    BY <1>18 DEF Confirm
  <2> QED
    BY <2>1, <2>2, <2>3, <2>4 DEF GateInv
<1>19. ASSUME NEW e \in Editors, NEW n \in Nodes, Switch(e, n) PROVE GateInv'
  BY <1>19 DEF Switch, GateInv, TypeOK, None
<1>20. ASSUME NEW k \in Weighings, NEW n \in Nodes, ReadServer(k, n) PROVE GateInv'
  BY <1>20 DEF ReadServer, GateInv, screenVars
<1>21. ASSUME NEW n \in Nodes, NEW s \in Settings, OutsideWrite(n, s) PROVE GateInv'
  BY <1>21 DEF OutsideWrite, GateInv, screenVars
<1>22. CASE UNCHANGED vars
  BY <1>22 DEF vars, GateInv
<1> QED
  BY TypedAssumption,
      <1>1, <1>2, <1>3, <1>4, <1>5, <1>6, <1>7, <1>8, <1>9, <1>10, <1>11,
      <1>12, <1>13, <1>14, <1>15, <1>16, <1>17, <1>18, <1>19, <1>20, <1>21,
      <1>22 DEF Next, Answer, Demand

LEMMA InvStep == ASSUME Inv, [Next]_vars PROVE Inv'
BY TypeStep, FitStep, GateStep DEF Inv

THEOREM InvCorrect == Spec => []Inv
<1>1. Init => Inv
  BY InitInv
<1>2. Inv /\ [Next]_vars => Inv'
  BY InvStep
<1> QED
  BY <1>1, <1>2, PTL DEF Spec

-----------------------------------------------------------------------------
(* The properties                                                          *)

\* No node ever gets a configuration that was read from another node.
THEOREM TextsStayHomeCorrect == Spec => []TextsStayHome
<1>1. Inv => TextsStayHome
  BY DEF Inv, AllFit, TextsStayHome
<1> QED
  BY <1>1, InvCorrect, PTL

\* The step in which a node writes what screen e sent, and what it wrote.
LEMMA AppliesIs ==
  ASSUME Inv, [Next]_vars, NEW e \in Editors, Applies(e)
  PROVE  /\ call[e].node \in Nodes /\ call[e].text \in Text
         /\ Accepts(call[e].node, call[e].version)
         /\ Write(call[e].node, Written(call[e].node, call[e].text))
<1>1. call[e].node \in Nodes /\ call[e].text \in Text /\ call[e] # None
  BY DEF Inv, TypeOK, Applies, Request, None
<1>2. ASSUME NEW d \in Editors, ApplySucceeds(d) \/ ApplyUnanswered(d) PROVE d = e
  BY <1>1, <1>2 DEF ApplySucceeds, ApplyUnanswered, Applies, Inv, TypeOK
<1>3. \E d \in Editors : ApplySucceeds(d) \/ ApplyUnanswered(d)
  <2>1. call'[e] # call[e] /\ version' # version
    BY <1>1 DEF Applies, Writes
  <2> QED
    BY <2>1 DEF Next, Answer, Demand, vars, screenVars, ReadText, ReadVersion,
         FetchFails, Valid, NotValid, ApplyFails, ReadServerVersion, PutServer,
         WeighingFails, Reconnect, Type, Discard, AskValidate, OpenDialog,
         CloseDialog, Confirm, Switch, ReadServer, OutsideWrite
<1> QED
  BY <1>1, <1>2, <1>3 DEF ApplySucceeds, ApplyUnanswered

\* The step in which a node writes what weight request k sent.
LEMMA WeighsIs ==
  ASSUME Inv, [Next]_vars, NEW k \in Weighings, Weighs(k)
  PROVE  /\ weighing[k].node \in Nodes /\ weighing[k].text \in Text
         /\ Accepts(weighing[k].node, weighing[k].version)
         /\ Write(weighing[k].node, ServerWritten(weighing[k].node, weighing[k].text))
<1>1. weighing[k].node \in Nodes /\ weighing[k].text \in Text
  BY DEF Inv, TypeOK, Weighs, Weighing, None
<1>2. ASSUME NEW j \in Weighings, PutServer(j) PROVE j = k
  BY <1>2 DEF PutServer, Weighs, Inv, TypeOK
<1>3. \E j \in Weighings : PutServer(j)
  <2>1. weighing' # weighing /\ version' # version
    BY DEF Weighs, Writes
  <2> QED
    BY <2>1 DEF Next, Answer, Demand, vars, screenVars, ReadText, ReadVersion,
         FetchFails, Valid, NotValid, ApplySucceeds, ApplyUnanswered, ApplyFails,
         ReadServerVersion, WeighingFails, Reconnect, Type, Discard, AskValidate,
         OpenDialog, CloseDialog, Confirm, Switch, ReadServer, OutsideWrite
<1> QED
  BY <1>1, <1>2, <1>3 DEF PutServer

\* A write whose text was read at the version it carries undoes nobody's change.
THEOREM FreshWritesCorrect == Spec => FreshWritesUndoNothing
<1>1. ASSUME Inv, [Next]_vars, NEW e \in Editors, Applies(e),
             call[e].text.base = call[e].version
      PROVE  Spares(call[e].node, call[e].text.edits)
  <2> DEFINE n == call[e].node
             t == call[e].text
  <2>1. n \in Nodes /\ t \in Text /\ Accepts(n, call[e].version) /\ Write(n, Written(n, t))
    BY <1>1, AppliesIs
  <2>2. t.file = config[n]
    BY <1>1, <2>1 DEF Accepts, Inv, AllFit, Fits, Applies, None
  <2>3. config'[n] = Written(n, t)
    BY <1>1, <2>1 DEF Write, Inv, TypeOK
  <2>4. \A s \in Settings \ t.edits : Written(n, t).setting[s] = t.file.setting[s]
    BY <2>1 DEF Written, Text, File
  <2> QED
    BY <2>2, <2>3, <2>4 DEF Spares
<1>2. ASSUME Inv, [Next]_vars, NEW k \in Weighings, Weighs(k),
             weighing[k].text.base = weighing[k].version
      PROVE  Spares(weighing[k].node, {Weight})
  <2> DEFINE n == weighing[k].node
             t == weighing[k].text
  <2>1. /\ n \in Nodes /\ t \in Text
        /\ Accepts(n, weighing[k].version)
        /\ Write(n, ServerWritten(n, t))
    BY <1>2, WeighsIs
  <2>2. t.file = config[n]
    BY <1>2, <2>1 DEF Accepts, Inv, AllFit, Fits, Weighs
  <2>3. config'[n] = ServerWritten(n, t)
    BY <1>2, <2>1 DEF Write, Inv, TypeOK
  <2>4. t.edits = {Weight}
    BY <1>2 DEF Inv, AllFit, Weighs
  <2>5. \A s \in Settings \ {Weight} : ServerWritten(n, t).setting[s] = config[n].setting[s]
    BY <1>2, <2>1, <2>2, <2>4 DEF ServerWritten, Written, Text, File, Inv, TypeOK
  <2> QED
    BY <2>3, <2>5 DEF Spares
<1>3. Inv /\ [Next]_vars
        => /\ \A e \in Editors :
                Applies(e) /\ call[e].text.base = call[e].version
                  => Spares(call[e].node, call[e].text.edits)
           /\ \A k \in Weighings :
                Weighs(k) /\ weighing[k].text.base = weighing[k].version
                  => Spares(weighing[k].node, {Weight})
  BY <1>1, <1>2
<1> QED
  BY <1>3, InvCorrect, PTL DEF Spec, FreshWritesUndoNothing

\* An edited text that is applied is what the node last found valid.
THEOREM EditsValidatedCorrect == Spec => EditsAreValidated
<1>1. Inv /\ [Next]_vars
        => \A e \in Editors :
             Applies(e) /\ call[e].text.edits # {}
               => approved[e] = [kind |-> "valid", node |-> call[e].node,
                                 text |-> call[e].text]
  BY DEF Inv, GateInv, Applies, Approved
<1> QED
  BY <1>1, InvCorrect, PTL DEF Spec, EditsAreValidated
=============================================================================
