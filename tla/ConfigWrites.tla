---------------------------- MODULE ConfigWrites ----------------------------
(***************************************************************************)
(* Writing a node's configuration: the editor screen (ConfigEditor.tsx)    *)
(* that reads, validates and applies a whole file, the weight request that *)
(* reads one server, edits it and puts it back, and the driver calls both  *)
(* go through (drivers/dataplane.py, routers/fleet.py).                    *)
(*                                                                         *)
(* The only guard against two writers is the version the node checks.  The *)
(* driver reads text and version with two calls, text first, and the       *)
(* screen keeps its draft when the file is read again, so the version sent *)
(* may be newer than the text it is sent with.                             *)
(*                                                                         *)
(* A configuration is a set of settings.  A setting is represented by the  *)
(* version that last changed it, so that an undone change shows.           *)
(***************************************************************************)
EXTENDS Naturals, Functions

CONSTANTS
  Nodes,          \* nodes whose driver can write configuration
  Editors,        \* open editor screens
  Weighings,      \* PUT .../weight requests; bounds how many are ever made
  Settings,       \* the settings of a configuration
  Typed,          \* those of them an operator edits on a screen
  ServerSettings, \* those of them in the one server that is weighed
  Weight,         \* the setting a weight request changes
  Home,           \* the node an editor screen opens on
  MaxVersion,     \* bound on the versions of a node's configuration
  MaxWrites       \* bound on the writes to all the nodes together

ASSUME ServerSettingsAssumption ==
  ServerSettings \subseteq Settings /\ Weight \in ServerSettings
ASSUME TypedAssumption == Typed \subseteq Settings
ASSUME HomeAssumption == Home \in Nodes
ASSUME MaxVersionAssumption == MaxVersion \in Nat

VARIABLES
  version,    \* the configuration version of each node
  config,     \* the configuration of each node
  shown,      \* the node each screen shows
  loaded,     \* raw-config query of each screen and node: its data
  fetch,      \* raw-config query of each screen and node: its request
  draft,      \* the edited text, if any
  validated,  \* validate.data?.valid === true
  confirming, \* whether the confirmation dialog is open
  call,       \* the validate or apply request in flight
  approved,   \* history: what the node found valid since the last edit
  weighing    \* each weight request

screenVars == <<shown, loaded, fetch, draft, validated, confirming, call, approved>>
vars == <<version, config, shown, loaded, fetch, draft, validated, confirming,
          call, approved, weighing>>

Versions == 0..MaxVersion

\* A file on a node, and the node its text was first read from (history).
File == [home : Nodes, setting : [Settings -> Versions]]

\* A text on a screen: a file, the node's version when it was read (history),
\* and the settings edited since.
Text == [file : File, base : Versions, edits : SUBSET Settings]

None == [kind |-> "none"]
Asked == [kind |-> "asked"]
Failed == [kind |-> "failed"]
Loaded == {None} \cup [kind : {"data"}, text : Text, version : Versions]
Fetch == {None} \cup [kind : {"asked", "failed"}] \cup [kind : {"text"}, text : Text]
Draft == {None} \cup [kind : {"draft"}, text : Text]
Approval == [kind : {"valid"}, node : Nodes, text : Text]
Request == [kind : {"validate", "apply"}, node : Nodes, text : Text, version : Versions]
Weighing ==
  {None} \cup [kind : {"read"}, node : Nodes, text : Text]
         \cup [kind : {"put"}, node : Nodes, text : Text, version : Versions]
         \cup [kind : {"over"}]

TypeOK ==
  /\ version \in [Nodes -> Versions]
  /\ config \in [Nodes -> File]
  /\ shown \in [Editors -> Nodes]
  /\ loaded \in [Editors -> [Nodes -> Loaded]]
  /\ fetch \in [Editors -> [Nodes -> Fetch]]
  /\ draft \in [Editors -> Draft]
  /\ validated \in [Editors -> BOOLEAN]
  /\ confirming \in [Editors -> BOOLEAN]
  /\ call \in [Editors -> {None} \cup Request]
  /\ approved \in [Editors -> {None} \cup Approval]
  /\ weighing \in [Weighings -> Weighing]

Init ==
  /\ version = [n \in Nodes |-> 0]
  /\ config = [n \in Nodes |-> [home |-> n, setting |-> [s \in Settings |-> 0]]]
  /\ shown = [e \in Editors |-> Home]
  /\ loaded = [e \in Editors |-> [n \in Nodes |-> None]]
  /\ fetch = [e \in Editors |-> [n \in Nodes |-> IF n = Home THEN Asked ELSE None]]
  /\ draft = [e \in Editors |-> None]
  /\ validated = [e \in Editors |-> FALSE]
  /\ confirming = [e \in Editors |-> FALSE]
  /\ call = [e \in Editors |-> None]
  /\ approved = [e \in Editors |-> None]
  /\ weighing = [k \in Weighings |-> None]

-----------------------------------------------------------------------------
(* The node                                                                *)

\* What a GET of the file, or of one server of it, answers now.
TextOf(n) == [file |-> config[n], base |-> version[n], edits |-> {}]

\* A text with one more setting changed.
Edited(text, s) == [text EXCEPT !.edits = @ \cup {s}]

\* The bound on all the writes leaves room for one more.
WritesLeft == FoldFunction(+, 0, version) < MaxWrites

\* The version parameter is left out, and the node takes any write.
MutAccepts(n, v) == version[n] < MaxVersion /\ WritesLeft

\* Every write carries a version; the node takes it when it is its own.
Accepts(n, v) == version[n] = v /\ version[n] < MaxVersion /\ WritesLeft

\* A whole file replaces the configuration; edits get the new version.
Written(n, text) ==
  [text.file EXCEPT !.setting =
     [s \in Settings |-> IF s \in text.edits THEN version[n] + 1 ELSE @[s]]]

Write(n, file) ==
  /\ config' = [config EXCEPT ![n] = file]
  /\ version' = [version EXCEPT ![n] = @ + 1]

\* Another client of the node's Data Plane API changes a setting.
OutsideWrite(n, s) ==
  /\ Accepts(n, version[n])
  /\ Write(n, Written(n, Edited(TextOf(n), s)))
  /\ UNCHANGED <<screenVars, weighing>>

-----------------------------------------------------------------------------
(* GET config/raw: fetch_raw_config reads the text, then the version       *)

\* The browser is online again: the query of the node shown is refetched.
Reconnect(e) ==
  /\ fetch[e][shown[e]].kind \in {"none", "failed"}
  /\ fetch' = [fetch EXCEPT ![e][shown[e]] = Asked]
  /\ UNCHANGED <<version, config, shown, loaded, draft, validated, confirming,
                 call, approved, weighing>>

ReadText(e, n) ==
  /\ fetch[e][n] = Asked
  /\ fetch' = [fetch EXCEPT ![e][n] = [kind |-> "text", text |-> TextOf(n)]]
  /\ UNCHANGED <<version, config, shown, loaded, draft, validated, confirming,
                 call, approved, weighing>>

\* The answer replaces loaded.data; a draft stays as it is.
ReadVersion(e, n) ==
  /\ fetch[e][n].kind = "text"
  /\ loaded' = [loaded EXCEPT ![e][n] =
                  [kind |-> "data", text |-> fetch[e][n].text, version |-> version[n]]]
  /\ fetch' = [fetch EXCEPT ![e][n] = None]
  /\ UNCHANGED <<version, config, shown, draft, validated, confirming, call,
                 approved, weighing>>

\* Either read fails: loaded.isError, shown instead of the editor.
FetchFails(e, n) ==
  /\ fetch[e][n].kind \in {"asked", "text"}
  /\ fetch' = [fetch EXCEPT ![e][n] = Failed]
  /\ UNCHANGED <<version, config, shown, loaded, draft, validated, confirming,
                 call, approved, weighing>>

-----------------------------------------------------------------------------
(* The editor screen                                                       *)

HasText(e) == loaded[e][shown[e]] # None /\ fetch[e][shown[e]] # Failed
TextShown(e) ==
  IF draft[e] = None THEN loaded[e][shown[e]].text ELSE draft[e].text

\* The version is left out of the request body.
MutNewCall(e, kind) ==
  call' = [call EXCEPT ![e] =
             [kind |-> kind, node |-> shown[e], text |-> TextShown(e)]]

NewCall(e, kind) ==
  call' = [call EXCEPT ![e] =
             [kind |-> kind, node |-> shown[e], text |-> TextShown(e),
              version |-> loaded[e][shown[e]].version]]

\* An edit keeps the result of the last validation.
MutType(e, s) ==
  /\ HasText(e)
  /\ ~confirming[e]
  /\ draft' = [draft EXCEPT ![e] = [kind |-> "draft", text |-> Edited(TextShown(e), s)]]
  /\ approved' = [approved EXCEPT ![e] = None]
  /\ UNCHANGED <<version, config, shown, loaded, fetch, validated, confirming,
                 call, weighing>>

\* onChange: validate.reset() drops the last result and detaches from a
\* request in flight.
Type(e, s) ==
  /\ HasText(e)
  /\ ~confirming[e]
  /\ draft' = [draft EXCEPT ![e] = [kind |-> "draft", text |-> Edited(TextShown(e), s)]]
  /\ validated' = [validated EXCEPT ![e] = FALSE]
  /\ call' = [call EXCEPT ![e] = None]
  /\ approved' = [approved EXCEPT ![e] = None]
  /\ UNCHANGED <<version, config, shown, loaded, fetch, confirming, weighing>>

Discard(e) ==
  /\ draft[e] # None
  /\ ~confirming[e]
  /\ draft' = [draft EXCEPT ![e] = None]
  /\ validated' = [validated EXCEPT ![e] = FALSE]
  /\ call' = [call EXCEPT ![e] = None]
  /\ approved' = [approved EXCEPT ![e] = None]
  /\ UNCHANGED <<version, config, shown, loaded, fetch, confirming, weighing>>

AskValidate(e) ==
  /\ HasText(e)
  /\ call[e] = None
  /\ ~confirming[e]
  /\ NewCall(e, "validate")
  /\ validated' = [validated EXCEPT ![e] = FALSE]
  /\ UNCHANGED <<version, config, shown, loaded, fetch, draft, confirming,
                 approved, weighing>>

\* only_validate: the node checks version and text, and writes nothing.
Valid(e) ==
  /\ call[e].kind = "validate"
  /\ version[call[e].node] = call[e].version
  /\ validated' = [validated EXCEPT ![e] = TRUE]
  /\ approved' = [approved EXCEPT ![e] =
                    [kind |-> "valid", node |-> call[e].node, text |-> call[e].text]]
  /\ call' = [call EXCEPT ![e] = None]
  /\ UNCHANGED <<version, config, shown, loaded, fetch, draft, confirming, weighing>>

\* 400, 409, 501 or 502: there is no valid result.
NotValid(e) ==
  /\ call[e].kind = "validate"
  /\ call' = [call EXCEPT ![e] = None]
  /\ UNCHANGED <<version, config, shown, loaded, fetch, draft, validated,
                 confirming, approved, weighing>>

\* "Apply and reload" is disabled={!dirty || !validated}.
OpenDialog(e) ==
  /\ draft[e] # None
  /\ validated[e]
  /\ call[e] = None
  /\ confirming' = [confirming EXCEPT ![e] = TRUE]
  /\ UNCHANGED <<version, config, shown, loaded, fetch, draft, validated, call,
                 approved, weighing>>

CloseDialog(e) ==
  /\ confirming[e]
  /\ call[e] = None
  /\ confirming' = [confirming EXCEPT ![e] = FALSE]
  /\ UNCHANGED <<version, config, shown, loaded, fetch, draft, validated, call,
                 approved, weighing>>

\* apply.mutate(): whatever node and text the screen shows by now.
Confirm(e) ==
  /\ confirming[e]
  /\ call[e] = None
  /\ HasText(e)
  /\ NewCall(e, "apply")
  /\ UNCHANGED <<version, config, shown, loaded, fetch, draft, validated,
                 confirming, approved, weighing>>

\* The node writes the file; onSuccess closes the dialog, drops the draft and
\* asks for the file again.
ApplySucceeds(e) ==
  /\ call[e].kind = "apply"
  /\ Accepts(call[e].node, call[e].version)
  /\ Write(call[e].node, Written(call[e].node, call[e].text))
  /\ confirming' = [confirming EXCEPT ![e] = FALSE]
  /\ draft' = [draft EXCEPT ![e] = None]
  /\ validated' = [validated EXCEPT ![e] = FALSE]
  /\ call' = [call EXCEPT ![e] = None]
  /\ fetch' = [fetch EXCEPT ![e][shown[e]] = Asked]
  /\ approved' = [approved EXCEPT ![e] = None]
  /\ UNCHANGED <<shown, loaded, weighing>>

\* The node writes the file and its answer is lost: the screen shows a 502.
ApplyUnanswered(e) ==
  /\ call[e].kind = "apply"
  /\ Accepts(call[e].node, call[e].version)
  /\ Write(call[e].node, Written(call[e].node, call[e].text))
  /\ call' = [call EXCEPT ![e] = None]
  /\ UNCHANGED <<shown, loaded, fetch, draft, validated, confirming, approved, weighing>>

\* 400, 409 or 502: nothing is written, the dialog stays open with the error.
ApplyFails(e) ==
  /\ call[e].kind = "apply"
  /\ call' = [call EXCEPT ![e] = None]
  /\ UNCHANGED <<version, config, shown, loaded, fetch, draft, validated,
                 confirming, approved, weighing>>

\* The query of a node that is shown runs when it has no data, or stale data.
Show(e, n) ==
  IF fetch[e][n] \in {None, Failed}
  THEN \/ fetch' = [fetch EXCEPT ![e][n] = Asked]
       \/ loaded[e][n] # None /\ UNCHANGED fetch
  ELSE UNCHANGED fetch

\* The screen shows another node and keeps the draft.
MutSwitch(e, n) ==
  /\ shown[e] # n
  /\ shown' = [shown EXCEPT ![e] = n]
  /\ Show(e, n)
  /\ UNCHANGED <<version, config, loaded, draft, validated, confirming, call,
                 approved, weighing>>

\* The operator selects another node, or the node shown by default changes
\* with the fleet: the draft goes, the validation and the dialog stay.
Switch(e, n) ==
  /\ shown[e] # n
  /\ shown' = [shown EXCEPT ![e] = n]
  /\ draft' = [draft EXCEPT ![e] = None]
  /\ Show(e, n)
  /\ UNCHANGED <<version, config, loaded, validated, confirming, call, approved,
                 weighing>>

-----------------------------------------------------------------------------
(* set_server_weight: read the server, read the version, put it back       *)

ReadServer(k, n) ==
  /\ weighing[k] = None
  /\ weighing' = [weighing EXCEPT ![k] =
                    [kind |-> "read", node |-> n,
                     text |-> Edited(TextOf(n), Weight)]]
  /\ UNCHANGED <<version, config, screenVars>>

ReadServerVersion(k) ==
  /\ weighing[k].kind = "read"
  /\ weighing' = [weighing EXCEPT ![k] =
                    [kind |-> "put", node |-> weighing[k].node,
                     text |-> weighing[k].text,
                     version |-> version[weighing[k].node]]]
  /\ UNCHANGED <<version, config, screenVars>>

\* The PUT replaces the whole server, and nothing else of the file.
ServerWritten(n, text) ==
  [config[n] EXCEPT !.setting =
     [s \in Settings |-> IF s \in ServerSettings
                         THEN Written(n, text).setting[s] ELSE @[s]]]

PutServer(k) ==
  /\ weighing[k].kind = "put"
  /\ Accepts(weighing[k].node, weighing[k].version)
  /\ Write(weighing[k].node, ServerWritten(weighing[k].node, weighing[k].text))
  /\ weighing' = [weighing EXCEPT ![k] = [kind |-> "over"]]
  /\ UNCHANGED screenVars

\* A read fails, or the put is refused: an audited failure.
WeighingFails(k) ==
  /\ weighing[k].kind \in {"read", "put"}
  /\ weighing' = [weighing EXCEPT ![k] = [kind |-> "over"]]
  /\ UNCHANGED <<version, config, screenVars>>

-----------------------------------------------------------------------------
\* What the API and the node do for a screen or a weight request.
Answer ==
  \/ \E e \in Editors :
       \/ \E n \in Nodes : ReadText(e, n) \/ ReadVersion(e, n) \/ FetchFails(e, n)
       \/ Valid(e) \/ NotValid(e)
       \/ ApplySucceeds(e) \/ ApplyUnanswered(e) \/ ApplyFails(e)
  \/ \E k \in Weighings : ReadServerVersion(k) \/ PutServer(k) \/ WeighingFails(k)

\* What people and other clients do, and the browser's own refetch.
Demand ==
  \/ \E e \in Editors :
       \/ Reconnect(e)
       \/ \E s \in Typed : Type(e, s)
       \/ Discard(e) \/ AskValidate(e)
       \/ OpenDialog(e) \/ CloseDialog(e) \/ Confirm(e)
       \/ \E n \in Nodes : Switch(e, n)
  \/ \E k \in Weighings, n \in Nodes : ReadServer(k, n)
  \/ \E n \in Nodes, s \in Settings : OutsideWrite(n, s)

Next == Answer \/ Demand

Spec == Init /\ [][Next]_vars

\* Every call has a timeout, so a request under way comes to an end.
FairSpec == Spec /\ WF_vars(Answer)

-----------------------------------------------------------------------------
(* Properties                                                              *)

\* A step in which the node writes the file screen e sent, or the server
\* weight request k sent.
Writes(n) == version'[n] # version[n]
Applies(e) == call[e].kind = "apply" /\ call'[e] = None /\ Writes(call[e].node)
Weighs(k) == weighing[k].kind = "put" /\ weighing'[k] # weighing[k] /\ Writes(weighing[k].node)

\* A write that changes nothing of node n but the settings it meant to edit.
Spares(n, edits) ==
  \A s \in Settings \ edits : config'[n].setting[s] = config[n].setting[s]

\* The version protects a write whose text was read at that very version: it
\* undoes nobody's change, whoever wrote in between, and on whichever node.
FreshWritesUndoNothing ==
  [][/\ \A e \in Editors :
          Applies(e) /\ call[e].text.base = call[e].version
            => Spares(call[e].node, call[e].text.edits)
     /\ \A k \in Weighings :
          Weighs(k) /\ weighing[k].text.base = weighing[k].version
            => Spares(weighing[k].node, {Weight})]_vars

\* "Any further edit re-arms the gate": an edited text that is applied is, to
\* the letter, what the node it goes to last found valid for this screen.
EditsAreValidated ==
  [][\A e \in Editors :
       Applies(e) /\ call[e].text.edits # {}
         => approved[e] = [kind |-> "valid", node |-> call[e].node,
                           text |-> call[e].text]]_vars

\* No node ever gets a configuration that was read from another node: a draft
\* does not survive a change of the node shown, whatever is in flight.
TextsStayHome == \A n \in Nodes : config[n].home = n

\* "An edit based on a stale read is refused with a 409, so a concurrent edit
\* cannot be silently overwritten" (README, "Editing configuration").
ConcurrentEditsSurvive ==
  [][\A e \in Editors :
       Applies(e) => Spares(call[e].node, call[e].text.edits)]_vars
=============================================================================
