------------------------------ MODULE Windows ------------------------------
(***************************************************************************)
(* What timed maintenance promises (maintenance.py; README, "Timed         *)
(* maintenance windows"), whatever requests, cycles, outages and crashes   *)
(* it takes, and however changes of one server overlap: a change that is   *)
(* answered has ended every window that was open on its server when it was *)
(* sent, and may open one of its own; a window ends otherwise only once    *)
(* its server has left the state the window put it in, or is doubted to be *)
(* in it, or together with its node; and a window that has ended is never  *)
(* opened again.  A window is named by the change that opened it.          *)
(***************************************************************************)
CONSTANTS
  Nodes,
  Servers,
  NodeOf,    \* the node of each server
  Changes    \* the changes that may ever be asked for

VARIABLES
  server,    \* the server of each change
  before,    \* the windows open on its server when a change was sent
  asked,     \* the changes under way
  settled,   \* the changes that are over, answered or not
  open,      \* the windows that are open
  ended,     \* the windows that have ended
  left,      \* windows whose server has left the state they put it in
  doubted,   \* windows whose server was seen as if it had left it
  gone       \* the nodes that have been deleted
changeVars == <<server, before, asked, settled>>
vars == <<changeVars, open, ended, left, doubted, gone>>

OpenOn(s) == {w \in open : server[w] = s}

Init ==
  /\ server \in [Changes -> Servers]
  /\ before = [c \in Changes |-> {}]
  /\ asked = {}
  /\ settled = {}
  /\ open = {}
  /\ ended = {}
  /\ left = {}
  /\ doubted = {}
  /\ gone = {}

\* A change of s is sent.
Send(c, s) ==
  /\ c \notin asked \cup settled
  /\ server' = [server EXCEPT ![c] = s]
  /\ before' = [before EXCEPT ![c] = OpenOn(s)]
  /\ asked' = asked \cup {c}
  /\ UNCHANGED <<settled, open, ended, left, doubted, gone>>

\* It is answered: with a window of its own (new = {c}) or without, and with
\* the windows it found on its server ended, those that were open when it was
\* sent among them.  It may miss one that was opened meanwhile.
Answer(c, found, new) ==
  /\ c \in asked
  /\ before[c] \cap open \subseteq found
  /\ new # {} => NodeOf[server[c]] \notin gone
  /\ asked' = asked \ {c}
  /\ settled' = settled \cup {c}
  /\ open' = (open \ found) \cup new
  /\ ended' = ended \cup found
  /\ UNCHANGED <<server, before, left, doubted, gone>>

\* Changes end without an answer, and change no window.
GiveUp(C) ==
  /\ C \subseteq asked
  /\ asked' = asked \ C
  /\ settled' = settled \cup C
  /\ UNCHANGED <<server, before, open, ended, left, doubted, gone>>

\* Something happens to the servers of these windows.
Happen(L, D) ==
  /\ left' = left \cup L
  /\ doubted' = doubted \cup D
  /\ UNCHANGED <<changeVars, open, ended, gone>>

\* A sweep releases windows that have left their state, or seem to have.
Release(W) ==
  /\ W \subseteq open \cap (left \cup doubted)
  /\ open' = open \ W
  /\ ended' = ended \cup W
  /\ UNCHANGED <<changeVars, left, doubted, gone>>

DeleteNode(n) ==
  LET windows == {w \in open : NodeOf[server[w]] = n} IN
  /\ n \notin gone
  /\ gone' = gone \cup {n}
  /\ open' = open \ windows
  /\ ended' = ended \cup windows
  /\ UNCHANGED <<changeVars, left, doubted>>

Next ==
  \/ \E c \in Changes :
       \/ \E s \in Servers : Send(c, s)
       \/ \E found \in SUBSET OpenOn(server[c]), new \in {{}, {c}} :
            Answer(c, found, new)
  \/ \E C \in SUBSET Changes : GiveUp(C)
  \/ \E L, D \in SUBSET Changes : Happen(L, D)
  \/ \E W \in SUBSET open : Release(W)
  \/ \E n \in Nodes : DeleteNode(n)

Spec == Init /\ [][Next]_vars
=============================================================================
