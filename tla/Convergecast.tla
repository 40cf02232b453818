---------------------------- MODULE Convergecast ---------------------------
(***************************************************************************)
(* axl/examples/python-client/convergecast.py: the nodes of a spanning     *)
(* tree hand their data up to the root. A node waits for its children      *)
(* until a deadline, merges what came and sends it to its parent; it runs  *)
(* several sessions one after the other over one queue of its AXL node.    *)
(* Messages may be lost, and be late for the session they belong to.       *)
(***************************************************************************)
EXTENDS Naturals, FiniteSets

CONSTANTS
  Tree,        \* the nodes
  Parent(_),   \* a node's parent, Root for none
  Root,
  Sessions     \* number of sessions every node runs

ASSUME TreeAssumption ==
  /\ Root \notin Tree /\ Sessions \in Nat
  /\ \A n \in Tree : Parent(n) \in Tree \cup {Root}

VARIABLES
  session,   \* the session a node is in, or has finished
  stage,
  waiting,   \* pending: children not heard of
  merged,    \* aggregated: whose data of which session
  ended,     \* per session, what run_convergecast returned
  inbox      \* messages sent and not popped by /recv

castVars == <<session, stage, waiting, merged, ended, inbox>>

Children(n) == {c \in Tree : Parent(c) = n}

\* A node's local data of a session.
Datum == Tree \X (1 .. Sessions)

Result    == [done : BOOLEAN, success : BOOLEAN, data : SUBSET Datum]
NotCalled == [done |-> FALSE, success |-> FALSE, data |-> {}]

CastTypeOK ==
  /\ session \in [Tree -> 0 .. Sessions]
  /\ stage \in [Tree -> {"idle", "waiting", "sending"}]
  /\ waiting \in [Tree -> SUBSET Tree]
  /\ merged \in [Tree -> SUBSET Datum]
  /\ ended \in [Tree -> [1 .. Sessions -> Result]]
  /\ inbox \subseteq [to : Tree, from : Tree, session : 1 .. Sessions, data : SUBSET Datum]

CastInit ==
  /\ session = [n \in Tree |-> 0]
  /\ stage = [n \in Tree |-> "idle"]
  /\ waiting = [n \in Tree |-> {}]
  /\ merged = [n \in Tree |-> {}]
  /\ ended = [n \in Tree |-> [s \in 1 .. Sessions |-> NotCalled]]
  /\ inbox = {}

-----------------------------------------------------------------------------
\* run_convergecast with the next session id; a leaf does not wait.
Start(n) ==
  /\ stage[n] = "idle" /\ session[n] < Sessions
  /\ session' = [session EXCEPT ![n] = @ + 1]
  /\ merged' = [merged EXCEPT ![n] = {<<n, session'[n]>>}]
  /\ waiting' = [waiting EXCEPT ![n] = Children(n)]
  /\ stage' = [stage EXCEPT ![n] = IF Children(n) = {} THEN "sending" ELSE "waiting"]
  /\ UNCHANGED <<ended, inbox>>

\* Mutant: data of any session is merged.
Mut_AnySession(n, m) ==
  /\ stage[n] = "waiting" /\ waiting[n] # {}
  /\ inbox' = inbox \ {m}
  /\ IF m.from \in waiting[n]
     THEN /\ merged' = [merged EXCEPT ![n] = @ \cup m.data]
          /\ waiting' = [waiting EXCEPT ![n] = @ \ {m.from}]
     ELSE UNCHANGED <<merged, waiting>>
  /\ UNCHANGED <<session, stage, ended>>

\* The next message of the queue; what is not of this session, or of a child heard
\* already, is gone all the same.
Receive(n, m) ==
  /\ stage[n] = "waiting" /\ waiting[n] # {}
  /\ inbox' = inbox \ {m}
  /\ IF m.session = session[n] /\ m.from \in waiting[n]
     THEN /\ merged' = [merged EXCEPT ![n] = @ \cup m.data]
          /\ waiting' = [waiting EXCEPT ![n] = @ \ {m.from}]
     ELSE UNCHANGED <<merged, waiting>>
  /\ UNCHANGED <<session, stage, ended>>

\* All children are heard, or the deadline has passed.
StopWaiting(n) ==
  /\ stage[n] = "waiting"
  /\ stage' = [stage EXCEPT ![n] = "sending"]
  /\ UNCHANGED <<session, waiting, merged, ended, inbox>>

\* Unless it is the root the node sends what it has, which may fail unnoticed by
\* the result: success is about its own children only.
Finish(n) ==
  /\ stage[n] = "sending"
  /\ stage' = [stage EXCEPT ![n] = "idle"]
  /\ ended' = [ended EXCEPT ![n][session[n]] =
       [done |-> TRUE, success |-> waiting[n] = {}, data |-> merged[n]]]
  /\ \/ /\ Parent(n) # Root
        /\ inbox' = inbox \cup {[to |-> Parent(n), from |-> n, session |-> session[n],
                                 data |-> merged[n]]}
     \/ UNCHANGED inbox
  /\ UNCHANGED <<session, waiting, merged>>

CastNext ==
  \E n \in Tree :
    \/ Start(n) \/ StopWaiting(n) \/ Finish(n)
    \/ \E m \in {p \in inbox : p.to = n} : Receive(n, m)

CastSpec == CastInit /\ [][CastNext]_castVars

(***************************************************************************)
(* Properties                                                              *)
(***************************************************************************)

\* A node and everything below it: what every set has that holds the node, and
\* with a node its children.
Subtree[n \in Tree] ==
  {c \in Tree : \A S \in SUBSET Tree :
     n \in S /\ (\A p \in S : Children(p) \subseteq S) => c \in S}

\* What a node returns is data of that session from its own subtree, and complete
\* when every node of the subtree reported success: late messages of an earlier
\* session, and losses somewhere below, do not make it look so. Success of the
\* node alone does not mean it.
SuccessIsComplete ==
  \A n \in Tree, s \in 1 .. Sessions : ended[n][s].done =>
    /\ ended[n][s].data \subseteq Subtree[n] \X {s}
    /\ (\A c \in Subtree[n] : ended[c][s].success)
         => ended[n][s].data = Subtree[n] \X {s}
=============================================================================
