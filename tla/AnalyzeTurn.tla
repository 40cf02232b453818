----------------------------- MODULE AnalyzeTurn -----------------------------
(***************************************************************************)
(* The chat of the dashboard's analysis page (Web/app/home/analyze/        *)
(* page.tsx): a message is put to the guardians as an intent, then the     *)
(* server's tool runs (Web/app/api/guardmesh/run), then OpenClaw words the *)
(* reply if the channel's guard lets it. The form stays open during a turn *)
(* and the page may be left; the tools' routes outlive the requests. The   *)
(* chat's texts are left out, and of the mesh there is only its answer.    *)
(***************************************************************************)
EXTENDS ChannelGuard, MeshAnswer, Sequences

CONSTANTS
  Agent,       \* the agents loaded for the wallet
  First,       \* the first of them
  Kinds(_),    \* an agent's gate actions in GATE_ACTIONS order, none if inactive
  Path,        \* workspace paths
  Message,     \* channel contexts tried
  RawPolicy,   \* the configurations of the channel tried
  Turn

Kind == {"code_analysis", "query_db", "read_file"}

\* The channel context of a page nobody has touched.
NoContext == [user |-> None, group |-> None, mentioned |-> TRUE]

ASSUME TurnAssumption ==
  /\ First \in Agent
  /\ \A a \in Agent : Kinds(a) \in Seq(Kind)
  /\ NoContext \in Message /\ None \notin Message

VARIABLES
  form,     \* what the page shows: agent, kind of work, path, channel context
  running,  \* gatedRunning
  turn,
  route,    \* the server's tool call of each turn
  store,    \* byAgent of guardmesh-openclaw-analysis-store.ts: the turn stored
  allowed,  \* history: the intents the mesh allowed
  ran,      \* history: the tool calls that were carried out
  replied,  \* history: the contexts of the messages OpenClaw was asked to answer
  channel   \* the operator's configuration of the channel, in the environment

turnVars == <<form, running, turn, route, store, allowed, ran, replied, channel>>

Work     == [agent : Agent, kind : Kind, path : Path \cup {None}]
Allows(kinds, k) == \E i \in DOMAIN kinds : kinds[i] = k
NoTurn == [pc |-> "idle", work |-> None, message |-> None, mounted |-> FALSE]

TurnTypeOK ==
  /\ form \in [agent : Agent, kind : Kind, path : Path \cup {None}, message : Message]
  /\ running \in BOOLEAN
  /\ turn \in [Turn -> [pc : {"idle", "intent", "tool", "wait", "reply", "done"},
                        work : Work \cup {None}, message : Message \cup {None},
                        mounted : BOOLEAN]]
  /\ route \in [Turn -> {"none", "running", "ok", "failed"}]
  /\ store \in [Agent -> Turn \cup {None}]
  /\ allowed \subseteq Work
  /\ ran \subseteq Work
  /\ replied \subseteq Message \cup {None}
  /\ channel \in RawPolicy

\* The page shows agent a; its kind of work is the agent's first, or left as it was.
Shows(a, kind, m) ==
  [agent |-> a, kind |-> IF Kinds(a) = <<>> THEN kind ELSE Head(Kinds(a)),
   path |-> None, message |-> m]

TurnInit ==
  /\ form = Shows(First, "code_analysis", NoContext)
  /\ running = FALSE
  /\ turn = [t \in Turn |-> NoTurn]
  /\ route = [t \in Turn |-> "none"]
  /\ store = [a \in Agent |-> None]
  /\ allowed = {} /\ ran = {} /\ replied = {}
  /\ channel \in RawPolicy

-----------------------------------------------------------------------------
(* The form, open also while a turn runs, but for its text                 *)

Edit ==
  /\ \/ \E a \in Agent \ {form.agent} : form' = Shows(a, form.kind, form.message)
     \/ \E k \in Kind : Allows(Kinds(form.agent), k) /\ form' = [form EXCEPT !.kind = k]
     \/ \E p \in Path \cup {None} : form.kind # "query_db" /\ form' = [form EXCEPT !.path = p]
     \/ \E m \in Message : form' = [form EXCEPT !.message = m]
  /\ UNCHANGED <<running, turn, route, store, allowed, ran, replied, channel>>

\* Another page and back: turns that are out go on, and their page is gone.
Leave ==
  /\ form' = Shows(First, "code_analysis", NoContext)
  /\ running' = FALSE
  /\ turn' = [t \in Turn |-> [turn[t] EXCEPT !.mounted = FALSE]]
  /\ UNCHANGED <<route, store, allowed, ran, replied, channel>>

-----------------------------------------------------------------------------
(* executeGatedTurn, which keeps the values of the render it was called in *)

\* setGatedRunning(false) of a page that is gone reaches nobody.
Ends(t) ==
  /\ turn' = [turn EXCEPT ![t].pc = "done"]
  /\ running' = IF turn[t].mounted THEN FALSE ELSE running

GoesOn(t, pc) == turn' = [turn EXCEPT ![t].pc = pc] /\ UNCHANGED running

\* Mutant: no channel context goes with the message.
Mut_SendNoContext(t) ==
  /\ turn[t].pc = "idle" /\ ~running
  /\ Allows(Kinds(form.agent), form.kind)
  /\ form.kind = "read_file" => form.path # None
  /\ turn' = [turn EXCEPT ![t] =
       [pc |-> "intent", message |-> None, mounted |-> TRUE,
        work |-> [agent |-> form.agent, kind |-> form.kind, path |-> form.path]]]
  /\ running' = TRUE
  /\ UNCHANGED <<form, route, store, allowed, ran, replied, channel>>

Send(t) ==
  /\ turn[t].pc = "idle" /\ ~running
  /\ Allows(Kinds(form.agent), form.kind)
  /\ form.kind = "read_file" => form.path # None
  /\ turn' = [turn EXCEPT ![t] =
       [pc |-> "intent", message |-> form.message, mounted |-> TRUE,
        work |-> [agent |-> form.agent, kind |-> form.kind, path |-> form.path]]]
  /\ running' = TRUE
  /\ UNCHANGED <<form, route, store, allowed, ran, replied, channel>>

\* What the mesh is told of the work: code analysis names no path.
IntentOf(w) == [w EXCEPT !.path = IF w.kind = "read_file" THEN @ ELSE None]

\* meshAllowsExecute; the retrieval of the bundle in between only adds to the chat.
TurnHears(t, ans) ==
  /\ turn[t].pc = "intent"
  /\ IF Executes(ans)
     THEN GoesOn(t, "tool") /\ allowed' = allowed \cup {IntentOf(turn[t].work)}
     ELSE Ends(t) /\ UNCHANGED allowed
  /\ UNCHANGED <<form, route, store, ran, replied, channel>>

\* Mutant: the work is read off the form again when the tool is called.
Mut_CallToolOfForm(t) ==
  /\ turn[t].pc = "tool"
  /\ turn' = [turn EXCEPT ![t].pc = "wait",
       ![t].work = [agent |-> form.agent, kind |-> form.kind, path |-> form.path]]
  /\ \E r \in {"running", "failed"} : route' = [route EXCEPT ![t] = r]
  /\ UNCHANGED <<form, running, store, allowed, ran, replied, channel>>

\* The route may refuse the request: assertToolAuthorized, a missing key, a path
\* outside the workspace.
CallTool(t) ==
  /\ turn[t].pc = "tool"
  /\ GoesOn(t, "wait")
  /\ \E r \in {"running", "failed"} : route' = [route EXCEPT ![t] = r]
  /\ UNCHANGED <<form, store, allowed, ran, replied, channel>>

ToolAnswered(t) ==
  /\ turn[t].pc = "wait" /\ route[t] \in {"ok", "failed"}
  /\ IF route[t] = "ok" THEN GoesOn(t, "reply") ELSE Ends(t)
  /\ UNCHANGED <<form, route, store, allowed, ran, replied, channel>>

\* AbortSignal.timeout, or the connection fails; the server is not told.
TurnTimesOut(t) ==
  /\ turn[t].pc \in {"intent", "wait"}
  /\ Ends(t)
  /\ UNCHANGED <<form, route, store, allowed, ran, replied, channel>>

\* POST run/openclaw-agent: a message without a context is not guarded, but the
\* page always sends one. When OpenClaw is not asked, or fails, the page falls
\* back on the tool's own result.
Worded(t) ==
  LET m == turn[t].message IN
  replied' = IF m = None \/ Guard(Coerce(channel), m) THEN replied \cup {m} ELSE replied

\* Mutant: the release is forgotten when OpenClaw worded the reply.
Mut_ReplyKeepsRunning(t) ==
  /\ turn[t].pc = "reply"
  /\ turn' = [turn EXCEPT ![t].pc = "done"]
  /\ Worded(t)
  /\ running' = IF replied' # replied THEN running ELSE FALSE
  /\ UNCHANGED <<form, route, store, allowed, ran, channel>>

Reply(t) ==
  /\ turn[t].pc = "reply"
  /\ Ends(t)
  /\ Worded(t)
  /\ UNCHANGED <<form, route, store, allowed, ran, channel>>

TurnStep(t) ==
  \/ (\E ans \in Answer : TurnHears(t, ans)) \/ CallTool(t) \/ ToolAnswered(t)
  \/ TurnTimesOut(t) \/ Reply(t)

\* The server: code analysis is stored for the dashboard once it is done.
RouteEnds(t) ==
  /\ route[t] = "running"
  /\ \/ /\ route' = [route EXCEPT ![t] = "ok"]
        /\ ran' = ran \cup {turn[t].work}
        /\ store' = IF turn[t].work.kind = "code_analysis"
                    THEN [store EXCEPT ![turn[t].work.agent] = t] ELSE store
     \/ route' = [route EXCEPT ![t] = "failed"] /\ UNCHANGED <<ran, store>>
  /\ UNCHANGED <<form, running, turn, allowed, replied, channel>>

TurnNext ==
  \/ Edit \/ Leave
  \/ \E t \in Turn : Send(t) \/ TurnStep(t) \/ RouteEnds(t)

TurnFairness == \A t \in Turn : WF_turnVars(TurnStep(t))

TurnSpec == TurnInit /\ [][TurnNext]_turnVars /\ TurnFairness

(***************************************************************************)
(* Properties                                                              *)
(***************************************************************************)

\* Whatever becomes of the form meanwhile, a tool only does what the guardians
\* allowed: the kind of work of the agent they were asked about and, when a file
\* is read, that file. The same of the analyses the dashboard keeps.
ToolRunsAsApproved ==
  /\ \A w \in ran : IntentOf(w) \in allowed
  /\ \A a \in Agent : store[a] # None =>
       /\ turn[store[a]].work.agent = a
       /\ [agent |-> a, kind |-> "code_analysis", path |-> None] \in allowed

\* OpenClaw is asked to answer only messages whose context came with them and
\* which the operator's configuration admits, whatever is missing from that, wrong
\* or contradictory, and whatever became of the form since the message was sent.
ReplyAdmitted == \A m \in replied : m # None /\ Admits(channel, m)

\* The composer is released: a turn that fails, times out or is left behind does
\* not leave gatedRunning set.
ComposerComesBack == running ~> ~running
=============================================================================
