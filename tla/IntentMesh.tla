----------------------------- MODULE IntentMesh -----------------------------
(***************************************************************************)
(* How an intent becomes a decision: the POST handler of the Web server    *)
(* (Web/app/api/guardmesh/intent/route.ts) with its AXL bridge             *)
(* (Web/lib/axl-intent-bridge.ts, axl-verdict-spool.ts), the guardian      *)
(* listeners (guardmesh-guardian/axl-guardian-listener.js) and the AXL     *)
(* nodes between them (axl/api/send.go, axl/api/recv.go).                  *)
(*                                                                         *)
(* Every node has one receive queue. The hub's queue has two readers: the  *)
(* hub's own guardian listener, which writes the verdicts it pops to the   *)
(* spool file, and, unless the server is configured to use the spool only, *)
(* the poll loop of every request in progress.                             *)
(*                                                                         *)
(* A verdict message does not say which intent it answers. The field req   *)
(* of a verdict is a history field: no guard and no assignment of the      *)
(* code's actions depends on it, only the properties do.                   *)
(***************************************************************************)
EXTENDS ConsensusRules, Sequences, FiniteSets

CONSTANTS
  Node,           \* AXL nodes; each one has a guardian listener
  Hub,            \* the node the Web server talks to
  Peers,          \* the peer list an intent is broadcast to, in order
  Req,            \* the POST requests
  RequestModes,   \* threshold modes the requests ask for
  Ballots,        \* verdicts an evaluation may return
  SpoolOnly,      \* GUARDMESH_VERDICT_SPOOL_PATH is set
  QueueCapacity,  \* capacity of a node's receive queue (100 in recv.go)
  MaxFaults,      \* bound on failed sends, lost packets and crashes
  None

ASSUME MeshAssumption ==
  /\ Hub \in Node
  /\ Peers \in Seq(Node) /\ Len(Peers) > 0
  /\ RequestModes \subseteq Modes
  /\ Ballots \subseteq {"APPROVE", "BLOCK", "OTHER"}
  /\ SpoolOnly \in BOOLEAN
  /\ QueueCapacity \in Nat \ {0}
  /\ MaxFaults \in Nat

VARIABLES
  phase,      \* where the handler of each request is
  threshold,  \* the threshold mode each request asked for
  next,       \* index in Peers of the next send
  okPeers,    \* sends that reported success
  out,        \* verdict rows collected
  late,       \* the deadline of the poll loop has passed
  net,        \* packets written to a connection and not yet read
  queue,      \* receive queue of each node
  listener,   \* what each guardian listener is doing
  spool,      \* lines of the verdict spool file
  drain,      \* the drain of the spool in progress, between read and truncate
  cast,       \* history: every verdict message composed
  faults      \* faults that have happened

webVars  == <<phase, threshold, next, okPeers, out, late>>
nodeVars == <<net, queue, listener, cast>>
vars     == <<webVars, nodeVars, spool, drain, faults>>

Phases == {"idle", "sending", "poll", "recv", "decided", "failed"}

Intent(r, i) == [type |-> "intent", req |-> r, slot |-> i]
Verdict(g, t, v, r) ==
  [type |-> "verdict", from |-> g, ts |-> t, verdict |-> v, req |-> r]

Intents  == [type : {"intent"}, req : Req, slot : DOMAIN Peers]
Verdicts == [type : {"verdict"}, from : Node, ts : Nat, verdict : RawVerdicts,
             req : Req]
Messages == Intents \cup Verdicts

Idle     == [at |-> "idle", msg |-> None]
NotDraining == [by |-> None, rows |-> <<>>]

TypeOK ==
  /\ phase \in [Req -> Phases]
  /\ threshold \in [Req -> Modes]
  /\ next \in [Req -> Nat \ {0}]
  /\ okPeers \in [Req -> Nat]
  /\ out \in [Req -> SUBSET Verdicts]
  /\ late \in [Req -> BOOLEAN]
  /\ net \in SUBSET [to : Node, msg : Messages]
  /\ queue \in [Node -> Seq(Messages)]
  /\ listener \in [Node -> {Idle}
                    \cup [at : {"judging", "failing"}, msg : Intents]
                    \cup [at : {"spooling"}, msg : Verdicts]]
  /\ spool \in Seq(Verdicts)
  /\ drain \in [by : Req \cup {None}, rows : Seq(Verdicts)]
  /\ cast \in SUBSET Verdicts
  /\ faults \in Nat

Init ==
  /\ phase = [r \in Req |-> "idle"]
  /\ threshold \in [Req -> RequestModes]
  /\ next = [r \in Req |-> 1]
  /\ okPeers = [r \in Req |-> 0]
  /\ out = [r \in Req |-> {}]
  /\ late = [r \in Req |-> FALSE]
  /\ net = {}
  /\ queue = [g \in Node |-> <<>>]
  /\ listener = [g \in Node |-> Idle]
  /\ spool = <<>>
  /\ drain = NotDraining
  /\ cast = {}
  /\ faults = 0

-----------------------------------------------------------------------------
(***************************************************************************)
(* AXL: a send is answered before the message is read by anyone, so its    *)
(* answer says little about delivery: a dial that outlives the caller's    *)
(* timeout still delivers, and an accepted connection may still be lost.   *)
(***************************************************************************)

SendOutcomes == [ok : BOOLEAN, delivered : BOOLEAN]
Smooth == [ok |-> TRUE, delivered |-> TRUE]

\* The outcomes of a send, within the bound on faults.
Outcome(o) ==
  /\ o \in SendOutcomes
  /\ faults' = IF o = Smooth THEN faults ELSE faults + 1
  /\ faults' <= MaxFaults

Transmit(o, to, msg) ==
  net' = IF o.delivered THEN net \cup {[to |-> to, msg |-> msg]} ELSE net

\* receivedQueue.Push: a full queue drops its oldest message.
Push(q, msg) ==
  IF Len(q) >= QueueCapacity THEN Append(Tail(q), msg) ELSE Append(q, msg)

\* HandleRecv pops the oldest message, or answers 204; whoever asks first has it.
Pop(q) == Tail(q)

\* handleTCPConn reads a message and queues it: in any order between
\* connections.
Deliver(p) ==
  /\ p \in net
  /\ net' = net \ {p}
  /\ queue' = [queue EXCEPT ![p.to] = Push(@, p.msg)]
  /\ UNCHANGED <<webVars, listener, cast, spool, drain, faults>>

-----------------------------------------------------------------------------
(***************************************************************************)
(* The Web server. Node.js runs one callback at a time: while a drain is   *)
(* between its synchronous read and its synchronous truncate, no other     *)
(* step of any request happens.                                            *)
(***************************************************************************)

WebIsFree == drain.by = None

Goto(r, ph) == phase' = [phase EXCEPT ![r] = ph]

\* resolveGuardianPeerIds: the list of the environment, else the topology's with
\* the hub itself last, which is Peers; or /topology fails, or lists nobody.
PeersResolved(r) == Goto(r, "sending") \/ Goto(r, "failed")

\* POST: the intent goes to the peers resolved, or the handler answers 502.
StartRequest(r) ==
  /\ WebIsFree
  /\ phase[r] = "idle"
  /\ PeersResolved(r)
  /\ UNCHANGED <<threshold, next, okPeers, out, late, nodeVars, spool, drain, faults>>

\* One iteration of broadcastIntent's loop.
SendIntent(r, o) ==
  /\ WebIsFree
  /\ phase[r] = "sending"
  /\ next[r] <= Len(Peers)
  /\ Outcome(o)
  /\ Transmit(o, Peers[next[r]], Intent(r, next[r]))
  /\ next' = [next EXCEPT ![r] = @ + 1]
  /\ okPeers' = [okPeers EXCEPT ![r] = IF o.ok THEN @ + 1 ELSE @]
  /\ UNCHANGED <<phase, threshold, out, late, queue, listener, cast, spool, drain>>

\* After the last send: 502 when every one failed, else the poll loop.
FinishBroadcast(r) ==
  /\ WebIsFree
  /\ phase[r] = "sending"
  /\ next[r] > Len(Peers)
  /\ Goto(r, IF okPeers[r] = 0 THEN "failed" ELSE "poll")
  /\ UNCHANGED <<threshold, next, okPeers, out, late, nodeVars, spool, drain, faults>>

\* Time passes the deadline of the poll loop; the loop sees it at its top.
Expire(r) ==
  /\ phase[r] \in {"poll", "recv"}
  /\ ~late[r]
  /\ late' = [late EXCEPT ![r] = TRUE]
  /\ UNCHANGED <<phase, threshold, next, okPeers, out, nodeVars, spool, drain, faults>>

\* Mutant: the deadline missing from the loop condition.
Mut_NoDeadline(r) ==
  /\ phase[r] = "poll"
  /\ Cardinality(out[r]) < okPeers[r]

\* The condition of the poll loop.
Polling(r) ==
  /\ phase[r] = "poll"
  /\ ~late[r]
  /\ Cardinality(out[r]) < okPeers[r]

\* drainVerdictSpoolOnce: read the whole file ...
DrainRead(r) ==
  /\ WebIsFree
  /\ Polling(r)
  /\ drain' = [by |-> r, rows |-> spool]
  /\ UNCHANGED <<webVars, nodeVars, spool, faults>>

\* The first j rows are pushed onto rows already collected: the loop goes on
\* to the next row until the list is full. Pushing skips a row already seen.
FirstRows(rows, j) == {rows[k] : k \in 1 .. j}

PushedRows(seen, rows, j, limit) ==
  \/ j = 0 /\ Len(rows) = 0
  \/ /\ j \in 1 .. Len(rows)
     /\ Cardinality(seen \cup FirstRows(rows, j - 1)) < limit
     /\ \/ j = Len(rows)
        \/ Cardinality(seen \cup FirstRows(rows, j)) >= limit

\* Mutants: the file is read and never emptied; the spool-only switch ignored.
Mut_DrainWithoutTruncate(r) ==
  /\ drain.by = r
  /\ spool' = spool
  /\ \E j \in 0 .. Len(drain.rows) :
       /\ PushedRows(out[r], drain.rows, j, okPeers[r])
       /\ out' = [out EXCEPT ![r] = @ \cup FirstRows(drain.rows, j)]
  /\ Goto(r, IF SpoolOnly \/ Cardinality(out'[r]) >= okPeers[r]
             THEN "poll" ELSE "recv")
  /\ drain' = NotDraining
  /\ UNCHANGED <<threshold, next, okPeers, late, nodeVars, faults>>
Mut_AlwaysPollRecv(r) ==
  /\ drain.by = r
  /\ spool' = <<>>
  /\ \E j \in 0 .. Len(drain.rows) :
       /\ PushedRows(out[r], drain.rows, j, okPeers[r])
       /\ out' = [out EXCEPT ![r] = @ \cup FirstRows(drain.rows, j)]
  /\ Goto(r, IF Cardinality(out'[r]) >= okPeers[r] THEN "poll" ELSE "recv")
  /\ drain' = NotDraining
  /\ UNCHANGED <<threshold, next, okPeers, late, nodeVars, faults>>

\* ... then truncate it, whatever the listener appended in between, and push
\* the rows read. What the loop breaks off before is gone with the file.
DrainTruncate(r) ==
  /\ drain.by = r
  /\ spool' = <<>>
  /\ \E j \in 0 .. Len(drain.rows) :
       /\ PushedRows(out[r], drain.rows, j, okPeers[r])
       /\ out' = [out EXCEPT ![r] = @ \cup FirstRows(drain.rows, j)]
  /\ Goto(r, IF SpoolOnly \/ Cardinality(out'[r]) >= okPeers[r]
             THEN "poll" ELSE "recv")
  /\ drain' = NotDraining
  /\ UNCHANGED <<threshold, next, okPeers, late, nodeVars, faults>>

\* The poll loop pops one message of the hub's queue: a verdict is kept, any
\* other message is dropped.
PollRecv(r) ==
  /\ WebIsFree
  /\ phase[r] = "recv"
  /\ Goto(r, "poll")
  /\ \/ /\ queue[Hub] = <<>>
        /\ UNCHANGED <<queue, out>>
     \/ /\ queue[Hub] # <<>>
        /\ queue' = [queue EXCEPT ![Hub] = Pop(@)]
        /\ out' = IF Head(queue[Hub]).type = "verdict"
                  THEN [out EXCEPT ![r] = @ \cup {Head(queue[Hub])}]
                  ELSE out
  /\ UNCHANGED <<threshold, next, okPeers, late, net, listener, cast, spool, drain, faults>>

\* The loop ends; the consensus is computed and answered.
Decide(r) ==
  /\ WebIsFree
  /\ phase[r] = "poll"
  /\ ~Polling(r)
  /\ Goto(r, "decided")
  /\ UNCHANGED <<threshold, next, okPeers, out, late, nodeVars, spool, drain, faults>>

Votes(rows, class) == {v \in rows : ClassifyVote(v.verdict) = class}

CountsOf(rows) == [approve |-> Cardinality(Votes(rows, "approve")),
                   block   |-> Cardinality(Votes(rows, "block")),
                   invalid |-> Cardinality(Votes(rows, "invalid"))]

\* computeGuardmeshConsensus(verdicts, peerIds.length, { threshold })
Decision(r) == Consensus(threshold[r], CountsOf(out[r]), Len(Peers))

-----------------------------------------------------------------------------
(***************************************************************************)
(* The guardian listeners: one message at a time.                          *)
(***************************************************************************)

Become(g, state) == listener' = [listener EXCEPT ![g] = state]

\* startListening pops a message. A verdict will be spooled; an intent judged.
ListenerPop(g) ==
  /\ listener[g] = Idle
  /\ queue[g] # <<>>
  /\ LET m == Head(queue[g]) IN
       Become(g, [at |-> IF m.type = "verdict" THEN "spooling" ELSE "judging",
                  msg |-> m])
  /\ queue' = [queue EXCEPT ![g] = Pop(@)]
  /\ UNCHANGED <<webVars, net, cast, spool, drain, faults>>

\* appendStrayVerdict: one write to the file, in a process of its own.
ListenerSpool(g) ==
  /\ listener[g].at = "spooling"
  /\ spool' = Append(spool, listener[g].msg)
  /\ Become(g, Idle)
  /\ UNCHANGED <<webVars, net, queue, cast, drain, faults>>

\* The messages a guardian sends are at least a poll delay apart, so their
\* timestamps differ: the number of messages it has sent stands for one.
Timestamp(g) == Cardinality({v \in cast : v.from = g}) + 1

Send(g, o, raw) ==
  LET v == Verdict(g, Timestamp(g), raw, listener[g].msg.req) IN
  /\ cast' = cast \cup {v}
  /\ Transmit(o, Hub, v)

\* handleIntent: evaluate, then send the verdict to the requester. A send that
\* reports an error goes to the catch clause, even if it was delivered.
Judge(g, raw, o) ==
  /\ listener[g].at = "judging"
  /\ Outcome(o)
  /\ Send(g, o, raw)
  /\ Become(g, IF o.ok THEN Idle ELSE [listener[g] EXCEPT !.at = "failing"])
  /\ UNCHANGED <<webVars, queue, spool, drain>>

\* Mutant: the catch clause sends the verdict again.
Mut_ResendVerdict(g, o) ==
  /\ listener[g].at = "failing"
  /\ Outcome(o)
  /\ \E raw \in Ballots : Send(g, o, raw)
  /\ Become(g, Idle)
  /\ UNCHANGED <<webVars, queue, spool, drain>>

\* The catch clause sends a second verdict, ERROR, and ignores its own failure.
SendErrorVerdict(g, o) ==
  /\ listener[g].at = "failing"
  /\ Outcome(o)
  /\ Send(g, o, "ERROR")
  /\ Become(g, Idle)
  /\ UNCHANGED <<webVars, queue, spool, drain>>

\* The listener process dies and is started again: what it held is lost.
ListenerRestart(g) ==
  /\ listener[g] # Idle
  /\ faults < MaxFaults
  /\ faults' = faults + 1
  /\ Become(g, Idle)
  /\ UNCHANGED <<webVars, net, queue, cast, spool, drain>>

-----------------------------------------------------------------------------
WebStep(r) ==
  \/ StartRequest(r)
  \/ \E o \in SendOutcomes : SendIntent(r, o)
  \/ FinishBroadcast(r)
  \/ DrainRead(r)
  \/ DrainTruncate(r)
  \/ PollRecv(r)
  \/ Decide(r)

ListenerStep(g) ==
  \/ ListenerPop(g)
  \/ ListenerSpool(g)
  \/ \E raw \in Ballots, o \in SendOutcomes : Judge(g, raw, o)
  \/ \E o \in SendOutcomes : SendErrorVerdict(g, o)

Next ==
  \/ \E r \in Req : WebStep(r) \/ Expire(r)
  \/ \E g \in Node : ListenerStep(g) \/ ListenerRestart(g)
  \/ \E p \in net : Deliver(p)

Spec == Init /\ [][Next]_vars

\* The event loop of the server and the loops of the listeners keep running,
\* time passes, and TCP delivers what it accepted.
Fairness ==
  /\ \A r \in Req : WF_vars(WebStep(r) /\ phase[r] # "idle") /\ WF_vars(Expire(r))
  /\ \A g \in Node : WF_vars(ListenerStep(g))
  /\ WF_vars(\E p \in net : Deliver(p))

-----------------------------------------------------------------------------
(***************************************************************************)
(* Properties                                                              *)
(***************************************************************************)

Executes(r) == phase[r] = "decided" /\ Decision(r).execute

\* Under phase5 and unanimous, nothing executes unless every single send
\* reported success and as many rows as guardians were collected: a guardian
\* that could not be reached is never outvoted by those that could.
StrictModesNeedEveryGuardian ==
  \A r \in Req :
    Executes(r) /\ threshold[r] \in {"phase5", "unanimous"}
      => okPeers[r] = Len(Peers) /\ Cardinality(out[r]) = Len(Peers)

\* Whatever the poll loop lost, took twice or took late, more than half of the
\* guardians addressed are matched by an APPROVE row behind an execution.
ExecuteBackedByRows ==
  \A r \in Req :
    Executes(r) /\ threshold[r] # "any"
      => 2 * Cardinality(Votes(out[r], "approve")) > Len(Peers)

\* A verdict message is counted for at most one request, however the two
\* readers of the hub's queue and the drains of the spool interleave.
NoVerdictCountedTwice ==
  \A r, s \in Req : r # s => out[r] \cap out[s] = {}

Approvers(r) ==
  {v.from : v \in {w \in Votes(out[r], "approve") : w.req = r}}

\* With a single request about, the rows behind an execution come from more
\* than half of the guardians, each of which approved this very intent: a
\* guardian that sent two verdicts for it is never counted as two.
ExecuteBackedByGuardians ==
  \A r \in Req :
    Executes(r) /\ threshold[r] # "any"
      => 2 * Cardinality(Approvers(r)) > Len(Peers)

\* Every request is answered, whatever is lost on the way.
EveryRequestAnswered ==
  \A r \in Req : phase[r] = "sending" ~> phase[r] \in {"decided", "failed"}

Queued(g, r) == \E k \in DOMAIN queue[g] :
                  queue[g][k].type = "intent" /\ queue[g][k].req = r
Judged(g, r) == \E v \in cast : v.from = g /\ v.req = r

\* As long as nothing fails, an intent that reached the queue of a guardian's
\* node is judged by that guardian.
EveryQueuedIntentJudged ==
  \A g \in Node, r \in Req : Queued(g, r) ~> Judged(g, r) \/ faults > 0

\* The decision reads "all guardians APPROVE" only if each of them approved
\* this intent.
UnanimousMeansAllApproved ==
  \A r \in Req :
    phase[r] = "decided" /\ Decision(r).outcome = "approved_unanimous"
      => \A i \in DOMAIN Peers : Peers[i] \in Approvers(r)
=============================================================================
