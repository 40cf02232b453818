----------------------------- MODULE AxlServices -----------------------------
(***************************************************************************)
(* Requests of one AXL node to the services of another: api/mcp.go and     *)
(* api/a2a.go on the asking side, the listener with its streams on the     *)
(* serving side, and behind it the MCP router and the A2A server in front  *)
(* of that. Every hop has a timeout of its own and goes on when the hop    *)
(* before it has given up. A request dials a connection of its own and     *)
(* sends one message; a connection of another program carries any number.  *)
(***************************************************************************)
EXTENDS Naturals, FiniteSets

CONSTANTS
  Request,
  Service,     \* names of MCP services
  NoService,
  MaxConns,    \* MaxConcurrentConns
  Streams,     \* streams the serving node is configured with
  MaxChanges   \* bound on registrations and deregistrations

ASSUME ServicesAssumption ==
  /\ MaxConns \in Nat \ {0} /\ MaxChanges \in Nat
  /\ Streams \subseteq {"mcp", "a2a"}

VARIABLES
  sessions,  \* mcpSessions: the initialize requests that made them
  client,    \* the handler of the HTTP request, on the asking node
  conn,      \* handleTCPConn, on the serving node
  forward,   \* the stream's Forward
  task,      \* the A2A server's task
  route,     \* the router's handle_route
  services,  \* of the router: the registration of each, and healthy
  changes,
  served     \* history: requests an MCP service answered well

axlVars == <<sessions, client, conn, forward, task, route, services, changes, served>>

\* "peer" is a connection of some other program: at a time it is silent, talks (it
\* sends messages and reads what comes back), or is deaf (it sends and reads nothing).
Kind == {"mcp", "a2a", "card", "peer"}

StreamOf(kind) == IF kind = "card" THEN "a2a" ELSE kind

\* "waiting" is a silent peer too, and "error" one that has gone.
Asking == {"idle", "waiting", "talks", "deaf", "ok", "error"}

NoClient == [pc |-> "idle", kind |-> "peer", service |-> NoService]
NoRoute  == [pc |-> "none", reg |-> 0, gone |-> 0]
NotListed == [reg |-> 0, healthy |-> FALSE, gone |-> 0]

\* gone counts deregistrations of the name.
AxlTypeOK ==
  /\ sessions \subseteq Request
  /\ client \in [Request -> [pc : Asking, kind : Kind, service : Service \cup {NoService}]]
  /\ conn \in [Request -> {"none", "dialing", "reading", "forwarding", "stuck", "again", "closed"}]
  /\ forward \in [Request -> {"none", "waiting", "ok", "error"}]
  /\ task \in [Request -> {"none", "working", "completed", "failed"}]
  /\ route \in [Request -> [pc : {"none", "asked", "ok", "error", "crashed"},
                            reg : 0 .. MaxChanges, gone : 0 .. MaxChanges]]
  /\ services \in [Service -> [reg : 0 .. MaxChanges, healthy : BOOLEAN,
                              gone : 0 .. MaxChanges]]
  /\ changes \in 0 .. MaxChanges
  /\ served \subseteq Request

\* SetupNetworkStack has made the slots and started the listener; nothing is
\* connected, and nothing is registered with the router.
AxlInit ==
  /\ sessions = {}
  /\ client = [r \in Request |-> NoClient]
  /\ conn = [r \in Request |-> "none"]
  /\ forward = [r \in Request |-> "none"]
  /\ task = [r \in Request |-> "none"]
  /\ route = [r \in Request |-> NoRoute]
  /\ services = [s \in Service |-> NotListed]
  /\ changes = 0
  /\ served = {}

-----------------------------------------------------------------------------
(* The asking node                                                         *)

Dials(r, kind, s) ==
  /\ client' = [client EXCEPT ![r] = [pc |-> "waiting", kind |-> kind, service |-> s]]
  /\ conn' = [conn EXCEPT ![r] = "dialing"]

\* Requests whose connection holds a slot of the serving node.
Held == {r \in Request : conn[r] \in {"reading", "forwarding", "stuck", "again"}}

\* POST /mcp: initialize makes a session, whatever becomes of it; another method
\* may name a session, which must still be one.
PostMcp(r, s) ==
  /\ client[r].pc = "idle"
  /\ \/ Dials(r, "mcp", s) /\ sessions' \in {sessions, sessions \cup {r}}
     \/ /\ client' = [client EXCEPT ![r] = [pc |-> "error", kind |-> "mcp", service |-> s]]
        /\ UNCHANGED <<sessions, conn>>
  /\ UNCHANGED <<forward, task, route, services, changes, served>>

\* DELETE /mcp
DeleteSession ==
  /\ \E q \in sessions : sessions' = sessions \ {q}
  /\ UNCHANGED <<client, conn, forward, task, route, services, changes, served>>

\* POST and GET /a2a, and connections of others.
Ask(r, kind, s) ==
  /\ client[r].pc = "idle"
  /\ Dials(r, kind, s)
  /\ UNCHANGED <<sessions, forward, task, route, services, changes, served>>

ClientGets(r, pc) ==
  /\ client[r].pc = "waiting"
  /\ client' = [client EXCEPT ![r].pc = pc]
  /\ UNCHANGED <<sessions, conn, forward, task, route, services, changes, served>>

\* The read deadline set when the peer was dialed, or a peer that goes away.
ClientTimesOut(r) == conn[r] # "dialing" /\ ClientGets(r, "error")

\* Another program does as it likes with its connection.
PeerTurns(r) ==
  /\ client[r].kind = "peer" /\ client[r].pc \in {"waiting", "talks", "deaf"}
  /\ r \in Held
  /\ \E pc \in {"waiting", "talks", "deaf", "error"} \ {client[r].pc} :
       client' = [client EXCEPT ![r].pc = pc]
  /\ UNCHANGED <<sessions, conn, forward, task, route, services, changes, served>>

-----------------------------------------------------------------------------
(* The listener                                                            *)

ConnGoesTo(r, pc) ==
  /\ conn' = [conn EXCEPT ![r] = pc]
  /\ UNCHANGED <<sessions, task, route, services, changes, served>>

\* No peer at that address.
DialFails(r) ==
  /\ conn[r] = "dialing"
  /\ client' = [client EXCEPT ![r].pc = "error"]
  /\ ConnGoesTo(r, "closed") /\ UNCHANGED forward

\* Beyond the limit the connection is closed; the asker's read ends at once.
Accept(r) ==
  /\ conn[r] = "dialing"
  /\ IF Cardinality(Held) < MaxConns
     THEN ConnGoesTo(r, "reading") /\ UNCHANGED client
     ELSE ConnGoesTo(r, "closed") /\ client' = [client EXCEPT ![r].pc = "error"]
  /\ UNCHANGED forward

\* Streams that may take a message of that kind; another program's is any message.
Takers(kind) == IF kind = "peer" THEN Streams ELSE Streams \cap {StreamOf(kind)}

\* The loop reads a message, which goes to the first stream that allows it, or to
\* the queue of /recv; then the next one is awaited.
ReadMessage(r) ==
  /\ conn[r] \in {"reading", "again"}
  /\ IF client[r].kind = "peer" THEN client[r].pc \in {"talks", "deaf"} ELSE conn[r] = "reading"
  /\ \/ /\ Takers(client[r].kind) # {}
        /\ ConnGoesTo(r, "forwarding") /\ forward' = [forward EXCEPT ![r] = "waiting"]
     \/ /\ Takers(client[r].kind) = {} \/ client[r].kind = "peer"
        /\ ConnGoesTo(r, "again") /\ UNCHANGED forward
  /\ UNCHANGED client

\* What the asker reads from the connection; a client that left misses it. An
\* error of the router is a JSON-RPC error with status 200, of A2A a 502.
Answered(r, what) ==
  client' = IF client[r].kind # "peer" /\ client[r].pc = "waiting"
            THEN [client EXCEPT ![r].pc = what] ELSE client

\* The stream's answer goes back on the connection. The write has no deadline: to
\* a peer that does not read it may block.
Respond(r) ==
  /\ conn[r] = "forwarding" /\ forward[r] \in {"ok", "error"}
  /\ \/ Answered(r, forward[r]) /\ ConnGoesTo(r, "again")
     \/ client[r].pc = "deaf" /\ ConnGoesTo(r, "stuck") /\ UNCHANGED client
  /\ UNCHANGED forward

\* The peer reads again, or is gone and the write fails, which is only logged.
WriteEnds(r) ==
  /\ conn[r] = "stuck" /\ client[r].pc # "deaf"
  /\ ConnGoesTo(r, "again") /\ UNCHANGED <<client, forward>>

\* Mutant: only the other side ends a connection.
Mut_NoIdleTimeout(r) ==
  /\ conn[r] \in {"reading", "again"}
  /\ client[r].pc \notin {"waiting", "talks", "deaf"}
  /\ ConnGoesTo(r, "closed") /\ UNCHANGED <<client, forward>>

\* End of file, a message too large, or nothing read since the loop last turned for
\* too long; an asker that still waits gets no answer.
HandlerEnds(r) ==
  /\ conn[r] \in {"reading", "again"}
  /\ Answered(r, "error")
  /\ ConnGoesTo(r, "closed") /\ UNCHANGED forward

-----------------------------------------------------------------------------
(* The streams and the A2A server                                          *)

Forwarded(r, what) ==
  /\ forward[r] = "waiting"
  /\ forward' = [forward EXCEPT ![r] = what]
  /\ UNCHANGED <<sessions, client, conn, task, route, services, changes, served>>

\* The stream's HTTP client waits 30 s, and so do the others.
StreamTimesOut(r) == Forwarded(r, "error")

\* What becomes of another program's request, which may be to any service.
PeerServed(r) ==
  /\ client[r].kind = "peer" /\ forward[r] = "waiting"
  /\ \E what \in {"ok", "error"} : forward' = [forward EXCEPT ![r] = what]
  /\ \/ UNCHANGED services
     \/ \E s \in Service : /\ services[s].reg # 0
                          /\ \E b \in BOOLEAN : services' = [services EXCEPT ![s].healthy = b]
  /\ UNCHANGED <<sessions, client, conn, task, route, changes, served>>

CardFetched(r) == client[r].kind = "card" /\ Forwarded(r, "ok")

\* What the router did not answer as promised cannot be parsed.
RouterAnswered(r) ==
  /\ client[r].kind = "mcp"
  /\ \/ route[r].pc = "ok" /\ Forwarded(r, "ok")
     \/ route[r].pc \in {"error", "crashed"} /\ Forwarded(r, "error")

TaskGoesTo(r, state) ==
  /\ task' = [task EXCEPT ![r] = state]
  /\ UNCHANGED <<sessions, client, conn, forward, route, services, changes, served>>

TaskStarts(r) ==
  /\ client[r].kind = "a2a" /\ forward[r] = "waiting" /\ task[r] = "none"
  /\ \/ TaskGoesTo(r, "working")
     \/ TaskGoesTo(r, "failed")   \* no service in the message

TaskEnds(r) ==
  /\ task[r] = "working"
  /\ \/ route[r].pc = "ok" /\ TaskGoesTo(r, "completed")
     \/ TaskGoesTo(r, "failed")   \* an error, or its own timeout

\* A task that failed is an answer like any other.
TaskAnswered(r) == task[r] \in {"completed", "failed"} /\ Forwarded(r, "ok")

-----------------------------------------------------------------------------
(* The router                                                              *)

Routes(r, pc) ==
  /\ route' = [route EXCEPT ![r].pc = pc]
  /\ UNCHANGED <<sessions, client, conn, forward, task, changes>>

RouterTakes(r) ==
  LET s == client[r].service IN
  /\ route[r].pc = "none"
  /\ \/ client[r].kind = "mcp" /\ forward[r] # "none"
     \/ task[r] = "working"
  /\ IF services[s].reg = 0 THEN Routes(r, "error")
     ELSE /\ route' = [route EXCEPT ![r] = [pc |-> "asked", reg |-> services[s].reg,
                                            gone |-> services[s].gone]]
          /\ UNCHANGED <<sessions, client, conn, forward, task, changes>>
  /\ UNCHANGED <<services, served>>

\* Mutant: a registration that changed meanwhile counts as gone.
Mut_NotesSameOnly(r, healthy, pc) ==
  LET s == client[r].service IN
  IF services[s].reg # route[r].reg THEN Routes(r, "crashed") /\ UNCHANGED services
  ELSE Routes(r, pc) /\ services' = [services EXCEPT ![s].healthy = healthy]

\* services[name]["healthy"] after the await, whoever is registered by then; a
\* name that is gone is a KeyError and the router answers 500 with no JSON.
Notes(r, healthy, pc) ==
  LET s == client[r].service IN
  IF services[s].reg = 0 THEN Routes(r, "crashed") /\ UNCHANGED services
  ELSE Routes(r, pc) /\ services' = [services EXCEPT ![s].healthy = healthy]

\* Mutant: the status of the service's answer is not looked at.
Mut_AnyStatusIsOk(r) ==
  /\ route[r].pc = "asked"
  /\ \/ Notes(r, TRUE, "ok") /\ served' \in {served, served \cup {r}}
     \/ Notes(r, FALSE, "error") /\ UNCHANGED served

\* The service answers with a result, with 204, with another status, or not in
\* time. 204 leaves the entry alone.
ServiceAnswers(r) ==
  /\ route[r].pc = "asked"
  /\ \/ Notes(r, TRUE, "ok") /\ served' = served \cup {r}
     \/ Routes(r, "ok") /\ served' = served \cup {r} /\ UNCHANGED services
     \/ Notes(r, FALSE, "error") /\ UNCHANGED served

\* POST /register replaces an entry of that name.
Register(s) ==
  /\ changes < MaxChanges /\ changes' = changes + 1
  /\ services' = [services EXCEPT ![s].reg = changes', ![s].healthy = TRUE]
  /\ UNCHANGED <<sessions, client, conn, forward, task, route, served>>

Deregister(s) ==
  /\ services[s].reg # 0
  /\ changes < MaxChanges /\ changes' = changes + 1
  /\ services' = [services EXCEPT ![s].reg = 0, ![s].gone = @ + 1]
  /\ UNCHANGED <<sessions, client, conn, forward, task, route, served>>

-----------------------------------------------------------------------------
HandlerStep(r) ==
  ReadMessage(r) \/ Respond(r) \/ WriteEnds(r) \/ HandlerEnds(r) \/ StreamTimesOut(r)

AxlNext ==
  \/ DeleteSession
  \/ \E r \in Request :
       \/ \E s \in Service : PostMcp(r, s) \/ Ask(r, "a2a", s)
       \/ Ask(r, "card", NoService) \/ Ask(r, "peer", NoService)
       \/ ClientTimesOut(r) \/ PeerTurns(r) \/ DialFails(r) \/ Accept(r) \/ HandlerStep(r)
       \/ PeerServed(r) \/ CardFetched(r) \/ RouterAnswered(r)
       \/ TaskStarts(r) \/ TaskEnds(r) \/ TaskAnswered(r)
       \/ RouterTakes(r) \/ ServiceAnswers(r)
  \/ \E s \in Service : Register(s) \/ Deregister(s)

\* The listener's timers; nothing is assumed of the peers and the services.
AxlFairness == \A r \in Request : WF_axlVars(HandlerStep(r))

AxlSpec == AxlInit /\ [][AxlNext]_axlVars /\ AxlFairness

(***************************************************************************)
(* Properties                                                              *)
(***************************************************************************)

\* A result the asker is given was made by the service it asked, under a
\* registration in force when the router took the request; an A2A task is
\* completed only so. Timeouts of the hops between, which leave requests that
\* nobody waits for, do not change that.
ResultIsServed ==
  \A r \in Request :
    /\ client[r].kind = "mcp" /\ client[r].pc = "ok" => r \in served /\ route[r].reg # 0
    /\ task[r] = "completed" => r \in served /\ route[r].reg # 0

\* An answer is only lost to a deregistration: a service that registers anew
\* while it is being asked, at another endpoint say, still gets its answer through.
LostOnlyIfGone ==
  \A r \in Request : route[r].pc = "crashed" =>
    services[client[r].service].gone > route[r].gone

\* What the router answers was made by the service asked, and what it cannot answer
\* was lost to a deregistration.
AnswersAccountedFor == ResultIsServed /\ LostOnlyIfGone

\* A connection that keeps its slot for good does so because its peer never stops
\* sending messages, or time and again is not reading an answer that is being
\* written: a peer that falls silent or goes away and a service that never answers
\* cost a slot only for a time. The code bounds neither of the two.
SlotsComeBack ==
  \A r \in Request :
    \/ []<>(r \notin Held)
    \/ []<><<ReadMessage(r)>>_axlVars
    \/ []<>(conn[r] = "stuck" /\ client[r].pc = "deaf")
=============================================================================
