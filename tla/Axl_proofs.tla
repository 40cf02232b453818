---------------------------- MODULE Axl_proofs ----------------------------
(***************************************************************************)
(* Theorems about the programs that speak over AXL: requests to the        *)
(* services of another node, the gossip of a topic, and the convergecast   *)
(* of a tree, for any nodes, requests, limits and trees.                   *)
(***************************************************************************)
EXTENDS AxlServices, GossipSub, Convergecast, FiniteSetTheorems, TLAPS

-----------------------------------------------------------------------------
(***************************************************************************)
(* AxlServices. Hop by hop, what a good answer of the hop rests on.        *)
(***************************************************************************)
Fits(r) ==
  /\ client[r] \in [pc : Asking, kind : Kind,
                    service : Service \cup {NoService}]
  /\ route[r] \in [pc : {"none", "asked", "ok", "error", "crashed"}, reg : Nat, gone : Nat]

\* A request that was not made has left no trace; one that is being dialed or
\* read has reached no service; one that has reached the router names a service.
HopsInOrder(r) ==
  /\ client[r].pc = "idle" => conn[r] = "none"
  /\ conn[r] \in {"none", "dialing", "reading"} => forward[r] = "none"
  /\ forward[r] = "none" => task[r] = "none" /\ route[r].pc = "none"
  /\ task[r] # "none" => client[r].kind = "a2a"
  /\ client[r].pc # "idle" /\ client[r].kind \in {"mcp", "a2a"} => client[r].service \in Service
  /\ route[r].pc # "none" => client[r].kind \in {"mcp", "a2a"}

GoodAnswers(r) ==
  /\ client[r].pc = "ok" => forward[r] = "ok"
  /\ client[r].kind = "mcp" /\ forward[r] = "ok" => route[r].pc = "ok"
  /\ task[r] = "completed" => route[r].pc = "ok"
  /\ route[r].pc = "ok" => r \in served /\ route[r].reg # 0

\* The router has asked under a registration that stands, or has been followed
\* by another, or was removed since.
RegistrationKnown(r) ==
  LET e == services[client[r].service] IN
  /\ route[r].pc = "asked" =>
       /\ route[r].reg # 0 /\ route[r].gone <= e.gone
       /\ e.reg = 0 => route[r].gone < e.gone
  /\ route[r].pc = "crashed" => route[r].gone < e.gone

AxlInv ==
  /\ client = [r \in Request |-> client[r]] /\ route = [r \in Request |-> route[r]]
  /\ DOMAIN conn = Request /\ DOMAIN forward = Request /\ DOMAIN task = Request
  /\ services \in [Service -> [reg : Nat, healthy : BOOLEAN, gone : Nat]]
  /\ changes \in Nat
  /\ \A r \in Request : Fits(r) /\ HopsInOrder(r) /\ GoodAnswers(r) /\ RegistrationKnown(r)

LEMMA AxlInvInit == AxlInit => AxlInv
BY DEF AxlInit, AxlInv, Fits, HopsInOrder, GoodAnswers, RegistrationKnown, NoClient,
       NoRoute, NotListed, Kind, Asking

LEMMA AxlInvAnswers == AxlInv => ResultIsServed /\ LostOnlyIfGone
<1> SUFFICES ASSUME AxlInv PROVE ResultIsServed /\ LostOnlyIfGone
  OBVIOUS
<1>1. ResultIsServed
  BY DEF AxlInv, GoodAnswers, ResultIsServed
<1>2. LostOnlyIfGone
  <2> SUFFICES ASSUME NEW r \in Request, route[r].pc = "crashed"
               PROVE  services[client[r].service].gone > route[r].gone
    BY DEF LostOnlyIfGone
  <2>1. PICK e, f : e = services[client[r].service] /\ f = route[r]
    OBVIOUS
  <2>2. f.gone < e.gone
    BY <2>1 DEF AxlInv, RegistrationKnown
  <2> QED
    BY <2>1, <2>2
<1> QED
  BY <1>1, <1>2

\* A request's part of the invariant survives a step that leaves the request
\* alone, as long as no registration is forgotten.
Grows ==
  /\ served \subseteq served'
  /\ \A s \in Service :
       /\ services[s].gone <= services'[s].gone
       /\ services'[s].reg = 0 => services[s].reg = 0 \/ services[s].gone < services'[s].gone

Part(r) == Fits(r) /\ HopsInOrder(r) /\ GoodAnswers(r) /\ RegistrationKnown(r)

LEMMA OthersKeep ==
  ASSUME AxlInv, NEW r \in Request, Grows,
         services' \in [Service -> [reg : Nat, healthy : BOOLEAN, gone : Nat]],
         client'[r] = client[r], conn'[r] = conn[r], forward'[r] = forward[r],
         task'[r] = task[r], route'[r] = route[r]
  PROVE  Part(r)'
<1>1. Fits(r) /\ HopsInOrder(r) /\ GoodAnswers(r) /\ RegistrationKnown(r)
  BY DEF AxlInv
<1>2. Fits(r)' /\ HopsInOrder(r)' /\ GoodAnswers(r)'
  BY <1>1 DEF Fits, HopsInOrder, GoodAnswers, Grows
<1>3. RegistrationKnown(r)'
  <2> SUFFICES ASSUME route[r].pc \in {"asked", "crashed"} PROVE RegistrationKnown(r)'
    BY DEF RegistrationKnown
  <2>1. client[r].service \in Service
    <3>1. client[r].pc # "idle"
      BY <1>1 DEF HopsInOrder
    <3> QED
      BY <1>1, <3>1 DEF HopsInOrder
  <2>2. PICK s \in Service : s = client[r].service
    BY <2>1
  <2>3. /\ services[s].gone \in Nat /\ services'[s].gone \in Nat
        /\ services[s].gone <= services'[s].gone
        /\ services'[s].reg = 0 => services[s].reg = 0 \/ services[s].gone < services'[s].gone
        /\ route[r].gone \in Nat
    BY <1>1 DEF Grows, AxlInv, Fits
  <2>4. /\ route[r].pc = "asked" =>
             /\ route[r].reg # 0 /\ route[r].gone <= services[s].gone
             /\ services[s].reg = 0 => route[r].gone < services[s].gone
        /\ route[r].pc = "crashed" => route[r].gone < services[s].gone
    BY <1>1, <2>2 DEF RegistrationKnown
  <2>5. /\ route'[r].pc = "asked" =>
             /\ route'[r].reg # 0 /\ route'[r].gone <= services'[s].gone
             /\ services'[s].reg = 0 => route'[r].gone < services'[s].gone
        /\ route'[r].pc = "crashed" => route'[r].gone < services'[s].gone
    BY <2>3, <2>4
  <2>6. client'[r].service = s
    BY <2>2
  <2> QED
    BY <2>5, <2>6 DEF RegistrationKnown
<1> QED
  BY <1>2, <1>3 DEF Part

\* A step about one request: it is enough to look at that request.
Frame(r) ==
  /\ client' = [q \in Request |-> client'[q]] /\ route' = [q \in Request |-> route'[q]]
  /\ DOMAIN conn' = Request /\ DOMAIN forward' = Request /\ DOMAIN task' = Request
  /\ services' \in [Service -> [reg : Nat, healthy : BOOLEAN, gone : Nat]]
  /\ changes' \in Nat
  /\ Grows
  /\ \A q \in Request \ {r} :
       /\ client'[q] = client[q] /\ conn'[q] = conn[q] /\ forward'[q] = forward[q]
       /\ task'[q] = task[q] /\ route'[q] = route[q]

LEMMA OnePart ==
  ASSUME AxlInv, NEW r, Frame(r), r \in Request => Part(r)'
  PROVE  AxlInv'
<1>1. \A q \in Request \ {r} : Part(q)'
  BY OthersKeep DEF Frame
<1>2. \A q \in Request : Part(q)'
  BY <1>1
<1> QED
  BY <1>2 DEF AxlInv, Part, Frame

LEMMA StillGrows ==
  ASSUME AxlInv, UNCHANGED <<services, served, changes>>
  PROVE  /\ Grows /\ changes' \in Nat
         /\ services' \in [Service -> [reg : Nat, healthy : BOOLEAN, gone : Nat]]
BY DEF AxlInv, Grows

\* The asking node and the listener.
LEMMA AskingKeeps ==
  ASSUME AxlInv, NEW r \in Request,
         \/ \E s \in Service : PostMcp(r, s) \/ Ask(r, "a2a", s)
         \/ Ask(r, "card", NoService) \/ Ask(r, "peer", NoService)
  PROVE  AxlInv'
<1>1. PICK kind \in Kind, s \in Service \cup {NoService}, pc \in {"waiting", "error"} :
        /\ client[r].pc = "idle"
        /\ client' = [client EXCEPT ![r] = [pc |-> pc, kind |-> kind, service |-> s]]
        /\ kind \in {"mcp", "a2a"} => s \in Service
        /\ conn' \in {conn, [conn EXCEPT ![r] = "dialing"]}
        /\ UNCHANGED <<forward, task, route, services, changes, served>>
  <2>1. ASSUME NEW s \in Service, PostMcp(r, s)
        PROVE  \E pc \in {"waiting", "error"} :
          /\ client[r].pc = "idle"
          /\ client' = [client EXCEPT ![r] = [pc |-> pc, kind |-> "mcp", service |-> s]]
          /\ conn' \in {conn, [conn EXCEPT ![r] = "dialing"]}
          /\ UNCHANGED <<forward, task, route, services, changes, served>>
    BY <2>1 DEF PostMcp, Dials
  <2>2. ASSUME NEW kind, NEW s, Ask(r, kind, s)
        PROVE  /\ client[r].pc = "idle"
               /\ client' = [client EXCEPT ![r] = [pc |-> "waiting", kind |-> kind, service |-> s]]
               /\ conn' = [conn EXCEPT ![r] = "dialing"]
               /\ UNCHANGED <<forward, task, route, services, changes, served>>
    BY <2>2 DEF Ask, Dials
  <2>3. {"mcp", "a2a", "card", "peer"} = Kind
    BY DEF Kind
  <2> QED
    BY <2>1, <2>2, <2>3
<1>2. PICK c : c = [pc |-> pc, kind |-> kind, service |-> s]
  OBVIOUS
<1>3. /\ c.pc = pc /\ c.kind = kind /\ c.service = s
      /\ c \in [pc : Asking, kind : Kind,
                service : Service \cup {NoService}]
  BY <1>2 DEF Asking
<1>4. client' = [client EXCEPT ![r] = c]
  BY <1>1, <1>2
<1>5. Frame(r)
  BY <1>1, <1>4, StillGrows DEF Frame, AxlInv
<1>6. /\ client'[r] = c /\ forward'[r] = "none" /\ task'[r] = "none"
      /\ route'[r] = route[r] /\ route[r].pc = "none"
  BY <1>1, <1>4 DEF AxlInv, HopsInOrder
<1>7. Part(r)'
  BY <1>1, <1>3, <1>6 DEF Part, AxlInv, Fits, HopsInOrder, GoodAnswers, RegistrationKnown
<1> QED
  BY <1>5, <1>7, OnePart

\* Of the client only what it is told changes, or what another program does with
\* its connection, and never before it has asked; what it is told for a result is
\* a result of the stream. No message is read once it has been told.
LEMMA ListenerKeeps ==
  ASSUME AxlInv, NEW r \in Request,
         \/ ClientTimesOut(r) \/ PeerTurns(r) \/ DialFails(r) \/ Accept(r)
         \/ ReadMessage(r) \/ Respond(r) \/ WriteEnds(r) \/ HandlerEnds(r)
  PROVE  AxlInv'
<1>1. UNCHANGED <<task, route, services, changes, served>>
  BY DEF ClientTimesOut, ClientGets, PeerTurns, DialFails, Accept, ReadMessage, Respond,
         Answered, WriteEnds, HandlerEnds, ConnGoesTo
<1>2. /\ \/ client' = client
         \/ /\ client[r].pc # "idle" \/ conn[r] # "none"
            /\ \E pc \in {"waiting", "talks", "deaf", "error"} :
                 client' = [client EXCEPT ![r].pc = pc]
         \/ /\ client[r].pc # "idle" \/ conn[r] # "none"
            /\ forward[r] = "ok" /\ client' = [client EXCEPT ![r].pc = "ok"]
  BY DEF ClientTimesOut, ClientGets, PeerTurns, DialFails, Accept, ReadMessage, Respond,
         Answered, WriteEnds, HandlerEnds, ConnGoesTo
<1>3. \/ UNCHANGED <<conn, forward>>
      \/ /\ conn[r] # "none" /\ forward' = forward
         /\ \/ \E c \in {"closed", "stuck", "again"} : conn' = [conn EXCEPT ![r] = c]
            \/ conn[r] = "dialing" /\ conn' = [conn EXCEPT ![r] = "reading"]
      \/ /\ conn[r] = "reading" \/ (conn[r] = "again" /\ client[r].pc \in {"talks", "deaf"})
         /\ client' = client /\ conn' = [conn EXCEPT ![r] = "forwarding"]
         /\ forward' = [forward EXCEPT ![r] = "waiting"]
  BY DEF ClientTimesOut, ClientGets, PeerTurns, DialFails, Accept, ReadMessage, Respond,
         Answered, WriteEnds, HandlerEnds, ConnGoesTo
<1>4. /\ client' = [q \in Request |-> client'[q]]
      /\ \A q \in Request \ {r} : client'[q] = client[q]
  BY <1>2 DEF AxlInv
<1>5. Frame(r)
  BY <1>1, <1>3, <1>4, StillGrows DEF Frame, AxlInv
<1>6. Fits(r) /\ HopsInOrder(r) /\ GoodAnswers(r) /\ RegistrationKnown(r)
  BY DEF AxlInv
<1>7. /\ client'[r].kind = client[r].kind /\ client'[r].service = client[r].service
      /\ client'[r] \in [pc : Asking, kind : Kind,
                         service : Service \cup {NoService}]
      /\ \/ client'[r].pc = client[r].pc
         \/ client[r].pc # "idle" /\ client'[r].pc \in {"waiting", "talks", "deaf", "error"}
         \/ client[r].pc # "idle" /\ client'[r].pc = "ok" /\ forward[r] = "ok"
  <2>1. PICK c : c = client[r]
    OBVIOUS
  <2>2. c \in [pc : Asking, kind : Kind,
              service : Service \cup {NoService}]
    BY <1>6, <2>1 DEF Fits
  <2>3. client[r].pc # "idle" \/ conn[r] # "none" => c.pc # "idle"
    BY <1>6, <2>1 DEF HopsInOrder
  <2>4. \/ client'[r] = c
        \/ c.pc # "idle" /\ \E pc \in {"waiting", "talks", "deaf", "error"} :
                               client'[r] = [c EXCEPT !.pc = pc]
        \/ c.pc # "idle" /\ forward[r] = "ok" /\ client'[r] = [c EXCEPT !.pc = "ok"]
    BY <1>2, <2>1, <2>3 DEF AxlInv
  <2> QED
    BY <2>1, <2>2, <2>4 DEF Asking
<1>8. route'[r] = route[r] /\ task'[r] = task[r] /\ services' = services /\ served' = served
  BY <1>1
<1>9. \/ conn'[r] = conn[r] /\ forward'[r] = forward[r]
      \/ conn[r] # "none" /\ conn'[r] \in {"closed", "stuck", "again"} /\ forward'[r] = forward[r]
      \/ conn[r] = "dialing" /\ conn'[r] = "reading" /\ forward'[r] = forward[r]
      \/ /\ conn[r] = "reading" \/ client[r].pc \in {"talks", "deaf"}
         /\ conn[r] # "none" /\ client'[r] = client[r]
         /\ conn'[r] = "forwarding" /\ forward'[r] = "waiting"
  BY <1>3 DEF AxlInv
<1>10. Fits(r)' /\ RegistrationKnown(r)'
  BY <1>6, <1>7, <1>8 DEF Fits, RegistrationKnown
<1>11. HopsInOrder(r)' /\ GoodAnswers(r)'
  BY <1>6, <1>7, <1>8, <1>9 DEF HopsInOrder, GoodAnswers
<1> QED
  BY <1>5, <1>10, <1>11, OnePart DEF Part

\* The streams and the A2A server: a good answer rests on one of the hop behind.
LEMMA StreamKeeps ==
  ASSUME AxlInv, NEW r \in Request,
         \/ StreamTimesOut(r) \/ CardFetched(r) \/ RouterAnswered(r) \/ TaskAnswered(r)
         \/ TaskStarts(r) \/ TaskEnds(r)
  PROVE  AxlInv'
<1>1. Fits(r) /\ HopsInOrder(r) /\ GoodAnswers(r) /\ RegistrationKnown(r)
  BY DEF AxlInv
<1>2. UNCHANGED <<client, conn, route, services, changes, served>>
  BY DEF StreamTimesOut, CardFetched, RouterAnswered, TaskAnswered, Forwarded,
         TaskStarts, TaskEnds, TaskGoesTo
<1>3. CASE StreamTimesOut(r) \/ CardFetched(r) \/ RouterAnswered(r) \/ TaskAnswered(r)
  <2>1. /\ task' = task /\ forward[r] = "waiting"
        /\ \/ forward' = [forward EXCEPT ![r] = "error"]
           \/ forward' = [forward EXCEPT ![r] = "ok"]
              /\ (client[r].kind = "mcp" => route[r].pc = "ok")
    <3>1. CASE StreamTimesOut(r)
      BY <3>1 DEF StreamTimesOut, Forwarded
    <3>2. CASE CardFetched(r)
      BY <3>2 DEF CardFetched, Forwarded
    <3>3. CASE RouterAnswered(r)
      BY <3>3 DEF RouterAnswered, Forwarded
    <3>4. CASE TaskAnswered(r)
      <4>1. client[r].kind = "a2a"
        BY <1>1, <3>4 DEF TaskAnswered, HopsInOrder
      <4> QED
        BY <3>4, <4>1 DEF TaskAnswered, Forwarded
    <3> QED
      BY <1>3, <3>1, <3>2, <3>3, <3>4
  <2>2. /\ \A q \in Request \ {r} : forward'[q] = forward[q]
        /\ DOMAIN forward' = Request
        /\ \/ forward'[r] = "error"
           \/ forward'[r] = "ok" /\ (client[r].kind = "mcp" => route[r].pc = "ok")
    <3>1. PICK w : /\ forward' = [forward EXCEPT ![r] = w]
                   /\ \/ w = "error"
                      \/ w = "ok" /\ (client[r].kind = "mcp" => route[r].pc = "ok")
      BY <2>1
    <3> QED
      BY <3>1 DEF AxlInv
  <2>3. Frame(r)
    BY <1>2, <2>1, <2>2, StillGrows DEF Frame, AxlInv
  <2>4. Part(r)'
    BY <1>1, <1>2, <2>1, <2>2
       DEF Part, Fits, HopsInOrder, GoodAnswers, RegistrationKnown
  <2> QED
    BY <2>3, <2>4, OnePart
<1>4. CASE TaskStarts(r) \/ TaskEnds(r)
  <2>1. /\ forward' = forward /\ forward[r] # "none"
        /\ client[r].kind = "a2a"
        /\ \/ task' = [task EXCEPT ![r] = "working"] \/ task' = [task EXCEPT ![r] = "failed"]
           \/ task' = [task EXCEPT ![r] = "completed"] /\ route[r].pc = "ok"
    BY <1>1, <1>4 DEF TaskStarts, TaskEnds, TaskGoesTo, HopsInOrder
  <2>2. /\ \A q \in Request \ {r} : task'[q] = task[q]
        /\ DOMAIN task' = Request
        /\ \/ task'[r] \in {"working", "failed"}
           \/ task'[r] = "completed" /\ route[r].pc = "ok"
    BY <2>1 DEF AxlInv
  <2>3. Frame(r)
    BY <1>2, <2>1, <2>2, StillGrows DEF Frame, AxlInv
  <2>4. Part(r)'
    BY <1>1, <1>2, <2>1, <2>2
       DEF Part, Fits, HopsInOrder, GoodAnswers, RegistrationKnown
  <2> QED
    BY <2>3, <2>4, OnePart
<1> QED
  BY <1>3, <1>4

\* A health entry is written of what is registered, and says nothing else.
LEMMA HealthOnly ==
  ASSUME AxlInv,
         \/ services' = services
         \/ \E s \in Service, h \in BOOLEAN : services' = [services EXCEPT ![s].healthy = h]
  PROVE  /\ services' \in [Service -> [reg : Nat, healthy : BOOLEAN, gone : Nat]]
         /\ \A t \in Service :
              services'[t].reg = services[t].reg /\ services'[t].gone = services[t].gone
<1>1. CASE services' = services
  BY <1>1 DEF AxlInv
<1>2. ASSUME NEW s \in Service, NEW h \in BOOLEAN, services' = [services EXCEPT ![s].healthy = h]
      PROVE  /\ services' \in [Service -> [reg : Nat, healthy : BOOLEAN, gone : Nat]]
             /\ \A t \in Service :
                  services'[t].reg = services[t].reg /\ services'[t].gone = services[t].gone
  <2>1. PICK e : e = [services[s] EXCEPT !.healthy = h]
    OBVIOUS
  <2>2. /\ e \in [reg : Nat, healthy : BOOLEAN, gone : Nat]
        /\ e.reg = services[s].reg /\ e.gone = services[s].gone
    BY <2>1 DEF AxlInv
  <2>3. services' = [services EXCEPT ![s] = e]
    BY <1>2, <2>1
  <2> QED
    BY <2>2, <2>3 DEF AxlInv
<1> QED
  BY <1>1, <1>2

\* Another program's request: it rests on nothing that is claimed.
LEMMA PeerKeeps ==
  ASSUME AxlInv, NEW r \in Request, PeerServed(r)
  PROVE  AxlInv'
<1>1. Fits(r) /\ HopsInOrder(r) /\ GoodAnswers(r) /\ RegistrationKnown(r)
  BY DEF AxlInv
<1>2. /\ UNCHANGED <<client, conn, task, route, changes, served>>
      /\ client[r].kind = "peer" /\ forward[r] = "waiting"
      /\ \/ services' = services
         \/ \E s \in Service, h \in BOOLEAN : services' = [services EXCEPT ![s].healthy = h]
  BY DEF PeerServed
<1>3. /\ services' \in [Service -> [reg : Nat, healthy : BOOLEAN, gone : Nat]]
      /\ \A t \in Service :
           services'[t].reg = services[t].reg /\ services'[t].gone = services[t].gone
  BY <1>2, HealthOnly
<1>4. Grows
  BY <1>2, <1>3 DEF Grows, AxlInv
<1>5. PICK w \in {"ok", "error"} : forward' = [forward EXCEPT ![r] = w]
  BY DEF PeerServed
<1>6. /\ DOMAIN forward' = Request /\ forward'[r] = w
      /\ \A q \in Request \ {r} : forward'[q] = forward[q]
  BY <1>5 DEF AxlInv
<1>7. Frame(r)
  BY <1>2, <1>3, <1>4, <1>6 DEF Frame, AxlInv
<1>8. task[r] = "none" /\ route[r].pc = "none" /\ client[r].pc # "ok"
  BY <1>1, <1>2 DEF HopsInOrder, GoodAnswers
<1>9. Fits(r)' /\ HopsInOrder(r)' /\ GoodAnswers(r)' /\ RegistrationKnown(r)'
  BY <1>1, <1>2, <1>6, <1>8 DEF Fits, HopsInOrder, GoodAnswers, RegistrationKnown
<1> QED
  BY <1>7, <1>9, OnePart DEF Part

\* The router. What it does to the entry of a name never forgets a registration
\* without counting it gone.
LEMMA RouterKeeps ==
  ASSUME AxlInv, NEW r \in Request, RouterTakes(r) \/ ServiceAnswers(r)
  PROVE  AxlInv'
<1>1. Fits(r) /\ HopsInOrder(r) /\ GoodAnswers(r) /\ RegistrationKnown(r)
  BY DEF AxlInv
<1>2. UNCHANGED <<client, conn, forward, task, changes>>
  BY DEF RouterTakes, ServiceAnswers, Notes, Routes
<1>3. /\ client[r].kind \in {"mcp", "a2a"} /\ client[r].pc # "idle" /\ forward[r] # "none"
  BY <1>1 DEF RouterTakes, ServiceAnswers, HopsInOrder
<1>4. PICK s \in Service : s = client[r].service
  BY <1>1, <1>3 DEF HopsInOrder
<1>5. services[s].reg \in Nat /\ services[s].gone \in Nat /\ services[s].healthy \in BOOLEAN
  BY <1>4 DEF AxlInv
<1>6. CASE RouterTakes(r)
  <2>1. PICK f : /\ route' = [route EXCEPT ![r] = f]
                 /\ \/ f.pc = "error" /\ f.reg = route[r].reg /\ f.gone = route[r].gone
                       /\ f = [route[r] EXCEPT !.pc = "error"]
                    \/ /\ f = [pc |-> "asked", reg |-> services[s].reg, gone |-> services[s].gone]
                       /\ services[s].reg # 0
    <3>1. CASE services[s].reg = 0
      <4>1. route' = [route EXCEPT ![r].pc = "error"]
        BY <1>4, <1>6, <3>1 DEF RouterTakes, Routes
      <4>2. PICK f : f = [route[r] EXCEPT !.pc = "error"]
        OBVIOUS
      <4>3. route' = [route EXCEPT ![r] = f]
        BY <4>1, <4>2
      <4>4. f.pc = "error" /\ f.reg = route[r].reg /\ f.gone = route[r].gone
        BY <1>1, <4>2 DEF Fits
      <4> QED
        BY <4>2, <4>3, <4>4
    <3>2. CASE services[s].reg # 0
      BY <1>4, <1>6, <3>2 DEF RouterTakes
    <3> QED
      BY <3>1, <3>2
  <2>2. UNCHANGED <<services, served>>
    BY <1>6 DEF RouterTakes
  <2>3. /\ f \in [pc : {"none", "asked", "ok", "error", "crashed"}, reg : Nat, gone : Nat]
        /\ \/ f.pc = "error"
           \/ f.pc = "asked" /\ f.reg # 0 /\ f.gone = services[s].gone /\ services[s].reg # 0
    BY <1>1, <1>5, <2>1 DEF Fits
  <2>4. /\ route' = [q \in Request |-> route'[q]] /\ route'[r] = f
        /\ \A q \in Request \ {r} : route'[q] = route[q]
    BY <2>1 DEF AxlInv
  <2>5. Frame(r)
    BY <1>2, <2>2, <2>4, StillGrows DEF Frame, AxlInv
  <2>6. route[r].pc = "none"
    BY <1>6 DEF RouterTakes
  <2>7. Part(r)'
    <3>1. Fits(r)' /\ HopsInOrder(r)'
      BY <1>1, <1>2, <1>3, <2>3, <2>4 DEF Fits, HopsInOrder
    <3>2. GoodAnswers(r)'
      BY <1>1, <1>2, <1>3, <2>3, <2>4, <2>6 DEF GoodAnswers
    <3>3. RegistrationKnown(r)'
      <4>1. client'[r].service = s /\ services' = services
        BY <1>2, <1>4, <2>2
      <4> QED
        BY <1>5, <2>3, <2>4, <4>1 DEF RegistrationKnown
    <3> QED
      BY <3>1, <3>2, <3>3 DEF Part
  <2> QED
    BY <2>5, <2>7, OnePart
<1>7. CASE ServiceAnswers(r)
  <2>1. route[r].pc = "asked"
    BY <1>7 DEF ServiceAnswers
  <2>2. PICK pc \in {"ok", "error", "crashed"} :
          /\ route' = [route EXCEPT ![r].pc = pc]
          /\ pc = "crashed" => services[s].reg = 0
          /\ pc = "ok" => r \in served'
    BY <1>4, <1>7 DEF ServiceAnswers, Notes, Routes
  <2>3. /\ served \subseteq served'
        /\ \/ services' = services
           \/ \E h \in BOOLEAN : services' = [services EXCEPT ![s].healthy = h]
    BY <1>4, <1>7 DEF ServiceAnswers, Notes, Routes
  <2>4. /\ services' \in [Service -> [reg : Nat, healthy : BOOLEAN, gone : Nat]]
        /\ \A t \in Service : services'[t].reg = services[t].reg /\ services'[t].gone = services[t].gone
    BY <2>3, HealthOnly
  <2>5. Grows
    BY <2>3, <2>4 DEF Grows, AxlInv
  <2>6. PICK f : f = [route[r] EXCEPT !.pc = pc]
    OBVIOUS
  <2>7. /\ f \in [pc : {"none", "asked", "ok", "error", "crashed"}, reg : Nat, gone : Nat]
        /\ f.pc = pc /\ f.reg = route[r].reg /\ f.gone = route[r].gone
    BY <1>1, <2>6 DEF Fits
  <2>8. /\ route' = [q \in Request |-> route'[q]] /\ route'[r] = f
        /\ \A q \in Request \ {r} : route'[q] = route[q]
    <3>1. route' = [route EXCEPT ![r] = f]
      BY <2>2, <2>6
    <3> QED
      BY <3>1 DEF AxlInv
  <2>9. Frame(r)
    BY <1>2, <2>4, <2>5, <2>8 DEF Frame, AxlInv
  <2>10. Part(r)'
    <3>1. Fits(r)' /\ HopsInOrder(r)'
      BY <1>1, <1>2, <1>3, <2>7, <2>8 DEF Fits, HopsInOrder
    <3>2. GoodAnswers(r)'
      <4>1. route[r].reg # 0
        BY <1>1, <2>1 DEF RegistrationKnown
      <4> QED
        BY <1>1, <1>2, <2>1, <2>2, <2>7, <2>8, <4>1 DEF GoodAnswers
    <3>3. RegistrationKnown(r)'
      <4>1. services[s].reg = 0 => route[r].gone < services[s].gone
        BY <1>1, <1>4, <2>1 DEF RegistrationKnown
      <4>2. client'[r].service = s
        BY <1>2, <1>4
      <4>3. route'[r].pc = "crashed" => route'[r].gone < services'[s].gone
        BY <2>2, <2>4, <2>7, <2>8, <4>1
      <4> QED
        BY <2>7, <2>8, <4>2, <4>3 DEF RegistrationKnown
    <3> QED
      BY <3>1, <3>2, <3>3 DEF Part
  <2> QED
    BY <2>9, <2>10, OnePart
<1> QED
  BY <1>6, <1>7

\* Registrations of a service.
LEMMA RegistrationsKeep ==
  ASSUME AxlInv, NEW s \in Service, Register(s) \/ Deregister(s)
  PROVE  AxlInv'
<1>1. UNCHANGED <<client, conn, forward, task, route, served>> /\ changes' = changes + 1
  BY DEF Register, Deregister
<1>2. PICK e : /\ services' = [services EXCEPT ![s] = e]
               /\ e \in [reg : Nat, healthy : BOOLEAN, gone : Nat]
               /\ \/ e.reg # 0 /\ e.gone = services[s].gone
                  \/ e.gone = services[s].gone + 1
  <2>0. /\ services[s] \in [reg : Nat, healthy : BOOLEAN, gone : Nat]
        /\ changes' \in Nat /\ changes' # 0
    BY <1>1 DEF AxlInv
  <2>1. CASE Register(s)
    <3>1. PICK e : e = [[services[s] EXCEPT !.reg = changes'] EXCEPT !.healthy = TRUE]
      OBVIOUS
    <3>2. services' = [services EXCEPT ![s] = e]
      BY <2>1, <3>1 DEF Register, AxlInv
    <3>3. /\ e \in [reg : Nat, healthy : BOOLEAN, gone : Nat]
          /\ e.reg # 0 /\ e.gone = services[s].gone
      BY <2>0, <3>1
    <3> QED
      BY <3>2, <3>3
  <2>2. CASE Deregister(s)
    <3>1. PICK e : e = [[services[s] EXCEPT !.reg = 0] EXCEPT !.gone = services[s].gone + 1]
      OBVIOUS
    <3>2. services' = [services EXCEPT ![s] = e]
      BY <2>2, <3>1 DEF Deregister, AxlInv
    <3>3. /\ e \in [reg : Nat, healthy : BOOLEAN, gone : Nat]
          /\ e.gone = services[s].gone + 1
      <4>1. PICK g \in Nat : g = services[s].gone + 1
        BY <2>0
      <4>2. e = [[services[s] EXCEPT !.reg = 0] EXCEPT !.gone = g]
        BY <3>1, <4>1
      <4>3. e = [reg |-> 0, healthy |-> services[s].healthy, gone |-> g]
        BY <2>0, <4>2
      <4> QED
        BY <2>0, <4>1, <4>3
    <3> QED
      BY <3>2, <3>3
  <2> QED
    BY <2>1, <2>2
<1>3. /\ services' \in [Service -> [reg : Nat, healthy : BOOLEAN, gone : Nat]]
      /\ services'[s] = e /\ \A t \in Service \ {s} : services'[t] = services[t]
      /\ \A t \in Service : services[t].gone \in Nat
  BY <1>2 DEF AxlInv
<1>4. Grows
  <2> SUFFICES ASSUME NEW t \in Service
               PROVE  /\ services[t].gone <= services'[t].gone
                      /\ services'[t].reg = 0 => services[t].reg = 0 \/ services[t].gone < services'[t].gone
    BY <1>1 DEF Grows
  <2>1. CASE t = s
    BY <1>2, <1>3, <2>1
  <2>2. CASE t # s
    BY <1>3, <2>2
  <2> QED
    BY <2>1, <2>2
<1>5. \A q \in Request : Part(q)'
  BY <1>1, <1>3, <1>4, OthersKeep
<1> QED
  BY <1>1, <1>3, <1>5 DEF AxlInv, Part

LEMMA AxlInvStep == AxlInv /\ [AxlNext]_axlVars => AxlInv'
<1> SUFFICES ASSUME AxlInv, [AxlNext]_axlVars PROVE AxlInv'
  OBVIOUS
<1>1. ASSUME UNCHANGED <<client, conn, forward, task, route, services, changes, served>>
      PROVE  AxlInv'
  <2>1. \A r \in Request : Part(r)'
    BY <1>1, StillGrows, OthersKeep
  <2> QED
    BY <1>1, <2>1 DEF AxlInv, Part
<1>2. CASE DeleteSession
  BY <1>1, <1>2 DEF DeleteSession
<1>3. CASE UNCHANGED axlVars
  BY <1>1, <1>3 DEF axlVars
<1>4. ASSUME NEW r \in Request, HandlerStep(r) PROVE AxlInv'
  BY <1>4, ListenerKeeps, StreamKeeps DEF HandlerStep
<1> QED
  BY <1>2, <1>3, <1>4, AskingKeeps, ListenerKeeps, StreamKeeps, PeerKeeps, RouterKeeps,
     RegistrationsKeep DEF AxlNext

LEMMA AxlInvHolds == AxlSpec => []AxlInv
BY AxlInvInit, AxlInvStep, PTL DEF AxlSpec

\* A result the asker is given was made by the service it asked, whichever of the
\* hops between has timed out.
THEOREM ResultsAreServed == AxlSpec => []ResultIsServed
<1>1. AxlInv => ResultIsServed
  BY AxlInvAnswers
<1> QED
  BY <1>1, AxlInvHolds, PTL

\* A router's answer is lost to a deregistration of the name only.
THEOREM OnlyGoneLoses == AxlSpec => []LostOnlyIfGone
<1>1. AxlInv => LostOnlyIfGone
  BY AxlInvAnswers
<1> QED
  BY <1>1, AxlInvHolds, PTL

\* Together: every answer the router gives or loses is accounted for.
THEOREM AnswersAlwaysAccounted == AxlSpec => []AnswersAccountedFor
BY ResultsAreServed, OnlyGoneLoses, PTL DEF AnswersAccountedFor

-----------------------------------------------------------------------------
(***************************************************************************)
(* GossipSub. A node knows finitely many peers at any time, so the sizes   *)
(* the heartbeat compares are numbers, however large the network.          *)
(***************************************************************************)
GossipInv ==
  /\ mesh = [n \in Gossiper |-> mesh[n]] /\ DOMAIN peers = Gossiper
  /\ \A n \in Gossiper : IsFiniteSet(peers[n]) /\ IsFiniteSet(mesh[n])
  /\ MeshWithinBounds

LEMMA GossipInvInit == GossipInit => GossipInv
<1> SUFFICES ASSUME GossipInit PROVE GossipInv
  OBVIOUS
<1>1. IsFiniteSet({}) /\ Cardinality({}) = 0
  BY FS_EmptySet
<1>2. 0 <= DHigh
  BY GossipAssumption
<1> QED
  BY <1>1, <1>2 DEF GossipInit, GossipInv, MeshWithinBounds

\* What the heartbeat may leave is finite and not above D_high.
LEMMA MaintainedBounded ==
  ASSUME GossipInv, NEW n \in Gossiper, NEW made \in Maintained(n)
  PROVE  IsFiniteSet(made.mesh) /\ Cardinality(made.mesh) <= DHigh
<1>0. PICK known : known = mesh[n] \cap peers[n]
  OBVIOUS
<1>1. /\ IsFiniteSet(known) /\ Cardinality(known) \in Nat
      /\ Cardinality(known) <= Cardinality(mesh[n])
      /\ Cardinality(mesh[n]) \in Nat /\ Cardinality(mesh[n]) <= DHigh
  BY <1>0, FS_Subset, FS_CardinalityType DEF GossipInv, MeshWithinBounds
<1>2. PICK size \in Nat : size = Cardinality(known)
  BY <1>1
<1>3. /\ DLow \in Nat /\ D \in Nat /\ DHigh \in Nat /\ DLow <= D /\ D <= DHigh
      /\ size <= DHigh
  BY <1>1, <1>2, GossipAssumption
<1>4. made \in
        IF size < DLow
        THEN {[mesh |-> known \cup new, sent |-> Packets(n, new, "GRAFT", {})] :
                new \in AtMost(D - size, peers[n] \ known)}
        ELSE IF size > DHigh
        THEN {[mesh |-> known \ excess, sent |-> Packets(n, excess, "PRUNE", {})] :
                excess \in AtMost(size - D, known)}
        ELSE {[mesh |-> known, sent |-> {}]}
  BY <1>0, <1>2 DEF Maintained
<1>5. CASE size < DLow
  <2>1. PICK new \in AtMost(D - size, peers[n] \ known) : made.mesh = known \cup new
    <3>1. made \in {[mesh |-> known \cup new, sent |-> Packets(n, new, "GRAFT", {})] :
                      new \in AtMost(D - size, peers[n] \ known)}
      BY <1>4, <1>5
    <3>2. PICK new \in AtMost(D - size, peers[n] \ known) :
            made = [mesh |-> known \cup new, sent |-> Packets(n, new, "GRAFT", {})]
      BY <3>1
    <3> QED
      BY <3>2
  <2>2. PICK rest : rest = peers[n] \ known
    OBVIOUS
  <2>3. /\ IsFiniteSet(rest) /\ Cardinality(rest) \in Nat
    BY <2>2, FS_Subset, FS_CardinalityType DEF GossipInv
  <2>4. /\ new \subseteq rest /\ D - size \in Nat
        /\ Cardinality(new) = IF D - size < Cardinality(rest) THEN D - size ELSE Cardinality(rest)
    BY <1>3, <1>5, <2>1, <2>2 DEF AtMost
  <2>5. IsFiniteSet(new) /\ Cardinality(new) \in Nat /\ Cardinality(new) <= D - size
    BY <1>3, <2>3, <2>4, FS_Subset
  <2>6. /\ IsFiniteSet(known \cup new)
        /\ Cardinality(known \cup new)
             = Cardinality(known) + Cardinality(new) - Cardinality(known \cap new)
    BY <1>1, <2>5, FS_Union
  <2>7. Cardinality(known \cap new) \in Nat
    BY <1>1, FS_Intersection, FS_CardinalityType
  <2>8. Cardinality(known \cup new) <= DHigh
    BY <1>2, <1>3, <1>5, <2>5, <2>6, <2>7
  <2> QED
    BY <2>1, <2>6, <2>8
<1>6. CASE ~(size < DLow)
  <2>1. ~(size > DHigh)
    BY <1>3
  <2>2. made.mesh = known
    BY <1>4, <1>6, <2>1
  <2> QED
    BY <1>1, <1>2, <1>3, <2>2
<1> QED
  BY <1>5, <1>6

LEMMA GossipInvStep == GossipInv /\ [GossipNext]_gossipVars => GossipInv'
<1> SUFFICES ASSUME GossipInv, [GossipNext]_gossipVars PROVE GossipInv'
  OBVIOUS
<1>1. ASSUME UNCHANGED <<mesh, peers>> PROVE GossipInv'
  BY <1>1 DEF GossipInv, MeshWithinBounds
<1>2. ASSUME NEW n \in Gossiper, NEW m, mesh' = [mesh EXCEPT ![n] = m], peers' = peers,
             IsFiniteSet(m), Cardinality(m) <= DHigh
      PROVE  GossipInv'
  BY <1>2 DEF GossipInv, MeshWithinBounds
<1>3. ASSUME NEW n \in Gossiper, NEW p \in Gossiper, AddPeer(n, p) PROVE GossipInv'
  <2>1. peers' = [peers EXCEPT ![n] = peers[n] \cup {p}] /\ mesh' = mesh
    BY <1>3 DEF AddPeer
  <2>2. IsFiniteSet(peers[n] \cup {p})
    BY FS_AddElement DEF GossipInv
  <2> QED
    BY <2>1, <2>2 DEF GossipInv, MeshWithinBounds
<1>4. ASSUME NEW n \in Gossiper, NEW sample, Heartbeat(n, sample) PROVE GossipInv'
  <2>1. PICK made \in Maintained(n) : mesh' = [mesh EXCEPT ![n] = made.mesh]
    BY <1>4 DEF Heartbeat
  <2>2. peers' = peers
    BY <1>4 DEF Heartbeat
  <2>3. PICK m : m = made.mesh
    OBVIOUS
  <2>4. mesh' = [mesh EXCEPT ![n] = m] /\ IsFiniteSet(m) /\ Cardinality(m) <= DHigh
    BY <2>1, <2>3, MaintainedBounded
  <2> QED
    BY <1>2, <2>2, <2>4
<1>5. ASSUME NEW p, NEW n, n = p.to, HandleGraft(n, p) PROVE GossipInv'
  <2>1. CASE UNCHANGED mesh
    BY <1>1, <1>5, <2>1 DEF HandleGraft
  <2>2. CASE ~UNCHANGED mesh
    <3>1. /\ mesh' = [mesh EXCEPT ![n] = mesh[n] \cup {p.from}] /\ peers' = peers
          /\ Cardinality(mesh[n]) < DHigh
      BY <1>5, <2>2 DEF HandleGraft
    <3>2. n \in Gossiper
      BY <2>2, <3>1 DEF GossipInv
    <3>3. PICK m : m = mesh[n] \cup {p.from}
      OBVIOUS
    <3>4. /\ IsFiniteSet(m) /\ Cardinality(mesh[n]) \in Nat
          /\ \/ Cardinality(m) = Cardinality(mesh[n])
             \/ Cardinality(m) = Cardinality(mesh[n]) + 1
      BY <3>2, <3>3, FS_AddElement, FS_CardinalityType DEF GossipInv
    <3>5. Cardinality(m) <= DHigh
      BY <3>1, <3>4, GossipAssumption
    <3> QED
      BY <1>2, <3>1, <3>2, <3>3, <3>4, <3>5
  <2> QED
    BY <2>1, <2>2
<1>6. ASSUME NEW p, NEW n, n = p.to, HandlePrune(n, p) PROVE GossipInv'
  <2>1. CASE n \notin Gossiper
    <3>1. mesh' = [mesh EXCEPT ![n] = mesh[n] \ {p.from}] /\ peers' = peers
      BY <1>6 DEF HandlePrune
    <3>2. mesh' = mesh
      BY <2>1, <3>1 DEF GossipInv
    <3> QED
      BY <1>1, <3>1, <3>2
  <2>2. CASE n \in Gossiper
    <3>1. PICK m : m = mesh[n] \ {p.from}
      OBVIOUS
    <3>2. mesh' = [mesh EXCEPT ![n] = m] /\ peers' = peers
      BY <1>6, <3>1 DEF HandlePrune
    <3>3. /\ IsFiniteSet(m) /\ Cardinality(m) <= Cardinality(mesh[n])
          /\ Cardinality(m) \in Nat /\ Cardinality(mesh[n]) \in Nat
          /\ Cardinality(mesh[n]) <= DHigh
      BY <2>2, <3>1, FS_Subset, FS_CardinalityType DEF GossipInv, MeshWithinBounds
    <3>4. Cardinality(m) <= DHigh
      BY <3>3, GossipAssumption
    <3> QED
      BY <1>2, <2>2, <3>2, <3>3, <3>4
  <2> QED
    BY <2>1, <2>2
<1>7. ASSUME NEW p \in wire, Handle(p) PROVE GossipInv'
  <2>1. CASE HandleMessage(p.to, p) \/ HandleIHave(p.to, p) \/ HandleIWant(p.to, p)
    BY <1>1, <2>1 DEF HandleMessage, HandleIHave, HandleIWant
  <2> QED
    BY <1>5, <1>6, <1>7, <2>1 DEF Handle
<1>8. ASSUME NEW n \in Gossiper, Subscribe(n) \/ \E m \in Msg : Publish(n, m)
      PROVE  GossipInv'
  BY <1>1, <1>8 DEF Subscribe, Publish
<1>9. CASE UNCHANGED gossipVars
  BY <1>1, <1>9 DEF gossipVars
<1> QED
  BY <1>3, <1>4, <1>7, <1>8, <1>9 DEF GossipNext

\* A mesh never exceeds D_high, whatever the network and the order in which grafts,
\* refusals and heartbeats cross.
THEOREM MeshBounded == GossipSpec => []MeshWithinBounds
<1>1. GossipInv => MeshWithinBounds
  BY DEF GossipInv
<1> QED
  BY <1>1, GossipInvInit, GossipInvStep, PTL DEF GossipSpec

-----------------------------------------------------------------------------
(***************************************************************************)
(* Convergecast. A subtree is closed downwards and the least such set.     *)
(***************************************************************************)
LEMMA SubtreeIsClosed ==
  ASSUME NEW n \in Tree
  PROVE  /\ Subtree[n] \subseteq Tree /\ n \in Subtree[n]
         /\ \A p \in Subtree[n] : Children(p) \subseteq Subtree[n]
BY DEF Subtree, Children

LEMMA SubtreeIsLeast ==
  ASSUME NEW n \in Tree, NEW S \in SUBSET Tree, n \in S,
         \A p \in S : Children(p) \subseteq S
  PROVE  Subtree[n] \subseteq S
BY DEF Subtree

LEMMA ChildsSubtree ==
  ASSUME NEW n \in Tree, NEW c \in Children(n)
  PROVE  c \in Tree /\ Subtree[c] \subseteq Subtree[n]
<1>1. c \in Tree /\ c \in Subtree[n]
  BY SubtreeIsClosed DEF Children
<1> QED
  BY <1>1, SubtreeIsClosed, SubtreeIsLeast

\* What a node has merged is of its subtree and its session, and holds its own
\* datum and all that the children it has heard of returned. A node that returned
\* success holds all that its children returned.
Collects(n) ==
  /\ merged[n] \subseteq Subtree[n] \X {session[n]}
  /\ session[n] \in 1 .. Sessions
  /\ <<n, session[n]>> \in merged[n]
  /\ waiting[n] \subseteq Children(n)
  /\ \A c \in Children(n) \ waiting[n] :
       ended[c][session[n]].done /\ ended[c][session[n]].data \subseteq merged[n]

Returned(n, s) ==
  /\ ended[n][s].data \subseteq Subtree[n] \X {s}
  /\ ended[n][s].success =>
       /\ <<n, s>> \in ended[n][s].data
       /\ \A c \in Children(n) :
            ended[c][s].done /\ ended[c][s].data \subseteq ended[n][s].data

CastInv ==
  /\ CastTypeOK
  /\ \A n \in Tree : stage[n] # "idle" => Collects(n)
  /\ \A n \in Tree : stage[n] # "idle" => ~ended[n][session[n]].done
  /\ \A n \in Tree, s \in 1 .. Sessions : s > session[n] => ~ended[n][s].done
  /\ \A n \in Tree, s \in 1 .. Sessions : ended[n][s].done => Returned(n, s)
  /\ \A n \in Tree, s \in 1 .. Sessions : ~ended[n][s].done => ~ended[n][s].success
  /\ \A m \in inbox :
       /\ m.from \in Children(m.to)
       /\ ended[m.from][m.session].done
       /\ m.data = ended[m.from][m.session].data

LEMMA CastInvInit == CastInit => CastInv
BY TreeAssumption DEF CastInit, CastInv, CastTypeOK, NotCalled, Result

LEMMA CastInvComplete == CastInv => SuccessIsComplete
<1> SUFFICES ASSUME CastInv, NEW n \in Tree, NEW s \in 1 .. Sessions, ended[n][s].done
             PROVE  /\ ended[n][s].data \subseteq Subtree[n] \X {s}
                    /\ (\A c \in Subtree[n] : ended[c][s].success)
                         => ended[n][s].data = Subtree[n] \X {s}
  BY DEF SuccessIsComplete
<1>1. ended[n][s].data \subseteq Subtree[n] \X {s}
  BY DEF CastInv, Returned
<1>2. ASSUME \A c \in Subtree[n] : ended[c][s].success
      PROVE  Subtree[n] \X {s} \subseteq ended[n][s].data
  <2> DEFINE S == {c \in Subtree[n] : ended[c][s].data \subseteq ended[n][s].data}
  <2>1. n \in S /\ S \subseteq Tree
    BY SubtreeIsClosed
  <2>2. \A c \in Subtree[n] : ended[c][s].done /\ Returned(c, s)
    BY <1>2, SubtreeIsClosed DEF CastInv
  <2>3. ASSUME NEW p \in S, NEW c \in Children(p) PROVE c \in S
    <3>1. c \in Subtree[n]
      BY SubtreeIsClosed
    <3>2. ended[c][s].data \subseteq ended[p][s].data
      BY <1>2, <2>2 DEF Returned
    <3> QED
      BY <3>1, <3>2
  <2>4. Subtree[n] \subseteq S
    <3> HIDE DEF S
    <3> QED
      BY <2>1, <2>3, SubtreeIsLeast
  <2>5. \A c \in Subtree[n] : <<c, s>> \in ended[c][s].data
    BY <1>2, <2>2 DEF Returned
  <2> QED
    BY <2>4, <2>5
<1> QED
  BY <1>1, <1>2

LEMMA CastInvStep == CastInv /\ [CastNext]_castVars => CastInv'
<1> SUFFICES ASSUME CastInv, [CastNext]_castVars PROVE CastInv'
  OBVIOUS
<1>1. ASSUME NEW n \in Tree, Start(n) PROVE CastInv'
  <2>1. CastTypeOK'
    BY <1>1, TreeAssumption DEF CastInv, CastTypeOK, Start, Children, Datum
  <2>2. Collects(n)'
    <3>1. /\ session'[n] \in 1 .. Sessions /\ merged'[n] = {<<n, session'[n]>>}
          /\ waiting'[n] = Children(n)
      BY <1>1, TreeAssumption DEF CastInv, CastTypeOK, Start
    <3>2. n \in Subtree[n]
      BY SubtreeIsClosed
    <3> QED
      BY <3>1, <3>2 DEF Collects
  <2>3. \A k \in Tree \ {n} : stage'[k] = stage[k] /\ session'[k] = session[k]
                        /\ merged'[k] = merged[k] /\ waiting'[k] = waiting[k]
    BY <1>1 DEF CastInv, CastTypeOK, Start
  <2>4. session'[n] = session[n] + 1 /\ ended' = ended /\ inbox' = inbox
    BY <1>1 DEF CastInv, CastTypeOK, Start
  <2>5. \A k \in Tree : stage'[k] # "idle" => Collects(k)'
    <3> SUFFICES ASSUME NEW k \in Tree \ {n}, stage[k] # "idle" PROVE Collects(k)'
      BY <2>2, <2>3
    <3>1. Collects(k)
      BY DEF CastInv
    <3> QED
      BY <2>3, <2>4, <3>1 DEF Collects
  <2>6. session[n] \in Nat
    BY DEF CastInv, CastTypeOK
  <2>7. ~ended[n][session[n] + 1].done
    BY <1>1, <2>6, TreeAssumption DEF CastInv, Start
  <2>8. \A k \in Tree, s \in 1 .. Sessions : Returned(k, s)' <=> Returned(k, s)
    BY <2>4 DEF Returned
  <2>9. \A k \in Tree : stage'[k] # "idle" => ~ended'[k][session'[k]].done
    BY <2>3, <2>4, <2>7 DEF CastInv
  <2>10. \A k \in Tree, s \in 1 .. Sessions : s > session'[k] => ~ended'[k][s].done
    <3> SUFFICES ASSUME NEW k \in Tree, NEW s \in 1 .. Sessions, s > session'[k]
                 PROVE  ~ended[k][s].done
      BY <2>4
    <3>1. s > session[k]
      BY <2>3, <2>4, <2>6
    <3> QED
      BY <3>1 DEF CastInv
  <2> QED
    BY <2>1, <2>4, <2>5, <2>8, <2>9, <2>10 DEF CastInv
<1>2. ASSUME NEW n \in Tree, NEW m \in inbox, m.to = n, Receive(n, m) PROVE CastInv'
  <2>1. CastTypeOK'
    <3>1. m.data \subseteq Datum /\ merged[n] \subseteq Datum /\ waiting[n] \subseteq Tree
      BY <1>2 DEF CastInv, CastTypeOK
    <3>2. /\ merged' \in [Tree -> SUBSET Datum] /\ waiting' \in [Tree -> SUBSET Tree]
          /\ UNCHANGED <<session, stage, ended>> /\ inbox' \subseteq inbox
      <4>1. merged \in [Tree -> SUBSET Datum] /\ waiting \in [Tree -> SUBSET Tree]
        BY DEF CastInv, CastTypeOK
      <4>2. PICK d, w : d = merged[n] \cup m.data /\ w = waiting[n] \ {m.from}
        OBVIOUS
      <4>3. /\ UNCHANGED <<session, stage, ended>> /\ inbox' \subseteq inbox
            /\ \/ UNCHANGED <<merged, waiting>>
               \/ merged' = [merged EXCEPT ![n] = d] /\ waiting' = [waiting EXCEPT ![n] = w]
        BY <1>2, <4>2 DEF Receive
      <4> QED
        BY <3>1, <4>1, <4>2, <4>3
    <3> QED
      BY <3>2 DEF CastInv, CastTypeOK
  <2>2. /\ session' = session /\ stage' = stage /\ ended' = ended
        /\ inbox' \subseteq inbox
    BY <1>2 DEF Receive
  <2>3. \A k \in Tree \ {n} : merged'[k] = merged[k] /\ waiting'[k] = waiting[k]
    BY <1>2 DEF CastInv, CastTypeOK, Receive
  <2>4. Collects(n)'
    <3>1. Collects(n)
      BY <1>2 DEF CastInv, Receive
    <3>2. CASE UNCHANGED <<merged, waiting>>
      BY <2>2, <3>1, <3>2 DEF Collects
    <3>3. CASE ~UNCHANGED <<merged, waiting>>
      <4>1. /\ m.session = session[n] /\ m.from \in waiting[n]
            /\ merged'[n] = merged[n] \cup m.data
            /\ waiting'[n] = waiting[n] \ {m.from}
        BY <1>2, <3>3 DEF CastInv, CastTypeOK, Receive
      <4>2. /\ m.from \in Children(n) /\ ended[m.from][session[n]].done
            /\ m.data = ended[m.from][session[n]].data
        BY <1>2, <4>1 DEF CastInv
      <4>3. m.data \subseteq Subtree[m.from] \X {session[n]}
        BY <3>1, <4>2, ChildsSubtree DEF CastInv, Returned, Collects
      <4>4. m.data \subseteq Subtree[n] \X {session[n]}
        BY <4>2, <4>3, ChildsSubtree
      <4> QED
        BY <2>2, <3>1, <4>1, <4>2, <4>4 DEF Collects
    <3> QED
      BY <3>2, <3>3
  <2>5. \A k \in Tree : stage'[k] # "idle" => Collects(k)'
    <3> SUFFICES ASSUME NEW k \in Tree \ {n}, stage[k] # "idle" PROVE Collects(k)'
      BY <2>2, <2>4
    <3>1. Collects(k)
      BY DEF CastInv
    <3> QED
      BY <2>2, <2>3, <3>1 DEF Collects
  <2>6. \A k \in Tree, s \in 1 .. Sessions : Returned(k, s)' <=> Returned(k, s)
    BY <2>2 DEF Returned
  <2> QED
    BY <2>1, <2>2, <2>5, <2>6 DEF CastInv
<1>3. ASSUME NEW n \in Tree, StopWaiting(n) PROVE CastInv'
  <2>1. CastTypeOK'
    BY <1>3 DEF CastInv, CastTypeOK, StopWaiting
  <2>2. UNCHANGED <<session, waiting, merged, ended, inbox>>
    BY <1>3 DEF StopWaiting
  <2>3. \A k \in Tree : (stage'[k] # "idle" => stage[k] # "idle")
    BY <1>3 DEF CastInv, CastTypeOK, StopWaiting
  <2>4. \A k \in Tree : Collects(k)' <=> Collects(k)
    BY <2>2 DEF Collects
  <2>5. \A k \in Tree, s \in 1 .. Sessions : Returned(k, s)' <=> Returned(k, s)
    BY <2>2 DEF Returned
  <2> QED
    BY <2>1, <2>2, <2>3, <2>4, <2>5 DEF CastInv
<1>4. ASSUME NEW n \in Tree, Finish(n) PROVE CastInv'
  <2>1. Collects(n) /\ ~ended[n][session[n]].done /\ session[n] \in 1 .. Sessions
    BY <1>4 DEF CastInv, Finish, Collects
  <2>2. PICK t, e : t = session[n] /\ e = [done |-> TRUE, success |-> waiting[n] = {}, data |-> merged[n]]
    OBVIOUS
  <2>2a. e \in Result /\ e.done /\ e.data = merged[n] /\ (e.success <=> waiting[n] = {})
    <3>1. PICK b \in BOOLEAN : b = (waiting[n] = {})
      OBVIOUS
    <3>2. e = [done |-> TRUE, success |-> b, data |-> merged[n]]
      BY <2>2, <3>1
    <3>3. merged[n] \in SUBSET Datum
      BY DEF CastInv, CastTypeOK
    <3> QED
      BY <3>1, <3>2, <3>3 DEF Result
  <2>2b. ended' = [ended EXCEPT ![n][t] = e]
    BY <1>4, <2>2 DEF Finish
  <2>3. /\ ended'[n][t] = e
        /\ \A k \in Tree, s \in 1 .. Sessions :
             k # n \/ s # t => ended'[k][s] = ended[k][s]
        /\ session' = session /\ waiting' = waiting /\ merged' = merged
        /\ stage'[n] = "idle"
        /\ \A k \in Tree \ {n} : stage'[k] = stage[k]
    <3>1. /\ ended \in [Tree -> [1 .. Sessions -> Result]] /\ t \in 1 .. Sessions
          /\ stage \in [Tree -> {"idle", "waiting", "sending"}]
      BY <2>1, <2>2 DEF CastInv, CastTypeOK
    <3>2. /\ ended'[n][t] = e
          /\ \A k \in Tree, s \in 1 .. Sessions :
               k # n \/ s # t => ended'[k][s] = ended[k][s]
      BY <2>2b, <3>1
    <3> QED
      BY <1>4, <3>1, <3>2 DEF Finish
  <2>4. /\ ended'[n][t].done /\ ended'[n][t].data = merged[n]
        /\ (ended'[n][t].success <=> waiting[n] = {})
    BY <2>2a, <2>3
  <2>5. CastTypeOK'
    <3>1. ended' \in [Tree -> [1 .. Sessions -> Result]]
      BY <2>1, <2>2, <2>2a, <2>2b DEF CastInv, CastTypeOK
    <3>2. inbox' \subseteq [to : Tree, from : Tree, session : 1 .. Sessions, data : SUBSET Datum]
      BY <1>4, <2>1, TreeAssumption DEF CastInv, CastTypeOK, Finish
    <3> QED
      BY <1>4, <3>1, <3>2 DEF CastInv, CastTypeOK, Finish
  <2>6. \A k \in Tree, s \in 1 .. Sessions :
          ended[k][s].done => ended'[k][s] = ended[k][s]
    BY <2>1, <2>2, <2>3
  <2>7. \A k \in Tree : \A c \in Children(k) : c \in Tree
    BY DEF Children
  <2>8. \A k \in Tree : stage'[k] # "idle" => Collects(k)'
    <3> SUFFICES ASSUME NEW k \in Tree, k # n, stage[k] # "idle" PROVE Collects(k)'
      BY <2>3
    <3>1. Collects(k)
      BY DEF CastInv
    <3> QED
      BY <2>3, <2>6, <2>7, <3>1 DEF Collects
  <2>9. \A k \in Tree, s \in 1 .. Sessions : ended'[k][s].done => Returned(k, s)'
    <3> SUFFICES ASSUME NEW k \in Tree, NEW s \in 1 .. Sessions, ended'[k][s].done
                 PROVE  Returned(k, s)'
      OBVIOUS
    <3>1. CASE k = n /\ s = t
      <4>1. \A c \in Children(n) \ waiting[n] :
              ended'[c][t].done /\ ended'[c][t].data \subseteq merged[n]
        BY <2>1, <2>2, <2>6, <2>7 DEF Collects
      <4>2. merged[n] \subseteq Subtree[n] \X {t} /\ <<n, t>> \in merged[n]
        BY <2>1, <2>2 DEF Collects
      <4> QED
        BY <2>4, <3>1, <4>1, <4>2 DEF Returned
    <3>2. CASE ~(k = n /\ s = t)
      <4>1. ended'[k][s] = ended[k][s] /\ Returned(k, s)
        BY <2>3, <3>2 DEF CastInv
      <4> QED
        BY <2>6, <2>7, <4>1 DEF Returned
    <3> QED
      BY <3>1, <3>2
  <2>10. \A m \in inbox' :
           /\ m.from \in Children(m.to)
           /\ ended'[m.from][m.session].done
           /\ m.data = ended'[m.from][m.session].data
    <3> SUFFICES ASSUME NEW m \in inbox'
                 PROVE  /\ m.from \in Children(m.to)
                        /\ ended'[m.from][m.session].done
                        /\ m.data = ended'[m.from][m.session].data
      OBVIOUS
    <3>1. CASE m \in inbox
      <4>1. m.from \in Tree /\ m.session \in 1 .. Sessions
        BY <3>1 DEF CastInv, CastTypeOK
      <4> QED
        BY <2>6, <3>1, <4>1 DEF CastInv
    <3>2. CASE m \notin inbox
      <4>1. /\ Parent(n) # Root
            /\ m = [to |-> Parent(n), from |-> n, session |-> t, data |-> merged[n]]
        BY <1>4, <2>2, <3>2 DEF Finish
      <4>2. n \in Children(Parent(n))
        BY DEF Children
      <4> QED
        BY <2>4, <4>1, <4>2
    <3> QED
      BY <3>1, <3>2
  <2>11. \A k \in Tree : stage'[k] # "idle" => ~ended'[k][session'[k]].done
    <3> SUFFICES ASSUME NEW k \in Tree, k # n, stage[k] # "idle"
                 PROVE  ~ended'[k][session[k]].done
      BY <2>3
    <3>1. Collects(k) /\ ~ended[k][session[k]].done
      BY DEF CastInv
    <3> QED
      BY <2>3, <3>1 DEF Collects
  <2>12. \A k \in Tree, s \in 1 .. Sessions : s > session'[k] => ~ended'[k][s].done
    <3> SUFFICES ASSUME NEW k \in Tree, NEW s \in 1 .. Sessions, s > session[k]
                 PROVE  ~ended'[k][s].done
      BY <2>3
    <3>1. ~(k = n /\ s = t) /\ ~ended[k][s].done
      BY <2>1, <2>2 DEF CastInv
    <3> QED
      BY <2>3, <3>1
  <2>13. \A k \in Tree, s \in 1 .. Sessions : ~ended'[k][s].done => ~ended'[k][s].success
    <3> SUFFICES ASSUME NEW k \in Tree, NEW s \in 1 .. Sessions, ~ended'[k][s].done
                 PROVE  ~ended'[k][s].success
      OBVIOUS
    <3>1. ended'[k][s] = ended[k][s]
      BY <2>3, <2>4
    <3> QED
      BY <3>1 DEF CastInv
  <2> QED
    BY <2>5, <2>8, <2>9, <2>10, <2>11, <2>12, <2>13 DEF CastInv
<1>5. CASE UNCHANGED castVars
  BY <1>5 DEF castVars, CastInv, CastTypeOK, Collects, Returned
<1> QED
  BY <1>1, <1>2, <1>3, <1>4, <1>5 DEF CastNext

\* Whatever is lost or late, a node returns data of that session from its own
\* subtree, and all of it when every node of the subtree reported success.
THEOREM CastComplete == CastSpec => []SuccessIsComplete
BY CastInvInit, CastInvStep, CastInvComplete, PTL DEF CastSpec
=============================================================================
