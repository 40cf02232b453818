------------------------- MODULE IntentMesh_proofs -------------------------
(***************************************************************************)
(* Theorems about IntentMesh, for every mesh, peer list, set of requests,  *)
(* queue capacity and number of faults.                                    *)
(***************************************************************************)
EXTENDS IntentClient, ConsensusRules_proofs, FiniteSetTheorems, SequenceTheorems,
        TLAPS

-----------------------------------------------------------------------------
(***************************************************************************)
(* Type correctness. The timestamp of a verdict counts the verdicts cast   *)
(* before it, so it is a number only because finitely many were.           *)
(***************************************************************************)

TypeInv == TypeOK /\ IsFiniteSet(cast)

LEMMA TypeInit == Init => TypeInv
<1> SUFFICES ASSUME Init PROVE TypeInv
  OBVIOUS
<1>1. IsFiniteSet(cast)
  BY FS_EmptySet DEF Init
<1>2. <<>> \in Seq(Messages) /\ <<>> \in Seq(Verdicts)
  BY EmptySeq
<1>3. threshold \in [Req -> Modes]
  BY MeshAssumption DEF Init
<1>4. QED
  BY <1>1, <1>2, <1>3 DEF Init, TypeInv, TypeOK, Phases, NotDraining

\* What a message is can be told from its type.
LEMMA MessageKinds ==
  ASSUME NEW m \in Messages
  PROVE  /\ m.type = "verdict" => m \in Verdicts
         /\ m.type # "verdict" => m \in Intents
BY DEF Messages, Intents, Verdicts

\* A push keeps a queue a sequence of messages, full or not.
LEMMA PushType ==
  ASSUME NEW q \in Seq(Messages), NEW m \in Messages
  PROVE  Push(q, m) \in Seq(Messages)
<1>1. CASE Len(q) >= QueueCapacity
  <2>1. q # <<>>
    BY <1>1, MeshAssumption, EmptySeq
  <2>2. Tail(q) \in Seq(Messages)
    BY <2>1, HeadTailProperties
  <2> QED
    BY <1>1, <2>2, AppendProperties DEF Push
<1>2. CASE ~(Len(q) >= QueueCapacity)
  BY <1>2, AppendProperties DEF Push
<1> QED
  BY <1>1, <1>2

\* A step that only sends a message to a node keeps the network well typed.
LEMMA TransmitType ==
  ASSUME TypeOK, NEW o \in SendOutcomes, NEW to \in Node, NEW m \in Messages,
         Transmit(o, to, m)
  PROVE  net' \in SUBSET [to : Node, msg : Messages]
BY DEF TypeOK, Transmit

\* What a listener holds can be told from what it is doing.
LEMMA ListenerKinds ==
  ASSUME TypeOK, NEW g \in Node
  PROVE  /\ listener[g].at \in {"judging", "failing"}
              => listener[g] \in [at : {"judging", "failing"}, msg : Intents]
         /\ listener[g].at = "spooling"
              => listener[g] \in [at : {"spooling"}, msg : Verdicts]
<1>1. \/ listener[g] = Idle
      \/ listener[g] \in [at : {"judging", "failing"}, msg : Intents]
      \/ listener[g] \in [at : {"spooling"}, msg : Verdicts]
  BY DEF TypeOK
<1>2. Idle.at = "idle"
  BY DEF Idle
<1> QED
  BY <1>1, <1>2

\* A verdict sent by a listener that holds an intent is a verdict message, and
\* the history of what was cast stays finite.
LEMMA SendType ==
  ASSUME TypeInv, NEW g \in Node, NEW o \in SendOutcomes, NEW raw \in RawVerdicts,
         listener[g].at \in {"judging", "failing"}, Send(g, o, raw)
  PROVE  /\ listener[g].msg \in Intents
         /\ net' \in SUBSET [to : Node, msg : Messages]
         /\ cast' \in SUBSET Verdicts
         /\ IsFiniteSet(cast')
<1> DEFINE v == Verdict(g, Timestamp(g), raw, listener[g].msg.req)
<1>1. listener[g].msg \in Intents
  BY ListenerKinds DEF TypeInv
<1>2. Timestamp(g) \in Nat
  <2>1. IsFiniteSet({w \in cast : w.from = g})
    BY FS_Subset DEF TypeInv
  <2> QED
    BY <2>1, FS_CardinalityType DEF Timestamp
<1>3. v \in Verdicts
  BY <1>1, <1>2 DEF Verdict, Verdicts, Intents
<1>4. cast' = cast \cup {v} /\ Transmit(o, Hub, v)
  BY DEF Send
<1>5. net' \in SUBSET [to : Node, msg : Messages]
  <2>1. v \in Messages
    BY <1>3 DEF Messages
  <2> QED
    BY <1>4, <2>1, TransmitType, MeshAssumption DEF TypeInv
<1>6. IsFiniteSet(cast')
  BY <1>4, FS_AddElement DEF TypeInv
<1> QED
  BY <1>1, <1>3, <1>4, <1>5, <1>6 DEF TypeInv, TypeOK

\* What the rows of a request become when a drain ends.
LEMMA DrainedRows ==
  ASSUME TypeOK, NEW r \in Req, DrainTruncate(r)
  PROVE  \E j \in 0 .. Len(drain.rows) :
           /\ PushedRows(out[r], drain.rows, j, okPeers[r])
           /\ FirstRows(drain.rows, j) \in SUBSET Verdicts
           /\ out' = [out EXCEPT ![r] = @ \cup FirstRows(drain.rows, j)]
<1>1. PICK j \in 0 .. Len(drain.rows) :
        /\ PushedRows(out[r], drain.rows, j, okPeers[r])
        /\ out' = [out EXCEPT ![r] = @ \cup FirstRows(drain.rows, j)]
  BY DEF DrainTruncate
<1>2. drain.rows \in Seq(Verdicts)
  BY DEF TypeOK
<1>3. \A k \in 1 .. j : drain.rows[k] \in Verdicts
  BY <1>2, ElementOfSeq, LenProperties
<1>4. FirstRows(drain.rows, j) \in SUBSET Verdicts
  BY <1>3 DEF FirstRows
<1> QED
  BY <1>1, <1>4

LEMMA TypeStep == TypeInv /\ [Next]_vars => TypeInv'
<1> SUFFICES ASSUME TypeInv, [Next]_vars PROVE TypeInv'
  OBVIOUS
<1> USE DEF webVars, nodeVars
<1>1. ASSUME NEW r \in Req, StartRequest(r) PROVE TypeInv'
  BY <1>1 DEF TypeInv, TypeOK, StartRequest, PeersResolved, Goto, Phases
<1>2. ASSUME NEW r \in Req, NEW o \in SendOutcomes, SendIntent(r, o) PROVE TypeInv'
  <2>1. Peers[next[r]] \in Node /\ next[r] \in DOMAIN Peers
    BY <1>2, MeshAssumption, ElementOfSeq, LenProperties DEF SendIntent, TypeInv, TypeOK
  <2>2. Intent(r, next[r]) \in Messages
    BY <2>1 DEF Intent, Intents, Messages
  <2>3. net' \in SUBSET [to : Node, msg : Messages]
    BY <1>2, <2>1, <2>2, TransmitType DEF SendIntent, TypeInv
  <2>4. faults' \in Nat
    BY <1>2 DEF SendIntent, Outcome, TypeInv, TypeOK
  <2>5. next' \in [Req -> Nat \ {0}] /\ okPeers' \in [Req -> Nat]
    BY <1>2 DEF SendIntent, TypeInv, TypeOK
  <2> QED
    BY <1>2, <2>3, <2>4, <2>5 DEF SendIntent, TypeInv, TypeOK
<1>3. ASSUME NEW r \in Req, FinishBroadcast(r) PROVE TypeInv'
  BY <1>3 DEF TypeInv, TypeOK, FinishBroadcast, Goto, Phases
<1>4. ASSUME NEW r \in Req, Expire(r) PROVE TypeInv'
  BY <1>4 DEF TypeInv, TypeOK, Expire
<1>5. ASSUME NEW r \in Req, DrainRead(r) PROVE TypeInv'
  BY <1>5 DEF TypeInv, TypeOK, DrainRead
<1>6. ASSUME NEW r \in Req, DrainTruncate(r) PROVE TypeInv'
  <2>1. PICK rows \in SUBSET Verdicts : out' = [out EXCEPT ![r] = @ \cup rows]
    BY <1>6, DrainedRows DEF TypeInv
  <2>2. out' \in [Req -> SUBSET Verdicts]
    BY <2>1 DEF TypeInv, TypeOK
  <2>3. spool' \in Seq(Verdicts) /\ drain' \in [by : Req \cup {None}, rows : Seq(Verdicts)]
    BY <1>6, EmptySeq DEF DrainTruncate, NotDraining
  <2>4. phase' \in [Req -> Phases]
    BY <1>6 DEF DrainTruncate, Goto, Phases, TypeInv, TypeOK
  <2> QED
    BY <1>6, <2>2, <2>3, <2>4 DEF DrainTruncate, TypeInv, TypeOK
<1>7. ASSUME NEW r \in Req, PollRecv(r) PROVE TypeInv'
  <2>1. phase' \in [Req -> Phases]
    BY <1>7 DEF PollRecv, Pop, Goto, Phases, TypeInv, TypeOK
  <2>2. CASE queue[Hub] = <<>>
    BY <1>7, <2>1, <2>2 DEF PollRecv, Pop, TypeInv, TypeOK
  <2>3. CASE queue[Hub] # <<>>
    <3>1. Head(queue[Hub]) \in Messages /\ Tail(queue[Hub]) \in Seq(Messages)
      BY <2>3, MeshAssumption, HeadTailProperties DEF TypeInv, TypeOK
    <3>2. out' \in [Req -> SUBSET Verdicts]
      <4> DEFINE m == Head(queue[Hub])
      <4>1. out' = IF m.type = "verdict" THEN [out EXCEPT ![r] = @ \cup {m}] ELSE out
        BY <1>7, <2>3 DEF PollRecv, Pop
      <4>2. m.type = "verdict" => m \in Verdicts
        BY <3>1, MessageKinds
      <4> HIDE DEF m
      <4> QED
        BY <4>1, <4>2 DEF TypeInv, TypeOK
    <3>3. queue' \in [Node -> Seq(Messages)]
      BY <1>7, <2>3, <3>1 DEF PollRecv, Pop, TypeInv, TypeOK
    <3> QED
      BY <1>7, <2>1, <3>2, <3>3 DEF PollRecv, Pop, TypeInv, TypeOK
  <2> QED
    BY <2>2, <2>3
<1>8. ASSUME NEW r \in Req, Decide(r) PROVE TypeInv'
  BY <1>8 DEF TypeInv, TypeOK, Decide, Goto, Phases
<1>9. ASSUME NEW g \in Node, ListenerPop(g) PROVE TypeInv'
  <2>1. Head(queue[g]) \in Messages /\ Tail(queue[g]) \in Seq(Messages)
    BY <1>9, HeadTailProperties DEF ListenerPop, Pop, TypeInv, TypeOK
  <2>2. queue' \in [Node -> Seq(Messages)]
    BY <1>9, <2>1 DEF ListenerPop, Pop, TypeInv, TypeOK
  <2> DEFINE state == [at |-> IF Head(queue[g]).type = "verdict"
                              THEN "spooling" ELSE "judging",
                       msg |-> Head(queue[g])]
  <2>3. \/ state \in [at : {"judging", "failing"}, msg : Intents]
        \/ state \in [at : {"spooling"}, msg : Verdicts]
    BY <2>1, MessageKinds
  <2>4. listener' = [listener EXCEPT ![g] = state]
    BY <1>9 DEF ListenerPop, Pop, Become
  <2> HIDE DEF state
  <2> QED
    BY <1>9, <2>2, <2>3, <2>4 DEF ListenerPop, Pop, TypeInv, TypeOK
<1>10. ASSUME NEW g \in Node, ListenerSpool(g) PROVE TypeInv'
  <2>1. listener[g].msg \in Verdicts
    BY <1>10, ListenerKinds DEF ListenerSpool, TypeInv
  <2>2. spool' \in Seq(Verdicts)
    BY <1>10, <2>1, AppendProperties DEF ListenerSpool, TypeInv, TypeOK
  <2> QED
    BY <1>10, <2>2 DEF ListenerSpool, Become, TypeInv, TypeOK
<1>11. ASSUME NEW g \in Node, NEW raw \in Ballots, NEW o \in SendOutcomes,
              Judge(g, raw, o)
       PROVE  TypeInv'
  <2>1. raw \in RawVerdicts
    BY MeshAssumption DEF RawVerdicts
  <2>2. /\ listener[g].msg \in Intents
        /\ net' \in SUBSET [to : Node, msg : Messages]
        /\ cast' \in SUBSET Verdicts
        /\ IsFiniteSet(cast')
    BY <1>11, <2>1, SendType DEF Judge
  <2>3. [listener[g] EXCEPT !.at = "failing"]
          \in [at : {"judging", "failing"}, msg : Intents]
    BY <1>11, ListenerKinds DEF Judge, TypeInv
  <2>4. listener' \in [Node -> {Idle}
                    \cup [at : {"judging", "failing"}, msg : Intents]
                    \cup [at : {"spooling"}, msg : Verdicts]]
    BY <1>11, <2>3 DEF Judge, Become, TypeInv, TypeOK
  <2>5. faults' \in Nat
    BY <1>11 DEF Judge, Outcome, TypeInv, TypeOK
  <2> QED
    BY <1>11, <2>2, <2>4, <2>5 DEF Judge, TypeInv, TypeOK
<1>12. ASSUME NEW g \in Node, NEW o \in SendOutcomes, SendErrorVerdict(g, o)
       PROVE  TypeInv'
  <2>1. /\ net' \in SUBSET [to : Node, msg : Messages]
        /\ cast' \in SUBSET Verdicts
        /\ IsFiniteSet(cast')
    BY <1>12, SendType DEF SendErrorVerdict, RawVerdicts
  <2>2. faults' \in Nat
    BY <1>12 DEF SendErrorVerdict, Outcome, TypeInv, TypeOK
  <2> QED
    BY <1>12, <2>1, <2>2 DEF SendErrorVerdict, Become, TypeInv, TypeOK
<1>13. ASSUME NEW g \in Node, ListenerRestart(g) PROVE TypeInv'
  BY <1>13 DEF ListenerRestart, Become, TypeInv, TypeOK
<1>14. ASSUME NEW p \in net, Deliver(p) PROVE TypeInv'
  <2>1. p \in [to : Node, msg : Messages]
    BY DEF TypeInv, TypeOK
  <2>2. Push(queue[p.to], p.msg) \in Seq(Messages)
    BY <2>1, PushType DEF TypeInv, TypeOK
  <2> QED
    BY <1>14, <2>1, <2>2 DEF Deliver, TypeInv, TypeOK
<1>15. CASE UNCHANGED vars
  BY <1>15 DEF vars, TypeInv, TypeOK
<1>16. ASSUME NEW r \in Req, WebStep(r) PROVE TypeInv'
  BY <1>16, <1>1, <1>2, <1>3, <1>5, <1>6, <1>7, <1>8 DEF WebStep
<1>17. ASSUME NEW g \in Node, ListenerStep(g) PROVE TypeInv'
  BY <1>17, <1>9, <1>10, <1>11, <1>12 DEF ListenerStep
<1> QED
  BY <1>4, <1>13, <1>14, <1>15, <1>16, <1>17 DEF Next

\* Every reachable state is well typed: the rows a request collects, the lines
\* of the spool and what the listeners spool are verdicts, never intents, in
\* whatever order the two readers of the hub's queue take its messages.
THEOREM TypeCorrect == Spec => []TypeOK
<1>1. TypeInv => TypeOK
  BY DEF TypeInv
<1> QED
  BY TypeInit, TypeStep, <1>1, PTL DEF Spec

-----------------------------------------------------------------------------
(***************************************************************************)
(* A request never holds more rows than sends that reported success, nor   *)
(* more successes than sends. The bound on the rows is what the consensus  *)
(* silently relies on; it rests on the test made before each push of a     *)
(* drain, and on the poll of the queue being reached only below the bound. *)
(***************************************************************************)

RowsWithinSends(r) ==
  /\ next[r] <= Len(Peers) + 1
  /\ okPeers[r] <= next[r] - 1
  /\ IsFiniteSet(out[r])
  /\ Cardinality(out[r]) <= okPeers[r]
  /\ phase[r] = "recv" => Cardinality(out[r]) < okPeers[r]

Collected == \A r \in Req : RowsWithinSends(r)

LEMMA FirstRowsFinite ==
  ASSUME NEW rows \in Seq(Verdicts), NEW j \in Nat
  PROVE  IsFiniteSet(FirstRows(rows, j))
<1> DEFINE f == [k \in 1 .. j |-> rows[k]]
<1>1. IsFiniteSet(1 .. j)
  BY FS_Interval
<1>2. f \in Surjection(1 .. j, FirstRows(rows, j))
  BY DEF Surjection, FirstRows
<1> QED
  BY <1>1, <1>2, FS_Surjection

\* One more row keeps a list that was below its limit within it.
LEMMA RoomForOne ==
  ASSUME NEW S, IsFiniteSet(S), NEW x, NEW limit \in Nat, Cardinality(S) < limit
  PROVE  IsFiniteSet(S \cup {x}) /\ Cardinality(S \cup {x}) <= limit
<1>1. Cardinality(S) \in Nat /\ IsFiniteSet(S \cup {x})
  BY FS_CardinalityType, FS_AddElement
<1>2. CASE x \in S
  BY <1>1, <1>2, FS_AddElement
<1>3. CASE x \notin S
  <2>1. Cardinality(S \cup {x}) = Cardinality(S) + 1
    BY <1>3, FS_AddElement
  <2> QED
    BY <1>1, <2>1
<1> QED
  BY <1>2, <1>3

\* A drain stops pushing as soon as the limit is reached.
LEMMA PushedWithinLimit ==
  ASSUME NEW seen, IsFiniteSet(seen), NEW limit \in Nat,
         Cardinality(seen) <= limit,
         NEW rows \in Seq(Verdicts), NEW j \in 0 .. Len(rows),
         PushedRows(seen, rows, j, limit)
  PROVE  /\ IsFiniteSet(seen \cup FirstRows(rows, j))
         /\ Cardinality(seen \cup FirstRows(rows, j)) <= limit
<1>1. CASE j = 0
  <2>1. seen \cup FirstRows(rows, j) = seen
    BY <1>1 DEF FirstRows
  <2> QED
    BY <2>1
<1>2. CASE j # 0
  <2>1. j \in Nat \ {0} /\ j - 1 \in Nat
    BY <1>2, LenProperties
  <2> DEFINE before == seen \cup FirstRows(rows, j - 1)
  <2>2. IsFiniteSet(before)
    BY <2>1, FirstRowsFinite, FS_Union
  <2>3. Cardinality(before) < limit
    BY <1>2 DEF PushedRows
  <2>4. FirstRows(rows, j) = FirstRows(rows, j - 1) \cup {rows[j]}
    BY <2>1 DEF FirstRows
  <2>5. seen \cup FirstRows(rows, j) = before \cup {rows[j]}
    BY <2>4
  <2> HIDE DEF before
  <2> QED
    BY <2>2, <2>3, <2>5, RoomForOne
<1> QED
  BY <1>1, <1>2

LEMMA CollectedInit == Init => Collected
<1> SUFFICES ASSUME Init, NEW r \in Req PROVE RowsWithinSends(r)
  BY DEF Collected
<1>1. Len(Peers) \in Nat
  BY MeshAssumption, LenProperties
<1> QED
  BY <1>1, FS_EmptySet DEF Init, RowsWithinSends

LEMMA CollectedStep == TypeOK /\ Collected /\ [Next]_vars => Collected'
<1> SUFFICES ASSUME TypeOK, Collected, [Next]_vars, NEW s \in Req
             PROVE  RowsWithinSends(s)'
  BY DEF Collected
<1> USE DEF webVars, nodeVars
<1>a. RowsWithinSends(s)
  BY DEF Collected
<1>b. /\ next[s] \in Nat \ {0} /\ okPeers[s] \in Nat
      /\ Len(Peers) \in Nat /\ Cardinality(out[s]) \in Nat
  BY <1>a, MeshAssumption, LenProperties, FS_CardinalityType
  DEF TypeOK, RowsWithinSends
\* A step that leaves the request's rows and sends alone, and does not take it
\* to the queue.
<1>c. ASSUME UNCHANGED <<next, okPeers, out>>, phase'[s] = "recv" => phase[s] = "recv"
      PROVE  RowsWithinSends(s)'
  BY <1>a, <1>c DEF RowsWithinSends
<1>1. ASSUME NEW r \in Req, StartRequest(r) PROVE RowsWithinSends(s)'
  BY <1>1, <1>c DEF StartRequest, PeersResolved, Goto, TypeOK
<1>2. ASSUME NEW r \in Req, NEW o \in SendOutcomes, SendIntent(r, o)
      PROVE  RowsWithinSends(s)'
  <2>1. CASE r = s
    BY <1>2, <1>a, <1>b, <2>1 DEF SendIntent, RowsWithinSends, TypeOK
  <2>2. CASE r # s
    BY <1>2, <1>a, <2>2 DEF SendIntent, RowsWithinSends, TypeOK
  <2> QED
    BY <2>1, <2>2
<1>3. ASSUME NEW r \in Req, FinishBroadcast(r) PROVE RowsWithinSends(s)'
  BY <1>3, <1>c DEF FinishBroadcast, Goto, TypeOK
<1>4. ASSUME NEW r \in Req, Expire(r) PROVE RowsWithinSends(s)'
  BY <1>4, <1>c DEF Expire
<1>5. ASSUME NEW r \in Req, DrainRead(r) PROVE RowsWithinSends(s)'
  BY <1>5, <1>c DEF DrainRead
<1>6. ASSUME NEW r \in Req, DrainTruncate(r) PROVE RowsWithinSends(s)'
  <2>1. PICK j \in 0 .. Len(drain.rows) :
          /\ PushedRows(out[r], drain.rows, j, okPeers[r])
          /\ out' = [out EXCEPT ![r] = @ \cup FirstRows(drain.rows, j)]
    BY <1>6, DrainedRows
  <2>2. CASE r = s
    <3>1. drain.rows \in Seq(Verdicts)
      BY DEF TypeOK
    <3>2. /\ IsFiniteSet(out[s] \cup FirstRows(drain.rows, j))
          /\ Cardinality(out[s] \cup FirstRows(drain.rows, j)) <= okPeers[s]
      BY <1>a, <1>b, <2>1, <2>2, <3>1, PushedWithinLimit DEF RowsWithinSends
    <3>3. out'[s] = out[s] \cup FirstRows(drain.rows, j)
      BY <2>1, <2>2 DEF TypeOK
    <3>4. Cardinality(out'[s]) \in Nat
      BY <3>2, <3>3, FS_CardinalityType
    <3>5. phase'[s] = "recv" => Cardinality(out'[s]) < okPeers[s]
      BY <1>6, <1>b, <2>2, <3>4 DEF DrainTruncate, Goto, TypeOK
    <3> QED
      BY <1>6, <1>a, <3>2, <3>3, <3>5 DEF DrainTruncate, RowsWithinSends
  <2>3. CASE r # s
    BY <1>6, <1>a, <2>1, <2>3 DEF DrainTruncate, Goto, RowsWithinSends, TypeOK
  <2> QED
    BY <2>2, <2>3
<1>7. ASSUME NEW r \in Req, PollRecv(r) PROVE RowsWithinSends(s)'
  <2>1. CASE r = s
    <3>1. Cardinality(out[s]) < okPeers[s] /\ IsFiniteSet(out[s])
      BY <1>7, <1>a, <2>1 DEF PollRecv, Pop, RowsWithinSends
    <3>2. phase'[s] = "poll"
      BY <1>7, <2>1 DEF PollRecv, Pop, Goto, TypeOK
    <3>3. out'[s] = out[s] \/ out'[s] = out[s] \cup {Head(queue[Hub])}
      BY <1>7, <2>1 DEF PollRecv, Pop, TypeOK
    <3>4. IsFiniteSet(out'[s]) /\ Cardinality(out'[s]) <= okPeers[s]
      <4> DEFINE m == Head(queue[Hub])
      <4>1. /\ IsFiniteSet(out[s] \cup {m})
            /\ Cardinality(out[s] \cup {m}) <= okPeers[s]
        <5> HIDE DEF m
        <5> QED
          BY <1>b, <3>1, RoomForOne
      <4>2. CASE out'[s] = out[s]
        BY <1>b, <3>1, <4>2
      <4>3. CASE out'[s] = out[s] \cup {m}
        BY <4>1, <4>3
      <4> QED
        BY <3>3, <4>2, <4>3
    <3> QED
      BY <1>7, <1>a, <3>2, <3>4 DEF PollRecv, Pop, RowsWithinSends
  <2>2. CASE r # s
    BY <1>7, <1>a, <2>2 DEF PollRecv, Pop, Goto, RowsWithinSends, TypeOK
  <2> QED
    BY <2>1, <2>2
<1>8. ASSUME NEW r \in Req, Decide(r) PROVE RowsWithinSends(s)'
  BY <1>8, <1>c DEF Decide, Goto, TypeOK
<1>9. ASSUME NEW g \in Node, ListenerStep(g) PROVE RowsWithinSends(s)'
  BY <1>9, <1>c
  DEF ListenerStep, ListenerPop, ListenerSpool, Judge, SendErrorVerdict
<1>10. ASSUME NEW g \in Node, ListenerRestart(g) PROVE RowsWithinSends(s)'
  BY <1>10, <1>c DEF ListenerRestart
<1>11. ASSUME NEW p \in net, Deliver(p) PROVE RowsWithinSends(s)'
  BY <1>11, <1>c DEF Deliver
<1>12. CASE UNCHANGED vars
  BY <1>12, <1>c DEF vars
<1>13. ASSUME NEW r \in Req, WebStep(r) PROVE RowsWithinSends(s)'
  BY <1>13, <1>1, <1>2, <1>3, <1>5, <1>6, <1>7, <1>8 DEF WebStep
<1> QED
  BY <1>4, <1>9, <1>10, <1>11, <1>12, <1>13 DEF Next

LEMMA InvariantHolds == Spec => [](TypeOK /\ Collected)
<1>1. TypeInv => TypeOK
  BY DEF TypeInv
<1> QED
  BY TypeInit, TypeStep, <1>1, CollectedInit, CollectedStep, PTL DEF Spec

-----------------------------------------------------------------------------
(***************************************************************************)
(* From rows to decisions: the three counters of a request add up to the   *)
(* number of its rows, so what is known of the rows reaches the rules.     *)
(***************************************************************************)

LEMMA DisjointUnion ==
  ASSUME NEW S, IsFiniteSet(S), NEW T, IsFiniteSet(T), S \cap T = {}
  PROVE  /\ IsFiniteSet(S \cup T)
         /\ Cardinality(S \cup T) = Cardinality(S) + Cardinality(T)
<1>1. Cardinality(S) \in Nat /\ Cardinality(T) \in Nat
  BY FS_CardinalityType
<1>2. Cardinality(S \cap T) = 0
  BY FS_EmptySet
<1>3. /\ IsFiniteSet(S \cup T)
      /\ Cardinality(S \cup T)
           = Cardinality(S) + Cardinality(T) - Cardinality(S \cap T)
  BY FS_Union
<1> QED
  BY <1>1, <1>2, <1>3

LEMMA CountersAddUp ==
  ASSUME NEW rows, IsFiniteSet(rows)
  PROVE  /\ CountsOf(rows) \in Counts
         /\ Total(CountsOf(rows)) = Cardinality(rows)
         /\ CountsOf(rows).approve = Cardinality(Votes(rows, "approve"))
<1> DEFINE A == Votes(rows, "approve")
           B == Votes(rows, "block")
           C == Votes(rows, "invalid")
<1>1. /\ A \subseteq rows /\ B \subseteq rows /\ C \subseteq rows
      /\ rows = (A \cup B) \cup C
      /\ A \cap B = {} /\ (A \cup B) \cap C = {}
  BY DEF Votes, ClassifyVote
<1>2. IsFiniteSet(A) /\ IsFiniteSet(B) /\ IsFiniteSet(C)
  BY <1>1, FS_Subset
<1>3. /\ Cardinality(A) \in Nat /\ Cardinality(B) \in Nat /\ Cardinality(C) \in Nat
  BY <1>2, FS_CardinalityType
<1>4. CountsOf(rows) = [approve |-> Cardinality(A), block |-> Cardinality(B),
                        invalid |-> Cardinality(C)]
  BY DEF CountsOf
<1> HIDE DEF A, B, C
<1>5. IsFiniteSet(A \cup B) /\ Cardinality(A \cup B) = Cardinality(A) + Cardinality(B)
  BY <1>1, <1>2, DisjointUnion
<1>6. Cardinality(rows) = Cardinality(A) + Cardinality(B) + Cardinality(C)
  <2>1. Cardinality((A \cup B) \cup C) = Cardinality(A \cup B) + Cardinality(C)
    BY <1>1, <1>2, <1>5, DisjointUnion
  <2> QED
    BY <1>1, <1>5, <2>1
<1>7. CountsOf(rows) \in Counts /\ Total(CountsOf(rows)) = Cardinality(rows)
  BY <1>3, <1>4, <1>6 DEF Counts, Total
<1>8. CountsOf(rows).approve = Cardinality(A)
  BY <1>4
<1> QED
  BY <1>7, <1>8 DEF A

\* What an execution says about the rows of its request.
LEMMA ExecutionRests ==
  ASSUME TypeOK, Collected, NEW r \in Req, Executes(r)
  PROVE  /\ Cardinality(out[r]) \in Nat
         /\ Cardinality(out[r]) <= okPeers[r] /\ okPeers[r] <= Len(Peers)
         /\ CountsOf(out[r]) \in Counts
         /\ Total(CountsOf(out[r])) = Cardinality(out[r])
         /\ CountsOf(out[r]).approve = Cardinality(Votes(out[r], "approve"))
         /\ DocumentedExecute(threshold[r], CountsOf(out[r]), Len(Peers))
<1>1. RowsWithinSends(r)
  BY DEF Collected
<1>2. /\ Len(Peers) \in Nat \ {0} /\ threshold[r] \in Modes
      /\ next[r] \in Nat /\ okPeers[r] \in Nat
  BY MeshAssumption, LenProperties DEF TypeOK
<1>3. Cardinality(out[r]) \in Nat /\ IsFiniteSet(out[r])
  BY <1>1, FS_CardinalityType DEF RowsWithinSends
<1>4. Cardinality(out[r]) <= okPeers[r] /\ okPeers[r] <= Len(Peers)
  BY <1>1, <1>2, <1>3 DEF RowsWithinSends
<1>5. /\ CountsOf(out[r]) \in Counts
      /\ Total(CountsOf(out[r])) = Cardinality(out[r])
      /\ CountsOf(out[r]).approve = Cardinality(Votes(out[r], "approve"))
  BY <1>3, CountersAddUp
<1>6. Total(CountsOf(out[r])) <= Len(Peers)
  BY <1>2, <1>3, <1>4, <1>5
<1>7. DocumentedExecute(threshold[r], CountsOf(out[r]), Len(Peers))
  BY <1>2, <1>5, <1>6, ConsensusExecutes DEF Executes, Decision
<1> QED
  BY <1>3, <1>4, <1>5, <1>7

\* However the sends fail, the messages interleave and the deadline falls:
\* under phase5 and unanimous an intent is executed only if every send
\* reported success and as many rows as guardians came back.
THEOREM StrictModes == Spec => []StrictModesNeedEveryGuardian
<1>1. ASSUME TypeOK, Collected PROVE StrictModesNeedEveryGuardian
  <2> SUFFICES ASSUME NEW r \in Req, Executes(r),
                      threshold[r] \in {"phase5", "unanimous"}
               PROVE  okPeers[r] = Len(Peers) /\ Cardinality(out[r]) = Len(Peers)
    BY DEF StrictModesNeedEveryGuardian
  <2> DEFINE c == CountsOf(out[r])
  <2>1. /\ Cardinality(out[r]) \in Nat
        /\ Cardinality(out[r]) <= okPeers[r] /\ okPeers[r] <= Len(Peers)
        /\ c \in Counts /\ Total(c) = Cardinality(out[r])
        /\ DocumentedExecute(threshold[r], c, Len(Peers))
    BY <1>1, ExecutionRests
  <2>2. okPeers[r] \in Nat /\ Len(Peers) \in Nat
    BY <1>1, MeshAssumption, LenProperties DEF TypeOK
  <2> HIDE DEF c
  <2>3. Total(c) >= Len(Peers)
    BY <2>1, <2>2 DEF DocumentedExecute, Counts, Total
  <2> QED
    BY <2>1, <2>2, <2>3
<1> QED
  BY InvariantHolds, <1>1, PTL

\* In every mode but "any", the rows collected for an executed intent hold more
\* APPROVE verdicts than half of the guardians addressed.
THEOREM ExecutionBackedByRows == Spec => []ExecuteBackedByRows
<1>1. ASSUME TypeOK, Collected PROVE ExecuteBackedByRows
  <2> SUFFICES ASSUME NEW r \in Req, Executes(r), threshold[r] # "any"
               PROVE  2 * Cardinality(Votes(out[r], "approve")) > Len(Peers)
    BY DEF ExecuteBackedByRows
  <2> DEFINE c == CountsOf(out[r])
  <2>1. /\ c \in Counts
        /\ c.approve = Cardinality(Votes(out[r], "approve"))
        /\ DocumentedExecute(threshold[r], c, Len(Peers))
    BY <1>1, ExecutionRests
  <2>2. Len(Peers) \in Nat \ {0} /\ threshold[r] \in Modes
    BY <1>1, MeshAssumption, LenProperties DEF TypeOK
  <2> HIDE DEF c
  <2>3. 2 * c.approve > Len(Peers)
    BY <2>1, <2>2 DEF DocumentedExecute, Counts, Modes
  <2> QED
    BY <2>1, <2>3
<1> QED
  BY InvariantHolds, <1>1, PTL

-----------------------------------------------------------------------------
(***************************************************************************)
(* Where messages are. A message is addressed to one node, its home. Until *)
(* it is dropped, spooled or collected it is on the wire, in its home's    *)
(* queue or held by its home's listener, in one of them only and there     *)
(* only once.                                                              *)
(***************************************************************************)

Occurs(q, m) == \E k \in DOMAIN q : q[k] = m
Once(q, m)   == \A j, k \in DOMAIN q : q[j] = m /\ q[k] = m => j = k

Home(m) == IF m.type = "intent" THEN Peers[m.slot] ELSE Hub

OnWire(m)  == \E p \in net : p.msg = m
InQueue(m) == Occurs(queue[Home(m)], m)
Held(m)    == listener[Home(m)] # Idle /\ listener[Home(m)].msg = m

InTransit(m) == OnWire(m) \/ InQueue(m) \/ Held(m)

AtHome ==
  /\ \A p \in net : p.to = Home(p.msg)
  /\ \A g \in Node, m \in Messages : Occurs(queue[g], m) => Home(m) = g
  /\ \A g \in Node : listener[g] # Idle => Home(listener[g].msg) = g

\* A message there may be: an intent that was sent, a verdict that was cast.
Issued(m) == IF m.type = "intent" THEN m.slot < next[m.req] ELSE m \in cast

OneCopy(m) ==
  /\ InTransit(m) => Issued(m)
  /\ ~(OnWire(m) /\ InQueue(m))
  /\ ~(OnWire(m) /\ Held(m))
  /\ ~(InQueue(m) /\ Held(m))
  /\ Once(queue[Home(m)], m)

\* The timestamps of a guardian's verdicts are below that of its next one.
TimestampsBelow == \A v \in cast : v.ts < Timestamp(v.from)

Moving == AtHome /\ TimestampsBelow /\ \A m \in Messages : OneCopy(m)

\* What is left of a queue when its first message is taken.
LEMMA AfterTail ==
  ASSUME NEW q \in Seq(Messages), q # <<>>, NEW m
  PROVE  /\ Head(q) \in Messages /\ Occurs(q, Head(q))
         /\ Occurs(Tail(q), m) => Occurs(q, m)
         /\ Once(q, m) => Once(Tail(q), m)
         /\ Once(q, m) /\ m = Head(q) => ~Occurs(Tail(q), m)
<1>1. /\ Len(q) \in Nat \ {0} /\ DOMAIN q = 1 .. Len(q)
      /\ Head(q) = q[1]
  BY EmptySeq, LenProperties
<1>2. /\ Tail(q) \in Seq(Messages) /\ Len(Tail(q)) = Len(q) - 1
      /\ \A k \in 1 .. Len(Tail(q)) : Tail(q)[k] = q[k + 1]
      /\ Head(q) \in Messages
  BY HeadTailProperties
<1>3. DOMAIN Tail(q) = 1 .. Len(q) - 1
  BY <1>2, LenProperties
<1>4. \A k \in DOMAIN Tail(q) : k + 1 \in DOMAIN q /\ k + 1 # 1 /\ Tail(q)[k] = q[k + 1]
  BY <1>1, <1>2, <1>3
<1>5. \A j, k \in DOMAIN Tail(q) : j + 1 = k + 1 => j = k
  BY <1>3
<1>6. 1 \in DOMAIN q
  BY <1>1
<1> QED
  BY <1>1, <1>2, <1>4, <1>5, <1>6 DEF Occurs, Once

\* What a queue holds after a push: what it held, but perhaps its first
\* message, and then the message pushed.
LEMMA AfterPush ==
  ASSUME NEW q \in Seq(Messages), NEW x \in Messages, NEW m
  PROVE  /\ m # x /\ Occurs(Push(q, x), m) => Occurs(q, m)
         /\ m # x /\ Once(q, m) => Once(Push(q, x), m)
         /\ m = x /\ ~Occurs(q, m) => Once(Push(q, x), m)
<1>1. \E t \in Seq(Messages) : /\ Push(q, x) = Append(t, x)
                               /\ Occurs(t, m) => Occurs(q, m)
                               /\ Once(q, m) => Once(t, m)
  <2>1. CASE Len(q) >= QueueCapacity
    <3>1. q # <<>>
      BY <2>1, MeshAssumption, EmptySeq
    <3>2. Tail(q) \in Seq(Messages)
      BY <3>1, HeadTailProperties
    <3> QED
      BY <2>1, <3>1, <3>2, AfterTail DEF Push
  <2>2. CASE ~(Len(q) >= QueueCapacity)
    BY <2>2 DEF Push
  <2> QED
    BY <2>1, <2>2
<1>2. PICK t \in Seq(Messages) : /\ Push(q, x) = Append(t, x)
                                 /\ Occurs(t, m) => Occurs(q, m)
                                 /\ Once(q, m) => Once(t, m)
  BY <1>1
<1>3. /\ Len(t) \in Nat /\ DOMAIN t = 1 .. Len(t)
      /\ DOMAIN Append(t, x) = 1 .. Len(t) + 1
      /\ \A k \in 1 .. Len(t) : Append(t, x)[k] = t[k]
      /\ Append(t, x)[Len(t) + 1] = x
  BY LenProperties, AppendProperties
<1>4. \A k \in DOMAIN Append(t, x) :
        \/ k \in DOMAIN t /\ Append(t, x)[k] = t[k]
        \/ k = Len(t) + 1 /\ Append(t, x)[k] = x
  BY <1>3
<1> QED
  BY <1>2, <1>4 DEF Occurs, Once

\* Every message has a home among the nodes.
LEMMA HomeIsNode == \A m \in Messages : Home(m) \in Node
<1> SUFFICES ASSUME NEW m \in Messages PROVE Home(m) \in Node
  OBVIOUS
<1>1. Len(Peers) \in Nat /\ DOMAIN Peers = 1 .. Len(Peers)
  BY MeshAssumption, LenProperties
<1>2. CASE m.type = "intent"
  <2>1. m.slot \in DOMAIN Peers
    BY <1>2 DEF Messages, Intents, Verdicts
  <2> QED
    BY <1>1, <1>2, <2>1, MeshAssumption, ElementOfSeq DEF Home
<1>3. CASE m.type # "intent"
  BY <1>3, MeshAssumption DEF Home
<1> QED
  BY <1>2, <1>3

LEMMA MovingInit == Init => Moving
<1> SUFFICES ASSUME Init PROVE Moving
  OBVIOUS
<1>1. \A g \in Node, m \in Messages : ~Occurs(queue[g], m) /\ Once(queue[g], m)
  <2>1. \A g \in Node : DOMAIN queue[g] = {}
    BY DEF Init
  <2> QED
    BY <2>1 DEF Occurs, Once
<1>2. AtHome
  BY <1>1 DEF Init, AtHome
<1>3. TimestampsBelow
  BY DEF Init, TimestampsBelow
<1>4. \A m \in Messages : OneCopy(m)
  BY <1>1, HomeIsNode DEF Init, OneCopy, InTransit, OnWire, InQueue, Held
<1> QED
  BY <1>2, <1>3, <1>4 DEF Moving

\* A step of a request that leaves the nodes alone.
LEMMA MovingWeb ==
  ASSUME TypeOK, Moving, UNCHANGED <<next, nodeVars>>
  PROVE  Moving'
<1>1. UNCHANGED <<net, queue, listener, cast, next>>
  BY DEF nodeVars
<1> QED
  BY <1>1 DEF Moving, AtHome, TimestampsBelow, OneCopy, InTransit, OnWire, InQueue,
              Held, Issued, Timestamp

LEMMA MovingSend ==
  ASSUME TypeInv, Moving, NEW r \in Req, NEW o \in SendOutcomes, SendIntent(r, o)
  PROVE  Moving'
<1>1. next[r] \in 1 .. Len(Peers) /\ DOMAIN Peers = 1 .. Len(Peers)
  BY MeshAssumption, LenProperties DEF SendIntent, TypeInv, TypeOK
<1>2. PICK x \in Messages : /\ x = Intent(r, next[r])
                            /\ x.type = "intent" /\ x.slot = next[r] /\ x.req = r
  <2>1. /\ Intent(r, next[r]) \in Messages
        /\ Intent(r, next[r]).type = "intent"
        /\ Intent(r, next[r]).slot = next[r] /\ Intent(r, next[r]).req = r
    BY <1>1 DEF Intent, Intents, Messages
  <2> QED
    BY <2>1
<1>6. PICK pkt : pkt = [to |-> Peers[next[r]], msg |-> x]
  OBVIOUS
<1>3. /\ net' = net \cup {pkt} \/ net' = net
      /\ next' = [next EXCEPT ![r] = @ + 1]
      /\ UNCHANGED <<queue, listener, cast>>
  BY <1>2, <1>6 DEF SendIntent, Transmit
<1>4. Home(x) = Peers[next[r]]
  BY <1>2 DEF Home
<1>5. ~InTransit(x)
  <2>1. ~Issued(x)
    BY <1>1, <1>2, MeshAssumption, LenProperties DEF Issued
  <2> QED
    BY <1>2, <2>1 DEF Moving, OneCopy
<1>7. next \in [Req -> Nat]
  BY DEF TypeInv, TypeOK
<1>8. ASSUME NEW m \in Messages, Issued(m) PROVE Issued(m)'
  <2>1. CASE m.type = "intent"
    <3>1. m.req \in Req /\ m.slot \in Nat
      BY <1>1, <2>1, MeshAssumption, LenProperties DEF Messages, Intents, Verdicts
    <3>2. next[m.req] \in Nat /\ next'[m.req] \in Nat /\ next[m.req] <= next'[m.req]
      BY <1>3, <1>7, <3>1
    <3> QED
      BY <1>8, <2>1, <3>1, <3>2 DEF Issued
  <2>2. CASE m.type # "intent"
    BY <1>3, <1>8, <2>2 DEF Issued
  <2> QED
    BY <2>1, <2>2
<1>9. Issued(x)'
  BY <1>1, <1>2, <1>3, <1>7 DEF Issued
<1>10. AtHome'
  <2>1. \A p \in net' : p.to = Home(p.msg)
    BY <1>3, <1>4, <1>6 DEF Moving, AtHome
  <2> QED
    BY <1>3, <2>1 DEF Moving, AtHome
<1>11. TimestampsBelow'
  BY <1>3 DEF Moving, TimestampsBelow, Timestamp
<1>12. ASSUME NEW m \in Messages PROVE OneCopy(m)'
  <2>0. /\ OneCopy(m) /\ (Issued(m) => Issued(m)')
        /\ InQueue(m)' = InQueue(m) /\ Held(m)' = Held(m)
        /\ Once(queue[Home(m)], m)'
    BY <1>3, <1>8 DEF Moving, InQueue, Held, OneCopy
  <2>1. CASE m = x
    BY <1>5, <1>9, <2>0, <2>1 DEF OneCopy, InTransit
  <2>2. CASE m # x
    <3>1. OnWire(m)' => OnWire(m)
      BY <1>3, <1>6, <2>2 DEF OnWire
    <3> QED
      BY <2>0, <3>1 DEF OneCopy, InTransit
  <2> QED
    BY <2>1, <2>2
<1> QED
  BY <1>10, <1>11, <1>12 DEF Moving

\* A step that only takes messages off: what is not at its place any more was
\* dropped, spooled or collected.
LEMMA MovingOff ==
  ASSUME TypeOK, Moving,
         net' \subseteq net, UNCHANGED <<next, cast>>,
         \A g \in Node, m \in Messages :
           /\ Occurs(queue[g], m)' => Occurs(queue[g], m)
           /\ Once(queue[g], m) => Once(queue[g], m)',
         \A g \in Node : listener'[g] = Idle \/ listener'[g] = listener[g]
  PROVE  Moving'
<1>1. AtHome'
  BY DEF Moving, AtHome
<1>2. TimestampsBelow'
  BY DEF Moving, TimestampsBelow, Timestamp
<1>3. ASSUME NEW m \in Messages PROVE OneCopy(m)'
  <2>1. /\ OnWire(m)' => OnWire(m)
        /\ InQueue(m)' => InQueue(m)
        /\ Held(m)' => Held(m)
        /\ Issued(m)' = Issued(m)
        /\ Once(queue[Home(m)], m) => Once(queue[Home(m)], m)'
    BY HomeIsNode DEF OnWire, InQueue, Held, Issued
  <2> QED
    BY <2>1 DEF Moving, OneCopy, InTransit
<1> QED
  BY <1>1, <1>2, <1>3 DEF Moving

LEMMA MovingPoll ==
  ASSUME TypeInv, Moving, NEW r \in Req, PollRecv(r)
  PROVE  Moving'
<1>1. queue' = queue \/ (queue[Hub] # <<>> /\ queue' = [queue EXCEPT ![Hub] = Tail(@)])
  BY DEF PollRecv, Pop
<1>2. UNCHANGED <<net, next, cast, listener>>
  BY DEF PollRecv, Pop
<1>3. queue \in [Node -> Seq(Messages)]
  BY DEF TypeInv, TypeOK
<1>4. \A g \in Node, m \in Messages :
           /\ Occurs(queue[g], m)' => Occurs(queue[g], m)
           /\ Once(queue[g], m) => Once(queue[g], m)'
  <2> SUFFICES ASSUME NEW g \in Node, NEW m \in Messages
               PROVE  /\ Occurs(queue'[g], m) => Occurs(queue[g], m)
                      /\ Once(queue[g], m) => Once(queue'[g], m)
    BY DEF Occurs, Once
  <2>1. queue'[g] = queue[g] \/ (queue[g] # <<>> /\ queue'[g] = Tail(queue[g]))
    BY <1>1, <1>3
  <2>2. queue[g] \in Seq(Messages)
    BY <1>3
  <2>3. CASE queue'[g] = queue[g]
    BY <2>3
  <2>4. CASE queue[g] # <<>> /\ queue'[g] = Tail(queue[g])
    BY <2>2, <2>4, AfterTail
  <2> QED
    BY <2>1, <2>3, <2>4
<1> QED
  BY <1>2, <1>4, MovingOff DEF TypeInv

LEMMA MovingDrop ==
  ASSUME TypeInv, Moving, NEW g \in Node, Become(g, Idle),
         UNCHANGED <<next, net, queue, cast>>
  PROVE  Moving'
<1>1. \A h \in Node : listener'[h] = Idle \/ listener'[h] = listener[h]
  BY DEF Become, TypeInv, TypeOK
<1>2. \A h \in Node, m \in Messages :
           /\ Occurs(queue[h], m)' => Occurs(queue[h], m)
           /\ Once(queue[h], m) => Once(queue[h], m)'
  BY DEF Occurs, Once
<1> QED
  BY <1>1, <1>2, MovingOff DEF TypeInv

LEMMA MovingDeliver ==
  ASSUME TypeInv, Moving, NEW p \in net, Deliver(p)
  PROVE  Moving'
<1>1. /\ net' = net \ {p} /\ queue' = [queue EXCEPT ![p.to] = Push(@, p.msg)]
      /\ UNCHANGED <<next, listener, cast>>
  BY DEF Deliver, webVars
<1>2. /\ p \in [to : Node, msg : Messages] /\ net \subseteq [to : Node, msg : Messages]
      /\ queue \in [Node -> Seq(Messages)]
  BY DEF TypeInv, TypeOK
<1>3. p.to \in Node /\ p.msg \in Messages /\ p.to = Home(p.msg)
  BY <1>2 DEF Moving, AtHome
<1>4. ASSUME NEW g \in Node, NEW m \in Messages
      PROVE  /\ queue'[g] = queue[g] \/ (g = p.to /\ queue'[g] = Push(queue[g], p.msg))
             /\ m # p.msg => /\ Occurs(queue'[g], m) => Occurs(queue[g], m)
                             /\ Once(queue[g], m) => Once(queue'[g], m)
  <2>1. queue'[g] = queue[g] \/ (g = p.to /\ queue'[g] = Push(queue[g], p.msg))
    BY <1>1, <1>2
  <2>2. CASE queue'[g] = queue[g]
    BY <2>1, <2>2
  <2>3. CASE g = p.to /\ queue'[g] = Push(queue[g], p.msg)
    BY <1>2, <1>3, <2>3, AfterPush
  <2> QED
    BY <2>1, <2>2, <2>3
<1>5. AtHome'
  <2>1. ASSUME NEW g \in Node, NEW m \in Messages, Occurs(queue'[g], m)
        PROVE  Home(m) = g
    <3>1. CASE m = p.msg /\ queue'[g] # queue[g]
      BY <1>3, <1>4, <3>1
    <3>2. CASE ~(m = p.msg /\ queue'[g] # queue[g])
      BY <1>4, <2>1, <3>2 DEF Moving, AtHome
    <3> QED
      BY <3>1, <3>2
  <2> QED
    BY <1>1, <2>1 DEF Moving, AtHome, Occurs
<1>6. TimestampsBelow'
  BY <1>1 DEF Moving, TimestampsBelow, Timestamp
<1>7. ASSUME NEW m \in Messages PROVE OneCopy(m)'
  <2>1. /\ Held(m)' = Held(m) /\ Issued(m)' = Issued(m)
        /\ OneCopy(m) /\ Home(m) \in Node
    BY <1>1, HomeIsNode DEF Held, Issued, Moving
  <2>2. CASE m # p.msg
    <3>1. /\ OnWire(m)' = OnWire(m)
          /\ InQueue(m)' => InQueue(m)
          /\ Once(queue[Home(m)], m) => Once(queue'[Home(m)], m)
      BY <1>1, <1>4, <2>1, <2>2 DEF OnWire, InQueue, Occurs
    <3> QED
      BY <2>1, <3>1 DEF OneCopy, InTransit, Once
  <2>3. CASE m = p.msg
    <3>1. OnWire(m)
      BY <2>3 DEF OnWire
    <3>2. ~OnWire(m)'
      <4>1. \A q \in net : q.msg = m => q = p
        BY <1>2, <2>3 DEF Moving, AtHome
      <4> QED
        BY <1>1, <4>1 DEF OnWire
    <3>3. ~Occurs(queue[p.to], m) /\ ~Held(m) /\ Issued(m)
      BY <1>3, <2>1, <2>3, <3>1 DEF OneCopy, InTransit, InQueue
    <3>4. Once(queue'[Home(m)], m)
      BY <1>1, <1>2, <1>3, <2>3, <3>3, AfterPush
    <3> QED
      BY <2>1, <3>2, <3>3, <3>4 DEF OneCopy, InTransit, Once
  <2> QED
    BY <2>2, <2>3
<1> QED
  BY <1>5, <1>6, <1>7 DEF Moving

LEMMA MovingPop ==
  ASSUME TypeInv, Moving, NEW g \in Node, ListenerPop(g)
  PROVE  Moving'
<1>1. PICK x \in Messages :
        /\ x = Head(queue[g]) /\ Occurs(queue[g], x)
        /\ listener' = [listener EXCEPT ![g] =
             [at |-> IF x.type = "verdict" THEN "spooling" ELSE "judging", msg |-> x]]
  BY AfterTail DEF ListenerPop, Pop, Become, TypeInv, TypeOK
<1>2. /\ queue' = [queue EXCEPT ![g] = Tail(@)]
      /\ UNCHANGED <<next, net, cast>>
      /\ listener[g] = Idle /\ queue[g] # <<>>
  BY DEF ListenerPop, Pop, webVars
<1>3. queue \in [Node -> Seq(Messages)] /\ DOMAIN listener = Node
  BY DEF TypeInv, TypeOK
<1>4. Home(x) = g
  BY <1>1 DEF Moving, AtHome
<1>5. ASSUME NEW h \in Node, NEW m \in Messages
      PROVE  /\ Occurs(queue'[h], m) => Occurs(queue[h], m)
             /\ Once(queue[h], m) => Once(queue'[h], m)
  BY <1>2, <1>3, AfterTail
<1>6. listener'[g] # Idle /\ listener'[g].msg = x
  BY <1>1, <1>3 DEF Idle
<1>7. \A h \in Node : h # g => listener'[h] = listener[h]
  BY <1>1, <1>3
<1>8. AtHome'
  <2>1. \A h \in Node, m \in Messages : Occurs(queue'[h], m) => Home(m) = h
    BY <1>5 DEF Moving, AtHome
  <2>2. \A h \in Node : listener'[h] # Idle => Home(listener'[h].msg) = h
    BY <1>4, <1>6, <1>7 DEF Moving, AtHome
  <2> QED
    BY <1>2, <2>1, <2>2 DEF Moving, AtHome, Occurs
<1>9. TimestampsBelow'
  BY <1>2 DEF Moving, TimestampsBelow, Timestamp
<1>10. ASSUME NEW m \in Messages PROVE OneCopy(m)'
  <2>1. /\ OnWire(m)' = OnWire(m) /\ Issued(m)' = Issued(m)
        /\ OneCopy(m) /\ Home(m) \in Node
    BY <1>2, HomeIsNode DEF OnWire, Issued, Moving
  <2>2. /\ InQueue(m)' => InQueue(m)
        /\ Once(queue[Home(m)], m) => Once(queue[Home(m)], m)'
    BY <1>5, <2>1 DEF InQueue, Occurs, Once
  <2>3. CASE m # x
    <3>1. Held(m)' => Held(m)
      BY <1>6, <1>7, <2>1, <2>3 DEF Held
    <3> QED
      BY <2>1, <2>2, <3>1 DEF OneCopy, InTransit
  <2>4. CASE m = x
    <3>1. InQueue(m)
      BY <1>1, <1>4, <2>4 DEF InQueue
    <3>2. ~Occurs(queue'[g], m)
      BY <1>1, <1>2, <1>3, <1>4, <2>1, <2>4, AfterTail DEF OneCopy
    <3> QED
      BY <1>4, <2>1, <2>2, <2>4, <3>1, <3>2 DEF OneCopy, InTransit, InQueue, Occurs
  <2> QED
    BY <2>3, <2>4
<1> QED
  BY <1>8, <1>9, <1>10 DEF Moving

\* A verdict composed now was not cast before; its timestamp is below the next.
LEMMA NewVerdict ==
  ASSUME TypeInv, TimestampsBelow, NEW g \in Node, NEW v,
         v.from = g, v.ts = Timestamp(g), cast' = cast \cup {v}
  PROVE  v \notin cast /\ TimestampsBelow'
<1>1. ASSUME NEW h PROVE Timestamp(h) \in Nat
  <2>1. IsFiniteSet({w \in cast : w.from = h})
    BY FS_Subset DEF TypeInv
  <2> QED
    BY <2>1, FS_CardinalityType DEF Timestamp
<1>2. IsFiniteSet({w \in cast : w.from = g})
  BY FS_Subset DEF TypeInv
<1>3. v \notin cast
  <2>1. Timestamp(g) \in Nat
    BY <1>1
  <2> QED
    BY <2>1 DEF TimestampsBelow
<1>4. Timestamp(g)' = Timestamp(g) + 1
  <2> DEFINE S == {w \in cast : w.from = g}
  <2>1. {w \in cast' : w.from = g} = S \cup {v}
    OBVIOUS
  <2>2. Cardinality(S \cup {v}) = Cardinality(S) + 1
    <3>1. IsFiniteSet(S) /\ v \notin S
      BY <1>2, <1>3
    <3> HIDE DEF S
    <3> QED
      BY <3>1, FS_AddElement
  <2> QED
    BY <2>1, <2>2 DEF Timestamp
<1>5. ASSUME NEW h, h # g PROVE Timestamp(h)' = Timestamp(h)
  <2>1. {w \in cast' : w.from = h} = {w \in cast : w.from = h}
    BY <1>5
  <2> QED
    BY <2>1 DEF Timestamp
<1>7. ASSUME NEW w \in cast' PROVE w.ts < Timestamp(w.from)'
  <2>1. CASE w = v
    BY <1>1, <1>4, <2>1
  <2>2. CASE w \in cast
    <3>1. w.ts \in Nat /\ w.ts < Timestamp(w.from)
      BY <2>2 DEF TypeInv, TypeOK, Verdicts, TimestampsBelow
    <3>2. Timestamp(w.from)' = Timestamp(w.from) \/ Timestamp(w.from)' = Timestamp(w.from) + 1
      BY <1>4, <1>5
    <3> QED
      BY <1>1, <3>1, <3>2
  <2> QED
    BY <2>1, <2>2
<1> QED
  BY <1>3, <1>7 DEF TimestampsBelow

\* What a listener sends is new: it is nowhere yet.
LEMMA SendNew ==
  ASSUME TypeInv, Moving, NEW g \in Node, NEW o \in SendOutcomes, NEW raw \in RawVerdicts,
         listener[g].at \in {"judging", "failing"}, Send(g, o, raw)
  PROVE  /\ TimestampsBelow'
         /\ listener[g].msg \in Intents
         /\ \E v \in Verdicts :
              /\ v.from = g /\ v.verdict = raw /\ v.req = listener[g].msg.req
              /\ v \notin cast /\ cast' = cast \cup {v}
              /\ v.type # "intent" /\ ~InTransit(v)
              /\ Transmit(o, Hub, v)
<1> DEFINE w == Verdict(g, Timestamp(g), raw, listener[g].msg.req)
<1>1. listener[g].msg \in Intents /\ cast' \in SUBSET Verdicts
  BY SendType
<1>2. cast' = cast \cup {w} /\ Transmit(o, Hub, w)
  BY DEF Send
<1>3. PICK v \in Verdicts :
        /\ v.from = g /\ v.verdict = raw /\ v.req = listener[g].msg.req
        /\ v.ts = Timestamp(g) /\ v.type # "intent"
        /\ cast' = cast \cup {v} /\ Transmit(o, Hub, v)
  <2>1. w \in Verdicts
    BY <1>1, <1>2
  <2>2. /\ w.from = g /\ w.verdict = raw /\ w.req = listener[g].msg.req
        /\ w.ts = Timestamp(g) /\ w.type # "intent"
    BY DEF Verdict
  <2> HIDE DEF w
  <2> QED
    BY <1>2, <2>1, <2>2
<1>4. v \notin cast /\ TimestampsBelow'
  BY <1>3, NewVerdict DEF Moving
<1>5. ~InTransit(v)
  BY <1>3, <1>4 DEF Moving, OneCopy, Issued, Messages
<1> QED
  BY <1>1, <1>3, <1>4, <1>5

LEMMA MovingVerdict ==
  ASSUME TypeInv, Moving, NEW g \in Node, NEW o \in SendOutcomes, NEW raw \in RawVerdicts,
         listener[g].at \in {"judging", "failing"}, Send(g, o, raw),
         NEW state, listener' = [listener EXCEPT ![g] = state],
         state = Idle \/ state.msg = listener[g].msg,
         UNCHANGED <<next, queue>>
  PROVE  Moving'
<1>1. PICK v \in Verdicts :
              /\ v \notin cast /\ cast' = cast \cup {v}
              /\ v.type # "intent" /\ ~InTransit(v)
              /\ Transmit(o, Hub, v)
  BY SendNew
<1>2. PICK pkt : pkt = [to |-> Hub, msg |-> v]
  OBVIOUS
<1>3. net' = net \cup {pkt} \/ net' = net
  BY <1>1, <1>2 DEF Transmit
<1>4. v \in Messages /\ Home(v) = Hub /\ pkt.to = Hub /\ pkt.msg = v
  BY <1>1, <1>2 DEF Messages, Home
<1>5. listener[g] # Idle /\ DOMAIN listener = Node
  BY DEF Idle, TypeInv, TypeOK
<1>6. ASSUME NEW h \in Node
      PROVE  /\ listener'[h] # Idle => listener[h] # Idle
             /\ listener'[h] # Idle => listener'[h].msg = listener[h].msg
  BY <1>5
<1>7. AtHome'
  <2>1. \A p \in net' : p.to = Home(p.msg)
    BY <1>3, <1>4 DEF Moving, AtHome
  <2>2. \A h \in Node : listener'[h] # Idle => Home(listener'[h].msg) = h
    BY <1>6 DEF Moving, AtHome
  <2> QED
    BY <2>1, <2>2 DEF Moving, AtHome
<1>8. TimestampsBelow'
  BY SendNew
<1>9. ASSUME NEW m \in Messages PROVE OneCopy(m)'
  <2>1. /\ OneCopy(m) /\ Home(m) \in Node
        /\ Held(m)' => Held(m)
        /\ InQueue(m)' = InQueue(m)
        /\ Once(queue[Home(m)], m)'
    BY <1>6, HomeIsNode DEF Moving, OneCopy, Held, InQueue
  <2>2. Issued(m) => Issued(m)'
    BY <1>1 DEF Issued
  <2>3. CASE m # v
    <3>1. OnWire(m)' = OnWire(m)
      BY <1>3, <1>4, <2>3 DEF OnWire
    <3> QED
      BY <2>1, <2>2, <3>1 DEF OneCopy, InTransit
  <2>4. CASE m = v
    <3>1. Issued(m)'
      BY <1>1, <2>4 DEF Issued
    <3> QED
      BY <1>1, <2>1, <2>4, <3>1 DEF OneCopy, InTransit
  <2> QED
    BY <2>3, <2>4
<1> QED
  BY <1>7, <1>8, <1>9 DEF Moving

LEMMA MovingStep == TypeInv /\ Moving /\ [Next]_vars => Moving'
<1> SUFFICES ASSUME TypeInv, Moving, [Next]_vars PROVE Moving'
  OBVIOUS
<1>t. TypeOK
  BY DEF TypeInv
<1>1. ASSUME NEW r \in Req, WebStep(r) PROVE Moving'
  <2>1. ASSUME NEW o \in SendOutcomes, SendIntent(r, o) PROVE Moving'
    BY <2>1, MovingSend
  <2>2. CASE PollRecv(r)
    BY <2>2, MovingPoll
  <2>3. CASE StartRequest(r) \/ FinishBroadcast(r) \/ DrainRead(r)
             \/ DrainTruncate(r) \/ Decide(r)
    <3>1. UNCHANGED <<next, nodeVars>>
      BY <2>3 DEF StartRequest, PeersResolved, FinishBroadcast, DrainRead, DrainTruncate,
                  Decide, webVars
    <3> QED
      BY <1>t, <3>1, MovingWeb
  <2> QED
    BY <1>1, <2>1, <2>2, <2>3 DEF WebStep
<1>2. ASSUME NEW r \in Req, Expire(r) PROVE Moving'
  <2>1. UNCHANGED <<next, nodeVars>>
    BY <1>2 DEF Expire
  <2> QED
    BY <1>t, <2>1, MovingWeb
<1>3. ASSUME NEW g \in Node, ListenerStep(g) PROVE Moving'
  <2>1. CASE ListenerPop(g)
    BY <2>1, MovingPop
  <2>2. CASE ListenerSpool(g)
    BY <2>2, MovingDrop DEF ListenerSpool, webVars
  <2>3. ASSUME NEW raw \in Ballots, NEW o \in SendOutcomes, Judge(g, raw, o) PROVE Moving'
    <3>1. raw \in RawVerdicts
      BY MeshAssumption DEF RawVerdicts
    <3>2. PICK state : /\ listener' = [listener EXCEPT ![g] = state]
                       /\ state = Idle \/ state.msg = listener[g].msg
      <4>1. listener[g] \in [at : {"judging", "failing"}, msg : Intents]
        BY <1>t, <2>3, ListenerKinds DEF Judge
      <4>2. [listener[g] EXCEPT !.at = "failing"].msg = listener[g].msg
        BY <4>1
      <4> QED
        BY <2>3, <4>2 DEF Judge, Become
    <3>3. /\ listener[g].at \in {"judging", "failing"} /\ Send(g, o, raw)
          /\ UNCHANGED <<next, queue>>
      BY <2>3 DEF Judge, webVars
    <3> QED
      BY <3>1, <3>2, <3>3, MovingVerdict
  <2>4. ASSUME NEW o \in SendOutcomes, SendErrorVerdict(g, o) PROVE Moving'
    <3>1. /\ listener[g].at \in {"judging", "failing"} /\ Send(g, o, "ERROR")
          /\ UNCHANGED <<next, queue>> /\ listener' = [listener EXCEPT ![g] = Idle]
      BY <2>4 DEF SendErrorVerdict, webVars, Become
    <3> QED
      BY <3>1, MovingVerdict DEF RawVerdicts
  <2> QED
    BY <1>3, <2>1, <2>2, <2>3, <2>4 DEF ListenerStep
<1>4. ASSUME NEW g \in Node, ListenerRestart(g) PROVE Moving'
  BY <1>4, MovingDrop DEF ListenerRestart, webVars
<1>5. ASSUME NEW p \in net, Deliver(p) PROVE Moving'
  BY <1>5, MovingDeliver
<1>6. CASE UNCHANGED vars
  <2>1. UNCHANGED <<next, nodeVars>>
    BY <1>6 DEF vars, webVars
  <2> QED
    BY <1>t, <2>1, MovingWeb
<1> QED
  BY <1>1, <1>2, <1>3, <1>4, <1>5, <1>6 DEF Next

-----------------------------------------------------------------------------
(***************************************************************************)
(* A message that was issued only moves on: from the wire to the queue,    *)
(* from the queue to the listener, and it never comes back.                *)
(***************************************************************************)

Judging(m) == Held(m) /\ listener[Home(m)].at = "judging"

Onward(m) ==
  /\ Issued(m)'
  /\ OnWire(m)' => OnWire(m)
  /\ InQueue(m)' => InQueue(m) \/ OnWire(m)
  /\ Held(m)' => Held(m) \/ InQueue(m)
  /\ Judging(m)' => Judging(m) \/ InQueue(m)

\* A step that sends nothing and leaves the queues and the listeners alone.
LEMMA OnwardAlone ==
  ASSUME UNCHANGED <<next, nodeVars>>, NEW m, Issued(m)
  PROVE  Onward(m)
BY DEF Onward, Issued, OnWire, InQueue, Held, Judging, nodeVars

LEMMA OnwardSend ==
  ASSUME TypeInv, NEW r \in Req, NEW o \in SendOutcomes, SendIntent(r, o),
         NEW m \in Messages, Issued(m)
  PROVE  Onward(m)
<1>1. /\ \A p \in net' : p \in net \/ p.msg = Intent(r, next[r])
      /\ next' = [next EXCEPT ![r] = @ + 1] /\ UNCHANGED <<queue, listener, cast>>
  BY DEF SendIntent, Transmit
<1>2. next \in [Req -> Nat] /\ DOMAIN Peers \subseteq Nat
  BY MeshAssumption, LenProperties DEF TypeInv, TypeOK
<1>3. m # Intent(r, next[r])
  <2>1. /\ Intent(r, next[r]).type = "intent" /\ Intent(r, next[r]).slot = next[r]
        /\ Intent(r, next[r]).req = r
    BY DEF Intent
  <2>2. next[r] \in Nat
    BY <1>2
  <2> QED
    BY <2>1, <2>2 DEF Issued
<1>4. Issued(m)'
  <2>1. CASE m.type = "intent"
    <3>1. m.req \in Req /\ m.slot \in Nat
      BY <1>2, <2>1 DEF Messages, Intents, Verdicts
    <3>2. next[m.req] \in Nat /\ next'[m.req] \in Nat /\ next[m.req] <= next'[m.req]
      BY <1>1, <1>2, <3>1
    <3> QED
      BY <2>1, <3>1, <3>2 DEF Issued
  <2>2. CASE m.type # "intent"
    BY <1>1, <2>2 DEF Issued
  <2> QED
    BY <2>1, <2>2
<1>5. OnWire(m)' => OnWire(m)
  BY <1>1, <1>3 DEF OnWire
<1> QED
  BY <1>1, <1>4, <1>5 DEF Onward, InQueue, Held, Judging

LEMMA OnwardPoll ==
  ASSUME TypeInv, NEW r \in Req, PollRecv(r), NEW m \in Messages, Issued(m)
  PROVE  Onward(m)
<1>1. /\ queue' = queue \/ (queue[Hub] # <<>> /\ queue' = [queue EXCEPT ![Hub] = Tail(@)])
      /\ UNCHANGED <<next, net, listener, cast>>
  BY DEF PollRecv, Pop
<1>2. queue \in [Node -> Seq(Messages)] /\ Home(m) \in Node
  BY HomeIsNode DEF TypeInv, TypeOK
<1>3. InQueue(m)' => InQueue(m)
  <2>1. \/ queue'[Home(m)] = queue[Home(m)]
        \/ queue[Home(m)] # <<>> /\ queue'[Home(m)] = Tail(queue[Home(m)])
    BY <1>1, <1>2
  <2> QED
    BY <1>2, <2>1, AfterTail DEF InQueue, Occurs
<1> QED
  BY <1>1, <1>3 DEF Onward, Issued, OnWire, Held, Judging

LEMMA OnwardDeliver ==
  ASSUME TypeInv, NEW p \in net, Deliver(p), NEW m \in Messages, Issued(m)
  PROVE  Onward(m)
<1>1. /\ net' = net \ {p} /\ queue' = [queue EXCEPT ![p.to] = Push(@, p.msg)]
      /\ UNCHANGED <<next, listener, cast>>
  BY DEF Deliver, webVars
<1>2. /\ p \in [to : Node, msg : Messages] /\ Home(m) \in Node
      /\ queue \in [Node -> Seq(Messages)]
  BY HomeIsNode DEF TypeInv, TypeOK
<1>3. InQueue(m)' => InQueue(m) \/ OnWire(m)
  <2>1. CASE m = p.msg
    BY <2>1 DEF OnWire
  <2>2. CASE m # p.msg
    <3>1. \/ queue'[Home(m)] = queue[Home(m)]
          \/ queue'[Home(m)] = Push(queue[Home(m)], p.msg)
      BY <1>1, <1>2
    <3>2. Occurs(Push(queue[Home(m)], p.msg), m) => Occurs(queue[Home(m)], m)
      BY <1>2, <2>2, AfterPush
    <3>3. Occurs(queue'[Home(m)], m) => Occurs(queue[Home(m)], m)
      BY <3>1, <3>2
    <3> QED
      BY <3>3 DEF InQueue, Occurs
  <2> QED
    BY <2>1, <2>2
<1> QED
  BY <1>1, <1>3 DEF Onward, Issued, OnWire, Held, Judging

LEMMA OnwardPop ==
  ASSUME TypeInv, NEW g \in Node, ListenerPop(g), NEW m \in Messages, Issued(m)
  PROVE  Onward(m)
<1>1. PICK x \in Messages :
        /\ Occurs(queue[g], x)
        /\ listener' = [listener EXCEPT ![g] =
             [at |-> IF x.type = "verdict" THEN "spooling" ELSE "judging", msg |-> x]]
  BY AfterTail DEF ListenerPop, Pop, Become, TypeInv, TypeOK
<1>2. /\ queue' = [queue EXCEPT ![g] = Tail(@)] /\ queue[g] # <<>>
      /\ UNCHANGED <<next, net, cast>>
  BY DEF ListenerPop, Pop, webVars
<1>3. /\ queue \in [Node -> Seq(Messages)] /\ DOMAIN listener = Node /\ Home(m) \in Node
  BY HomeIsNode DEF TypeInv, TypeOK
<1>4. InQueue(m)' => InQueue(m)
  <2>1. \/ queue'[Home(m)] = queue[Home(m)]
        \/ queue[Home(m)] # <<>> /\ queue'[Home(m)] = Tail(queue[Home(m)])
    BY <1>2, <1>3
  <2>2. Occurs(queue'[Home(m)], m) => Occurs(queue[Home(m)], m)
    <3>1. queue[Home(m)] \in Seq(Messages)
      BY <1>3
    <3>2. queue[Home(m)] # <<>> => (Occurs(Tail(queue[Home(m)]), m) => Occurs(queue[Home(m)], m))
      BY <3>1, AfterTail
    <3> QED
      BY <2>1, <3>2
  <2> QED
    BY <2>2 DEF InQueue, Occurs
<1>5. \/ listener'[Home(m)] = listener[Home(m)]
      \/ listener'[Home(m)].msg = x /\ Home(m) = g
  BY <1>1, <1>3
<1>6. Held(m)' => (Held(m) /\ listener'[Home(m)] = listener[Home(m)]) \/ InQueue(m)
  BY <1>1, <1>5 DEF Held, InQueue
<1> QED
  BY <1>2, <1>4, <1>6 DEF Onward, Issued, OnWire, Judging

LEMMA OnwardDrop ==
  ASSUME TypeInv, NEW g \in Node, Become(g, Idle), UNCHANGED <<next, net, queue, cast>>,
         NEW m \in Messages, Issued(m)
  PROVE  Onward(m)
<1>1. listener'[Home(m)] = Idle \/ listener'[Home(m)] = listener[Home(m)]
  BY HomeIsNode DEF Become, TypeInv, TypeOK
<1> QED
  BY <1>1 DEF Onward, Issued, OnWire, InQueue, Held, Judging

LEMMA OnwardVerdict ==
  ASSUME TypeInv, Moving, NEW g \in Node, NEW o \in SendOutcomes, NEW raw \in RawVerdicts,
         listener[g].at \in {"judging", "failing"}, Send(g, o, raw),
         NEW state, listener' = [listener EXCEPT ![g] = state],
         \/ state = Idle
         \/ state.msg = listener[g].msg /\ state.at = "failing",
         UNCHANGED <<next, queue>>,
         NEW m \in Messages, Issued(m)
  PROVE  Onward(m)
<1>1. PICK v \in Verdicts : /\ v \notin cast /\ cast' = cast \cup {v}
                            /\ v.type # "intent" /\ Transmit(o, Hub, v)
  BY SendNew
<1>2. m # v
  BY <1>1 DEF Issued
<1>3. OnWire(m)' => OnWire(m)
  BY <1>1, <1>2 DEF Transmit, OnWire
<1>4. Issued(m)'
  BY <1>1 DEF Issued
<1>5. /\ DOMAIN listener = Node /\ Home(m) \in Node /\ listener[g] # Idle
  BY HomeIsNode DEF TypeInv, TypeOK, Idle
<1>6. \/ listener'[Home(m)] = listener[Home(m)]
      \/ listener'[Home(m)] = Idle
      \/ /\ listener[Home(m)] # Idle /\ listener'[Home(m)].msg = listener[Home(m)].msg
         /\ listener'[Home(m)].at = "failing"
  BY <1>5
<1>7. (Held(m)' => Held(m)) /\ (Judging(m)' => Judging(m))
  BY <1>6 DEF Held, Judging
<1> QED
  BY <1>3, <1>4, <1>7 DEF Onward, InQueue

LEMMA MovesOnward ==
  ASSUME TypeInv, Moving, [Next]_vars, NEW m \in Messages, Issued(m)
  PROVE  Onward(m)
<1>t. TypeOK
  BY DEF TypeInv
<1>1. ASSUME NEW r \in Req, WebStep(r) PROVE Onward(m)
  <2>1. ASSUME NEW o \in SendOutcomes, SendIntent(r, o) PROVE Onward(m)
    BY <2>1, OnwardSend
  <2>2. CASE PollRecv(r)
    BY <2>2, OnwardPoll
  <2>3. CASE StartRequest(r) \/ FinishBroadcast(r) \/ DrainRead(r)
             \/ DrainTruncate(r) \/ Decide(r)
    <3>1. UNCHANGED <<next, nodeVars>>
      BY <2>3 DEF StartRequest, PeersResolved, FinishBroadcast, DrainRead, DrainTruncate,
                  Decide, webVars
    <3> QED
      BY <3>1, OnwardAlone
  <2> QED
    BY <1>1, <2>1, <2>2, <2>3 DEF WebStep
<1>2. ASSUME NEW r \in Req, Expire(r) PROVE Onward(m)
  BY <1>2, OnwardAlone DEF Expire
<1>3. ASSUME NEW g \in Node, ListenerStep(g) PROVE Onward(m)
  <2>1. CASE ListenerPop(g)
    BY <2>1, OnwardPop
  <2>2. CASE ListenerSpool(g)
    BY <2>2, OnwardDrop DEF ListenerSpool, webVars
  <2>3. ASSUME NEW raw \in Ballots, NEW o \in SendOutcomes, Judge(g, raw, o)
        PROVE  Onward(m)
    <3>1. raw \in RawVerdicts
      BY MeshAssumption DEF RawVerdicts
    <3>2. PICK state : /\ listener' = [listener EXCEPT ![g] = state]
                       /\ \/ state = Idle
                          \/ state.msg = listener[g].msg /\ state.at = "failing"
      <4>1. listener[g] \in [at : {"judging", "failing"}, msg : Intents]
        BY <1>t, <2>3, ListenerKinds DEF Judge
      <4>2. /\ [listener[g] EXCEPT !.at = "failing"].msg = listener[g].msg
            /\ [listener[g] EXCEPT !.at = "failing"].at = "failing"
        BY <4>1
      <4> QED
        BY <2>3, <4>2 DEF Judge, Become
    <3>3. /\ listener[g].at \in {"judging", "failing"} /\ Send(g, o, raw)
          /\ UNCHANGED <<next, queue>>
      BY <2>3 DEF Judge, webVars
    <3> QED
      BY <3>1, <3>2, <3>3, OnwardVerdict
  <2>4. ASSUME NEW o \in SendOutcomes, SendErrorVerdict(g, o) PROVE Onward(m)
    <3>1. /\ listener[g].at \in {"judging", "failing"} /\ Send(g, o, "ERROR")
          /\ UNCHANGED <<next, queue>> /\ listener' = [listener EXCEPT ![g] = Idle]
      BY <2>4 DEF SendErrorVerdict, webVars, Become
    <3> QED
      BY <3>1, OnwardVerdict DEF RawVerdicts
  <2> QED
    BY <1>3, <2>1, <2>2, <2>3, <2>4 DEF ListenerStep
<1>4. ASSUME NEW g \in Node, ListenerRestart(g) PROVE Onward(m)
  BY <1>4, OnwardDrop DEF ListenerRestart, webVars
<1>5. ASSUME NEW p \in net, Deliver(p) PROVE Onward(m)
  BY <1>5, OnwardDeliver
<1>6. CASE UNCHANGED vars
  BY <1>6, OnwardAlone DEF vars, webVars
<1> QED
  BY <1>1, <1>2, <1>3, <1>4, <1>5, <1>6 DEF Next

-----------------------------------------------------------------------------
(***************************************************************************)
(* A verdict that left its transit is in the spool or counted by one       *)
(* request, never in both. The rows of a drain are still in the file: the  *)
(* listener only appends to it while the drain is in progress.             *)
(***************************************************************************)

Gone(v)    == v \in cast /\ ~InTransit(v)
InSpool(v) == Occurs(spool, v)

DrainInSpool == \A v \in Verdicts : Occurs(drain.rows, v) => InSpool(v)

OnePlace(v) ==
  /\ InSpool(v) => Gone(v)
  /\ \A r \in Req : v \in out[r] => /\ Gone(v) /\ ~InSpool(v)
                                    /\ \A s \in Req : v \in out[s] => r = s

Placed == DrainInSpool /\ \A v \in Verdicts : OnePlace(v)

LEMMA PlacedInit == Init => Placed
BY DEF Init, Placed, DrainInSpool, OnePlace, InSpool, Occurs, NotDraining

LEMMA VerdictIsMessage ==
  \A v \in Verdicts : v \in Messages /\ v.type # "intent" /\ Home(v) = Hub
BY DEF Verdicts, Messages, Home

\* What is gone stays gone.
LEMMA StaysGone ==
  ASSUME TypeInv, Moving, [Next]_vars, NEW v \in Verdicts, Gone(v)
  PROVE  Gone(v)'
<1>1. v \in Messages /\ v.type # "intent"
  BY VerdictIsMessage
<1>2. Onward(v)
  BY <1>1, MovesOnward DEF Gone, Issued
<1> QED
  BY <1>1, <1>2 DEF Onward, Gone, Issued, InTransit

LEMMA PlacedAlone ==
  ASSUME TypeInv, Moving, Placed, [Next]_vars, UNCHANGED <<out, spool>>,
         drain'.rows = drain.rows \/ drain'.rows = spool \/ drain'.rows = <<>>
  PROVE  Placed'
<1>1. DrainInSpool'
  BY DEF Placed, DrainInSpool, InSpool, Occurs
<1>2. ASSUME NEW v \in Verdicts PROVE OnePlace(v)'
  <2>1. OnePlace(v) /\ (Gone(v) => Gone(v)') /\ InSpool(v)' = InSpool(v)
    BY StaysGone DEF Placed, InSpool
  <2> QED
    BY <2>1 DEF OnePlace
<1> QED
  BY <1>1, <1>2 DEF Placed

LEMMA PlacedTruncate ==
  ASSUME TypeInv, Moving, Placed, [Next]_vars, NEW r \in Req, DrainTruncate(r)
  PROVE  Placed'
<1>1. PICK j \in 0 .. Len(drain.rows) :
         out' = [out EXCEPT ![r] = @ \cup FirstRows(drain.rows, j)]
  BY DrainedRows DEF TypeInv
<1>2. drain' = NotDraining /\ spool' = <<>>
  BY DEF DrainTruncate
<1>3. drain.rows \in Seq(Verdicts) /\ DOMAIN out = Req
  BY DEF TypeInv, TypeOK
<1>4. \A v \in FirstRows(drain.rows, j) : Occurs(drain.rows, v)
  <2>1. \A k \in 1 .. j : k \in DOMAIN drain.rows
    BY <1>3, LenProperties
  <2> QED
    BY <2>1 DEF FirstRows, Occurs
<1>5. ASSUME NEW v \in Verdicts PROVE ~InSpool(v)' /\ ~Occurs(drain'.rows, v)
  BY <1>2 DEF InSpool, Occurs, NotDraining
<1>6. ASSUME NEW v \in Verdicts PROVE OnePlace(v)'
  <2>1. /\ OnePlace(v) /\ (Gone(v) => Gone(v)')
        /\ (v \in FirstRows(drain.rows, j) => InSpool(v))
    BY <1>4, StaysGone DEF Placed, DrainInSpool
  <2>2. ASSUME NEW q \in Req, v \in out'[q]
        PROVE  v \in out[q] \/ (q = r /\ v \in FirstRows(drain.rows, j))
    BY <1>1, <1>3, <2>2
  <2> QED
    BY <1>5, <2>1, <2>2 DEF OnePlace
<1> QED
  BY <1>5, <1>6 DEF Placed, DrainInSpool

LEMMA PlacedPoll ==
  ASSUME TypeInv, Moving, Placed, [Next]_vars, NEW r \in Req, PollRecv(r)
  PROVE  Placed'
<1>1. CASE queue[Hub] = <<>>
  BY <1>1, PlacedAlone DEF PollRecv, Pop
<1>2. CASE queue[Hub] # <<>>
  <2>1. PICK x \in Messages :
          /\ x = Head(queue[Hub]) /\ Occurs(queue[Hub], x)
          /\ out' = IF x.type = "verdict" THEN [out EXCEPT ![r] = @ \cup {x}] ELSE out
    BY <1>2, MeshAssumption, AfterTail DEF PollRecv, Pop, TypeInv, TypeOK
  <2>2. /\ UNCHANGED <<net, listener, cast, spool, drain>>
        /\ queue' = [queue EXCEPT ![Hub] = Tail(@)]
        /\ queue \in [Node -> Seq(Messages)] /\ DOMAIN out = Req
    BY <1>2 DEF PollRecv, Pop, TypeInv, TypeOK
  <2>3. CASE x.type # "verdict"
    BY <2>1, <2>2, <2>3, PlacedAlone
  <2>4. CASE x.type = "verdict"
    <3>1. x \in Verdicts /\ Home(x) = Hub
      BY <2>4, MessageKinds, VerdictIsMessage
    <3>2. OneCopy(x) /\ InQueue(x)
      BY <2>1, <3>1 DEF Moving, InQueue
    <3>3. x \in cast /\ ~OnWire(x) /\ ~Held(x)
      BY <2>4, <3>2 DEF OneCopy, InTransit, Issued
    <3>4. ~Occurs(queue'[Hub], x)
      <4>1. queue[Hub] \in Seq(Messages) /\ queue'[Hub] = Tail(queue[Hub])
        BY <2>2, MeshAssumption
      <4>2. Once(queue[Hub], x)
        BY <3>1, <3>2 DEF OneCopy
      <4> QED
        BY <1>2, <2>1, <4>1, <4>2, AfterTail
    <3>5. Gone(x)'
      <4>1. ~OnWire(x)' /\ ~Held(x)'
        BY <2>2, <3>3 DEF OnWire, Held
      <4>2. ~InQueue(x)'
        BY <3>1, <3>4 DEF InQueue, Occurs
      <4> QED
        BY <2>2, <3>3, <4>1, <4>2 DEF Gone, InTransit
    <3>6. ~InSpool(x) /\ \A q \in Req : x \notin out[q]
      BY <3>1, <3>2 DEF Placed, OnePlace, Gone, InTransit
    <3>7. ASSUME NEW v \in Verdicts PROVE OnePlace(v)'
      <4>1. OnePlace(v) /\ (Gone(v) => Gone(v)') /\ InSpool(v)' = InSpool(v)
        BY <2>2, StaysGone DEF Placed, InSpool
      <4>2. ASSUME NEW q \in Req, v \in out'[q]
            PROVE  v \in out[q] \/ (q = r /\ v = x)
        BY <2>1, <2>2, <2>4, <4>2
      <4>3. CASE v = x
        BY <3>5, <3>6, <4>1, <4>2, <4>3 DEF OnePlace
      <4>4. CASE v # x
        BY <4>1, <4>2, <4>4 DEF OnePlace
      <4> QED
        BY <4>3, <4>4
    <3>8. DrainInSpool'
      BY <2>2 DEF Placed, DrainInSpool, InSpool
    <3> QED
      BY <3>7, <3>8 DEF Placed
  <2> QED
    BY <2>3, <2>4
<1> QED
  BY <1>1, <1>2

LEMMA PlacedSpool ==
  ASSUME TypeInv, Moving, Placed, [Next]_vars, NEW g \in Node, ListenerSpool(g)
  PROVE  Placed'
<1>1. PICK x \in Verdicts : x = listener[g].msg /\ spool' = Append(spool, x)
  BY ListenerKinds DEF ListenerSpool, TypeInv
<1>2. /\ listener' = [listener EXCEPT ![g] = Idle] /\ DOMAIN listener = Node
      /\ listener[g] # Idle /\ UNCHANGED <<net, queue, cast, drain, out>>
      /\ spool \in Seq(Verdicts)
  BY DEF ListenerSpool, Become, webVars, TypeInv, TypeOK, Idle
<1>3. x \in Messages /\ x.type # "intent" /\ Home(x) = Hub /\ g = Hub
  <2>1. x \in Messages /\ x.type # "intent" /\ Home(x) = Hub
    BY VerdictIsMessage
  <2> QED
    BY <1>1, <1>2, <2>1 DEF Moving, AtHome
<1>4. Held(x) /\ OneCopy(x)
  BY <1>1, <1>2, <1>3 DEF Held, Moving
<1>5. Gone(x)'
  <2>1. x \in cast /\ ~OnWire(x) /\ ~InQueue(x)
    BY <1>3, <1>4 DEF OneCopy, InTransit, Issued
  <2>2. ~Held(x)'
    BY <1>2, <1>3 DEF Held
  <2> QED
    BY <1>2, <2>1, <2>2 DEF Gone, InTransit, OnWire, InQueue
<1>6. ~InSpool(x) /\ \A q \in Req : x \notin out[q]
  BY <1>4 DEF Placed, OnePlace, Gone, InTransit
<1>7. ASSUME NEW v \in Verdicts
      PROVE  /\ InSpool(v)' => InSpool(v) \/ v = x
             /\ InSpool(v) => InSpool(v)'
  <2>1. /\ Len(spool) \in Nat /\ DOMAIN spool = 1 .. Len(spool)
        /\ DOMAIN spool' = 1 .. Len(spool) + 1
        /\ \A k \in 1 .. Len(spool) : spool'[k] = spool[k]
        /\ spool'[Len(spool) + 1] = x
    BY <1>1, <1>2, LenProperties, AppendProperties
  <2>2. \A k \in DOMAIN spool' : (k \in DOMAIN spool /\ spool'[k] = spool[k]) \/ spool'[k] = x
    BY <2>1
  <2>3. \A k \in DOMAIN spool : k \in DOMAIN spool' /\ spool'[k] = spool[k]
    BY <2>1
  <2> QED
    BY <2>2, <2>3 DEF InSpool, Occurs
<1>8. ASSUME NEW v \in Verdicts PROVE OnePlace(v)'
  <2>1. OnePlace(v) /\ (Gone(v) => Gone(v)')
    BY StaysGone DEF Placed
  <2> QED
    BY <1>2, <1>5, <1>6, <1>7, <2>1 DEF OnePlace
<1>9. DrainInSpool'
  BY <1>2, <1>7 DEF Placed, DrainInSpool
<1> QED
  BY <1>8, <1>9 DEF Placed

LEMMA PlacedStep == TypeInv /\ Moving /\ Placed /\ [Next]_vars => Placed'
<1> SUFFICES ASSUME TypeInv, Moving, Placed, [Next]_vars PROVE Placed'
  OBVIOUS
<1>1. ASSUME UNCHANGED <<out, spool, drain>> PROVE Placed'
  BY <1>1, PlacedAlone
<1>2. ASSUME NEW r \in Req, WebStep(r) PROVE Placed'
  <2>1. ASSUME NEW o \in SendOutcomes, SendIntent(r, o) PROVE Placed'
    BY <1>1, <2>1 DEF SendIntent
  <2>2. CASE PollRecv(r)
    BY <2>2, PlacedPoll
  <2>3. CASE StartRequest(r) \/ FinishBroadcast(r) \/ Decide(r)
    BY <1>1, <2>3 DEF StartRequest, PeersResolved, FinishBroadcast, Decide
  <2>4. CASE DrainRead(r)
    <3>1. UNCHANGED <<out, spool>> /\ drain'.rows = spool
      BY <2>4 DEF DrainRead, webVars
    <3> QED
      BY <3>1, PlacedAlone
  <2>5. CASE DrainTruncate(r)
    BY <2>5, PlacedTruncate
  <2> QED
    BY <1>2, <2>1, <2>2, <2>3, <2>4, <2>5 DEF WebStep
<1>3. ASSUME NEW r \in Req, Expire(r) PROVE Placed'
  BY <1>1, <1>3 DEF Expire
<1>4. ASSUME NEW g \in Node, ListenerStep(g) PROVE Placed'
  <2>1. CASE ListenerSpool(g)
    BY <2>1, PlacedSpool
  <2>2. CASE \/ ListenerPop(g)
             \/ \E raw \in Ballots, o \in SendOutcomes : Judge(g, raw, o)
             \/ \E o \in SendOutcomes : SendErrorVerdict(g, o)
    BY <1>1, <2>2 DEF ListenerPop, Pop, Judge, SendErrorVerdict, webVars
  <2> QED
    BY <1>4, <2>1, <2>2 DEF ListenerStep
<1>5. ASSUME NEW g \in Node, ListenerRestart(g) PROVE Placed'
  BY <1>1, <1>5 DEF ListenerRestart, webVars
<1>6. ASSUME NEW p \in net, Deliver(p) PROVE Placed'
  BY <1>1, <1>6 DEF Deliver, webVars
<1>7. CASE UNCHANGED vars
  BY <1>1, <1>7 DEF vars, webVars
<1> QED
  BY <1>2, <1>3, <1>4, <1>5, <1>6, <1>7 DEF Next

\* However the poll loop and the hub's own listener take turns at the hub's
\* queue, and whatever the spool loses, two requests never count the same
\* verdict message.
THEOREM NoDoubleCount == Spec => []NoVerdictCountedTwice
<1>1. ASSUME TypeInv, Placed PROVE NoVerdictCountedTwice
  <2>1. ASSUME NEW r \in Req, NEW s \in Req, r # s, NEW v, v \in out[r], v \in out[s]
        PROVE  FALSE
    <3>1. v \in Verdicts
      BY <1>1, <2>1 DEF TypeInv, TypeOK
    <3> QED
      BY <1>1, <2>1, <3>1 DEF Placed, OnePlace
  <2> QED
    BY <2>1 DEF NoVerdictCountedTwice
<1> QED
  BY TypeInit, TypeStep, MovingInit, MovingStep, PlacedInit, PlacedStep, <1>1, PTL
  DEF Spec

-----------------------------------------------------------------------------
(***************************************************************************)
(* A guardian that is addressed once judges an intent once: what it sends  *)
(* besides is an ERROR. The broadcast goes through the peer list without   *)
(* looking for duplicates, so this rests on a list without any.            *)
(***************************************************************************)

DistinctPeers == \A i, j \in DOMAIN Peers : Peers[i] = Peers[j] => i = j

Judgement(v) == v.verdict # "ERROR"

Unjudged(m) == OnWire(m) \/ InQueue(m) \/ Judging(m)

\* Slot i of the intent a verdict answers: addressed to its sender, and judged.
Answers(v, i) ==
  /\ Peers[i] = v.from
  /\ Issued(Intent(v.req, i)) /\ ~Unjudged(Intent(v.req, i))

JudgedOnce ==
  \A v \in cast : Judgement(v) =>
    /\ \A w \in cast : Judgement(w) /\ w.from = v.from /\ w.req = v.req => w = v
    /\ \E i \in DOMAIN Peers : Answers(v, i)

LEMMA IntentIsMessage ==
  ASSUME NEW r \in Req, NEW i \in DOMAIN Peers
  PROVE  /\ Intent(r, i) \in Messages
         /\ Intent(r, i).req = r /\ Intent(r, i).slot = i
         /\ Home(Intent(r, i)) = Peers[i]
BY DEF Intent, Intents, Messages, Home

\* What was judged stays judged.
LEMMA StaysJudged ==
  ASSUME TypeInv, Moving, [Next]_vars, NEW v \in Verdicts, NEW i \in DOMAIN Peers,
         Answers(v, i)
  PROVE  Answers(v, i)'
<1> DEFINE m == Intent(v.req, i)
<1>1. m \in Messages
  BY IntentIsMessage DEF Verdicts
<1>2. Issued(m) /\ ~Unjudged(m) /\ Peers[i] = v.from
  BY DEF Answers
<1> HIDE DEF m
<1>3. Onward(m)
  BY <1>1, <1>2, MovesOnward
<1>4. Issued(m)' /\ ~Unjudged(m)'
  BY <1>2, <1>3 DEF Onward, Unjudged
<1> QED
  BY <1>2, <1>4 DEF Answers, m

LEMMA JudgedOnceInit == Init => JudgedOnce
BY DEF Init, JudgedOnce

\* A step that casts no judgement.
LEMMA JudgedOnceAlone ==
  ASSUME TypeInv, Moving, JudgedOnce, [Next]_vars, cast \subseteq cast',
         \A v \in cast' : v \in cast \/ ~Judgement(v)
  PROVE  JudgedOnce'
<1>1. ASSUME NEW v \in cast, NEW i \in DOMAIN Peers, Answers(v, i) PROVE Answers(v, i)'
  BY <1>1, StaysJudged DEF TypeInv, TypeOK
<1> QED
  BY <1>1 DEF JudgedOnce, Judgement

LEMMA JudgedOnceJudge ==
  ASSUME TypeInv, Moving, DistinctPeers, JudgedOnce, [Next]_vars,
         NEW g \in Node, NEW raw \in Ballots, NEW o \in SendOutcomes, Judge(g, raw, o)
  PROVE  JudgedOnce'
<1>1. /\ listener[g].at = "judging" /\ Send(g, o, raw) /\ UNCHANGED queue
      /\ listener[g] # Idle
  BY DEF Judge, Idle
<1>12. listener'[g] = Idle \/ listener'[g].at = "failing"
  <2>1. PICK state : /\ listener' = [listener EXCEPT ![g] = state]
                     /\ state = Idle \/ state.at = "failing"
    <3>1. listener[g] \in [at : {"judging", "failing"}, msg : Intents]
      BY <1>1, ListenerKinds DEF TypeInv
    <3>2. [listener[g] EXCEPT !.at = "failing"].at = "failing"
      BY <3>1
    <3> QED
      BY <3>2 DEF Judge, Become
  <2> QED
    BY <2>1 DEF TypeInv, TypeOK
<1>2. PICK v \in Verdicts :
              /\ v.from = g /\ v.req = listener[g].msg.req
              /\ v \notin cast /\ cast' = cast \cup {v}
              /\ v.type # "intent" /\ Transmit(o, Hub, v)
  <2>1. raw \in RawVerdicts /\ listener[g].at \in {"judging", "failing"}
    BY <1>1, MeshAssumption DEF RawVerdicts
  <2> QED
    BY <1>1, <2>1, SendNew
<1>3. PICK i \in DOMAIN Peers : listener[g].msg = Intent(v.req, i)
  <2>1. listener[g].msg \in Intents
    BY <1>1, ListenerKinds DEF TypeInv
  <2> QED
    BY <1>2, <2>1 DEF Intents, Intent
<1>4. PICK m \in Messages : m = listener[g].msg /\ m = Intent(v.req, i)
  BY <1>3, IntentIsMessage DEF Verdicts
<1>5. Home(m) = g /\ Peers[i] = g /\ m.type = "intent"
  <2>1. Home(m) = g
    BY <1>1, <1>4 DEF Moving, AtHome
  <2>2. v.req \in Req
    BY DEF Verdicts
  <2> QED
    BY <1>4, <2>1, <2>2, IntentIsMessage DEF Intent
<1>6. Judging(m) /\ OneCopy(m)
  BY <1>1, <1>4, <1>5 DEF Judging, Held, Moving
<1>7. Issued(m) /\ ~OnWire(m) /\ ~InQueue(m)
  BY <1>6 DEF Judging, OneCopy, InTransit
\* No earlier judgement by g answers this intent: it was not judged.
<1>8. \A w \in cast : ~(Judgement(w) /\ w.from = g /\ w.req = v.req)
  <2> SUFFICES ASSUME NEW w \in cast, Judgement(w), w.from = g, w.req = v.req
               PROVE  FALSE
    OBVIOUS
  <2>1. PICK k \in DOMAIN Peers : Answers(w, k)
    BY DEF JudgedOnce
  <2>2. k = i
    BY <1>5, <2>1 DEF Answers, DistinctPeers
  <2> QED
    BY <1>4, <1>6, <2>1, <2>2 DEF Answers, Unjudged
<1>9. Answers(v, i)'
  <2>1. Onward(m)
    BY <1>7, MovesOnward
  <2>2. ~OnWire(m)' /\ ~InQueue(m)'
    BY <1>1, <1>7, <2>1 DEF Onward
  <2>3. ~Judging(m)'
    BY <1>12, <1>5 DEF Judging, Held
  <2>4. Issued(m)'
    BY <2>1 DEF Onward
  <2> QED
    BY <1>2, <1>4, <1>5, <2>2, <2>3, <2>4 DEF Answers, Unjudged
<1>10. ASSUME NEW w \in cast, NEW k \in DOMAIN Peers, Answers(w, k) PROVE Answers(w, k)'
  BY <1>10, StaysJudged DEF TypeInv, TypeOK
<1>11. \A w \in cast' : w \in cast \/ w = v
  BY <1>2
<1> QED
  BY <1>2, <1>8, <1>9, <1>10, <1>11 DEF JudgedOnce, Judgement

LEMMA JudgedOnceStep ==
  ASSUME DistinctPeers
  PROVE  TypeInv /\ Moving /\ JudgedOnce /\ [Next]_vars => JudgedOnce'
<1> SUFFICES ASSUME TypeInv, Moving, JudgedOnce, [Next]_vars PROVE JudgedOnce'
  OBVIOUS
<1>1. ASSUME UNCHANGED cast PROVE JudgedOnce'
  BY <1>1, JudgedOnceAlone
<1>2. ASSUME NEW r \in Req, WebStep(r) PROVE JudgedOnce'
  BY <1>1, <1>2
  DEF WebStep, StartRequest, SendIntent, FinishBroadcast, DrainRead, DrainTruncate,
      PollRecv, Decide, nodeVars
<1>3. ASSUME NEW r \in Req, Expire(r) PROVE JudgedOnce'
  BY <1>1, <1>3 DEF Expire, nodeVars
<1>4. ASSUME NEW g \in Node, ListenerStep(g) PROVE JudgedOnce'
  <2>1. CASE ListenerPop(g) \/ ListenerSpool(g)
    BY <1>1, <2>1 DEF ListenerPop, Pop, ListenerSpool
  <2>2. ASSUME NEW raw \in Ballots, NEW o \in SendOutcomes, Judge(g, raw, o)
        PROVE  JudgedOnce'
    BY <2>2, JudgedOnceJudge
  <2>3. ASSUME NEW o \in SendOutcomes, SendErrorVerdict(g, o) PROVE JudgedOnce'
    <3>1. PICK v : cast' = cast \cup {v} /\ v.verdict = "ERROR"
      <4>1. /\ "ERROR" \in RawVerdicts /\ Send(g, o, "ERROR")
            /\ listener[g].at \in {"judging", "failing"}
        BY <2>3 DEF SendErrorVerdict, RawVerdicts
      <4> QED
        BY <4>1, SendNew
    <3> QED
      BY <3>1, JudgedOnceAlone DEF Judgement
  <2> QED
    BY <1>4, <2>1, <2>2, <2>3 DEF ListenerStep
<1>5. ASSUME NEW g \in Node, ListenerRestart(g) PROVE JudgedOnce'
  BY <1>1, <1>5 DEF ListenerRestart
<1>6. ASSUME NEW p \in net, Deliver(p) PROVE JudgedOnce'
  BY <1>1, <1>6 DEF Deliver
<1>7. CASE UNCHANGED vars
  BY <1>1, <1>7 DEF vars, nodeVars
<1> QED
  BY <1>2, <1>3, <1>4, <1>5, <1>6, <1>7 DEF Next

\* The guardians behind the APPROVE rows of a request are as many as the rows.
LEMMA ApproversOfRows ==
  ASSUME TypeInv, Collected, Placed, JudgedOnce, NEW r \in Req, Req = {r}
  PROVE  Cardinality(Approvers(r)) = Cardinality(Votes(out[r], "approve"))
<1> DEFINE V == Votes(out[r], "approve")
           f == [v \in V |-> v.from]
<1>1. IsFiniteSet(V)
  <2>1. IsFiniteSet(out[r])
    BY DEF Collected, RowsWithinSends
  <2> QED
    BY <2>1, FS_Subset DEF Votes
<1>2. \A v \in V : /\ v \in Verdicts /\ v \in cast /\ v.req = r /\ Judgement(v)
  <2> SUFFICES ASSUME NEW v \in V
               PROVE  v \in Verdicts /\ v \in cast /\ v.req = r /\ Judgement(v)
    OBVIOUS
  <2>1. v \in out[r] /\ v \in Verdicts /\ ClassifyVote(v.verdict) = "approve"
    BY DEF Votes, TypeInv, TypeOK
  <2>2. v \in cast
    BY <2>1 DEF Placed, OnePlace, Gone
  <2>3. v.req = r
    BY <2>1 DEF Verdicts
  <2>4. Judgement(v)
    BY <2>1 DEF Judgement, ClassifyVote
  <2> QED
    BY <2>1, <2>2, <2>3, <2>4
<1>3. Approvers(r) = {v.from : v \in V}
  BY <1>2 DEF Approvers
<1> HIDE DEF V
<1>4. f \in Bijection(V, {v.from : v \in V})
  <2>1. \A v, w \in V : f[v] = f[w] => v = w
    BY <1>2 DEF JudgedOnce
  <2> QED
    BY <2>1 DEF Bijection, Injection, Surjection, IsInjective
<1>5. ExistsBijection(V, {v.from : v \in V})
  BY <1>4 DEF ExistsBijection
<1>6. Cardinality({v.from : v \in V}) = Cardinality(V)
  BY <1>1, <1>5, FS_Bijection
<1> QED
  BY <1>3, <1>6 DEF V

\* With a peer list that names no guardian twice and a single request about,
\* an intent is executed (in every mode but "any") only if more than half of
\* the guardians approved it, each counted once: the second message of a
\* guardian whose send failed adds no vote, whichever reader takes it.
THEOREM BackedByGuardians ==
  ASSUME DistinctPeers, NEW r, Req = {r}
  PROVE  Spec => []ExecuteBackedByGuardians
<1>1. ASSUME TypeInv, Collected, Placed, JudgedOnce, ExecuteBackedByRows
      PROVE  ExecuteBackedByGuardians
  BY <1>1, ApproversOfRows DEF ExecuteBackedByRows, ExecuteBackedByGuardians
<1>2. TypeInv /\ Moving /\ JudgedOnce /\ [Next]_vars => JudgedOnce'
  BY JudgedOnceStep
<1> QED
  BY TypeInit, TypeStep, MovingInit, MovingStep, PlacedInit, PlacedStep,
     JudgedOnceInit, <1>1, <1>2, InvariantHolds, ExecutionBackedByRows, PTL
  DEF Spec
-----------------------------------------------------------------------------
(***************************************************************************)
(* The command-line client. Its steps are steps of a request, or steps of  *)
(* its own that leave the nodes alone; so what was shown about where       *)
(* messages are holds beside it too. What a round wiped out of the spool   *)
(* had left its transit, and nothing takes it up again.                    *)
(***************************************************************************)

ClientOwn(r) ==
  \/ ClientUnreachable(r) \/ ClientStart(r) \/ ClientListen(r)
  \/ ClientDrainRead(r) \/ ClientDrain(r) \/ ClientDone(r)
  \/ RecvFails(r) /\ UNCHANGED wiped

\* The steps the client shares with the Web server's requests.
ClientShared(r) ==
  /\ \/ \E o \in SendOutcomes : SendIntent(r, o)
     \/ PollRecv(r)
     \/ Expire(r)
  /\ UNCHANGED wiped

LEMMA ClientStepKinds ==
  ASSUME NEW r \in Req, ClientStep(r)
  PROVE  ClientOwn(r) \/ ClientShared(r)
BY DEF ClientStep, ClientOwn, ClientShared, ClientSend, ClientRecv, ClientExpire

LEMMA SharedIsNext ==
  ASSUME NEW r \in Req, ClientShared(r)
  PROVE  Next /\ UNCHANGED wiped
BY DEF ClientShared, Next, WebStep

LEMMA NodeIsNext == NodeStep => Next /\ UNCHANGED wiped
BY DEF NodeStep, Next

LEMMA LinesOccur ==
  ASSUME NEW q \in Seq(Verdicts)
  PROVE  /\ Lines(q) \subseteq Verdicts
         /\ \A v : v \in Lines(q) <=> Occurs(q, v)
<1>1. \A k \in DOMAIN q : q[k] \in Verdicts
  BY LenProperties, ElementOfSeq
<1> QED
  BY <1>1 DEF Lines, Occurs

\* What a step of the client's own does.
LEMMA OwnEffects ==
  ASSUME TypeOK, NEW r \in Req, ClientOwn(r)
  PROVE  /\ UNCHANGED <<threshold, next, okPeers, late, nodeVars, faults>>
         /\ phase' \in [Req -> Phases]
         /\ \/ UNCHANGED <<out, spool, wiped>> /\ drain' = drain
            \/ UNCHANGED <<out, spool, wiped>> /\ drain' = [by |-> r, rows |-> spool]
            \/ /\ UNCHANGED <<out, drain>> /\ spool' = <<>> /\ drain.by = None
               /\ wiped' = [wiped EXCEPT ![r] = Lines(spool)]
            \/ /\ UNCHANGED wiped /\ spool' = <<>> /\ drain' = NotDraining
               /\ out' = [out EXCEPT ![r] = @ \cup Lines(drain.rows)]
<1>p. phase \in [Req -> Phases]
  BY DEF TypeOK
<1>1. CASE ClientUnreachable(r)
  BY <1>1, <1>p DEF ClientUnreachable, Phases
<1>2. CASE ClientStart(r)
  BY <1>2, <1>p DEF ClientStart, Between, WebIsFree, Emptied, Goto, Phases
<1>3. CASE ClientListen(r) \/ ClientDone(r) \/ (RecvFails(r) /\ UNCHANGED wiped)
  BY <1>3, <1>p DEF ClientListen, ClientDone, RecvFails, Goto, Phases
<1>4. CASE ClientDrainRead(r)
  BY <1>4, <1>p DEF ClientDrainRead, webVars
<1>5. CASE ClientDrain(r)
  BY <1>5, <1>p DEF ClientDrain, PushVerdicts, Goto, Phases
<1> QED
  BY <1>1, <1>2, <1>3, <1>4, <1>5 DEF ClientOwn

LEMMA OwnType ==
  ASSUME TypeInv, NEW r \in Req, ClientOwn(r)
  PROVE  TypeInv'
<1>1. /\ UNCHANGED <<threshold, next, okPeers, late, nodeVars, faults>>
      /\ phase' \in [Req -> Phases]
  BY OwnEffects DEF TypeInv
<1>2. UNCHANGED <<net, queue, listener, cast>>
  BY <1>1 DEF nodeVars
<1>3. /\ out \in [Req -> SUBSET Verdicts] /\ spool \in Seq(Verdicts)
      /\ drain \in [by : Req \cup {None}, rows : Seq(Verdicts)]
  BY DEF TypeInv, TypeOK
<1>4. <<>> \in Seq(Verdicts)
  BY EmptySeq
<1>5. spool' \in Seq(Verdicts)
  BY <1>3, <1>4, OwnEffects DEF TypeInv
<1>6. drain' \in [by : Req \cup {None}, rows : Seq(Verdicts)]
  <2>1. drain' \in {drain, [by |-> r, rows |-> spool], NotDraining}
    BY OwnEffects DEF TypeInv
  <2>2. NotDraining \in [by : Req \cup {None}, rows : Seq(Verdicts)]
    BY <1>4 DEF NotDraining
  <2>3. [by |-> r, rows |-> spool] \in [by : Req \cup {None}, rows : Seq(Verdicts)]
    BY <1>3
  <2> QED
    BY <1>3, <2>1, <2>2, <2>3
<1>7. out' \in [Req -> SUBSET Verdicts]
  <2>1. Lines(drain.rows) \subseteq Verdicts
    BY <1>3, LinesOccur
  <2>2. out' = out \/ out' = [out EXCEPT ![r] = @ \cup Lines(drain.rows)]
    BY OwnEffects DEF TypeInv
  <2> QED
    BY <1>3, <2>1, <2>2
<1> QED
  BY <1>1, <1>2, <1>5, <1>6, <1>7 DEF TypeInv, TypeOK

WipedIsGone ==
  /\ wiped \in [Req -> SUBSET Verdicts]
  /\ \A r \in Req : \A v \in wiped[r] :
       Gone(v) /\ ~InSpool(v) /\ \A s \in Req : v \notin out[s]

DrainAtRest == WebIsFree => drain.rows = <<>>

ClientInv == TypeInv /\ Moving /\ Placed /\ WipedIsGone /\ DrainAtRest

LEMMA OwnPlaced ==
  ASSUME ClientInv, NEW r \in Req, ClientOwn(r)
  PROVE  Placed' /\ WipedIsGone'
<1>i. TypeInv /\ Moving /\ Placed /\ WipedIsGone /\ DrainAtRest
  BY DEF ClientInv
<1>1. UNCHANGED nodeVars
  BY <1>i, OwnEffects DEF TypeInv
<1>2. ASSUME NEW v PROVE Gone(v)' = Gone(v)
  BY <1>1 DEF Gone, InTransit, OnWire, InQueue, Held, nodeVars
<1>3. spool \in Seq(Verdicts) /\ drain.rows \in Seq(Verdicts) /\ out \in [Req -> SUBSET Verdicts]
  BY <1>i DEF TypeInv, TypeOK
<1>4. CASE /\ UNCHANGED <<out, spool, wiped>>
           /\ drain'.rows = drain.rows \/ drain'.rows = spool
  <2>1. \A v : InSpool(v)' = InSpool(v)
    BY <1>4 DEF InSpool
  <2>2. DrainInSpool'
    BY <1>i, <1>4, <2>1 DEF Placed, DrainInSpool, InSpool
  <2> QED
    BY <1>i, <1>2, <1>4, <2>1, <2>2 DEF Placed, OnePlace, WipedIsGone
<1>5. CASE /\ UNCHANGED <<out, drain>> /\ spool' = <<>> /\ drain.rows = <<>>
           /\ wiped' = [wiped EXCEPT ![r] = Lines(spool)]
  <2>1. \A v : ~InSpool(v)' /\ ~Occurs(drain'.rows, v)
    BY <1>5 DEF InSpool, Occurs
  <2>2. ASSUME NEW s \in Req, NEW v \in wiped'[s]
        PROVE  Gone(v) /\ v \in Verdicts /\ \A q \in Req : v \notin out[q]
    <3>1. CASE v \in wiped[s]
      BY <1>i, <3>1 DEF WipedIsGone
    <3>2. CASE v \in Lines(spool)
      BY <1>i, <1>3, <3>2, LinesOccur DEF Placed, OnePlace, InSpool
    <3>3. wiped'[s] = wiped[s] \/ wiped'[s] = Lines(spool)
      BY <1>i, <1>5 DEF WipedIsGone
    <3> QED
      BY <2>2, <3>1, <3>2, <3>3
  <2>3. wiped' \in [Req -> SUBSET Verdicts]
    BY <1>i, <1>3, <1>5, LinesOccur DEF WipedIsGone
  <2>4. WipedIsGone'
    BY <1>i, <1>2, <1>5, <2>1, <2>2, <2>3 DEF WipedIsGone
  <2>5. Placed'
    BY <1>i, <1>2, <1>5, <2>1 DEF Placed, DrainInSpool, OnePlace
  <2> QED
    BY <2>4, <2>5
<1>6. CASE /\ UNCHANGED wiped /\ spool' = <<>> /\ drain' = NotDraining
           /\ out' = [out EXCEPT ![r] = @ \cup Lines(drain.rows)]
  <2>1. \A v : ~InSpool(v)' /\ ~Occurs(drain'.rows, v)
    BY <1>6 DEF InSpool, Occurs, NotDraining
  <2>2. ASSUME NEW v \in Lines(drain.rows)
        PROVE  v \in Verdicts /\ InSpool(v) /\ Gone(v) /\ \A s \in Req : v \notin out[s]
    BY <1>i, <1>3, LinesOccur DEF Placed, DrainInSpool, OnePlace
  <2>3. ASSUME NEW s \in Req, NEW v \in out'[s]
        PROVE  v \in out[s] \/ (s = r /\ v \in Lines(drain.rows))
    BY <1>3, <1>6
  <2>4. WipedIsGone'
    BY <1>i, <1>2, <1>6, <2>1, <2>2, <2>3 DEF WipedIsGone
  <2>5. ASSUME NEW v \in Verdicts PROVE OnePlace(v)'
    <3>1. CASE v \in Lines(drain.rows)
      BY <1>2, <2>1, <2>2, <2>3, <3>1 DEF OnePlace
    <3>2. CASE v \notin Lines(drain.rows)
      BY <1>i, <1>2, <2>1, <2>3, <3>2 DEF Placed, OnePlace
    <3> QED
      BY <3>1, <3>2
  <2> QED
    BY <1>i, <2>1, <2>4, <2>5 DEF Placed, DrainInSpool
<1> QED
  BY <1>i, <1>4, <1>5, <1>6, OwnEffects DEF TypeInv, DrainAtRest, WebIsFree

\* A step of Next other than a request's drain brings nothing into the spool or
\* into the rows but what was in transit.
LEMMA NothingComesBack ==
  ASSUME TypeInv, Moving, Next, NEW r \in Req, ClientShared(r) \/ NodeStep,
         NEW v \in Verdicts, Gone(v), ~InSpool(v), \A s \in Req : v \notin out[s]
  PROVE  ~InSpool(v)' /\ \A s \in Req : v \notin out'[s]
<1>g. v \in Messages /\ Home(v) = Hub /\ ~InQueue(v) /\ ~Held(v)
  BY VerdictIsMessage DEF Gone, InTransit
<1>1. CASE UNCHANGED <<spool, out>>
  BY <1>1 DEF InSpool
<1>2. CASE PollRecv(r)
  <2>1. UNCHANGED spool
    BY <1>2 DEF PollRecv, Pop
  <2>2. \/ out' = out
        \/ queue[Hub] # <<>> /\ out' = [out EXCEPT ![r] = @ \cup {Head(queue[Hub])}]
    BY <1>2 DEF PollRecv, Pop
  <2>3. queue[Hub] # <<>> => Head(queue[Hub]) # v
    BY <1>g, MeshAssumption, AfterTail DEF InQueue, TypeInv, TypeOK
  <2>4. out \in [Req -> SUBSET Verdicts]
    BY DEF TypeInv, TypeOK
  <2>5. \A s \in Req : v \notin out'[s]
    BY <2>2, <2>3, <2>4
  <2> QED
    BY <2>1, <2>5 DEF InSpool
<1>3. ASSUME NEW g \in Node, ListenerSpool(g)
      PROVE  ~InSpool(v)' /\ \A s \in Req : v \notin out'[s]
  <2>1. PICK x \in Verdicts : x = listener[g].msg /\ spool' = Append(spool, x)
    BY <1>3, ListenerKinds DEF ListenerSpool, TypeInv
  <2>2. UNCHANGED out /\ spool \in Seq(Verdicts) /\ listener[g] # Idle
    BY <1>3 DEF ListenerSpool, webVars, TypeInv, TypeOK, Idle
  <2>3. x # v
    BY <1>g, <2>1, <2>2 DEF Moving, AtHome, Held
  <2>4. /\ Len(spool) \in Nat /\ DOMAIN spool = 1 .. Len(spool)
        /\ DOMAIN spool' = 1 .. Len(spool) + 1
        /\ \A k \in 1 .. Len(spool) : spool'[k] = spool[k]
        /\ spool'[Len(spool) + 1] = x
    BY <2>1, <2>2, LenProperties, AppendProperties
  <2>5. \A k \in DOMAIN spool' : (k \in DOMAIN spool /\ spool'[k] = spool[k]) \/ spool'[k] = x
    BY <2>4
  <2> QED
    BY <2>2, <2>3, <2>5 DEF InSpool, Occurs
<1>4. ASSUME ClientShared(r) PROVE PollRecv(r) \/ UNCHANGED <<spool, out>>
  BY <1>4 DEF ClientShared, SendIntent, Expire
<1>5. ASSUME NodeStep PROVE (\E g \in Node : ListenerSpool(g)) \/ UNCHANGED <<spool, out>>
  BY <1>5 DEF NodeStep, ListenerStep, ListenerPop, Judge, SendErrorVerdict,
              ListenerRestart, Deliver, webVars
<1> QED
  BY <1>1, <1>2, <1>3, <1>4, <1>5

LEMMA SharedKeeps ==
  ASSUME ClientInv, NEW r \in Req, ClientShared(r) \/ NodeStep
  PROVE  ClientInv'
<1>1. Next /\ UNCHANGED wiped
  BY SharedIsNext, NodeIsNext
<1>2. TypeInv' /\ Moving' /\ Placed'
  BY <1>1, TypeStep, MovingStep, PlacedStep DEF ClientInv
<1>3. ASSUME NEW s \in Req, NEW v \in wiped[s]
      PROVE  Gone(v)' /\ ~InSpool(v)' /\ \A q \in Req : v \notin out'[q]
  <2>1. v \in Verdicts /\ Gone(v) /\ ~InSpool(v) /\ \A q \in Req : v \notin out[q]
    BY DEF ClientInv, WipedIsGone
  <2>2. Gone(v)'
    BY <1>1, <2>1, StaysGone DEF ClientInv
  <2>3. ~InSpool(v)' /\ \A q \in Req : v \notin out'[q]
    BY <1>1, <2>1, NothingComesBack DEF ClientInv
  <2> QED
    BY <2>2, <2>3
<1>4. WipedIsGone'
  BY <1>1, <1>3 DEF ClientInv, WipedIsGone
<1>5. DrainAtRest'
  <2>1. UNCHANGED drain
    BY DEF ClientShared, SendIntent, PollRecv, Expire, NodeStep, ListenerStep, ListenerPop,
           ListenerSpool, Judge, SendErrorVerdict, ListenerRestart, Deliver
  <2> QED
    BY <2>1 DEF ClientInv, DrainAtRest, WebIsFree
<1> QED
  BY <1>2, <1>4, <1>5 DEF ClientInv

LEMMA ClientInvInit == ClientInit => ClientInv
<1> SUFFICES ASSUME ClientInit PROVE ClientInv
  OBVIOUS
<1>1. TypeInv /\ Moving /\ Placed
  BY TypeInit, MovingInit, PlacedInit DEF ClientInit
<1>2. WipedIsGone
  BY DEF ClientInit, WipedIsGone
<1>3. DrainAtRest
  BY DEF ClientInit, Init, DrainAtRest, NotDraining
<1> QED
  BY <1>1, <1>2, <1>3 DEF ClientInv

LEMMA ClientInvStep == ClientInv /\ [ClientNext]_clientVars => ClientInv'
<1> SUFFICES ASSUME ClientInv, [ClientNext]_clientVars PROVE ClientInv'
  OBVIOUS
<1>1. ASSUME NEW r \in Req, ClientOwn(r) PROVE ClientInv'
  <2>1. TypeInv'
    BY <1>1, OwnType DEF ClientInv
  <2>2. UNCHANGED <<next, nodeVars>>
    BY <1>1, OwnEffects DEF ClientInv, TypeInv
  <2>3. Moving'
    BY <2>2, MovingWeb DEF ClientInv, TypeInv
  <2>4. Placed' /\ WipedIsGone'
    BY <1>1, OwnPlaced
  <2>5. DrainAtRest'
    BY <1>1, OwnEffects, ClientAssumption
    DEF ClientInv, TypeInv, DrainAtRest, WebIsFree, NotDraining
  <2> QED
    BY <2>1, <2>3, <2>4, <2>5 DEF ClientInv
<1>2. CASE UNCHANGED clientVars
  <2>1. UNCHANGED vars /\ UNCHANGED wiped
    BY <1>2 DEF clientVars
  <2>2. TypeInv' /\ Moving' /\ Placed'
    BY <2>1, TypeStep, MovingStep, PlacedStep DEF ClientInv
  <2>3. WipedIsGone'
    BY <2>1 DEF ClientInv, WipedIsGone, Gone, InTransit, OnWire, InQueue, Held, InSpool,
                vars, webVars, nodeVars
  <2>4. DrainAtRest'
    BY <2>1 DEF ClientInv, DrainAtRest, WebIsFree, vars
  <2> QED
    BY <2>2, <2>3, <2>4 DEF ClientInv
<1>3. CASE NodeStep
  <2>1. CASE Req = {}
    <3>1. TypeInv' /\ Moving' /\ Placed' /\ UNCHANGED wiped
      BY <1>3, NodeIsNext, TypeStep, MovingStep, PlacedStep DEF ClientInv
    <3>2. UNCHANGED drain
      BY <1>3 DEF NodeStep, ListenerStep, ListenerPop, ListenerSpool, Judge,
                  SendErrorVerdict, ListenerRestart, Deliver
    <3> QED
      BY <2>1, <3>1, <3>2 DEF ClientInv, WipedIsGone, DrainAtRest, WebIsFree
  <2>2. CASE Req # {}
    BY <1>3, <2>2, SharedKeeps
  <2> QED
    BY <2>1, <2>2
<1>4. ASSUME NEW r \in Req, ClientStep(r) PROVE ClientInv'
  BY <1>1, <1>4, ClientStepKinds, SharedKeeps
<1> QED
  BY <1>2, <1>3, <1>4 DEF ClientNext

\* A verdict that a round of the client emptied out of the spool is reported by
\* no round, for every mesh, every loss and every deadline.
THEOREM WipedStaysUnreported == ClientSpec => []WipedNeverReported
<1>1. ClientInv => WipedNeverReported
  BY DEF ClientInv, WipedIsGone, WipedNeverReported
<1> QED
  BY ClientInvInit, ClientInvStep, <1>1, PTL DEF ClientSpec

\* Two rounds of the client never report the same verdict message: a late one
\* is taken for an answer to the next intent, but only once.
THEOREM ClientCountsOnce == ClientSpec => []NoVerdictCountedTwice
<1>1. ASSUME ClientInv PROVE NoVerdictCountedTwice
  <2>1. ASSUME NEW r \in Req, NEW s \in Req, r # s, NEW v, v \in out[r], v \in out[s]
        PROVE  FALSE
    <3>1. v \in Verdicts
      BY <1>1, <2>1 DEF ClientInv, TypeInv, TypeOK
    <3> QED
      BY <1>1, <2>1, <3>1 DEF ClientInv, Placed, OnePlace
  <2> QED
    BY <2>1 DEF NoVerdictCountedTwice
<1> QED
  BY ClientInvInit, ClientInvStep, <1>1, PTL DEF ClientSpec
=============================================================================
