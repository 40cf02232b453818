----------------------------- MODULE GossipSub -----------------------------
(***************************************************************************)
(* The lazy-first GossipSub of axl/examples/python-client/gossipsub for    *)
(* one topic: every node keeps a mesh of peers, messages go eagerly to     *)
(* one of them and are announced to the others, and what a node is told of *)
(* and lacks it requests, once. The transport neither loses nor orders     *)
(* messages. A tick drains the queue and beats the heart when it is due;   *)
(* both are left to happen at any time.                                    *)
(***************************************************************************)
EXTENDS Naturals, FiniteSets

CONSTANTS
  Gossiper,      \* nodes with the topic
  Reachable(_),  \* the nodes the transport connects a node with
  Msg,           \* message ids
  DLow, D, DHigh, DGossip,
  IWantLimit     \* ids an IWANT may carry; the code's is 64

ASSUME GossipAssumption ==
  /\ DLow \in Nat /\ D \in Nat /\ DHigh \in Nat /\ DGossip \in Nat /\ IWantLimit \in Nat
  /\ DLow <= D /\ D <= DHigh
  /\ \A n \in Gossiper : Reachable(n) \subseteq Gossiper \ {n}

VARIABLES
  peers, mesh, subscribed,
  seen,      \* seen_msgs; msg_cache has the same keys
  pending,   \* _pending_iwant
  origin,    \* who published a message: {} or one node
  wire       \* what was sent and not handled yet

gossipVars == <<peers, mesh, subscribed, seen, pending, origin, wire>>

Packet == [to : Gossiper, from : Gossiper, kind : {"MESSAGE", "GRAFT", "PRUNE", "IHAVE", "IWANT"},
           ids : SUBSET Msg]

GossipTypeOK ==
  /\ peers \in [Gossiper -> SUBSET Gossiper]
  /\ mesh \in [Gossiper -> SUBSET Gossiper]
  /\ subscribed \subseteq Gossiper
  /\ seen \in [Gossiper -> SUBSET Msg]
  /\ pending \in [Gossiper -> SUBSET Msg]
  /\ origin \in [Msg -> SUBSET Gossiper]
  /\ wire \subseteq Packet

\* Fresh nodes that know nobody.
GossipInit ==
  /\ peers = [n \in Gossiper |-> {}]
  /\ mesh = [n \in Gossiper |-> {}]
  /\ subscribed = {}
  /\ seen = [n \in Gossiper |-> {}]
  /\ pending = [n \in Gossiper |-> {}]
  /\ origin = [m \in Msg |-> {}]
  /\ wire = {}

Packets(n, to, kind, ids) ==
  {[to |-> p, from |-> n, kind |-> kind, ids |-> ids] : p \in to}

-----------------------------------------------------------------------------
(* The program that uses it                                                *)

AddPeer(n, p) ==
  /\ p \in Reachable(n) \ peers[n]
  /\ peers' = [peers EXCEPT ![n] = @ \cup {p}]
  /\ UNCHANGED <<mesh, subscribed, seen, pending, origin, wire>>

Subscribe(n) ==
  /\ n \notin subscribed
  /\ subscribed' = subscribed \cup {n}
  /\ UNCHANGED <<peers, mesh, seen, pending, origin, wire>>

\* To the whole mesh, or to all peers while it is empty.
Publish(n, m) ==
  /\ origin[m] = {}
  /\ origin' = [origin EXCEPT ![m] = {n}]
  /\ seen' = [seen EXCEPT ![n] = @ \cup {m}]
  /\ wire' = wire \cup Packets(n, IF mesh[n] = {} THEN peers[n] ELSE mesh[n], "MESSAGE", {m})
  /\ UNCHANGED <<peers, mesh, subscribed, pending>>

-----------------------------------------------------------------------------
(* Messages. Gossiper n handles the packet p of the node p.from.               *)

Handled(p, sent) == wire' = (wire \ {p}) \cup sent

\* One mesh peer gets the message, the others hear of it; neither the sender nor
\* the origin is one of them.
HandleMessage(n, p) ==
  /\ p.kind = "MESSAGE"
  /\ \E m \in p.ids :
       LET candidates == IF m \in seen[n] \/ n \notin subscribed THEN {}
                         ELSE mesh[n] \ ({p.from} \cup origin[m])
       IN \/ candidates = {} /\ Handled(p, {})
          \/ \E eager \in candidates :
               Handled(p, Packets(n, {eager}, "MESSAGE", {m})
                            \cup Packets(n, candidates \ {eager}, "IHAVE", {m}))
  /\ seen' = [seen EXCEPT ![n] = @ \cup p.ids]
  /\ UNCHANGED <<peers, mesh, subscribed, pending, origin>>

\* Mutant: a full mesh takes one more.
Mut_GraftsBeyond(n, p) ==
  /\ p.kind = "GRAFT"
  /\ IF n \notin subscribed THEN UNCHANGED mesh /\ Handled(p, {})
     ELSE IF Cardinality(mesh[n]) <= DHigh
     THEN mesh' = [mesh EXCEPT ![n] = @ \cup {p.from}] /\ Handled(p, {})
     ELSE UNCHANGED mesh /\ Handled(p, Packets(n, {p.from}, "PRUNE", {}))
  /\ UNCHANGED <<peers, subscribed, seen, pending, origin>>

\* A full mesh refuses, one that already is in it too. A node that is not
\* subscribed says nothing.
HandleGraft(n, p) ==
  /\ p.kind = "GRAFT"
  /\ IF n \notin subscribed THEN UNCHANGED mesh /\ Handled(p, {})
     ELSE IF Cardinality(mesh[n]) < DHigh
     THEN mesh' = [mesh EXCEPT ![n] = @ \cup {p.from}] /\ Handled(p, {})
     ELSE UNCHANGED mesh /\ Handled(p, Packets(n, {p.from}, "PRUNE", {}))
  /\ UNCHANGED <<peers, subscribed, seen, pending, origin>>

HandlePrune(n, p) ==
  /\ p.kind = "PRUNE"
  /\ mesh' = [mesh EXCEPT ![n] = @ \ {p.from}]
  /\ Handled(p, {})
  /\ UNCHANGED <<peers, subscribed, seen, pending, origin>>

\* Everything wanted counts as requested; the request carries IWantLimit of it.
HandleIHave(n, p) ==
  /\ p.kind = "IHAVE"
  /\ LET wanted == IF n \in subscribed THEN p.ids \ (seen[n] \cup pending[n]) ELSE {}
     IN /\ pending' = [pending EXCEPT ![n] = @ \cup wanted]
        /\ IF wanted = {} THEN Handled(p, {})
           ELSE \E ids \in SUBSET wanted :
                  /\ Cardinality(ids) = IF Cardinality(wanted) < IWantLimit
                                        THEN Cardinality(wanted) ELSE IWantLimit
                  /\ Handled(p, Packets(n, {p.from}, "IWANT", ids))
  /\ UNCHANGED <<peers, mesh, subscribed, seen, origin>>

\* A cached message is sent with the hop count it came with.
HandleIWant(n, p) ==
  /\ p.kind = "IWANT"
  /\ Handled(p, UNION {Packets(n, {p.from}, "MESSAGE", {m}) : m \in p.ids \cap seen[n]})
  /\ UNCHANGED <<peers, mesh, subscribed, seen, pending, origin>>

Handle(p) == HandleMessage(p.to, p) \/ HandleGraft(p.to, p) \/ HandlePrune(p.to, p)
               \/ HandleIHave(p.to, p) \/ HandleIWant(p.to, p)

-----------------------------------------------------------------------------
(* The heartbeat of a subscribed node                                      *)

AtMost(k, S) == {T \in SUBSET S : Cardinality(T) = IF k < Cardinality(S) THEN k ELSE Cardinality(S)}

\* _maintain_mesh: the meshes it may leave, with what it sends.
Maintained(n) ==
  LET known == mesh[n] \cap peers[n]
      size  == Cardinality(known)
  IN IF size < DLow
     THEN {[mesh |-> known \cup new, sent |-> Packets(n, new, "GRAFT", {})] :
             new \in AtMost(D - size, peers[n] \ known)}
     ELSE IF size > DHigh
     THEN {[mesh |-> known \ excess, sent |-> Packets(n, excess, "PRUNE", {})] :
             excess \in AtMost(size - D, known)}
     ELSE {[mesh |-> known, sent |-> {}]}

\* Mutant: only messages that were published here are announced.
Mut_OwnGossipOnly(n, sample) ==
  /\ n \in subscribed
  /\ \E made \in Maintained(n) :
       LET own == {m \in seen[n] : origin[m] = {n}} IN
       /\ mesh' = [mesh EXCEPT ![n] = made.mesh]
       /\ sample \in IF own = {} THEN {{}} ELSE AtMost(DGossip, peers[n] \ made.mesh)
       /\ wire' = wire \cup made.sent \cup Packets(n, sample, "IHAVE", own)
  /\ UNCHANGED <<peers, subscribed, seen, pending, origin>>

\* Then _emit_gossip tells a sample of the other peers of everything seen.
Heartbeat(n, sample) ==
  /\ n \in subscribed
  /\ \E made \in Maintained(n) :
       /\ mesh' = [mesh EXCEPT ![n] = made.mesh]
       /\ sample \in IF seen[n] = {} THEN {{}} ELSE AtMost(DGossip, peers[n] \ made.mesh)
       /\ wire' = wire \cup made.sent \cup Packets(n, sample, "IHAVE", seen[n])
  /\ UNCHANGED <<peers, subscribed, seen, pending, origin>>

GossipNext ==
  \/ \E n \in Gossiper :
       \/ Subscribe(n)
       \/ \E p \in Gossiper : AddPeer(n, p)
       \/ \E m \in Msg : Publish(n, m)
       \/ \E sample \in SUBSET Gossiper : Heartbeat(n, sample)
  \/ \E p \in wire : Handle(p)

\* Ticks go on, so queues are drained, hearts beat, and a peer that may always
\* be sampled is sampled again and again.
GossipFairness ==
  \A n \in Gossiper : \A q \in Reachable(n) :
    /\ \A kind \in {"MESSAGE", "IHAVE", "IWANT"} :
         WF_gossipVars(\E p \in wire : /\ p.to = n /\ p.from = q /\ p.kind = kind
                                       /\ Handle(p))
    /\ SF_gossipVars(\E sample \in SUBSET Gossiper : q \in sample /\ Heartbeat(n, sample))

GossipSpec == GossipInit /\ [][GossipNext]_gossipVars /\ GossipFairness

(***************************************************************************)
(* Properties                                                              *)
(***************************************************************************)

\* A mesh never exceeds D_high, though a node's own grafts, those of others and
\* refusals cross. (So the heartbeat never has anything to prune.)
MeshWithinBounds == \A n \in Gossiper : Cardinality(mesh[n]) <= DHigh

\* In a network at rest, where everybody knows everybody, is subscribed and has a
\* mesh of the size wanted, a published message reaches every node, whichever
\* meshes these are and whoever is picked for the eager copies.
PublishedReachesAll ==
  \A m \in Msg : origin[m] # {} ~> \A n \in Gossiper : m \in seen[n]
=============================================================================
