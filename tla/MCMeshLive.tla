----------------------------- MODULE MCMeshLive -----------------------------
(* Three scenes that need fairness: one intent and its verdicts; two        *)
(* requests at a time for one service, with room for one connection; and    *)
(* one message in a gossip network at rest, a hub with three around it.     *)
EXTENDS MCIntentMesh, AxlServices, GossipSub

CONSTANTS x1, x2, x3, x4, m1, a1, a2

VARIABLE scene

Star(n) == IF n = x1 THEN Gossiper \ {x1} ELSE {x1}

\* Everybody reachable is a peer, everybody subscribed, every mesh of a size the
\* heartbeat leaves alone.
AtRest ==
  /\ peers = [n \in Gossiper |-> Reachable(n)]
  /\ subscribed = Gossiper
  /\ mesh \in [Gossiper -> SUBSET Gossiper]
  /\ \A n \in Gossiper : mesh[n] \subseteq Reachable(n) /\ Cardinality(mesh[n]) \in DLow .. DHigh
  /\ seen = [n \in Gossiper |-> {}]
  /\ pending = [n \in Gossiper |-> {}]
  /\ origin = [m \in Msg |-> {}]
  /\ wire = {}

LiveInit == /\ Init /\ AxlInit
            /\ scene \in {"intent", "services", "gossip"}
            /\ IF scene = "gossip" THEN AtRest ELSE GossipInit

LiveNext ==
  /\ \/ scene = "intent" /\ Next /\ UNCHANGED <<axlVars, gossipVars>>
     \/ scene = "services" /\ AxlNext /\ UNCHANGED <<vars, gossipVars>>
     \/ scene = "gossip" /\ GossipNext /\ UNCHANGED <<vars, axlVars>>
  /\ UNCHANGED scene

\* No scene enables a step that another's fairness is about.
LiveSpec == /\ LiveInit /\ [][LiveNext]_<<vars, axlVars, gossipVars, scene>>
            /\ Fairness /\ AxlFairness /\ GossipFairness
=============================================================================
