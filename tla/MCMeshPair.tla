----------------------------- MODULE MCMeshPair -----------------------------
(* Eight scenes, told apart in the initial state: two requests that share  *)
(* the hub's queue and the spool; two intents of the command-line client,  *)
(* one after the other, over the same queue and spool; a program that      *)
(* brings an intent from outside; two commands of the command line; the    *)
(* tool routes, with caps of a few units; two requests over AXL for one    *)
(* service, with room for one connection; four gossip nodes, one of which  *)
(* knows all the others, that build their meshes; two sessions of a        *)
(* convergecast over four nodes.                                           *)
EXTENDS MCIntentMesh, IntentClient, IntentEntries, GuardmeshCli, ToolRoutes,
        AxlServices, GossipSub, Convergecast

CONSTANTS f1, f2, e1, d1, d2, x1, q1, q2, n1, n2, n3, n4

VARIABLE scene

\* Nothing set, or everything; an option for one setting at a time.
Environments == {[s \in Setting |-> x] : x \in {Unset, x1}}
OneOption    == {[s \in Setting |-> IF s = o THEN x1 ELSE Unset] : o \in Setting}

Star(n) == IF n = n1 THEN Gossiper \ {n1} ELSE {n1}

\* n1 is the root, with the children n2 and n3; n4 is below n2.
ParentOf(n) == CASE n = n1 -> Root [] n = n4 -> n2 [] OTHER -> n1

edgeVars == <<entryVars, cliVars, routeVars>>
appVars  == <<axlVars, gossipVars, castVars>>

EdgesInit ==
  /\ ClientInit /\ EntryInit /\ CliInit /\ RoutesInit /\ AxlInit /\ GossipInit /\ CastInit
  /\ scene \in {"intents", "client", "entries", "cli", "routes",
               "services", "gossip", "convergecast"}
  /\ scene # "cli" => file = [state |-> "absent", holds |-> NoConfig] /\ project = "none"

EdgesNext ==
  /\ \/ scene = "intents" /\ Next /\ UNCHANGED <<edgeVars, appVars>>
     \/ scene = "client" /\ ClientNext /\ UNCHANGED <<edgeVars, appVars>>
     \/ scene = "entries" /\ EntryNext /\ UNCHANGED <<vars, cliVars, routeVars, appVars>>
     \/ scene = "cli" /\ CliNext /\ UNCHANGED <<vars, entryVars, routeVars, appVars>>
     \/ scene = "routes" /\ RoutesNext /\ UNCHANGED <<vars, entryVars, cliVars, appVars>>
     \/ scene = "services" /\ AxlNext /\ UNCHANGED <<vars, edgeVars, gossipVars, castVars>>
     \/ scene = "gossip" /\ GossipNext /\ UNCHANGED <<vars, edgeVars, axlVars, castVars>>
     \/ scene = "convergecast" /\ CastNext /\ UNCHANGED <<vars, edgeVars, axlVars, gossipVars>>
  /\ scene # "client" => UNCHANGED wiped
  /\ UNCHANGED scene

EdgesSpec == EdgesInit /\ [][EdgesNext]_<<clientVars, edgeVars, appVars, scene>>
=============================================================================
