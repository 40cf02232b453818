---------------------------- MODULE MCIntentMesh ----------------------------
(* Small meshes for IntentMesh: a hub and one or two spokes.               *)
EXTENDS IntentMesh, TLC

CONSTANTS hub, g1, g2

\* The topology order: spokes first, the hub itself last.
TwoPeers   == <<g1, hub>>
ThreePeers == <<g1, g2, hub>>

AllModes    == Modes
Phase5Only  == {"phase5"}
Unanimous   == {"unanimous"}
ApproveOnly == {"APPROVE"}
YesOrNo     == {"APPROVE", "BLOCK"}

RequestSymmetry == Permutations(Req)
=============================================================================
