---------------------------- MODULE MCAuditFeed ----------------------------
(* Small ledgers, in four scenes: two polls of the feed in flight; the     *)
(* pages of the audit trail, two loads at once; two lookups at once; an    *)
(* auditor with a page of one.                                             *)
EXTENDS AuditTrail

CONSTANTS a1, a2, g1, g2, m1, m2, p1, p2, l1, l2, k1, k2

VARIABLE scene

\* One outcome code the contract knows and one it does not.
TriedOutcomes == {0, 1}

SceneInit == TrailInit /\ scene \in {"feed", "pages", "lookups", "walk"}

\* Bounds of the other scenes: the deployer records, nobody changes rights, and
\* all is in one block.
OneRecorder ==
  /\ UNCHANGED <<recorders, admin, now>>
  /\ \A m \in DOMAIN decisions' : decisions'[m].recorder = a1

SceneNext ==
  /\ \/ scene = "feed" /\ FeedNext /\ UNCHANGED trailVars
     \/ scene = "pages" /\ PageStep /\ UNCHANGED watchVars
     \/ scene = "lookups" /\ LookupStep /\ UNCHANGED watchVars
     \/ scene = "walk" /\ WalkStep /\ UNCHANGED watchVars
     \/ scene # "feed" /\ Next /\ OneRecorder /\ UNCHANGED <<feedVars, trailVars>>
  /\ UNCHANGED scene

\* In the other scenes nobody polls, and the fairness of polling excludes them
\* from what is said of the feed.
SceneSpec == SceneInit /\ [][SceneNext]_<<watchVars, trailVars, scene>> /\ PollFairness
=============================================================================
