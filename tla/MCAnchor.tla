------------------------------ MODULE MCAnchor ------------------------------
(* Two requests of the server, another recorder, two roots.                *)
EXTENDS Anchor

CONSTANTS a1, a2, g1, m1, m2, r1, r2

TriedOutcomes == 0 .. 4
TriedVotes    == 0 .. 4

\* Of four guardians: more approvals than the contract takes, a majority with
\* one vote missing.
FourOrThree == {[approve |-> 4, block |-> 0, invalid |-> 0],
                [approve |-> 3, block |-> 0, invalid |-> 0]}

\* What another recorder writes: one decision the contract takes, one with an
\* unknown outcome code.
OneOther == {[approved |-> FALSE, outcome |-> 2, approve |-> 1, block |-> 2],
             [approved |-> FALSE, outcome |-> 0, approve |-> 1, block |-> 2]}
=============================================================================
