----------------------------- MODULE Consensus ------------------------------
(***************************************************************************)
(* computeGuardmeshConsensus as it meets its input: the rows are counted   *)
(* one after the other, and because pollVerdicts may stop at its deadline  *)
(* after any of them, the decision over every prefix is a decision the     *)
(* server can return. What an extra row may and may not do to the decision *)
(* is stated over the steps of the count.                                  *)
(***************************************************************************)
EXTENDS ConsensusRules

CONSTANT MaxGuardians  \* the largest peer list; the code slices it to 8

ASSUME MaxGuardiansAssumption == MaxGuardians \in Nat \ {0}

VARIABLES
  mode,      \* the threshold mode of the request
  expected,  \* expectedGuardians: how many peers the intent was addressed to
  counts     \* the running counters of the loop

vars == <<mode, expected, counts>>

NoVotes == [approve |-> 0, block |-> 0, invalid |-> 0]

TypeOK ==
  /\ mode \in Modes
  /\ expected \in 1 .. MaxGuardians
  /\ counts \in Counts
  /\ Total(counts) <= expected

Init ==
  /\ mode \in Modes
  /\ expected \in 1 .. MaxGuardians
  /\ counts = NoVotes

\* One iteration of the counting loop. pollVerdicts returns at most one row
\* per accepted send, so there are never more rows than guardians addressed.
CountRow(raw) ==
  /\ Total(counts) < expected
  /\ counts' = [counts EXCEPT ![ClassifyVote(raw)] = @ + 1]
  /\ UNCHANGED <<mode, expected>>

CountApprove == CountRow("APPROVE")
CountBlock   == CountRow("BLOCK")
CountInvalid == \E raw \in {"ERROR", "OTHER"} : CountRow(raw)

Next == CountApprove \/ CountBlock \/ CountInvalid

Spec == Init /\ [][Next]_vars

Decision == Consensus(mode, counts, expected)

(***************************************************************************)
(* Properties                                                              *)
(***************************************************************************)

\* Except under "any", an executing decision is carried by more than half of
\* ALL the guardians the intent was addressed to, however many of them
\* answered before the deadline.
ExecuteHasMajority ==
  Decision.execute /\ mode # "any" => 2 * counts.approve > expected

\* A decision never reads as a clean go-ahead when a guardian said BLOCK or
\* gave an answer nobody can read: the agent is told of dissent, or told not
\* to act.
DissentIsReported ==
  FinalAction(Decision) = "execute" => counts.block = 0 /\ counts.invalid = 0

\* An incident is raised only when every guardian addressed answered BLOCK:
\* a missing or an approving guardian always leaves room for review.
IncidentNeedsAllBlock ==
  Decision.incident => counts.block = expected /\ counts.approve = 0

\* The code stored on chain, the execute flag and the instruction given to the
\* agent are computed apart from each other and always tell the same story.
CodeAndInstructionAgree ==
  LET d == Decision IN
  /\ d.code = APPROVED  <=> FinalAction(d) = "execute"
  /\ d.code = CONTESTED <=> FinalAction(d) = "execute_contested"
  /\ d.code = BLOCKED   <=> FinalAction(d) = "block"
  /\ d.code = PENDING   <=> FinalAction(d) \in {"hold", "insufficient_quorum"}

\* The decision tells what the votes were: all three together.
DecisionTellsTheVotes ==
  DissentIsReported /\ IncidentNeedsAllBlock /\ CodeAndInstructionAgree

\* What the code computes from ceilings, a table and a fallback executes exactly
\* when the documented rule of the mode does.
ExecuteAsDocumented ==
  Decision.execute <=> DocumentedExecute(mode, counts, expected)

\* Deciding early is safe: a decision to execute, taken over the rows that
\* came in before the deadline, is never withdrawn by a further APPROVE or
\* BLOCK row, only by an unreadable one.
EarlyExecutionStands ==
  [][Decision.execute /\ ~Decision'.execute
       => counts'.invalid > counts.invalid]_vars
=============================================================================
