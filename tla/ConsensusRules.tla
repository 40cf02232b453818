--------------------------- MODULE ConsensusRules ---------------------------
(***************************************************************************)
(* The decision rules of Web/lib/guardmesh-consensus.ts: from the counts   *)
(* of APPROVE, BLOCK and unrecognised verdicts, the number of guardians    *)
(* the intent was addressed to and the threshold mode, to a decision.      *)
(* Pure operators: no state, no recursion.                                 *)
(***************************************************************************)
EXTENDS Integers

\* ConsensusThresholdMode (line 5)
Modes == {"phase5", "unanimous", "majority", "any"}

\* What a verdict row's text may be once trimmed and upper-cased; "OTHER"
\* stands for every text but the three the guardians themselves write.
RawVerdicts == {"APPROVE", "BLOCK", "ERROR", "OTHER"}

Classes == {"approve", "block", "invalid"}

ClassifyVote(raw) ==
  CASE raw = "APPROVE" -> "approve"
    [] raw = "BLOCK"   -> "block"
    [] OTHER           -> "invalid"

\* OUTCOME codes (contracts-config.ts, the constants of GuardMeshAudit.sol)
APPROVED  == 1
BLOCKED   == 2
CONTESTED == 3
PENDING   == 4

Outcomes == {"approved_unanimous", "approved_contested", "hold_human_review",
             "hard_stop_incident", "insufficient_quorum",
             "majority_execute_clean", "majority_execute_contested",
             "majority_hold", "unanimous_required_fail",
             "any_one_approve", "any_one_approve_contested"}

Counts == [approve : Nat, block : Nat, invalid : Nat]
Total(c) == c.approve + c.block + c.invalid

(***************************************************************************)
(* The four shapes a returned decision takes.                              *)
(***************************************************************************)
Clean(o) ==
  [outcome |-> o, execute |-> TRUE, contested |-> FALSE, review |-> FALSE,
   incident |-> FALSE, code |-> APPROVED]
Contested(o) ==
  [outcome |-> o, execute |-> TRUE, contested |-> TRUE, review |-> FALSE,
   incident |-> FALSE, code |-> CONTESTED]
Hold(o) ==
  [outcome |-> o, execute |-> FALSE, contested |-> FALSE, review |-> TRUE,
   incident |-> FALSE, code |-> PENDING]
HardStop ==
  [outcome |-> "hard_stop_incident", execute |-> FALSE, contested |-> FALSE,
   review |-> TRUE, incident |-> TRUE, code |-> BLOCKED]

\* Math.ceil((n + 1) / 2)
StrictMajority(n) == (n + 2) \div 2

\* Mutant: Math.floor
Mut_SupermajorityFloor(total) == (2 * total) \div 3

\* Math.ceil((2 * totalVotes) / 3)
Supermajority(total) == (2 * total + 2) \div 3

MinimumVotesRequired(mode, n) ==
  CASE mode = "any"      -> 1
    [] mode = "majority" -> StrictMajority(n)
    [] OTHER             -> n

\* The table for exactly three guardians and three valid votes. It is applied
\* when Phase5Applies holds, the condition under which the code's table does
\* not return null.
Phase5Applies(c, n) == n = 3 /\ Total(c) = 3 /\ c.invalid = 0

Phase5Table(c) ==
  IF c.approve = 3 THEN Clean("approved_unanimous")
  ELSE IF c.approve = 2 THEN Contested("approved_contested")
  ELSE IF c.approve = 1 THEN Hold("hold_human_review")
  ELSE HardStop

SupermajorFallback(c, n) ==
  LET need == Supermajority(Total(c))
  IN  IF c.approve >= need /\ c.approve > c.block
      THEN IF c.block > 0 \/ c.approve < Total(c)
           THEN Contested("majority_execute_contested")
           ELSE Clean("majority_execute_clean")
      ELSE IF c.block >= need /\ c.block > c.approve
           THEN IF c.block = Total(c) /\ Total(c) >= n
                THEN HardStop ELSE Hold("majority_hold")
           ELSE Hold("hold_human_review")

UnanimousRule(c, n) ==
  IF c.approve = n /\ c.block = 0 THEN Clean("approved_unanimous")
  ELSE IF c.block = n THEN HardStop
  ELSE Hold("unanimous_required_fail")

\* Mutant: the majority taken over the rows received instead of the guardians
\* addressed.
Mut_MajorityOfReceived(c, n) ==
  IF c.approve >= StrictMajority(Total(c))
  THEN IF c.block > 0 THEN Contested("majority_execute_contested")
                      ELSE Clean("majority_execute_clean")
  ELSE Hold("hold_human_review")

MajorityRule(c, n) ==
  LET need == StrictMajority(n)
  IN  IF c.approve >= need /\ c.approve > c.block
      THEN IF c.block > 0 THEN Contested("majority_execute_contested")
                          ELSE Clean("majority_execute_clean")
      ELSE IF c.block >= need /\ c.block > c.approve
           THEN IF c.block = n THEN HardStop ELSE Hold("majority_hold")
           ELSE Hold("hold_human_review")

AnyRule(c, n) ==
  IF c.block = n /\ c.approve = 0 THEN HardStop
  ELSE IF c.approve >= 1
       THEN IF c.block > 0 THEN Contested("any_one_approve_contested")
                           ELSE Clean("any_one_approve")
       ELSE Hold("hold_human_review")

\* The order of the early returns is the code's: unrecognised verdicts first,
\* then the quorum, then the rule of the mode.
Consensus(mode, c, n) ==
  IF c.invalid > 0 THEN Hold("hold_human_review")
  ELSE IF Total(c) < MinimumVotesRequired(mode, n)
       THEN Hold("insufficient_quorum")
  ELSE CASE mode = "phase5" ->
              IF Phase5Applies(c, n) THEN Phase5Table(c)
                                     ELSE SupermajorFallback(c, n)
         [] mode = "unanimous" -> UnanimousRule(c, n)
         [] mode = "majority"  -> MajorityRule(c, n)
         [] OTHER              -> AnyRule(c, n)

\* buildFinalDecision: what the primary agent is told to do.
FinalAction(d) ==
  IF d.outcome = "insufficient_quorum" THEN "insufficient_quorum"
  ELSE IF d.incident /\ ~d.execute THEN "block"
  ELSE IF d.execute THEN IF d.contested THEN "execute_contested" ELSE "execute"
  ELSE IF d.review THEN "hold" ELSE "block"

(***************************************************************************)
(* The documented rule of each mode (the comment above                     *)
(* computeGuardmeshConsensus), read as one formula over ratios.            *)
(***************************************************************************)
DocumentedExecute(m, c, n) ==
  /\ c.invalid = 0
  /\ CASE m = "phase5"    -> Total(c) = n /\ 3 * c.approve >= 2 * n
       [] m = "unanimous" -> c.approve = n
       [] m = "majority"  -> 2 * c.approve > n
       [] OTHER           -> c.approve > 0
=============================================================================
