-------------------------- MODULE Consensus_proofs --------------------------
(***************************************************************************)
(* The invariants and the finality of Consensus, for every size of mesh;   *)
(* what the programs outside the mesh tell of a decision (IntentEntries,   *)
(* GuardmeshCli); and what the tool routes an allowed intent leads to give *)
(* out (ToolRoutes).                                                       *)
(***************************************************************************)
EXTENDS Consensus, IntentEntries, GuardmeshCli, ToolRoutes, ConsensusRules_proofs

\* The counters stay counters, and never hold more rows than guardians.
THEOREM TypeCorrect == Spec => []TypeOK
<1>1. Init => TypeOK
  BY MaxGuardiansAssumption DEF Init, TypeOK, NoVotes, Counts, Total
<1>2. TypeOK /\ [Next]_vars => TypeOK'
  <2> SUFFICES ASSUME TypeOK, [Next]_vars PROVE TypeOK'
    OBVIOUS
  <2>1. ASSUME NEW raw \in RawVerdicts, CountRow(raw) PROVE TypeOK'
    <3>1. ClassifyVote(raw) \in Classes
      BY DEF ClassifyVote, Classes
    <3>2. /\ counts' \in Counts
          /\ Total(counts') = Total(counts) + 1
      BY <2>1, <3>1 DEF CountRow, TypeOK, Counts, Total, Classes
    <3> QED
      BY <2>1, <3>2 DEF CountRow, TypeOK, Total, Counts
  <2>2. CASE Next
    BY <2>1, <2>2 DEF Next, CountApprove, CountBlock, CountInvalid, RawVerdicts
  <2>3. CASE UNCHANGED vars
    BY <2>3 DEF vars, TypeOK, Total
  <2> QED
    BY <2>2, <2>3
<1> QED
  BY <1>1, <1>2, PTL DEF Spec

\* The code executes exactly when the documented rule of the mode says so, for
\* every number of guardians.
THEOREM ExecutesAsDocumented == Spec => []ExecuteAsDocumented
<1>1. TypeOK => ExecuteAsDocumented
  BY MaxGuardiansAssumption, ConsensusExecutes DEF TypeOK, ExecuteAsDocumented, Decision
<1> QED
  BY <1>1, TypeCorrect, PTL

\* More than half of all the guardians addressed approved whatever executes
\* under a mode other than "any".
THEOREM MajorityBehindExecution == Spec => []ExecuteHasMajority
<1>1. TypeOK /\ ExecuteAsDocumented => ExecuteHasMajority
  BY MaxGuardiansAssumption
  DEF TypeOK, ExecuteAsDocumented, ExecuteHasMajority, DocumentedExecute, Modes, Counts, Total
<1> QED
  BY <1>1, TypeCorrect, ExecutesAsDocumented, PTL

\* A decision to execute taken at the deadline survives every APPROVE or BLOCK
\* row that comes too late to be counted.
THEOREM EarlyExecutionIsFinal == Spec => EarlyExecutionStands
<1>1. TypeOK /\ ExecuteAsDocumented /\ ExecuteAsDocumented' /\ [Next]_vars
        => [Decision.execute /\ ~Decision'.execute
              => counts'.invalid > counts.invalid]_vars
  <2> SUFFICES ASSUME TypeOK, Next,
                      DocumentedExecute(mode, counts, expected),
                      ~DocumentedExecute(mode, counts, expected)'
               PROVE  counts'.invalid > counts.invalid
    BY DEF ExecuteAsDocumented
  <2>1. PICK raw \in RawVerdicts : CountRow(raw)
    BY DEF Next, CountApprove, CountBlock, CountInvalid, RawVerdicts
  <2>2. ClassifyVote(raw) \in Classes
    BY DEF ClassifyVote, Classes
  <2>3. CASE ClassifyVote(raw) = "invalid"
    BY <2>1, <2>3 DEF CountRow, TypeOK, Counts
  <2>4. CASE ClassifyVote(raw) \in {"approve", "block"}
    <3>1. /\ counts'.invalid = counts.invalid
          /\ counts'.approve >= counts.approve
          /\ Total(counts) < expected
          /\ counts'.approve + counts'.block + counts'.invalid <= expected
          /\ mode' = mode /\ expected' = expected
      BY <2>1, <2>4 DEF CountRow, TypeOK, Counts, Total
    <3>2. FALSE
      BY <3>1, <2>1 DEF DocumentedExecute, TypeOK, Counts, Total, Modes, CountRow
    <3> QED
      BY <3>2
  <2> QED
    BY <2>2, <2>3, <2>4 DEF Classes
<1> QED
  BY <1>1, TypeCorrect, ExecutesAsDocumented, PTL DEF Spec, EarlyExecutionStands

\* What DecisionTellsTheVotes asks of a decision d on the counts c of n guardians.
Tells(d, c, n) ==
  /\ FinalAction(d) = "execute" => c.block = 0 /\ c.invalid = 0
  /\ d.incident => c.block = n /\ c.approve = 0
  /\ d.code = APPROVED  <=> FinalAction(d) = "execute"
  /\ d.code = CONTESTED <=> FinalAction(d) = "execute_contested"
  /\ d.code = BLOCKED   <=> FinalAction(d) = "block"
  /\ d.code = PENDING   <=> FinalAction(d) \in {"hold", "insufficient_quorum"}

\* The shapes a decision takes, each with what it says of the counts.
Shaped(d, c, n) ==
  \/ \E o \in Outcomes \ {"insufficient_quorum"} :
        d = Clean(o) /\ c.block = 0 /\ c.invalid = 0
  \/ \E o \in Outcomes \ {"insufficient_quorum"} : d = Contested(o)
  \/ \E o \in Outcomes : d = Hold(o)
  \/ d = HardStop /\ c.block = n /\ c.approve = 0

LEMMA ShapesTell ==
  ASSUME NEW c \in Counts, NEW n \in Nat \ {0}, NEW d, Shaped(d, c, n)
  PROVE  Tells(d, c, n)
<1>1. ASSUME NEW o \in Outcomes \ {"insufficient_quorum"},
             d = Clean(o), c.block = 0, c.invalid = 0
      PROVE  Tells(d, c, n)
  BY <1>1 DEF Tells, Clean, FinalAction, APPROVED, BLOCKED, CONTESTED, PENDING
<1>2. ASSUME NEW o \in Outcomes \ {"insufficient_quorum"}, d = Contested(o)
      PROVE  Tells(d, c, n)
  BY <1>2 DEF Tells, Contested, FinalAction, APPROVED, BLOCKED, CONTESTED, PENDING
<1>3. ASSUME NEW o \in Outcomes, d = Hold(o) PROVE Tells(d, c, n)
  BY <1>3 DEF Tells, Hold, FinalAction, APPROVED, BLOCKED, CONTESTED, PENDING
<1>4. ASSUME d = HardStop, c.block = n, c.approve = 0 PROVE Tells(d, c, n)
  BY <1>4 DEF Tells, HardStop, FinalAction, APPROVED, BLOCKED, CONTESTED, PENDING
<1> QED
  BY <1>1, <1>2, <1>3, <1>4 DEF Shaped

LEMMA RulesShape ==
  ASSUME NEW c \in Counts, NEW n \in Nat \ {0}, c.invalid = 0, Total(c) <= n
  PROVE  /\ Shaped(SupermajorFallback(c, n), c, n)
         /\ Shaped(UnanimousRule(c, n), c, n)
         /\ Shaped(MajorityRule(c, n), c, n)
         /\ Shaped(AnyRule(c, n), c, n)
         /\ Phase5Applies(c, n) => Shaped(Phase5Table(c), c, n)
<1>0. /\ c.approve \in Nat /\ c.block \in Nat /\ c.approve + c.block <= n
      /\ Total(c) = c.approve + c.block
      /\ c.block = n => c.approve = 0
  BY DEF Counts, Total
<1>1. Shaped(SupermajorFallback(c, n), c, n)
  <2>1. c.block = Total(c) /\ Total(c) >= n => c.block = n /\ c.approve = 0
    BY <1>0
  <2> QED
    BY <1>0, <2>1 DEF SupermajorFallback, Shaped, Outcomes
<1>2. Shaped(UnanimousRule(c, n), c, n)
  BY <1>0 DEF UnanimousRule, Shaped, Outcomes
<1>3. Shaped(MajorityRule(c, n), c, n)
  BY <1>0 DEF MajorityRule, Shaped, Outcomes
<1>4. Shaped(AnyRule(c, n), c, n)
  BY <1>0 DEF AnyRule, Shaped, Outcomes
<1>5. ASSUME Phase5Applies(c, n) PROVE Shaped(Phase5Table(c), c, n)
  <2>1. n = 3 /\ c.approve \in 0 .. 3 /\ c.block = 3 - c.approve
    BY <1>0, <1>5 DEF Phase5Applies
  <2> QED
    BY <2>1 DEF Phase5Table, Shaped, Outcomes
<1> QED
  BY <1>1, <1>2, <1>3, <1>4, <1>5

LEMMA ConsensusShaped ==
  ASSUME NEW m \in Modes, NEW c \in Counts, NEW n \in Nat \ {0}, Total(c) <= n
  PROVE  Shaped(Consensus(m, c, n), c, n)
<1>1. CASE c.invalid > 0 \/ Total(c) < MinimumVotesRequired(m, n)
  BY <1>1 DEF Consensus, Shaped, Outcomes
<1>2. CASE ~(c.invalid > 0) /\ ~(Total(c) < MinimumVotesRequired(m, n))
  <2>1. c.invalid = 0
    BY <1>2 DEF Counts
  <2> QED
    BY <1>2, <2>1, RulesShape DEF Consensus
<1> QED
  BY <1>1, <1>2

LEMMA ConsensusTells ==
  ASSUME NEW m \in Modes, NEW c \in Counts, NEW n \in Nat \ {0}, Total(c) <= n
  PROVE  Tells(Consensus(m, c, n), c, n)
BY ConsensusShaped, ShapesTell

\* The instruction is to execute exactly when the decision is.
LEMMA ConsensusInstructs ==
  ASSUME NEW m \in Modes, NEW c \in Counts, NEW n \in Nat \ {0}, Total(c) <= n
  PROVE  FinalAction(Consensus(m, c, n)) \in {"execute", "execute_contested"}
           <=> Consensus(m, c, n).execute
<1>1. PICK d : d = Consensus(m, c, n)
  OBVIOUS
<1>2. \/ \E o \in Outcomes \ {"insufficient_quorum"} : d = Clean(o) \/ d = Contested(o)
      \/ \E o \in Outcomes : d = Hold(o)
      \/ d = HardStop
  BY <1>1, ConsensusShaped DEF Shaped
<1>3. ASSUME NEW o \in Outcomes \ {"insufficient_quorum"}, d = Clean(o) \/ d = Contested(o)
      PROVE  FinalAction(d) \in {"execute", "execute_contested"} /\ d.execute
  BY <1>3 DEF Clean, Contested, FinalAction
<1>4. ASSUME NEW o \in Outcomes, d = Hold(o) \/ d = HardStop
      PROVE  FinalAction(d) \notin {"execute", "execute_contested"} /\ ~d.execute
  BY <1>4 DEF Hold, HardStop, FinalAction
<1>5. "majority_hold" \in Outcomes
  BY DEF Outcomes
<1> QED
  BY <1>1, <1>2, <1>3, <1>4, <1>5

\* The decision, its code and its instruction tell what the votes were, whatever
\* rule made it.
THEOREM DecisionsTellVotes == Spec => []DecisionTellsTheVotes
<1>1. TypeOK => DecisionTellsTheVotes
  <2> SUFFICES ASSUME TypeOK
               PROVE  Tells(Consensus(mode, counts, expected), counts, expected)
    BY DEF DecisionTellsTheVotes, DissentIsReported, IncidentNeedsAllBlock,
           CodeAndInstructionAgree, Decision, Tells
  <2> QED
    BY MaxGuardiansAssumption, ConsensusTells DEF TypeOK
<1> QED
  BY <1>1, TypeCorrect, PTL

-----------------------------------------------------------------------------
(***************************************************************************)
(* Exit codes of the programs that bring intents from outside.             *)
(***************************************************************************)
EntryRecord ==
  [pc : {"idle", "posted", "config", "policy", "exited"}, via : Via \cup {"none"},
   asks : Modes \cup {"default"}, flags : SUBSET Flags, code : 0 .. 2, heard : BOOLEAN]

JudgingRecord ==
  [pc : {"none", "polling", "decided", "failed"}, mode : Modes, rows : Counts]

\* What holds of a program p and of what the route makes of its intent, j: the
\* mode is the one asked for, and an exit says which answer it follows.
Settled(p, j) ==
  LET due == Consensus(j.mode, j.rows, EntryPeers)
      ok  == /\ "--strict" \in p.flags => j.rows.approve > 0
             /\ p.flags \cap {"--strict-consensus", "--strict-final"} # {} => due.execute
  IN /\ j.pc # "none" /\ p.via = "bridge" => j.mode = ModeOf(p.asks)
     /\ p.pc \in {"idle", "config", "policy"} => j.pc = "none"
     /\ p.pc \in {"config", "policy"} => p.via = "health"
     /\ p.pc = "exited" /\ p.via = "bridge" /\ p.code = 0 => j.pc = "decided" /\ ok
     /\ p.pc = "exited" /\ p.via = "bridge" /\ p.heard =>
          /\ j.pc \in {"decided", "failed"}
          /\ p.code = 1 /\ j.pc = "decided" => ~ok

EntryInv ==
  /\ entry \in [Entry -> EntryRecord] /\ judging \in [Entry -> JudgingRecord]
  /\ \A e \in Entry : Total(judging[e].rows) <= EntryPeers
  /\ \A e \in Entry : Settled(entry[e], judging[e])

LEMMA EntryInvInit == EntryInit => EntryInv
BY EntryAssumption
DEF EntryInit, EntryInv, EntryRecord, JudgingRecord, NoEntry, NoJudging, Settled,
    Modes, Counts, Total

\* A program and its judging go on to p and j; the others stay.
LEMMA EntryMoves ==
  ASSUME EntryInv, NEW e \in Entry, NEW p \in EntryRecord, NEW j \in JudgingRecord,
         entry' = [entry EXCEPT ![e] = p], judging' = [judging EXCEPT ![e] = j],
         Total(j.rows) <= EntryPeers, Settled(p, j)
  PROVE  EntryInv'
<1>1. /\ entry' \in [Entry -> EntryRecord] /\ judging' \in [Entry -> JudgingRecord]
      /\ \A d \in Entry : /\ entry'[d] = IF d = e THEN p ELSE entry[d]
                          /\ judging'[d] = IF d = e THEN j ELSE judging[d]
  BY DEF EntryInv
<1> QED
  BY <1>1 DEF EntryInv

LEMMA JudgingSame ==
  ASSUME EntryInv, UNCHANGED judging, NEW e \in Entry
  PROVE  judging' = [judging EXCEPT ![e] = judging[e]]
BY DEF EntryInv

LEMMA EntrySame ==
  ASSUME EntryInv, UNCHANGED entry, NEW e \in Entry
  PROVE  entry' = [entry EXCEPT ![e] = entry[e]]
BY DEF EntryInv

\* The flags of a program hold together when each is satisfied.
LEMMA FlagsTell ==
  ASSUME EntryInv, NEW e \in Entry
  PROVE  (\A flag \in entry[e].flags : Satisfied(e, flag)) <=>
           /\ "--strict" \in entry[e].flags => judging[e].rows.approve > 0
           /\ entry[e].flags \cap {"--strict-consensus", "--strict-final"} # {} =>
                Consensus(judging[e].mode, judging[e].rows, EntryPeers).execute
<1> DEFINE d == Consensus(judging[e].mode, judging[e].rows, EntryPeers)
<1>1. /\ entry[e].flags \subseteq Flags
      /\ judging[e].mode \in Modes /\ judging[e].rows \in Counts
      /\ Total(judging[e].rows) <= EntryPeers /\ EntryPeers \in Nat \ {0}
  BY EntryAssumption DEF EntryInv, EntryRecord, JudgingRecord
<1>2. FinalAction(d) \in {"execute", "execute_contested"} <=> d.execute
  BY <1>1, ConsensusInstructs
<1>3. /\ Satisfied(e, "--strict") <=> judging[e].rows.approve > 0
      /\ Satisfied(e, "--strict-consensus") <=> d.execute
      /\ Satisfied(e, "--strict-final") <=> d.execute
  BY <1>2 DEF Satisfied, DecisionOn
<1> QED
  BY <1>1, <1>3 DEF Flags

LEMMA EntryInvStep == EntryInv /\ [EntryNext]_entryVars => EntryInv'
<1> SUFFICES ASSUME EntryInv, [EntryNext]_entryVars PROVE EntryInv'
  OBVIOUS
<1>1. CASE UNCHANGED entryVars
  BY <1>1 DEF entryVars, EntryInv
<1>2. ASSUME NEW e \in Entry, EntryStep(e) PROVE EntryInv'
  <2> DEFINE p == entry[e]
             j == judging[e]
  <2>1. /\ p \in EntryRecord /\ j \in JudgingRecord /\ Settled(p, j)
        /\ Total(j.rows) <= EntryPeers
        /\ EntryPeers \in Nat \ {0}
    BY EntryAssumption DEF EntryInv
  <2>2. p.pc = "idle" => j.pc = "none"
    BY <2>1 DEF Settled
  <2>3. ASSUME NEW via \in Via, BadPayload(e, via) PROVE EntryInv'
    <3>1. PICK code \in {1, 2} :
            entry' = [entry EXCEPT ![e] = [NoEntry EXCEPT !.pc = "exited", !.via = via,
                                                          !.code = code]]
      BY <2>3 DEF BadPayload
    <3>2. PICK n : n = NoEntry
      OBVIOUS
    <3>3. PICK q : q = [n EXCEPT !.pc = "exited", !.via = via, !.code = code]
      OBVIOUS
    <3>7. n = [pc |-> "idle", via |-> "none", asks |-> "default", flags |-> {}, code |-> 0,
               heard |-> FALSE]
      BY <3>2 DEF NoEntry
    <3>4. q = [pc |-> "exited", via |-> via, asks |-> "default", flags |-> {}, code |-> code,
               heard |-> FALSE]
      BY <3>3, <3>7
    <3>8. entry' = [entry EXCEPT ![e] = q]
      BY <3>1, <3>2, <3>3, Zenon
    <3>5. q \in EntryRecord /\ q.pc = "exited" /\ q.code # 0 /\ ~q.heard
      BY <3>4 DEF EntryRecord
    <3>6. Settled(q, j)
      BY <2>2, <2>3, <3>5 DEF BadPayload, Settled
    <3> QED
      BY <2>1, <2>3, <3>5, <3>6, <3>8, EntryMoves, JudgingSame DEF BadPayload
  <2>4. ASSUME NEW via \in Via, NEW shape \in Shapes, NEW asks \in Modes \cup {"default"},
               NEW flags \in SUBSET Flags, PostIntent(e, via, shape, asks, flags)
        PROVE  EntryInv'
    <3>1. PICK n : n = NoEntry
      OBVIOUS
    <3>2. PICK o : o = NoJudging
      OBVIOUS
    <3>3. PICK m : m = ModeOf(Threshold(via, shape, asks))
      OBVIOUS
    <3>4. PICK q : q = [n EXCEPT !.pc = "posted", !.via = via, !.asks = asks, !.flags = flags]
      OBVIOUS
    <3>5. PICK k : k = [o EXCEPT !.pc = "polling", !.mode = m]
      OBVIOUS
    <3>6. n = [pc |-> "idle", via |-> "none", asks |-> "default", flags |-> {}, code |-> 0,
               heard |-> FALSE]
      BY <3>1 DEF NoEntry
    <3>7. o = [pc |-> "none", mode |-> ServerMode,
               rows |-> [approve |-> 0, block |-> 0, invalid |-> 0]]
      BY <3>2 DEF NoJudging
    <3>8. q = [pc |-> "posted", via |-> via, asks |-> asks, flags |-> flags, code |-> 0,
               heard |-> FALSE]
      BY <3>4, <3>6
    <3>9. k = [pc |-> "polling", mode |-> m,
               rows |-> [approve |-> 0, block |-> 0, invalid |-> 0]]
      BY <3>5, <3>7
    <3>10. m \in Modes /\ (via = "bridge" => m = ModeOf(asks))
      BY <3>3, EntryAssumption DEF ModeOf, Threshold
    <3>11. q \in EntryRecord /\ q.pc = "posted" /\ q.via = via /\ q.asks = asks
      BY <3>8 DEF EntryRecord
    <3>12. k \in JudgingRecord /\ k.pc = "polling" /\ k.mode = m /\ Total(k.rows) = 0
      BY <3>9, <3>10 DEF JudgingRecord, Counts, Total
    <3>13. Settled(q, k)
      BY <3>10, <3>11, <3>12 DEF Settled
    <3>14. entry' = [entry EXCEPT ![e] = q] /\ judging' = [judging EXCEPT ![e] = k]
      BY <2>4, <3>1, <3>2, <3>3, <3>4, <3>5, Zenon DEF PostIntent
    <3>15. Total(k.rows) <= EntryPeers
      BY <2>1, <3>12
    <3> QED
      BY <3>11, <3>12, <3>13, <3>14, <3>15, EntryMoves
  <2>5. CASE RouteRefuses(e) \/ RouteDecides(e)
    <3>1. PICK pc \in {"failed", "decided"} : judging' = [judging EXCEPT ![e].pc = pc]
      BY <2>5 DEF RouteRefuses, RouteDecides
    <3>2. PICK k : k = [j EXCEPT !.pc = pc]
      OBVIOUS
    <3>3. k \in JudgingRecord /\ k.pc = pc /\ k.mode = j.mode /\ k.rows = j.rows
      BY <2>1, <3>2 DEF JudgingRecord
    <3>4. judging' = [judging EXCEPT ![e] = k]
      BY <3>1, <3>2 DEF EntryInv
    <3>5. Settled(p, k)
      BY <2>1, <2>5, <3>3 DEF Settled, RouteRefuses, RouteDecides
    <3> QED
      BY <2>1, <2>5, <3>3, <3>4, <3>5, EntryMoves, EntrySame DEF RouteRefuses, RouteDecides
  <2>6. CASE RowArrives(e)
    <3>1. PICK class \in Classes : judging' = [judging EXCEPT ![e].rows[class] = @ + 1]
      BY <2>6 DEF RowArrives
    <3>2. PICK c : c = [j.rows EXCEPT ![class] = @ + 1]
      OBVIOUS
    <3>8. c \in Counts /\ Total(c) = Total(j.rows) + 1
      <4>1. j.rows \in Counts
        BY <2>1 DEF JudgingRecord
      <4> QED
        BY <3>2, <4>1 DEF Counts, Total, Classes
    <3>3. PICK k : k = [j EXCEPT !.rows = c]
      OBVIOUS
    <3>4. k \in JudgingRecord /\ k.pc = "polling" /\ k.mode = j.mode /\ k.rows = c
      BY <2>1, <2>6, <3>3, <3>8 DEF JudgingRecord, RowArrives
    <3>5. judging' = [judging EXCEPT ![e] = k]
      BY <2>1, <3>1, <3>2, <3>3 DEF EntryInv, JudgingRecord
    <3>6. Total(k.rows) <= EntryPeers
      <4>1. Total(j.rows) \in Nat /\ Total(j.rows) < EntryPeers
        BY <2>1, <2>6 DEF RowArrives, JudgingRecord, Counts, Total
      <4> QED
        BY <2>1, <3>4, <3>8, <4>1
    <3>7. Settled(p, k)
      BY <2>1, <2>6, <3>4 DEF Settled, RowArrives
    <3> QED
      BY <2>1, <2>6, <3>4, <3>5, <3>6, <3>7, EntryMoves, EntrySame DEF RowArrives
  <2>7. CASE AnswerHeard(e)
    <3>1. PICK code : code = IF j.pc = "decided" /\ \A flag \in p.flags : Satisfied(e, flag)
                             THEN 0 ELSE 1
      OBVIOUS
    <3>2. PICK q : q = [p EXCEPT !.pc = "exited", !.code = code, !.heard = TRUE]
      OBVIOUS
    <3>7. PICK via \in Via \cup {"none"}, asks \in Modes \cup {"default"},
               flags \in SUBSET Flags, c \in 0 .. 2, h \in BOOLEAN,
               pc \in {"idle", "posted", "config", "policy", "exited"} :
            p = [pc |-> pc, via |-> via, asks |-> asks, flags |-> flags, code |-> c, heard |-> h]
      BY <2>1 DEF EntryRecord
    <3> HIDE DEF p
    <3>8. q = [pc |-> "exited", via |-> via, asks |-> asks, flags |-> flags, code |-> code,
               heard |-> TRUE]
      BY <3>2, <3>7
    <3>3. /\ q \in EntryRecord /\ q.pc = "exited" /\ q.code = code /\ q.via = p.via
          /\ q.asks = p.asks /\ q.flags = p.flags
      BY <3>1, <3>7, <3>8 DEF EntryRecord
    <3>4. entry' = [entry EXCEPT ![e] = q]
      BY <2>7, <3>1, <3>2 DEF AnswerHeard, ExitEntry, EntryInv, p
    <3>5. j.pc \in {"decided", "failed"}
      BY <2>7 DEF AnswerHeard
    <3>6. Settled(q, j)
      BY <2>1, <3>1, <3>3, <3>5, FlagsTell DEF Settled, p
    <3> QED
      BY <2>1, <2>7, <3>3, <3>4, <3>6, EntryMoves, JudgingSame DEF AnswerHeard
  <2>8. CASE NoAnswer(e)
    <3>1. PICK q : q = [p EXCEPT !.pc = "exited", !.code = 1, !.heard = FALSE]
      OBVIOUS
    <3>5. PICK via \in Via \cup {"none"}, asks \in Modes \cup {"default"},
               flags \in SUBSET Flags, c \in 0 .. 2, h \in BOOLEAN,
               pc \in {"idle", "posted", "config", "policy", "exited"} :
            p = [pc |-> pc, via |-> via, asks |-> asks, flags |-> flags, code |-> c, heard |-> h]
      BY <2>1 DEF EntryRecord
    <3> HIDE DEF p
    <3>6. q = [pc |-> "exited", via |-> via, asks |-> asks, flags |-> flags, code |-> 1,
               heard |-> FALSE]
      BY <3>1, <3>5
    <3>2. /\ q \in EntryRecord /\ q.pc = "exited" /\ q.code = 1 /\ ~q.heard /\ q.via = p.via
          /\ q.asks = p.asks /\ q.flags = p.flags
      BY <3>5, <3>6 DEF EntryRecord
    <3>3. entry' = [entry EXCEPT ![e] = q]
      BY <2>1, <2>8, <3>1 DEF EntryInv, EntryRecord, NoAnswer, ExitEntry, p
    <3>4. Settled(q, j)
      BY <2>1, <3>2 DEF Settled
    <3> QED
      BY <2>1, <2>8, <3>2, <3>3, <3>4, EntryMoves, JudgingSame DEF NoAnswer
  \* The programs that check and analyse are none of the bridge.
  <2>9. ASSUME NEW q \in EntryRecord, q.via # "bridge", j.pc = "none",
               q.pc \in {"config", "policy"} => q.via = "health",
               entry' = [entry EXCEPT ![e] = q], UNCHANGED judging
        PROVE  EntryInv'
    <3>1. Settled(q, j)
      BY <2>9 DEF Settled
    <3> QED
      BY <2>1, <2>9, <3>1, EntryMoves, JudgingSame
  <2>10. CASE StartCheck(e)
    <3>1. PICK n : n = NoEntry
      OBVIOUS
    <3>2. PICK q : q = [n EXCEPT !.pc = "config", !.via = "health"]
      OBVIOUS
    <3>3. n = [pc |-> "idle", via |-> "none", asks |-> "default", flags |-> {}, code |-> 0,
               heard |-> FALSE]
      BY <3>1 DEF NoEntry
    <3>4. q = [pc |-> "config", via |-> "health", asks |-> "default", flags |-> {}, code |-> 0,
               heard |-> FALSE]
      BY <3>2, <3>3
    <3>5. q \in EntryRecord /\ q.via # "bridge" /\ q.via = "health"
      BY <3>4 DEF EntryRecord, Via
    <3>6. entry' = [entry EXCEPT ![e] = q] /\ UNCHANGED judging /\ p.pc = "idle"
      BY <2>10, <3>1, <3>2, Zenon DEF StartCheck
    <3> QED
      BY <2>2, <2>9, <3>5, <3>6
  <2>11. ASSUME NEW ok \in BOOLEAN, RunAnalysis(e, ok) PROVE EntryInv'
    <3>1. PICK n : n = NoEntry
      OBVIOUS
    <3>2. PICK code : code = IF ok THEN 0 ELSE 1
      OBVIOUS
    <3>3. PICK q : q = [n EXCEPT !.pc = "exited", !.via = "analysis", !.code = code]
      OBVIOUS
    <3>4. n = [pc |-> "idle", via |-> "none", asks |-> "default", flags |-> {}, code |-> 0,
               heard |-> FALSE]
      BY <3>1 DEF NoEntry
    <3>5. q = [pc |-> "exited", via |-> "analysis", asks |-> "default", flags |-> {},
               code |-> code, heard |-> FALSE]
      BY <3>3, <3>4
    <3>6. q \in EntryRecord /\ q.via # "bridge" /\ q.pc = "exited"
      BY <3>2, <3>5 DEF EntryRecord, Via
    <3>7. entry' = [entry EXCEPT ![e] = q] /\ UNCHANGED judging /\ p.pc = "idle"
      BY <2>11, <3>1, <3>2, <3>3, Zenon DEF RunAnalysis
    <3> QED
      BY <2>2, <2>9, <3>6, <3>7
  <2>12. ASSUME NEW ok \in BOOLEAN, CheckConfig(e, ok) \/ CheckPolicy(e, ok) PROVE EntryInv'
    <3>1. p.pc \in {"config", "policy"} /\ p.via = "health" /\ j.pc = "none"
          /\ UNCHANGED judging
      BY <2>1, <2>12 DEF CheckConfig, CheckPolicy, Settled
    <3>2. PICK via \in Via \cup {"none"}, asks \in Modes \cup {"default"},
               flags \in SUBSET Flags, c \in 0 .. 2, h \in BOOLEAN,
               pc \in {"idle", "posted", "config", "policy", "exited"} :
            p = [pc |-> pc, via |-> via, asks |-> asks, flags |-> flags, code |-> c, heard |-> h]
      BY <2>1 DEF EntryRecord
    <3>3. via = "health" /\ p.code = c
      BY <3>1, <3>2
    <3> HIDE DEF p
    <3>4. CASE CheckConfig(e, ok)
      <4>1. PICK code : code = IF ok THEN 0 ELSE 1
        OBVIOUS
      <4>2. PICK q : q = [p EXCEPT !.pc = "policy", !.code = code]
        OBVIOUS
      <4>3. q = [pc |-> "policy", via |-> via, asks |-> asks, flags |-> flags, code |-> code,
                 heard |-> h]
        BY <3>2, <4>2
      <4>4. q \in EntryRecord /\ q.via = "health"
        BY <3>3, <4>1, <4>3 DEF EntryRecord
      <4>5. entry' = [entry EXCEPT ![e] = q]
        BY <3>4, <4>1, <4>2 DEF CheckConfig, EntryInv, p
      <4> QED
        BY <2>9, <3>1, <4>4, <4>5
    <3>5. CASE CheckPolicy(e, ok)
      <4>1. PICK code : code = IF ok THEN p.code ELSE 1
        OBVIOUS
      <4>2. PICK q : q = [p EXCEPT !.pc = "exited", !.code = code, !.heard = TRUE]
        OBVIOUS
      <4>3. q = [pc |-> "exited", via |-> via, asks |-> asks, flags |-> flags, code |-> code,
                 heard |-> TRUE]
        BY <3>2, <4>2
      <4>4. q \in EntryRecord /\ q.via = "health"
        BY <3>3, <4>1, <4>3 DEF EntryRecord
      <4>5. entry' = [entry EXCEPT ![e] = q]
        BY <3>5, <4>1, <4>2 DEF CheckPolicy, ExitEntry, EntryInv, p
      <4> QED
        BY <2>9, <3>1, <4>4, <4>5
    <3> QED
      BY <2>12, <3>4, <3>5
  <2> QED
    BY <1>2, <2>3, <2>4, <2>5, <2>6, <2>7, <2>8, <2>10, <2>11, <2>12 DEF EntryStep
<1> QED
  BY <1>1, <1>2 DEF EntryNext

LEMMA EntryInvTells == EntryInv => BridgeCodesTell
<1> SUFFICES ASSUME EntryInv, NEW e \in Entry, entry[e].via = "bridge",
                    entry[e].pc = "exited"
             PROVE  LET due == Consensus(ModeOf(entry[e].asks), judging[e].rows, EntryPeers)
                        ok  == /\ entry[e].flags \cap {"--strict-consensus", "--strict-final"} # {}
                                    => due.execute
                               /\ "--strict" \in entry[e].flags => judging[e].rows.approve > 0
                    IN /\ entry[e].code = 0 => judging[e].pc = "decided" /\ ok
                       /\ entry[e].heard /\ judging[e].pc = "decided" /\ entry[e].code = 1 => ~ok
  BY DEF BridgeCodesTell
<1>1. Settled(entry[e], judging[e])
  BY DEF EntryInv
<1> QED
  BY <1>1 DEF Settled

\* Whatever number of programs bring intents, in whichever shape, and whenever
\* they stop waiting: an exit code of the bridge tells the decision over the rows
\* the route collected, under the threshold that was asked for.
THEOREM BridgeCodesAlwaysTell == EntrySpec => []BridgeCodesTell
BY EntryInvInit, EntryInvStep, EntryInvTells, PTL DEF EntrySpec

-----------------------------------------------------------------------------
(***************************************************************************)
(* The test command of the command line.                                   *)
(***************************************************************************)
CmdStage == {"idle", "save", "write", "registryAddress", "auditAddress", "server",
             "guardians", "test", "asking", "registry", "audit", "create", "files", "ended"}
Ending   == {"saved", "planned", "shown", "exists", "created", "failed", "not configured"}

CmdRecord == [pc : CmdStage, conf : Config, missing : Setting \cup {Unset}, asked : Nat,
              answers : [Answer -> Nat], said : Ending \cup {Unset, "APPROVED", "BLOCKED"}]

\* An outcome is said at the end, over the answers of all guardians asked.
SaysVotes(r) ==
  r.said \in {"APPROVED", "BLOCKED"} =>
    /\ r.pc = "ended" /\ Gathered(r.answers) = r.asked
    /\ r.said = "APPROVED" <=> Approvals(r.answers) > Blocks(r.answers)

CliInv ==
  /\ file \in ConfigFile
  /\ cmd \in [Cmd -> CmdRecord]
  /\ \A c \in Cmd : SaysVotes(cmd[c])

Idle == [pc |-> "idle", conf |-> NoConfig, missing |-> Unset, asked |-> 0,
         answers |-> NoAnswers, said |-> Unset]

LEMMA NoConfigIsConfig == NoConfig \in Config /\ NoConfig.set \in Env
BY DEF NoConfig, Config, Env, Endpoints

LEMMA NoCmdIsRecord == NoCmd = Idle /\ NoCmd \in CmdRecord /\ SaysVotes(NoCmd)
<1>1. NoCmd = Idle
  BY DEF NoCmd, Idle
<1>2. Idle \in CmdRecord /\ Idle.said = Unset
  <2>1. PICK conf \in Config : conf = NoConfig
    BY NoConfigIsConfig
  <2>2. PICK answers \in [Answer -> Nat] : answers = NoAnswers
    BY DEF NoAnswers
  <2>3. Idle = [pc |-> "idle", conf |-> conf, missing |-> Unset, asked |-> 0,
                answers |-> answers, said |-> Unset]
    BY <2>1, <2>2 DEF Idle
  <2> QED
    BY <2>3 DEF CmdRecord, CmdStage
<1> QED
  BY <1>1, <1>2, CliAssumption DEF SaysVotes

LEMMA CliInvInit == CliInit => CliInv
<1> SUFFICES ASSUME CliInit PROVE CliInv
  OBVIOUS
<1>1. file \in ConfigFile
  BY NoConfigIsConfig DEF CliInit, ConfigFile, Config
<1> QED
  BY <1>1, NoCmdIsRecord DEF CliInit, CliInv

\* A command goes on to r; the others stay.
LEMMA CmdMoves ==
  ASSUME CliInv, NEW c \in Cmd, NEW r \in CmdRecord, To(c, r), SaysVotes(r),
         file' \in ConfigFile
  PROVE  CliInv'
<1>1. \A d \in Cmd : cmd'[d] = IF d = c THEN r ELSE cmd[d]
  BY DEF To, CliInv
<1>2. cmd' \in [Cmd -> CmdRecord]
  BY DEF To, CliInv
<1> QED
  BY <1>1, <1>2 DEF CliInv

\* A command that ends without an outcome.
LEMMA FinishMoves ==
  ASSUME CliInv, NEW c \in Cmd, NEW said \in Ending,
         Finishes(c, said), file' \in ConfigFile
  PROVE  CliInv'
<1>1. PICK n : n = NoCmd
  OBVIOUS
<1>2. PICK r : r = [n EXCEPT !.pc = "ended", !.said = said]
  OBVIOUS
<1>3. n \in CmdRecord
  BY <1>1, NoCmdIsRecord
<1>4. PICK pc \in CmdStage, conf \in Config, missing \in Setting \cup {Unset}, asked \in Nat,
           answers \in [Answer -> Nat],
           old \in Ending \cup {Unset, "APPROVED", "BLOCKED"} :
        n = [pc |-> pc, conf |-> conf, missing |-> missing, asked |-> asked,
             answers |-> answers, said |-> old]
  BY <1>3 DEF CmdRecord, CmdStage
<1>7. r = [pc |-> "ended", conf |-> conf, missing |-> missing, asked |-> asked,
           answers |-> answers, said |-> said]
  BY <1>2, <1>4
<1>5. r \in CmdRecord /\ r.said = said
  BY <1>7 DEF CmdRecord, CmdStage
<1>6. To(c, r)
  BY <1>1, <1>2, Zenon DEF Finishes
<1> QED
  BY <1>5, <1>6, CmdMoves DEF SaysVotes, Ending

LEMMA LoadedIsConfig ==
  ASSUME CliInv, NEW env \in Environment
  PROVE  LoadConfig(env) \in Config
BY CliAssumption DEF CliInv, LoadConfig, Config, ConfigFile, Endpoints

\* A command that begins, or that looks at its configuration.
LEMMA BeginMoves ==
  ASSUME CliInv, NEW c \in Cmd, NEW pc \in CmdStage, NEW conf \in Config,
         To(c, [NoCmd EXCEPT !.pc = pc, !.conf = conf]), UNCHANGED file
  PROVE  CliInv'
<1>1. PICK n : n = NoCmd
  OBVIOUS
<1>2. PICK r : r = [n EXCEPT !.pc = pc, !.conf = conf]
  OBVIOUS
<1>3. n \in CmdRecord /\ n.said = Unset
  BY <1>1, NoCmdIsRecord DEF Idle
<1>4. PICK old \in CmdStage, set \in Config, missing \in Setting \cup {Unset}, asked \in Nat,
           answers \in [Answer -> Nat], said \in Ending \cup {Unset, "APPROVED", "BLOCKED"} :
        n = [pc |-> old, conf |-> set, missing |-> missing, asked |-> asked,
             answers |-> answers, said |-> said]
  BY <1>3 DEF CmdRecord
<1>5. r = [pc |-> pc, conf |-> conf, missing |-> missing, asked |-> asked,
           answers |-> answers, said |-> said]
  BY <1>2, <1>4
<1>6. r \in CmdRecord /\ r.said = Unset
  BY <1>3, <1>4, <1>5 DEF CmdRecord
<1>7. To(c, r)
  BY <1>1, <1>2, Zenon
<1> QED
  BY <1>6, <1>7, CmdMoves, CliAssumption DEF SaysVotes, CliInv

\* A command that goes to another stage and keeps what it has.
LEMMA StageMoves ==
  ASSUME CliInv, NEW c \in Cmd, NEW pc \in CmdStage,
         cmd[c].pc # "ended", To(c, [cmd[c] EXCEPT !.pc = pc]), file' \in ConfigFile
  PROVE  CliInv'
<1>1. PICK r : r = [cmd[c] EXCEPT !.pc = pc]
  OBVIOUS
<1>2. cmd[c] \in CmdRecord /\ SaysVotes(cmd[c])
  BY DEF CliInv
<1>3. r \in CmdRecord /\ r.said = cmd[c].said
  BY <1>1, <1>2 DEF CmdRecord
<1> QED
  BY <1>1, <1>2, <1>3, CmdMoves DEF SaysVotes

\* A command refused for a setting that is not there.
LEMMA RefusedMoves ==
  ASSUME CliInv, NEW c \in Cmd, NEW setting \in Setting,
         To(c, [NoCmd EXCEPT !.pc = "ended", !.said = "not configured", !.missing = setting]),
         UNCHANGED file
  PROVE  CliInv'
<1>1. PICK n : n = NoCmd
  OBVIOUS
<1>2. PICK r : r = [n EXCEPT !.pc = "ended", !.said = "not configured", !.missing = setting]
  OBVIOUS
<1>3. n \in CmdRecord
  BY <1>1, NoCmdIsRecord
<1>4. PICK old \in CmdStage, set \in Config, missing \in Setting \cup {Unset}, asked \in Nat,
           answers \in [Answer -> Nat], said \in Ending \cup {Unset, "APPROVED", "BLOCKED"} :
        n = [pc |-> old, conf |-> set, missing |-> missing, asked |-> asked,
             answers |-> answers, said |-> said]
  BY <1>3 DEF CmdRecord
<1>5. r = [pc |-> "ended", conf |-> set, missing |-> setting, asked |-> asked,
           answers |-> answers, said |-> "not configured"]
  BY <1>2, <1>4
<1>6. r \in CmdRecord /\ r.said = "not configured"
  BY <1>5 DEF CmdRecord, CmdStage, Ending
<1>7. To(c, r)
  BY <1>1, <1>2, Zenon
<1> QED
  BY <1>6, <1>7, CmdMoves DEF SaysVotes, CliInv

\* A command that goes to a stage with nothing else.
LEMMA FreshMoves ==
  ASSUME CliInv, NEW c \in Cmd, NEW pc \in CmdStage, To(c, [NoCmd EXCEPT !.pc = pc]),
         UNCHANGED file
  PROVE  CliInv'
<1>1. PICK r : r = [NoCmd EXCEPT !.pc = pc]
  OBVIOUS
<1>2. r \in CmdRecord /\ r.said = Unset
  BY <1>1, NoCmdIsRecord DEF Idle, CmdRecord
<1> QED
  BY <1>1, <1>2, CmdMoves, CliAssumption DEF SaysVotes, CliInv

LEMMA CliInvStep == CliInv /\ [CliNext]_cliVars => CliInv'
<1> SUFFICES ASSUME CliInv, [CliNext]_cliVars PROVE CliInv'
  OBVIOUS
<1>1. CASE UNCHANGED cliVars
  BY <1>1 DEF cliVars, CliInv
<1>2. ASSUME NEW c \in Cmd, CliStep(c) PROVE CliInv'
  <2> DEFINE v == cmd[c]
  <2>1. v \in CmdRecord /\ SaysVotes(v) /\ file \in ConfigFile
    BY DEF CliInv
  <2>2. ASSUME NEW env \in Environment, NEW pc \in CmdStage, Loads(c, env, pc) PROVE CliInv'
    BY <2>2, LoadedIsConfig, BeginMoves DEF Loads
  <2>3. ASSUME NEW env \in Environment,
               \/ AgentCommand(c, env) \/ TestPolicy(c, env) \/ DeployCommand(c, env)
               \/ HistoryCommand(c, env) \/ VerifyCommand(c, env)
               \/ TestAction(c, env) \/ GuardiansCommand(c, env)
        PROVE  CliInv'
    <3>1. CASE cmd[c].pc = "idle" /\ Finishes(c, "planned") /\ UNCHANGED <<file, project, told>>
      BY <2>1, <3>1, FinishMoves DEF Ending
    <3> QED
      BY <2>2, <2>3, <3>1
      DEF AgentCommand, TestPolicy, DeployCommand, HistoryCommand, VerifyCommand, TestAction,
          GuardiansCommand, CmdStage
  <2>4. ASSUME NEW env \in Environment, NEW options \in Options, ConfigCommand(c, env, options)
        PROVE  CliInv'
    <3>1. PICK l \in Config : l = LoadConfig(env)
      BY LoadedIsConfig
    <3>2. PICK set : set = [x \in Setting |-> IF options[x] = Unset THEN l.set[x] ELSE options[x]]
      OBVIOUS
    <3>3. set \in Env
      BY <3>1, <3>2, CliAssumption DEF Env, Config
    <3>4. PICK conf : conf = [l EXCEPT !.set = set]
      OBVIOUS
    <3>5. conf \in Config
      BY <3>1, <3>3, <3>4 DEF Config
    <3>6. To(c, [NoCmd EXCEPT !.pc = "save", !.conf = conf])
      BY <2>4, <3>1, <3>2, <3>4, Zenon DEF ConfigCommand
    <3> QED
      BY <2>4, <3>5, <3>6, BeginMoves DEF ConfigCommand, CmdStage
  <2>5. CASE SaveTruncates(c)
    BY <2>5, StageMoves, NoConfigIsConfig DEF SaveTruncates, CmdStage, ConfigFile, Torn
  <2>6. CASE SaveWrites(c)
    <3>1. v.conf \in Config
      BY <2>1 DEF CmdRecord
    <3>2. file' \in ConfigFile
      BY <2>6, <3>1, NoConfigIsConfig DEF SaveWrites, ConfigFile, Torn
    <3> QED
      BY <2>6, <3>2, FinishMoves DEF SaveWrites, Ending
  <2>7. CASE GetContract(c)
    <3> DEFINE unset == {x \in {"rpcUrl", v.pc} : v.conf.set[x] = Unset}
    <3>1. v.pc \in Setting /\ "rpcUrl" \in Setting /\ UNCHANGED file
      BY <2>7 DEF GetContract, Setting
    <3>2. CASE unset = {}
      <4>1. PICK pc \in CmdStage : pc = IF v.pc = "auditAddress" THEN "audit" ELSE "registry"
        BY DEF CmdStage
      <4>2. To(c, [NoCmd EXCEPT !.pc = pc])
        BY <2>7, <3>2, <4>1 DEF GetContract
      <4> QED
        BY <3>1, <4>2, FreshMoves
    <3>3. CASE unset # {}
      <4>1. PICK setting : setting = IF "rpcUrl" \in unset THEN "rpcUrl" ELSE v.pc
        OBVIOUS
      <4>2. setting \in Setting
        BY <3>1, <4>1
      <4>3. To(c, [NoCmd EXCEPT !.pc = "ended", !.said = "not configured",
                                !.missing = setting])
        BY <2>7, <3>3, <4>1, Zenon DEF GetContract
      <4> QED
        BY <3>1, <4>2, <4>3, RefusedMoves
    <3> QED
      BY <3>2, <3>3
  <2>8. CASE ShowsAnswer(c) \/ CmdFails(c)
    BY <2>1, <2>8, FinishMoves DEF ShowsAnswer, CmdFails, Ending
  <2>9. CASE AskGuardians(c)
    <3>1. PICK k \in Nat : k = IF v.conf.guardians = Unset THEN 1 ELSE v.conf.guardians
      BY <2>1, CliAssumption DEF CmdRecord, Config, Endpoints
    <3>2. PICK n : n = NoCmd
      OBVIOUS
    <3>3. PICK r : r = [n EXCEPT !.pc = "asking", !.asked = k]
      OBVIOUS
    <3>4. n \in CmdRecord /\ n.said = Unset
      BY <3>2, NoCmdIsRecord DEF Idle
    <3>5. PICK old \in CmdStage, set \in Config, missing \in Setting \cup {Unset}, asked \in Nat,
               answers \in [Answer -> Nat], said \in Ending \cup {Unset, "APPROVED", "BLOCKED"} :
            n = [pc |-> old, conf |-> set, missing |-> missing, asked |-> asked,
                 answers |-> answers, said |-> said]
      BY <3>4 DEF CmdRecord
    <3>6. r = [pc |-> "asking", conf |-> set, missing |-> missing, asked |-> k,
               answers |-> answers, said |-> said]
      BY <3>3, <3>5
    <3>7. r \in CmdRecord /\ r.said = Unset
      BY <3>4, <3>5, <3>6 DEF CmdRecord, CmdStage
    <3>8. To(c, r) /\ UNCHANGED file
      BY <2>9, <3>1, <3>2, <3>3, Zenon DEF AskGuardians
    <3> QED
      BY <2>1, <3>7, <3>8, CmdMoves, CliAssumption DEF SaysVotes
  <2>10. CASE GuardianAnswers(c)
    <3>1. PICK answer \in Answer : To(c, [v EXCEPT !.answers[answer] = @ + 1])
      BY <2>10 DEF GuardianAnswers
    <3>2. PICK a : a = [v.answers EXCEPT ![answer] = @ + 1]
      OBVIOUS
    <3>3. v.answers \in [Answer -> Nat]
      BY <2>1 DEF CmdRecord
    <3>4. a \in [Answer -> Nat]
      BY <3>2, <3>3
    <3>5. PICK r : r = [v EXCEPT !.answers = a]
      OBVIOUS
    <3>6. r \in CmdRecord /\ r.said = v.said
      BY <2>1, <3>4, <3>5 DEF CmdRecord
    <3>7. To(c, r)
      BY <2>1, <3>1, <3>2, <3>5 DEF CmdRecord
    <3>8. v.pc = "asking" /\ UNCHANGED file
      BY <2>10 DEF GuardianAnswers
    <3> QED
      BY <2>1, <3>6, <3>7, <3>8, CmdMoves DEF SaysVotes
  <2>11. CASE TestOutcome(c)
    <3>1. PICK said \in {"APPROVED", "BLOCKED"} :
            said = IF Approvals(v.answers) > Blocks(v.answers) THEN "APPROVED" ELSE "BLOCKED"
      OBVIOUS
    <3>2. PICK r : r = [v EXCEPT !.pc = "ended", !.said = said]
      OBVIOUS
    <3>3. PICK old \in CmdStage, set \in Config, missing \in Setting \cup {Unset}, asked \in Nat,
               answers \in [Answer -> Nat], once \in Ending \cup {Unset, "APPROVED", "BLOCKED"} :
            v = [pc |-> old, conf |-> set, missing |-> missing, asked |-> asked,
                 answers |-> answers, said |-> once]
      BY <2>1 DEF CmdRecord
    <3>4. To(c, r) /\ UNCHANGED file /\ Gathered(v.answers) = v.asked
      BY <2>11, <3>1, <3>2, Zenon DEF TestOutcome
    <3> HIDE DEF v
    <3>5. r = [pc |-> "ended", conf |-> set, missing |-> missing, asked |-> asked,
               answers |-> answers, said |-> said]
      BY <3>2, <3>3
    <3>6. r \in CmdRecord
      BY <3>1, <3>5 DEF CmdRecord, CmdStage
    <3>7. r.answers = v.answers /\ r.asked = v.asked /\ r.pc = "ended" /\ r.said = said
      BY <3>3, <3>5
    <3>8. SaysVotes(r)
      BY <3>1, <3>4, <3>7 DEF SaysVotes
    <3> QED
      BY <2>1, <3>4, <3>6, <3>8, CmdMoves
  <2>12. CASE InitLooks(c)
    BY <2>1, <2>12, FreshMoves, FinishMoves DEF InitLooks, CmdStage, Ending
  <2>13. CASE InitCreates(c)
    BY <2>1, <2>13, StageMoves DEF InitCreates, CmdStage
  <2>14. CASE InitWrites(c)
    BY <2>1, <2>14, FinishMoves DEF InitWrites, Ending
  <2>15. CASE NextCommand(c)
    BY <2>1, <2>15, CmdMoves, NoCmdIsRecord DEF NextCommand
  <2> QED
    BY <1>2, <2>3, <2>4, <2>5, <2>6, <2>7, <2>8, <2>9, <2>10, <2>11, <2>12, <2>13, <2>14, <2>15
    DEF CliStep
<1> QED
  BY <1>1, <1>2 DEF CliNext

LEMMA CliInvTells == CliInv => TestTellsOfMesh
<1> SUFFICES ASSUME CliInv, NEW c \in Cmd,
                    NEW a, a = cmd[c].answers, NEW n, n = cmd[c].asked,
                    cmd[c].said \in {"APPROVED", "BLOCKED"}
             PROVE
    LET meshExecutes == Consensus("majority", MeshCounts(a), n).execute
    IN /\ cmd[c].said = "APPROVED" /\ a["other"] = 0 /\ a["failed"] = 0 => meshExecutes
       /\ cmd[c].said = "BLOCKED" /\ meshExecutes => a["recased"] > 0
  BY Zenon DEF TestTellsOfMesh
<1>1. a \in [Answer -> Nat] /\ n \in Nat /\ Gathered(a) = n
  BY DEF CliInv, CmdRecord, SaysVotes
<1>2. cmd[c].said = "APPROVED" <=> Approvals(a) > Blocks(a)
  BY DEF CliInv, SaysVotes
<1>3. PICK x \in Nat, y \in Nat, z \in Nat, o \in Nat, f \in Nat :
        x = a["approve"] /\ y = a["recased"] /\ z = a["block"] /\ o = a["other"] /\ f = a["failed"]
  BY <1>1 DEF Answer
<1>4. n = x + y + z + o + f /\ (cmd[c].said = "APPROVED" <=> x > y + z + o)
  BY <1>1, <1>2, <1>3 DEF Gathered, Approvals, Blocks
<1>5. PICK m : m = MeshCounts(a)
  OBVIOUS
<1>6. m \in Counts /\ m.approve = x + y /\ m.block = z /\ m.invalid = o /\ Total(m) <= n
  BY <1>3, <1>4, <1>5 DEF MeshCounts, Counts, Total
<1>7. Consensus("majority", m, n).execute <=> o = 0 /\ 2 * (x + y) > n
  <2>1. CASE n # 0
    BY <1>1, <1>6, <2>1, ConsensusExecutes DEF DocumentedExecute, Modes
  <2>2. CASE n = 0
    <3>1. x = 0 /\ y = 0 /\ o = 0
      BY <1>4, <2>2
    <3>3. Total(m) <= 0 /\ Total(m) \in Nat
      BY <1>6, <2>2 DEF Counts, Total
    <3>2. ~Consensus("majority", m, n).execute
      BY <1>6, <2>2, <3>1, <3>3 DEF Consensus, MinimumVotesRequired, StrictMajority, Hold
    <3> QED
      BY <2>2, <3>1, <3>2
  <2> QED
    BY <2>1, <2>2
<1>8. cmd[c].said = "APPROVED" /\ o = 0 /\ f = 0 => 2 * (x + y) > n
  BY <1>3, <1>4
<1>9. cmd[c].said = "BLOCKED" /\ 2 * (x + y) > n /\ o = 0 => y > 0
  BY <1>3, <1>4
<1> QED
  BY <1>3, <1>5, <1>7, <1>8, <1>9

\* However many guardians a file lists, however they write their answers, and
\* whatever other commands make of the file meanwhile: the outcome "test action"
\* shows tells of the mesh's decision what TestTellsOfMesh says.
THEOREM TestAlwaysTells == CliSpec => []TestTellsOfMesh
BY CliInvInit, CliInvStep, CliInvTells, PTL DEF CliSpec

-----------------------------------------------------------------------------
(***************************************************************************)
(* What the tool routes give out.                                          *)
(***************************************************************************)
JobStage == {"idle", "stat", "read", "model", "list", "open", "connect"}

JobRecord == [pc : JobStage, paths : Seq(File), inline : Int, total : Int,
              combined : Nat, limit : Int]

\* A row tells what is missing in it.
RowTells(w) == w \in Row /\ (w.truncated <=> w.given < w.there)

RoutesInv ==
  /\ job \in JobRecord /\ job.combined <= CombinedCap
  /\ job.pc \in {"stat", "read"} => job.paths # <<>>
  /\ rows \in Seq(Row) /\ \A i \in DOMAIN rows : RowTells(rows[i])

LEMMA NoJobIsRecord == NoJob \in JobRecord /\ NoJob.combined = 0 /\ NoJob.pc = "idle"
BY DEF NoJob, JobRecord, JobStage

LEMMA CapsAreNumbers ==
  /\ CombinedCap \in Nat /\ Header \in Nat /\ Sep \in Nat /\ Reserve \in Nat /\ Notice \in Nat
  /\ DirCap \in Nat /\ DocCap \in Nat /\ MaxSize \in Nat /\ SampleCap \in Nat
  /\ DefaultSample \in Nat /\ Notice <= Reserve
BY RoutesAssumption

LEMMA RoutesInvInit == RoutesInit => RoutesInv
<1> SUFFICES ASSUME RoutesInit PROVE RoutesInv
  OBVIOUS
<1>1. rows = <<>> /\ rows \in Seq(Row) /\ DOMAIN rows = {}
  BY DEF RoutesInit
<1> QED
  BY <1>1, NoJobIsRecord, CapsAreNumbers DEF RoutesInit, RoutesInv

\* An answer of one row.
LEMMA OneRow ==
  ASSUME NEW w, RowTells(w), rows' = <<w>>
  PROVE  rows' \in Seq(Row) /\ \A i \in DOMAIN rows' : RowTells(rows'[i])
<1>1. w \in Row
  BY DEF RowTells
<1>2. rows' \in Seq(Row) /\ DOMAIN rows' = {1} /\ rows'[1] = w
  BY <1>1
<1> QED
  BY <1>2

LEMMA NoRows ==
  ASSUME rows' = <<>>
  PROVE  rows' \in Seq(Row) /\ \A i \in DOMAIN rows' : RowTells(rows'[i])
OBVIOUS

LEMMA RowsStay ==
  ASSUME RoutesInv, UNCHANGED rows
  PROVE  rows' \in Seq(Row) /\ \A i \in DOMAIN rows' : RowTells(rows'[i])
BY DEF RoutesInv

\* What is there, cut at a cap, tells whether it was cut.
LEMMA CutTells ==
  ASSUME NEW n \in Nat, NEW cap \in Nat
  PROVE  RowTells([given |-> AtMostOf(n, cap), there |-> n, truncated |-> n > cap])
<1>1. PICK a \in Nat : a = AtMostOf(n, cap)
  BY DEF AtMostOf
<1>5. (n > cap) \in BOOLEAN
  OBVIOUS
<1>2. PICK cut \in BOOLEAN : cut = (n > cap)
  BY <1>5, Zenon
<1>6. cut <=> n > cap
  BY <1>2, Zenon
<1>3. cut <=> a < n
  BY <1>1, <1>6 DEF AtMostOf
<1>4. RowTells([given |-> a, there |-> n, truncated |-> cut])
  BY <1>3 DEF RowTells, Row
<1> QED
  BY <1>1, <1>2, <1>4

\* So does one document more than the cap.
LEMMA OneMoreTells ==
  ASSUME NEW n \in Nat, NEW cap \in Nat
  PROVE  RowTells([given |-> AtMostOf(AtMostOf(n, cap + 1), cap), there |-> n,
                   truncated |-> AtMostOf(n, cap + 1) > cap])
<1>1. PICK a \in Nat : a = AtMostOf(AtMostOf(n, cap + 1), cap)
  BY DEF AtMostOf
<1>5. (AtMostOf(n, cap + 1) > cap) \in BOOLEAN
  OBVIOUS
<1>2. PICK cut \in BOOLEAN : cut = (AtMostOf(n, cap + 1) > cap)
  BY <1>5, Zenon
<1>6. cut <=> AtMostOf(n, cap + 1) > cap
  BY <1>2, Zenon
<1>3. cut <=> a < n
  BY <1>1, <1>6 DEF AtMostOf
<1>4. RowTells([given |-> a, there |-> n, truncated |-> cut])
  BY <1>3 DEF RowTells, Row
<1> QED
  BY <1>1, <1>2, <1>4

LEMMA WholeTells ==
  ASSUME NEW n \in Nat
  PROVE  RowTells([given |-> n, there |-> n, truncated |-> FALSE])
BY DEF RowTells, Row

\* A request that begins, of at most two paths.
LEMMA PathListsAreLists == PathLists \subseteq Seq(File)
<1>1. \A f \in File : <<f>> \in Seq(File)
  OBVIOUS
<1>2. \A f \in File, g \in File : <<f, g>> \in Seq(File)
  OBVIOUS
<1>3. ASSUME NEW l \in PathLists PROVE l \in Seq(File)
  <2>1. CASE l = <<>>
    BY <2>1
  <2>2. CASE \E f \in File : l = <<f>>
    BY <1>1, <2>2
  <2>3. CASE \E q \in File \X File : l = <<q[1], q[2]>>
    BY <1>2, <2>3
  <2> QED
    BY <1>3, <2>1, <2>2, <2>3 DEF PathLists
<1> QED
  BY <1>3

\* A source that is read: its row tells, and what is put together stays in the cap.
LEMMA SourceKeeps ==
  ASSUME RoutesInv, NEW item \in DiskEntry, ReadSource(item)
  PROVE  RoutesInv'
<1> DEFINE size == item.size
           cut  == size > Room
           kept == AtMostOf(size, Room)
           rest == Tail(job.paths)
<1>1. /\ size \in Nat /\ job.combined \in Nat /\ Gap \in Nat /\ Room \in Nat /\ Room > 0
      /\ Room = CombinedCap - job.combined - Gap - Header - Reserve
  <2>1. item.size \in Nat /\ job.combined \in Nat /\ Gap \in Nat
    BY CapsAreNumbers DEF DiskEntry, Gap, RoutesInv, JobRecord
  <2>2. Room > 0
    BY DEF ReadSource
  <2>3. Room = CombinedCap - job.combined - Gap - Header - Reserve
    BY DEF Room
  <2> QED
    BY <2>1, <2>2, <2>3, CapsAreNumbers
<1>2. kept \in Nat /\ kept <= Room
  BY <1>1 DEF AtMostOf
<1>3. PICK w : w = [given |-> kept, there |-> size, truncated |-> cut]
  OBVIOUS
<1>4. RowTells(w) /\ w \in Row
  BY <1>1, <1>3, CutTells DEF RowTells
<1>5. rows' = Append(rows, w)
  BY <1>3 DEF ReadSource
<1>6. rows' \in Seq(Row) /\ \A i \in DOMAIN rows' : RowTells(rows'[i])
  <2>1. rows \in Seq(Row) /\ \A i \in DOMAIN rows : RowTells(rows[i])
    BY DEF RoutesInv
  <2>2. rows' \in Seq(Row)
    BY <1>4, <1>5, <2>1
  <2>3. ASSUME NEW i \in DOMAIN rows' PROVE RowTells(rows'[i])
    <3>1. i \in 1 .. Len(rows) + 1 /\ Len(rows) \in Nat /\ DOMAIN rows = 1 .. Len(rows)
      BY <1>4, <1>5, <2>1
    <3>2. rows'[i] = IF i = Len(rows) + 1 THEN w ELSE rows[i]
      BY <1>4, <1>5, <2>1, <3>1
    <3> QED
      BY <1>4, <2>1, <3>1, <3>2
  <2> QED
    BY <2>2, <2>3
<1>7. PICK pc, sum : /\ pc = IF rest = <<>> THEN "model" ELSE "stat"
                     /\ sum = job.combined + Gap + Header + kept + (IF cut THEN Notice ELSE 0)
  OBVIOUS
<1>8. sum \in Nat /\ sum <= CombinedCap
  <2>1. (IF cut THEN Notice ELSE 0) \in Nat /\ (IF cut THEN Notice ELSE 0) <= Reserve
    BY CapsAreNumbers
  <2>2. PICK k \in Nat, x \in Nat : k = kept /\ x = (IF cut THEN Notice ELSE 0)
    BY <1>2, <2>1
  <2>3. sum = job.combined + Gap + Header + k + x
    BY <1>7, <2>2
  <2>4. k <= Room /\ x <= Reserve
    BY <1>2, <2>1, <2>2
  <2> HIDE DEF cut, kept
  <2> QED
    BY <1>1, <2>2, <2>3, <2>4, CapsAreNumbers
<1>9. PICK next : next = [job EXCEPT !.pc = pc, !.paths = rest, !.combined = sum]
  OBVIOUS
<1>10. PICK old \in JobStage, paths \in Seq(File), inline \in Int, total \in Int, combined \in Nat,
            limit \in Int :
         job = [pc |-> old, paths |-> paths, inline |-> inline, total |-> total,
                combined |-> combined, limit |-> limit]
  BY DEF RoutesInv, JobRecord
<1>11. next = [pc |-> pc, paths |-> rest, inline |-> inline, total |-> total, combined |-> sum,
               limit |-> limit]
  BY <1>9, <1>10
<1>12. rest \in Seq(File)
  <2>1. job.paths \in Seq(File) /\ job.paths # <<>>
    BY DEF RoutesInv, JobRecord, ReadSource
  <2> QED
    BY <2>1
<1>13. next \in JobRecord
  BY <1>7, <1>8, <1>11, <1>12 DEF JobRecord, JobStage
<1>14. next.combined = sum /\ next.pc = pc /\ next.paths = rest
  BY <1>11
<1>15. job' = next
  BY <1>7, <1>9, Zenon DEF ReadSource, Serves
<1>16. job'.pc \in {"stat", "read"} => job'.paths # <<>>
  BY <1>7, <1>14, <1>15
<1> QED
  BY <1>6, <1>8, <1>13, <1>14, <1>15, <1>16 DEF RoutesInv

\* A request is taken up, or answered, with rows that tell.
LEMMA ServesKeeps ==
  ASSUME RoutesInv, NEW next \in JobRecord, Serves(next), next.combined = 0,
         next.pc \in {"stat", "read"} => next.paths # <<>>,
         rows' \in Seq(Row), \A i \in DOMAIN rows' : RowTells(rows'[i])
  PROVE  RoutesInv'
BY CapsAreNumbers DEF Serves, RoutesInv

LEMMA RoutesInvStep == RoutesInv /\ [RoutesNext]_routeVars => RoutesInv'
<1> SUFFICES ASSUME RoutesInv, [RoutesNext]_routeVars PROVE RoutesInv'
  OBVIOUS
<1>1. CASE UNCHANGED routeVars
  BY <1>1 DEF routeVars, RoutesInv
<1>2. ASSUME Serves(NoJob), NEW w, RowTells(w), rows' = <<w>> PROVE RoutesInv'
  BY <1>2, NoJobIsRecord, OneRow, ServesKeeps
<1>3. CASE Fails
  BY <1>3, NoJobIsRecord, NoRows, ServesKeeps DEF Fails
<1>4. ASSUME NEW item \in DiskEntry, StatSource(item) PROVE RoutesInv'
  <2>1. item.size \in Nat
    BY CapsAreNumbers DEF DiskEntry
  <2>2. PICK sum : sum = job.total + item.size
    OBVIOUS
  <2>3. PICK next : next = [job EXCEPT !.pc = "read", !.total = sum]
    OBVIOUS
  <2>4. PICK old \in JobStage, paths \in Seq(File), inline \in Int, total \in Int, combined \in Nat,
             limit \in Int :
          job = [pc |-> old, paths |-> paths, inline |-> inline, total |-> total,
                 combined |-> combined, limit |-> limit]
    BY DEF RoutesInv, JobRecord
  <2>5. next = [pc |-> "read", paths |-> paths, inline |-> inline, total |-> sum,
                combined |-> combined, limit |-> limit]
    BY <2>3, <2>4
  <2>6. sum \in Int
    BY <2>1, <2>2 DEF RoutesInv, JobRecord
  <2>7. next \in JobRecord /\ next.paths = job.paths /\ next.combined = job.combined
    BY <2>4, <2>5, <2>6 DEF JobRecord, JobStage
  <2>8. job' = next
    BY <1>4, <2>2, <2>3, Zenon DEF StatSource, Serves
  <2>9. job.paths # <<>> /\ UNCHANGED rows
    BY <1>4 DEF StatSource, RoutesInv
  <2> QED
    BY <2>7, <2>8, <2>9, RowsStay DEF RoutesInv
<1>5. ASSUME NEW item \in DiskEntry, ReadSource(item) PROVE RoutesInv'
  BY <1>5, SourceKeeps
<1>6. ASSUME NEW item \in DiskEntry, ListDirectory(item) PROVE RoutesInv'
  <2>1. item.size \in Nat
    BY CapsAreNumbers DEF DiskEntry
  <2> QED
    BY <1>2, <1>6, <2>1, CutTells, CapsAreNumbers DEF ListDirectory
<1>7. ASSUME NEW item \in DiskEntry, ReadPath(item) PROVE RoutesInv'
  <2>1. item.size \in Nat
    BY CapsAreNumbers DEF DiskEntry
  <2> QED
    BY <1>2, <1>7, <2>1, WholeTells DEF ReadPath
<1>8. ASSUME NEW item \in DiskEntry, NEW f \in File, AskRead(f, item) PROVE RoutesInv'
  <2>1. PICK pc \in {"list", "open"} : pc = IF item.kind = "dir" THEN "list" ELSE "open"
    OBVIOUS
  <2>2. PICK n : n = NoJob
    OBVIOUS
  <2>3. PICK next : next = [n EXCEPT !.paths = <<f>>, !.pc = pc]
    OBVIOUS
  <2>4. n = [pc |-> "idle", paths |-> <<>>, inline |-> 0, total |-> 0, combined |-> 0, limit |-> 0]
    BY <2>2 DEF NoJob
  <2>5. next = [pc |-> pc, paths |-> <<f>>, inline |-> 0, total |-> 0, combined |-> 0, limit |-> 0]
    BY <2>3, <2>4
  <2>6. next \in JobRecord /\ next.combined = 0 /\ next.pc \notin {"stat", "read"}
    BY <2>5 DEF JobRecord, JobStage
  <2>7. Serves(next) /\ rows' = <<>>
    BY <1>8, <2>1, <2>2, <2>3, Zenon DEF AskRead
  <2> QED
    BY <2>6, <2>7, NoRows, ServesKeeps
<1>9. ASSUME NEW paths \in PathLists, NEW inline \in 0 .. 1, AskAnalysis(paths, inline)
      PROVE  RoutesInv'
  <2>1. PICK pc \in {"model", "stat"} : pc = IF paths = <<>> THEN "model" ELSE "stat"
    OBVIOUS
  <2>2. PICK n : n = NoJob
    OBVIOUS
  <2>3. PICK next : next = [n EXCEPT !.pc = pc, !.paths = paths, !.inline = inline]
    OBVIOUS
  <2>4. n = [pc |-> "idle", paths |-> <<>>, inline |-> 0, total |-> 0, combined |-> 0, limit |-> 0]
    BY <2>2 DEF NoJob
  <2>5. next = [pc |-> pc, paths |-> paths, inline |-> inline, total |-> 0, combined |-> 0,
                limit |-> 0]
    BY <2>3, <2>4
  <2>6. paths \in Seq(File)
    BY PathListsAreLists
  <2>7. next \in JobRecord /\ next.combined = 0 /\ next.pc = pc /\ next.paths = paths
    BY <2>5, <2>6 DEF JobRecord, JobStage
  <2>8. Serves(next) /\ rows' = <<>>
    BY <1>9, <2>1, <2>2, <2>3, Zenon DEF AskAnalysis
  <2> QED
    BY <2>1, <2>7, <2>8, NoRows, ServesKeeps
<1>10. ASSUME NEW persist \in BOOLEAN, ModelAnswers(persist) PROVE RoutesInv'
  BY <1>10, NoJobIsRecord, RowsStay, ServesKeeps DEF ModelAnswers
<1>11. ASSUME NEW limit \in Int, AskQuery(limit) PROVE RoutesInv'
  <2>1. PICK n : n = NoJob
    OBVIOUS
  <2>2. PICK next : next = [n EXCEPT !.pc = "connect", !.limit = limit]
    OBVIOUS
  <2>3. n = [pc |-> "idle", paths |-> <<>>, inline |-> 0, total |-> 0, combined |-> 0, limit |-> 0]
    BY <2>1 DEF NoJob
  <2>4. next = [pc |-> "connect", paths |-> <<>>, inline |-> 0, total |-> 0, combined |-> 0,
                limit |-> limit]
    BY <2>2, <2>3
  <2>5. next \in JobRecord /\ next.combined = 0 /\ next.pc \notin {"stat", "read"}
    BY <2>4 DEF JobRecord, JobStage
  <2>6. Serves(next) /\ rows' = <<>>
    BY <1>11, <2>1, <2>2, Zenon DEF AskQuery
  <2> QED
    BY <2>5, <2>6, NoRows, ServesKeeps
<1>12. ASSUME NEW docs \in Nat, Sample(docs) PROVE RoutesInv'
  <2>1. AtMostOf(docs, SampleLimit(job.limit)) \in Nat
    BY CapsAreNumbers DEF AtMostOf, SampleLimit, RoutesInv, JobRecord
  <2> QED
    BY <1>2, <1>12, <2>1, WholeTells DEF Sample
<1>13. ASSUME NEW docs \in Nat, Aggregate(docs) PROVE RoutesInv'
  BY <1>2, <1>13, OneMoreTells, CapsAreNumbers DEF Aggregate
<1>14. \A x \in -1 .. SampleCap + 1 : x \in Int
  OBVIOUS
<1>15. \A x \in 0 .. DocCap + 2 : x \in Nat
  OBVIOUS
<1> QED
  BY <1>1, <1>3, <1>4, <1>5, <1>6, <1>7, <1>8, <1>9, <1>10, <1>11, <1>12, <1>13, <1>14, <1>15
  DEF RoutesNext

LEMMA RoutesInvCaps == RoutesInv => CapsKeptAndTold
BY DEF RoutesInv, RowTells, CapsKeptAndTold

\* Whatever the caps, the files and the documents, and however they change
\* between two reads: no text for the model is longer than its cap, and every
\* answer tells whether something is missing in it.
THEOREM CapsAlwaysKept == RoutesSpec => []CapsKeptAndTold
BY RoutesInvInit, RoutesInvStep, RoutesInvCaps, PTL DEF RoutesSpec
=============================================================================
