---------------------------- MODULE IntentEntries ----------------------------
(***************************************************************************)
(* The programs that bring an intent to the intent route from outside the  *)
(* dashboard, and what their exit codes tell: guardmesh-bridge.mjs,        *)
(* send-webhook-intent.mjs through api/guardmesh/webhook, and the webhook  *)
(* of the gateway plugin; with them policy-health-check.mjs and            *)
(* run-code-analysis.mjs. A program that no longer waits leaves the route  *)
(* at work. Of the route there are the rows of verdicts it collects and    *)
(* the decision over them (ConsensusRules).                                *)
(***************************************************************************)
EXTENDS ConsensusRules

CONSTANTS
  Entry,        \* runs of the programs
  EntryPeers,   \* guardians an intent is addressed to
  ServerMode    \* GUARDMESH_CONSENSUS_THRESHOLD, parsed

ASSUME EntryAssumption == EntryPeers \in Nat \ {0} /\ ServerMode \in Modes

VARIABLES
  entry,    \* the programs
  judging   \* what the intent route makes of the intent of each

entryVars == <<entry, judging>>

Via   == {"bridge", "webhook", "gateway", "health", "analysis"}
Flags == {"--strict", "--strict-consensus", "--strict-final"}

NoEntry   == [pc |-> "idle", via |-> "none", asks |-> "default", flags |-> {}, code |-> 0,
              heard |-> FALSE]
NoJudging == [pc |-> "none", mode |-> ServerMode,
              rows |-> [approve |-> 0, block |-> 0, invalid |-> 0]]

EntryTypeOK ==
  /\ entry \in [Entry -> [pc : {"idle", "posted", "config", "policy", "exited"},
                          via : Via \cup {"none"}, asks : Modes \cup {"default"},
                          flags : SUBSET Flags, code : 0 .. 2, heard : BOOLEAN]]
  /\ \A e \in Entry : judging[e].pc \in {"none", "polling", "decided", "failed"}
                      /\ judging[e].mode \in Modes /\ judging[e].rows \in Counts

EntryInit ==
  /\ entry = [e \in Entry |-> NoEntry]
  /\ judging = [e \in Entry |-> NoJudging]

\* How the threshold lies in the payload: beside the intent, or among its fields.
Shapes == {"wrapped", "flat"}

\* Mutant: a flat payload is taken for the intent as it is.
Mut_FlatLosesThreshold(via, shape, asks) == IF shape = "flat" THEN "default" ELSE asks

\* The threshold that reaches the intent route: bridge and webhook find it in
\* either shape, the plugin sends the intent alone.
Threshold(via, shape, asks) == IF via = "gateway" THEN "default" ELSE asks

\* parseConsensusThreshold, of the request or else of the environment
ModeOf(asks) == IF asks = "default" THEN ServerMode ELSE asks

ExitEntry(e, code, heard) ==
  entry' = [entry EXCEPT ![e].pc = "exited", ![e].code = code, ![e].heard = heard]

\* A payload that cannot be used: no file, no JSON, and for the bridge no agent.
BadPayload(e, via) ==
  /\ entry[e].pc = "idle" /\ via \in {"bridge", "webhook", "analysis"}
  /\ \E code \in IF via = "webhook" THEN {1, 2} ELSE {1} :
       entry' = [entry EXCEPT ![e] = [NoEntry EXCEPT !.pc = "exited", !.via = via,
                                                     !.code = code]]
  /\ UNCHANGED judging

\* The intent is posted; a token that is not the expected one, and an intent
\* without an agent, are refused by a route (RouteRefuses).
PostIntent(e, via, shape, asks, flags) ==
  /\ entry[e].pc = "idle" /\ via \in {"bridge", "webhook", "gateway"}
  /\ via # "bridge" => flags = {}
  /\ entry' = [entry EXCEPT ![e] = [NoEntry EXCEPT !.pc = "posted", !.via = via,
                                    !.asks = asks, !.flags = flags]]
  /\ judging' = [judging EXCEPT ![e] =
       [NoJudging EXCEPT !.pc = "polling", !.mode = ModeOf(Threshold(via, shape, asks))]]

RouteRefuses(e) ==
  /\ judging[e].pc = "polling"
  /\ judging' = [judging EXCEPT ![e].pc = "failed"]
  /\ UNCHANGED entry

RowArrives(e) ==
  /\ judging[e].pc = "polling" /\ Total(judging[e].rows) < EntryPeers
  /\ \E class \in Classes : judging' = [judging EXCEPT ![e].rows[class] = @ + 1]
  /\ UNCHANGED entry

RouteDecides(e) ==
  /\ judging[e].pc = "polling"
  /\ judging' = [judging EXCEPT ![e].pc = "decided"]
  /\ UNCHANGED entry

DecisionOn(e) == Consensus(judging[e].mode, judging[e].rows, EntryPeers)

\* Mutant: whatever is not to be held is to be carried out.
Mut_NotHeld(e, flag) ==
  CASE flag = "--strict"           -> judging[e].rows.approve > 0
    [] flag = "--strict-consensus" -> DecisionOn(e).execute
    [] OTHER                       -> FinalAction(DecisionOn(e)) # "hold"

Satisfied(e, flag) ==
  CASE flag = "--strict"           -> judging[e].rows.approve > 0
    [] flag = "--strict-consensus" -> DecisionOn(e).execute
    [] OTHER -> FinalAction(DecisionOn(e)) \in {"execute", "execute_contested"}

\* The answer of the route comes back, through the webhook route as 200 or 502.
AnswerHeard(e) ==
  /\ entry[e].pc = "posted" /\ judging[e].pc \in {"decided", "failed"}
  /\ ExitEntry(e, IF /\ judging[e].pc = "decided"
                     /\ \A flag \in entry[e].flags : Satisfied(e, flag)
                  THEN 0 ELSE 1, TRUE)
  /\ UNCHANGED judging

\* The program, or the webhook route for it, waits no longer, or the connection
\* is lost; the intent route does not notice.
NoAnswer(e) ==
  /\ entry[e].pc \in {"posted", "config", "policy"}
  /\ ExitEntry(e, 1, FALSE)
  /\ UNCHANGED judging

\* policy-health-check: the configuration, then the policy of the agent, if any;
\* the code is 0 when both answers are OK.
StartCheck(e) ==
  /\ entry[e].pc = "idle"
  /\ entry' = [entry EXCEPT ![e] = [NoEntry EXCEPT !.pc = "config", !.via = "health"]]
  /\ UNCHANGED judging

CheckConfig(e, ok) ==
  /\ entry[e].pc = "config"
  /\ entry' = [entry EXCEPT ![e].pc = "policy", ![e].code = IF ok THEN 0 ELSE 1]
  /\ UNCHANGED judging

CheckPolicy(e, ok) ==
  /\ entry[e].pc = "policy"
  /\ ExitEntry(e, IF ok THEN entry[e].code ELSE 1, TRUE)
  /\ UNCHANGED judging

\* run-code-analysis: one POST to the tool's route, without a time limit.
RunAnalysis(e, ok) ==
  /\ entry[e].pc = "idle"
  /\ entry' = [entry EXCEPT ![e] = [NoEntry EXCEPT !.pc = "exited", !.via = "analysis",
                                    !.code = IF ok THEN 0 ELSE 1]]
  /\ UNCHANGED judging

EntryStep(e) ==
  \/ \E via \in Via : BadPayload(e, via)
  \/ \E via \in Via, shape \in Shapes, asks \in Modes \cup {"default"}, flags \in SUBSET Flags :
       PostIntent(e, via, shape, asks, flags)
  \/ RouteRefuses(e) \/ RowArrives(e) \/ RouteDecides(e) \/ AnswerHeard(e) \/ NoAnswer(e)
  \/ StartCheck(e)
  \/ \E ok \in BOOLEAN : CheckConfig(e, ok) \/ CheckPolicy(e, ok) \/ RunAnalysis(e, ok)

EntryNext == \E e \in Entry : EntryStep(e)

EntrySpec == EntryInit /\ [][EntryNext]_entryVars

(***************************************************************************)
(* Properties                                                              *)
(***************************************************************************)

\* An exit code of the bridge tells the decision of the mesh, under the threshold
\* the payload asks for in whichever shape: 0 under --strict-consensus or
\* --strict-final that it executes, 0 under --strict that a guardian approved,
\* and 1 after an answer that decides, that one of the flags set does not hold.
BridgeCodesTell ==
  \A e \in Entry : entry[e].via = "bridge" /\ entry[e].pc = "exited" =>
    LET due == Consensus(ModeOf(entry[e].asks), judging[e].rows, EntryPeers)
        ok  == /\ entry[e].flags \cap {"--strict-consensus", "--strict-final"} # {} => due.execute
               /\ "--strict" \in entry[e].flags => judging[e].rows.approve > 0
    IN /\ entry[e].code = 0 => judging[e].pc = "decided" /\ ok
       /\ entry[e].heard /\ judging[e].pc = "decided" /\ entry[e].code = 1 => ~ok
=============================================================================
