------------------------------- MODULE Anchor -------------------------------
(***************************************************************************)
(* Phase 6 of an intent (Web/lib/guardmesh-phase6-anchor.ts) with the      *)
(* route that races it against a timeout and the ledger it writes to: the  *)
(* decided request is bundled, the bundle is uploaded to 0G Storage, its   *)
(* merkle root is recorded in a transaction of the server's wallet. The    *)
(* upload, the node, the chain and the server itself may fail at any       *)
(* point, and the anchor goes on after the requester was told of a         *)
(* timeout. Phase 6 is switched on and has a key.                          *)
(***************************************************************************)
EXTENDS Audit, ConsensusRules

CONSTANTS
  Request,
  Wallet,     \* the account of GUARDMESH_AUDIT_RECORDER_PRIVATE_KEY
  Guardians,  \* how many guardians intents are addressed to
  Mode,       \* the threshold mode
  Tallies,    \* the counts of verdicts requests end with
  Foreign,    \* what other recorders write
  MaxFaults,  \* bound on failures of any kind
  NoRoot

ASSUME AnchorAssumption ==
  /\ Wallet \in Account
  /\ Guardians \in Nat \ {0}
  /\ Mode \in Modes
  /\ Tallies \subseteq {t \in Counts : Total(t) <= Guardians}
  /\ \A t \in Tallies : t.approve \in Votes /\ t.block \in Votes
  /\ Foreign \subseteq [approved : BOOLEAN, outcome : Outcome,
                         approve : Votes, block : Votes]
  /\ MaxFaults \in Nat
  /\ NoRoot \notin Root
  /\ APPROVED .. PENDING \subseteq Outcome

VARIABLES
  decided,  \* the decided request: whose intent, and the counts
  root,     \* the merkle root of its bundle
  stage,    \* how far its anchor has come
  answer,   \* what the response says of the anchor
  stored,   \* roots whose bundle 0G Storage has
  mempool,  \* transactions of the wallet not mined yet, by nonce
  receipt,
  faults

anchorVars == <<decided, root, stage, answer, stored, mempool, receipt, faults>>
allVars    == <<vars, anchorVars>>

Decided == [agent : Agent, tally : Tallies]
Stages  == {"idle", "building", "uploading", "recording", "sent", "hung", "done"}
Answers == {"none", "recorded", "failed", "timeout", "dropped"}

AnchorTypeOK ==
  /\ TypeOK
  /\ decided \in [Request -> Decided \cup {<<>>}]
  /\ root \in [Request -> Root \cup {NoRoot}]
  /\ stage \in [Request -> Stages]
  /\ answer \in [Request -> Answers]
  /\ stored \subseteq Root
  /\ mempool \in Seq(Request)
  /\ receipt \in [Request -> {"none", "success", "reverted"}]
  /\ faults \in 0 .. MaxFaults

AnchorInit ==
  /\ Init
  /\ decided = [r \in Request |-> <<>>]
  /\ root = [r \in Request |-> NoRoot]
  /\ stage = [r \in Request |-> "idle"]
  /\ answer = [r \in Request |-> "none"]
  /\ stored = {}
  /\ mempool = <<>>
  /\ receipt = [r \in Request |-> "none"]
  /\ faults = 0

Verdict(r) == Consensus(Mode, decided[r].tally, Guardians)

Fault == faults < MaxFaults /\ faults' = faults + 1

At(r, s) == stage[r] = s
GoTo(r, s) == stage' = [stage EXCEPT ![r] = s]

\* The anchor's promise resolves: its result is the answer unless the timeout
\* was first (Promise.race).
Settle(r, a) ==
  /\ GoTo(r, "done")
  /\ answer' = [answer EXCEPT ![r] = IF @ = "none" THEN a ELSE @]

\* An awaited call throws or returns an error, or never comes back.
Fails(r) ==
  /\ Fault
  /\ \/ Settle(r, "failed")
     \/ GoTo(r, "hung") /\ UNCHANGED answer

-----------------------------------------------------------------------------
StartAnchor(r, g, t) ==
  /\ At(r, "idle")
  /\ decided' = [decided EXCEPT ![r] = [agent |-> g, tally |-> t]]
  /\ GoTo(r, "building")
  /\ UNCHANGED <<vars, root, answer, stored, mempool, receipt, faults>>

\* buildBundle, newSymmetricEncryptedFile, merkleTree: different bundles have
\* different roots; the same bundle may have several, for a bundle holds times
\* and texts, and may be encrypted, which is not shown here.
HashBundle(r, m) ==
  /\ At(r, "building")
  /\ \A q \in Request : root[q] = m => decided[q] = decided[r]
  /\ root' = [root EXCEPT ![r] = m]
  /\ GoTo(r, "uploading")
  /\ UNCHANGED <<vars, decided, answer, stored, mempool, receipt, faults>>

\* The returns with stage "config", "bundle" and "merkle", or a fetch of the
\* policy that never returns.
BuildFails(r) ==
  /\ At(r, "building")
  /\ Fails(r)
  /\ UNCHANGED <<vars, decided, root, stored, mempool, receipt>>

\* Mutant: the record does not wait for the upload.
Mut_NoUpload(r) ==
  /\ At(r, "uploading")
  /\ GoTo(r, "recording")
  /\ UNCHANGED <<vars, decided, root, answer, stored, mempool, receipt, faults>>

Uploaded(r) ==
  /\ At(r, "uploading")
  /\ stored' = stored \cup {root[r]}
  /\ GoTo(r, "recording")
  /\ UNCHANGED <<vars, decided, root, answer, mempool, receipt, faults>>

\* indexer.upload also fails by returning another root or several; the bundle
\* may be there nevertheless.
UploadFails(r) ==
  /\ At(r, "uploading")
  /\ Fails(r)
  /\ stored' \in {stored, stored \cup {root[r]}}
  /\ UNCHANGED <<vars, decided, root, mempool, receipt>>

\* What the contract makes of the transaction, now.
Accepted(r) ==
  /\ MayRecord(Wallet)
  /\ ~Recorded(root[r])
  /\ decided[r].tally.approve + decided[r].tally.block <= GuardianTotal

\* contract.recordDecision: the gas is estimated first, on the present state.
Submit(r) ==
  /\ At(r, "recording")
  /\ Accepted(r)
  /\ mempool' = Append(mempool, r)
  /\ GoTo(r, "sent")
  /\ UNCHANGED <<vars, decided, root, answer, stored, receipt, faults>>

Refused(r) ==
  /\ At(r, "recording")
  /\ ~Accepted(r)
  /\ Settle(r, "failed")
  /\ UNCHANGED <<vars, decided, root, stored, mempool, receipt, faults>>

\* The node's answer to the submission is lost or an error; it may have the
\* transaction. One of two anchors that read the same nonce ends here too.
SubmitFails(r) ==
  /\ At(r, "recording")
  /\ Fails(r)
  /\ \/ UNCHANGED mempool
     \/ Accepted(r) /\ mempool' = Append(mempool, r)
  /\ UNCHANGED <<vars, decided, root, stored, receipt>>

Mined(r, outcome) ==
  /\ mempool # <<>>
  /\ r = Head(mempool)
  /\ mempool' = Tail(mempool)
  /\ receipt' = [receipt EXCEPT ![r] = outcome]
  /\ UNCHANGED <<decided, root, stage, answer, stored, faults>>

\* Mutant: the counts are passed in the wrong order.
Mut_SwappedCounts(r) ==
  /\ Mined(r, "success")
  /\ RecordDecision(Wallet, root[r], decided[r].agent, Verdict(r).execute,
                    Verdict(r).code, decided[r].tally.block, decided[r].tally.approve)

MineRecord(r) ==
  /\ Mined(r, "success")
  /\ RecordDecision(Wallet, root[r], decided[r].agent, Verdict(r).execute,
                    Verdict(r).code, decided[r].tally.approve, decided[r].tally.block)

MineRevert(r) ==
  /\ Mined(r, "reverted")
  /\ ~Accepted(r)
  /\ UNCHANGED vars

\* Mutant: the receipt's status is not looked at.
Mut_AnyReceipt(r) ==
  /\ At(r, "sent")
  /\ receipt[r] # "none"
  /\ Settle(r, "recorded")
  /\ UNCHANGED <<vars, decided, root, stored, mempool, receipt, faults>>

\* recTx.wait(), which throws for a transaction that reverted.
Receipt(r) ==
  /\ At(r, "sent")
  /\ receipt[r] # "none"
  /\ Settle(r, IF receipt[r] = "success" THEN "recorded" ELSE "failed")
  /\ UNCHANGED <<vars, decided, root, stored, mempool, receipt, faults>>

WaitFails(r) ==
  /\ At(r, "sent")
  /\ Fails(r)
  /\ UNCHANGED <<vars, decided, root, stored, mempool, receipt>>

\* Mutant: the anchor stops when the timeout wins the race.
Mut_TimeoutCancels(r) ==
  /\ stage[r] \notin {"idle", "done"}
  /\ answer[r] = "none"
  /\ Settle(r, "timeout")
  /\ UNCHANGED <<vars, decided, root, stored, mempool, receipt, faults>>
\* Mutant: the timeout is armed once the upload is over.
Mut_TimeoutAfterUpload(r) ==
  /\ stage[r] \in {"recording", "sent"}
  /\ answer[r] = "none"
  /\ answer' = [answer EXCEPT ![r] = "timeout"]
  /\ UNCHANGED <<vars, decided, root, stage, stored, mempool, receipt, faults>>

Timeout(r) ==
  /\ stage[r] \notin {"idle", "done"}
  /\ answer[r] = "none"
  /\ answer' = [answer EXCEPT ![r] = "timeout"]
  /\ UNCHANGED <<vars, decided, root, stage, stored, mempool, receipt, faults>>

\* The server dies with its promises; storage and mempool stay.
Restart ==
  /\ Fault
  /\ stage' = [r \in Request |-> IF At(r, "idle") THEN "idle" ELSE "done"]
  /\ answer' = [r \in Request |->
                  IF ~At(r, "idle") /\ answer[r] = "none" THEN "dropped"
                                                          ELSE answer[r]]
  /\ UNCHANGED <<vars, decided, root, stored, mempool, receipt>>

AnchorStep(r) ==
  \/ \E m \in Root : HashBundle(r, m)
  \/ Uploaded(r) \/ Submit(r) \/ Refused(r) \/ Receipt(r)

Chain(r) == MineRecord(r) \/ MineRevert(r)

\* The admin, other recorders, and time.
Others ==
  \/ \E s, a \in Account :
       AuthorizeRecorder(s, a) \/ RevokeRecorder(s, a) \/ TransferAdmin(s, a)
  \/ \E s \in Account \ {Wallet}, m \in Root, g \in Agent, f \in Foreign :
       RecordDecision(s, m, g, f.approved, f.outcome, f.approve, f.block)
  \/ Tick

AnchorNext ==
  \/ Others /\ UNCHANGED anchorVars
  \/ Restart
  \/ \E r \in Request :
       \/ \E g \in Agent, t \in Tallies : StartAnchor(r, g, t)
       \/ AnchorStep(r) \/ Chain(r) \/ Timeout(r)
       \/ BuildFails(r) \/ UploadFails(r) \/ SubmitFails(r) \/ WaitFails(r)

\* What is awaited settles unless it fails, blocks are mined, timers fire.
AnchorSpec ==
  /\ AnchorInit /\ [][AnchorNext]_allVars
  /\ \A r \in Request :
       WF_allVars(AnchorStep(r)) /\ WF_allVars(Chain(r)) /\ WF_allVars(Timeout(r))

(***************************************************************************)
(* Properties                                                              *)
(***************************************************************************)

\* The decision d of the ledger is the one the request r was answered with.
Matches(r, d) ==
  /\ d.recorder = Wallet
  /\ d.agent = decided[r].agent
  /\ d.approved = Verdict(r).execute
  /\ d.outcome = Verdict(r).code
  /\ d.approve = decided[r].tally.approve
  /\ d.block = decided[r].tally.block

\* A response that reports a recorded anchor is right: the ledger has the root
\* of this request with this very decision, whoever else writes to it.
ReportedMeansRecorded ==
  \A r \in Request :
    answer[r] = "recorded" =>
      Recorded(root[r]) /\ Matches(r, decisions[root[r]])

\* Whatever fails and in whatever order transactions land, a decision the
\* wallet recorded has its bundle in storage, and is that bundle's decision.
LedgerBackedByStorage ==
  \A m \in DOMAIN decisions :
    decisions[m].recorder = Wallet =>
      /\ m \in stored
      /\ \E r \in Request : root[r] = m /\ Matches(r, decisions[m])

\* An approval on the ledger shows the votes of more than half the guardians.
ApprovalShowsMajority ==
  \A m \in DOMAIN decisions :
    Mode # "any" /\ decisions[m].recorder = Wallet /\ decisions[m].approved
      => 2 * decisions[m].approve > Guardians

\* "Never let Phase 6 block the primary response for too long": a response is
\* sent even if the upload or the chain never answers.
AnswerNotBlocked ==
  \A r \in Request : stage[r] = "building" ~> answer[r] # "none"

\* A timeout told to the requester does not stop the anchor: while nothing
\* fails and the wallet keeps its right, a decision the contract takes reaches
\* the ledger.
RecordsInTheEnd ==
  [](faults = 0 /\ MayRecord(Wallet)) =>
    \A r \in Request :
      (/\ stage[r] = "building"
       /\ decided[r].tally.approve + decided[r].tally.block <= GuardianTotal)
        ~> Recorded(root[r])
=============================================================================
