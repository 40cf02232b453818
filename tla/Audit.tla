------------------------------- MODULE Audit -------------------------------
(***************************************************************************)
(* The contract 0g-contracts/contracts/GuardMeshAudit.sol: decisions by    *)
(* merkle root, the order in which they were recorded, the history of each *)
(* agent, and who may write. A transaction is one step; one that reverts   *)
(* changes nothing and is not a step. now is the timestamp of the block.   *)
(***************************************************************************)
EXTENDS Integers, Sequences, Functions

CONSTANTS
  Account,     \* addresses, without the zero address
  Agent,       \* agent identifiers, without the empty string
  Root,        \* merkle roots, without bytes32(0)
  Outcome,     \* outcome codes callers try, valid or not
  Votes,       \* vote counts callers try
  Deployer,
  MaxTime      \* bound on block timestamps

ASSUME AuditAssumption ==
  /\ Deployer \in Account
  /\ Votes \subseteq Nat
  /\ MaxTime \in Nat \ {0}

VARIABLES
  decisions,   \* root -> Decision, on the roots that have one
  history,     \* agent -> its roots in order
  allRoots,    \* every root in order
  recorders,   \* authorizedRecorders
  admin,
  now

vars == <<decisions, history, allRoots, recorders, admin, now>>

\* uint8 constants OUTCOME_APPROVED .. OUTCOME_PENDING
ValidOutcome == 1 .. 4

\* The most votes the contract accepts in one decision.
GuardianTotal == 3

Decision == [agent : Agent, approved : BOOLEAN, outcome : ValidOutcome,
             approve : Votes, block : Votes, recordedAt : 1 .. MaxTime,
             recorder : Account]

TypeOK ==
  /\ DOMAIN decisions \subseteq Root
  /\ \A m \in DOMAIN decisions : decisions[m] \in Decision
  /\ history \in [Agent -> Seq(Root)]
  /\ allRoots \in Seq(Root)
  /\ recorders \subseteq Account
  /\ admin \in Account
  /\ now \in 1 .. MaxTime

Init ==
  /\ decisions = <<>>
  /\ history = [a \in Agent |-> <<>>]
  /\ allRoots = <<>>
  /\ recorders = {Deployer}
  /\ admin = Deployer
  /\ now = 1

Recorded(m) == m \in DOMAIN decisions

SmallerOf(a, b) == IF a < b THEN a ELSE b

\* Mutant: the last decision of a page is left out.
Mut_Slice(s, start, limit) ==
  IF start >= Len(s) THEN <<>>
  ELSE SubSeq(s, start + 1, SmallerOf(start + limit, Len(s)) - 1)

\* A page of the ledger or of a history.
Slice(s, start, limit) ==
  IF start >= Len(s) THEN <<>>
  ELSE SubSeq(s, start + 1, SmallerOf(start + limit, Len(s)))

-----------------------------------------------------------------------------
AuthorizeRecorder(sender, a) ==
  /\ sender = admin
  /\ recorders' = recorders \cup {a}
  /\ UNCHANGED <<decisions, history, allRoots, admin, now>>

RevokeRecorder(sender, a) ==
  /\ sender = admin
  /\ recorders' = recorders \ {a}
  /\ UNCHANGED <<decisions, history, allRoots, admin, now>>

TransferAdmin(sender, a) ==
  /\ sender = admin
  /\ admin' = a
  /\ UNCHANGED <<decisions, history, allRoots, recorders, now>>

\* modifier onlyAuthorized
MayRecord(sender) == sender \in recorders \/ sender = admin

Store(m, d) == decisions' = [x \in DOMAIN decisions \cup {m} |->
                               IF x = m THEN d ELSE decisions[x]]

\* Mutant: the guard against a second record is missing.
Mut_Overwrite(sender, m, agent, approved, outcome, approve, block) ==
  /\ MayRecord(sender)
  /\ approve + block <= GuardianTotal
  /\ outcome \in ValidOutcome
  /\ Store(m, [agent |-> agent, approved |-> approved, outcome |-> outcome,
               approve |-> approve, block |-> block, recordedAt |-> now,
               recorder |-> sender])
  /\ IF Recorded(m)
     THEN UNCHANGED <<history, allRoots>>
     ELSE /\ history' = [history EXCEPT ![agent] = Append(@, m)]
          /\ allRoots' = Append(allRoots, m)
  /\ UNCHANGED <<recorders, admin, now>>

RecordDecision(sender, m, agent, approved, outcome, approve, block) ==
  /\ MayRecord(sender)
  /\ ~Recorded(m)
  /\ approve + block <= GuardianTotal
  /\ outcome \in ValidOutcome
  /\ Store(m, [agent |-> agent, approved |-> approved, outcome |-> outcome,
               approve |-> approve, block |-> block, recordedAt |-> now,
               recorder |-> sender])
  /\ history' = [history EXCEPT ![agent] = Append(@, m)]
  /\ allRoots' = Append(allRoots, m)
  /\ UNCHANGED <<recorders, admin, now>>

\* A later block.
Tick ==
  /\ now < MaxTime
  /\ now' = now + 1
  /\ UNCHANGED <<decisions, history, allRoots, recorders, admin>>

Next ==
  \/ \E s, a \in Account :
       AuthorizeRecorder(s, a) \/ RevokeRecorder(s, a) \/ TransferAdmin(s, a)
  \/ \E s \in Account, m \in Root, g \in Agent, ok \in BOOLEAN, o \in Outcome,
        p, b \in Votes : RecordDecision(s, m, g, ok, o, p, b)
  \/ Tick

Spec == Init /\ [][Next]_vars

(***************************************************************************)
(* Properties                                                              *)
(***************************************************************************)

\* i is before j in the sequence s of roots.
Before(s, m, n) == \E i, j \in DOMAIN s : i < j /\ s[i] = m /\ s[j] = n

\* The three places a decision is kept in agree: a root is listed exactly when
\* it has a decision, once globally and once in the history of its agent.
IndexesAgree ==
  /\ IsInjective(allRoots)
  /\ Range(allRoots) = DOMAIN decisions
  /\ \A a \in Agent :
       /\ IsInjective(history[a])
       /\ Range(history[a]) = {m \in DOMAIN decisions : decisions[m].agent = a}

\* The history of an agent lists its decisions in the order of the global list.
HistoryInLedgerOrder ==
  \A a \in Agent : \A i, j \in DOMAIN history[a] :
    i < j => Before(allRoots, history[a][i], history[a][j])

\* Along the ledger the timestamps never go back, nor beyond the present block.
Chronological ==
  /\ \A i, j \in DOMAIN allRoots :
       i < j => decisions[allRoots[i]].recordedAt <= decisions[allRoots[j]].recordedAt
  /\ \A m \in DOMAIN decisions : decisions[m].recordedAt <= now

\* However decisions are read, by agent or all together, they come in the order
\* in which they were made.
LedgerInOrder == HistoryInLedgerOrder /\ Chronological

\* "Immutable decision ledger": the contract implements an append-only log of
\* decisions, whatever the admin does to recorders, and to itself, meanwhile.
Entries == [root : Root, decision : Decision]
Log == [i \in DOMAIN allRoots |->
          [root |-> allRoots[i], decision |-> decisions[allRoots[i]]]]
Ledger == INSTANCE AuditLedger WITH Entry <- Entries, log <- Log
ImplementsLedger == Ledger!Spec
=============================================================================
