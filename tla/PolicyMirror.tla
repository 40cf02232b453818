--------------------------- MODULE PolicyMirror ---------------------------
(***************************************************************************)
(* The policies of the registry, their copies in 0G KV, and the guardians  *)
(* that judge intents by the one or the other:                             *)
(* Web/lib/guardmesh-kv-*.ts, Web/app/api/guardmesh/kv-sync and kv-policy, *)
(* guardmesh-guardian/guardian.js and registry-policy-gate.mjs. Every      *)
(* awaited read or write is a step, so the registry changes in between.    *)
(* What a policy allows and denies are sets of actions; the language model *)
(* is any answer.                                                          *)
(***************************************************************************)
EXTENDS Registry, FiniteSets

CONSTANTS
  Sync,        \* requests of kv-sync that may be in flight
  Eval,        \* evaluations that may be in flight, over all guardians
  Action,      \* canonical action types
  Intent,      \* the intents judged, [action, roleScope]
  NoRole,      \* the empty role scope
  Source,      \* "kv" with a KV node configured and not chain_only, else "chain"
  Posts,       \* rows an operator writes through kv-policy
  MaxBacklog   \* bound on rows written and not yet replayed by the KV node

Row == [roleScope : RoleScope \cup {NoRole}, rules : Rules,
        threshold : Nat, active : BOOLEAN, source : {"chain-sync", "web-api"}]

ASSUME MirrorAssumption ==
  /\ Rules \subseteq [allowed : SUBSET Action, denied : SUBSET Action]
  /\ Intent \subseteq [action : Action, roleScope : RoleScope \cup {NoRole}]
  /\ Source \subseteq {"kv", "chain"}
  /\ Posts \subseteq {w \in Row : w.source = "web-api"}
  /\ MaxBacklog \in Nat
  /\ None \notin Row
  /\ Agent # {}

VARIABLES
  kv,       \* the row of each agent the KV node serves
  stream,   \* rows committed to 0G storage that the node has yet to replay
  sync,     \* requests of kv-sync
  eval,     \* evaluations of guardians
  past,     \* history: every policy an agent had
  owed,     \* history: a change no sync begun later has answered
  fresh     \* history: the last row committed was read under a sync during which,
            \* and since when, the policy has been what it is now

mirrorVars == <<kv, stream, sync, eval, past, owed, fresh>>
chainVars  == <<regVars, mirrorVars>>

\* fetchRegistryPolicyAsKvRecord, the shape both readers of a policy use
Record(p) == [roleScope |-> p.roleScope, rules |-> p.rules,
              threshold |-> p.threshold, active |-> p.active,
              source |-> "chain-sync"]

NoSync == [pc |-> "idle", agent |-> None, row |-> None, current |-> FALSE]
NoEval == [pc |-> "idle", agent |-> None, from |-> "chain", intent |-> None,
           seen |-> {}, row |-> None]

SyncStage == {"registered", "policy", "write"}
GateStage == {"registered", "active", "kv", "chain"}

SyncRequest == [pc : SyncStage \cup {"idle", "ok", "failed"},
                agent : Agent \cup {None}, row : Row \cup {None}, current : BOOLEAN]
Evaluation  == [pc : GateStage \cup {"idle", "llm", "approve", "block"},
                agent : Agent \cup {None}, from : {"kv", "chain"},
                intent : Intent \cup {None}, seen : SUBSET (Policy \cup {None}),
                row : Row \cup {None}]

MirrorTypeOK ==
  /\ kv \in [Agent -> Row \cup {None}]
  /\ stream \in Seq(Agent \X Row)
  /\ sync \in [Sync -> SyncRequest]
  /\ eval \in [Eval -> Evaluation]
  /\ past \in [Agent -> SUBSET Policy]
  /\ owed \in [Agent -> BOOLEAN] /\ fresh \in [Agent -> BOOLEAN]

MirrorInit ==
  /\ RegInit
  /\ kv = [a \in Agent |-> None]
  /\ stream = <<>>
  /\ sync = [s \in Sync |-> NoSync]
  /\ eval = [e \in Eval |-> NoEval]
  /\ past = [a \in Agent |-> {}]
  /\ owed = [a \in Agent |-> FALSE] /\ fresh = [a \in Agent |-> FALSE]

-----------------------------------------------------------------------------
(* The chain                                                               *)

\* History only: what a change of the registry is to those in flight.
Witnessed ==
  /\ past' = [a \in Agent |-> past[a] \cup ({policies'[a]} \ {None})]
  /\ owed' = [a \in Agent |-> owed[a] \/ policies'[a] # policies[a]]
  /\ fresh' = [a \in Agent |-> fresh[a] /\ policies'[a] = policies[a]]
  /\ sync' = [s \in Sync |->
       [sync[s] EXCEPT !.current =
          @ /\ policies'[sync[s].agent] = policies[sync[s].agent]]]
  /\ eval' = [e \in Eval |->
       IF eval[e].pc = "idle" THEN eval[e]
       ELSE [eval[e] EXCEPT !.seen = @ \cup {policies'[eval[e].agent]}]]
  /\ UNCHANGED <<kv, stream>>

\* A transaction of any wallet, also one that is not about policies.
ChainStep == (RegNext \/ UNCHANGED regVars) /\ Witnessed

-----------------------------------------------------------------------------
(* kv-sync: two reads of the registry, one write                           *)

SyncBegin(s, a) ==
  /\ sync[s].pc \in {"idle", "ok", "failed"}
  /\ sync' = [sync EXCEPT ![s] =
       [pc |-> "registered", agent |-> a, row |-> None, current |-> TRUE]]
  /\ UNCHANGED <<regVars, kv, stream, eval, past, owed, fresh>>

SyncIsRegistered(s) ==
  /\ sync[s].pc = "registered"
  /\ sync' = [sync EXCEPT ![s].pc =
       IF Registered(sync[s].agent) THEN "policy" ELSE "failed"]
  /\ UNCHANGED <<regVars, kv, stream, eval, past, owed, fresh>>

SyncGetPolicy(s) ==
  /\ sync[s].pc = "policy"
  /\ Registered(sync[s].agent)
  /\ sync' = [sync EXCEPT ![s].pc = "write",
                          ![s].row = Record(policies[sync[s].agent])]
  /\ UNCHANGED <<regVars, kv, stream, eval, past, owed, fresh>>

Appended(a, w) ==
  /\ Len(stream) < MaxBacklog
  /\ stream' = Append(stream, <<a, w>>)

\* Mutant: a failed write is answered as if it had been done.
Mut_WriteAnyway(s) ==
  /\ sync[s].pc = "write"
  /\ UNCHANGED stream
  /\ sync' = [sync EXCEPT ![s] = [NoSync EXCEPT !.pc = "ok"]]
  /\ owed' = [owed EXCEPT ![sync[s].agent] = @ /\ ~sync[s].current]
  /\ fresh' = [fresh EXCEPT ![sync[s].agent] = sync[s].current]
  /\ UNCHANGED <<regVars, kv, eval, past>>

\* batcher.exec answers with a transaction and a root.
SyncWrite(s) ==
  /\ sync[s].pc = "write"
  /\ Appended(sync[s].agent, sync[s].row)
  /\ sync' = [sync EXCEPT ![s] = [NoSync EXCEPT !.pc = "ok"]]
  /\ owed' = [owed EXCEPT ![sync[s].agent] = @ /\ ~sync[s].current]
  /\ fresh' = [fresh EXCEPT ![sync[s].agent] = sync[s].current]
  /\ UNCHANGED <<regVars, kv, eval, past>>

\* Any call of the request may fail, the write also after it was committed.
SyncFails(s) ==
  /\ sync[s].pc \in SyncStage
  /\ \/ UNCHANGED <<stream, fresh>>
     \/ /\ sync[s].pc = "write" /\ Appended(sync[s].agent, sync[s].row)
        /\ fresh' = [fresh EXCEPT ![sync[s].agent] = sync[s].current]
  /\ sync' = [sync EXCEPT ![s] = [NoSync EXCEPT !.pc = "failed"]]
  /\ UNCHANGED <<regVars, kv, eval, past, owed>>

\* POST kv-policy: an operator's row, whatever the registry says.
PostPolicy(a, w) ==
  /\ Appended(a, w)
  /\ owed' = [owed EXCEPT ![a] = TRUE] /\ fresh' = [fresh EXCEPT ![a] = FALSE]
  /\ UNCHANGED <<regVars, kv, sync, eval, past>>

\* The KV node replays the stream in its order.
Replay ==
  /\ stream # <<>>
  /\ kv' = [kv EXCEPT ![Head(stream)[1]] = Head(stream)[2]]
  /\ stream' = Tail(stream)
  /\ UNCHANGED <<regVars, sync, eval, past, owed, fresh>>

SyncStep(s) == SyncIsRegistered(s) \/ SyncGetPolicy(s) \/ SyncWrite(s) \/ SyncFails(s)

-----------------------------------------------------------------------------
(* A guardian's evaluateIntent: the gate, then the model                   *)

\* actionAllowedByPolicy, and the role scope when both sides name one
Permits(w, i) ==
  /\ i.action \notin w.rules.denied
  /\ i.action \in w.rules.allowed
  /\ NoRole \in {i.roleScope, w.roleScope} \/ i.roleScope = w.roleScope

GateGoesTo(e, pc) ==
  /\ eval' = [eval EXCEPT ![e].pc = pc]
  /\ UNCHANGED <<regVars, kv, stream, sync, past, owed, fresh>>

\* The policy is at hand: the rest of the gate does not wait for anything.
Judge(e, w) ==
  /\ eval' = [eval EXCEPT ![e].row = w,
       ![e].pc = IF Permits(w, eval[e].intent) THEN "llm" ELSE "block"]
  /\ UNCHANGED <<regVars, kv, stream, sync, past, owed, fresh>>

EvalBegin(e, a, i, from) ==
  /\ eval[e].pc \in {"idle", "approve", "block"}
  /\ eval' = [eval EXCEPT ![e] =
       [pc |-> "registered", agent |-> a, from |-> from, intent |-> i,
        seen |-> {policies[a]}, row |-> None]]
  /\ UNCHANGED <<regVars, kv, stream, sync, past, owed, fresh>>

GateIsRegistered(e) ==
  /\ eval[e].pc = "registered"
  /\ GateGoesTo(e, IF Registered(eval[e].agent) THEN "active" ELSE "block")

\* Mutant: the registration is taken for the activity.
Mut_NoActivity(e) ==
  /\ eval[e].pc = "active"
  /\ GateGoesTo(e, eval[e].from)

GateIsActive(e) ==
  /\ eval[e].pc = "active"
  /\ GateGoesTo(e, IF policies[eval[e].agent] # None /\ policies[eval[e].agent].active
                   THEN eval[e].from ELSE "block")

\* Mutant: what the row denies is not looked at.
Mut_NoDenials(e) ==
  /\ eval[e].pc = "kv"
  /\ LET w == kv[eval[e].agent] IN
     IF w = None THEN GateGoesTo(e, "chain")
     ELSE /\ eval' = [eval EXCEPT ![e].row = w, ![e].pc = "llm"]
          /\ UNCHANGED <<regVars, kv, stream, sync, past, owed, fresh>>

\* A row that is missing or cannot be read sends the gate to the chain. Whether
\* the row says active is not asked.
GateReadsKv(e) ==
  /\ eval[e].pc = "kv"
  /\ \/ GateGoesTo(e, "chain")
     \/ kv[eval[e].agent] # None /\ Judge(e, kv[eval[e].agent])

GateReadsChain(e) ==
  /\ eval[e].pc = "chain"
  /\ Registered(eval[e].agent)
  /\ Judge(e, Record(policies[eval[e].agent]))

\* isRegistered, isActive or getPolicy fails: fail closed.
GateFails(e) == eval[e].pc \in GateStage \ {"kv"} /\ GateGoesTo(e, "block")

\* The model's answer; an error or an unreadable answer is a BLOCK.
Infer(e) ==
  /\ eval[e].pc = "llm"
  /\ \E verdict \in {"approve", "block"} : GateGoesTo(e, verdict)

EvalStep(e) == GateIsRegistered(e) \/ GateIsActive(e) \/ GateReadsKv(e)
                 \/ GateReadsChain(e) \/ GateFails(e) \/ Infer(e)

MirrorNext ==
  \/ ChainStep
  \/ \E s \in Sync : SyncStep(s) \/ \E a \in Agent : SyncBegin(s, a)
  \/ \E a \in Agent, w \in Posts : PostPolicy(a, w)
  \/ Replay
  \/ \E e \in Eval : EvalStep(e)
       \/ \E a \in Agent, i \in Intent, from \in Source : EvalBegin(e, a, i, from)

MirrorSpec == MirrorInit /\ [][MirrorNext]_chainVars

(***************************************************************************)
(* Properties                                                              *)
(***************************************************************************)

\* An approval means that the agent was active at some moment since the guardian
\* began to evaluate: owners may deactivate between any two reads of the gate,
\* but an agent that was inactive all along is not approved, whatever the
\* mirror's row says (it may be older than the deactivation).
ApprovedWhileActive ==
  \A e \in Eval : eval[e].pc = "approve" =>
    \E p \in eval[e].seen : p # None /\ p.active

\* An approval rests on a policy of that agent which permits the intent: one it
\* had since the evaluation began when the guardian reads the chain, one it had
\* at some time when it reads the mirror, unless an operator wrote the row.
ApprovalRestsOnPolicy ==
  \A e \in Eval : eval[e].pc = "approve" =>
    /\ Permits(eval[e].row, eval[e].intent)
    /\ \/ eval[e].row \in {Record(p) : p \in eval[e].seen \ {None}}
       \/ /\ eval[e].from = "kv"
          /\ eval[e].row.source = "chain-sync"
               => eval[e].row \in {Record(p) : p \in past[eval[e].agent]}

\* An approval by policy needs both: an agent that was active, and a policy it had.
ApprovalsHold == ApprovedWhileActive /\ ApprovalRestsOnPolicy

Mirrored(a) == kv[a] = Record(policies[a])

\* The mirror catches up with the registry when the last row committed is that of
\* a sync during which, and since when, the policy did not change, whatever other
\* syncs, failed ones and operators wrote before; it reads policies while they
\* change and replays rows long after.
MirrorFollows ==
  \A a \in Agent :
    fresh[a] /\ (\A k \in DOMAIN stream : stream[k][1] # a) => Mirrored(a)

\* "Use after every successful on-chain policy change so guardians (KV-only mode)
\* never drift from chain": once the last change of a policy was followed by a
\* kv-sync that answered ok, and nothing is on its way, the mirror has it.
MirrorNeverDrifts ==
  \A a \in Agent :
    /\ Registered(a)
    /\ ~owed[a]
    /\ stream = <<>>
    /\ \A s \in Sync : sync[s].pc \notin SyncStage
    => Mirrored(a)
=============================================================================
