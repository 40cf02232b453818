--------------------------- MODULE PolicyEditor ---------------------------
(***************************************************************************)
(* The policy page of the dashboard, Web/app/home/policies/page.tsx, with  *)
(* its wallet and transaction hooks, over the registry and the mirror. A   *)
(* click starts a handler; its buttons are disabled while a transaction is *)
(* out, not while it reloads or syncs, so handlers overlap. Request h of   *)
(* kv-sync is the one handler h waits for.                                 *)
(***************************************************************************)
EXTENDS PolicyMirror, RegistryENS

CONSTANTS
  NameOf(_),  \* the agent's .eth name, EmptyName when its identifier is none
  MaxClicks   \* bound on handlers started and changes from elsewhere

ASSUME EditorAssumption ==
  /\ \A a \in Agent : NameOf(a) \in AnyName
  /\ MaxClicks \in Nat

VARIABLES
  address,  \* account of the wallet, None when disconnected
  shown,    \* myPolicies, by agent
  op,       \* the handlers
  busy,     \* registryTxBusy
  pool,     \* transactions sent and not mined, one per handler at most
  clicks

pageVars   == <<address, shown, op, busy, pool, clicks>>
editorVars == <<chainVars, ensVars, pageVars>>

Handler == Sync
Kind  == {"register", "save", "deactivate", "reactivate", "connect"}
Stage == {"sign", "wait", "ids", "policies", "sync", "ens", "link", "linking"}

Nothing == [a \in Agent |-> None]
NoOp    == [pc |-> "idle", kind |-> "connect", agent |-> None, rules |-> None,
            from |-> None, left |-> <<>>, got |-> Nothing]
NoTx    == [state |-> "none", kind |-> "connect", from |-> None, agent |-> None,
            rules |-> None]

EditorTypeOK ==
  /\ address \in Sender \cup {None}
  /\ shown \in [Agent -> Policy \cup {None}]
  /\ op \in [Handler -> [pc : Stage \cup {"idle"}, kind : Kind,
                         agent : Agent \cup {None}, rules : Rules \cup {None},
                         from : Sender \cup {None}, left : Seq(Agent),
                         got : [Agent -> Policy \cup {None}]]]
  /\ busy \in BOOLEAN
  /\ pool \in [Handler -> [state : {"none", "sent", "mined", "reverted"},
                           kind : Kind \cup {"link"}, from : Sender \cup {None},
                           agent : Agent \cup {None}, rules : Rules \cup {None}]]
  /\ clicks \in 0 .. MaxClicks

EditorInit ==
  /\ MirrorInit /\ Init
  /\ address = None
  /\ shown = Nothing
  /\ op = [h \in Handler |-> NoOp]
  /\ busy = FALSE
  /\ pool = [h \in Handler |-> NoTx]
  /\ clicks = 0

-----------------------------------------------------------------------------
Offline == UNCHANGED <<chainVars, ensVars>>
GoesTo(h, pc) == op' = [op EXCEPT ![h].pc = pc]

\* A transaction is the wallet's business also when its handler has given up,
\* so a handler is not used again before that.
Free(h) == op[h].pc = "idle" /\ pool[h].state # "sent" /\ clicks < MaxClicks

Start(h, new) ==
  /\ Free(h)
  /\ op' = [op EXCEPT ![h] = new]
  /\ pool' = [pool EXCEPT ![h] = NoTx]
  /\ clicks' = clicks + 1

\* accountsChanged, connect and disconnect, and the effect that loads the agents
\* of the new address.
AccountChanges(w) ==
  /\ w # address
  /\ address' = w
  /\ UNCHANGED busy /\ Offline
  /\ IF w = None
     THEN shown' = Nothing /\ UNCHANGED <<op, pool, clicks>>
     ELSE /\ \E h \in Handler : Start(h, [NoOp EXCEPT !.pc = "ids", !.from = w])
          /\ UNCHANGED shown

\* onRegister, onSavePolicy, onDeactivate, onReactivate up to the wallet; the
\* form may hold any rules.
Click(h, kind, a, rules) ==
  /\ address # None /\ ~busy
  /\ \/ kind = "register"
     \/ kind = "save" /\ shown[a] # None
     \/ kind = "deactivate" /\ shown[a] # None /\ shown[a].active
     \/ kind = "reactivate" /\ shown[a] # None /\ ~shown[a].active
  /\ Start(h, [NoOp EXCEPT !.pc = "sign", !.kind = kind, !.agent = a,
                           !.rules = rules, !.from = address])
  /\ busy' = TRUE
  /\ UNCHANGED <<address, shown>> /\ Offline

-----------------------------------------------------------------------------
(* runRegistryTx                                                           *)

\* The wallet signs with the account it has now.
Sign(h) ==
  /\ op[h].pc \in {"sign", "link"}
  /\ address # None
  /\ op' = [op EXCEPT ![h].pc = IF @ = "sign" THEN "wait" ELSE "linking"]
  /\ pool' = [pool EXCEPT ![h] =
       [state |-> "sent", kind |-> IF op[h].pc = "sign" THEN op[h].kind ELSE "link",
        from |-> address, agent |-> op[h].agent, rules |-> op[h].rules]]
  /\ UNCHANGED <<address, shown, busy, clicks>> /\ Offline

\* Mutant: the buttons are not released when the transaction fails.
Mut_NoFinally(h) ==
  /\ op[h].pc \in {"sign", "wait", "link", "linking"}
  /\ op' = [op EXCEPT ![h] = NoOp]
  /\ UNCHANGED <<address, shown, busy, pool, clicks>> /\ Offline

\* Rejected in the wallet, reverted, or no receipt within the time allowed; the
\* transaction may still be mined.
TxFails(h) ==
  /\ op[h].pc \in {"sign", "wait", "link", "linking"}
  /\ op' = [op EXCEPT ![h] = NoOp]
  /\ busy' = FALSE
  /\ UNCHANGED <<address, shown, pool, clicks>> /\ Offline

TxCall(tx) ==
  \/ /\ \/ tx.kind = "register"
           /\ \E sc \in RoleScope : RegisterAgent(tx.from, tx.agent, sc, tx.rules)
        \/ tx.kind = "save"
           /\ \E t \in Threshold : UpdatePolicy(tx.from, tx.agent, tx.rules, t)
        \/ tx.kind = "deactivate" /\ DeactivateAgent(tx.from, tx.agent)
        \/ tx.kind = "reactivate" /\ ReactivateAgent(tx.from, tx.agent)
     /\ UNCHANGED ensVars
  \/ tx.kind = "link" /\ AssignENSName(tx.from, tx.agent, NameOf(tx.agent))

\* A registered agent, or one of somebody else.
Reverts(tx) == IF tx.kind = "register" THEN Registered(tx.agent)
               ELSE ~OwnerOf(tx.from, tx.agent)

Mine(h) ==
  /\ pool[h].state = "sent"
  /\ \/ /\ TxCall(pool[h]) /\ Witnessed
        /\ pool' = [pool EXCEPT ![h].state = "mined"]
     \/ /\ Reverts(pool[h]) /\ Offline
        /\ pool' = [pool EXCEPT ![h].state = "reverted"]
  /\ UNCHANGED <<address, shown, op, busy, clicks>>

\* The sync of a registration comes first, that of a change after the reload.
Receipt(h) ==
  /\ op[h].pc \in {"wait", "linking"} /\ pool[h].state = "mined"
  /\ busy' = FALSE
  /\ IF op[h].pc = "wait" /\ op[h].kind = "register"
     THEN /\ GoesTo(h, "sync")
          /\ SyncBegin(h, op[h].agent)
     ELSE GoesTo(h, "ids") /\ UNCHANGED chainVars
  /\ UNCHANGED <<ensVars, address, shown, pool, clicks>>

-----------------------------------------------------------------------------
(* loadMine, for the address of the render the handler comes from          *)

\* What the handler does after its reload.
Reloaded(h) ==
  IF op[h].kind \in {"register", "connect"}
  THEN op' = [op EXCEPT ![h] = NoOp] /\ UNCHANGED chainVars
  ELSE /\ op' = [op EXCEPT ![h] = [NoOp EXCEPT !.pc = "sync", !.kind = op[h].kind,
                                               !.agent = op[h].agent]]
       /\ SyncBegin(h, op[h].agent)

LoadIds(h) ==
  /\ op[h].pc = "ids"
  /\ LET ids == ownerAgents[op[h].from] IN
     IF ids = <<>> THEN shown' = Nothing /\ Reloaded(h)
     ELSE /\ op' = [op EXCEPT ![h].pc = "policies", ![h].left = ids]
          /\ UNCHANGED <<shown, chainVars>>
  /\ UNCHANGED <<ensVars, address, busy, pool, clicks>>

\* A policy that cannot be read is skipped.
LoadPolicy(h) ==
  /\ op[h].pc = "policies"
  /\ LET a == Head(op[h].left) IN
     \E p \in {policies[a], None} :
       LET got == [op[h].got EXCEPT ![a] = IF p = None THEN @ ELSE p] IN
       IF Len(op[h].left) = 1 THEN shown' = got /\ Reloaded(h)
       ELSE /\ op' = [op EXCEPT ![h].left = Tail(@), ![h].got = got]
            /\ UNCHANGED <<shown, chainVars>>
  /\ UNCHANGED <<ensVars, address, busy, pool, clicks>>

LoadFails(h) ==
  /\ op[h].pc = "ids"
  /\ Reloaded(h)
  /\ UNCHANGED <<ensVars, address, shown, busy, pool, clicks>>

-----------------------------------------------------------------------------
(* After the sync; the ENS steps of a registration                         *)

Synced(h) ==
  /\ op[h].pc = "sync" /\ sync[h].pc \in {"ok", "failed"}
  /\ IF op[h].kind # "register" \/ sync[h].pc = "failed"
     THEN op' = [op EXCEPT ![h] = NoOp]
     ELSE GoesTo(h, IF NameOf(op[h].agent) = EmptyName THEN "ids" ELSE "ens")
  /\ UNCHANGED <<address, shown, busy, pool, clicks>> /\ Offline

\* POST ens-register answers; with success the page sends assignENSName.
EnsRegistered(h) ==
  /\ op[h].pc = "ens"
  /\ \/ GoesTo(h, "link") /\ busy' = TRUE
     \/ op' = [op EXCEPT ![h] = NoOp] /\ UNCHANGED busy
  /\ UNCHANGED <<address, shown, pool, clicks>> /\ Offline

HandlerStep(h) ==
  \/ Sign(h) \/ TxFails(h) \/ Receipt(h) \/ LoadIds(h) \/ LoadPolicy(h)
  \/ LoadFails(h) \/ Synced(h) \/ EnsRegistered(h)

Server(h) == SyncStep(h) /\ UNCHANGED <<ensVars, pageVars>>

\* The KV node; transactions of other tools, and operators. Guardians judge in
\* MirrorNext: the page and kv-sync read nothing of what they do.
Elsewhere ==
  \/ Replay /\ UNCHANGED clicks
  \/ /\ clicks < MaxClicks /\ clicks' = clicks + 1
     /\ \/ RegNext /\ Witnessed
        \/ \E a \in Agent, w \in Posts : PostPolicy(a, w)

EditorNext ==
  \/ \E w \in Sender \cup {None} : AccountChanges(w)
  \/ \E h \in Handler :
       \/ \E kind \in Kind \ {"connect"}, a \in Agent, rules \in Rules :
            Click(h, kind, a, rules)
       \/ HandlerStep(h) \/ Mine(h) \/ Server(h)
  \/ Elsewhere /\ UNCHANGED <<ensVars, address, shown, op, busy, pool>>

EditorFairness ==
  \A h \in Handler : WF_editorVars(HandlerStep(h)) /\ WF_editorVars(Server(h))

EditorSpec == EditorInit /\ [][EditorNext]_editorVars /\ EditorFairness

(***************************************************************************)
(* Properties                                                              *)
(***************************************************************************)

\* The buttons come back: registryTxBusy, which every handler sets and clears
\* for itself, is not left set by handlers that overlap, fail or time out.
ButtonsComeBack == busy ~> ~busy
=============================================================================
