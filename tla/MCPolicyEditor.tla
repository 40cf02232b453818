--------------------------- MODULE MCPolicyEditor ---------------------------
(* One wallet, in three scenes. With one agent whose identifier is an .eth   *)
(* name: two handlers of the page that may overlap, with the sync each waits *)
(* for; and a guardian that judges an intent by the mirror or by the chain,  *)
(* while a wallet changes the policy, one sync is under way and an operator  *)
(* posts. With two agents: the page connected, each agent registered, one    *)
(* handler, its dialog and form, and two loads of a history.                 *)
EXTENDS PolicyForm
CONSTANTS w1, c, a1, a2, s1, s2, n1, e1, act, act2, both, scope, l1,
          Scenes   \* those of the run

VARIABLE scene

Permit == [allowed |-> {act}, denied |-> {}]
Revoke == [allowed |-> {act}, denied |-> {act}]
TriedRules == {Permit, Revoke}
TriedIntents == {[action |-> act, roleScope |-> scope]}
MCNameOf(a) == n1
OnePost == {[roleScope |-> NoRole, rules |-> Permit, threshold |-> 2, active |-> TRUE,
              source |-> "web-api"]}

\* A list with an action that reads "act, act2", and what becomes of it.
Joined == [allowed |-> {both}, denied |-> {}]
Split  == [allowed |-> {act, act2}, denied |-> {}]
FormRules == TriedRules \cup {Joined, Split}
MCParts(x) == IF x = both THEN {act, act2} ELSE {x}

Held(rules) == [owner |-> w1, roleScope |-> scope, rules |-> rules,
                threshold |-> 2, active |-> TRUE]

\* The third scene starts with an agent another tool registered, shown, and with
\* nothing under way or the other agent registered and about to be loaded.
Registering == [NoOp EXCEPT !.pc = "ids", !.kind = "register", !.agent = a2,
                            !.rules = Split, !.from = w1]

Loaded(rules, later) ==
  LET ids == IF later = NoOp THEN <<a1>> ELSE <<a1, a2>> IN
  /\ policies = [a \in Agent |-> IF a = a1 THEN Held(rules)
                                 ELSE IF later = NoOp THEN None ELSE Held(Split)]
  /\ shown = [policies EXCEPT ![a2] = None]
  /\ ownerAgents = [o \in Account |-> IF o = w1 THEN ids ELSE <<>>]
  /\ allAgentKeys = ids
  /\ ensName = [a \in Agent |-> EmptyName]
  /\ ensNodeToAgent = [n \in AnyName |-> None] /\ ensAgentKeys = <<>>
  /\ kv = [a \in Agent |-> None] /\ stream = <<>>
  /\ sync = [s \in Sync |-> NoSync] /\ eval = [e \in Eval |-> NoEval]
  /\ past = [a \in Agent |-> {policies[a]} \ {None}]
  /\ owed = [a \in Agent |-> Registered(a)] /\ fresh = [a \in Agent |-> FALSE]
  /\ address = w1 /\ busy = FALSE /\ clicks = 0
  /\ op = [h \in Handler |-> IF h = s1 THEN later ELSE NoOp]
  /\ pool = [h \in Handler |-> NoTx]
  /\ chosen = a1 /\ dialog = FALSE
  /\ form = [agent |-> a1, rules |-> AsTyped(rules), typed |-> FALSE]
  /\ log = [k \in 1 .. Len(ids) |-> [kind |-> "register", agent |-> ids[k]]]
  /\ reads = [r \in Load |-> NoRead]
  /\ history = NoHistory

SceneInit ==
  /\ scene \in Scenes
  /\ \/ scene # "form" /\ FormInit
     \/ scene = "form" /\ \E later \in {NoOp, Registering} : Loaded(Joined, later)

\* Bounds of the first two scenes: one agent, two rules, one agent in a list.
OneAgent ==
  /\ \A e \in Eval : eval'[e].agent # a2
  /\ policies'[a2] = None
  /\ policies'[a1] # None => policies'[a1].rules \in TriedRules
  /\ \A s \in Sync : sync'[s].agent # a2
  /\ \A o \in Account : Len(ownerAgents'[o]) <= 1
  /\ \A k \in DOMAIN stream' : stream'[k][1] = a1
OneAgentClicked ==
  \A h \in Handler : op'[h].agent # a2 /\ op'[h].rules \in TriedRules \cup {None}

\* Bounds of the second scene: one sync, and no agent given to the contract.
OneSync == sync'[s2] = sync[s2] /\ ownerAgents'[c] = <<>>

\* Bounds of the third: one click or change from elsewhere, besides what is under
\* way, the second handler only loading or saving, syncs that fail at once, fewer rules,
\* the queries of a history answered in one order.
InOrder == <<"register", "save", "deactivate", "reactivate">>
OneClick ==
  /\ clicks' <= 1
  /\ \A h \in Handler :
       /\ sync'[h].pc \in {"idle", "registered", "failed"}
       /\ op'[h].rules \in {None, Permit, Split}
       /\ h = s2 => op'[h].kind \in {"connect", "save"}
  /\ form'.rules = IF form'.typed THEN Permit ELSE Split
  /\ \A k \in 1 .. 3 :
       InOrder[k] \in reads'[l1].left => InOrder[k + 1] \in reads'[l1].left
  /\ \A a \in Agent : policies'[a] # None => policies'[a].rules # Revoke

SceneNext ==
  /\ \/ /\ scene = "page"
        /\ EditorNext /\ OneAgentClicked /\ OneAgent /\ UNCHANGED <<formVars, log>>
     \/ /\ scene = "gate"
        /\ MirrorNext /\ OneAgent /\ OneSync
        /\ UNCHANGED <<ensVars, pageVars, formVars, log>>
     \/ scene = "form" /\ FormNext /\ OneClick
  /\ UNCHANGED scene

\* Of the page; in the second scene, where it does nothing, time plays no part.
PageFairness ==
  \A h \in Handler :
    /\ WF_editorVars(scene # "gate" /\ HandlerStep(h))
    /\ WF_editorVars(scene # "gate" /\ Server(h))

SceneSpec == SceneInit /\ [][SceneNext]_<<policyVars, scene>> /\ PageFairness
=============================================================================
