----------------------------- MODULE PolicyForm -----------------------------
(***************************************************************************)
(* The rest of the policy page, Web/app/home/policies/page.tsx: which      *)
(* agent is selected, the dialog with its form, and the history of its     *)
(* transactions, over the handlers of PolicyEditor. React runs the effects *)
(* of a render before the next event, so what they set follows at once;    *)
(* the four queries of a history answer one by one while the chain goes    *)
(* on. The KV node, operators and guardians, of which the form knows       *)
(* nothing, take no steps here; messages are left out.                     *)
(***************************************************************************)
EXTENDS PolicyEditor

CONSTANTS
  Parts(_),  \* the actions the text of an action is read back as, split at commas
  Load       \* loads of a history that may be in flight

\* The fields of the form are texts: a list is joined with commas when it is
\* shown (splitAllowedActions, deniedActions.join) and split again when it is
\* submitted (mergeAllowedActions, parseCommaList).
AsTyped(rules) == [allowed |-> UNION {Parts(x) : x \in rules.allowed},
                   denied  |-> UNION {Parts(x) : x \in rules.denied}]

ASSUME FormAssumption ==
  /\ \A r \in Rules : AsTyped(r) \in Rules
  /\ \A r \in Rules : AsTyped(AsTyped(r)) = AsTyped(r)

VARIABLES
  chosen,  \* selectedId
  dialog,  \* policyDialogOpen
  form,    \* the edit fields: whose policy they were filled with, the rules they
           \* stand for, and whether somebody typed since
  log,     \* the contract's events, oldest first
  reads,   \* loadAgentTxHistory: the agent asked for, the queries left, the events
           \* answered, and (history) the number of events when it began
  history  \* agentTxRows, which the page sorts: positions in log

formVars  == <<chosen, dialog, form, reads, history>>
policyVars == <<editorVars, formVars, log>>

Change == Kind \ {"connect"}
Event  == [kind : Change, agent : Agent]

\* What the four queries are about.
EventsOf(a, n) == {i \in 1 .. n : log[i].agent = a}

NoRead    == [agent |-> None, left |-> {}, got |-> {}, from |-> 0]
NoHistory == [agent |-> None, events |-> {}, from |-> 0]

FormInit ==
  /\ EditorInit
  /\ chosen = None /\ dialog = FALSE
  /\ form = [agent |-> None, rules |-> None, typed |-> FALSE]
  /\ log = <<>>
  /\ reads = [r \in Load |-> NoRead]
  /\ history = NoHistory

FormTypeOK ==
  /\ chosen \in Agent \cup {None} /\ dialog \in BOOLEAN
  /\ form \in [agent : Agent \cup {None}, rules : Rules \cup {None}, typed : BOOLEAN]
  /\ log \in Seq(Event)
  /\ reads \in [Load -> [agent : Agent \cup {None}, left : SUBSET Change,
                         got : SUBSET Nat, from : Nat]]
  /\ history \in [agent : Agent \cup {None}, events : SUBSET Nat, from : Nat]

-----------------------------------------------------------------------------
\* myPolicies.find
Found(a, policiesShown) == IF a \in Agent /\ policiesShown[a] # None THEN a ELSE None
Selected == Found(chosen, shown)

\* Mutant: the registration is not asked for.
Mut_Ask(a) ==
  \E r \in Load :
    /\ reads[r].agent = None
    /\ reads' = [reads EXCEPT ![r] =
         [agent |-> a, left |-> Change \ {"register"}, got |-> {}, from |-> Len(log)]]

\* The effect that asks for the history: not while a load takes every slot.
Ask(a) ==
  \E r \in Load :
    /\ reads[r].agent = None
    /\ reads' = [reads EXCEPT ![r] =
         [agent |-> a, left |-> Change, got |-> {}, from |-> Len(log)]]

\* Mutant: the form is filled again for another agent only.
Mut_Rendered(anew, opened) ==
  LET now == Found(chosen', shown') IN
  /\ form' = IF now # None /\ now # Selected
             THEN [agent |-> now, rules |-> AsTyped(shown'[now].rules), typed |-> FALSE]
             ELSE form
  /\ dialog' = (opened /\ now # None)
  /\ IF dialog' /\ (now # Selected \/ ~dialog) THEN Ask(now) ELSE UNCHANGED reads
  /\ UNCHANGED history

\* The effects after a render: the form follows the selected policy, which a
\* reload replaces by a new object (anew) also when nothing changed; the dialog
\* closes when there is none; the history follows the agent the dialog shows.
Rendered(anew, opened) ==
  LET now == Found(chosen', shown') IN
  /\ form' = IF now # None /\ (anew \/ now # Selected)
             THEN [agent |-> now, rules |-> AsTyped(shown'[now].rules), typed |-> FALSE]
             ELSE form
  /\ dialog' = (opened /\ now # None)
  /\ IF dialog' /\ (now # Selected \/ ~dialog) THEN Ask(now) ELSE UNCHANGED reads
  /\ UNCHANGED history

\* A click on an agent of the grid.
OpenDialog(a) ==
  /\ shown[a] # None /\ ~dialog
  /\ UNCHANGED <<editorVars, log>>
  /\ chosen' = a /\ Rendered(FALSE, TRUE)

CloseDialog ==
  /\ dialog /\ dialog' = FALSE
  /\ UNCHANGED <<editorVars, chosen, form, log, reads, history>>

TypeIn(rules) ==
  /\ dialog
  /\ form' = [form EXCEPT !.rules = AsTyped(rules), !.typed = TRUE]
  /\ UNCHANGED <<editorVars, chosen, dialog, log, reads, history>>

\* The form of a new agent, which holds anything.
SubmitNew(h) ==
  /\ \E a \in Agent, rules \in Rules : Click(h, "register", a, AsTyped(rules))
  /\ UNCHANGED <<formVars, log>>

\* The buttons of the dialog are about the agent it shows, and updatePolicy
\* submits what its form stands for.
Submit(h) ==
  /\ dialog
  /\ \E kind \in {"save", "deactivate", "reactivate"} : Click(h, kind, Selected, form.rules)
  /\ UNCHANGED <<formVars, log>>

-----------------------------------------------------------------------------
(* The handlers                                                            *)

\* setSelectedId of a reload: the first of the agents found, any here, when none
\* was selected, and none when there are none; after a registration its agent.
Chosen(h) ==
  IF op[h].kind = "register" THEN {op[h].agent}
  ELSE LET found == {a \in Agent : shown'[a] # None} IN
       IF found = {} THEN {None}
       ELSE IF chosen = None THEN found ELSE {chosen}

\* The read of the last policy, or none to read.
Landing(h) ==
  \/ op[h].pc = "ids" /\ ownerAgents[op[h].from] = <<>>
  \/ op[h].pc = "policies" /\ Len(op[h].left) = 1

Reload(h) ==
  /\ LoadIds(h) \/ LoadPolicy(h)
  /\ IF Landing(h) THEN chosen' \in Chosen(h) /\ Rendered(TRUE, dialog)
     ELSE UNCHANGED formVars
  /\ UNCHANGED log

ReloadFails(h) ==
  /\ LoadFails(h)
  /\ chosen' = IF op[h].kind = "register" THEN op[h].agent ELSE chosen
  /\ Rendered(FALSE, dialog)
  /\ UNCHANGED log

\* Disconnecting empties the list and leaves the selection.
AccountEffect(w) ==
  /\ AccountChanges(w)
  /\ UNCHANGED chosen
  /\ Rendered(FALSE, dialog)
  /\ UNCHANGED log

Emits(kind, a) == log' = Append(log, [kind |-> kind, agent |-> a])

MineOne(h) ==
  /\ Mine(h)
  /\ IF pool[h].kind = "link" \/ Reverts(pool[h]) THEN UNCHANGED log
     ELSE Emits(pool[h].kind, pool[h].agent)
  /\ UNCHANGED formVars

\* A transaction of another tool. Every change of a policy but the activity emits
\* PolicyUpdated.
OtherTx(s, a) ==
  /\ clicks < MaxClicks /\ clicks' = clicks + 1
  /\ \/ /\ \E sc \in RoleScope, r \in Rules : RegisterAgent(s, a, sc, r)
        /\ Emits("register", a)
     \/ /\ \/ \E r \in Rules, t \in Threshold : UpdatePolicy(s, a, r, t)
           \/ \E sc \in RoleScope : UpdateRoleScope(s, a, sc)
           \/ \E o \in Account : TransferAgentOwnership(s, a, o)
        /\ Emits("save", a)
     \/ DeactivateAgent(s, a) /\ Emits("deactivate", a)
     \/ ReactivateAgent(s, a) /\ Emits("reactivate", a)
  /\ Witnessed
  /\ UNCHANGED <<ensVars, address, shown, op, busy, pool, formVars>>

-----------------------------------------------------------------------------
(* loadAgentTxHistory                                                      *)

\* queryFilter for one kind of event, over all blocks; with the last of the four
\* the rows are shown, whatever the dialog shows by now.
Answer(r, kind) ==
  /\ kind \in reads[r].left
  /\ LET got  == reads[r].got \cup
                   {i \in EventsOf(reads[r].agent, Len(log)) : log[i].kind = kind}
         left == reads[r].left \ {kind}
     IN  IF left = {}
         THEN /\ history' = [agent  |-> reads[r].agent, events |-> got,
                             from   |-> reads[r].from]
              /\ reads' = [reads EXCEPT ![r] = NoRead]
         ELSE /\ reads' = [reads EXCEPT ![r].left = left, ![r].got = got]
              /\ UNCHANGED history
  /\ UNCHANGED <<editorVars, chosen, dialog, form, log>>

\* One of the four fails: the rows of before stay.
AskFails(r) ==
  /\ reads[r].agent # None
  /\ reads' = [reads EXCEPT ![r] = NoRead]
  /\ UNCHANGED <<editorVars, chosen, dialog, form, log, history>>

HandlerOn(h) ==
  \/ SubmitNew(h) \/ Submit(h) \/ Reload(h) \/ ReloadFails(h) \/ MineOne(h)
  \/ /\ Sign(h) \/ TxFails(h) \/ Receipt(h) \/ Synced(h) \/ EnsRegistered(h) \/ Server(h)
     /\ UNCHANGED <<formVars, log>>

FormNext ==
  \/ \E w \in Sender \cup {None} : AccountEffect(w)
  \/ \E h \in Handler : HandlerOn(h)
  \/ \E a \in Agent : OpenDialog(a) \/ \E s \in Sender : OtherTx(s, a)
  \/ CloseDialog
  \/ \E rules \in Rules : TypeIn(rules)
  \/ \E r \in Load : AskFails(r) \/ \E kind \in Change : Answer(r, kind)

FormSpec == FormInit /\ [][FormNext]_policyVars

(***************************************************************************)
(* Properties                                                              *)
(***************************************************************************)

\* The form is of the agent the dialog names, and holds what the list says of it
\* unless somebody typed: reloads of overlapping handlers, a registration that
\* ends under an open dialog and disconnecting all move the selection or the list
\* under the user's hands.
FormIsOfSelected ==
  /\ dialog => Selected # None
  /\ Selected # None =>
       /\ form.agent = Selected
       /\ form.typed \/ form.rules = AsTyped(shown[Selected].rules)

\* The rows shown are one agent's, and among them is every transaction mined
\* before they were asked for, though the four answers come from four states.
HistoryIsWhole ==
  /\ history.events \subseteq EventsOf(history.agent, Len(log))
  /\ EventsOf(history.agent, history.from) \subseteq history.events

\* The dialog tells one agent's policy and all that happened to it before it asked.
DialogIsOfAgent == FormIsOfSelected /\ HistoryIsWhole
=============================================================================
