------------------------- MODULE AgentTools_proofs -------------------------
(***************************************************************************)
(* Proofs about AgentTools: every step of the whole is a step or a stutter *)
(* of the page and one of the plugin, so that the invariants of the two    *)
(* are shown apart and put together at the end.                            *)
(***************************************************************************)
EXTENDS AgentTools, TLAPS

-----------------------------------------------------------------------------
(* The channel guard                                                       *)

\* A missing configuration admits nobody.
LEMMA NothingConfigured ==
  ASSUME NEW m
  PROVE  ~Guard(Coerce(None), m)
  BY DEF Guard, Coerce, DefaultPolicy, GroupOk, DirectOk, Listed

\* The guard lets a message through only under what the configuration itself
\* says, whatever is missing from it or of the wrong type.
LEMMA GuardAdmits ==
  ASSUME NEW raw, NEW m, Guard(Coerce(raw), m)
  PROVE  Admits(raw, m)
<1>1. raw # None
  BY NothingConfigured
<1> DEFINE p == Coerce(raw)
<1>2. /\ p.enabled = (raw.enabled # FALSE)
      /\ p.dmEnabled = (raw.dmEnabled # FALSE /\ raw.dm # FALSE)
      /\ p.dmPolicy = IF raw.dmPolicy \in {"allowlist", "open", "disabled"} THEN raw.dmPolicy
                      ELSE IF raw.nested \in {"allowlist", "open", "disabled"}
                           THEN raw.nested ELSE "pairing"
      /\ p.groupPolicy = IF raw.groupPolicy \in {"open", "disabled"} THEN raw.groupPolicy
                         ELSE "allowlist"
      /\ p.requireMention = (raw.requireMention # FALSE)
      /\ p.allowFrom = raw.allowFrom /\ p.groupAllowFrom = raw.groupAllowFrom
      /\ p.allowedUsers = raw.allowedUsers /\ p.allowedGroups = raw.allowedGroups
  BY <1>1 DEF Coerce
<1>3. p.enabled /\ IF m.group # None THEN GroupOk(p, m) ELSE DirectOk(p, m)
  BY DEF Guard
<1> HIDE DEF p
<1>4. CASE m.group # None
  BY <1>1, <1>2, <1>3, <1>4 DEF GroupOk, Admits, Listed
<1>5. CASE m.group = None
  BY <1>1, <1>2, <1>3, <1>5 DEF DirectOk, Admits, Listed
<1>6. QED
  BY <1>4, <1>5

-----------------------------------------------------------------------------
(* The plugin and the script                                               *)

\* An approval in the map of sessions is one the mesh gave since the last stop,
\* and a call the script has not sent has not been seen by the hook.
PluginInv ==
  /\ PluginTypeOK
  /\ \A k \in Key : approvedAt[k] # 0 =>
       \E g \in granted : g.key = k /\ g.at = approvedAt[k] /\ g.stop = stops
  /\ \A g \in granted : g.at <= now
  /\ \A c \in Call : call[c].pc # "idle" => call[c].key \in Key
  /\ \A s \in Script :
       /\ script[s].pc # "idle" => script[s].key \in Key
       /\ script[s].pc \in {"idle", "intent"} => ~script[s].sent
       /\ script[s].pc \in {"idle", "intent"} => call[s].pc = "idle"
  /\ PassRestsOnApproval
  /\ ExitCodesTell

LEMMA PluginInitInv == PluginInit => PluginInv
  BY PluginAssumption
  DEF PluginInit, PluginInv, PluginTypeOK, NoCall, NoScript, Decided,
      PassRestsOnApproval, ExitCodesTell

\* A later tick leaves all of it true.
LEMMA TickKeepsPlugin == PluginInv /\ Tick => PluginInv'
  BY PluginAssumption
  DEF PluginInv, Tick, PluginTypeOK, gatewayVars, PassRestsOnApproval, ExitCodesTell

\* The hook on a call of session k, with what it needs to know of the caller.
LEMMA BeforeToolCallKeepsPlugin ==
  ASSUME PluginInv, NEW c \in Call, NEW k \in Key, BeforeToolCall(c, k),
         UNCHANGED <<now, script>>,
         c \in Script => script[c].sent
  PROVE  PluginInv'
<1> USE PluginAssumption
<1>1. PluginTypeOK'
  BY DEF PluginInv, PluginTypeOK, BeforeToolCall, Decided
<1>2. /\ call[c].pc = "idle" /\ UNCHANGED <<approvedAt, stops, granted>>
      /\ call' = [call EXCEPT ![c] =
           [pc |-> IF Fresh(k) THEN "passed" ELSE IF Configured THEN "asking" ELSE "ask",
            key |-> k, at |-> now, stop |-> stops]]
  BY DEF BeforeToolCall
<1>3. PassRestsOnApproval'
  <2>1. SUFFICES ASSUME NEW d \in Call, call'[d].pc = "passed"
                 PROVE  \E g \in granted : /\ g.key = call'[d].key /\ g.stop = call'[d].stop
                                           /\ g.at <= call'[d].at /\ call'[d].at - g.at < TTL
    BY <1>2 DEF PassRestsOnApproval
  <2>2. CASE d # c
    BY <1>2, <2>1, <2>2 DEF PluginInv, PluginTypeOK, PassRestsOnApproval
  <2>3. CASE d = c
    <3>1. /\ call'[d].key = k /\ call'[d].at = now /\ call'[d].stop = stops
          /\ Fresh(k)
      BY <1>2, <2>1, <2>3 DEF PluginInv, PluginTypeOK
    <3>2. PICK g \in granted : g.key = k /\ g.at = approvedAt[k] /\ g.stop = stops
      BY <3>1 DEF Fresh, PluginInv
    <3>3. QED
      BY <3>1, <3>2 DEF Fresh, PluginInv, PluginTypeOK
  <2>4. QED
    BY <2>2, <2>3
<1>4. ExitCodesTell'
  BY <1>2 DEF PluginInv, PluginTypeOK, ExitCodesTell
<1>5. QED
  BY <1>1, <1>2, <1>3, <1>4 DEF PluginInv, PluginTypeOK

\* The record of a call that is decided, whatever its fields range over.
LEMMA DecidedCall ==
  ASSUME NEW PC, NEW K, NEW T, NEW r \in [pc : PC, key : K, at : T, stop : T],
         NEW pc \in PC, NEW at \in T, NEW stop \in T
  PROVE  [r EXCEPT !.pc = pc, !.at = at, !.stop = stop] \in [pc : PC, key : K, at : T, stop : T]
  OBVIOUS

\* An answer of the mesh, in time or late.
LEMMA HearsKeepsPlugin ==
  ASSUME PluginInv, NEW c \in Call, NEW ans \in Answer, Hears(c, ans),
         UNCHANGED <<now, script>>
  PROVE  PluginInv'
<1> USE PluginAssumption
<1> DEFINE k == call[c].key
           g0 == [key |-> k, at |-> now, stop |-> stops]
<1>1. PICK pc \in Decided :
        /\ call' = [call EXCEPT ![c].pc = pc, ![c].at = now, ![c].stop = stops]
        /\ pc = "passed" => Executes(ans)
  BY DEF Hears, Decide, Decided
<1>2. /\ UNCHANGED <<stops, up>> /\ call[c].pc \in {"asking", "late"}
      /\ \/ /\ Executes(ans) /\ granted' = granted \cup {g0}
            /\ approvedAt' = [approvedAt EXCEPT ![k] = now]
         \/ ~Executes(ans) /\ UNCHANGED <<approvedAt, granted>>
  BY DEF Hears
<1>3. k \in Key /\ now \in 1 .. MaxTime /\ stops \in 0 .. MaxTime /\ now \in Nat
  BY <1>2 DEF PluginInv, PluginTypeOK
<1> HIDE DEF k
<1>4. PluginTypeOK'
  <2>1. PluginTypeOK
    BY DEF PluginInv
  <2>2. call' \in [Call -> [pc : Decided \cup {"idle", "asking", "late"},
                           key : Key \cup {"none"}, at : 0 .. MaxTime, stop : 0 .. MaxTime]]
    <3>1. call[c] \in [pc : Decided \cup {"idle", "asking", "late"},
                       key : Key \cup {"none"}, at : 0 .. MaxTime, stop : 0 .. MaxTime]
      BY <2>1 DEF PluginTypeOK
    <3>2. call' = [call EXCEPT ![c] = [call[c] EXCEPT !.pc = pc, !.at = now, !.stop = stops]]
      BY <1>1, <2>1 DEF PluginTypeOK
    <3>3. [call[c] EXCEPT !.pc = pc, !.at = now, !.stop = stops]
            \in [pc : Decided \cup {"idle", "asking", "late"},
                 key : Key \cup {"none"}, at : 0 .. MaxTime, stop : 0 .. MaxTime]
      <4>1. /\ pc \in Decided \cup {"idle", "asking", "late"}
            /\ now \in 0 .. MaxTime /\ stops \in 0 .. MaxTime
        BY <1>3
      <4>2. QED
        BY <3>1, <4>1, DecidedCall
    <3>4. QED
      BY <2>1, <3>2, <3>3 DEF PluginTypeOK
  <2>3. approvedAt' \in [Key -> 0 .. MaxTime]
    BY <1>2, <1>3, <2>1 DEF PluginTypeOK
  <2>4. granted' \subseteq [key : Key, at : 1 .. MaxTime, stop : 0 .. MaxTime]
    BY <1>2, <1>3, <2>1 DEF PluginTypeOK
  <2>5. QED
    BY <1>2, <2>1, <2>2, <2>3, <2>4 DEF PluginTypeOK
<1>5. granted \subseteq granted' /\ \A g \in granted' : g.at <= now'
  BY <1>2, <1>3 DEF PluginInv
<1>6. \A j \in Key : approvedAt'[j] # 0 =>
        \E g \in granted' : g.key = j /\ g.at = approvedAt'[j] /\ g.stop = stops'
  <2>1. CASE UNCHANGED <<approvedAt, granted>>
    BY <1>2, <2>1 DEF PluginInv
  <2>2. CASE granted' = granted \cup {g0} /\ approvedAt' = [approvedAt EXCEPT ![k] = now]
    <3>1. g0 \in granted' /\ g0.key = k /\ g0.at = approvedAt'[k] /\ g0.stop = stops'
      BY <1>2, <1>3, <2>2 DEF PluginInv, PluginTypeOK
    <3>2. SUFFICES ASSUME NEW j \in Key, j # k, approvedAt'[j] # 0
                   PROVE  \E g \in granted' : /\ g.key = j /\ g.at = approvedAt'[j]
                                              /\ g.stop = stops'
      BY <3>1
    <3>3. approvedAt'[j] = approvedAt[j]
      BY <2>2, <3>2 DEF PluginInv, PluginTypeOK
    <3>4. QED
      BY <1>2, <1>5, <3>2, <3>3 DEF PluginInv
  <2>3. QED
    BY <1>2, <2>1, <2>2
<1>7. PassRestsOnApproval'
  <2>1. SUFFICES ASSUME NEW d \in Call, call'[d].pc = "passed"
                 PROVE  \E g \in granted' : /\ g.key = call'[d].key /\ g.stop = call'[d].stop
                                            /\ g.at <= call'[d].at /\ call'[d].at - g.at < TTL
    BY DEF PassRestsOnApproval
  <2>2. CASE d # c
    BY <1>1, <1>5, <2>1, <2>2 DEF PluginInv, PluginTypeOK, PassRestsOnApproval
  <2>3. CASE d = c
    <3>1. /\ call'[d].key = k /\ call'[d].at = now /\ call'[d].stop = stops /\ pc = "passed"
      BY <1>1, <2>1, <2>3 DEF PluginInv, PluginTypeOK, k
    <3>2. g0 \in granted'
      BY <1>1, <1>2, <3>1
    <3>3. QED
      BY <1>3, <3>1, <3>2
  <2>4. QED
    BY <2>2, <2>3
<1>8. ExitCodesTell'
  BY <1>1, <1>2 DEF PluginInv, PluginTypeOK, ExitCodesTell
<1>9. /\ \A d \in Call : call'[d].pc # "idle" => call'[d].key \in Key
      /\ \A s \in Script : script[s].pc \in {"idle", "intent"} => call'[s].pc = "idle"
  BY <1>1, <1>2 DEF PluginInv, PluginTypeOK
<1>10. QED
  BY <1>4, <1>5, <1>6, <1>7, <1>8, <1>9 DEF PluginInv

LEMMA HookTimesOutKeepsPlugin ==
  ASSUME PluginInv, NEW c \in Call, HookTimesOut(c), UNCHANGED <<now, script>>
  PROVE  PluginInv'
  BY DEF HookTimesOut, PluginInv, PluginTypeOK, Decided, PassRestsOnApproval, ExitCodesTell

LEMMA GatewayKeepsPlugin ==
  ASSUME PluginInv, GatewayStop \/ GatewayStart, UNCHANGED <<now, script>>
  PROVE  PluginInv'
<1>1. UNCHANGED <<call, granted>> /\ up' \in BOOLEAN
      /\ \/ approvedAt' = [k \in Key |-> 0] /\ stops < MaxTime /\ stops' = stops + 1
         \/ UNCHANGED <<approvedAt, stops>>
  BY DEF GatewayStop, GatewayStart
<1>2. PluginTypeOK'
  BY <1>1, PluginAssumption DEF PluginInv, PluginTypeOK
<1>3. \A k \in Key : approvedAt'[k] # 0 =>
        \E g \in granted : g.key = k /\ g.at = approvedAt'[k] /\ g.stop = stops'
  BY <1>1 DEF PluginInv
<1>4. PassRestsOnApproval' /\ ExitCodesTell'
  BY <1>1 DEF PluginInv, PassRestsOnApproval, ExitCodesTell
<1>5. QED
  BY <1>1, <1>2, <1>3, <1>4 DEF PluginInv

\* What a step of the script may make of its record.
ScriptRecord ==
  [pc : {"idle", "intent", "invoke", "exited"}, key : Key \cup {"none"},
   strict : BOOLEAN, token : BOOLEAN, sent : BOOLEAN, code : 0 .. 4]

\* The record of a script whose request the gateway refused.
LEMMA ChangedRun ==
  ASSUME NEW A, NEW B, NEW C, NEW D, NEW E, NEW F,
         NEW r \in [pc : A, key : B, strict : C, token : D, sent : E, code : F],
         NEW pc \in A, NEW sent \in E, NEW code \in F
  PROVE  LET q == [r EXCEPT !.pc = pc, !.code = code, !.sent = sent] IN
         /\ q \in [pc : A, key : B, strict : C, token : D, sent : E, code : F]
         /\ q.pc = pc /\ q.code = code /\ q.key = r.key
  OBVIOUS

LEMMA RefusedRun ==
  ASSUME NEW r \in ScriptRecord
  PROVE  LET q == [r EXCEPT !.pc = "exited", !.code = 3, !.sent = FALSE]
         IN  q \in ScriptRecord /\ q.pc = "exited" /\ q.code = 3 /\ q.key = r.key
<1>1. /\ "exited" \in {"idle", "intent", "invoke", "exited"}
      /\ FALSE \in BOOLEAN /\ 3 \in 0 .. 4
  OBVIOUS
<1>2. QED
  BY <1>1, ChangedRun DEF ScriptRecord

LEMMA ScriptRecordKeepsPlugin ==
  ASSUME PluginInv, NEW s \in Script, NEW r \in ScriptRecord,
         script' = [script EXCEPT ![s] = r], UNCHANGED <<now, gatewayVars>>,
         r.pc # "idle" => r.key \in Key,
         r.pc \in {"idle", "intent"} => ~r.sent /\ call[s].pc = "idle",
         r.pc = "exited" =>
           /\ r.code = 0 => call[s].pc = "passed"
           /\ r.code \in {2, 4} => ~r.sent /\ call[s].pc = "idle"
  PROVE  PluginInv'
<1>1. PluginTypeOK /\ s \in Call
  BY PluginAssumption DEF PluginInv
<1>2. script' \in [Script -> ScriptRecord] /\ script'[s] = r
      /\ \A q \in Script \ {s} : script'[q] = script[q]
  BY <1>1 DEF PluginTypeOK, ScriptRecord
<1>3. PluginTypeOK'
  BY <1>1, <1>2 DEF PluginTypeOK, ScriptRecord, gatewayVars
<1>4. ExitCodesTell'
  BY <1>2 DEF PluginInv, ExitCodesTell, gatewayVars
<1>5. PassRestsOnApproval'
  BY DEF PluginInv, PassRestsOnApproval, gatewayVars
<1>6. \A q \in Script :
       /\ script'[q].pc # "idle" => script'[q].key \in Key
       /\ script'[q].pc \in {"idle", "intent"} => ~script'[q].sent
       /\ script'[q].pc \in {"idle", "intent"} => call'[q].pc = "idle"
  BY <1>2 DEF PluginInv, gatewayVars
<1>7. QED
  BY <1>3, <1>4, <1>5, <1>6 DEF PluginInv, gatewayVars

LEMMA RunScriptKeepsPlugin ==
  ASSUME PluginInv, NEW s \in Script, NEW k \in Key, NEW strict \in BOOLEAN,
         NEW token \in BOOLEAN, RunScript(s, k, strict, token),
         UNCHANGED <<now, gatewayVars>>
  PROVE  PluginInv'
<1> DEFINE r == [pc |-> "intent", key |-> k, strict |-> strict, token |-> token,
                 sent |-> FALSE, code |-> 0]
<1>2. r \in ScriptRecord
  BY DEF ScriptRecord
<1>3. script' = [script EXCEPT ![s] = r] /\ script[s].pc = "idle"
  BY DEF RunScript
<1>4. call[s].pc = "idle"
  BY <1>3 DEF PluginInv
<1>5. r.pc = "intent" /\ r.key \in Key /\ ~r.sent
  OBVIOUS
<1> HIDE DEF r
<1>6. QED
  BY <1>2, <1>3, <1>4, <1>5, ScriptRecordKeepsPlugin

\* A step that ends the script with an exit code.
LEMMA ExitKeepsPlugin ==
  ASSUME PluginInv, NEW s \in Script, NEW code \in 0 .. 4, Exit(s, code),
         script[s].pc # "idle", UNCHANGED <<now, gatewayVars>>,
         code = 0 => call[s].pc = "passed",
         code \in {2, 4} => ~script[s].sent /\ call[s].pc = "idle"
  PROVE  PluginInv'
<1> DEFINE r == [script[s] EXCEPT !.pc = "exited", !.code = code]
<1>1. script[s] \in ScriptRecord /\ script \in [Script -> ScriptRecord]
  BY DEF PluginInv, PluginTypeOK, ScriptRecord
<1>2. r \in ScriptRecord /\ r.pc = "exited" /\ r.key = script[s].key
      /\ r.sent = script[s].sent /\ r.code = code
  BY <1>1 DEF ScriptRecord
<1>3. script' = [script EXCEPT ![s] = r]
  BY <1>1 DEF Exit
<1>4. script[s].key \in Key
  BY DEF PluginInv
<1> HIDE DEF r
<1>5. QED
  BY <1>2, <1>3, <1>4, ScriptRecordKeepsPlugin

LEMMA ScriptStepKeepsPlugin ==
  ASSUME PluginInv, NEW s \in Script, ScriptStep(s), UNCHANGED <<now, gatewayVars>>
  PROVE  PluginInv'
<1>1. script[s] \in ScriptRecord /\ script \in [Script -> ScriptRecord]
  BY DEF PluginInv, PluginTypeOK, ScriptRecord
<1>2. ASSUME NEW ans \in Answer, ScriptHears(s, ans) PROVE PluginInv'
  <2>1. script[s].pc = "intent" /\ ~script[s].sent /\ call[s].pc = "idle"
        /\ script[s].key \in Key
    BY <1>2 DEF ScriptHears, PluginInv
  <2>2. ASSUME NEW code \in {1, 2, 4}, Exit(s, code) PROVE PluginInv'
    BY <2>1, <2>2, ExitKeepsPlugin
  <2>3. CASE script' = [script EXCEPT ![s].pc = "invoke", ![s].sent = TRUE]
    <3> DEFINE r == [script[s] EXCEPT !.pc = "invoke", !.sent = TRUE]
    <3>1. r \in ScriptRecord /\ r.pc = "invoke" /\ r.key = script[s].key
      BY <1>1 DEF ScriptRecord
    <3>2. script' = [script EXCEPT ![s] = r]
      BY <1>1, <2>3
    <3> HIDE DEF r
    <3>3. QED
      BY <2>1, <3>1, <3>2, ScriptRecordKeepsPlugin
  <2>4. QED
    BY <1>2, <2>2, <2>3 DEF ScriptHears
<1>3. CASE InvokeAnswered(s)
  <2>1. script[s].pc = "invoke" /\ script[s].key \in Key
    BY <1>3 DEF InvokeAnswered, PluginInv
  <2>2. CASE call[s].pc = "passed" /\ Exit(s, 0)
    BY <2>1, <2>2, ExitKeepsPlugin
  <2>3. CASE Exit(s, 3)
    BY <2>1, <2>3, ExitKeepsPlugin
  <2>4. CASE script' = [script EXCEPT ![s].pc = "exited", ![s].code = 3, ![s].sent = FALSE]
    <3> DEFINE r == [script[s] EXCEPT !.pc = "exited", !.code = 3, !.sent = FALSE]
    <3>1. r \in ScriptRecord /\ r.pc = "exited" /\ r.code = 3 /\ r.key = script[s].key
      BY <1>1, RefusedRun
    <3>2. script' = [script EXCEPT ![s] = r]
      BY <1>1, <2>4
    <3> HIDE DEF r
    <3>3. r \in ScriptRecord /\ r.key \in Key /\ r.pc \notin {"idle", "intent"}
          /\ r.code # 0 /\ r.code \notin {2, 4}
      BY <2>1, <3>1
    <3>4. QED
      BY <3>2, <3>3, ScriptRecordKeepsPlugin
  <2>5. QED
    BY <1>3, <2>2, <2>3, <2>4 DEF InvokeAnswered
<1>4. CASE InvokeRejected(s)
  BY <1>4, ExitKeepsPlugin DEF InvokeRejected
<1>5. QED
  BY <1>2, <1>3, <1>4 DEF ScriptStep

LEMMA PluginStepKeepsPlugin ==
  ASSUME PluginInv, [PluginNext]_pluginVars
  PROVE  PluginInv'
<1>1. CASE UNCHANGED pluginVars
  BY <1>1 DEF pluginVars, gatewayVars, PluginInv, PluginTypeOK, PassRestsOnApproval,
     ExitCodesTell
<1>2. CASE Tick
  BY <1>2, TickKeepsPlugin
<1>3. CASE PluginAsked
  <2>1. ASSUME NEW c \in Call \ Script, NEW k \in Key, BeforeToolCall(c, k),
               UNCHANGED <<now, script>>
        PROVE  PluginInv'
    BY <2>1, BeforeToolCallKeepsPlugin
  <2>2. CASE (GatewayStop \/ GatewayStart) /\ UNCHANGED <<now, script>>
    BY <2>2, GatewayKeepsPlugin
  <2>3. QED
    BY <1>3, <2>1, <2>2, RunScriptKeepsPlugin DEF PluginAsked
<1>4. CASE PluginStep
  <2>1. ASSUME NEW s \in Script, Invoked(s), UNCHANGED now
        PROVE  PluginInv'
    <3>1. s \in Call /\ script[s].sent /\ script[s].key \in Key
      BY <2>1, PluginAssumption DEF Invoked, PluginInv, PluginTypeOK
    <3>2. QED
      BY <2>1, <3>1, BeforeToolCallKeepsPlugin DEF Invoked
  <2>2. QED
    BY <1>4, <2>1, HookTimesOutKeepsPlugin, HearsKeepsPlugin, ScriptStepKeepsPlugin
    DEF PluginStep
<1>5. QED
  BY <1>1, <1>2, <1>3, <1>4 DEF PluginNext
-----------------------------------------------------------------------------
(* The page                                                                *)

TurnRecord ==
  [pc : {"idle", "intent", "tool", "wait", "reply", "done"}, work : Work \cup {None},
   message : Message \cup {None}, mounted : BOOLEAN]

\* A turn that has come to its tool, and all that the tools' routes do for it,
\* rest on what the mesh allowed; a turn not yet sent has no route.
TurnInv ==
  /\ TurnTypeOK
  /\ \A t \in Turn :
       /\ turn[t].pc # "idle" => turn[t].work \in Work /\ turn[t].message \in Message
       /\ turn[t].pc \in {"idle", "intent", "tool"} => route[t] = "none"
       /\ turn[t].pc = "tool" \/ route[t] # "none" => IntentOf(turn[t].work) \in allowed
  /\ \A w \in ran : IntentOf(w) \in allowed
  /\ \A a \in Agent : store[a] # None =>
       /\ route[store[a]] # "none"
       /\ turn[store[a]].work.agent = a /\ turn[store[a]].work.kind = "code_analysis"
  /\ ReplyAdmitted

\* What the mesh is told of code analysis.
LEMMA AnalysisIntent ==
  ASSUME NEW w \in Work
  PROVE  /\ IntentOf(w) \in Work
         /\ w.kind = "code_analysis" =>
              IntentOf(w) = [agent |-> w.agent, kind |-> "code_analysis", path |-> None]
  BY DEF Work, IntentOf

LEMMA ToolsRunAsApproved == TurnInv => ToolRunsAsApproved
<1> SUFFICES ASSUME TurnInv PROVE ToolRunsAsApproved
  OBVIOUS
<1>1. ASSUME NEW a \in Agent, store[a] # None
      PROVE  /\ turn[store[a]].work.agent = a
             /\ [agent |-> a, kind |-> "code_analysis", path |-> None] \in allowed
  <2> DEFINE w == turn[store[a]].work
  <2>1. store[a] \in Turn
    BY <1>1 DEF TurnInv, TurnTypeOK
  <2>2. route[store[a]] # "none" /\ w.agent = a /\ w.kind = "code_analysis"
    BY <1>1 DEF TurnInv
  <2>3. IntentOf(w) \in allowed /\ w \in Work
    BY <2>1, <2>2 DEF TurnInv
  <2> HIDE DEF w
  <2>4. [agent |-> a, kind |-> "code_analysis", path |-> None] \in allowed
    BY <2>2, <2>3, AnalysisIntent
  <2>5. QED
    BY <2>2, <2>4 DEF w
<1>2. QED
  BY <1>1 DEF ToolRunsAsApproved, TurnInv

LEMMA ShownForm ==
  ASSUME NEW a \in Agent, NEW kind \in Kind, NEW m \in Message
  PROVE  Shows(a, kind, m)
           \in [agent : Agent, kind : Kind, path : Path \cup {None}, message : Message]
<1>1. Kinds(a) \in Seq(Kind)
  BY TurnAssumption
<1>2. Kinds(a) # <<>> => Head(Kinds(a)) \in Kind
  BY <1>1
<1>3. QED
  BY <1>2 DEF Shows

LEMMA TurnInitInv == TurnInit => TurnInv
<1> SUFFICES ASSUME TurnInit PROVE TurnInv
  OBVIOUS
<1>1. form \in [agent : Agent, kind : Kind, path : Path \cup {None}, message : Message]
  BY ShownForm, TurnAssumption DEF TurnInit, Kind
<1>2. TurnTypeOK
  BY <1>1 DEF TurnInit, TurnTypeOK, NoTurn
<1>3. QED
  BY <1>2 DEF TurnInit, TurnInv, NoTurn, ReplyAdmitted

\* Whatever a user does with the form, or by leaving the page.
LEMMA FormKeepsTurn ==
  ASSUME TurnInv, Edit \/ Leave
  PROVE  TurnInv'
<1>1. UNCHANGED <<route, store, allowed, ran, replied, channel>>
  BY DEF Edit, Leave
<1>2. form' \in [agent : Agent, kind : Kind, path : Path \cup {None}, message : Message]
  <2>1. CASE Leave
    BY <2>1, ShownForm, TurnAssumption DEF Leave, Kind
  <2>2. CASE Edit
    <3>1. form \in [agent : Agent, kind : Kind, path : Path \cup {None}, message : Message]
      BY DEF TurnInv, TurnTypeOK
    <3> DEFINE Forms == [agent : Agent, kind : Kind, path : Path \cup {None},
                         message : Message]
    <3>2. ASSUME NEW a \in Agent, form' = Shows(a, form.kind, form.message)
          PROVE  form' \in Forms
      BY <3>1, <3>2, ShownForm
    <3>3. ASSUME NEW k \in Kind, form' = [form EXCEPT !.kind = k]
          PROVE  form' \in Forms
      BY <3>1, <3>3
    <3>4. ASSUME NEW p \in Path \cup {None}, form' = [form EXCEPT !.path = p]
          PROVE  form' \in Forms
      BY <3>1, <3>4
    <3>5. ASSUME NEW m \in Message, form' = [form EXCEPT !.message = m]
          PROVE  form' \in Forms
      BY <3>1, <3>5
    <3> HIDE DEF Forms
    <3>6. form' \in Forms
      BY <2>2, <3>2, <3>3, <3>4, <3>5 DEF Edit
    <3>7. QED
      BY <3>6 DEF Forms
  <2>3. QED
    BY <2>1, <2>2
<1>3. running' \in BOOLEAN
  BY DEF Edit, Leave, TurnInv, TurnTypeOK
<1>4. /\ turn' \in [Turn -> TurnRecord]
      /\ \A t \in Turn : /\ turn'[t].pc = turn[t].pc /\ turn'[t].work = turn[t].work
                         /\ turn'[t].message = turn[t].message
  <2>1. turn \in [Turn -> TurnRecord]
    BY DEF TurnInv, TurnTypeOK, TurnRecord
  <2>2. CASE Edit
    BY <2>1, <2>2 DEF Edit
  <2>3. CASE Leave
    <3>1. turn' = [t \in Turn |-> [turn[t] EXCEPT !.mounted = FALSE]]
      BY <2>3 DEF Leave
    <3>2. QED
      BY <2>1, <3>1 DEF TurnRecord
  <2>4. QED
    BY <2>2, <2>3
<1>5. TurnTypeOK'
  BY <1>1, <1>2, <1>3, <1>4 DEF TurnInv, TurnTypeOK, TurnRecord
<1>6. \A a \in Agent : store[a] # None =>
        turn'[store[a]].work.agent = a /\ turn'[store[a]].work.kind = "code_analysis"
  BY <1>4 DEF TurnInv, TurnTypeOK
<1>7. QED
  BY <1>1, <1>4, <1>5, <1>6 DEF TurnInv, ReplyAdmitted

LEMMA SendKeepsTurn ==
  ASSUME TurnInv, NEW t \in Turn, Send(t)
  PROVE  TurnInv'
<1> DEFINE r == [pc |-> "intent", message |-> form.message, mounted |-> TRUE,
                 work |-> [agent |-> form.agent, kind |-> form.kind, path |-> form.path]]
<1>1. /\ turn' = [turn EXCEPT ![t] = r] /\ turn[t].pc = "idle" /\ running' = TRUE
      /\ UNCHANGED <<form, route, store, allowed, ran, replied, channel>>
  BY DEF Send
<1>2. r \in TurnRecord /\ r.pc = "intent" /\ r.work \in Work /\ r.message \in Message
  BY DEF TurnInv, TurnTypeOK, TurnRecord, Work
<1> HIDE DEF r
<1>3. turn \in [Turn -> TurnRecord] /\ route[t] = "none"
  BY <1>1 DEF TurnInv, TurnTypeOK, TurnRecord
<1>4. /\ turn' \in [Turn -> TurnRecord] /\ turn'[t] = r
      /\ \A q \in Turn \ {t} : turn'[q] = turn[q]
  BY <1>1, <1>2, <1>3
<1>5. TurnTypeOK'
  BY <1>1, <1>4 DEF TurnInv, TurnTypeOK, TurnRecord
<1>6. \A a \in Agent : store[a] # None => store[a] \in Turn \ {t}
  BY <1>1, <1>3 DEF TurnInv, TurnTypeOK
<1>7. \A q \in Turn :
        /\ turn'[q].pc # "idle" => turn'[q].work \in Work /\ turn'[q].message \in Message
        /\ turn'[q].pc \in {"idle", "intent", "tool"} => route[q] = "none"
        /\ turn'[q].pc = "tool" \/ route[q] # "none" => IntentOf(turn'[q].work) \in allowed
  BY <1>2, <1>3, <1>4 DEF TurnInv
<1>8. QED
  BY <1>1, <1>4, <1>5, <1>6, <1>7 DEF TurnInv, ReplyAdmitted

\* A step of a turn only moves it on; what it must see to is that a turn come to
\* its tool, or with a route, is allowed.
LEMMA MovesKeepTurn ==
  ASSUME TurnInv, NEW t \in Turn, turn[t].pc # "idle",
         NEW pc \in {"tool", "wait", "reply", "done"},
         turn' = [turn EXCEPT ![t].pc = pc],
         running' \in BOOLEAN, UNCHANGED <<form, store, ran, channel>>,
         NEW r \in {"none", "running", "ok", "failed"},
         route' = [route EXCEPT ![t] = r], route[t] # "none" => r # "none",
         allowed \subseteq allowed', allowed' \subseteq Work,
         pc = "tool" => r = "none",
         pc = "tool" \/ r # "none" => IntentOf(turn[t].work) \in allowed',
         replied' \subseteq Message \cup {None}, ReplyAdmitted'
  PROVE  TurnInv'
<1>1. turn \in [Turn -> TurnRecord]
      /\ route \in [Turn -> {"none", "running", "ok", "failed"}]
  BY DEF TurnInv, TurnTypeOK, TurnRecord
<1>2. /\ turn' \in [Turn -> TurnRecord]
      /\ turn'[t].pc = pc
      /\ \A q \in Turn : /\ turn'[q].work = turn[q].work /\ turn'[q].message = turn[q].message
                         /\ q # t => turn'[q] = turn[q]
  BY <1>1 DEF TurnRecord
<1>3. /\ route' \in [Turn -> {"none", "running", "ok", "failed"}]
      /\ route'[t] = r /\ \A q \in Turn \ {t} : route'[q] = route[q]
  BY <1>1
<1>4. TurnTypeOK'
  BY <1>2, <1>3 DEF TurnInv, TurnTypeOK, TurnRecord
<1>5. \A q \in Turn :
        /\ turn'[q].pc # "idle" => turn'[q].work \in Work /\ turn'[q].message \in Message
        /\ turn'[q].pc \in {"idle", "intent", "tool"} => route'[q] = "none"
        /\ turn'[q].pc = "tool" \/ route'[q] # "none" => IntentOf(turn'[q].work) \in allowed'
  <2>1. SUFFICES ASSUME NEW q \in Turn
                 PROVE  /\ turn'[q].pc # "idle" =>
                             turn'[q].work \in Work /\ turn'[q].message \in Message
                        /\ turn'[q].pc \in {"idle", "intent", "tool"} => route'[q] = "none"
                        /\ turn'[q].pc = "tool" \/ route'[q] # "none" =>
                             IntentOf(turn'[q].work) \in allowed'
    OBVIOUS
  <2>2. CASE q = t
    BY <1>2, <1>3, <2>2 DEF TurnInv
  <2>3. CASE q # t
    BY <1>2, <1>3, <2>3 DEF TurnInv
  <2>4. QED
    BY <2>2, <2>3
<1>6. \A a \in Agent : store[a] # None =>
        /\ route'[store[a]] # "none"
        /\ turn'[store[a]].work.agent = a /\ turn'[store[a]].work.kind = "code_analysis"
  BY <1>2, <1>3 DEF TurnInv, TurnTypeOK
<1>7. \A w \in ran : IntentOf(w) \in allowed'
  BY DEF TurnInv
<1>8. QED
  BY <1>4, <1>5, <1>6, <1>7 DEF TurnInv

LEMMA TurnStepKeepsTurn ==
  ASSUME TurnInv, NEW t \in Turn, TurnStep(t)
  PROVE  TurnInv'
<1>1. turn \in [Turn -> TurnRecord] /\ running \in BOOLEAN /\ allowed \subseteq Work
      /\ route \in [Turn -> {"none", "running", "ok", "failed"}]
      /\ replied \subseteq Message \cup {None}
  BY DEF TurnInv, TurnTypeOK, TurnRecord
<1>2. route[t] \in {"none", "running", "ok", "failed"}
      /\ route = [route EXCEPT ![t] = route[t]]
  BY <1>1
<1>3. turn[t].pc # "idle" =>
        turn[t].work \in Work /\ turn[t].message \in Message /\ IntentOf(turn[t].work) \in Work
  BY AnalysisIntent DEF TurnInv
<1>4. route[t] # "none" => IntentOf(turn[t].work) \in allowed
  BY DEF TurnInv
<1>5. \A pc : Ends(t) \/ GoesOn(t, pc) => running' \in BOOLEAN
  BY <1>1 DEF Ends, GoesOn
<1>6. ASSUME NEW pc \in {"reply", "done"}, (Ends(t) /\ pc = "done") \/ GoesOn(t, pc),
             turn[t].pc # "idle", UNCHANGED <<form, route, store, allowed, ran, channel>>,
             replied' \subseteq Message \cup {None}, ReplyAdmitted'
      PROVE  TurnInv'
  BY <1>1, <1>2, <1>4, <1>5, <1>6, MovesKeepTurn DEF Ends, GoesOn
<1>7. ReplyAdmitted /\ (UNCHANGED <<replied, channel>> => ReplyAdmitted')
  BY DEF TurnInv, ReplyAdmitted
<1>8. ASSUME NEW ans \in Answer, TurnHears(t, ans) PROVE TurnInv'
  <2>1. turn[t].pc = "intent" /\ route[t] = "none"
        /\ UNCHANGED <<form, route, store, ran, replied, channel>>
    BY <1>8 DEF TurnHears, TurnInv
  <2>2. CASE GoesOn(t, "tool") /\ allowed' = allowed \cup {IntentOf(turn[t].work)}
    BY <1>1, <1>2, <1>3, <1>5, <1>7, <2>1, <2>2, MovesKeepTurn DEF GoesOn
  <2>3. CASE Ends(t) /\ UNCHANGED allowed
    BY <1>1, <1>6, <1>7, <2>1, <2>3
  <2>4. QED
    BY <1>8, <2>2, <2>3 DEF TurnHears
<1>9. CASE CallTool(t)
  <2>1. PICK r \in {"running", "failed"} : route' = [route EXCEPT ![t] = r]
    BY <1>9 DEF CallTool
  <2>2. /\ turn[t].pc = "tool" /\ GoesOn(t, "wait")
        /\ UNCHANGED <<form, store, allowed, ran, replied, channel>>
    BY <1>9 DEF CallTool
  <2>3. IntentOf(turn[t].work) \in allowed
    BY <2>2 DEF TurnInv
  <2>4. QED
    BY <1>1, <1>5, <1>7, <2>1, <2>2, <2>3, MovesKeepTurn DEF GoesOn
<1>10. CASE ToolAnswered(t)
  BY <1>1, <1>6, <1>7, <1>10 DEF ToolAnswered
<1>11. CASE TurnTimesOut(t)
  BY <1>1, <1>6, <1>7, <1>11 DEF TurnTimesOut
<1>12. CASE Reply(t)
  <2>1. turn[t].pc = "reply" /\ Ends(t) /\ Worded(t)
        /\ UNCHANGED <<form, route, store, allowed, ran, channel>>
    BY <1>12 DEF Reply
  <2> DEFINE m == turn[t].message
  <2>2. /\ m \in Message /\ m # None
        /\ replied' = IF m = None \/ Guard(Coerce(channel), m) THEN replied \cup {m} ELSE replied
    BY <1>3, <2>1, TurnAssumption DEF Worded
  <2> HIDE DEF m
  <2>3. Guard(Coerce(channel), m) => Admits(channel, m)
    BY GuardAdmits
  <2>4. \A x \in replied : x # None /\ Admits(channel, x)
    BY <1>7 DEF ReplyAdmitted
  <2>5. replied' \subseteq Message \cup {None} /\ \A x \in replied' : x # None /\ Admits(channel, x)
    BY <1>1, <2>2, <2>3, <2>4
  <2>6. ReplyAdmitted'
    BY <2>1, <2>5 DEF ReplyAdmitted, Admits
  <2> QED
    BY <1>6, <2>1, <2>5, <2>6
<1>13. QED
  BY <1>8, <1>9, <1>10, <1>11, <1>12 DEF TurnStep

\* The tool's route ends, whether or not its turn still waits.
LEMMA RouteEndsKeepsTurn ==
  ASSUME TurnInv, NEW t \in Turn, RouteEnds(t)
  PROVE  TurnInv'
<1> DEFINE w == turn[t].work
<1>1. /\ route[t] = "running" /\ UNCHANGED <<form, running, turn, allowed, replied, channel>>
      /\ w \in Work /\ IntentOf(w) \in allowed
  BY DEF RouteEnds, TurnInv
<1>2. PICK r \in {"ok", "failed"} : route' = [route EXCEPT ![t] = r]
  BY DEF RouteEnds
<1>3. /\ route' \in [Turn -> {"none", "running", "ok", "failed"}]
      /\ \A q \in Turn : route'[q] = "none" <=> route[q] = "none"
  BY <1>1, <1>2 DEF TurnInv, TurnTypeOK
<1>4. \/ UNCHANGED ran
      \/ ran' = ran \cup {w}
  BY DEF RouteEnds
<1>5. \/ UNCHANGED store
      \/ w.kind = "code_analysis" /\ store' = [store EXCEPT ![w.agent] = t]
  BY DEF RouteEnds
<1>6. w.agent \in Agent
  BY <1>1 DEF Work
<1>7. store' \in [Agent -> Turn \cup {None}]
  BY <1>5, <1>6 DEF TurnInv, TurnTypeOK
<1>8. \A a \in Agent : store'[a] # None =>
        /\ route'[store'[a]] # "none"
        /\ turn[store'[a]].work.agent = a /\ turn[store'[a]].work.kind = "code_analysis"
  <2>1. SUFFICES ASSUME NEW a \in Agent, store'[a] # None
                 PROVE  /\ route'[store'[a]] # "none"
                        /\ turn[store'[a]].work.agent = a
                        /\ turn[store'[a]].work.kind = "code_analysis"
    OBVIOUS
  <2>2. store \in [Agent -> Turn \cup {None}]
    BY DEF TurnInv, TurnTypeOK
  <2>3. CASE store'[a] = store[a]
    BY <1>3, <2>1, <2>2, <2>3 DEF TurnInv
  <2>4. CASE store'[a] # store[a]
    <3>1. store'[a] = t /\ w.agent = a /\ w.kind = "code_analysis"
      BY <1>5, <2>2, <2>4
    <3>2. QED
      BY <1>1, <1>3, <3>1
  <2>5. QED
    BY <2>3, <2>4
<1>9. ran' \subseteq Work /\ \A v \in ran' : IntentOf(v) \in allowed
  BY <1>1, <1>4 DEF TurnInv, TurnTypeOK
<1>10. TurnTypeOK'
  BY <1>1, <1>3, <1>7, <1>9 DEF TurnInv, TurnTypeOK
<1>11. QED
  BY <1>1, <1>3, <1>8, <1>9, <1>10 DEF TurnInv, ReplyAdmitted

LEMMA TurnNextKeepsTurn ==
  ASSUME TurnInv, [TurnNext]_turnVars
  PROVE  TurnInv'
<1>1. CASE UNCHANGED turnVars
  BY <1>1 DEF turnVars, TurnInv, TurnTypeOK, ReplyAdmitted
<1>2. CASE TurnNext
  BY <1>2, FormKeepsTurn, SendKeepsTurn, TurnStepKeepsTurn, RouteEndsKeepsTurn DEF TurnNext
<1>3. QED
  BY <1>1, <1>2

-----------------------------------------------------------------------------
(* The whole                                                               *)

LEMMA ToolsStep ==
  ASSUME [ToolsNext]_toolVars
  PROVE  [TurnNext]_turnVars /\ [PluginNext]_pluginVars
<1>1. CASE UNCHANGED toolVars
  BY <1>1 DEF toolVars
<1>2. CASE Act
  BY <1>2 DEF Act, TurnNext, PluginNext
<1>3. CASE PluginStep /\ UNCHANGED <<turnVars, acts>>
  BY <1>3 DEF PluginNext
<1>4. ASSUME NEW t \in Turn, Page(t)
      PROVE  TurnNext /\ UNCHANGED pluginVars
  BY <1>4 DEF Page, TurnNext
<1>5. QED
  BY <1>1, <1>2, <1>3, <1>4 DEF ToolsNext

LEMMA ToolsInductive == ToolsSpec => [](TurnInv /\ PluginInv)
<1>1. ToolsInit => TurnInv /\ PluginInv
  BY TurnInitInv, PluginInitInv DEF ToolsInit
<1>2. TurnInv /\ PluginInv /\ [ToolsNext]_toolVars => TurnInv' /\ PluginInv'
  BY ToolsStep, TurnNextKeepsTurn, PluginStepKeepsPlugin
<1>3. QED
  BY <1>1, <1>2, PTL DEF ToolsSpec

\* Every call the plugin's hook lets pass rests on an approval the mesh gave to
\* a call of the same session, recent and heard since the gateway last stopped,
\* for any calls, sessions and life time of approvals.
THEOREM PassesRestOnApprovals == ToolsSpec => []PassRestsOnApproval
<1>1. PluginInv => PassRestsOnApproval
  BY DEF PluginInv
<1>2. QED
  BY <1>1, ToolsInductive, PTL

\* The exit codes 0, 2 and 4 of the script say what became of its tool.
THEOREM CodesTell == ToolsSpec => []ExitCodesTell
<1>1. PluginInv => ExitCodesTell
  BY DEF PluginInv
<1>2. QED
  BY <1>1, ToolsInductive, PTL

\* The page's tools only do what the guardians allowed, for any agents, kinds of
\* work and paths, and any number of turns under way.
THEOREM ToolsDoAsAllowed == ToolsSpec => []ToolRunsAsApproved
<1>1. QED
  BY ToolsRunAsApproved, ToolsInductive, PTL

\* OpenClaw is asked to answer only what the operator's configuration admits, for
\* any configuration of groups, direct messages, lists and mentions, with fields
\* missing or unknown: in particular nothing where groups, or direct messages, or
\* the channel are disabled; and never without the context of the message.
THEOREM RepliesAdmitted == ToolsSpec => []ReplyAdmitted
<1>1. TurnInv => ReplyAdmitted
  BY DEF TurnInv
<1>2. QED
  BY <1>1, ToolsInductive, PTL

\* The variables of the page and of the plugin keep their types.
THEOREM ToolsTypes == ToolsSpec => [](TurnTypeOK /\ PluginTypeOK)
<1>1. TurnInv /\ PluginInv => TurnTypeOK /\ PluginTypeOK
  BY DEF TurnInv, PluginInv
<1>2. QED
  BY <1>1, ToolsInductive, PTL
=============================================================================
