---------------------------- MODULE RuntimePlugin ----------------------------
(***************************************************************************)
(* The OpenClaw plugin of GuardMesh and the script that has a tool invoked *)
(* through it: integrations/openclaw/plugins/guardmesh-runtime-plugin and  *)
(* mesh-then-openclaw-invoke.mjs. The hook before_tool_call asks the mesh  *)
(* about a call unless its session was approved recently. The gateway and  *)
(* the mesh are external: of the mesh there is only its answer.            *)
(***************************************************************************)
EXTENDS MeshAnswer, Naturals

CONSTANTS
  Call,        \* tool calls of the gateway, of tools the hook enforces
  Script,      \* runs of the script; its tool call has the same name
  Key,         \* session keys
  Configured,  \* GUARDMESH_DEFAULT_AGENT_ID is set
  TTL,         \* approvalTtlMs, in ticks
  MaxTime      \* bound on the clock

ASSUME PluginAssumption ==
  /\ Script \subseteq Call
  /\ Configured \in BOOLEAN
  /\ TTL \in Nat \ {0} /\ MaxTime \in Nat \ {0}

VARIABLES
  now,
  approvedAt,  \* SESSION_APPROVALS: session -> time of its approval, 0 if none
  stops,       \* gateway_stop events so far
  up,
  call,        \* the hook on each call
  script,
  granted      \* history: every approval the mesh gave to a session

gatewayVars == <<approvedAt, stops, up, call, granted>>
pluginVars  == <<now, gatewayVars, script>>

\* Decided: the hook let the call pass, blocked it, asked for a human, or failed.
Decided == {"passed", "blocked", "ask", "failed"}
NoCall  == [pc |-> "idle", key |-> "none", at |-> 0, stop |-> 0]
NoScript == [pc |-> "idle", key |-> "none", strict |-> FALSE, token |-> FALSE,
             sent |-> FALSE, code |-> 0]

PluginTypeOK ==
  /\ now \in 1 .. MaxTime
  /\ approvedAt \in [Key -> 0 .. MaxTime]
  /\ stops \in 0 .. MaxTime
  /\ up \in BOOLEAN
  /\ call \in [Call -> [pc : Decided \cup {"idle", "asking", "late"},
                        key : Key \cup {"none"}, at : 0 .. MaxTime, stop : 0 .. MaxTime]]
  /\ script \in [Script -> [pc : {"idle", "intent", "invoke", "exited"},
                            key : Key \cup {"none"}, strict : BOOLEAN, token : BOOLEAN,
                            sent : BOOLEAN, code : 0 .. 4]]
  /\ granted \subseteq [key : Key, at : 1 .. MaxTime, stop : 0 .. MaxTime]

PluginInit ==
  /\ now = 1
  /\ approvedAt = [k \in Key |-> 0]
  /\ stops = 0 /\ up = TRUE
  /\ call = [c \in Call |-> NoCall]
  /\ script = [s \in Script |-> NoScript]
  /\ granted = {}

-----------------------------------------------------------------------------
(* The hook                                                                *)

\* isApprovalFresh
Fresh(k) == approvedAt[k] # 0 /\ now - approvedAt[k] < TTL

Decide(c, pc) == call' = [call EXCEPT ![c].pc = pc, ![c].at = now, ![c].stop = stops]

BeforeToolCall(c, k) ==
  /\ up /\ call[c].pc = "idle"
  /\ call' = [call EXCEPT ![c] =
       [pc |-> IF Fresh(k) THEN "passed" ELSE IF Configured THEN "asking" ELSE "ask",
        key |-> k, at |-> now, stop |-> stops]]
  /\ UNCHANGED <<approvedAt, stops, up, granted>>

\* The mesh answers; an evaluation the gateway no longer waits for, or that was
\* out when the gateway stopped, marks its session all the same.
Hears(c, ans) ==
  /\ call[c].pc \in {"asking", "late"}
  /\ IF call[c].pc = "late" THEN Decide(c, "failed")
     ELSE Decide(c, IF Executes(ans) THEN "passed"
                    ELSE IF ans = "refuse" THEN "blocked" ELSE "failed")
  /\ IF Executes(ans)
     THEN LET k == call[c].key IN
          /\ approvedAt' = [approvedAt EXCEPT ![k] = now]
          /\ granted' = granted \cup {[key |-> k, at |-> now, stop |-> stops]}
     ELSE UNCHANGED <<approvedAt, granted>>
  /\ UNCHANGED <<stops, up>>

\* The time the gateway allows the hook is over.
HookTimesOut(c) ==
  /\ call[c].pc = "asking"
  /\ call' = [call EXCEPT ![c].pc = "late"]
  /\ UNCHANGED <<approvedAt, stops, up, granted>>

\* Mutant: the map of approvals outlives the gateway.
Mut_StopKeeps ==
  /\ up /\ stops < MaxTime
  /\ up' = FALSE
  /\ stops' = stops + 1
  /\ UNCHANGED <<approvedAt, call, granted>>

GatewayStop ==
  /\ up /\ stops < MaxTime
  /\ up' = FALSE
  /\ stops' = stops + 1
  /\ approvedAt' = [k \in Key |-> 0]
  /\ UNCHANGED <<call, granted>>

GatewayStart == ~up /\ up' = TRUE /\ UNCHANGED <<approvedAt, stops, call, granted>>

-----------------------------------------------------------------------------
(* The script                                                              *)

Exit(s, code) == script' = [script EXCEPT ![s].pc = "exited", ![s].code = code]

\* A plan with a tool to invoke; strict is --require-uncontested and token
\* says whether OPENCLAW_GATEWAY_TOKEN is set.
RunScript(s, k, strict, token) ==
  /\ script[s].pc = "idle"
  /\ script' = [script EXCEPT ![s] = [pc |-> "intent", key |-> k, strict |-> strict,
                                     token |-> token, sent |-> FALSE, code |-> 0]]

ScriptHears(s, ans) ==
  /\ script[s].pc = "intent"
  /\ IF ans = "error" THEN Exit(s, 1)
     ELSE IF ~script[s].token THEN Exit(s, 4)
     ELSE IF ~Executes(ans) \/ (script[s].strict /\ ans = "execute_contested") THEN Exit(s, 2)
     ELSE script' = [script EXCEPT ![s].pc = "invoke", ![s].sent = TRUE]

\* The gateway takes the request of POST /tools/invoke, if it ever does.
Invoked(s) == script[s].sent /\ BeforeToolCall(s, script[s].key) /\ UNCHANGED script

\* A tool that passed answers, well or not; one that did not is an error, and so
\* is a gateway that refuses the request.
InvokeAnswered(s) ==
  /\ script[s].pc = "invoke"
  /\ \/ call[s].pc = "passed" /\ Exit(s, 0)
     \/ call[s].pc \in Decided \cup {"late"} /\ Exit(s, 3)
     \/ /\ call[s].pc = "idle"
        /\ script' = [script EXCEPT ![s].pc = "exited", ![s].code = 3, ![s].sent = FALSE]

\* The connection fails or two minutes are over: main().catch.
InvokeRejected(s) == script[s].pc = "invoke" /\ Exit(s, 1)

ScriptStep(s) ==
  \/ (\E ans \in Answer : ScriptHears(s, ans)) \/ InvokeAnswered(s) \/ InvokeRejected(s)

-----------------------------------------------------------------------------
Tick == now < MaxTime /\ now' = now + 1 /\ UNCHANGED <<gatewayVars, script>>

\* What people and operators ask for.
PluginAsked ==
  \/ /\ GatewayStop \/ GatewayStart \/ \E c \in Call \ Script, k \in Key : BeforeToolCall(c, k)
     /\ UNCHANGED <<now, script>>
  \/ /\ \E s \in Script, k \in Key, strict, token \in BOOLEAN : RunScript(s, k, strict, token)
     /\ UNCHANGED <<now, gatewayVars>>

\* What follows of itself.
PluginStep ==
  \/ /\ \E c \in Call : HookTimesOut(c) \/ \E ans \in Answer : Hears(c, ans)
     /\ UNCHANGED <<now, script>>
  \/ UNCHANGED now /\ \E s \in Script : Invoked(s)
  \/ UNCHANGED <<now, gatewayVars>> /\ \E s \in Script : ScriptStep(s)

PluginNext == Tick \/ PluginAsked \/ PluginStep

PluginSpec == PluginInit /\ [][PluginNext]_pluginVars

(***************************************************************************)
(* Properties                                                              *)
(***************************************************************************)

\* A call the hook let pass rests on an approval the mesh gave to a call of the
\* same session, not longer ago than approvalTtlMs, and which did not arrive
\* before the gateway last stopped: one that was out then may carry over.
PassRestsOnApproval ==
  \A c \in Call : call[c].pc = "passed" =>
    \E g \in granted : /\ g.key = call[c].key /\ g.stop = call[c].stop
                       /\ g.at <= call[c].at /\ call[c].at - g.at < TTL

\* The exit codes of the script tell what became of its tool: 0 that it passed
\* the hook, 2 and 4 that the gateway has not been and will not be asked.
ExitCodesTell ==
  \A s \in Script : script[s].pc = "exited" =>
    /\ script[s].code = 0 => call[s].pc = "passed"
    /\ script[s].code \in {2, 4} => ~script[s].sent /\ call[s].pc = "idle"
=============================================================================
