----------------------------- MODULE AgentTools -----------------------------
(***************************************************************************)
(* The ways a tool of an agent is reached through GuardMesh, side by side: *)
(* the dashboard's chat, the gateway's tool calls under the plugin, and    *)
(* the script that invokes one of them. What people and operators do, and  *)
(* the clock, is bounded by MaxActs together.                              *)
(***************************************************************************)
EXTENDS AnalyzeTurn, RuntimePlugin

CONSTANT MaxActs
ASSUME ToolsAssumption == MaxActs \in Nat

VARIABLE acts

toolVars == <<turnVars, pluginVars, acts>>

ToolsInit == TurnInit /\ PluginInit /\ acts = 0

Page(t) == (TurnStep(t) \/ RouteEnds(t)) /\ UNCHANGED <<pluginVars, acts>>

Act ==
  /\ acts < MaxActs /\ acts' = acts + 1
  /\ \/ (Edit \/ Leave \/ \E t \in Turn : Send(t)) /\ UNCHANGED pluginVars
     \/ (Tick \/ PluginAsked) /\ UNCHANGED turnVars

ToolsNext ==
  \/ Act
  \/ PluginStep /\ UNCHANGED <<turnVars, acts>>
  \/ \E t \in Turn : Page(t)

ToolsFairness ==
  \A t \in Turn : WF_toolVars(TurnStep(t) /\ UNCHANGED <<pluginVars, acts>>)

ToolsSpec == ToolsInit /\ [][ToolsNext]_toolVars /\ ToolsFairness
=============================================================================
