---------------------------- MODULE MCAgentTools ----------------------------
(* Three scenes, told apart in the initial state: the chat, the gateway    *)
(* and the script of AgentTools, with two agents of different gate         *)
(* actions; one turn of the chat about a message from any of two users in  *)
(* any of two groups or in none, under any configuration of the channel    *)
(* that sets its group settings or its direct ones; and every count of     *)
(* rows for every peer list the server can build, 1 to 8.                  *)
EXTENDS AgentTools, Consensus

CONSTANTS a1, a2, c1, s1, u1, u2, g1, g2

VARIABLE scene

MCKinds(a) == IF a = a1 THEN <<"code_analysis", "read_file">> ELSE <<"query_db">>

Messages == [user : {None, u1, u2}, group : {None, g1, g2}, mentioned : BOOLEAN]

\* Configurations with fields missing, unknown or contradictory. Lists name the
\* first user or everybody, and the first group.
Raw == [enabled |-> None, dmEnabled |-> None, dm |-> None, dmPolicy |-> None,
        nested |-> None, groupPolicy |-> None, requireMention |-> None, allowFrom |-> {},
        groupAllowFrom |-> {}, allowedUsers |-> {}, allowedGroups |-> {}]
ForGroups ==
  {[Raw EXCEPT !.enabled = e, !.groupPolicy = p, !.requireMention = r, !.allowFrom = f,
               !.groupAllowFrom = gf, !.allowedUsers = au, !.allowedGroups = ag] :
     e \in {None, FALSE}, p \in {None, "open", "disabled", "unknown"}, r \in {None, FALSE},
     f \in {{}, {u1}, {Any}}, gf \in {{}, {u1}}, au \in {{}, {u1}}, ag \in {{}, {g1}}}
ForDirect ==
  {[Raw EXCEPT !.dmEnabled = e, !.dm = d, !.dmPolicy = p, !.nested = n, !.allowFrom = f,
               !.allowedUsers = au] :
     e \in {None, FALSE}, d \in {None, FALSE}, f \in {{}, {u1}, {Any}}, au \in {{}, {u1}},
     p \in {None, "allowlist", "open", "disabled", "unknown"},
     n \in {None, "allowlist", "open", "disabled"}}
RawPolicies == {None} \cup ForGroups \cup ForDirect

\* Where the configuration is not what matters: one, and a message it admits
\* beside that of an untouched page, which it does not.
Usual == [Raw EXCEPT !.allowFrom = {Any}, !.allowedGroups = {g1}]
Greeting == [user |-> u1, group |-> g1, mentioned |-> TRUE]

\* Bounds of the chat with any configuration: one turn of the first agent, whose
\* message is chosen before.
OneTurn ==
  /\ acts' <= 2 /\ UNCHANGED pluginVars
  /\ form' = [form EXCEPT !.message = form'.message]
  /\ turn'["t2"] = turn["t2"]

VotedInit ==
  /\ ToolsInit /\ Init
  /\ scene \in {"tools", "channel", "consensus"}
  /\ scene # "consensus" => mode = "any" /\ expected = 1
  /\ scene # "channel" => channel = Usual

VotedNext ==
  /\ \/ scene = "tools" /\ ToolsNext /\ UNCHANGED vars
                        /\ form'.message \in {NoContext, Greeting}
     \/ scene = "channel" /\ ToolsNext /\ UNCHANGED vars /\ OneTurn
     \/ scene = "consensus" /\ Next /\ UNCHANGED toolVars
  /\ UNCHANGED scene

\* The bounds above hold back what users do, never a step that fairness is about.
VotedSpec == VotedInit /\ [][VotedNext]_<<toolVars, vars, scene>> /\ ToolsFairness
=============================================================================
