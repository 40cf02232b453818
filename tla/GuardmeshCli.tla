---------------------------- MODULE GuardmeshCli ----------------------------
(***************************************************************************)
(* The command line guardmesh-cli: runs of its commands side by side, the  *)
(* file ~/.guardmesh/config.json they share and the directory of a project *)
(* to create. The chain and the guardians' endpoints are external. The     *)
(* registry functions the ABI of lib/contract.ts names (registerAgent with *)
(* four arguments, getAgent, getAllAgents) are none of the contracts', so  *)
(* calls of the registry fail.                                             *)
(***************************************************************************)
EXTENDS ConsensusRules, FiniteSets

CONSTANTS
  Cmd,           \* runs of a command
  Value,         \* values of a setting
  Unset,
  Environment,   \* environments and options the commands are run with
  Options,
  MaxEndpoints   \* bound on the guardians in the file

\* The settings "guardmesh config" has an option for.
Setting == {"rpcUrl", "registryAddress", "auditAddress"}

\* What is set in an environment, by options or in a file.
Env == [Setting -> Value \cup {Unset}]

ASSUME CliAssumption ==
  /\ Environment \subseteq Env /\ Options \subseteq Env
  /\ Unset \notin Value \cup {"APPROVED", "BLOCKED"}
  /\ MaxEndpoints \in Nat

VARIABLES
  file,     \* the config file
  cmd,
  project,  \* the directory init creates: none, partial, or whole
  told      \* history: what "Configuration saved" was last said of, per setting

cliVars == <<file, cmd, project, told>>

\* How many guardians a file lists, Unset when it has no list.
Endpoints == (0 .. MaxEndpoints) \cup {Unset}
Config    == [set : Env, guardians : Endpoints]
ConfigFile      == [state : {"absent", "torn", "whole"}, holds : Config]

NoConfig == [set |-> [s \in Setting |-> Unset], guardians |-> Unset]
Torn     == [state |-> "torn", holds |-> NoConfig]

\* What a guardian's answer to "test action" may be: a verdict that is "approve"
\* to the letter; one that is once trimmed and upper-cased, as the guardians of
\* this repository write it; one that reads BLOCK so; any other; or none in time.
Answer == {"approve", "recased", "block", "other", "failed"}

NoAnswers == [a \in Answer |-> 0]

Gathered(a) == a["approve"] + a["recased"] + a["block"] + a["other"] + a["failed"]

NoCmd == [pc |-> "idle", conf |-> NoConfig, missing |-> Unset, asked |-> 0,
          answers |-> NoAnswers, said |-> Unset]

CliTypeOK ==
  /\ file \in ConfigFile
  /\ \A c \in Cmd : cmd[c].conf \in Config /\ cmd[c].answers \in [Answer -> Nat]
  /\ project \in {"none", "partial", "whole"}
  /\ told \in Env

CliInit ==
  /\ file \in [state : {"whole"}, holds : [set : {NoConfig.set}, guardians : Endpoints]]
             \cup {[state |-> "absent", holds |-> NoConfig]}
  /\ cmd = [c \in Cmd |-> NoCmd]
  /\ project \in {"none", "whole"}
  /\ told = [s \in Setting |-> Unset]

-----------------------------------------------------------------------------
(* The configuration                                                       *)

\* The environment's entries are spread over the file's, those not set too: an
\* undefined one hides what the file says.
LoadConfig(env) ==
  [set |-> env, guardians |-> IF file.state = "whole" THEN file.holds.guardians ELSE Unset]

To(c, r) == cmd' = [cmd EXCEPT ![c] = r]

Finishes(c, said) == To(c, [NoCmd EXCEPT !.pc = "ended", !.said = said])

\* A shell runs a command that begins by loading the configuration.
Loads(c, env, pc) ==
  /\ cmd[c].pc = "idle"
  /\ To(c, [NoCmd EXCEPT !.pc = pc, !.conf = LoadConfig(env)])
  /\ UNCHANGED <<file, project, told>>

\* guardmesh config with at least one option
ConfigCommand(c, env, options) ==
  /\ cmd[c].pc = "idle"
  /\ To(c, [NoCmd EXCEPT !.pc = "save",
       !.conf = [LoadConfig(env) EXCEPT !.set =
          [s \in Setting |-> IF options[s] = Unset THEN @[s] ELSE options[s]]]])
  /\ UNCHANGED <<file, project, told>>

\* saveConfig truncates the file, then writes it.
SaveTruncates(c) ==
  /\ cmd[c].pc = "save"
  /\ file' = Torn
  /\ To(c, [cmd[c] EXCEPT !.pc = "write"])
  /\ UNCHANGED <<project, told>>

\* Over a save of another command that is longer the end of that one is left.
SaveWrites(c) ==
  /\ cmd[c].pc = "write"
  /\ \/ file' = [state |-> "whole", holds |-> cmd[c].conf]
     \/ file.state = "whole" /\ file' = Torn
  /\ told' = [s \in Setting |-> IF cmd[c].conf.set[s] = Unset THEN told[s] ELSE cmd[c].conf.set[s]]
  /\ Finishes(c, "saved")
  /\ UNCHANGED project

-----------------------------------------------------------------------------
(* Commands that call a contract, the dashboard's server or the guardians  *)

\* agent register, list and info; test policy
AgentCommand(c, env) == Loads(c, env, "registryAddress")
TestPolicy(c, env)   == Loads(c, env, "registryAddress")

\* deploy shows its plan and, not for a dry run, registers the agent.
DeployCommand(c, env) ==
  \/ Loads(c, env, "registryAddress")
  \/ cmd[c].pc = "idle" /\ Finishes(c, "planned") /\ UNCHANGED <<file, project, told>>

\* audit history, as audit watch begins (AuditFeed); audit verify
HistoryCommand(c, env) == Loads(c, env, "auditAddress")
VerifyCommand(c, env)  == Loads(c, env, "server")

\* getContract refuses without the RPC URL or the contract's address.
GetContract(c) ==
  /\ cmd[c].pc \in {"registryAddress", "auditAddress"}
  /\ LET unset == {s \in {"rpcUrl", cmd[c].pc} : cmd[c].conf.set[s] = Unset}
     IN To(c, IF unset = {}
              THEN [NoCmd EXCEPT !.pc = IF cmd[c].pc = "auditAddress" THEN "audit" ELSE "registry"]
              ELSE [NoCmd EXCEPT !.pc = "ended", !.said = "not configured",
                      !.missing = IF "rpcUrl" \in unset THEN "rpcUrl" ELSE cmd[c].pc])
  /\ UNCHANGED <<file, project, told>>

\* An answer comes; from a registry none does but an error (CmdFails). What the
\* answer is of a verification makes no difference to the exit code.
ShowsAnswer(c) ==
  /\ cmd[c].pc \in {"audit", "server", "guardians"}
  /\ Finishes(c, "shown") /\ UNCHANGED <<file, project, told>>

\* guardians status asks the guardians; add and remove only say that they did.
GuardiansCommand(c, env) == Loads(c, env, "guardians")

\* test action asks every guardian of the file, or one by default.
TestAction(c, env) == Loads(c, env, "test")

AskGuardians(c) ==
  /\ cmd[c].pc = "test"
  /\ LET g == cmd[c].conf.guardians
     IN To(c, [NoCmd EXCEPT !.pc = "asking", !.asked = IF g = Unset THEN 1 ELSE g])
  /\ UNCHANGED <<file, project, told>>

GuardianAnswers(c) ==
  /\ cmd[c].pc = "asking"
  /\ Gathered(cmd[c].answers) < cmd[c].asked
  /\ \E answer \in Answer : To(c, [cmd[c] EXCEPT !.answers[answer] = @ + 1])
  /\ UNCHANGED <<file, project, told>>

\* The command counts what is "approve" to the letter, and as a block every other
\* answer that came.
Approvals(a) == a["approve"]
Blocks(a)    == a["recased"] + a["block"] + a["other"]

\* Mutant: a tie approves.
Mut_TieApproves(c) ==
  /\ cmd[c].pc = "asking"
  /\ Gathered(cmd[c].answers) = cmd[c].asked
  /\ To(c, [cmd[c] EXCEPT !.pc = "ended",
       !.said = IF Approvals(cmd[c].answers) >= Blocks(cmd[c].answers)
                THEN "APPROVED" ELSE "BLOCKED"])
  /\ UNCHANGED <<file, project, told>>

TestOutcome(c) ==
  /\ cmd[c].pc = "asking"
  /\ Gathered(cmd[c].answers) = cmd[c].asked
  /\ To(c, [cmd[c] EXCEPT !.pc = "ended",
       !.said = IF Approvals(cmd[c].answers) > Blocks(cmd[c].answers)
                THEN "APPROVED" ELSE "BLOCKED"])
  /\ UNCHANGED <<file, project, told>>

-----------------------------------------------------------------------------
(* init                                                                    *)

InitLooks(c) ==
  /\ cmd[c].pc = "idle"
  /\ IF project = "none" THEN To(c, [NoCmd EXCEPT !.pc = "create"]) ELSE Finishes(c, "exists")
  /\ UNCHANGED <<file, project, told>>

\* The directories are made; making one that is there is no error.
InitCreates(c) ==
  /\ cmd[c].pc = "create"
  /\ To(c, [cmd[c] EXCEPT !.pc = "files"])
  /\ project' = IF project = "none" THEN "partial" ELSE project
  /\ UNCHANGED <<file, told>>

InitWrites(c) ==
  /\ cmd[c].pc = "files"
  /\ project' = "whole" /\ Finishes(c, "created")
  /\ UNCHANGED <<file, told>>

\* The file system or the network fails the command, or its process is killed.
CmdFails(c) ==
  /\ cmd[c].pc \notin {"idle", "ended"}
  /\ Finishes(c, "failed") /\ UNCHANGED <<file, project, told>>

NextCommand(c) ==
  /\ cmd[c].pc = "ended"
  /\ To(c, NoCmd) /\ UNCHANGED <<file, project, told>>

CliStep(c) ==
  \/ \E env \in Environment :
       \/ AgentCommand(c, env) \/ TestPolicy(c, env) \/ DeployCommand(c, env)
       \/ HistoryCommand(c, env) \/ VerifyCommand(c, env)
       \/ TestAction(c, env) \/ GuardiansCommand(c, env)
       \/ \E options \in Options \ {NoConfig.set} : ConfigCommand(c, env, options)
  \/ SaveTruncates(c) \/ SaveWrites(c)
  \/ GetContract(c) \/ ShowsAnswer(c)
  \/ AskGuardians(c) \/ GuardianAnswers(c) \/ TestOutcome(c)
  \/ InitLooks(c) \/ InitCreates(c) \/ InitWrites(c)
  \/ CmdFails(c) \/ NextCommand(c)

CliNext == \E c \in Cmd : CliStep(c)

CliSpec == CliInit /\ [][CliNext]_cliVars

(***************************************************************************)
(* Properties                                                              *)
(***************************************************************************)

\* What the mesh counts of the same answers: it upper-cases a verdict first, and a
\* guardian that fails is no row.
MeshCounts(a) == [approve |-> a["approve"] + a["recased"], block |-> a["block"],
                  invalid |-> a["other"]]

\* What the outcome "test action" shows tells of the mesh's decision by majority
\* over the same answers, though the two read and count them differently and the
\* list of guardians may change meanwhile. APPROVED, when every guardian gave an
\* answer the mesh can read, means that the mesh would execute. BLOCKED where it
\* would execute means that a guardian's approval was written in another way than
\* the command reads, and nothing else (no tie, no guardian that failed).
TestTellsOfMesh ==
  \A c \in Cmd :
    LET a == cmd[c].answers
        meshExecutes == Consensus("majority", MeshCounts(a), cmd[c].asked).execute
    IN /\ cmd[c].said = "APPROVED" /\ a["other"] = 0 /\ a["failed"] = 0 => meshExecutes
       /\ cmd[c].said = "BLOCKED" /\ meshExecutes => a["recased"] > 0

\* What lib/contract.ts tells the user to do helps: no command complains of a
\* setting that "guardmesh config" has said to be saved.
SavedSettingsAreUsed ==
  \A c \in Cmd : cmd[c].said = "not configured" => told[cmd[c].missing] = Unset
=============================================================================
