------------------------------ MODULE Registry ------------------------------
(***************************************************************************)
(* The contract 0g-contracts/contracts/GuardMeshRegistry.sol: one policy   *)
(* per agent, the wallet that owns it, and the lists the dashboard reads.  *)
(* A transaction is one step; one that reverts changes nothing and is not  *)
(* a step. An agent identifier stands for its hash; an allowed list, a     *)
(* denied list and a list of data sources are one value; the timestamps,   *)
(* which no code of the contract reads, are left out.                      *)
(***************************************************************************)
EXTENDS Integers, Sequences, Functions

CONSTANTS
  Account,    \* addresses, without the zero address
  Sender,     \* the accounts that send transactions
  Agent,      \* agent identifiers, without the empty string
  RoleScope,  \* role scopes, without the empty string
  Rules,      \* what a policy allows and denies
  Threshold,  \* threshold codes callers try
  MaxOwned,   \* bound on the length of an owner's list
  None

ASSUME RegistryAssumption ==
  /\ Sender \subseteq Account
  /\ Threshold \subseteq Nat
  /\ MaxOwned \in Nat \ {0}

VARIABLES
  policies,     \* the policy of each registered agent, None for the others
  ownerAgents,  \* _ownerAgents: the list of each account
  allAgentKeys  \* every registered agent in order

regVars == <<policies, ownerAgents, allAgentKeys>>

ThresholdAny       == 1
ThresholdMajority  == 2
ThresholdUnanimous == 3

Policy == [owner : Account, roleScope : RoleScope, rules : Rules,
           threshold : ThresholdAny .. ThresholdUnanimous, active : BOOLEAN]

ASSUME NoneAssumption == None \notin Policy \cup Agent

RegTypeOK ==
  /\ policies \in [Agent -> Policy \cup {None}]
  /\ ownerAgents \in [Account -> Seq(Agent)]
  /\ allAgentKeys \in Seq(Agent)

RegInit ==
  /\ policies = [a \in Agent |-> None]
  /\ ownerAgents = [o \in Account |-> <<>>]
  /\ allAgentKeys = <<>>

Registered(a) == policies[a] # None

-----------------------------------------------------------------------------
RegisterAgent(sender, a, scope, rules) ==
  /\ ~Registered(a)
  /\ Len(ownerAgents[sender]) < MaxOwned
  /\ policies' = [policies EXCEPT ![a] =
       [owner |-> sender, roleScope |-> scope, rules |-> rules,
        threshold |-> ThresholdMajority, active |-> TRUE]]
  /\ allAgentKeys' = Append(allAgentKeys, a)
  /\ ownerAgents' = [ownerAgents EXCEPT ![sender] = Append(@, a)]

\* Mutant: any registered agent will do.
Mut_AnyCaller(sender, a) == Registered(a)

\* modifier onlyAgentOwner
OwnerOf(sender, a) == Registered(a) /\ policies[a].owner = sender

UpdatePolicy(sender, a, rules, threshold) ==
  /\ OwnerOf(sender, a)
  /\ threshold \in ThresholdAny .. ThresholdUnanimous
  /\ policies' = [policies EXCEPT ![a].rules = rules, ![a].threshold = threshold]
  /\ UNCHANGED <<ownerAgents, allAgentKeys>>

UpdateRoleScope(sender, a, scope) ==
  /\ OwnerOf(sender, a)
  /\ policies' = [policies EXCEPT ![a].roleScope = scope]
  /\ UNCHANGED <<ownerAgents, allAgentKeys>>

DeactivateAgent(sender, a) ==
  /\ OwnerOf(sender, a)
  /\ policies' = [policies EXCEPT ![a].active = FALSE]
  /\ UNCHANGED <<ownerAgents, allAgentKeys>>

ReactivateAgent(sender, a) ==
  /\ OwnerOf(sender, a)
  /\ policies' = [policies EXCEPT ![a].active = TRUE]
  /\ UNCHANGED <<ownerAgents, allAgentKeys>>

\* Mutant: the agent is listed under the owner that gives it away.
Mut_ListUnderSender(sender, a, newOwner) ==
  /\ OwnerOf(sender, a)
  /\ Len(ownerAgents[newOwner]) < MaxOwned
  /\ policies' = [policies EXCEPT ![a].owner = newOwner]
  /\ ownerAgents' = [ownerAgents EXCEPT ![sender] = Append(@, a)]
  /\ UNCHANGED allAgentKeys

\* The agent stays in the list of the owner that gives it away.
TransferAgentOwnership(sender, a, newOwner) ==
  /\ OwnerOf(sender, a)
  /\ Len(ownerAgents[newOwner]) < MaxOwned
  /\ policies' = [policies EXCEPT ![a].owner = newOwner]
  /\ ownerAgents' = [ownerAgents EXCEPT ![newOwner] = Append(@, a)]
  /\ UNCHANGED allAgentKeys

OwnerStep(s, a) ==
  \/ \E r \in Rules, t \in Threshold : UpdatePolicy(s, a, r, t)
  \/ \E sc \in RoleScope : UpdateRoleScope(s, a, sc)
  \/ DeactivateAgent(s, a)
  \/ ReactivateAgent(s, a)
  \/ \E o \in Account : TransferAgentOwnership(s, a, o)

RegNext ==
  \E s \in Sender, a \in Agent :
    \/ \E sc \in RoleScope, r \in Rules : RegisterAgent(s, a, sc, r)
    \/ OwnerStep(s, a)

(***************************************************************************)
(* Properties                                                              *)
(***************************************************************************)

\* The enumeration getAllAgentsPaginated reads lists every registered agent
\* exactly once, after any mix of registrations and transfers.
EnumerationExact ==
  /\ IsInjective(allAgentKeys)
  /\ Range(allAgentKeys) = {a \in Agent : Registered(a)}

\* However often an agent changes hands, the list of its present owner, which
\* getOwnerAgents reads, has it.
OwnersFindTheirAgents ==
  \A a \in Agent :
    Registered(a) => a \in Range(ownerAgents[policies[a].owner])
=============================================================================
