---------------------------- MODULE RegistryENS ----------------------------
(***************************************************************************)
(* The contract 0g-contracts/contracts/GuardMeshRegistry-ENS.sol: the      *)
(* registry it inherits, and an ENS name for each agent with the reverse   *)
(* lookup from a name's node. A name stands for its namehash node; the     *)
(* empty name has node 0, the value a deleted identity has too. Addresses  *)
(* and metadata cached with a name are left out.                           *)
(***************************************************************************)
EXTENDS Registry

CONSTANTS
  Self,       \* the address of this contract
  Name,       \* ENS names, without the empty one
  EmptyName

ASSUME ENSAssumption ==
  /\ Self \in Account \ Sender
  /\ EmptyName \notin Name

VARIABLES
  ensName,         \* the name in _ensIdentities, EmptyName when there is none
  ensNodeToAgent,  \* node -> agent, None when there is none
  ensAgentKeys     \* _ensAgentKeys

ensVars == <<ensName, ensNodeToAgent, ensAgentKeys>>
vars    == <<regVars, ensVars>>

AnyName == Name \cup {EmptyName}

TypeOK ==
  /\ RegTypeOK
  /\ ensName \in [Agent -> AnyName]
  /\ ensNodeToAgent \in [AnyName -> Agent \cup {None}]
  /\ ensAgentKeys \in Seq(Agent)

Init ==
  /\ RegInit
  /\ ensName = [a \in Agent |-> EmptyName]
  /\ ensNodeToAgent = [n \in AnyName |-> None]
  /\ ensAgentKeys = <<>>

HasENSName(a) == ensName[a] # EmptyName

-----------------------------------------------------------------------------
\* The registration is an external call of the contract to itself: its sender,
\* and the owner of the agent, is the contract.
RegisterAgentWithENS(sender, a, name, scope, rules) ==
  /\ RegisterAgent(Self, a, scope, rules)
  /\ ensName' = [ensName EXCEPT ![a] = name]
  /\ ensNodeToAgent' = [ensNodeToAgent EXCEPT ![name] = a]
  /\ ensAgentKeys' = Append(ensAgentKeys, a)

\* Mutant: the entry of the former name stays.
Mut_KeepOldNode(sender, a, name) ==
  /\ OwnerOf(sender, a)
  /\ ensName' = [ensName EXCEPT ![a] = name]
  /\ ensNodeToAgent' = [ensNodeToAgent EXCEPT ![name] = a]
  /\ ensAgentKeys' = IF a \in Range(ensAgentKeys) THEN ensAgentKeys
                     ELSE Append(ensAgentKeys, a)
  /\ UNCHANGED regVars

\* The reverse entry of the former name is deleted, whoever it leads to, and
\* that of the new one overwritten, whoever holds it.
AssignENSName(sender, a, name) ==
  /\ OwnerOf(sender, a)
  /\ ensName' = [ensName EXCEPT ![a] = name]
  /\ LET cleared == IF HasENSName(a)
                    THEN [ensNodeToAgent EXCEPT ![ensName[a]] = None]
                    ELSE ensNodeToAgent
     IN  ensNodeToAgent' = [cleared EXCEPT ![name] = a]
  /\ ensAgentKeys' = IF a \in Range(ensAgentKeys) THEN ensAgentKeys
                     ELSE Append(ensAgentKeys, a)
  /\ UNCHANGED regVars

\* The agent stays in ensAgentKeys.
RevokeENSName(sender, a) ==
  /\ OwnerOf(sender, a)
  /\ HasENSName(a)
  /\ ensName' = [ensName EXCEPT ![a] = EmptyName]
  /\ ensNodeToAgent' = [ensNodeToAgent EXCEPT ![ensName[a]] = None]
  /\ UNCHANGED <<regVars, ensAgentKeys>>

ENSStep(s, a) ==
  \/ \E n \in AnyName, sc \in RoleScope, r \in Rules :
       RegisterAgentWithENS(s, a, n, sc, r)
  \/ \E n \in AnyName : AssignENSName(s, a, n)
  \/ RevokeENSName(s, a)

Next ==
  \/ RegNext /\ UNCHANGED ensVars
  \/ \E s \in Sender, a \in Agent : ENSStep(s, a)

Spec == Init /\ [][Next]_vars

(***************************************************************************)
(* Properties                                                              *)
(***************************************************************************)

\* A node that leads to an agent is the node of that agent's present name,
\* however names are taken over, moved and revoked by several owners: what
\* getAgentByENSNode returns is never a name given up.
ReverseIsCurrent ==
  \A n \in Name : ensNodeToAgent[n] # None => ensName[ensNodeToAgent[n]] = n

\* Every agent with a name is enumerated by getENSAgentsPaginated, once.
NamedAgentsEnumerated ==
  /\ IsInjective(ensAgentKeys)
  /\ \A a \in Agent : HasENSName(a) => Registered(a) /\ a \in Range(ensAgentKeys)

\* Both enumerations of the contract are exact.
EnumerationsExact == EnumerationExact /\ NamedAgentsEnumerated

\* An agent the contract itself owns can never be changed again, neither its
\* policy nor its name: there is nobody to send the transaction.
OrphansAreFrozen ==
  [][\A a \in Agent :
       Registered(a) /\ policies[a].owner = Self
         => policies'[a] = policies[a] /\ ensName'[a] = ensName[a]]_vars
=============================================================================
