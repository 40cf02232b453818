--------------------------- MODULE Registry_proofs --------------------------
(***************************************************************************)
(* Theorems about the agent registry and its names (RegistryENS), about    *)
(* its mirror (PolicyMirror), and that the policy page does to registry    *)
(* and mirror only what PolicyMirror allows, for every set of wallets,     *)
(* agents and names.                                                       *)
(***************************************************************************)
EXTENDS PolicyForm, SequenceTheorems, TLAPS

\* What appending does to the elements of a list.
LEMMA AppendRange ==
  ASSUME NEW S, NEW s \in Seq(S), NEW m \in S
  PROVE  /\ Append(s, m) \in Seq(S)
         /\ Range(Append(s, m)) = Range(s) \cup {m}
         /\ IsInjective(s) /\ m \notin Range(s) => IsInjective(Append(s, m))
<1>1. /\ Append(s, m) \in Seq(S)
      /\ DOMAIN s = 1 .. Len(s) /\ Len(s) \in Nat
      /\ DOMAIN Append(s, m) = 1 .. Len(s) + 1
      /\ \A i \in 1 .. Len(s) : Append(s, m)[i] = s[i]
      /\ Append(s, m)[Len(s) + 1] = m
  BY AppendProperties, LenProperties
<1>2. ASSUME NEW x \in Range(Append(s, m)) PROVE x \in Range(s) \cup {m}
  <2>1. PICK i \in 1 .. Len(s) + 1 : x = Append(s, m)[i]
    BY <1>1, <1>2 DEF Range
  <2>2. CASE i = Len(s) + 1
    BY <1>1, <2>1, <2>2
  <2>3. CASE i \in 1 .. Len(s)
    BY <1>1, <2>1, <2>3 DEF Range
  <2> QED
    BY <1>1, <2>2, <2>3
<1>3. ASSUME NEW x \in Range(s) PROVE x \in Range(Append(s, m))
  <2>1. PICK i \in 1 .. Len(s) : x = s[i]
    BY <1>1, <1>3 DEF Range
  <2> QED
    BY <1>1, <2>1 DEF Range
<1>4. m \in Range(Append(s, m))
  BY <1>1 DEF Range
<1>5. ASSUME IsInjective(s), m \notin Range(s) PROVE IsInjective(Append(s, m))
  <2>1. \A i \in 1 .. Len(s) : s[i] # m
    BY <1>1, <1>5 DEF Range
  <2> QED
    BY <1>1, <1>5, <2>1 DEF IsInjective
<1> QED
  BY <1>1, <1>2, <1>3, <1>4, <1>5

-----------------------------------------------------------------------------
(***************************************************************************)
(* Every transaction is of one of three kinds: it registers an agent, it   *)
(* changes the policy of one agent, or it changes the name of one agent.   *)
(***************************************************************************)

Registers(o, a) ==
  \E sc \in RoleScope, r \in Rules : RegisterAgent(o, a, sc, r)

LEMMA RegisterEffect ==
  ASSUME RegTypeOK, NEW o \in Account, NEW a \in Agent, Registers(o, a)
  PROVE  /\ RegTypeOK' /\ ~Registered(a)
         /\ policies'[a] \in Policy /\ policies'[a].owner = o
         /\ \A b \in Agent \ {a} : policies'[b] = policies[b]
         /\ allAgentKeys' = Append(allAgentKeys, a)
         /\ ownerAgents' = [ownerAgents EXCEPT ![o] = Append(@, a)]
<1>1. PICK sc \in RoleScope, r \in Rules : RegisterAgent(o, a, sc, r)
  BY DEF Registers
<1> DEFINE p == [owner |-> o, roleScope |-> sc, rules |-> r,
                 threshold |-> ThresholdMajority, active |-> TRUE]
<1>2. /\ policies' = [policies EXCEPT ![a] = p] /\ ~Registered(a)
      /\ allAgentKeys' = Append(allAgentKeys, a)
      /\ ownerAgents' = [ownerAgents EXCEPT ![o] = Append(@, a)]
  BY <1>1 DEF RegisterAgent
<1>3. p \in Policy /\ p.owner = o
  BY DEF Policy, ThresholdAny, ThresholdMajority, ThresholdUnanimous
<1> HIDE DEF p
<1>4. Append(allAgentKeys, a) \in Seq(Agent) /\ Append(ownerAgents[o], a) \in Seq(Agent)
  BY AppendProperties DEF RegTypeOK
<1> QED
  BY <1>2, <1>3, <1>4 DEF RegTypeOK

LEMMA OwnerEffect ==
  ASSUME RegTypeOK, NEW s \in Sender, NEW a \in Agent, OwnerStep(s, a)
  PROVE  /\ RegTypeOK' /\ UNCHANGED allAgentKeys
         /\ Registered(a) /\ policies[a].owner = s /\ policies'[a] \in Policy
         /\ \A b \in Agent \ {a} : policies'[b] = policies[b]
         /\ \/ policies'[a].owner = s /\ UNCHANGED ownerAgents
            \/ /\ policies'[a].owner \in Account
               /\ ownerAgents' = [ownerAgents EXCEPT ![policies'[a].owner] =
                                    Append(@, a)]
<1> USE DEF OwnerOf, Registered
<1>1. Registered(a) => policies[a] \in Policy
  BY DEF RegTypeOK
<1>2. ASSUME NEW r \in Rules, NEW t \in Threshold, UpdatePolicy(s, a, r, t)
      PROVE  /\ RegTypeOK' /\ UNCHANGED <<ownerAgents, allAgentKeys>>
             /\ Registered(a) /\ policies[a].owner = s
             /\ policies'[a] \in Policy /\ policies'[a].owner = s
             /\ \A b \in Agent \ {a} : policies'[b] = policies[b]
  BY <1>1, <1>2 DEF UpdatePolicy, RegTypeOK, Policy
<1>3. ASSUME NEW sc \in RoleScope, UpdateRoleScope(s, a, sc)
      PROVE  /\ RegTypeOK' /\ UNCHANGED <<ownerAgents, allAgentKeys>>
             /\ Registered(a) /\ policies[a].owner = s
             /\ policies'[a] \in Policy /\ policies'[a].owner = s
             /\ \A b \in Agent \ {a} : policies'[b] = policies[b]
  BY <1>1, <1>3 DEF UpdateRoleScope, RegTypeOK, Policy
<1>4. ASSUME DeactivateAgent(s, a) \/ ReactivateAgent(s, a)
      PROVE  /\ RegTypeOK' /\ UNCHANGED <<ownerAgents, allAgentKeys>>
             /\ Registered(a) /\ policies[a].owner = s
             /\ policies'[a] \in Policy /\ policies'[a].owner = s
             /\ \A b \in Agent \ {a} : policies'[b] = policies[b]
  <2>1. PICK b \in BOOLEAN : policies' = [policies EXCEPT ![a].active = b]
    BY <1>4 DEF DeactivateAgent, ReactivateAgent
  <2>2. PICK p, q : /\ p = policies[a] /\ p \in Policy /\ p.owner = s
                   /\ q = [p EXCEPT !.active = b]
    BY <1>1, <1>4 DEF DeactivateAgent, ReactivateAgent, RegTypeOK, OwnerOf, Registered
  <2>3. q \in Policy /\ q.owner = s
    BY <2>2 DEF Policy
  <2>4. policies \in [Agent -> Policy \cup {None}] /\ policies' = [policies EXCEPT ![a] = q]
    BY <1>1, <2>1, <2>2 DEF RegTypeOK
  <2>5. /\ policies'[a] \in Policy /\ policies'[a].owner = s
        /\ \A c \in Agent \ {a} : policies'[c] = policies[c]
        /\ policies' \in [Agent -> Policy \cup {None}]
    BY <2>3, <2>4
  <2> QED
    BY <1>1, <1>4, <2>5 DEF DeactivateAgent, ReactivateAgent, RegTypeOK
<1>5. ASSUME NEW o \in Account, TransferAgentOwnership(s, a, o)
      PROVE  /\ RegTypeOK' /\ UNCHANGED allAgentKeys
             /\ Registered(a) /\ policies[a].owner = s
             /\ policies'[a] \in Policy /\ policies'[a].owner = o
             /\ \A b \in Agent \ {a} : policies'[b] = policies[b]
             /\ ownerAgents' = [ownerAgents EXCEPT ![o] = Append(@, a)]
  <2>1. Append(ownerAgents[o], a) \in Seq(Agent)
    BY AppendProperties DEF RegTypeOK
  <2>2. /\ policies' = [policies EXCEPT ![a] = [policies[a] EXCEPT !.owner = o]]
        /\ [policies[a] EXCEPT !.owner = o] \in Policy
        /\ [policies[a] EXCEPT !.owner = o].owner = o
    BY <1>1, <1>5 DEF TransferAgentOwnership, Policy
  <2> QED
    BY <1>5, <2>1, <2>2 DEF TransferAgentOwnership, RegTypeOK
<1> QED
  BY <1>2, <1>3, <1>4, <1>5 DEF OwnerStep

\* The steps of Next, sorted.
LEMMA Steps ==
  ASSUME [Next]_vars
  PROVE  \/ \E s \in Sender, a \in Agent : Registers(s, a) /\ UNCHANGED ensVars
         \/ \E s \in Sender, a \in Agent : OwnerStep(s, a) /\ UNCHANGED ensVars
         \/ \E s \in Sender, a \in Agent, n \in AnyName, sc \in RoleScope, r \in Rules :
              RegisterAgentWithENS(s, a, n, sc, r)
         \/ \E s \in Sender, a \in Agent, n \in AnyName : AssignENSName(s, a, n)
         \/ \E s \in Sender, a \in Agent : RevokeENSName(s, a)
         \/ UNCHANGED vars
BY DEF Next, RegNext, ENSStep, Registers

\* A registration with a name registers for the contract itself.
LEMMA WithENSRegisters ==
  ASSUME NEW s \in Sender, NEW a \in Agent, NEW n \in AnyName,
         NEW sc \in RoleScope, NEW r \in Rules,
         RegisterAgentWithENS(s, a, n, sc, r)
  PROVE  /\ Self \in Account /\ Registers(Self, a)
         /\ ensName' = [ensName EXCEPT ![a] = n]
         /\ ensNodeToAgent' = [ensNodeToAgent EXCEPT ![n] = a]
         /\ ensAgentKeys' = Append(ensAgentKeys, a)
BY ENSAssumption DEF RegisterAgentWithENS, Registers

-----------------------------------------------------------------------------
LEMMA NoneIsNoAgent == None \notin Agent /\ None \notin Policy
BY NoneAssumption

RegInv == RegTypeOK /\ EnumerationExact /\ OwnersFindTheirAgents

LEMMA RegInvInit == Init => RegInv
<1> SUFFICES ASSUME Init PROVE RegInv
  OBVIOUS
<1>1. RegTypeOK /\ ~\E a \in Agent : Registered(a)
  BY EmptySeq DEF Init, RegInit, RegTypeOK, Registered
<1>2. EnumerationExact
  BY <1>1 DEF EnumerationExact, Init, RegInit, IsInjective, Range
<1> QED
  BY <1>1, <1>2 DEF RegInv, OwnersFindTheirAgents

LEMMA RegInvRegister ==
  ASSUME RegInv, NEW o \in Account, NEW a \in Agent, Registers(o, a)
  PROVE  RegInv'
<1>1. /\ RegTypeOK' /\ ~Registered(a)
      /\ policies'[a] \in Policy /\ policies'[a].owner = o
      /\ \A b \in Agent \ {a} : policies'[b] = policies[b]
      /\ allAgentKeys' = Append(allAgentKeys, a)
      /\ ownerAgents' = [ownerAgents EXCEPT ![o] = Append(@, a)]
  BY RegisterEffect DEF RegInv
<1>2. /\ allAgentKeys \in Seq(Agent) /\ ownerAgents \in [Account -> Seq(Agent)]
      /\ \A b \in Agent : Registered(b) => policies[b] \in Policy
  BY DEF RegInv, RegTypeOK, Registered
<1>3. {b \in Agent : Registered(b)}' = {b \in Agent : Registered(b)} \cup {a}
  BY <1>1, NoneIsNoAgent DEF Registered
<1>4. EnumerationExact'
  <2>1. IsInjective(allAgentKeys) /\ a \notin Range(allAgentKeys)
    BY <1>1 DEF RegInv, EnumerationExact
  <2>2. IsInjective(allAgentKeys') /\ Range(allAgentKeys') = Range(allAgentKeys) \cup {a}
    BY <1>1, <1>2, <2>1, AppendRange
  <2> QED
    BY <1>3, <2>2 DEF EnumerationExact, RegInv
<1>5. ASSUME NEW b \in Agent, Registered(b)'
      PROVE  b \in Range(ownerAgents'[policies'[b].owner])
  <2>1. Range(Append(ownerAgents[o], a)) = Range(ownerAgents[o]) \cup {a}
    BY <1>2, AppendRange
  <2>2. CASE b = a
    BY <1>1, <1>2, <2>1, <2>2
  <2>3. CASE b # a
    <3>1. /\ policies'[b] = policies[b] /\ policies[b].owner \in Account
          /\ b \in Range(ownerAgents[policies[b].owner])
      BY <1>1, <1>2, <1>5, <2>3 DEF Registered, RegInv, OwnersFindTheirAgents, Policy
    <3>2. CASE policies[b].owner = o
      BY <1>1, <1>2, <2>1, <3>1, <3>2
    <3>3. CASE policies[b].owner # o
      BY <1>1, <1>2, <3>1, <3>3
    <3> QED
      BY <3>2, <3>3
  <2> QED
    BY <2>2, <2>3
<1> QED
  BY <1>1, <1>4, <1>5 DEF RegInv, OwnersFindTheirAgents

LEMMA RegInvOwner ==
  ASSUME RegInv, NEW s \in Sender, NEW a \in Agent, OwnerStep(s, a)
  PROVE  RegInv'
<1>1. /\ RegTypeOK' /\ UNCHANGED allAgentKeys
      /\ Registered(a) /\ policies[a].owner = s /\ policies'[a] \in Policy
      /\ \A b \in Agent \ {a} : policies'[b] = policies[b]
      /\ \/ policies'[a].owner = s /\ UNCHANGED ownerAgents
         \/ /\ policies'[a].owner \in Account
            /\ ownerAgents' = [ownerAgents EXCEPT ![policies'[a].owner] =
                                 Append(@, a)]
  BY OwnerEffect DEF RegInv
<1>2. /\ ownerAgents \in [Account -> Seq(Agent)]
      /\ \A b \in Agent : Registered(b) => policies[b] \in Policy
      /\ policies \in [Agent -> Policy \cup {None}]
  BY DEF RegInv, RegTypeOK, Registered
<1>3. \A b \in Agent : Registered(b)' <=> Registered(b)
  BY <1>1, NoneIsNoAgent DEF Registered
<1>4. EnumerationExact'
  BY <1>1, <1>3 DEF RegInv, EnumerationExact
<1>5. ASSUME NEW b \in Agent, Registered(b)'
      PROVE  b \in Range(ownerAgents'[policies'[b].owner])
  <2>1. /\ Registered(b) /\ policies[b].owner \in Account
        /\ b \in Range(ownerAgents[policies[b].owner])
    BY <1>2, <1>3, <1>5 DEF RegInv, OwnersFindTheirAgents, Policy
  <2>2. CASE policies'[a].owner = s /\ UNCHANGED ownerAgents
    <3>1. policies'[b].owner = policies[b].owner
      BY <1>1, <2>2
    <3> QED
      BY <2>1, <2>2, <3>1
  <2>3. CASE /\ policies'[a].owner \in Account
             /\ ownerAgents' = [ownerAgents EXCEPT ![policies'[a].owner] =
                                  Append(@, a)]
    <3> DEFINE o == policies'[a].owner
    <3>1. Range(Append(ownerAgents[o], a)) = Range(ownerAgents[o]) \cup {a}
      BY <1>2, <2>3, AppendRange
    <3>2. /\ ownerAgents'[o] = Append(ownerAgents[o], a)
          /\ \A x \in Account \ {o} : ownerAgents'[x] = ownerAgents[x]
      BY <1>2, <2>3
    <3> HIDE DEF o
    <3>3. CASE b = a
      BY <3>1, <3>2, <3>3 DEF o
    <3>4. CASE b # a
      <4>1. policies'[b].owner = policies[b].owner
        BY <1>1, <3>4
      <4>2. CASE policies[b].owner = o
        BY <2>1, <3>1, <3>2, <4>1, <4>2
      <4>3. CASE policies[b].owner # o
        BY <2>1, <3>2, <4>1, <4>3
      <4> QED
        BY <4>2, <4>3
    <3> QED
      BY <3>3, <3>4
  <2> QED
    BY <1>1, <2>2, <2>3
<1> QED
  BY <1>1, <1>4, <1>5 DEF RegInv, OwnersFindTheirAgents

LEMMA RegInvStep == RegInv /\ [Next]_vars => RegInv'
<1> SUFFICES ASSUME RegInv, [Next]_vars PROVE RegInv'
  OBVIOUS
<1>1. ASSUME NEW s \in Sender, NEW a \in Agent, Registers(s, a) PROVE RegInv'
  BY <1>1, RegInvRegister, RegistryAssumption
<1>2. ASSUME NEW s \in Sender, NEW a \in Agent, OwnerStep(s, a) PROVE RegInv'
  BY <1>2, RegInvOwner
<1>3. ASSUME NEW s \in Sender, NEW a \in Agent, NEW n \in AnyName,
             NEW sc \in RoleScope, NEW r \in Rules,
             RegisterAgentWithENS(s, a, n, sc, r)
      PROVE  RegInv'
  BY <1>3, WithENSRegisters, RegInvRegister
<1>4. ASSUME UNCHANGED regVars PROVE RegInv'
  BY <1>4 DEF regVars, RegInv, RegTypeOK, EnumerationExact, OwnersFindTheirAgents,
              Registered
<1>5. ASSUME NEW s \in Sender, NEW a \in Agent, NEW n \in AnyName,
             AssignENSName(s, a, n)
      PROVE  RegInv'
  BY <1>4, <1>5 DEF AssignENSName
<1>6. CASE UNCHANGED vars
  BY <1>4, <1>6 DEF vars
<1>7. ASSUME NEW s \in Sender, NEW a \in Agent, RevokeENSName(s, a) PROVE RegInv'
  BY <1>4, <1>7 DEF RevokeENSName
<1> QED
  BY <1>1, <1>2, <1>3, <1>5, <1>6, <1>7, Steps

\* Every registered agent is enumerated once, however agents change hands.
THEOREM Enumeration == Spec => []EnumerationExact
<1>1. Spec => []RegInv
  BY RegInvInit, RegInvStep, PTL DEF Spec
<1>2. RegInv => EnumerationExact
  BY DEF RegInv
<1> QED
  BY <1>1, <1>2, PTL

\* The owner of an agent finds it in the list kept for the owner.
THEOREM OwnersFind == Spec => []OwnersFindTheirAgents
<1>1. Spec => []RegInv
  BY RegInvInit, RegInvStep, PTL DEF Spec
<1>2. RegInv => OwnersFindTheirAgents
  BY DEF RegInv
<1> QED
  BY <1>1, <1>2, PTL

-----------------------------------------------------------------------------
\* An agent in ensAgentKeys is registered: a new agent is not in it yet.
ENSTypes ==
  /\ ensName \in [Agent -> AnyName]
  /\ ensNodeToAgent \in [AnyName -> Agent \cup {None}]
  /\ ensAgentKeys \in Seq(Agent)

ENSInv ==
  /\ ENSTypes
  /\ ReverseIsCurrent
  /\ NamedAgentsEnumerated
  /\ \A a \in Agent : a \in Range(ensAgentKeys) => Registered(a)

LEMMA ENSInvInit == Init => ENSInv
<1> SUFFICES ASSUME Init PROVE ENSInv
  OBVIOUS
<1>1. ENSTypes
  BY EmptySeq DEF Init, ENSTypes, AnyName
<1>2. ReverseIsCurrent
  BY DEF Init, ReverseIsCurrent, AnyName
<1>3. IsInjective(ensAgentKeys) /\ Range(ensAgentKeys) = {}
  BY DEF Init, IsInjective, Range
<1>4. \A a \in Agent : ~HasENSName(a)
  BY DEF Init, HasENSName
<1> QED
  BY <1>1, <1>2, <1>3, <1>4 DEF ENSInv, NamedAgentsEnumerated

\* Names and lists stay, and no agent's registration ends.
LEMMA ENSInvKept ==
  ASSUME ENSInv, UNCHANGED ensVars, \A b \in Agent : Registered(b) => Registered(b)'
  PROVE  ENSInv'
<1>1. ENSTypes' /\ ReverseIsCurrent'
  BY DEF ENSInv, ENSTypes, ReverseIsCurrent, ensVars
<1>2. IsInjective(ensAgentKeys)' /\ Range(ensAgentKeys)' = Range(ensAgentKeys)
  BY DEF ENSInv, NamedAgentsEnumerated, ensVars
<1>3. \A b \in Agent : HasENSName(b)' <=> HasENSName(b)
  BY DEF HasENSName, ensVars
<1> QED
  BY <1>1, <1>2, <1>3 DEF ENSInv, NamedAgentsEnumerated, ensVars

LEMMA ENSInvWithENS ==
  ASSUME RegInv, ENSInv, NEW s \in Sender, NEW a \in Agent, NEW n \in AnyName,
         NEW sc \in RoleScope, NEW r \in Rules,
         RegisterAgentWithENS(s, a, n, sc, r)
  PROVE  ENSInv'
<1>1. /\ ~Registered(a) /\ policies'[a] \in Policy
      /\ \A b \in Agent \ {a} : policies'[b] = policies[b]
  BY WithENSRegisters, RegisterEffect DEF RegInv
<1>2. /\ ensName' = [ensName EXCEPT ![a] = n]
      /\ ensNodeToAgent' = [ensNodeToAgent EXCEPT ![n] = a]
      /\ ensAgentKeys' = Append(ensAgentKeys, a)
  BY WithENSRegisters
<1>3. /\ ensName \in [Agent -> AnyName]
      /\ ensNodeToAgent \in [AnyName -> Agent \cup {None}]
      /\ ensAgentKeys \in Seq(Agent)
  BY DEF ENSInv, ENSTypes
<1>4. a \notin Range(ensAgentKeys) /\ ensName[a] = EmptyName
  BY <1>1 DEF ENSInv, NamedAgentsEnumerated, HasENSName
<1>5. /\ Append(ensAgentKeys, a) \in Seq(Agent)
      /\ Range(ensAgentKeys') = Range(ensAgentKeys) \cup {a}
      /\ IsInjective(ensAgentKeys')
  BY <1>2, <1>3, <1>4, AppendRange DEF ENSInv, NamedAgentsEnumerated
<1>6. ENSTypes'
  BY <1>2, <1>3, <1>5 DEF ENSTypes
<1>7. ASSUME NEW x \in Name, ensNodeToAgent'[x] # None
      PROVE  ensName'[ensNodeToAgent'[x]] = x
  <2>1. x \in AnyName /\ x # EmptyName
    BY ENSAssumption DEF AnyName
  <2>2. CASE x = n
    BY <1>2, <1>3, <2>1, <2>2
  <2>3. CASE x # n
    <3>1. /\ ensNodeToAgent'[x] = ensNodeToAgent[x] /\ ensNodeToAgent[x] \in Agent
          /\ ensName[ensNodeToAgent[x]] = x
      BY <1>2, <1>3, <1>7, <2>1, <2>3 DEF ENSInv, ReverseIsCurrent
    <3>2. ensNodeToAgent[x] # a
      BY <1>4, <2>1, <3>1
    <3> QED
      BY <1>2, <1>3, <3>1, <3>2
  <2> QED
    BY <2>2, <2>3
<1>8. \A b \in Agent : Registered(b)' <=> Registered(b) \/ b = a
  BY <1>1, NoneIsNoAgent DEF Registered
<1>9. \A b \in Agent : HasENSName(b)' => HasENSName(b) \/ b = a
  BY <1>2, <1>3 DEF HasENSName
<1> QED
  BY <1>5, <1>6, <1>7, <1>8, <1>9
     DEF ENSInv, ReverseIsCurrent, NamedAgentsEnumerated

LEMMA ENSInvAssign ==
  ASSUME ENSInv, NEW s \in Sender, NEW a \in Agent, NEW n \in AnyName,
         AssignENSName(s, a, n)
  PROVE  ENSInv'
<1> DEFINE cleared == IF HasENSName(a)
                      THEN [ensNodeToAgent EXCEPT ![ensName[a]] = None]
                      ELSE ensNodeToAgent
<1>1. /\ Registered(a) /\ UNCHANGED regVars
      /\ ensName' = [ensName EXCEPT ![a] = n]
      /\ ensNodeToAgent' = [cleared EXCEPT ![n] = a]
      /\ ensAgentKeys' = IF a \in Range(ensAgentKeys) THEN ensAgentKeys
                         ELSE Append(ensAgentKeys, a)
  BY DEF AssignENSName, OwnerOf
<1>2. /\ ensName \in [Agent -> AnyName]
      /\ ensNodeToAgent \in [AnyName -> Agent \cup {None}]
      /\ ensAgentKeys \in Seq(Agent)
  BY DEF ENSInv, ENSTypes
<1>3. /\ cleared \in [AnyName -> Agent \cup {None}]
      /\ \A x \in AnyName : cleared[x] # None => cleared[x] = ensNodeToAgent[x]
      /\ ensName[a] # EmptyName => cleared[ensName[a]] = None
  BY <1>2 DEF HasENSName
<1> HIDE DEF cleared
<1>4. /\ ensAgentKeys' \in Seq(Agent) /\ IsInjective(ensAgentKeys')
      /\ Range(ensAgentKeys') = Range(ensAgentKeys) \cup {a}
  <2>1. CASE a \in Range(ensAgentKeys)
    BY <1>1, <1>2, <2>1 DEF ENSInv, NamedAgentsEnumerated
  <2>2. CASE a \notin Range(ensAgentKeys)
    BY <1>1, <1>2, <2>2, AppendRange DEF ENSInv, NamedAgentsEnumerated
  <2> QED
    BY <2>1, <2>2
<1>5. ENSTypes'
  BY <1>1, <1>2, <1>3, <1>4 DEF ENSTypes
<1>6. ASSUME NEW x \in Name, ensNodeToAgent'[x] # None
      PROVE  ensName'[ensNodeToAgent'[x]] = x
  <2>1. x \in AnyName /\ x # EmptyName
    BY ENSAssumption DEF AnyName
  <2>2. CASE x = n
    BY <1>1, <1>2, <1>3, <2>1, <2>2
  <2>3. CASE x # n
    <3>1. ensNodeToAgent'[x] = cleared[x]
      BY <1>1, <1>3, <2>1, <2>3
    <3>2. /\ cleared[x] = ensNodeToAgent[x] /\ ensNodeToAgent[x] \in Agent
          /\ ensName[ensNodeToAgent[x]] = x
      BY <1>2, <1>3, <1>6, <2>1, <3>1 DEF ENSInv, ReverseIsCurrent
    <3>3. ensNodeToAgent[x] # a
      BY <1>3, <1>6, <2>1, <3>1, <3>2
    <3> QED
      BY <1>1, <1>2, <3>1, <3>2, <3>3
  <2> QED
    BY <2>2, <2>3
<1>7. \A b \in Agent : Registered(b)' <=> Registered(b)
  BY <1>1 DEF Registered, regVars
<1>8. \A b \in Agent : HasENSName(b)' => HasENSName(b) \/ b = a
  BY <1>1, <1>2 DEF HasENSName
<1> QED
  BY <1>1, <1>4, <1>5, <1>6, <1>7, <1>8
     DEF ENSInv, ReverseIsCurrent, NamedAgentsEnumerated

LEMMA ENSInvRevoke ==
  ASSUME ENSInv, NEW s \in Sender, NEW a \in Agent, RevokeENSName(s, a)
  PROVE  ENSInv'
<1>1. /\ UNCHANGED regVars /\ UNCHANGED ensAgentKeys
      /\ ensName' = [ensName EXCEPT ![a] = EmptyName]
      /\ ensNodeToAgent' = [ensNodeToAgent EXCEPT ![ensName[a]] = None]
  BY DEF RevokeENSName
<1>2. /\ ensName \in [Agent -> AnyName] /\ EmptyName \in AnyName
      /\ ensNodeToAgent \in [AnyName -> Agent \cup {None}]
      /\ ensAgentKeys \in Seq(Agent)
  BY DEF ENSInv, ENSTypes, AnyName
<1>3. ENSTypes'
  BY <1>1, <1>2 DEF ENSTypes
<1>4. ASSUME NEW x \in Name, ensNodeToAgent'[x] # None
      PROVE  ensName'[ensNodeToAgent'[x]] = x
  <2>1. x \in AnyName /\ x # ensName[a]
    BY <1>1, <1>2, <1>4 DEF AnyName
  <2>2. /\ ensNodeToAgent'[x] = ensNodeToAgent[x] /\ ensNodeToAgent[x] \in Agent
        /\ ensName[ensNodeToAgent[x]] = x
    BY <1>1, <1>2, <1>4, <2>1 DEF ENSInv, ReverseIsCurrent
  <2> QED
    BY <1>1, <1>2, <2>1, <2>2
<1>5. \A b \in Agent : /\ Registered(b)' <=> Registered(b)
                       /\ HasENSName(b)' => HasENSName(b)
  BY <1>1, <1>2 DEF Registered, HasENSName, regVars
<1>6. IsInjective(ensAgentKeys)' /\ Range(ensAgentKeys)' = Range(ensAgentKeys)
  BY <1>1 DEF ENSInv, NamedAgentsEnumerated
<1> QED
  BY <1>3, <1>4, <1>5, <1>6 DEF ENSInv, ReverseIsCurrent, NamedAgentsEnumerated

LEMMA ENSInvStep == RegInv /\ ENSInv /\ [Next]_vars => ENSInv'
<1> SUFFICES ASSUME RegInv, ENSInv, [Next]_vars PROVE ENSInv'
  OBVIOUS
<1>1. ASSUME NEW s \in Sender, NEW a \in Agent, Registers(s, a), UNCHANGED ensVars
      PROVE  ENSInv'
  <2>1. /\ ~Registered(a)
        /\ \A b \in Agent \ {a} : policies'[b] = policies[b]
    BY <1>1, RegisterEffect, RegistryAssumption DEF RegInv
  <2> QED
    BY <1>1, <2>1, ENSInvKept DEF Registered
<1>2. ASSUME NEW s \in Sender, NEW a \in Agent, OwnerStep(s, a), UNCHANGED ensVars
      PROVE  ENSInv'
  <2>1. /\ policies'[a] \in Policy
        /\ \A b \in Agent \ {a} : policies'[b] = policies[b]
    BY <1>2, OwnerEffect DEF RegInv
  <2> QED
    BY <1>2, <2>1, NoneIsNoAgent, ENSInvKept DEF Registered
<1>3. ASSUME UNCHANGED vars PROVE ENSInv'
  BY <1>3, ENSInvKept DEF vars, regVars, Registered
<1> QED
  BY <1>1, <1>2, <1>3, ENSInvWithENS, ENSInvAssign, ENSInvRevoke, Steps

\* The types of the two contracts hold whatever callers try.
THEOREM TypeCorrect == Spec => []TypeOK
<1>1. RegInv /\ ENSInv => TypeOK
  BY DEF RegInv, ENSInv, ENSTypes, TypeOK
<1> QED
  BY <1>1, RegInvInit, RegInvStep, ENSInvInit, ENSInvStep, PTL DEF Spec

\* A node leads only to the agent whose present name it is.
THEOREM NodesLeadToCurrentNames == Spec => []ReverseIsCurrent
<1>1. ENSInv => ReverseIsCurrent
  BY DEF ENSInv
<1> QED
  BY <1>1, RegInvInit, RegInvStep, ENSInvInit, ENSInvStep, PTL DEF Spec

\* Every agent with a name is registered and enumerated once.
THEOREM NamesEnumerated == Spec => []NamedAgentsEnumerated
<1>1. ENSInv => NamedAgentsEnumerated
  BY DEF ENSInv
<1> QED
  BY <1>1, RegInvInit, RegInvStep, ENSInvInit, ENSInvStep, PTL DEF Spec

-----------------------------------------------------------------------------
LEMMA OrphanStep ==
  ASSUME RegInv, ENSInv, [Next]_vars, NEW a \in Agent,
         Registered(a), policies[a].owner = Self
  PROVE  policies'[a] = policies[a] /\ ensName'[a] = ensName[a]
<1>1. Self \in Account /\ Self \notin Sender
  BY ENSAssumption
<1>2. ASSUME NEW s \in Sender, NEW b \in Agent, Registers(s, b), UNCHANGED ensVars
      PROVE  policies'[a] = policies[a] /\ ensName'[a] = ensName[a]
  BY <1>2, RegisterEffect, RegistryAssumption DEF RegInv, ensVars
<1>3. ASSUME NEW s \in Sender, NEW b \in Agent, OwnerStep(s, b), UNCHANGED ensVars
      PROVE  policies'[a] = policies[a] /\ ensName'[a] = ensName[a]
  BY <1>1, <1>3, OwnerEffect DEF RegInv, ensVars
<1>4. ASSUME NEW s \in Sender, NEW b \in Agent, NEW n \in AnyName,
             NEW sc \in RoleScope, NEW r \in Rules,
             RegisterAgentWithENS(s, b, n, sc, r)
      PROVE  policies'[a] = policies[a] /\ ensName'[a] = ensName[a]
  <2>1. /\ ~Registered(b) /\ ensName' = [ensName EXCEPT ![b] = n]
        /\ \A x \in Agent \ {b} : policies'[x] = policies[x]
    BY <1>4, WithENSRegisters, RegisterEffect DEF RegInv
  <2> QED
    BY <2>1 DEF ENSInv, ENSTypes
<1>5. ASSUME NEW s \in Sender, NEW b \in Agent, NEW n \in AnyName,
             AssignENSName(s, b, n)
      PROVE  policies'[a] = policies[a] /\ ensName'[a] = ensName[a]
  BY <1>1, <1>5 DEF AssignENSName, OwnerOf, regVars, ENSInv, ENSTypes
<1>6. ASSUME NEW s \in Sender, NEW b \in Agent, RevokeENSName(s, b)
      PROVE  policies'[a] = policies[a] /\ ensName'[a] = ensName[a]
  BY <1>1, <1>6 DEF RevokeENSName, OwnerOf, regVars, ENSInv, ENSTypes
<1>7. ASSUME UNCHANGED vars
      PROVE  policies'[a] = policies[a] /\ ensName'[a] = ensName[a]
  BY <1>7 DEF vars, regVars, ensVars
<1> QED
  BY <1>2, <1>3, <1>4, <1>5, <1>6, <1>7, Steps

\* What the contract owns, nobody can change any more.
THEOREM OrphansFrozen == Spec => OrphansAreFrozen
<1>1. RegInv /\ ENSInv /\ [Next]_vars =>
        [\A a \in Agent :
           Registered(a) /\ policies[a].owner = Self
             => policies'[a] = policies[a] /\ ensName'[a] = ensName[a]]_vars
  BY OrphanStep
<1> QED
  BY <1>1, RegInvInit, RegInvStep, ENSInvInit, ENSInvStep, PTL
     DEF Spec, OrphansAreFrozen

\* The enumeration of all agents and the one of named agents are both exact.
THEOREM BothEnumerations == Spec => []EnumerationsExact
<1>1. EnumerationExact /\ NamedAgentsEnumerated => EnumerationsExact
  BY DEF EnumerationsExact
<1> QED
  BY <1>1, Enumeration, NamesEnumerated, PTL

-----------------------------------------------------------------------------
(***************************************************************************)
(* The mirror, and the page.                                               *)
(***************************************************************************)
\* A row of the sync route is a policy the agent had.
Real(a, w) == w.source = "chain-sync" => w \in {Record(p) : p \in past[a]}

RowsReal ==
  /\ \A a \in Agent : policies[a] # None => policies[a] \in past[a]
  /\ \A a \in Agent : kv[a] # None => Real(a, kv[a])
  /\ \A k \in DOMAIN stream : Real(stream[k][1], stream[k][2])
  /\ \A s \in Sync : sync[s].pc \in SyncStage => sync[s].agent \in Agent
  /\ \A s \in Sync : sync[s].pc = "write" =>
       sync[s].row \in Row /\ Real(sync[s].agent, sync[s].row)

\* An evaluation v from its seen policies to its verdict.
WasActive(v) == \E p \in v.seen : p # None /\ p.active

Rests(v) ==
  /\ Permits(v.row, v.intent)
  /\ \/ v.row \in {Record(p) : p \in v.seen \ {None}}
     \/ v.from = "kv" /\ Real(v.agent, v.row)

EvalInv(v) ==
  /\ v.pc # "idle" => /\ v.agent \in Agent /\ v.intent \in Intent
                      /\ policies[v.agent] \in v.seen
  /\ v.pc \in {"kv", "chain", "llm", "approve"} => WasActive(v)
  /\ v.pc = "kv" => v.from = "kv"
  /\ v.pc \in {"llm", "approve"} => Rests(v)

MirrorInv == RegTypeOK /\ MirrorTypeOK /\ RowsReal /\ \A e \in Eval : EvalInv(eval[e])

LEMMA RecordIsRow ==
  ASSUME NEW p \in Policy
  PROVE  Record(p) \in Row /\ Record(p) # None
BY MirrorAssumption DEF Policy, Row, Record, ThresholdAny, ThresholdUnanimous

LEMMA RegTypeStep == RegTypeOK /\ (RegNext \/ UNCHANGED regVars) => RegTypeOK'
<1> SUFFICES ASSUME RegTypeOK, RegNext \/ UNCHANGED regVars PROVE RegTypeOK'
  OBVIOUS
<1>1. CASE UNCHANGED regVars
  BY <1>1 DEF regVars, RegTypeOK
<1>2. CASE RegNext
  <2>1. PICK s \in Sender, a \in Agent :
          (\E sc \in RoleScope, r \in Rules : RegisterAgent(s, a, sc, r)) \/ OwnerStep(s, a)
    BY <1>2 DEF RegNext
  <2>2. CASE OwnerStep(s, a)
    BY <2>2, OwnerEffect
  <2>3. CASE \E sc \in RoleScope, r \in Rules : RegisterAgent(s, a, sc, r)
    BY <2>3, RegisterEffect, RegistryAssumption DEF Registers
  <2> QED
    BY <2>1, <2>2, <2>3
<1> QED
  BY <1>1, <1>2

LEMMA MirrorInvInit == MirrorInit => MirrorInv
<1> SUFFICES ASSUME MirrorInit PROVE MirrorInv
  OBVIOUS
<1>1. RegTypeOK
  BY EmptySeq DEF MirrorInit, RegInit, RegTypeOK
<1>2. MirrorTypeOK
  BY EmptySeq
  DEF MirrorInit, MirrorTypeOK, NoSync, NoEval, SyncRequest, Evaluation
<1>3. RowsReal
  BY DEF MirrorInit, RegInit, RowsReal, NoSync, SyncStage
<1>4. \A e \in Eval : EvalInv(eval[e])
  BY DEF MirrorInit, EvalInv, NoEval
<1> QED
  BY <1>1, <1>2, <1>3, <1>4 DEF MirrorInv

-----------------------------------------------------------------------------
(* The chain moves                                                         *)

LEMMA ChainKeeps == MirrorInv /\ ChainStep => MirrorInv'
<1> SUFFICES ASSUME MirrorInv, ChainStep PROVE MirrorInv'
  OBVIOUS
<1> USE DEF MirrorInv
<1>1. RegTypeOK'
  BY RegTypeStep DEF ChainStep
<1>2. \A a \in Agent : past[a] \subseteq past'[a] /\ past'[a] \subseteq Policy
  BY <1>1 DEF ChainStep, Witnessed, MirrorTypeOK, RegTypeOK
<1>3. \A s \in Sync : /\ sync'[s].pc = sync[s].pc /\ sync'[s].agent = sync[s].agent
                      /\ sync'[s].row = sync[s].row /\ sync'[s].current \in BOOLEAN
  BY DEF ChainStep, Witnessed, MirrorTypeOK, SyncRequest
<1>4. \A e \in Eval :
        /\ eval'[e].pc = eval[e].pc /\ eval'[e].agent = eval[e].agent
        /\ eval'[e].from = eval[e].from /\ eval'[e].intent = eval[e].intent
        /\ eval'[e].row = eval[e].row
        /\ eval'[e].seen = IF eval[e].pc = "idle" THEN eval[e].seen
                           ELSE eval[e].seen \cup {policies'[eval[e].agent]}
  BY DEF ChainStep, Witnessed, MirrorTypeOK, Evaluation
<1>5. MirrorTypeOK'
  <2>1. sync' \in [Sync -> SyncRequest]
    <3>1. sync' = [s \in Sync |-> [sync[s] EXCEPT !.current =
                    @ /\ policies'[sync[s].agent] = policies[sync[s].agent]]]
      BY DEF ChainStep, Witnessed
    <3>2. \A s \in Sync, b \in BOOLEAN :
            [sync[s] EXCEPT !.current = b] \in SyncRequest
      BY DEF MirrorTypeOK, SyncRequest
    <3>3. \A s \in Sync :
            (sync[s].current /\ policies'[sync[s].agent] = policies[sync[s].agent])
              \in BOOLEAN
      OBVIOUS
    <3> QED
      BY <3>1, <3>2, <3>3
  <2>2. \A e \in Eval : eval'[e].seen \in SUBSET (Policy \cup {None})
    <3> SUFFICES ASSUME NEW e \in Eval
                 PROVE  eval'[e].seen \subseteq Policy \cup {None}
      OBVIOUS
    <3>1. eval[e].seen \subseteq Policy \cup {None}
      BY DEF MirrorTypeOK, Evaluation
    <3>2. CASE eval[e].pc = "idle"
      BY <1>4, <3>1, <3>2
    <3>3. CASE eval[e].pc # "idle"
      <4>1. eval[e].agent \in Agent
        BY <3>3 DEF EvalInv
      <4>2. policies'[eval[e].agent] \in Policy \cup {None}
        BY <1>1, <4>1 DEF RegTypeOK
      <4> QED
        BY <1>4, <3>1, <3>3, <4>2
    <3> QED
      BY <3>2, <3>3
  <2>3. \A e \in Eval : eval'[e] \in Evaluation
    <3>1. \A e \in Eval : eval[e] \in Evaluation
      BY DEF MirrorTypeOK
    <3>2. ASSUME NEW e \in Eval PROVE eval'[e] \in Evaluation
      <4>1. CASE eval[e].pc = "idle"
        BY <3>1, <4>1 DEF ChainStep, Witnessed
      <4>2. CASE eval[e].pc # "idle"
        <5> DEFINE seen == eval[e].seen \cup {policies'[eval[e].agent]}
        <5>1. eval'[e] = [eval[e] EXCEPT !.seen = seen]
          BY <4>2 DEF ChainStep, Witnessed
        <5>2. seen \in SUBSET (Policy \cup {None})
          BY <1>4, <2>2, <4>2
        <5> HIDE DEF seen
        <5> QED
          BY <3>1, <5>1, <5>2 DEF Evaluation
      <4> QED
        BY <4>1, <4>2
    <3> QED
      BY <3>2
  <2>4. eval' \in [Eval -> Evaluation]
    BY <2>3 DEF ChainStep, Witnessed
  <2>5. past' \in [Agent -> SUBSET Policy] /\ owed' \in [Agent -> BOOLEAN]
    BY <1>2 DEF ChainStep, Witnessed, MirrorTypeOK
  <2>6. fresh' \in [Agent -> BOOLEAN]
    BY DEF ChainStep, Witnessed, MirrorTypeOK
  <2> QED
    BY <2>1, <2>4, <2>5, <2>6 DEF ChainStep, Witnessed, MirrorTypeOK
<1>6. \A a \in Agent : \A w : Real(a, w) => Real(a, w)'
  BY <1>2 DEF Real
<1>7. RowsReal'
  <2>1. \A a \in Agent : policies'[a] # None => policies'[a] \in past'[a]
    BY DEF ChainStep, Witnessed
  <2>2. \A a \in Agent : kv'[a] # None => Real(a, kv[a])'
    BY <1>6 DEF RowsReal, ChainStep, Witnessed
  <2>3. \A k \in DOMAIN stream : stream[k][1] \in Agent
    BY ElementOfSeq DEF MirrorTypeOK
  <2>4. \A k \in DOMAIN stream' : Real(stream[k][1], stream[k][2])'
    BY <1>6, <2>3 DEF RowsReal, ChainStep, Witnessed
  <2>5. \A s \in Sync : sync[s].pc = "write" => Real(sync[s].agent, sync[s].row)'
    BY <1>3, <1>6 DEF RowsReal, SyncStage, Real
  <2> QED
    BY <1>3, <2>1, <2>2, <2>4, <2>5 DEF RowsReal, SyncStage
<1>8. ASSUME NEW e \in Eval PROVE EvalInv(eval[e])'
  <2>1. eval[e].seen \subseteq eval'[e].seen
    BY <1>4
  <2>2. WasActive(eval[e]) => WasActive(eval[e])'
    BY <2>1 DEF WasActive
  <2>3. eval[e].pc # "idle" /\ Rests(eval[e]) => Rests(eval[e])'
    <3> SUFFICES ASSUME eval[e].pc # "idle", Rests(eval[e]) PROVE Rests(eval[e])'
      OBVIOUS
    <3>1. Permits(eval[e].row, eval[e].intent)'
      BY <1>4 DEF Rests, Permits
    <3>2. eval[e].agent \in Agent
      BY DEF EvalInv
    <3>3. Real(eval[e].agent, eval[e].row) => Real(eval[e].agent, eval[e].row)'
      <4> DEFINE a == eval[e].agent
                 w == eval[e].row
      <4>1. w.source = "chain-sync" /\ w \in {Record(p) : p \in past[a]}
              => w \in {Record(p) : p \in past'[a]}
        BY <1>2, <3>2
      <4>2. eval'[e].agent = a /\ eval'[e].row = w
        BY <1>4
      <4> QED
        BY <4>1, <4>2 DEF Real
    <3>4. eval'[e].row = eval[e].row /\ eval'[e].from = eval[e].from
          /\ eval'[e].agent = eval[e].agent
      BY <1>4
    <3> QED
      BY <2>1, <3>1, <3>3, <3>4 DEF Rests
  <2> QED
    BY <1>4, <2>2, <2>3 DEF EvalInv
<1> QED
  BY <1>1, <1>5, <1>7, <1>8

-----------------------------------------------------------------------------
(* Syncs, operators and the KV node                                        *)

LEMMA RegFrame ==
  ASSUME MirrorInv, UNCHANGED regVars
  PROVE  RegTypeOK'
BY DEF MirrorInv, RegTypeOK, regVars

LEMMA EvalFrame ==
  ASSUME MirrorInv, UNCHANGED <<policies, past, eval>>
  PROVE  \A e \in Eval : EvalInv(eval[e])'
BY DEF MirrorInv, EvalInv, WasActive, Rests, Real, Permits

\* What is appended to the stream of rows is real.
LEMMA AppendKeeps ==
  ASSUME MirrorInv, UNCHANGED past,
         NEW a \in Agent, NEW w \in Row, Real(a, w), Appended(a, w)
  PROVE  /\ stream' \in Seq(Agent \X Row)
         /\ \A k \in DOMAIN stream' : Real(stream[k][1], stream[k][2])'
<1>1. stream \in Seq(Agent \X Row)
  BY DEF MirrorInv, MirrorTypeOK
<1>2. stream' = Append(stream, <<a, w>>)
  BY DEF Appended
<1>3. stream' \in Seq(Agent \X Row) /\ DOMAIN stream' = 1 .. Len(stream) + 1
  BY <1>1, <1>2
<1>4. ASSUME NEW k \in DOMAIN stream' PROVE Real(stream[k][1], stream[k][2])'
  <2>1. CASE k \in DOMAIN stream
    BY <1>1, <1>2, <2>1 DEF MirrorInv, RowsReal, Real
  <2>2. CASE k = Len(stream) + 1
    BY <1>1, <1>2, <2>2 DEF Real
  <2> QED
    BY <1>1, <1>3, <2>1, <2>2
<1> QED
  BY <1>3, <1>4

\* A request of kv-sync that changes: what is left to show of it.
LEMMA SyncMoves ==
  ASSUME MirrorInv, UNCHANGED <<regVars, kv, eval, past>>,
         NEW s \in Sync, NEW r \in SyncRequest, sync' = [sync EXCEPT ![s] = r],
         r.pc \in SyncStage => r.agent \in Agent,
         r.pc = "write" => r.row \in Row /\ Real(r.agent, r.row),
         stream' \in Seq(Agent \X Row),
         owed' \in [Agent -> BOOLEAN], fresh' \in [Agent -> BOOLEAN],
         \A k \in DOMAIN stream' : Real(stream[k][1], stream[k][2])'
  PROVE  MirrorInv'
<1>1. RegTypeOK' /\ \A e \in Eval : EvalInv(eval[e])'
  BY RegFrame, EvalFrame DEF regVars
<1>2. MirrorTypeOK'
  BY DEF MirrorInv, MirrorTypeOK
<1>3. \A t \in Sync : sync'[t] = IF t = s THEN r ELSE sync[t]
  BY DEF MirrorInv, MirrorTypeOK
<1>4. RowsReal'
  BY <1>3 DEF MirrorInv, RowsReal, Real, regVars, SyncStage
<1> QED
  BY <1>1, <1>2, <1>4 DEF MirrorInv

LEMMA StreamFrame ==
  ASSUME MirrorInv, UNCHANGED <<stream, past>>
  PROVE  /\ stream' \in Seq(Agent \X Row)
         /\ \A k \in DOMAIN stream' : Real(stream[k][1], stream[k][2])'
BY DEF MirrorInv, MirrorTypeOK, RowsReal, Real

LEMMA SyncBeginKeeps ==
  ASSUME MirrorInv, NEW s \in Sync, NEW a \in Agent, SyncBegin(s, a)
  PROVE  MirrorInv'
<1> DEFINE r == [pc |-> "registered", agent |-> a, row |-> None, current |-> TRUE]
<1>1. r \in SyncRequest
  BY DEF SyncRequest, SyncStage
<1>2. owed' \in [Agent -> BOOLEAN] /\ fresh' \in [Agent -> BOOLEAN]
  BY DEF SyncBegin, MirrorInv, MirrorTypeOK
<1> QED
  BY <1>1, <1>2, SyncMoves, StreamFrame DEF SyncBegin, regVars

LEMMA SyncKeeps ==
  ASSUME MirrorInv, NEW s \in Sync, SyncStep(s)
  PROVE  MirrorInv'
<1>1. /\ sync[s] \in SyncRequest /\ owed \in [Agent -> BOOLEAN]
      /\ fresh \in [Agent -> BOOLEAN]
      /\ sync \in [Sync -> SyncRequest]
      /\ sync[s].pc \in SyncStage => sync[s].agent \in Agent
  BY DEF MirrorInv, MirrorTypeOK, RowsReal
<1>2. CASE SyncIsRegistered(s)
  <2> DEFINE r == [sync[s] EXCEPT !.pc =
                     IF Registered(sync[s].agent) THEN "policy" ELSE "failed"]
  <2>1. r \in SyncRequest /\ r.agent = sync[s].agent /\ r.pc # "write"
    BY <1>1 DEF SyncRequest, SyncStage
  <2>2. sync' = [sync EXCEPT ![s] = r] /\ sync[s].pc \in SyncStage
    BY <1>1, <1>2 DEF SyncIsRegistered, SyncStage
  <2> QED
    BY <1>1, <1>2, <2>1, <2>2, SyncMoves, StreamFrame DEF SyncIsRegistered, regVars
<1>3. CASE SyncGetPolicy(s)
  <2> DEFINE a == sync[s].agent
             w == Record(policies[a])
             r == [sync[s] EXCEPT !.pc = "write", !.row = w]
  <2>1. a \in Agent /\ policies[a] \in Policy /\ policies[a] \in past[a]
    BY <1>1, <1>3 DEF SyncGetPolicy, SyncStage, Registered, MirrorInv, RegTypeOK, RowsReal
  <2>2. w \in Row /\ Real(a, w)
    BY <2>1, RecordIsRow DEF Real
  <2>3. r \in SyncRequest /\ r.agent = a /\ r.row = w
    BY <1>1, <2>2 DEF SyncRequest, SyncStage
  <2>4. sync' = [sync EXCEPT ![s] = r]
    BY <1>1, <1>3 DEF SyncGetPolicy, SyncRequest
  <2>5. UNCHANGED <<regVars, kv, eval, past>> /\ UNCHANGED <<stream, past>>
        /\ owed' = owed /\ fresh' = fresh
    BY <1>3 DEF SyncGetPolicy, regVars
  <2> QED
    BY <1>1, <2>1, <2>2, <2>3, <2>4, <2>5, SyncMoves, StreamFrame
<1>4. ASSUME SyncWrite(s) \/ SyncFails(s) PROVE MirrorInv'
  <2>1. /\ stream' \in Seq(Agent \X Row)
        /\ \A k \in DOMAIN stream' : Real(stream[k][1], stream[k][2])'
    <3>1. CASE UNCHANGED stream
      BY <1>4, <3>1, StreamFrame DEF SyncWrite, SyncFails
    <3>2. CASE sync[s].pc = "write" /\ Appended(sync[s].agent, sync[s].row)
      BY <1>1, <1>4, <3>2, AppendKeeps
      DEF SyncWrite, SyncFails, MirrorInv, RowsReal, SyncStage
    <3> QED
      BY <1>4, <3>1, <3>2 DEF SyncWrite, SyncFails
  <2>2. PICK pc \in {"ok", "failed"} :
          sync' = [sync EXCEPT ![s] = [NoSync EXCEPT !.pc = pc]]
    BY <1>4 DEF SyncWrite, SyncFails
  <2>3. [NoSync EXCEPT !.pc = pc] \in SyncRequest /\ [NoSync EXCEPT !.pc = pc].pc = pc
    BY DEF NoSync, SyncRequest
  <2>4. owed' \in [Agent -> BOOLEAN]
    <3>1. CASE SyncFails(s)
      BY <1>1, <3>1 DEF SyncFails
    <3>2. CASE SyncWrite(s)
      <4>1. (owed[sync[s].agent] /\ ~sync[s].current) \in BOOLEAN
        OBVIOUS
      <4> QED
        BY <1>1, <3>2, <4>1 DEF SyncWrite
    <3> QED
      BY <1>4, <3>1, <3>2
  <2>5. fresh' \in [Agent -> BOOLEAN]
    BY <1>1, <1>4 DEF SyncWrite, SyncFails, SyncRequest
  <2>6. UNCHANGED <<regVars, kv, eval, past>>
    BY <1>4 DEF SyncWrite, SyncFails
  <2> QED
    BY <2>1, <2>2, <2>3, <2>4, <2>5, <2>6, SyncMoves DEF SyncStage
<1> QED
  BY <1>2, <1>3, <1>4 DEF SyncStep

LEMMA PostKeeps ==
  ASSUME MirrorInv, NEW a \in Agent, NEW w \in Posts, PostPolicy(a, w)
  PROVE  MirrorInv'
<1>1. RegTypeOK' /\ \A e \in Eval : EvalInv(eval[e])'
  BY RegFrame, EvalFrame DEF PostPolicy, regVars
<1>2. w \in Row /\ Real(a, w)
  BY MirrorAssumption DEF Real
<1>3. /\ stream' \in Seq(Agent \X Row)
      /\ \A k \in DOMAIN stream' : Real(stream[k][1], stream[k][2])'
  BY <1>2, AppendKeeps DEF PostPolicy
<1>4. MirrorTypeOK'
  BY <1>3 DEF PostPolicy, MirrorInv, MirrorTypeOK
<1>5. RowsReal'
  BY <1>3 DEF PostPolicy, MirrorInv, RowsReal, Real, regVars
<1> QED
  BY <1>1, <1>4, <1>5 DEF MirrorInv

LEMMA ReplayKeeps == MirrorInv /\ Replay => MirrorInv'
<1> SUFFICES ASSUME MirrorInv, Replay PROVE MirrorInv'
  OBVIOUS
<1>1. RegTypeOK' /\ \A e \in Eval : EvalInv(eval[e])'
  BY RegFrame, EvalFrame DEF Replay, regVars
<1>2. stream \in Seq(Agent \X Row) /\ stream # <<>>
  BY DEF Replay, MirrorInv, MirrorTypeOK
<1>3. Head(stream) = stream[1] /\ 1 \in DOMAIN stream /\ stream[1] \in Agent \X Row
  BY <1>2
<1>4. /\ Tail(stream) \in Seq(Agent \X Row)
      /\ \A k \in DOMAIN Tail(stream) :
           k + 1 \in DOMAIN stream /\ Tail(stream)[k] = stream[k + 1]
  BY <1>2
<1>5. MirrorTypeOK'
  BY <1>3, <1>4 DEF Replay, MirrorInv, MirrorTypeOK
<1>6. RowsReal'
  <2>1. \A a \in Agent : kv'[a] # None => Real(a, kv[a])'
    BY <1>3 DEF Replay, MirrorInv, MirrorTypeOK, RowsReal, Real
  <2>2. \A k \in DOMAIN stream' : Real(stream[k][1], stream[k][2])'
    BY <1>4 DEF Replay, MirrorInv, RowsReal, Real
  <2> QED
    BY <2>1, <2>2 DEF Replay, MirrorInv, RowsReal, Real, regVars
<1> QED
  BY <1>1, <1>5, <1>6 DEF MirrorInv

-----------------------------------------------------------------------------
(* Evaluations                                                             *)

\* One evaluation moves, nothing else.
LEMMA EvalMoves ==
  ASSUME MirrorInv, UNCHANGED <<regVars, kv, stream, sync, past, owed, fresh>>,
         NEW e \in Eval, NEW r \in Evaluation, eval' = [eval EXCEPT ![e] = r],
         EvalInv(r)
  PROVE  MirrorInv'
<1>1. MirrorTypeOK' /\ RegTypeOK'
  BY RegFrame DEF MirrorInv, MirrorTypeOK
<1>2. RowsReal'
  BY DEF MirrorInv, RowsReal, Real, regVars
<1>3. \A d \in Eval : eval'[d] = IF d = e THEN r ELSE eval[d]
  BY DEF MirrorInv, MirrorTypeOK
<1>4. \A d \in Eval : EvalInv(eval[d])'
  BY <1>3 DEF MirrorInv, EvalInv, WasActive, Rests, Real, Permits, regVars
<1> QED
  BY <1>1, <1>2, <1>4 DEF MirrorInv

LEMMA EvalBeginKeeps ==
  ASSUME MirrorInv, NEW e \in Eval, NEW a \in Agent, NEW i \in Intent,
         NEW from \in Source, EvalBegin(e, a, i, from)
  PROVE  MirrorInv'
<1> DEFINE r == [pc |-> "registered", agent |-> a, from |-> from, intent |-> i,
                 seen |-> {policies[a]}, row |-> None]
<1>1. policies[a] \in Policy \cup {None}
  BY DEF MirrorInv, RegTypeOK
<1>2. r \in Evaluation
  BY <1>1, MirrorAssumption DEF Evaluation, GateStage
<1>3. EvalInv(r)
  BY DEF EvalInv
<1> QED
  BY <1>2, <1>3, EvalMoves DEF EvalBegin

\* The gate goes on to pc, or judges by a row that is real or was seen.
LEMMA GateGoes ==
  ASSUME MirrorInv, NEW e \in Eval, eval[e].pc # "idle",
         NEW pc \in GateStage \cup {"approve", "block"}, GateGoesTo(e, pc),
         pc \in {"kv", "chain"} => WasActive(eval[e]),
         pc = "kv" => eval[e].from = "kv",
         pc = "approve" => eval[e].pc = "llm"
  PROVE  MirrorInv'
<1> DEFINE v == eval[e]
           r == [v EXCEPT !.pc = pc]
<1>1. v \in Evaluation /\ eval \in [Eval -> Evaluation] /\ EvalInv(v)
  BY DEF MirrorInv, MirrorTypeOK
<1>2. /\ r \in Evaluation /\ r.pc = pc /\ r.agent = v.agent /\ r.from = v.from
      /\ r.intent = v.intent /\ r.seen = v.seen /\ r.row = v.row
  BY <1>1 DEF Evaluation, GateStage
<1> HIDE DEF r
<1>3. EvalInv(r)
  BY <1>1, <1>2 DEF EvalInv, WasActive, Rests, Real, GateStage
<1>4. eval' = [eval EXCEPT ![e] = r]
  BY <1>1 DEF GateGoesTo, r
<1> QED
  BY <1>2, <1>3, <1>4, EvalMoves DEF GateGoesTo

LEMMA Judges ==
  ASSUME MirrorInv, NEW e \in Eval, NEW w \in Row, Judge(e, w),
         eval[e].pc # "idle", WasActive(eval[e]),
         \/ w \in {Record(p) : p \in eval[e].seen \ {None}}
         \/ eval[e].from = "kv" /\ Real(eval[e].agent, w)
  PROVE  MirrorInv'
<1> DEFINE v == eval[e]
           pc == IF Permits(w, v.intent) THEN "llm" ELSE "block"
           r == [v EXCEPT !.row = w, !.pc = pc]
<1>1. v \in Evaluation /\ eval \in [Eval -> Evaluation] /\ EvalInv(v)
  BY DEF MirrorInv, MirrorTypeOK
<1>2. /\ r \in Evaluation /\ r.pc = pc /\ r.agent = v.agent /\ r.from = v.from
      /\ r.intent = v.intent /\ r.seen = v.seen /\ r.row = w
  BY <1>1 DEF Evaluation
<1>3. eval' = [eval EXCEPT ![e] = r]
  BY <1>1 DEF Judge, Evaluation
<1> HIDE DEF r
<1>4. EvalInv(r)
  BY <1>1, <1>2 DEF EvalInv, WasActive, Rests, Real
<1> QED
  BY <1>2, <1>3, <1>4, EvalMoves DEF Judge

LEMMA EvalKeeps ==
  ASSUME MirrorInv, NEW e \in Eval, EvalStep(e)
  PROVE  MirrorInv'
<1> DEFINE v == eval[e]
<1>1. v \in Evaluation /\ EvalInv(v)
  BY DEF MirrorInv, MirrorTypeOK
<1>2. CASE GateIsRegistered(e)
  <2>1. PICK pc \in {"active", "block"} : GateGoesTo(e, pc)
    BY <1>2 DEF GateIsRegistered
  <2>2. v.pc # "idle"
    BY <1>2 DEF GateIsRegistered
  <2> QED
    BY <2>1, <2>2, GateGoes DEF GateStage
<1>3. CASE GateIsActive(e)
  <2>1. v.pc = "active" /\ v.agent \in Agent /\ policies[v.agent] \in v.seen
    BY <1>1, <1>3 DEF GateIsActive, EvalInv
  <2>2. CASE policies[v.agent] # None /\ policies[v.agent].active
    <3>1. WasActive(v) /\ GateGoesTo(e, v.from)
      BY <1>3, <2>1, <2>2 DEF GateIsActive, WasActive
    <3>2. v.from \in {"kv", "chain"}
      BY <1>1 DEF Evaluation
    <3> QED
      BY <2>1, <3>1, <3>2, GateGoes DEF GateStage
  <2>3. CASE ~(policies[v.agent] # None /\ policies[v.agent].active)
    <3>1. GateGoesTo(e, "block")
      BY <1>3, <2>3 DEF GateIsActive
    <3> QED
      BY <2>1, <3>1, GateGoes DEF GateStage
  <2> QED
    BY <2>2, <2>3
<1>4. CASE GateReadsKv(e)
  <2>1. v.pc = "kv" /\ v.from = "kv" /\ WasActive(v) /\ v.agent \in Agent
    BY <1>1, <1>4 DEF GateReadsKv, EvalInv
  <2>2. CASE GateGoesTo(e, "chain")
    BY <2>1, <2>2, GateGoes DEF GateStage
  <2>3. CASE kv[v.agent] # None /\ Judge(e, kv[v.agent])
    <3>1. kv[v.agent] \in Row /\ Real(v.agent, kv[v.agent])
      BY <2>1, <2>3 DEF MirrorInv, MirrorTypeOK, RowsReal
    <3> QED
      BY <2>1, <2>3, <3>1, Judges
  <2> QED
    BY <1>4, <2>2, <2>3 DEF GateReadsKv
<1>5. CASE GateReadsChain(e)
  <2>1. v.pc = "chain" /\ WasActive(v) /\ v.agent \in Agent /\ policies[v.agent] \in v.seen
    BY <1>1, <1>5 DEF GateReadsChain, EvalInv
  <2>2. policies[v.agent] \in Policy /\ policies[v.agent] # None
    BY <1>5, <2>1 DEF GateReadsChain, Registered, MirrorInv, RegTypeOK
  <2>3. Record(policies[v.agent]) \in Row
    BY <2>2, RecordIsRow
  <2> QED
    BY <1>5, <2>1, <2>2, <2>3, Judges DEF GateReadsChain
<1>6. CASE GateFails(e)
  <2>1. v.pc # "idle" /\ GateGoesTo(e, "block")
    BY <1>6 DEF GateFails, GateStage
  <2> QED
    BY <2>1, GateGoes DEF GateStage
<1>7. CASE Infer(e)
  <2>1. PICK pc \in {"approve", "block"} : GateGoesTo(e, pc)
    BY <1>7 DEF Infer
  <2>2. v.pc = "llm"
    BY <1>7 DEF Infer
  <2> QED
    BY <2>1, <2>2, GateGoes DEF GateStage
<1> QED
  BY <1>2, <1>3, <1>4, <1>5, <1>6, <1>7 DEF EvalStep

-----------------------------------------------------------------------------
(* The theorems about the mirror                                           *)

LEMMA MirrorInvStep == MirrorInv /\ [MirrorNext]_chainVars => MirrorInv'
<1> SUFFICES ASSUME MirrorInv, [MirrorNext]_chainVars PROVE MirrorInv'
  OBVIOUS
<1>1. CASE ChainStep
  BY <1>1, ChainKeeps
<1>2. ASSUME NEW s \in Sync, SyncStep(s) \/ \E a \in Agent : SyncBegin(s, a)
      PROVE  MirrorInv'
  BY <1>2, SyncKeeps, SyncBeginKeeps
<1>3. CASE \E a \in Agent, w \in Posts : PostPolicy(a, w)
  BY <1>3, PostKeeps
<1>4. CASE Replay
  BY <1>4, ReplayKeeps
<1>5. ASSUME NEW e \in Eval,
             \/ EvalStep(e)
             \/ \E a \in Agent, i \in Intent, from \in Source : EvalBegin(e, a, i, from)
      PROVE  MirrorInv'
  BY <1>5, EvalKeeps, EvalBeginKeeps
<1>6. CASE UNCHANGED chainVars
  BY <1>6, RegFrame, EvalFrame
  DEF chainVars, mirrorVars, regVars, MirrorInv, MirrorTypeOK, RowsReal, Real
<1> QED
  BY <1>1, <1>2, <1>3, <1>4, <1>5, <1>6 DEF MirrorNext

LEMMA MirrorInvariant == MirrorSpec => []MirrorInv
BY MirrorInvInit, MirrorInvStep, PTL DEF MirrorSpec

LEMMA MirrorInvActive == MirrorInv => ApprovedWhileActive
BY DEF MirrorInv, EvalInv, WasActive, ApprovedWhileActive

LEMMA MirrorInvRests == MirrorInv => ApprovalRestsOnPolicy
BY DEF MirrorInv, EvalInv, Rests, Real, ApprovalRestsOnPolicy

\* No guardian approves an intent of an agent that was inactive all the time of
\* the evaluation, for any number of guardians, syncs and agents.
THEOREM ApprovalsWhileActive == MirrorSpec => []ApprovedWhileActive
BY MirrorInvariant, MirrorInvActive, PTL

\* Every approval rests on a policy the agent had, or on an operator's row.
THEOREM ApprovalsRestOnPolicies == MirrorSpec => []ApprovalRestsOnPolicy
BY MirrorInvariant, MirrorInvRests, PTL

\* Both of every approval by policy.
THEOREM ApprovalsAlwaysHold == MirrorSpec => []ApprovalsHold
BY ApprovalsWhileActive, ApprovalsRestOnPolicies, PTL DEF ApprovalsHold
-----------------------------------------------------------------------------
(* The mirror follows the registry                                         *)

IsCurrent(a, w) == policies[a] # None /\ w = Record(policies[a])

\* Row k is the last of agent a in the stream.
LastOf(a, k) == stream[k][1] = a /\ \A j \in DOMAIN stream : j > k => stream[j][1] # a

\* The row the mirror of a will end with is the current one.
EndsCurrent(a) ==
  /\ (\A k \in DOMAIN stream : stream[k][1] # a) => IsCurrent(a, kv[a])
  /\ \A k \in DOMAIN stream : LastOf(a, k) => IsCurrent(a, stream[k][2])

FollowInv ==
  /\ \A s \in Sync : sync[s].pc = "write" /\ sync[s].current
                       => IsCurrent(sync[s].agent, sync[s].row)
  /\ \A a \in Agent : fresh[a] => EndsCurrent(a)

LEMMA FollowInvInit == MirrorInit => FollowInv
BY DEF MirrorInit, FollowInv, NoSync

LEMMA FollowChain == MirrorInv /\ FollowInv /\ ChainStep => FollowInv'
<1> SUFFICES ASSUME MirrorInv, FollowInv, ChainStep PROVE FollowInv'
  OBVIOUS
<1>1. \A s \in Sync :
        /\ sync'[s].pc = sync[s].pc /\ sync'[s].agent = sync[s].agent
        /\ sync'[s].row = sync[s].row
        /\ sync'[s].current <=>
             sync[s].current /\ policies'[sync[s].agent] = policies[sync[s].agent]
  BY DEF ChainStep, Witnessed, MirrorInv, MirrorTypeOK, SyncRequest
<1>2. \A a \in Agent : fresh'[a] <=> fresh[a] /\ policies'[a] = policies[a]
  BY DEF ChainStep, Witnessed
<1>3. UNCHANGED <<kv, stream>>
  BY DEF ChainStep, Witnessed
<1>4. \A a \in Agent : fresh'[a] => EndsCurrent(a)'
  BY <1>2, <1>3 DEF FollowInv, EndsCurrent, LastOf, IsCurrent
<1> QED
  BY <1>1, <1>4 DEF FollowInv, IsCurrent

\* The chain and the stream are left alone.
LEMMA EndsFrame ==
  ASSUME FollowInv, UNCHANGED <<policies, kv, stream, fresh>>
  PROVE  \A a \in Agent : fresh'[a] => EndsCurrent(a)'
BY DEF FollowInv, EndsCurrent, LastOf, IsCurrent

\* A row is appended: what its agent ends with is this row, and another agent
\* ends with what it ended with.
LEMMA EndsAppend ==
  ASSUME MirrorInv, FollowInv, UNCHANGED <<policies, kv>>,
         NEW a \in Agent, NEW w \in Row, Appended(a, w),
         NEW b \in BOOLEAN, fresh' = [fresh EXCEPT ![a] = b], b => IsCurrent(a, w)
  PROVE  \A c \in Agent : fresh'[c] => EndsCurrent(c)'
<1>1. stream \in Seq(Agent \X Row) /\ fresh \in [Agent -> BOOLEAN]
  BY DEF MirrorInv, MirrorTypeOK
<1>2. stream' = Append(stream, <<a, w>>)
  BY DEF Appended
<1>3. /\ DOMAIN stream = 1 .. Len(stream) /\ DOMAIN stream' = 1 .. Len(stream) + 1
      /\ Len(stream) \in Nat
      /\ stream'[Len(stream) + 1] = <<a, w>>
      /\ \A k \in DOMAIN stream : stream'[k] = stream[k]
  BY <1>1, <1>2
<1> SUFFICES ASSUME NEW c \in Agent, fresh'[c] PROVE EndsCurrent(c)'
  OBVIOUS
<1>4. CASE c = a
  <2>1. IsCurrent(a, w)
    BY <1>1, <1>4
  <2>2. \A k \in DOMAIN stream' : LastOf(a, k)' => k = Len(stream) + 1
    BY <1>3 DEF LastOf
  <2>3. stream'[Len(stream) + 1][1] = a /\ stream'[Len(stream) + 1][2] = w
        /\ Len(stream) + 1 \in DOMAIN stream'
    BY <1>3
  <2> QED
    BY <1>4, <2>1, <2>2, <2>3 DEF EndsCurrent, IsCurrent
<1>5. CASE c # a
  <2>1. EndsCurrent(c)
    BY <1>1, <1>5 DEF FollowInv
  <2>2. (\A k \in DOMAIN stream' : stream'[k][1] # c)
          => \A k \in DOMAIN stream : stream[k][1] # c
    BY <1>3
  <2>3. ASSUME NEW k \in DOMAIN stream', LastOf(c, k)'
        PROVE  k \in DOMAIN stream /\ LastOf(c, k) /\ stream'[k] = stream[k]
    BY <1>3, <1>5, <2>3 DEF LastOf
  <2> QED
    BY <2>1, <2>2, <2>3 DEF EndsCurrent, IsCurrent
<1> QED
  BY <1>4, <1>5

\* The node replays the first row: the mirror has it, or a later one will come.
LEMMA EndsReplay ==
  ASSUME MirrorInv, FollowInv, Replay
  PROVE  \A a \in Agent : fresh'[a] => EndsCurrent(a)'
<1>1. /\ stream \in Seq(Agent \X Row) /\ stream # <<>>
      /\ kv \in [Agent -> Row \cup {None}]
  BY DEF Replay, MirrorInv, MirrorTypeOK
<1>2. /\ Len(stream) \in Nat \ {0} /\ DOMAIN stream = 1 .. Len(stream)
      /\ DOMAIN stream' = 1 .. Len(stream) - 1
      /\ \A k \in DOMAIN stream' : stream'[k] = stream[k + 1]
  <2>1. stream' = Tail(stream)
    BY DEF Replay
  <2>2. Len(stream) \in Nat \ {0} /\ DOMAIN stream = 1 .. Len(stream)
    BY <1>1
  <2>3. DOMAIN Tail(stream) = 1 .. Len(stream) - 1
    BY <1>1
  <2>4. \A k \in 1 .. Len(stream) - 1 : Tail(stream)[k] = stream[k + 1]
    BY <1>1, <2>2
  <2> QED
    BY <2>1, <2>2, <2>3, <2>4
<1>3. stream[1] \in Agent \X Row /\ kv' = [kv EXCEPT ![stream[1][1]] = stream[1][2]]
  <2>1. Head(stream) = stream[1] /\ stream[1] \in Agent \X Row
    BY <1>1
  <2> QED
    BY <2>1 DEF Replay
<1>4. UNCHANGED <<policies, fresh>>
  BY DEF Replay, regVars
<1> SUFFICES ASSUME NEW a \in Agent, fresh'[a] PROVE EndsCurrent(a)'
  OBVIOUS
<1>5. EndsCurrent(a)
  BY <1>4 DEF FollowInv
<1>6. ASSUME \A k \in DOMAIN stream' : stream'[k][1] # a PROVE IsCurrent(a, kv'[a])
  <2>1. \A k \in DOMAIN stream : k > 1 => stream[k][1] # a
    <3> SUFFICES ASSUME NEW k \in DOMAIN stream, k > 1 PROVE stream[k][1] # a
      OBVIOUS
    <3>1. k - 1 \in DOMAIN stream' /\ stream'[k - 1] = stream[(k - 1) + 1]
      BY <1>2
    <3> QED
      BY <1>2, <1>6, <3>1
  <2>2. CASE stream[1][1] = a
    <3>1. LastOf(a, 1)
      BY <2>1, <2>2 DEF LastOf
    <3> QED
      BY <1>1, <1>2, <1>3, <1>5, <2>2, <3>1 DEF EndsCurrent
  <2>3. CASE stream[1][1] # a
    <3>1. \A k \in DOMAIN stream : stream[k][1] # a
      BY <1>2, <2>1, <2>3
    <3>2. kv'[a] = kv[a]
      BY <1>1, <1>3, <2>3
    <3> QED
      BY <1>5, <3>1, <3>2 DEF EndsCurrent
  <2> QED
    BY <2>2, <2>3
<1>7. ASSUME NEW k \in DOMAIN stream', LastOf(a, k)' PROVE IsCurrent(a, stream'[k][2])
  <2>1. k + 1 \in DOMAIN stream /\ stream'[k] = stream[k + 1]
    BY <1>2
  <2>2. \A j \in DOMAIN stream : j > k + 1 => stream[j][1] # a
    <3> SUFFICES ASSUME NEW j \in DOMAIN stream, j > k + 1 PROVE stream[j][1] # a
      OBVIOUS
    <3>1. j - 1 \in DOMAIN stream' /\ j - 1 > k /\ stream'[j - 1] = stream[(j - 1) + 1]
      BY <1>2
    <3> QED
      BY <1>2, <1>7, <3>1 DEF LastOf
  <2>3. LastOf(a, k + 1)
    BY <1>7, <2>1, <2>2 DEF LastOf
  <2> QED
    BY <1>5, <2>1, <2>3 DEF EndsCurrent
<1> QED
  BY <1>4, <1>6, <1>7 DEF EndsCurrent, IsCurrent

\* A request of kv-sync that does not go on to write.
LEMMA SyncOthers ==
  ASSUME MirrorInv, FollowInv, UNCHANGED policies, NEW s \in Sync, NEW r,
         sync' = [sync EXCEPT ![s] = r], r.pc # "write"
  PROVE  \A t \in Sync : sync'[t].pc = "write" /\ sync'[t].current
                           => IsCurrent(sync[t].agent, sync[t].row)'
<1>1. \A t \in Sync : sync'[t] = IF t = s THEN r ELSE sync[t]
  BY DEF MirrorInv, MirrorTypeOK
<1> QED
  BY <1>1 DEF FollowInv, IsCurrent

LEMMA FollowSync ==
  ASSUME MirrorInv, FollowInv, NEW s \in Sync,
         SyncStep(s) \/ \E a \in Agent : SyncBegin(s, a)
  PROVE  FollowInv'
<1>1. /\ sync \in [Sync -> SyncRequest] /\ sync[s] \in SyncRequest
      /\ fresh \in [Agent -> BOOLEAN]
      /\ sync[s].pc = "write" => sync[s].agent \in Agent /\ sync[s].row \in Row
  BY DEF MirrorInv, MirrorTypeOK, RowsReal, SyncStage
<1>2. CASE \E a \in Agent : SyncBegin(s, a)
  <2>1. PICK a \in Agent : SyncBegin(s, a)
    BY <1>2
  <2>2. UNCHANGED <<policies, kv, stream, fresh>>
    BY <2>1 DEF SyncBegin, regVars
  <2>3. [pc |-> "registered", agent |-> a, row |-> None, current |-> TRUE].pc # "write"
    OBVIOUS
  <2> QED
    BY <2>1, <2>2, <2>3, EndsFrame, SyncOthers DEF SyncBegin, FollowInv
<1>3. CASE SyncIsRegistered(s)
  <2>1. UNCHANGED <<policies, kv, stream, fresh>>
    BY <1>3 DEF SyncIsRegistered, regVars
  <2>2. PICK r : r = [sync[s] EXCEPT !.pc =
                        IF Registered(sync[s].agent) THEN "policy" ELSE "failed"]
    OBVIOUS
  <2>3. r.pc # "write"
    BY <1>1, <2>2 DEF SyncRequest
  <2>4. sync' = [sync EXCEPT ![s] = r]
    BY <1>1, <1>3, <2>2 DEF SyncIsRegistered
  <2> QED
    BY <2>1, <2>3, <2>4, EndsFrame, SyncOthers DEF FollowInv
<1>4. CASE SyncGetPolicy(s)
  <2>1. UNCHANGED <<policies, kv, stream, fresh>> /\ policies[sync[s].agent] # None
    BY <1>4 DEF SyncGetPolicy, regVars, Registered
  <2>2. /\ sync'[s].agent = sync[s].agent
        /\ sync'[s].row = Record(policies[sync[s].agent])
        /\ \A t \in Sync \ {s} : sync'[t] = sync[t]
    BY <1>1, <1>4 DEF SyncGetPolicy, SyncRequest
  <2>3. ASSUME NEW t \in Sync, sync'[t].pc = "write" /\ sync'[t].current
        PROVE  IsCurrent(sync[t].agent, sync[t].row)'
    <3>1. CASE t = s
      BY <2>1, <2>2, <3>1 DEF IsCurrent, Record
    <3>2. CASE t # s
      BY <2>1, <2>2, <2>3, <3>2 DEF IsCurrent, FollowInv
    <3> QED
      BY <3>1, <3>2
  <2> QED
    BY <2>1, <2>3, EndsFrame DEF FollowInv
<1>5. ASSUME SyncWrite(s) \/ SyncFails(s) PROVE FollowInv'
  <2>1. PICK pc \in {"ok", "failed"} :
          sync' = [sync EXCEPT ![s] = [NoSync EXCEPT !.pc = pc]]
    BY <1>5 DEF SyncWrite, SyncFails
  <2>2. [NoSync EXCEPT !.pc = pc].pc # "write"
    BY DEF NoSync
  <2>3. UNCHANGED <<policies, kv>>
    BY <1>5 DEF SyncWrite, SyncFails, regVars
  <2>4. \A a \in Agent : fresh'[a] => EndsCurrent(a)'
    <3>1. CASE UNCHANGED <<stream, fresh>>
      BY <2>3, <3>1, EndsFrame
    <3>2. CASE /\ sync[s].pc = "write" /\ Appended(sync[s].agent, sync[s].row)
               /\ fresh' = [fresh EXCEPT ![sync[s].agent] = sync[s].current]
      <4>1. sync[s].current \in BOOLEAN
        BY <1>1 DEF SyncRequest
      <4>2. sync[s].current => IsCurrent(sync[s].agent, sync[s].row)
        BY <3>2 DEF FollowInv
      <4> QED
        BY <1>1, <2>3, <3>2, <4>1, <4>2, EndsAppend
    <3> QED
      BY <1>5, <3>1, <3>2 DEF SyncWrite, SyncFails
  <2> QED
    BY <2>1, <2>2, <2>3, <2>4, SyncOthers DEF FollowInv
<1> QED
  BY <1>2, <1>3, <1>4, <1>5 DEF SyncStep

\* What moves neither the chain nor a request of kv-sync.
LEMMA SyncFrame ==
  ASSUME FollowInv, UNCHANGED <<policies, sync>>
  PROVE  \A s \in Sync : sync'[s].pc = "write" /\ sync'[s].current
                           => IsCurrent(sync[s].agent, sync[s].row)'
BY DEF FollowInv, IsCurrent

LEMMA FollowInvStep == MirrorInv /\ FollowInv /\ [MirrorNext]_chainVars => FollowInv'
<1> SUFFICES ASSUME MirrorInv, FollowInv, [MirrorNext]_chainVars PROVE FollowInv'
  OBVIOUS
<1>1. CASE ChainStep
  BY <1>1, FollowChain
<1>2. ASSUME NEW s \in Sync, SyncStep(s) \/ \E a \in Agent : SyncBegin(s, a)
      PROVE  FollowInv'
  BY <1>2, FollowSync
<1>3. ASSUME NEW a \in Agent, NEW w \in Posts, PostPolicy(a, w) PROVE FollowInv'
  <2>1. UNCHANGED <<policies, kv, sync>> /\ Appended(a, w)
        /\ fresh' = [fresh EXCEPT ![a] = FALSE] /\ w \in Row
    BY <1>3, MirrorAssumption DEF PostPolicy, regVars
  <2>2. \A c \in Agent : fresh'[c] => EndsCurrent(c)'
    BY <2>1, EndsAppend
  <2> QED
    BY <2>1, <2>2, SyncFrame DEF FollowInv
<1>4. CASE Replay
  BY <1>4, EndsReplay, SyncFrame DEF FollowInv, Replay, regVars
<1>5. ASSUME UNCHANGED <<policies, kv, stream, sync, fresh>> PROVE FollowInv'
  BY <1>5, EndsFrame, SyncFrame DEF FollowInv
<1>6. ASSUME NEW e \in Eval,
             \/ EvalStep(e)
             \/ \E a \in Agent, i \in Intent, from \in Source : EvalBegin(e, a, i, from)
      PROVE  FollowInv'
  <2>1. UNCHANGED <<policies, kv, stream, sync, fresh>>
    BY <1>6 DEF EvalStep, GateIsRegistered, GateIsActive, GateReadsKv, GateReadsChain,
                GateFails, Infer, GateGoesTo, Judge, EvalBegin, regVars
  <2> QED
    BY <1>5, <2>1
<1>7. CASE UNCHANGED chainVars
  BY <1>5, <1>7 DEF chainVars, mirrorVars, regVars
<1> QED
  BY <1>1, <1>2, <1>3, <1>4, <1>6, <1>7 DEF MirrorNext

LEMMA FollowInvFollows == FollowInv => MirrorFollows
BY DEF FollowInv, EndsCurrent, IsCurrent, MirrorFollows, Mirrored

\* However many syncs overlap, fail or write late, and whatever operators write:
\* an agent whose last committed row is that of a sync that saw no change has
\* that policy in the mirror once its rows are replayed.
THEOREM MirrorCatchesUp == MirrorSpec => []MirrorFollows
<1>1. MirrorInit => MirrorInv /\ FollowInv
  BY MirrorInvInit, FollowInvInit
<1>2. MirrorInv /\ FollowInv /\ [MirrorNext]_chainVars => (MirrorInv /\ FollowInv)'
  BY MirrorInvStep, FollowInvStep
<1> QED
  BY <1>1, <1>2, FollowInvFollows, PTL DEF MirrorSpec

-----------------------------------------------------------------------------
(***************************************************************************)
(* The page is a user of the mirror.                                       *)
(***************************************************************************)
Op == [pc : Stage \cup {"idle"}, kind : Kind, agent : Agent \cup {None},
       rules : Rules \cup {None}, from : Sender \cup {None}, left : Seq(Agent),
       got : [Agent -> Policy \cup {None}]]

Tx == [state : {"none", "sent", "mined", "reverted"}, kind : Kind \cup {"link"},
       from : Sender \cup {None}, agent : Agent \cup {None}, rules : Rules \cup {None}]

\* A handler under way has what its next step needs.
OpOK(o) ==
  /\ o.pc # "idle" /\ o.kind # "connect" => o.agent \in Agent
  /\ o.pc \notin {"idle", "ids", "policies"} => o.kind # "connect"
  /\ o.pc # "idle" /\ (o.pc # "sync" \/ o.kind = "register") => o.from \in Sender
  /\ o.pc = "sign" => o.rules \in Rules
  /\ o.pc = "policies" => o.left # <<>>

TxOK(t) ==
  t.state = "sent" =>
    /\ t.from \in Sender /\ t.agent \in Agent
    /\ t.kind # "connect" /\ (t.kind # "link" => t.rules \in Rules)

PageInv ==
  /\ address \in Sender \cup {None}
  /\ op \in [Handler -> Op] /\ pool \in [Handler -> Tx]
  /\ \A h \in Handler : OpOK(op[h]) /\ TxOK(pool[h])

LEMMA NoOpOK == NoOp \in Op /\ OpOK(NoOp)
<1>1. Nothing \in [Agent -> Policy \cup {None}] /\ <<>> \in Seq(Agent)
  BY EmptySeq DEF Nothing
<1>2. NoOp \in Op
  BY <1>1 DEF NoOp, Op, Kind, Stage
<1>3. NoOp.pc = "idle"
  BY DEF NoOp
<1> QED
  BY <1>2, <1>3 DEF OpOK

LEMMA NoTxOK == NoTx \in Tx /\ TxOK(NoTx)
<1>1. NoTx \in Tx
  BY DEF NoTx, Tx, Kind
<1>2. NoTx.state = "none"
  BY DEF NoTx
<1> QED
  BY <1>1, <1>2 DEF TxOK

\* One handler moves on, and perhaps its transaction.
LEMMA OpMoves ==
  ASSUME PageInv, NEW h \in Handler, NEW o \in Op, OpOK(o),
         op' = [op EXCEPT ![h] = o], UNCHANGED <<address, pool>>
  PROVE  PageInv'
<1>1. \A g \in Handler : op'[g] = IF g = h THEN o ELSE op[g]
  BY DEF PageInv
<1>2. op' \in [Handler -> Op]
  BY DEF PageInv
<1>3. (\A g \in Handler : OpOK(op[g]) /\ TxOK(pool[g]))'
  BY <1>1 DEF PageInv, OpOK, TxOK
<1>4. (op \in [Handler -> Op] /\ pool \in [Handler -> Tx] /\ address \in Sender \cup {None})'
  BY <1>2 DEF PageInv, Op, Tx
<1> QED
  BY <1>3, <1>4 DEF PageInv

LEMMA TxMoves ==
  ASSUME PageInv, NEW h \in Handler, NEW o \in Op, OpOK(o), NEW t \in Tx, TxOK(t),
         op' = [op EXCEPT ![h] = o], pool' = [pool EXCEPT ![h] = t],
         address' \in Sender \cup {None}
  PROVE  PageInv'
<1>1. \A g \in Handler : /\ op'[g] = IF g = h THEN o ELSE op[g]
                         /\ pool'[g] = IF g = h THEN t ELSE pool[g]
  BY DEF PageInv
<1>2. op' \in [Handler -> Op] /\ pool' \in [Handler -> Tx]
  BY DEF PageInv
<1>3. (\A g \in Handler : OpOK(op[g]) /\ TxOK(pool[g]))'
  BY <1>1 DEF PageInv, OpOK, TxOK
<1>4. (op \in [Handler -> Op] /\ pool \in [Handler -> Tx] /\ address \in Sender \cup {None})'
  BY <1>2 DEF Op, Tx
<1> QED
  BY <1>3, <1>4 DEF PageInv

LEMMA PageSame ==
  ASSUME PageInv, UNCHANGED <<address, op, pool>>
  PROVE  PageInv'
BY DEF PageInv, OpOK, TxOK, Op, Tx

LEMMA StartKeeps ==
  ASSUME PageInv, NEW h \in Handler, NEW o \in Op, OpOK(o), Start(h, o),
         address' \in Sender \cup {None}
  PROVE  PageInv'
<1>1. PICK t : t = NoTx
  OBVIOUS
<1>2. op' = [op EXCEPT ![h] = o] /\ pool' = [pool EXCEPT ![h] = t]
  BY <1>1 DEF Start
<1> QED
  BY <1>1, <1>2, NoTxOK, TxMoves

LEMMA AccountKeeps ==
  ASSUME PageInv, NEW w \in Sender \cup {None}, AccountChanges(w)
  PROVE  PageInv'
<1>1. address' = w
  BY DEF AccountChanges
<1>2. CASE w = None
  <2>1. UNCHANGED <<op, pool>>
    BY <1>2 DEF AccountChanges
  <2> QED
    BY <1>1, <2>1 DEF PageInv, OpOK, TxOK, Op, Tx
<1>3. CASE w # None
  <2>1. PICK n : n = NoOp
    OBVIOUS
  <2>2. PICK o : o = [n EXCEPT !.pc = "ids", !.from = w]
    OBVIOUS
  <2>3. n \in Op /\ n.kind = "connect"
    BY <2>1, NoOpOK DEF NoOp
  <2>4. o \in Op /\ o.pc = "ids" /\ o.from = w /\ o.kind = "connect"
    BY <1>3, <2>2, <2>3 DEF Op, Stage
  <2>5. OpOK(o)
    BY <1>3, <2>4 DEF OpOK
  <2>6. PICK h \in Handler : Start(h, o)
    BY <1>3, <2>1, <2>2 DEF AccountChanges
  <2> QED
    BY <1>1, <2>4, <2>5, <2>6, StartKeeps
<1> QED
  BY <1>2, <1>3

LEMMA ClickKeeps ==
  ASSUME PageInv, NEW h \in Handler, NEW kind \in Kind \ {"connect"}, NEW a \in Agent,
         NEW rules \in Rules, Click(h, kind, a, rules)
  PROVE  PageInv'
<1>1. PICK n : n = NoOp
  OBVIOUS
<1>2. PICK o : o = [n EXCEPT !.pc = "sign", !.kind = kind, !.agent = a,
                             !.rules = rules, !.from = address]
  OBVIOUS
<1>3. n \in Op
  BY <1>1, NoOpOK
<1>4. address \in Sender /\ address' = address
  BY DEF PageInv, Click
<1>5. /\ o \in Op /\ o.pc = "sign" /\ o.from = address /\ o.kind = kind /\ o.agent = a
      /\ o.rules = rules
  BY <1>2, <1>3, <1>4 DEF Op, Stage
<1>6. OpOK(o)
  BY <1>4, <1>5 DEF OpOK
<1>7. Start(h, o)
  BY <1>1, <1>2 DEF Click
<1> QED
  BY <1>4, <1>5, <1>6, <1>7, StartKeeps

\* A handler ends, and a handler goes on to a stage it has what is needed for.
LEMMA EndsKeeps ==
  ASSUME PageInv, NEW h \in Handler, op' = [op EXCEPT ![h] = NoOp],
         UNCHANGED <<address, pool>>
  PROVE  PageInv'
<1>1. PICK o : o = NoOp
  OBVIOUS
<1> QED
  BY <1>1, NoOpOK, OpMoves

LEMMA GoesKeeps ==
  ASSUME PageInv, NEW h \in Handler, NEW pc \in Stage \ {"sign", "policies"},
         GoesTo(h, pc), UNCHANGED <<address, pool>>, op[h].pc # "idle",
         pc \notin {"ids"} => op[h].kind # "connect",
         pc # "sync" \/ op[h].kind = "register" => op[h].from \in Sender
  PROVE  PageInv'
<1>1. PICK p \in Op : p = op[h] /\ OpOK(p)
  BY DEF PageInv
<1>2. PICK o : o = [p EXCEPT !.pc = pc]
  OBVIOUS
<1>3. /\ o \in Op /\ o.pc = pc /\ o.kind = p.kind /\ o.agent = p.agent
      /\ o.from = p.from /\ pc # "sign" /\ pc # "policies"
  BY <1>1, <1>2 DEF Op
<1>4. OpOK(o)
  BY <1>1, <1>3 DEF OpOK
<1>5. op' = [op EXCEPT ![h] = o]
  BY <1>1, <1>2 DEF GoesTo, PageInv
<1> QED
  BY <1>3, <1>4, <1>5, OpMoves

LEMMA SignKeeps ==
  ASSUME PageInv, NEW h \in Handler, Sign(h)
  PROVE  PageInv'
<1>1. PICK p \in Op : p = op[h] /\ OpOK(p)
  BY DEF PageInv
<1>2. address \in Sender /\ address' = address /\ p.pc \in {"sign", "link"}
  BY <1>1 DEF PageInv, Sign
<1>3. PICK pc : pc = IF p.pc = "sign" THEN "wait" ELSE "linking"
  OBVIOUS
<1>4. PICK o : o = [p EXCEPT !.pc = pc]
  OBVIOUS
<1>5. PICK t : t = [state |-> "sent", kind |-> IF p.pc = "sign" THEN p.kind ELSE "link",
                    from |-> address, agent |-> p.agent, rules |-> p.rules]
  OBVIOUS
<1>6. p.agent \in Agent /\ p.kind # "connect" /\ (p.pc = "sign" => p.rules \in Rules)
  BY <1>1, <1>2 DEF OpOK
<1>7. /\ o \in Op /\ o.pc = pc /\ o.kind = p.kind /\ o.agent = p.agent /\ o.from = p.from
      /\ pc \in {"wait", "linking"}
  BY <1>1, <1>3, <1>4 DEF Op, Stage
<1>8. p.from \in Sender
  BY <1>1, <1>2 DEF OpOK
<1>9. OpOK(o)
  BY <1>6, <1>7, <1>8 DEF OpOK
<1>10. t \in Tx
  BY <1>1, <1>2, <1>5 DEF Tx, Op
<1>11. /\ t.from = address /\ t.agent = p.agent /\ t.rules = p.rules
       /\ t.kind = IF p.pc = "sign" THEN p.kind ELSE "link"
  BY <1>5
<1>12. TxOK(t)
  BY <1>2, <1>6, <1>11 DEF TxOK
<1>13. op' = [op EXCEPT ![h] = o] /\ pool' = [pool EXCEPT ![h] = t]
  BY <1>1, <1>3, <1>4, <1>5 DEF Sign, PageInv
<1> QED
  BY <1>2, <1>7, <1>9, <1>10, <1>12, <1>13, TxMoves

LEMMA MineKeeps ==
  ASSUME PageInv, NEW h \in Handler, Mine(h)
  PROVE  PageInv'
<1>1. PICK q \in Tx : q = pool[h]
  BY DEF PageInv
<1>2. PICK st \in {"mined", "reverted"} : pool' = [pool EXCEPT ![h].state = st]
  BY DEF Mine
<1>3. PICK t : t = [q EXCEPT !.state = st]
  OBVIOUS
<1>4. t \in Tx /\ t.state = st
  BY <1>1, <1>3 DEF Tx
<1>5. TxOK(t)
  BY <1>2, <1>4 DEF TxOK
<1>6. PICK o \in Op : o = op[h] /\ OpOK(o)
  BY DEF PageInv
<1>7. pool' = [pool EXCEPT ![h] = t] /\ op' = [op EXCEPT ![h] = o] /\ address' = address
  BY <1>1, <1>2, <1>3, <1>6 DEF Mine, PageInv
<1> QED
  BY <1>4, <1>5, <1>6, <1>7, TxMoves DEF PageInv

LEMMA BeginIsStep ==
  ASSUME NEW h \in Handler, NEW a \in Agent, SyncBegin(h, a)
  PROVE  [MirrorNext]_chainVars
BY DEF MirrorNext, Handler

LEMMA ReceiptKeeps ==
  ASSUME PageInv, NEW h \in Handler, Receipt(h)
  PROVE  PageInv' /\ [MirrorNext]_chainVars
<1>1. OpOK(op[h]) /\ op[h].pc \in {"wait", "linking"}
  BY DEF PageInv, Receipt
<1>2. op[h].agent \in Agent /\ op[h].from \in Sender /\ op[h].kind # "connect"
  BY <1>1 DEF OpOK
<1>3. UNCHANGED <<address, pool>>
  BY DEF Receipt
<1>4. CASE GoesTo(h, "sync") /\ SyncBegin(h, op[h].agent) /\ op[h].kind = "register"
  <2>1. "sync" \in Stage \ {"sign", "policies"}
    BY DEF Stage
  <2>2. PageInv'
    BY <1>1, <1>2, <1>3, <1>4, <2>1, GoesKeeps
  <2> QED
    BY <1>2, <1>4, <2>2, BeginIsStep
<1>5. CASE GoesTo(h, "ids") /\ UNCHANGED chainVars
  <2>1. "ids" \in Stage \ {"sign", "policies"}
    BY DEF Stage
  <2> QED
    BY <1>1, <1>2, <1>3, <1>5, <2>1, GoesKeeps
<1> QED
  BY <1>4, <1>5 DEF Receipt

LEMMA ReloadedKeeps ==
  ASSUME PageInv, NEW h \in Handler, op[h].pc \in {"ids", "policies"}, Reloaded(h),
         UNCHANGED <<address, pool>>
  PROVE  PageInv' /\ [MirrorNext]_chainVars
<1>1. PICK p \in Op : p = op[h] /\ OpOK(p)
  BY DEF PageInv
<1>2. CASE p.kind \in {"register", "connect"}
  <2>1. op' = [op EXCEPT ![h] = NoOp] /\ UNCHANGED chainVars
    BY <1>1, <1>2 DEF Reloaded
  <2> QED
    BY <2>1, EndsKeeps
<1>3. CASE p.kind \notin {"register", "connect"}
  <2>1. p.agent \in Agent /\ p.kind \in Kind
    BY <1>1, <1>3 DEF OpOK, Op
  <2>2. PICK n : n = NoOp
    OBVIOUS
  <2>3. PICK o : o = [n EXCEPT !.pc = "sync", !.kind = p.kind, !.agent = p.agent]
    OBVIOUS
  <2>4. n \in Op
    BY <2>2, NoOpOK
  <2>5. o \in Op /\ o.pc = "sync" /\ o.kind = p.kind /\ o.agent = p.agent
    BY <2>1, <2>3, <2>4 DEF Op, Stage
  <2>6. OpOK(o)
    BY <1>3, <2>1, <2>5 DEF OpOK
  <2>7. op' = [op EXCEPT ![h] = o] /\ SyncBegin(h, p.agent)
    BY <1>1, <1>3, <2>2, <2>3 DEF Reloaded
  <2>8. PageInv'
    BY <2>5, <2>6, <2>7, OpMoves
  <2> QED
    BY <2>1, <2>7, <2>8, BeginIsStep
<1> QED
  BY <1>2, <1>3

LEMMA LoadIdsKeeps ==
  ASSUME PageInv, RegTypeOK, NEW h \in Handler, LoadIds(h)
  PROVE  PageInv' /\ [MirrorNext]_chainVars
<1>1. PICK p \in Op : p = op[h] /\ OpOK(p)
  BY DEF PageInv
<1>2. p.pc = "ids" /\ p.from \in Account /\ p.from \in Sender
  BY <1>1, RegistryAssumption DEF LoadIds, OpOK
<1>3. PICK ids \in Seq(Agent) : ids = ownerAgents[p.from]
  BY <1>2 DEF RegTypeOK
<1>4. UNCHANGED <<address, pool>>
  BY DEF LoadIds
<1>5. CASE ids = <<>>
  BY <1>1, <1>2, <1>3, <1>4, <1>5, ReloadedKeeps DEF LoadIds
<1>6. CASE ids # <<>>
  <2>1. op' = [op EXCEPT ![h].pc = "policies", ![h].left = ids] /\ UNCHANGED chainVars
    BY <1>1, <1>3, <1>6 DEF LoadIds
  <2>2. PICK o : o = [p EXCEPT !.pc = "policies", !.left = ids]
    OBVIOUS
  <2>3. /\ o \in Op /\ o.pc = "policies" /\ o.left = ids /\ o.kind = p.kind
        /\ o.agent = p.agent /\ o.from = p.from
    BY <1>3, <2>2 DEF Op, Stage
  <2>4. OpOK(o)
    BY <1>1, <1>2, <1>6, <2>3 DEF OpOK
  <2>5. op' = [op EXCEPT ![h] = o]
    BY <1>1, <2>1, <2>2 DEF PageInv
  <2> QED
    BY <1>4, <2>1, <2>3, <2>4, <2>5, OpMoves
<1> QED
  BY <1>5, <1>6

LEMMA LoadPolicyKeeps ==
  ASSUME PageInv, RegTypeOK, NEW h \in Handler, LoadPolicy(h)
  PROVE  PageInv' /\ [MirrorNext]_chainVars
<1>1. PICK p \in Op : p = op[h] /\ OpOK(p)
  BY DEF PageInv
<1>2. p.pc = "policies" /\ UNCHANGED <<address, pool>>
  BY <1>1 DEF LoadPolicy
<1>3. p.left \in Seq(Agent) /\ p.left # <<>>
  BY <1>1, <1>2 DEF OpOK, Op
<1>4. Head(p.left) \in Agent /\ Tail(p.left) \in Seq(Agent) /\ Len(p.left) \in Nat
  BY <1>3, HeadTailProperties, LenProperties
<1>5. CASE Len(p.left) = 1
  BY <1>1, <1>2, <1>5, ReloadedKeeps DEF LoadPolicy
<1>6. CASE Len(p.left) # 1
  <2>1. PICK r \in Policy \cup {None} :
          /\ op' = [op EXCEPT ![h].left = Tail(@),
               ![h].got = [p.got EXCEPT ![Head(p.left)] = IF r = None THEN @ ELSE r]]
          /\ UNCHANGED chainVars
    BY <1>1, <1>4, <1>6 DEF LoadPolicy, RegTypeOK
  <2>2. PICK g : g = [p.got EXCEPT ![Head(p.left)] = IF r = None THEN @ ELSE r]
    OBVIOUS
  <2>3. g \in [Agent -> Policy \cup {None}]
    BY <1>1, <1>4, <2>1, <2>2 DEF Op
  <2>4. PICK o : o = [p EXCEPT !.left = Tail(p.left), !.got = g]
    OBVIOUS
  <2>5. /\ o \in Op /\ o.pc = p.pc /\ o.left = Tail(p.left) /\ o.kind = p.kind
        /\ o.agent = p.agent /\ o.from = p.from
    BY <1>4, <2>3, <2>4 DEF Op
  <2>6. Tail(p.left) # <<>>
    <3>1. Len(p.left) \in Nat \ {0}
      BY <1>3, EmptySeq
    <3>2. Len(Tail(p.left)) = Len(p.left) - 1
      BY <1>3, HeadTailProperties
    <3>3. Len(Tail(p.left)) # 0
      BY <1>6, <3>1, <3>2
    <3> QED
      BY <3>3, EmptySeq
  <2>7. OpOK(o)
    BY <1>1, <1>2, <2>5, <2>6 DEF OpOK
  <2>8. op' = [op EXCEPT ![h] = o]
    BY <1>1, <2>1, <2>2, <2>4 DEF PageInv
  <2> QED
    BY <1>2, <2>1, <2>5, <2>7, <2>8, OpMoves
<1> QED
  BY <1>5, <1>6

LEMMA HandlerKeeps ==
  ASSUME PageInv, RegTypeOK, NEW h \in Handler, HandlerStep(h)
  PROVE  PageInv' /\ [MirrorNext]_chainVars
<1>1. CASE Sign(h)
  BY <1>1, SignKeeps DEF Sign, Offline
<1>2. CASE TxFails(h)
  BY <1>2, EndsKeeps DEF TxFails, Offline
<1>3. CASE Receipt(h)
  BY <1>3, ReceiptKeeps
<1>4. CASE LoadIds(h)
  BY <1>4, LoadIdsKeeps
<1>5. CASE LoadPolicy(h)
  BY <1>5, LoadPolicyKeeps
<1>6. CASE LoadFails(h)
  BY <1>6, ReloadedKeeps DEF LoadFails
<1>7. CASE Synced(h)
  <2>1. UNCHANGED <<address, pool>> /\ UNCHANGED chainVars /\ op[h].pc = "sync" /\ OpOK(op[h])
    BY <1>7 DEF Synced, PageInv, Offline
  <2>2. CASE op' = [op EXCEPT ![h] = NoOp]
    BY <2>1, <2>2, EndsKeeps
  <2>3. CASE op[h].kind = "register" /\ \E pc \in {"ids", "ens"} : GoesTo(h, pc)
    <3>1. {"ids", "ens"} \subseteq Stage \ {"sign", "policies"}
      BY DEF Stage
    <3>2. op[h].from \in Sender
      BY <2>1, <2>3 DEF OpOK
    <3> QED
      BY <2>1, <2>3, <3>1, <3>2, GoesKeeps
  <2> QED
    BY <1>7, <2>2, <2>3 DEF Synced
<1>8. CASE EnsRegistered(h)
  <2>1. UNCHANGED <<address, pool>> /\ UNCHANGED chainVars /\ op[h].pc = "ens" /\ OpOK(op[h])
    BY <1>8 DEF EnsRegistered, PageInv, Offline
  <2>2. op[h].from \in Sender /\ op[h].kind # "connect" /\ "link" \in Stage \ {"sign", "policies"}
    BY <2>1 DEF OpOK, Stage
  <2> QED
    BY <1>8, <2>1, <2>2, EndsKeeps, GoesKeeps DEF EnsRegistered
<1> QED
  BY <1>1, <1>2, <1>3, <1>4, <1>5, <1>6, <1>7, <1>8 DEF HandlerStep

\* What the page mines is a transaction of the registry, or none of its business.
LEMMA MineIsStep ==
  ASSUME PageInv, NEW h \in Handler, Mine(h)
  PROVE  [MirrorNext]_chainVars
<1>1. CASE UNCHANGED chainVars
  BY <1>1
<1>2. CASE TxCall(pool[h]) /\ Witnessed
  <2>1. PICK t \in Tx : t = pool[h] /\ TxOK(t) /\ t.state = "sent"
    BY DEF PageInv, Mine
  <2>2. t.from \in Sender /\ t.agent \in Agent /\ (t.kind # "link" => t.rules \in Rules)
    BY <2>1 DEF TxOK
  <2>3. RegNext \/ UNCHANGED regVars
    BY <1>2, <2>1, <2>2 DEF TxCall, RegNext, OwnerStep, AssignENSName
  <2> QED
    BY <1>2, <2>3 DEF MirrorNext, ChainStep
<1> QED
  BY <1>1, <1>2 DEF Mine, Offline

LEMMA PageStepKeeps ==
  ASSUME PageInv, RegTypeOK, [EditorNext]_editorVars
  PROVE  PageInv' /\ [MirrorNext]_chainVars
<1>1. ASSUME NEW w \in Sender \cup {None}, AccountChanges(w)
      PROVE  PageInv' /\ [MirrorNext]_chainVars
  <2>1. UNCHANGED chainVars
    BY <1>1 DEF AccountChanges, Offline
  <2> QED
    BY <1>1, <2>1, AccountKeeps
<1>2. ASSUME NEW h \in Handler, NEW kind \in Kind \ {"connect"}, NEW a \in Agent,
             NEW rules \in Rules, Click(h, kind, a, rules)
      PROVE  PageInv' /\ [MirrorNext]_chainVars
  <2>1. UNCHANGED chainVars
    BY <1>2 DEF Click, Offline
  <2> QED
    BY <1>2, <2>1, ClickKeeps
<1>3. ASSUME NEW h \in Handler, Mine(h) PROVE PageInv' /\ [MirrorNext]_chainVars
  BY <1>3, MineKeeps, MineIsStep
<1>4. ASSUME NEW h \in Handler, Server(h) PROVE PageInv' /\ [MirrorNext]_chainVars
  BY <1>4, PageSame DEF Server, pageVars, MirrorNext, Handler
<1>5. CASE Elsewhere /\ UNCHANGED <<ensVars, address, shown, op, busy, pool>>
  <2>1. [MirrorNext]_chainVars
    BY <1>5 DEF Elsewhere, MirrorNext, ChainStep
  <2> QED
    BY <1>5, <2>1, PageSame
<1>6. CASE UNCHANGED editorVars
  BY <1>6, PageSame DEF editorVars, pageVars
<1> QED
  BY <1>1, <1>2, <1>3, <1>4, <1>5, <1>6, HandlerKeeps DEF EditorNext

\* The page refines the mirror: whatever its handlers do in whatever order, to the
\* registry and the mirror they are wallets, and requests of kv-sync, that
\* PolicyMirror allows, so what holds of every such user holds under the page.
THEOREM PageIsAUser == EditorSpec => MirrorSpec
<1>1. EditorInit => PageInv /\ MirrorInv /\ MirrorInit
  BY NoOpOK, NoTxOK, MirrorInvInit DEF EditorInit, PageInv
<1>2. PageInv /\ MirrorInv /\ [EditorNext]_editorVars => (PageInv /\ MirrorInv)'
  BY PageStepKeeps, MirrorInvStep DEF MirrorInv
<1>3. PageInv /\ MirrorInv /\ [EditorNext]_editorVars => [MirrorNext]_chainVars
  BY PageStepKeeps DEF MirrorInv
<1> QED
  BY <1>1, <1>2, <1>3, PTL DEF EditorSpec, MirrorSpec

-----------------------------------------------------------------------------
(***************************************************************************)
(* The form of the page and its history.                                   *)
(***************************************************************************)
\* A render whose list is the one before, or makes the form anew, keeps the form
\* of the selected agent.
LEMMA RenderKeeps ==
  ASSUME NEW anew \in BOOLEAN, NEW opened, FormIsOfSelected,
         Rendered(anew, opened),
         anew \/ UNCHANGED shown \/ shown' = Nothing
  PROVE  FormIsOfSelected'
<1> DEFINE now == Found(chosen', shown')
<1>1. now = Selected'
  BY DEF Selected
<1>2. /\ form' = IF now # None /\ (anew \/ now # Selected)
                 THEN [agent |-> now, rules |-> AsTyped(shown'[now].rules), typed |-> FALSE]
                 ELSE form
      /\ dialog' = (opened /\ now # None)
  BY DEF Rendered
<1>3. now # None => now \in Agent /\ shown'[now] # None
  BY DEF Found
<1>4. shown' = Nothing => now = None
  BY <1>3 DEF Nothing
<1>5. CASE now # None /\ (anew \/ now # Selected)
  <2>1. form' = [agent |-> now, rules |-> AsTyped(shown'[now].rules), typed |-> FALSE]
    BY <1>2, <1>5
  <2>2. form'.agent = now /\ form'.rules = AsTyped(shown'[now].rules)
    BY <2>1
  <2> QED
    BY <1>1, <1>2, <1>5, <2>2 DEF FormIsOfSelected
<1>6. CASE now # None /\ ~anew /\ now = Selected
  <2>1. form' = form /\ shown' = shown
    BY <1>2, <1>4, <1>6
  <2>2. form.agent = now /\ (form.typed \/ form.rules = AsTyped(shown[now].rules))
    BY <1>6 DEF FormIsOfSelected
  <2> QED
    BY <1>1, <1>2, <1>6, <2>1, <2>2 DEF FormIsOfSelected
<1>7. CASE now = None
  BY <1>1, <1>2, <1>7 DEF FormIsOfSelected
<1> QED
  BY <1>5, <1>6, <1>7

LEMMA SameForm ==
  ASSUME FormIsOfSelected, UNCHANGED <<chosen, dialog, form, shown>>
  PROVE  FormIsOfSelected'
BY DEF FormIsOfSelected, Selected, Found

LEMMA FormStep == FormIsOfSelected /\ [FormNext]_policyVars => FormIsOfSelected'
<1> SUFFICES ASSUME FormIsOfSelected, [FormNext]_policyVars PROVE FormIsOfSelected'
  OBVIOUS
<1>1. ASSUME NEW w \in Sender \cup {None}, AccountEffect(w) PROVE FormIsOfSelected'
  <2>1. Rendered(FALSE, dialog) /\ AccountChanges(w)
    BY <1>1 DEF AccountEffect
  <2>2. UNCHANGED shown \/ shown' = Nothing
    BY <2>1 DEF AccountChanges
  <2> QED
    BY <2>1, <2>2, RenderKeeps
<1>2. ASSUME NEW h \in Handler, SubmitNew(h) \/ Submit(h) PROVE FormIsOfSelected'
  BY <1>2, SameForm DEF SubmitNew, Submit, Click, formVars
<1>3. ASSUME NEW h \in Handler, Reload(h) PROVE FormIsOfSelected'
  <2>1. CASE Landing(h)
    BY <1>3, <2>1, RenderKeeps DEF Reload
  <2>2. CASE ~Landing(h)
    <3>1. UNCHANGED shown
      BY <1>3, <2>2 DEF Reload, Landing, LoadIds, LoadPolicy
    <3> QED
      BY <1>3, <2>2, <3>1, SameForm DEF Reload, formVars
  <2> QED
    BY <2>1, <2>2
<1>4. ASSUME NEW h \in Handler, ReloadFails(h) PROVE FormIsOfSelected'
  BY <1>4, RenderKeeps DEF ReloadFails, LoadFails
<1>5. ASSUME NEW h \in Handler, MineOne(h) PROVE FormIsOfSelected'
  BY <1>5, SameForm DEF MineOne, Mine, formVars
<1>6. ASSUME NEW h \in Handler,
             Sign(h) \/ TxFails(h) \/ Receipt(h) \/ Synced(h) \/ EnsRegistered(h) \/ Server(h),
             UNCHANGED formVars
      PROVE  FormIsOfSelected'
  BY <1>6, SameForm DEF Sign, TxFails, Receipt, Synced, EnsRegistered, Server, formVars, pageVars
<1>7. ASSUME NEW a \in Agent, OpenDialog(a) PROVE FormIsOfSelected'
  BY <1>7, RenderKeeps DEF OpenDialog, editorVars, pageVars
<1>8. ASSUME NEW a \in Agent, NEW s \in Sender, OtherTx(s, a) PROVE FormIsOfSelected'
  BY <1>8, SameForm DEF OtherTx, formVars
<1>9. CASE CloseDialog
  BY <1>9 DEF CloseDialog, FormIsOfSelected, Selected, Found, editorVars, pageVars
<1>10. ASSUME NEW rules \in Rules, TypeIn(rules) PROVE FormIsOfSelected'
  <2>1. /\ form' = [form EXCEPT !.rules = AsTyped(rules), !.typed = TRUE]
        /\ dialog /\ UNCHANGED <<chosen, dialog, shown>>
    BY <1>10 DEF TypeIn, editorVars, pageVars
  <2>2. form'.agent = form.agent /\ form'.typed
    BY <2>1
  <2> QED
    BY <2>1, <2>2 DEF FormIsOfSelected, Selected, Found
<1>11. ASSUME NEW r \in Load, AskFails(r) PROVE FormIsOfSelected'
  BY <1>11, SameForm DEF AskFails, editorVars, pageVars
<1>12. ASSUME NEW r \in Load, NEW kind \in Change, Answer(r, kind) PROVE FormIsOfSelected'
  BY <1>12, SameForm DEF Answer, editorVars, pageVars
<1>13. CASE UNCHANGED policyVars
  BY <1>13, SameForm DEF policyVars, formVars, editorVars, pageVars
<1> QED
  BY <1>1, <1>2, <1>3, <1>4, <1>5, <1>6, <1>7, <1>8, <1>9, <1>10, <1>11, <1>12, <1>13
     DEF FormNext, HandlerOn

\* However reloads, registrations and accounts change what is listed and
\* selected, the dialog has an agent, and its form is that agent's.
THEOREM FormFollows == FormSpec => []FormIsOfSelected
<1>1. FormInit => FormIsOfSelected
  <2>1. NoneAssumption => None \notin Agent
    BY DEF NoneAssumption
  <2> QED
    BY <2>1, NoneAssumption DEF FormInit, FormIsOfSelected, Selected, Found
<1> QED
  BY <1>1, FormStep, PTL DEF FormSpec

\* A load has of the events before it began those whose query is answered, and
\* nothing that is not an event of its agent.
ReadOK(q) ==
  /\ q.from <= Len(log)
  /\ q.got \subseteq EventsOf(q.agent, Len(log))
  /\ \A i \in EventsOf(q.agent, q.from) : log[i].kind \in q.left \/ i \in q.got

Read == [agent : Agent \cup {None}, left : SUBSET Change, got : SUBSET Nat, from : Nat]

LogOK == (\E S : log \in Seq(S)) /\ \A i \in 1 .. Len(log) : log[i].kind \in Change

HistoryInv ==
  /\ LogOK
  /\ reads \in [Load -> Read]
  /\ \A r \in Load : ReadOK(reads[r])
  /\ history.from \in Nat /\ history.from <= Len(log)
  /\ HistoryIsWhole

LEMMA LogLen == LogOK => Len(log) \in Nat
BY LenProperties DEF LogOK

\* What an emitted event changes: nothing of those before.
LEMMA LogGrows ==
  ASSUME LogOK, NEW kind \in Change, NEW a, Emits(kind, a)
  PROVE  /\ LogOK'
         /\ Len(log') = Len(log) + 1
         /\ \A i \in 1 .. Len(log) : log'[i] = log[i]
<1> DEFINE e == [kind |-> kind, agent |-> a]
<1>1. PICK S : log \in Seq(S)
  BY DEF LogOK
<1>2. log \in Seq(S \cup {e}) /\ e \in S \cup {e}
  BY <1>1, SeqMonotonic
<1>3. log' = Append(log, e)
  BY DEF Emits
<1>4. /\ log' \in Seq(S \cup {e}) /\ Len(log') = Len(log) + 1
      /\ \A i \in 1 .. Len(log) : log'[i] = log[i]
      /\ log'[Len(log) + 1] = e
  BY <1>2, <1>3, AppendProperties
<1>5. Len(log) \in Nat
  BY LogLen
<1>6. \A i \in 1 .. Len(log') : log'[i].kind \in Change
  <2> SUFFICES ASSUME NEW i \in 1 .. Len(log') PROVE log'[i].kind \in Change
    OBVIOUS
  <2>1. CASE i = Len(log) + 1
    BY <1>4, <2>1
  <2>2. CASE i # Len(log) + 1
    <3>1. i \in 1 .. Len(log)
      BY <1>4, <1>5, <2>2
    <3> QED
      BY <1>4, <3>1 DEF LogOK
  <2> QED
    BY <2>1, <2>2
<1> QED
  BY <1>4, <1>6 DEF LogOK

\* Events stay where they are.
LEMMA EventsStay ==
  ASSUME Len(log) \in Nat, Len(log) <= Len(log'), Len(log') \in Nat,
         \A i \in 1 .. Len(log) : log'[i] = log[i],
         NEW a, NEW n \in Nat, n <= Len(log)
  PROVE  /\ EventsOf(a, n)' = EventsOf(a, n)
         /\ EventsOf(a, Len(log)) \subseteq EventsOf(a, Len(log))'
<1>1. \A i \in 1 .. n : i \in 1 .. Len(log) /\ log'[i] = log[i]
  OBVIOUS
<1>2. \A i \in 1 .. Len(log) : i \in 1 .. Len(log')
  OBVIOUS
<1> QED
  BY <1>1, <1>2 DEF EventsOf

LEMMA ReadStays ==
  ASSUME Len(log) \in Nat, Len(log) <= Len(log'), Len(log') \in Nat,
         \A i \in 1 .. Len(log) : log'[i] = log[i],
         NEW q \in Read, ReadOK(q)
  PROVE  ReadOK(q)'
<1>1. q.from \in Nat /\ q.from <= Len(log)
  BY DEF Read, ReadOK
<1>2. /\ EventsOf(q.agent, q.from)' = EventsOf(q.agent, q.from)
      /\ EventsOf(q.agent, Len(log)) \subseteq EventsOf(q.agent, Len(log))'
  BY <1>1, EventsStay
<1>3. \A i \in EventsOf(q.agent, q.from) : log'[i] = log[i]
  BY <1>1 DEF EventsOf
<1>4. q.from <= Len(log')
  BY <1>1
<1>5. q.got \subseteq EventsOf(q.agent, Len(log))'
  BY <1>2 DEF ReadOK
<1>6. \A i \in EventsOf(q.agent, q.from)' : log'[i].kind \in q.left \/ i \in q.got
  BY <1>2, <1>3 DEF ReadOK
<1> QED
  BY <1>4, <1>5, <1>6 DEF ReadOK

LEMMA HistoryLog ==
  ASSUME HistoryInv, NEW kind \in Change, NEW a, Emits(kind, a),
         UNCHANGED <<reads, history>>
  PROVE  HistoryInv'
<1>1. /\ LogOK' /\ Len(log') = Len(log) + 1 /\ Len(log) \in Nat
      /\ \A i \in 1 .. Len(log) : log'[i] = log[i]
  BY LogGrows, LogLen DEF HistoryInv
<1>2. Len(log') \in Nat /\ Len(log) <= Len(log')
  BY <1>1
<1>3. (\A r \in Load : ReadOK(reads[r]))'
  <2> SUFFICES ASSUME NEW r \in Load PROVE ReadOK(reads[r])'
    OBVIOUS
  <2>1. PICK q \in Read : q = reads[r] /\ q = reads'[r] /\ ReadOK(q)
    BY DEF HistoryInv
  <2>2. ReadOK(q)'
    BY <1>1, <1>2, <2>1, ReadStays
  <2> QED
    BY <2>1, <2>2 DEF ReadOK, EventsOf
<1>4. HistoryIsWhole'
  <2> PICK b : b = history.agent
    OBVIOUS
  <2>1. PICK n \in Nat : n = history.from /\ n <= Len(log)
    BY DEF HistoryInv
  <2>2. /\ EventsOf(b, n)' = EventsOf(b, n)
        /\ EventsOf(b, Len(log)) \subseteq EventsOf(b, Len(log))'
    BY <1>1, <1>2, <2>1, EventsStay
  <2>3. /\ history.events \subseteq EventsOf(b, Len(log))'
        /\ EventsOf(b, n)' \subseteq history.events
    BY <2>1, <2>2 DEF HistoryInv, HistoryIsWhole
  <2> QED
    BY <2>1, <2>3 DEF HistoryIsWhole, EventsOf
<1>5. history'.from \in Nat /\ history'.from <= Len(log')
  BY <1>1 DEF HistoryInv
<1> QED
  BY <1>1, <1>3, <1>4, <1>5 DEF HistoryInv

LEMMA NoReadOK == NoRead \in Read /\ (LogOK => ReadOK(NoRead))
<1>1. NoRead \in Read
  BY DEF NoRead, Read
<1>2. NoRead.agent = None /\ NoRead.from = 0 /\ NoRead.got = {}
  BY DEF NoRead
<1>3. EventsOf(None, 0) = {}
  BY DEF EventsOf
<1> QED
  BY <1>1, <1>2, <1>3, LogLen DEF ReadOK

\* Changing one load to another that is well formed.
LEMMA OneRead ==
  ASSUME HistoryInv, UNCHANGED log, NEW r \in Load, NEW q \in Read, ReadOK(q),
         reads' = [reads EXCEPT ![r] = q],
         history'.from \in Nat, history'.from <= Len(log),
         history'.events \subseteq EventsOf(history'.agent, Len(log)),
         EventsOf(history'.agent, history'.from) \subseteq history'.events
  PROVE  HistoryInv'
<1>1. /\ reads' \in [Load -> Read]
      /\ \A t \in Load : reads'[t] = IF t = r THEN q ELSE reads[t]
  BY DEF HistoryInv
<1>2. (\A t \in Load : ReadOK(reads[t]))'
  <2> SUFFICES ASSUME NEW t \in Load PROVE ReadOK(reads[t])'
    OBVIOUS
  <2>1. PICK p : p = reads'[t] /\ ReadOK(p)
    BY <1>1 DEF HistoryInv
  <2> QED
    BY <2>1 DEF ReadOK, EventsOf
<1>3. LogOK'
  BY DEF HistoryInv, LogOK
<1>4. HistoryIsWhole'
  BY DEF HistoryIsWhole, EventsOf
<1>5. (history.from \in Nat /\ history.from <= Len(log))'
  OBVIOUS
<1>6. (reads \in [Load -> Read])'
  BY <1>1 DEF Read
<1> QED
  BY <1>2, <1>3, <1>4, <1>5, <1>6 DEF HistoryInv

LEMMA HistorySame ==
  ASSUME HistoryInv, UNCHANGED <<log, reads, history>>
  PROVE  HistoryInv'
BY DEF HistoryInv, LogOK, ReadOK, EventsOf, HistoryIsWhole, Read

LEMMA HistoryAsks ==
  ASSUME HistoryInv, NEW a \in Agent, Ask(a), UNCHANGED <<log, history>>
  PROVE  HistoryInv'
<1>1. Len(log) \in Nat
  BY LogLen DEF HistoryInv
<1>2. PICK r \in Load :
        reads' = [reads EXCEPT ![r] =
          [agent |-> a, left |-> Change, got |-> {}, from |-> Len(log)]]
  BY DEF Ask
<1>3. PICK q : q = [agent |-> a, left |-> Change, got |-> {}, from |-> Len(log)]
  OBVIOUS
<1>4. q \in Read
  BY <1>1, <1>3 DEF Read
<1>5. q.agent = a /\ q.left = Change /\ q.got = {} /\ q.from = Len(log)
  BY <1>3
<1>6. ReadOK(q)
  BY <1>1, <1>5 DEF ReadOK, EventsOf, HistoryInv, LogOK
<1>7. reads' = [reads EXCEPT ![r] = q]
  BY <1>2, <1>3
<1>8. history' = history /\ history.from \in Nat /\ history.from <= Len(log) /\ HistoryIsWhole
  BY DEF HistoryInv
<1> QED
  BY <1>4, <1>6, <1>7, <1>8, OneRead DEF HistoryIsWhole

LEMMA HistoryFails ==
  ASSUME HistoryInv, NEW r \in Load, AskFails(r)
  PROVE  HistoryInv'
<1>1. PICK q : q = NoRead
  OBVIOUS
<1>2. q \in Read /\ ReadOK(q)
  BY <1>1, NoReadOK DEF HistoryInv
<1>3. reads' = [reads EXCEPT ![r] = q] /\ UNCHANGED <<log, history>>
  BY <1>1 DEF AskFails
<1>4. history' = history /\ history.from \in Nat /\ history.from <= Len(log) /\ HistoryIsWhole
  BY <1>3 DEF HistoryInv
<1> QED
  BY <1>2, <1>3, <1>4, OneRead DEF HistoryIsWhole

LEMMA HistoryAnswer ==
  ASSUME HistoryInv, NEW r \in Load, NEW kind \in Change, Answer(r, kind)
  PROVE  HistoryInv'
<1>1. PICK p \in Read : p = reads[r] /\ ReadOK(p)
  BY DEF HistoryInv
<1>2. PICK got : got = p.got \cup {i \in EventsOf(p.agent, Len(log)) : log[i].kind = kind}
  OBVIOUS
<1>3. PICK left : left = p.left \ {kind}
  OBVIOUS
<1>4. /\ Len(log) \in Nat /\ p.from \in Nat /\ p.from <= Len(log)
      /\ p.agent \in Agent \cup {None} /\ p.left \subseteq Change /\ p.got \subseteq Nat
  BY <1>1, LogLen DEF HistoryInv, Read, ReadOK
<1>5. got \subseteq EventsOf(p.agent, Len(log)) /\ got \subseteq Nat
  BY <1>1, <1>2, <1>4 DEF ReadOK, EventsOf
<1>6. \A i \in EventsOf(p.agent, p.from) : log[i].kind \in left \/ i \in got
  <2> SUFFICES ASSUME NEW i \in EventsOf(p.agent, p.from) PROVE log[i].kind \in left \/ i \in got
    OBVIOUS
  <2>1. i \in EventsOf(p.agent, Len(log))
    BY <1>4 DEF EventsOf
  <2>2. log[i].kind \in p.left \/ i \in p.got
    BY <1>1 DEF ReadOK
  <2> QED
    BY <1>2, <1>3, <2>1, <2>2
<1>7. CASE left = {}
  <2>1. /\ history' = [agent |-> p.agent, events |-> got, from |-> p.from]
        /\ reads' = [reads EXCEPT ![r] = NoRead] /\ UNCHANGED log
    BY <1>1, <1>2, <1>3, <1>7 DEF Answer
  <2>2. history'.agent = p.agent /\ history'.events = got /\ history'.from = p.from
    BY <2>1
  <2>3. PICK q : q = NoRead
    OBVIOUS
  <2>4. q \in Read /\ ReadOK(q)
    BY <2>3, NoReadOK DEF HistoryInv
  <2>5. EventsOf(p.agent, p.from) \subseteq got
    BY <1>6, <1>7
  <2>6. reads' = [reads EXCEPT ![r] = q]
    BY <2>1, <2>3
  <2> QED
    BY <1>4, <1>5, <2>1, <2>2, <2>4, <2>5, <2>6, OneRead
<1>8. CASE left # {}
  <2>1. /\ reads' = [reads EXCEPT ![r].left = left, ![r].got = got]
        /\ history' = history /\ UNCHANGED log
    BY <1>1, <1>2, <1>3, <1>8 DEF Answer
  <2>2. PICK q : q = [p EXCEPT !.left = left, !.got = got]
    OBVIOUS
  <2>3. reads' = [reads EXCEPT ![r] = q]
    BY <1>1, <2>1, <2>2 DEF HistoryInv
  <2>4. q.agent = p.agent /\ q.left = left /\ q.got = got /\ q.from = p.from /\ q \in Read
    BY <1>3, <1>4, <1>5, <2>2 DEF Read
  <2>5. ReadOK(q)
    BY <1>4, <1>5, <1>6, <2>4 DEF ReadOK
  <2>6. history.from \in Nat /\ history.from <= Len(log) /\ HistoryIsWhole
    BY DEF HistoryInv
  <2> QED
    BY <2>1, <2>3, <2>4, <2>5, <2>6, OneRead DEF HistoryIsWhole
<1> QED
  BY <1>7, <1>8

\* What a step does to the log and the history.
LEMMA FormCases ==
  ASSUME [FormNext]_policyVars
  PROVE  \/ UNCHANGED <<log, reads, history>>
         \/ UNCHANGED <<log, history>> /\ \E a \in Agent : Ask(a)
         \/ UNCHANGED <<reads, history>> /\ \E kind \in Change : \E a : Emits(kind, a)
         \/ \E r \in Load : AskFails(r) \/ \E kind \in Change : Answer(r, kind)
<1> DEFINE Result == \/ UNCHANGED <<log, reads, history>>
                     \/ UNCHANGED <<log, history>> /\ \E a \in Agent : Ask(a)
                     \/ UNCHANGED <<reads, history>> /\ \E kind \in Change : \E a : Emits(kind, a)
                     \/ \E r \in Load : AskFails(r) \/ \E kind \in Change : Answer(r, kind)
<1>1. Change = {"register", "save", "deactivate", "reactivate"}
  BY DEF Change, Kind
<1>2. ASSUME NEW anew, NEW opened, Rendered(anew, opened), UNCHANGED log PROVE Result
  <2>1. Found(chosen', shown') \in Agent \/ Found(chosen', shown') = None
    BY DEF Found
  <2> QED
    BY <1>2, <2>1 DEF Rendered
<1>3. ASSUME NEW h \in Handler, MineOne(h) PROVE Result
  <2>1. CASE pool[h].kind = "link" \/ Reverts(pool[h])
    BY <1>3, <2>1 DEF MineOne, formVars
  <2>2. CASE ~(pool[h].kind = "link" \/ Reverts(pool[h]))
    <3>1. pool[h].kind \in Change
      BY <1>1, <1>3, <2>2 DEF MineOne, Mine, TxCall
    <3> QED
      BY <1>3, <2>2, <3>1 DEF MineOne, formVars
  <2> QED
    BY <2>1, <2>2
<1>4. ASSUME NEW s \in Sender, NEW a \in Agent, OtherTx(s, a) PROVE Result
  BY <1>1, <1>4 DEF OtherTx, formVars
<1>5. ASSUME NEW w, AccountEffect(w) PROVE Result
  BY <1>2, <1>5 DEF AccountEffect
<1>6. ASSUME NEW h \in Handler, HandlerOn(h) PROVE Result
  <2>1. CASE SubmitNew(h) \/ Submit(h)
    BY <2>1 DEF SubmitNew, Submit, formVars
  <2>2. CASE Reload(h)
    BY <1>2, <2>2 DEF Reload, formVars
  <2>3. CASE ReloadFails(h)
    BY <1>2, <2>3 DEF ReloadFails
  <2> QED
    BY <1>3, <1>6, <2>1, <2>2, <2>3 DEF HandlerOn, formVars
<1>7. ASSUME NEW a \in Agent, OpenDialog(a) PROVE Result
  BY <1>2, <1>7 DEF OpenDialog
<1>8. CASE CloseDialog
  BY <1>8 DEF CloseDialog
<1>9. ASSUME NEW rules, TypeIn(rules) PROVE Result
  BY <1>9 DEF TypeIn
<1>10. CASE UNCHANGED policyVars
  BY <1>10 DEF policyVars, formVars
<1> QED
  BY <1>4, <1>5, <1>6, <1>7, <1>8, <1>9, <1>10 DEF FormNext

LEMMA HistoryInvInit == FormInit => HistoryInv
<1> SUFFICES ASSUME FormInit PROVE HistoryInv
  OBVIOUS
<1>1. log = <<>> /\ log \in Seq(Event) /\ Len(log) = 0
  BY EmptySeq DEF FormInit
<1>2. LogOK
  BY <1>1 DEF LogOK
<1>3. reads \in [Load -> Read] /\ \A r \in Load : reads[r] = NoRead
  BY NoReadOK DEF FormInit
<1>4. \A r \in Load : ReadOK(reads[r])
  BY <1>2, <1>3, NoReadOK
<1>5. history.agent = None /\ history.events = {} /\ history.from = 0
  BY DEF FormInit, NoHistory
<1>6. HistoryIsWhole
  BY <1>1, <1>5 DEF HistoryIsWhole, EventsOf
<1> QED
  BY <1>1, <1>2, <1>3, <1>4, <1>5, <1>6 DEF HistoryInv

LEMMA HistoryInvStep == HistoryInv /\ [FormNext]_policyVars => HistoryInv'
BY FormCases, HistorySame, HistoryAsks, HistoryLog, HistoryFails, HistoryAnswer

\* The rows of a history are one agent's and none mined before it was asked for is
\* missing, however many loads overlap and whatever is mined between the answers.
THEOREM HistoriesWhole == FormSpec => []HistoryIsWhole
<1>1. HistoryInv => HistoryIsWhole
  BY DEF HistoryInv
<1> QED
  BY <1>1, HistoryInvInit, HistoryInvStep, PTL DEF FormSpec

\* The dialog is one agent's, form and history.
THEOREM DialogAlwaysOfAgent == FormSpec => []DialogIsOfAgent
BY FormFollows, HistoriesWhole, PTL DEF DialogIsOfAgent
=============================================================================
