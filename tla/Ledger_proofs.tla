--------------------------- MODULE Ledger_proofs ---------------------------
(***************************************************************************)
(* Theorems about the audit ledger, for every set of accounts, agents and  *)
(* roots: the contract (Audit), the feed that watches it (AuditFeed), the  *)
(* audit trail that reads it (AuditTrail) and the anchor that writes to it *)
(* (Anchor).                                                               *)
(***************************************************************************)
EXTENDS AuditTrail, Anchor, ConsensusRules_proofs, SequenceTheorems, FiniteSetTheorems,
        TLAPS

\* What appending does to the elements of a sequence and to their order.
LEMMA AppendElements ==
  ASSUME NEW S, NEW s \in Seq(S), NEW m \in S
  PROVE  /\ Append(s, m) \in Seq(S)
         /\ DOMAIN s = 1 .. Len(s)
         /\ DOMAIN Append(s, m) = 1 .. Len(s) + 1
         /\ \A i \in 1 .. Len(s) : Append(s, m)[i] = s[i]
         /\ Append(s, m)[Len(s) + 1] = m
         /\ Range(Append(s, m)) = Range(s) \cup {m}
         /\ IsInjective(s) /\ m \notin Range(s) => IsInjective(Append(s, m))
<1>1. /\ Append(s, m) \in Seq(S)
      /\ DOMAIN s = 1 .. Len(s) /\ Len(s) \in Nat
      /\ DOMAIN Append(s, m) = 1 .. Len(s) + 1
      /\ \A i \in 1 .. Len(s) : Append(s, m)[i] = s[i]
      /\ Append(s, m)[Len(s) + 1] = m
  BY AppendProperties, LenProperties
<1>2. Range(Append(s, m)) = Range(s) \cup {m}
  <2>1. ASSUME NEW x \in Range(Append(s, m)) PROVE x \in Range(s) \cup {m}
    <3>1. PICK i \in 1 .. Len(s) + 1 : x = Append(s, m)[i]
      BY <1>1, <2>1 DEF Range
    <3>2. CASE i = Len(s) + 1
      BY <1>1, <3>1, <3>2
    <3>3. CASE i \in 1 .. Len(s)
      BY <1>1, <3>1, <3>3 DEF Range
    <3> QED
      BY <1>1, <3>2, <3>3
  <2>2. ASSUME NEW x \in Range(s) PROVE x \in Range(Append(s, m))
    <3>1. PICK i \in 1 .. Len(s) : x = s[i]
      BY <1>1, <2>2 DEF Range
    <3> QED
      BY <1>1, <3>1 DEF Range
  <2>3. m \in Range(Append(s, m))
    BY <1>1 DEF Range
  <2> QED
    BY <2>1, <2>2, <2>3
<1>3. ASSUME IsInjective(s), m \notin Range(s) PROVE IsInjective(Append(s, m))
  <2>1. \A i \in 1 .. Len(s) : s[i] # m
    BY <1>1, <1>3 DEF Range
  <2> QED
    BY <1>1, <1>3, <2>1 DEF IsInjective
<1> QED
  BY <1>1, <1>2, <1>3

-----------------------------------------------------------------------------
LEMMA TypeInit == Init => TypeOK
BY AuditAssumption, EmptySeq DEF Init, TypeOK

\* A transaction that records stores a well typed decision of the present
\* block under a new root, and touches no other.
LEMMA RecordStores ==
  ASSUME TypeOK, NEW m \in Root, NEW g \in Agent,
         \E s \in Account, ok \in BOOLEAN, o \in Outcome, p, b \in Votes :
           RecordDecision(s, m, g, ok, o, p, b)
  PROVE  /\ DOMAIN decisions' = DOMAIN decisions \cup {m}
         /\ decisions'[m] \in Decision
         /\ decisions'[m].agent = g /\ decisions'[m].recordedAt = now
         /\ \A x \in DOMAIN decisions : decisions'[x] = decisions[x]
         /\ m \notin DOMAIN decisions
         /\ allRoots' = Append(allRoots, m)
         /\ history' = [history EXCEPT ![g] = Append(@, m)]
         /\ UNCHANGED <<recorders, admin, now>>
<1>1. PICK s \in Account, ok \in BOOLEAN, o \in Outcome, p \in Votes, b \in Votes :
        RecordDecision(s, m, g, ok, o, p, b)
  OBVIOUS
<1> DEFINE d == [agent |-> g, approved |-> ok, outcome |-> o, approve |-> p,
                 block |-> b, recordedAt |-> now, recorder |-> s]
<1>2. /\ decisions' = [x \in DOMAIN decisions \cup {m} |->
                         IF x = m THEN d ELSE decisions[x]]
      /\ m \notin DOMAIN decisions /\ o \in ValidOutcome
      /\ allRoots' = Append(allRoots, m)
      /\ history' = [history EXCEPT ![g] = Append(@, m)]
      /\ UNCHANGED <<recorders, admin, now>>
  BY <1>1 DEF RecordDecision, Store, Recorded
<1>3. d \in Decision
  BY <1>2 DEF TypeOK, Decision
<1>4. d.agent = g /\ d.recordedAt = now
  OBVIOUS
<1> HIDE DEF d
<1> QED
  BY <1>2, <1>3, <1>4

LEMMA TypeStep == TypeOK /\ [Next]_vars => TypeOK'
<1> SUFFICES ASSUME TypeOK, [Next]_vars PROVE TypeOK'
  OBVIOUS
<1>1. ASSUME NEW s \in Account, NEW a \in Account,
             AuthorizeRecorder(s, a) \/ RevokeRecorder(s, a) \/ TransferAdmin(s, a)
      PROVE  TypeOK'
  BY <1>1 DEF AuthorizeRecorder, RevokeRecorder, TransferAdmin, TypeOK
<1>2. ASSUME NEW m \in Root, NEW g \in Agent,
             \E s \in Account, ok \in BOOLEAN, o \in Outcome, p, b \in Votes :
               RecordDecision(s, m, g, ok, o, p, b)
      PROVE  TypeOK'
  <2>1. /\ DOMAIN decisions' = DOMAIN decisions \cup {m}
        /\ decisions'[m] \in Decision
        /\ \A x \in DOMAIN decisions : decisions'[x] = decisions[x]
        /\ allRoots' = Append(allRoots, m)
        /\ history' = [history EXCEPT ![g] = Append(@, m)]
        /\ UNCHANGED <<recorders, admin, now>>
    BY <1>2, RecordStores
  <2>2. history' \in [Agent -> Seq(Root)] /\ allRoots' \in Seq(Root)
    <3>1. Append(history[g], m) \in Seq(Root) /\ Append(allRoots, m) \in Seq(Root)
      BY AppendProperties DEF TypeOK
    <3> QED
      BY <2>1, <3>1 DEF TypeOK
  <2>3. DOMAIN decisions' \subseteq Root
        /\ \A x \in DOMAIN decisions' : decisions'[x] \in Decision
    BY <2>1 DEF TypeOK
  <2> QED
    BY <2>1, <2>2, <2>3 DEF TypeOK
<1>3. CASE Tick
  BY <1>3, AuditAssumption DEF Tick, TypeOK
<1>4. CASE UNCHANGED vars
  BY <1>4 DEF vars, TypeOK
<1> QED
  BY <1>1, <1>2, <1>3, <1>4 DEF Next

\* Every reachable ledger is well typed: no decision carries an outcome code the
\* contract does not know.
THEOREM TypeCorrect == Spec => []TypeOK
BY TypeInit, TypeStep, PTL DEF Spec

-----------------------------------------------------------------------------
LEMMA IndexesInit == Init => IndexesAgree
BY DEF Init, IndexesAgree, IsInjective, Range

LEMMA IndexesStep == TypeOK /\ IndexesAgree /\ [Next]_vars => IndexesAgree'
<1> SUFFICES ASSUME TypeOK, IndexesAgree, [Next]_vars PROVE IndexesAgree'
  OBVIOUS
<1>1. ASSUME UNCHANGED <<decisions, history, allRoots>> PROVE IndexesAgree'
  BY <1>1 DEF IndexesAgree
<1>2. ASSUME NEW s \in Account, NEW a \in Account,
             AuthorizeRecorder(s, a) \/ RevokeRecorder(s, a) \/ TransferAdmin(s, a)
      PROVE  IndexesAgree'
  BY <1>1, <1>2 DEF AuthorizeRecorder, RevokeRecorder, TransferAdmin
<1>3. ASSUME NEW m \in Root, NEW g \in Agent,
             \E s \in Account, ok \in BOOLEAN, o \in Outcome, p, b \in Votes :
               RecordDecision(s, m, g, ok, o, p, b)
      PROVE  IndexesAgree'
  <2>1. /\ DOMAIN decisions' = DOMAIN decisions \cup {m}
        /\ decisions'[m].agent = g /\ m \notin DOMAIN decisions
        /\ \A x \in DOMAIN decisions : decisions'[x] = decisions[x]
        /\ allRoots' = Append(allRoots, m)
        /\ history' = [history EXCEPT ![g] = Append(@, m)]
    BY <1>3, RecordStores
  <2>2. allRoots \in Seq(Root) /\ history \in [Agent -> Seq(Root)]
    BY DEF TypeOK
  <2>3. IsInjective(allRoots') /\ Range(allRoots') = DOMAIN decisions'
    BY <2>1, <2>2, AppendElements DEF IndexesAgree
  <2>4. ASSUME NEW a \in Agent
        PROVE  /\ IsInjective(history'[a])
               /\ Range(history'[a])
                    = {x \in DOMAIN decisions' : decisions'[x].agent = a}
    <3>1. /\ IsInjective(history[a])
          /\ Range(history[a]) = {x \in DOMAIN decisions : decisions[x].agent = a}
      BY DEF IndexesAgree
    <3>2. CASE a = g
      <4>1. history'[a] = Append(history[a], m) /\ history[a] \in Seq(Root)
        BY <2>1, <2>2, <3>2
      <4>2. m \notin Range(history[a])
        BY <2>1, <3>1
      <4>3. /\ IsInjective(history'[a])
            /\ Range(history'[a]) = Range(history[a]) \cup {m}
        BY <3>1, <4>1, <4>2, AppendElements
      <4> QED
        BY <2>1, <3>1, <3>2, <4>3
    <3>3. CASE a # g
      <4>1. history'[a] = history[a]
        BY <2>1, <2>2, <3>3
      <4> QED
        BY <2>1, <3>1, <3>3, <4>1
    <3> QED
      BY <3>2, <3>3
  <2> QED
    BY <2>3, <2>4 DEF IndexesAgree
<1>4. CASE Tick
  BY <1>1, <1>4 DEF Tick
<1>5. CASE UNCHANGED vars
  BY <1>1, <1>5 DEF vars
<1> QED
  BY <1>2, <1>3, <1>4, <1>5 DEF Next

\* The mapping of decisions, the global list and the histories never drift apart.
THEOREM IndexesAlwaysAgree == Spec => []IndexesAgree
BY TypeInit, TypeStep, IndexesInit, IndexesStep, PTL DEF Spec

-----------------------------------------------------------------------------
\* What each step does to the ledger: nothing, or the block advances, or one
\* decision of the present block is appended.
LEMMA StepKinds ==
  ASSUME TypeOK, [Next]_vars
  PROVE  \/ UNCHANGED <<decisions, history, allRoots>> /\ now <= now'
         \/ \E m \in Root, g \in Agent :
              \E s \in Account, ok \in BOOLEAN, o \in Outcome, p, b \in Votes :
                RecordDecision(s, m, g, ok, o, p, b)
<1>1. ASSUME NEW s \in Account, NEW a \in Account,
             AuthorizeRecorder(s, a) \/ RevokeRecorder(s, a) \/ TransferAdmin(s, a)
      PROVE  UNCHANGED <<decisions, history, allRoots>> /\ now <= now'
  BY <1>1 DEF AuthorizeRecorder, RevokeRecorder, TransferAdmin, TypeOK
<1>2. CASE Tick
  BY <1>2 DEF Tick, TypeOK
<1>3. CASE UNCHANGED vars
  BY <1>3 DEF vars, TypeOK
<1> QED
  BY <1>1, <1>2, <1>3 DEF Next

LEMMA ChronologicalInit == Init => Chronological
BY DEF Init, Chronological

LEMMA ChronologicalStep ==
  TypeOK /\ IndexesAgree /\ Chronological /\ [Next]_vars => Chronological'
<1> SUFFICES ASSUME TypeOK, IndexesAgree, Chronological, [Next]_vars
             PROVE  Chronological'
  OBVIOUS
<1>0. /\ allRoots \in Seq(Root) /\ now \in Int
      /\ \A x \in DOMAIN decisions : decisions[x].recordedAt \in Int
      /\ \A i \in DOMAIN allRoots : allRoots[i] \in DOMAIN decisions
  BY DEF TypeOK, IndexesAgree, Range, Decision
<1>1. ASSUME UNCHANGED <<decisions, history, allRoots>>, now <= now'
      PROVE  Chronological'
  <2>1. now' \in Int
    BY TypeStep DEF TypeOK
  <2> QED
    BY <1>0, <1>1, <2>1 DEF Chronological
<1>2. ASSUME NEW m \in Root, NEW g \in Agent,
             \E s \in Account, ok \in BOOLEAN, o \in Outcome, p, b \in Votes :
               RecordDecision(s, m, g, ok, o, p, b)
      PROVE  Chronological'
  <2>1. /\ DOMAIN decisions' = DOMAIN decisions \cup {m}
        /\ decisions'[m].recordedAt = now /\ now' = now
        /\ \A x \in DOMAIN decisions : decisions'[x] = decisions[x]
        /\ allRoots' = Append(allRoots, m)
    BY <1>2, RecordStores
  <2>2. /\ DOMAIN allRoots = 1 .. Len(allRoots) /\ Len(allRoots) \in Nat
        /\ DOMAIN allRoots' = 1 .. Len(allRoots) + 1
        /\ \A i \in 1 .. Len(allRoots) : allRoots'[i] = allRoots[i]
        /\ allRoots'[Len(allRoots) + 1] = m
    BY <1>0, <2>1, AppendElements, LenProperties
  <2>3. \A i \in 1 .. Len(allRoots) :
          /\ decisions'[allRoots'[i]] = decisions[allRoots[i]]
          /\ decisions[allRoots[i]].recordedAt <= now
    BY <1>0, <2>1, <2>2 DEF Chronological
  <2>4. ASSUME NEW i \in DOMAIN allRoots', NEW j \in DOMAIN allRoots', i < j
        PROVE  decisions'[allRoots'[i]].recordedAt <= decisions'[allRoots'[j]].recordedAt
    <3>1. i \in 1 .. Len(allRoots)
      BY <2>2, <2>4
    <3>2. CASE j = Len(allRoots) + 1
      BY <2>1, <2>2, <2>3, <3>1, <3>2
    <3>3. CASE j \in 1 .. Len(allRoots)
      BY <2>2, <2>3, <2>4, <3>1, <3>3 DEF Chronological
    <3> QED
      BY <2>2, <3>2, <3>3
  <2>5. \A x \in DOMAIN decisions' : decisions'[x].recordedAt <= now'
    BY <1>0, <2>1 DEF Chronological
  <2> QED
    BY <2>4, <2>5 DEF Chronological
<1> QED
  BY <1>1, <1>2, StepKinds

\* The ledger is in the order of its timestamps, none of them in the future.
THEOREM AlwaysChronological == Spec => []Chronological
BY TypeInit, TypeStep, IndexesInit, IndexesStep, ChronologicalInit,
   ChronologicalStep, PTL DEF Spec

-----------------------------------------------------------------------------
LEMMA LogInit == Init => Ledger!Init
<1> SUFFICES ASSUME Init PROVE Log = <<>>
  BY DEF Ledger!Init
<1>1. DOMAIN allRoots = {}
  BY DEF Init
<1>2. Log \in Seq({}) /\ Len(Log) = 0
  BY <1>1 DEF Log
<1> QED
  BY <1>2, EmptySeq

LEMMA LogStep == TypeOK /\ IndexesAgree /\ [Next]_vars => [Ledger!Next]_Log
<1> SUFFICES ASSUME TypeOK, IndexesAgree, [Next]_vars
             PROVE  Ledger!Next \/ Log' = Log
  OBVIOUS
<1>1. CASE UNCHANGED <<decisions, history, allRoots>>
  BY <1>1 DEF Log
<1>2. ASSUME NEW m \in Root, NEW g \in Agent,
             \E s \in Account, ok \in BOOLEAN, o \in Outcome, p, b \in Votes :
               RecordDecision(s, m, g, ok, o, p, b)
      PROVE  Ledger!Next
  <2> DEFINE e == [root |-> m, decision |-> decisions'[m]]
  <2>1. /\ decisions'[m] \in Decision /\ m \notin DOMAIN decisions
        /\ \A x \in DOMAIN decisions : decisions'[x] = decisions[x]
        /\ allRoots' = Append(allRoots, m)
    BY <1>2, RecordStores
  <2>2. e \in Entries
    BY <2>1 DEF Entries
  <2>3. /\ allRoots \in Seq(Root) /\ Len(allRoots) \in Nat
        /\ DOMAIN allRoots = 1 .. Len(allRoots)
        /\ DOMAIN allRoots' = 1 .. Len(allRoots) + 1
        /\ \A i \in 1 .. Len(allRoots) : allRoots'[i] = allRoots[i]
        /\ allRoots'[Len(allRoots) + 1] = m
        /\ \A i \in DOMAIN allRoots : allRoots[i] \in DOMAIN decisions
    BY <2>1, AppendElements, LenProperties DEF TypeOK, IndexesAgree, Range
  <2>4. \A i \in DOMAIN Log : Log[i].root # e.root
    BY <2>1, <2>3 DEF Log
  <2>5. Log' = Append(Log, e)
    <3>1. Log \in Seq(Entries) /\ Len(Log) = Len(allRoots)
      BY <2>3 DEF Log, TypeOK, Entries
    <3>2. Log' = [i \in 1 .. Len(allRoots) + 1 |->
                    [root |-> allRoots'[i], decision |-> decisions'[allRoots'[i]]]]
      BY <2>3 DEF Log
    <3>3. \A i \in 1 .. Len(allRoots) : Log'[i] = Log[i]
      BY <2>1, <2>3, <3>2 DEF Log
    <3>4. Log'[Len(allRoots) + 1] = e
      BY <2>3, <3>2
    <3>5. /\ DOMAIN Append(Log, e) = 1 .. Len(allRoots) + 1
          /\ \A i \in 1 .. Len(allRoots) : Append(Log, e)[i] = Log[i]
          /\ Append(Log, e)[Len(allRoots) + 1] = e
          /\ Append(Log, e) = [i \in 1 .. Len(allRoots) + 1 |-> Append(Log, e)[i]]
      <4>1. /\ Append(Log, e) \in Seq(Entries)
            /\ Len(Append(Log, e)) = Len(allRoots) + 1
            /\ \A i \in 1 .. Len(allRoots) : Append(Log, e)[i] = Log[i]
            /\ Append(Log, e)[Len(allRoots) + 1] = e
        BY <2>2, <3>1, AppendProperties
      <4>2. Append(Log, e) \in [1 .. Len(allRoots) + 1 -> Entries]
        BY <4>1, LenProperties
      <4> QED
        BY <4>1, <4>2
    <3>6. \A i \in 1 .. Len(allRoots) + 1 : Log'[i] = Append(Log, e)[i]
      <4> SUFFICES ASSUME NEW i \in 1 .. Len(allRoots) + 1
                   PROVE  Log'[i] = Append(Log, e)[i]
        OBVIOUS
      <4> HIDE DEF e
      <4>1. i \in 1 .. Len(allRoots) \/ i = Len(allRoots) + 1
        BY <2>3
      <4> QED
        BY <3>3, <3>4, <3>5, <4>1
    <3>7. Log' = [i \in 1 .. Len(allRoots) + 1 |-> Log'[i]]
      BY <3>2
    <3> HIDE DEF e
    <3> QED
      BY <3>5, <3>6, <3>7
  <2> HIDE DEF e
  <2> QED
    BY <2>2, <2>4, <2>5 DEF Ledger!Next, Ledger!Record
<1> QED
  BY <1>1, <1>2, StepKinds

\* "Immutable decision ledger": the contract implements the append-only log.
THEOREM Immutable == Spec => ImplementsLedger
<1>1. Spec => [](TypeOK /\ IndexesAgree)
  BY TypeCorrect, IndexesAlwaysAgree, PTL
<1>2. Spec => Ledger!Spec
  BY <1>1, LogInit, LogStep, PTL DEF Spec, Ledger!Spec
<1> QED
  BY <1>2 DEF ImplementsLedger

-----------------------------------------------------------------------------
LEMMA OrderInit == Init => HistoryInLedgerOrder
BY DEF Init, HistoryInLedgerOrder

LEMMA OrderStep ==
  TypeOK /\ IndexesAgree /\ HistoryInLedgerOrder /\ [Next]_vars
    => HistoryInLedgerOrder'
<1> SUFFICES ASSUME TypeOK, IndexesAgree, HistoryInLedgerOrder, [Next]_vars
             PROVE  HistoryInLedgerOrder'
  OBVIOUS
<1>1. CASE UNCHANGED <<decisions, history, allRoots>>
  BY <1>1 DEF HistoryInLedgerOrder, Before
<1>2. ASSUME NEW m \in Root, NEW g \in Agent,
             \E s \in Account, ok \in BOOLEAN, o \in Outcome, p, b \in Votes :
               RecordDecision(s, m, g, ok, o, p, b)
      PROVE  HistoryInLedgerOrder'
  <2>1. /\ allRoots' = Append(allRoots, m)
        /\ history' = [history EXCEPT ![g] = Append(@, m)]
        /\ allRoots \in Seq(Root) /\ history \in [Agent -> Seq(Root)]
    BY <1>2, RecordStores DEF TypeOK
  <2>2. /\ DOMAIN allRoots = 1 .. Len(allRoots) /\ Len(allRoots) \in Nat
        /\ DOMAIN allRoots' = 1 .. Len(allRoots) + 1
        /\ \A i \in 1 .. Len(allRoots) : allRoots'[i] = allRoots[i]
        /\ allRoots'[Len(allRoots) + 1] = m
    BY <2>1, AppendElements, LenProperties
  <2>3. ASSUME NEW x, NEW y, Before(allRoots, x, y)
        PROVE  Before(allRoots', x, y)
    BY <2>2, <2>3 DEF Before
  <2>4. ASSUME NEW x \in Range(allRoots) PROVE Before(allRoots', x, m)
    <3>1. PICK i \in 1 .. Len(allRoots) : allRoots[i] = x
      BY <2>2, <2>4 DEF Range
    <3> QED
      BY <2>2, <3>1 DEF Before
  <2>5. ASSUME NEW a \in Agent, NEW i \in DOMAIN history'[a],
               NEW j \in DOMAIN history'[a], i < j
        PROVE  Before(allRoots', history'[a][i], history'[a][j])
    <3>1. CASE a # g
      <4>1. history'[a] = history[a]
        BY <2>1, <3>1
      <4> QED
        BY <2>3, <2>5, <4>1 DEF HistoryInLedgerOrder
    <3>2. CASE a = g
      <4>1. history'[a] = Append(history[a], m) /\ history[a] \in Seq(Root)
        BY <2>1, <3>2
      <4>2. /\ DOMAIN history[a] = 1 .. Len(history[a]) /\ Len(history[a]) \in Nat
            /\ DOMAIN history'[a] = 1 .. Len(history[a]) + 1
            /\ \A k \in 1 .. Len(history[a]) : history'[a][k] = history[a][k]
            /\ history'[a][Len(history[a]) + 1] = m
        BY <4>1, AppendElements, LenProperties
      <4>3. i \in 1 .. Len(history[a])
        BY <2>5, <4>2
      <4>4. CASE j \in 1 .. Len(history[a])
        BY <2>3, <2>5, <4>2, <4>3, <4>4 DEF HistoryInLedgerOrder
      <4>5. CASE j = Len(history[a]) + 1
        <5>1. history[a][i] \in Range(history[a])
          BY <4>2, <4>3 DEF Range
        <5>2. Range(history[a]) \subseteq Range(allRoots)
          BY DEF IndexesAgree
        <5> QED
          BY <2>4, <4>2, <4>3, <4>5, <5>1, <5>2
      <4> QED
        BY <4>2, <4>4, <4>5
    <3> QED
      BY <3>1, <3>2
  <2> QED
    BY <2>5 DEF HistoryInLedgerOrder
<1> QED
  BY <1>1, <1>2, StepKinds

\* The history of an agent lists its decisions in the order of the ledger.
THEOREM HistoriesInOrder == Spec => []HistoryInLedgerOrder
BY TypeInit, TypeStep, IndexesInit, IndexesStep, OrderInit, OrderStep, PTL DEF Spec

\* Decisions are read in the order in which they were made, along the ledger and
\* along the history of an agent.
THEOREM LedgerAlwaysInOrder == Spec => []LedgerInOrder
<1>1. HistoryInLedgerOrder /\ Chronological => LedgerInOrder
  BY DEF LedgerInOrder
<1> QED
  BY <1>1, HistoriesInOrder, AlwaysChronological, PTL

-----------------------------------------------------------------------------
(***************************************************************************)
(* The feed: the answers still in flight are beginnings of the ledger, and *)
(* nothing printed is later than the last decision printed.                *)
(***************************************************************************)
Beginning(s) ==
  /\ s \in Seq(Root) /\ Len(s) <= Len(allRoots)
  /\ \A i \in 1 .. Len(s) : s[i] = allRoots[i]

FeedInv ==
  /\ TypeOK /\ IndexesAgree /\ Chronological
  /\ DOMAIN page = Poll
  /\ \A p \in Poll : page[p] = Unasked \/ Beginning(page[p])
  /\ lastBlock \in 0 .. MaxTime
  /\ shown \in Seq(Root)
  /\ \A i \in DOMAIN shown :
       shown[i] \in DOMAIN decisions /\ decisions[shown[i]].recordedAt <= lastBlock
  /\ FeedInLedgerOrder

LEMMA FeedInvInit == FeedInit => FeedInv
<1> SUFFICES ASSUME FeedInit PROVE FeedInv
  OBVIOUS
<1>1. TypeOK /\ IndexesAgree /\ Chronological
  BY TypeInit, IndexesInit, ChronologicalInit DEF FeedInit
<1>2. shown \in Seq(Root) /\ DOMAIN shown = {}
  BY EmptySeq DEF FeedInit
<1>3. DOMAIN page = Poll /\ \A p \in Poll : page[p] = Unasked
  BY DEF FeedInit
<1>4. lastBlock \in 0 .. MaxTime
  BY AuditAssumption DEF FeedInit
<1> QED
  BY <1>1, <1>2, <1>3, <1>4 DEF FeedInv, FeedInLedgerOrder

\* The ledger only grows at its end: what was recorded stays, and so does the
\* order of any two decisions.
LEMMA LedgerExtends ==
  ASSUME TypeOK, IndexesAgree, [Next]_vars
  PROVE  /\ Len(allRoots) <= Len(allRoots') /\ Len(allRoots') \in Nat
         /\ \A i \in 1 .. Len(allRoots) : allRoots'[i] = allRoots[i]
         /\ \A m \in DOMAIN decisions :
              m \in DOMAIN decisions' /\ decisions'[m] = decisions[m]
<1>0. allRoots \in Seq(Root) /\ Len(allRoots) \in Nat
  BY LenProperties DEF TypeOK
<1>1. CASE UNCHANGED <<decisions, history, allRoots>>
  BY <1>0, <1>1
<1>2. ASSUME NEW m \in Root, NEW g \in Agent,
             \E s \in Account, ok \in BOOLEAN, o \in Outcome, p, b \in Votes :
               RecordDecision(s, m, g, ok, o, p, b)
      PROVE  /\ Len(allRoots) <= Len(allRoots') /\ Len(allRoots') \in Nat
             /\ \A i \in 1 .. Len(allRoots) : allRoots'[i] = allRoots[i]
             /\ \A x \in DOMAIN decisions :
                  x \in DOMAIN decisions' /\ decisions'[x] = decisions[x]
  <2>1. /\ DOMAIN decisions' = DOMAIN decisions \cup {m}
        /\ \A x \in DOMAIN decisions : decisions'[x] = decisions[x]
        /\ allRoots' = Append(allRoots, m)
    BY <1>2, RecordStores
  <2>2. /\ Len(allRoots') = Len(allRoots) + 1
        /\ \A i \in 1 .. Len(allRoots) : allRoots'[i] = allRoots[i]
    BY <1>0, <2>1, AppendProperties
  <2> QED
    BY <1>0, <2>1, <2>2
<1> QED
  BY <1>1, <1>2, StepKinds

LEMMA BeforeKept ==
  ASSUME TypeOK, IndexesAgree, [Next]_vars, NEW m, NEW n, Before(allRoots, m, n)
  PROVE  Before(allRoots, m, n)'
<1>1. /\ allRoots \in Seq(Root) /\ allRoots' \in Seq(Root)
      /\ DOMAIN allRoots = 1 .. Len(allRoots) /\ DOMAIN allRoots' = 1 .. Len(allRoots')
      /\ Len(allRoots) \in Nat
  BY TypeStep, LenProperties DEF TypeOK
<1> QED
  BY <1>1, LedgerExtends DEF Before

\* What an answer that is a beginning of the ledger makes the command print: a
\* growing run of its positions, all later than what was printed before, and
\* none later than the last of them.
LEMMA PrintsInOrder ==
  ASSUME FeedInv, NEW s, Beginning(s), NEW new \in InOrder(Printed(s, lastBlock))
  PROVE  /\ new \in Seq(1 .. Len(s))
         /\ \A i, j \in 1 .. Len(new) : i < j => new[i] < new[j]
         /\ \A i \in 1 .. Len(new) :
              /\ allRoots[new[i]] \in DOMAIN decisions
              /\ decisions[allRoots[new[i]]].recordedAt > lastBlock
<1>1. s \in Seq(Root) /\ Len(s) \in Nat /\ DOMAIN s = 1 .. Len(s)
  BY LenProperties DEF Beginning
<1>2. Printed(s, lastBlock) \subseteq 1 .. Len(s)
  BY <1>1 DEF Printed
<1>3. Cardinality(Printed(s, lastBlock)) \in Nat
  <2>1. IsFiniteSet(1 .. Len(s))
    BY <1>1, FS_Interval
  <2> QED
    BY <1>2, <2>1, FS_Subset, FS_CardinalityType
<1>4. /\ new \in [1 .. Cardinality(Printed(s, lastBlock)) -> Printed(s, lastBlock)]
      /\ \A i, j \in DOMAIN new : i < j => new[i] < new[j]
  BY DEF InOrder
<1>5. new \in Seq(1 .. Len(s)) /\ DOMAIN new = 1 .. Len(new)
  BY <1>2, <1>3, <1>4
<1>6. ASSUME NEW i \in 1 .. Len(new)
      PROVE  /\ allRoots[new[i]] \in DOMAIN decisions
             /\ decisions[allRoots[new[i]]].recordedAt > lastBlock
  <2>1. new[i] \in Printed(s, lastBlock) /\ new[i] \in 1 .. Len(s)
    BY <1>2, <1>4, <1>5
  <2>2. s[new[i]] = allRoots[new[i]] /\ new[i] \in DOMAIN allRoots
    BY <1>1, <2>1, LenProperties DEF Beginning, FeedInv, TypeOK
  <2>3. allRoots[new[i]] \in DOMAIN decisions
    BY <2>2 DEF FeedInv, IndexesAgree, Range
  <2> QED
    BY <2>1, <2>2, <2>3 DEF Printed
<1> QED
  BY <1>4, <1>5, <1>6

\* The heart of it: a decision later than all those printed comes after each of
\* them in the ledger, because the ledger is chronological.
LEMMA HandledKeepsOrder ==
  ASSUME FeedInv, NEW p \in Poll, PollHandled(p)
  PROVE  /\ lastBlock' \in 0 .. MaxTime
         /\ shown' \in Seq(Root)
         /\ \A i \in DOMAIN shown' :
              /\ shown'[i] \in DOMAIN decisions
              /\ decisions[shown'[i]].recordedAt <= lastBlock'
         /\ \A i, j \in DOMAIN shown' :
              i < j => Before(allRoots, shown'[i], shown'[j])
<1> DEFINE got == Decoded(page[p])
<1>1. Beginning(got)
  <2>1. Beginning(page[p])
    BY DEF PollHandled, FeedInv
  <2>2. Beginning(<<>>)
    BY EmptySeq, LenProperties DEF Beginning, FeedInv, TypeOK
  <2> QED
    BY <2>1, <2>2 DEF Decoded
<1>2. PICK new \in InOrder(Printed(got, lastBlock)) :
        /\ shown' = shown \o [k \in DOMAIN new |-> got[new[k]]]
        /\ lastBlock' = IF new = <<>> THEN lastBlock
                        ELSE decisions[got[new[Len(new)]]].recordedAt
  BY DEF PollHandled
<1>3. /\ new \in Seq(1 .. Len(got))
      /\ \A i, j \in 1 .. Len(new) : i < j => new[i] < new[j]
      /\ \A i \in 1 .. Len(new) :
           /\ allRoots[new[i]] \in DOMAIN decisions
           /\ decisions[allRoots[new[i]]].recordedAt > lastBlock
  BY <1>1, <1>2, PrintsInOrder
<1>4. PICK more : more = [k \in DOMAIN new |-> got[new[k]]]
  OBVIOUS
<1>5. /\ got \in Seq(Root) /\ Len(got) \in Nat /\ Len(got) <= Len(allRoots)
      /\ \A i \in 1 .. Len(got) : got[i] = allRoots[i]
      /\ DOMAIN got = 1 .. Len(got)
      /\ allRoots \in Seq(Root) /\ DOMAIN allRoots = 1 .. Len(allRoots)
      /\ Len(allRoots) \in Nat
  BY <1>1, LenProperties DEF Beginning, FeedInv, TypeOK
<1> HIDE DEF got
<1>6. /\ DOMAIN new = 1 .. Len(new) /\ Len(new) \in Nat
      /\ \A k \in 1 .. Len(new) : new[k] \in 1 .. Len(got)
  BY <1>3, LenProperties
<1>7. /\ more \in Seq(Root) /\ Len(more) = Len(new)
      /\ \A k \in 1 .. Len(new) : more[k] = allRoots[new[k]]
  <2>1. \A k \in 1 .. Len(new) : got[new[k]] \in Root
    BY <1>5, <1>6
  <2>2. more \in [1 .. Len(new) -> Root]
    BY <1>4, <1>6, <2>1
  <2> QED
    BY <1>4, <1>5, <1>6, <2>2
<1>8. /\ shown \in Seq(Root) /\ Len(shown) \in Nat /\ DOMAIN shown = 1 .. Len(shown)
      /\ lastBlock \in 0 .. MaxTime
      /\ \A i \in 1 .. Len(shown) :
           shown[i] \in DOMAIN decisions /\ decisions[shown[i]].recordedAt <= lastBlock
      /\ \A i, j \in 1 .. Len(shown) : i < j => Before(allRoots, shown[i], shown[j])
  BY LenProperties DEF FeedInv, FeedInLedgerOrder
<1>9. /\ shown' = shown \o more /\ shown' \in Seq(Root)
      /\ Len(shown') = Len(shown) + Len(new)
      /\ DOMAIN shown' = 1 .. Len(shown) + Len(new)
      /\ \A i \in 1 .. Len(shown) : shown'[i] = shown[i]
      /\ \A i \in 1 .. Len(new) : shown'[Len(shown) + i] = allRoots[new[i]]
  <2>1. shown' = shown \o more
    BY <1>2, <1>4
  <2>2. /\ shown \o more \in Seq(Root) /\ Len(shown \o more) = Len(shown) + Len(more)
        /\ \A i \in 1 .. Len(shown) + Len(more) : (shown \o more)[i] =
             IF i <= Len(shown) THEN shown[i] ELSE more[i - Len(shown)]
    BY <1>7, <1>8, ConcatProperties
  <2>3. \A i \in 1 .. Len(shown) : (shown \o more)[i] = shown[i]
    BY <1>6, <1>7, <1>8, <2>2
  <2>4. \A i \in 1 .. Len(new) : (shown \o more)[Len(shown) + i] = more[i]
    BY <1>6, <1>7, <1>8, <2>2
  <2>5. DOMAIN (shown \o more) = 1 .. Len(shown) + Len(more)
    BY <2>2, LenProperties
  <2> QED
    BY <1>7, <2>1, <2>2, <2>3, <2>4, <2>5
<1>10. \A i, j \in 1 .. Len(allRoots) :
         i < j => decisions[allRoots[i]].recordedAt <= decisions[allRoots[j]].recordedAt
  BY <1>5 DEF FeedInv, Chronological
<1>11. \A m \in DOMAIN decisions : decisions[m].recordedAt \in 1 .. MaxTime
  BY DEF FeedInv, TypeOK, Decision
<1>12. /\ lastBlock' \in 0 .. MaxTime /\ lastBlock <= lastBlock'
       /\ \A i \in 1 .. Len(new) : decisions[allRoots[new[i]]].recordedAt <= lastBlock'
  <2>1. CASE new = <<>>
    <3>1. lastBlock' = lastBlock /\ Len(new) = 0
      BY <1>2, <2>1
    <3> QED
      BY <1>8, <3>1, AuditAssumption
  <2>2. CASE new # <<>>
    <3>1. Len(new) \in 1 .. Len(new)
      BY <1>3, <1>6, <2>2, EmptySeq
    <3>2. lastBlock' = decisions[allRoots[new[Len(new)]]].recordedAt
      BY <1>2, <1>5, <1>6, <2>2, <3>1
    <3>3. lastBlock' \in 1 .. MaxTime /\ lastBlock' > lastBlock
      BY <1>3, <1>11, <3>1, <3>2
    <3>4. ASSUME NEW i \in 1 .. Len(new)
          PROVE  decisions[allRoots[new[i]]].recordedAt <= lastBlock'
      <4>1. CASE i = Len(new)
        BY <3>2, <3>3, <4>1, AuditAssumption
      <4>2. CASE i # Len(new)
        <5>1. new[i] < new[Len(new)]
          <6>1. PICK n \in Nat : n = Len(new) /\ i \in 1 .. n /\ i # n
            BY <1>6, <4>2
          <6>2. i < n
            BY <6>1
          <6> QED
            BY <1>3, <3>1, <6>1, <6>2
        <5>2. new[i] \in 1 .. Len(allRoots) /\ new[Len(new)] \in 1 .. Len(allRoots)
          BY <1>5, <1>6, <3>1
        <5> QED
          BY <1>10, <3>2, <5>1, <5>2
      <4> QED
        BY <4>1, <4>2
    <3>5. PICK b, c : b = lastBlock /\ c = lastBlock'
      OBVIOUS
    <3>6. MaxTime \in Nat /\ b \in 0 .. MaxTime /\ c \in 1 .. MaxTime /\ c > b
      BY <1>8, <3>3, <3>5, AuditAssumption
    <3>7. b <= c /\ c \in 0 .. MaxTime
      BY <3>6
    <3> QED
      BY <3>4, <3>5, <3>7
  <2> QED
    BY <2>1, <2>2
<1>13. ASSUME NEW i \in DOMAIN shown'
       PROVE  /\ shown'[i] \in DOMAIN decisions
              /\ decisions[shown'[i]].recordedAt <= lastBlock'
  <2>1. CASE i \in 1 .. Len(shown)
    <3>1. shown'[i] = shown[i] /\ shown[i] \in DOMAIN decisions
      BY <1>8, <1>9, <2>1
    <3>2. decisions[shown[i]].recordedAt <= lastBlock
      BY <1>8, <2>1
    <3> QED
      BY <1>8, <1>11, <1>12, <3>1, <3>2, AuditAssumption
  <2>2. CASE i \notin 1 .. Len(shown)
    <3>1. PICK k \in 1 .. Len(new) : i = Len(shown) + k
      <4>1. i - Len(shown) \in 1 .. Len(new) /\ i = Len(shown) + (i - Len(shown))
        BY <1>6, <1>8, <1>9, <2>2
      <4> QED
        BY <4>1
    <3>2. shown'[i] = allRoots[new[k]]
      BY <1>9, <3>1
    <3> QED
      BY <1>3, <1>12, <3>2
  <2> QED
    BY <2>1, <2>2
<1>14. ASSUME NEW i \in DOMAIN shown', NEW j \in DOMAIN shown', i < j
       PROVE  Before(allRoots, shown'[i], shown'[j])
  <2>1. CASE j \in 1 .. Len(shown)
    <3>1. i \in 1 .. Len(shown)
      BY <1>6, <1>8, <1>9, <1>14, <2>1
    <3> QED
      BY <1>8, <1>9, <1>14, <2>1, <3>1
  <2>2. CASE j \notin 1 .. Len(shown)
    <3>1. PICK k \in 1 .. Len(new) : j = Len(shown) + k
      <4>1. j - Len(shown) \in 1 .. Len(new) /\ j = Len(shown) + (j - Len(shown))
        BY <1>6, <1>8, <1>9, <2>2
      <4> QED
        BY <4>1
    <3>2. shown'[j] = allRoots[new[k]] /\ new[k] \in 1 .. Len(allRoots)
      BY <1>5, <1>6, <1>9, <3>1
    <3>3. CASE i \in 1 .. Len(shown)
      <4>1. shown'[i] = shown[i] /\ shown[i] \in DOMAIN decisions
        BY <1>8, <1>9, <3>3
      <4>2. PICK l \in 1 .. Len(allRoots) : allRoots[l] = shown[i]
        BY <1>5, <4>1 DEF FeedInv, IndexesAgree, Range
      <4>3. decisions[allRoots[l]].recordedAt < decisions[allRoots[new[k]]].recordedAt
        <5>1. decisions[shown[i]].recordedAt <= lastBlock
          BY <1>8, <3>3
        <5>2. decisions[allRoots[new[k]]].recordedAt > lastBlock
          BY <1>3
        <5>3. /\ decisions[shown[i]].recordedAt \in Int /\ lastBlock \in Int
              /\ decisions[allRoots[new[k]]].recordedAt \in Int
          <6>1. allRoots[new[k]] \in DOMAIN decisions
            BY <1>3
          <6>2. decisions[shown[i]].recordedAt \in 1 .. MaxTime
            BY <1>11, <4>1
          <6>3. decisions[allRoots[new[k]]].recordedAt \in 1 .. MaxTime
            BY <1>11, <6>1
          <6> QED
            BY <1>8, <6>2, <6>3, AuditAssumption
        <5> QED
          BY <4>2, <5>1, <5>2, <5>3
      <4>4. l < new[k]
        <5> SUFFICES ASSUME ~(l < new[k]) PROVE FALSE
          OBVIOUS
        <5>1. l = new[k] \/ new[k] < l
          BY <1>5, <3>2
        <5>2. decisions[allRoots[new[k]]].recordedAt <= decisions[allRoots[l]].recordedAt
          <6>1. CASE l = new[k]
            BY <1>3, <1>11, <6>1
          <6> QED
            BY <1>10, <3>2, <5>1, <6>1
        <5>3. /\ decisions[allRoots[new[k]]].recordedAt \in Int
              /\ decisions[allRoots[l]].recordedAt \in Int
          BY <1>3, <1>11, <4>1, <4>2
        <5> QED
          BY <4>3, <5>2, <5>3
      <4> QED
        BY <1>5, <3>2, <4>1, <4>2, <4>4 DEF Before
    <3>4. CASE i \notin 1 .. Len(shown)
      <4>1. PICK h \in 1 .. Len(new) : i = Len(shown) + h
        <5>1. i - Len(shown) \in 1 .. Len(new) /\ i = Len(shown) + (i - Len(shown))
          BY <1>6, <1>8, <1>9, <3>4
        <5> QED
          BY <5>1
      <4>2. shown'[i] = allRoots[new[h]] /\ new[h] \in 1 .. Len(allRoots)
        BY <1>5, <1>6, <1>9, <4>1
      <4>3. h < k
        BY <1>6, <1>8, <1>14, <3>1, <4>1
      <4>4. new[h] < new[k]
        BY <1>3, <4>3
      <4> QED
        BY <1>5, <3>2, <4>2, <4>4 DEF Before
    <3> QED
      BY <3>3, <3>4
  <2> QED
    BY <2>1, <2>2
<1> QED
  BY <1>9, <1>12, <1>13, <1>14

LEMMA FeedInvStep == FeedInv /\ [FeedNext]_watchVars => FeedInv'
<1> SUFFICES ASSUME FeedInv, [FeedNext]_watchVars PROVE FeedInv'
  OBVIOUS
<1>1. ASSUME [Next]_vars, UNCHANGED feedVars PROVE FeedInv'
  <2>1. TypeOK' /\ IndexesAgree' /\ Chronological'
    BY <1>1, TypeStep, IndexesStep, ChronologicalStep DEF FeedInv
  <2>2. /\ Len(allRoots) <= Len(allRoots') /\ Len(allRoots') \in Nat
        /\ \A i \in 1 .. Len(allRoots) : allRoots'[i] = allRoots[i]
        /\ \A m \in DOMAIN decisions :
             m \in DOMAIN decisions' /\ decisions'[m] = decisions[m]
    BY <1>1, LedgerExtends DEF FeedInv
  <2>3. ASSUME NEW s, Beginning(s) PROVE Beginning(s)'
    <3>1. Len(s) \in Nat /\ Len(allRoots) \in Nat
      BY <2>3, LenProperties DEF Beginning, FeedInv, TypeOK
    <3> QED
      BY <2>2, <2>3, <3>1 DEF Beginning
  <2>4. page' = page /\ lastBlock' = lastBlock /\ shown' = shown
    BY <1>1 DEF feedVars
  <2>5. \A p \in Poll : page'[p] = Unasked \/ Beginning(page[p])'
    <3> SUFFICES ASSUME NEW p \in Poll, page'[p] # Unasked PROVE Beginning(page[p])'
      OBVIOUS
    <3>1. PICK s : s = page[p]
      OBVIOUS
    <3>2. Beginning(s) /\ s = page'[p]
      BY <2>4, <3>1 DEF FeedInv
    <3> QED
      BY <2>3, <3>2 DEF Beginning
  <2>6. FeedInLedgerOrder'
    <3> SUFFICES ASSUME NEW i \in DOMAIN shown, NEW j \in DOMAIN shown, i < j
                 PROVE  Before(allRoots', shown[i], shown[j])
      BY <2>4 DEF FeedInLedgerOrder
    <3>1. PICK m, n : m = shown[i] /\ n = shown[j]
      OBVIOUS
    <3>2. Before(allRoots, m, n) /\ TypeOK /\ IndexesAgree
      BY <3>1 DEF FeedInv, FeedInLedgerOrder
    <3>3. Before(allRoots, m, n)'
      BY <1>1, <3>2, BeforeKept
    <3> QED
      BY <3>1, <3>3 DEF Before
  <2> QED
    BY <2>1, <2>2, <2>4, <2>5, <2>6 DEF FeedInv
<1>2. ASSUME UNCHANGED vars, NEW p \in Poll,
             page' = [page EXCEPT ![p] = Unasked] \/ page' = [page EXCEPT ![p] = Paginated(0, PageSize)],
             lastBlock' \in 0 .. MaxTime, shown' \in Seq(Root),
             \A i \in DOMAIN shown' :
               /\ shown'[i] \in DOMAIN decisions
               /\ decisions[shown'[i]].recordedAt <= lastBlock',
             \A i, j \in DOMAIN shown' : i < j => Before(allRoots, shown'[i], shown'[j])
      PROVE  FeedInv'
  <2>1. TypeOK' /\ IndexesAgree' /\ Chronological'
    BY <1>2, TypeStep, IndexesStep, ChronologicalStep DEF FeedInv
  <2>2. Beginning(Paginated(0, PageSize))
    <3>1. /\ allRoots \in Seq(Root) /\ Len(allRoots) \in Nat
          /\ \A i \in 1 .. Len(allRoots) : allRoots[i] \in Root
      BY LenProperties DEF FeedInv, TypeOK
    <3>2. PICK n \in 0 .. Len(allRoots) : n = SmallerOf(0 + PageSize, Len(allRoots))
      BY <3>1, FeedAssumption DEF SmallerOf
    <3>3. CASE 0 >= Len(allRoots)
      <4>1. Paginated(0, PageSize) = <<>>
        BY <3>3 DEF Paginated, Slice
      <4>2. Beginning(<<>>)
        BY <3>1, EmptySeq, LenProperties DEF Beginning
      <4> QED
        BY <4>1, <4>2
    <3>4. CASE ~(0 >= Len(allRoots))
      <4>1. Paginated(0, PageSize) = SubSeq(allRoots, 0 + 1, n)
        BY <3>2, <3>4 DEF Paginated, Slice
      <4>2. SubSeq(allRoots, 0 + 1, n) = SubSeq(allRoots, 1, n)
        OBVIOUS
      <4>3. \A i \in 1 .. n : allRoots[i] \in Root
        BY <3>1, <3>2
      <4>4. /\ SubSeq(allRoots, 1, n) \in Seq(Root)
            /\ Len(SubSeq(allRoots, 1, n)) = IF 1 <= n THEN n - 1 + 1 ELSE 0
            /\ \A i \in 1 .. n - 1 + 1 : SubSeq(allRoots, 1, n)[i] = allRoots[1 + i - 1]
        BY <3>2, <4>3, SubSeqProperties
      <4>5. /\ Len(SubSeq(allRoots, 1, n)) = n
            /\ \A i \in 1 .. n : SubSeq(allRoots, 1, n)[i] = allRoots[i]
        BY <3>2, <4>4
      <4>6. PICK s : s = SubSeq(allRoots, 1, n)
        OBVIOUS
      <4>7. Beginning(s)
        BY <3>1, <3>2, <4>4, <4>5, <4>6 DEF Beginning
      <4> QED
        BY <4>1, <4>2, <4>6, <4>7
    <3> QED
      BY <3>3, <3>4
  <2>3. DOMAIN page' = Poll /\ \A q \in Poll : page'[q] = Unasked \/ Beginning(page'[q])
    BY <1>2, <2>2 DEF FeedInv
  <2>5. \A q \in Poll : (page[q] = Unasked \/ Beginning(page[q]))'
    BY <1>2, <2>3 DEF Beginning, vars
  <2>6. FeedInLedgerOrder'
    BY <1>2 DEF FeedInLedgerOrder, Before, vars
  <2>7. \A i \in DOMAIN shown' :
          shown'[i] \in DOMAIN decisions' /\ decisions'[shown'[i]].recordedAt <= lastBlock'
    BY <1>2 DEF vars
  <2> QED
    BY <1>2, <2>1, <2>3, <2>5, <2>6, <2>7 DEF FeedInv
<1>3. ASSUME NEW p \in Poll, PollAnswered(p) \/ PollFails(p) PROVE FeedInv'
  <2>1. /\ UNCHANGED <<vars, lastBlock, shown>>
        /\ \/ page' = [page EXCEPT ![p] = Unasked]
           \/ page' = [page EXCEPT ![p] = Paginated(0, PageSize)]
    BY <1>3 DEF PollAnswered, PollFails
  <2>2. /\ lastBlock' \in 0 .. MaxTime /\ shown' \in Seq(Root)
        /\ \A i \in DOMAIN shown' :
             shown'[i] \in DOMAIN decisions /\ decisions[shown'[i]].recordedAt <= lastBlock'
        /\ \A i, j \in DOMAIN shown' : i < j => Before(allRoots, shown'[i], shown'[j])
    BY <2>1 DEF FeedInv, FeedInLedgerOrder
  <2>3. UNCHANGED vars
    BY <2>1
  <2> QED
    BY <1>2, <2>1, <2>2, <2>3
<1>4. ASSUME NEW p \in Poll, PollHandled(p) PROVE FeedInv'
  <2>1. UNCHANGED vars /\ page' = [page EXCEPT ![p] = Unasked]
    BY <1>4 DEF PollHandled
  <2> QED
    BY <1>2, <1>4, <2>1, HandledKeepsOrder
<1>5. CASE UNCHANGED watchVars
  BY <1>1, <1>5 DEF watchVars
<1> QED
  BY <1>1, <1>3, <1>4, <1>5 DEF FeedNext

\* However the answers of overlapping polls are reordered, "audit watch" prints
\* no decision twice, nor after one that follows it in the ledger.
THEOREM FeedAlwaysInOrder == FeedSpec => []FeedInLedgerOrder
<1>1. FeedInv => FeedInLedgerOrder
  BY DEF FeedInv
<1> QED
  BY <1>1, FeedInvInit, FeedInvStep, PTL DEF FeedSpec

-----------------------------------------------------------------------------
(***************************************************************************)
(* The audit trail: a page asked for at an offset within the ledger is not *)
(* empty when it comes, however late, because the ledger only grows.       *)
(***************************************************************************)
LEMMA SliceOf ==
  ASSUME NEW S, NEW s \in Seq(S), NEW start \in 0 .. Len(s), NEW limit \in Nat \ {0}
  PROVE  /\ Slice(s, start, limit) \in Seq(S)
         /\ start + Len(Slice(s, start, limit)) <= Len(s)
         /\ Len(Slice(s, start, limit)) <= limit
         /\ Slice(s, start, limit) = <<>> <=> start = Len(s)
         /\ \A i \in 1 .. Len(Slice(s, start, limit)) : Slice(s, start, limit)[i] = s[start + i]
<1>1. Len(s) \in Nat /\ \A i \in 1 .. Len(s) : s[i] \in S
  BY LenProperties
<1>2. CASE start >= Len(s)
  <2>1. Slice(s, start, limit) = <<>> /\ start = Len(s)
    BY <1>1, <1>2 DEF Slice
  <2>2. <<>> \in Seq(S) /\ Len(<<>>) = 0
    BY EmptySeq
  <2> QED
    BY <1>1, <2>1, <2>2
<1>3. CASE ~(start >= Len(s))
  <2>1. PICK n \in start + 1 .. Len(s) :
          n = SmallerOf(start + limit, Len(s)) /\ n <= start + limit
    <3>1. PICK len \in Nat : len = Len(s) /\ start \in 0 .. len
      BY <1>1
    <3>2. start < len
      BY <1>3, <3>1
    <3>3. PICK n : n = SmallerOf(start + limit, len)
      OBVIOUS
    <3>4. n \in start + 1 .. len /\ n <= start + limit
      BY <3>1, <3>2, <3>3 DEF SmallerOf
    <3> QED
      BY <3>1, <3>3, <3>4
  <2>2. PICK b \in Nat : b = start + 1
    OBVIOUS
  <2>3. Slice(s, start, limit) = SubSeq(s, b, n)
    BY <1>3, <2>1, <2>2 DEF Slice
  <2>4. \A i \in b .. n : s[i] \in S
    BY <1>1, <2>1, <2>2
  <2>5. /\ SubSeq(s, b, n) \in Seq(S)
        /\ Len(SubSeq(s, b, n)) = IF b <= n THEN n - b + 1 ELSE 0
        /\ \A i \in 1 .. n - b + 1 : SubSeq(s, b, n)[i] = s[b + i - 1]
    BY <1>1, <2>1, <2>2, <2>4, SubSeqProperties
  <2>6. PICK t : t = SubSeq(s, b, n)
    OBVIOUS
  <2>7. /\ t \in Seq(S) /\ Len(t) = n - start
        /\ \A i \in 1 .. n - start : t[i] = s[start + i]
    BY <1>1, <2>1, <2>2, <2>5, <2>6
  <2>8. t # <<>>
    BY <1>1, <2>1, <2>7, EmptySeq
  <2>9. start # Len(s)
    BY <1>1, <1>3
  <2>10. start + Len(t) <= Len(s) /\ Len(t) <= limit
    BY <1>1, <2>1, <2>7
  <2>11. \A i \in 1 .. Len(t) : t[i] = s[start + i]
    BY <2>7
  <2>12. t = Slice(s, start, limit)
    BY <2>3, <2>6
  <2> QED
    BY <2>7, <2>8, <2>9, <2>10, <2>11, <2>12
<1> QED
  BY <1>2, <1>3

LEMMA HistoryExtends ==
  ASSUME TypeOK, [Next]_vars, NEW a \in Agent
  PROVE  /\ Len(history[a]) <= Len(history'[a])
         /\ \A i \in 1 .. Len(history[a]) : history'[a][i] = history[a][i]
<1>0. history \in [Agent -> Seq(Root)] /\ history[a] \in Seq(Root) /\ Len(history[a]) \in Nat
  BY LenProperties DEF TypeOK
<1>1. CASE UNCHANGED <<decisions, history, allRoots>>
  BY <1>0, <1>1
<1>2. ASSUME NEW m \in Root, NEW g \in Agent,
             \E s \in Account, ok \in BOOLEAN, o \in Outcome, p, b \in Votes :
               RecordDecision(s, m, g, ok, o, p, b)
      PROVE  /\ Len(history[a]) <= Len(history'[a])
             /\ \A i \in 1 .. Len(history[a]) : history'[a][i] = history[a][i]
  <2>1. history' = [history EXCEPT ![g] = Append(@, m)]
    BY <1>2, RecordStores
  <2>2. history'[a] = IF a = g THEN Append(history[a], m) ELSE history[a]
    BY <1>0, <2>1
  <2>3. /\ Len(Append(history[a], m)) = Len(history[a]) + 1
        /\ \A i \in 1 .. Len(history[a]) : Append(history[a], m)[i] = history[a][i]
    BY <1>0, AppendProperties
  <2> QED
    BY <1>0, <2>2, <2>3
<1> QED
  BY <1>1, <1>2, StepKinds

InLedger(n) == n \in Nat /\ (n = 0 \/ n < Len(allRoots))

WalkType == [pc : {"idle", "reading", "read"}, agent : Agent \cup {Nothing}, count : Nat,
             read : Seq(Entries)]

\* What the auditor has read is what stands at the same places of the history.
WalkSound ==
  walk.pc # "idle" =>
    /\ walk.agent \in Agent
    /\ walk.count <= Len(history[walk.agent])
    /\ Len(walk.read) <= Len(history[walk.agent])
    /\ \A i \in DOMAIN walk.read : walk.read[i] = Entry(history[walk.agent][i])
    /\ walk.pc = "read" => Len(walk.read) >= walk.count

TrailInv ==
  /\ TypeOK /\ IndexesAgree
  /\ InLedger(offset)
  /\ reported \in Nat /\ reported <= Len(allRoots)
  /\ load \in [Load -> [pc : {"idle", "total", "page"}, from : Nat]]
  /\ \A l \in Load : InLedger(load[l].from)
  /\ rows \in [from : Nat, list : Seq(Entries)] /\ RowsAreAPage
  /\ found # Nothing => Recorded(found.root) /\ found = Entry(found.root)
  /\ walk \in WalkType /\ WalkSound

LEMMA TrailInvInit == TrailInit => TrailInv
<1> SUFFICES ASSUME TrailInit PROVE TrailInv
  OBVIOUS
<1>1. TypeOK /\ IndexesAgree /\ allRoots = <<>> /\ Len(allRoots) = 0
  BY TypeInit, IndexesInit, EmptySeq DEF TrailInit, FeedInit, Init
<1>2. <<>> \in Seq(Entries) /\ Len(<<>>) = 0 /\ DOMAIN <<>> = {}
  BY EmptySeq
<1>3. InLedger(0)
  BY DEF InLedger
<1>4. /\ load \in [Load -> [pc : {"idle", "total", "page"}, from : Nat]]
      /\ \A l \in Load : InLedger(load[l].from)
  BY <1>3 DEF TrailInit, NoLoad
<1>5. rows \in [from : Nat, list : Seq(Entries)] /\ RowsAreAPage
  BY <1>1, <1>2, TrailAssumption DEF TrailInit, RowsAreAPage
<1>6. walk \in WalkType /\ WalkSound
  BY <1>2 DEF TrailInit, WalkType, WalkSound
<1> QED
  BY <1>1, <1>3, <1>4, <1>5, <1>6 DEF TrailInit, TrailInv

\* Roots listed have decisions, in the ledger and in each history.
LEMMA ListedAreRecorded ==
  ASSUME TypeOK, IndexesAgree
  PROVE  /\ allRoots \in Seq(Root) /\ Len(allRoots) \in Nat /\ DOMAIN allRoots = 1 .. Len(allRoots)
         /\ \A i \in DOMAIN allRoots : Recorded(allRoots[i]) /\ Entry(allRoots[i]) \in Entries
         /\ \A a \in Agent :
              /\ history[a] \in Seq(Root) /\ Len(history[a]) \in Nat
              /\ DOMAIN history[a] = 1 .. Len(history[a])
              /\ \A i \in DOMAIN history[a] :
                   Recorded(history[a][i]) /\ Entry(history[a][i]) \in Entries
<1>1. /\ allRoots \in Seq(Root) /\ Len(allRoots) \in Nat /\ DOMAIN allRoots = 1 .. Len(allRoots)
      /\ \A a \in Agent : /\ history[a] \in Seq(Root) /\ Len(history[a]) \in Nat
                           /\ DOMAIN history[a] = 1 .. Len(history[a])
  BY LenProperties DEF TypeOK
<1>2. \A m \in DOMAIN decisions : Entry(m) \in Entries
  BY DEF TypeOK, Entry, Entries
<1>3. \A i \in DOMAIN allRoots : allRoots[i] \in DOMAIN decisions
  BY DEF IndexesAgree, Range
<1>4. ASSUME NEW a \in Agent, NEW i \in DOMAIN history[a]
      PROVE  history[a][i] \in DOMAIN decisions
  BY DEF IndexesAgree, Range
<1> QED
  BY <1>1, <1>2, <1>3, <1>4 DEF Recorded

\* Whatever is on the ledger when something was read still is after a transaction.
LEMMA TrailInvLedger ==
  ASSUME TrailInv, [Next]_vars, UNCHANGED trailVars
  PROVE  TrailInv'
<1>1. TypeOK' /\ IndexesAgree'
  BY TypeStep, IndexesStep DEF TrailInv
<1>2. /\ Len(allRoots) <= Len(allRoots') /\ Len(allRoots') \in Nat
      /\ \A i \in 1 .. Len(allRoots) : allRoots'[i] = allRoots[i]
      /\ \A m \in DOMAIN decisions : m \in DOMAIN decisions' /\ decisions'[m] = decisions[m]
  BY LedgerExtends DEF TrailInv
<1>3. /\ Len(allRoots) \in Nat /\ DOMAIN allRoots = 1 .. Len(allRoots)
      /\ \A i \in DOMAIN allRoots : Recorded(allRoots[i])
      /\ \A a \in Agent : /\ Len(history[a]) \in Nat /\ DOMAIN history[a] = 1 .. Len(history[a])
                           /\ \A i \in DOMAIN history[a] : Recorded(history[a][i])
      /\ \A a \in Agent : Len(history'[a]) \in Nat
  BY <1>1, ListedAreRecorded, LenProperties DEF TrailInv, TypeOK
<1>4. \A m : Recorded(m) => Recorded(m)' /\ Entry(m)' = Entry(m)
  BY <1>2 DEF Recorded, Entry
<1>5. UNCHANGED <<offset, reported, load, rows, found, walk>>
  BY DEF trailVars
<1>6. \A n : InLedger(n) => InLedger(n)'
  BY <1>2, <1>3 DEF InLedger
<1>7. RowsAreAPage'
  <2>1. /\ rows.from \in Nat /\ rows.list \in Seq(Entries) /\ Len(rows.list) \in Nat
        /\ DOMAIN rows.list = 1 .. Len(rows.list)
        /\ rows.from + Len(rows.list) <= Len(allRoots)
        /\ RowsAreAPage
    BY LenProperties DEF TrailInv, RowsAreAPage
  <2>2. ASSUME NEW i \in DOMAIN rows.list
        PROVE  rows.list[i] = Entry(allRoots[rows.from + i])'
    <3>1. rows.from + i \in 1 .. Len(allRoots)
      BY <1>3, <2>1
    <3>2. rows.list[i] = Entry(allRoots[rows.from + i])
      BY <2>1 DEF RowsAreAPage
    <3>3. Entry(allRoots[rows.from + i])' = Entry(allRoots[rows.from + i])
      <4>1. PICK k \in 1 .. Len(allRoots) : k = rows.from + i /\ k = rows'.from + i
        BY <1>5, <3>1
      <4>2. Recorded(allRoots[k]) /\ allRoots'[k] = allRoots[k]
        BY <1>2, <1>3, <4>1
      <4>3. PICK m : m = allRoots[k] /\ m = allRoots'[k] /\ decisions'[m] = decisions[m]
        BY <1>2, <4>2 DEF Recorded
      <4> QED
        BY <4>1, <4>3 DEF Entry
    <3> QED
      BY <3>2, <3>3
  <2> QED
    BY <1>2, <1>3, <1>5, <2>1, <2>2 DEF RowsAreAPage
<1>8. WalkSound'
  <2> SUFFICES ASSUME walk.pc # "idle"
               PROVE  /\ walk.count <= Len(history'[walk.agent])
                      /\ Len(walk.read) <= Len(history'[walk.agent])
                      /\ \A i \in DOMAIN walk.read :
                           walk.read[i] = Entry(history[walk.agent][i])'
    BY <1>5 DEF TrailInv, WalkSound
  <2>1. PICK a \in Agent : a = walk.agent
    BY DEF TrailInv, WalkSound
  <2>2. /\ walk.count \in Nat /\ Len(walk.read) \in Nat
        /\ DOMAIN walk.read = 1 .. Len(walk.read)
        /\ walk.count <= Len(history[a]) /\ Len(walk.read) <= Len(history[a])
        /\ \A i \in DOMAIN walk.read : walk.read[i] = Entry(history[a][i])
    BY <2>1, LenProperties DEF TrailInv, WalkSound, WalkType
  <2>3. /\ Len(history[a]) <= Len(history'[a])
        /\ \A i \in 1 .. Len(history[a]) : history'[a][i] = history[a][i]
    BY HistoryExtends DEF TrailInv
  <2>4. ASSUME NEW i \in DOMAIN walk.read
        PROVE  walk.read[i] = Entry(history[walk.agent][i])'
    <3>1. i \in 1 .. Len(history[a])
      BY <1>3, <2>2
    <3>2. Entry(history[walk.agent][i])' = Entry(history[a][i])
      BY <1>3, <1>4, <1>5, <2>1, <2>3, <3>1 DEF Entry
    <3> QED
      BY <2>2, <3>2
  <2> QED
    BY <1>3, <2>1, <2>2, <2>3, <2>4
<1> QED
  BY <1>1, <1>2, <1>3, <1>4, <1>5, <1>6, <1>7, <1>8 DEF TrailInv

LEMMA TrailInvPage ==
  ASSUME TrailInv, PageStep, UNCHANGED watchVars
  PROVE  TrailInv'
<1>1. UNCHANGED vars
  BY DEF watchVars
<1>2. TypeOK' /\ IndexesAgree' /\ UNCHANGED <<allRoots, decisions, history>>
  BY <1>1, TypeStep, IndexesStep DEF TrailInv, vars
<1>3. UNCHANGED <<lookup, found, walk>>
  BY DEF PageStep, ClickNext, ClickPrevious, Turn, TotalAnswered, PageAnswered, LoadFails
<1>4. Len(allRoots) \in Nat /\ TrailPage \in Nat \ {0}
  BY TrailAssumption, LenProperties DEF TrailInv, TypeOK
<1>5. PICK l \in Load : ClickNext(l) \/ ClickPrevious(l) \/ TotalAnswered(l) \/ PageAnswered(l)
                        \/ LoadFails(l)
  BY DEF PageStep
<1>6. ASSUME NEW to, InLedger(to), Turn(l, to) PROVE TrailInv'
  <2>1. PICK n \in [pc : {"idle", "total", "page"}, from : Nat] :
          n = [pc |-> "total", from |-> to]
    BY <1>6 DEF InLedger
  <2>2. load' = [load EXCEPT ![l] = n] /\ InLedger(n.from)
    BY <1>6, <2>1 DEF Turn
  <2>3. offset' = to /\ UNCHANGED <<reported, rows>>
    BY <1>6 DEF Turn
  <2> QED
    BY <1>2, <1>3, <1>6, <2>2, <2>3 DEF TrailInv, InLedger, RowsAreAPage, WalkSound, Entry, Recorded
<1>7. CASE ClickNext(l)
  <2>1. InLedger(offset + TrailPage)
    BY <1>4, <1>7 DEF ClickNext, CanNext, TrailInv, InLedger
  <2> QED
    BY <1>6, <1>7, <2>1 DEF ClickNext
<1>8. CASE ClickPrevious(l)
  <2>1. PICK to : to = IF offset < TrailPage THEN 0 ELSE offset - TrailPage
    OBVIOUS
  <2>2. InLedger(to)
    BY <1>4, <2>1 DEF TrailInv, InLedger
  <2> QED
    BY <1>6, <1>8, <2>1, <2>2 DEF ClickPrevious
<1>9. ASSUME NEW n \in [pc : {"idle", "total", "page"}, from : Nat], InLedger(n.from),
             load' = [load EXCEPT ![l] = n], UNCHANGED offset,
             reported' \in Nat, reported' <= Len(allRoots),
             rows' \in [from : Nat, list : Seq(Entries)], RowsAreAPage'
      PROVE  TrailInv'
  BY <1>2, <1>3, <1>9 DEF TrailInv, InLedger, WalkSound, Entry, Recorded
<1>10. NoLoad \in [pc : {"idle", "total", "page"}, from : Nat] /\ InLedger(NoLoad.from)
  BY DEF NoLoad, InLedger
<1>11. PICK n0 : n0 = load[l]
  OBVIOUS
<1>12. n0 \in [pc : {"idle", "total", "page"}, from : Nat] /\ InLedger(n0.from)
  BY <1>11 DEF TrailInv
<1>13. UNCHANGED rows => RowsAreAPage'
  BY <1>2 DEF TrailInv, RowsAreAPage, Entry
<1>14. CASE TotalAnswered(l)
  <2>1. PICK n : n = [n0 EXCEPT !.pc = "page"]
    OBVIOUS
  <2>2. n \in [pc : {"idle", "total", "page"}, from : Nat] /\ n.from = n0.from
    BY <1>12, <2>1
  <2>3. load' = [load EXCEPT ![l] = n] /\ UNCHANGED <<offset, rows>> /\ reported' = Len(allRoots)
    BY <1>11, <1>14, <2>1 DEF TotalAnswered
  <2>4. rows' \in [from : Nat, list : Seq(Entries)] /\ RowsAreAPage'
    BY <1>13, <2>3 DEF TrailInv
  <2>5. reported' \in Nat /\ reported' <= Len(allRoots) /\ InLedger(n.from)
    BY <1>4, <1>12, <2>2, <2>3
  <2> QED
    BY <1>9, <2>2, <2>3, <2>4, <2>5
<1>15. CASE LoadFails(l)
  BY <1>9, <1>10, <1>13, <1>15 DEF LoadFails, TrailInv
<1>16. CASE PageAnswered(l)
  <2>1. PICK from \in Nat : from = n0.from
    BY <1>12
  <2>2. PICK s : s = Slice(allRoots, from, TrailPage)
    OBVIOUS
  <2>3. /\ allRoots \in Seq(Root) /\ DOMAIN allRoots = 1 .. Len(allRoots)
        /\ \A i \in DOMAIN allRoots : Entry(allRoots[i]) \in Entries
    BY ListedAreRecorded DEF TrailInv
  <2>4. from \in 0 .. Len(allRoots) /\ (from = Len(allRoots) => from = 0)
    BY <1>4, <1>12, <2>1 DEF InLedger
  <2>5. /\ s \in Seq(Root) /\ Len(s) \in Nat /\ DOMAIN s = 1 .. Len(s)
        /\ from + Len(s) <= Len(allRoots) /\ Len(s) <= TrailPage
        /\ s = <<>> => from = 0
        /\ \A i \in 1 .. Len(s) : s[i] = allRoots[from + i]
    <3>1. /\ s \in Seq(Root) /\ from + Len(s) <= Len(allRoots) /\ Len(s) <= TrailPage
          /\ s = <<>> <=> from = Len(allRoots)
          /\ \A i \in 1 .. Len(s) : s[i] = allRoots[from + i]
      BY <1>4, <2>2, <2>3, <2>4, SliceOf
    <3>2. Len(s) \in Nat /\ DOMAIN s = 1 .. Len(s)
      BY <3>1, LenProperties
    <3> QED
      BY <2>4, <3>1, <3>2
  <2>6. PICK t : t = Told(s)
    OBVIOUS
  <2>7. t = [i \in 1 .. Len(s) |-> Entry(allRoots[from + i])]
    BY <2>5, <2>6 DEF Told
  <2>8. \A i \in 1 .. Len(s) : Entry(allRoots[from + i]) \in Entries
    BY <1>4, <2>3, <2>5
  <2>9. t \in Seq(Entries) /\ Len(t) = Len(s)
    BY <2>5, <2>7, <2>8
  <2>10. t = <<>> => from = 0
    BY <2>5, <2>9, EmptySeq
  <2>11. rows' = [from |-> from, list |-> t] /\ load' = [load EXCEPT ![l] = NoLoad]
         /\ UNCHANGED <<offset, reported>>
    BY <1>11, <1>16, <2>1, <2>2, <2>6 DEF PageAnswered, Paginated
  <2>12. rows' \in [from : Nat, list : Seq(Entries)]
    BY <2>9, <2>11
  <2>13. rows'.from = from /\ rows'.list = t
    BY <2>11
  <2>14. RowsAreAPage'
    BY <1>2, <2>5, <2>7, <2>9, <2>10, <2>13 DEF RowsAreAPage, Entry
  <2> QED
    BY <1>9, <1>10, <2>11, <2>12, <2>14 DEF TrailInv
<1> QED
  BY <1>5, <1>7, <1>8, <1>14, <1>15, <1>16

LEMMA TrailInvLookup ==
  ASSUME TrailInv, LookupStep, UNCHANGED watchVars
  PROVE  TrailInv'
<1>1. UNCHANGED vars
  BY DEF watchVars
<1>2. UNCHANGED <<allRoots, decisions, history, offset, reported, load, rows, walk>>
  BY <1>1 DEF vars, LookupStep, StartLookup, ExistsAnswered, DecisionAnswered, LookupFails
<1>3. TypeOK' /\ IndexesAgree' /\ WalkSound' /\ RowsAreAPage'
  BY <1>1, <1>2, TypeStep, IndexesStep DEF TrailInv, WalkSound, RowsAreAPage, Entry
<1>4. \/ found' = found \/ found' = Nothing
      \/ \E m : Recorded(m) /\ found' = Entry(m)
  BY DEF LookupStep, StartLookup, ExistsAnswered, DecisionAnswered, LookupFails
<1>5. \A m : Recorded(m)' = Recorded(m) /\ Entry(m)' = Entry(m) /\ Entry(m).root = m
  BY <1>2 DEF Recorded, Entry
<1>6. found' # Nothing => (Recorded(found.root) /\ found = Entry(found.root))'
  BY <1>2, <1>4, <1>5 DEF TrailInv, Recorded, Entry
<1> QED
  BY <1>2, <1>3, <1>6 DEF TrailInv, InLedger

LEMMA TrailInvWalk ==
  ASSUME TrailInv, WalkStep, UNCHANGED watchVars
  PROVE  TrailInv'
<1>1. UNCHANGED vars
  BY DEF watchVars
<1>2. UNCHANGED <<allRoots, decisions, history, offset, reported, load, rows, found>>
  BY <1>1 DEF vars, WalkStep, WalkBegin, WalkOn
<1>3. TypeOK' /\ IndexesAgree' /\ RowsAreAPage'
  BY <1>1, <1>2, TypeStep, IndexesStep DEF TrailInv, RowsAreAPage, Entry
<1>4. ASSUME walk' \in WalkType, WalkSound' PROVE TrailInv'
  BY <1>2, <1>3, <1>4 DEF TrailInv, InLedger, Recorded, Entry
<1>5. \A a \in Agent :
        /\ history[a] \in Seq(Root) /\ Len(history[a]) \in Nat
        /\ DOMAIN history[a] = 1 .. Len(history[a])
        /\ \A i \in DOMAIN history[a] : Entry(history[a][i]) \in Entries
  BY ListedAreRecorded DEF TrailInv
<1>6. ASSUME NEW a \in Agent, WalkBegin(a) PROVE TrailInv'
  <2>1. <<>> \in Seq(Entries) /\ Len(<<>>) = 0 /\ DOMAIN <<>> = {}
    BY EmptySeq
  <2>2. PICK n \in Nat : n = Len(history[a])
    BY <1>5
  <2>3. walk' = [pc |-> "reading", agent |-> a, count |-> n, read |-> <<>>]
    BY <1>6, <2>2 DEF WalkBegin
  <2>4. walk' \in WalkType
    BY <2>1, <2>3 DEF WalkType
  <2>5. WalkSound'
    BY <1>2, <1>5, <2>1, <2>2, <2>3 DEF WalkSound
  <2> QED
    BY <1>4, <2>4, <2>5
<1>7. CASE WalkOn
  <2>1. PICK w : w = walk
    OBVIOUS
  <2>2. w \in WalkType /\ w.pc = "reading"
    BY <1>7, <2>1 DEF WalkOn, TrailInv
  <2>3. PICK a \in Agent : a = w.agent
    BY <2>1, <2>2 DEF TrailInv, WalkSound
  <2>4. PICK r \in Seq(Entries) : r = w.read
    BY <2>2 DEF WalkType
  <2>5. /\ Len(r) \in Nat /\ DOMAIN r = 1 .. Len(r)
        /\ w.count \in Nat /\ w.count <= Len(history[a]) /\ Len(r) <= Len(history[a])
        /\ \A i \in DOMAIN r : r[i] = Entry(history[a][i])
    BY <2>1, <2>2, <2>3, <2>4, LenProperties DEF TrailInv, WalkSound, WalkType
  <2>6. PICK got : got = Slice(history[a], Len(r), WalkPage)
    OBVIOUS
  <2>7. history[a] \in Seq(Root) /\ Len(r) \in 0 .. Len(history[a]) /\ WalkPage \in Nat \ {0}
    BY <1>5, <2>5, TrailAssumption
  <2>8. /\ got \in Seq(Root) /\ Len(got) \in Nat /\ DOMAIN got = 1 .. Len(got)
        /\ Len(r) + Len(got) <= Len(history[a])
        /\ got = <<>> <=> Len(r) = Len(history[a])
        /\ \A i \in 1 .. Len(got) : got[i] = history[a][Len(r) + i]
    BY <2>6, <2>7, SliceOf, LenProperties
  <2>9. CASE got = <<>>
    <3>1. walk' = [w EXCEPT !.pc = "read"]
      BY <1>7, <2>1, <2>3, <2>4, <2>6, <2>9 DEF WalkOn
    <3>2. /\ walk' \in WalkType /\ walk'.agent = a /\ walk'.count = w.count /\ walk'.read = r
          /\ walk'.pc = "read"
      BY <2>2, <2>3, <2>4, <3>1 DEF WalkType
    <3>3. WalkSound'
      BY <1>2, <1>5, <2>5, <2>8, <2>9, <3>2 DEF WalkSound, Entry
    <3> QED
      BY <1>4, <3>2, <3>3
  <2>10. CASE got # <<>>
    <3>1. PICK t : t = Told(got)
      OBVIOUS
    <3>2. t = [i \in 1 .. Len(got) |-> Entry(history[a][Len(r) + i])]
      BY <2>8, <3>1 DEF Told
    <3>3. \A i \in 1 .. Len(got) : Entry(history[a][Len(r) + i]) \in Entries
      BY <1>5, <2>5, <2>8
    <3>4. t \in Seq(Entries) /\ Len(t) = Len(got)
      BY <2>8, <3>2, <3>3
    <3>5. PICK q : q = r \o t
      OBVIOUS
    <3>6. /\ q \in Seq(Entries) /\ Len(q) = Len(r) + Len(t) /\ DOMAIN q = 1 .. Len(q)
          /\ \A i \in 1 .. Len(r) + Len(t) : q[i] = IF i <= Len(r) THEN r[i] ELSE t[i - Len(r)]
      <4>1. /\ r \o t \in Seq(Entries) /\ Len(r \o t) = Len(r) + Len(t)
            /\ \A i \in 1 .. Len(r) + Len(t) :
                 (r \o t)[i] = IF i <= Len(r) THEN r[i] ELSE t[i - Len(r)]
        BY <3>4, ConcatProperties
      <4>2. DOMAIN (r \o t) = 1 .. Len(r \o t)
        BY <4>1, LenProperties
      <4> QED
        BY <3>5, <4>1, <4>2
    <3>7. walk' = [w EXCEPT !.read = q]
      BY <1>7, <2>1, <2>3, <2>4, <2>6, <2>10, <3>1, <3>5 DEF WalkOn
    <3>8. /\ walk' \in WalkType /\ walk'.agent = a /\ walk'.count = w.count /\ walk'.read = q
          /\ walk'.pc = "reading"
      BY <2>2, <2>3, <3>6, <3>7 DEF WalkType
    <3>9. ASSUME NEW i \in DOMAIN q PROVE q[i] = Entry(history[a][i])
      <4>1. CASE i <= Len(r)
        BY <2>5, <2>8, <3>4, <3>6, <4>1
      <4>2. CASE ~(i <= Len(r))
        <5>1. PICK j \in 1 .. Len(got) : j = i - Len(r)
          BY <2>5, <2>8, <3>4, <3>6, <4>2
        <5>2. q[i] = t[j] /\ Len(r) + j = i
          BY <2>5, <2>8, <3>4, <3>6, <4>2, <5>1
        <5> QED
          BY <3>2, <5>1, <5>2
      <4> QED
        BY <4>1, <4>2
    <3>10. WalkSound'
      <4>1. Len(q) <= Len(history[a])
        BY <2>8, <3>4, <3>6
      <4> QED
        BY <1>2, <2>5, <3>8, <3>9, <4>1 DEF WalkSound, Entry
    <3> QED
      BY <1>4, <3>8, <3>10
  <2> QED
    BY <2>9, <2>10
<1> QED
  BY <1>6, <1>7 DEF WalkStep

LEMMA TrailInvStep == TrailInv /\ [TrailNext]_<<watchVars, trailVars>> => TrailInv'
<1> SUFFICES ASSUME TrailInv, [TrailNext]_<<watchVars, trailVars>> PROVE TrailInv'
  OBVIOUS
<1>1. CASE Next /\ UNCHANGED <<feedVars, trailVars>>
  BY <1>1, TrailInvLedger
<1>2. CASE (PageStep \/ LookupStep \/ WalkStep) /\ UNCHANGED watchVars
  BY <1>2, TrailInvPage, TrailInvLookup, TrailInvWalk
<1>3. CASE UNCHANGED <<watchVars, trailVars>>
  BY <1>3, TrailInvLedger DEF watchVars
<1> QED
  BY <1>1, <1>2, <1>3 DEF TrailNext

\* However late an answer is, the trail stays on the ledger and shows what is
\* there, and a lookup the decision that stands.
THEOREM TrailAlwaysTells == TrailSpec => []TrailTellsLedger
<1>1. TrailInv => TrailTellsLedger
  BY DEF TrailInv, InLedger, TrailTellsLedger
<1> QED
  BY <1>1, TrailInvInit, TrailInvStep, PTL DEF TrailSpec

\* Whoever pages through a history reads it in order and misses nothing that was
\* there when the walk began.
THEOREM WalksReadHistories == TrailSpec => []WalkIsHistory
<1>1. TrailInv => WalkIsHistory
  <2> SUFFICES ASSUME TrailInv, walk.pc # "idle" PROVE WalkIsHistory
    BY DEF WalkIsHistory
  <2>1. PICK a \in Agent : a = walk.agent
    BY DEF TrailInv, WalkSound
  <2>2. /\ Len(walk.read) \in Nat /\ DOMAIN walk.read = 1 .. Len(walk.read)
        /\ Len(walk.read) <= Len(history[a]) /\ Len(history[a]) \in Nat
        /\ \A i \in DOMAIN walk.read : walk.read[i] = Entry(history[a][i])
        /\ walk.pc = "read" => Len(walk.read) >= walk.count
    BY <2>1, LenProperties DEF TrailInv, WalkSound, WalkType, TypeOK
  <2>3. ASSUME NEW i \in DOMAIN walk.read
        PROVE  walk.read[i].root = history[a][i] /\ StillVerifies(walk.read[i])
    <3>1. Recorded(history[a][i])
      BY <2>2, ListedAreRecorded DEF TrailInv
    <3> QED
      <4>1. PICK m, e : m = history[a][i] /\ e = walk.read[i]
        OBVIOUS
      <4>2. Recorded(m) /\ e = Entry(m)
        BY <2>2, <3>1, <4>1
      <4>3. e.root = m /\ e.decision = decisions[m]
        BY <4>2 DEF Entry
      <4>4. StillVerifies(e)
        BY <4>2, <4>3 DEF StillVerifies, VerifyDecision
      <4> QED
        BY <4>1, <4>3, <4>4
  <2> QED
    BY <2>1, <2>2, <2>3 DEF WalkIsHistory
<1> QED
  BY <1>1, TrailInvInit, TrailInvStep, PTL DEF TrailSpec

-----------------------------------------------------------------------------
(***************************************************************************)
(* The anchor, for any requests, guardians, thresholds, other recorders    *)
(* and faults.                                                             *)
(***************************************************************************)

\* What every decision of the rules is, and what it takes to execute.
LEMMA VerdictType ==
  ASSUME NEW t \in Tallies
  PROVE  /\ Consensus(Mode, t, Guardians).execute \in BOOLEAN
         /\ Consensus(Mode, t, Guardians).code \in APPROVED .. PENDING
BY DEF Consensus, Phase5Table, SupermajorFallback, UnanimousRule, MajorityRule,
       AnyRule, Clean, Contested, Hold, HardStop, APPROVED, BLOCKED, CONTESTED, PENDING

LEMMA ExecutionHasMajority ==
  ASSUME NEW t \in Tallies, Mode # "any", Consensus(Mode, t, Guardians).execute
  PROVE  2 * t.approve > Guardians
<1>1. /\ t \in Counts /\ Total(t) <= Guardians
      /\ Guardians \in Nat \ {0} /\ Mode \in Modes
  BY AnchorAssumption
<1>2. DocumentedExecute(Mode, t, Guardians)
  BY <1>1, ConsensusExecutes
<1> QED
  BY <1>1, <1>2 DEF DocumentedExecute, Modes, Counts, Total

-----------------------------------------------------------------------------
(***************************************************************************)
(* The inductive invariant: where a request's anchor stands says what its  *)
(* root, storage and the ledger have.                                      *)
(***************************************************************************)
OnLedger(r) ==
  /\ root[r] \in Root
  /\ Recorded(root[r])
  /\ Matches(r, decisions[root[r]])

Progress(r) ==
  /\ stage[r] \in {"idle", "building"} => root[r] = NoRoot
  /\ stage[r] \in {"uploading", "recording", "sent"} => root[r] \in Root
  /\ stage[r] \in {"recording", "sent"} => root[r] \in stored
  /\ stage[r] # "idle" => decided[r] \in Decided
  /\ receipt[r] = "success" \/ answer[r] = "recorded" => OnLedger(r)

InMempool == \A i \in DOMAIN mempool : root[mempool[i]] \in stored

AnchorInv ==
  /\ AnchorTypeOK
  /\ \A r \in Request : Progress(r)
  /\ InMempool
  /\ LedgerBackedByStorage

LEMMA InvInit == AnchorInit => AnchorInv
<1> SUFFICES ASSUME AnchorInit PROVE AnchorInv
  OBVIOUS
<1>1. TypeOK
  BY TypeInit DEF AnchorInit
<1>2. AnchorTypeOK
  BY <1>1, AnchorAssumption, EmptySeq DEF AnchorInit, AnchorTypeOK, Stages, Answers
<1>3. ASSUME NEW r \in Request PROVE Progress(r)
  BY DEF AnchorInit, Progress
<1>4. InMempool /\ LedgerBackedByStorage
  BY DEF AnchorInit, Init, InMempool, LedgerBackedByStorage
<1> QED
  BY <1>2, <1>3, <1>4 DEF AnchorInv

\* Every step is a step of the contract, or leaves the contract alone.
LEMMA MineIsRecord ==
  ASSUME AnchorInv, NEW r \in Request, MineRecord(r)
  PROVE  /\ root[r] \in Root /\ root[r] \in stored /\ decided[r] \in Decided
         /\ \E s \in Account, ok \in BOOLEAN, o \in Outcome, p, b \in Votes :
              RecordDecision(s, root[r], decided[r].agent, ok, o, p, b)
<1>1. root[r] \in stored /\ root[r] \in Root
  <2>1. r = mempool[1] /\ 1 \in DOMAIN mempool
    BY DEF MineRecord, Mined, AnchorInv, AnchorTypeOK
  <2> QED
    BY <2>1 DEF AnchorInv, InMempool, AnchorTypeOK
<1>2. decided[r] \in Decided
  <2>1. stage[r] # "idle"
    BY <1>1, AnchorAssumption DEF AnchorInv, Progress
  <2> QED
    BY <2>1 DEF AnchorInv, Progress
<1>3. /\ Verdict(r).execute \in BOOLEAN /\ Verdict(r).code \in Outcome
      /\ decided[r].tally.approve \in Votes /\ decided[r].tally.block \in Votes
  BY <1>2, VerdictType, AnchorAssumption DEF Verdict, Decided
<1>4. RecordDecision(Wallet, root[r], decided[r].agent, Verdict(r).execute,
                     Verdict(r).code, decided[r].tally.approve,
                     decided[r].tally.block)
  BY DEF MineRecord
<1> QED
  BY <1>1, <1>2, <1>3, <1>4, AnchorAssumption

LEMMA ContractStep == AnchorInv /\ [AnchorNext]_allVars => [Next]_vars
<1> SUFFICES ASSUME AnchorInv, [AnchorNext]_allVars PROVE [Next]_vars
  OBVIOUS
<1>1. CASE Others
  <2>1. ASSUME NEW s \in Account, NEW m \in Root, NEW g \in Agent, NEW f \in Foreign,
               RecordDecision(s, m, g, f.approved, f.outcome, f.approve, f.block)
        PROVE  Next
    BY <2>1, AnchorAssumption DEF Next
  <2> QED
    BY <1>1, <2>1 DEF Others, Next
<1>2. ASSUME NEW r \in Request, MineRecord(r) PROVE Next
  BY <1>2, MineIsRecord DEF Next, Decided
<1>3. ASSUME NEW r \in Request, ~MineRecord(r),
             \/ \E g \in Agent, t \in Tallies : StartAnchor(r, g, t)
             \/ AnchorStep(r) \/ Chain(r) \/ Timeout(r)
             \/ BuildFails(r) \/ UploadFails(r) \/ SubmitFails(r) \/ WaitFails(r)
      PROVE  UNCHANGED vars
  BY <1>3 DEF StartAnchor, AnchorStep, HashBundle, Uploaded, Submit, Refused,
              Receipt, Chain, MineRevert, Timeout, BuildFails, UploadFails,
              SubmitFails, WaitFails
<1>4. CASE Restart
  BY <1>4 DEF Restart
<1>5. CASE UNCHANGED allVars
  BY <1>5 DEF allVars
<1> QED
  BY <1>1, <1>2, <1>3, <1>4, <1>5 DEF AnchorNext

LEMMA LedgerGrows ==
  ASSUME AnchorInv, [AnchorNext]_allVars
  PROVE  /\ TypeOK'
         /\ \A m \in DOMAIN decisions :
              m \in DOMAIN decisions' /\ decisions'[m] = decisions[m]
<1>1. TypeOK /\ [Next]_vars
  BY ContractStep DEF AnchorInv, AnchorTypeOK
<1>2. CASE UNCHANGED <<decisions, history, allRoots>>
  BY <1>1, <1>2, TypeStep
<1>3. ASSUME NEW m \in Root, NEW g \in Agent,
             \E s \in Account, ok \in BOOLEAN, o \in Outcome, p, b \in Votes :
               RecordDecision(s, m, g, ok, o, p, b)
      PROVE  \A x \in DOMAIN decisions :
               x \in DOMAIN decisions' /\ decisions'[x] = decisions[x]
  BY <1>1, <1>3, RecordStores
<1> QED
  BY <1>1, <1>2, <1>3, TypeStep, StepKinds

\* Once a request has a root, the root and what it stands for stay.
HashesStay ==
  \A r \in Request :
    root[r] \in Root => root'[r] = root[r] /\ decided'[r] = decided[r]

\* What a receipt says stays true.
LEMMA OnLedgerStays ==
  ASSUME AnchorInv, [AnchorNext]_allVars, HashesStay, NEW r \in Request, OnLedger(r)
  PROVE  OnLedger(r)'
<1>1. root[r] \in Root /\ Recorded(root[r]) /\ Matches(r, decisions[root[r]])
  BY DEF OnLedger
<1>2. root'[r] = root[r] /\ decided'[r] = decided[r]
  BY <1>1 DEF HashesStay
<1>3. Recorded(root[r])' /\ decisions'[root'[r]] = decisions[root[r]]
  BY <1>1, <1>2, LedgerGrows DEF Recorded
<1> QED
  BY <1>1, <1>2, <1>3 DEF OnLedger, Matches, Verdict

\* The ledger stays backed by storage when the wallet records nothing new.
LEMMA BackingStays ==
  ASSUME AnchorInv, [AnchorNext]_allVars, HashesStay, stored \subseteq stored',
         \A m \in DOMAIN decisions' \ DOMAIN decisions :
           decisions'[m].recorder # Wallet
  PROVE  LedgerBackedByStorage'
<1> SUFFICES ASSUME NEW m \in DOMAIN decisions', decisions'[m].recorder = Wallet
             PROVE  /\ m \in stored'
                    /\ \E r \in Request : root'[r] = m /\ Matches(r, decisions[m])'
  BY DEF LedgerBackedByStorage
<1>1. m \in DOMAIN decisions /\ decisions'[m] = decisions[m]
  BY LedgerGrows
<1>2. m \in stored /\ \E r \in Request : root[r] = m /\ Matches(r, decisions[m])
  BY <1>1 DEF AnchorInv, LedgerBackedByStorage
<1>3. PICK r \in Request : root[r] = m /\ Matches(r, decisions[m])
  BY <1>2
<1>4. root'[r] = root[r] /\ decided'[r] = decided[r]
  BY <1>2, <1>3 DEF HashesStay, AnchorInv, AnchorTypeOK
<1>5. Matches(r, decisions[m])'
  BY <1>1, <1>3, <1>4 DEF Matches, Verdict
<1> QED
  BY <1>2, <1>3, <1>4, <1>5

-----------------------------------------------------------------------------
\* Steps of the contract's other users.
LEMMA InvOthers == AnchorInv /\ Others /\ UNCHANGED anchorVars => AnchorInv'
<1> SUFFICES ASSUME AnchorInv, Others, UNCHANGED anchorVars PROVE AnchorInv'
  OBVIOUS
<1>1. AnchorNext
  BY DEF AnchorNext
<1>2. AnchorTypeOK' /\ InMempool' /\ HashesStay
  BY <1>1, LedgerGrows DEF AnchorInv, AnchorTypeOK, InMempool, HashesStay, anchorVars
<1>3. ASSUME NEW r \in Request PROVE Progress(r)'
  BY <1>1, <1>2, OnLedgerStays DEF AnchorInv, Progress, anchorVars
<1>4. \A m \in DOMAIN decisions' \ DOMAIN decisions : decisions'[m].recorder # Wallet
  <2>1. ASSUME NEW s \in Account \ {Wallet}, NEW m \in Root, NEW g \in Agent,
               NEW f \in Foreign,
               RecordDecision(s, m, g, f.approved, f.outcome, f.approve, f.block)
        PROVE  \A x \in DOMAIN decisions' \ DOMAIN decisions :
                 decisions'[x].recorder # Wallet
    BY <2>1 DEF RecordDecision, Store
  <2>2. CASE Tick
    BY <2>2 DEF Tick
  <2>3. ASSUME NEW s \in Account, NEW a \in Account,
               AuthorizeRecorder(s, a) \/ RevokeRecorder(s, a) \/ TransferAdmin(s, a)
        PROVE  UNCHANGED decisions
    BY <2>3 DEF AuthorizeRecorder, RevokeRecorder, TransferAdmin
  <2> QED
    BY <2>1, <2>2, <2>3 DEF Others
<1>5. LedgerBackedByStorage'
  BY <1>1, <1>2, <1>4, BackingStays DEF anchorVars
<1> QED
  BY <1>2, <1>3, <1>5 DEF AnchorInv

\* Steps before the bundle has a root.
LEMMA InvBuild ==
  ASSUME AnchorInv, NEW r \in Request,
         \/ \E g \in Agent, t \in Tallies : StartAnchor(r, g, t)
         \/ \E m \in Root : HashBundle(r, m)
         \/ BuildFails(r)
  PROVE  AnchorInv'
<1>1. AnchorNext /\ UNCHANGED <<vars, stored, mempool, receipt>>
  BY DEF AnchorNext, AnchorStep, StartAnchor, HashBundle, BuildFails
<1>2. root[r] = NoRoot
  BY DEF AnchorInv, Progress, StartAnchor, HashBundle, BuildFails, At
<1>3. \A q \in Request \ {r} :
        /\ root'[q] = root[q] /\ decided'[q] = decided[q]
        /\ stage'[q] = stage[q] /\ answer'[q] = answer[q]
  BY DEF AnchorInv, AnchorTypeOK, StartAnchor, HashBundle, BuildFails, GoTo, Fails, Settle
<1>4. HashesStay
  BY <1>2, <1>3, AnchorAssumption DEF HashesStay
<1>5. AnchorTypeOK'
  <2>1. ASSUME NEW g \in Agent, NEW t \in Tallies, StartAnchor(r, g, t)
        PROVE  AnchorTypeOK'
    BY <1>1, <2>1, LedgerGrows
    DEF AnchorInv, AnchorTypeOK, StartAnchor, GoTo, Decided, Stages
  <2>2. ASSUME NEW m \in Root, HashBundle(r, m) PROVE AnchorTypeOK'
    BY <1>1, <2>2, LedgerGrows DEF AnchorInv, AnchorTypeOK, HashBundle, GoTo, Stages
  <2>3. CASE BuildFails(r)
    BY <1>1, <2>3, LedgerGrows, AnchorAssumption
    DEF AnchorInv, AnchorTypeOK, BuildFails, Fails, Settle, GoTo, Fault, Stages, Answers
  <2> QED
    BY <2>1, <2>2, <2>3
<1>6. ASSUME NEW q \in Request PROVE Progress(q)'
  <2>1. CASE q # r
    BY <1>1, <1>3, <1>4, <2>1, OnLedgerStays DEF AnchorInv, Progress
  <2>2. CASE q = r
    <3>1. receipt[r] # "success" /\ answer[r] # "recorded"
      BY <1>2, AnchorAssumption DEF AnchorInv, Progress, OnLedger
    <3>2. ASSUME NEW g \in Agent, NEW t \in Tallies, StartAnchor(r, g, t)
          PROVE  Progress(r)'
      BY <1>1, <1>2, <3>1, <3>2
      DEF AnchorInv, AnchorTypeOK, Progress, StartAnchor, GoTo, Decided
    <3>3. ASSUME NEW m \in Root, HashBundle(r, m) PROVE Progress(r)'
      BY <1>1, <3>1, <3>3 DEF AnchorInv, AnchorTypeOK, Progress, HashBundle, GoTo, At
    <3>4. CASE BuildFails(r)
      <4>1. /\ stage'[r] \in {"hung", "done"} /\ answer'[r] # "recorded"
            /\ UNCHANGED <<root, decided>>
        BY <3>1, <3>4 DEF AnchorInv, AnchorTypeOK, BuildFails, Fails, Settle, GoTo
      <4>2. decided[r] \in Decided
        BY <3>4 DEF AnchorInv, Progress, BuildFails, At
      <4> QED
        BY <1>1, <2>2, <3>1, <4>1, <4>2 DEF Progress
    <3> QED
      BY <2>2, <3>2, <3>3, <3>4
  <2> QED
    BY <2>1, <2>2
<1>7. InMempool'
  <2>1. ASSUME NEW i \in DOMAIN mempool PROVE root'[mempool[i]] \in stored
    BY <1>1, <1>4 DEF AnchorInv, AnchorTypeOK, InMempool, HashesStay
  <2> QED
    BY <1>1, <2>1 DEF InMempool
<1>8. LedgerBackedByStorage'
  BY <1>1, <1>4, BackingStays DEF vars
<1> QED
  BY <1>5, <1>6, <1>7, <1>8 DEF AnchorInv

\* Steps after that which leave the contract alone, but for the chain's.
LEMMA InvUpload ==
  ASSUME AnchorInv, NEW r \in Request,
         Uploaded(r) \/ UploadFails(r) \/ Submit(r) \/ Refused(r) \/ SubmitFails(r)
  PROVE  AnchorInv'
<1>1. /\ AnchorNext /\ UNCHANGED <<vars, decided, root, receipt>>
      /\ stored \subseteq stored'
  BY DEF AnchorNext, AnchorStep, Uploaded, UploadFails, Submit, Refused, SubmitFails
<1>2. HashesStay
  BY <1>1 DEF HashesStay
<1>3. /\ root[r] \in Root /\ decided[r] \in Decided
      /\ stage[r] = "recording" => root[r] \in stored
  BY DEF AnchorInv, Progress, Uploaded, UploadFails, Submit, Refused, SubmitFails, At
<1>4. \A q \in Request \ {r} : stage'[q] = stage[q] /\ answer'[q] = answer[q]
  BY DEF AnchorInv, AnchorTypeOK, Uploaded, UploadFails, Submit, Refused,
         SubmitFails, GoTo, Fails, Settle
<1>5. /\ stage'[r] \in {"recording", "sent", "hung", "done"}
      /\ stage'[r] \in {"recording", "sent"} => root[r] \in stored'
      /\ answer'[r] \in {answer[r], "failed"}
  BY <1>3 DEF AnchorInv, AnchorTypeOK, Uploaded, UploadFails, Submit, Refused,
              SubmitFails, GoTo, Fails, Settle, At
<1>6. /\ mempool' \in Seq(Request)
      /\ \A i \in DOMAIN mempool' : root[mempool'[i]] \in stored'
  <2>1. CASE UNCHANGED mempool
    BY <1>1, <2>1 DEF AnchorInv, AnchorTypeOK, InMempool
  <2>2. CASE mempool' = Append(mempool, r) /\ stage[r] = "recording"
    <3>1. mempool \in Seq(Request) /\ root[r] \in stored'
      BY <1>1, <1>3, <2>2 DEF AnchorInv, AnchorTypeOK
    <3>2. /\ mempool' \in Seq(Request)
          /\ DOMAIN mempool' = DOMAIN mempool \cup {Len(mempool) + 1}
          /\ \A i \in DOMAIN mempool : mempool'[i] = mempool[i]
          /\ mempool'[Len(mempool) + 1] = r
      BY <2>2, <3>1
    <3> QED
      BY <1>1, <3>1, <3>2 DEF AnchorInv, InMempool
  <2> QED
    BY <2>1, <2>2 DEF Uploaded, UploadFails, Submit, Refused, SubmitFails, At
<1>7. AnchorTypeOK'
  <2>1. stage' \in [Request -> Stages] /\ answer' \in [Request -> Answers]
    BY DEF AnchorInv, AnchorTypeOK, Uploaded, UploadFails, Submit, Refused,
           SubmitFails, GoTo, Fails, Settle, Stages, Answers
  <2>2. stored' \subseteq Root
    BY <1>3 DEF AnchorInv, AnchorTypeOK, Uploaded, UploadFails, Submit, Refused,
                SubmitFails
  <2>3. faults' \in 0 .. MaxFaults
    BY AnchorAssumption DEF AnchorInv, AnchorTypeOK, Uploaded, UploadFails, Submit,
                            Refused, SubmitFails, Fails, Fault
  <2> QED
    BY <1>1, <1>6, <2>1, <2>2, <2>3, LedgerGrows DEF AnchorInv, AnchorTypeOK
<1>8. ASSUME NEW q \in Request PROVE Progress(q)'
  <2>1. CASE q # r
    BY <1>1, <1>2, <1>4, <2>1, OnLedgerStays DEF AnchorInv, Progress
  <2>2. CASE q = r
    BY <1>1, <1>2, <1>3, <1>5, <2>2, OnLedgerStays DEF AnchorInv, Progress
  <2> QED
    BY <2>1, <2>2
<1>9. LedgerBackedByStorage'
  BY <1>1, <1>2, BackingStays DEF vars
<1> QED
  BY <1>1, <1>6, <1>7, <1>8, <1>9 DEF AnchorInv, InMempool

\* Answers: the receipt, its loss, the timeout and a restart.
LEMMA InvAnswer ==
  ASSUME AnchorInv,
         Restart \/ \E r \in Request : Receipt(r) \/ WaitFails(r) \/ Timeout(r)
  PROVE  AnchorInv'
<1>1. AnchorNext /\ UNCHANGED <<vars, decided, root, stored, mempool, receipt>>
  BY DEF AnchorNext, AnchorStep, Restart, Receipt, WaitFails, Timeout
<1>2. HashesStay
  BY <1>1 DEF HashesStay
<1>3. AnchorTypeOK'
  <2>1. stage' \in [Request -> Stages] /\ answer' \in [Request -> Answers]
    BY DEF AnchorInv, AnchorTypeOK, Restart, Receipt, WaitFails, Timeout, GoTo,
           Fails, Settle, At, Stages, Answers
  <2>2. faults' \in 0 .. MaxFaults
    BY AnchorAssumption DEF AnchorInv, AnchorTypeOK, Restart, Receipt, WaitFails,
                            Timeout, Fails, Fault
  <2> QED
    BY <1>1, <2>1, <2>2, LedgerGrows DEF AnchorInv, AnchorTypeOK
<1>4. ASSUME NEW q \in Request PROVE Progress(q)'
  <2>1. \/ stage'[q] = stage[q]
        \/ stage'[q] \in {"hung", "done"} /\ stage[q] # "idle"
    BY DEF AnchorInv, AnchorTypeOK, Restart, Receipt, WaitFails, Timeout, GoTo,
           Fails, Settle, At
  <2>2. answer'[q] = "recorded" => OnLedger(q)
    BY DEF AnchorInv, AnchorTypeOK, Progress, Restart, Receipt, WaitFails, Timeout,
           Fails, Settle, At
  <2> QED
    BY <1>1, <1>2, <2>1, <2>2, OnLedgerStays DEF AnchorInv, Progress
<1>5. LedgerBackedByStorage' /\ InMempool'
  BY <1>1, <1>2, BackingStays DEF vars, AnchorInv, InMempool
<1> QED
  BY <1>3, <1>4, <1>5 DEF AnchorInv

\* The chain: a transaction of the wallet is mined.
LEMMA InvChain ==
  ASSUME AnchorInv, NEW r \in Request, Chain(r)
  PROVE  AnchorInv'
<1>1. /\ AnchorNext /\ UNCHANGED <<decided, root, stage, answer, stored, faults>>
      /\ mempool # <<>> /\ mempool' = Tail(mempool)
  BY DEF AnchorNext, Chain, MineRecord, MineRevert, Mined
<1>2. HashesStay
  BY <1>1 DEF HashesStay
<1>3. /\ mempool' \in Seq(Request)
      /\ \A i \in DOMAIN mempool' : i + 1 \in DOMAIN mempool
                                   /\ mempool'[i] = mempool[i + 1]
  BY <1>1 DEF AnchorInv, AnchorTypeOK
<1>4. InMempool'
  BY <1>1, <1>3 DEF AnchorInv, InMempool
<1>5. AnchorTypeOK'
  BY <1>1, <1>3, LedgerGrows
  DEF AnchorInv, AnchorTypeOK, Chain, MineRecord, MineRevert, Mined
<1>6. \A q \in Request \ {r} : receipt'[q] = receipt[q]
  BY DEF AnchorInv, AnchorTypeOK, Chain, MineRecord, MineRevert, Mined
<1>7. ASSUME MineRecord(r)
      PROVE  OnLedger(r)' /\ LedgerBackedByStorage'
  <2>1. root[r] \in Root /\ root[r] \in stored
    BY <1>7, MineIsRecord
  <2>2. /\ DOMAIN decisions' = DOMAIN decisions \cup {root[r]}
        /\ Matches(r, decisions'[root[r]])
    BY <1>7 DEF MineRecord, RecordDecision, Store, Matches
  <2>3. Matches(r, decisions[root[r]])'
    BY <1>1, <2>2 DEF Matches, Verdict
  <2>4. ASSUME NEW m \in DOMAIN decisions', decisions'[m].recorder = Wallet
        PROVE  /\ m \in stored'
               /\ \E q \in Request : root'[q] = m /\ Matches(q, decisions[m])'
    <3>1. CASE m = root[r]
      BY <1>1, <2>1, <2>3, <3>1
    <3>2. CASE m # root[r]
      <4>1. m \in DOMAIN decisions /\ decisions'[m] = decisions[m]
        BY <1>1, <2>2, <3>2, LedgerGrows
      <4>2. m \in stored /\ \E q \in Request : root[q] = m /\ Matches(q, decisions[m])
        BY <2>4, <4>1 DEF AnchorInv, LedgerBackedByStorage
      <4> QED
        BY <1>1, <4>1, <4>2 DEF Matches, Verdict
    <3> QED
      BY <3>1, <3>2
  <2>5. LedgerBackedByStorage'
    BY <2>4 DEF LedgerBackedByStorage
  <2>6. Recorded(root[r])'
    BY <1>1, <2>2 DEF Recorded
  <2> QED
    BY <1>1, <2>1, <2>3, <2>5, <2>6 DEF OnLedger
<1>8. ASSUME MineRevert(r)
      PROVE  receipt'[r] = "reverted" /\ LedgerBackedByStorage'
  BY <1>1, <1>2, <1>8, BackingStays
  DEF MineRevert, Mined, vars, AnchorInv, AnchorTypeOK
<1>9. ASSUME NEW q \in Request PROVE Progress(q)'
  <2>1. CASE q # r
    BY <1>1, <1>2, <1>6, <2>1, OnLedgerStays DEF AnchorInv, Progress
  <2>2. CASE q = r /\ MineRecord(r)
    BY <1>1, <1>7, <2>2 DEF AnchorInv, Progress
  <2>3. CASE q = r /\ MineRevert(r)
    BY <1>1, <1>2, <1>8, <2>3, OnLedgerStays DEF AnchorInv, Progress
  <2> QED
    BY <2>1, <2>2, <2>3 DEF Chain
<1> QED
  BY <1>4, <1>5, <1>7, <1>8, <1>9 DEF AnchorInv, Chain

LEMMA InvStep == AnchorInv /\ [AnchorNext]_allVars => AnchorInv'
<1> SUFFICES ASSUME AnchorInv, [AnchorNext]_allVars PROVE AnchorInv'
  OBVIOUS
<1>1. CASE Others /\ UNCHANGED anchorVars
  BY <1>1, InvOthers
<1>2. ASSUME NEW r \in Request,
             \/ \E g \in Agent, t \in Tallies : StartAnchor(r, g, t)
             \/ AnchorStep(r) \/ Chain(r) \/ Timeout(r)
             \/ BuildFails(r) \/ UploadFails(r) \/ SubmitFails(r) \/ WaitFails(r)
      PROVE  AnchorInv'
  BY <1>2, InvBuild, InvUpload, InvAnswer, InvChain DEF AnchorStep
<1>3. CASE Restart
  BY <1>3, InvAnswer
<1>4. CASE UNCHANGED allVars
  <2>1. TypeOK' /\ UNCHANGED anchorVars /\ UNCHANGED vars
    BY <1>4, LedgerGrows DEF allVars
  <2>2. \A r \in Request : Progress(r)' <=> Progress(r)
    BY <2>1 DEF Progress, OnLedger, Recorded, Matches, Verdict, anchorVars, vars
  <2>3. LedgerBackedByStorage' <=> LedgerBackedByStorage
    BY <2>1 DEF LedgerBackedByStorage, Matches, Verdict, anchorVars, vars
  <2> QED
    BY <2>1, <2>2, <2>3 DEF AnchorInv, AnchorTypeOK, InMempool, anchorVars
<1> QED
  BY <1>1, <1>2, <1>3, <1>4 DEF AnchorNext

LEMMA InvHolds == AnchorSpec => []AnchorInv
BY InvInit, InvStep, PTL DEF AnchorSpec

\* The types of an anchor hold for any requests and faults.
THEOREM AnchorTypeCorrect == AnchorSpec => []AnchorTypeOK
<1>1. AnchorInv => AnchorTypeOK
  BY DEF AnchorInv
<1> QED
  BY <1>1, InvHolds, PTL

\* The server and its anchors only ever do to the contract what the contract
\* allows, so every theorem about Audit holds with them as well.
THEOREM AnchorObeysContract == AnchorSpec => Spec
<1>1. AnchorInit => Init
  BY DEF AnchorInit
<1> QED
  BY <1>1, InvHolds, ContractStep, PTL DEF AnchorSpec, Spec

\* What is reported to the requester as recorded is on the ledger.
THEOREM ReportsAreTrue == AnchorSpec => []ReportedMeansRecorded
<1>1. AnchorInv => ReportedMeansRecorded
  BY DEF AnchorInv, Progress, OnLedger, ReportedMeansRecorded
<1> QED
  BY <1>1, InvHolds, PTL

\* No record of the wallet without its bundle in storage, and none that says
\* anything but the decision of that bundle.
THEOREM RecordsAreBacked == AnchorSpec => []LedgerBackedByStorage
<1>1. AnchorInv => LedgerBackedByStorage
  BY DEF AnchorInv
<1> QED
  BY <1>1, InvHolds, PTL

\* An approval the wallet recorded had more than half of all the guardians.
THEOREM ApprovalsHaveMajorities == AnchorSpec => []ApprovalShowsMajority
<1>1. AnchorInv => ApprovalShowsMajority
  <2> SUFFICES ASSUME AnchorInv, NEW m \in DOMAIN decisions, Mode # "any",
                      decisions[m].recorder = Wallet, decisions[m].approved
               PROVE  2 * decisions[m].approve > Guardians
    BY DEF ApprovalShowsMajority
  <2>1. PICK r \in Request : root[r] = m /\ Matches(r, decisions[m])
    BY DEF AnchorInv, LedgerBackedByStorage
  <2>2. decided[r] \in Decided
    BY <2>1, AnchorAssumption DEF AnchorInv, AnchorTypeOK, TypeOK, Progress
  <2> QED
    BY <2>1, <2>2, ExecutionHasMajority DEF Matches, Verdict, Decided
<1> QED
  BY <1>1, InvHolds, PTL

\* Whoever reads the views, in pages, one by one or all of a history, reads the
\* ledger.
THEOREM ViewsAlwaysTell == TrailSpec => []ViewsTellLedger
BY TrailAlwaysTells, WalksReadHistories, PTL DEF ViewsTellLedger
=============================================================================
