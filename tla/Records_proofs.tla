--------------------------- MODULE Records_proofs ---------------------------
(***************************************************************************)
(* Theorems about records kept elsewhere and those who rely on them, for   *)
(* every number of readers, jobs and names: the readers of the ledger      *)
(* (AuditReaders), registration of names (ENSRegistrar), and a guardian's  *)
(* identity and its cache (GuardianENS).                                   *)
(***************************************************************************)
EXTENDS GuardianENS, ENSRegistrar, AuditReaders, FiniteSetTheorems, SequenceTheorems, TLAPS

-----------------------------------------------------------------------------
(***************************************************************************)
(* Readers. A root names one decision of the ledger and one bundle, for    *)
(* ever; so what a reader was told stays true.                             *)
(***************************************************************************)
\* What retrieval says of a root.
Told(m, said) ==
  /\ m \in DOMAIN stored
  /\ \E i \in OnChain(m) : said = Verify(stored[m], log[i].decision)

\* A bundle of the server has a policy of its guardians for its snapshot exactly
\* when they all used one.
WellMade(b) ==
  /\ b.decision \in Decision
  /\ b.by = "server" => (SnapshotWasUsed(b) <=> Cardinality(b.used) = 1)

RetrievalType == [pc : {"idle", "asked", "read", "done"},
                  by : {"activity", "audit", "script"}, root : Root \cup {Nil},
                  alive : BOOLEAN, chain : Decision \cup {Nil}, said : Said]

Sound(g) ==
  /\ g \in RetrievalType
  /\ g.pc # "idle" => g.root \in Root
  /\ g.pc = "read" => \E i \in OnChain(g.root) : g.chain = log[i].decision
  /\ g.pc = "done" /\ g.said # "failed" => Told(g.root, g.said)

\* The one retrieval the page listens to is that of the row selected.
ForSelected(g) == g.by = "activity" /\ g.pc # "idle" /\ g.alive => g.root = selected

Justified(a) == a # Nil => a \in Answer /\ (a.said # "failed" => Told(a.root, a.said))

LedgerInv ==
  /\ log \in Seq(Entry)
  /\ \A i, j \in DOMAIN log : log[i].root = log[j].root => i = j
  /\ \A m \in DOMAIN stored : WellMade(stored[m])
  /\ \A i \in DOMAIN log : log[i].by = "server" =>
       /\ log[i].root \in DOMAIN stored
       /\ stored[log[i].root].by = "server"
       /\ stored[log[i].root].decision = log[i].decision

ReadersInv ==
  /\ LedgerInv
  /\ DOMAIN fetch = Fetch
  /\ \A f \in Fetch : Sound(fetch[f]) /\ ForSelected(fetch[f])
  /\ Justified(detail) /\ Justified(found) /\ \A c \in checks : Justified(c)
  /\ rows = Nil \/ \A i \in DOMAIN rows : rows[i] \in Root
  /\ DetailIsSelected

LEMMA ReadersInvInit == ReadersInit => ReadersInv
<1> SUFFICES ASSUME ReadersInit PROVE ReadersInv
  OBVIOUS
<1>1. log = <<>> /\ log \in Seq(Entry) /\ DOMAIN log = {} /\ DOMAIN stored = {}
  BY EmptySeq DEF ReadersInit, Contract!Init
<1>2. Sound(NoFetch) /\ ForSelected(NoFetch)
  BY DEF Sound, ForSelected, NoFetch, RetrievalType, Said
<1>3. DOMAIN fetch = Fetch /\ \A f \in Fetch : fetch[f] = NoFetch
  BY DEF ReadersInit
<1> QED
  BY <1>1, <1>2, <1>3 DEF ReadersInit, ReadersInv, LedgerInv, DetailIsSelected, Justified

LEMMA ReadersInvAnswers ==
  ASSUME ReadersInv
  PROVE  DetailIsSelected /\ VerifiedIsBacked /\ OwnDecisionsVerify
<1>1. VerifiedIsBacked
  <2> SUFFICES ASSUME NEW a \in Verified
               PROVE  /\ \E i \in OnChain(a.root) :
                           /\ log[i].decision.intent = stored[a.root].decision.intent
                           /\ log[i].decision.tally = stored[a.root].decision.tally
                           /\ log[i].decision.execute = stored[a.root].decision.execute
                           /\ log[i].by = "server" => log[i].decision = stored[a.root].decision
                      /\ stored[a.root].snapshot \in stored[a.root].used
    BY DEF VerifiedIsBacked
  <2>1. a.said = "verified" /\ Told(a.root, a.said)
    BY DEF Verified, ReadersInv, Justified
  <2>2. PICK i \in OnChain(a.root) : "verified" = Verify(stored[a.root], log[i].decision)
    BY <2>1 DEF Told
  <2>3. SameDecision(stored[a.root], log[i].decision) /\ SnapshotWasUsed(stored[a.root])
    BY <2>2 DEF Verify
  <2>4. log[i].by = "server" => log[i].decision = stored[a.root].decision
    BY <2>2 DEF OnChain, ReadersInv, LedgerInv
  <2> QED
    BY <2>2, <2>3, <2>4 DEF SameDecision, SnapshotWasUsed
<1>2. OwnDecisionsVerify
  <2> SUFFICES ASSUME NEW a \in {detail, found} \cup checks, a # Nil, a.said # "failed",
                      NEW i \in OnChain(a.root), log[i].by = "server"
               PROVE  a.said = "verified" <=> Cardinality(stored[a.root].used) = 1
    BY DEF OwnDecisionsVerify
  <2>1. Told(a.root, a.said)
    BY DEF ReadersInv, Justified
  <2>2. PICK j \in OnChain(a.root) : a.said = Verify(stored[a.root], log[j].decision)
    BY <2>1 DEF Told
  <2>3. i = j /\ i \in DOMAIN log /\ log[i].root = a.root
    BY <2>2 DEF OnChain, ReadersInv, LedgerInv
  <2>4. /\ a.root \in DOMAIN stored /\ stored[a.root].by = "server"
        /\ SameDecision(stored[a.root], log[j].decision)
        /\ WellMade(stored[a.root])
    BY <2>3 DEF ReadersInv, LedgerInv, SameDecision
  <2>5. SnapshotWasUsed(stored[a.root]) <=> Cardinality(stored[a.root].used) = 1
    BY <2>4 DEF WellMade
  <2> QED
    BY <2>2, <2>4, <2>5 DEF Verify
<1> QED
  BY <1>1, <1>2 DEF ReadersInv

\* What was true of a root stays true while ledger and storage only grow.
Extends ==
  /\ \A i \in DOMAIN log : i \in DOMAIN log' /\ log'[i] = log[i]
  /\ \A m \in DOMAIN stored : m \in DOMAIN stored' /\ stored'[m] = stored[m]

LEMMA ToldKept ==
  ASSUME Extends, NEW m, NEW said, Told(m, said)
  PROVE  Told(m, said)'
<1>1. PICK i \in OnChain(m) : said = Verify(stored[m], log[i].decision)
  BY DEF Told
<1>2. m \in DOMAIN stored' /\ stored'[m] = stored[m]
  BY DEF Told, Extends
<1>3. i \in OnChain(m)' /\ log'[i] = log[i]
  BY DEF Extends, OnChain
<1>4. said = Verify(stored'[m], log'[i].decision)
  BY <1>1, <1>2, <1>3
<1> QED
  BY <1>2, <1>3, <1>4 DEF Told, Verify, SameDecision, SnapshotWasUsed

LEMMA SoundKept ==
  ASSUME Extends, NEW g, Sound(g)
  PROVE  Sound(g)'
<1>1. g.pc = "read" => (\E i \in OnChain(g.root) : g.chain = log[i].decision)'
  <2> SUFFICES ASSUME g.pc = "read"
               PROVE  (\E i \in OnChain(g.root) : g.chain = log[i].decision)'
    OBVIOUS
  <2>1. PICK i \in OnChain(g.root) : g.chain = log[i].decision
    BY DEF Sound
  <2>2. i \in OnChain(g.root)' /\ log'[i] = log[i]
    BY <2>1 DEF Extends, OnChain
  <2> QED
    BY <2>1, <2>2
<1>2. g.pc = "done" /\ g.said # "failed" => Told(g.root, g.said)'
  BY ToldKept DEF Sound
<1> QED
  BY <1>1, <1>2 DEF Sound

LEMMA JustifiedKept ==
  ASSUME Extends, NEW a, Justified(a)
  PROVE  Justified(a)'
BY ToldKept DEF Justified

\* A step that only extends the ledger or the storage.
LEMMA LedgerSteps ==
  ASSUME ReadersInv, Extends, LedgerInv', UNCHANGED readerVars
  PROVE  ReadersInv'
<1>1. /\ fetch' = fetch /\ rows' = rows /\ selected' = selected /\ loading' = loading
      /\ detail' = detail /\ found' = found /\ checks' = checks
  BY DEF readerVars
<1>2. \A f \in Fetch : (Sound(fetch[f]) /\ ForSelected(fetch[f]))'
  <2> SUFFICES ASSUME NEW f \in Fetch PROVE (Sound(fetch[f]) /\ ForSelected(fetch[f]))'
    OBVIOUS
  <2>1. PICK g : g = fetch[f]
    OBVIOUS
  <2>2. Sound(g) /\ ForSelected(g)
    BY <2>1 DEF ReadersInv
  <2>3. Sound(g)' /\ ForSelected(g)'
    BY <1>1, <2>2, SoundKept DEF ForSelected
  <2> QED
    BY <1>1, <2>1, <2>3 DEF Sound, ForSelected
<1>3. ASSUME NEW a, Justified(a) PROVE Justified(a)'
  BY <1>3, JustifiedKept
<1>4. Justified(detail)'
  <2>1. PICK a : a = detail
    OBVIOUS
  <2>2. Justified(a)'
    BY <1>3, <2>1 DEF ReadersInv
  <2> QED
    BY <1>1, <2>1, <2>2 DEF Justified
<1>5. Justified(found)'
  <2>1. PICK a : a = found
    OBVIOUS
  <2>2. Justified(a)'
    BY <1>3, <2>1 DEF ReadersInv
  <2> QED
    BY <1>1, <2>1, <2>2 DEF Justified
<1>6. \A c \in checks' : Justified(c)'
  BY <1>1, <1>3 DEF ReadersInv
<1> QED
  BY <1>1, <1>2, <1>4, <1>5, <1>6 DEF ReadersInv, DetailIsSelected

\* A step of the readers: ledger and storage stay, and what is new is sound.
LEMMA ReaderSteps ==
  ASSUME ReadersInv, UNCHANGED <<log, stored>>, DOMAIN fetch' = Fetch,
         NEW d, NEW e, NEW sel, d = detail', e = found', sel = selected',
         Justified(d), Justified(e), \A c \in checks' : Justified(c),
         rows' = Nil \/ \A i \in DOMAIN rows' : rows'[i] \in Root,
         sel # Nil /\ ~loading' => d # Nil /\ d.root = sel,
         \A f \in Fetch : \E g :
           /\ g = fetch'[f] /\ Sound(g)
           /\ g.by = "activity" /\ g.pc # "idle" /\ g.alive => g.root = sel
  PROVE  ReadersInv'
<1>1. Extends
  BY DEF Extends
<1>2. Justified(d)' /\ Justified(e)' /\ \A c \in checks' : Justified(c)'
  BY <1>1, JustifiedKept
<1>3. \A f \in Fetch : (Sound(fetch[f]) /\ ForSelected(fetch[f]))'
  <2> SUFFICES ASSUME NEW f \in Fetch PROVE (Sound(fetch[f]) /\ ForSelected(fetch[f]))'
    OBVIOUS
  <2>1. PICK g : /\ g = fetch'[f] /\ Sound(g)
                 /\ g.by = "activity" /\ g.pc # "idle" /\ g.alive => g.root = sel
    OBVIOUS
  <2>2. Sound(g)'
    BY <1>1, <2>1, SoundKept
  <2>3. ForSelected(g)'
    BY <2>1 DEF ForSelected
  <2> QED
    BY <2>1, <2>2, <2>3 DEF Sound, ForSelected
<1>4. LedgerInv'
  BY DEF ReadersInv, LedgerInv, WellMade, SnapshotWasUsed
<1>5. Justified(detail)' /\ Justified(found)'
  BY <1>2 DEF Justified
<1>6. DetailIsSelected'
  BY DEF DetailIsSelected
<1> QED
  BY <1>2, <1>3, <1>4, <1>5, <1>6 DEF ReadersInv

\* The server's bundles are well made, whatever the registry says meanwhile.
LEMMA ServerBundleWellMade ==
  ASSUME NEW used \in Reports, NEW d \in Decision,
         NEW registry \in {[policy |-> p, source |-> "chain-sync"] : p \in PolicyText} \cup {Nil}
  PROVE  WellMade([decision |-> d, used |-> used,
                   snapshot |-> SnapshotOf(used, registry), by |-> "server"])
<1>1. SnapshotOf(used, registry) \in used <=> Cardinality(used) = 1
  <2>1. CASE Cardinality(used) = 1
    <3>1. used # {}
      BY <2>1, FS_EmptySet
    <3> QED
      BY <2>1, <3>1 DEF SnapshotOf
  <2>2. CASE Cardinality(used) # 1
    <3>1. SnapshotOf(used, registry) = registry
      BY <2>2 DEF SnapshotOf
    <3>2. \A a \in used : a \in Artifact
      BY ReadersAssumption
    <3>3. \A a \in Artifact : a # Nil /\ a.source # "chain-sync"
      BY ReadersAssumption DEF Artifact, Snapshot
    <3>4. registry \notin used
      BY <3>2, <3>3
    <3> QED
      BY <2>2, <3>1, <3>4
  <2> QED
    BY <2>1, <2>2
<1> QED
  BY <1>1 DEF WellMade, SnapshotWasUsed

LEMMA UploadKeeps ==
  ASSUME ReadersInv, NEW m \in Root, NEW b, Upload(m, b), WellMade(b)
  PROVE  ReadersInv'
<1>1. /\ m \notin DOMAIN stored /\ log' = log /\ UNCHANGED readerVars
      /\ DOMAIN stored' = DOMAIN stored \cup {m} /\ stored'[m] = b
      /\ \A x \in DOMAIN stored : stored'[x] = stored[x]
  BY DEF Upload
<1>2. Extends
  BY <1>1 DEF Extends
<1>3. \A x \in DOMAIN stored' : WellMade(stored'[x])
  BY <1>1 DEF ReadersInv, LedgerInv
<1>4. \A x \in DOMAIN stored' : WellMade(stored[x])'
  BY <1>3 DEF WellMade, SnapshotWasUsed
<1>5. LedgerInv'
  BY <1>1, <1>4 DEF ReadersInv, LedgerInv
<1> QED
  BY <1>1, <1>2, <1>5, LedgerSteps

LEMMA RecordKeeps ==
  ASSUME ReadersInv, NEW m \in Root, NEW d, NEW by \in {"server", "others"},
         d \in Decision,
         Contract!Record([root |-> m, decision |-> d, by |-> by]),
         by = "server" => m \in DOMAIN stored /\ stored[m].by = "server"
                            /\ stored[m].decision = d,
         UNCHANGED <<stored, readerVars>>
  PROVE  ReadersInv'
<1>1. PICK e \in Entry : e.root = m /\ e.decision = d /\ e.by = by
                        /\ e = [root |-> m, decision |-> d, by |-> by]
  BY ReadersAssumption
<1>2. /\ \A i \in DOMAIN log : log[i].root # m
      /\ log' = Append(log, e)
  BY <1>1 DEF Contract!Record
<1>3. log \in Seq(Entry) /\ Len(log) \in Nat /\ DOMAIN log = 1 .. Len(log)
  BY LenProperties DEF ReadersInv, LedgerInv
<1>4. /\ log' \in Seq(Entry) /\ Len(log') = Len(log) + 1
      /\ \A i \in 1 .. Len(log) : log'[i] = log[i]
      /\ log'[Len(log) + 1] = e /\ DOMAIN log' = 1 .. Len(log) + 1
  <2>1. /\ Append(log, e) \in Seq(Entry) /\ Len(Append(log, e)) = Len(log) + 1
        /\ \A i \in 1 .. Len(log) : Append(log, e)[i] = log[i]
        /\ Append(log, e)[Len(log) + 1] = e
    BY <1>3, AppendProperties
  <2>2. DOMAIN Append(log, e) = 1 .. Len(log) + 1
    BY <2>1, LenProperties
  <2> QED
    BY <1>2, <2>1, <2>2
<1>5. stored' = stored /\ UNCHANGED readerVars
  OBVIOUS
<1>6. Extends
  BY <1>3, <1>4, <1>5 DEF Extends
<1>7. \A i \in DOMAIN log' : i \in DOMAIN log \/ i = Len(log) + 1
  BY <1>3, <1>4
<1>8. \A i, j \in DOMAIN log' : log'[i].root = log'[j].root => i = j
  BY <1>1, <1>2, <1>3, <1>4, <1>7 DEF ReadersInv, LedgerInv
<1>9. \A i \in DOMAIN log' : log'[i].by = "server" =>
        /\ log'[i].root \in DOMAIN stored
        /\ stored[log'[i].root].by = "server"
        /\ stored[log'[i].root].decision = log'[i].decision
  BY <1>1, <1>3, <1>4, <1>7 DEF ReadersInv, LedgerInv
<1>10. LedgerInv'
  <2>1. \A x \in DOMAIN stored : WellMade(stored[x])
    BY DEF ReadersInv, LedgerInv
  <2>2. \A x \in DOMAIN stored' : WellMade(stored[x])'
    BY <1>5, <2>1 DEF WellMade, SnapshotWasUsed
  <2> QED
    BY <1>4, <1>5, <1>8, <1>9, <2>2 DEF LedgerInv
<1> QED
  BY <1>5, <1>6, <1>10, LedgerSteps

\* A step of one retrieval that is not for the page's row.
LEMMA OneRetrieval ==
  ASSUME ReadersInv, UNCHANGED <<log, stored, rows, selected>>,
         NEW f \in Fetch, NEW g, FetchBecomes(f, g), Sound(g), ForSelected(g),
         NEW d, NEW e, d = detail', e = found',
         Justified(d), Justified(e), \A c \in checks' : Justified(c),
         selected # Nil /\ ~loading' => d # Nil /\ d.root = selected
  PROVE  ReadersInv'
<1>1. DOMAIN fetch' = Fetch /\ \A q \in Fetch \ {f} : fetch'[q] = fetch[q]
  BY DEF FetchBecomes, ReadersInv
<1>2. fetch'[f] = g
  BY DEF FetchBecomes, ReadersInv
<1>3. PICK sel : sel = selected
  OBVIOUS
<1>4. \A q \in Fetch : \E h :
        /\ h = fetch'[q] /\ Sound(h)
        /\ h.by = "activity" /\ h.pc # "idle" /\ h.alive => h.root = sel
  <2> SUFFICES ASSUME NEW q \in Fetch
               PROVE  \E h :
                 /\ h = fetch'[q] /\ Sound(h)
                 /\ h.by = "activity" /\ h.pc # "idle" /\ h.alive => h.root = sel
    OBVIOUS
  <2>1. CASE q = f
    BY <1>2, <1>3, <2>1 DEF ForSelected
  <2>2. CASE q # f
    <3>1. fetch'[q] = fetch[q] /\ Sound(fetch[q]) /\ ForSelected(fetch[q])
      BY <1>1, <2>2 DEF ReadersInv
    <3>2. PICK h : h = fetch[q]
      OBVIOUS
    <3> QED
      BY <1>3, <3>1, <3>2 DEF ForSelected
  <2> QED
    BY <2>1, <2>2
<1>5. UNCHANGED <<log, stored>> /\ sel = selected'
  BY <1>3
<1>6. rows' = Nil \/ \A i \in DOMAIN rows' : rows'[i] \in Root
  BY DEF ReadersInv
<1>7. sel # Nil /\ ~loading' => d # Nil /\ d.root = sel
  BY <1>3
<1> QED
  BY <1>1, <1>4, <1>5, <1>6, <1>7, ReaderSteps

\* The stages of a retrieval, and its failures.
LEMMA RetrievalKeeps ==
  ASSUME ReadersInv, NEW f \in Fetch, Retrieval(f) \/ Fails(f)
  PROVE  ReadersInv'
<1>1. UNCHANGED <<log, stored, rows, selected, loading, detail, retrieving, found, checks, exit>>
  BY DEF Retrieval, ReadChain, Open, Fails, Others
<1>2. PICK h : h = fetch[f]
  OBVIOUS
<1>3. Sound(h) /\ ForSelected(h) /\ h \in RetrievalType
  BY <1>2 DEF ReadersInv, Sound
<1>4. ASSUME NEW g, FetchBecomes(f, g), Sound(g), g.by = h.by, g.alive = h.alive,
             g.root = h.root, h.pc # "idle"
      PROVE  ReadersInv'
  <2>1. ForSelected(g)
    BY <1>3, <1>4 DEF ForSelected
  <2>2. PICK d, e : d = detail /\ e = found
    OBVIOUS
  <2>3. /\ Justified(d) /\ Justified(e) /\ \A c \in checks' : Justified(c)
        /\ selected # Nil /\ ~loading' => d # Nil /\ d.root = selected
    BY <1>1, <2>2 DEF ReadersInv, DetailIsSelected
  <2>4. UNCHANGED <<log, stored, rows, selected>> /\ d = detail' /\ e = found'
    BY <1>1, <2>2
  <2> QED
    BY <1>4, <2>1, <2>3, <2>4, OneRetrieval
<1>5. CASE ReadChain(f)
  <2>1. h.pc = "asked" /\ h.root \in Root
    BY <1>2, <1>3, <1>5 DEF ReadChain, Sound
  <2>2. CASE \E i \in OnChain(h.root) :
               FetchBecomes(f, [h EXCEPT !.pc = "read", !.chain = log[i].decision])
    <3>1. PICK i \in OnChain(h.root) :
            FetchBecomes(f, [h EXCEPT !.pc = "read", !.chain = log[i].decision])
      BY <2>2
    <3>2. PICK g : g = [h EXCEPT !.pc = "read", !.chain = log[i].decision]
      OBVIOUS
    <3>3. log[i].decision \in Decision
      <4>1. log \in Seq(Entry) /\ i \in 1 .. Len(log)
        BY LenProperties DEF OnChain, ReadersInv, LedgerInv
      <4>2. log[i] \in Entry
        BY <4>1, ElementOfSeq
      <4> QED
        BY <4>2, ReadersAssumption
    <3>4. /\ g.pc = "read" /\ g.chain = log[i].decision /\ g.by = h.by
          /\ g.alive = h.alive /\ g.root = h.root /\ g \in RetrievalType
      BY <1>3, <3>2, <3>3 DEF RetrievalType
    <3>5. Sound(g)
      BY <2>1, <3>4 DEF Sound
    <3> QED
      BY <1>4, <2>1, <3>1, <3>2, <3>4, <3>5
  <2>3. CASE FetchBecomes(f, [h EXCEPT !.pc = "done", !.said = "failed"])
    <3>1. PICK g : g = [h EXCEPT !.pc = "done", !.said = "failed"]
      OBVIOUS
    <3>2. /\ g.pc = "done" /\ g.said = "failed" /\ g.by = h.by
          /\ g.alive = h.alive /\ g.root = h.root /\ g \in RetrievalType
      BY <1>3, <3>1 DEF RetrievalType, Said
    <3>3. Sound(g)
      BY <2>1, <3>2 DEF Sound
    <3> QED
      BY <1>4, <2>1, <2>3, <3>1, <3>2, <3>3
  <2> QED
    BY <1>2, <1>5, <2>2, <2>3 DEF ReadChain
<1>6. CASE Open(f)
  <2>1. /\ h.pc = "read" /\ h.root \in Root /\ h.root \in DOMAIN stored
    BY <1>2, <1>3, <1>6 DEF Open, Sound
  <2>2. PICK said, g :
          /\ said = Verify(stored[h.root], h.chain)
          /\ g = [h EXCEPT !.pc = "done", !.said = said, !.chain = Nil]
    OBVIOUS
  <2>3. FetchBecomes(f, g)
    BY <1>2, <1>6, <2>2 DEF Open
  <2>4. said \in Said /\ Told(h.root, said)
    <3>1. PICK i \in OnChain(h.root) : h.chain = log[i].decision
      BY <1>3, <2>1 DEF Sound
    <3> QED
      BY <2>1, <2>2, <3>1 DEF Told, Said, Verify
  <2>5. /\ g.pc = "done" /\ g.said = said /\ g.by = h.by
        /\ g.alive = h.alive /\ g.root = h.root /\ g \in RetrievalType
    BY <1>3, <2>2, <2>4 DEF RetrievalType
  <2>6. Sound(g)
    BY <2>1, <2>4, <2>5 DEF Sound
  <2> QED
    BY <1>4, <2>1, <2>3, <2>5, <2>6
<1>7. CASE Fails(f)
  <2>1. h.pc # "idle" /\ h.root \in Root
    BY <1>2, <1>3, <1>7 DEF Fails, Sound
  <2>2. PICK g : g = [h EXCEPT !.pc = "done", !.said = "failed", !.chain = Nil]
    OBVIOUS
  <2>3. FetchBecomes(f, g)
    BY <1>2, <1>7, <2>2 DEF Fails
  <2>4. /\ g.pc = "done" /\ g.said = "failed" /\ g.by = h.by
        /\ g.alive = h.alive /\ g.root = h.root /\ g \in RetrievalType
    BY <1>3, <2>2 DEF RetrievalType, Said
  <2>5. Sound(g)
    BY <2>1, <2>4 DEF Sound
  <2> QED
    BY <1>4, <2>1, <2>3, <2>4, <2>5
<1> QED
  BY <1>5, <1>6, <1>7 DEF Retrieval

LEMMA NoFetchSound ==
  Sound(NoFetch) /\ ForSelected(NoFetch)
BY DEF Sound, ForSelected, NoFetch, RetrievalType, Said

\* The retrieval just begun.
Asking(who, m) == [pc |-> "asked", by |-> who, root |-> m, alive |-> TRUE,
                   chain |-> Nil, said |-> "failed"]

LEMMA Asked ==
  ASSUME NEW m \in Root, NEW who \in {"activity", "audit", "script"}
  PROVE  /\ Sound(Asking(who, m))
         /\ [NoFetch EXCEPT !.pc = "asked", !.by = who, !.root = m, !.alive = TRUE]
              = Asking(who, m)
<1>1. Asking(who, m) \in RetrievalType
  <2>1. m \in Root \cup {Nil} /\ Nil \in Decision \cup {Nil} /\ TRUE \in BOOLEAN
    OBVIOUS
  <2>2. "asked" \in {"idle", "asked", "read", "done"} /\ "failed" \in Said
    BY DEF Said
  <2> QED
    BY <2>1, <2>2 DEF Asking, RetrievalType
<1>2. Sound(Asking(who, m))
  BY <1>1 DEF Sound, Asking
<1>3. ASSUME NEW h \in RetrievalType, NEW p, NEW a
      PROVE  [h EXCEPT !.pc = p, !.by = who, !.root = m, !.alive = a]
               = [pc |-> p, by |-> who, root |-> m, alive |-> a, chain |-> h.chain,
                  said |-> h.said]
  <2>1. PICK g : g = [h EXCEPT !.pc = p, !.by = who, !.root = m, !.alive = a]
    OBVIOUS
  <2>2. PICK p0, b0, r0, a0, c0, s0 :
          h = [pc |-> p0, by |-> b0, root |-> r0, alive |-> a0, chain |-> c0, said |-> s0]
    BY DEF RetrievalType
  <2>3. g = [pc |-> p, by |-> who, root |-> m, alive |-> a, chain |-> c0, said |-> s0]
    BY <2>1, <2>2
  <2> QED
    BY <2>1, <2>2, <2>3
<1>4. NoFetch \in RetrievalType /\ NoFetch.chain = Nil /\ NoFetch.said = "failed"
  BY NoFetchSound DEF Sound, NoFetch
<1>5. [NoFetch EXCEPT !.pc = "asked", !.by = who, !.root = m, !.alive = TRUE]
        = [pc |-> "asked", by |-> who, root |-> m, alive |-> TRUE, chain |-> NoFetch.chain,
           said |-> NoFetch.said]
  BY <1>3, <1>4
<1> QED
  BY <1>2, <1>4, <1>5 DEF Asking

\* What the cleanup leaves: the same retrievals, none of which the page heeds.
LEMMA Cleanup ==
  ASSUME ReadersInv, NEW q \in Fetch
  PROVE  \E h : /\ h = Abandoned[q] /\ Sound(h)
                /\ ~(h.by = "activity" /\ h.pc # "idle" /\ h.alive)
<1>1. PICK h : h = fetch[q]
  OBVIOUS
<1>2. Sound(h) /\ h \in RetrievalType
  BY <1>1 DEF ReadersInv, Sound
<1>3. CASE Activity(q)
  <2>1. PICK g : g = [h EXCEPT !.alive = FALSE]
    OBVIOUS
  <2>2. /\ g \in RetrievalType /\ g.alive = FALSE /\ g.pc = h.pc /\ g.root = h.root
        /\ g.chain = h.chain /\ g.said = h.said
    BY <1>2, <2>1 DEF RetrievalType
  <2>3. Sound(g)
    BY <1>2, <2>2 DEF Sound
  <2>4. g = Abandoned[q]
    BY <1>1, <1>3, <2>1 DEF Abandoned
  <2> QED
    BY <2>2, <2>3, <2>4
<1>4. CASE ~Activity(q)
  <2>1. h = Abandoned[q] /\ ~(h.by = "activity" /\ h.pc # "idle")
    BY <1>1, <1>4 DEF Abandoned, Activity
  <2> QED
    BY <1>2, <2>1
<1> QED
  BY <1>3, <1>4

LEMMA HeardJustified ==
  ASSUME ReadersInv, NEW f \in Fetch, fetch[f].pc = "done", NEW a, a = Heard(f)
  PROVE  Justified(a) /\ a # Nil /\ a.root = fetch[f].root
<1>1. PICK h : h = fetch[f]
  OBVIOUS
<1>2. Sound(h) /\ h \in RetrievalType /\ h.root \in Root /\ h.said \in Said
  BY <1>1 DEF ReadersInv, Sound, RetrievalType
<1>3. a = [root |-> h.root, said |-> h.said]
  BY <1>1 DEF Heard
<1>4. a \in Answer /\ a # Nil
  BY <1>2, <1>3, ReadersAssumption DEF Answer
<1>5. h.said # "failed" => Told(h.root, h.said)
  BY <1>1, <1>2 DEF Sound
<1> QED
  BY <1>1, <1>3, <1>4, <1>5 DEF Justified

\* The page asks for the bundle of the row just selected.
LEMMA LoadKeeps ==
  ASSUME ReadersInv, NEW f \in Fetch, NEW m \in Root, LoadBundle(f, m),
         UNCHANGED <<log, stored, detail, found, checks>>,
         rows' = Nil \/ \A i \in DOMAIN rows' : rows'[i] \in Root
  PROVE  ReadersInv'
<1>1. PICK g : g = Asking("activity", m)
  OBVIOUS
<1>2. Sound(g) /\ g.root = m
  BY <1>1, Asked DEF Asking
<1>3. fetch' = [Abandoned EXCEPT ![f] = g] /\ selected' = m /\ loading' = TRUE
  <2>1. [NoFetch EXCEPT !.pc = "asked", !.by = "activity", !.root = m, !.alive = TRUE] = g
    BY <1>1, Asked
  <2> QED
    BY <2>1 DEF LoadBundle
<1>4. /\ DOMAIN fetch' = Fetch /\ fetch'[f] = g
      /\ \A q \in Fetch \ {f} : fetch'[q] = Abandoned[q]
  BY <1>3 DEF Abandoned
<1>5. \A q \in Fetch : \E h :
      /\ h = fetch'[q] /\ Sound(h)
      /\ h.by = "activity" /\ h.pc # "idle" /\ h.alive => h.root = m
  <2> SUFFICES ASSUME NEW q \in Fetch
               PROVE  \E h :
                 /\ h = fetch'[q] /\ Sound(h)
                 /\ h.by = "activity" /\ h.pc # "idle" /\ h.alive => h.root = m
    OBVIOUS
  <2>1. CASE q = f
    BY <1>2, <1>4, <2>1
  <2>2. CASE q # f
    BY <1>4, <2>2, Cleanup
  <2> QED
    BY <2>1, <2>2
<1>6. PICK d, e : d = detail /\ e = found
  OBVIOUS
<1>7. Justified(d) /\ Justified(e) /\ \A c \in checks' : Justified(c)
  BY <1>6 DEF ReadersInv
<1>8. UNCHANGED <<log, stored>> /\ d = detail' /\ e = found'
  BY <1>6
<1> QED
  BY <1>3, <1>4, <1>5, <1>7, <1>8, ReaderSteps

LEMMA LoadRowsKeeps ==
  ASSUME ReadersInv, LoadRows
  PROVE  ReadersInv'
<1>1. \A i \in DOMAIN rows' : rows'[i] \in Root
  <2>1. log \in Seq(Entry) /\ Len(log) \in Nat
    BY LenProperties DEF ReadersInv, LedgerInv
  <2>2. PICK n \in Nat : n <= Len(log) /\ rows' = [i \in 1 .. n |-> log[i].root]
    <3>1. PageSize \in Nat
      BY ReadersAssumption
    <3> QED
      BY <2>1, <3>1 DEF LoadRows
  <2>3. ASSUME NEW i \in 1 .. n PROVE log[i].root \in Root
    <3>1. i \in 1 .. Len(log)
      BY <2>1, <2>2
    <3>2. log[i] \in Entry
      BY <2>1, <3>1, ElementOfSeq
    <3> QED
      BY <3>2, ReadersAssumption
  <2> QED
    BY <2>2, <2>3
<1>2. UNCHANGED <<log, stored, detail, retrieving, found, checks, exit>>
  BY DEF LoadRows
<1>3. CASE rows' = <<>> /\ UNCHANGED <<fetch, loading, selected>>
  <2>1. PICK d, e, sel : d = detail /\ e = found /\ sel = selected
    OBVIOUS
  <2>2. /\ Justified(d) /\ Justified(e) /\ \A c \in checks' : Justified(c)
        /\ sel # Nil /\ ~loading' => d # Nil /\ d.root = sel
    BY <1>2, <1>3, <2>1 DEF ReadersInv, DetailIsSelected
  <2>3. \A q \in Fetch : \E h :
        /\ h = fetch'[q] /\ Sound(h)
        /\ h.by = "activity" /\ h.pc # "idle" /\ h.alive => h.root = sel
    BY <1>3, <2>1 DEF ReadersInv, ForSelected
  <2>4. UNCHANGED <<log, stored>> /\ DOMAIN fetch' = Fetch /\ d = detail' /\ e = found'
        /\ sel = selected'
    BY <1>2, <1>3, <2>1 DEF ReadersInv
  <2> QED
    BY <1>1, <2>2, <2>3, <2>4, ReaderSteps
<1>4. CASE rows' # <<>> /\ \E f \in Fetch : LoadBundle(f, rows'[1])
  <2>1. PICK m : m = rows'[1] /\ \E f \in Fetch : LoadBundle(f, m)
    BY <1>4
  <2>2. m \in Root
    <3>1. PICK n \in Nat : DOMAIN rows' = 1 .. n
          /\ rows' = [i \in 1 .. n |-> log[i].root]
      <4>1. Len(log) \in Nat /\ PageSize \in Nat
        BY LenProperties, ReadersAssumption DEF ReadersInv, LedgerInv
      <4> QED
        BY <4>1 DEF LoadRows
    <3>2. n # 0
      BY <1>4, <3>1
    <3> QED
      BY <1>1, <2>1, <3>1, <3>2
  <2>3. UNCHANGED <<log, stored, detail, found, checks>>
    BY <1>2
  <2>4. PICK f \in Fetch : LoadBundle(f, m)
    BY <2>1
  <2> QED
    BY <1>1, <2>2, <2>3, <2>4, LoadKeeps
<1> QED
  BY <1>3, <1>4 DEF LoadRows

LEMMA LeaveKeeps ==
  ASSUME ReadersInv, Leave
  PROVE  ReadersInv'
<1>1. /\ fetch' = Abandoned /\ rows' = Nil /\ selected' = Nil /\ detail' = Nil
      /\ UNCHANGED <<log, stored, found, checks>>
  BY DEF Leave
<1>2. PICK d, e, sel : d = Nil /\ e = found /\ sel = Nil
  OBVIOUS
<1>3. /\ DOMAIN fetch' = Fetch
      /\ \A q \in Fetch : \E h :
           /\ h = fetch'[q] /\ Sound(h)
           /\ h.by = "activity" /\ h.pc # "idle" /\ h.alive => h.root = sel
  BY <1>1, Cleanup DEF Abandoned
<1>4. Justified(d) /\ Justified(e) /\ \A c \in checks' : Justified(c)
  BY <1>1, <1>2 DEF ReadersInv, Justified
<1>5. /\ UNCHANGED <<log, stored>> /\ d = detail' /\ e = found' /\ sel = selected'
      /\ sel # Nil /\ ~loading' => d # Nil /\ d.root = sel
  BY <1>1, <1>2
<1> QED
  BY <1>1, <1>3, <1>4, <1>5, ReaderSteps

LEMMA BundleShownKeeps ==
  ASSUME ReadersInv, NEW f \in Fetch, BundleShown(f)
  PROVE  ReadersInv'
<1>1. /\ fetch[f].pc = "done" /\ fetch[f].by = "activity" /\ FetchBecomes(f, NoFetch)
      /\ UNCHANGED <<log, stored, rows, selected>> /\ UNCHANGED <<found, checks>>
  BY DEF BundleShown, Answered
<1>2. PICK e, a : e = found /\ a = Heard(f)
  OBVIOUS
<1>3. Justified(e) /\ e = found' /\ \A c \in checks' : Justified(c)
  BY <1>1, <1>2 DEF ReadersInv
<1>4. Justified(a) /\ a # Nil /\ a.root = fetch[f].root
  BY <1>1, <1>2, HeardJustified
<1>5. PICK g : g = NoFetch
  OBVIOUS
<1>6. FetchBecomes(f, g) /\ Sound(g) /\ ForSelected(g)
  BY <1>1, <1>5, NoFetchSound
<1>7. CASE fetch[f].alive
  <2>1. a = detail' /\ fetch[f].root = selected
    BY <1>1, <1>2, <1>7 DEF BundleShown, ReadersInv, ForSelected
  <2>2. selected # Nil /\ ~loading' => a # Nil /\ a.root = selected
    BY <1>4, <2>1
  <2>3. UNCHANGED <<log, stored, rows, selected>>
    BY <1>1
  <2> QED
    BY <1>3, <1>4, <1>6, <2>1, <2>2, <2>3, OneRetrieval
<1>8. CASE ~fetch[f].alive
  <2>1. UNCHANGED <<detail, loading>>
    BY <1>8 DEF BundleShown
  <2>2. PICK d : d = detail
    OBVIOUS
  <2>3. /\ Justified(d) /\ d = detail'
        /\ selected # Nil /\ ~loading' => d # Nil /\ d.root = selected
    BY <2>1, <2>2 DEF ReadersInv, DetailIsSelected
  <2>4. UNCHANGED <<log, stored, rows, selected>>
    BY <1>1
  <2> QED
    BY <1>3, <1>6, <2>3, <2>4, OneRetrieval
<1> QED
  BY <1>7, <1>8

\* The audit page and verify-bundles: retrievals the activity page knows nothing of.
LEMMA ElsewhereKeeps ==
  ASSUME ReadersInv, NEW f \in Fetch,
         UNCHANGED <<log, stored, rows, selected>>, UNCHANGED <<loading, detail>>,
         NEW g, FetchBecomes(f, g), Sound(g), g.by # "activity" \/ g.pc = "idle",
         NEW e, e = found', Justified(e), \A c \in checks' : Justified(c)
  PROVE  ReadersInv'
<1>1. PICK d : d = detail
  OBVIOUS
<1>2. /\ Justified(d) /\ d = detail'
      /\ selected # Nil /\ ~loading' => d # Nil /\ d.root = selected
  BY <1>1 DEF ReadersInv, DetailIsSelected
<1>3. ForSelected(g)
  BY DEF ForSelected
<1> QED
  BY <1>2, <1>3, OneRetrieval

LEMMA AsksKeeps ==
  ASSUME ReadersInv, NEW f \in Fetch, NEW m \in Root,
         Retrieve(f, m) \/ (CheckNext(f) /\ Asks(f, "script", m))
  PROVE  ReadersInv'
<1>1. PICK who \in {"audit", "script"} :
        /\ Asks(f, who, m)
        /\ UNCHANGED <<log, stored, rows, selected>> /\ UNCHANGED <<loading, detail>>
        /\ checks' = checks /\ (found' = Nil \/ found' = found)
  BY DEF Retrieve, CheckNext
<1>2. PICK g : g = Asking(who, m)
  OBVIOUS
<1>3. FetchBecomes(f, g) /\ Sound(g) /\ g.by # "activity"
  <2>1. /\ Sound(g)
        /\ [NoFetch EXCEPT !.pc = "asked", !.by = who, !.root = m, !.alive = TRUE] = g
    BY <1>2, Asked
  <2>2. FetchBecomes(f, g)
    BY <1>1, <2>1 DEF Asks
  <2> QED
    BY <1>2, <2>1, <2>2 DEF Asking
<1>4. PICK e : e = found'
  OBVIOUS
<1>5. Justified(e) /\ \A c \in checks' : Justified(c)
  BY <1>1, <1>4 DEF ReadersInv, Justified
<1> QED
  BY <1>1, <1>3, <1>4, <1>5, ElsewhereKeeps

LEMMA HeardKeeps ==
  ASSUME ReadersInv, NEW f \in Fetch, Retrieved(f) \/ CheckDone(f)
  PROVE  ReadersInv'
<1>1. /\ fetch[f].pc = "done" /\ FetchBecomes(f, NoFetch)
      /\ UNCHANGED <<log, stored, rows, selected>> /\ UNCHANGED <<loading, detail>>
  BY DEF Retrieved, CheckDone, Answered
<1>2. PICK a, e : a = Heard(f) /\ e = found'
  OBVIOUS
<1>3. Justified(a)
  BY <1>1, <1>2, HeardJustified
<1>4. Justified(e) /\ \A c \in checks' : Justified(c)
  BY <1>2, <1>3 DEF Retrieved, CheckDone, ReadersInv
<1>5. PICK g : g = NoFetch
  OBVIOUS
<1>6. FetchBecomes(f, g) /\ Sound(g) /\ g.pc = "idle"
  BY <1>1, <1>5, NoFetchSound DEF NoFetch
<1> QED
  BY <1>1, <1>2, <1>4, <1>6, ElsewhereKeeps

\* Steps that change no retrieval, and what the activity page shows not either.
LEMMA QuietKeeps ==
  ASSUME ReadersInv, UNCHANGED <<log, stored, fetch, rows, selected>>,
         UNCHANGED <<loading, detail, checks>>, found' = Nil \/ found' = found
  PROVE  ReadersInv'
<1>1. PICK d, e, sel : d = detail /\ e = found' /\ sel = selected
  OBVIOUS
<1>2. /\ Justified(d) /\ Justified(e) /\ \A c \in checks' : Justified(c)
      /\ sel # Nil /\ ~loading' => d # Nil /\ d.root = sel
  BY <1>1 DEF ReadersInv, Justified, DetailIsSelected
<1>3. \A q \in Fetch : \E h :
      /\ h = fetch'[q] /\ Sound(h)
      /\ h.by = "activity" /\ h.pc # "idle" /\ h.alive => h.root = sel
  BY <1>1 DEF ReadersInv, ForSelected
<1>4. /\ UNCHANGED <<log, stored>> /\ DOMAIN fetch' = Fetch /\ d = detail' /\ e = found'
      /\ sel = selected' /\ (rows' = Nil \/ \A i \in DOMAIN rows' : rows'[i] \in Root)
  BY <1>1 DEF ReadersInv
<1> QED
  BY <1>2, <1>3, <1>4, ReaderSteps

LEMMA ReadersInvNext ==
  ASSUME ReadersInv, [ReadersNext]_auditVars
  PROVE  ReadersInv'
<1>1. ASSUME NEW m \in Root, NEW d \in Decided, NEW used \in Reports,
             ServerUploads(m, d, used)
      PROVE  ReadersInv'
  <2>1. PICK registry \in {[policy |-> p, source |-> "chain-sync"] : p \in PolicyText}
                            \cup {Nil} :
          Upload(m, [decision |-> d, used |-> used, snapshot |-> SnapshotOf(used, registry),
                     by |-> "server"])
    BY <1>1 DEF ServerUploads
  <2>2. d \in Decision
    BY ReadersAssumption
  <2>3. WellMade([decision |-> d, used |-> used,
                  snapshot |-> SnapshotOf(used, registry), by |-> "server"])
    BY <2>2, ServerBundleWellMade
  <2> QED
    BY <2>1, <2>3, UploadKeeps
<1>2. ASSUME NEW m \in Root, NEW b \in OthersDo, Upload(m, b) PROVE ReadersInv'
  <2>1. WellMade(b)
    BY ReadersAssumption DEF WellMade, Bundle
  <2> QED
    BY <1>2, <2>1, UploadKeeps
<1>3. ASSUME NEW m \in Root, ServerRecords(m) PROVE ReadersInv'
  <2>1. PICK d : d = stored[m].decision
    OBVIOUS
  <2>2. /\ m \in DOMAIN stored /\ stored[m].by = "server" /\ stored[m].decision = d
        /\ Contract!Record([root |-> m, decision |-> d, by |-> "server"])
        /\ UNCHANGED <<stored, readerVars>>
    BY <1>3, <2>1 DEF ServerRecords
  <2>3. d \in Decision
    BY <2>1, <2>2 DEF ReadersInv, LedgerInv, WellMade
  <2> QED
    BY <2>2, <2>3, RecordKeeps
<1>4. ASSUME NEW m \in Root, NEW d \in Claims, OtherRecords(m, d) PROVE ReadersInv'
  <2>1. /\ d \in Decision /\ UNCHANGED <<stored, readerVars>>
        /\ Contract!Record([root |-> m, decision |-> d, by |-> "others"])
    BY <1>4, ReadersAssumption DEF OtherRecords
  <2> QED
    BY <2>1, RecordKeeps
<1>5. ASSUME NEW m \in Root, Select(m) PROVE ReadersInv'
  <2>1. PICK f \in Fetch : LoadBundle(f, m)
    BY <1>5 DEF Select
  <2>2. /\ UNCHANGED <<log, stored, detail, found, checks>>
        /\ (rows' = Nil \/ \A i \in DOMAIN rows' : rows'[i] \in Root)
    BY <1>5 DEF Select, ReadersInv
  <2> QED
    BY <2>1, <2>2, LoadKeeps
<1>6. ASSUME NEW m \in Root, NEW f \in Fetch, Retrieve(f, m) PROVE ReadersInv'
  BY <1>6, AsksKeeps
<1>7. ASSUME LoadRows \/ Leave \/ Lookup \/ Exits PROVE ReadersInv'
  <2>1. CASE Lookup \/ Exits
    BY <2>1, QuietKeeps DEF Lookup, Exits
  <2> QED
    BY <1>7, <2>1, LoadRowsKeeps, LeaveKeeps
<1>8. ASSUME NEW f \in Fetch, Retrieval(f) \/ Fails(f) \/ BundleShown(f) \/ Retrieved(f)
                                 \/ CheckNext(f) \/ CheckDone(f)
      PROVE  ReadersInv'
  <2>1. CASE CheckNext(f)
    <3>1. PICK m \in Unchecked : Asks(f, "script", m)
      BY <2>1 DEF CheckNext
    <3>2. m \in Root
      BY ReadersAssumption DEF Unchecked
    <3> QED
      BY <2>1, <3>1, <3>2, AsksKeeps
  <2> QED
    BY <1>8, <2>1, RetrievalKeeps, BundleShownKeeps, HeardKeeps
<1>9. CASE UNCHANGED auditVars
  BY <1>9, QuietKeeps DEF auditVars, readerVars
<1> QED
  BY <1>1, <1>2, <1>3, <1>4, <1>5, <1>6, <1>7, <1>8, <1>9 DEF ReadersNext

\* Every state of the readers satisfies the invariant.
LEMMA ReadersAlways == ReadersSpec => []ReadersInv
<1>1. ReadersInv /\ [ReadersNext]_auditVars => ReadersInv'
  BY ReadersInvNext
<1> QED
  BY <1>1, ReadersInvInit, PTL DEF ReadersSpec

\* When the activity page says it is done loading, what it shows is the bundle of
\* the row selected, however many bundles of rows selected before are on their way.
THEOREM DetailAlwaysSelected == ReadersSpec => []DetailIsSelected
<1>1. ReadersInv => DetailIsSelected
  BY ReadersInvAnswers
<1> QED
  BY <1>1, ReadersAlways, PTL

\* What a page or verify-bundles was told is verified is on the ledger with the
\* decision of its bundle, and some guardian judged by the snapshot.
THEOREM VerifiedAlwaysBacked == ReadersSpec => []VerifiedIsBacked
<1>1. ReadersInv => VerifiedIsBacked
  BY ReadersInvAnswers
<1> QED
  BY <1>1, ReadersAlways, PTL

\* Of the server's own decisions, exactly those whose guardians all judged by one
\* policy are verified (verifyDecisionBundle against buildDecisionBundle).
THEOREM OwnAlwaysVerify == ReadersSpec => []OwnDecisionsVerify
<1>1. ReadersInv => OwnDecisionsVerify
  BY ReadersInvAnswers
<1> QED
  BY <1>1, ReadersAlways, PTL

-----------------------------------------------------------------------------
(***************************************************************************)
(* Registration of .eth names. What a job may answer rests on its own      *)
(* transaction and on names that nobody loses once they have them.         *)
(***************************************************************************)
JobSound(j) ==
  /\ job[j].pc = "idle" => tx[j] = "none" /\ ~taken[j]
  /\ job[j].pc # "idle" => job[j].label \in Label /\ job[j].owner \in Party
  /\ job[j].pc \in {"register", "registering"} => commitment[j] # "none"
  /\ job[j].pc = "registering" /\ tx[j] = "mined" => taken[j]
  /\ taken[j] => ethOwner[job[j].label] = job[j].owner
  /\ job[j].pc = "already" => ethOwner[job[j].label] # Nobody
  /\ job[j].pc = "registered" => taken[j]

RegistrarInv == RegistrarTypeOK /\ \A j \in Job : JobSound(j)

JobRecord == [pc : Pc, label : Label \cup {Nobody}, owner : Party \cup {Nobody}]

LEMMA RegistrarInvInit == RegistrarInit => RegistrarInv
<1> SUFFICES ASSUME RegistrarInit PROVE RegistrarInv
  OBVIOUS
<1>1. Unborn \in JobRecord /\ Unborn.pc = "idle"
  BY DEF Unborn, JobRecord, Pc
<1>2. job \in [Job -> JobRecord]
  BY <1>1 DEF RegistrarInit
<1>3. RegistrarTypeOK
  BY <1>2, RegistrarAssumption DEF RegistrarInit, RegistrarTypeOK, JobRecord
<1>4. ASSUME NEW j \in Job PROVE JobSound(j)
  BY <1>1 DEF RegistrarInit, JobSound
<1> QED
  BY <1>3, <1>4 DEF RegistrarInv

\* What is true of a job stays true when only its place changes, or another's, and
\* no name that has an owner changes hands.
LEMMA JobKept ==
  ASSUME RegistrarInv, NEW j \in Job, job'[j] = job[j], tx'[j] = tx[j], taken'[j] = taken[j],
         commitment[j] # "none" => commitment'[j] # "none",
         \A l \in Label : ethOwner[l] # Nobody => ethOwner'[l] = ethOwner[l]
  PROVE  JobSound(j)'
<1>1. JobSound(j)
  BY DEF RegistrarInv
<1>2. job[j].owner \in Party => job[j].owner # Nobody
  BY RegistrarAssumption
<1> QED
  BY <1>1, <1>2 DEF JobSound

LEMMA GotoSets ==
  ASSUME RegistrarInv, NEW j \in Job, NEW pc \in Pc, Goto(j, pc)
  PROVE  /\ job' \in [Job -> JobRecord]
         /\ job'[j].pc = pc /\ job'[j].label = job[j].label /\ job'[j].owner = job[j].owner
         /\ \A k \in Job \ {j} : job'[k] = job[k]
<1>1. job \in [Job -> JobRecord]
  BY DEF RegistrarInv, RegistrarTypeOK, JobRecord
<1>2. PICK g : g = job[j] /\ g \in JobRecord
  BY <1>1
<1>3. PICK h : h = [g EXCEPT !.pc = pc]
  OBVIOUS
<1>4. h \in JobRecord /\ h.pc = pc /\ h.label = g.label /\ h.owner = g.owner
  BY <1>2, <1>3 DEF JobRecord
<1>5. job' = [job EXCEPT ![j] = h]
  BY <1>2, <1>3 DEF Goto
<1> QED
  BY <1>1, <1>2, <1>4, <1>5

\* A step of a job that goes on, or ends, without a name changing hands.
LEMMA GotoKeeps ==
  ASSUME RegistrarInv, NEW j \in Job, NEW pc \in Pc, Goto(j, pc),
         job[j].pc # "idle", pc # "idle",
         UNCHANGED <<ethOwner, funds, taken>>,
         tx' \in [Job -> {"none", "sent", "mined", "reverted"}],
         commitment' \in [Job -> {"none", "young", "aged"}],
         \A k \in Job \ {j} : tx'[k] = tx[k] /\ commitment'[k] = commitment[k],
         pc \in {"register", "registering"} => commitment'[j] # "none",
         pc = "registering" /\ tx'[j] = "mined" => taken[j],
         pc = "already" => ethOwner[job[j].label] # Nobody,
         pc = "registered" => taken[j]
  PROVE  RegistrarInv'
<1>1. /\ job' \in [Job -> JobRecord]
      /\ job'[j].pc = pc /\ job'[j].label = job[j].label /\ job'[j].owner = job[j].owner
      /\ \A k \in Job \ {j} : job'[k] = job[k]
  BY GotoSets
<1>2. RegistrarTypeOK'
  BY <1>1 DEF RegistrarInv, RegistrarTypeOK, JobRecord
<1>3. JobSound(j)'
  <2>1. JobSound(j)
    BY DEF RegistrarInv
  <2> QED
    BY <1>1, <2>1 DEF JobSound
<1>4. ASSUME NEW k \in Job \ {j} PROVE JobSound(k)'
  BY <1>1, JobKept
<1> QED
  BY <1>2, <1>3, <1>4 DEF RegistrarInv

LEMMA JobStepKeeps ==
  ASSUME RegistrarInv, NEW j \in Job, JobStep(j) \/ JobDies(j)
  PROVE  RegistrarInv'
<1>1. /\ tx \in [Job -> {"none", "sent", "mined", "reverted"}]
      /\ commitment \in [Job -> {"none", "young", "aged"}] /\ JobSound(j)
  BY DEF RegistrarInv, RegistrarTypeOK
<1>2. CASE \E pc \in Pc : /\ Goto(j, pc) /\ UNCHANGED tx /\ Remote
                          /\ job[j].pc # "idle" /\ pc \notin {"idle", "register", "registering"}
                          /\ pc = "already" => ethOwner[job[j].label] # Nobody
                          /\ pc = "registered" => taken[j]
  BY <1>1, <1>2, GotoKeeps DEF Remote
<1>3. CASE Available(j)
  <2>1. PICK pc \in {"price", "already", "error"} :
          /\ Goto(j, pc) /\ (pc = "already" => ethOwner[job[j].label] # Nobody)
    BY <1>3 DEF Available
  <2>2. pc \in Pc
    BY <2>1 DEF Pc
  <2> QED
    BY <1>2, <1>3, <2>1, <2>2 DEF Available
<1>4. CASE Affordable(j)
  <2>1. PICK pc \in {"commit", "error"} : Goto(j, pc)
    BY <1>4 DEF Affordable
  <2>2. pc \in Pc
    BY <2>1 DEF Pc
  <2> QED
    BY <1>2, <1>4, <2>1, <2>2 DEF Affordable
<1>5. CASE JobFails(j) \/ JobDies(j)
  <2>1. PICK pc \in {"error", "dead"} : Goto(j, pc)
    BY <1>5 DEF JobFails, JobDies
  <2>2. pc \in Pc
    BY <2>1 DEF Pc
  <2> QED
    BY <1>2, <1>5, <2>1, <2>2 DEF JobFails, JobDies, Working
<1>6. CASE RegisterDone(j)
  <2>1. PICK pc \in {"registered", "error"} : Goto(j, pc) /\ (pc = "registered" => tx[j] = "mined")
    BY <1>6 DEF RegisterDone
  <2>2. pc \in Pc
    BY <2>1 DEF Pc
  <2>3. pc = "registered" => taken[j]
    BY <1>1, <1>6, <2>1 DEF RegisterDone, JobSound
  <2> QED
    BY <1>2, <1>6, <2>1, <2>2, <2>3 DEF RegisterDone
<1>7. CASE Commit(j) \/ Committed(j) \/ Register(j)
  <2>1. PICK pc \in {"committing", "waiting", "registering"}, t \in {"none", "sent"} :
          /\ Goto(j, pc) /\ tx' = [tx EXCEPT ![j] = t] /\ Remote
          /\ job[j].pc # "idle" /\ (pc = "registering" => job[j].pc = "register")
    BY <1>7 DEF Commit, Committed, Register
  <2>2. pc \in Pc
    BY <2>1 DEF Pc
  <2>3. pc \in {"register", "registering"} => commitment'[j] # "none"
    BY <1>1, <2>1 DEF Remote, JobSound
  <2>4. /\ UNCHANGED <<ethOwner, funds, taken>> /\ commitment' = commitment
        /\ tx' \in [Job -> {"none", "sent", "mined", "reverted"}] /\ tx'[j] = t
        /\ \A k \in Job \ {j} : tx'[k] = tx[k]
    BY <1>1, <2>1 DEF Remote
  <2> QED
    BY <1>1, <2>1, <2>2, <2>3, <2>4, GotoKeeps
<1>8. CASE Waited(j)
  <2>1. "register" \in Pc
    BY DEF Pc
  <2>2. /\ Goto(j, "register") /\ job[j].pc # "idle"
        /\ UNCHANGED <<ethOwner, funds, taken>> /\ tx' = tx
        /\ commitment' \in [Job -> {"none", "young", "aged"}] /\ commitment'[j] # "none"
        /\ \A k \in Job \ {j} : commitment'[k] = commitment[k]
    BY <1>1, <1>8 DEF Waited
  <2> QED
    BY <1>1, <2>1, <2>2, GotoKeeps
<1> QED
  BY <1>3, <1>4, <1>5, <1>6, <1>7, <1>8 DEF JobStep

LEMMA BeginKeeps ==
  ASSUME RegistrarInv, NEW j \in Job, NEW l \in Label, NEW p \in Party, Begin(j, l, p)
  PROVE  RegistrarInv'
<1>1. PICK g : g = [pc |-> "available", label |-> l, owner |-> p]
  OBVIOUS
<1>2. g \in JobRecord /\ g.pc = "available" /\ g.label = l /\ g.owner = p
  BY <1>1 DEF JobRecord, Pc
<1>3. job' = [job EXCEPT ![j] = g] /\ job \in [Job -> JobRecord]
  BY <1>1 DEF Begin, RegistrarInv, RegistrarTypeOK, JobRecord
<1>4. /\ job' \in [Job -> JobRecord] /\ job'[j] = g
      /\ \A k \in Job \ {j} : job'[k] = job[k]
  BY <1>2, <1>3
<1>5. UNCHANGED <<ethOwner, funds, commitment, taken, tx>>
  BY DEF Begin, Remote
<1>6. RegistrarTypeOK'
  BY <1>4, <1>5 DEF RegistrarInv, RegistrarTypeOK, JobRecord
<1>7. JobSound(j)'
  <2>1. ~taken[j]
    BY DEF RegistrarInv, JobSound, Begin
  <2> QED
    BY <1>2, <1>4, <1>5, <2>1 DEF JobSound
<1>8. ASSUME NEW k \in Job \ {j} PROVE JobSound(k)'
  BY <1>4, <1>5, JobKept
<1> QED
  BY <1>6, <1>7, <1>8 DEF RegistrarInv

LEMMA OthersRegisterKeeps ==
  ASSUME RegistrarInv, OthersRegister
  PROVE  RegistrarInv'
<1>1. PICK l \in Label, p \in Party :
        ethOwner[l] = Nobody /\ ethOwner' = [ethOwner EXCEPT ![l] = p]
  BY DEF OthersRegister
<1>2. UNCHANGED <<funds, commitment, tx, job, taken>>
  BY DEF OthersRegister
<1>3. ethOwner \in [Label -> Party \cup {Nobody}]
  BY DEF RegistrarInv, RegistrarTypeOK
<1>4. /\ ethOwner' \in [Label -> Party \cup {Nobody}]
      /\ \A m \in Label : ethOwner[m] # Nobody => ethOwner'[m] = ethOwner[m]
  BY <1>1, <1>3
<1>5. ASSUME NEW k \in Job PROVE JobSound(k)'
  BY <1>2, <1>4, JobKept
<1> QED
  BY <1>2, <1>4, <1>5 DEF RegistrarInv, RegistrarTypeOK

LEMMA ExecuteKeeps ==
  ASSUME RegistrarInv, NEW j \in Job, Execute(j)
  PROVE  RegistrarInv'
<1>1. /\ ethOwner \in [Label -> Party \cup {Nobody}] /\ funds \in 0 .. Budget
      /\ tx \in [Job -> {"none", "sent", "mined", "reverted"}]
      /\ commitment \in [Job -> {"none", "young", "aged"}]
      /\ taken \in [Job -> BOOLEAN] /\ JobSound(j)
  BY DEF RegistrarInv, RegistrarTypeOK
<1>2. tx[j] = "sent" /\ job' = job
  BY DEF Execute
<1>3. job[j].pc # "idle" /\ job[j].label \in Label /\ job[j].owner \in Party
  BY <1>1, <1>2 DEF JobSound
<1>4. CASE commitment[j] = "none"
  <2>1. /\ commitment' = [commitment EXCEPT ![j] = "young"]
        /\ tx' = [tx EXCEPT ![j] = "mined"]
        /\ UNCHANGED <<ethOwner, funds, taken>>
    BY <1>4 DEF Execute
  <2>2. RegistrarTypeOK'
    BY <1>1, <1>2, <2>1 DEF RegistrarInv, RegistrarTypeOK
  <2>3. JobSound(j)'
    BY <1>1, <1>2, <1>3, <1>4, <2>1 DEF JobSound
  <2>4. ASSUME NEW k \in Job \ {j} PROVE JobSound(k)'
    BY <1>1, <1>2, <2>1, JobKept
  <2> QED
    BY <2>2, <2>3, <2>4 DEF RegistrarInv
<1>5. CASE /\ commitment[j] # "none" /\ ethOwner[job[j].label] = Nobody /\ funds > 0
           /\ ethOwner' = [ethOwner EXCEPT ![job[j].label] = job[j].owner]
           /\ funds' = funds - 1
           /\ taken' = [taken EXCEPT ![j] = TRUE]
           /\ tx' = [tx EXCEPT ![j] = "mined"]
           /\ UNCHANGED commitment
  <2>1. /\ ethOwner' \in [Label -> Party \cup {Nobody}]
        /\ ethOwner'[job[j].label] = job[j].owner
        /\ \A m \in Label : ethOwner[m] # Nobody => ethOwner'[m] = ethOwner[m]
    BY <1>1, <1>3, <1>5
  <2>2. funds' \in 0 .. Budget
    BY <1>1, <1>5, RegistrarAssumption
  <2>3. /\ taken' \in [Job -> BOOLEAN] /\ taken'[j] = TRUE
        /\ \A k \in Job \ {j} : taken'[k] = taken[k]
    BY <1>1, <1>5
  <2>4. /\ tx' \in [Job -> {"none", "sent", "mined", "reverted"}]
        /\ \A k \in Job \ {j} : tx'[k] = tx[k]
    BY <1>1, <1>5
  <2>5. RegistrarTypeOK'
    BY <1>1, <1>2, <1>5, <2>1, <2>2, <2>3, <2>4 DEF RegistrarInv, RegistrarTypeOK
  <2>6. JobSound(j)'
    <3>1. job[j].owner # Nobody
      BY <1>3, RegistrarAssumption
    <3> QED
      BY <1>1, <1>2, <1>3, <1>5, <2>1, <2>3, <3>1 DEF JobSound
  <2>7. ASSUME NEW k \in Job \ {j} PROVE JobSound(k)'
    BY <1>1, <1>2, <1>5, <2>1, <2>3, <2>4, JobKept
  <2> QED
    BY <2>5, <2>6, <2>7 DEF RegistrarInv
<1>6. CASE commitment[j] # "none" /\ tx' = [tx EXCEPT ![j] = "reverted"]
           /\ UNCHANGED <<ethOwner, funds, commitment, taken>>
  <2>1. RegistrarTypeOK'
    BY <1>1, <1>2, <1>6 DEF RegistrarInv, RegistrarTypeOK
  <2>2. JobSound(j)'
    BY <1>1, <1>2, <1>3, <1>6 DEF JobSound
  <2>3. ASSUME NEW k \in Job \ {j} PROVE JobSound(k)'
    BY <1>1, <1>2, <1>6, JobKept
  <2> QED
    BY <2>1, <2>2, <2>3 DEF RegistrarInv
<1> QED
  BY <1>4, <1>5, <1>6 DEF Execute

LEMMA RegistrarInvNext ==
  ASSUME RegistrarInv, [RegistrarNext]_registrarVars
  PROVE  RegistrarInv'
<1>1. CASE OthersRegister
  BY <1>1, OthersRegisterKeeps
<1>2. ASSUME NEW j \in Job, JobStep(j) \/ JobDies(j) PROVE RegistrarInv'
  BY <1>2, JobStepKeeps
<1>3. ASSUME NEW j \in Job, Execute(j) PROVE RegistrarInv'
  BY <1>3, ExecuteKeeps
<1>4. ASSUME NEW j \in Job, NEW l \in Label, NEW p \in Party, Begin(j, l, p)
      PROVE  RegistrarInv'
  BY <1>4, BeginKeeps
<1>5. CASE UNCHANGED registrarVars
  BY <1>5 DEF registrarVars, RegistrarInv, RegistrarTypeOK, JobSound
<1> QED
  BY <1>1, <1>2, <1>3, <1>4, <1>5 DEF RegistrarNext

\* An ok answer names an existing name, and one that says it registered the name
\* did so itself, for the owner asked for (POST ens-register, register-ens-sepolia).
THEOREM AnsweredAlwaysExist == RegistrarSpec => []AnsweredNamesExist
<1>1. RegistrarInv => AnsweredNamesExist
  BY DEF RegistrarInv, JobSound, AnsweredNamesExist
<1>2. RegistrarInv /\ [RegistrarNext]_registrarVars => RegistrarInv'
  BY RegistrarInvNext
<1> QED
  BY <1>1, <1>2, RegistrarInvInit, PTL DEF RegistrarSpec

-----------------------------------------------------------------------------
(***************************************************************************)
(* A guardian's identity. An entry of the cache is never younger than what *)
(* it holds was last on record.                                            *)
(***************************************************************************)
CallFields == {"pc", "next", "resolved", "primary", "verified", "left", "key"}

RecordType == [resolver : BOOLEAN, addr : Account \cup {None}, text : [Key -> AnyText]]
AgeType    == [addr : [Account -> Age], text : [Key -> [Text -> Age]]]

CallShape(c) ==
  /\ c = [x \in CallFields |-> c[x]]
  /\ c.verified \in BOOLEAN
  /\ c.pc = "text" => c.key \in Key

\* An entry for the address, and one for a text.
AddrEntry == [value : Account, age : Age]
TextEntry == [value : AnyText, age : Age]

FreshAddr(e, g) == e # None => e \in AddrEntry /\ g.addr[e.value] <= e.age

FreshText(k, e, g) ==
  e # None => e \in TextEntry /\ (e.value # NoText => g.text[k][e.value] <= e.age)

\* What is on record now has age 0.
Current(r, g) ==
  /\ r.addr # None => g.addr[r.addr] = 0
  /\ \A k \in Key : r.text[k] # NoText => g.text[k][r.text[k]] = 0

GuardianInv ==
  /\ record \in RecordType
  /\ age \in AgeType
  /\ CallShape(call)
  /\ cache = [k \in CacheKey |-> cache[k]]
  /\ answer = [k \in Key |-> answer[k]]
  /\ FreshAddr(cache["addr"], age)
  /\ \A k \in Key : FreshText(k, cache[k], age)
  /\ Current(record, age)

LEMMA AgeBounds == Old \in Nat /\ TTL \in Nat /\ 0 \in Age /\ \A n \in Age : n \in Nat /\ n <= Old
BY GuardianAssumption DEF Old, Age

LEMMA OlderIsOlder ==
  ASSUME NEW n \in Age
  PROVE  Older(n) \in Age /\ n <= Older(n)
BY GuardianAssumption DEF Older, Age, Old

LEMMA OlderGrows ==
  ASSUME NEW n \in Age, NEW m \in Age, n <= m
  PROVE  Older(n) <= Older(m)
BY GuardianAssumption DEF Older, Age, Old

LEMMA GuardianInvInit == GuardianInit => GuardianInv
<1> SUFFICES ASSUME GuardianInit PROVE GuardianInv
  OBVIOUS
<1>1. record \in RecordType /\ record.addr = None /\ \A k \in Key : record.text[k] = NoText
  BY DEF GuardianInit, RecordType, AnyText
<1>2. age \in AgeType
  BY AgeBounds, GuardianAssumption DEF GuardianInit, AgeType, Age
<1>3. CallShape(call)
  BY DEF GuardianInit, CallShape, CallFields, Idle
<1>4. /\ cache = [k \in CacheKey |-> None] /\ answer = [k \in Key |-> None]
      /\ "addr" \in CacheKey /\ Key \subseteq CacheKey
  BY DEF GuardianInit, CacheKey
<1> QED
  BY <1>1, <1>2, <1>3, <1>4 DEF GuardianInv, FreshAddr, FreshText, Current

\* Setting fields of the call keeps its shape, and a verdict not given.
Carries(c, d) == CallShape(d) /\ d.verified = c.verified

LEMMA CallSteps ==
  ASSUME NEW c, CallShape(c)
  PROVE  /\ \A p, x, y : p # "text" => Carries(c, [c EXCEPT !.pc = p, !.resolved = x, !.next = y])
         /\ \A p, x : p # "text" => Carries(c, [c EXCEPT !.primary = x, !.pc = p])
         /\ \A p, x : p # "text" => Carries(c, [c EXCEPT !.pc = p, !.left = x])
         /\ \A p : p # "text" => Carries(c, [c EXCEPT !.pc = p])
         /\ \A x : Carries(c, [c EXCEPT !.left = x])
         /\ \A k \in Key : Carries(c, [c EXCEPT !.pc = "text", !.key = k])
<1>1. c = [x \in CallFields |-> c[x]] /\ c.verified \in BOOLEAN
  BY DEF CallShape
<1>2. ASSUME NEW d, d = [x \in CallFields |-> d[x]], d.verified = c.verified,
             d.pc # "text" \/ d.key \in Key \/ (d.pc = c.pc /\ d.key = c.key)
      PROVE  Carries(c, d)
  BY <1>2 DEF Carries, CallShape
<1>3. \A p, x, y : p # "text" => Carries(c, [c EXCEPT !.pc = p, !.resolved = x, !.next = y])
  <2> SUFFICES ASSUME NEW p, NEW x, NEW y, p # "text" PROVE Carries(c, [c EXCEPT !.pc = p, !.resolved = x, !.next = y])
    OBVIOUS
  <2>1. PICK d : d = [c EXCEPT !.pc = p, !.resolved = x, !.next = y]
    OBVIOUS
  <2>2. d = [f \in CallFields |-> d[f]]
    BY <1>1, <2>1
  <2>3. d.verified = c.verified /\ d.pc = p
    BY <1>1, <2>1 DEF CallFields
  <2>4. Carries(c, d)
    BY <1>2, <2>2, <2>3
  <2> QED
    BY <2>1, <2>4
<1>4. \A p, x : p # "text" => Carries(c, [c EXCEPT !.primary = x, !.pc = p])
  <2> SUFFICES ASSUME NEW p, NEW x, p # "text" PROVE Carries(c, [c EXCEPT !.primary = x, !.pc = p])
    OBVIOUS
  <2>1. PICK d : d = [c EXCEPT !.primary = x, !.pc = p]
    OBVIOUS
  <2>2. d = [f \in CallFields |-> d[f]]
    BY <1>1, <2>1
  <2>3. d.verified = c.verified /\ d.pc = p
    BY <1>1, <2>1 DEF CallFields
  <2>4. Carries(c, d)
    BY <1>2, <2>2, <2>3
  <2> QED
    BY <2>1, <2>4
<1>5. \A p, x : p # "text" => Carries(c, [c EXCEPT !.pc = p, !.left = x])
  <2> SUFFICES ASSUME NEW p, NEW x, p # "text" PROVE Carries(c, [c EXCEPT !.pc = p, !.left = x])
    OBVIOUS
  <2>1. PICK d : d = [c EXCEPT !.pc = p, !.left = x]
    OBVIOUS
  <2>2. d = [f \in CallFields |-> d[f]]
    BY <1>1, <2>1
  <2>3. d.verified = c.verified /\ d.pc = p
    BY <1>1, <2>1 DEF CallFields
  <2>4. Carries(c, d)
    BY <1>2, <2>2, <2>3
  <2> QED
    BY <2>1, <2>4
<1>6. \A p : p # "text" => Carries(c, [c EXCEPT !.pc = p])
  <2> SUFFICES ASSUME NEW p, p # "text" PROVE Carries(c, [c EXCEPT !.pc = p])
    OBVIOUS
  <2>1. PICK d : d = [c EXCEPT !.pc = p]
    OBVIOUS
  <2>2. d = [f \in CallFields |-> d[f]]
    BY <1>1, <2>1
  <2>3. d.verified = c.verified /\ d.pc = p
    BY <1>1, <2>1 DEF CallFields
  <2>4. Carries(c, d)
    BY <1>2, <2>2, <2>3
  <2> QED
    BY <2>1, <2>4
<1>7. \A x : Carries(c, [c EXCEPT !.left = x])
  <2> SUFFICES ASSUME NEW x PROVE Carries(c, [c EXCEPT !.left = x])
    OBVIOUS
  <2>1. PICK d : d = [c EXCEPT !.left = x]
    OBVIOUS
  <2>2. d = [f \in CallFields |-> d[f]]
    BY <1>1, <2>1
  <2>3. d.verified = c.verified /\ d.pc = c.pc /\ d.key = c.key
    BY <1>1, <2>1 DEF CallFields
  <2>4. Carries(c, d)
    BY <1>2, <2>2, <2>3
  <2> QED
    BY <2>1, <2>4
<1>8. \A k \in Key : Carries(c, [c EXCEPT !.pc = "text", !.key = k])
  <2> SUFFICES ASSUME NEW k \in Key PROVE Carries(c, [c EXCEPT !.pc = "text", !.key = k])
    OBVIOUS
  <2>1. PICK d : d = [c EXCEPT !.pc = "text", !.key = k]
    OBVIOUS
  <2>2. d = [f \in CallFields |-> d[f]]
    BY <1>1, <2>1
  <2>3. d.verified = c.verified /\ d.key = k
    BY <1>1, <2>1 DEF CallFields
  <2>4. Carries(c, d)
    BY <1>2, <2>2, <2>3
  <2> QED
    BY <2>1, <2>4
<1> QED
  BY <1>3, <1>4, <1>5, <1>6, <1>7, <1>8

LEMMA IdleShape == CallShape(Idle) /\ ~Idle.verified
BY DEF CallShape, CallFields, Idle

\* A step that touches neither the records nor the cache.
LEMMA CallKeeps ==
  ASSUME GuardianInv, UNCHANGED <<record, age, cache>>, CallShape(call'),
         answer' = [k \in Key |-> answer'[k]]
  PROVE  GuardianInv'
BY DEF GuardianInv

\* A miss that is answered.
LEMMA CacheSetKeeps ==
  ASSUME GuardianInv, UNCHANGED <<record, age>>, CallShape(call'),
         answer' = [q \in Key |-> answer'[q]],
         NEW k \in CacheKey, NEW v, CacheSet(k, v),
         k = "addr" => v = record.addr /\ v # None,
         k \in Key => v = record.text[k]
  PROVE  GuardianInv'
<1>1. PICK e : e = [value |-> v, age |-> 0]
  OBVIOUS
<1>2. /\ cache' = [cache EXCEPT ![k] = e] /\ cache = [q \in CacheKey |-> cache[q]]
  BY <1>1 DEF CacheSet, GuardianInv
<1>3. /\ cache' = [q \in CacheKey |-> cache'[q]]
      /\ cache'[k] = e /\ \A q \in CacheKey \ {k} : cache'[q] = cache[q]
  BY <1>2
<1>4. record \in RecordType /\ Current(record, age)
  BY DEF GuardianInv
<1>5. k = "addr" => FreshAddr(e, age)
  <2> SUFFICES ASSUME k = "addr" PROVE FreshAddr(e, age)
    OBVIOUS
  <2>1. v \in Account
    BY <1>4 DEF RecordType
  <2> QED
    BY <1>1, <1>4, <2>1, AgeBounds DEF Current, FreshAddr, AddrEntry
<1>6. k \in Key => FreshText(k, e, age)
  <2> SUFFICES ASSUME k \in Key PROVE FreshText(k, e, age)
    OBVIOUS
  <2>1. v \in AnyText
    BY <1>4 DEF RecordType
  <2> QED
    BY <1>1, <1>4, <2>1, AgeBounds DEF Current, FreshText, TextEntry
<1>7. FreshAddr(cache'["addr"], age)
  BY <1>3, <1>5 DEF GuardianInv, CacheKey
<1>8. ASSUME NEW q \in Key PROVE FreshText(q, cache'[q], age)
  BY <1>3, <1>6 DEF GuardianInv, CacheKey
<1> QED
  BY <1>3, <1>7, <1>8 DEF GuardianInv

\* What a hit says was on record within the last TTL.
LEMMA AddrHit ==
  ASSUME GuardianInv, CacheGet("addr") # None, CacheGet("addr").value = Wallet
  PROVE  age.addr[Wallet] <= TTL
<1>1. PICK e : e = cache["addr"]
  OBVIOUS
<1>2. e # None /\ e.age <= TTL /\ e.value = Wallet
  BY <1>1 DEF CacheGet
<1>3. e \in AddrEntry /\ age.addr[Wallet] <= e.age
  BY <1>1, <1>2 DEF GuardianInv, FreshAddr
<1>4. age.addr[Wallet] \in Age
  BY GuardianAssumption, RegistryAssumption DEF GuardianInv, AgeType
<1> QED
  BY <1>2, <1>3, <1>4, AgeBounds DEF AddrEntry

LEMMA TextHit ==
  ASSUME GuardianInv, NEW k \in Key, CacheGet(k) # None, CacheGet(k).value # NoText
  PROVE  /\ CacheGet(k).value \in Text
         /\ age.text[k][CacheGet(k).value] <= TTL
<1>1. PICK e : e = cache[k]
  OBVIOUS
<1>2. e # None /\ e.age <= TTL /\ e.value # NoText /\ CacheGet(k) = e
  BY <1>1 DEF CacheGet
<1>3. e \in TextEntry /\ age.text[k][e.value] <= e.age
  BY <1>1, <1>2 DEF GuardianInv, FreshText
<1>4. e.value \in Text
  BY <1>2, <1>3 DEF TextEntry, AnyText
<1>5. age.text[k][e.value] \in Age
  BY <1>4 DEF GuardianInv, AgeType
<1> QED
  BY <1>2, <1>3, <1>4, <1>5, AgeBounds DEF TextEntry

\* What a step of the process does to its call and to what it answers.
Honest ==
  /\ CallShape(call')
  /\ call'.verified /\ ~call.verified => age.addr[Wallet] <= TTL
  /\ answer' = [k \in Key |-> answer'[k]]
  /\ \A k \in Key : answer'[k] \notin {None, answer[k]} => age.text[k][answer'[k]] <= TTL

LEMMA Carried ==
  ASSUME GuardianInv, Carries(call, call') \/ call' = Idle,
         answer' = answer \/ \E k \in Key : answer' = [answer EXCEPT ![k] = None]
  PROVE  Honest
BY IdleShape DEF Honest, Carries, GuardianInv

\* resolveAddress is done with v.
LEMMA ResolvedHonest ==
  ASSUME GuardianInv, NEW v, Resolved(v), v = Wallet => age.addr[Wallet] <= TTL,
         UNCHANGED answer
  PROVE  Honest /\ UNCHANGED <<record, age>>
<1>1. PICK c : c = call
  OBVIOUS
<1>2. CallShape(c)
  BY <1>1 DEF GuardianInv
<1>3. UNCHANGED <<record, age>>
  BY DEF Resolved, Goes
<1>4. CASE call.next = "reverse"
  <2>1. call' = [c EXCEPT !.pc = "reverse", !.resolved = v, !.next = "meta"]
    BY <1>1, <1>4 DEF Resolved, Goes
  <2>2. Carries(call, call')
    BY <1>1, <1>2, <2>1, CallSteps
  <2> QED
    BY <1>3, <2>2, Carried
<1>5. CASE call.next # "reverse"
  <2>1. PICK b \in BOOLEAN : b = (v = Wallet)
    OBVIOUS
  <2>2. call' = [c EXCEPT !.pc = "meta", !.verified = b]
    BY <1>1, <1>5, <2>1 DEF Resolved, Goes
  <2>3. CallShape(call') /\ call'.verified = b
    BY <1>2, <2>2 DEF CallShape, CallFields
  <2>4. call'.verified => age.addr[Wallet] <= TTL
    BY <2>1, <2>3
  <2> QED
    BY <1>3, <2>3, <2>4 DEF Honest, GuardianInv
<1> QED
  BY <1>4, <1>5

LEMMA NoneIsNotTheWallet == None # Wallet /\ Wallet \in Account
BY GuardianAssumption, RegistryAssumption

LEMMA ResolveAddressKeeps ==
  ASSUME GuardianInv, ResolveAddress
  PROVE  Honest /\ GuardianInv'
<1>1. UNCHANGED <<cache, answer>>
  BY DEF ResolveAddress
<1>2. CASE \E v : Resolved(v) /\ (v = Wallet => age.addr[Wallet] <= TTL)
  <2>1. PICK v : Resolved(v) /\ (v = Wallet => age.addr[Wallet] <= TTL)
    BY <1>2
  <2>2. Honest /\ UNCHANGED <<record, age>>
    BY <1>1, <2>1, ResolvedHonest
  <2> QED
    BY <1>1, <2>2, CallKeeps DEF Honest
<1>3. CASE CacheGet("addr") # None /\ Resolved(CacheGet("addr").value)
  BY <1>2, <1>3, AddrHit
<1>4. CASE Resolved(None)
  BY <1>2, <1>4, NoneIsNotTheWallet
<1>5. CASE Goes([call EXCEPT !.pc = "addr"])
  <2>1. PICK c : c = call /\ CallShape(c)
    BY DEF GuardianInv
  <2>2. Carries(call, call')
    BY <1>5, <2>1, CallSteps DEF Goes
  <2>3. UNCHANGED <<record, age>>
    BY <1>5 DEF Goes
  <2>4. Honest
    BY <1>1, <2>2, Carried
  <2> QED
    BY <1>1, <2>3, <2>4, CallKeeps DEF Honest
<1> QED
  BY <1>3, <1>4, <1>5 DEF ResolveAddress

LEMMA ReadAddrKeeps ==
  ASSUME GuardianInv, ReadAddr
  PROVE  Honest /\ GuardianInv'
<1>1. UNCHANGED answer
  BY DEF ReadAddr
<1>2. CASE record.addr # None /\ CacheSet("addr", record.addr) /\ Resolved(record.addr)
  <2>1. PICK v : v = record.addr /\ v # None /\ CacheSet("addr", v) /\ Resolved(v)
    BY <1>2
  <2>2. v = Wallet => age.addr[Wallet] <= TTL
    BY <2>1, AgeBounds DEF GuardianInv, Current
  <2>3. Honest /\ UNCHANGED <<record, age>>
    BY <1>1, <2>1, <2>2, ResolvedHonest
  <2>4. "addr" \in CacheKey /\ "addr" \notin Key
    BY GuardianAssumption DEF CacheKey
  <2>5. CallShape(call') /\ answer' = [q \in Key |-> answer'[q]]
    BY <2>3 DEF Honest
  <2> QED
    BY <2>1, <2>3, <2>4, <2>5, CacheSetKeeps
<1>3. CASE UNCHANGED cache /\ Resolved(None)
  <2>1. Honest /\ UNCHANGED <<record, age>>
    BY <1>1, <1>3, NoneIsNotTheWallet, ResolvedHonest
  <2> QED
    BY <1>3, <2>1, CallKeeps DEF Honest
<1> QED
  BY <1>2, <1>3 DEF ReadAddr

LEMMA ReverseLookupKeeps ==
  ASSUME GuardianInv, ReverseLookup
  PROVE  Honest /\ GuardianInv'
<1>1. PICK c : c = call /\ CallShape(c)
  BY DEF GuardianInv
<1>2. PICK p \in {"registry", "resolve"} : p = IF call.resolved = None THEN "registry" ELSE "resolve"
  OBVIOUS
<1>3. PICK n : Goes([c EXCEPT !.primary = n, !.pc = p])
  BY <1>1, <1>2 DEF ReverseLookup
<1>4. Carries(call, call') /\ UNCHANGED <<record, age>>
  BY <1>1, <1>2, <1>3, CallSteps DEF Goes
<1>5. Honest
  BY <1>4, Carried DEF ReverseLookup
<1>6. CallShape(call') /\ answer' = [q \in Key |-> answer'[q]]
  BY <1>5 DEF Honest
<1>7. CASE UNCHANGED cache
  BY <1>4, <1>5, <1>6, <1>7, CallKeeps
<1>8. CASE CacheSet("rev", primary)
  <2>1. PICK v, k : v = primary /\ k = "rev" /\ CacheSet(k, v)
    BY <1>8
  <2>2. k \in CacheKey /\ k \notin Key /\ k # "addr"
    BY <2>1, GuardianAssumption DEF CacheKey
  <2> QED
    BY <1>4, <1>5, <1>6, <2>1, <2>2, CacheSetKeeps
<1> QED
  BY <1>7, <1>8 DEF ReverseLookup

\* The steps that touch neither records nor cache, and write no answer.
LEMMA PlainKeeps ==
  ASSUME GuardianInv,
         Bootstrap \/ LoadMetadata \/ LoadTexts \/ SyncRegistry \/ AssignOwnName
           \/ NoAutoRegister \/ BuildConfig \/ \E keys \in SUBSET Key : SetMetadata(keys)
  PROVE  Honest /\ GuardianInv'
<1>1. UNCHANGED <<record, age, cache>> /\ UNCHANGED answer
  BY DEF Bootstrap, LoadMetadata, LoadTexts, SyncRegistry, AssignOwnName, NoAutoRegister,
         BuildConfig, SetMetadata, Goes
<1>2. PICK c : c = call /\ CallShape(c)
  BY DEF GuardianInv
<1>3. Honest
  <2>1. CASE \E p : p # "text" /\ call' = [c EXCEPT !.pc = p]
    <3>1. PICK p : p # "text" /\ call' = [c EXCEPT !.pc = p]
      BY <2>1
    <3>2. Carries(c, [c EXCEPT !.pc = p])
      BY <1>2, <3>1, CallSteps
    <3> QED
      BY <1>1, <1>2, <3>1, <3>2, Carried
  <2>2. CASE \E p, x : p # "text" /\ call' = [c EXCEPT !.pc = p, !.left = x]
    <3>1. PICK p, x : p # "text" /\ call' = [c EXCEPT !.pc = p, !.left = x]
      BY <2>2
    <3>2. Carries(c, [c EXCEPT !.pc = p, !.left = x])
      BY <1>2, <3>1, CallSteps
    <3> QED
      BY <1>1, <1>2, <3>1, <3>2, Carried
  <2>3. CASE Bootstrap
    <3>1. call' = [Idle EXCEPT !.pc = "resolve"]
      BY <2>3 DEF Bootstrap
    <3>2. Carries(Idle, call')
      BY <3>1, IdleShape, CallSteps
    <3> QED
      BY <1>1, <3>2, IdleShape DEF Carries, Honest, GuardianInv
  <2>4. CASE BuildConfig
    BY <1>1, <2>4, Carried DEF BuildConfig, Goes
  <2>5. CASE LoadMetadata
    BY <1>2, <2>1, <2>5 DEF LoadMetadata, Goes
  <2>6. CASE LoadTexts
    BY <1>2, <2>2, <2>6 DEF LoadTexts, Goes
  <2>7. CASE SyncRegistry
    <3>1. PICK p \in {"named", "auto", "assign"} : call' = [c EXCEPT !.pc = p]
      BY <1>2, <2>7 DEF SyncRegistry, Goes
    <3> QED
      BY <2>1, <3>1
  <2>8. CASE AssignOwnName
    BY <1>2, <2>1, <2>8 DEF AssignOwnName
  <2>9. CASE NoAutoRegister
    BY <1>2, <2>1, <2>9 DEF NoAutoRegister, Goes
  <2>10. CASE \E keys \in SUBSET Key : SetMetadata(keys)
    BY <1>2, <2>2, <2>10 DEF SetMetadata
  <2> QED
    BY <2>3, <2>4, <2>5, <2>6, <2>7, <2>8, <2>9, <2>10
<1> QED
  BY <1>1, <1>3, CallKeeps DEF Honest

LEMMA AutoRegisterKeeps ==
  ASSUME GuardianInv, AutoRegister
  PROVE  Honest /\ GuardianInv'
<1>1. PICK c : c = call /\ CallShape(c)
  BY DEF GuardianInv
<1>2. Carries(call, call') /\ UNCHANGED <<cache, answer, age>>
  BY <1>1, CallSteps DEF AutoRegister
<1>3. Honest
  BY <1>2, Carried
<1>4. PICK r : r = record /\ r \in RecordType
  BY DEF GuardianInv
<1>5. PICK r2 : r2 = [r EXCEPT !.resolver = TRUE]
  OBVIOUS
<1>6. r2 \in RecordType /\ r2.addr = r.addr /\ r2.text = r.text
  BY <1>4, <1>5 DEF RecordType
<1>7. record' \in {r, r2}
  BY <1>4, <1>5 DEF AutoRegister
<1>8. record' \in RecordType /\ Current(record', age)
  BY <1>4, <1>6, <1>7 DEF GuardianInv, Current
<1> QED
  BY <1>2, <1>3, <1>8 DEF GuardianInv, Honest

LEMMA GetTextRecordKeeps ==
  ASSUME GuardianInv, NEW k \in Key, GetTextRecord(k)
  PROVE  Honest /\ GuardianInv'
<1>1. PICK c : c = call /\ CallShape(c)
  BY DEF GuardianInv
<1>2. UNCHANGED <<record, age>> /\ UNCHANGED cache
  BY DEF GetTextRecord
<1>3. CASE call' = [c EXCEPT !.pc = "text", !.key = k] /\ UNCHANGED answer
  <2>1. Carries(call, call')
    BY <1>1, <1>3, CallSteps
  <2>2. Honest
    BY <1>3, <2>1, Carried
  <2> QED
    BY <1>2, <2>2, CallKeeps DEF Honest
<1>4. CASE \E t : /\ answer' = [answer EXCEPT ![k] = t] /\ UNCHANGED call
                  /\ t # None => age.text[k][t] <= TTL
  <2>1. PICK t : /\ answer' = [answer EXCEPT ![k] = t] /\ UNCHANGED call
                 /\ (t # None => age.text[k][t] <= TTL)
    BY <1>4
  <2>2. /\ answer' = [q \in Key |-> answer'[q]] /\ answer'[k] = t
        /\ \A q \in Key \ {k} : answer'[q] = answer[q]
    BY <2>1 DEF GuardianInv
  <2>3. ASSUME NEW q \in Key, answer'[q] \notin {None, answer[q]}
        PROVE  age.text[q][answer'[q]] <= TTL
    <3>1. q = k /\ answer'[q] = t /\ t # None
      BY <2>2, <2>3
    <3> QED
      BY <2>1, <3>1
  <2>4. Honest
    BY <1>1, <2>1, <2>2, <2>3 DEF Honest
  <2> QED
    BY <1>2, <2>4, CallKeeps DEF Honest
<1>5. CASE /\ CacheGet(k) # None /\ UNCHANGED call
           /\ answer' = [answer EXCEPT ![k] = IF CacheGet(k).value = NoText THEN None
                                              ELSE CacheGet(k).value]
  <2>1. PICK t : t = IF CacheGet(k).value = NoText THEN None ELSE CacheGet(k).value
    OBVIOUS
  <2>2. t # None => age.text[k][t] <= TTL
    BY <1>5, <2>1, TextHit
  <2> QED
    BY <1>4, <1>5, <2>1, <2>2
<1>6. CASE UNCHANGED call /\ answer' = [answer EXCEPT ![k] = None]
  BY <1>4, <1>6
<1> QED
  BY <1>1, <1>3, <1>5, <1>6 DEF GetTextRecord

LEMMA ReadTextKeeps ==
  ASSUME GuardianInv, ReadText
  PROVE  Honest /\ GuardianInv'
<1>1. PICK k \in Key : k = call.key
  BY DEF ReadText, GuardianInv, CallShape
<1>2. CallShape(call') /\ ~call'.verified /\ UNCHANGED <<record, age>>
  BY IdleShape DEF ReadText, Goes
<1>3. k \in CacheKey /\ k # "addr"
  BY GuardianAssumption DEF CacheKey
<1>4. CASE /\ CacheSet(k, record.text[k])
           /\ answer' = [answer EXCEPT ![k] = IF record.text[k] = NoText THEN None
                                              ELSE record.text[k]]
  <2>1. PICK v : v = record.text[k] /\ CacheSet(k, v)
    BY <1>4
  <2>2. v # NoText => age.text[k][v] <= TTL
    BY <2>1, AgeBounds DEF GuardianInv, Current
  <2>3. answer' = [answer EXCEPT ![k] = IF v = NoText THEN None ELSE v]
    BY <1>4, <2>1
  <2>4. Honest
    BY <1>2, <2>2, <2>3 DEF Honest, GuardianInv
  <2>5. answer' = [q \in Key |-> answer'[q]]
    BY <2>4 DEF Honest
  <2> QED
    BY <1>2, <1>3, <2>1, <2>4, <2>5, CacheSetKeeps
<1>5. CASE UNCHANGED cache /\ answer' = [answer EXCEPT ![k] = None]
  <2>1. Honest
    BY <1>2, <1>5 DEF Honest, GuardianInv
  <2> QED
    BY <1>2, <1>5, <2>1, CallKeeps DEF Honest
<1> QED
  BY <1>1, <1>4, <1>5 DEF ReadText

\* Records change: what becomes current has age 0, the rest stays as old as it was.
LEMMA RecordedKeeps ==
  ASSUME GuardianInv, record' \in RecordType, Recorded, UNCHANGED <<cache, answer>>,
         CallShape(call')
  PROVE  GuardianInv'
<1>1. PICK r : r = record' /\ r \in RecordType
  OBVIOUS
<1>2. PICK g : g = age /\ g \in AgeType
  BY DEF GuardianInv
<1>3. PICK h : h = age'
  OBVIOUS
<1>4. h = [addr |-> [a \in Account |-> IF a = r.addr THEN 0 ELSE g.addr[a]],
           text |-> [k \in Key |-> [t \in Text |->
                      IF t = r.text[k] THEN 0 ELSE g.text[k][t]]]]
  BY <1>1, <1>2, <1>3 DEF Recorded
<1>5. h \in AgeType
  BY <1>2, <1>4, AgeBounds DEF AgeType
<1>6. /\ \A a \in Account : h.addr[a] = IF a = r.addr THEN 0 ELSE g.addr[a]
      /\ \A k \in Key : \A t \in Text : h.text[k][t] = IF t = r.text[k] THEN 0 ELSE g.text[k][t]
  BY <1>4
<1>7. Current(r, h)
  BY <1>1, <1>6 DEF Current, RecordType, AnyText
<1>8. ASSUME NEW e, FreshAddr(e, g) PROVE FreshAddr(e, h)
  <2> SUFFICES ASSUME e # None PROVE e \in AddrEntry /\ h.addr[e.value] <= e.age
    BY DEF FreshAddr
  <2>1. e \in AddrEntry /\ g.addr[e.value] <= e.age /\ e.value \in Account /\ e.age \in Age
    BY <1>8 DEF FreshAddr, AddrEntry
  <2> QED
    BY <1>6, <2>1, AgeBounds
<1>9. ASSUME NEW k \in Key, NEW e, FreshText(k, e, g) PROVE FreshText(k, e, h)
  <2> SUFFICES ASSUME e # None
               PROVE  e \in TextEntry /\ (e.value # NoText => h.text[k][e.value] <= e.age)
    BY DEF FreshText
  <2>1. e \in TextEntry /\ e.age \in Age /\ (e.value # NoText => g.text[k][e.value] <= e.age)
    BY <1>9 DEF FreshText, TextEntry
  <2>2. e.value # NoText => e.value \in Text
    BY <2>1 DEF TextEntry, AnyText
  <2> QED
    BY <1>6, <2>1, <2>2, AgeBounds
<1>10. FreshAddr(cache["addr"], h) /\ \A k \in Key : FreshText(k, cache[k], h)
  BY <1>2, <1>8, <1>9 DEF GuardianInv
<1> QED
  BY <1>1, <1>3, <1>5, <1>7, <1>10 DEF GuardianInv

LEMMA SetText ==
  ASSUME NEW r \in RecordType, NEW k \in Key, NEW t \in AnyText
  PROVE  \E r2 \in RecordType :
           /\ r2 = [r EXCEPT !.text[k] = t]
           /\ r2.addr = r.addr /\ r2.text[k] = t
           /\ \A q \in Key \ {k} : r2.text[q] = r.text[q]
<1>1. PICK f : f = [r.text EXCEPT ![k] = t] /\ r.text \in [Key -> AnyText]
  BY DEF RecordType
<1>2. f \in [Key -> AnyText] /\ f[k] = t /\ \A q \in Key \ {k} : f[q] = r.text[q]
  BY <1>1
<1>3. PICK r2 : r2 = [r EXCEPT !.text = f]
  OBVIOUS
<1>4. r2 = [r EXCEPT !.text[k] = t]
  BY <1>1, <1>3
<1>5. r2 \in RecordType /\ r2.text = f /\ r2.addr = r.addr
  BY <1>2, <1>3 DEF RecordType
<1> QED
  BY <1>2, <1>4, <1>5

LEMMA OthersWriteKeeps ==
  ASSUME GuardianInv, OthersWrite
  PROVE  Honest /\ GuardianInv'
<1>1. UNCHANGED <<cache, answer>> /\ UNCHANGED call /\ Recorded
  BY DEF OthersWrite
<1>2. PICK r : r = record /\ r \in RecordType
  BY DEF GuardianInv
<1>3. record' \in RecordType
  <2>1. CASE record' = [r EXCEPT !.resolver = ~@]
    BY <1>2, <2>1 DEF RecordType
  <2>2. CASE \E a \in Account \cup {None} : record' = [r EXCEPT !.addr = a]
    BY <1>2, <2>2 DEF RecordType
  <2>3. CASE \E k \in Key, t \in AnyText : record' = [r EXCEPT !.text[k] = t]
    BY <1>2, <2>3, SetText
  <2>4. CASE UNCHANGED record
    BY <1>2, <2>4
  <2> QED
    BY <1>2, <2>1, <2>2, <2>3, <2>4 DEF OthersWrite
<1>4. CallShape(call')
  BY <1>1 DEF GuardianInv
<1>5. Honest
  BY <1>1, <1>4 DEF Honest, GuardianInv
<1> QED
  BY <1>1, <1>3, <1>4, <1>5, RecordedKeeps

LEMMA WriteFailsKeeps ==
  ASSUME GuardianInv, NEW k \in Key, NEW t \in AnyText, WriteFails(k, t)
  PROVE  Honest /\ GuardianInv'
<1>1. PICK r : r = record /\ r \in RecordType
  BY DEF GuardianInv
<1>2. record' \in RecordType
  BY <1>1, SetText DEF WriteFails
<1>3. UNCHANGED <<cache, answer>> /\ Recorded /\ call' = Idle
  BY DEF WriteFails
<1>4. Honest
  BY <1>3, Carried
<1> QED
  BY <1>2, <1>3, <1>4, IdleShape, RecordedKeeps

\* The process's own write: its entry is gone from the cache.
LEMMA WriteTextKeeps ==
  ASSUME GuardianInv, NEW k \in Key, NEW t \in AnyText, WriteText(k, t)
  PROVE  Honest /\ GuardianInv'
<1>1. PICK r : r = record /\ r \in RecordType
  BY DEF GuardianInv
<1>2. PICK r2 \in RecordType :
        /\ r2 = record' /\ r2.addr = r.addr /\ r2.text[k] = t
        /\ \A q \in Key \ {k} : r2.text[q] = r.text[q]
  <2>1. record' = [r EXCEPT !.text[k] = t]
    BY <1>1 DEF WriteText, Written
  <2> QED
    BY <1>1, <2>1, SetText
<1>3. PICK g, h, w : /\ g = age /\ g \in AgeType
                     /\ w = [u \in Text |-> IF u = t THEN 0 ELSE Old]
                     /\ h = [g EXCEPT !.text[k] = w]
  BY DEF GuardianInv
<1>4. h = age'
  BY <1>3 DEF WriteText, Written
<1>5. h \in AgeType /\ h.addr = g.addr /\ h.text[k] = w /\ \A q \in Key \ {k} : h.text[q] = g.text[q]
  <2>1. w \in [Text -> Age]
    BY <1>3, AgeBounds DEF Age
  <2>2. PICK f : f = [g.text EXCEPT ![k] = w] /\ g.text \in [Key -> [Text -> Age]]
    BY <1>3 DEF AgeType
  <2>3. f \in [Key -> [Text -> Age]] /\ f[k] = w /\ \A q \in Key \ {k} : f[q] = g.text[q]
    BY <2>1, <2>2
  <2>4. h = [g EXCEPT !.text = f]
    BY <1>3, <2>2
  <2>5. h \in AgeType /\ h.text = f /\ h.addr = g.addr
    BY <1>3, <2>3, <2>4 DEF AgeType
  <2> QED
    BY <2>3, <2>5
<1>6. Current(r2, h)
  <2>1. Current(r, g)
    BY <1>1, <1>3 DEF GuardianInv
  <2>2. t # NoText => w[t] = 0
    BY <1>3 DEF AnyText
  <2> QED
    BY <1>2, <1>5, <2>1, <2>2 DEF Current
<1>7. /\ cache' = [cache EXCEPT ![k] = None] /\ cache = [q \in CacheKey |-> cache[q]]
      /\ k \in CacheKey /\ k # "addr" /\ "addr" \in CacheKey /\ Key \subseteq CacheKey
  BY GuardianAssumption DEF WriteText, GuardianInv, CacheKey
<1>8. /\ cache' = [q \in CacheKey |-> cache'[q]] /\ cache'[k] = None
      /\ \A q \in CacheKey \ {k} : cache'[q] = cache[q]
  BY <1>7
<1>9. FreshAddr(cache'["addr"], h)
  BY <1>3, <1>5, <1>7, <1>8 DEF GuardianInv, FreshAddr
<1>10. ASSUME NEW q \in Key PROVE FreshText(q, cache'[q], h)
  BY <1>3, <1>5, <1>7, <1>8 DEF GuardianInv, FreshText
<1>11. Honest
  <2>1. PICK c : c = call /\ CallShape(c)
    BY DEF GuardianInv
  <2>2. Carries(call, call') \/ call' = Idle
    BY <2>1, CallSteps DEF WriteText, Written
  <2>3. answer' = [answer EXCEPT ![k] = None]
    BY DEF WriteText, Written
  <2> QED
    BY <2>2, <2>3, Carried
<1> QED
  BY <1>2, <1>4, <1>5, <1>6, <1>8, <1>9, <1>10, <1>11 DEF GuardianInv, Honest

LEMMA TickKeeps ==
  ASSUME GuardianInv, Tick
  PROVE  Honest /\ GuardianInv'
<1>1. PICK r : r = record /\ r \in RecordType
  BY DEF GuardianInv
<1>2. PICK g, h : g = age /\ g \in AgeType /\ h = age'
  BY DEF GuardianInv
<1>3. h = [addr |-> [a \in Account |-> IF a = r.addr THEN 0 ELSE Older(g.addr[a])],
           text |-> [k \in Key |-> [t \in Text |->
                      IF t = r.text[k] THEN 0 ELSE Older(g.text[k][t])]]]
  BY <1>1, <1>2 DEF Tick
<1>4. /\ \A a \in Account : g.addr[a] \in Age
      /\ \A k \in Key : \A t \in Text : g.text[k][t] \in Age
  BY <1>2 DEF AgeType
<1>5. /\ \A a \in Account : h.addr[a] = IF a = r.addr THEN 0 ELSE Older(g.addr[a])
      /\ \A k \in Key : \A t \in Text :
           h.text[k][t] = IF t = r.text[k] THEN 0 ELSE Older(g.text[k][t])
  BY <1>3
<1>6. h \in AgeType
  <2>1. /\ \A a \in Account : h.addr[a] \in Age
        /\ \A k \in Key : \A t \in Text : h.text[k][t] \in Age
    BY <1>4, <1>5, AgeBounds, OlderIsOlder
  <2>2. PICK x, y : /\ h = [addr |-> x, text |-> y]
                    /\ x = [a \in Account |-> IF a = r.addr THEN 0 ELSE Older(g.addr[a])]
                    /\ y = [k \in Key |-> [t \in Text |->
                             IF t = r.text[k] THEN 0 ELSE Older(g.text[k][t])]]
    BY <1>3
  <2>3. x \in [Account -> Age]
    BY <2>1, <2>2
  <2>4. ASSUME NEW k \in Key PROVE y[k] \in [Text -> Age]
    <3>1. \A t \in Text : y[k][t] \in Age
      BY <2>1, <2>2
    <3> QED
      BY <2>2, <3>1
  <2>5. y \in [Key -> [Text -> Age]]
    BY <2>2, <2>4
  <2> QED
    BY <2>2, <2>3, <2>5 DEF AgeType
<1>7. Current(r, h)
  BY <1>1, <1>5 DEF Current, RecordType, AnyText
<1>8. ASSUME NEW e, FreshAddr(e, g), e # None
      PROVE  FreshAddr([e EXCEPT !.age = Older(@)], h)
  <2>1. e \in AddrEntry /\ g.addr[e.value] <= e.age /\ e.value \in Account /\ e.age \in Age
    BY <1>8 DEF FreshAddr, AddrEntry
  <2>2. PICK d : d = [e EXCEPT !.age = Older(@)]
    OBVIOUS
  <2>3. d \in AddrEntry /\ d.value = e.value /\ d.age = Older(e.age)
    BY <2>1, <2>2, OlderIsOlder DEF AddrEntry
  <2>4. h.addr[e.value] <= Older(e.age)
    BY <1>4, <1>5, <2>1, OlderGrows, OlderIsOlder, AgeBounds
  <2> QED
    BY <2>2, <2>3, <2>4 DEF FreshAddr
<1>9. ASSUME NEW k \in Key, NEW e, FreshText(k, e, g), e # None
      PROVE  FreshText(k, [e EXCEPT !.age = Older(@)], h)
  <2>1. e \in TextEntry /\ e.age \in Age /\ (e.value # NoText => g.text[k][e.value] <= e.age)
    BY <1>9 DEF FreshText, TextEntry
  <2>2. PICK d : d = [e EXCEPT !.age = Older(@)]
    OBVIOUS
  <2>3. d \in TextEntry /\ d.value = e.value /\ d.age = Older(e.age)
    BY <2>1, <2>2, OlderIsOlder DEF TextEntry
  <2>4. e.value # NoText => e.value \in Text
    BY <2>1 DEF TextEntry, AnyText
  <2>5. e.value # NoText => h.text[k][e.value] <= Older(e.age)
    BY <1>4, <1>5, <2>1, <2>4, OlderGrows, OlderIsOlder, AgeBounds
  <2> QED
    BY <2>2, <2>3, <2>5 DEF FreshText
<1>10. /\ cache' = [q \in CacheKey |-> IF cache[q] = None THEN None
                                       ELSE [cache[q] EXCEPT !.age = Older(@)]]
       /\ "addr" \in CacheKey /\ Key \subseteq CacheKey
  BY DEF Tick, CacheKey
<1>11. FreshAddr(cache'["addr"], h)
  <2>1. PICK e : e = cache["addr"] /\ FreshAddr(e, g)
    BY <1>2 DEF GuardianInv
  <2>2. cache'["addr"] = IF e = None THEN None ELSE [e EXCEPT !.age = Older(@)]
    BY <1>10, <2>1
  <2>3. CASE e = None
    BY <2>2, <2>3 DEF FreshAddr
  <2>4. CASE e # None
    BY <1>8, <2>1, <2>2, <2>4
  <2> QED
    BY <2>3, <2>4
<1>12. ASSUME NEW k \in Key PROVE FreshText(k, cache'[k], h)
  <2>1. PICK e : e = cache[k] /\ FreshText(k, e, g)
    BY <1>2 DEF GuardianInv
  <2>2. cache'[k] = IF e = None THEN None ELSE [e EXCEPT !.age = Older(@)]
    BY <1>10, <2>1
  <2>3. CASE e = None
    BY <2>2, <2>3 DEF FreshText
  <2>4. CASE e # None
    BY <1>9, <2>1, <2>2, <2>4
  <2> QED
    BY <2>3, <2>4
<1>13. /\ UNCHANGED <<record, call>> /\ UNCHANGED answer
       /\ cache' = [q \in CacheKey |-> cache'[q]]
  BY <1>10 DEF Tick
<1>14. Honest
  BY <1>13 DEF Honest, GuardianInv
<1> QED
  BY <1>1, <1>2, <1>6, <1>7, <1>11, <1>12, <1>13, <1>14 DEF GuardianInv, Honest

LEMMA RestartKeeps ==
  ASSUME GuardianInv, Restart
  PROVE  Honest /\ GuardianInv'
<1>1. /\ cache' = [k \in CacheKey |-> None] /\ call' = Idle
      /\ answer' = [k \in Key |-> None] /\ UNCHANGED <<record, age>>
      /\ "addr" \in CacheKey /\ Key \subseteq CacheKey
  BY DEF Restart, CacheKey
<1>2. Honest
  BY <1>1, IdleShape DEF Honest
<1> QED
  BY <1>1, <1>2 DEF GuardianInv, Honest, FreshAddr, FreshText

LEMMA GuardianInvNext ==
  ASSUME GuardianInv, [GuardianNext]_allVars
  PROVE  Honest /\ GuardianInv'
<1>1. CASE GuardianStep
  <2>1. CASE \E keys \in SUBSET Key \ {{}} : SetMetadata(keys)
    BY <2>1, PlainKeeps
  <2>2. CASE \E k \in Key, t \in AnyText : WriteText(k, t) \/ WriteFails(k, t)
    BY <2>2, WriteTextKeeps, WriteFailsKeeps
  <2>3. CASE \E k \in Key : GetTextRecord(k)
    BY <2>3, GetTextRecordKeeps
  <2> QED
    BY <1>1, <2>1, <2>2, <2>3, PlainKeeps, ResolveAddressKeeps, ReadAddrKeeps,
       ReverseLookupKeeps, AutoRegisterKeeps, ReadTextKeeps DEF GuardianStep
<1>2. CASE UNCHANGED <<record, cache, call, answer, age>>
  <2>1. Honest
    BY <1>2 DEF Honest, GuardianInv
  <2> QED
    BY <1>2, <2>1, CallKeeps DEF Honest
<1> QED
  BY <1>1, <1>2, TickKeeps, OthersWriteKeeps, RestartKeeps
     DEF GuardianNext, allVars, guardianVars

LEMMA GuardianAlways == GuardianSpec => []GuardianInv
<1>1. GuardianInv /\ [GuardianNext]_allVars => GuardianInv'
  BY GuardianInvNext
<1> QED
  BY <1>1, GuardianInvInit, PTL DEF GuardianSpec

\* A bootstrap that finds the identity verified rests on an address the name had
\* within the last TTL (verifyENSIdentity, through the cache of resolveAddress).
THEOREM VerifiedRestsOnRecord == GuardianSpec => VerifiedWasHeld
<1>1. GuardianInv /\ [GuardianNext]_allVars
        => [call'.verified /\ ~call.verified => age.addr[Wallet] <= TTL]_allVars
  BY GuardianInvNext DEF Honest
<1> QED
  BY <1>1, GuardianAlways, PTL DEF GuardianSpec, VerifiedWasHeld

\* What getTextRecord answers was on record within the last TTL, and since the
\* process's own last completed write of it.
THEOREM CacheForgetsOwnWrites == GuardianSpec => OwnWritesAreRead
<1>1. GuardianInv /\ [GuardianNext]_allVars
        => [\A k \in Key : answer'[k] \notin {None, answer[k]}
              => age.text[k][answer'[k]] <= TTL]_allVars
  BY GuardianInvNext DEF Honest
<1> QED
  BY <1>1, GuardianAlways, PTL DEF GuardianSpec, OwnWritesAreRead

\* Both of what the cache answers.
THEOREM CacheAlwaysHonest == GuardianSpec => CacheIsHonest
BY VerifiedRestsOnRecord, CacheForgetsOwnWrites DEF CacheIsHonest
=============================================================================
