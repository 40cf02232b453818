---------------------------- MODULE AuditReaders ----------------------------
(***************************************************************************)
(* Those who read decisions back: GET retrieve-bundle with                 *)
(* Web/lib/guardmesh-phase6-retrieval.ts, and its three askers, the pages  *)
(* "activity" and "audit" and the command tasks/verify-bundles.mjs. The    *)
(* contract is the append-only log it implements (Audit); what Phase 6     *)
(* bundles is here, when it uploads and records is in Anchor. 0G Storage   *)
(* keeps a bundle under the hash of it.                                    *)
(***************************************************************************)
EXTENDS Naturals, Sequences, FiniteSets, Functions

CONSTANTS
  Entry,     \* what may be recorded
  Root,      \* merkle roots, without bytes32(0)
  Nil,
  Intent,    \* agent, action and target of a decision
  Tally,     \* its counts
  Rest,      \* its outcome code, the reason it was blocked for and its time
  PolicyText,
  Source,    \* policy_source as gates report it; "chain-sync" is not one
  Decided,   \* what the server decides
  Reports,   \* the policies its guardians report, together
  Fetch,     \* bound on requests for bundles in flight
  ToVerify,    \* GUARDMESH_VERIFY_ROOTS
  PageSize,  \* decisions the activity page asks for; 30
  OthersDo,  \* the bundles others upload
  Claims     \* the decisions other recorders record

Decision == [intent : Intent, tally : Tally, execute : BOOLEAN, rest : Rest]

\* policy_used of a verdict, and policySnapshot
Artifact == [policy : PolicyText, source : Source]
Snapshot == [policy : PolicyText, source : Source \cup {"chain-sync"}]

Bundle == [decision : Decision, used : SUBSET Artifact,
           snapshot : Snapshot \cup {Nil}, by : {"server", "others"}]

\* What an answer of the route says; failed is any stage, or no answer.
Said == {"failed", "unverified", "verified"}
Answer == [root : Root, said : Said]

ASSUME ReadersAssumption ==
  /\ Entry = [root : Root, decision : Decision, by : {"server", "others"}]
  /\ "chain-sync" \notin Source
  /\ Nil \notin Snapshot \cup Root \cup Decision \cup Answer
  /\ OthersDo \subseteq {b \in Bundle : b.by = "others"}
  /\ Decided \subseteq Decision /\ Claims \subseteq Decision
  /\ Reports \subseteq SUBSET Artifact
  /\ ToVerify \subseteq Root
  /\ PageSize \in Nat \ {0}

VARIABLES
  log,       \* the ledger
  stored,    \* root -> bundle, where 0G Storage has one
  fetch,     \* requests for bundles: the retrieval, and who asked
  rows,      \* activity page: its rows, Nil until they are loaded
  selected,  \* the row selected
  loading,   \* bundleLoading of the activity page
  detail,    \* bundleData of the activity page
  retrieving, \* bundleLoading of the audit page
  found,     \* bundleData of the audit page
  checks,    \* verify-bundles: the outcome of each root so far
  exit       \* its exit code

readerVars == <<fetch, rows, selected, loading, detail, retrieving, found,
                checks, exit>>
auditVars == <<log, stored, readerVars>>

Contract == INSTANCE AuditLedger

NoFetch == [pc |-> "idle", by |-> "audit", root |-> Nil, alive |-> FALSE,
            chain |-> Nil, said |-> "failed"]

ReadersTypeOK ==
  /\ log \in Seq(Entry)
  /\ DOMAIN stored \subseteq Root /\ \A m \in DOMAIN stored : stored[m] \in Bundle
  /\ fetch \in [Fetch -> [pc : {"idle", "asked", "read", "done"},
                          by : {"activity", "audit", "script"}, root : Root \cup {Nil},
                          alive : BOOLEAN, chain : Decision \cup {Nil}, said : Said]]
  /\ rows = Nil \/ rows \in Seq(Root)
  /\ selected \in Root \cup {Nil}
  /\ loading \in BOOLEAN /\ retrieving \in BOOLEAN
  /\ detail \in Answer \cup {Nil} /\ found \in Answer \cup {Nil}
  /\ checks \subseteq Answer
  /\ exit \in {"running", "ok", "failed", "usage"}

ReadersInit ==
  /\ Contract!Init
  /\ stored = <<>>
  /\ fetch = [f \in Fetch |-> NoFetch]
  /\ rows = Nil /\ selected = Nil /\ loading = FALSE /\ detail = Nil
  /\ retrieving = FALSE /\ found = Nil
  /\ checks = {} /\ exit = IF ToVerify = {} THEN "usage" ELSE "running"

-----------------------------------------------------------------------------
(* The ledger and the storage                                              *)

\* Mutant: the registry's policy, whatever the guardians used.
Mut_RegistrySnapshot(used, registry) == registry

\* The policy the verdicts agree on; else the registry's, or none if that cannot
\* be read.
SnapshotOf(used, registry) ==
  IF Cardinality(used) = 1 THEN CHOOSE a \in used : TRUE ELSE registry

Upload(m, b) ==
  /\ m \notin DOMAIN stored
  /\ stored' = [x \in DOMAIN stored \cup {m} |-> IF x = m THEN b ELSE stored[x]]
  /\ UNCHANGED <<log, readerVars>>

ServerUploads(m, d, used) ==
  \E registry \in {[policy |-> p, source |-> "chain-sync"] : p \in PolicyText} \cup {Nil} :
    Upload(m, [decision |-> d, used |-> used, snapshot |-> SnapshotOf(used, registry),
               by |-> "server"])

\* Mutant: outcome and reason of another decision are recorded.
Mut_RestMixedUp(m) ==
  /\ m \in DOMAIN stored /\ stored[m].by = "server"
  /\ \E x \in Rest :
       Contract!Record([root |-> m, decision |-> [stored[m].decision EXCEPT !.rest = x],
                        by |-> "server"])
  /\ UNCHANGED <<stored, readerVars>>

\* recordDecision for the bundle just uploaded, unless the root is taken. What
\* is recorded is in the bundle, or computed from its verdicts.
ServerRecords(m) ==
  /\ m \in DOMAIN stored /\ stored[m].by = "server"
  /\ Contract!Record([root |-> m, decision |-> stored[m].decision, by |-> "server"])
  /\ UNCHANGED <<stored, readerVars>>

\* Another recorder writes what it likes, under a root of its choice.
OtherRecords(m, d) ==
  /\ Contract!Record([root |-> m, decision |-> d, by |-> "others"])
  /\ UNCHANGED <<stored, readerVars>>

OnChain(m) == {i \in DOMAIN log : log[i].root = m}

-----------------------------------------------------------------------------
(* retrieveDecisionBundle                                                  *)

FetchBecomes(f, r) == fetch' = [fetch EXCEPT ![f] = r]

Others(f) == UNCHANGED <<log, stored, rows, selected, loading, detail,
                         retrieving, found, checks, exit>>

Asks(f, who, m) ==
  /\ fetch[f].pc = "idle"
  /\ FetchBecomes(f, [NoFetch EXCEPT !.pc = "asked", !.by = who, !.root = m, !.alive = TRUE])

\* At any stage, or because no answer comes back.
Fails(f) ==
  /\ fetch[f].pc \notin {"idle", "done"}
  /\ FetchBecomes(f, [fetch[f] EXCEPT !.pc = "done", !.said = "failed",
                              !.chain = Nil])
  /\ Others(f)

\* decisionExists and getDecision: what is on the ledger stays as it is, so that
\* nothing comes between the two.
ReadChain(f) ==
  /\ fetch[f].pc = "asked"
  /\ \/ \E i \in OnChain(fetch[f].root) :
          FetchBecomes(f, [fetch[f] EXCEPT !.pc = "read", !.chain = log[i].decision])
     \/ /\ OnChain(fetch[f].root) = {}
        /\ FetchBecomes(f, [fetch[f] EXCEPT !.pc = "done", !.said = "failed"])
  /\ Others(f)

\* Mutant: the counts are not compared.
Mut_CountsUnread(b, d) == b.decision.intent = d.intent /\ b.decision.execute = d.execute

\* Six fields are compared: agent, action and target, the two counts and whether
\* it executes. The rest is not.
SameDecision(b, d) ==
  /\ b.decision.intent = d.intent
  /\ b.decision.tally = d.tally
  /\ b.decision.execute = d.execute

\* The snapshot is what some guardian says it judged by.
SnapshotWasUsed(b) == b.snapshot \in b.used

Verify(b, d) == IF SameDecision(b, d) /\ SnapshotWasUsed(b) THEN "verified"
                                                            ELSE "unverified"

\* Download, decrypt, parse, verify. A bundle sealed under another key, or taken
\* for plain text because it looks like it, fails.
Open(f) ==
  LET b == stored[fetch[f].root] IN
  /\ fetch[f].pc = "read" /\ fetch[f].root \in DOMAIN stored
  /\ FetchBecomes(f, [fetch[f] EXCEPT !.pc = "done", !.said = Verify(b, fetch[f].chain),
                              !.chain = Nil])
  /\ Others(f)

Retrieval(f) == ReadChain(f) \/ Open(f)

-----------------------------------------------------------------------------
(* Activity page                                                           *)

Activity(f) == fetch[f].by = "activity" /\ fetch[f].pc # "idle"

\* The cleanup of the effect that asked for the bundle shown last.
Abandoned == [f \in Fetch |-> IF Activity(f) THEN [fetch[f] EXCEPT !.alive = FALSE]
                                             ELSE fetch[f]]

\* The effect of a selected row.
LoadBundle(f, m) ==
  /\ fetch[f].pc = "idle"
  /\ fetch' = [Abandoned EXCEPT ![f] =
                 [NoFetch EXCEPT !.pc = "asked", !.by = "activity", !.root = m,
                                 !.alive = TRUE]]
  /\ loading' = TRUE
  /\ selected' = m

\* load: the first page of the ledger; its first row is selected.
LoadRows ==
  /\ rows = Nil
  /\ rows' = [i \in 1 .. (IF Len(log) < PageSize THEN Len(log) ELSE PageSize)
                |-> log[i].root]
  /\ IF rows' = <<>> THEN UNCHANGED <<fetch, loading, selected>>
     ELSE \E f \in Fetch : LoadBundle(f, rows'[1])
  /\ UNCHANGED <<log, stored, detail, retrieving, found, checks, exit>>

\* A click on a row, while earlier bundles may still be on their way.
Select(m) ==
  /\ rows # Nil /\ m \in Range(rows) /\ m # selected
  /\ \E f \in Fetch : LoadBundle(f, m)
  /\ UNCHANGED <<log, stored, rows, detail, retrieving, found, checks, exit>>

\* The user leaves the page and may come back.
Leave ==
  /\ rows # Nil
  /\ fetch' = Abandoned
  /\ rows' = Nil /\ selected' = Nil /\ loading' = FALSE /\ detail' = Nil
  /\ UNCHANGED <<log, stored, retrieving, found, checks, exit>>

Answered(f, who) == fetch[f].pc = "done" /\ fetch[f].by = who /\ FetchBecomes(f, NoFetch)
Heard(f) == [root |-> fetch[f].root, said |-> fetch[f].said]

\* Mutant: an answer for a row no longer selected is shown too.
Mut_AliveUnread(f) ==
  /\ Answered(f, "activity")
  /\ detail' = Heard(f) /\ loading' = FALSE
  /\ UNCHANGED <<log, stored, rows, selected, retrieving, found, checks, exit>>

BundleShown(f) ==
  /\ Answered(f, "activity")
  /\ IF fetch[f].alive THEN detail' = Heard(f) /\ loading' = FALSE
                       ELSE UNCHANGED <<detail, loading>>
  /\ UNCHANGED <<log, stored, rows, selected, retrieving, found, checks, exit>>

-----------------------------------------------------------------------------
(* Audit page, bundle of a root typed in                                   *)

\* onRetrieveBundle; its button is disabled while one is retrieved.
Retrieve(f, m) ==
  /\ ~retrieving /\ retrieving' = TRUE
  /\ found' = Nil
  /\ Asks(f, "audit", m)
  /\ UNCHANGED <<log, stored, rows, selected, loading, detail, checks, exit>>

\* onLookup clears both results; the on-chain one it then shows is not kept here.
Lookup ==
  /\ found # Nil /\ found' = Nil
  /\ UNCHANGED <<log, stored, fetch, rows, selected, loading, detail,
                 retrieving, checks, exit>>

Retrieved(f) ==
  /\ Answered(f, "audit")
  /\ retrieving' = FALSE
  /\ found' = IF fetch[f].said = "failed" THEN found ELSE Heard(f)
  /\ UNCHANGED <<log, stored, rows, selected, loading, detail, checks, exit>>

-----------------------------------------------------------------------------
(* verify-bundles                                                          *)

Unchecked == ToVerify \ {c.root : c \in checks}

CheckNext(f) ==
  /\ exit = "running"
  /\ \A g \in Fetch : fetch[g].pc = "idle" \/ fetch[g].by # "script"
  /\ \E m \in Unchecked : Asks(f, "script", m)
  /\ UNCHANGED <<log, stored, rows, selected, loading, detail, retrieving, found,
                 checks, exit>>

CheckOk(c) == c.said = "verified"

\* A fetch that throws, at its timeout say, ends the run; the roots are checked
\* one after the other, and the exit code is decided after the last.
CheckDone(f) ==
  /\ Answered(f, "script")
  /\ \/ checks' = checks \cup {Heard(f)} /\ UNCHANGED exit
     \/ exit' = "failed" /\ UNCHANGED checks
  /\ UNCHANGED <<log, stored, rows, selected, loading, detail, retrieving, found>>

Exits ==
  /\ exit = "running" /\ Unchecked = {}
  /\ exit' = IF \A c \in checks : CheckOk(c) THEN "ok" ELSE "failed"
  /\ UNCHANGED <<log, stored, fetch, rows, selected, loading, detail,
                 retrieving, found, checks>>

-----------------------------------------------------------------------------
ReadersNext ==
  \/ \E m \in Root :
       \/ \E d \in Decided, used \in Reports : ServerUploads(m, d, used)
       \/ \E b \in OthersDo : Upload(m, b)
       \/ ServerRecords(m)
       \/ \E d \in Claims : OtherRecords(m, d)
       \/ Select(m)
       \/ \E f \in Fetch : Retrieve(f, m)
  \/ LoadRows \/ Leave \/ Lookup \/ Exits
  \/ \E f \in Fetch :
       \/ Retrieval(f) \/ Fails(f) \/ BundleShown(f) \/ Retrieved(f)
       \/ CheckNext(f) \/ CheckDone(f)

ReadersSpec == ReadersInit /\ [][ReadersNext]_auditVars

(***************************************************************************)
(* Properties                                                              *)
(***************************************************************************)

\* Bundles are on their way for rows selected before; when the page says it is
\* done loading, what it shows is the bundle of the row selected.
DetailIsSelected ==
  selected # Nil /\ ~loading => detail # Nil /\ detail.root = selected

Verified == {a \in {detail, found} \cup checks : a # Nil /\ a.said = "verified"}

\* What a reader is told is verified is on the ledger for the intent of the
\* bundle, with its counts and its execution, whoever recorded it, and some
\* guardian judged by its snapshot. Outcome, reason and time, which nobody
\* compares, are those of the bundle if the server recorded it; another recorder
\* may have written any.
VerifiedIsBacked ==
  \A a \in Verified :
    LET own == stored[a.root].decision IN
    /\ \E i \in OnChain(a.root) :
         /\ log[i].decision.intent = own.intent
         /\ log[i].decision.tally = own.tally
         /\ log[i].decision.execute = own.execute
         /\ log[i].by = "server" => log[i].decision = own
    /\ stored[a.root].snapshot \in stored[a.root].used

\* Of what the server anchored itself, exactly the decisions whose guardians all
\* judged by one policy are verified: not those of guardians that read the
\* registry at different times, or of which one only read the mirror, and not
\* those that every guardian blocked before it had a policy.
OwnDecisionsVerify ==
  \A a \in {detail, found} \cup checks :
    a # Nil /\ a.said # "failed" =>
      \A i \in OnChain(a.root) :
        log[i].by = "server" =>
          (a.said = "verified" <=> Cardinality(stored[a.root].used) = 1)
=============================================================================
