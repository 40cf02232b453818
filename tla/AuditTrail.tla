----------------------------- MODULE AuditTrail -----------------------------
(***************************************************************************)
(* Readers of the contract's views while the ledger grows under them: the  *)
(* audit trail page of the dashboard (Web/app/home/audit/page.tsx), which  *)
(* turns pages and looks roots up, several answers in flight, and an       *)
(* auditor who pages through the history of one agent.                     *)
(***************************************************************************)
EXTENDS AuditFeed

CONSTANTS
  Load,        \* bound on pages being loaded at once
  Lookup,      \* bound on roots being looked up at once
  TrailPage,   \* PAGE, the rows of a page
  WalkPage,    \* decisions an auditor asks for at a time
  Nothing

ASSUME TrailAssumption ==
  /\ TrailPage \in Nat \ {0} /\ WalkPage \in Nat \ {0}
  /\ Nothing \notin [root : Root, decision : Decision]

VARIABLES
  offset,     \* of the page selected
  reported,   \* total: what the last answer said, 0 until there is one
  load,       \* loadPage calls in flight
  rows,       \* the rows shown, and the offset they were asked for
  lookup,     \* onLookup calls in flight
  found,      \* lookupResult
  walk        \* the auditor: what was read of whose history

trailVars == <<offset, reported, load, rows, lookup, found, walk>>

\* A decision as the views return it, its root included.
Entry(m) == [root |-> m, decision |-> decisions[m]]
Told(s) == [i \in DOMAIN s |-> Entry(s[i])]

NoLoad == [pc |-> "idle", from |-> 0]
NoLookup == [pc |-> "idle", root |-> Nothing]

TrailInit ==
  /\ FeedInit
  /\ offset = 0 /\ reported = 0
  /\ \E l \in Load : load = [k \in Load |-> IF k = l THEN [pc |-> "total", from |-> 0] ELSE NoLoad]
  /\ rows = [from |-> 0, list |-> <<>>]
  /\ lookup = [k \in Lookup |-> NoLookup] /\ found = Nothing
  /\ walk = [pc |-> "idle", agent |-> Nothing, count |-> 0, read |-> <<>>]

-----------------------------------------------------------------------------
(* The page: an effect loads whenever the offset changes.                  *)

\* Mutant: the last page may be left for one beyond it.
Mut_CanNext == offset + TrailPage <= reported

CanNext == offset + TrailPage < reported
CanPrev == offset > 0

Turn(l, to) ==
  /\ load[l].pc = "idle"
  /\ offset' = to
  /\ load' = [load EXCEPT ![l] = [pc |-> "total", from |-> to]]
  /\ UNCHANGED <<reported, rows, lookup, found, walk>>

ClickNext(l) == CanNext /\ Turn(l, offset + TrailPage)
ClickPrevious(l) == CanPrev /\ Turn(l, IF offset < TrailPage THEN 0 ELSE offset - TrailPage)

\* getTotalDecisions
TotalAnswered(l) ==
  /\ load[l].pc = "total"
  /\ reported' = Len(allRoots)
  /\ load' = [load EXCEPT ![l].pc = "page"]
  /\ UNCHANGED <<offset, rows, lookup, found, walk>>

\* getAllDecisionsPaginated; nothing tells an answer for a page turned meanwhile.
PageAnswered(l) ==
  /\ load[l].pc = "page"
  /\ rows' = [from |-> load[l].from,
              list |-> Told(Paginated(load[l].from, TrailPage))]
  /\ load' = [load EXCEPT ![l] = NoLoad]
  /\ UNCHANGED <<offset, reported, lookup, found, walk>>

LoadFails(l) ==
  /\ load[l].pc # "idle"
  /\ load' = [load EXCEPT ![l] = NoLoad]
  /\ UNCHANGED <<offset, reported, rows, lookup, found, walk>>

-----------------------------------------------------------------------------
(* onLookup: decisionExists, then getDecision.                             *)

StartLookup(k, m) ==
  /\ lookup[k].pc = "idle"
  /\ lookup' = [lookup EXCEPT ![k] = [pc |-> "exists", root |-> m]]
  /\ found' = Nothing
  /\ UNCHANGED <<offset, reported, load, rows, walk>>

ExistsAnswered(k) ==
  /\ lookup[k].pc = "exists"
  /\ IF Recorded(lookup[k].root)
     THEN lookup' = [lookup EXCEPT ![k].pc = "decision"]
     ELSE lookup' = [lookup EXCEPT ![k] = NoLookup]
  /\ UNCHANGED <<offset, reported, load, rows, found, walk>>

\* getDecision reverts on a root without a decision.
DecisionAnswered(k) ==
  /\ lookup[k].pc = "decision"
  /\ Recorded(lookup[k].root)
  /\ found' = Entry(lookup[k].root)
  /\ lookup' = [lookup EXCEPT ![k] = NoLookup]
  /\ UNCHANGED <<offset, reported, load, rows, walk>>

LookupFails(k) ==
  /\ lookup[k].pc # "idle"
  /\ lookup' = [lookup EXCEPT ![k] = NoLookup]
  /\ UNCHANGED <<offset, reported, load, rows, found, walk>>

-----------------------------------------------------------------------------
(* The auditor: getAgentDecisionCount, getAgentHistoryPaginated until a    *)
(* page comes back empty, and verifyDecision of what was read.             *)

WalkBegin(a) ==
  /\ walk.pc = "idle"
  /\ walk' = [pc |-> "reading", agent |-> a, count |-> Len(history[a]), read |-> <<>>]
  /\ UNCHANGED <<offset, reported, load, rows, lookup, found>>

WalkOn ==
  /\ walk.pc = "reading"
  /\ LET got == Slice(history[walk.agent], Len(walk.read), WalkPage)
     IN walk' = IF got = <<>> THEN [walk EXCEPT !.pc = "read"]
                ELSE [walk EXCEPT !.read = @ \o Told(got)]
  /\ UNCHANGED <<offset, reported, load, rows, lookup, found>>

\* What verifyDecision tells of a root.
VerifyDecision(m) ==
  IF Recorded(m)
  THEN [exists |-> TRUE, approved |-> decisions[m].approved,
        outcome |-> decisions[m].outcome, timestamp |-> decisions[m].recordedAt]
  ELSE [exists |-> FALSE, approved |-> FALSE, outcome |-> 0, timestamp |-> 0]

StillVerifies(e) ==
  VerifyDecision(e.root) = [exists |-> TRUE, approved |-> e.decision.approved,
                            outcome |-> e.decision.outcome,
                            timestamp |-> e.decision.recordedAt]

PageStep ==
  \E l \in Load : ClickNext(l) \/ ClickPrevious(l) \/ TotalAnswered(l) \/ PageAnswered(l)
                  \/ LoadFails(l)
LookupStep ==
  \E k \in Lookup : \/ \E m \in Root : StartLookup(k, m)
                    \/ ExistsAnswered(k) \/ DecisionAnswered(k) \/ LookupFails(k)
WalkStep == (\E a \in Agent : WalkBegin(a)) \/ WalkOn

TrailNext ==
  \/ Next /\ UNCHANGED <<feedVars, trailVars>>
  \/ (PageStep \/ LookupStep \/ WalkStep) /\ UNCHANGED watchVars

TrailSpec == TrailInit /\ [][TrailNext]_<<watchVars, trailVars>>

(***************************************************************************)
(* Properties                                                              *)
(***************************************************************************)

\* The rows shown are consecutive decisions of the ledger from the offset they
\* were asked for, as they still are on the ledger, and only an empty ledger has
\* an empty page.
RowsAreAPage ==
  LET s == rows.list
  IN /\ rows.from + Len(s) <= Len(allRoots) /\ Len(s) <= TrailPage
     /\ \A i \in DOMAIN s : s[i] = Entry(allRoots[rows.from + i])
     /\ s = <<>> => rows.from = 0

\* However pages are turned while answers of older pages are on their way and
\* the ledger grows, the page never runs off the ledger, never shows a row that
\* is not there, and the decision a lookup shows is the one that stands.
TrailTellsLedger ==
  /\ offset = 0 \/ offset < Len(allRoots)
  /\ RowsAreAPage
  /\ found # Nothing => Recorded(found.root) /\ found = Entry(found.root)

\* An auditor who pages through the history of an agent, one call after the
\* other while decisions are recorded, reads it from the beginning, in order,
\* nothing twice; has missed nothing that was there when it began; and what was
\* read verifies, whenever it is checked.
WalkIsHistory ==
  walk.pc # "idle" =>
    LET h == history[walk.agent]
    IN /\ Len(walk.read) <= Len(h)
       /\ \A i \in DOMAIN walk.read : walk.read[i].root = h[i] /\ StillVerifies(walk.read[i])
       /\ walk.pc = "read" => Len(walk.read) >= walk.count

\* What the readers of the views show and find agrees with the ledger.
ViewsTellLedger == TrailTellsLedger /\ WalkIsHistory
=============================================================================
