----------------------------- MODULE AuditFeed -----------------------------
(***************************************************************************)
(* The command "guardmesh audit watch" (guardmesh-cli/src/commands/        *)
(* audit.ts) next to the contract it reads. A timer starts a poll every    *)
(* three seconds whether or not the one before has been answered, so       *)
(* several may be in flight; each asks for the first PageSize decisions    *)
(* of the ledger and prints those later than the last one printed.         *)
(***************************************************************************)
EXTENDS Audit, FiniteSets

CONSTANTS
  Poll,       \* bound on polls in flight
  PageSize,   \* decisions asked for; 10 in audit.ts
  RootType    \* of merkleRoot in the contract read: "bytes32" in GuardMeshAudit.sol

ASSUME FeedAssumption == PageSize \in Nat \ {0} /\ RootType \in {"string", "bytes32"}

VARIABLES
  page,       \* the answer each poll in flight carries
  lastBlock,  \* timestamp of the last decision printed
  shown       \* history: the roots printed, in order

feedVars == <<page, lastBlock, shown>>
watchVars == <<vars, feedVars>>

Unasked == <<"unasked">>

FeedTypeOK ==
  /\ TypeOK
  /\ \A p \in Poll : page[p] = Unasked \/ page[p] \in Seq(Root)
  /\ lastBlock \in 0 .. MaxTime
  /\ shown \in Seq(Root)

FeedInit ==
  /\ Init
  /\ page = [p \in Poll |-> Unasked]
  /\ lastBlock = 0
  /\ shown = <<>>

\* getAllDecisionsPaginated
Paginated(start, limit) == Slice(allRoots, start, limit)

\* The node answers the poll with the ledger as it then is.
PollAnswered(p) ==
  /\ page[p] = Unasked
  /\ page' = [page EXCEPT ![p] = Paginated(0, PageSize)]
  /\ UNCHANGED <<vars, lastBlock, shown>>

\* Mutants of the condition under which a decision is printed.
Mut_NotTheLast(s, last) ==
  {i \in DOMAIN s :
     /\ decisions[s[i]].recordedAt # last
     /\ \A j \in 1 .. i - 1 : decisions[s[j]].recordedAt < decisions[s[i]].recordedAt}
Mut_NewestOnly(s, last) ==
  {i \in DOMAIN s : i = Len(s) /\ decisions[s[i]].recordedAt > last}

\* forEach: a decision is printed when it is later than the last one printed,
\* which every decision printed on the way moves up.
Printed(s, last) ==
  {i \in DOMAIN s :
     /\ decisions[s[i]].recordedAt > last
     /\ \A j \in 1 .. i - 1 : decisions[s[j]].recordedAt < decisions[s[i]].recordedAt}

\* The decisions of an answer that can be read: the ABI of lib/contract.ts takes
\* the root for a string, so a record that holds 32 bytes is an error when touched.
Decoded(s) == IF RootType = "string" THEN s ELSE <<>>

\* The members of a finite set of positions from the first to the last: the one
\* sequence of them that grows.
InOrder(S) ==
  {s \in [1 .. Cardinality(S) -> S] : \A i, j \in DOMAIN s : i < j => s[i] < s[j]}

PollHandled(p) ==
  /\ page[p] # Unasked
  /\ page' = [page EXCEPT ![p] = Unasked]
  /\ LET got == Decoded(page[p])
     IN \E new \in InOrder(Printed(got, lastBlock)) :
          /\ shown' = shown \o [k \in DOMAIN new |-> got[new[k]]]
          /\ lastBlock' = IF new = <<>> THEN lastBlock
                          ELSE decisions[got[new[Len(new)]]].recordedAt
  /\ UNCHANGED vars

\* An error is swallowed; the next poll asks again.
PollFails(p) ==
  /\ page[p] # Unasked
  /\ page' = [page EXCEPT ![p] = Unasked]
  /\ UNCHANGED <<vars, lastBlock, shown>>

FeedNext ==
  \/ Next /\ UNCHANGED feedVars
  \/ \E p \in Poll : PollAnswered(p) \/ PollHandled(p) \/ PollFails(p)

\* The timer keeps polling, and not every answer is an error.
PollFairness == \A p \in Poll : WF_watchVars(PollAnswered(p)) /\ SF_watchVars(PollHandled(p))

FeedSpec == FeedInit /\ [][FeedNext]_watchVars /\ PollFairness

(***************************************************************************)
(* Properties                                                              *)
(***************************************************************************)

\* However the answers of overlapping polls are reordered, no decision is
\* printed twice, nor after one that follows it in the ledger.
FeedInLedgerOrder ==
  \A i, j \in DOMAIN shown : i < j => Before(allRoots, shown[i], shown[j])

\* Every block with a decision eventually has one of its decisions printed, as
\* long as the ledger fits the page asked for.
FeedShowsEveryBlock ==
  \A m \in Root :
    Recorded(m) ~>
      /\ Recorded(m)
      /\ \E i \in DOMAIN shown :
           decisions[shown[i]].recordedAt = decisions[m].recordedAt
=============================================================================
