# GuardMesh: specifications, model checking and proofs

GuardMesh puts a mesh of guardians between an AI agent and what it wants to do. An
agent posts an *intent*; the Web server broadcasts it over AXL, a peer-to-peer
node, to guardian listeners; each guardian judges it against the agent's policy
and sends a *verdict* back; the server counts the verdicts into a decision,
anchors the decision on a ledger contract and answers; tools run only after an
answer that lets them. Policies live in a registry contract and are mirrored
into 0G KV; identities are ENS names. This directory specifies that system in
TLA+: modules translated from the code, TLC runs over small instances, and
theorems proved with TLAPS for all values of the constants.

All paths below are relative to `src/`.

## 1. The system's parts

| Part | State it keeps | Operations | Hard behaviour | What makes it correct |
|---|---|---|---|---|
| Consensus engine, `Web/lib/guardmesh-consensus.ts` | counts of APPROVE, BLOCK and unreadable rows | `computeGuardmeshConsensus`, four threshold modes, the phase-5 table, a two-thirds fallback | rounding, missing and unreadable rows, rules computed in several places | executes exactly on the documented threshold; a decision on the rows so far is not contradicted by later ones |
| Intent route and AXL bridge, `Web/app/api/guardmesh/intent`, `Web/lib/axl-intent-bridge.ts` | per request: sends that succeeded, rows collected, deadline | `broadcastIntent`, `pollVerdicts` | sends whose answer and delivery differ, a deadline, several requests on one queue | always answers; never executes on fewer verdicts than the mode requires; no verdict counted twice |
| Verdict spool, `Web/lib/axl-verdict-spool.ts`, `guardmesh-guardian/verdict-spool.js` | a file written by one process and emptied by another | append; read, then truncate | the two system calls of a drain | a verdict leaves the file only into a request |
| Command-line intent client, `guardmesh-guardian/axl-intent-client.js` | the rows of one intent | empty the spool, broadcast, poll | another program at the same queue and spool | no verdict found before an intent began is taken for that intent's |
| Guardian listener, `guardmesh-guardian/axl-guardian-listener.js` | one message in memory | pop, judge and send, spool a stray verdict, send an error verdict | a send that fails after delivery, a restart | judges each queued intent; two messages of one guardian never outweigh another guardian |
| Guardian evaluation and policy gate, `guardmesh-guardian/guardian.js`, `registry-policy-gate.mjs` | none; reads chain and KV | gate reads, then the language model | reads of two sources at different moments | approves only an agent that is active, by a policy that was one |
| AXL node, `axl/api`, `axl/internal` | receive queue, connections, streams | `/send`, `/recv`, `/mcp`, `/a2a`, accept, dial | loss, reordering, a full queue, a limit on connections, idle peers | a slot is given back; an answer goes to its asker |
| AXL agent services, `axl/integrations` | registered services, health entries, sessions | register, deregister, forward, health, A2A tasks | every hop has its own timeout and goes on after the hop before it gave up | a result comes from the service asked; an answer is only lost to a deregistration |
| AXL examples, `axl/examples/python-client` | gossip meshes, seen and pending messages; convergecast sessions | graft, prune, eager and lazy push, heartbeat; merge and hand up | grafts that cross, late messages of an old session | mesh sizes bounded; a message reaches everyone; complete data is of one session |
| Audit ledger, `0g-contracts/contracts/GuardMeshAudit.sol` | decision per root, list of roots, history per agent, recorders, admin | `recordDecision` and the admin functions | three indexes of one thing, changing rights | an append-only log; indexes agree; timestamps in order |
| Phase-6 anchor and retrieval, `Web/lib/guardmesh-phase6-*.ts` | none of its own; 0G Storage and the ledger | bundle, upload, record, wait, raced against a timeout; read back and verify | partial failure, late success, calls that never return | what is reported recorded is on the ledger; what is on the ledger is in storage; what is called verified is backed by both |
| Readers: activity and audit pages, `verify-bundles.mjs`, `audit watch` | selected row, offset and rows of a page, loading flag, last timestamp printed | fetch a bundle, turn or poll a page, look a root up, walk a history | answers out of order over a ledger that grows, equal timestamps | the detail shown is the row's; a page is one of the ledger; the feed prints in order and misses no block |
| Registry, `GuardMeshRegistry.sol`, `GuardMeshRegistry-ENS.sol` | policy per agent, agents per owner, name per agent, node to agent, two lists | register, update, (de)activate, transfer, assign and revoke names | lists that survive a transfer, names taken over, an external call to itself | enumerations exact; an owner finds its agents; the reverse lookup never leads to a name given up |
| Policy mirror, `Web/lib/guardmesh-kv-*.ts`, `api/guardmesh/kv-sync`, `kv-policy` | a copy of a policy in 0G KV | read chain, write KV | concurrent syncs, writes that land later | after the last acknowledged sync the copy agrees |
| Policies page, `Web/app/home/policies` | policies shown, handlers under way, a busy flag; selection, form, history | register, save, (de)activate, connect; then sync and name; open, type, close | handlers that overlap, account switches, transactions that land after the wait gave up, reloads under an open form | the mirror follows; the form is of the agent shown; buttons come back |
| ENS: `guardmesh-guardian/ens-utils.mjs`, `guardian-ens-boot.mjs`, `api/guardmesh/ens-register`, `register-ens-sepolia.mjs` | cache with expiry; commitments | boot, link, read and write records; commit, wait, register | stale cache, a race for a name during the wait, a death between steps | own writes are read; an ok answer names an existing name |
| Chat, `Web/app/home/analyze`, `Web/app/api/guardmesh/run`, `Web/lib/openclaw-channel-guard.ts` | form, running flag, turns | intent, tool, reply | the form changes during a turn, tools outlive their request | a tool only does what was approved; a reply only where the channel admits it |
| Agent plugin, `integrations/openclaw/plugins` and `mesh-then-openclaw-invoke.mjs` | approvals per session with a time to live | ask the mesh, remember, let a tool call pass | requests in flight across a gateway stop | no tool call without a recent approval of its session |
| Tool routes, `Web/app/api/guardmesh/run/*` | none; files and documents | stat, read, cap, combine | files that grow between stat and read | caps hold and truncation is told |
| Entries: `guardmesh-bridge.mjs`, webhook route, scripts | none | post an intent, wait, exit | shapes of payloads, a timeout while the route goes on | an exit code tells the decision |
| Command line, `guardmesh-cli` | `~/.guardmesh/config.json`, project directory | config, guardians, test, init, audit, registry | overlapping runs over one file | settings saved are settings used; the outcome shown is the mesh's |

Interaction: the server calls its AXL node over HTTP; nodes talk over TCP; the
hub's listener and the server share the hub's receive queue and the spool file;
the server calls the ledger contract and 0G Storage; guardians read the registry
or its mirror; the policies page writes both; the dashboard, the scripts and the
command line read them.

`PROJECT.json` lists every component with what is modelled of it, and the
hazards, each at its line, with the properties that cover it.

## 2. The modules

| Module | Models | Extends |
|---|---|---|
| `ConsensusRules` | the rules, as operators on counts | |
| `Consensus` | the rows of one request arriving one by one, and the decision at each point | `ConsensusRules` |
| `IntentMesh` | requests, nodes, listeners and spool from intent to decision | `ConsensusRules` |
| `IntentClient` | the command-line client, another program for the same variables | `IntentMesh` |
| `IntentEntries` | the programs that bring an intent from outside | `ConsensusRules` |
| `GuardmeshCli` | the command line | `ConsensusRules` |
| `AuditLedger` | abstract: a log that grows only at its end | |
| `Audit` | the ledger contract; implements `AuditLedger` | |
| `AuditFeed` | `audit watch` over that contract | `Audit` |
| `AuditTrail` | the audit page and an auditor's walk over that contract | `AuditFeed` |
| `Anchor` | phase 6 of several requests, the route's timeout, storage, and the ledger contract | `Audit`, `ConsensusRules` |
| `AuditReaders` | retrieval and verification, the two pages and the script that use it | |
| `Registry` | the registry contract | |
| `RegistryENS` | the contract that inherits it | `Registry` |
| `PolicyMirror` | syncs into 0G KV, the gate and the evaluation around it | `Registry` |
| `PolicyEditor` | the policies page over the contract and the mirror | `PolicyMirror`, `RegistryENS` |
| `PolicyForm` | the selection, form and history of that page, over its handlers | `PolicyEditor` |
| `GuardianENS` | a guardian's ENS cache, boot and link | `RegistryENS` |
| `ENSRegistrar` | commit and reveal by the route and the script | |
| `MeshAnswer` | what the front ends of tools look at in the mesh's answer | |
| `ChannelGuard` | which channel messages OpenClaw answers, as operators | |
| `AnalyzeTurn` | a turn of the chat, from form to tool to reply | `ChannelGuard`, `MeshAnswer` |
| `RuntimePlugin` | the gateway plugin's approvals and the script that invokes a tool | `MeshAnswer` |
| `AgentTools` | the ways to a tool, side by side | `AnalyzeTurn`, `RuntimePlugin` |
| `ToolRoutes` | reads of files and documents with their caps | |
| `AxlServices` | a request through two AXL nodes, router or A2A server, and service | |
| `GossipSub`, `Convergecast` | the two example applications | |
| `MC*` | constants for TLC, and scenes (below) | the modules they name |
| `*_proofs` | theorems | the module they name |

**Scenes.** Modules that share nothing are checked in one run as *scenes*: the
`MC` module chooses a scene in the initial state and takes steps of that scene
only, everything else staying at its initial value. Where a scene also narrows what
people or other accounts do, a named definition of the `MC` module says how
(`OneRecorder`, `OneTurn`).

**ConsensusRules, Consensus.** `Counts` stands for the verdict rows: only their
number per class matters to the code. `Consensus(mode, counts, expected)` is
`consensusByThreshold`; one operator per rule. `DocumentedExecute` is the
threshold as the comments and the registry's constants describe it, written
apart from the rules, as their reference. In `Consensus` an action adds one row;
since the poll loop may stop after any row, every state is one in which the
server might decide.

**IntentMesh.** The phases of a request follow the handler: `idle`, `sending`
(the loop of `broadcastIntent`), `poll` (top of the poll loop), `recv` (between
the spool drain and the `/recv` call), `decided` or `failed` (the 502 answer).
Node.js runs one callback at a time, so while a drain is between its synchronous
read and truncate no other step of the server happens (`WebIsFree`); the
listeners are other processes and do step in between. A send has two outcomes,
what the sender is told and whether the message arrives, in any combination
(`SendOutcomes`). `Deliver` takes packets in any order; `Push` drops the oldest
message of a full queue. A verdict message carries no intent identifier; the
model's field `req` is a history field that no guard and no assignment of the
code's actions reads.

**IntentClient.** A request is one intent of the client, `out[r]` the rows it
returns. It shares the listeners, the nodes and the queue with `IntentMesh` and has
its own steps: it empties the spool before it sends, waits for as many rows as
there are guardians even when sends failed, and asks `/recv` after every drain.
`wiped[r]` is a history variable: what lay in the spool when intent `r` emptied it.

**IntentEntries, GuardmeshCli.** An entry is a run of one program: the shape of
its payload and flags, the post, its wait or timeout, and the exit code, while
the route goes on for itself (`judging`). A command of the command line loads
its configuration the way `loadConfig` does, the environment's undefined values
included, works, and saves; two of them run at once over one file. The answers
`test action` collects are of five kinds, since it compares them to the letter
with "approve" and counts anything else as a block, while the mesh upper-cases a
verdict first and counts what it cannot read apart: `recased` is an approval
written in any other way, as `APPROVE` is.

**Audit, AuditFeed.** A transaction is a step; one that reverts is no step.
Zero addresses, zero roots and empty identifiers, which the contract refuses,
are left out of the constants. `now` is the block timestamp and several
transactions share it. In `AuditFeed` a poll is two steps, the node's answer and
its handling, because polls overlap; `RootType` is the type the command's ABI
gives a root, and a record it does not fit cannot be decoded. `AuditTrail` has the
dashboard's reader: a load is two calls, the total and then the page, and a lookup
two as well, with the ledger growing between them and other loads in flight. Its
auditor pages through an agent's history by the contract's views.

**Anchor.** It composes the ledger with the server: the actions of `Audit` are
its actions, taken by other recorders and by the blocks that mine the server's
transactions. A request that is decided goes through the stages of
`runGuardmeshPhase6Anchor`: `building`, `uploading`, `recording`, `sent`, `done`;
`hung` is an awaited call that never returns. `answer` is what the response says
of the anchor: the first of the anchor's result and the timeout
(`Promise.race`), so the anchor goes on after a timeout. The estimate of the gas
and the block that mines a transaction are separate steps, and rights and the
ledger may change between them. Where the code can only see an error, the model
has both worlds: an upload that failed may have stored the bundle, a submission
that failed may have reached the node.

**AuditReaders.** It starts from what `Audit` is proved to be, a log that only
grows, with entries of the server and of other recorders; a server's bundle
carries the policies its guardians report and the snapshot `buildBundle` makes of
them. A fetch is a request in flight with its stages (chain, storage, checks),
any of which may fail, and its answer comes back when it comes back: the
activity page guards against a stale one, the audit page and the script do not
have to. A decision has the fields that are compared (`intent`, `tally`, `execute`)
and those that are not (`rest`: outcome code, reason and time).

**Registry, RegistryENS.** The lists of a policy are one value, timestamps are
left out because nothing in the contract reads them, a name stands for its node,
and the empty name, whose node is zero, is one of the names tried.
`RegisterAgentWithENS` registers with the contract itself as sender, as the code
does. Cached addresses and metadata are left out.

**PolicyMirror, PolicyEditor.** Every awaited read is a step: the sync's two
chain reads, the gate's reads in each source mode, in the order of the code. A
KV write goes into `stream` and is replayed later, so an older sync may land
after a younger one has read. `eval[e].seen`, `past` and `fresh` are history
variables: the policies the agent had during an evaluation, those it ever had, and
whether the row last committed was read by a sync during which, and since when,
the policy did not change. The language model
answers anything. The editor adds the page: one record per handler with its
stage, the transaction pool, the busy flag, and what the page shows; its handlers
are those that send a transaction, and a guardian's evaluation is no part of it.
`PolicyForm` adds what the user looks at: the selection, which reloads and account
switches move; the dialog with its form, filled by an effect whenever the selected
policy is a new object; and the history, four queries answered one by one. React
runs the effects of a render before the next event, so `Rendered` is part of
every action that sets what they depend on.

**GuardianENS, ENSRegistrar.** Ages of records and cache entries are counted in
ticks up to one beyond the TTL. Others change records at any time. A commitment,
its wait and the registration are separate steps, with strangers registering in
between; the payer's balance is shared by all jobs; a process may die anywhere.

**AnalyzeTurn, RuntimePlugin, AgentTools.** A turn keeps what the code captured
when it began; the form goes on changing. A tool's route lives on when the page
gives up on it. A call of the plugin keeps the session key, the moment and the
number of gateway stops it began under; `granted` is the history of approvals.
`channel` is the operator's configuration of the channel, any of `RawPolicy`, with
the fields the code reads, present, missing or unknown; `Coerce` and `Guard` are the
code's, `Admits` says apart from them what the configuration asks for, and
`replied` is the history of the messages that were let through. The route does not
guard a message without a context; the page always sends one, which the property
states too.

**ToolRoutes.** Stat and read of a file are two steps and its size may change
in between. Lengths are in units; headers and notices are counted as the code
counts them.

**AxlServices.** One record per hop of a request (`client`, `conn`, `route`,
`task`): each goes on when the hop before it has given up. `services` is the
router's registry, with the number of the registration an answer belongs to. A
connection is the loop of `handleTCPConn`: it reads a message, answers it, and reads
again (`again`) until its peer closes or lets the idle window pass. Peers that are no
AXL client are among them: one that keeps sending (`talks`) and one that does not
read (`deaf`), on whose connection a write blocks (`stuck`), for it has no deadline.

**GossipSub, Convergecast.** One topic; a tick of a node drains its queue and
may beat the heart, here at any time. In `Convergecast` each node runs its
sessions one after the other over one queue; `Subtree` is who a complete answer
has to be from, stated without the merging that the code does.

Where a run checks a conjunction (`ViewsTellLedger`, `DialogIsOfAgent`, `ApprovalsHold`,
`CacheIsHonest`, `AnswersAccountedFor`), each conjunct is a named property with a
theorem and a mutant of its own.

Mutated copies of a definition (`Mut_...`), with a mistake a maintainer could
make, stand before it. They are not part of the specification: each shows that
some property notices that mistake. The type invariants (`...TypeOK`) document
the range of every variable. Each is part of an inductive invariant of section 4,
or proved on its own (`TypeCorrect`), and no run repeats it.

## 3. What each run checks

| Run | Instance | What it shows |
|---|---|---|
| `mesh_solo` | one request, two spokes and the hub, both readers of the hub's queue, queue of 2, one fault, all modes | `ExecuteBackedByGuardians`: with one request, distinct guardians that approved this very intent are behind every execution |
| `mesh_pair` | scene *intents*: two requests, one spoke and the hub, no fault. *client*: two intents of the command-line client, one after the other, the same nodes. *entries*: one program, 3 guardians. *cli*: two commands, nothing or everything set in the environment. *routes*: two files and a database, caps of a few units. *services*: two requests, one service, one connection, three registrations. *gossip*: four nodes in a star. *convergecast*: a tree of four, two sessions | `NoVerdictCountedTwice`; what an intent emptied out of the spool no intent reports (`WipedNeverReported`); `BridgeCodesTell`; the outcome of `test action` against the mesh's decision (`TestTellsOfMesh`); `CapsKeptAndTold`; a result is served by the service asked, and an answer is lost only to a deregistration (`AnswersAccountedFor`); `MeshWithinBounds`; `SuccessIsComplete` |
| `mesh_live` | *intent*: one request, one spoke and the hub, two faults, spool only, fair. *services*: two requests, one connection, one registration, fair. *gossip*: four nodes at rest, any meshes, one message, fair | every request is answered, and with no fault every queued intent is judged; a connection keeps its slot for good only if its peer keeps sending, or does not read while it is written to (`SlotsComeBack`); a published message reaches every node |
| `mesh_late_verdict` | two requests, no fault, unanimous | *finding*: a verdict on one intent makes another unanimous |
| `audit_feed` | scene *feed*: 2 accounts, 2 agents, 2 roots, 2 timestamps, two polls in flight, a page of 10, an ABI that fits. *pages*, *lookups*, *walk*: the same ledger, one recorder and one block, pages of one row, two loads or two lookups at once, one walk | the contract implements `AuditLedger`; the feed never repeats, prints in ledger order, and prints something of every block; the page shown is one of the ledger and never beyond its end, the decision looked up the one that stands; a history read page by page is the history, and verifies (`ViewsTellLedger`) |
| `feed_abi` | the same with the ABI of the repository | *finding*: nothing is ever printed |
| `anchor` | 2 requests (four approvals, or three of four guardians), 2 roots, another recorder, a changing admin, one failure of any kind, majority mode | a reported record is on the ledger with that decision; what the wallet recorded is in storage and is its bundle's decision; an approval on the ledger shows a majority; the response is sent whatever hangs; without failures a decision the contract takes reaches the ledger, timeout or not |
| `records` | *registry*: 2 wallets and the contract, 2 agents, 2 names and the empty one. *guardian*: one text record, TTL 1, four calls or foreign changes. *registrar*: two requests and a script, money for two. *readers*: 2 roots, a decision of the server and one of another recorder that differs only in what is not compared, a foreign bundle, two fetches at once | an owner finds its agents, a node leads only to a current name, what the contract owns is frozen; the cache is no older than its time to live and never tells what the process has overwritten (`CacheIsHonest`); an ok answer names an existing name; the detail shown is the selected one, what is verified is on the ledger in all that is compared, and entirely if the server recorded it (`VerifiedIsBacked`), own decisions verify exactly when one policy was used |
| `policy` | scene *page*: one wallet and agent, two handlers with a sync each, a backlog of one, three clicks. *gate*: one sync, one evaluation, sources `kv` and `chain`, an operator's post. *form*: two agents, the second shown or about to be loaded, one handler besides, one click or foreign change, one history load | once the last sync begun after a change has landed, the mirror is the chain's policy; the buttons come back; an approval means active at some moment of the evaluation, and rests on a policy (`ApprovalsHold`); the form is of the agent shown and holds its policy unless somebody typed, and a history has everything mined before it was asked for (`DialogIsOfAgent`) |
| `policy_drift` | the scene *page* alone | *finding*: syncs of two handlers at once leave an older policy in the mirror |
| `tools` | *tools*: two agents, two turns, two gateway calls (one of the script), TTL 2, four acts of people. *channel*: one turn, messages of two users or nobody in two groups or directly, mentioned or not, 859 configurations. *consensus*: 1 to 8 guardians, all modes, every count | a call passes only on a recent approval of its session; a tool does what was approved; a message is answered only where the configuration admits it (`ReplyAdmitted`); the composer comes back. Execution exactly as documented; an early execution is withdrawn only by an unreadable row |
| `cli_config` | one command at a time, any environment and any options | *finding*: saved settings are not used |

### Bounds, and why they are enough

* `MaxGuardians = 8` is what `resolveGuardianPeerIds` keeps of a topology.
* The meshes have two or three guardians, the hub included: two is the least for
  a disagreement, three the number the phase-5 table is made for. `MaxFaults`
  bounds failed sends, lost packets and restarts together; one is enough to
  produce each of a lost intent, a lost verdict, a doubled verdict and a lost
  listener, and `StrictModes` and `ExecutionBackedByRows` are proved without the
  bound. `QueueCapacity` is 2 in `mesh_solo`, so that the queue of the hub
  overflows with three guardians; in the code it is 100.
* Two requests, turns, calls, syncs, fetches or sessions are enough for any
  property of pairs, and those are what the overlaps are about.
* Two roots and two timestamps give two decisions in one block and in different
  blocks, which is all a comparison of timestamps tells apart. `PageSize` of the
  feed is the code's 10: the ledger of the run fits it (a longer one is an
  observation below).
* In `anchor` two requests compete for roots, mempool and rights. One fault is a
  failed or hung call at any stage or a restart of the server; the properties
  that must survive any number of them are proved without the bound. Four
  approvals are more than the contract takes. `MaxTime` is 1 there, since
  timestamps are the business of `audit_feed`.
* Two names and two agents give every overwrite of a reverse entry; `MaxOwned`
  bounds only how often agents change hands.
* In `policy`, three clicks are a registration and two changes, by the page or
  from elsewhere, each handler with its sync: the least in which an older sync
  ends after a younger one. The two `Rules` are one that permits the action and one
  that takes the permission back; a backlog of one row is a write that lands after
  the next read. Its safety properties are proved without any of these bounds.
* In the scene *form* the second handler only loads or saves, syncs fail at once and
  the four queries answer in one order: the form knows nothing of syncs, and what the
  order of the queries could confuse is in the transactions mined between them.
* In the scenes of the audit page the ledger has two decisions and a page one, so
  that there is a page to turn to, a last one, and one beyond it.
* In the scene *client* two intents are the least in which one can find what the
  other left; the deadline of the first produces it.
* Times to live are 1 or 2 ticks: one before, one at and one after the expiry.
* In `tools`, two agents with different gate actions are what a form changed
  during a turn can confuse, and two sessions what the plugin could.
* In the scene *channel* lists name nobody, the first user or everybody, and the
  first group or none: a sender or a group is then listed, unlisted, or there is no
  list. Group settings and direct ones are varied apart, since a message meets only
  one of the two; every mode is set, missing and unknown, and the two places of the
  direct mode contradict each other.
* In the scene *readers* one foreign record suffices: it has the counts of the server's
  bundle and not its outcome, and not the counts of the foreign bundle.
* `MaxEndpoints` of the scene *cli* is 2: a tie, a majority of one kind, and a guardian
  that fails beside one that answers.
* In the scenes *services* one connection is the least that can be held against
  somebody; three changes are register, deregister, register again. The star is
  the smallest topology in which a full mesh refuses a graft.
* In `mesh_pair` the caps are a few units and the sizes reach one beyond each
  of them.

### Fairness

`IntentMesh!Fairness`: the server's event loop keeps running each handler that
has begun, and time passes its deadline (timers); a listener's loop keeps
running, restarted by its operator after a crash; TCP delivers what it accepted,
loss being a separate, counted outcome of a send. No fairness is assumed of
agents sending requests or of faults. `AuditFeed!FeedSpec`: the timer keeps
asking (weak fairness) and a poll that is answered again and again is not always
an error (strong fairness; the code swallows errors and asks again).
`Anchor!AnchorSpec`: an awaited call settles unless it is one of the counted
failures (hanging is one), the chain mines what the node accepted, and the timer
of the race fires. `PolicyEditor!EditorFairness`: every await of a handler ends,
by the wallet's answer, by the receipt or by the code's own timeout, and the
server answers a sync (in the scenes of the page, not in *gate*). `TurnFairness`: each fetch of a turn settles, since
each has an abort timer. `AxlFairness`: a connection's handler goes on where it can;
its read has an idle deadline, its write has none, and nothing is assumed of
peers. `GossipFairness`: a message in a node's queue is
handled (weak), and among the random samples a heartbeat announces to, no peer
is left out for ever (strong, which is what a random sample gives with
probability one). The contracts, the readers, the ENS jobs, the entries and the
command line get no fairness: nobody has to act. Deadlock is accepted
(`CHECK_DEADLOCK FALSE`) where a system stops by itself: all rows counted, all
requests decided, all clicks used.

### Findings

1. **A verdict is credited to the wrong intent** (`mesh_late_verdict`,
   `axl-intent-bridge.ts:122`). With two requests one guardian's verdicts on
   both can make one of them "all guardians APPROVE".
2. **The feed cannot decode a decision** (`feed_abi`,
   `guardmesh-cli/src/lib/contract.ts:14`). The ABI calls `merkleRoot` a string,
   the contract's field is `bytes32` (`GuardMeshAudit.sol:30`): every poll throws,
   and the error is swallowed.
3. **Saved settings are not found again** (`cli_config`, `lib/config.ts:31`).
   The values of unset environment variables, `undefined`, are spread over the
   saved ones, so "Run: guardmesh config --rpc <url>" does not help.
4. **The mirror stays behind the chain** (`policy_drift`,
   `Web/app/api/guardmesh/kv-sync/route.ts:32`). The comment at line 12 says the
   route copies the on-chain policy to KV "so guardians ... stay consistent". It
   reads the chain and writes the copy in two awaits with nothing that orders
   two of them: the older sync of two handlers may write last, and nothing
   corrects it until the next change. `MirrorFollows` is what does hold: if the
   policy has not changed since the sync that was last to write began, the mirror
   becomes the chain's policy.

### Observations

Met while modelling; each is part of the model's behaviour, none is a run.

*Mesh.* Unless the server collects from the spool only, its poll loop pops the
hub's queue and drops what is not a verdict, the hub guardian's intent included
(`axl-intent-bridge.ts:166`); `EveryQueuedIntentJudged` therefore holds for spool
only, and the mutant `Mut_AlwaysPollRecv` shows why. Read and truncate of the
spool are two calls with a listener's append between them
(`axl-verdict-spool.ts:53`). The
client's emptying reaches the file only: a late verdict still on its way, or in the
hub's queue, is taken for the next intent's, and the verdicts a request of the server
is waiting for are emptied too. The peers come from
`GUARDMESH_GUARDIAN_PEER_IDS` with duplicates kept, or from the topology cut at
eight with the hub last (`axl-intent-bridge.ts:74`). The
bridge's webhook times out at 120 s while the intent proceeds, and the plugin's
webhook drops `consensus_threshold` (`index.js:51`).

*Ledger.* The feed asks for the ten oldest decisions (`audit.ts:19`), so it stops
after its first page, and the filters of `watch` are ignored; of decisions that
share a timestamp with one already printed the later are skipped, which is why
`FeedShowsEveryBlock` promises one decision per block. A response may say that
`recordDecision` failed although the transaction lands later
(`guardmesh-phase6-anchor.ts:373`). More than three votes are refused by the
contract (`GuardMeshAudit.sol:171`) while a mesh may have eight guardians. An
admin may record although its entry among the recorders was revoked
(`GuardMeshAudit.sol:91` against the comment at line 143).

*Readers.* The audit page shows the rows of whichever load answers last, of an
offset turned away from too, and its total may go back; `TrailTellsLedger` says what
holds of them, and not that they are of the page selected. Outcome, blocked reason
and timestamp are not compared although the note says "All fields match on-chain
data" (`guardmesh-phase6-retrieval.ts:388`): another recorder's decision that differs
from its bundle in these is verified all the same, in the run *records* too, and
`VerifiedIsBacked` claims them only for what the server recorded. A decision
blocked at the gate, or by guardians that judged by different artifacts, never
verifies: `OwnDecisionsVerify` says exactly which do. `verify-bundles` prints
`message` where the route sends `error`; `audit verify` exits 0 on "NO".

*Registry and policy.* An agent registered with a name belongs to the contract
(`GuardMeshRegistry-ENS.sol:175`: `this.registerAgent` makes the contract the
sender); `OrphansAreFrozen` is the consequence. A former owner's list keeps
an agent given away (`GuardMeshRegistry.sol:224`). `kv_only` is documented to
fail closed (`registry-policy-gate.mjs:27`) but falls back to the chain (line 165), and the
row's own `active` is ignored; `isActive` and `getPolicy` are separate reads.
The busy flag is not set while the page reloads or syncs; a timed-out
transaction may land later with no sync after it; an older load may overwrite
the shown policies after an account switch, and an older history the one of the agent
shown (`policies/page.tsx:341`). An action with a comma in it becomes two when the
form is submitted (`AsTyped`). An APPROVE of the language model stands although one
of its own checks failed.

*ENS.* The secret of a commitment is lost on a restart; `already_registered`
answers ok with the requester as owner; the script exits 0 on failure;
`getGuardianMetadata` goes around the cache, `setGuardianMetadata` is not atomic
and a wait that failed but landed leaves the cache stale; `getTextRecord` turns an
error into an empty value; the subname gets no address.

*Tools.* The path a code analysis reads is not part of the intent. Late messages
of a turn land in another agent's chat. The script exits 1 on a refusal and on a
network failure alike (`mesh-then-openclaw-invoke.mjs:23`). The byte caps are on
the stat's size, so a file growing before its read passes the total
(`guardmesh-read-workspace-files.ts:23`; the combined cap is on what was read, and
holds); inline code has no cap; any error whose text contains "mongodb" is a 503.

*AXL.* A health entry written after the await may belong to another registration;
a service gone meanwhile is a `KeyError`, a 500 without JSON; sessions of failed
`initialize` calls stay; a failed A2A task is HTTP 200. A peer that sends one message
per idle window keeps its slot for good (`listener.go:222` begins the window anew), and
so does one that reads no answer (the writes of `listener.go:278` have no deadline);
`SlotsComeBack` excepts the two by name. Gossip: an `IWANT` carries 64
identifiers while all are marked pending (`gossipsub.py:247`), pending is never
cleared on loss, the branch that prunes a too large mesh is dead
(`MeshWithinBounds`), a full mesh prunes a peer that is already in it, and who is
grafted after a publish never hears of that message from this node. Convergecast:
"success" is about a node's own children only; a reused session identifier
merges stale data.

*Command line.* The registry functions of the ABI exist in no contract, so the
registry commands always fail; `test action` compares a lower-case "approve" with
the guardians' upper-case ones (`test.ts:56`), so it says BLOCKED where the mesh
executes, which `TestTellsOfMesh` gives as the only reason for that; and it posts to
`/a2a/send`, which AXL does not have;
`init` after a failed `init` says "already exists" and exits 0.

## 4. What is proved

Every safety property that a passing run checks, invariant or action property,
is also a theorem, for every value of the constants under the named assumptions
of the modules. The assumptions say no more than that, for instance, the hub is a
node and the peer list not empty (`MeshAssumption`), the contract sends no
transaction of its own (`ENSAssumption`), a parent is a node of the tree
(`TreeAssumption`), or a placeholder is none of the values it stands beside
(`CliAssumption`, `ClientAssumption`, `ReadersAssumption`,
`GuardianAssumption`, `TrailAssumption`), or text typed and read back is read back
the same again (`FormAssumption`). TLC evaluates them
in every run. No theorem uses the bounds of a run.

* `ConsensusRules_proofs`, and `Consensus` in `Consensus_proofs`. The counts stay
  within the number of guardians (`TypeCorrect`), which is the only state
  invariant the rest needs: the other results are about the rules on any
  well-typed counts. `Supermajority`, a ceiling, is first shown equivalent to
  `3 * a >= 2 * t`; then the rules are compared mode by mode:
  `TableAgreesWithFallback`, `ExecutesAsDocumented`, `MajorityBehindExecution`, and
  `DecisionsTellVotes` (dissent is never reported as a clean go-ahead, an incident
  takes every guardian's BLOCK, code and instruction agree);
  `EarlyExecutionIsFinal` is an action property and splits on the row that arrives.
* `Consensus_proofs`, further: what counts votes elsewhere. `BridgeCodesAlwaysTell`
  (`EntryInv`): what a bridge has heard is what its route decided, of the mode its
  payload asks for. `TestAlwaysTells` (`CliInv`): an outcome is said at the end, over
  all guardians asked; it is compared with the mesh's rules over counts made from
  the same answers in another way, case by case (`CliInvTells`). `CapsAlwaysKept` (`RoutesInv`): the combined length stays below the
  cap while sources are added, since the room left for each is computed with its
  header, and a row that gives less than there was is marked.
* `IntentMesh_proofs`. `TypeCorrect` needs the strengthening that the history of
  messages is finite. `Collected` says that the rows of a request are finite and
  never more than its successful sends, which are never more than the sends
  made. It is inductive only because a drain tests its limit before each row
  (`PushedWithinLimit`) and because the loop is entered after the last send. From it
  and the rules' lemmas follow `StrictModes` and `ExecutionBackedByRows`.
  `NoDoubleCount` follows each verdict through net, queue, listener, spool, drain
  and rows: at most one copy of it is on the way (`Moving`: with what is where it
  belongs, and timestamps of a guardian that grow), and at most one is in spool,
  drain or rows (`Placed`), of which the drain's read-then-truncate is the hard case: what the
  drain holds is still in the file until the file is emptied. `BackedByGuardians`
  adds `JudgedOnce`: a guardian judges an intent once for each copy sent. It assumes
  one request, since a verdict does not name its intent (finding 1), and distinct
  peers: those found in the topology are collected in a set
  (`axl-intent-bridge.ts:58`), those listed in `GUARDMESH_GUARDIAN_PEER_IDS` are taken
  as they are.
* `IntentMesh_proofs`, the client. The steps shared with the server keep what is
  proved of the mesh (`SharedKeeps`), the client's own keep `Moving` and `Placed` again
  (`OwnPlaced`), hence `ClientCountsOnce`. `WipedStaysUnreported` adds `ClientInv`: what an intent
  emptied had left net, queues and listeners, and nothing puts it back there
  (`NothingComesBack`); it needs that intents come one after the other, since a drain
  of another intent could still hold what this one empties (`DrainAtRest`).
* `Ledger_proofs`, the contract. `StepKinds` reduces a step to "nothing moves" or
  "one decision is appended"; `IndexesAlwaysAgree` is inductive with the types; with
  it `AlwaysChronological`, `HistoriesInOrder`, `LedgerAlwaysInOrder` and the
  refinement `Immutable` (a step of the contract is a step of `AuditLedger` or
  leaves the log alone).
* `Ledger_proofs`, the feed. `FeedAlwaysInOrder`: an answer in flight is a beginning of
  the ledger however old it is (`Beginning`), and nothing printed is later than the
  last timestamp printed, so an older answer prints nothing again (`FeedInv`).
* `Ledger_proofs`, the page. `TrailAlwaysTells`: the offset was within the total when
  the page was turned, totals are lengths of a ledger that only grows, and an offset
  within the ledger has a row, so an answer from any later state has one too.
  `WalksReadHistories`: what is read is a beginning of the history, and a page comes
  back empty only at its end.
* `Ledger_proofs`, the anchor. `AnchorObeysContract` shows that every step of the
  composed system is a step of the contract or leaves it alone, so the theorems
  about the contract carry over. The inductive invariant `AnchorInv` says per
  request what its stage implies (`Progress`: from `recording` on the bundle is
  stored; a successful receipt or a reported record means the ledger has this
  decision), that whatever waits in the mempool is stored (`InMempool`), and
  `LedgerBackedByStorage` itself, which needs both: a transaction is mined after
  its anchor may have been answered, abandoned or lost in a restart. Since the
  ledger only grows, an answer stays right. `ApprovalsHaveMajorities` adds the
  rules' lemmas. All for any number of requests and failures.
* `Registry_proofs`, the contracts. `RegInv` (types, both enumerations) is inductive
  alone, `ENSInv` on top of it. `ReverseIsCurrent` needs that an agent not yet
  registered has no name, hence the conjunct that every listed agent is
  registered. `OrphansFrozen` follows because the contract is not a sender.
* `Registry_proofs`, the mirror. Of an evaluation, `MirrorInv` says at each stage of
  the gate what has been read by then: a row read from the chain is the record of
  a policy in `seen`, one from the mirror is in the mirror's past or an operator's;
  and of everything on its way to the mirror (a sync between its reads, the
  stream) that it records a policy in `past`. `seen` and `past` only grow, so a fact
  once read stays one while the owner changes the policy. `MirrorCatchesUp` needs
  that the *last* row of an agent in the stream is the one the history `fresh` is
  about (`FollowInv`, `LastOf`): rows of other agents may follow it, and replaying
  the stream from its front does not change which is last.
* `Registry_proofs`, the page. `PageIsAUser`: every step of the page is one that the
  mirror knows, so that all that is proved of syncs holds under it.
  `FormFollows` goes by what a render sets; `HistoriesWhole` (`HistoryInv`): the log
  only grows, so the four answers, each from a state after the load began, hold
  at least what was there then.
* `Records_proofs`. Readers: `ReadersInv` rests on `Told`, what retrieval says of a root,
  which stays true because the log only grows and a stored bundle never changes;
  so a fetch may answer as late as it likes (`VerifiedAlwaysBacked`,
  `OwnAlwaysVerify`), and `DetailAlwaysSelected` adds that at most the fetch of the row selected
  is alive. Names: `AnsweredAlwaysExist` over `RegistrarInv` (`JobSound`: what a job may
  answer rests on its own transaction, or on a name it saw taken, and nobody
  loses a name). A guardian's cache: `VerifiedRestsOnRecord` and
  `CacheForgetsOwnWrites` over `GuardianInv`, which ties the age of a cache entry to
  the time since when its value is off the record (`FreshAddr`, `FreshText`); each
  of the steps is first shown to be `Honest` about what it answers.
* `Axl_proofs`. `ResultsAreServed` and `OnlyGoneLoses` over `AxlInv`, hop by hop: a good
  answer of a hop rests on a good answer of the next, in the order of the hops
  (`HopsInOrder`), and the router has asked under a registration that stands, was
  followed by another, or was removed since (`RegistrationKnown`). `MeshBounded`: the
  only proof here about cardinalities that change, since a graft adds and a prune
  removes any peer. `CastComplete` over `CastInv`: a node holds its own datum and all
  that the children heard of returned (`Collects`), so a success at the root holds
  every subtree; `Subtree` is the least set closed under children, and the proof
  uses only that.
* `AgentTools_proofs`. `PassesRestOnApprovals` needs that an approval in force
  (`approvedAt`) was granted at that time in the present life of the gateway, and
  none in the future, whatever calls of one session overlap; `ToolsDoAsAllowed` and `RepliesAdmitted` need that a turn keeps what it
  captured, stage by stage, that a route begins only from an allowed intent, and
  that a stored analysis is its own agent's; `GuardAdmits` compares the coerced
  configuration with the one given, in groups and directly. `CodesTell` is about the script.

Only model-checked is what must *happen*, since liveness and fairness are out of
the prover's reach: `EveryRequestAnswered`, `EveryQueuedIntentJudged`,
`PublishedReachesAll`, `SlotsComeBack`, `FeedShowsEveryBlock`, `AnswerNotBlocked`,
`RecordsInTheEnd`, `ButtonsComeBack`, `ComposerComesBack`.

## 5. What is not modelled, and the plan

Not modelled:

* the AXL node's start-up, its configuration and the overlay network it joins
  (`axl/cmd/node`): no state of GuardMesh's own;
* pages and components that read once and lay out, the landing page, the user
  interface kit, static assets and generated artefacts;
* the language models' judgement (any answer), prompts, and what is printed;
* encryption, base64, hashing and framing, which no property is about: a bundle
  stands for its root;
* the gate's mode "skip", which judges by no policy;
* cached addresses and metadata of `GuardMeshRegistry-ENS`, the expiry of seen gossip messages, form presets.

What could follow: a verdict that names its intent, which would let
`ExecuteBackedByGuardians` be stated and proved for several requests at once; the
cached addresses of the registry with names; larger meshes in `mesh_solo`.
