# ContinuityDB in TLA+

ContinuityDB is a memory for coding agents. Agents capture what they learn and
hand work over to each other through a *vault*: a home directory with a SQLite
database, one Markdown file per record and a registry of projects, which command
line tools, MCP servers and an HTTP server open at the same time. Around it
stand a code graph built from Git repositories, vectors for semantic search, and
adapters that write the configuration files of the clients.

This directory specifies the parts of it whose correctness depends on the order
in which processes, awaits, failures and kills come, and the few pure algorithms
that are easy to get wrong; checks them with TLC; and proves every safety property the runs show with
TLAPS, for every number of processes, records, files or projects. Paths are
relative to the root of the repository; the lines each definition stands for are
in `PROJECT.json` (`map`).

## The system

| component | state | operations | what is hard | what makes it correct |
|---|---|---|---|---|
| Handoff checkpoints (`store.js`, `capture-policy.js`) | rows of type `handoff`, `handoff_sequence` | save, approve, revise, correct, forget, recall the latest | concurrent successors, review of a stale decision, corrections that bring keys, expiry, quota across agents | one head per lineage, one successor per checkpoint, recall returns the newest, quota |
| Transactions and outbox (`store.js`) | rows, `canonical_record_writes`, `records/*.md` | transaction, flush, rebuild, export, open | crash or error between commit and file, slow flush against a new commit, lock timeouts | no committed revision lost, no file goes back, every commit published |
| Captures (`store.js`, `capture-policy.js`) | rows, idempotency keys and aliases | propose, capture, commit, ingest, approve, revise, correct, forget | the policy decides before the transaction; retries under several keys | one record per key, no content twice, conflicts reviewed, bounded overrun of the quota |
| Graph generations (`store.js`, `graph/repository-graph.js`) | `graph_generations`, nodes, edges, evidence | build, publish, read as of a time | builds of several reads and one write; two builds publish in the wrong order; reuse of hidden facts | order of HEAD, references resolved, windows without gaps, current evidence |
| Graph retrieval (`graph/retrieval.js`) | none | seeds, hops, paths | authorization on the way, budgets, dropping of worse ways | paths authorized, best way found |
| MCP sessions (`mcp-http.js`) | session map, pending initializations | initialize, use, sweep, close | interleaving at every await | capacity, the map is the open sessions, close ends and leaves none |
| File locks (`file-lock.js`) | locks held, per process and per machine | acquire, acquire many, release | re-entrancy, several locks | exclusion, no deadlock |
| Configuration transactions (`agent-connectors.js`, `opencode-global-install.js`) | client configuration files, backups | plan, write all, verify, roll back | failing files, files edited meanwhile, other batches that write the same or share a backup | nobody's edit overwritten unseen, complete rollback, backups kept |
| Agent adapters (`agent-connectors.js`, `agent-policy.js`) | managed blocks, fingerprints, the policy two clients share | connect, disconnect, migrate, status | any order of operations, user's edits, kills, backups in several homes | user's text kept, disconnect leaves nothing, status and disconnect agree |
| Registry and links (`project-registry.js`, `trusted-project.js`, `store.js`) | `config.json`, `project-links.json`, its table | add, ensure, link | read-modify-write by several commands | registrations kept, identifiers unique, table follows file |
| Setup and the home (`cli.js`, `store.js`) | home, directories, database | init, setup, open | kills between the steps of a promotion | a registered project has a complete home, memories kept |
| Embeddings (`embeddings.js`, `store.js`) | vectors with content hashes | index one, index pending | texts change while a provider computes; partial passes | a memory is found by its own text, every one if the index is run again |
| Token budgets (`store.js`, `embeddings.js`) | none | fit a search, fit it again, pack | digits of a report, least budget | within the budget, report true |
| Audit chain (`store.js`) | `audit_events` | append, verify, import | - | the chain verifies |
| Search and ranking (`store.js`, `ranking.js`), extractors and ingest | none | rank, fuse, extract | - | - |
| HTTP and MCP front ends, hooks, command line | none that outlives a call | translate to the above | checks made before a body is read | scope of the caller |

How they interact. Everything that keeps records does so through
`ContextVault.runTransaction`: `BEGIN IMMEDIATE`, the operation, `COMMIT`, then
publication of the canonical files. SQLite's writer lock is the only thing that
orders processes there, so a transaction is one action where only its effect
matters (`HandoffLineage`, `Captures`, `GraphPublish`, `EmbeddingIndex`) and
several steps where its failure does (`CanonicalOutbox`). Reads before the
transaction (the capture policy, a graph build, the listing of missing vectors)
are steps of their own. Approval hands a memory to the index; setup is a batch of
configuration writes (`ConfigTransaction`) whose finalizer promotes the home
(`VaultHome`); what the batch writes is decided by the adapters
(`AgentAdapters`). A search goes through retrieval (`GraphTraversal`) and ends in
the envelope (`ResultEnvelope`).

## Modules

| module | models | proofs |
|---|---|---|
| `HandoffLineage` | the checkpoints of one task: every operation that changes them, and recall | `HandoffLineageProofs` |
| `DurableStore` | what the outbox promises: commits, and files that follow them | |
| `CanonicalOutbox` | how the vault keeps the promise: transactions, outbox, files, failures | `CanonicalOutboxProofs` |
| `Captures` | memories of one project: assessment, capture, proposal, review | `CapturesProofs` |
| `McpSessions` | the HTTP endpoint between its awaits | `McpSessionsProofs` |
| `ConfigTransaction` | batches of configuration writes under file locks | `ConfigTransactionProofs` |
| `AgentAdapters` | what connect, disconnect and migration write, and which states they accept | `SetupProofs` |
| `GraphPublish` | builds and publications of graph generations | `GraphPublishProofs` |
| `VaultHome` | init, setup, registration, opening and links | `SetupProofs` |
| `GraphTraversal` | the bounded walk and its authorization | `SearchProofs` |
| `ResultEnvelope` | the cutting of answers to a budget | `SearchProofs` |
| `EmbeddingIndex` | the vectors of memories | `SearchProofs` |

`MC...` modules give the constants their values for TLC. Operators named in a
comment as a mutant of another are faults that a change of the code could
introduce; no specification uses them. Each is there because some property must
reject it (`PROJECT.json`, `mutants`).

### HandoffLineage

A row of `memory_records` is a record: status, agent, branch, checkpoint and
predecessor, sensitivity, expiry, validity (its bounds and the stale flag),
sequence and the row it supersedes. `key` is what its idempotency key hashes,
which stays what it was at capture when a review moves the row. `touched` is
history, of what a correction did with the row besides repeating the one it
corrected: it moved it to another branch, revived a lapsed one, reshowed one that
was not valid, or activated one that waited. Ids are drawn in order, which loses
nothing: the code draws random ones and only compares them for equality.

| code | here |
|---|---|
| `saveHandoff`, with `evaluateHandoff`, `nextHandoffSequence`, `capture`, `propose`, `commit` | `SaveHandoff`: no live checkpoint (`SaveFirst`), continues the latest (`SaveSuccessor`), or held for review (`SaveHeld`) |
| `approve`, `revisePending`, `correct` (with `correctedHandoffFields`), `forget` | `Approve`, `RevisePending`, `Correct`, `Forget` |
| `correct` by what the replacement's key names: nothing, a checkpoint of the task, another memory | `CorrectByInsert`, `CorrectByKey`, `CorrectByOther` |
| `correct` of another task's checkpoint with a key of this one's | `CorrectElsewhere` |
| `expires_at`, `valid_from` and `valid_to` passing | `Lapse` |
| `latestHandoff` | `LatestHandoff`, a set of candidates: it is deterministic exactly when the set has one element |

A replacement is a record of what it names (`AllReplacements`; the constant
`Replacements` says which corrections are given). If it brings the key of a stored
row, `propose` returns that row as it is, and `commit` activates it if it was
proposed and takes it if it is active; lineage, quota and sequence play no part.
Keys are looked up with the agent of the corrected row.

Tenant, owner, project and task are fixed, because every query has them, except
that a correction elsewhere may name a key of this task. A rejected operation
rolls back and is no step, and neither is an exact retry, which returns the stored
row.

### CanonicalOutbox and DurableStore

The contents of a record are its revision. `rows`, `outbox` and `files` are the
table, the outbox table (0 is no row) and the directory. `pc` says where a
process is: `mutating` in a transaction, `committed` and about to look at the
outbox, `contending` for the writer lock, `flushing`, or `maintaining` in a
rebuild or an export. `writer` and `drained` are SQLite's: who is in a
transaction and which outbox rows it has deleted but not committed. `staged` and
`outcome` remember what a call wrote and how it ended.

A failure may happen at every step: the operation throws (`Rollback`), a file
cannot be written (`FailFlush`, `FailMaintenance`), `busy_timeout` passes
(`Timeout`), or the process dies (`Crash`). A crash undoes the transaction of the
process and none of its renames. `DurableStore` is the promise without outbox or
processes: a commit is visible at once, a file only ever takes the committed
revision, and in the end does. The refinement maps rows and files to themselves.

### Captures

`rec` holds the rows, `aliases` the table of extra keys, `assessed` what a
process has decided and not yet stored. `CapturePolicy.evaluate` is `Evaluate`,
a step of its own (`capture-policy.js:213` counts and `:230` looks for conflicts
outside the transaction); `capture`, `propose`, `ingestBatch`, `approve`,
`revisePending`, `correct` and `forget` are actions with the names of the
methods, `Existing` and `Alias` what `propose` does for a known key or equal
content. The disposition depends on the kind, the sensitivity, the conflicts and
the quota as in the code (`KindFirst`, `Dispositions`). `origin` is history: it
says whether content was stored by a way that looks for its equal.

### McpSessions

A step is what a call does between two awaits. `sessions`, `pending`, `inFlight`
and `endpoint` are the endpoint's fields, `pc` the await a task is at, `queue` the
rest of the list a sweep made before its first await. `Handle` starts a request,
which sweeps (`SweepOn`), reads its body or not (`UseEntry`, `UseAfterBody`) and
is served until `EndUse`; an initialization is admitted (`Admit`), awaits the hook
(`Connect`), the transport (`Answer`, `Register`) and settles (`Settle`) or aborts
(`Abort`). `Close` and `EndClose` are `close()`. Every awaited promise may settle
or fail at any time. Time is the bit per session that the sweep reads.

### ConfigTransaction

`disk` holds the contents of the files, `lock` and `depth` the file locks,
`orig`, `written` and `changed` what `applyAgentPlans` keeps of each file.

| code | here |
|---|---|
| preparation: reading, planning, snapshot | `Read`, `Snapshot` |
| `acquireFileLocks`, one lock after the other; its timeout | `Lock`, `LockTimeout` |
| `atomicWrite`, `atomicRemove`: lock, first comparison, backup; temporary file and second comparison; rename; reading back | `Open` or `ChangedSincePreflight`; `Compare`; `Replace`; `Record` |
| `verifyCommittedAgentPlans` | `Verify`, `Confirm` |
| the finalizer: setup's promotion, the global plugin | `Finalize`, `Install` |
| `restoreSnapshot` over the files, last first, and the cleanup of backups | `UndoFile`, `Restore` |
| release | `Unlock` |
| a killed process, an editor, the removal of the plugin | `Kill`, `Edit`, `Uninstall` |

Every step of an operation may also fail: `Failed` and `Abandon` are the ways
into the rollback. A failed operation asks what the file holds: its original, and
nothing needs to be done; what it was going to write, and it claims to have written
it (`Claimed`); anything else, and it reports a conflict. Three variables are
history. `racing` marks the edits that fall between a look at a file and the write
that relies on it, which nothing can notice; `replaced` are the files a batch did
replace, whatever it claims; `dropped` the backups it removed.

### AgentAdapters

A file is the user's part and the tool's: nothing, an entry with its fingerprint
(a fingerprint is the value it was taken of), an entry somebody altered, or a
user's own entry of the same name. `...Allowed` are the refusals of the prepare
functions of each client, `...Writes` the files they plan, `SharedWrites` the
policy of `AGENTS.md` that Codex and OpenCode share, and `...Verified` what status
accepts. `Batch` writes all plans; `KilledBatch` those of some clients and the first
files of one more (`FirstWrites`); `Migrate` is the migration of a project to the
global plugin. Every command is given a data home, in whose backups a first connect
keeps the originals and a disconnect looks for them (`Restorable`); `RemoveBackup`
takes one away, and `lost` remembers that. Cursor's files are of the same kinds as
Claude's.

### GraphPublish

`gens` is `graph_generations` with the rows of each, in order of insertion;
`build` is what a builder has read so far. `Start` is `readCommittedSnapshot`,
`ReadGeneration` and `ReadProjection` are `activeProjection`, `Resolve` the rest
of the build up to the comparison of HEAD, and `Publish` the transaction of
`publishGraph`; `Refuse` is `STALE_GRAPH_BUILD`. A file is a set of items, each a
kind and a name, with a `Node` each: what it declares (`declaration`, `module`),
what it merely mentions (imports, annotations: `mention`), a `dependency` of a
build file, and a `reference`, the placeholder of provenance `resolved`. `Stale`
are the files that are parsed again for their own sake (changed, removed, or with
an edge to another generation), `Affected` these and whatever calls into them, as
the least set that callers do not lead out of; the code finds it with a work list.
`ResolvedEdges` is where references and dependencies lead
(`resolveCrossFileEdges`): a reference is replaced by the first node in another
file that is no reference (`ReplacedByLocal`), or by a node of another project's
active generation, and so is a dependency if that is a module
(`ReplacedByExternal`); an edge takes one such step (`Target`), and is dropped
when that leads to a node that was itself replaced. What hides a row from a reader
(`VisibleEdges`, `ShownEvidence`, `InWindow`) is the `WHERE` of its query.

### VaultHome

`home`, `config`, `dirs`, `db`, `links` and `table` are the files of a home and
the table of links; `lock` is `withInitializationLock`. A file written by rename
is one step; `config.json` as `init` makes it is two, the empty file first. `proc`
is what each command has read and where it is. `ReadRegistry` and `WriteRegistry`
are `registerProject`, with the identifiers `opencode ensure` derives
(`DerivedId`); `MakeHome`, `FillConfig`, `MakeDirs` are `init`; `CreateDatabase`
and `OpenDatabase` the constructor of the vault; `Prepare` and the `Promote...`
steps are setup; `ReadLinks`, `WriteLinks` and `LoadLinks` are `link-project`. A
command that is killed leaves behind what it was in the middle of (`Killed`).

### GraphTraversal

A behaviour is one query over one world. Init enumerates worlds (links, edges,
what the policy hides) and requests; `Authorize` finds the scope (`Dependencies`),
`PlaceSeeds` the first candidates, `Hop` is one iteration of the loop with its
pruning (`Improves`, `BestExtensions`) and its budgets (`Spent`, `Taken`), `Finish`
cuts and picks the way to a target (`findGraphPath`). A sorted list is the set of
its members with the order it is sorted by (`Before`, which is total on what a walk
finds): `Cut` keeps those with few enough before them. The reference is `Walks`
(`WalksOf` each number of hops): all walks over what the policy shows, none
dropped, which `PathsAuthorized` and `BestPaths` compare with.

### ResultEnvelope

Sizes in bytes stand for the fields of an answer. `FitWhole` and `FitCut` are
`fitResultWithinEnvelope` and its bisection over the body's length (`Halved` is a
step of it, `Bisect` as many as any length needs), `FitAgain` the second pass with
the engine's metadata, `BeginPack`, `PackItem` and `Settle` `fitContextPack`, whose
report of its own size is part of what it measures (`Reported` is one measure,
`Measured` repeats it `Attempts` times). The engine's packs cite the retrieval in
every mode, graph-only and sufficient graph-first included, where the vault's answer
is not fitted again; the vault's own packs do not (`cited`).

### EmbeddingIndex

`List` is `pendingEmbeddingIds`, `Read` the reading of a batch's texts, `Receive`
the provider's answer in any order, sorted by its indices, `Put` one
`putEmbedding`, and `Fail` an error or a kill, which loses the rest of the pass.
`Approve` indexes its memory in the same way if the process has a provider (it is
`Configured`); `Correct` stores a memory that nobody indexes, whoever does it. The
text of an active memory never changes, so a memory stands for its text and for its
hash.

## Runs

| run | question | bounds | distinct states |
|---|---|---|---|
| `handoff_lineage` | do lineages stay linear, recall current and agents within their quota? | 3 rows, 2 agents, a branch and the null branch, 2 checkpoint ids, quota 1, 4 sequences, 5 replacements, 1 row forgotten or lapsed and 1 that a correction changed (`FewChanged`) | 1,408,020 |
| `canonical_outbox` | is anything lost, reordered or acknowledged too early, and is `DurableStore` implemented, liveness included? | 3 processes, 2 records, 2 revisions, 1 failure | 729,057 |
| `mcp_sessions` | does the map stay right at every await, and does close end? | 3 initializations, 2 requests at a time, 1 sweep of the timer, capacity 2 | 1,215,048 |
| `captures` | what do keys, contents, conflicts and quota keep when the policy decides early? | 3 rows, 2 processes, 1 agent, 1 key, 2 contents, quota 1; after a review 2 rows and one process (`Small`) | 142,231 |
| `correction` | does a correction always replace? Violated | the same | - |
| `config_transaction` | is an edit lost, a rollback incomplete, a backup removed; do batches end? | 2 batches on 2 files in opposite orders, one of them a removal; a setup and a global install; 1 edit; timeouts and kills at every step | 713,092 |
| `agent_adapters` | what is left of the tool, and of the user's text; do status and disconnect agree? | 4 groups of clients, 2 projects, 2 homes, 2 changes by the user, kills or lost backups; with a lost backup or both homes in use 1 change and 1 client (`FewChanges`) | 93,130 |
| `graph_publish` | are generations in order, complete and readable as of any time? | 2 projects that refer to each other, 2 builders, 5 files, 3 commits, 1 move of HEAD, 1 cited memory, 4 generations | 558,389 |
| `vault_home` | does a killed command leave a home that others can go on with? | 3 processes, 6 commands, 2 roots of one name, 3 identifiers, 2 links | 80,018 |
| `graph_traversal` | is every path authorized and the best one found? | 4 nodes in 3 projects, every graph over 6 edges of 2 weights, depths 1 and 3 | 129,849 |
| `result_envelope` | does every answer fit? | 4 lists of 1 to 3 items, the metadata of every mode, 6 payloads, 92 budgets | 81,401 |
| `embedding_index` | do vectors find their memories, all of them if the index is run again? | 3 processes, 2 of them with a provider, 3 memories, batches and passes of 2, 1 fault | 291,064 |

Why the bounds are enough. A lineage forks or a quota breaks through two
successors of one row: three rows, two agents and one sequence to spare for a late
approval. Two branches are needed because recall falls back from one to the other.
Replacements move a checkpoint, renew it with a validity that is to come, or bring
a key, known or not. In the outbox three processes are one that flushes, one that
commits meanwhile and one that rebuilds; two revisions make a file old, two
records make a flush stop half-way. Sessions need one entry more than places, a
request for each of two that race, and the sweep. Two captures race; a third row
is the one they conflict with. Two batches with two files in opposite orders are
the smallest that could wait in a circle. In the graph a reference moves between a
file that declares its name, one that imports it and another project, another one
between a dependency and the module it depends on, and a second generation of each
project reveals a stale reuse. Setup, init and another command on one home are
three processes. Four nodes make a longer way that is better than a shorter one,
with a cycle. Budgets are taken around the least one, and around where the digits
of the report and the fields of a pack change. The safety properties are proved
besides, so that they hold for all bounds.

Agents, checkpoint ids and processes are symmetric in runs of invariants and
action properties; runs with liveness properties use no symmetry. Runs that do
not check for deadlock model systems that may stop: ids, generations or changes
run out, every command or query ends, a vault with nothing left to index.

### Properties

- *Handoffs.* `OneHeadPerLineage`, `NoTwoSuccessors`, `SuccessionFollowsLineage`,
  `RecallIsNewest`, `QuotaHeld`. The first, the fourth and the fifth exempt what
  the code does not protect: a branch a correction was moved to or revived on, an
  agent with a revived row. Where a correction activated a waiting checkpoint by its
  key the first and the fourth claim nothing either: the finding below says why.
- *Outbox.* `OutboxIsCurrent`, `AckedIsPublished`, and the refinement
  `ImplementsStore`, safety and liveness.
- *Sessions.* `CapacityHeld`, `MapIsOpenSessions`, `ShutdownIsComplete`,
  `CloseSettles` (liveness).
- *Captures.* `NoDuplicateContent`, `OverrunIsBounded` (by one capture per other
  process: exactly what deciding early costs), `KeysAreStable`,
  `SeenConflictIsHeld`.
- *Configuration.* `NoSilentLoss`, `CleanFailure`, `BackupKept`, `NoHalfInstall`,
  `BatchEnds` (liveness).
- *Adapters.* `UserPartKept`, `ConsumersMatch`, `DisconnectLeavesNothing`,
  `VerifiedIsRemovable`.
- *Graph.* `HeadOrder`, `ReferencesResolved` (reuse changes nothing: every
  reference and dependency leads where a fresh resolution could lead it, and only a
  reference whose name a file depended on may lack its edge), `AsOfLatest`,
  `EvidenceCurrent`.
- *Home.* `TableFollowsFile`, `RegistrationsKept`, `MemoriesKept`,
  `CommittedIsUsable`, `Restartable`.
- *Retrieval.* `PathsAuthorized`, `BestPaths`.
- *Budgets.* `WithinBudget`, `ReportIsTrue`.
- *Vectors.* `FoundByItsText`, `RerunsIndexAll` (liveness, under a condition that
  operators meet).

### Findings

One is a run of its own; the others are shown by configurations beside the runs',
with bounds of their own where two batches or processes suffice.

- `CorrectionReplaces` fails (run `correction`). `correct` spreads the replacement
  into `propose` (`src/src/store.js:3131`), its `idempotency_key` included. If a
  stored memory has that key, `propose` returns that memory, even the corrected one
  itself; `commit` finds it active already; and the old memory is superseded while
  nothing replaces it. `README.md:693` says: "Create an active replacement and
  supersede the old version".
- `ActivationIsCompared` fails (`tlc -config HandoffActivation.cfg
  MCHandoffLineage`). In the same way a correction of one checkpoint may name the
  key of another that was revised and waits: it becomes active with the sequence
  of its capture, without the comparison `approve` makes. The branch may have two
  heads, and recall prefers the other. `README.md:618`: "Direct store
  commit/capture calls cannot activate a handoff without these governance checks";
  `docs/threat-model.md:25`: held checkpoints "remain held until an approval
  transaction revalidates lineage".
- `CommittedIsLeft` fails (`tlc -config ConfigRollback.cfg MCConfigTransaction`).
  Two connects of one project plan the same content. The second finds the file
  changed since its preflight, sees in it what it was going to write, takes that
  for its own (`src/src/agent-connectors.js:1981`) and restores the original,
  after the first had committed and reported it.
  `docs/build-verification-2026-09-11-v0.7.md:132`: "rollback restores only bytes
  written by the failed transaction and preserves a file changed by a concurrent
  writer".
- `BackupNeverLost` fails (`tlc -config ConfigBackup.cfg MCConfigTransaction`). A
  backup's name is made of client, base name and content. Two projects under one
  home that have a file of the same name and content share it; a batch that fails
  removes it if it made it, also when another batch found it there and committed
  (`src/src/agent-connectors.js:284`). `README.md:381`: "existing files are backed
  up privately below the vault"; a later disconnect refuses for want of it.
- `EdgesAreKept` fails (`tlc -config GraphEdges.cfg MCGraphPublish`). A document
  refers to a library; a build file of its project depends on it, and a project
  that is it has a generation. The reference is replaced by the dependency and the
  dependency by the module, and the edge follows one of the two
  (`src/src/graph/repository-graph.js:129`) and is dropped. The comment at line
  198: the caller "either resolves to the replacement or emits a safe local
  placeholder".
- `DeclaredIsFound` fails (`tlc -config GraphDeclared.cfg MCGraphPublish`). Nodes
  of imports and annotations count as declarations
  (`src/src/graph/repository-graph.js:78`), and the first in another file is
  taken. The comment at line 72: placeholders are replaced "with a concrete
  declaration from another file where one exists".
- `IndexedAutomatically` fails (`tlc -config EmbeddingAutomatic.cfg
  MCEmbeddingIndex`). Corrections over HTTP (`src/src/http-server.js:431`) and on
  the command line (`src/src/cli.js:916`) activate a memory and index none.
  `README.md:892`: "newly activated memories are indexed automatically by
  processes using the configured provider".

## Fairness

- `CanonicalOutbox!LiveSpec` is weak fairness of `Work(p)` for every process: a
  process that can go on does, and the vault stays in use. The second part is an
  assumption about users and not about the code: the outbox is published by the
  next transaction, rebuild, export or opening of the vault, as
  `README.md:958-964` describes. The actions that fail have no fairness and are
  bounded, so the property is about behaviours in which failures end. SQLite's
  busy handler polls and does not queue, so strong fairness of getting the lock
  would not be justified, and is not needed: who holds it publishes for all.
- `McpSessions!LiveSpec` is weak fairness of a request's next step (`Proceed`) and
  of `EndClose`: the promises a request awaits settle or fail in the end, as the
  transport and Node's request streams do when the server shuts down. Nothing is
  assumed of requests arriving, time passing or the timer.
- `ConfigTransaction!Spec` is weak fairness of every batch's step: the code is
  synchronous file I/O. A lock that is taken disables the step, so a wait may
  last; nothing is assumed of timeouts or kills.
- `EmbeddingIndex!Spec` is weak fairness of a worker's next step: providers answer
  or fail, and what was begun goes on. Nothing in the code runs `embeddings-index`,
  so nothing is assumed of it: that some process runs it again and again is the
  condition of `RerunsIndexAll`, and what becomes of memories without it is
  `IndexedAutomatically`, which fails. A failure is bounded like every fault.

## Proofs

TLAPS proves, for every value of the constants that satisfies their named
assumptions:

| module | theorems (and the property each states) |
|---|---|
| `HandoffLineageProofs` | `TypeCorrect` (`TypeOK`), `SingleHeadPerLineage` (`OneHeadPerLineage`), `SingleSuccession` (`NoTwoSuccessors`), `Succession` (`SuccessionFollowsLineage`), `Recall` (`RecallIsNewest`), `Quota` (`QuotaHeld`), `Lifecycle` (`NeverRevived`) |
| `CanonicalOutboxProofs` | `TypeCorrect` (`TypeOK`), `Covered` (`LagIsCovered`), `Current` (`OutboxIsCurrent`), `Acknowledged` (`AckedIsPublished`), `Maintenance` (`MaintenanceSeesCurrent`), `Monotone` (`NeverRegress`), `Refinement` (the safety part of `ImplementsStore`) |
| `McpSessionsProofs` | `TypeCorrect` (`TypeOK`), `Counting` (`InFlightIsCounted`), `Capacity` (`CapacityHeld`), `MapIsExact` (`MapIsOpenSessions`), `Shutdown` (`ShutdownIsComplete`) |
| `CapturesProofs` | `TypeCorrect` (`TypeOK`), `Lifecycles` (`NoReactivation`), `KeyStability` (`KeysAreStable`), `Contents` (`NoDuplicateContent`), `Overrun` (`OverrunIsBounded`), `SeenConflicts` (`SeenConflictIsHeld`) |
| `ConfigTransactionProofs` | `TypeCorrect` (`TypeOK`), `Exclusion` (`LocksHeld`), `NothingLost` (`NoSilentLoss`), `RollbackIsComplete` (`CleanFailure`), `InstallIsUndone` (`NoHalfInstall`), `BackupsAreKept` (`BackupKept`) |
| `GraphPublishProofs` | `TypeCorrect` (`TypeOK`), `InHeadOrder` (`HeadOrder`), `EvidenceIsCurrent` (`EvidenceCurrent`), `PastIsLatest` (`AsOfLatest`), `ReferencesAreResolved` (`ReferencesResolved`) |
| `SetupProofs` | of the home: `TypeCorrect` (`TypeOK`), `UniqueIds` (`UniqueProjects`), `Registrations` (`RegistrationsKept`), `Memories` (`MemoriesKept`), `Commit` (`CommittedIsUsable`), `LinksAreLoaded` (`TableFollowsFile`), `Restarts` (`Restartable`); of the adapters: `PolicyNamesItsClients` (`ConsumersMatch`), `NothingIsLeft` (`DisconnectLeavesNothing`), `UsersKeepTheirPart` (`UserPartKept`), `StatusAgreesWithDisconnect` (`VerifiedIsRemovable`) |
| `SearchProofs` | of the walk: `PathsAreAuthorized` (`PathsAuthorized`), `PathsAreBest` (`BestPaths`); of the budgets: `AnswersFit` (`WithinBudget`), `PacksReport` (`ReportIsTrue`); of the vectors: `IndexIsTyped` (`TypeOK`), `OwnText` (`FoundByItsText`) |

Most modules have a theorem `Invariance` besides: that a strengthening `IInv` is
inductive. So are `AdaptersInv` (`AdaptersInvariance`), `WalkInv`
(`WalkInvariance`), `FitInv` (`FitInvariance`), `IndexInv` (`IndexInvariance`)
and, beside the other invariant of the graph, `RInv` (`Resolution`). The
properties in parentheses that are not checked by a run are the type invariants
and `LagIsCovered`, `MaintenanceSeesCurrent`, `NeverRegress`, `InFlightIsCounted`,
`NoReactivation`, `NeverRevived`, `LocksHeld` and `UniqueProjects`: proved, they
hold of the instances too.

*The lineage.* `OneHeadPerLineage` is not inductive: that a new successor is the
only head needs that the row it supersedes was, and that a late approval is the
newest needs that no row has a sequence above the counter. `IInv` adds that ids
not drawn are empty, that rows waiting for review replace nothing, lapse never and
are always valid (`WaitingIsPlain`), that what is valid only later is marked as a
correction's doing (`LaterIsTouched`), that no sequence is ahead of the counter, and
`HeadIsNewest`: on a branch where corrections only repeated what they corrected a
live row is newer than every other that was live when it was replaced, and the only
one. The proof first shows that a step publishes one row with the next sequence,
amends one row in place, or, for a correction by a known key, settles the rows there
are (`Settles`): each is kept, marked superseded, or activated and marked as such.
Each part of `IInv` is then preserved by each kind. The quota is a count of a set
before and after.

*The outbox.* `IInv` says of the writer what no property does: rows it has
drained are already in files (`DrainedIsWritten`), and what it has staged is the
next revision of each record (`StagedIsNext`); and of an earlier call, that what
it committed is still covered (`CommittedIsStored`).

*The sessions.* `IInv` says what a call relies on across its awaits: an
initialization alone owns its pending entry and knows its transport, everybody
else only touches entries whose session was given out, and what close found
pending is not open any more.

*The captures.* Rows are inserted and then kept: agent, key, kind and subject
never change, and a row never comes back. What the properties add depends on what
an insertion has looked for. The quota and the conflicts depend on what
assessments under way have still in hand: `IInv` counts these with the rows
stored, and says that they contradict nothing they saw.

*The batches.* `IInv` is about the locks alone: a batch at work holds those of
all of its files, once, or twice inside an operation on one file, although every
operation takes and releases its own. From this follows (`EachAlone`) that a step
changes nothing on which another batch depends, so each further property needs
only what one batch knows of itself, in stages: what it is about to overwrite
(`Sure`), which of its files it has changed and already put back (`Tidy`), and
whether its plugin goes with it (`Installing`). `Sure` also says where
a rollback may write: over what the batch replaced itself (`replaced`), or over
what is byte for byte what it was going to write, which is all that `Claimed` asks.
Backups are the exception to the locks, because they belong to no file: `BackedUp`
says that what a batch relies on is there and claimed by nobody at work, unless a
batch that changes another file of the same backup name has it, or removed it
(`dropped`). No assumption on the names is needed.

*The graph.* For the order of generations nodes and edges play no part. `IInv`
says that every generation has an active one of its project that is not before it;
so the comparison with the generation read means that none was published since,
and all up to that one were published before HEAD was last seen to be the build's
commit. For readers of the past it adds that a window ends where that of a later
commit begins (`Windows`), and that of the generations of commits made by any time
one is the newest (`HasNewest`), an instance of a maximum that is inductive along
behaviours.

*The references.* `RInv` says of every generation that it is `Sound`: its nodes are
those of the files of its commit, but for what was replaced (`NodesResolved`), and
every reference and dependency of a file has one edge, which leads where a build that
reused nothing could have led it (`Leads`); a reference may lack it only if, at one of
the commits built so far, another file depended on its name (`MayLackEdge`, over
`CommitsUpTo`). What a build has read is that of its prior generation for as long as
this stays active (`ReadsOK`); afterwards it may be anything, because `Publish` then
refuses. The step that matters is `Resolve`: a file that is not parsed again is
unchanged since the prior commit and has no edge to another generation, and the
files its edges lead to are not parsed again either, because `Affected` is closed
under callers. So every edge gathered is one that can still be resolved (`Open`):
moved once, it stays in its generation (`Stays`), leaves for another project's
(`Leaves`) or is lost (`Lost`), the last only where a file depends on its name.

*The home.* `HeldOK` says what of the things a holder of the initialization lock
has read is still so. Only the holder changes the home, the config and the
directories, so a step of one process can disturb nobody else's part. `Left` says
what a kill explains: a cut-off config or a database without tables is either in
somebody's hands or what a killed process left.

*The adapters.* `AdaptersInv` says of each file what it can hold and what its
fingerprint records: the user's part as it was before the tool came, which either
still is there or is in a backup of one home, unless that was removed
(`Recorded`). It says that as long as no batch was killed and the user altered
nothing of the tool's, the files of a client hold together: all of the tool's
part, an entry alone, or nothing (`Whole`). The remaining parts are
`ConsumersMatch` and `DisconnectLeavesNothing` themselves. A step is shown for
each client on its own, for a connect or disconnect written in part or in full,
with the lemma that what one client writes is no other's file but for the shared
policy. That status and disconnect agree then is a matter of one state: what
`Verified` demands of a client's files is, by `Recorded`, what `Allowed` demands
for a disconnect, with the home that has the originals.

*The walk.* `WalkInv` says that the scope is what is reached over links among
allowed projects; that what was found are walks, and the visited scores theirs
(`AreWalks`); and that, as long as no budget is spent, every walk of so many hops
ends at a visited node with at least its score (`NoneDropped`), because each
visited node is either in the frontier or `Settled`: extending it improves nothing.
Dropping a way that is worse so far is right because a hop never makes of a lower
score a higher one, and a later hop decays more than an earlier. Both facts are by
cases over the three hops there can be.

*The budgets.* `FitInv` says that the answer of a search fits at every step: an item
is placed only as it was measured, and no item with the least summary fits by
`MetasAssumption`. A pack either fits with the placeholders of its report, which
are as wide as any numbers that fit, or has no item and every trim behind it, and
then the last drops leave less than the least budget. What remains is that the
report is true, a fixed point: with fixed fields a size grows with the number
reported and differs by at most one over the numbers that may come up, so from the
third measure on it stays what it is, and `Attempts` are enough.

*The vectors.* The invariant follows a vector through the worker that carries it:
texts and vectors are a prefix of the identifiers listed.

Induction over data. A theorem with an operator as a parameter cannot be
instantiated by the provers here, so the usual rules are proved again for a set or
a function in place of the operator: from the well-foundedness of a finite set's
subsets that it has a minimal element and that a set of numbers with zero and its
successors is all of them, and from that what a function defined by recursion over
`0 .. n` is at each place. The sums of sizes, the walks of a number of hops, the
projects within a reach and the sorted cuts rest on these.

Assumptions on constants that the code justifies and a reader should know of:
`MetasAssumption` of `ResultEnvelope` says that the fixed fields of a retrieval fit
the least budget the public API accepts, which the code relies on and nothing in it
ensures for other sizes of those fields. `RequestsAssumption` of `GraphTraversal`
bounds the depth by three, which `normalizeGraphBudgets` refuses to exceed. In the
definitions of `ResultEnvelope` sizes have at most nine digits and strings fewer
than 2^30 units, a length that no string of the runtime reaches.

Only model-checked: the four liveness properties, which are `ImplementsStore` beyond
its safety part, `CloseSettles`, `BatchEnds` and `RerunsIndexAll`. Fairness and
`ENABLED` are out of the prover's reach.

## Limitations

What a reader should know of the code and that no property above excludes:

- What the findings say; `OneHeadPerLineage`, `RecallIsNewest`, `NoSilentLoss`,
  `BackupKept`, `ReferencesResolved` and `RerunsIndexAll` except just these cases,
  and the first two the moved and revived checkpoints besides.
- The originals of an adapter are only in the home of its first connect. Another
  connect with another home does not bring them there, status does not look for
  them, and a disconnect with that home refuses.
- A batch that is killed leaves files some of which are the tool's; connects of
  some clients then refuse them until they are removed by hand.
- An edit between the reading of a file and its snapshot is overwritten by what
  was computed from the older text; the backup has it.
- A rollback does not take setup's promotion of a home back.
- Two projects whose references lead to each other hide each other's edges at
  every rebuild, until the other is rebuilt too. An incremental build keeps an edge
  to a declarer found earlier when a new file also declares the name.
  Any node of another project counts as a target, a placeholder too.
- A `config.json` that a killed `init` cut off is refused by every command and
  repaired by none. A blank database refuses setup until a vault was opened.
- Two `link-project` processes at once lose one of the links.
- A query reads the graph in several statements; a publication in between can
  show it a generation without its nodes.
- The promise of a local model whose loading failed stays cached in its process
  (`src/src/local-embeddings.js:314`). A text that a provider always refuses blocks
  the batch it is in, and what is listed behind it.
- `fitContextPack` never pops a memory: under `MetasAssumption` one is only placed
  where the pack still fits with the widest numbers, so the loop that pops has
  nothing to do.
- Cutting a body may split a surrogate pair, and may lose up to one pair more than
  needed.

Abstractions of the models: scores of the walk are in sixteenths, with a decay of
one half for 0.82, and a lexical seed's score is the inverse of its rank; a hidden
identifier hides the node and the edge of that number; the retrieval is one
snapshot; expiry of graph rows, owners and sensitivities are left out.

## Not modelled

- Losses of data the operating system had accepted (`synchronous = NORMAL`, files
  written without `fsync`): the code promises nothing there.
- Validity intervals and the stale flag of ordinary memories (checkpoints have
  them), global memories, the text
  checks that reject a capture, and feedback: each is a filter over one row, or a
  statement of its own.
- The audit chain: appended in the transaction it records, which `CanonicalOutbox`
  shows to be committed as one; verification is a pure function of the entries.
- Rank fusion and scoring of searches: floating-point arithmetic over a snapshot
  whose result is an order.
- Extractors and ingest: parsing of source text.
- The local model, its download and tokenizer, and the rate limits, a bucket per
  client of one process.
- HTTP, MCP tools, hooks, plugins and the command line: they validate and
  translate to operations the modules take with all inputs.
- File modes, symbolic links and the identity of directories in configuration
  writes: checks that refuse, before any step modelled here.
