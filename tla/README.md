# TLA+ verification of CCOS Research Lab

This directory holds TLA+ models of the stateful core of CCOS (the Rust crate in
`src/src/`), of its Forge engine and of its license counter, the TLC configurations that check them, and proofs of their main
properties for the TLA+ proof system (TLAPS). `PROJECT.json` is the index: every
definition that models code, with its file and lines; every run; for every
property a faulty variant of the code that it catches; every hazard; every
theorem.

    tlc -workers 2 -config HuskStore.cfg MCHuskStore     # model-check one run
    tlapm HuskStoreProofs.tla                            # check one proof module

Paths in this file are relative to `src/` (so `src/memory.rs` is the file
`src/src/memory.rs` of the tree); `evolve.rs`, `cache.rs`, `registry.rs` and
`domain.rs` are those of `crates/forge/forge-core/src/`.

## 1. The system

CCOS keeps a causal graph of a code base (files, functions, calls, failures) as
the external memory of a coding agent. An agent reaches it through an MCP server
or the `ccos` command line.

    MCP server / CLI        src/mcp.rs, src/main.rs
        |
    AgentSession            src/agent_session.rs   event-sourced session, timeline, sync
        |
    CcosMemory              src/external_memory.rs facade: ingest, resolve, recall, checkpoint
        |
    MemoryGraph             src/memory.rs          nodes, links, paging, the COLD tier
        |          \
    ColdSpill    HuskStore  src/cold_index.rs      blobs by hash; log-structured key store
        \          /
    write_durable           src/util.rs            atomic replacement of a file

    WorkspaceScanner        src/workspace.rs       reads a source tree, finds what changed
        |
    IncrementalGraphEngine  src/incremental.rs     applies it to a MemoryGraph, with the parser

    Forge Engine            evolve.rs              campaigns: evaluate, archive, checkpoint, breed
        |          \
    WorkerPool     EvaluationCache, Registry       shared by the evaluating threads

    ccos-license-server     tools/                 a daemon and an admin command over one vault

| Component | State it keeps | Operations | What makes it correct |
|---|---|---|---|
| Durable file (`write_durable`) | a path, its temporary sibling, the directory | one call: mkdir, create, write, fsync, rename, fsync of the directory | the path never names half a write; an acknowledged write is not undone |
| Husk store (`HuskStore`) | memtable, numbered segment files, row cache | put, delete, get, scan, flush, compact, open | it is one map, whatever was flushed, cached, compacted or crashed |
| Graph tiers (`MemoryGraph`) | resident nodes and links, COLD map, husk index, reverse index, blobs, snapshot | upsert, add_edge, remove, page_in, budgets, two checkpoints, reopen | no content is lost, leaked or duplicated between tiers; the index agrees with a scan |
| Facade (`CcosMemory`) | the graph, the source of each file, unresolved call sites | ingest (eager, deferred, batch), resolve, signal_failure, to_json / from_json | the graph is a function of the ingests, in whatever batches they come |
| Agent session (`AgentSession`) | live memory, op-log, hash chain, baseline; files `<ws>` and `<ws>.oplog` | open, each recorded operation, checkpoint, compact, verify, replay | the chain always verifies, history on disk only grows, replay equals live |
| Multi-agent sync | per workspace: own timeline, imported logs, pinned keys, key file | export, import, keygen, merged_view | imported logs are what their agents recorded; a pin never moves; views converge |
| Graph links and their index (`edge_set`) | a list of links, a set | add_edge, demote, page_in, remove_node | the set is the list whenever it is trusted |
| Workspace scanner and incremental engine | last scan, file states | sync: read, diff, evict, ingest | after a sync the graph is the one a rebuild would give |
| Forge worker pool | load and health per worker (relaxed atomics), cache, registry | lease, release, mark_failed, retry, fallback | loads tell leases; every candidate gets its verdict, once, on its own content; with a cache, records are stable |
| Forge engine | generation, population, elite archive, learning curve, checkpoint | run, commit, load, resume | elites survive crashes, the archive is ranked, the curve has an entry per generation, the next generation recorded is no step back, what is committed can be loaded |
| License counter | a vault of codes: file, daemon's copy, command's copy | claim, new, revoke, re-arm | one license per arming, none the vault does not know, a revoked code is refused |
| Runtime state | three files, two event logs | save_state, restore_runtime | not modelled (section 5) |
| Scoring, retrieval, compression, guards, analysis, sibling crates | none, or their own | pure functions or separate programs | see `components` in `PROJECT.json`, one entry each with the reason |

How they interact: a session calls the facade synchronously and appends the
operation to its op-log first. `AgentSession::checkpoint` compacts the op-log,
writes the snapshot, then the sidecar, each through `write_durable`. Paging in
`MemoryGraph` is synchronous and happens inside the operation that exceeded the
cap; it writes blobs with plain `fs::write` and puts husks in a `HuskStore`. A
`HuskStore` writes segments with `write_durable`. Agents exchange bundle files by
any medium; nothing locks a workspace, so an MCP server and a CLI command may
hold copies of the same sidecar. The rayon threads of a Forge evaluation share the
pool's atomics, the cache and the registry, and nothing else; the engine above them is
sequential, and its checkpoint is one atomic file. The license daemon and the vendor's
command line each load the vault whole and write it back whole.

What is hard here, outside the worker pool, is not parallelism inside a data structure,
which the borrow checker mostly rules out, but *what is on disk when a process stops*, *which of
several copies is right*, and *long sequences of legal calls*. `hazards` in
`PROJECT.json` lists each case at its line.

## 2. Modules

| Module | Models | Extends / uses |
|---|---|---|
| `AtomicFile` | abstract: a file that is replaced whole | |
| `DurableFile` | `write_durable`, by system call | implements `AtomicFile` |
| `StoreMap` | abstract: a map with a durable copy | |
| `HuskStore` | `HuskStore` | implements `StoreMap` |
| `ColdTier` | tiers of `MemoryGraph`, checkpoint, reopen | assumes `StoreMap`'s behaviour of its two indices |
| `CausalMemory` | the facade, as pure operators on memory values | |
| `HashChain` | `op_link_hash` and chain verification, ideal hash | |
| `Timeline` | `AgentSession` on its two files | `CausalMemory`, `HashChain` |
| `SyncFederation` | bundles, pins, two processes per workspace | `HashChain` |
| `GraphIndex` | the list of links of `MemoryGraph` and its duplicate check, as operators | |
| `Workspace` | `WorkspaceScanner::sync` over `IncrementalGraphEngine` | `GraphIndex` |
| `Evaluation` | abstract: every candidate gets its verdict | |
| `WorkerPool` | `evaluate_distributed_dynamic`, the pool, cache and registry | implements `Evaluation` |
| `ParetoArchive` | the order of the elite archive, as operators | |
| `ForgeEngine` | `Engine::run`, checkpoint and resume | `ParetoArchive`; a generation's evaluation is one step, as `Evaluation` promises |
| `ClaimCounter` | the license daemon and the admin command on one vault | |
| `MC*` | constants of the TLC instances | |
| `DurableVaultProofs` | theorems about a durable file and about the vault that is saved as one | `DurableFile`, `ClaimCounter` |
| other `*Proofs` | theorems | the component's module |

Layering: `DurableFile` shows that a call of `write_durable` behaves as one
atomic replacement, which is why the other modules take a file write for one
step. `HuskStore` shows that the store is a map with a durable copy, which is how
`ColdTier` takes its husk index and reverse index. `Timeline` has the two writes
of a checkpoint as two steps; `SyncFederation`, which is about several
workspaces, has them as one.

### DurableFile (src/util.rs, `write_durable`)

One action per system call: `MakeDir` (`create_dir_all`), `Create` and
`CreateRefused` (`create_new` on `<name>.tmp.<pid>`), `WritePart` / `WriteAll`
(`write_all` may issue several writes), `SyncAll`, `Rename`, `SyncDir` /
`DirNotSynced` (the fsync of the directory is best effort; the call returns Ok
either way). `Fails` is an error of any call before that. `entry` is what the
path names now; `old` is the set of files the directory entry may name after a
power loss; a file has an extent and a synced bit, and an unsynced one comes back
empty, cut or whole (`Remains`). `Die` ends the calls of a process, whose id a
later process may get. `dir = "made"` is a directory that nothing has made
durable; `DirectoryLoss` takes it away. `mark`, `renames` and `floor` are history.

### HuskStore (src/cold_index.rs)

`buffer`, `segments`, `nextSeq` and `cache` are the fields of the struct; `files`
is the directory. A put or delete that fills the memtable flushes it in the same
step (`Write`), and the flush may fail before or after the file is written
(`FlushFailed`). `compact` is `Compact` (merge, write, open, swap) followed by one
`RemoveOld` per merged-away file, because a crash may fall between two removals;
while `doomed` is not empty only `RemoveOld` and `CrashReopen` may happen (the
store has one owner, `&mut self`). `CompactUnopened` is the error path after the
merged file is written. The segment layout (sparse index, prefixes, binary
search) is abstracted to the map of the keys a segment holds.

### ColdTier (src/memory.rs, src/external_memory.rs)

`g` is the graph as the process sees it: `nodes`, `edges`, `cold`, `cap`, its view
of the husk index and the reverse index, and the blob files, whole (`blobs`) or
cut short (`torn`). `husksDisk`, `radjDisk` and `snapshot` are what a new process
finds. The operators carry the names of what they model: `Forgotten`
(`forget_cold_shadow`), `Demoted` (`demote`), `Compacted`, `SpilledOut` and
`DeepSpilled` (the three budget passes, in the order `Budgeted` composes them),
`HuskRestored` / `ContentRestored` / `Linked` (the steps of `page_in`), `Released`
(reference-checked deletion of a blob). An action is the whole call: `UpsertNode`
forgets the cold shadow, inserts, and pages; `PageIn` restores, links, pages and
applies the budgets. Which nodes are coldest and which entries a budget moves are
nondeterministic, so the results hold for every scoring policy.

### CausalMemory, HashChain, Timeline (src/agent_session.rs, src/external_memory.rs)

A memory is a record of sources, call sites known (`pending`, the runtime-only
`pending_calls`), resolved call edges and failure pressure. `Snapshot` is the
serialisation round trip: it drops `pending`. `Replay` is `replay_to`'s loop:
deferred ingests, resolved before an operation that reads edges. A hash link is
the list of everything it commits to (an injective hash).

`Timeline` has the process (`phase`, `live`, `tl`) and the two files. `open` is
four actions, one per outcome: `OpenWithoutTimeline`, `OpenWithTimeline`,
`OpenHealing`, `OpenRefused`. The checkpoint is `WriteSnapshot` (with
`compact_if_needed`) and `WriteSidecar`, either of which may fail, with `Crash`
possible at any point. `OutsideIngest` is `ccos memory`, which moves the snapshot
and not the timeline; `Damage` changes the sidecar on disk. Initial states
include workspaces left by `ccos memory` and sidecars from before the chain.

### SyncFederation (src/agent_session.rs, src/main.rs, src/mcp.rs)

Per workspace: the sidecar (`disk`), the copy an MCP server holds (`server`), the
copy a running `ccos sync` holds (`cli`), the key file. `Verdict` is the first check
of `import_bundle` that fails. `Export` and `Import` end with the CLI's
checkpoint. `wire` is the set of bundles; since a bundle stays there, it may be
delivered never, late, twice or out of order. `Mangle` changes an operation, drops
one, or changes the start. `Restarted` is what `open` does to a timeline that no
longer reproduces its snapshot (`GoStale`).

### GraphIndex and Workspace (src/memory.rs, src/workspace.rs, src/incremental.rs, src/parser.rs)

`GraphIndex` has the graph as the link list sees it: resident nodes, the bag `edges`,
the set `index` (`edge_set`), the links archived with each demoted node, and the cap.
`Index` is the rebuild: when the lengths differ the set is made from the list, else it
is trusted. `Workspace` runs `sync`: `BeginSync`, one `Read` (or `ReadFails`) per file
while `Edit` changes the others, `Apply` (the difference), then one action per call on
the graph (`UpsertCall`, `LinkCall`, `EvictCall`, `StoreCall`), and `EndSync`. A
version of a file is a value with given symbols and imports; `OwnNodes` and `OwnLinks`
are what a rebuild would give it.

### WorkerPool and Evaluation (evolve.rs, cache.rs, registry.rs)

Each seat of the population is a closure of `par_iter` with its program counter; at
most `Threads` of them are past `waiting`. Every atomic access is a step: `lease`
reads `failed` and the load of each slot (`ReadFailed`, `ReadLoad`) and then adds to
the best (`Lease`), `release` subtracts (`Release`) and, when it went below zero, stores
zero (`Repair`), `mark_failed` is two stores (`MarkFailed`, `ZeroLoad`). Counters wrap
at `UsizeMax`. `Call` is a worker's answer or an error. The cache insert and the
registry commit of a valid answer are two steps (`Valid`, `Commit`); a commit may fail.

`cached` is the `Option` of the cache, fixed when the engine is made: `Engine::new` and
`resume_from_state` have none, `with_cache` sets one. (No program of the repository calls
`with_cache` or `with_registry`; they are the library's interface, and `forge-cli resume`
reads what a caller of them left.) Without it nothing is looked up or inserted, and a content that
comes back is measured and committed again. The registry is an option too; that it is
absent, or refuses, is the `Commit` that drops the record. The record's key is the
`candidate_id` of the reply, which a worker echoes (`forge-worker`, `main.rs` 236-242),
so the model uses the candidate of the thread.

### ForgeEngine and ParetoArchive (evolve.rs, domain.rs)

`phase` says where `run` is. `Evaluate` gives every candidate any verdict and forms the
archive with the code's own order: `Archived` appends, keeps the first of each id,
sorts by front and crowding distance (`ParetoSorted`, the algorithm of
`sort_by_pareto_domination` with its stable sorts) and truncates. A sort is `InOrder`: the
k-th of a set in a total order is the one with k - 1 before it, which is what a sort
returns and what can be proved about. `Commit` writes the
checkpoint with the population just evaluated; `Crash` may fall anywhere. The next process
finds the checkpoint and loads it (`Resume`), finds one that does not load (`LoadFails`),
or finds none and begins anew (`Restart`). The learning curve keeps of each generation
whether its entry is a number or the infinity that stands for "no valid candidate"; the
latter is written as `null` and does not load (`Loadable`). Nothing in the repository calls
`resume_from_state` after a death, and `forge-cli resume` only shows what is there; so the
three are what a caller may do, not what happens by itself, and no fairness is assumed.
`resume_from_state` also drops the diagnostics of failures, which nothing here reads; that
a float may come back from its text one unit off is abstracted, as objectives are small
numbers here.

### ClaimCounter (tools/ccos-license-server)

`step`, `vault`, `before` and `request` are the daemon's: `FirstClaim` / `Reissue` flip
its copy, `Save` writes it, `SaveFails` rolls it back, `Disclose` signs and sends, and
the reply may be lost. `admin` is a running command with the vault it loaded, one at a
time. `Revoke` and `Rearm` load the vault and print what they did (`announced`);
`AdminSaves` writes it, or `AdminFails` does not, after the fact. `sealed` is the history of
revocations that reached the file while no daemon served it. A command may load and save while the daemon
is up, which the runbook (`docs/LICENSING_SERVER.md` 67-93) has the vendor do; `together` is
the history of whether that ever happened. Its `CCInit`,
`CCNext`, `CCSpec`, `CCvars` and `CCTypeOK` carry a prefix because `DurableVaultProofs`
extends this module and `DurableFile` together.

## 3. Runs

| Run | Instance | Checks | Shows | Distinct states |
|---|---|---|---|---|
| `durable_file` | `DurableFile.cfg` | `TypeOK`, `AckedSurvives`, `ImplementsAtomicFile` | Three calls of two processes write one file while system calls fail, processes die and power is lost: the path is never half-written, nothing older than an acknowledged write comes back, and the calls implement an atomic file. | 847,289 |
| `husk_store` | `HuskStore.cfg` | `TypeOK`, `StoreCoherent`, `RemovalIsInvisible`, `CompactionReclaims`, `ImplementsMap` | The layered store (memtable, segments, cache, compaction, crashes at every file operation) implements a plain durable map. | 44,310 |
| `cold_tier` | `ColdTier.cfg` | `TypeOK`, `LosslessRoundTrip`, `NoLeakedBlobs`, `NeighboursExact`, `ResidentLinksSurvive` | Three nodes with two links and two texts move through the tiers in every order: nothing is lost or leaked, the reverse index is exact, and paging in keeps the links to resident nodes. | 43,426 |
| `cold_crash` | `ColdCrash.cfg` | `Recoverable` | With checkpoints, crashes, torn blob writes and compaction: a crash right after checkpoint_to loses nothing, and whatever was lost or cut short, a restore is never something that was not ingested. | 429,975 |
| `timeline_safe` | `Timeline.cfg` | `TypeOK`, `ChainsVerify`, `HeadCommitsToHistory`, `ReplayIsLiveInOneProcess`, `CheckpointKeepsHead`, `DurableHistoryOnlyGrows` | The hash-chained timeline and its sidecar survive crashes between the two checkpoint writes, failed writes, compactions, legacy sidecars, out-of-band snapshots and damaged files; and within one process replay == live for every sequence of four operations over three files, eager live resolution against deferred replay resolution. | 148,125 |
| `timeline_reopened` | `TimelineReopened.cfg` | `RecordKeepsReplayLive` | After a reopen the live memory has lost its unresolved call sites while the replay rebuilds them: the next ingest breaks replay == live. | violation |
| `sync_federation` | `SyncFederation.cfg` | `TypeOK`, `ForeignLogsAuthentic`, `OnlyRestartsDiverge`, `ViewsConverge`, `KnowledgeOnlyGrows` | Bundles damaged, lost, duplicated, reordered, and exported before and after a restart of the exporter's timeline, with keys generated and rotated in between: what is imported is what its agent recorded, it only grows, a pin never changes and a pinned log grows only by what its key signed, and only a restarted or re-keyed agent is taken for an equivocator. | 1,392,730 |
| `workspace` | `Workspace.cfg` | `TypeOK`, `GraphFollowsFiles`, `IndexMirrors` | Two files are edited, removed and misread while the scanner reads them, and the difference is applied call by call under a cap that pages and one that does not: after a sync the graph is the one a rebuild would give, and the index of the links is never stale before a page-in from outside. | 7,378,039 |
| `worker_pool` | `WorkerPool.cfg` | `TypeOK`, `LoadsTellLeases`, `LineageStable`, `ImplementsEvaluation` | Two threads evaluate three candidates on two workers over two generations, with a cache and without, every atomic a step: loads tell leases, an engine with a cache never replaces a registry record by a later generation's, and under weak fairness of the threads every candidate gets one verdict that the abstract evaluation allows, whatever workers err, are marked or wrap their loads. | 1,106,855 |
| `forge_engine` | `ForgeEngine.cfg` | `TypeOK`, `ElitesAreReevaluated`, `ArchiveRanked`, `CurveIsPerGeneration`, `CheckpointNeverRegresses` | Campaigns of three generations with failed commits, two deaths of the process at any point and resumes from a checkpoint that may refuse to load: elites stay in the population, the archive is ranked and free of duplicates, the learning curve has an entry per generation, and the checkpoint of the generation after one is no step back from it. | 887,299 |
| `claim_counter` | `ClaimCounter.cfg` | `CCTypeOK`, `TokensMatchLedger`, `SealedIsRefused` | Two codes, one of them perpetual, are created, claimed by two machines, re-issued, revoked and re-armed, with the daemon down or beside it, while saves fail, replies are lost and the daemon dies: a code revoked in the file while nobody served it is refused by every later daemon, whatever the two save over each other, and a vendor who stops the daemon for every command has one license per arming and none that the vault does not know. | 2,985,519 |
| `claim_announced` | `ClaimAnnounced.cfg` | `AnnouncedIsRefused` | Beside a running daemon, `revoke` says that the counter now refuses the code and saves it; the daemon, which loaded the vault when it started, accepts the next claim. | violation |

Deadlock checking is off in every run: the processes are event-driven, may stop
at any time, and the bounds below end every behaviour.

Each `violation` run shows a statement of the repository that the code does not keep:

* `timeline_reopened`: `src/memory.rs:516-519` says the runtime-only call sites are rebuilt
  by a replay, "so `replay == live` holds". A *reopened* session has lost them while its
  replay has them; the next ingest makes the two graphs differ.
* `claim_announced`: `ccos-license-admin revoke` prints "the counter now refuses this code"
  (`ccos-license-admin.rs:299`). A daemon beside it goes on with the vault it loaded when it
  started. (The sentence is also printed before the save, which may fail: section 5.)

The other statements that the code does not keep are in section 5, each with the instance
that shows it.

### Bounds, and why they are enough

* `DurableFile`: three calls, two of one process (threads, or a reused pid) and
  one of another, two contents, two renames. Every pair of calls can overlap on
  the sibling and on the path; two renames suffice for "an older rename comes
  back". The theorems have no bound on calls, processes or contents.
* `HuskStore`: two keys, two values, a memtable of two, a cache of one, three
  segment numbers: enough for a merge of two segments whose output is a third,
  with a tombstone in one over a value in the other, a cache eviction, and a
  file that was written but never opened.
* `ColdTier`: three nodes on a path of two links, caps one and two, two texts
  (shared blobs need two nodes with one text): every demotion order, page-ins at
  capacity, a link whose ends are in different tiers. `cold_crash` has two nodes,
  one text and no links, with one crash or torn write and one checkpoint, since
  those properties are about contents.
* `Timeline`: `timeline_safe` is two instances in one, chosen between by the constraint
  `OneOrTwoSessions`. The histories of one session before its first checkpoint have three
  files, a caller and a definer version (one name: unique, ambiguous or missing) and four
  operations: the shortest history in which a name becomes ambiguous and unique again with
  pressure in between takes four. The histories of two sessions, with all that happens to
  their files, have an op-log limit of one and three logical steps, so that a compacted and
  reopened timeline is compacted again (two steps when one of them is a failure, which is
  enough to compact it into the baseline and reopen it); no page faults; two files of one version, because the chain does not
  look into operations.
* `SyncFederation`: two agents with signatures, of which one also has a server process,
  two logical steps, two bundles on the wire (one overlapping or contradicting the
  other), an op-log limit of one (so that bundles are of compacted timelines too) and up
  to two key generations. All operations have one value, so that one operation cannot be
  put in the place of another here; that is left to `ForeignLogsAlwaysAuthentic`, which
  holds for any set of values. A third agent adds only an independent log: logs are kept per
  author.
* `Workspace`: two files, two versions (another symbol, and an import that both share),
  a cap that pages at every call and one that never does, two edits or failed reads and
  one page-in: an edit before and one after the file was read, a file that goes and
  comes back, a shared dependency that both files link to.
* `WorkerPool`: three candidates of two contents on two workers and two threads, two
  generations, with and without a cache. Two threads on one content, two in `lease` on one
  worker, one marking the worker the other holds, counters that wrap, and a cache that
  outlives the generation all occur. Without a cache no content is told from another, so
  that one is enough (`OneContentUncached`). The safety theorems have no bound.
* `ForgeEngine`: three contents, four pairs of objectives (two that do not compare, one
  that dominates them and one that they dominate), a population of three, two survivors,
  three generations, two deaths. Truncation cuts both a front and a whole front.
  `CheckpointNeverRegresses` compares a checkpoint with that of the generation before.
  Of checkpoints further apart it would be false, which three generations cannot show and
  the attempt to prove it did. With two survivors, let [(1,4), (2,2)] be on disk and let
  the next two commits be lost: another (1,4) and two of (3,1) crowd (2,2) out of the
  archive, (1,3) and (3,2) replace what is left, and (0,3) then makes it
  [(3,2), (0,3)], whose first the (2,2) on disk dominates.
* `ClaimCounter`: two codes (one of a day, one perpetual), two machines, three days, one
  re-arming, three faults. Histories in which a command works beside the daemon
  (`FewerTogether`) have no passing of days, which no claim's refusal depends on, and one
  fault. The theorems have no bound.

Symmetry is declared over values that no property or initial state distinguishes
(contents, keys, operations, files, texts).

### Fairness

One specification promises something eventually, and only it states fairness, weak:

* `WorkerPool`: `WF(Step(s))` for every seat and `WF(NextGeneration)`. A rayon thread
  that has work runs it, and no step of the loop waits for another thread; the one that
  waits for the outside, `Call`, ends because `dispatch_evaluation_to_worker` sets
  connect, read and write timeouts. That a worker ever answers is not assumed. With it
  `ImplementsEvaluation` includes the liveness of `Evaluation`: every candidate gets a
  verdict.

The other components promise nothing eventually: a checkpoint is taken when somebody
asks, a bundle arrives or not, a crashed process may never return. In particular nobody is
said to resume a Forge campaign.

## 4. Theorems

Each holds for every value of the constants (the bounds included) that satisfies
the `ASSUME` of the module. That of `Workspace` has the files of a directory, and the symbols
and imports of one file, finite: a scan is a list and a parse result is one.

| Theorem | Statement | Under |
|---|---|---|
| `DurableVaultProofs!PathNeverHalfWritten` | `Spec => [](TypeOK /\ NeverHalfWritten)` | |
| `DurableVaultProofs!AckedAlwaysSurvives` | `Spec => []AckedSurvives` | |
| `DurableVaultProofs!WriteDurableIsAtomic` | `Spec => ImplementsAtomicFile` | |
| `HuskStoreProofs!StoreAlwaysTyped` | `Spec => []TypeOK` | files can be removed |
| `HuskStoreProofs!StoreAlwaysCoherent` | `Spec => []StoreCoherent` | files can be removed |
| `HuskStoreProofs!RemovalNeverResurrects` | `Spec => RemovalIsInvisible` | files can be removed |
| `HuskStoreProofs!StoreImplementsMap` | `Spec => ImplementsMap` | files can be removed |
| `HuskStoreProofs!CompactionAlwaysReclaims` | `Spec => CompactionReclaims` | files can be removed |
| `ColdTierProofs!AlwaysTyped` | `Spec => []TypeOK` | |
| `ColdTierProofs!LosslessAlways` | `Spec => []LosslessRoundTrip` | |
| `ColdTierProofs!BlobsNeverLeak` | `Spec => []NoLeakedBlobs` | |
| `ColdTierProofs!AlwaysOneTier` | `Spec => []OneTier` | |
| `ColdTierProofs!AlwaysRecoverable` | `Spec => []Recoverable` | |
| `ColdTierProofs!NeighboursAlwaysExact` | `Spec => []NeighboursExact` | |
| `ColdTierProofs!PageInNeverDropsLinks` | `Spec => ResidentLinksSurvive` | |
| `TimelineProofs!TimelineAlwaysTyped` | `Spec => []TypeOK` | |
| `TimelineProofs!ChainsAlwaysVerify` | `Spec => []ChainsVerify` | |
| `TimelineProofs!HeadAlwaysCommits` | `Spec => []HeadCommitsToHistory` | |
| `TimelineProofs!CheckpointAlwaysKeepsHead` | `Spec => CheckpointKeepsHead` | |
| `TimelineProofs!DurableHistoryAlwaysGrows` | `Spec => DurableHistoryOnlyGrows` | |
| `TimelineProofs!OplogAlwaysBounded` | `Spec => []OplogBounded` | |
| `TimelineProofs!ReplayAlwaysLive` | `Spec => []ReplayIsLiveInOneProcess` | |
| `SyncFederationProofs!ForeignLogsAlwaysAuthentic` | `Spec => []ForeignLogsAuthentic` | |
| `SyncFederationProofs!KnowledgeAlwaysGrows` | `Spec => KnowledgeOnlyGrows` | one process at a time |
| `SyncFederationProofs!FederationAlwaysTyped` | `Spec => []TypeOK` | |
| `SyncFederationProofs!OnlyRestartsAlwaysDiverge` | `Spec => []OnlyRestartsDiverge` | one process at a time |
| `SyncFederationProofs!ViewsAlwaysConverge` | `Spec => []ViewsConverge` | one process at a time |
| `WorkerPoolProofs!PoolAlwaysTyped` | `Spec => []TypeOK` | |
| `WorkerPoolProofs!LoadsAlwaysTellLeases` | `Spec => []LoadsTellLeases` | |
| `WorkerPoolProofs!LineageAlwaysStable` | `Spec => LineageStable` | says something of engines with a cache |
| `WorkerPoolProofs!EveryStepEvaluates` | `Spec => StepsEvaluate` | |
| `ForgeEngineProofs!CampaignAlwaysTyped` | `Spec => []TypeOK` | |
| `ForgeEngineProofs!ElitesAlwaysReevaluated` | `Spec => []ElitesAreReevaluated` | |
| `ForgeEngineProofs!CurveAlwaysPerGeneration` | `Spec => []CurveIsPerGeneration` | |
| `ForgeEngineProofs!ArchiveAlwaysRanked` | `Spec => []ArchiveRanked` | |
| `ForgeEngineProofs!CheckpointsNeverRegress` | `Spec => CheckpointNeverRegresses` | |
| `DurableVaultProofs!CounterAlwaysTyped` | `CCSpec => []CCTypeOK` | |
| `DurableVaultProofs!TokensAlwaysMatchLedger` | `CCSpec => []TokensMatchLedger` | says something while no command has worked beside the daemon |
| `DurableVaultProofs!SealedAlwaysRefused` | `CCSpec => SealedIsRefused` | |
| `WorkspaceProofs!WorkspaceInvariant` | `Spec => []IInv` | |
| `WorkspaceProofs!WorkspaceAlwaysTyped` | `Spec => []TypeOK` | |
| `WorkspaceProofs!SyncIsRebuild` | `Spec => []GraphFollowsFiles` | |
| `WorkspaceProofs!IndexAlwaysMirrors` | `Spec => []IndexMirrors` | |

The conditions are real ones. `RemoveMayFail = FALSE`: with a failing
`remove_file`, which `compact` ignores, a deleted value does come back.
`~Concurrent`: with two processes an import is undone (section 5). `~together`, part
of `TokensMatchLedger`: a command that runs beside the daemon saves an older vault over a
claim (section 5). `SealedIsRefused` is said of every history.
`ForeignLogsAlwaysAuthentic` needs neither.

How the proofs go:

* **DurableFile.** `IInv == TypeOK /\ NeverHalfWritten`. The part that matters is
  in `TypeOK`: a call past `create` has the sibling of its process to itself
  (`create_new` makes it so), and the sibling is as complete as the call's step
  says; so what `Rename` installs is whole and synced. `AckedSurvives` needs
  `Acked` as well: no pending rename is newer than the entry, and nothing counts
  as acknowledged while the directory could vanish. The refinement needs `Fresh`:
  no file precedes its directory.
* **HuskStore.** `Inv` is the conjunction of `TypeOK`, `SequenceOrder` (numbers
  grow with time), `CacheCoherent`, `FilesAccounted` (the directory is the open
  segments, the doomed ones, and at most one orphan that says nothing new) and
  `MergedShadowsOld`. None is inductive alone: the removal of a segment is
  invisible because the merged one lies above it, which is `SequenceOrder`, and
  because the merged one holds or drops every key of it, which is
  `MergedShadowsOld`. The lemmas `StoredOnTop`, `StoredWithoutOldest` and
  `StoredFrame` say how a layered read changes with its layers. `StoreImplementsMap`
  maps `view` to `Lookup` and `durable` to `OnDisk`. `CompactionReclaims` is about steps
  of a compaction that began earlier, so `Swept` says what holds meanwhile: the merged
  file has no tombstone, nor has a leftover file under the number to be used next while
  the buffer is empty, which a flush that failed or a segment that was never opened
  may have put there.
* **ColdTier.** Every operation of the tiers is shown to be a `Step(h, k, ok)`: each
  content the new graph holds for a node is a version of one the old graph held for
  it, and, when no write failed (`ok`) and the old graph is `Tidy`, the new one is
  tidy and keeps every node. `Tidy` is the strengthening: one tier per node, no torn
  blob, and the blobs on disk are exactly the ones referred to, so that every content
  can be read back. Steps compose (`StepTransitive`), which gives paging, the
  three budget passes and `page_in` from their parts (`DemotedStep`,
  `CompactedStep`, `SpilledOutStep`, `DeepSpilledStep`, `FaultedStep`,
  `LinkedStep`); the steps that drop a reference first and release the blob after
  go through a graph that is tidy but for those blobs (`Lax`, `ReleasedTidy`).
  `IInv` adds that what the tiers hold was ingested (`Genuine`), both in the process
  and in what a crash would reload; that with no fault they hold the latest
  (`Faithful`); and that right after `checkpoint_to` the two agree (`InSync`), which
  is why a crash then loses nothing.
* **ColdTier, links.** `LInv` adds to `IInv` that no resident link dangles (`Anchored`), that
  the resident nodes stay under the cap (`Capped`), and what the reverse index means
  (`Indexed`): a pair is in it exactly when one of the two archives a link that joins
  them, and a link is archived with one end only. The last is why
  dropping a node's own pairs, as a page-in does, drops no pair that another node still
  needs. Demotion establishes it because the links it archives are taken from the resident
  graph, which holds none that is archived. The budget passes and the restores keep the
  links of every node, in whichever tier it is. `ResidentLinksSurvive` follows from the parts
  of `page_in`: what it relinks, and the demotion that makes room.
* **Timeline.** `IInv == Sound(tl) /\ DiskOK /\ ShortOK /\ ExtendsDisk`. `Sound`
  says that each link extends the one before it and numbers its steps from
  genesis (`Links`, a property of the chain alone, which damage to the operations
  or the baseline cannot break) and that the chain matches operations and baseline
  (`Committed`). `ExtendsDisk` relates the session to the file: what the sidecar
  holds is a prefix of what the session would write, unless it was discarded. In
  this part the memories stay opaque, so it does not depend on how ingestion works.
* **Timeline, memories.** `MInv` says that every memory, live, persisted or in a baseline, is
  well formed, that a snapshot has no call site left, and `Mirrors`: while the process that
  took the baseline records and nothing is folded, resolving what the recorded operations
  defer gives the live memory. A replay defers all resolutions to the end and the live
  session does not, so each recorded operation needs that an early resolution makes
  no difference: two memories that differ only in edges that the next resolution
  prunes (`Alike`) resolve to the same. A replay is a fold. Its lemmas (`IterExists`,
  `IterPath`, `PlacesInduction`, `ReplayedAppend`) go by induction over a set of numbers,
  `SetInduction`, which the library's well-founded order on the naturals gives and which
  needs no operator as a parameter.
* **SyncFederation.** `IInv` says that every copy of a sidecar, on disk, in the
  server or in the CLI, is `SessionOK`, and that every bundle, damaged or not,
  carries only links its author recorded. `ExtendedOK` is the step that matters: a
  bundle that is intact and agrees with the known log extends it to a log chained
  from genesis, whatever the overlap. For `KnowledgeOnlyGrows`, `InStep` adds that with
  one process at a time the open copy holds at least what the disk holds; an import is
  then taken apart into its effect on the keys, on the logs and on a pinned log
  (`StepKeepsKeys`, `StepExtendsLogs`, `StepGrowsSigned`).
* **SyncFederation, lineage.** A link commits to its predecessor, so it lists the whole history
  before it; a timeline, an imported log and a bundle are each a `Segment` of the
  history that their last link lists. `Well` says so of every copy and every bundle
  (of a damaged one: its links still are such a segment), and that every key in use
  was generated. Segments are closed under what the code does to them: recording
  (`SegmentRecorded`), compaction and export (`SegmentSuffix`), import
  (`SegmentExtended`). `Lineage` then orders histories: while a workspace was not
  restarted, all its bundles and every log of it elsewhere are `Before` what its
  sidecar holds, and that is before what its server holds. Two segments of comparable
  histories agree where they overlap (`SegmentsAgree`), so such a bundle cannot
  diverge, and with `Well` it is intact and its key the only one there is
  (`HonestAccepted`). `ViewsConverge` follows because a history determines its
  operations (`SameHeadSameOps`), once `Named` rules out that a workspace holds a log
  of itself.
* **WorkerPool.** `IInv == Well /\ Judged /\ Cached /\ Loaded`. `LoadIsLeases` alone is
  not inductive: a release that finds zero must be that of a failed worker, which
  `Marked` says of every thread about to store a zero. `QuietPool` needs `NotWrapped`: a
  failed worker's counter may be below its leases and wrap, but while nobody is about to
  zero it, it is at most their number; so when all rest it is zero. `Cached` says of
  an engine with a cache (`CacheTells`) that a
  candidate under evaluation was not measured in an earlier generation and that the
  registry follows the cache, which is why a second commit of the same content writes
  the same generation. With `Judged` (a verdict exactly when the closure is done) each
  step maps to `Judge`, `NextGeneration` or a stutter of `Evaluation`.
* **ForgeEngine.** First the order, for archives of any size. In a total order of a finite
  set each place has one member (`PlacesExist`, by induction over the size), so a sort is a
  permutation that follows the order (`SortedFacts`); each sort of the code is shown to be
  by a total order (`LexTotal`, `KeysTotal`). `FrontsOK` is the loop invariant of the
  peeling: fronts are disjoint, the dominators of a member lie in earlier fronts, and
  what is left waits for somebody in the last front. Something can be peeled as long as
  something is left, because domination raises the sum of the objectives
  (`DominatesOrder`, `SomethingReady`); so in as many rounds as there are members every
  one has a front (`FrontsFacts`), and whoever comes later in the sort has no smaller
  rank. `ArchivedFacts` is what a generation needs of it: ranked, no id twice, not more than
  the survivors, and no elite of the archive before dominates the first. Then the
  campaign: `CInv` says that the elites are in the population from reproduction to commit,
  and in the saved population of a checkpoint, and it follows the checkpoint through the
  generation after it (`Followed`): the archive is the saved one until the evaluation, and
  after it none of the saved elites dominates the first. `Progress` ties the length of the
  learning curve to the generation and the phase, in memory and in the checkpoint.
* **ClaimCounter.** `Claiming` is the state between flip and reply: the copy differs from
  the file in the code of the request alone, and there only if the file has it
  unclaimed; so a save overwrites nothing a token rests on, and the license disclosed is
  the one on disk. `Commanded` is the same for a running command. Tokens of earlier
  armings are history because no token is of a later arming than its code
  (`TokensOfArmings`). All this needs that vendor and daemon take turns. What holds also
  when they do not is `SealedEverywhere`: a code revoked in the file with no daemon up is
  revoked in every copy that may be saved over it, the daemon's, the one it rolls back to
  and that of a command for another code; the command that arms it again breaks the seal.
* **Workspace.** `IInv == Typed /\ Indexed /\ Calm /\ Following`; the properties of the run
  say nothing of the middle of a sync, where the graph is neither the old one nor the new.
  `Following` does. Of a file whose eviction is still among the calls that are left (`calls`)
  it asks nothing; of every other one (`Follows`), that each node and link its version
  contributes is held or still to be added, and, unless paging took nodes out, that the graph
  has nothing else of it. `Queue` says that a file waiting for its eviction has all its
  additions waiting too, behind it; `Ready` that the ends of every waiting link are resident
  or come before it, which is why `add_edge` never refuses one of a rebuild. With no call
  left this is `GraphFollowsFiles`. What a scan puts into the list of calls is
  `DeltaFacts`: the calls of a file are in the order of its parse (`ContributionFacts`), and
  a list flattened from those of several files is the end of a path that appends one part
  after the other (`Assembles`, `FlattenFacts`). The eviction, a fold over the nodes of a
  file, drops them as a set (`Without`, `EvictedFacts`). Each call of the graph then has a
  lemma of its own: `UpsertStep`, `LinkStep`, `EvictStep`, `StoreStep`.
* **GraphIndex.** `Exact`, part of `IInv` until the first page-in: the index holds every link
  of the list and the list holds each once. It is what an insert, a removal and a demotion
  keep, although the last two leave the index too large; and a finite set that contains
  the list and has its size is the list (`IndexIsLinked`). `IndexMirrors` is that. A page-in
  breaks `Exact`, and section 5 says what follows.

### Checked by TLC only

* The liveness half of `ImplementsEvaluation` (that every candidate gets a verdict), which
  rests on fairness. Every safety property of a passing run is stated by a theorem.

Out of reach of the prover, and left to TLC on principle: liveness and `ENABLED`.
Induction over data is done where a proof needs it, as induction over sets of numbers
(`SetInduction`); the library's induction theorems take an operator as a parameter and cannot
be used. No model has a `RECURSIVE` operator.

## 5. What the models leave out, and where code and words part

### Not modelled

* Scores, recency, eviction order, byte budgets, the clock: nondeterministic
  choices.
* Parsing: versions with given symbols, imports and calls.
* Segment layout, compression, serialisation formats. Hashes and signatures are
  ideal.
* `fork_at`, `adopt_tuned`, `set_retention` of the session; evidence and relation
  calls of the facade; detaching a spill directory; a husk-store write that fails
  under `ColdTier`; graph decay and pruning; the caches over the links that only
  scoring reads.
* Forge: `evaluate_parallel_distributed` (round robin, no caller in the engine), the
  failure sink, the cache's file, `evaluate_with_feedback`, process isolation. License
  counter: the rate limiter, the HTTP loop, the PHP variant.
* The runtime state (`src/persistence.rs`): `save_state` writes three files one after
  the other, and nothing in the code or its docs says which mixtures of old and new
  `restore_runtime` means to accept, so there is no property of the code to check.
* Everything listed as `not_modelled` in `PROJECT.json`, with its reason. Most of the
  repository by size is there: numeric kernels, ranking, compression, text
  classification, measurement harnesses and sibling research programs, which are
  sequential functions of their input. A model of them would restate them.

### Statements the code does not keep

Those of the `violation` runs are in section 3. Each of the following can be seen with TLC
by the instance named.

* *Pinned keys are "immutable after" the first import* (`src/agent_session.rs:559`). A
  server that was open during `ccos sync import` writes its older copy back: the
  imported log and the pin are gone. (`SyncFederation` with `Concurrent = TRUE`,
  `Served = {wa, wb}`: `KnowledgeOnlyGrows`.)
* *Demotion keeps the links* (`src/memory.rs:1357`). A link is archived with the end that
  goes cold first; if the other end is cold when that one is paged in, the link is
  dropped for good (line 1473). (`ColdTier` with one link: `LinksSurvive`.)
* *The flush makes the cold tier recover to its last checkpoint* (`src/memory.rs:1668`).
  Blobs the checkpoint needs are deleted at once when the live graph no longer needs
  them (line 1448). (`ColdTier` with `MaxFaults = 1`, `MaxCheckpoints = 1`:
  `CheckpointSurvives`.)
* *"The counter now refuses this code"* (`ccos-license-admin.rs:299`), with the daemon down
  throughout: the sentence is printed before the save (line 304), which may fail.
  (`ClaimCounter.cfg` under the constraint `~together`: `AnnouncedIsRefused`.)
* *"One claim code per sale, redeemed once, bound to one machine"*
  (`docs/LICENSING_SERVER.md:3-5`). A command that loaded the vault beside a running daemon,
  before a claim, writes it back after it; the restarted daemon gives the same code to a
  second machine. (`ClaimCounter.cfg`: `OneLicensePerArming`.)
* *The checkpoint is for "reprise sur crash"* (`evolve.rs:92`, `246`). A generation without a
  valid candidate puts an infinity into the learning curve (line 363); `serde_json` writes it
  as `null`, and neither this checkpoint nor a later one of the campaign can be loaded.
  (`ForgeEngine.cfg`: `CheckpointLoads`.)
* *The index of the links "must mirror `edges` through every path"* (test at
  `src/memory.rs:4645`). `page_in` adds links without it (line 1478) and the demotion that
  makes room drops as many: the lengths agree, and `add_edge` trusts a set that is not the
  list. (`Workspace.cfg`: `IndexMirrorsThroughout`.)
* Eviction of a changed file (`src/incremental.rs:139`) looks at resident nodes only: old
  nodes in the COLD tier stay and can be paged in. (`Workspace`, `GraphFollowsFiles`
  without `~demoted`.)

Seen while reading, with no instance:

* `compact` ignores errors of `remove_file` (`src/cold_index.rs:492`) although line 446
  calls it crash-safe; in the model, `RemoveMayFail`.
* A call of `write_durable` that fails leaves its sibling, and later calls under the
  same pid are refused (`src/util.rs:72`): after one failed save a license daemon refuses
  every later claim until it is restarted. A directory it made is not itself synced
  (`src/util.rs:65`), against "has reached stable storage" (line 53).
* A sidecar without operations is trusted whatever its snapshot holds
  (`src/agent_session.rs:733`), against line 630; the guard compares only the number
  of files and edges (line 812).
* A torn blob is taken for written because the file exists (`src/memory.rs:601`),
  against "spill never drops data" (line 1776). `Recoverable` shows that it is
  never restored as content; the content it should have held is lost.
* The trait's `checkpoint` does not flush the husk index
  (`src/external_memory.rs:1787`), `checkpoint_to` does.
* A workspace without an agent id is called `local` in a merged view, as an agent of
  that name would be (`src/agent_session.rs:1112`).
* `dep:` nodes are never evicted by the incremental engine; `scan_workspace` and
  `watch_changes` move the last scan on without touching a graph, so that a later `sync`
  does not see what they reported.
* An engine without a cache measures a content again whenever it comes back and replaces its
  record in the registry by one of the later generation (`evolve.rs:635`,
  `registry.rs:48`); `LineageStable` is not said of it. Nor is it said over the life of several
  engines: the cache's file is written only every tenth generation (`evolve.rs:397`), so a
  later engine may begin with a cache that is older than the registry.
* The `best` of a Forge report is the first of the archive, which crowding may put before
  the one with the least primary objective; the archive keeps the first score of an id,
  so that a re-evaluation never replaces it; a "failover" may lease the worker that has
  just failed, because only the last attempt marks it (`evolve.rs:655`).
* A failed append of the eviction log of `ccos-scirust` may leave a part of a record:
  records appended later are read displaced and the next `open` refuses the file, against
  "the log stays consistent" (`crates/ccos-scirust/src/eventlog.rs:209`).
* `DistributedEventLog.verify_integrity` accepts whatever events it holds while its hash
  chain is empty.

## 6. Plan

Done: `DurableFile`, `HuskStore`, `ColdTier`, `Timeline`, `SyncFederation`, `WorkerPool`,
`ForgeEngine`, `ClaimCounter` and `Workspace`, each with proofs of all its safety properties.

Next, in this order:

1. `ColdTier`: a husk-store write that fails.
2. `promote_to_live` of `ccos-rsi` (backup, swap, rollback); the elastic KV cache of
   `ccos-scirust` with the pages that the memory runtime keeps in it (the page map and
   the arena agree, the budget takes the softest measures that suffice) and with its
   append-only event log, which a failed append leaves with a partial record
   (`eventlog.rs:209` calls it consistent).
3. The runtime state, once the code says what a restart may find.

Runs stay few: one per question. A new component replaces a run whose question
the proofs have settled for every instance.
