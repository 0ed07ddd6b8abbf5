# Brainstack: specifications, checks and proofs

Brainstack is the memory of an assistant. A provider (`BrainstackMemoryProvider`,
`src/brainstack/provider/`) is driven by a host program. It keeps what it learns on
*shelves* in one SQLite file, derives a semantic index (Chroma) and a graph (Kuzu) from
them, and lets a background worker, *Tier-2*, consolidate the last turns of a
conversation. This directory holds TLA+ models of the parts whose correctness depends on
the order of events, the TLC runs that check them on small instances and the theorems
that TLAPS proves about them.

    tlc -config graph_sequential.cfg MCGraphTruth      check one run
    tlapm GraphTruthProofs.tla                         check the proofs of a module

`PROJECT.json` lists components, runs, the source lines behind every definition,
hazards, findings and theorems.

## 1. Inventory

| component (`src/brainstack/...`) | state | operations | correct when | modelled in |
|---|---|---|---|---|
| Graph-truth shelf (`storage/graph_state_*.py`) | entities, aliases, states, conflicts, supersession links, resolution ledger | upsert of a state, resolution by the operator, alias merge | history is never rewritten and stays linked; one current truth per entity, attribute and scope; a closed conflict has one ledger row that explains it | `GraphTruth` |
| Graph publication (`storage/publish_journal_store.py`, `graph_backend_kuzu.py`) | Kuzu's subgraphs, the journal, whether the backend is mounted | publish, disable, bootstrap | what Kuzu serves wrongly is on record; Kuzu never has what SQLite can lose | `GraphPublication` |
| Graph relations, inferred relations, lineage | relations | upsert, merge, traversal | a relation publishes both its ends | `GraphPublication`, as changes of the subject |
| Corpus shelf and publication (`storage/corpus_store.py`, `corpus_backend_chroma.py`) | document rows, sections, journal, index, evidence | ingest, deactivate, open, quarantine | what the index serves is what SQLite says, or the difference is on record; interrupted publications are finished; hidden documents stay hidden | `CorpusPublication` |
| Source synchronisation (`source_sync_spine.py`) | run records, over the corpus | scan, ingest, deactivate what is missing | a recorded run stands for its folder; no principal's sync touches another's documents | `SourceSync` |
| Tier-2 scheduling (`provider/tier2_worker.py`, `ingest_lifecycle.py`, `prefetch_sync.py`) | turn and pending counts, flags, the thread | sync_turn, worker loop, session end, shutdown, initialize | no batch requested is lost, none runs twice at a time, none on a closed store | `Tier2Scheduler` |
| Reconciliation and admission (`reconciler.py`, `admission_policy.py`) | none of its own | decide what a claim may become | only admitted claims reach a shelf | `Admission`, `CanonicalTruth` |
| Durable write guard, truth port (`durable_write_guard.py`, `projection_writer.py`) | receipts | guard, project | every durable write is permitted and has its receipt | `Admission`, `CanonicalTruth` |
| Current-truth L0, canonical events | event log, L0 snapshot | record, project, rebuild, compare | the snapshot is a function of the log; answers are backed | `CurrentTruth`, `CanonicalTruth` |
| Profile shelf | items by slot | upsert for an admitted claim | a slot has the claim's row | `CanonicalTruth` |
| Proactive pulse and agent contract (`proactive_*.py`, `storage/proactive_store.py`) | events, outbox, attention ledger, work-runs, configuration | pulse, decide, deliver, switch | nothing is lost, asked twice, or sent after the switch | `ProactivePulse` |
| Provider lifecycle | the store's life | initialize, session end, shutdown | see Tier-2 | `Tier2Scheduler` |
| Continuity and transcript shelves | transcript, summaries, snapshots | append, recent window | the window is read | `Tier2Scheduler`, the window |
| Semantic evidence index | evidence rows | rebuild of a shelf, search | follows the shelf | `CorpusPublication`, the corpus shelf |
| Migrations | - | one-off rewrites | - | disabling of a backend only |
| Explicit writes, receipts | barrier count | host memory writes | teardown waits | not modelled |
| Tasks and operating records | records by key | single-statement upserts | - | not modelled |
| Retrieval, packets | none | rank, budget, render | - | not modelled |
| Diagnostics, installer, proof scripts | none | reports, text patches | - | not modelled |

**Interaction.** The host calls the provider from one thread: `initialize`, then
`prefetch` and `sync_turn` for every turn, `on_session_end`, `on_memory_write`,
`shutdown`. `sync_turn` writes to the transcript and continuity shelves and may start the
Tier-2 worker, which reads the transcript, asks the admission policy about each claim and
writes to the shelves, the receipts and the event log over the *same* SQLite connection.
Every change of the corpus goes through the publish journal to Chroma, and that of the
graph to Kuzu; SQLite holds the truth and the other two are derived from it. Three kinds
of processes have connections of their own: the operator's conflict command
(`graph_conflict_cli.py`), source syncs, and proactive pulses.

**What is hard.** (1) The turn thread and the worker interleave between the reads and the
writes of an upsert, which takes no lock, and each commits what the other has not. (2)
Conflicts are resolved long after they were opened, against rows that have changed. (3)
SQLite and the derived stores are not changed in one transaction: the process may stop, or
a backend fail, between any two commits. (4) The worker decides to end while the host asks
for more; session end, shutdown and initialize race with it, with waits that time out. (5)
Principals share one database and are kept apart by keys, and calls that name none are kept
apart from nobody. (6) Pulses are killed, and run beside each other and the operator. The
list with source lines is under `hazards` in `PROJECT.json`.

## 2. The modules

| module | models | composes or refines | proofs |
|---|---|---|---|
| `GraphTruth` | the graph-truth shelf, one attribute, writers and operator | implements `TruthHistory` with one writer | `GraphTruthProofs` |
| `TruthHistory` | what readers of graph truth are promised: statements, which are live, what replaced them | abstract | - |
| `GraphPublication` | the copy in Kuzu: two threads, journal, backend, operator | `GraphTruth`'s rows as a number of changes | `GraphPublicationProofs` |
| `CorpusPublication` | corpus rows, sections, evidence, journal, index, open, crash | - | `CorpusPublicationProofs` |
| `SourceSync` | syncs of several principals, and of none, over the corpus | `CorpusPublication`'s documents as rows | `SourceSyncProofs` |
| `Tier2Scheduler` | host thread and worker thread | - | `Tier2SchedulerProofs` |
| `Admission` | policy, event, classification and guard as operators | - | `AdmissionProofs` |
| `CanonicalTruth` | the way of a claim into the L0 snapshot | EXTENDS `Admission`, implements `CurrentTruth` | `CanonicalTruthProofs` |
| `CurrentTruth` | what readers of current truth are promised | abstract | - |
| `ProactivePulse` | pulses, operator, delivering host | - | `ProactivePulseProofs` |
| `MC...` | constants and symmetry for TLC | | |

In each module the definitions called *mutant* stand before the definition they distort
and are used by no specification: they are plausible bugs that the properties have been
seen to catch. History variables and fields (`missed`, `emptied`, `raced`, `unread`,
`passed`, `request`, `torn`, `cut`, `again`, `decided.answered`) are read by no guard.

### GraphTruth

| code | model |
|---|---|
| `get_or_create_entity` | `Resolved`; an entity row wins over an alias |
| `_sqlite_upsert_graph_state`: reads of the entity and of the current state | `BeginUpsert` |
| ... its outcomes | `WriteUnchanged`, `WriteNew`, `WriteSuperseding`, `WriteKnownConflict`, `WriteNewConflict`; `WriteFails` when a merge has deleted the entity and the insert breaks the foreign key |
| `_sqlite_record_graph_state_conflict` | `SameConflicts`, `InverseConflicts` |
| `merge_entity_alias` | `MergeAlias`; `MergeAliasFails` when the merged entity is itself the target of an alias, so that its row cannot be deleted |
| `_sqlite_resolve_graph_conflict` | `ResolveKeeping`, `ResolvePromoting` |

Every query of the code filters on the attribute, so attributes do not interact and the
module has one. A value is a text to the letter, as the lookup of the same conflict
compares it, and `Folded` gives it up to case and spacing, as the same-value test and the
lookup of the inverse conflict do; `ExactUpdate` is the set of pairs for which
`_should_auto_supersede_exact_value` says that the new value replaces the old one instead
of disputing it. `valid_from` comes from callers, so which of two current states a write
meets is free. A failed statement leaves the statements before it in the shared
transaction, which the next commit of either thread makes permanent: hence `WriteFails`
keeps the closed prior state and `MergeAliasFails` the moved rows. Left out: a process that
stops between two statements, the evidence table that an upsert refreshes, and the text of
metadata other than the principal scope.

`TruthHistory` is the abstract specification: statements are made in order, a statement
leaves current truth in the step in which its successor enters, and the link between the
two stays. `GraphTruth` implements it with the appended rows read as `said`, the current
ones as `live` and the supersession links as `successor` (`TH == INSTANCE TruthHistory
WITH ...`), whatever entity a row belongs to.

### GraphPublication

| code | model |
|---|---|
| `upsert_graph_state`, relation writes, `merge_entity_alias` | `UpsertState`, `UpsertRelation`, `MergeAlias`, then `Commit` |
| `_publish_entity_subgraph` | `Check` or `Skip`, `Snapshot` or `SnapshotRaises`, `JournalPending` or `JournalRaises`, the Kuzu transaction `Begin` and `KuzuCommit` or `PublishFails`, `JournalPublished` or `JournalFailed` |
| `_disable_graph_backend` after a failure, and after a failed read | `Disable`, `ReadFails` |
| `graph_conflict_cli` | `OperatorResolves`: a process without Kuzu |
| opening, bootstrap of an empty Kuzu | `Open`, `OpenUnmounted`, `Opened` |

`conn` is the graph as the shared SQLite connection sees it and `disk` as committed;
`disk' = conn` wherever the code commits, whoever wrote. A subgraph is the number of changes made
to its entity. `missed` names the entities whose last change never got to the journal:
written while no backend was mounted, cut off, made by the operator, or made by a merge,
which publishes its target only: the merged entity, and third entities whose relations
named it (`others`, any subset, since which relations there are is not modelled). `raced`
names those that both threads were publishing at once.

### CorpusPublication

`op` is the operation that holds the store's lock, with its next step; every commit is one
step, and `Crash` may fall between any two. `ingest` is `WriteRow`, `ReplaceSections`,
publication, `RefreshEvidence`; `deactivate` is publication of the empty snapshot, then
`DeactivateRow`, then `RefreshEvidence`; `open` queues what `OpenQueue` names and publishes
it one document at a time. All three share `JournalPending`, `Publish` or `PublishFails`,
`JournalPublished` or `JournalFailed`. The environment's faults are a constant, `Faults`:
the process stops (`crash`), a backend call raises before or between the upsert and the
deletion of stale sections (`publish`), the backend cannot be mounted (`open`), the index
files are found corrupt and replaced by an empty index (`corrupt`), the rebuild of the
evidence raises (`evidence`). `RefreshEvidence` deletes and rewrites the rows of the
document's own scope and of no scope (`Refreshed`), or all of them for an unscoped
document; `RefreshFails` is the same cut short, an exception that
`_refresh_semantic_evidence_shelf` swallows. It leaves the evidence alone, or that of some
of these documents rewritten and of the others gone; the deletions have no commit of their
own, and the model takes them as committed with whatever the connection commits next.
`missed` is as above; `emptied` names the documents of which the index was last emptied,
for a deactivation or by a quarantine. Left out: transcript publications, section contents,
and annotations.

### SourceSync

`run_source_sync` is `Start` (the folder is collected and the active documents read),
`Skip`, `Ingest` or `IngestRaises` for each file, `Ingested`, `Deactivate` or
`DeactivateFails` for each missing key, and `RecordRun`; `Stop` may fall anywhere.
`StorageKey` is `_storage_key_for_metadata_scoped_upsert`: the key of the path, or that key
and the principal. `ActiveKeys` and `Present` are the two sets the code subtracts.
`Unscoped` is the empty scope, the default of `run_source_sync`: such a sync writes to the
path's key whoever has it, and every active document of the source set counts as its own; a
principal's sync counts the unscoped ones too. Syncs run one at a time; what folders
contain is the environment's. Left out: the collector's limits, the status report, and the
sections and index (`CorpusPublication`).

### Tier2Scheduler

`host` and `worker` say where the two threads are. A turn is the transcript row
(`SyncTurn`), then captures that may raise (`CaptureRaises`) or the schedule (`Plan`,
`_plan_tier2_schedule`) and the request (`Queue`, `_queue_tier2_background`). The worker
loop is `WorkerReads`, then `WorkerReturns` or `WorkerRaises`, then `WorkerLoops`; a batch
whose route is unavailable does not read (`WorkerSkips`), and one may raise before it does
(`Raises`). `on_session_end` is `EndSession`, then `Awaited` or `AwaitTimesOut`, perhaps
`FlushReads` and `FlushDone`, or `FlushPassesBy` when the flush is skipped or raises first,
then `ClearPending`; `shutdown` and `initialize` wait likewise and give up (`GiveUp`) when
the worker outlives the wait. `unread` are the turns counted and not yet read by a batch,
`passed` those among them that were in the window of a batch which read nothing, and
`request` follows any one request to what became of it: read, missed by such a batch, or
given up by a session end that did not wait (`dropped`) or did (`lost`). Left out: what a
batch extracts, and the barrier that holds teardown back while explicit writes are in
flight. The host leaves `sync_turn`'s session to the provider's own, so there is one.

### Admission and CanonicalTruth

`Admission` has the pure functions. `Registry` is `SLOT_REGISTRY` with one entry for each
kind of slot, `DerivedAuthority` is `_authority_from_payload`, `Admit` is `admit_claim` with
its rules in order, `MemoryEvent` and `ValidEvent` are what a decision is recorded as and
whether that validates, `AnswerSafe` is `classify_projection_semantics`, and `Permitted` is
`guard_and_normalize_durable_truth_metadata`. `RequestOf` is what an accepted claim asks the
guard. The reconciler merges the candidate's metadata, which the extracting model wrote, into
the payload, so a proposal has `assignment`, the flag that the guard looks at and the policy
does not; on the profile shelf the row written over adds its own (`kept`). The permit names
the shelf and slot of the write itself, so these two agree by construction.

`CanonicalTruth` is the order in which a claim uses them. `Begin` is the reconciler's read
of the shelf and its decision; `WriteRow`, `Receipt`, then `InsertEvent`, `ProjectL0` and
`MarkPrior` are the `ProjectionWriter`'s writes; `WriteRefused` is the guard raising at the
row, which ends the batch with nothing written. The first two commit by themselves; the
last three are one transaction, which the other thread's commit (`NeighbourCommit`, or a
`WriteRow` of its own) cuts, so that a `Stop` keeps a part of it. `IgnoreEvent` is an event
already on record. `Compare(limit)` is `compare_current_truth_l0_to_rebuild` and `Open` the
bootstrap of an empty snapshot, which takes all events; both are `StartReplay`, which deletes
the L0 rows, `ReplayEvent` for each of the events given, the oldest first, by the same upsert
and marks as a record (`Upserted`, `Marked`), and `EndReplay`, the commit. `Latest(limit)` is
what `list_canonical_memory_events` returns. `Projected` is the other computation,
`rebuild_current_truth_view`, and `ParityAtRest` compares the two. The replay sorts by
`created_at`, then by id: the model has the order of the ids, which is the same while the
clock does not step back. Comparisons are made by scripts without another writer, so
`Compare` waits for `Quiet`. Only Tier-2 brings claims here, and the model assumes of
proposals what `DerivedAuthority` gives (`ClaimsAssumption`).

`CurrentTruth` is the abstract specification: an event is answered from only if it may be
and only from its publication on, it may be withdrawn and published again, and once it was
held back it is retired and never answered from again. `CanonicalTruth` implements it with
the committed snapshot read as `published` and `answers`, and as `retired` what it holds back,
with the events that the last rebuild left out and that would be held back
(`CT == INSTANCE CurrentTruth WITH ...`, the property `NeverRevived`).

Left out: extraction, the decision core gate (a blocked claim is not begun) and the freshness
of the view. The current state of a graph slot is one row, so that the
exact updates of `GraphTruth` (numeric values that replace each other) are not followed.

### ProactivePulse

A pulse is `Start`, `Produce` (signals, and cards for runs that did not end), `Gate` (the
configuration is read), then for each candidate `Read`, `Upsert` and, if it delivers,
`CreateOutbox`; then `Finish` and `Exit` after the old work-runs are pruned. `Raise` marks
the run interrupted, `Kill` marks nothing. The operator's `set_proactive_item_state` is
`Decide`, the kill switch `Switch`, the host's report `Mark`. Left out: retention, the
inbox's transitions and receipts, and the read-only operations of the agent contract.

## 3. The runs

`CHECK_DEADLOCK FALSE` is in every configuration because stores and callers are passive:
they may stop at any time, and identifiers and the transcript are bounded.

| run | instance | properties |
|---|---|---|
| `graph_sequential` | one writer and the operator, 2 names of which one may be an alias, 2 values, one scope and unscoped, 3 states, 2 conflicts | `KeepsHistory` (the refinement), `TruthDoublesOnlyBy`, `TruthSurvives`, `ConflictFollowsEntity` |
| `graph_concurrent` | two writers, both names may be aliases of each other, 3 values of which two are spellings of one, 3 states and 1 conflict or 2 and 2 (`MCRows`) | `LedgerExplainsStatus`, `SupersededIsHistory`, `NoDuplicateConflict`, `HistoryIsFinal` with failing writes and merges |
| `graph_one_current` | one writer, a pair of numbers, 3 states, 1 conflict | `OneCurrentTruth` is violated (finding 1) |
| `graph_publication` | 2 threads, 2 entities, 2 changes of each, and a third one that a merge may change (`MCThird`), every fault | `DerivedIsDurable`, `StaleIsOnRecord` |
| `corpus_faults` | 2 documents of a principal each, 2 versions, every fault | `StaleIsOnRecord`, `NothingLeftPending` |
| `corpus_crash` | one of the documents without a principal; crashes, corruption and failing evidence rebuilds only, with fairness | `NoGhost`, `PendingIsResolved` |
| `source_sync` | 2 principals and syncs without one, 2 files, 2 versions, both policies, 3 documents (`MCDocuments`) | `OneDocumentPerFile`, `RunCoversFolder`, `OthersUntouched` |
| `source_sync_scopes` | 2 principals, one file | `UnchangedSyncIsIdle` is violated (finding 3) |
| `tier2_scheduler` | batch limit 3, window 4, 8 turns, flush on, with fairness | `OneBatch`, `BatchHasStore`, `RunningIsAlive`, `RequestIsTracked`, `EndReadsWindow`, `RequestIsServed` |
| `truth` | 2 threads, 5 claims: two values of one graph slot, one of them expired, an identity value without a source, one flagged as an assignment, and the identity value in the assistant's word; rebuilds of the latest 2 events | `AnswerIsBacked`, `ParityAtRest`, `NeverRevived` (the refinement) |
| `truth_answers` | one thread, two identity values | `OneAnswerPerSlot` is violated (finding 2) |
| `pulse` | 2 pulses, one signal, 2 decisions, the operator and the host | `CompletedMeansProjected`, `AsksAreCounted`, `NotReopened`, `KillSwitchStops` |

**Bounds.** `MaxStates` bounds the rows of `graph_states`: three are the fewest for a
conflict whose disputed state is superseded and is then resolved by promotion, and for a
chain of two links. Two conflicts allow a pair that disputes the same two values in
opposite directions, or one state in two spellings, and two writers that open them side by
side; `MCRows` keeps that run from having three states as well. Two names are an entity and
its alias in both roles. Two corpus versions tell old from new, and two documents let one
be replayed while the other is not. `MaxVersion` (two changes of an entity) lets one thread
carry an old snapshot past a new one, and two entities are the ends of a relation;
`MCThird` follows a third one up to the merge that changes it and past it, while the other
thread rests. Eight turns are more than one window plus one batch limit, so that turns
leave the window unread and a follow-up is requested behind a slow batch. The five claims
of `truth` conflict, repeat, are refused by the policy or by the guard, expire and make no
event; three of them make events, so that a rebuild of the latest two leaves one out.
`MCUnsourced` lets a claim that makes no event be reconciled by itself only, and one of
them beside one event at most: its commits are the other thread's `NeighbourCommit`. Three
documents (`MCDocuments`) are two of one file under both keys and one of another. Two
pulses and two decisions let one pulse recover the other's run and meet a row that was
closed in between; a third pulse would play one of the two parts again. The theorems below
carry every safety property beyond these bounds. All actions fire in these instances.

**Fairness.** Two specifications have it. `CorpusPublication` has weak fairness on the
steps of an operation (a thread holding the lock goes on, no call waits for another) and
on `Open` (a host that lost its provider initialises it again). `PendingIsResolved` assumes
`EventuallyUp`: from some time on the process is not stopped in the middle of an operation.
Nothing bounds the number of crashes, so without this the property would not be expected.
`Tier2Scheduler` has weak fairness on the worker's steps only: the thread is scheduled and
extraction has a timeout. The host owes nothing. The other modules state safety only: in
`GraphPublication` and `CanonicalTruth` nothing that was cut short is taken up again by the
code, pulses may be killed for good, and syncs are run when somebody runs them.

**Properties with two writers.** `KeepsHistory` and `TruthSurvives` are stated of one
writer: with two, `WriteFails` closes a state without a successor (and by
`OnlyFailedWriteLosesTruth` no other step does). So is `ConflictFollowsEntity`: a merge on
the other thread may move the state between an upsert's read and its conflict; and so is
`TruthDoublesOnlyBy`, since two upserts may read that an entity has no current state and
both write one. The code claims them of one thread's calls. The other invariants of the
shelf hold for any number of writers.

## 4. Findings

1. **Two current truths** (`graph_one_current`). The operator accepts a conflict whose
   disputed state has been superseded since. The promotion closes the disputed state,
   which is history already, and inserts a second current state
   (`storage/graph_state_snapshot_store.py:517`). `graph_sequential` shows, and
   `TruthDoublesInThreeWays` proves, that with one writer there are two more ways to get
   there and no others: a merge of two entities, and the lost scope described below.
2. **Two answers of one exclusive slot** (`truth_answers`). An event names the events it
   supersedes only if the write's metadata says so, and no caller of the projection writer
   in the package does: a second identity value replaces the profile row while the event
   of the first stays answerable (`canonical_memory_event.py:206`). By `OneAnswerIfNamed`
   it would be enough, for one writer and no torn record, that a claim names the accepted
   events of another value on record; with two writers it would not, as neither of two
   events under way can name the other.
3. **A sync that hides its own documents** (`source_sync_scopes`). The keys of present
   files are logical, those of the documents are storage keys; a document under a scoped
   key looks missing to its own sync, which deactivates it (`source_sync_spine.py:333`).
   Nothing else makes a repeated sync work (`RepeatedSyncIsIdle`), and a single principal
   is safe (`OnePrincipalIsIdle`).

Each quotes the document or test it disagrees with in `PROJECT.json`. The models also
translate the following; where no property is named, no run asks about it.

* A promoted state loses its principal scope: the promotion decodes `metadata_json` from a
  row whose helper has renamed that key (`storage/graph_state_snapshot_store.py:523`). An
  entity with a scoped truth may get an unscoped one beside it: `TruthDoublesOnlyBy` names
  this case and fails without it.
* Ingesting the version that a hidden document already has answers "unchanged" and leaves
  it hidden (`storage/corpus_store.py:321`).
* A deactivation that the process does not survive between the index and the row leaves an
  active document that no search of the index finds, its journal row saying `published`;
  so does a quarantine in mid-session for every document but the next one published
  (`corpus_backend_chroma.py:131`). `StaleIsOnRecord` names both (`emptied`) and fails
  without.
* A publication that fails makes `ingest` raise before the evidence is rebuilt, and a rebuild
  that fails is logged and forgotten (`storage/semantic_index_store.py:482`): until the next
  change of the shelf in that scope it shows the old sections, or none (`AgreesAtRest`).
* Upserts of "Red", "Blue" and "blue" open two conflicts over one state: the same conflict is
  looked up by its exact text, although the same-value test and the lookup of the inverse one
  fold case and spacing (`storage/graph_state_snapshot_store.py:287`). `NoDuplicateConflict`
  claims what is left, and not of an entity that another one was merged into.
* A merge rewrites the relations of third entities and publishes the target only: their
  subgraphs stay as they were, their journal rows saying `published`
  (`storage/graph_state_core_store.py:272`). `StaleIsOnRecord` fails without this exception.
* A batch that is skipped because its route is unavailable, or raises before it reads the
  transcript, has used up its request and the count of its turns: nothing asks for them again
  (`provider/tier2_worker.py:327`, `provider/ingest_lifecycle.py:235`). `EndReadsWindow` and
  `RequestIsServed` name such batches and fail without. They are read only if a later batch
  still has them in its window.
* An accepted claim whose metadata flags it as a current assignment raises at its row, since
  no authority of Tier-2 may assign (`FlaggedQuoteIsRefused`); nothing of it is recorded, and
  the rest of its batch is not reconciled either.
* A sync without a principal that deactivates missing files hides every principal's documents
  that its folder does not give the path's key, those under scoped keys always, and overwrites
  whoever's document has a path's key (`source_sync_spine.py:247`,
  `storage/store_runtime.py:591`). A principal's sync in turn hides the unscoped documents its
  folder lacks. `OthersUntouched` names both and fails without.
* A deactivation while the backend is not mounted leaves no journal row, and the hidden
  document is found again later (`storage/corpus_store.py:394`).
* When the wait for the worker times out at session end, turns counted behind it are
  neither flushed nor kept pending (`provider/ingest_lifecycle.py:237`).
* Two threads that publish one entity may leave the older snapshot in Kuzu with the status
  `published`; `StaleIsOnRecord` fails without its exclusion `raced`. The operator's process
  has no Kuzu, a merged alias keeps its node there, and a bootstrap that was interrupted is
  not completed (`missed`). A backend disabled by the other thread makes an upsert raise
  whose row is committed (`JournalRaises`).
* A pulse that finds an event again sets it back to observed, whatever the operator has
  decided, and overwrites its metadata (`storage/proactive_store.py:256`). Suppressed and
  expired items stay counted among the open asks (`:508`). A recovery card's key covers its
  age, so each pulse makes a new event for the same interrupted run.
* A comparison or rebuild with a limit, 5000 unless given, deletes all L0 rows and puts back
  those of the latest events only (`storage/current_truth_l0_store.py:281`): the oldest events
  are no longer answered from until a rebuild with a higher limit. `ParityAtRest` names them
  (`cut`), and `NeverRevived` says that this brings back nothing that was held back.
* A derived profile write may inherit the permit that the stored row's metadata carries,
  since the two are merged before the guard looks (`storage/profile_store.py:398`).

## 5. What is proved

For every value of the constants that satisfies the named assumptions of the modules (TLC
evaluates them in the runs):

* **GraphTruth** (`BoundsAssumption`, `DataAssumption`): `TypeCorrect`,
  `SupersededStaysHistory`, `LedgerIsExact`, `HistoryStaysFinal`, `DisputesStayDistinct`,
  for any number of writers. Each step is first reduced, in `StepEffect`, to what it does
  to the tables: rows are appended or moved to another owner and only a current flag may
  fall (`Grows`), links are added to new rows only, and a conflict is closed together with
  one ledger row. `DisputesStayDistinct` is of both lookups of a conflict, by exact and by
  folded values. For one writer (`OneWriter`, an assumption of the theorems):
  `HistoryStaysLinked`, `TruthIsNotLost`, `ConflictsStayWithEntity`. The three lean on
  each other, and on `UpsertIsFresh`: between the read and the write of the only upsert no
  merge can fall, so the entity is still there and the state it read is still that
  entity's. A promotion keeps an entity's truth only because the conflict follows its
  state (`SequentialInv`); steps are reduced to `TruthStep` and `OwnersStep`.
  `ImplementsTruthHistory` is the refinement, again for one writer: `TableStep` is what
  the rows, flags and links of a step look like, and `HistoryStep` maps it. Without the
  assumption, `OnlyFailedWriteLosesTruth` maps every step but one, the superseding write
  that fails. `TruthDoublesInThreeWays` rests on `ReadIsExact`: what the pending upsert
  has read of its entity and scope is so when it writes, but for a promotion in between,
  which supersedes the state read or adds an unscoped one; `ScopedStep` is the common form
  of the steps that add no second truth.
* **GraphPublication**: `TypeCorrect`, `DerivedStaysDurable`, `StaleStaysOnRecord`. A
  snapshot is of uncommitted rows, yet the journal's commit comes before Kuzu's: past it,
  what a thread carries is durable (`Carried`), and the connection is never behind the
  disk (`Ahead`). An entity that differs in Kuzu is accounted for as long as it is under
  way: some thread still has to look at it (`Holds`), or publishes it as it is, alone
  (`AloneFor`), or it is raced, or the journal says so (`RecordFor`).
* **CorpusPublication**: `TypeCorrect`, `StaleStaysOnRecord`, `NothingStaysPending` under
  any faults, and `NoGhostWithoutFailures` when publications do not fail and the backend
  mounts. Between the call and the journal row the index is ahead of the journal, and
  during an open some pending rows are still queued: `RecordInv` says what the index holds
  at each step of an operation; `PendingInv` that every pending row is in the open's queue
  or is the row in hand; `GhostInv` that a document in hand for deactivation has an empty
  index by the time its row is closed. `OperationsEnd` (any finite set of documents) is
  the safety half of `PendingIsResolved`: each step of an operation lowers `Left`, the
  stages ahead plus seven for every document queued, one is always possible, and only a
  stop takes an operation away. `OnlyFaultsDivide` (`AgreesAtRest`) assigns to each of
  sections, evidence and index the faults that can part it from the hash on file: an
  operation leaves everything but its own document as it found it, and a rebuild, whichever
  scopes it takes in, what was right (`AgreeInv`).
* **SourceSync**: `TypeCorrect`, `DocumentsStaySingle`, `RunsCoverFolders`,
  `OthersStayUntouched`. A row under a principal's key is that principal's for good, and a
  principal's sync takes no row from another (`KeyIsOwn`), so the choice of a storage key does
  not change while a sync goes on (`KeysStay`); an unscoped sync may take the path's row, but
  not during another sync. `Progress` says what the sync has done
  so far of the folder it read. `RepeatedSyncIsIdle` (`IdleUnlessScoped`) and
  `OnePrincipalIsIdle` are the conditions under which what finding 3 violates holds: the
  last recorded run still covers its folder when the next one starts (`Settled`), and a
  sync of the same folder then finds nothing to write or hide (`Quiet`), as long as
  logical and storage keys agree.
* **Tier2Scheduler**: `TypeCorrect`, `BatchesExclude`, `StoreOutlivesBatches`,
  `RunningIsExact`, `RequestsAreKept`, `SessionEndReads`, all from one invariant `IInv`.
  It adds that the host, once past its wait, has no worker beside it (`HostWaits`), that a
  turn of the window which no batch has read or passed by is still counted or a request for
  it stands (`TurnsAreWaiting`: why the flush's guard misses nothing), and that a flush at
  work has read the window (`FlushHasRead`). `RequestComesCloser` is the safety half of
  `RequestIsServed`: a request has a live worker or one that raised, and each of the
  worker's steps brings it nearer to a batch that reads, is skipped or raises.
* **Admission**, about every input: `AnswerHasAuthority`, `AssistantNeverAnswers`,
  `SummaryIsNotAccepted`, `EventIsValid`, `AcceptedIsPermitted`, `FlaggedQuoteIsRefused`,
  `UnadmittedIsRefused`. They follow from the rules by cases, without a state.
  `AcceptedIsPermitted` is an equivalence: the guard turns away what the policy accepted for
  the assignment flag and for no other reason.
* **CanonicalTruth**: `TypeCorrect`, `AnswersAreBacked`, `SnapshotKeepsParity` and
  `ImplementsCurrentTruth`, the refinement, from `RecordInv`. Both copies of the database
  are sound by themselves (`Sound`); the connection is ahead of the disk by records under
  way only (`Ahead`); each step of a record may count on what came before (`Writers`); an
  event comes after those it names (`Ordered`); what a rebuild has left out is older than
  the rest and has no row (`Cuts`); a rebuild under way has replayed what is older than
  what it still has to replay, and answers from nothing that another replayed event names
  (`Replaying`, where the order of the replay counts); and unless a crash tore a record,
  what is not projected or marked is under way or left out (`Parities`). For the
  refinement, a commit publishes the rows that are new on the disk, the commit of a rebuild
  also withdraws, and every other step maps to a stutter. `OneAnswerIfNamed` is a theorem
  about callers the code does not have yet (`NamesRivals`, one writer): of two rivals on
  record one names the other, and one under way names all there are (`RivalsLinked`); with
  parity that leaves one answer.
* **ProactivePulse**: `TypeCorrect`, `CompletedIsProjected`, `AsksStayCounted`,
  `RowsStayClosed`, `KillSwitchHolds`. `PulseFor` says for each place of a pulse which of
  its candidates are projected; that a row outlives its event's decisions is what makes it
  last.

**Only model-checked**: the liveness properties `PendingIsResolved` and `RequestIsServed`.
Liveness under fairness and `ENABLED` are beyond the prover, as is induction over data; no
module has a recursive definition. What `OperationsEnd` and `RequestComesCloser` leave to
TLC is that fairness makes the steps happen. `OneCurrentTruth`, `OneAnswerPerSlot` and
`UnchangedSyncIsIdle` are violated and so not proved; `TruthDoublesInThreeWays`,
`OneAnswerIfNamed` and `RepeatedSyncIsIdle` say when they hold. `AgreesAtRest` and
`IdleUnlessScoped` are proved, and stand in no configuration.

## 6. Not modelled

* **Explicit writes and receipts.** One call of the host's thread writes, counts and
  reports. The barrier that teardown asks for is raised and lowered within a call, and
  teardown is a call of the same thread, so it never meets it raised.
* **Tasks and operating records.** Upserts by key in one statement; the guard they pass is
  in `Admission`.
* **Retrieval and packet assembly.** Scoring and selection over text: no state changes.
* **Diagnostics, installer, proof scripts.** Read-only reports and patches of another
  program's text, run once. They are most of the repository's lines,
  which is why the map covers a small share of the whole.
* Extraction by language models, text normalisation, metadata but for what a decision reads,
  and the host.

Of the components marked `partly`, what is left out is named in section 2 and in the
component's note: migrations, style contracts, snapshots at compression, and reports.

## 7. Plan

* Abstract specifications for more modules: a request that is coalesced and served
  (`Tier2Scheduler`), and a published map of documents (`CorpusPublication` and
  `GraphPublication`, with the journal as the set of keys that may differ). For each, the
  proof that every detailed step maps to a step or a stutter.
* Composition: the `ingest` of `SourceSync` with the steps of `CorpusPublication` between a
  document's row and its index; today the former has the row only.
* The consolidation of stable keys and the decision core gate, as operators of `Admission`.
* Two principals' scopes in one instance of `GraphTruth`: the runs have one scope beside
  unscoped truth, the theorems any number.
