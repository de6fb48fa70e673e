# A verification project for Brain-Eleven

Brain-Eleven keeps a "second brain" of a developer's work: hooks of a coding agent report that a
session ended, a local worker reads the transcript, extracts candidates (decisions, facts, state
changes), applies them or asks a person, and serves the result back to later sessions as context.
Everything durable is a file under one vault; every consistency promise rests on advisory file
locks, atomic replacement of one file at a time, revisions, and idempotency keys.

    hook -> launcher -> local service -> capture queue -> worker -> extraction
                            |                               |            |
                            |              review desk <----+            |
                            |                  |                         v
                            |                  +---> memory store / state store <- registry
                            |                                   |
                            +<- context <- compiler <- authority <- router <- views (graph, search, index)

The project follows an event along this path, and then looks at what works around the two stores:
the registry, maintenance, backup, the derived views, the choice and the delivery of a context, and
the upkeep that nobody watches. All paths below are relative to `src/`.

Run anything from this directory: `tlasany M.tla`, `tlc -workers 2 -config X.cfg M`,
`tlapm MProofs.tla`. The runs and the theorems are listed in `PROJECT.json`.

## 1. Inventory

| Component | State it keeps | Operations | What is hard about it | What makes it correct |
|---|---|---|---|---|
| Capture queue `scripts/capture_queue.py` | a JSON job in one of `queued/ processing/ completed/ dead-letter/`, a ledger of acknowledgements | enqueue, claim_next, start_processing, commit, retry_or_dead_letter, renew_claim, recover_expired_claims, requeue_dead_letters | each call is two or three durable steps; a crash between any two; leases | one copy of a job, one acknowledgement, bounded deliveries, accepted means eventually closed |
| Capture worker `brain_eleven/runtime/worker.py`, `evidence.py` | session checkpoint, capture receipt per job | Worker.once, process (chunk by chunk), receipt replay and verification | four files in a fixed order, redelivery, a growing transcript, mode switches | the checkpoint passes nothing unhandled; no effect twice |
| Review desk `runtime/review.py`, `runtime/service.py` | one file per proposal with status, intent, duplicate mark | add, list, accept, reject, expire, reject_matching, and the backfill's reoffer | the effect is in another file than the decision; groups are closed file by file | what is accepted is what was applied; one decision, one effect |
| Canonical memory `scripts/memory_truth.py`, `brain_eleven/memory/store.py` | `validated-memory.json`: memories, revision, operation receipts | process (preflight, replay, evaluate, apply, persist), API writes, lifecycle command, batch validator, receipt migration | five writers with different read-modify-write habits, batches, receipts | one memory per operation, true receipts, no lost write, one active memory per claim |
| Project state `brain_eleven/state/store.py`, `scripts/state_boundary.py` | `project-state.json`: per project revision, records, current milestone, references; audit log; receipts | init_project, typed mutations, apply with identity, migration | three nested locks shared with the registry and the memory | archived is read-only, references are alive, log is a chain, no circular wait |
| Project registry `projects/registry.py`, `identity.py` | projects, roots, status, capture policy, one-step backup | register, relocate, rename, set_status, migrate, rollback | the backup is written before the registry; readers look at it twice | unique ids and roots, archived projects capture nothing, a context is of the project it names |
| Runtime configuration and locks `runtime/storage.py`, `infrastructure/locking.py` | mode, scope, settings with a fingerprint | setters with compare-and-swap, enrollment | two setters at once, three files in turn | no setting is lost, an enrolled project has a state |
| Evidence reader and extraction `runtime/evidence.py`, `runtime/extraction.py` | none | read a chunk, find its boundary, extract candidates | chunk boundaries | every message is in exactly one chunk |
| Local service `runtime/service.py`, launcher `runtime/launcher.py` | `service.json`, `launch.json`, two locks, worker thread | start, publish, serve, idle stop, HTTP routes | processes that come and go while their files stay behind | one service, found by its name; a service comes back |
| Hooks and provenance `capture_event.py`, `hooks` | none | hook to enqueue, ownership of a transcript | hook time budget | a transcript of another session is refused |
| Maintenance delivery `runtime/maintenance_delivery.py` | intents in three directories, leases, staged and published reports | schedule, claim, run, stage, publish, fail | fencing, a crash leaves an intent in two directories | one report per intent, of one revision, every intent settled |
| Backup and restore `scripts/memory_backup.py` | archive | two-pass snapshot, publish, restore | writers go on while it reads | the archive is one moment of the vault, restored whole or not at all |
| Context for a task `runtime/context.py`, `task.py` | delivery receipts, reminder receipts | bootstrap, compile, deliver | receipt before delivery, stores that change while they are read | what a client gets is of one moment, once |
| Context router `context_router/`, authority `authority/`, retrieval decision `retrieval_decision_v2/`, density and compiler `context_density_v2/`, `context_compiler_v2/` | caches keyed by revision | route, resolve, decide, condense, compile | four components that read three stores without a lock; precedence, budgets | results of one moment of the request; nothing critical lost in silence |
| Search service, caches, graph `scripts/search-api.py`, `support/cache.py`, `graph/`, `scripts/embedding-generator.py` | three levels of cache, a graph file, an index of embeddings | search, graph endpoints, writes, rebuild, embed | currency of a derived view under writers elsewhere | an answer is as new as the last confirmed write, in its scope |
| Unattended upkeep `runtime/queue_triage.py`, `value.py`, `memory_audit.py`, `probation.py` | advice, audit report, probation record | triage, automatic acceptance, weekly audit, probation | minutes between read and write, runs side by side | nothing accepted unverified, no last copy retired, changes on record |
| Batch pipeline `scripts/memory-validator.py` and others | derived files | validate, compile notes | a rebuild over a document others write | only its write to the memory matters here |
| Backfill (its `_reoffer` belongs to the desk) and migrations, advisory features, support, chat, evaluations, templates | none, or reports | one-off or reporting | - | - |

How they interact: the worker and the desk call the two stores under an operation identity (job and
message, or review item) and find a receipt there after a crash; the stores share three sidecar
locks (memory, registry, state); the worker uses the queue and the review store as a client; the
desk, the API, the lifecycle command, the upkeep and the validator write the memory independently of
the worker; the views and the router read the stores without their locks and check revisions instead.

The hazards, each with its line and the properties that would catch it, are in `PROJECT.json`
(`hazards`). One has no property: a ledger line torn by a crash (`scripts/capture_queue.py:354`).

## 2. Modules

| Module | Models | Checked in | Proofs |
|---|---|---|---|
| `Delivery` | what the queue promises its client: new, ready, taken, done, dead | refined by `CaptureQueue`, used by `CaptureWorker` | `CaptureQueueProofs` |
| `CaptureQueue` | the queue at the grain of its durable file operations | `MCCaptureQueue` | `CaptureQueueProofs` |
| `CaptureWorker` | one session's jobs through the worker | `MCCaptureWorker`, `MCService`, `MCLiveness` | `CaptureWorkerProofs` |
| `ReviewDesk` | the review store and `review_action` | `MCReviewDesk`, `MCStores` | `ReviewDeskProofs` |
| `CanonicalMemory` | the memory document and all its writers | `MCCanonicalMemory`, `MCStores` | `MemoryProofs` |
| `ProjectState` | the state document, registry status and memory deletion, three locks | `MCProjectState`, `MCViews` | `StateProofs` |
| `ProjectRegistry` | registry, backup, settings, enrollment, readers of the registry | `MCVault` | `VaultProofs` |
| `MaintenanceDelivery` | intents, leases, reports | `MCVault` | `VaultProofs` |
| `Snapshot` | backup and restore | `MCVault` | `VaultProofs` |
| `ContextDelivery` | hook, request, receipt, reminder | `MCStores` | `HookProofs` |
| `ContextRoute` | four readers of three revisions, two caches | `MCViews` | `HookProofs` |
| `ContextSelection` | which records a context says | `MCScenarios`, `MCStores` | `HookProofs` |
| `LocalService` | the one service process and who starts it | `MCLiveness` | `HookProofs` |
| `SearchViews` | graph, caches, index, the HTTP handlers | `MCViews` | `UpkeepProofs` |
| `Housekeeping` | triage, audit, probation | `MCService` | `UpkeepProofs` |

The `MC` modules give values to constants and state symmetry. Five of them (`MCService`,
`MCLiveness`, `MCStores`, `MCVault`, `MCViews`) put parts that share no variable side by side: a
variable `focus` that the initial state chooses says which part moves, the others rest in one of
their initial states. Every part is thus explored alone and completely, the behaviours of the run are
those of the parts, and some parts appear twice under different bounds (two projects with fewer
calls, or one project with all of them).

### CaptureQueue

`disk[d][j]` is the document of job `j` in directory `d` (status, attempt, error code, stamp).
An operation is chosen and planned under the queue lock (`Enqueue`, `ClaimNext`, `StartProcessing`,
`Commit`, `RetryOrDeadLetter`, `Renew`, `RecoverJob`, `RequeueJob`), then makes its durable steps one
by one: `Write` (rewrite in place), `Move` (rename), `Log` (ledger line), in the order the code has
for that operation. `HolderCrashes`, `WorkerCrashes` and `OperationFails` may come before each step;
the lock is freed and the disk stays. `recover_expired_claims` and `requeue_dead_letters` loop over
directories; `todo` is what the loop has still to visit, and a crash in the middle leaves the rest.
A lease may lapse at any time (`LeaseLapses`), also that of a living worker, and `Renew` makes it fresh
again. The attempt is counted by `ClaimNext` before the move, as in the code. `Legacy` jobs are those
an older release moved to `completed/` before relabelling them; recovery closes them.

Left to abstraction: payloads, paths, timestamps (a small stamp tells claims apart), the JSON
checks (a document either has its type or the operation raises), torn ledger lines.

`Delivery` is the abstract specification: `ImplementsDelivery` maps the files of a job to its
abstract state (`AbstractOf`). The decisive step is the rewrite of the document, not its rename: a
document with status COMMITTED that still lies in `processing/` is done, because recovery (or the next
duplicate enqueue) finishes the move and the ledger line.

### CaptureWorker

One session: a transcript of `written` messages that grows, `heard[j]` messages of which were there
when job `j`'s hook fired. An attempt (`worker`) claims a job through `Delivery`, checks ownership,
looks for a receipt (`StartReading`, or `ReplayReceipt`, which verifies what the receipt lists and
restores its cursor without reading a message), reads chunks from the checkpoint
(`ReadIncrement`), passes each message (`Skip`, `AddReview`, `Apply`, `Reapply`, `ApplyRefused`,
`Unwelcome`), and ends with `WriteReceipt`, `PersistCheckpoint`, `Commit`. The mode is read between
chunks, and a switched-off runtime ends the attempt. `Crash` and `Fault` (an exception) may come
anywhere. What a message says is given by `Kind`: a record (`state`), a memory, the current
milestone (`phase`), something for a person (`review`), nothing (`noise`), or a candidate nobody
takes (`unsafe`). `Item` names the message whose review item a message of the same words shares
(`ReviewStore.add` answers with the item that is there): a receipt remembers that one item stands in it
`twice`, and `Proven` refuses such a receipt at every replay, as `_verify_receipt_operations` does. A
mode is one of OFF, SHADOW, ACTIVE, and two kinds of ACTIVE in which `apply_candidate` leaves everything
to a person: APPROVAL (`b1_human_approval`) and OUTSIDE (SCOPE_ERROR, the project is not enabled);
`Serving` says in which the worker works at all. `oplog` are the operation receipts of the stores; `applied` counts the records made.
People act in between: they accept or close review items, finish a milestone, set another, switch
the mode, revive a dead letter.

### ReviewDesk

One file per proposal. `Accept` writes the intent with the edit and the expected revision; `Effect`,
`Replay`, `Stale`, `OutOfScope`, `Failed`, `NotYet` are the answers of the canonical store; `FindGroup`
reads the group once more, as `finish` does, and `CloseFile` writes the terminal status of one file of
it after another. `Reject` closes groups the same way, `Sweep` (reject_matching) by rank, `Expire` single
files. `Reoffer` is the `_reoffer` of a backfill, which makes an expired proposal pending again and does
not take the index lock: it may come in the middle of a decision, and what it brings back is then
closed with the group and may even be its primary (`strays`). `Recent` are the proposals whose transcript
a backfill still reads. One backfill runs at a time: nothing in the code keeps a second one out, and
between the read and the write of its `_reoffer` a person could decide what the first one brought back.
`Crash` frees the index lock and leaves the files. `Switch` turns the mode or the project's scope on and off, and other
writers (`Write`) move the revision. The order in which a group chooses its primary is `Rank` (lowest
first), or `LateRank` with the date a backfill gives; `finish` writes files in the order of their numbers;
the orders differ on purpose.

### CanonicalMemory

`mem` is the sequence of memories in the order of creation, with text, claim key, status, the list
they are in and the operation they were born from. The truth engine is followed step by step:
`Process` (registry preflight), `Replay` (a receipt answers), `Refuse` (no receipts yet, another
request, a stale revision, a closed project), `Unavailable`, `Reload` (under the store lock), `Apply`
candidate by candidate over the transaction's working copy (`Evaluate` reads the memories from before
the batch, as the code does), `Persist` (receipt and effect in one replacement). `Dies` is a crash.
The other writers are single transactions with the state they really read: the API inside the lock,
the lifecycle command over a document loaded earlier (`ManagerLoads`, then `ManagerSaves` or
`ManagerConflicts`), the validator rebuilding both lists from what it read and validated
(`Validate`), the receipt migration.

### ProjectState

A mutation is `Begin`, `Guard` (hold the memory lock while a referenced memory is looked up), `Enter`
(registry lock, status check, state lock), `Mutate` (replay an identity or compare the revision, apply
one typed change, log one event, replace the file, free the locks). `Fails` may come at every step.
`Archive` and `Delete` are the registry and memory writers, under their locks. The migration takes the
memory lock, then the state lock, and never the registry's. The audit log is cut to `MaxEvents`.

### ProjectRegistry

`registry`, `backup` and `config` are the three files. A mutation (`RegisterNew`, `RegisterKnown`,
`Relocate`, `Rename`, `SetStatus`, `SetProactiveCapture`, `MigrateLegacyOptIn`, `Rollback`) is computed
under the registry's lock into `client[c].next`, then `WriteBackup` and `WriteRegistry` are two durable
steps; `ClientFails` comes before either. Enrollment registers (or opts in, or finds) the
project, initialises its state and enters it into the scope: three files in turn, and the client may
stop after each. A setter reads the
configuration, then commits if the fingerprint is still that of what it read (`Commit`). `ComposeBegins`
and `ComposeEnds` are the reader that looks at the registry at the beginning and at the end of a
composition; `LineageIsCurrent` is what its lineage check accepts later.

### MaintenanceDelivery

`intent[d][i]` is the document of intent `i` in directory `d`; a claim is written in place with a lease
(`Claims`), only for the first queued intent. A pass resumes a staged report or runs the maintenance
(`Resumes`, `Runs`), checks and stages it (`Accepts`, `Stages`), publishes, writes the final document
and only then removes the queued one (`Publishes`, `Completes`, `Unclaims`), all under the index lock
and only while it owns the lease. `LeaseRunsOut`, `Raises`, `TimesOut` and `Dies` may come anywhere,
`CanonicalWrite` moves the source revision.

### Snapshot

`vault` holds the four sources, `saving` the backup (attempt, pass, what each pass has read so far),
`moments` (a history variable) what stood together in the vault during the attempt. `Compares` is the
code's comparison of two passes; `PublishesArchive` puts the archive in place unless a rival's lies
there. A restore copies into a stage and renames (`Copies`, `Replaces`), `RestoreCrashes` anywhere.

### ContextDelivery

A hook takes the session lock, probes the service, asks, waits, flushes the answer to the client,
records the delivery (`HookStarts` ... `RecordsDelivery`). Its request is a process of its own in the
service and goes on when the hook has given up: it reads memory and state, looks for a report, checks
both revisions again, and acknowledges the reminder before it answers (`ReadsMemory` ... `Acks`). The
owner may switch the mode, the stores change, hooks and service die. `moments` are the pairs of
revisions that stood together; `torn` counts emissions whose receipt was lost.

### ContextRoute and ContextSelection

`ContextRoute` abstracts what is read to its revision: a request composes the task's state, routes,
resolves and compiles; each component reads memory, state and registry for itself and checks some of
them again (`ReadsSnapshot`, `Lineage`, `ChecksInputs`, `ChecksCoverage`), and two caches are shared by
all requests. `ContextSelection` lets the stores stand still and models the choice: `Retrieves`
(tiers, graph, aliases, sweep), `Resolves` (chains, duplicates, blockers), `Decides` (needs, acceptance,
groups), `Condenses`, `Compiles` (mandatory needs, budget as estimated and as rendered, rebalancing).
Scores are abstracted: where one of several candidates is preferred for its score, any is.

### SearchViews

`past` is the sequence of all contents the memory has had, the last one is on disk, so that a revision
names a content. A server is in one request at a time (`request[s]`): `Search`, `LooksUp`, `LooksOnDisk`,
`Backfills`, `Computes`, `Stores` for a search through three levels of cache; `AskGraph`, `Views` and the
rebuild (`BuildLoads`, `BuildChecks`, `BuildSaves`); `Commits`, `Clears`, `Flushes` for a write. What a
search finds is limited as in the code: the lexical channel proposes active memories whose text is in
`Matching` (five percent of the words), the semantic one every memory with a vector of its text, closed
ones too; each keeps `Limit` of them (10) and both together `TopK` (5 unless asked otherwise), and which
are best is open. The scopes are collapsed to two disjoint ones, global and one project. The
generator of the index holds its vectors (`Embeds`) and merges them into the file (`Saves`). `Tick`
ages the entries.

### Housekeeping

A run of the triage reads the candidates and the advice (`SortBegins`), merges its verdicts over the
file as it is then (`SortMerges`), loads it again and accepts one candidate after another (`ApplyLoads`,
`Applies`). Audit and probation collect what is alive and what is protected, compare, look again before
each retirement (`RetireLooks`), retire (`Resolves`), and write down (`WritesDown`). Persons decide, write
advice, switch the automatism and retire at any time.

### LocalService

A hook that gets no answer takes the launch lock, decides, spawns, marks `launch.json`; a process
takes the lock `runtime/server` or leaves, publishes its name, serves, closes, removes its name and its
launch, releases. `GoesIdle`, `ServerDies`, `AskerDies`, `CallTimesOut` and `OwnerTurns` are free within
`MaxStops`. A number of a process is given again when nothing refers to the one that had it.

## 3. Runs

| Run | Question | Bounds and why they are enough |
|---|---|---|
| `queue` | does any interleaving of calls, crashes and I/O errors break the disk, the ledger or the claim, or step outside `Delivery`, and is every accepted event closed? | 2 jobs (a full queue of 1 and a job beyond it; the second may come from an older release), 2 attempts (a retry and a burial), 2 faults (a crash during the recovery of a crash), 1 requeue, 2 stamps |
| `service` | what do the worker on a session and the upkeep do while nobody looks? | worker: 2 symmetric jobs sharing 3 messages of different kinds, a chunk boundary between them, 2 attempts, 1 revival; never a revived job beside one that waits, runs or is dead; refusal: 1 job, a fourth message that repeats the second and a fifth that nothing takes, with and without the approval switch; sorting: 2 triages, 2 candidates, 2 acts of persons, 3 runs; retiring: 2 audits and the probation, of which two run, and 1 act, over 4 memories, 3 of them copies (`UpkeepInvariant` is for any number) |
| `liveness` | do the service and the worker come to their ends? | 3 processes (one leaves, one loses, one wins), 2 hooks with one stop or one hook with both; 2 jobs, 1 milestone, modes OFF and ACTIVE |
| `stores` | do the writers of a store keep each other's work, is a decision what was applied, is a context what the stores hold? | memory: 2 operations (worker, desk) and the command line, one seed with or without claim key, 3 memories, 2 manual writes: every pair of writers and a third in between; desk: 3 duplicates whose rank order differs from their file order, 2 texts, 1 crash, and either 1 foreign write and 2 switches or a backfill that may offer one of them again; delivery: 2 hooks, session start and a prompt, 2 store writes, 1 fault; selection: every choice from some thousand stores of up to three records (`MCScenarios`) |
| `vault` | registry, settings, maintenance, backup | 2 identities, 2 roots, 2 clients, 4 calls (3 when two projects are there); 2 intents, 2 passes, 2 tries, 2 faults (1 when both intents are open); 2 attempts of a backup, 3 writes, 1 crash of the restore |
| `views` | state document and locks; graph, search, index; route | 2 projects, 2 writers and the migration, 2 events (the log is cut), revision 3; 2 servers, 2 memories of 2 scopes, 2 texts, caches of one entry that lives 2 ticks, 2 commits; where answers are cut, 1 server and 2 memories of one scope for an answer of 1; 2 requests, 1 or 2 plans, 1 retry, 2 changes (1 with two plans). Processes are symmetric in all three parts |
| `queue_requeue` (violation) | is a requeued job delivered? | 1 job, 1 attempt, 1 fault suffice |
| `worker_replay` (violation) | is a job with a receipt safe from burial? | 2 jobs, 1 milestone message |
| `desk_duplicate` (violation) | can a group make a second effect? | 3 duplicates, 1 crash |
| `memory_receipts` (violation) | does a receipt survive the batch validator? | as `stores` |
| `context_authority` (violation) | does a superseded memory stay superseded? | chains of 3 memories under every order of identifiers |
| `worker_repeat` (violation) | is a job whose receipt names review items safe from burial? | 2 jobs, 2 messages of the same words, 2 attempts |

What the properties say, in the words of the code:

- Queue. `FilesAreSound`: a job is never in two directories, and no crash leaves a document on which a
  loop over a whole directory raises, which would stop all jobs. `AcknowledgedOnce`: one ledger line per
  commit. `BoundedDelivery`: at most `max_attempts` deliveries, although the attempt counter itself can
  run past it. `OwnerKeepsJob`: nobody moves the job the worker is running. `ImplementsDelivery`.
  `AcceptedIsClosed`: a hook's receipt means committed and acknowledged, or a dead letter, with the one
  exception that is finding 1.
- Worker. `NothingSkipped`, `CommittedIsCovered`, `ExactlyOnce` (while the mode stays what it is: an
  increment read again in ACTIVE after SHADOW may apply what a person has accepted),
  `BuriedByFaultsOnly` (of sessions that say nothing the code itself refuses, and nothing twice: finding
  6), `SpokenIsHandled`.
- Desk. `AcceptedAsApplied`: the text a proposal is marked accepted with is the one in the store.
  `IntentOutlivesEffect`: a retry after a crash can only finish what was begun, while mode and scope
  stay and no backfill brings it back from expiry. `OneEffectUnlessCrash`, `RefusedIsNotApplied`: without a
  crash, a group makes one effect and what is refused made none. `DecisionIsFinal`: accepted and rejected
  are for good, and an expired proposal is decided only after it was offered again.
- Memory. `ReceiptsAreSound` (one memory per operation, a receipt tells what the file holds),
  `NoLostWrite`, `CommittedIsConfirmed` (a repeated call hears of its commit whatever changed since),
  `OneActiveClaim` (as long as no batch commits several candidates at once: they are evaluated against
  what was there before).
- State. `DocumentIsSound` (the log is a bounded chain, receipts agree with it, an operation is made
  once), `ChecksHoldAtCommit` (archived is read-only, references are alive when they are written),
  `NoCircularWait`.
- Vault. `RegistryIsKept` (no shared identity or root, archived does not capture, the backup is the
  registry of at most one change ago, an accepted context is of the project as the registry has it),
  `ConfigurationIsKept`, `ReportsAreSound`, `ReportIsFinal`, `SessionEndIsSettled`, `BackupIsWhole`,
  `ArchiveIsFinal`.
- Context. `DeliveryIsSound` (of one moment, its reminder too and once, a turn again only for a lost
  receipt), `RouteIsSound` (routes and verdicts are of a moment of their request and for its plan),
  `ContextIsFit` (in scope, within budget, and never complete while a critical need is lost).
- Views. `GraphIsTrue`, `AnswersAreSound` (no older than the last confirmed write, in scope, not over its
  age, and a search lacks an active memory that matches only if it is full), `IndexIsMerged`.
- Service and upkeep. `ServiceIsReachable`, `ServiceSettles`, `AuditIsRecorded`, `UpkeepIsGuarded`.

Every property has mutants in `PROJECT.json`: a plausible bug in a mapped definition (a dropped check,
an order swapped, a wrong count) under which the same run finds the property violated. They are the
operators preceded by a comment starting "Bug:".

`CHECK_DEADLOCK FALSE` stands in the runs whose bounds let the system come to rest (all calls made,
all writes used). The queue's runs check deadlock: the worker can always poll.

### Fairness

- Queue (`Fairness` in `CaptureQueue`): weak fairness for the durable steps of whoever holds the lock,
  and for the worker's calls: recovery, claim, start, commit, retry. The service's `worker_loop`
  (`brain_eleven/runtime/service.py:189`) calls `Worker.once` forever, and `once` recovers before it
  claims; `retry_or_dead_letter` follows in `once` when an attempt failed. Leases lapse because clocks
  advance. Hooks and the operator owe nothing, but a requeue once begun visits its documents. Faults are
  bounded (`MaxFaults`), which is the assumption that the machine is not broken for good.
- Worker: weak fairness for an attempt at work and for recovery and claim of each job, for the same
  reason. The mode switches and the people are free; `SpokenIsHandled` therefore assumes that the
  runtime is not off for good. Faults need no bound of their own: each ends an attempt, and a job has
  `MaxAttempts` of them.
- Maintenance: weak fairness for the steps of each pass (the worker loop calls it again and again) and
  for each lease to run out (300 seconds of the clock).
- Local service: hooks keep coming as long as somebody works, processes go on, ten seconds pass. Stops
  are bounded and `ServiceSettles` assumes that the mode is not OFF for good.

### Findings

1. `queue_requeue`: a crash between the rewrite and the rename in `requeue_dead_letters`
   (`scripts/capture_queue.py:562`) leaves a QUEUED document in `dead-letter/`. No operation delivers it:
   claim_next reads `queued/`, recovery reads `completed/` and `processing/`, a second requeue wants
   DEAD_LETTER, and enqueue answers DUPLICATE.
2. `worker_replay`: `_verify_receipt_operations` (`brain_eleven/runtime/worker.py:580`) looks for the
   record of an earlier milestone in `current`; when the owner has finished it and set another, the
   replay of a crashed job is refused at every delivery and the job buried, although its effects stand.
3. `desk_duplicate`: the operation identity is the id of the primary of the moment and `finish` closes
   the files one after another (`brain_eleven/runtime/review.py:325`), so a crash before that and a better
   duplicate later make a second canonical effect, which the comment at `runtime/service.py:69` excludes.
4. `memory_receipts`: `save_output` of the batch validator (`scripts/memory-validator.py:940`) clears the
   document and writes only what it built: the receipts of the runtime are gone and the schema is back
   at 2, which `MemoryStore.replace` (`brain_eleven/memory/store.py:257`) refuses on its own path.
5. `context_authority`: `resolve_metadata` (`authority/policy.py:173`) writes the statuses of a
   supersession chain in the order of the identifiers; a superseded memory whose predecessor sorts after
   it ends AUTHORITATIVE.
6. `worker_repeat`: a sentence that needs a person is said twice in one increment.
   `ReviewStore.add` (`runtime/review.py:216`) answers the second with the item of the first, because the
   fingerprint takes the extractor's evidence, a tuple, for none; the receipt then lists the item twice, and
   `_verify_receipt_operations` (`brain_eleven/runtime/worker.py:455`) refuses it. One crash before the
   acknowledgement and the job is refused at every delivery until it is buried.

Observed while modelling, and kept as the code has it: living owners may try a maintenance intent
beyond `_MAX_ATTEMPTS`; a crash while an intent fails leaves it in `failed/` and in `queued/`; an
invalid pass ends a backup although its docstring speaks of retries; `Excuses` overwrites the receipt of
a bootstrap that was delivered; a reminder acknowledged for a hook that timed out is lost; a route with
a stale graph is cached as DEGRADED; a result without the semantic part is cached under the key of the
full one; the embedding of a changed text refuses its whole batch; an audit that dies leaves RUNNING
and the next comes a week later; when audit and a person retire at once, the last copy may go (the
properties excuse it, `memory_audit.py` does not); `_active_memory_ids` (`brain_eleven/runtime/value.py:232`)
counts `resolved` memories as there, so that a candidate may stay hidden behind one that is gone, against
the comment at `value.py:257` (no run checks this).

## 4. Proofs

TLC checks the instances above; TLAPS proves the following for every value of the constants that
satisfies the `ASSUME`s of the modules. These say little: the names of
jobs, intents, proposals and processes differ from what stands for none; records of a context are ordered; bounds are naturals and limits positive; `Kind`, `Rank`,
`Owner`, `Twin`, `Life` are functions of their types; `Rank` and `LateRank` give no place twice; a
message that shares a review item follows the one it shares it with and is of its kind; the worker and the desk hand over
one candidate at a time (`OneAtATime`); what a vault begins with has no claim twice and nothing of an
operation (`SeedsAssumption`). TLC evaluates them in every run. Finiteness is assumed only of the
proposals of the desk and of the memories a search chooses from.

Each component has one inductive invariant, its properties follow from it, and each proof is laid out
alike: the invariant holds initially, every action keeps each of its parts (a lemma per action or per
group of actions), the theorem by temporal logic.

- **Queue** (`CaptureQueueProofs`): `TypeCorrect`, `QueueInvariant`, `QueueFilesAreSound`,
  `QueueAcknowledgesOnce`, `QueueBoundsDelivery`, `QueueKeepsOwner`, `QueueImplementsDelivery`. The
  safety properties alone are not inductive, because a step between a rewrite and a rename leaves a
  document whose status disagrees with its directory; `LockInv` and `EffectInv` say what the lock holder
  has planned and that the disk agrees with the plan at each stage (`WritePlan`, `MovePlan`), `TodoInv`
  what a loop will still meet, and `DeliveryInv` that the history count of deliveries never exceeds the
  attempt in the document and that a document on its way to delivery has a delivery left. The refinement
  shows each durable step to be one step of `Delivery` or none.
- **Worker** (`CaptureWorkerProofs`): `WorkerInvariant`, `WorkerTypes`, `WorkerSkipsNothing`,
  `WorkerCoversCommitted`, `WorkerExactlyOnce`, `WorkerEvidence`, `WorkerBuriedByFaults`.
  `NothingSkipped` needs that whatever lies before the attempt's position is handled (`AttemptInv`),
  that the last chunk reaches what its job heard (`ChunkInv`), and that a receipt covers what its job
  heard (`JobInv`); that handled stays handled (`HandledStays`) carries them over steps of others.
  `WorkerExactlyOnce` assumes `[][UNCHANGED mode]_vars` in its statement: then a message goes one
  way only, to its store, where the receipt remembers it, or before a person, where the closed review
  item does, unless it is a memory, which its fingerprint recognises whichever way it comes (`OnceInv`).
  `WorkerBuriedByFaults` needs that every claim of an attempt or a receipt is backed by the stores, so
  that no replay of a plain session is refused (`EvidenceInv`), that no receipt of such a session lists an
  item twice (`ListedInv`), and that each delivery of a job that is not done has been
  paid for with a fault (`BlameInv`).
- **Desk** (`ReviewDeskProofs`): `DeskInvariant`, `DeskTypes`, `DeskAcceptsWhatItApplied`,
  `DeskDecidesOnce` from `DeskInv`: while a call holds the lock what it decides and has still to close is
  pending, whatever a backfill adds, and, past the store, its effect is there. `DeskKeepsIntent` adds what holds while mode and scope stay (`SteadyInv`);
  `DeskMakesOneEffect` and `DeskRefusesOnlyTheUnapplied` what holds before the first crash (`CalmInv`).
- **Memory** (`MemoryProofs`): `MemoryInvariant`, `MemoryClaims`, `MemoryReceipts`, `MemoryNoLostWrite`,
  `MemoryConfirms`. The receipts are true of the file and stay true under every writer; the log of a
  transaction tells what has been applied to what it read; who may still save holds what the file holds;
  a memory of an operation has its receipt, so that the next call is answered from it; claims are held
  once unless a batch was committed. The lemmas about `Grows` (what a later content may differ in) are
  shared by all writers and by `MemoryNoLostWrite`.
- **State** (`StateProofs`): `StateInvariant`, `StateDocument`, `StateWaitsInOrder`, `StateChecksHold`.
  The invariant says who holds which lock by what it is at; that a fact that was checked (the project is
  active, the memory is there) holds as long as the lock it was checked under is held; and that log,
  revisions, receipts and effects agree (`FileFits`). `NoCircularWait` follows because the holder of the
  last lock in the order memory, registry, state wants none that is taken.
- **Vault** (`VaultProofs`): `RegistryInvariant`, `RegistryTypesHold`, `RegistryKept`,
  `ConfigurationKept` (one writer of the registry at a time, who has what is on disk; the backup is of at
  most one change ago; a context is true of the registry it names; what a client was told is in the
  settings and in what any other client may still commit); `SnapshotInvariant`, `BackupWhole`,
  `ArchiveFinal` (revisions are never given twice, so two passes that agree have a moment between them at
  which all authorities stood so); `MaintenanceInvariant`, `ReportsSound`, `ReportFinal` (each try is
  claimed once; who is in the group of writes is the owner, and how far it has come says whether its
  report is out).
- **Hooks** (`HookProofs`): `ServiceInvariant`, `ServiceFound` (one holder of the lock, and the name
  follows what it is at); `RouteInvariant`, `RouteSound` (revisions only grow; the revisions of every
  cache entry stood together once, and for each request that moment lies within its time or below all it
  has seen, so that what it will accept is within its time); `SelectionInvariant`, `SelectionFit` (each stage
  passes on what is judged and in scope and, of a task, active, not secret and of each claim one; so the
  compiler, which says some of what is eligible and all that is mandatory or else nothing, loses nothing
  that is eligible, and what is critical is mandatory; sums of costs stay opaque);
  `DeliveryInvariant`, `DeliverySound` (each
  check of a request pins one revision to a moment; a reminder that is answered has its receipt; one hook
  of a session is busy; a turn is owed to its receipt from its emission on).
- **Upkeep** (`UpkeepProofs`): `ViewsInvariant`, `ViewsGraphs`, `ViewsAnswers`, `ViewsIndex` (a graph, saved or served, is
  the projection of the revision it names; an entry of the cache is of the revision in its key and no older
  than its level allows; what a request has read is not older than what was confirmed when it came; what was cut is full);
  `UpkeepInvariant`, `UpkeepRecords`, `UpkeepGuarded` (what a run would accept was verified and permitted;
  what a run believes alive, without what it retired itself, is alive unless somebody raced it; what it
  retired alone is recorded or about to be).

Only model-checked: liveness (`AcceptedIsClosed`, `SpokenIsHandled`, `ServiceSettles`,
`SessionEndIsSettled`), because liveness under fairness and ENABLED are out of TLAPS's reach here, and
the violations. Every safety property of a passing run is a theorem. No safety property needs
induction over data, and no module declares a RECURSIVE operator.

## 5. Not modelled

- Text: parsing transcripts, extraction, prompts, scoring, ranking, rendering. A message is a kind, a
  memory's content is a fingerprint, a score is any preference.
- The lock primitives (fcntl, Windows mutexes) and the atomicity of `os.replace` are taken as given; a
  rename is atomic, a write is whole or absent. A torn ledger line (`scripts/capture_queue.py:354`) is
  therefore a hazard without a property.
- Support, chat, evaluations, templates, migrations and the backfill but for its `_reoffer`: operating-system, one-off or reporting
  work without a promise the stores do not already make. Cards, notes and counters are advisory: the
  models leave open what they would prefer.
- `LocalService` takes reading a name and calling it as one step; a stale read is a `CallTimesOut`. An
  attempt in `asyncio.to_thread` may outlive the server's lock; the worker's own lock keeps the next
  service's worker out, which is `CaptureWorker`'s single attempt. A process id is alive as long as its
  parent has not looked.
- In the modelled parts: `PROJECT.json` names in each component's note what is left out.

## 6. Plan

| Step | Content | State |
|---|---|---|
| 1 | `Delivery`, `CaptureQueue` and the refinement | modelled, checked, proved |
| 2 | `CaptureWorker` over `Delivery` | modelled, checked, safety proved |
| 3 | `ReviewDesk` | modelled, checked, safety proved |
| 4 | `CanonicalMemory`, `ProjectState` | modelled, checked, safety proved |
| 5 | `ProjectRegistry` with settings and enrollment, `MaintenanceDelivery`, `Snapshot` | modelled, checked, safety proved |
| 6 | `ContextDelivery`, `ContextRoute`, `LocalService` | modelled, checked, safety proved |
| 7 | `SearchViews`, `Housekeeping` | modelled, checked, safety proved |
| 8 | `ContextSelection` against what its stages promise | modelled, checked, proved |
| 9 | provenance of a captured transcript, `apply_batch` of the state, the scope migration of the memory, the V1 ranking | open |

The composition of `CaptureWorker` with `ReviewDesk` and the stores is kept at their interfaces (an
operation identity, a receipt, an effect made once): the worker model assumes of the stores what
`MemoryReceipts` and `StateDocument` prove, and of the queue what `QueueImplementsDelivery` proves.
