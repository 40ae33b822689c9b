# Verification of imsg

TLA+ models of the concurrent parts of `imsg` (`src/src/imsg`), TLC
configurations that check them on small instances, and TLAPS proofs of the
properties that matter most. Paths below are under `src/src/imsg/` unless they
say otherwise. `PROJECT.json` maps every definition to the lines it stands for.

## 1. The system

`imsg` copies the Messages database (`stages/snapshot.py`), extracts rows into
PostgreSQL (`stages/extract.py`), resolves people (`stages/identity.py`), cuts
conversations into segments (`segment/`), describes attachments (`enrich/`),
embeds everything (`embed/`: pgvector, and an FTS5 sidecar fed from an outbox),
and serves searches: a local MCP server per client session, one public MCP
server, a search page. A filtered export leaves the machine only after review
(`export/`).

Everything runs on one host with one GPU and one memory. Many processes load
multi-gigabyte model sets, most of them started by launchd and by clients at
times nobody coordinates. They coordinate through files and flocks, and that is
where the hard behaviours are.

| Part | State it keeps | Operations | Talks to |
|---|---|---|---|
| **Memory admission** `memory_admission.py`, `live_server_notice.py`, `background_gate.py`, `host_memory.py` | the admission flock; a reservation file per process; a notice file and flock per waiting live server | check, release, release_for_reload, tick, gate.admit, between_units | every process that loads models; the kernel (memory, pressure, process death) |
| **Heavy-model lock** `heavy_lock.py` | the lock's flock and holder details; the waiting room's flock | acquire (announced, or polite), waiter_present, release, inspect | all background commands; `enrich/worker.py` hands it over |
| **Enrichment queue** `enrich/queue.py`, `worker.py`, `pipeline.py`, `planner.py` | a row per (attachment, kind): state, attempts, next_attempt_at, lease; chunks and index events | enqueue, claim, complete, fail, fail permanently, skip, release, reset_failed | heavy lock, admission, PostgreSQL, decoders |
| **Models of a live server** `retrieval/background_warm_up.py`, `idle_unload.py`, `model_thread.py`, `public_model_hold.py` | the warm-up's phase; the model thread's queue; calls in flight; what the models were dropped for; the hold file | start, one pass, mark_unloaded, the watchdog's checks, a call, set and clear a hold | admission; tool calls; the operator |
| **FTS sidecar outbox** `embed/fts/sync.py`, and its writers `segment/pipeline.py`, `enrich/pipeline.py` | `search_index_event`; the sidecar's rows and `applied_event_id` | emit in the writer's transaction, apply in id order | heavy lock, PostgreSQL, SQLite |
| Search yield `search_yield.py`, `db/enrichment_yield_locks.py` | an advisory-lock marker per search | mark, wait (bounded) | servers, segment, embed, enrich |
| **Export gate** `export/` | the runs and their items; what each document was pushed as; the staged manifest | plan, approve, push, purge-person | allowlist, eligibility, corpus, the bucket and the index behind the transport |
| **Attachment backfill** `backfill/` | a materialization state and attempts per attachment; a row per known copy with its outcome; the staging directory and the cache | backfill (own paths, then copies), push plan, push results, locate | file systems, other hosts, the queue's planner |
| Stages and sync `stages/` | per-source watermarks | snapshot, extract, identify | PostgreSQL |
| MCP surface `mcp/` | tokens, rate buckets, the audit queue | authenticate, dispatch, audit | retrieval |
| Backup, evaluation, verification, agents, configuration, diagnostics | files and reports | sequential jobs | - |

What makes each of the parts in bold correct, and what is hard about it:

* **Memory admission.** No memory is promised twice; running processes leave the
  reserve free; live servers come first, and background work is neither admitted
  beside a waiting server nor held back for ever. Hard: a check is a sequence of
  reads of things other processes change, and only the check is under the lock.
* **Heavy-model lock.** One model set at a time; nobody who announced that it
  waits is overtaken by enrichment more than once, nor waits for ever. Hard: two
  flocks and a look that can be stale by the time it is used.
* **Enrichment queue.** An outcome is recorded by the worker that holds the row;
  done means published; every task is settled. Hard: outcome statements name the
  row and not the lease, leases expire under slow workers, workers are killed.
* **Models of a live server.** A query's model call finds models; models in
  memory are reserved; a hold frees the memory; a warm server comes back. Hard:
  three threads, a queue of jobs between them, and state read before a lock and
  used under it.
* **FTS outbox.** Whatever the sidecar has wrong is still ahead of its watermark, and a sync
  that runs catches up. Hard: an id is given out before it is committed, and the sidecar never
  looks back; a sync reads an entity as it is now, not as it was.
* **Export gate.** Nothing is stored of a chat that no approved run and no purge planned; at its
  verification a push has nothing before it that the gate would deny; what is recorded as pushed or
  purged is; an ok run leaves the store as the corpus is. Hard: plan, approval and push are days
  apart and each reads a world that changes; a push fails or dies between any two statements and is
  run again from what it recorded.
* **Attachment backfill.** What was fetched stays fetched; a staged copy is kept while somebody needs
  it; a certain copy is preferred to a probable one; an attachment is given up after its attempts and
  not before. Hard: a push reports hours later about rows that have moved on, two attachments share
  a file, and every run may be killed between two statements.

The hazards, each at its line with the properties that would catch it, are in
`PROJECT.json`.

## 2. Modules

| Module | What it is |
|---|---|
| `MemoryAdmission` | admission as seen from the whole host: live servers and background commands |
| `MemoryAdmissionProofs` | theorems about it |
| `MemoryRoomProofs` | the arithmetic ones: that what was promised fits |
| `AdmittedServer` | the contract between a live server and the admission |
| `PoliteLock` | abstract specification of the heavy lock: an owner, an announcement |
| `HeavyLock` | the two flocks, the holder file, the status probe, the worker's hand-over |
| `HeavyLockProofs` | theorems about it, the refinement of `PoliteLock` among them |
| `TaskLedger` | abstract specification of the queue: what becomes of a task |
| `EnrichQueue` | the queue's rows, the planner, the workers |
| `EnrichQueueProofs` | theorems about it |
| `Mirror` | abstract specification of the sidecar: a copy that may be behind |
| `FtsOutbox` | the writers' transactions, their events, `sync_fts` |
| `FtsOutboxProofs` | theorems about it |
| `ServerModels` | one live server: model thread, watchdog, calls, hold |
| `ServerModelsProofs` | theorems about it |
| `ExportRun` | export runs: plan, approve, push, purge, against a world that changes |
| `ExportRunProofs` | theorems about it |
| `Backfill` | backfill runs beside a pushing host, new evidence and new paths |
| `BackfillProofs` | theorems about it |
| `MC*` | instances for TLC |

The modules meet at shared variables that one of them opens and the others
abstract. `HeavyLock` opens what is the variable `heavy` in `MemoryAdmission`
and `lock` in `EnrichQueue` and `FtsOutbox` (that a process has it to itself is `PoliteLock`,
which `HeavyLock` is proved to implement). `MemoryAdmission` opens what is one
answer, `Admit` or `Refuse`, in `ServerModels`; the fairness of `Admit` there is
the property `WaitingServerLoads` here. Conversely `ServerModels` opens what is one
place, `loaded` or `cold`, of a live server in `MemoryAdmission`. What the two take from
each other is written down once, in `AdmittedServer`: a server asks with nothing in memory and
nothing reserved, loads only what was admitted, gives a reservation back only when its models are
gone or it is ending, and its notice changes only with those steps. The threads of `ServerModels`
are proved to implement it, and so is every live server of `MemoryAdmission`, with all that other
processes do around it; a sweep that took a live server's file away would break the second.

`FtsOutbox` opens what is `chunks` in `EnrichQueue`: what becomes of a text once it is published.
`Backfill` ends where `EnrichQueue` begins: its `queued` are the attachments whose tasks
`EnqueueForMaterialized` has inserted.

Definitions marked `(mutant)` or `Mutant:` are used by no specification. Each is
the definition next to it with a plausible bug; with it in the other's place the
property named in `PROJECT.json` must fail, which shows that the property speaks
of the code.

### MemoryAdmission

`pc` is a process's place in the code: `asking` to `counted` (and `noticed`) are
the reads of `MemoryAdmission.check`, one step each: the flock
(`TakeAdmissionLock`), `probe.read` (`Measure`), `book.others` (`CountOthers`,
which also sweeps the files of the dead), the notices (`ReadNotices`, background
only), then `decide` with the reservation, `settle` and the release of the flock
(`Admit...`, `Refuse...`). `background_promises_count` is read before the flock
(`StartLiveCheck`). `held` and `reserved` are a process's memory and its
reservation file; `notice`, `aged`, `refusal` the live server's notice, whether it
is `background_yield_seconds` old and whether its last refusal has lapsed; `look`
is what the check under way has read. `saw` and `past` are history variables for
the properties.

Unloading is in the code's order: models first, then the file, then the notice
(`UnloadIdle`/`UnloadForPressure`, `ReleaseLive`, `WithdrawNotice`/
`PostReloadNotice`), none of it under the admission flock. A background command
takes the heavy lock, passes the gate, works, and gives things back in its own
order: reservation, heavy lock, memory (at exit); for the eval commands the heavy
lock before the reservation; for a step of sync that ends normally the memory,
then the reservation, keeping the heavy lock.

Memory is counted in whole units: `Units(amount, S)` is how many the processes of `S` account
for, and an amount below zero counts for nothing, which is `promised_bytes`. A check that cannot
read a process's footprint takes it to hold nothing (`unread` in `CountOthers`).

Abstractions: a process holds at most its footprint; `background_yield_seconds` is positive;
pressure levels and the pause switch are free choices; `Drift` bounds how much all
processes load while one check is between its two measurements. A dead process is
one whose pid no longer runs; reuse of a pid is not modelled. Failures of the file
system when a notice is posted or withdrawn are not modelled.

### HeavyLock and PoliteLock

A command that does not yield tries the lock, and failing that queues for the
waiting room's flock and then for the lock (`_take_announced`). A command that
yields (enrich) looks into the room, tries the lock, looks again and gives the lock
back if somebody has come (`_take_when_nobody_waits`). Between units the worker
looks, unloads, releases and comes back (`HeavyLockHandoff`). A blocked `flock` is
an action enabled when the file is free. `info` is the holder file: written after
the lock is taken, blanked before it is released, left behind by a kill. The
status probe takes a shared lock for a moment, which is why `Free` asks that nobody
probes. `passed` counts, for the properties, the units begun while somebody waits.

`PoliteLock` has two variables: the owner, and who has announced that it waits.
The refinement maps the owner to the holder of the flock once it will keep it (a
yielding command's first try is not ownership) and the announcement to the room.

### EnrichQueue

A row is its `state`, `attempts`, whether it is `due`, its `lease` and whether its
text is in `attachment_chunk` (`chunks`). Every statement commits by itself (the
connection is in autocommit) except that of `complete_task`, which commits with the
chunks, index events and follow-up kinds (`Complete`). `Claimable` and `Rank` are
the claim's WHERE and ORDER BY; its one statement per kind is one step here.
`Record` are the outcomes. A worker that is killed keeps the row `running` until the
lease runs out; one that raises releases it with no attempt counted; a hung OCR
fails the row and ends the process. Both workers claim under the same `worker_id`,
as they do by default.

### ServerModels

One server: the model thread (`mt` and its queue `jobs`), the watchdog (`wd`, one
point per check of `check_once`, two where the code reads the hold first), and calls.
What runs under `IdleModelUnloader._lock` is one step. Left out: an unload whose
provider raises; shutdown (in `MemoryAdmission`); the retry interval is longer than
the last lines of a pass.

### FtsOutbox

`content` is what PostgreSQL shows of each segment and chunk, `committed` the rows of
`search_index_event` that can be seen. A command's open transaction is `draft` (what it has
changed) and `pending` (the events it has inserted, which have their ids already). `Emit` is
the insert of one event next to the change it announces; the five writers' operations fix who
may announce what, and in which order (`segment` deletes first; `enrich` refreshes segments
last). `Commit` publishes both, `RollBack` and a kill drop both and leave a gap in the ids.

`sync_fts` is `Fetch` (a batch in id order), then per event `ReadContent` (from PostgreSQL) and
`Apply` (the row and the watermark in one SQLite transaction), until a fetch finds nothing.
`index` and `applied` survive a kill, `batch` and `read` do not.

`imsg segment` is `imsg sync` stopped before it embeds, so the instance has no process of its
own for it. A kill while COMMIT is on its way ends either way (`Crash`); that the server has
finished with it before the next holder of the lock reads or writes is assumed: the next
command first passes its admission check. Left out: `rebuild_fts`, which no command calls, and the schema
fingerprint.

### ExportRun

`allowed`, `members`, `live`, `edit`, `linked` and `config` are the world a run reads, and `Changed`
counts the commands that change it: an allowlist row (`Classify`), the chat's people (`Join`,
`Resolve`), a segment's text (`Edit`), an attachment's eligibility (`Withdraw`), a segment that
vanishes (`Resegment`), the configuration (`Reconfigure`). A run has its `status`, its approval, its
manifest (`upserts`, `deletes`), its items' states (`item`), and the allowlist and configuration it
was planned with (`snapshot`, `pinned`); `recorded` is
`export_document`, `store` the bucket and the index. `plan_export` reads the world and
commits later: `StartPlan` (or `StartPurge`, whose revocation commits with its plan), `CommitPlan`,
`AbandonPlan`. A push goes through the statements of `push_export` in its order: `Verify`
(`_verify_pushable`, `_verify_eligibility_unchanged`), `StartPush`, `Upload` or `UploadFails` per
document, `Import` per batch, `RecordFailed`, then `RecordItem` and `RecordDocument` per document,
`StartDeletes`, `Delete` or `DeleteFails`, `RecordDeleted`, `RecordPurged`, `Finish`. `Leave` is an
exception, `Crash` a kill, at any of them. `fresh`, `current` and `loose` are history variables: the
pushes since whose verification nothing has changed, the runs since whose plan nothing has, and the
documents that a failed or killed push has touched and nothing has recorded since.

Abstractions: one push at a time (the code's `FOR UPDATE` is in autocommit and ends with its
statement, so it does not keep a second push out; the run has one, `Pushers` may have more); the hashes that pin staged
files and manifest to the run are taken to match; dry runs and the command line's refusal of an empty
allowlist are left out; an allowlist row that denies and none are one level; deleting a document and
looking whether it is gone is one step; a segment keeps its chat.

### Backfill

`att` and `row` are the columns of `attachment` and `attachment_location` that the code reads,
`disk` what every file holds here and on the other hosts, `staging` and `cache` this host's copies.
A run (`StartRun`, with or without `--retry-failed`, `--all` and pulls) heals rows, takes its candidates
and goes through their own paths: `MarkMaterializing`, then `ReadOwnPath`, `OwnPathUnsupported` or
`OwnPathFails`. `StartLocations` reads the open rows once; `Try` is the next attempt of an attachment
that needs no copying, `Pull` one rsync for all that are next at a location, `Arrive` what is made of
each copy. A good copy goes through `MarkMaterialized` (one transaction), `EnqueueForMaterialized`,
`Release` (look for other open references) and `Unlink`, each a step. `BuildPushPlan`,
`CheckCandidates`, `Send` and `RecordPushResults` are the pushing host's, hours apart. `Observe` is
new evidence, `PathArrives` a path the extraction found, `FileChanges` anything else that writes to
a file. `tries`, `certain` and `renewed` are history variables.

Abstractions: a row's number stands for the match rank and the pusher's order; better match quality
as evidence, rows that no root can read, dry runs, throttle, reports and log files are left out;
running out of disk space and the stop flag end a run between two files (`EndRun`); attachments are
tried in any order; iCloud's failures are faults; one run at a time, as launchd starts them (no lock
keeps a second one out); a recorded path that is replaced by another is not modelled.

Not covered by a property, but seen while modelling: a staged copy stays behind when its attachment
is materialized through another path or from the cache, and a kill between the rows and the tasks
leaves a materialized attachment without tasks until `imsg enrich --plan`.

## 3. Runs

| Run | Shows | States |
|---|---|---|
| `admission` | types; `NoBlindPair`; `RoomForAll`; `PastNoticeStaysUp`; `BackgroundGivesWay`; `ServersKeepContract` | 3.5 M |
| `admission_live` | `WaitingServerLoads`, `NoticeComesDown` | 45 k |
| `heavy_lock` | types; `OneModelSet`; `OvertakenOnce`; `ReleasedInfoIsBlank`; `PoliteLockSpec` | 842 k |
| `heavy_lock_live` | `WaiterIsServed` | 12 k |
| `enrich_queue` | types; `RecordsItsOwnRow`; `DoneMeansPublished`; `LedgerSpec`; `EveryTaskSettles` | 29 k |
| `fts_outbox` | types; `NothingMissed`; `CommitsAheadOfWatermark`; `MirrorSpec`; `SyncCatchesUp` | 840 k |
| `server_models` | types; `QueryMeetsModels`; `OnePassAtATime`; `ContractSpec`; `WarmServerReturns`; `HoldFreesTheMemory` | 688 k |
| `server_models_hold` | **violated**: `HoldLetsTheJobLoad` | |
| `export_run` | types; `ScopeApproved`; `NothingIneligibleLeaves`; `RecordIsTrue`; `StoreMirrorsCorpus` | 1.5 M |
| `export_purge_incomplete` | **violated**: `PurgeLeavesNothing` | |
| `backfill` | types; `MissingAfterItsRuns`; `FinalOnceFetched`; `StagedKeptWhileNeeded`; `CertainBeforeProbable` | 3.5 M |
| `backfill_left_out` | **violated**: `LeftOutIsFetchable` | |

### Bounds, and why they are enough

* `admission`: four units of memory, one of them the reserve, footprints of two
  (public server, sync) and one (local server), `Drift` 1. Any two loads compete for
  the last unit and all three never fit. Two live servers are what it takes for one
  to be admitted past a job while the other waits; one background command is all
  the heavy lock lets in, but for the tail of an eval, which `admission_live` has.
  Every check may fail, the public server and the sync may be killed at any point.
* `admission_live`: the public server against a sync and an eval that overlap as the
  heavy lock allows. A local server is left out: its unload between the two
  measurements of a check can, with enough bad luck every time, refuse the public
  server for ever; the same holds for kills and failing probes.
* `heavy_lock`: two yielding commands and three others, one of each with
  `--no-wait`; three waiters are what it takes for one to be in the room, one in its
  queue and one to hold the lock. `PassedCap` stops the counter one above what the
  property allows.
* `enrich_queue`: a task with a follow-up, the follow-up, and an independent one;
  two runs; two attempts, so that both a retry and a permanent failure happen; two
  faults (kill or unexpected exception), so that a recovered row is lost a second
  time; one `--retry-failed`.
* `server_models`: two callers (one let in while the other leaves), two holds (one set
  while the other's reload is under way), three kinds of server.

* `fts_outbox`: two segments and a chunk, two texts, five events, batches of two. Five events
  are what an entity that is written, refreshed and deleted next to another one takes, with an
  id lost to a rollback between them; a batch of two can be cut by a kill.

* `export_run`: two chats, one with a photo; two runs, so that a reconcile can follow a failed
  one or a purge an export, and an older run can be pushed after a newer one; one change of the
  world, at any moment; two faults, so that a push fails and its repetition dies. The theorems have
  no such bound.
* `backfill`: a photo and a clip, five copies, one file that is a probable copy of the one and a
  certain copy of the other (`StagedKeptWhileNeeded` and `CertainBeforeProbable` need both); every
  reach (local, push, pull); two runs with two attempts before giving up (three in the code), an
  allowance of one for the first run; a push that may span both runs; one change and one fault,
  anywhere.

### Fairness

* A process or thread that can run does (weak fairness on its steps), and a blocked
  flock that is free again and again is granted (strong fairness): the kernel's
  scheduling and its queue of waiters.
* A refused public server tries again: `retries_by_itself` in `cli.py`. Background
  work gives up after `admission_wait_seconds`, ends its unit and looks for notices
  (`between_units`); a batch command ends. Nobody has to start work, or kill anything.
* Time passes: a notice ages, a refusal lapses, a backoff elapses, a lease runs out.
* The worker: launchd starts a run every night (`agents/plists.py`), a claim that is
  possible again and again is made, a task's work is bounded by its timeout.
* The outbox: a `sync_fts` that runs goes on. Nobody has to start one, to write or to commit.
* A server: the model thread and the watchdog run; a load asked for again and again is
  admitted (`WaitingServerLoads`). No client has to call and no operator to end a hold.

### Where the code and its words differ

Three of these are runs that TLC refutes; the others were seen in the models while they were
written, and the properties say what holds instead.

1. *A job set aside grows.* `memory_admission.py:69-71` says that none of the jobs a server was
   admitted past grows into the memory it was promised. The notice only stops a job between units:
   in the unit it is in, it loads what it was promised. `RoomForAll` therefore leaves those jobs out.
2. *A reload notice is not seen.* `memory_admission.py:58-59`: while any notice is posted, no
   background load is admitted. `release_for_reload` posts outside the admission lock, after a check
   has read the notices and before it commits. `BackgroundGivesWay` is what holds: no background
   load is admitted under a notice that a *check* posted.
3. *The status names a dead holder.* `heavy_lock.py:132-134`: the holder is None until the new
   holder has written its details. After a kill the old details are still there.
4. *A hold in the cooldown* (`server_models_hold`). `idle_unload.py:72-74`: a hold withdraws
   the server's notice, so that the job that set the hold can load. It does for a refused load
   and after an unload of its own, but not when the models are already gone under pressure: the
   reload notice stays up until the hold ends.
5. *A purge that is not complete* (`export_purge_incomplete`). `cli.py:4138` and `purge.py:7-8`: the
   deletion of everything the person touched. A purge deletes what `export_document` records; a
   document that was uploaded by a push that failed or died before it recorded it is not there.
6. *A failure that is none.* `background_warm_up.py:293-294`: a failed warm-up is reported as failed
   until the server restarts. The `finally` of one pass can mark the next pass failed, which then
   loads and reports ready.
7. *Late results and new evidence.* `backfill/locations.py:105-107`: an outcome closes a row until
   different evidence reopens it. `record_push_results` writes what an old plan found, whatever the
   row lists by now: it closes a row that new evidence has opened, and opens one that was rejected.
8. *A copy that is left out* (`backfill_left_out`). `backfill/push.py:125-128`: the backfill needs no
   push for an attachment with a staged or cached copy. It does when that copy is a probable one and
   is held back for a certain copy, which nobody pushes now.
9. *A purge that adds.* `export/review.py:58-61`: a purge only ever removes documents and can never
   widen scope. Its plan is the whole difference between corpus and store, upserts of chats nobody
   approved included; `ScopeApproved` counts purges with the approvals.
10. *An ok run that nobody approved.* `export/review.py:53-55` calls what is not shown to be approved
    territory new. A run with nothing to do needs no approval and ends ok, and its allowlist snapshot
    then vouches for people.

## 4. Proofs

`tlapm` checks every theorem for all values of the constants, under the assumptions named
in the modules (`ProcsAssumption`, `MemoryAssumption`, `ConfigAssumption` and so on): sets of
processes, callers, tasks, documents or rows of any size, any footprints, any memory, any number of
runs, changes and faults.

**MemoryAdmissionProofs.** `TypeCorrect`, `NoDoublePromise` (`NoBlindPair`),
`NoticeOutlivesJobs` (`PastNoticeStaysUp`), `LiveServersFirst` (`BackgroundGivesWay`). None
of the last three is inductive. `IInv` adds:

* `LockInv`: exactly the process inside a check holds the admission lock;
* `SeenInv`: once a check has counted the others, every reservation that stands is among
  those it saw; steps outside the lock only remove reservations. With the history variable
  `saw` this gives `NoBlindPair` at the moment of admission;
* `WaitInv`: once a background check has read no notices, no notice of a check is up, since
  those are posted under the lock; this gives `BackgroundGivesWay`;
* `LiveClaimInv`, `BackgroundClaimInv`: where a process may have memory or a reservation;
  `PastInv`: a job remembered in `past` is in its work. Together they show that the tick,
  which withdraws when no background reservation is left, never withdraws too early.

`EveryServerKeepsContract` (`ServersKeepContract`) is the refinement of `AdmittedServer`, for every
live server at once. `ServerInv` says where a server can have models (loaded, or ending), that it
has a reservation while it may load, and that a dead one has no notice; then each action is a step
of the contract for the one server it is about and shows nothing to the others (`SameViews`,
`OneServer`).

**MemoryRoomProofs.** `RoomForEveryClaim` (`RoomForAll`), for any finite set of processes. The
invariant is about every group of processes at once, not only the one the rule names.

* A few lemmas on `Units` (in `MemoryAdmissionProofs`) say that it is a number, grows with the group,
  adds up over disjoint ones and by one process. `Units` is a cardinality, so they follow from the
  library's facts on finite sets; with a sum defined by a fold they could not be proved.
* `MeasuredInv`: from the measurement to the count, the host has at least what was measured but for
  the growth since, which `Drift` bounds. `CountedInv`: from the count to the decision, whatever
  group of others one takes without the jobs set aside, its claims fit into what was measured and
  counted. It survives because claims only fall while the lock is held (`ClaimsFall`): a process
  loads up to what it was promised, releases, dies, but is not admitted.
* `RoomInv` is the rule for every group in which nobody was admitted past another one; `RoomForAll`
  is the group of all processes that nobody went past. An admission adds its own footprint to a
  group that `CountedInv` bounds (`AdmissionRoom`); every other step keeps the group's claims or
  lowers them. `GrantInv` says that only a process with a reservation loads, and that a dead one
  holds nothing.
* The premise of the rule is that somebody claims something: a host whose reserve exceeds its memory
  admits nobody and is no counterexample.

**HeavyLockProofs.** `TypeCorrect`, `OneModelSetAtATime`, `OvertakenAtMostOnce`,
`ReleasedDetailsAreBlank`, and `ImplementsPoliteLock`. `IInv` ties the two flocks to program
points (`LockInv`, `RoomInv`, `QueueInv`), the models to the points at which they may be loaded
(`LoadedInv`), the holder file to the stretch between writing and blanking (`InfoInv`), and
says that once a unit has begun past a waiter no yielding command is past its last look
(`PassedInv`). The refinement is one case per action: each is a step of `PoliteLock` or leaves
owner and announcement alone.

**EnrichQueueProofs.** `TypeCorrect`, `OutcomesAreTheHolders` (`RecordsItsOwnRow`),
`PublishedWithTheRow` (`DoneMeansPublished`), `AttemptBudget` (`OpenRowsHaveAttemptsLeft`),
`DoneForGood` (`DoneStaysDone`), and `ImplementsTaskLedger` (`LedgerSpec`). The outcome statements do not name the lease, so the argument
does not either: `LockInv` says that exactly the holder of the heavy lock is between claims or
inside a task, `RowInv` that the row it works on is running, and `FreshInv` that a row not yet
queued has no attempts. In the refinement a pending and a running row are the same open task, so
claims, leases, backoffs, the lock, runs and kills are stutters; an outcome is a step of the ledger
because the row is the worker's own (`TaskIsOpen`). The ledger entails that what is done or skipped
stays so and that an open task has attempts left, which the two theorems before it state directly.

**FtsOutboxProofs.** `TypeCorrect`, `SidecarMissesNothing` (`NothingMissed`),
`EventsCommitAhead` (`CommitsAheadOfWatermark`). `IInv` adds that ids are unique (`IdInv`); that
a transaction announces exactly what it changes, with ids above the watermark (`TransactionInv`,
from `LockInv`: no sync runs beside it); that a batch is the lowest part of what is unapplied
(`BatchInv`); that what was read is still so (`ReadInv`); and the two facts that make it safe to
skip an upsert whose entity is gone: a delete is the last event of its entity (`DeletedInv`), and
a row that outlived its entity has that event ahead of it (`StaleInv`). `ImplementsMirror`
(`MirrorSpec`) follows: a commit publishes what it announces (`CommitPublishes`, from
`TransactionInv`), and an applied event takes over what PostgreSQL says at that moment
(`ApplyCatchesUp`): an upsert because what was read is still so (`ReadInv`), a delete because it is
the last event of its entity (`DeletedInv`), and one that is skipped because a kept row is announced
(`StaleInv`) or there is none.

**ServerModelsProofs.** `TypeCorrect`, `QueriesMeetModels` (`QueryMeetsModels`), `PassesAreSingle`
(`OnePassAtATime`), `ServerKeepsContract` (`ContractSpec`), and two that no run repeats:
`ModelsAreReserved` (`LoadedIsReserved`, which the contract entails) and `HoldStopsLoads`
(`HeldMeansNoPass`).
What the threads do to each other goes through the model thread's queue, so the invariant is about
its order: no load twice, unloads before the load that follows them, and a caller whose query is
queued waits for it (`QueueInv`). While a pass is queued or runs the phase is warming or failed
(`PassInv`), so nobody starts another and nobody drops the models; then the phase says what is in
memory (`ModelsInv`): ready means loaded with no unload on its way, a call is served only then, and
whatever was dropped is given back after the models are gone. `HoldInv` is about the watchdog's order:
it looks for the hold before its rewarm. Three lemmas say what adding, taking and leaving a job
does to the queue; every action is an instance of one of them. The refinement of `AdmittedServer`
needs one more fact, that a pass finds nothing reserved when its turn comes: `ReservedInv` says that
where a pass may begin, or is queued, the last reservation is gone or an unload that ends with its
release is queued before it or just done. A server whose warm-up failed keeps models and reservation,
and is never asked to load again.

**ExportRunProofs.** `TypeCorrect`, `NothingUnapproved` (`ScopeApproved`), `OnlyEligibleLeaves`
(`NothingIneligibleLeaves`), and, with one push at a time, `RecordsStayTrue` (`RecordIsTrue`) and
`OkMeansMirrored` (`StoreMirrorsCorpus`). `IInv` says that a plan is of documents and their texts
(`PlanInv`), that a run's row is blank until its plan commits (`FreshRunInv`), that a push works on
what its run plans and only on a run within scope (`PushInv`), and that what is stored or recorded is
within scope (`ScopeInv`), where the scope is the chats of approved runs and of purges: it only
grows (`ScopeGrows`), and `VerifiedInScope` shows that a run that passes `_verify_pushable`
unapproved has nothing but chats with pushed documents. For the last two, `StoreInv` ties each
document to where its push is, and `CoversInv` says what a run whose world has not changed has still
to do for the store to become what the corpus wants (`Wanted`); `BusyInv` that only the push at hand
touches it. One push at a time is a hypothesis of these two, and a needed one: with two, TLC finds
`RecordIsTrue` violated without any fault. Two pushes of one run verify it together; the one ends, a
purge of what it pushed is planned and pushed, and the other, which had read its items before all of
that, uploads the purged document again while the purge records it as gone. The other
theorems have no such hypothesis.

**BackfillProofs.** `TypeCorrect`, `GivenUpAfterItsRuns` (`MissingAfterItsRuns`), `FetchedForGood`
(`FinalOnceFetched`), `StagedFilesAreKept` (`StagedKeptWhileNeeded`), `CertainFirst`
(`CertainBeforeProbable`), for any rows and files, any number of runs and pushing hosts. The code
reads no row again before it writes it, so the invariant says what stays true of what a run has read.
`LadderInv`: the runs that counted an attempt are as many as the attempts, all up to this run, and a
candidate still to be read is on the ladder and not counted in this one, so that no run counts twice.
`QueueInv`: attempts are at rows of attachments without their content, and a copy that has been
pulled is still the first of its attachment when it is looked at (`FirstIsFirst` shows that the order
of attempts has a first one; `BeforeIsAsymmetric` that it has one only). `CertainInv`: a certain row
that is left is in the queue, before every probable one, or no probable one is in it, which is what
holding back for a push means. `ReleaseInv`: from the look for other open rows to the unlink nothing
opens but what `renewed` names. A try and an arrival are the same to all of them (`AttemptMade`).
All five properties of the `backfill` run are theorems.

Only model-checked: the seven liveness properties under fairness (`WaitingServerLoads`,
`NoticeComesDown`, `WaiterIsServed`, `EveryTaskSettles`, `WarmServerReturns`, `HoldFreesTheMemory`,
`SyncCatchesUp`), which are out of the prover's reach. Every invariant, action property and
refinement that a passing run checks is a theorem. No module here has a RECURSIVE operator.

## 5. Not modelled

The pipeline's stages, segmentation, embedding, rendering and retrieval transform data in single
transactions or pure functions; the search page, the decoders and model providers are I/O around
them, and most of the code is of this kind. The search yield is a protocol (bounded waits on a
marker that PostgreSQL clears when the search dies), small, and not modelled yet. Authentication,
configuration, agents, backup and reports keep no state that several actors share. The pause switch
is a free choice of the gate. `PROJECT.json` lists every part with its reason.

## 6. Plan

1. *Built*: `MemoryAdmission`, `HeavyLock`, `EnrichQueue`, `FtsOutbox`, `ServerModels`, `ExportRun`
   and `Backfill`, each with its proofs, and the abstract `PoliteLock`, `AdmittedServer`,
   `TaskLedger` and `Mirror` that five of them implement.
2. `SearchYield`: the marker, the bounded waits of segment, embed and enrich, and that a
   search is never waited for longer than the bound.
3. Abstract specifications of `ExportRun` (the bucket as a view of the corpus) and `Backfill` (an
   attachment's ladder), as `TaskLedger` and `Mirror` are for the queue and the sidecar.
4. Two pushes at once as a run of `ExportRun` (section 4 has what goes wrong), and two backfill runs
   in `Backfill`: no lock of the code keeps either apart.

## 7. Running

    tlc -config MCMemoryAdmission.cfg MCMemoryAdmission
    tlapm MemoryAdmissionProofs.tla

Deadlock is checked wherever the system cannot stop. In `ExportRun` and `Backfill` the runs, changes
and faults are all bounded, and when they are used up nothing is left to do: their configurations say
`CHECK_DEADLOCK FALSE`.
