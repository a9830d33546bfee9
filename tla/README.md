# TLA+ specifications of arkumu-app

arkumu-app is a Django application in which universities describe art projects.
CSV files, media and mappings are uploaded to an S3 store, imported into one
institution graph of `Resource`, `Property` and `Triple` rows, edited in
workspaces, and published through a catalogue, a REST interface and OAI-PMH.
The web processes, the Huey consumer (four worker threads) and the periodic
tasks share one PostgreSQL database, one Redis (cache *and* task queue) and the
S3 store; nothing else keeps them in step. These modules specify the part of the
program in which those processes meet: on the way in the task manager, the schema
cache and its lock, the upload sessions and the import workflow; on the way out
the projects cache, the catalogue's index, the media links and approvals, and
two of the OAI-PMH feeds.

Paths below are relative to `src/arkumu/` unless they begin with `src/`.

## 1. Inventory

### Components with state shared between processes or threads

| Component | State | Operations | What is hard | What makes it correct |
|---|---|---|---|---|
| **Import task manager** `importer/services/task_manager.py` | `active_tasks` in memory; cache keys `task_state_*`, `task_cancel_*`; `IngestSession.status` | register, progress, complete, request cancellation, monitor pass, timeout, removal timer, Huey signals, shutdown | threads, timers and the end of the process; three copies of one fact | the copies agree; whatever ends a task cleans up after it; every context is removed; a task that has returned is reported |
| **Schema blueprints and their lock** `importer/services/schema_service.py`, `complete_schema_processor.py`, `execution/mapping_aware_processor.py`, command `regenerate_schema_blueprints` | cache keys of the base and the complete blueprints and of the lock; the JSON column of the mapping | load, create under the lock, wait for another's creation, initialise without the lock, regenerate, write the manifest into the mapping | the lock is a cache key that expires; a build reads the mapping long before it stores; the mapping is edited meanwhile | one builder; no needless build; nobody releases another's lock; callers are answered; blueprints are not older than asked for |
| **Asynchronous upload sessions** `storage/services/async_upload_manager.py`, `storage/views/upload_views.py`, `storage/tasks.py`, `storage/models/upload_tracking.py`, commands of `storage`, `metadata/views/dashboard_views.py` | `AsyncUploadSession`, `AsyncUploadFile`, `S3FileObject`; the bucket; Huey's queue | presign, upload, mark-uploaded, flag finished sessions, request a verification in three ways, verify file by file, retry | concurrent requests in READ COMMITTED transactions, whole-row saves of stale rows, retries that start over, a worker that dies | a completed file has its record and its object; a session does not await verification too early, nor stay forgotten; counters and files agree; one record for each file |
| **Import workflow** `importer/views/ingest_views.py`, `importer/tasks/import_metadata.py`, `importer/views/progress_views.py` | `IngestSession`, `ImportTask` per dataset; cache key of each; Huey's queue; the polling page | start, enqueue on commit, import a dataset, report progress, save the outcome, poll, cancel | commit against queue, two places for one report, failures at each save, retries, keys that expire, a queue that is cleared | runs find their row; row and key agree; only an import that was enqueued is polled; polling ends |
| **Projects cache and its warming lock** `cache/tasks.py`, `projects/services/snapshot_service.py`, `cache/services/project_cache_service.py`, `metadata/services/project_workspace_listing_service.py` | the snapshot's keys (30 days), a lock key of five minutes, Huey's queue | warm under the lock, refresh periodically, build without the lock on a miss, publish and withdraw a project, import | the refresh is queued inside the request's transaction; whoever finds the lock taken drops its refresh; views build beside the lock; a store is no compare-and-set | warmings do not overtake each other; what was withdrawn leaves the snapshot; the snapshot is current in the end |
| **Catalogue index and cards** `catalog/services/project_index_db_service.py`, `catalog/services/project_index_service.py`, commands of `catalog` and of vocabularies, `catalog/apps.py` | `ProjectIndex` rows; the cached list of cards, which never expires | rebuild streamed, by URI, from the snapshot, from everything; prune; drop and warm the cards | rebuilds take minutes, in batches, each statement committed on its own; nothing keeps two apart; a flush replaces the list that its caller holds | a row is as its project is; a prune spares what it has not looked at; cards are as the rows |
| **OAI-PMH snapshot** command `create_oai_snapshot`, `oaipmh/views/snapshot.py`, `oaipmh/admin.py` | `OAISnapshotRecord`, `OAISnapshotMeta` | clear, mark, replace in batches, store the metadata; list a page; delete a row by hand | statement by statement under the harvesters' eyes; pages by offset; tokens that forget what was asked | a completed harvest has every record once; no partial snapshot is served |
| **OAI-PMH tailored feed** `oaipmh/views/tailored.py`, `oaipmh/resumption_tailored.py` | `OAIProjectPublication` rows; the cursor and marker of a signed token | list a page, go on after a cursor, approve and withdraw | marker and page are two statements; `updated_at` is the time of saving, not of the commit | incremental harvests keep a copy current; nothing is sent twice unnoticed |
| **OAI-PMH media synchronisation** `oaipmh/media_link_views.py`, `oaipmh/services/media_sync_planner.py`, `oai_project_media_sync_service.py`, `media_sync_jobs.py`, `oaipmh/tasks.py`, command `media_links_sync` | links, approvals, two watermarks of an institution | seed links, approve, write the watermark; edits by staff | a watermark is the time at which a run *ends*; runs may overlap, fail halfway and skip projects | a run leaves links and approvals right, an incremental one those not missed before it; what is not due again is current |
| Import execution `importer/services/execution`, `mapping_consumer` | the graph | CSV rows to resources and triples | data, long transactions | an import writes what the mapping says |
| S3 storage services `storage/services` | the bucket | list, copy, verify, export | pure I/O | reflects the bucket |
| Resumable chunks `storage/services/redis_resumable_storage.py` | one JSON value per upload | mark a chunk, complete | read-change-write without a lock; no caller in the repository | no chunk is forgotten |
| In-process caches `cache/services/shared_graph_manager.py` | an LRU dictionary with a memory count | get, put, evict | sizes measured twice | the count is that of the entries and within its bound |

### Components without such state

OAI-PMH records, the canonical feed (`oaipmh/views/legacy.py`), catalogue pages and search, mapping editor, workspaces and data entry, projects,
REST interface, users and organisations, common code. They are queries,
conversions or forms in one transaction per request. `PROJECT.json` names their
main files and why each is left out.

### How they interact

```
 browser --presign/mark-uploaded--> AsyncUploadSession <--verify-- Huey worker
    |                                     ^  flag (periodic, command)
    |--start_import--> IngestSession, ImportTask --on_commit--> Huey queue
    |                       |                                     |
    |                       | schemas needed                      v
    |                  SchemaService -- lock, blueprints --> process_dataset_data
    |                                                            |
    |                  TaskManager <-- cancellable_task ---------+ (enqueuing)
    |                   cache keys, IngestSession.status         |
    +--poll, cancel--> cache keys  <-----------------------------+ (progress)
                                                                 |
                                          resources and triples <+
     publish, withdraw --> approved?          |
             |                                |
             +-- warm --> projects snapshot <-+-> ProjectIndex --> cards --> catalogue
                                 |            |
             OAI snapshot <------+            +-> media links --> approvals --> tailored feed
                   |                                                                 |
                   +------------------------> harvesters <---------------------------+
```

What makes this hard, and is in the models: the processes share only rows and
keys; a request's writes become visible at its commit while its cache writes and
its enqueuing need not wait for it; a model's `save()` writes the whole row as it
was read; keys and locks expire; Huey drops what a dying consumer was running,
and retries what raised. The Redis cache ignores exceptions
(`IGNORE_EXCEPTIONS`), so a write may have no effect: `SchemaCache`, `ProjectsCache`,
`ImportWorkflow` and `CatalogueIndex` have such writes, `TaskManager` has not (section 5). Production serves
requests with synchronous gunicorn workers. The test settings run Huey's tasks
inside the request that enqueues them (`src/config/settings/test.py:64`), so tests do
not meet the interleavings specified here; development and production do.

The hazards, each with its line and the properties aimed at it, are in
`PROJECT.json`; the one without a property says why. Section 6 names further
hazards for which there is no model.

## 2. Modules

| Module | Models | Composition |
|---|---|---|
| `TaskManager`, `TaskManagerProofs` | `TaskManager` and the wrapper of `cancellable_task` | |
| `SchemaCache`, `MCSchemaCache`, `SchemaCacheProofs` | `SchemaService` and its callers | |
| `UploadSession`, `MCUploadSession`, `UploadSessionProofs` | an upload session from presigning to its verification | |
| `DatasetReports` | what an import promises about each dataset | abstract |
| `ImportWorkflow`, `MCImportWorkflow`, `ImportWorkflowProofs` | `start_import`, its hooks, `process_dataset_data`, the page | implements `DatasetReports` |
| `ProjectsCache`, `MCProjectsCache`, `ProjectsCacheProofs` | the snapshot of public projects, its builders and its lock | |
| `CatalogueIndex`, `MCCatalogueIndex`, `CatalogueIndexProofs` | the index's rows, rebuilds and the cards | |
| `MediaSync` | links and approvals of one institution | |
| `TailoredHarvest` | the tailored feed and incremental harvesters | |
| `SnapshotHarvest`, `SnapshotHarvestProofs` | the stored snapshot, its command and its harvesters | |
| `MCPublication` | the four ways out | `CatalogueIndex`, and instances of `MediaSync`, `TailoredHarvest` and `SnapshotHarvest` |
| `PublicationProofs` | theorems about `MCPublication`, and with it about `MediaSync` and `TailoredHarvest` | `MCPublication`, `CatalogueIndexProofs`, and an instance of `SnapshotHarvestProofs` |

A proof module extends the module it is about, or, where a property of a run is stated in an
MC module, that one. The MC modules add symmetries and the unions described below; the configurations
give the constants their values and replace no definition. Definitions that end in an underscore and a
word (`Complete_KeepsFlag`) are variants of the definition before the
underscore with a plausible mistake. No specification uses them; each is there to
show that a property notices the mistake, see `mutants` in `PROJECT.json`.

### TaskManager

`active` and `ctx` are `active_tasks`, `timers` the `threading.Timer` objects of
`complete_task`, `monitoring` is `_monitoring_enabled`, `stateKey`, `cancelKey`
and `db` are the three records outside the process, `pc` and `at` the threads
inside the wrapper of `cancellable_task`; `regs` and `lost` are ghosts. Every
method holds the re-entrant lock from its first to its last line, so it is one
step; threads, cancel requests, the monitor, timers, Huey's signals, a graceful
shutdown and a crash interleave between methods. A tick is five minutes, the
delay of the removal timer. Registrations of one id run into one another, as they do when an
import of several files registers its session once per file. The timer of an old
registration then removes the context of a new one (line 379), whose own completion finds none,
and an old flag cancels it (line 397); the model has both, and no property denies them. `lost`
holds the tasks whose context went in this way, or with the process, under a running body;
`ReturnedIsReported` is about all others.

### SchemaCache

Blueprints are represented by the version of the mapping they were derived from:
`base` and `complete` are the two cache keys, `mapping` the row, `conf` what a
process has read, `got` what it returns. `lock` is the remaining time of the
lock's key; `holder`, a ghost, whose `cache.add` made it. Every cache call is one
step, so a waiter's look at the cache and its look at the lock are two, and a
build reads, stores the base, writes the manifest and stores the complete
blueprints in that order. `Initialise`/`StoreBase` is the initialisation of an
import, which takes no lock, `Regenerate`/`Clear` the command, `Edit` a save of the
mapping editor. `TimelySpec` keeps to behaviours in which no lock expires under
its holder (`InTime`): the code measures five minutes "max for schema creation"
and does not check. Without it neither exclusion nor the release of one's own lock holds.

### UploadSession

`files` and `session` are the committed rows. A `mark_file_uploaded` call
(`mark[f]`) is a transaction: it reads the row, saves it, saves the session's
whole row as read, counts what it can see, and commits; it holds row locks
(`slock`, `Locking`) from its first write. Flagging runs (`flag`) and
verifications (`ver`) run in autocommit and write one row at a time, each as
they read it. `Ways` are the three ways of asking: dashboard, command and
synchronous command. `Raise` is an exception with Huey's retries, `Crash` a
worker that dies. `PatientSpec` lets the staff ask only when the browser has
reported every file, and one at a time; `LiveSpec` adds fairness. `MCUploadSession`
checks three kinds of behaviours in one run, told apart by `mode`: any behaviour of two
files with one exception, patient ones of three files with several verifications and more
exceptions than retries, and fair ones of three files without deaths; properties that begin
with `Patient` or `Fair` are about those. Patient staff does not flag, nor ask for a
verification of a session that says `processing` (`Attentive`): only
`verify_upload_session_sync` would let it, and after a worker's death the session then
completes with the counters of before.

### ImportWorkflow

`web` is the request and its `on_commit` hooks, `job[d]` the Huey task of
dataset `d`, `tasks` the committed `ImportTask` rows, `cache` what stands under
their keys, `page` the polling page. `cancellable_task` wraps the *Huey task
object*, so what it registers and completes is the enqueuing (`Register`,
`Complete`), before anything was imported. An `IngestSession` is only its
status here: every writer reads the row and sets the status, and a failed save
is logged, hence `session' \in {session, ...}`. A poll reads all keys in one step
(the page decides to stop only when all are final, and a key may only
change back from a final report while its run is at work).

`Tell` may have no effect, since the cache ignores exceptions; `unheard`, a ghost, holds the datasets whose last report was lost. The page
may also find the cache silent, and takes every dataset for pending (`LookFails`).

`DatasetReports` has for each dataset its row, its key and whether its last report was lost. While
the row is pending anything may be reported (`Tell`), or be lost (`Lose`); the row settles once, on what was
reported last if that was heard; a key may expire. `ImplementsReports` is that specification with
`row <- tasks, key <- cache`.

### ProjectsCache

Of a snapshot only the projects it shows are kept (`shown`); `graph` and `public`
are what it is made from, read at two different moments (`Fetch`, `Filter`) and
stored at a third (`Store`). `Workers` are Huey's threads, which warm under the lock
(`holder`), `Views` are web threads and the importer, which build without it. A request
saves (`Save`), asks for a refresh while its transaction is open (`Schedule`:
`ATOMIC_REQUESTS` is set) and commits or rolls back. `late` and `excused` are ghosts for
a lock that expired under its holder and for a refresh that came to nothing: one that
ran before the commit it was asked for, found a warming under way, failed, or was
overwritten by a build that had read before. The comment of the periodic task speaks of
a TTL of 60 minutes (`cache/tasks.py:273`); the keys live for 30 days.

### CatalogueIndex

Of a row only the visibility it was given is kept, since that decides on its card: hidden, public
and approved without a title, or shown.
`job[b]` is what a command or a starting process does: `_rebuild_streaming` lists the
projects of one institution (`List`), loads a batch (`Load`), processes it and writes
when there are enough rows (`Process`), writes the rest (`Flush`), and, for a rebuild of
everything, deletes rows it has not seen (`Prune`); `rebuild_from_graph` reads
(`Gather`) and writes at once (`WriteAll`). `Drop`, `Fetch` and `Put` are the cards; the deletion
and the new list may each have no effect (`heeded` says whether one had), and an exception between them
is only logged (`WarmFails`). What the catalogue shows is `Listed`: the cards or, without any, the rows.
Projects are published, retitled, imported and removed and builders die at any step. Publishing tells neither
the row nor the cards, and the link-vocabulary commands and a start with an empty index leave
the cards as they are. `changed`, `failed` and `crowded` are ghosts.

### MediaSync

A project's links are one link, `fresh` when it says what the record says. A run plans
(`newSeed`, or all of it), reads a project and writes its link in two steps, writes the watermark,
gathers, approves or withdraws project by project, writes the second watermark; it may
be asked for a full refresh, or for the second half only. Edits by staff change rows, links and approvals, with or without
moving the row they belong to; `missed`, `behind` and `calm` are ghosts. A project that a run skipped
before its watermark passed it is `missed`: incremental runs do not come back to it, and
`CalmRunIsComplete` promises it to full refreshes only.

### TailoredHarvest

`approved` and `stamp` are the rows as committed, `open` saves that are not committed. A request
reads the marker (`marker`) and the page in two statements; `token` is cursor and marker. A harvester
that has completed asks next time from the time it began. Time is counted in
saves. An approval that is withdrawn takes the row out of the feed, and no incremental
harvester is told, since the feed has no deleted records: `CopyIsCurrent` is about what
is approved. `views/tailored.py:76-78` says that `updated_at` reflects changes of media
links through signals; `oaipmh/signals.py` only logs, so a change of a link moves no `stamp`.

### SnapshotHarvest

`table` gives each project its position (0 without a row), `metas` the rows of metadata by primary
key. The command unmarks, deletes, writes batch by batch and stores its
metadata, each in a statement of its own (`--dry-run` changes nothing and is left out);
a request reads the marker, the count and the page in three. `want` is what a
harvester asked for and whether it repeats it with a token, since the token does not.
`disturbed`, `published` and `crowded` are ghosts.

### MCPublication

A behaviour is one of one component, which `alive` picks: the four share no state
the models tell apart (the catalogue reads what publishing writes, the tailored feed what the
synchronisation approves, but each model has its own source of changes). One
configuration so gives all four their bounds.

## 3. What the runs check

Every run lists its properties in `PROJECT.json`. All bounds are constants.

| Run | Instance | Shows | States |
|---|---|---|---|
| `taskmanager_all` | 1 id, 2 threads, 3 registrations, timeout after 2 ticks, flag of 2 ticks | copies agree, ended is cleaned up (and cancelled rolled back), flags fit states, no leak; a returned task is reported unless its context was taken away; a cancellation is processed and a context removed | 40,845 |
| `taskmanager_completed` | one registration | **violated**: a completed task is cancelled and rolled back | |
| `schemacache_all` | 2 processes, lock of 2 ticks, waiting limit 1, 2 versions | exclusion, no needless build, own release; calls end | 172,821 |
| `schemacache_regenerate` | waiting limit 2 | **violated**: a regeneration returns older blueprints | |
| `schemacache_edits` | waiting limit 2 | **violated**: writing the manifest takes an edit back | |
| `upload_all` | any: 2 files, 1 of the staff in all three ways, 1 verification, 1 retry, 1 exception, 1 crash; patient: 3 files, 2 of the staff, 3 verifications, 1 retry, 2 exceptions, 1 crash; fair: 3 files, 1 flagging run, 1 retry, 2 exceptions | completed files are recorded and stored; a session never awaits verification early; patient: completed sessions have completed files and right counters, one record each; fair: nothing reported is forgotten | 575,512 |
| `upload_stuck` | 1 file, 1 crash | **violated**: a session stays in processing | |
| `import_all` | 2 datasets, 2 threads, 1 retry | runs find their row, row and key agree unless a report was lost, and follow `DatasetReports`, only an enqueued import is polled, polling ends | 402,759 |
| `import_early` | 3 datasets | **violated**: the session is completed before its datasets are over | |
| `projectscache_all` | 1 project, 1 request, 2 workers, 1 view, 2 changes, queue of 1, 1 fault | warmings do not overtake each other; a withdrawn project is gone once all is quiet; the snapshot catches up | 526,572 |
| `catalogue_counted` | 4 projects, 1 builder, batches of 2 | **violated**: a project counted as indexed has no row | |
| `publication_all` | *catalogue*: 2 projects, 1 institution, 2 builders, 2 jobs, 1 change, loads of 1, writes of 2; *links*: 2 projects, 2 runs, 1 edit, 1 fault; *feed*: 2 projects, 1 harvester, pages of 1, 3 saves, 1 lost answer; *snapshot*: 2 records, 1 harvester, batches and pages of 1, 2 snapshots stored, 1 fault | rebuilt rows and the list of cards are current, prunes spare others; seeded links are current, a run nothing came in between of is complete; an incremental copy is current, nothing is sent twice; a complete harvest is consistent, no partial snapshot is served | 1,494,262 |

Why these bounds are enough. *Task manager*: ids do not influence each other
(every method touches one context, except the monitor and the shutdown, which
treat each alike), so one id; two threads can be in the wrapper of the same id at
once; three registrations let a timer and a flag outlive two of them.
*Schema cache*: one mapping, since keys and locks are per mapping; two processes
make holder, waiter, late builder and regeneration in every combination, a third
adds another waiter; two versions tell older from newer. *Uploads*: two files
are enough for calls that miss each other, three for a last pair after a first;
one retry and one crash reach every restart. *Import*: two datasets make one
finish first and one fail; a third (by symmetry) only lengthens the counterexample.
*Projects cache*: a snapshot is judged project by project; two workers are a holder and one
that finds the lock taken or expired, one view overtakes both. *Publication*: two projects
make a page that is full and one that follows, a batch written and one under way, a project changed and one
spared (in `publication_all` every project has a title at first, which an import may clear, some project is public, and one public project's record may be impossible to build); two builders, commands or runs overlap; one fault between any two statements reaches every torn
state. The theorems below do not depend on the bounds.

**Deadlock** is checked in the schema cache runs. Elsewhere the system may
stop: all sessions are over, the page is closed, the bounds on registrations,
verifications or faults are used up, no command is started.

**Fairness.** *Task manager*: the monitor is a daemon thread that wakes every
second, a timer that was started fires, time passes (strongly fair: a stream of cancel
requests can keep the monitor busy but not stop the clock). Bodies of tasks need
not return. *Schema cache*: a process goes on with the call it began, unless it
dies (`Crash` is possible at every step), and time passes; callers need not call.
*Uploads*: a request that has begun goes on, the periodic flagging comes round,
the consumer works on; the browser and the staff owe nothing. *Import*: a request
runs on until it is killed, threads take tasks and finish them, an open page polls
every two seconds. *Projects cache*: builds that have begun and requests go on or die, the lock
expires, and the periodic task, which comes every 20 minutes, does not find the lock taken for
ever (strongly fair: it is free again and again). `publication_all` has no
fairness: harvesters, staff and commands owe nothing. Liveness of the schema cache is
checked over the timely behaviours only.

**Findings.** The six violated properties quote what a test, a text or a
message of the program says; `PROJECT.json` has the quotations.

1. `request_cancellation` accepts a task that is completed and still in memory;
   the monitor cancels it and runs its rollback callbacks.
2. A regeneration during a build takes the blueprints that build stores, which
   are those of the mapping as it was.
3. The manifest is written into the whole mapping configuration as it was read;
   an edit saved in between is lost.
4. When a worker dies in a verification, or its retries are used up, the
   session stays `processing` and every later request is refused.
5. A session is `completed` when its first dataset has been enqueued.
6. `_flush_batch` gives `_rebuild_streaming` a new list of rows while the call of
   `_process_streaming_batch` that flushed goes on appending to the old one: what it appends
   after the flush is counted and seen, and never written.

Other observations made while modelling, which no property covers:

- `importer/tasks/import_metadata.py`: `run_mapping_aware_import_workflow` imports
  `timezone` locally further down, so its nested
  `update_cache_with_phase_info` raises `NameError` whenever an `ImportTask`
  exists; the older `start_import_session` always fails there. Line 1436
  calls `create_complete_schema`, which does not exist.
- The first use of the task manager in the main thread of any process deletes
  everybody's Huey queue (`task_manager.py:699-727`, 39-115; `ClearQueue`), and its
  shutdown looks for keys `task_cancel_*` without the prefix that the cache adds (87).
- The page's Cancel button sends the id of the `ImportTask`, the manager knows the id
  of the session: the request is refused (`Cancel`).
- The early returns of `process_dataset_data` (1693 and following) leave `ImportTask`
  pending and the session as it was (`Abandon`).
- A waiter may report a failure although the blueprints were stored between its
  two looks (`schema_service.py:166`).
- Two requests for a verification can both pass the check on the status
  (`metadata/views/dashboard_views.py:465`), and a verification asked for early
  marks files that are not there yet as failed.
- A late mark-uploaded call writes `uploaded` over a completed file
  (`storage/models/upload_tracking.py:129`).
- The command `verify_upload_session_sync` only enqueues the task (line 38).

## 4. What is proved

TLAPS checks every proof from nothing. The theorems hold for all values of the
constants allowed by the assumptions of each module: finite sets where something
is counted, natural numbers for times and limits, and `"none"` not a member of
a set whose members stand beside it. Nothing else is assumed.

| Module | Theorem | Under | Says |
|---|---|---|---|
| `TaskManagerProofs` | `TypeCorrect`, `ViewsAlwaysAgree`, `EndIsClean`, `FlagsFitStates`, `NothingLeaks`, `ReturnIsReported` | `Spec` | every invariant of `taskmanager_all` |
| `SchemaCacheProofs` | `TypeCorrect`, `Exclusion`, `OnlyNeededBuilds`, `OwnRelease` | `TimelySpec` | the lock excludes, the second look prevents needless builds, nobody releases another's lock |
| `UploadSessionProofs` | `TypeCorrect`, `RecordedCorrect`, `AwaitingCorrect` | `Spec` | every invariant of `upload_all` that holds without patience |
| `UploadSessionProofs` | `PatientSessionsAreComplete`, `PatientFilesHaveOneObject` | `ThreeSpec` | those that need it |
| `ImportWorkflowProofs` | `TypeCorrect`, `RunsFind`, `ReportsAlwaysAgree`, `PolledWasQueued` | `Spec` | every invariant of `import_all` |
| `ImportWorkflowProofs` | `Refinement` | `Spec` | the workflow implements `DatasetReports` |
| `ProjectsCacheProofs` | `TypeCorrect`, `WarmingsStayOrdered`, `WithdrawnIsGone` | `Spec` | every invariant of `projectscache_all` |
| `CatalogueIndexProofs` | `TypeCorrect`, `OthersAreSpared` | `Spec` | a prune spares every project that was there throughout, whatever runs beside it |
| `CatalogueIndexProofs` | `RebuildsAreCurrent` | `Spec`, `Aligned` | a full rebuild that met no other leaves rows, and the list of a cache that heeded it, as the projects are |
| `SnapshotHarvestProofs` | `TypeCorrect`, `PositionsAlwaysDiffer`, `ServedStaysWhole` | `Spec` | rows do not share positions, and no partial snapshot is served, unless two runs of the command were under way together |
| `SnapshotHarvestProofs` | `CompleteHarvestIsConsistent` | `Spec` | a complete harvest has each record of its snapshot once |
| `PublicationProofs` | `AllTypesCorrect`, `SeedsAreCurrent`, `CalmRunsAreComplete`, `CopiesAreCurrent`, `RowsComeOnce`, `HarvestsAreConsistent`, `SnapshotsAreWhole`, `AllRebuildsAreCurrent`, `AllSpareOthers` | `AllSpec`, the last but one also `Aligned` | every invariant and the action property of `publication_all` |

So every invariant and every action property of the passing runs is a theorem. `Aligned`
says that batches are written in multiples of what is loaded, as they are in the code, where
both sizes are 50. It is needed: without it the finding about lost rows is a
counterexample, and `catalogue_counted` shows it.

The arguments:

- **Task manager.** `IInv` is the conjunction of the invariants but the last and inductive as
  it stands. Most of it speaks of one context and its three
  records, so the proof rewrites it as `Good(context, flag, key, row, monitoring)`
  and shows for each kind of change (persist, complete, monitor, tick) that it
  makes a good context; that key and row agree without a context (`KeyIsRow`) and `NoLeak`, which is
  about threads and timers, go separately. That a returned task is reported needs one fact more: a
  thread in its body has its context in memory or is known to have lost it (`LostIsKnown`), so its
  completion reaches the session's row or the property exempts it.
- **Schema cache.** Exclusion is not inductive; `Owned` is: who is in the critical
  section holds an unexpired lock with its name on it. A step that would break it
  is an expiry, which `InTime` excludes. `NoNeedlessBuild` needs `Owned`, since
  only the holder builds, and the complete key is stored by the holder alone.
- **Upload session.** A completed file: whatever stale row is saved over it, the
  rows that requests hold say `uploaded` (`MarksUploaded`) and the rows of
  verifications that say `completed` have their record (`LinksRecorded`), and
  neither records nor objects are removed. An awaiting session: the tallies that
  uncommitted requests and flagging runs hold are about files that are finished and
  stay so (`TalliesHold`, `WeighedHold`), whoever holds the lock of the
  session's row is about to write it as `uploading` (`LocksUploading`), and no files are presigned any more once one was
  reported (`PresignOver`); only then `AwaitingHolds` is preserved. With patient staff
  (`PatientParts`): nothing is asked for or verified before the browser is done with every file, which
  then stays so (`Reported`, `Settled`); at any time there is one request or one verification, the session
  is `processing` while it is at work, and a request holds the row as it stands (`OneAtATime`); a
  verification has still to do exactly what is not completed, as long as it met no failure
  (`DoesTheRest`); a file that is neither completed nor about to be linked has no more records
  than there were deaths and exceptions (`RecordsBelong`).
- **Import.** What a run has told is its result (`ReportsInTurn`), tasks exist before
  anything is enqueued (`Committed`), and a hook enqueues a dataset that was not
  enqueued before and leaves its list enqueued (`HooksInTurn`, `HooksDone`). A dataset with a final
  status therefore has no run left that could report again. The refinement
  follows: `Commit` is `Accept`, writes of a run with a row are `Tell` or, without effect,
  `Lose`, `Note` is `Settle`, `Expire` is `Forget`, all other steps stutter.
- **Projects cache.** While no lock has expired, whoever is at work holds it (`Locked`), so
  there is one warming at a time and none that read before another stored. For withdrawn
  projects `GoneInv` follows a snapshot from its reading to its store: without an excuse,
  a request that has asked and not committed has its refresh in the queue
  (`AskedIsQueued`); what is about to be stored, and what is shown while nobody rebuilds, shows
  only public projects as long as no refresh is queued (`FreshReads`, `FreshSnapshot`).
- **Catalogue.** `Cover`: of the projects a pruning rebuild owes (there throughout, not failed), each is
  in an institution still to be listed, listed, in the batch, or seen; when it prunes the
  first three are empty, so it is seen. A row is only lost in `Prune`, `WriteAll` or with
  its resource (`LosingStep`).
  For current rows `FullInv` follows a full rebuild that met no other through every batch: a
  project is ahead, listed, loaded or seen, one of these at a time (`Parted`), and a project that has not changed
  since has its right row, loaded, kept back or written (`Right`). A flush gives the caller another list
  than the one it goes on appending to, so the argument needs that nothing is left to append
  after one: what is kept back is whole batches with room for one more (`Counted`), by `Aligned`.
  The list follows the rows because either of the two cache writes suffices (`Listed`).
- **Media links.** `DueInv`: once links have been seeded a wrong link is due or was missed (`WrongIsDue`), and
  every seeding run has each wrong link before it, or has just read it right, or knows that it
  has been passed by (`Accounted`); it must hold of every run at once, since each
  writes its own watermark. `CalmInv` follows a run that nothing came in between of: what it is done with is
  right, first link by link, then approval by approval. The proof showed that the property could be made stronger than
  it was: an exemption for projects that a run at work had read too early was superfluous and is gone.
- **Tailored feed.** A page is an initial part, in the total order of `updated_at` and id, of the rows
  after the cursor (`PageFacts`). `CopyInv`: a harvester has the current version of whatever it does not
  ask for any more (`Settled`) and of what its cursor has passed (`Passed`); what changed since
  its harvest began is left to the next, which asks from that time on, or was committed too late
  (`LeftToNext`). `OnceInv`: what was received in a harvest lies behind its cursor or changed after the
  marker of its token (`GotPast`), and a request whose marker still fits lists nothing that changed
  after it unless a change slips in between its statements (`Marked`).
- **OAI snapshot.** `RunInv`, unless two runs overlapped: one run at a time (`OneRun`), what it has
  written has positions up to its count and what it has still to write has none
  (`Numbered`), and metadata in force stand beside the rows they were stored with
  (`Marked`). For a complete harvest `HarvestInv`: metadata that a
  harvester's marker still matches were not replaced since, so the table is what the harvest
  began with, or empty (`Steady`, from `Dated`); rows of different positions have one
  ranking, the number of wanted rows before each (`OneRanking`); and what was received is exactly
  what ranks below the offset (`Progress`). A page adds the ranks up to
  the next offset, which is right because a numbering of a finite set leaves no number out (`Numbering`).
- **The four ways out.** A step of `AllSpec` is one of one component, or leaves its variables alone
  (`AllAreTheirs`); so what holds of each component's specification holds of `AllSpec`.

The invariants were checked by TLC on small instances before they were proved.

Only model-checked: all liveness (the prover does not treat fairness and
`ENABLED`), and that the violated properties are violated. Induction over data and recursive
operators are out of the prover's reach; these modules have none.

## 5. Abstractions

- A method under the task manager's lock is one step. The one way around that lock,
  a signal handler that runs in the thread that holds it, is a hazard without a property.
- Persisting always succeeds in `TaskManager`, in the cache and in the database; that the save of a
  session may fail, and that a report to the cache may be lost, is part of `ImportWorkflow`.
- Blueprints are a version; what they contain is not modelled.
- `UploadSession` has one batch of files and one `mark-uploaded` call for each; the
  multipart protocol below an upload is one step.
- `ImportWorkflow` keeps the outcome of an import (completed, skipped, failed), not its triples.
- `TaskManager` and `ImportWorkflow` both write `IngestSession.status`; the second has
  of the first what `cancellable_task` does around the enqueuing.
- A snapshot is the set of its projects, a row of the catalogue its visibility, a record of a feed
  its project; what they contain is not modelled.
- A page of a feed is one statement; so is a query for the projects of an institution.

## 6. Not modelled

- Import execution, S3 services, the older import workflows, in-process caches and
  resumable chunks (no caller).
- The components without shared state (section 1). They are the greater part of
  the repository's lines: views that render pages, serialisers, forms, conversions between
  triples and records, templates and scripts. They have no behaviour over several steps
  or actors that these specifications could say something about beyond restating them,
  which is why the modules cover only some 4,300 lines.
- Of the feeds: `until`, sets of the tailored feed, tokens of older versions, the
  canonical feed, which pages like the tailored one over another table.
- Of the media synchronisation: institutions whose projects are read from triples (KHM,
  HMT) or from S3, views that seed inline, the job's state in the cache. A
  worker's death leaves that state "running" until its key expires (`oaipmh/tasks.py:200`).
- The parts of modelled components that their notes in `PROJECT.json` name.

Hazards for which there is no model, or none fine enough:

| Where | What |
|---|---|
| `importer/services/schema_service.py:166` | a waiter's look at the cache and its look at the lock are two; the model has both, but a spurious failure is allowed by every property |
| `importer/tasks/import_metadata.py:1655` | the datasets of a session load and save its whole row: the last writer's details stay |
| `importer/tasks/import_metadata.py:1692` | early returns tell the cache only |
| `importer/views/progress.py:110` | the page cancels by an id the manager does not know |
| `importer/services/task_manager.py:708` | the first use of the manager in any process clears Huey's queue |
| `metadata/views/dashboard_views.py:465` | two requests pass the check on the status before either writes it |
| `storage/static/js/src/dashboard-upload.js:796` | the browser reports a failed upload to no one |
| `oaipmh/tasks.py:200` | the job's state is read, changed and written back |
| `cache/services/shared_graph_manager.py:53` | sizes are measured when an entry is put and again when it goes |
| `oaipmh/views/legacy.py:1323` | marker and page of the canonical feed are separate statements, as in the tailored one |

## 7. Plan

Done, in this order: the task manager (every other part reports through it), the schema lock, the
upload sessions, the import workflow, their invariants proved, the first refinement; then
the ways out: OAI snapshot, tailored feed, media synchronisation, projects cache and catalogue, with the
invariants of the cache, the catalogue's pruning and the snapshot proved.

Then every other invariant and action property of the passing runs was proved: returned tasks,
patient staff, current rebuilds, and all of the ways out; and cache writes without effect
went into the import workflow and the catalogue.

Next:

1. Abstract specifications: a session's life as a state machine implemented by
   `UploadSession` under `PatientSpec`; a lock with an owner implemented by `SchemaCache`
   under `TimelySpec` and by `ProjectsCache` while no lock expires; a snapshot that is copied in one
   step, implemented by an undisturbed harvest.
2. The tailored feed fed by `MediaSync` instead of its own saves.
