# Verification of fastly-log-analytics

TLA+ models of fastly-log-analytics, checked with TLC on small instances and, in
part, proved with TLAPS for every instance. Paths below are relative to the
repository; `PROJECT.json` maps every definition to the lines it models.

The program collects CDN request logs and real-user-monitoring (RUM) beacons that
Fastly writes to an object store (FOS), makes them queryable and deletes the raw
objects. It has two data planes: *standard* (one backend with DuckDB and DuckLake,
and optionally Celery workers) and *high-scale* (worker replicas, a Postgres control
plane, a FOS archive and ClickHouse). Both are covered from the raw object to its
deletion, because a wrong order of steps there loses or doubles data and no test sees
it; so are the cron lease and the connection pool, on which everything else runs.

## 1. Inventory

### High-scale plane

| Component | State | Operations | Correct when |
|---|---|---|---|
| Control plane (`backend/high_scale/postgres_control/control_plane.py`) | source rows (status, owner, lease, manifest), archive manifests, deletion authorizations, cursors | one Postgres transaction per method: discover, claim, mark missing, register, acknowledge, fail, advance cursors, authorize and record deletion, expire | an acknowledged source is durable and stays so; archive states only advance |
| Worker and ingest controller (`ingest_controller/coordinator.py`, `worker.py`) | the locals of one `run_page` per replica | list, recover, discover, claim, read, archive, register, publish, acknowledge or fail, advance | nothing becomes visible that cannot be rebuilt; the cursor skips nothing; every object is settled |
| ClickHouse publication (`archive/clickhouse_batch.py`) | a manifest row in Postgres, a publication row and fact rows in ClickHouse | `publish`, `_publish_table_rows` | a reader sees a batch whole or not at all, and once visible for good |
| Archive objects (`archive/manifests.py`) | artifact, manifest and commit marker in FOS | publish, is_replayable, expire | to readers one archive that appears, can be replayed, and expires, each in one step |
| Deletion sweeper, archive expirer (`postgres_control/deletion.py`) | two caches per process, the plan of a sweep | list, verify, promote, authorize, delete, record; list, expire, record | the last copy is never removed before retention; raw objects and archives do go |
| Page selection (`worker.py`, `FairPageSelector`) | one queue and one deficit per service | select | the loop ends, capacity is used, no service or domain starves |
| Recovery and replay (`recovery.py`, `archive/jobs.py`) | none of its own | purge and republish from archives | replay restores what was visible |
| Serving queries, insights (`query*.py`, `dashboard.py`, ...) | none | read through the publication fence | only visible batches are read |

They interact through stores only. Workers and sweepers of all replicas call the
same control plane; each of its methods is one transaction under row locks.
Between two calls anything can happen to the rows: leases expire and are never
renewed, siblings claim, acknowledge and free the same rows, the sweeper deletes
raw objects. Almost no transaction compares the caller's lease.

### Standard plane

| Component | State | Operations | Correct when |
|---|---|---|---|
| Ingest ledger and Celery workers (`core/ingest/discovery.py`, `batch_worker.py`, `writer.py`, `celery_app.py`) | `ingest_ledger`, the queue, the DuckLake table with its inlined rows, the write-admission lock | discover, dispatch, claim, convert, commit, fail, reclaim, redispatch, merge, publish, delete raw, retry, purge | rows are in the table once, before the raw object goes; every object settles |
| Buffer ingest and commit (`core/ingest/writer.py`, `core/storage/buffer.py`) | `ingest_in_flight`, `ingested_files`, buffer files, tombstones, quarantine | recover, list, reclaim, write, record, clear, delete raw; sweep, commit, commit singly, tombstone | no crash loses, hides or doubles rows |
| Cron lease and run records (`core/metadata/cron_runs.py`, `cron/scheduler/lifecycle.py`, `core/lifespan.py`) | `job_runs`, `cron_runs`, the threads of the process | start, heartbeat, record, backstop, release, reap, purge | runs of a job do not overlap, none blocks the job or is shown as running for ever |
| DuckDB connection pool (`core/duckdb_pool.py`, `cron/jobs/duckdb_recycle.py`) | idle queue, `_in_use`, `_draining`, condition, heavy semaphore | check out, check in, drain, warm up, reset | no slot or connection is lost or shared, nobody misses a wake-up |

The jobs of the standard plane meet in Postgres tables, in local files and in the
DuckLake catalog. Postgres connections of the metadata store are in autocommit mode,
so most functions are several transactions.

### The rest of the system

Rollups, compaction, the RUM ledger, service metadata, share links and OAuth,
realtime, provisioning, the Rust session scorer, routers and repositories, the
frontend and the deployment files. `PROJECT.json` lists each with the reason.

### What is hard here

Interleavings of replicas, workers and jobs between two transactions; a lease or claim
that runs out under a slow holder, who then reports; messages lost or delivered twice;
a crash or lost reply after any remote call; partial inserts and deletions; a retry
whose page is not the page that failed; caches of one process against the writes of
another; file names used again; connections that fail between count and use.
`PROJECT.json` lists them under "hazards", each at its line and with the properties
that would catch it.

## 2. Modules

| Module | Models |
|---|---|
| `ControlPlane` | the tables and transactions of `PostgresControlPlane`, one action each |
| `DurableStores` | bucket, archive and ClickHouse, by what they hold |
| `HighScaleWorker` | replicas running `run_page` and `ingest_batch`, one action per remote call, their failures, and the environment |
| `ArchiveDeletion` | sweep threads running `HighScaleDeletionSweeper` and `HighScaleArchiveExpirer` |
| `HighScalePlane` | workers and sweepers over the same stores (`HighScaleWorkerLoop`) |
| `VisibleBatch` | abstract: a batch appears to readers whole, in one step, for good |
| `BatchPublication` | `ClickHousePublication.publish` over `_publish_table_rows`, call by call; implements `VisibleBatch` |
| `ArchiveLifetime` | abstract: an archive appears, is replayable, expires |
| `ArchiveObjects` | `ArchivePublication` call by call, under workers, sweepers and expirers; implements `ArchiveLifetime`, which is how the worker and deletion modules use an archive |
| `FairPageSelector` | `select`, one action per pop or top-up, and the loop that calls it |
| `IngestLedger` | discovery, Celery workers, ledger sweep, commit job and operator, one action per transaction or remote call |
| `BufferIngest` | the ingest and commit threads of one backend, their crashes and recovery |
| `CronLease` | threads that run one job, statement by statement, with heartbeats, crash and startup |
| `ConnectionPool` | request threads, the recycler and the warm-up of idle connections over pools |
| `MC*` | instances for TLC (symmetry only); the other modules are run directly |
| `*Proofs` | theorems and proofs |

Correspondence of state and code, high-scale plane:

* An object key is a number in listing order; its content is abstracted, objects
  being immutable. `status`, `claimant`, `lease`, `link` are the columns of
  `high_scale_source_objects`; `lease` is "none", "live" or "expired" instead of a
  time, and `LeaseExpires` is the clock passing it.
* A manifest is its set of sources and a layout: `manifest_id` hashes the source
  keys and the artifact bytes, and the bytes depend on a column order that differs
  between processes.
* `cursor` is the last key listed (0 before the first page). The lister asks a page
  for `NextToken`, which raw S3 pages do not have, so every stored cursor is
  `__terminal__:<last key>`. The partition cursor written with an acknowledgement
  is never read and is left out.
* `pc[w]` says which remote call a replica makes next, `todo`, `active` and
  `payload` are the lists of `run_page`. `fail_sources_batch` after an exception and
  in the incomplete-derived branch is the step "fail".
* `verified` and `promoted` are the per-process caches of `DeletionController` and
  `PostgresDeletionLedger`.
* The owner epoch is not a variable: `begin_drain` and `rollback` have no caller, so
  every fence compares 1 with 1.
* In `BatchPublication`, `rows` counts the rows of each version of the batch's
  content. There is more than one version because `_enrich_high_scale_ngwaf_bots`
  joins a table that changes. Attempts do not overlap: the batch id depends on the
  process, and one process makes one attempt at a time.
* In `ArchiveObjects`, the version of a manifest is the attempt that built it: coverage
  and deadlines are times of the attempt. Attempts of one manifest id follow one
  another, for the same reason, unless `Overlap` is TRUE.
* In `FairPageSelector`, `waited` and `served` are history. `Init` chooses every
  capacity and every vector of weights up to the bound.

Standard plane:

* A row of `ingest_ledger` is a record; times are flags (`due`, `aged`, `grace`) that the
  clock sets. `lake[k]` counts the copies of an object's rows, `inlined` says that some
  are still in the catalog only. The transaction of `delete_sources` then insert reads
  the rows it deletes when it begins (`doomed`), so two writers outside the admission
  lock would double them. Delivery is at least once; a message may also be lost.
* In `BufferIngest` a file is named by the set of objects in it, as
  `_deterministic_buffer_name` does; writing it again replaces it. A crash stops both
  threads and keeps tables and files. `_commit_paths` has both of its outcomes: it deletes
  the rows of its objects and inserts them, or, when its schema sync raised and the
  exception was swallowed, only inserts. `again` is history: the objects whose last insert
  went on top of rows that were not deleted. The delete by natural key of the RUM tables
  (`buffer.py:281`) stands for the same step as the delete by source.
* In `CronLease`, `lease` is the row of `job_runs` with status running, which a unique
  index makes single. `start_cron_run` takes its time once and then compares two statements
  with it: `early` are the threads that took theirs before the lease expired. `log_cron_run`
  ends the lease of the task, whoever calls it: the run itself (`Record`), the same run a
  second time from its exception handler (`RecordAgain`), a tick that never asked for the
  lease (`SkipRow`), a request that was refused it (`LogRefusal`). A success that is not to
  be logged deletes its row and leaves the lease (`DeleteRecord`). `lapsed` is history: a
  lease was ended by another than the thread that held it, which expiry without heartbeats,
  startup, a second record and a row logged without a run can do. The normal end of a run
  leaves `lapsed` as it is, so `RunsAlone` also says that it never ends another's lease. A run is at
  work until its record; what a job does after it is not under the lease in the code either.
* In `ConnectionPool`, one action is one stretch under the condition's lock, one
  unlocked read or one call that builds, attaches or closes. `waiters` is the queue of
  `threading.Condition`, in which a thread that woke by timeout stays until it has the
  lock again. A recycle retires the pool object; requests that hold it go on with it.

Each remote call may fail without effect; an acknowledgement, a publication or an INSERT
may also take effect with its reply lost, and an INSERT may leave part of its rows
(the server splits it into blocks). A crash loses the locals and, unless the worker
identity is pinned, the identity.

Operators whose comment begins with "Mutant" are broken variants of the definition that
follows them. They belong to no specification; each one shows that some property
notices that mistake.

## 3. Runs

| Run | Instance | Shows |
|---|---|---|
| `worker_replicas` | 2 keys, 2 replicas, pages of 2, slow pages, 1 fault, 1 object vanishes | what is acknowledged is registered, archived and visible; what is visible is rebuildable; stale cursor writes skip nothing |
| `worker_rum` | 2 keys out of order, 2 replicas, reinspection, 1 fault, fair | late objects are reached although replicas overwrite each other's reinspection state |
| `plane_replicas` | 1 key, 2 layouts, 2 replicas, 2 sweepers, slow pages | deletion and expiry under a late replica's second manifest and stale caches stay safe; an acknowledgement is final |
| `plane_lifecycle` | 2 keys, 1 replica, 1 sweeper, 1 sweep fault, fair | every acknowledged object is swept, every archive expires |
| `batch_atomic` | 3 rows, 2 versions, 4 failures, fair | publication is atomic to readers; retries of the same rows succeed |
| `archive_objects` | 2 replicas, 2 sweepers, 4 attempts, 3 failures, fair | publish and expire are atomic to readers, a copy always remains, nothing is left in the end |
| `fair_pages` | 3 services with 3 domains, every capacity, weights to 3, 7 rounds | `select` ends and uses its capacity; no pair waits more than its siblings need; equal weights give equal shares |
| `ledger_ingest` | 1 key, 2 workers, 1 commit job, 2 attempts, 2 faults, 1 operator request, fair | rows are in the table exactly once before raw deletion; committed is final; everything settles |
| `buffer_ingest` | 2 keys (1 filtered out), 3 faults, 1 abandoned recovery, fair | crashes between any two steps lose and hide nothing, and double nothing but what an insert without its delete did; everything settles |
| `cron_leases` | 2 threads, 3 runs, 1 request, 2 faults, fair | runs do not overlap unless another than its holder has ended a lease; errors are final, no row or lease stays for ever |
| `connection_pool` | 2 heavy, 1 light and 1 reuse-only request, 2 connections, 1 heavy slot, 1 recycle | slots and connections are neither lost nor shared; no waiting request misses its wake-up |
| `worker_stranded` | violation | see the finding |

Bounds. Two keys allow a page to be retried as a different page. Two replicas are
enough for every race of one lease holder with one late holder; the proofs cover any
number. One fault in the safety runs is placed anywhere, and slow pages add any number
of lease losses without being counted. Two layouts give one source two manifests.
`CacheCap` is 1, so that both caches overflow. `batch_atomic` has more failures than
publication has writes. In `archive_objects` four attempts outnumber the three failures.
Seven rounds let every deficit of `fair_pages` go through its cycle. Objects of the
ledger only meet in messages and in the lock; one key with two workers has every race
for a row. Two keys pass the safety properties too (5.8 million states with one fault
and no operator); they are too large to run each time. Three runs let an old run's row, a present one's and a
manual one's coexist. Pool objects share nothing, so one of them with its recycle is
enough; two with one connection each pass as well (2.5 million states).

Every module has a type invariant. `worker_replicas` checks its own; those of the modules
with proofs are parts of the inductive invariants of section 4; the others hold on the same
instances and are left out of the runs.

Fairness. Weak fairness of each replica's, worker's, job's and sweeper's steps: loops end only
with their process, which is restarted, the scheduler ticks again, Celery keeps its workers.
Weak fairness of the clock passing leases, deadlines and grace periods. Faults are finite in
number. Strong fairness in two places: taking the write-admission lock, because
Postgres queues the waiters of an advisory lock, and the full listing of
`buffer_ingest`, which every full sweep makes. The liveness runs of the high-scale
plane assume that leases outlive pages (`SlowPages` FALSE, 300 s by default): otherwise two
replicas can take each other's claims and free them for ever, because `fail_sources_batch`
does not compare the holder. Retention is finite (0 would keep an archive for ever).
`EveryObjectSettles` of the high-scale plane is checked for RUM domains: they recover
through reinspection, whereas request logs with two replicas do not (finding below).

Deadlock checking is off where the system may stop: when an archive is gone
(`archive_objects`), after the last round (`fair_pages`) and when the bounded pool objects
are used up (`connection_pool`).

### Finding

*A source stranded behind the cursor* (`worker_stranded`). A replica that loses a
claim counts a duplicate and moves the cursor on. If the winner then fails,
`fail_sources_batch` sets the row to discovered: not listed again (it is behind the
cursor), not recovered (`expired_claims` wants claimed rows).

### Observations

Met while modelling; where a property depends on one, it is stated for the histories without it.

* A page that fails after its facts were published and is retried with a new object in
  it has another batch id: both batches show the same rows (`coordinator.py`, `manifest_id`
  hashes the set of sources).
* The archive of such a superseded attempt keeps state manifest_committed, and expiry
  wants source_deleted: it is never expired. `EveryArchiveExpires` is checked without
  worker faults.
* Bot verdicts that change between attempts change the digest of a batch that is pending;
  every retry then raises. `SameRowsArePublished` is stated for unchanged rows.
* Two processes with one hash seed that publish one manifest id at the same time, one past its lease,
  overwrite each other's manifest and marker (`Overlap` TRUE violates `CopyRemains`).
* A page that outlasts its leases can acknowledge a source again that is source_deleted
  already, and can publish an archive again after its expiry; once `archive_expired_at` is
  set, nothing lists that archive any more. No transaction of the page compares the lease. What is acknowledged stays durable
  all the same (section 4).
* With weights above 1, or with a capacity one below the number of pairs, the first
  service keeps the spare pages and the deficits of the others grow: `EqualShares` excludes both.
* `ingest` logs and drops an exception of its crash recovery (`writer.py:196`). The files
  of the unfinished chunk are then read again under another chunk name and both are
  committed, against "exactly once" in `docs/features.md:11` and
  `docs/adr/09-error-handling.md:44`. `NoDuplicateRows` counts such give-ups out.
* `_commit_paths` swallows an exception of its schema sync (`buffer.py:276`). It then knows no
  columns, skips the delete and runs a plain INSERT (`buffer.py:305`). After a crash between a
  commit and its tombstones, such a commit doubles the rows, against the same two documents.
  `NoDuplicateRows` leaves out the objects of such an insert (`again`) until a commit
  that deletes has replaced them.
* `ingest_log.py` calls the deletion of raw objects without rows data loss, and the reclaim pass
  refuses it, but the chunk loop deletes them with the rest of its chunk (`writer.py:586`).
* The scheduler is started before startup reaps (`lifespan.py:253`), so the rows it reaps
  are not the "guaranteed orphans" of the comment at `lifespan.py:48`. `lapsed` covers it.
* `log_cron_run` ends the lease of the task, not that of the run (`cron_runs.py:287`). A live run
  loses its lease, and may be reaped and overlapped, when another thread logs a skipped tick
  (`record_skip_row`, `compaction.py:124` and `:257`, `metadata.py:310`), when a refused
  metadata cleanup logs its own refusal (`routers/admin/compaction.py:735`), when an earlier
  run records a second time because something after its record raised (`commit.py:148`, then
  `:183`), and when a run that lost its lease records its end. `lapsed` covers them all, and
  without these calls TLC and the proof find no overlap.
* A success with logging disabled deletes the row of its run and does not end the lease
  (`duckdb_status.py:107`): the job is refused until the lease expires.
* Outcome counters of the ledger are not compared with the claim's generation
  (`cron_runs.py:496`).
* `release` reads `_draining` without the lock: a connection can go back idle into a pool
  that began to drain (`duckdb_pool.py:357`; the module comment says that draining connections are
  discarded). The drain then ends by its timeout. The recycler also shares its condition with
  requests and is woken by single notifications, so it can sleep its timeout out
  although nothing is in use any more.
* `_ducklake_attach` answers False on failure, but the mkdir of its default data path can raise
  (`catalog.py:346`). The exception would pass `duckdb_pool.py:313` without `_discard` and keep
  the slot for good. `Attach` of `ConnectionPool` fails by answering False.
* `_stamp_fingerprint` reads the view cache after the bind; a view that changes in between
  is taken for bound.

## 4. Proofs

All for every value of the constants, under the named assumptions only
(`KeysAssumption`, `IntervalAssumption`, `WorkerAssumption`, `ManifestAssumption`,
`PageAssumption`, `FlagAssumption`, `BoundAssumption`, `SweepAssumption`,
`ObjectsAssumption`, `BatchAssumption`, `LedgerAssumption`, `BufferAssumption`,
`LeaseAssumption`, `PoolAssumption`, `SelectorAssumption`): naturals are naturals, flags are Booleans, sets of processes are
disjoint, the NULLs are not members. No set of keys, workers or sweepers has to be finite; the
request threads of one process are, because the pool's properties count them.
TLC has checked every inductive invariant below before it was proved.

`HighScalePlaneProofs` first proves, of the workers alone, `TypeCorrect`, `AcknowledgedDurable`,
`VisibleRebuildable`, `AcknowledgedFinal` and `CursorNeverSkips`. The two invariants are not inductive:
an acknowledgement is safe because of what its replica did several calls earlier. The
strengthening `BatchInv` says of every replica in `ingest_batch` how far its manifest has
come: it covers the payload from "register" on, is archived there, registered from
"facts" on, and its facts and derived rows are visible when it reaches "ack". It holds whatever
siblings do because archive, registrations and visible batches only grow in the
worker specification (`StoresGrow`) and because control-plane transactions other than the
acknowledgement never touch what an acknowledged row says (`Preserving`, one lemma per transaction). `StepIInv` has one lemma per action. `AcknowledgedFinal`
follows from the same step lemma. `CursorNeverSkips` needs two more invariants, over the
rows instead of the batches. `KnownInv`: rows are of objects that arrived, and whatever
a replica works on, archives or registers has a row. `CursorInv`: everything up to a
replica's `next_cursor` has a row or is still on the page that this replica is
discovering, so a cursor that it writes late is behind no unknown object; with objects
in key order, a new object is behind no cursor.

It then proves `SweptArchived`, `ExpiredNoRaw`,
`PlaneAcknowledgedDurable` and `PlaneAcknowledgedFinal` for workers and sweepers together.
In this composition the archive does shrink, so the worker's invariants are proved again
over steps of the sweepers (`SweepKeeps`), and those of the sweepers over steps of the workers
(`WorkersKeepPlane`, from the workers' step lemmas). The
strengthening `SweepInv` says that a source_deleted row has no raw object, that a source_deleted
manifest has none, and what each sweep has established when it deletes, marks and
expires. It says nothing of `verified` and `promoted`: the proof shows that the
authorization in the ledger is enough and that no cache has to be right.

Its last part assumes that no page outlasts its leases (`~SlowPages`) and proves `ExclusiveClaims`,
`TurnsAreTaken`, `OneAcknowledgement` and `ArchivesLiveOnce`, all four false with slow pages, where TLC finds
counterexamples. No transaction but the claim compares owner or lease, so exclusion has to come from what a
replica holds: `ClaimInv` says that whatever a replica has in hand is claimed by it under a live
lease, or was acknowledged by it with the reply lost. Every transaction of the page then writes rows
of its own replica only; a settled source is in nobody's hands, hence is not acknowledged
again, and a manifest whose sources are deleted is published by nobody. `ArchivesLiveOnce`
(`~SlowPages => (PlaneSpec => \A m : Life(m)!Spec)`) is the plane's side of `ArchiveLifetime`, the
interface that `ArchiveObjects` implements, and `TurnsAreTaken` is the assumption under which it
does (`~Overlap`): together they justify the archive that is one set here. TLC has checked
these four for two replicas and a sweep, with two sources, and with two faults.

`ArchiveObjectsProofs` proves `ArchiveMarkerIsBacked`, `ArchiveCopyRemains` and
`ArchiveIsAtomic` (`~Overlap => (Spec => Lifetime!Spec)`) for attempts on one manifest id
that follow one another; with overlapping ones they are false (observations of section 3). The invariant is about turns: until the acknowledgement at most one worker is active and no
sweeper, afterwards only sweepers (`Turns`, `SweeperKnows`); a worker reaches its puts
only when it found no whole archive, hence no marker (`WorkerKnows`); a registered
archive keeps its marker until its sources are deleted (`RowKnows`). In the refinement,
the put of the marker is the abstract appearance, the deletion of the marker the
abstract expiry, and the rest stutters.

`BatchPublicationProofs` proves `VisibleBatchIsWhole`, `VisibleManifestIsBacked` and
`PublicationIsAtomic` (`Spec => Reader!Spec`) for any batch size, number of versions
and number of failures. The invariant says which version the rows in the table have
(all of them the pending publication's), what `count` is, and what each call knows when
it is made; the refinement maps MarkVisible, or its lost reply, to the abstract step
and everything else to stuttering.

`CronLeaseProofs` proves `LeaseTypeCorrect`, `RunsDoNotOverlap`, `OrphansOnly` and
`ErrorsAreFinal` for any number of threads, runs and faults. `RunsAlone` does not say who has the
lease. `OneOwner` does: a thread holds it from acquiring it to its record or, when the run
ends without one, to the release by its backstop (`Holder`); as long as no lease was ended by
another, a held lease is live and has one holder. The steps that end whatever lease there is keep this
for two reasons: the end of a run is that of the one holder, and every other such step sets `lapsed` if
there is a holder left. That the backstop of a recorded run holds nothing rests on its row
not being used by a new run while a thread still knows the id (`Fresh`).

`IngestLedgerProofs` proves `LedgerNoDuplicates`, `LedgerCommittedInLake`,
`LedgerDeletedInLake`, `LedgerPublishedFlushed` and `LedgerCommittedFinal` for any number
of objects, workers, commit jobs, redeliveries, deaths and operator requests. `NoDuplicateRows`
is not inductive, because a transaction inserts next to the rows that it saw when it began.
`Locked` says that whoever writes to the table, or merges its inlined rows, holds the
admission lock. `Writers` says what is established under it: the transaction of the holder saw all the copies
there are; between leaving the lock and marking the ledger a worker's objects have one copy each,
because later writers replace them by one copy again; nothing is inlined when the commit
job publishes; and what a commit job has claimed to delete is in the table.

`BufferIngestProofs` proves `BufferIngestedSafe`, `BufferHiddenInLake` and
`BufferNoDuplicates` for any objects, files, crashes and failed recoveries. `Commits` says that what
is done or hidden by a tombstone is in the table and that the commit job takes only files
that exist; `Reads` that the chunk at hand was neither ingested before nor will be
read again; `Safety` extends `IngestedIsSafe` to the chunk that is about to be listed. `Complete`
carries `NoDuplicateRows`, as long as no recovery was given up: every file is ingested, or the
in-flight manifest knows it until recovery has seen it (`Known`), and no two files
share an object. Of a commit it needs only that each object outside `again` has at most
one copy afterwards, whichever way `_commit_paths` went (`CommitPathsOnce`). Without `Known`, a file left by a crash could be read again under
another name, which is what the abandoned recovery of section 3 leads to.

`ConnectionPoolProofs` proves `PoolSlotsAreCounted`, `PoolOneUserEach`, `PoolNobodyOversleeps` and
`PoolHeavyIsBounded` (and `PoolTypes`) for any finite set of requests, any sizes and any
number of recycles; the run has one pool of two connections. They need one another: a build finds a
connection that is not open because slots are counted (`FreshConn`), and a slot is given back
once because its holder has no connection left (`Conns`). `NobodyOversleeps` counts everyone who is
about to look, and as such is not inductive: a thread that woke at its deadline is still listed, and the
next notify may be spent on it instead of a sleeper. `Told` therefore counts only threads that
are no longer listed (`Ready`). It is kept because a notify that reaches a listed thread takes it off
the list and so makes it ready, whether it slept or not (`ToldWoken`); because a thread that takes something
uses up one free place and one ready thread, and one that lies down again has seen nothing free
(`ToldMoved`); and because the end of a drain, during which nothing is promised, wakes everyone.
`Listed` is the invariant over the condition's queue: no thread twice, every sleeper in it, every listed
thread with that pool and asleep or about to look.

`FairPageSelectorProofs` proves `NoPairStarves`, `CapacityIsUsed` and `SharesStayEqual` (the three
invariants of `fair_pages`) for any number of services and domains and any capacity and weights that
the constructor accepts; the run has three of each. Three more theorems say what `select` relies on
without saying so: `FirstLoopNeverSkips` (the `break` and the empty-queue test of its first loop are
never taken, which is why `FirstPage` may have them as guards), `EveryServiceEveryTick`
(a tick has a page of every service and none twice) and `IdlePassGivesCredit` (after a pass without
progress somebody can be served: the safety half of `SelectEnds`). The invariant has five
parts. `Queues`: what a tick has selected and what is queued are all pairs, each once, so
a tick that ends with room has left nothing. `Room`: how far the first loop has come.
`Places`: the place of a domain in its queue and the ticks it has waited add up to at most `NDomains`;
every tick takes the front of every queue, and whatever joins a queue joins behind. `Stuck`: a pass without progress has found nobody
with both backlog and credit. `Shares`: with equal weights, pages served plus credit, less what
this tick has queued and taken, is the same for every service. That one rests on `AllWait`: where the
capacity leaves as many pages waiting as there are services, the pass that tops up credit
finds every service with backlog, because if one had no page left the others would have at
most one each and the capacity would be used up. No sum is taken over a list: what is
compared are lengths of injective sequences and cardinalities. `Sorted` exists for every set of domains by the rank of its members.

Only model-checked: liveness (`EveryObjectSettles`, `EveryRawIsSwept`, `EveryArchiveExpires`,
`SameRowsArePublished`, `Reclaimed`, `SelectEnds`, `EveryRunEnds`, `JobRunsAgain`), because fairness and
ENABLED are outside the prover's reach. Every invariant and every action property that a run
checks has a theorem.

## 5. What is not modelled

Within the modelled parts: row contents, decoding, dead letters and size limits; the
in-memory ledger that replaces the control plane in tests; the owner hand-over, which
nothing calls; building and reading Parquet; retries inside HTTP clients; an INSERT
that the client gave up on and that the server completes during a later attempt (the
server gets the client's timeout as its own limit); counters, incidents and
telemetry; schedules and the work of the jobs; the view bindings of pooled
connections and the recycle barrier, which only delays a build. More than one service
or domain in one model, but for page selection: control-plane rows of different services
and domains are disjoint. Raw objects are not: by default the two RUM domains list the same
`raw/rum/` prefix, and how the two share and sweep its objects is not modelled.

Whole parts: compaction, catalog repair and rollups (planned); recovery, replay and
export jobs (planned); the RUM ledger of the standard plane, which follows the same
scheme as the ledger modelled here. Most of the repository's lines are SQL text,
routers that shape responses, read-only repositories, configuration and user
interface: they keep no state of their own, and a model would only transcribe them.
The mapped lines are therefore a small share of the implementation, and are those in
which state changes hands.

## 6. Plan

1. Purge and replay (`recovery.py`, `replay_manifest`) over `BatchPublication`; historical
   and export jobs (cancel, expiry).
2. Compaction and rollup recomputation against concurrent commits; the RUM ledger.
3. Share links and OAuth state; provisioning with rollback.
