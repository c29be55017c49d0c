# TLA+ verification of gs_server

gs_server is a FastAPI service that stores media files and runs 3D
reconstruction algorithms on GPU workers. Its state lives in PostgreSQL (rows
changed by SQLAlchemy sessions, READ COMMITTED), Redis (GPU leases, download
sessions, the Celery broker) and MinIO (blobs); its processes are API servers,
GPU workers, a media worker, a maintenance worker and Celery Beat. Nothing but
these three stores connects them, so what can go wrong is mostly a matter of
which process read what before which other process wrote it, and of who dies
between two writes. That is what the modules here are about.

Paths below are relative to `src/`.

## 1. Inventory

| Component | State | Operations | Interacts with |
|---|---|---|---|
| GPU leases: `app/services/gpu_scheduler.py` | Redis: `gpu-lease:<scope>:<device>` (string, TTL), `gpu-user-leases:<scope>:<user>` (sorted set, TTL) | `acquire`, `renew`, `release`, `release_stale`, `terminate_local_process` | GPU workers of one node or pod; the recovery; `nvidia-smi` |
| Task life cycle: `app/api/v1/reconstruction.py`, `app/services/task_service.py`, `app/tasks/reconstruction_tasks.py` | table `reconstruction_tasks` (status, Celery id, cancel flag, heartbeat, billing start, retries, placement) | create, start, start mesh, cancel, delete, `_enqueue`, `prepare_gpu_dispatch`, `mark_waiting_for_gpu`, `run_reconstruction_algorithm`, `recover_stale_*` | broker, leases, quotas, files |
| Files: `app/services/file_service.py`, `app/tasks/cleanup_tasks.py` | tables `storage_objects`, `files`; blobs | merge (reuse or create), register, replace, soft delete, orphan clean-up | uploads, runs, media |
| Chunked uploads: `app/services/upload_service.py`, `app/api/v1/upload.py` | table `uploads`; chunk objects | init, chunk, merge, cancel, progress, expiry | files, quotas |
| Task files: `app/api/v1/reconstruction.py`, `FileService.delete_file` | table `task_files` (links with a role), metadata of results | link inputs, select a PLY, stage, restore a model directory, register results, delete a file | tasks, files |
| Downloads: `FileService.*download_session*`, `app/core/redis_client.py` | one JSON document per session in Redis | create, chunk, complete | files |
| Media: `app/services/media_service.py`, `app/tasks/media_tasks.py` | `files.media_processing_*`, derivatives | enqueue, process, heartbeat, fail, recover | broker, files |
| Quotas and accounting: `app/services/user_service.py`, `app/core/quota_time.py` | table `users` | active-task quota, storage quota, GPU seconds, daily reset | tasks, files |
| Algorithm catalogue, command lines, schemas, auth, storage and database access, migrations, deployment | none of their own, or single rows | pure functions, CRUD, wiring | all |

What is hard, and the property that answers it (the full list, with lines, is
under `hazards` in `PROJECT.json`):

- **Leases** expire apart from each other and from their owner's knowledge; a
  late `renew` or `release` must not touch somebody else's lease
  (`OnlyOwnLease`), slots must respect `gpu_concurrency_quota`
  (`SlotsWithinQuota`, `RunningWithinQuota`), two processes must not share a GPU
  (`OneProcessPerDevice`), and a crash must not lose a device or a slot for ever
  (`DeviceComesBack`, `SlotComesBack`).
- **Tasks**: rows are read, worked on for seconds or hours, and written back;
  only the recovery and the quota check lock anything. A queued task must always
  have somebody who will move it (`QueuedIsDriven`), an active one must end
  (`ActiveEnds`), the quota of active tasks must hold (`QuotaHolds`), and a usable result is not hidden
  behind a failure (`PlyNeverFailed`).
- **Files**: PostgreSQL rolls back, MinIO does not. A record that is not deleted
  must have its blob (`LiveHasBlob`) and an object without records must be known
  to the clean-up (`OrphanListed`), whatever fails in between.
- **Uploads**: the chunks in MinIO change at once, the row only at the commit. An
  upload must end once, with the announced file (`SessionKept`), be resumable
  after any failure (`Resumable`) and leave no chunks (`NothingLeft`).
- **Media**: the same shape as tasks with fewer columns: the recovery selects three
  combinations of them, and whatever a lost request, worker, message or heartbeat
  leaves must be one of them (`PendingIsDriven`), so that a file's processing ends
  (`MediaSettles`).
- **Accounting**: a session adds its charge to the amount that it loaded some time
  ago, midnight passes meanwhile, Beat and an administrator reset the same
  columns. Nobody may pay for more seconds than were run today
  (`NotOvercharged`) or be refused with quota left (`NotRefused`), a run costs
  its time (`CostExact`), billing is closed (`BillCloses`) and every day starts
  at zero (`ResetComes`).
- **Task files**: registering results takes minutes in one transaction, whose steps
  see what others commit meanwhile. A rerun that fails must leave the PLY there
  is (`PlyStays`), a mesh must belong to the PLY beside it (`MeshOfPly`), a Mesh
  run must work on one generation (`OneGeneration`), and a task that waits or
  runs must have its inputs (`InputsKept`).
- **Downloads**: parallel requests rewrite one document and forget each other's
  chunks. What is left must be true (`Accounted`), the ranges must be merged
  right (`MergeRight`), a confirmed download must be one version of the file
  (`CompletedWhole`), and the client must get there (`DownloadEnds`).

## 2. Modules

| Module | Models | Extends / used by |
|---|---|---|
| `GpuLease` | the lease protocol, one action per Redis command or script | `MCGpuLease`, `GpuLease_proofs` |
| `ReconTask` | task rows, requests, workers, broker, recovery | `MCReconTask` |
| `ExclusiveGpu` | abstract specification: what the scheduler promises of GPUs and quotas | `GpuLease` (INSTANCE) |
| `GpuUsage` | the seconds and the day of a user, and the tasks' bills | `MCGpuUsage` |
| `TaskFiles` | a task's links and both stages' runs | `MCTaskFiles` |
| `DownloadSession` | one download: document, requests, client | `MCDownloadSession` |
| `FileStore` | storage objects, records, blobs, the clean-up | `MCFileStore` |
| `UploadSession` | abstract specification: what the endpoints promise of one upload | `ChunkUpload` (INSTANCE) |
| `ChunkUpload` | one upload's row, its chunk objects, requests and the clean-up; implements `UploadSession` | `MCChunkUpload` |
| `Media` | one file's thumbnail: enqueuing requests, worker, heartbeat, recovery | `MCMedia` |
| `GpuLease_proofs`, `ReconTask_proofs`, `GpuUsage_proofs`, `TaskFiles_proofs`, `DownloadSession_proofs`, `FileStore_proofs`, `ChunkUpload_proofs`, `Media_proofs` | theorems about the module they are named for | |
| `MC*` | constants and symmetry for TLC | |

Definitions whose name ends in a suffix (`HasRoom_OffByOne`, `Check_TrustsRow`,
...) and whose comment starts with "Mutant:" are plausible faults of the
definition below them. No specification uses them; they serve to show that the
properties notice such a fault.

### 2.1 GpuLease

A worker's lease is the pair of a device key and a member of its user's sorted
set. `acquire` is `AcquireSlot`/`RefuseSlot` (one Lua script: purge, count,
add), `Inspect` (`nvidia-smi`), `TakeDevice`/`SkipDevice` (SET NX EX, device by
device in the configured order) and `GiveBack`; `renew` is `RenewDevice` and
`RenewSlot`, `release` is `ReleaseDevice` and `ReleaseSlot`, `release_stale` is
`StaleDevice` and `StaleSlots`: each is one Redis command or script, so
everything may happen between them. Time counts down: `left` and `score` are the
ticks a device key or member has left, `Tick` removes device keys that run out;
members only grow older and stay in the set until a script purges them or
the whole set expires (`SlotsKeyExpires`). `Begin` and `Finish` are the two
points of `run_reconstruction_algorithm` that matter to a lease, `proc` says
whether an algorithm process runs, `Crash` is the death of a worker.

Abstractions: the device token and the user token of one `acquire` are one
token (both are drawn by that call, and the lease value contains both); which
devices `nvidia-smi` calls idle is arbitrary; a failed inspection is the empty
set, as both give the slot back. `Timely` states the assumption the code's
timing rests on: the poll interval (2 s) is far below the TTL (60 s), so a
supervised process is renewed before its lease runs out. It says nothing about
the time before the process starts: staging inputs may outlast the lease. The
user's database quota and the daily GPU quota are constant here.

`ExclusiveGpu` says what this is for, without leases: a GPU has at most one
process, a user at most a quota of them in a scope, and processes start and
stop. `KeepsPromise` is the refinement: a worker's process is the claim it
holds while `proc` is TRUE.

### 2.2 ReconTask

`row` is the table. SQLAlchemy writes only the columns an object changed, and
nothing versions a row, so a process's knowledge is a pair `[from, to]` and
`Flush` applies the difference to the row as it is by then; this is where
lost and revived statuses come from. A request or a recovery is an `Actor`:
`StartLoad` or `StartMeshLoad`, `StartQuota` (user row locked until the first commit),
`EnqueueCommit` ("dispatching"), `Send`, `RecordCommit`; `CancelLoad` or
`DeleteLoad`, `Revoke`, `CancelCommit`; `RecoverCommit`, `ReleaseCommit` and
then the same enqueue steps. A worker goes from `Receive`
(`prepare_gpu_dispatch`; `Refuse` when the day's GPU quota is used up, `Ignore`
when the task waits no longer) over `GetLease`/`NoLease` to `RunLoad`, `BeginCommit`,
`Poll`, `FinalLoad`, `FinalCommit`, the exception path, and `Finally`. The broker keeps messages until they are acknowledged
(`acks_late`, `reject_on_worker_lost`), so `WorkerDies` and `Redeliver` put a
message back, and `Uncaught` (an exception of the Celery task) discards it. `DeletePly` is
the owner's deletion of a PLY result by itself: the task stays, without it.

Abstractions: `heartbeat_at` is fresh or stale; logs, stages and progress are
left out; of the files only "a PLY exists" (TaskFiles has them), of the bill
only whether it is open (GpuUsage has the seconds); the mesh pipeline of two
commands is one run; the GPU is granted, refused or cannot be inspected
(GpuLease says when). `Prompt` is the assumption that somebody at work on a
task acts within `reconstruction_stale_processing_seconds` (300 s, against a
poll interval of 2 s).

### 2.3 FileStore

`object`, `file` and `blob` are the two tables and the bucket, for one user
(objects are keyed by owner, hash and size). A session's steps are: what it
looked up (`Store`, `Replace`, `Delete`), the insertion of an object row
(`Insert`, blocked or refused by the unique index), `Check` and `Put` (the only
changes to blobs), `Record` (the flush: which flags it writes, which rows it
locks, whether a foreign key or an update of a vanished row makes it fail) and
`Commit`. The clean-up is one transaction over all listed objects:
`CleanCount`, `CleanKeep`, `CleanBlob`, `CleanDrop` per object, then
`CleanCommit`. `Abort` and `CleanAborts` roll back rows, never blobs.

`OrphanListed` speaks of every moment, also while sessions are under way: an
object's row appears with its record's, in one commit. `Memory` is what a session
may hold; the assumption on `None` says that it is neither that nor a content or
record.

Abstractions: a content is a (hash, size) pair; a merge has all its chunks;
storage use, links to tasks, derivatives and access rights are left out; MinIO
operations are atomic.

### 2.4 ChunkUpload and UploadSession

`row` is the upload's row (status, `received_chunks`, whether a file is
attached), `chunk` its objects, `object` what the merged file was stored as. A
request loads the row (`ChunkLoad`, `ProgressLoad`, `MergeLoad`, `CancelLoad`,
`BeatLoad`), works (`ChunkSave`, `ChunkCount`, `ProgressCount`, `MergeCount`,
`MergeRead`, `MergeStore`, `DeleteChunk`: chunks are read and deleted one by
one) and writes the columns it changed (`Commit`). `Abort` ends a request at
any point: the row is rolled back, the chunks are not. A chunk is good or bad
(the right length, the wrong bytes); `Verified` is the comparison of etags and
hashes. `late` says that `expired_at` has passed, which may happen at any time
(`Lapse`).

`UploadSession` has the upload's outcome and the content of its file, and says
that an upload is opened or answered from an existing file, and then ends once:
completed with the announced file, cancelled, or expired. `SessionKept` is the
refinement: the outcome is the row's status, with initiated and uploading both
open, and the content is `object` if a file is attached.

`Overlap` says what may fall together: pairs of kinds of work, and of work and
the moment `late` becomes true. It is the model's only assumption about the
client. `MC_Patient` is a client that sends chunks in parallel, merges when it
has sent them, merges again if the answer is slow, polls the progress
meanwhile, and cancels when nothing else is under way; polls and clean-ups that
find the upload late do not fall together with requests that began a day
earlier. What happens without it is in section 6.

Abstractions: sizes, quotas, the task an upload is bound to and its effects are
left out; PostgreSQL's row locks between a flush and its commit are too, which
only allows more interleavings; counting the chunks is one step.

### 2.5 Media

`rec` is the file's `media_processing_*` columns, with "a thumbnail that is not
deleted" and `is_deleted`. `enqueue` is the same three steps whoever calls it:
`EnqueueCommit` ("dispatching"), `Send` or `SendFails`, `RecordCommit`; it
follows `Upload`, `EnsureLoad` (`ensure_enqueued`), `RetryLoad` (the endpoint)
or `RecoverLoad` (`recover_stale`). Between its steps a process holds the columns
it will write (`Changes`, `Flush`: as in ReconTask, nothing versions the row). A
worker goes from `Receive` over `Start` (which leaves a deleted or finished file
and another message's fresh run alone) to `Finish`, or `Fail` (`_mark_failed`)
and `Retry`; these select the row FOR UPDATE, so each is one step. `Heartbeat`
is the asyncio task beside it, which may die unnoticed (`HeartbeatDies`).
`DeleteLoad` and `DeleteCommit` are the deletion of the file.

Abstractions: the heartbeat is fresh or stale, and `Prompt` is the assumption
that whoever has just stamped it acts before it is stale; Celery ids differ in nothing
else, so one that nobody knows any more is used again; attempts, error texts and
archiving are left out, and so is the deletion of a thumbnail by itself. The
thumbnail's storage object is that of a worker in FileStore.

### 2.6 GpuUsage

`user` is the row of one user (`gpu_seconds_used`, `gpu_usage_date`), `task` the
columns of the user's tasks that billing reads. Of the statuses that are not active
(`Over`) "partial" is apart: `run_reconstruction_algorithm` leaves a task that is completed,
failed or running with a fresh heartbeat alone (`RunLeaves`), but begins of one that is partially
completed, or whose heartbeat is old, as a worker may find it whose message was delivered twice
(`Begins`). A session is a load
(`DispatchLoad`, `RunLoad`, `EndLoad`, `StartLoad`, `CancelLoad`, `UsageLoad`,
`BeatLoad`) and a commit of the columns it changed; what `RunLoad` has loaded
decides between `BeginCommit` and, if the task was cancelled, `LeaveCommit`. `get_by_public_id` loads
the owner along with the task, and `get_for_update` locks the owner's row but
does not refresh what the session has, so `Charged` applies to the amount that
was loaded; `Owner` is what the flush of the reset and the flush of the charge
write. Only `Recover` and `AdminReset`, which come upon the user under the
lock, and `Finally`, a session that does nothing else, are one step.

The clock counts seconds, `Day` of which make a day; `SecondsOfDay` and
`Seconds` round up as `math.ceil` does: a run charges every second it touches.
Against this stand ghosts: `real` is what each task's runs took today, `spent`
what they took in all, `raced` that a session wrote a start of billing
which had changed since it was loaded, `refused` that the quota was held
against somebody who had not used it up.

Abstractions: the queue, the broker and retries are ReconTask's; one user;
`QuietMidnight` says that at midnight no run is dead and not yet recovered (a
worker that has ended a run before it does not count as at work on it), that no
run dies whose last heartbeat was on the day before, and that no session which only checks or resets
spans it (section 6 has what happens otherwise).

### 2.7 TaskFiles

`task` is the row (status, algorithm, cancel flag), `link` the committed rows of
`task_files` with their roles, `gone` the deleted files. A result is a kind
(PLY; `cfg_args`, standing for the support files of a model directory; mesh; GLB of
Hunyuan3D) and the run that registered it, which is the generation id of a PLY
and its support files. Requests are a load and a commit (`StartLoad`,
`MeshLoad`, `DeleteLoad`), or one step (`Attach`). A worker goes from `Dispatch` (the task
waits, and there is a lease) to `RunLeaves` or `RunLoad`, which looks again: `Begins` lets through
a task that waits, that is partially completed, or that runs with an old heartbeat. A run then is
`BeginCommit` (inputs chosen from the links), `StageInputs` (`Restored`: the
files of the selected PLY's generation), then `Raise`/`FailLoad`, `CancelLoad`, or
`RegisterLoad` and `RegisterPly`, and `EndCommit`. Between the last two, a session
keeps what it will remove (`drop`) and add: it removes the links it found
committed, no others. `Recover` takes a run for dead, which it may not be.
`made` remembers from which generations a result was made, `asked` the inputs of the last start,
`overlapped` that two requests or two runs met, and `revived` that since the last start a run was
begun of a task that neither waited nor ran.

Abstractions: one task; of the Gaussian algorithms only `dash_gaussian`, the one
whose PLY a Mesh run of its own can take; copying files, choosing outputs and logs are left out; generic algorithms'
results are not modelled.

### 2.8 DownloadSession

`doc` is the document in Redis. A chunk request reads the record and the range
(`ChunkRead`), reads the document again (`ChunkReread`), and writes its copy
(`ChunkWrite`); completion is `CompleteLoad` and `CompleteWrite`. The client is
the one of `docs/api-reference.md` 9.5: it asks for what it has not got or the
server has forgotten, several chunks at once, completes with all etags and the
hash, and starts anew when it is refused or the session has expired. `Merge` is
`_merge_ranges`: a sort (`Sorted`, which inserts one range after the other) and
a loop that joins each range with the last (`Joined`). The rest of the module keeps
ranges as the set of their bytes, which is what `MergeRight` shows to be the same on
short lists and the theorem `RangesAsBytes` for all.

Abstractions: versions of a file have one size, and an etag is the version its
chunk was read from; the count of downloads and access rights are left out;
`Patient` is a client that completes when none of its requests is under way.

## 3. Runs

| Run | Instance | Shows |
|---|---|---|
| `lease_core` | 2 workers, 2 tasks, 1 user with quota 1, 1 device, TTL 2, 3 tokens, 1 recoverer | the type invariant, `SlotsWithinQuota`, `LeaseHeldOnce`, `OnlyOwnLease` in every interleaving with expiry, crashes and recovery |
| `lease_fair` | 2 workers, 2 tasks, 1 user with quota 1, 2 devices, TTL 2, 2 tokens, no recoverer, `Timely`, fairness | `OneProcessPerDevice`, `RunningWithinQuota`, `DeviceComesBack`, `SlotComesBack`, `KeepsPromise` (refinement of `ExclusiveGpu`) |
| `task_live` | 1 task, 1 request, 1 recoverer, 1 worker, 1 fault, 1 cancellation, a rerun, fairness | the type invariant, `QueuedIsDriven`, `PlyNeverFailed`, `ActiveEnds` |
| `task_quota` | 2 tasks, 2 requests, 2 workers, quota 1, 1 exception in a worker or at the broker, up to 3 starts of a task, no cancellation, `OneStart` | `QuotaHolds` |
| `task_cancel_lost` | 1 task, 1 request, 1 worker | *violation*: `CancelFinal` |
| `store_files` | 2 contents, 3 records, 1 request at a time, 2 registering workers, 1 abort, the clean-up overlaps nobody (`Quiet`) | the type invariant, `LiveHasBlob`, `OrphanListed` |
| `store_race` | 1 content, 2 records, 1 request, 1 worker, the clean-up at any time | *violation*: `LiveHasBlob` |
| `upload_session` | 2 chunks, 2 requests at once and the clean-up, 2 faults, `MC_Patient`, fairness | the type invariant, `NothingLeft`, `SessionKept` (refinement of `UploadSession`), `Resumable` |
| `media_live` | 1 file, 1 request, 1 recovery, 1 worker, 1 retry, 4 Celery ids, 1 fault of `MC_Faults`, 1 request of the user besides the upload, fairness | the type invariant, `PendingIsDriven`, `MediaSettles` |
| `billing` | 2 tasks, 2 workers, 1 request, Beat, a day of 2 seconds, quota 2, 3 moments, 1 event (a request, a message delivered twice, a reset by the administrator or a worker's death), fairness | the type invariant, `NotOvercharged`, `CostExact`, `NotRefused`, `BillCloses`, `ResetComes` |
| `task_files` | 2 inputs, 2 requests, 2 workers, 3 runs with results, 5 events (requests, failures, messages delivered twice, live runs taken for dead) | the type invariant, `MeshOfPly`, `InputsKept`, `OneGeneration`, `PlyStays` |
| `download` | 3 chunks (the last a short one), 2 at a time, 2 versions, 2 events (replacement, expiry, lost answer), a patient client, fairness | the type invariant, `MergeRight`, `Accounted`, `CompletedWhole`, `DownloadEnds` |

### Bounds

The lease runs need two workers and two tasks of one user for every conflict
the protocol has (two owners of a device, two members of a set); in
`lease_core` three tokens, so that an expired lease, its successor and a third
acquisition coexist, in `lease_fair` two devices, so that the quota and not the
device is what stops a second process; and a TTL of two ticks so that a renewal may come before or after half the lease.
`Token` bounds how many leases exist at one time, not how many are ever taken:
a token nobody holds may be drawn again. In the task runs `MaxMessages`,
`MaxStarts`, `MaxCancels` and `MaxFaults` bound counters that the code leaves
open. With `MaxRetries = 2` the recovery puts a dead run's task back into the
queue once. `OneStart` says that a client waits for the answer
to a start before it starts the same task again; only `task_quota` assumes it. What a second fault adds is in section 6. In
`store_files` three records and two contents allow a content to be stored,
shared, replaced by another, deleted and stored again while another object is
being cleaned up; `MaxIds` allows one object to be removed and created again.
`upload_session` has two chunks, so that a merge or cancel can stop half-way,
and two faults, so that a bad chunk and a failed merge, or a chunk lost to an
interrupted merge and another failure, come together. `media_live` has one worker,
which a redelivered or recovered message keeps busy after its record was taken
up by another; its safety properties hold with two workers as well (5.3 million
states under symmetry, which liveness does not allow). `billing` has one
midnight, two tasks so that two charges of one user meet, and two workers so that
one task can be run twice; the message delivered twice is enough for a run that begins of
a task another run left partially completed (780,398 states). The run that begins of a stale
row needs a second event, the death before it: with two events and without fairness the safety
properties hold as well (3,690,718 states with `SYMMETRY Alike`), while `BillCloses` fails
(section 6). `task_files` needs three runs with results: a PLY, its
mesh, and the rerun that outdates it; five events let the requests for these
three be followed by a deletion and a failure, or by two runs at once, or a failed rerun
be followed by a deletion and a second delivery (2,001,170 states). `download` has three
chunks so that a request can forget two others, and a short last one; `MergeRight`
looks at every list of up to three ranges over four bytes. A
third request under way gives 639,398 states and the same results. With one user of quota
1, `lease_fair` never has two processes at once: that two processes stay apart is
what `Exclusion`, `RunningQuota` and `Implements` prove, and what the mutants of the run break.

Deadlock is not checked in the task, store, upload, media, billing, `task_files` and
download runs because tasks, records, uploads, thumbnails and downloads really end, and
because events are bounded.

### Fairness

`lease_fair`: the clock ticks, Redis expires keys, and a worker takes its next
step. `SF_vars(Finish(w))` is the deadline in the poll loop
(`reconstruction.py:2593`): a run is not renewed for ever.

`task_live`: processes that are alive go on; a message in the queue is
delivered; Beat runs the recovery every minute; a heartbeat that nobody writes
becomes stale. `SF_vars(GetLease(w))`: a task that asks for a GPU every
10 seconds gets one some time, which is true as leases are bounded in time.
`SF_vars(Poll(w, TRUE))`: an algorithm ends, by `timeout_seconds`.

`upload_session`: requests go on; a client that wants its file
sends what is missing and asks for the merge whenever all chunks are there
(strong, since other requests may be under way each time); Beat runs the
clean-up every hour. Nobody has to poll, cancel or be late.

`media_live`: processes that are alive go on, messages are delivered, a
heartbeat that nobody writes becomes stale, Beat runs the recovery every
minute. A failing worker may fail each time, as retries are bounded.

`billing`: a session that has loaded its rows commits, a run ends (by
`timeout_seconds` at the latest), Beat resets outdated users every day and recovers every
minute (`celery_app.py`). Fairness asks only that some session, and some recovery, is not held
up, since none goes on for ever. Nobody has to start, cancel or look at anything, and
time may stop.

`download`: a client that wants its file asks for what is missing and completes;
the server answers. Answers are lost only as often as `MaxEvents` says.

### Disagreements found

1. `task_cancel_lost`: a worker that read the task before it was cancelled
   commits its own final status over `cancelled`.
2. `store_race`: the clean-up deletes a blob that a concurrent upload or run has
   just decided to reuse.

## 4. Proofs

Each proof module EXTENDS the module it is about. The theorems hold for every
value of the constants that the module's named assumption allows: any number of
processes, files, chunks, faults and so on, with the bounds as any numbers.

### 4.1 GpuLease_proofs

It proves for every number of workers, tasks, users, scopes,
devices and tokens, every quota and every TTL:

| Theorem | States | Assumes |
|---|---|---|
| `TypeCorrect` | `Spec => [](TypeOK /\ Shape)` | the assumptions on the constants |
| `LeaseOwnership` | `Spec => []LeaseHeldOnce` | the same |
| `SlotQuota` | `Spec => []SlotsWithinQuota` | the same |
| `OwnLease` | `Spec => OnlyOwnLease` | the same |
| `Exclusion` | `Spec => []OneProcessPerDevice` | `Timely`, no recoverer |
| `RunningQuota` | `Spec => []RunningWithinQuota` | `Timely`, no recoverer |
| `Implements` | `Spec => KeepsPromise`: `GpuLease` implements `ExclusiveGpu` | `Timely`, no recoverer |

The assumptions on the constants are those of `GpuLease`: types, `TTL > 0`, and
that the markers `Free` and `None` differ from what they mark.

None of the properties is inductive alone. The parts of the invariant are:

- `Shape` ties a worker's claim, device and process to its step: without it a
  release could be taken by a worker without a claim.
- `TokensApart` says that a token names one claim wherever it occurs: in a
  worker, under a device key or in a user's set. It is what makes "GET equals my
  value" mean "it is mine", hence `LeaseHeldOnce`, and, by way of `Fresh`,
  it is the role of `uuid4`.
- `SlotsBounded` adds finiteness to the quota, which the cardinality lemmas need.
- `Covered` (with `Timely` and no recoverer) says that a running process has a
  device key and a slot in Redis, both with time left. `OneProcessPerDevice`
  follows because one key holds one claim; `RunningWithinQuota` because
  the running processes inject into the members of the user's set.

The proofs have one step per action; the steps that change neither claims nor
keys are dealt with together (`QuietApart`, `WorkerQuiet`). Why `Exclusion`
excludes recoverers is in section 6.

`Implements` needs the invariant before and after a step. A step changes the
process of at most one worker (`OneChanges`); one that changes none
leaves `Run` alone (`SameRun`), one that stops a process is `Stop` (`StopRun`), and one
that starts one is `Start` (`StartRun`): the device is free before the step
because `OneProcessPerDevice` holds after it, and the user has room before it
because `FewRunning` (a user's processes are finitely many and within the
quota) holds after it, with one process more.

### 4.2 ReconTask_proofs

| Theorem | States | Assumes |
|---|---|---|
| `TypeCorrect` | `Spec => []TypeOK` | nothing more |
| `NothingTakenBack` | `Spec => [][a deletion stays; a started task is never new again; a PLY result goes only when its owner deletes it or the task]_vars` | nothing more |
| `QueuedDrives` | `Spec => []QueuedIsDriven` | `Delivered` |
| `PlyKept` | `Spec => []PlyNeverFailed` | `Serial` |
| `QuotaKept` | `Spec => []QuotaHolds` | `Serial` |

`Types` adds to the types what fits each session's step: `ActorFits` and
`WorkerFits` say which statuses and ids it will write, `Honest` that no session
takes a deletion back, writes a PLY link of its own, or fails a stage whose PLY
it has seen. With that, and `Undeleted` (who cancels or deletes has loaded a task that was
not deleted), `NothingTakenBack` holds for any number of sessions, whichever fails and
with `Prompt = FALSE`: it is what is left of the row when sessions overwrite each other's
status, as `CancelFinal` shows they do. A PLY may go without its task in one way, `DeletePly`; that
no start, run, cancellation, recovery or stale commit is another is what the third part says.

`Delivered` allows workers to die, messages to be delivered twice and the broker
to refuse, with any number of starts, cancels, deletions and recoveries at once;
it excludes that a request or recovery dies, and that an exception discards a
message (section 6 has what happens then). `QueuedIsDriven` is not inductive: a
message may be a revoked one, and a worker may leave with a status that somebody
else has overwritten. `QueuedDriven` counts only who will really write another
status or send a message: one that waits and was not revoked (`Waits`), a worker
with such a message whose commit will not be lost (`Carries`), a session about to send
or to cancel (`Sends`). That needs that ids in rows, in memory and in the queue were sent
(`Numbered`), so that the id of a new message is not revoked, and that a task nobody has
started has no message (`Underway`).

`Serial` is the setting of `task_quota`: nothing is cancelled or deleted, an earlier
start was answered, one recovery runs at a time, processes live and beat in time;
`send_task` may fail, and an exception may end a message anywhere. Each part is
needed: TLC finds the quota exceeded without any one of them (section 6). `Orderly` says that a
task then has at most one driver: a message, a worker, or a request or recovery that has yet to
send (`Alone`), and that what the driver has loaded is still so (`Agrees`). `Dispatched` is why the
recovery may join in: the Celery id of a queued row is "" only while a recovery
is between its commits, and "dispatching" with a fresh heartbeat while somebody sends; so a
row that `recover_stale_tasks` selects has no driver (`RecoverableAlone`). Every step then is
`Tame` (no task becomes active, none with a PLY fails) except a creation, a
counting start and the commit that queues it. `WithinQuota` adds the role of the
lock on the user: who counted holds it until its task is counted.

### 4.3 TaskFiles_proofs

| Theorem | States | Assumes |
|---|---|---|
| `TypeCorrect` | `Spec => []TypeOK` | nothing more |
| `GenerationsApart` | `Spec => []OneGeneration` | nothing more |
| `PlyKept` | `Spec => PlyStays` | nothing more |
| `InputsStay` | `Spec => []InputsKept` | nothing more |
| `MeshesFollow` | `Spec => []MeshOfPly` | nothing more |

`Held` says of every session what fits its step (`Fits`): in particular that a
session that will remove a PLY will add one in the same commit, and that
`Restored` took one generation. A failed run has neither, so its commit removes nothing. `StageOne`
says that a Mesh run's links have at most one PLY, which is why one generation is
restored. `Unseen` says that the results a session is about to link are new:
nobody has seen them, so nobody is deleting them, and no other session adds them.
Hence the PLY that comes with the commit is there after it
(`EndPly`), however many runs overlap.

The last two properties speak of behaviours in which no two runs, and no start and
deletion, have met (`~overlapped`), and `Alone` says what that gives: one request
and one run at a time. `InputsStay` assumes, too, that since the last start no run was begun of a
task that neither waited nor ran (`~revived`): a second delivery may begin one of a task that
a run left partially completed, and the owner may have deleted an input of it by then. No run removes
an input (`EndsOnly`), and a request that starts a stage found what it selected and it is still there
(`StartsFresh`): these two hold whether a run was revived or not, so that a start ends the exception.
In between, a task that is active has its inputs, and a request that deletes one has seen
that, and cancels it (`KeptNow`); the three are `KeepsInputs`. For `MeshesFollow`, a generation is known if its PLY is a
result of the task or was deleted (`PlyKnown`): the meshes among the links, those a run is
about to add and the directory a Mesh run works in are of known generations only (parts of
`KnowsMeshes`), and a run that replaces the PLY takes all meshes with it and adds none (`Replacing`).

### 4.4 DownloadSession_proofs

| Theorem | States | Assumes |
|---|---|---|
| `TypeCorrect` | `Spec => []TypeOK` | nothing more |
| `DocumentAccounted` | `Spec => []Accounted` | `Patient` |
| `DownloadWhole` | `Spec => []CompletedWhole` | `Patient` |
| `ChunksMakeFile` | each byte of the file is sent with exactly one chunk | nothing more |
| `DoneHasAll` | `Spec => [](client = "done" /\ doc # None => doc.bytes = 0 .. FileSize - 1)` | `Patient` |
| `MergedRanges` | `Merge` keeps the bytes of its ranges and no others, in order and with gaps between them, for every sequence of pairs of integers | nothing more |
| `MergeCorrect` | `Spec => []MergeRight` | nothing more |
| `RangesAsBytes` | one merged range covers a chunk if and only if all its bytes are in some range | nothing more |

The first lemmas are the arithmetic of chunks: the bounds of a chunk are within
the file, the chunks are apart and make up the file, so that the bytes of a document
determine its chunks. `Known` says that the document and every copy of it that
will be written are `Sound`: its marks are the chunks whose etag is known, all
of them were sent, and its bytes are theirs. Forgetting chunks keeps that,
which is why lost updates do no harm. `Closing` says that a patient client
completes alone, with a document it has all of.

`Merge` is two loops, each a recursive function of the number of ranges already
seen. That such a function exists (`LoopExists`) and that what its steps keep
holds at the end is proved by induction over the naturals (`NatSetInduction`; how that is
possible here is in 4.9). The first loop keeps what is inserted sorted by
start: a range is inserted after an initial segment (`InitialSegment`). The second
keeps the merged ranges `Valid`, `Gapped` and equal in bytes to those it has read (`Has`),
and the start of the last of them no later than that of the next to be read, which
is why it is enough to look at the last one, and why the sort is needed.
`MergeCorrect` follows for the short lists of `MergeRight`; `RangesAsBytes` is what the
check of `_apply_download_progress`, `any(a <= start and b >= end ...)`, needs of
the model's sets of bytes.

### 4.5 FileStore_proofs

| Theorem | States | Assumes |
|---|---|---|
| `TypeCorrect` | `Spec => []TypeOK` | nothing more |
| `References` | `Spec => [](Linked /\ Distinct)` | nothing more |
| `LiveFiles` | `Spec => []LiveHasBlob` | `Quiet` |
| `OrphansFound` | `Spec => []OrphanListed` | `Quiet`, one client |

`Types` is the inductive form of `TypeOK`: `Held` has what fits each session's
step, `Counted` that ids suffice for all who are inserting.
`Rows` are the foreign keys and row locks: a live record's object is there
(`Linked`), whoever inserts an object row is the only one (`Creating`), what a
flushed session refers to stays until it commits (`Locked`), and the clean-up drops no object in use
(`Unused`). They need no assumption: `References` says that, with `Quiet` or without,
the row a live record refers to is there and is that of its content, so that the race of
`store_race` can lose the blob and nothing else. For `LiveFiles`, under `Quiet`: a session past its check has its
blob (`Stored`), the clean-up deletes a blob only when nothing refers to it
(`Unreferenced`), and the two do not meet (`Apart`). For `OrphansFound`: ids
name objects (`Distinct`), what a session loaded is still so when it commits
(`Granted`), and the clean-up takes an object off the list only if it is in use (`Swept`). The
limit of the last one, two clients, is in section 6.

### 4.6 ChunkUpload_proofs

| Theorem | States | Assumes |
|---|---|---|
| `TypeCorrect` | `Spec => []TypeOK` | nothing more |
| `WholeFile` | `Spec => []FileWhole` | nothing more |
| `FileStays` | `Spec => [][row.file => row'.file]_vars` | nothing more |
| `ChunksGone` | `Spec => []NothingLeft` | `Orderly` |
| `Promise` | `Spec => SessionKept`: `ChunkUpload` implements `UploadSession` | `Orderly` |

The theorems that assume nothing allow any requests to overlap, those of section 6 that
set contradicting statuses among them. `FileWhole` says that a completed upload has its
file and that a file is the announced one, whole. Its invariant is `AllBacked`: what a session has
loaded and will write takes no file away, and writes one, or "completed", only when the
whole is stored (`Backed`). TLC checked it with two requests, two chunks and three faults, all
pairs overlapping (9,112,285 states), before it was proved.

`Orderly` says that no two kinds of work that end with different statuses overlap
and that no poll spans the moment the upload is late; it is implied by
`MC_Patient` and allows more. The invariant is `Rules`: who is at work
together may be (`Together`), what each session will make of the row fits the
status it found and the status it now has (`Sessions`), chunks that were deleted stay deleted
(`Emptied`), and status, file and chunks of the row agree (`RowKept`). Each commit then is a step of
`UploadSession` or changes neither outcome nor content.

### 4.7 Media_proofs

| Theorem | States | Assumes |
|---|---|---|
| `TypeCorrect` | `Spec => []TypeOK` | nothing more |
| `Driver` | `Spec => []PendingIsDriven` | `Delivered` |

`Delivered` says that no process stops between publishing "dispatching" and
sending its message, and that no message is discarded before its worker has
read the record; workers may be killed, messages delivered again, heartbeats lost
or late, the broker may refuse, and `Prompt` may be FALSE. The invariant `Waits` is stronger than the property: a
pending file has a message, a worker that has not read it, a process about to
send or to write that sending failed, or nobody has enqueued it since the
migration. That a worker or request is merely at work is not enough for
induction, since it may end without touching the status.

### 4.8 GpuUsage_proofs

| Theorem | States | Assumes |
|---|---|---|
| `TypeCorrect` | `Spec => []TypeOK` | nothing more |
| `CostCorrect` | `Spec => []CostExact` | nothing more |
| `FairCharge` | `Spec => []NotOvercharged` | `QuietMidnight` |
| `FairRefusal` | `Spec => []NotRefused` | `QuietMidnight` |

All are for any number of tasks, workers and requests and any length of a day; the first
two hold at midnight too, whoever is dead (`QuietMidnight` may be FALSE). That seconds are a natural number
needs `Timely`: billing starts no later than the last heartbeat, up to which
the recovery settles, and a session that opens billing writes both columns, of
which the commit skips those that have not changed. `Billed` says that a row,
settled now, costs no more than its runs took; and that so does what a session
will write, as long as its start of billing is still the row's. A settlement
that finds another start is `raced`, and the property says nothing then. A session
that finds the same one may still have an older cost (the run was settled
and the task started again within the second), and writes less than was spent:
hence "no more than". `Undisturbed` is the case of equality: without a
request, a death or a second delivery, a task has one worker, which has its row
as it is.

`FairCharge` and `FairRefusal` share the invariant `Fair`. A task has paid for what
its runs took of today less what is still on its open bill (`Paid`); `Reserved` says that this is
not negative, and `Owed` that neither the user's row nor a session that will add to it
charges for more than the sum of that over all tasks (`Total`), unless somebody raced. A settlement moves
seconds of one task from its bill to `Total` and adds as many to the user.
The rest is about midnight, when `Total` begins anew: no
session has a user of a later day than the row's (`Dated`), one that only resets the user has
it as it is or finds it reset (`Fresh`), and a run is attended or has had a heartbeat
today, so that a recovery charges today for seconds of today (`Attended`). `~refused` is in
the invariant since a refusal looks at the charge of the moment. Each step changes what at
most one task has paid; `SumChanged` says what that does to a sum over a finite set. TLC checked the
invariant, and that of the costs, in the instance of `billing` before they were proved.

### 4.9 Not proved

Only model-checked: liveness (`DeviceComesBack`, `SlotComesBack`, `ActiveEnds`,
`Resumable`, `MediaSettles`, `BillCloses`, `ResetComes`, `DownloadEnds`), since temporal
reasoning under fairness and `ENABLED` are out of the prover's reach. `CancelFinal` has no proof because
the code violates it. Every other property of a run is stated by a theorem.

No module uses `RECURSIVE`. The library's induction theorems take an operator as a parameter,
which the installed provers cannot instantiate. Two that take none are enough for induction over
finite sets and over the naturals: a non-empty set has a minimal element under a
well-founded relation (`WFMin`), and inclusion on the subsets of a finite set is one
(`FS_StrictSubsetOrderingWellFounded`), as is `<` on the naturals (`NatLessThanWellFounded`).
With a set in the place of the predicate that is induction (`SetInduction` and `SubsetInduction` of
`GpuUsage_proofs`, `NatSetInduction` of `DownloadSession_proofs`), which gives the sums over tasks
and the loops over ranges.

## 5. Plan

Done: `GpuLease` with `ExclusiveGpu`, `ReconTask`, `FileStore`, `ChunkUpload` with
`UploadSession`, `Media`, `GpuUsage`, `TaskFiles`, `DownloadSession`, with their
runs, and the proofs of section 4. Next, in this order:

1. `ReconTask`: an execution attempt in the row, and which of its properties hold
   with `Prompt = FALSE`.
2. `Media`: the deletion of a thumbnail by itself.
3. `Dispatch`, composing `ReconTask`'s worker with `GpuLease`: what the recovery
   releases against what a new run holds.

## 6. Limits that were observed

The instances above are chosen so that their properties hold; these are the
neighbours where TLC shows they do not, and they describe the code:

- `OneProcessPerDevice` fails with a recoverer: `release_stale` deletes the
  device key of any lease of its task (`gpu_scheduler.py:275` compares the task,
  not the token). A recovery that read the placement before the task was taken
  up again on the same device clears the new lease.
- `QueuedIsDriven` fails if a cancelling request dies after it revoked the
  message and before it commits, and if an uncaught exception drops a message
  whose task is queued under its id: the recovery does not select
  such a task. It fails, too, with two faults, when a late commit of a Celery id
  overwrites a newer "dispatching".
- `PlyNeverFailed` fails with two faults, by a recoverer's stale failure.
- A bound on retries (a task given up neither waits nor runs again until its
  user starts it) holds with one request at a time and one fault, and fails with
  two faults or two concurrent starts: a start that loaded the task before it
  was given up finds `retry_count` 0, resets it to 0, and so writes nothing.
- `gpu_concurrency_quota` is described as the number of tasks a user has on GPUs
  (`docs/api.md:95`); slots are counted per lease scope, a node or a pod, so two
  workers in two scopes run two tasks of a user whose quota is 1.
- A bill stays open, in `ReconTask`, with a worker crash or an uncaught exception between a
  final status and its settlement. `BillCloses` of `GpuUsage` fails, too, when a
  cancel that was loaded before the run began commits over it, or the refusal
  of a second message ends a running task, and the worker then dies: the
  recovery selects neither.
- `NotOvercharged` and `CostExact` fail without `raced`: a cancel and the
  worker's end may each settle the run they have loaded. The converse happens
  as well: two tasks of a user that end at once add their seconds to the same
  loaded amount, and one charge is lost.
- With `QuietMidnight = FALSE`, `NotOvercharged` fails: a run that died before midnight is
  settled up to its last heartbeat but charged to the day of the recovery
  (`task_service.py:258`; `docs/api-reference.md:602` says each day starts at
  zero). A session that loaded the day before with nothing used writes only the
  date and so leaves what others wrote in `gpu_seconds_used`.
- An administrator's reset is undone by a session that loaded the user before it
  and charges afterwards.
- A cancelled task whose worker is dead costs the time until the cancel, not
  until the last heartbeat.
- With two runs of one task at once (`overlapped`; a message delivered twice, or a
  live run taken for dead), `MeshOfPly` fails: the older of them registers a
  mesh of the PLY that the other has replaced. With a start and a deletion
  at once, `InputsKept` fails: the start has looked at the input before it was
  deleted, the deletion has looked at the task before it was queued.
- `InputsKept` fails without `~revived`, though nothing overlaps. Two workers pass
  `prepare_gpu_dispatch` with one message each of a queued rerun; the first one's run fails and leaves the task
  partially completed; the owner deletes an input, which cancels nothing, as the task is not active;
  the second worker loads the task. `reconstruction.py:2464` turns completed, failed and
  manual_review away, not partially completed, so it runs without that input.
- A run that a second delivery begins of a task whose run died overwrites
  `gpu_billing_started_at`, and the seconds of the dead run are charged to nobody.
- Deleting the PLY that a queued Mesh run is to take does not cancel the task:
  `delete_file` looks at links with role "input" only (`file_service.py:496`,
  `docs/api.md:456` speaks of input files), and the run fails later.
- `DownloadSession` with `Patient = FALSE`: a chunk request that read the document
  before the completion writes "downloaded" over "completed".
- A download completed with an empty `expected_hash` may be a mixture of two versions
  of the file; the hash is what `CompletedWhole` rests on.
- The count of downloads loses updates (`download_count += 1` on an unlocked row).
- A deleted file that was uploaded is never reclaimed: its `uploads` row still
  refers to it, and the clean-up fails on the foreign key each time, after it
  has deleted the blobs (`docs/api.md:458`). The repository's tests use SQLite, which does not
  enforce the constraint.
- A late upload whose progress is asked for is marked expired by that request;
  the clean-up selects open uploads only (`cleanup_tasks.py:23`), so the hourly
  reclaiming of `docs/api.md:468` passes over its chunks.
- `QuotaHolds` fails as soon as tasks are cancelled: a worker that loaded the
  task before commits "processing" over the cancellation. It fails as well when
  a task gets two messages (two starts at once, a redelivery, a recovery after a
  starter died): one worker's refusal ends the task, another task takes its
  place, and the other worker commits "processing". Two recoveries at once, or a
  run that beats too late, are enough for that too: a recovery leaves the task queued
  without an id between its commits (`task_service.py:258` to `_enqueue`), which is what
  the other one selects.
- `OrphanListed` fails with two concurrent requests that delete or replace the
  last records of one object; `LiveHasBlob` holds there as well.
- `SessionKept` fails when a chunk or a merge falls together with a cancel, with
  the clean-up of the late upload or with a poll that marks it: a chunk that was
  loaded before sets "uploading" over cancelled or expired, and cancelled or
  expired is written over completed. With a chunk and a cancel, `NothingLeft`
  fails too: the chunk is saved after the cancel deleted its object.
- At most one message of a task is on its way to a run, as `docs/api.md:466` says of
  the "dispatching" mark, fails with two concurrent starts: no start reads the
  mark, and the status it checks was loaded before it waited for the user's row.
- `PendingIsDriven` of `Media` fails with "first exception": a message that is
  dropped because its worker could reach neither the database nor
  `_mark_failed` leaves the file pending under its id, which `recover_stale`
  does not select (`docs/api.md:469` says that what waits long is recovered).
  It fails with "late enqueuer": a user's retry dies after it published
  "dispatching", and an older `enqueue` writes the id of a message already
  consumed over it. `MC_Faults` leaves these two out.
- A thumbnail that exists may show as failed: with a redelivery, a dead heartbeat
  or a retry by the user, the failure of one attempt (`media_service.py:224`
  looks at neither status nor id) is written over the success of another.
- Two workers may make the same thumbnail at once: the recovery, or the user,
  sets "pending" over a run that goes on.

## 7. Not modelled

The algorithm catalogue, parameter validation and command building
(`reconstruction.py:240-1185`), schemas, token handling and CRUD of users have
no interleaved state. File-system work (copying, choosing outputs,
thumbnails) is input and output of external programs. `storage_used` is
read and written without a lock by uploads, results and the clean-up: any
statement on the amount is false as soon as two of them overlap. SQLAlchemy, PostgreSQL, Redis, Celery and
MinIO are modelled from how the code uses them and marked `external` in the map.
