# TLA+ models of Scenara

Scenara is a media-analysis platform. An API process records *Runs* and queues
them, workers lease queue entries and execute the Run's pipeline over models they
load, clients pause, resume and cancel Runs while they work, and results, events,
webhooks, search records, identities and alerts follow. Around that stand a control
plane (billing, flows, agent actions, audit), access control, model governance, a data
service, and an HTTP API with a Python SDK. Most handlers read documents, await and
write them back; what protects them is at best a revision or a unique key. This
directory models those protocols, checks them with TLC and proves the main properties
of most of them with TLAPS.

Paths are below `src/scenara/` unless they say otherwise. SE, SV, Q, PG stand for
`platform/services_execution.py`, `platform/services.py`, `infrastructure/queue.py`
and `infrastructure/postgres_state.py`.

## 1. Inventory of the system

| Component | State it keeps | Operations that change it | Talks to |
|---|---|---|---|
| Run records (PG, `memory_state.py`) | one document per Run with `status`, `revision`, `progress`; idempotency keys | `create_run_idempotent`, `save_run` (compare-and-set), `delete_run`, `recoverable_runs` | everything below |
| Run creation (SV `create_run`) | the record, the usage, one queue entry | insert, consume, publish, enqueue, or undo | records, policy, queue |
| Run lifecycle requests (SV `transition`) | none of its own | pause, resume, cancel: read, decide, save, at most four times | records |
| Run execution (SE `execute_run`) | its copy of the record, the running operator | `_begin_execution`, `_checkpoint`, `report_progress`, three outcomes | records, pipeline, results |
| Run queue and worker (Q, `worker.py`), recovery (`queue_recovery.py`) | Redis stream, pending list, lease per entry | `enqueue`, `consume_forever`, `_renew_lease`, `rebuild_empty` | workers, records |
| Stream sessions (SE `_rollover_stream_segment`, SV `cancel_stream_session`) | a chain of segment Runs with `next_run_id` | create the next segment, cancel the active one | creation, lifecycle |
| Results (SE `_store_result`, `_discard_partial_result`) | immutable objects, one reference per Run | partial and final publish, discard | object store, records |
| Pipeline and media (`platform/pipeline.py`, `media_batch.py`, `media.py`) | decoder thread, bounded queue, pause and cancel signal | decode, sample, take a batch, checkpoint, time out, close | execution, operators |
| Inference (`src/app/runtime_registry.py`, `inference_scheduler.py`, `infer_*.py`) | loaded models, locks, semaphores, batch queue | load, evict, replace, unload, run; submit, batch, expire | operators |
| Tracking (`src/app/tracking_*.py`, `domains/portrait/analysis.py`) | tracks of a batch, persons and tracks of a result | associate, merge fragments, collect | inference, results |
| Webhooks (`platform/webhook_service.py`, `webhooks.py`) | subscriptions, secrets, outbox rows | create, delete, claim, post, retry, dead-letter | external endpoints |
| Assets, sources, retention (SV, `platform/retention.py`) | media objects, previews, retention records, secrets | upload, delete, protect, sweep | object store, records, index |
| Catalogue (`platform/pipeline.py`, SV, `datasets`, `search`) | pipeline and dataset versions, saved searches | synchronise, activate, retire, publish, run | records |
| Control plane (`platform/control_plane.py`, `postgres_control_plane.py`) | meters, usage, seats, quotas; flows, executions, approvals; tools, actions; governed records and audit | one handler each, over a store without revisions | access, audit |
| Access (`platform/access.py`, `api/`) | users, sessions, service accounts, API keys, entitlements | authenticate, issue, revoke, purge, bootstrap | API |
| Feedback and releases (`platform/feedback.py`) | feedback, manifests, packages, releases, deployments | review, export, transition, rollback, health gate | execution |
| Surveillance (`platform/surveillance.py`, `domains/portrait/surveillance.py`) | watchlists, tasks and bindings; alerts, debounce rows, events | start, pause, update, reconcile; evaluate, triage, stream | sessions, webhooks |
| Portrait gallery, trajectories (`domains/portrait/service.py`, `trajectory.py`) | identities, enrolments, vectors; long-term identities, segments, templates | enrol, delete, search; ingest, merge, split, delete | feature stores, index |
| Features, index, search (`infrastructure/*_index.py`, `qdrant_features.py`) | feature spaces, index records | index a result, delete, expire, paged search | results, gallery |
| Data platform (`platform/data_platform.py`, `src/scenara_data/`) | samples, annotation tasks, versions, intakes, outbox | materialise, annotate, submit, review, publish | Core over HTTP |
| HTTP API, Python SDK (`api/`, `src/sdk/python/`) | none | one handler and one method per operation | all |
| Enterprise, other domains' operators, TypeScript SDK, `frontend/`, `deploy/` | see section 6 | | |

`components` in `PROJECT.json` gives the status of each.

### What is hard about it

* **Little orders the writers of a record.** API requests and workers read a whole
  document, compute and save it: Runs and surveillance tasks under a revision, control
  plane, references, webhook rows and identities by key, last writer wins.
* **At least once.** A worker that dies, or whose lease renewal is late, has its Run
  executed again, in the second case beside the first execution. Calls to the data service
  and to endpoints are repeated when their answer is lost.
* **Effects in several stores without a transaction.** Creating a Run or an asset,
  storing a result, rolling a stream over, enrolling or merging a person each write three to
  six records in turn and undo them by hand when one fails; a crash leaves any prefix.
* **Nothing to lock the first time.** `SELECT ... FOR UPDATE` of a row that does not exist
  yet locks nothing (quotas, debounce rows).
* **Clean-up that must spare what others use.** Replaced results, evicted models, expired
  objects and deleted people are removed while others are about to use them.
* **Two programs that must agree**: client and server, old and new release.

### What makes each component correct

| Component | Correct means | Property |
|---|---|---|
| Run records, lifecycle, execution | no save overwrites a status its writer has not seen; only contracted moves; a Run cancelled while queued never runs; progress never falls | `CopiesCurrent`, `StatusContract`, `QueuedCancelSticks`, `BeginRetriesOnce`, `ProgressMonotonic` |
| Queue, worker, recovery | nothing is acknowledged before its Run has an outcome; every entry and every accepted cancel leads to one | `AckedRunsSettled`, `EntriesServed`, `CancellingEnds` |
| Stream sessions | one live segment; a failed or cancelled one is the last; a finished window is continued | `OneLiveSegment`, `ChainSound`, `Continues` |
| Results | a completed Run's result can be read; references name exactly what is stored | `CompletedReadable`, `ShardsExact`, `CommitBacked` |
| Pipeline and media | a result covers every sampled unit once and in order; no decoder outlives its execution | `MediaExact` |
| Inference | no session is released under a running inference; permits add up; every caller gets its own rows, and its turn | `SessionsAlive`, `BatchesExact` |
| Tracking | two persons of a frame never share a track; assignments are optimal; the books of a result agree | `TracksExact` |
| Webhooks | no row given up early or reported delivered without a 2xx; every row settled | `DeadLetterEarned`, `DeliveredAccepted`, `Settles` |
| Assets | every object is known to the sweep; an asset offers only what is stored and is deleted when nothing is left | `MediaAccounted` |
| Catalogue | one active version, retired ones stay retired, deleted searches stay deleted | `CatalogueLifecycle` |
| Control plane | usage is what its events add up to, limits hold, no node or action without its approval, every write audited | `UsageAccounted`, `QuotaNeverOvershoots`, `ApprovalGate`, `ExecutedWasApproved`, `GovernedWrites` |
| Access | no request with a revoked key or an expired session | `CredentialsRespected` |
| Feedback and releases | only approved items are trained on; one active release per capability | `ManifestItemsApproved`, `ReleaseLifecycle` |
| Surveillance | one session per binding and revision, stopped with its task; one alert per window, with its exact count | `TaskSessionsSound`, `AlertsExact` |
| Gallery, trajectories, index | no vector of a deleted person; no segment of nobody; the index holds one result of a Run | `GallerySound`, `TrajectorySound`, `IndexExact` |
| Data platform | a task under review and an announced import are complete; a key makes one task | `SubmittedComplete` |
| API and SDK | a method gets the data it declares; no operation without an accepted caller | `ApiContract` |

## 2. The modules

| Module | Models | Checked through |
|---|---|---|
| `RunStatusSpec` | what clients may rely on: the statuses of Runs and the moves between them | abstract specification |
| `RunExecution` | creation, requests, queue, leases, execution, recovery; implements `RunStatusSpec` | `MCRunExecution` |
| `StreamSession` | the segments of one stream session | `MCStreamSession` |
| `WebhookOutbox` | subscriptions and the delivery outbox | `MCWebhookOutbox` |
| `RunExecutionProofs`, `StreamSessionProofs`, `WebhookOutboxProofs` | theorems about the module of that name | TLAPS |
| `ControlPlaneProofs` | theorems about `Billing`, `Workflows`, `AgentActions`, `ControlRecords`, `Access` | TLAPS |
| `GovernanceProofs` | theorems about `ModelGovernance`, `Catalogue` | TLAPS |
| `SurveillanceProofs` | theorems about `SurveillanceTasks`, `SurveillanceAlerts`, `PortraitGallery` | TLAPS |
| `DataMediaProofs` | theorems about `DataPlatform`, `MediaAssets`, `SearchIndex`, `Trajectory` | TLAPS |
| `WorkerProofs` | theorems about `ResultStore`, `MediaPipeline`, `ModelRuntime`, `InferenceScheduler` | TLAPS |
| `ResultStore`, `MediaPipeline`, `ModelRuntime`, `InferenceScheduler` | what a worker does for one Run | `MCResultStore` |
| `Billing`, `Workflows`, `AgentActions`, `ControlRecords`, `Access`, `HttpApi` with `ApiModels`, `ApiRoutes`, `SdkCalls` | control plane, access, HTTP API and SDK | `MCControlPlane` |
| `SurveillanceTasks`, `SurveillanceAlerts`, `ModelGovernance`, `DataPlatform`, `PortraitGallery`, `SearchIndex` | the services | `MCServices` |
| `MediaAssets`, `Catalogue`, `Trajectory`, `Tracking` | the platform around a Run | `MCPlatform` |

`map` in `PROJECT.json` gives the source lines of every definition. The last four MC
modules hold several components that share no record; their variable `focus` picks the
component a behaviour is about, so that the state space is the sum of the parts and not
their product. Parts that do share records are in one module.

The same conventions hold everywhere. A read and the write that depends on it are two
actions whenever the code awaits between them, and the copy that was read stays in the
request (`breq`, `wreq`, `sreq`, `ingest`, ...). A handler that does not await, or that is one
SQL transaction under the right lock, is one action. A process crash forgets the request.
Variables called history in their comment are read by no action.

### RunExecution

| State | Code |
|---|---|
| `status`, `rev`, `progress`, `started` | the Run document in PostgreSQL |
| `entry`, `entryRun` and the owners of entries | the Redis stream and its pending list (Q) |
| `creating` | how far `create_run` is (SV 740-881) |
| `cpc`, `req`, `cseen` | a client's `transition` with the copy it read: status, revision and progress (SV 1262-1317) |
| `pc`, `got`, `job`, `seen`, `tries` | a worker: entry, Run, the copy it will save from, the round of `_begin_execution` |
| `op`, `opSeen` | the operator that runs beside the checkpoints and the copy its `report_progress` computes from (SE 181-206) |
| `recovering` | the Runs `queue_recovery.py` has read |

`Save` is the compare-and-set of `save_run`. It writes the whole document, so every save, of
a status too, puts back the progress of the copy it was computed from. `Target` and
`Allowed` are the branches of `transition`. `CheckpointRead`/`CheckpointAct` are
`_checkpoint`, `Poll` the wait of `_execute_operator` that calls it. `SaveOutcome`
covers both except clauses: a conflict in them leaves the worker, which exits with its
entry pending. `Expire` and `Lapse` tell apart the lease of a dead worker and a late
renewal of a live one. `RedisLoss`, `RecoverRead` and `RecoverRebuild` are the loss of
the stream and the manual rebuild. Redis is external, modelled by how Q uses it.

### StreamSession

Segments are numbered; `windowed` says that a segment was completed because its time
window was over, `next` that its `next_run_id` was saved. A worker goes through
`Complete`, `RollCreate`, `RollConsume`, `RollEnqueue` and `RollLink`, which are the
COMPLETED save, the steps of `create_run` inside `_rollover_stream_segment`, and the
link; `RollError` has an error at each of them with what `create_run` undoes. A session
cancel is `FindCurrent` and `CancelCurrent`, as in the code two reads. Requests to a
single Run are atomic here; `RunExecution` has their races.

### What a worker does for a Run

*ResultStore.* `objs` is the object store, `kept` the retention records, `ref` the Run's
reference. A document is its range of units and the execution whose bytes it has: an
execution's shards have bytes of its own or those of an earlier one, its index document
always its own (it contains a creation time). `Begin` is the read of the previous
reference and the naming of what will be stored, `Put`, `Track`, `Save`, `Drop` and `Mark`
the steps of `_store_result` in order, `Raise` its except clause, `Discard` and `Fail` the
one of `execute_run`.

*MediaPipeline.* `executor` walks the nodes, `operator` takes batches, `decoder` is the
thread that samples the media into `queue`; `control` is `ExecutionControl`, `asked` the
status of the Run, where requests arrive between any two steps. The plans cover the
interval, uniform, key-frame and scene-change strategies, seeking, windows, segments and
reconnecting streams.

*ModelRuntime.* One asyncio process: `registry`, `recency` and `locks` are
`MODEL_REGISTRY`, `last_used_at` and `MODEL_LOAD_LOCKS`; `bundles` keep every session ever
created with its users and permits. *InferenceScheduler* is `_queue`, the worker task and
the futures. `_take_fair_batch` gives the scopes their weighted turns as the code's loop does, one
request or one change of turn a step; batches are cut by offsets, so a result is
checked row by row. What `_last_scope` is for is a bound: `passed` counts how often the oldest urgent
request of one row was left out of a batch, at most once for each other scope, and once more for
each caller that gave up.

### Control plane, access and API

*Billing*: `meters`, `usage`, `seats` and the quota row with its lock, over the memory and
the PostgreSQL store. `record_meter_event` looks its key up, puts the event, reads the usage and
puts it, four steps without a lock, so any callers may use one key at once; the histories `again`
(events saved over), `billed` (left in periods that are over) and `calm` (no two requests overlapped, none died
halfway) say what the usage may differ by. *Workflows*: a request keeps the execution and the approval it
read; `Walk` is `_advance_flow_execution`, and the nodes it ran (`Ran`) are the least set that
holds the start and follows every edge until an approval. *AgentActions*: proposals, decisions
and executions as put of a whole record. *ControlRecords*: every governed handler is one
row of a table (scope, product, record kind), all with put, append and an append that
raises; `trail` is the audit log. *Access*: `principal_context` at each of its awaits, against
revocation, expiry, purge and the bootstrap of two servers. *HttpApi* sends every request of
`SdkCalls` and requests of other clients through middleware, `ApiRoutes` in matching order,
authentication, `ApiModels` and the exception handlers.

### Services

*SurveillanceTasks*: a task is saved by compare-and-set, then sessions are started or
cancelled binding by binding, which the reconciler repeats. A session is running, asked to cancel,
between two segments, or over; as in `StreamSession` a cancel that was accepted is a wish, which
`SegmentCompletes` and `SegmentRollsOver` may overtake (SE 370-411). `unstopped`, `overtaken` and
`unnamed` record the sessions a cancel did not reach, reached too late, and whose name was not saved.
*SurveillanceAlerts* splits the
alert transaction between lock, insert and commit. *ModelGovernance*: reviews and exports as
read and save; `transition_release` is one step. *DataPlatform*: `saga` is Core's
`create_annotation_task`, whose calls may be lost before or after Data has served them;
`hard_sample_intake` saves its manifest as accepted, then the sources one by one, then the event,
and a refused source or the end of the process leaves any prefix (`src/scenara_data/app.py` 574-585).
*PortraitGallery* and *SearchIndex* have one action per store call; three feature stores and
two index stores differ where the code does. A record of the index is its `created_at`; the order
`created_at DESC, record_id DESC` gives each a rank, and a page is the ranks from its offset on. Hits are cut to exactly `FetchLimit`
by score and then id (`Best`), enriched, filtered by media and cut again to `HitLimit`.

### Platform

*MediaAssets*: an asset is two objects, a record and two retention records; each step of
upload and deletion may raise, and so may the undoing. The settings allow either of original and
preview to be kept longer; `lasting` are the assets whose original is. *Catalogue*: two processes of
different releases synchronise their installed pipelines. *Trajectory*: ingests and operators
over identities, segments and templates. An ingest belongs to one execution of a Run, for a redelivered Run is
ingested again, with nothing claimed (SE 351, `trajectory.py` 666). `Listings` is what `list_segments(limit=1_000)`
may answer, `ListLimit` its limit, and `cut` the identities of which some request was not answered every
segment. A request keeps the documents it listed (`doc`, `moving`,
`wanted`, `left`) and writes those back, and `overlapped` says whether requests ever overlapped or stopped. *Tracking*: dynamic programming and the Hungarian
algorithm of `tracking_association.py` are written out and checked against the best matching by
enumeration; scores are any of `Scores`, which stands for boxes, motion and embeddings.

### WebhookOutbox

`sub` and `secret` follow `create` and `delete` step by step; `stat`, `att` and `due` are
the rows; a scheduler holds a claimed batch with the attempts it read (`held`, `copy`).
`tried` and `accepted` record what the endpoint saw. A row becomes due again whether
or not its scheduler is done with it, which is the lease of 60 seconds. `Leave` is the
end of the scheduler process when a save raises inside the except clause.

## 3. The runs

Each run answers one question. States are distinct states.

| Run | Instance | Checks | States |
|---|---|---|---|
| `run_requests` | 2 clients, 3 requests, 1 worker, 1 crash, 3 rounds | `TypeOK`, `QueuedCancelSticks`, `BeginRetriesOnce` | 343k |
| `run_overlap` | 2 workers, 1 lapsed lease, 1 client, progress to 3 | `CopiesCurrent`, `AckedRunsSettled`, `StatusContract`, `ProgressMonotonic` | 597k |
| `run_liveness` | 1 worker, 1 crash, 1 loss of Redis with rebuild, fair | `EntriesServed`, `CancellingEnds` | 90k |
| `stream_safety` | 3 segments, 2 workers, 1 crash, 1 lapse, 1 error, 3 requests, fair | `OneLiveSegment`, `ChainSound`, `Continues` | 262k |
| `webhook_safety` | 2 schedulers, 2 rows, 2 attempts, 1 crash | `TypeOK`, `DeadLetterEarned`, `DeliveredAccepted` | 1.72M |
| `webhook_liveness` | 1 scheduler, 2 rows of 2 endpoints, 1 crash, fair | `Settles` | 492k |
| `result_safety` | results: 3 units, shards of 2, 2 publishes, 1 crash, 1 error, 1 index error; media: 5 plans, 3 frames, queue of 1, batches of 2, 2 requests; models: 2 keys, capacity 1, 2 callers, 2 bundles, 4 machines; batches: 4 requests of 3 scopes | `CompletedReadable`, `ShardsExact`, `CommitBacked`, `MediaExact`, `SessionsAlive`, `BatchesExact` | 2.49M |
| `control_plane` | 2 callers per part; 2 meter keys, seat limit 1, quota 2; 3 flows, 3 approvals; 3 tools, 2 actions; 3 puts; 3 API keys, 1 session, 2 servers; every route and every SDK method; clocks of 1 or 2 | `UsageAccounted`, `QuotaNeverOvershoots`, `ApprovalGate`, `ExecutedWasApproved`, `GovernedWrites`, `CredentialsRespected`, `ApiContract` | 831k |
| `services` | 2 supervisors, 1 binding, 4 revisions, 1 crash; 2 evaluators, 1 triager, 2 alerts; 2 curators, 3 feedbacks, 4 packages; 2 annotation requests, 2 faults; 1 person, 2 faces, 3 feature stores, 1 restart; 2 manifests of 1 source and one of 2, a refused asset; 3 index records with 2 creation times and equal scores, 2 attempts, pages of 1, 1 hit fetched | `TaskSessionsSound`, `AlertsExact`, `ManifestItemsApproved`, `ReleaseLifecycle`, `SubmittedComplete`, `GallerySound`, `IndexExact` | 560k |
| `platform` | 1 asset, 1 source, 2 object stores, 2 faults; 2 hosts, 2 versions; a Run of 3 tracklets delivered once and one of 1 tracklet delivered twice, 3 identities, 4 segments, listings of 2; videos of up to 5 frames, 2 batches and 2 persons | `MediaAccounted`, `CatalogueLifecycle`, `TrajectorySound`, `TracksExact` | 827k |
| `run_cancelled` | 1 worker, 2 requests | `CancelledIsFinal` violated | |
| `quota_overshoot` | 2 callers, a quota without a row in PostgreSQL | `QuotaNeverOvershoots` violated | |

**Bounds.** One Run is enough: no step of `RunExecution` reads two Runs, except the
recovery scan, which treats each alike (the theorems are about any number). Three
requests by two clients reach every order of pause, resume and cancel around a
worker's step. One lapse makes two executions, and a third would meet the same
records. Three rounds instead of four exhaust a retry loop as well. Three units in
shards of two give an empty, an exact and a short last shard, and two partial results
an append after each. Two attempts are the first and the last; eight adds only
middles. In the other parts two callers meet every pair of handlers in every order, and
every record has a second value to be overwritten with; limits are one or two, so that
they are reached, exceeded and reset. A capacity of one makes every load an eviction (a
TensorRT session, once created, behaves as a CUDA one, so the machines have the latter); a
queue of one unit is full after each. Pages of one record put every deletion between two
pages. Scores lie on both sides of the match threshold and of each other, and videos of
five frames outlast a track's age and a fragment's gap. `MaxRevision` 4 leaves room for a
start, a pause, a resume and the reconcile beside them. `ListLimit` 2 instead of 1,000 has identities of three
segments cut by a listing, `FetchLimit` 1 records crowded out before the filter. Where a product of
independent choices would be too large, several focuses share a component: `Trajectory` has two Runs ingested at
once with one request beside them (`trajectory`), or one after the other, the second delivered again, with two
requests (`redelivery`); a surveillance task has watchlists that change (`watchlists`), requests that die
(`tasks`), or bindings that are replaced and a schedule that closes (`bindings`); the data platform has its
annotation requests (`annotation`), or versions and imports (`datasets`). Workers, schedulers,
supervisors and curators are interchangeable model values, so the symmetry of the runs about safety that
use it is sound.

**Deadlock** is checked for `RunExecution`, whose idle workers poll for ever. The
other systems really stop (session over, Run over, rows settled, bounds used up).

**Fairness.** Weak fairness of each process's own steps: the worker deployment and the
scheduler restart their process when it ends (`src/deploy/kubernetes/workers.yaml`,
`scheduler.yaml`; `restart: unless-stopped` in `src/deploy/shared-infra/compose.yml`), and a
lease always expires because it is a clock. Strong fairness only of an operator's end,
which checkpoints interrupt again and again and which the operator's timeout brings
about. No client is assumed to resume a paused Run, which is why
`EntriesServed` stops at `paused`. `webhook_liveness` has one scheduler because one is
deployed (`replicas: 1` in `scheduler.yaml`). `Continues` is checked under the same
fairness. The other runs are about safety and state none.

**Mutants.** For every property there is a plausible bug of a mapped definition ("mutants" in
`PROJECT.json`) under which the same run violates it.

### What the runs found

Two runs show code that does what a document denies:

* `run_cancelled`: a second cancel writes CANCELLED at once (SV 1289) while the worker
  still executes; its checkpoints do not look for CANCELLED, so it completes the Run.
* `quota_overshoot`: `adjust_quota_usage` locks the row of a quota; before the first use
  there is none, so two first requests are both allowed
  (`infrastructure/postgres_control_plane.py` 110). `control_plane` checks the same property
  with a row and in memory, where it holds.

The rest shows in the conditions of properties that hold:

* Stream sessions (SE 406): a session cancel accepted after the last checkpoint does not stop
  the worker from completing the segment and starting the next, and a crash between the
  COMPLETED save and the rollover ends the session. `Continues` excuses the crash,
  `ChainSound` the lapsed lease, with which one execution may fail a segment the other
  has continued.
* Results: a crash between storing `result.json` and COMPLETED makes the redelivered
  execution fail the Run, because its `result.json` has other bytes (SE 591). With a lapsed
  lease the late partial result of one execution replaces the final reference of a
  completed Run (SE 670), so `CompletedReadable` is for one worker at a time.
  `index_status` "partial" is set on a final reference when indexing fails (SE 669) and the
  next execution continues it (SE 521), which `ShardsExact` excludes; `CommitBacked` excludes a
  crash during the failing of a Run, after which shards are taken over that are gone (SE 522).
* Media: an operator that raises before its first batch without closing the media, and a
  checkpoint between two nodes whose save fails, leave the decoder thread polling.
* Inference: eviction and unload drop the load lock of a key, so two callers may load it at
  once. A request larger than the room others leave can wait as long as they arrive
  (`src/app/inference_scheduler.py`); a deadline is looked at between dispatches only.
* Tracking: every batch numbers its tracks from 1 and the result joins tracks of one id
  (`domains/portrait/analysis.py` 697). The solver for large batches maximises the number
  of matches first, the exact one the sum of scores; both are reported as optimal.
* Control plane: metering is idempotent (`src/docs/strategy/访问底座.md` 55) only for calls that do not overlap: two with
  one key both find it new (`control_plane.py` 543), store one event and count it twice; callers with
  two keys may lose an amount. Overlapping callers can also exceed the seat limit and execute an
  action twice; a crash after a flow's decision leaves the flow waiting.
* Gallery: an enrolment beside a deletion leaves a vector of the deleted person; a failing
  listing of Qdrant's collections hides spaces from a deletion; with Qdrant the enrolment's
  foreign key to `scenara_features` (`src/migrations/0001_initial.sql` 231) is never satisfied.
* Index: paging by OFFSET misses records when others are deleted between two pages; attempts
  that overlap mix their records, and one whose clock was read earlier moves a record back
  (`upsert_many` of `infrastructure/postgres_index.py` overwrites `created_at`), so that a
  search misses records although nothing was deleted.
  A search for one kind of media filters after the cut to the hits fetched, so records of other
  kinds can crowd out the ones asked for.
* Assets: deletion and Run creation can both pass their check (SV 539). `deleted_at` is written only when the
  preview goes with or after the original (PG 1292), so an asset whose original is kept longer than its
  preview (`settings.py` 351) loses both and is never marked deleted.
* Surveillance: a pause whose cancel is overtaken by the rollover leaves a session of a paused task running; a
  session whose pass lost the race to save its name, or died before, or whose binding was replaced by an
  update, runs without any task naming it.
* Data platform: a hard-sample manifest whose second source is refused stays accepted; the next submission is
  answered as accepted, and the samples never come (`src/scenara_data/app.py` 574-585).
* Trajectories: registrars run before COMPLETED (SE 351), so a redelivered Run ingests its tracklets again, and
  one tracklet may count twice in one identity. Merging or splitting an identity with more segments than
  one listing answers (`trajectory.py` 1217, 1239, 1260) leaves segments of an identity that is gone, or
  summaries of a part.
* API: `list_runs` and `list_search_index_records` send absent filters as empty
  strings, which the server refuses; `updated_at` of `PresignedMediaDownload` is never sent.

## 4. The proofs

Every theorem is about the safety part of its component's specification (`SafeSpec`,
`BillingSpec`, `AgentSpec`, ...), for every value of the constants that meets the module's
`ASSUME`: any number of processes, records, faults and steps. The assumptions are typing
(bounds and times are natural numbers, "none" values are not members of the sets,
callers and packages are finite sets) and facts the code guarantees before the first step:

| Assumption | Beyond typing |
|---|---|
| `BillingAssumption` | amounts are at least 1 (`Field(gt=0)`) |
| `GovernanceAssumption` | the releases a behaviour starts from are ones the service could have made: an active one is qualified and alone in its capability |
| `AlertAssumption` | a sighting does not end before it begins; the cooldown is positive |
| `GalleryAssumption` | a face is of one of the identities; a feature space has a positive dimension (`Field(gt=0)`, `platform/features.py` 26) |
| `AssetAssumption` | assets and sources have different ids |
| `ResultAssumption` | a shard has at least one unit |
| `WorkflowAssumption` | a node has a name (`FlowNode`'s pattern), so no node is the empty string |
| `IndexAssumption` | a result is indexed under its own Run; record ids are ordered; a page holds at least one record; as many hits are fetched as are returned, or more |
| `MediaAssumption` | the queue holds at least one unit (`Queue(maxsize=...)` of `media_batch.py`) |
| `BatchAssumption` | requests have at least one row and a weight of at least one; batches and the queue hold at least one (`max(1, ...)` in the constructor) |
| `TrajectoryAssumption` | a Run is of a camera or of none (`""`); one with an absolute time has it in every delivery; a listing answers at least one segment |

Three theorems have a hypothesis of their own. `QuotaHolds` asks that a quota in PostgreSQL
has its row, because without one `SELECT ... FOR UPDATE` locks nothing; the run
`quota_overshoot` is the counterexample. `CompletedIsReadable` and `CommitsBacked` ask that no
lease lapses under a living worker (`MaxLapses = 0`), for the reason given under Results in section 3.

Each inductive invariant was model-checked on the instance of its run before it was
proved. What they have in common: a handler acts on what it read, so the invariant must say what
a request in flight may still assume about records that others write meanwhile.

**RunExecution** (`IInv`). `CopiesCurrent` alone is not inductive: whether a save is safe
depends on what an old copy still tells about the record. `CopyOK` says it: the
revision has only grown, an equal revision means an equal status, a copy that has left
the queue or ended shows that the record has. `WorkerInv` and `ClientInv` attach a copy
to each place where one is held, `RecordInv` ties revision 1 to QUEUED, which is why
`_begin_execution` needs only one more round (`BeginBounded`) and why a queued cancel is
seen (`QueuedCancelEffective`). `EntryInv` with `Settled` gives `NoRunLost`. From the same
invariant every step is a step of `RunStatusSpec` (`ImplementsContract`), and
`ProgressNeverFalls` from `ProgressInv`: a copy at the record's revision has the record's
progress (`Current`), so a save that is accepted, of a status or of a higher progress, cannot put back a lower one.

**StreamSession** (`IInv`). `OneLiveSegment` needs that a segment with a successor has ended
(`ChainInv`) and that the worker that has inserted the successor is alone with it until
its entry is added (`WorkerInv`), which is the idempotency key's doing: this is what
keeps two rollovers of an overlapped segment apart when one deletes the record again.
Its type invariant is proved (`TypeCorrect`) and not a property of a run. `ChainSound` speaks of
sessions without a lapsed lease; `Solo` adds to `IInv` that then one worker holds the entry
of its segment (`Held`), that a windowed segment stays completed (`Windows`), and that a
linked segment was acknowledged with its link (`Links`): so the record which a failing
`create_run` deletes is never one that is linked or about to be.

**WebhookOutbox** (`IInv`). Overlapping schedulers overwrite `att`, so `DeadLetterEarned`
cannot be read off the row. The invariant bounds the copy of every claimed row by what
the endpoint saw (`copy <= tried`, strictly once the attempt is made): a count can be
lowered by a late save, never raised above the truth.

**Workflows** (`FlowInv`). Nothing locks an execution between its read and its save, so what a
request is about to save must already be justified: `RequestGated` says that the nodes in its
copy are open without an approval or behind one that was granted. It stays true because a
granted approval is never taken back (`Grows`). `Tidy` adds that while no two requests overlap an
execution has one request and one pending approval. That what a walk ran is within what is
open follows from both being least closed sets.

**AgentActions** (`AgentInv`). `execute_action` saves "executed" from an old copy, so the
history of approvals is tied to the writes in flight as well as to the records.

**Access** (`AccessInv`). A saved revocation stays in the key's record although
`record_api_key_used` writes to it; a session's record, also one put back after the purge, has
the expiry it was issued with; `RequestOK` says what a request has established at each await.

**Billing.** `QuotaInv`: the row is what was granted, and a transaction between SELECT and
write holds the lock and has read the row as it is. `UsageIsAccounted` needs two invariants. `CountInv`, whatever
overlaps: the usage row, and every copy of it in flight, leaves room for the units that were stored as events, or
saved over, and are not yet counted (`Flying`), so a lost update only ever undercounts and one key counts twice only
where two requests saved it. `CalmInv`, while nothing overlapped or died: one request is at work at most, and usage,
what earlier periods billed and what is in flight are exactly the stored events. `SeatInv`: seats and the writers in flight
together stay below the limit plus the other callers. `Metered` counts units as a set: a sum
by a fold could not be reasoned about.

**ControlRecords** (`RecordInv`). `Covered`: a put is in the trail, owed to it by a request, lost
with a failed append, or older than the shortest retention used. `Applied`: the same for an
approved lifecycle request. It needs that an id belongs to one kind of record (`IdsOK`).

**ModelGovernance** (`GovernanceInv`). `RequestSound`: what a review, an export and a transition
read stays true until they write, since decisions are final and packages do not change. With
`ActiveFit` and `OneActive` every step is allowed by `ReleaseLifecycle`, an action property.

**SurveillanceAlerts** (`AlertInv`). `Later`: a triage holds a document while workers count the
alert up, and equal revisions mean equal documents. **SurveillanceTasks** (`TaskInv`, `NamesInv`). `ReadOf`
says the same of a task, and `Settled` that a session a paused task names was asked to end, is over, given
up, overtaken, or still on the list of a request. `Known`: a session that is not over is named by the task, known
to be without a name, or still in the hands of the pass that started or found it (`Holds`). The proof attempt found a mistake in the
model: a lost compare-and-set is a conflict even when another request has written the same
document, so `SaveStart` and `SavePause` now compare the revision.

**DataPlatform** (`DataInv`). `SagaDone`: what a request has done is a fact about the samples and
annotations of the task of its key, and the service forgets nothing (`Grows`), so a repeated
or late call cannot falsify it. `IntakeInv`: an import that was announced has its samples, and one that was
accepted without was refused a source or died. **MediaAssets** (`MediaInv`). `RetentionOrder`, `RequestDone`,
`ObjectsKnown` and `Offered` for each asset: an upload starts only where there is no retention
record, so no later upload touches an object a sweep knows; and where the original is not kept longer, a
sweep that takes the preview takes or took the original, so `deleted_at` is written.

**SearchIndex** (`IndexInv`). `RunSound`: as long as attempts take turns, the index holds what the
only one at work has written and nothing of an earlier one. `QueryOK`: a record that was there
from the start has been read or has a rank from the offset on; writing other records
takes none of those before it away, so its rank never falls below the offset unless one was
moved back (`WritingKeepsRanks`). `PageFacts` is a fact about finite orders: ranks have no gaps, so a page that
is not full is the last. `BestFacts` does the same for the two cuts: what a cut leaves out, exactly as many
others as it keeps rank before (`Better`), which gives the two reasons in `Missed`. The proof
attempt found a mistake in the model: what is written is not always newest, as section 3 says.

**PortraitGallery** (`GalleryInv`). Identity record, vector and face record are in three stores:
`EnrolmentsSound` and `RemovalsSound` say what a request has done in each, and `RacesKnown` that
anything else is owed to a request beside it, over all three feature stores.

**Catalogue** (`CatalogueInv`). The lock of `activate` covers its own transaction only, so
`VersionsSound` (one active version, contracted statuses) comes with what is still true of the
versions a synchronising host has read (`HostsSound`), of the dataset version and the search a
request is about to write (`EditsSound`, `DatasetsSound`, `SearchesSound`).

**ModelRuntime** (`ModelInv`). That no session is released under an inference is a fact about
counts: `CountsSound` says that `in_use` of a bundle is the number of callers running it and
that its permits and the GPU's are what the running ones leave. It needs to know where each
caller is (`CallersSound`), that a candidate of a replacement belongs to its caller alone
(`CandidatesSound`), and that a registered bundle is not draining (`RegistrySound`).

**ResultStore** (`StoredInv`). Two invariants in one. `ResultInv` holds with any number of lapsed
leases: `RefSound` is about every reference, saved or about to be, since each is built from
the one before. It rests on `ShardFacts`, what the division in `Chunks` yields, and bounds the
number of executions (`ExecsBounded`). `SoloInv` is for one worker at a time: what is still to put and what
is stored make up the new reference (`PutSound`), what is deleted is not of the current one and
the record of a final result survives the marks (`WorkerFits`), and unless the Run is being
given up its reference can be read (`Calm`).

**MediaPipeline** (`MediaInv`). What the operator has taken and what is queued is, in this order,
what the decoder gave out, with the end mark last (`AllThere`), as long as nothing was
cancelled and the operator has not left (`Undisturbed`). `SamplesOrdered` has the sampling
itself: the interval strategy never returns to an interval it has passed, because the next
due time is the start and a whole number of intervals. `EndSound` is about the reason that
the decoder gives, `OperatorSound` and `ExecutorSound` say who may still be at work at which stage,
so that an execution that is over has left no decoder, outside the two cases of section 3.

**InferenceScheduler** (`BatchInv`). `QueueSound`, `FlightSound` and `WorkerSound` place every
caller that waits; `RowsSound` follows from what a cut by offsets yields (`SliceIs`), and what a batch
holds (`BatchIs`) from the turns one by one: its loop is a recursive function, whose
values exist and obey the recursion by an argument from least counterexamples (`RecursionExists`), not by
the library's induction theorems. The bound on waiting (`TurnsSound`) needs a measure, `Patience`: the
scopes whose turn comes before this one's. Every batch that passes the request over
lowers it, and only a caller that gives up raises it. The proof attempt found that the bound stated
first, once per other scope, is false when callers give up.

**Trajectory** (`TrajectoryInv`). Three invariants. `Drawn` holds whatever overlaps: what was written has a
number that was drawn, so a new identity and a new segment are new everywhere, also in the
copies that requests hold. `Apart`: what an ingest matched to an identity it has claimed or is about to
claim, so two overlapping tracklets of one execution never meet, whatever operators and other executions do to the
identities meanwhile. `Orderly` is for requests that did not overlap: one worker or one operator is at work,
and `RunAgrees` and `AnalystAgrees` say after each of its writes which summaries, segments and
templates may disagree (`ConsistentBut`) and why what it holds in hand will mend it. Of an identity in `cut` they say
nothing but for its templates; for any other a listing is all of its segments (`AnswerIs`). That
what is mended is exact is a fact about `_apply_segment` and `_recompute` (`ApplyExact`, `RecomputeIs`,
`ListedExact`), which rests on greatest, least and count of finite sets.

**Only model-checked.** All liveness, which is out of the prover's reach. `Tracking`
(`TracksExact`): the augmenting paths of the Hungarian method are recursive operators, in whose
presence the prover has no SMT backend, and every part of the property, also that no two persons
share a track, rests on what that method and the folds over tracks yield. `HttpApi` (`ApiContract`) compares tables of several hundred routes and
models, which TLC evaluates and the provers cannot.

## 5. Sizes

The map covers about 31 % of the Python lines outside tests. What is missing is listed next;
most of it is numeric code, schemas, SQL text and wiring.

## 6. Not modelled

* **Numeric work**: pre- and postprocessing of models, the fashion, OCR and behaviour
  operators (`domains/fashion/operators.py` and others), gait and shadow inference. They turn
  arrays into result objects; their control flow is that of `MediaPipeline`.
* **Enterprise**: licence files, incidents and support cases of one request each. Its usage
  limit is a step of Run creation that may refuse. In PostgreSQL the first consumption of
  a metric is not compared with the limit (`infrastructure/postgres_enterprise.py` 25).
* **Run events** are steps of what emits them; the log, its numbering and its server-sent
  stream are not kept. Status and event are two transactions (SE 975), and no
  document says which order clients may rely on.
* **Results**: artifacts and previews (their errors do not touch the Run), paging of results.
* **Object store**: multipart transfer, presigned URLs, lifecycle rules.
* **Control plane lists** without a protocol: dashboards, notification channels, reports.
* **Bootstrap and settings**, the migration tool of the data platform, the TypeScript SDK, the
  console, the deployment manifests (they justify the fairness assumed).
* Inside the modelled parts: a commit whose acknowledgement is lost, the length of back-offs,
  signatures, hashes, wording. `replace` and `unload` of the model registry are modelled,
  although no caller in the repository uses them yet.

## 7. Plan

1. Proofs: `Tracking` with its algorithms as recursive functions in a module of their own, first that
   they yield matchings, then the tracks of a frame and the books of a result over several
   batches, which need no more than that; the optimality of the two algorithms last.
2. `RunEvents`: numbering and order of events against saves; a reader of results that reads
   the reference before its objects; the arithmetic of `result_page`.
3. Usage limits of Enterprise in both stores.
