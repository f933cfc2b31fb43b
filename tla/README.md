# Specifications of stoat-and-ferret

TLA+ models of the stateful core of stoat-and-ferret, a video editor whose
Python server (FastAPI on one asyncio loop, SQLite through aiosqlite, FFmpeg as
child processes) drives a Rust core of pure functions.  TLC checks the models on
small instances; TLAPS proves the central theorems for every value of the
constants.  All paths below are relative to the root of the repository; `render/`,
`jobs/`, `api/`, `preview/` and `db/` stand for directories of
`src/stoat_ferret/`.

To run them: `tlc -workers 2 -config RenderSqlite.cfg MCRender` (and likewise for
the other runs of section 3), `tlapm RenderProofs.tla` (and likewise for the
other modules of section 4).

## 1. The system

### Components, their state and their operations

| Component | State | Operations | Talks to |
|---|---|---|---|
| Render repository (`render/models.py`, `render/render_repository.py`) | rows of `render_jobs`: status, retry count, evidence, partial-file flag | create, get, list_by_status, update_status, update_evidence, update_partial_signal, delete | SQLite; every other render part |
| Render queue (`render/queue.py`) | none of its own: derived from the rows | enqueue, dequeue, recover | repository |
| Render service (`render/service.py`) | shutdown flag, throttle times, frame buffer | submit_job, run_job, cancel_job, recover, _handle_failure | queue, executor, repository, WebSocket |
| Render executor (`render/executor.py`) | `_active_processes`, evidence | execute, cancel, cancel_all, kill_remaining | FFmpeg |
| Render worker loop (`render/worker.py`) | one task | run, _run_job, _handle_job_error | queue, service |
| Stale render sweeper (`render/sweeper.py`) | one task | run, _handle_stale_job | repository, WebSocket |
| Render routes (`api/routers/render.py`) | `_state_transition_lock` | submit, cancel, retry, delete | service, repository |
| Encoder cache (`render/encoder_cache.py` and its two routes) | rows of `encoder_cache`, a lock | get_all, create_many, clear; GET, refresh | FFmpeg, the shared connection |
| Lifespan (`api/app.py`) | the tasks it starts | start-up with recovery, graceful shutdown | everything |
| Background job queue (`jobs/queue.py`) | `_jobs`, an `asyncio.Queue`, a gauge | submit, cancel, process_jobs | handlers, completion registry |
| Completion waiters (`api/services/job_completion.py`, `api/routers/jobs.py`) | `_terminal_events` | notify_job_terminal, wait_for_job_terminal | job queue |
| WebSocket manager (`api/websocket/`, `api/routers/ws.py`) | live connections, lock, replay buffer, event counter | connect, disconnect, broadcast, replay_since, heartbeat | every component that announces |
| Preview sessions (`preview/manager.py`, `db/preview_repository.py`) | session rows, generation tasks, cancel events, locks | start, seek, stop, get_status, cleanup, cancel_all | HLS generator, WebSocket |
| Editing: projects, clips, tracks, effects, transitions, versions (`api/routers/`, `db/`) | rows of one project | the CRUD routes, split, timeline, save, restore | the shared connection |
| Proxy service (`api/services/proxy_service.py`, `api/routers/proxy.py`) | proxy rows and files, quota | generate_proxy, eviction; submit, delete | job queue, FFmpeg, scan |
| Narration (`api/services/tts_service.py`, `api/routers/tts.py`) | cue rows, sound cache, active tasks | synthesise_cue, shutdown; change, delete | TTS backends |
| Batch rendering (`api/routers/batch.py`, `db/batch_repository.py`) | batch rows, task registry, semaphore | submit, _run_batch_job, cancel | a render handler |
| Waveforms and strips (`api/services/waveform.py`, `thumbnail.py`) | rows, files | generate in a background task | FFmpeg |
| Assets (`api/routers/assets.py`, `db/asset_repository.py`) | rows, files named by content hash | upload, restore, delete | file system |
| Markers (`api/routers/markers.py`, `db/markers_repository.py`) | section markers | create, change, delete | the shared connection |
| Saved transitions (`api/routers/timeline.py`, `projects.py`, `effects.py`, `render/worker.py`) | the clips, `projects.transitions_json`, a job's copy of it | add (two routes, two shapes), delete; the routes that add, change, split, place and remove clips; submission, the worker's command | Rust translator |
| Rust core (`rust/stoat_ferret_core/src`) | loops over their arguments | timeline ranges, composition, render plan, crossfade chains; clips, filters, sanitising | pure functions |

`PROJECT.json` lists the other parts, with the reason why each is left out.

### How they interact

Everything runs on one asyncio loop.  Components call each other directly, and share
three things: the rows in SQLite, the live child processes, and the broadcasts of the
WebSocket manager.  There is ONE aiosqlite connection, and therefore one open
transaction: the COMMIT of any request makes the pending statements of all the others
durable, a ROLLBACK undoes them, and between two awaited statements of a request the
statements of others run.  The render worker, the stale sweeper and the requests are
different tasks that call the same `update_status` on the same rows.  The background job
queue runs scans and proxies one at a time and shares its registry of completion events
with the requests that wait.

### What is hard

* **Interleaving at awaits.** Repositories read, validate and update in separate
  statements, and the UPDATE tests nothing.  `dequeue` makes four repository calls.
  `cancel_job` waits up to the grace period for FFmpeg and then writes, while the worker,
  woken by the same process, writes too.  Several services look for a row and insert it
  an await later.
* **Failure of one step of several.** Any update can be refused because another task
  moved the row; the worker's failure handler can be refused in turn; a broadcast can
  raise after the status was committed; a split is three statements.
* **Crash, shutdown and cancellation.** Rows say RUNNING, GENERATING or synthesising when
  the task is gone.  `task.cancel()` and the queue's timeout strike at any await, also in
  clean-up code, and also before the task has run at all.
* **Rows and files.** A row and the file it names are written and removed in two steps.
* **Timeouts** race with the events they wait for: the encode timeout with a cancel, the
  client's wait with the notification.
* **Limits.** A retry budget shared by the worker and the retry route; a slot limit on
  RUNNING rows that an abandoned row would occupy for ever; a replay buffer that forgets.

### What makes each component correct

* Render jobs: a RUNNING row always has a worker behind it, no encode is left behind,
  COMPLETED means an output, terminal statuses are final, the retry budget holds, what
  clients are told stays true, every queued job gets its turn, locks are given back.
* Background jobs: no lost wake-up, no leaked event, answers are final, an accepted cancel
  is honoured, the gauge is exact, every job and every waiter is served.
* WebSocket: over a reconnect a client has every event once and in order; every broadcast
  ends.
* Preview: a generation that is wanted can be stopped, READY has its segments, stop leaves
  nothing behind, every request is answered.
* Editing: no material is lost that nobody asked to remove, what is gone stays gone, an
  answered edit or version is on disk.
* Timeline arithmetic: ranges compute with sets of frames, the segments of a plan partition
  its timeline, a transition longer than its clips moves no clip out of order, and what is
  saved between two clips is what their picture and sound render.
* Media services: what is served has its whole file and the content it claims, what says
  it is in progress is being worked on, an answered cancel stands, sections are disjoint,
  the encoder list is whole.

## 2. Modules

| Module | What it is |
|---|---|
| `RenderJobs` | the row of a render job and what each repository call does to it; pure definitions |
| `RenderLifecycle` | the state machine: worker, executor, FFmpeg, sweeper, routes, shutdown, crash, restart |
| `RenderProps` | its type invariant, safety and liveness properties, and the refinement mapping |
| `RenderJobSpec` | abstract: what the render queue promises about each job |
| `JobQueue` | the background queue with its worker, cancel and wait routes and the event registry |
| `JobSpec` | abstract: what the background queue promises its clients |
| `WsReplay` | broadcasts, connections, replay buffer, clients that come back |
| `PreviewSessions` | preview sessions with their requests and generation tasks |
| `Editing` | the editing requests of one project as statements on the shared connection |
| `MediaCalls` | the budget of client calls and server stops that the media services share |
| `ProxyGeneration`, `TtsSynthesis`, `BatchRender`, `VisualGeneration`, `AssetLibrary`, `EncoderCache`, `SectionMarkers` | one media service each, extending `MediaCalls` |
| `MediaServer` | their composition: one of them takes each step, and the end of the server ends all |
| `TimeRanges` | ranges of frames (`timeline/range.rs`): operations on two, and the loops over a sorted list |
| `RenderPlan` | positions (`compose/timeline.rs`), segments (`render/plan.rs`) and crossfade chain (`compose/graph.rs`) of one composition |
| `Transitions` | saved transitions from the routes through the job to the crossfades of picture and sound |
| `MCTimeline` | the three above side by side, one of them moving in each behaviour |
| `MCRender`, `MCJobQueue`, `MCWebSocket`, `MCPreview`, `MCEditing`, `MCMedia` | TLC's instances: sets and environments, nothing else |
| `RenderProofs`, `RenderPromises`, `JobQueueProofs`, `WsProofs`, `PreviewProofs`, `EditingProofs`, `MediaProofs`, `TimelineProofs` | theorems |

In every module a step is what one task does between two awaits that really suspend, and
an operator whose comment begins with "Mutated" is a plausible mistake in the definition
after it: it is no part of the specification, and serves to see that a property
notices the mistake.

### RenderLifecycle

| Variable | In the code |
|---|---|
| `row[j]` | the row of job `j`: status, retry_count, which attempt evidence_json describes, partial_file_detected |
| `sub[j]` | whether the POST of `j` has passed the depth check and has inserted |
| `task[t]` | where task `t` is (`"worker"`, `"request"`: the holder of `_state_transition_lock`, `"sweeper"`), its job, and the retry count that an UPDATE in flight will write |
| `ok`, `err` | what `execute` returned; whether the worker is inside `_handle_job_error` |
| `proc[j]`, `out[j]` | the FFmpeg process of `j` in `_active_processes`, and the file at output_path |
| `sent[j]` | terminal events broadcast for `j` |
| `attempts[j]` | encodes started (a history variable) |
| `app`, `stops` | the phase of the server, how often it has stopped |

`Target` and `After` list the ten places where a task calls `update_status`, the
status each asks for and what follows; `Raised` says who catches the ValueError (or the
error of a broadcast) at each place.  `UpdateRead` / `UpdateWrite` are the two halves of
the SQLite call, `UpdateAtomic` the in-memory one, `UpdateRefused` the refusal of both.
`Announce` is a broadcast, `AnnounceFails` one that raises because the set of clients
changed while it was sending (`api/websocket/manager.py:145`, the step `Raise` of
`WsReplay`).

Decisions, and why they are sound:

* Reads that follow each other with no write of the same task between them are one step
  (the route's `get` and `cancel_job`'s `get`; the two depth checks of a submission: the
  later one binds).  A write and its commit are one step.
* Job numbers are the order of `created_at`, so `dequeue` takes the lowest.
* A rejected submission (503, queue full) changes nothing and is not a step.
* `update_evidence` and `update_partial_signal` write one column each, so that the read
  in front of them decides only whether the row exists; they are one step.
* Splitting the SQLite call lets its UPDATE come arbitrarily late.  That is more than the
  connection's queue allows, so what holds in the model holds in the code; the violations
  reported below use only adjacent statements.
* With `AtomicRepo` every other await may still interleave, so what holds there holds for
  the in-memory repository.
* The sweeper may find any RUNNING job stale: only progress reports move `updated_at`.  It
  handles one job per pass because at most one row is RUNNING (theorem `AtMostOneRunning`).
* Recovery fails all RUNNING rows in one step; with at most one such row, a crash in the
  middle of it is a crash before or after it.
* `Stop` needs every request to be finished, as uvicorn drains them before the lifespan
  ends.  A crash needs nothing.

### JobQueue

`status`, `fifo`, `cur`, `handler`, `cancelSet` are the entries, the `asyncio.Queue`, and what
`process_jobs` is doing; `waiting`, `events`, `fired`, `reply` are the clients in
`wait_for_job_terminal`, their events in `_terminal_events`, those already set, and the
response.  `gauge` is `stoat_active_jobs_count`.  `submit`, `cancel`, `notify_job_terminal` and
the branches of `process_jobs` have no await inside, so each is one step.  A handler
returns or raises at any time, or never; it may itself raise TimeoutError.

### WsReplay

| Variable | In the code |
|---|---|
| `event[e]` | the broadcast of event `e`: its place, its id, whose heartbeat it is, `_connections` when its fan-out began, to whom it was offered, who turned out dead |
| `turn` | who holds and who waits for `manager._lock`, in order |
| `buffer`, `old` | `_replay_buffer`, and how far its TTL has passed |
| `live`, `conn[c]` | `_connections`; the endpoint of connection `c`, its client, what `replay_since` returned and is not sent yet |
| `cut`, `seen[k]` | connections whose client is gone; what client `k` received over all its connections |
| `life` | the first event of this life of the server, whose counter starts anew |

`Build` is `build_event` with the call of `broadcast`; `Visit` a `send_text`, to a connection
that is there or gone; `Raise` the RuntimeError of an iteration whose set changed in size
(the event is then neither sent to the others nor buffered); `Finish` removes the dead and
appends to the buffer.  `Connect` joins `live` and takes the replay, and `ReplaySend` sends it, while
live events already reach the same connection.  `Hangup` is the `finally` of the endpoint,
`Cut` the client that vanishes, `Restart` the server's end.  Clients are handed their
last id by the order in which they received, as a browser client does.

### PreviewSessions

A session is named by the request that started it and a generation by the request that
created it.  `row`, `late` are the row and whether `expires_at` has passed; `req[r]` is the place
of a request with the status it read, what it awaits and which lock object it found;
`gen[g]` a generation task; `tracked`, `handle`, `lock` the dictionaries `_generation_tasks`,
`_cancel_events` and `_session_locks`; `files` whose output the directory holds.  `TransitionRead`
and `TransitionWrite` are `_transition` (validation of the caller's copy, of the row, then an
UPDATE that tests nothing); `Interrupts` is `_cancel_generation`, with the rule of asyncio that a
task cancelled before it first runs ends without its `finally`.  `GenUnwinds` is the
cancelled task: its UPDATE in flight may still land.

### Editing

`db` is what every SELECT on the connection sees, `disk` what was last committed.  A request
reads (its guards are what the route checks), leaves with the list of statements `todo`, and
`Exec...` executes one statement of one request: so COMMIT copies all of `db` to `disk`, and
ROLLBACK all of `disk` to `db`, whoever wrote it.  There are seventeen kinds of request: clips (add,
trim, split, delete), effects (apply, change, remove), placement on the timeline (place,
move, remove, replace all), transitions, settings, deletion of the project, and versions
(save, restore).  Content is abstracted to what the properties need: a clip is an interval
of the original material with the list of requests whose effects it has, and a version
is the request that saved it.  Fresh ids (UUIDs) are computed from the request's number.

### The media services

Each module has its rows, its files, the place of each call and task, and history
variables for the exceptions of its properties.  Calls share one budget (`MediaCalls`), which
makes the state space the sum, not the product, of the services; `MediaServer` adds the end
of the server, which takes every task and leaves every row (none of these services has a
recovery at start-up).

| Module | State and steps in the code |
|---|---|
| `ProxyGeneration` | `generate_proxy` from the quota check through eviction (file, then row), the PENDING row, GENERATING, FFmpeg, READY or FAILED; `ProxyTimeout` is the queue's `wait_for`; `ProxyDelete` the route, also during the encode; `ProxyScan` the scan's marking and queueing, by the same worker |
| `TtsSynthesis` | one cue: the three awaits of the synthesise route, `_do_synthesise` with cache, backend and store, the done callback that pops `_active_tasks`, PATCH (of the position, which writes back all it read, or of the text) and DELETE.  `Init` is a cue just created |
| `BatchRender` | `submit_batch`, `_run_batch_job` behind the semaphore with each of its exits, `cancel_batch_job` with its reads, writes and its wait for the task; `Interrupted` is `task.cancel()` at each place |
| `VisualGeneration` | the background tasks of waveform and strip requests of one video: look at the newest row, add, start, generate, last update, with failing writes and deletion of the video |
| `AssetLibrary` | one content: look by hash, `write_bytes` in a thread (truncates, then writes), insert, restore, soft delete |
| `EncoderCache` | the rows as seen and as committed; the two routes with lock and double check; row by row insertion; `EncOtherCommits`, `EncOtherRollsBack` are other users of the connection |
| `SectionMarkers` | create, change and delete with `check_overlap` between reading and writing |

### The timeline modules

`TimeRanges`: `ranges` is the sorted argument; `merged`, `mergeAt` are the result of `merge_ranges` and
the range its loop looks at, `gaps`, `gapAt`, `reached` those of `find_gaps` (with `current_end`),
`total`, `sumAt` those of `total_coverage`, which adds up merged ranges.  A step is one iteration.
`Overlap`, `Joined`, `GapOf`, `Difference` are the methods on two ranges; an Option or a Vec is the
set of what it holds.

`RenderPlan`: `clips` and `transitions` are the durations asked for, `placed` the positions so far,
`segments` and `totalFrames` those of `build_render_plan`, `fades` and `chained` the crossfades of `build_xfade_graph`
and its `accumulated_duration`.  Positions clamp a transition by the two clips it joins; the
graph clamps by all that is chained so far and stops at the first pair without one.

`Transitions`: `rows` is the table of clips (`born` numbers them), `saved` is
`project.transitions`, `job` the copy of it that a submission takes and, once built, the inputs
of the command with their crossfades in picture (`VideoFades`, from
`RenderGraphTranslator::translate`) and sound (`AudioFades`, from the worker), and `answer` what
the last delete of a transition was answered.  Every route that edits clips or their places is
an action, so that a clip may come between two others, change its position, or go, after a
transition was saved; a route is one step, since its interleavings are in `Editing`.  What the
code keeps apart is apart here:

* two orders: `Listed`, by `timeline_position`, is rendered and is what the effects route calls
  adjacent; `AlongTracks`, by track and `timeline_start`, is what a delete computes with; and
  `AddTransition` compares one clip's `timeline_end` with the other's `timeline_start`;
* two lengths: `Long`, the clip's place on its track, and `Shown`, the frames of its source or
  of the output that the worker shows, with `Feeds`, what the `-t` of its input lets through;
* two defaults: `PictureDefault` of the translator and `SoundDefault` of the worker.

## 3. Runs

| Run | Instance | What it asks |
|---|---|---|
| `render_sqlite` | `RenderSqlite.cfg`: 1 job, 1 retry, everything in the environment, 1 stop, SQLite | `RunningIsOwned`, `EncodeIsAwaited`, `CompletedHasOutput` |
| `render_live` | `RenderLive.cfg`: 2 jobs, no retry, cancel and crash, 1 stop, SQLite | `QueuedJobMoves`, `RunningEnds`, `LockReleased` |
| `render_memory` | `RenderMemory.cfg`: 2 jobs, 1 retry, users and sweeper, atomic repository | `AttemptsBounded`, `AnnouncementsHold`, `FinalIsFinal`, `Implements` |
| `job_queue` | `JobQueueAll.cfg`: 3 jobs (1 with no handler), 2 clients, shutdown | `NoLostWakeup`, `RegistryExact`, `RepliesAreFinal`, `CancelHonoured`, `GaugeExact`, `JobsSettle`, `WaitersAnswered`, `Implements` |
| `editing` | `Editing.cfg`: 3 requests of all kinds, a clip of 2 frames, 1 kept version, 1 crash | `FramesKept`, `GoneForGood`, `AnsweredEditsStand`, `AnsweredVersionsStand` |
| `preview` | `Preview.cfg`: 3 requests, limit 1, expiry, shutdown, crash, failing broadcasts | `LiveIsTracked`, `ReadyHasFiles`, `StopLeavesNothing`, `RequestsAnswered` |
| `websocket` | `WebSocket.cfg`: 3 events, 3 connections of 1 client, a buffer of 2, a restart | `BufferInOrder`, `NoGap`, `NoDuplicates`, `BroadcastsEnd` |
| `media` | `Media.cfg`: 3 calls, 1 stop, 2 videos, 2 texts, 2 batch jobs, 2 encoders, a timeline of 2 | `TypeOK`, `ReadyHasFile`, `SectionsDisjoint`, `EncodersWhole`, `ReadyCueMatches`, `CancelAnswersStand`, `InProgressIsOwned` |
| `timeline` | `Timeline.cfg`: lists of 4 ranges on 6 positions; 3 clips of up to 4 ticks, 4 ticks a frame; 2 edits of the clips, places and transitions of a project of 2 or 3 clips (5 in all, 2 tracks), 1 render | `RangesAreSets`, `PlanIsTimeline`, `SavedFadesRender` |
| `render_final` | `RenderFinal.cfg` | finding: a cancelled job runs (`FinalIsFinal` on SQLite) |
| `render_worker` | `RenderWorker.cfg` | finding: a cancel ends the worker loop (`WorkerSurvives`) |
| `preview_seek` | `PreviewSeek.cfg` | finding: a refused seek leaves SEEKING with nobody at work (`SeekingIsServed`) |

The type invariants of `Editing`, `PreviewSessions` and `WsReplay` are the first conjunct of
`FramesKept`, `LiveIsTracked` and `BufferInOrder`; the three invariants of `timeline` are conjunctions of
named formulas, one for each thing they promise:

* `RangesAreSets`: `merge_ranges` keeps exactly the frames it was given in the fewest ranges
  (`MergeIsExact`); `find_gaps`, which does not use it, finds what lies between its ranges
  (`GapsFitMerged`); `total_coverage` counts every frame once (`CountsFramesOnce`); the four
  operations on two ranges are those on sets of frames (`PairsAreSets`).
* `PlanIsTimeline`: clips stay in order and leave no hole however long the transitions
  (`ClipsStayInOrder`); segments partition the timeline (`SegmentsPartition`), nothing begins or
  ends within one (`SegmentsAreUniform`), and their rounded frames stay within half a frame each
  of its duration (`FramesAddUp`); the chain of crossfades agrees with the positions unless a
  request after the first exceeds the clip it leaves (`FadesFollowPositions`).
* `SavedFadesRender`: picture and sound, chained by two programs, fade as long as each other,
  and the sound of a clip begins with its picture where the clips before are cut alike
  (`SoundFollowsPicture`); each pair renders the youngest transition that the job's copy has for
  the two, or the default, but for the two cases `Elsewhere` and `Reversed` (`TransitionsLand`);
  and where both orders and both lengths agree and every pair has a transition that fits, the
  duration of the timeline route is that of the render (`PairedLengthRenders`).  These three
  speak of every project the routes can leave, the run starts from two (`Starts`) with a
  transition saved between the first two clips, and the theorem from any.

### Bounds

* Render: one job with one retry reaches every place of the worker twice, and together
  with the three tasks, one stop and the faults every pair of updates of that job in either
  order.  Properties about the slot, the order of jobs and the depth limit need a second
  job: `MaxDepth = 1` makes the check-then-insert of two submissions overshoot, and
  `MaxConcurrent = 1` makes an abandoned RUNNING row block the other job.  More jobs bring
  nothing new for safety, since tasks touch one job at a time and there is one worker.
  `MaxStops` bounds stops and crashes, `Cap = MaxRetries + 2` the count of attempts, which is
  above everything `AttemptsBounded` allows.
* Job queue: three jobs give a FIFO with a job behind a busy and a failing one; two clients
  wait on the same or on different jobs.
* Editing: three requests are the two that race and a third whose COMMIT or ROLLBACK falls
  in between; a clip of two frames has one place to split, and both halves can be edited.
* Preview: three requests are a start and two others that overlap with it or with each
  other; with `MaxSessions = 1` two starts race for the last slot.
* WebSocket: with three events and a buffer of two the buffer evicts what a client still
  needs; three connections are a client that comes back twice, or before its old
  connection is noticed dead.
* Media: three calls are two that race on one row and one that meets what they left.
  `Threshold = 0` makes every second proxy evict the first; `ParallelLimit = 1` keeps one of
  the two batch jobs waiting, and two encoders make an insertion that can be cut in half.

* Timeline: four ranges on six positions are two that merge, one they contain or touch and
  one behind a gap.  Three clips have a middle one that two transitions could eat from both
  sides, and four ticks to a frame make halves to round.  Of the saved transitions, one project
  has file clips with and without sound, cut at either end, the other an image and a generated
  clip.  Two edits insert a clip between two that have a transition and save another for it,
  swap two positions, move a place along or across tracks, split or take away a clip, or
  save a second transition and delete one; the render is submitted and built before, between or
  after them.  Five clip numbers leave room for an insertion and a split.  One tick a source
  frame and two an output frame keep the two rates apart.

**Deadlock** is not checked, because these systems may rest: a server with nothing queued,
or clients that have used up their calls, take no more steps.  `RequestsAnswered`,
`BroadcastsEnd`, `WaitersAnswered`, `JobsSettle`, `RunningEnds` and `LockReleased` ask that nobody rests
in the middle.

### Fairness

The event loop runs every ready task: weak fairness of the worker, of the request that
holds the lock, of the sweeper and of the lifespan (a server that went down is started
again by its supervisor), in `JobQueue` of the worker and of a client whose event is set, in
`PreviewSessions` of each request (`Handle`) and of each generation task (`Generate`).  Nothing is
assumed of FFmpeg, of handlers or of clients: it is the encode timeout, the grace period,
the job timeout and the bounded wait for a terminated FFmpeg (`GenUnwinds`), parts of those
tasks, that bound the wait.  In `WsReplay` each broadcast is weakly fair, because a send to a
client that does not read is ended by uvicorn's keepalive, which closes the connection.
`Editing`, `MediaServer` and the timeline
modules state no liveness.

### Exceptions, and what is behind them

Some properties hold only up to interleavings that the code does not exclude.  Each such
exception is a history variable, which a step sets when the case happens, so that the
property still says what holds outside it:

| Variable | The case | What the code does then |
|---|---|---|
| `contended` (Editing) | two requests overlap on one row | rows are written whole, so one edit is lost |
| `clobbered` (Editing) | a ROLLBACK while another request has pending statements | they are undone; the other request answers 200, or fails the assertion "project cannot be None" |
| `tangled` (Preview) | a stop or expiry overlaps with a start or a seek of the session | a generation runs that is in no table, for a row that may be gone |
| `stale` (Preview) | sessions of an earlier life of the server | rows say READY or GENERATING without files or task, and occupy slots |
| `skipped`, `blind` (WsReplay) | the buffer had lost the event, a live event overtook the replay, or the client presents an id that is not its latest or not in the buffer | gap, or everything in the buffer again |
| `proxyCut`, `proxyLost` | the moment between the removal of a file and of its row; the handler was cut off by the queue's timeout or the server's end | GENERATING for ever, until DELETE |
| `ttsOverlap`, `ttsLost` | a PATCH writes back a row it read before a synthesis; the server ends | "synthesising" with nobody at work; the sound of an older text |
| `batchTorn`, `batchLost` | cancelled between its read of QUEUED and its handler, or again during clean-up; the server ends | "running" or "queued" with no task |
| `visualRaced`, `visualLost` | two requests decide before either has inserted; the task ended before its last update | two generations, and a failed newer row hides a READY one; GENERATING for ever |
| `assetRaced` | two uploads of one content overlap | the second truncates and rewrites a file that is already served, and ends in an IntegrityError |
| `encTorn` | a crash or another request's ROLLBACK hits the insertion | a partial list that counts as cached until a refresh |
| `markerRaced` | a marker is written between another call's check and its write | overlapping sections |

The timeline properties have no such variables; their exceptions are formulas about the state at
hand, so that nothing else is excused:

| Formula (`Transitions`) | The case | What the code does then |
|---|---|---|
| `Elsewhere` | a younger transition of the first clip of a pair, or its only one, leads to a clip other than the second: one was inserted, moved, removed or joined twice | the pair renders that transition, because the lookup never reads `clip_b_id` |
| `Reversed` | the youngest transition of a pair was asked for from the second to the first | the pair renders an older one or the default |
| `Trim` (negated) | a file clip before the pair is not cut where its picture is, or a crossfade is longer than a clip | the sound after it begins later or earlier than its picture |
| the premises of `PairedLengthRenders` | positions and tracks order the clips differently, a clip's place is not as long as what it shows, the last is not cut, or a pair lacks its transition | the duration a delete answers is not that of the render |

### Findings

The three violation runs are disagreements between the code and a statement in its
documentation or comments; `PROJECT.json` quotes each.  A cancelled render is encoded
anyway; one cancel at the wrong moment stops rendering until the next restart; a seek
during a seek destroys the generation and leaves the session SEEKING for ever.
The first two are why `QueuedJobMoves` exempts a dead worker and why `FinalIsFinal`,
`AttemptsBounded`, `AnnouncementsHold` and `Implements` are checked with the atomic repository.

### Other observations

Behaviour met while modelling that no run reports as a violation, because no document
says otherwise, or because the model only has to leave room for it:

* Render: an FFmpeg that obeys 'q' at a graceful shutdown returns 0, so a partial file may
  be completed (`docs/manual/operator-guide.md:178`), which is why `CompletedHasOutput` asks
  for an output and not a whole one.  Evidence is overwritten by a retry.  The sweeper
  broadcasts render_failed for jobs that can still be retried.  The queue's depth limit is
  check-then-insert: it is exceeded by at most the submissions in flight.
* Jobs: a cancelled job whose handler raises or times out ends as failed or timeout (the
  proxy handler always does).  At shutdown waiters are notified of a job still RUNNING.
* Editing: `split_atomic` is called a single transaction (`db/clip_repository.py:88`), but the
  COMMIT of any other request makes its first INSERT durable, and a crash then leaves a half
  next to the original.  A timeline collision is checked an await before the insert; replacing the
  timeline leaves clips on deleted tracks.
* Preview: seek passes `input_path=""` to FFmpeg.  The preview cache is never fed by anything
  in `src/`.  Polling an expired session again decrements the gauge again.  Expired rows keep
  their slot.
* WebSocket: an event whose fan-out raised is lost for the remaining clients and for the
  buffer, against the docstring at `manager.py:128`; after a restart ids begin anew, so that
  an old id may match a new event; an exception during the replay leaves the connection
  registered.
* Proxies: POST accepts a FAILED or STALE proxy, and the job then fails on the UNIQUE row
  until somebody calls DELETE.  Stale files count against the quota and are never evicted.
* Narration: the route promises a single flight, but reads and marks in two steps, so two
  syntheses may run, and the first to end pops the other from `_active_tasks`.
* Batches: the limit of parallel jobs is per batch.
* Waveforms: the docstring (`waveform.py:197-202`) says concurrent requests are idempotent;
  an error outside the try statement (`mkdir`, `write_text`) leaves GENERATING, which blocks
  later requests.
* Encoder cache: a GET during a refresh may be answered with part of the list as cached.
* Transitions: one saved by the route of the effects page has no `clip_a_id`, which the worker
  indexes (`render/worker.py:513`): every later render of that project with two clips or more
  fails.  `TransitionType` accepts hlwind, hrwind, vuwind, vdwind and custom, which
  `VALID_XFADE_TRANSITIONS` (`render/translate.rs:24`) lacks: saved, they fail the render too.
  `add_transition` swaps clips that come in reverse for its check and saves them as they
  came (`api/routers/timeline.py:659-662`, `699`): the transition is rendered behind the later
  clip or not at all.  A delete commits (line 802) before it parses what remains, and is
  answered 500 if that includes one of the effects route; its duration pairs what remains by
  position and knows nothing of the default crossfade of one second.  Clips removed from the
  timeline are still rendered (`render/worker.py:452`).  The translator clamps nothing, so that
  an offset may be negative.
* Transitions and clips that change: after a clip is inserted between A and B, or the clips are
  put in another order, the fade of A to B is applied to A and whatever follows it, since
  the lookup "for that clip boundary" (`render/worker.py:502-504`) goes by `clip_a_id` alone (lines 513
  and 551).  Nothing ties `timeline_position`, the order of the render, to `timeline_start`, by which
  `add_transition` decides what is adjacent, nor the length of a place to that of the source
  (`add_timeline_clip` asks for start before end only).  A file clip with `in_point` 0 is not
  cut at its input (`render/worker.py:724-727`); the offset of the next crossfade cuts its picture, and
  nothing its sound, so that all later sound comes late, against "to maintain A/V duration alignment"
  (lines 609-610).  A split drops track and image asset (`api/routers/projects.py:589-621`): the halves
  of an image fail every later render.
* Rust: `build_xfade_graph` stops at the first pair without a transition, and gives later clips
  no place; no Python caller passes more than two clips.
* Markers: a PATCH of the name alone writes back the times it read, without a check.

## 4. Proofs

Each theorem holds for every value of the constants: any number of jobs, requests, videos
and calls, any limits and budgets, either repository, any environment.

`RenderProofs`:

* `Typing`: `Spec => []TypeOK`.  The tables `Target`, `After`, `Raised` keep each task within its
  own places (`CallsStayHome`), then one lemma per group of actions.
* `Ownership` and `EncodeAwaited`: `RunningIsOwned` and `EncodeIsAwaited`.  The inductive invariant is
  `TypeOK` with both: the row alone does not say that a RUNNING job whose encode ended is
  still in the worker's hands, so the process table has to be tied to the worker's place as
  well, and an UPDATE in flight of another task must be known never to write "running",
  which only the worker's claim does.
* `AtMostOneRunning`: a corollary, since one worker owns at most one job.
* `Finality`: with `AtomicRepo`, `Spec => FinalIsFinal`.  The invariant says that no update is
  pending between two steps and that a job not yet inserted has no row (otherwise the
  INSERT of a late submission could overwrite); then an accepted update never starts from a
  final status (`FinalRow`).

`RenderPromises` goes on from there, one invariant on top of the other:

* `Outputs` (`CompletedHasOutput`, either repository).  `Outcome` adds two parts to the invariant
  of `Ownership`.  `Unsubmitted`: a job not yet inserted has neither file nor evidence, and no
  task holds it.  `Kept`: a COMPLETED row has the file and the evidence of the last attempt, and
  the worker does not encode that job again; the same holds already where the worker is about
  to write COMPLETED.
* `Attempts` (`AttemptsBounded`, `AtomicRepo`).  `Ledger` keeps an account: `attempts[j]` lags or
  leads `retry_count` by an amount that depends on the row and on the worker's place (`Owed`),
  and an UPDATE in flight writes a count that is within the budget (`Within`).
* `Announcements` (`AnnouncementsHold`, `AtomicRepo`).  `Saying`: a task on its way to an
  announcement has already written the status that it announces, that status is one that
  nobody leaves (`OverStays`), and what was sent agrees with the row.
* `Refinement` (`Spec => Implements`, `AtomicRepo`): each step of the server is a step of
  `RenderJobSpec` or leaves what the clients see alone.  The invariant is needed in the
  worker's retry, where the abstract budget bounds what the code compares with `retry_count`.

`AtomicRepo` is what the runs of these properties set; the race that the other repository
permits is one of the findings.

`JobQueueProofs`:

* `Typing`, `Wakeups` (`NoLostWakeup`), `Registry` (`RegistryExact`), `FinalAnswers`
  (`RepliesAreFinal`), `CancelAndGauge` (`CancelHonoured`), `Gauge` (`GaugeExact`) and `Refinement`
  (`Spec => Implements`).  The inductive invariant `JobInv` adds to the checked properties: the
  job in the worker's hands is RUNNING; jobs in the FIFO are pending and occur once (so
  that taking one never restarts a finished job); a set event belongs to a client that
  still waits, on a terminal job; every answer names a job.  The refinement needs it
  because `WaitWake` answers with whatever the status is.

`WsProofs`, for any number of events, connections and clients and any buffer:

* `InOrder` (`BufferInOrder`).  `Base` says that events are built in order (`Numbered`), that what
  waits for the lock is in that order and younger than all that has finished (`Streamed`), and
  that a client has one connection at a time (`Connected`).  Heartbeats that are cancelled leave
  from the middle of the queue; that the rest stays sorted is a lemma on sequences.
* `OnlyOnce` (`NoDuplicates`).  `Seen`: no client has an event younger than one still under way,
  so that the finished and the open ones lie apart.  `Once`: the rest of a replay and the
  events not yet offered are new to the client.  The step that matters is `Connect`: an id names
  one event of this life (`AnchorFacts`), and behind it lies nothing that the client has.
* `NothingMissed` (`NoGap`).  `Caught` gives every finished event an account for every client: it
  has it, it has been told, or it is in the rest of its replay; for a client that is away, up to
  the id with which it will come back.

In `WsReplay` the filter by timestamp is the rest of the buffer after those that expired: it is
the same only while the buffer is in order, which is part of what `InOrder` proves.

`PreviewProofs`, for any number of requests, sessions and restarts and every environment:

* `Stoppable` (`LiveIsTracked`), `Segments` (`ReadyHasFiles`) and `CleanStops`
  (`StopLeavesNothing`).  `PreviewInv` says of every session who is who (`Origins`: which request
  made it, what is in the tables, and `Turns`, that no lock object has two holders), and of a
  session that is neither tangled nor stale it says `Calm`:
  * `Apart`: several requests work on it only if all of them are seeks.
  * `OneLock`: they all wait for the lock in the table; or the session is `Over`, late and EXPIRED
    without generation, and whoever still holds an old lock finds only that.  This is needed
    because the cleanup takes the lock out of the table while others wait for it.
  * `OneTask`: one generation, which is in both tables, or cancelled and awaited.
  * `StepOK`: what a request has read still holds where it uses it.
  * `Stocked`: READY has its files, or a request goes on from there to another status.

  `Gone` keeps the session of an answered stop without a row.  A step works on one session
  (`Frame`), and all that `Calm` says of the others is the same after it (`Elsewhere`); so each
  action is examined on its own session, in four lemmas: requests, interrupts by a timeout
  or shutdown, the start of a generation, and the generation.

`EditingProofs`, for any number of requests, any clip, any crashes and any number of kept versions:

* `Frames` (`FramesKept`), `Gone` (`GoneForGood`), `EditsStand` (`AnsweredEditsStand`) and
  `VersionsStand` (`AnsweredVersionsStand`).  `EInv` is the conjunction of six invariants, each
  proved on top of those before it:
  * `Plans`: rows and statements are well formed, and what a request has still to do is the end of
    one of the plans of its kind, so that the statement it executes next is known.  No version
    number exceeds the count of requests that have chosen theirs.
  * `Births`: ids of clips are fresh.  Until its INSERT a clip is in neither copy of the database
    and nobody works on it; a split is of an older clip than its halves.
  * `Removals`: before its COMMIT the clip that a request removed is gone in memory, after it on
    disk as well.  The COMMIT of another request may come between, and makes it gone earlier.
  * `Saved`: a version is there or `Keep` later ones are.  The step that matters is the prune
    (`StandsPruned`): the highest `Keep` of a set with the version either include it or are
    `Keep` later ones.  The second of two saves that read one maximum is refused, so that
    what the first wrote is not exchanged.
  * `Edits`: overlapping requests are noted (`Quiet`), an edit is there once its statement has run
    (`Has`), and whatever a request of that row is about to write includes it (`Carries`).
    Without the last part a stale row in the hands of a request could still undo the edit.
  * `Materials`: each clip that ever existed has frames that it was made to show, its nature.  A row
    shows them all but those that were cut; a split that has still to delete its clip has
    later halves that show them in its place, inserted or awaited.  The nature is an
    existential in the invariant and grows only when a request to add or split begins.  That the
    halves are later rules out that two requests each delete a clip that the other counts on.

  Actions are reduced first to what they do to the database (`InsertClipDone` and so on) and
  to the requests (`Ran`, `Began`, `Decided`), and the six proofs use only that.

The media services share the next-state relation of `MediaServer`.  For each service a first
lemma (`ProxyStep`, `BatchStep` and so on) says that a step of the server is one of the service's
own, its end, or leaves its variables alone; after that each part of `MediaProofs` is about one
module:

* The library: `AssetFiles` (unless two uploads overlapped at most one is on its way, and none
  once there is a row), `EncoderLists` (the lock has one holder, and what the table holds is known
  at each of its places), `Markers` (what a call is about to write still fits, unless another
  wrote since it looked), `Visuals` (unless two requests raced, at most one is between its look
  and GENERATING, and its row is the youngest).
* Proxies, theorem `Proxies`: the handler's video is the only one PENDING or GENERATING, and a
  row READY has its file at each place of the handler and of the eviction.
* Narration, theorems `Narration` and `NarrationMatches`: while no PATCH overlaps, every task speaks
  what the row says, so that whichever of two finishes writes the right asset.
* Batches, theorems `Batches` and `AnswersStand`: `BatchInv` relates row, task and request.  What
  the row may say is known at each place of the task (`RowFits`), and a request that has
  interrupted a task finds it at a place from which it only stops (`CallFits`): "cancelled" in
  an answer therefore stands.  The semaphore is a separate induction on the cardinality of
  the tasks that hold it (`Enters`, `WorkBounded`).
* Together: `Typing` (`TypeOK`), `FilesWhole` (`ReadyHasFile`) and `Owned`
  (`InProgressIsOwned`).

`TimelineProofs` is about the loops of the Rust core, in which an invariant says what the
iterations so far have computed, and about the saved transitions that come to it:

* `Ranges` (`Spec => []RangesAreSets` of `TimeRanges`).  The sorted list is described by its
  breaks, the places where a range begins after all before it have ended.  `merge_ranges` has
  so far the runs between breaks, `find_gaps` the holes that end at them (`Breaks`, `IsTop`),
  and `total_coverage` the cardinality of what it has counted (`CountedTo`); that separate
  ranges share no frame lets the cardinalities add up.  Nothing here is induction over
  data: each step of a loop is a step of the specification.
* `Plans` (`Spec => []PlanIsTimeline` of `RenderPlan`).  The inductive invariant has a part for
  each loop.  `Placed`: every clip overlaps its predecessor by the clamped duration, starts
  and ends are both in order, and no tick between is without a clip.  `Cut`: segments go from
  boundary to boundary with none in between, and the error of the frames so far is bounded by
  half a frame for each.  `Chained`: `chained` is the end of the last clip that was faded, which is
  where the two clamps, by the clip or by all before it, come to the same.
* `SavedFades` (`TransSpec => []SavedFadesRender` of `Transitions`).  The inductive invariant
  `TransInv` says that the rows are well-formed, with none beyond `born`, and that what a job
  shows is a list of different clips with the lengths they had, and with the crossfades of its
  own copy of the transitions; the project may move on.  `Landing`: where neither exception
  applies, the youngest transition of the pair is the youngest of its first clip, which is what
  the lookup by `clip_a_id` finds.  `KeepTogether`: where `Trim` holds, the sound heard before a
  crossfade is as long as the translator's `accumulated` there.  `Pairing`: the delete's duration after k clips is
  `accumulated` after k - 1 crossfades.  One lemma per action (`AddsClip` to `Fails`) shows that it
  preserves `TransInv`.

  The lengths are recursive functions and the two orders are choices, so that each must first be
  shown to exist and to be what its definition says: by induction over the set of numbers for
  which it does (`UpTo`, from the well-foundedness of `<` on the naturals).  `PositionsOrder` and
  `TracksOrder` show both relations to be total orders, `RanksExist` that of n clips in order one
  has k - 1 before it, and `SortedFacts` that the list has every clip once; `ChainExists` and
  `ChainFacts` do it for sums along a list, once for `Accumulated`, `Heard` and `PlannedLength`
  (`AccumulatedFacts`, `HeardFacts`, `PlannedFacts`).

Assumed: the named ASSUMEs on the constants (`RenderAssumption`, `JobAssumption`,
`CallsAssumption`, `ProxyAssumption`, `TtsAssumption`, `BatchAssumption`, `EncodersAssumption`,
`WsAssumption`, `PreviewAssumption`, `EditingAssumption`, `TimelineAssumption`,
`RangeAssumption`, `PlanAssumption`, `TransitionAssumption`): ranges, which TLC evaluates in every run.  Nothing else.

Only model-checked: the liveness properties (fairness and ENABLED are out of the prover's
reach).  Every other property of a passing run is stated by a theorem.

## 5. Not modelled

The map covers a small part of the lines of the repository, because most of its code keeps
no state that steps of several actors could put at odds:

* Validation and schemas (`api/schemas/`, the checks in front of each route), effect
  definitions (`effects/definitions.py`), the construction of FFmpeg command lines
  (`render/worker.py` before line 1158, but for the crossfades in `Transitions`), delivery profiles, ducking, presets, QC measurements:
  sequential construction of data.  A model would repeat the code, and unit tests reach it.
* Of the Rust core: positions and frame rates as numbers, clip validation, filter builders,
  sanitising, layouts, effect chains, audio mix and progress: conversions and construction of
  strings with unit and property tests.  Seconds are whole ticks in `RenderPlan` and
  `Transitions`, so that errors of floating point are out of view.
* Transitions: their own parameters, tracks that are deleted or replaced, changes of the output's
  frame rate, the narration mix, more than one job, and the route that previews filters.
* Read-only routes, metrics, audit log, migrations, feature flags, the React GUI, scripts and
  their acceptance harness.
* Render: noop mode, progress, throttling, frame capture, temp files, checkpoints (nothing
  calls `write_checkpoint`), and an FFmpeg that outlives the server.
* Jobs: progress values and the retention of old entries.
* WebSocket: the identity store, and a set that is rebuilt by CPython without a change of size.
* Preview: the gauge and the cache.
* Proxies: sizes (a file counts one), more than one quality, the deletion of a video.
  Errors of SQLite other than a violated constraint are left out everywhere.
* Narration: creating cues, more than one cue, and the worker's check of cues before a render.
* Markers: points (no constraint ties them) and more than one project.

What would come next: the replacement of tracks and a transition's own parameters in
`Transitions`, with the theorem carried along.
