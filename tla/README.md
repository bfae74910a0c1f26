# TrafficFlow in TLA+

TLA+ models of the parts of this repository that run concurrently, fail in
several ways, or carry counts and files that several places must agree on; TLC
configurations that check them on small instances; and TLAPS proofs that every
safety property the runs check holds for every value of the constants.

Paths below are relative to the repository; `storage_worker.py`,
`routes_live.py` and `pipeline.py` are
`packages/tf_worker/storage/storage_worker.py`,
`packages/tf_api/api/routes_live.py` and `packages/tf_worker/pipeline.py`.

    tlc -workers 2 -config StorageSafety.cfg StorageWorker
    tlapm StorageWorkerProofs.tla

The runs, the properties of each, the correspondence of every definition with
the lines it models, and the hazards are listed in `PROJECT.json`.

## 1. The system

The program counts vehicles per lane from cameras or video files. A *reader*
delivers frames; `DetectionCore` runs YOLO with ByteTrack, gives each box a
lane, smooths the lanes of a track over time, computes occupancy and emits one
crossing per track and lane; a `StorageWorker` thread takes crossings and lane
changes through a bounded queue into the database and publishes them. The live
API keeps one such pipeline per camera in a registry; the offline path runs one
over a file and writes logs, a summary and a video.

    reader -> capture thread -> DetectionCore -> StorageWorker queue -> database
                 ^    |                                |
       reload, stop   +-> preview -> MJPEG viewers     +-> publish -> WebSockets
                 |
    registry (_streams) <- event loop, supervisor, toggles, viewers

    jobs API -> job thread -> offline run -> frames.jsonl -> ingest -> database
    camera, lane and zone routes -> YAML files -> start and hot reload of pipelines
    storage workers, seeder -> rows and buckets -> count, report, dashboard routes
    capture threads -> metrics and alerts; publishers -> circuit breaker -> Redis
    Redis or in-process bus -> WebSocket feed -> browsers

| Component | State | Operations | Hard behaviour | What makes it correct |
|---|---|---|---|---|
| Storage worker | queue, batch, session, dead letters, counters | enqueue, worker loop, stop | three threads; a batch failing half way; a full queue; retries | nothing lost silently, stored twice, or counted wrongly; stop ends it |
| Database session | open transaction | commit with retry, rollback | lock errors, rollback of pending rows | a retried commit commits what it was given |
| Live registry | `_streams`, metadata, toggles | ensure, cleanup, sweep, attach, leave, reload, toggles, supervisor | check-then-act around slow starts; stale viewers; clients that go before they are served | no leaked pipeline, no stopped one handed out, allowed cameras come back |
| Capture loop | reader, frame number, last result, reload flag | connect, read, skip, replay, infer, reload | reconnects, hot reload between frames, replayed results | each crossing stored once, no ghost in the occupancy |
| Detection core | box cache, track states, counted pairs | process_frame | voting windows, timeouts, cached boxes shared with callers | counts, occupancy and lanes agree |
| Capture signals | the camera's metrics, alerts, suppression | tell, emit, resolve, trim | old thread beside a new one, or one that lost the race of starters; exceptions; resolve against newer alerts | what is active is suppressed; shown as on means a thread runs |
| Readers, preview, viewers | capture handle, newest frame, preview, JPEG queue, snapshot, count of viewers | read, reopen, refresh, release, encode, serve, stall | four threads over two queues of one; nothing published without a counted viewer | order kept, newest arrives, no handle lost |
| Camera configuration | camera, lane, zone and model files | save, reload, delete, presets | files written in two steps and read by other threads | what is saved is served, what is deleted is stopped |
| Offline run | two queues, two writer threads | frame loop, skip, finally clause | slow or dying writers, full queues, exceptions in the midst of a frame | returns, and with everything written or reported dropped; counts agree |
| Camera worker process | a thread per camera, stop event | run, retry, signal, exit | a signal between or during runs | the process exits; each run's files are whole |
| Jobs API | job table, rows, active slots, threads | submit, run, ingest, complete, fail | completion in two places, restart, cap, jobs without end | one final status that matches what was ingested; no slot lost |
| Circuit breaker, publishers | state, failure count, probes | call, publish | callers without a lock | trips on failures, closes when Redis is back |
| Event bus, WebSocket feed | connections, counts, listeners, queues | enter, leave, listen, broadcast, ping | awaits between check and count; a loop that does one thing in a turn | limits, one listener, nobody left behind |
| Counts, reports, dashboard | rows, hourly buckets | store, seed, summary, series, totals | several queries per answer, midnight, limits, rows of deleted cameras | every breakdown adds up to the same crossings |
| Auth, settings, model registry, frontend, deployment | files, rows, tokens | requests | little, or not this program | section 7 |

`PROJECT.json` lists every component with its sources and status, and the
hazards at their lines.

## 2. Modules

| Module | Models | Uses |
|---|---|---|
| `EventLedger` | what a storage worker promises, without threads or batches | |
| `StorageWorker` | `storage_worker.py`, with `commit_with_retry` of `tf_db/session.py` | refines `EventLedger` |
| `LivePipelines` (`MCLivePipelines`) | the registry, supervisor, toggles and viewers of `routes_live.py` | |
| `DetectionCore` | `packages/tf_core`: adapter cadence and cache, lanes, voting, expiry, occupancy, crossings | |
| `LiveCapture` | `_capture_loop` of `routes_live.py` | extends `DetectionCore` |
| `OfflineRun` | `TrafficFlowPipeline.run` of `pipeline.py`, with its two writer threads | extends `DetectionCore` |
| `CameraWorker` | `worker.py`: the process around repeated runs of a camera | extends `OfflineRun` |
| `Jobs` | `routes_jobs.py`: admission, the job's thread, ingest, status in memory and in the database | |
| `CaptureSignals` | what capture threads tell `live_metrics.py` and `alert_service.py` | |
| `CircuitBreaker` | `circuit_breaker.py`, step by step | |
| `Publishers` | the publishers of `pubsub.py` over one breaker and one Redis | extends `CircuitBreaker` |
| `LiveFeed` (`MCLiveFeed`) | `routes_ws.py` and `live_bus.py` | |
| `FramePath` | readers of `video_io.py`, preview, encoder and MJPEG generators of `routes_live.py` | |
| `CameraConfig` | camera, lane and zone routes, presets, model reload, hot reload: the files | |
| `Reports` (`MCReports`) | the queries of `repositories.py`, `routes_counts.py`, `routes_reports.py`, `routes_dashboard.py`, and what writes the rows | |
| `StorageWorkerProofs`, `LivePipelinesProofs`, `CaptureSignalsProofs`, `FramePathProofs`, `CameraConfigProofs` | theorems about the module of the same name | extend it |
| `CountingProofs` | theorems about the core and its two callers | extends `LiveCapture`, `CameraWorker` |
| `PubSubProofs` | theorems about the publishers' breaker and the feed they publish to | extends `Publishers`, `LiveFeed` |
| `DatabaseProofs` | theorems about the two modules of the API whose state is in the database, and about sums over finite sets | extends `Jobs`, `Reports` |

In each module an operator placed before another, with a name derived from it
(`RefuseNoLetter` before `Refuse`, `WithinHour` before `Within`), is a
deliberately wrong variant of it. No specification uses these; `PROJECT.json`
pairs each property with the variant that breaks it.

### StorageWorker

`queue`, `batch`, `deadLetter`, `dropped`, `processed` and `errors` are the
attributes of the object; `session`, `rollups`, `durable` and `rolled` are rows
and bucket upserts in the open transaction and after commit; `wpc` is the place
in `_worker_loop`. `enqueue` takes two steps, because `qsize()` is read before
the put: `ReadDepth` and `PutCrossing`. `enqueue_lane_change` is one step: it
has no depth check. The worker's steps are cut at every queue operation and
around commit and publish, which is where another thread can see a difference.

Every outcome of a call that the code tells apart is a separate action: the
adapter factory raises (`AdapterFails`), the path of a single crossing rejects
it (`RejectSingle`: dead-lettered, then counted as processed), an insert raises
(`InsertFails`), a commit raises (`CommitFails`) or meets a locked database
(`CommitLocked`: the rollback takes the pending rows out of the session, and
the commit that follows has nothing to write), a publish raises an error that
is not caught (`PublishRaises`). `SkipDatabase` is the worker without an
adapter, as offline jobs make it. `db_write_lock` is held from insert to commit
and is invisible here, because one worker has one session.

The ledger says: accepted events wait in order; the head of the line is stored,
several at once or none, or given up; nothing overtakes, comes back or is stored
twice. `ImplementsLedger` maps `held` to the batch followed by the queue (the
batch counts as gone once it is committed) and `stored` to the committed rows.

### LivePipelines

`reg` is `_streams`; a *generation* is one pipeline (its core, threads, metadata
and stop event), and names of generations are reused once nothing refers to
them, so that a run with four names covers executions with any number of
pipelines. `ensure_live_pipeline` is three sections: under the lock
(`EnsureReuse`, `EnsureRefuse`), the slow start outside it (`EnsureStarts`,
`EnsureFails`) and the registration under the lock (`Register`). Four kinds of
agent call it: the event loop for a viewer's request, the supervisor in its
first pass (`start_all_live_pipelines`) and in later ones, and operators'
toggles in the thread pool.
`async` handlers that do not await run on one agent `Loop`, one after another,
but interleave with the threads. `Attach` is the request handler, which counts
the viewer. `Leave` is the generator's finally clause, which looks its camera up
again and may find another generation; it runs only if the generator was begun.
`Vanish` is a client that goes before that, and `lost` remembers how often it
happened to a pipeline. Idle time is a flag that becomes true at any moment
where a sweep would read it.

### DetectionCore, LiveCapture, OfflineRun

A box is the cell of its bottom centre; lanes are the first `NLanes` cells of
the region the core sees; mapping a box to the whole frame moves it by `Offset`
and clamps it. This is enough to tell lanes apart and to see a box that has
been moved. Lanes do not overlap. `tracks`, `counted`, `tally` and `cache` are
`track_states`, `_counted`, `counts` and `_cached_tracks`. `ProcessFrame` is
`process_frame` as a whole. What the model finds in a frame is any set of known
track ids in any cells.

`LiveCapture` adds the reading loop around it: connect with bounded retries,
read failures, the reload flag, the idle skip, the motion gate, and the enqueue
of crossings. `cores`, `unseen`, `connections`, and `detected` of the core are
history variables: they record what the properties speak of and are read by no
guard but the bounds.

`OfflineRun` adds the frame loop of a finite source and the two sinks; its
specification is `RunSpec`, and `runVars`, `RunInit` and `RunNext` are named
apart from those of `LiveCapture` because one module of proofs extends both.
`index` is `frame_idx`; `logs` says whether there is a log (`save_jsonl`,
`save_csv`) beside the video. A frame may raise wherever something outside the
loop is called (`FrameRaises`): before the core has counted it, between two
crossings given on (`publish_event`), between two rows of lane changes, or while
it is drawn, when it is already in the log. `broken` is that frame, and `cut`
its crossings that were counted and not given on. The main thread's finally
clause, which follows the end of the source and every exception, is the steps
`put`, `join` and `close`. The crop of the
region maps results back *in place* here, which moves the cached boxes.

### CameraWorker

The process around `OfflineRun`: `thread` is the thread of one camera, whose
`RunCamera` builds a new pipeline (a new core, new sinks, new CSV files;
`frames.jsonl` is appended to, so `disk` holds this run's part) and takes the
steps of `OfflineRun` until it is done. `live` is the kind of its source: a live
one has its log turned off (`LiveIsUnlogged`) and is run again, a file is not.
`Signalled` is SIGTERM or SIGINT, which
the loop looks at before and after a run and in the wait, never during a run.
`Exits` is the end of the process, for which the interpreter waits for the
camera's thread: the thirty seconds of `main`'s join change what is logged and
nothing else.

### Jobs

`pc[j]` is where the request, and then the thread, of a job is; `jobs` and
`active` are `_JOBS` and `_active_jobs`; `row` is the status in
`inference_jobs`. `submit_video` never awaits, so at most one job is between
`Admit` and `Launch`. The thread goes through the pipeline, `_auto_ingest`
(inserts in one transaction, two commits), `Tell` and `Save`, or `Fail` and
`Mark`, and `End` is the finally clause. `endless` are the jobs whose pipeline
need not end: `submit_video` takes any camera, a live one included (`Launch`),
and a run whose writer has died waits for ever (`Hangs`). A log is a bit (did a
vehicle cross a line?) and a number of lane changes, because that is what the
ingest branches on. `Restart` ends the process at any point: memory and open
transactions go, rows stay. `mishaps` remembers what the properties must except.

### CaptureSignals

`told` is what `live_metrics` shows of one camera and who said so; `alerts` and
`active` are the history and the suppression map of the alert service, with the
place of each active alert, or 0 once the history has forgotten it. Pipelines of
the camera come one after another as generations. `ensure_live_pipeline` is
`Admit` (not registered, and the lock is given up), `Start` (the capture thread
runs) or `StartFails`, and `Register`, which finds the camera taken if another
starter was first: then the stop event is set and nothing else is done. `Pop`
sets the stop event of a registered one, `Stopped` is the end of the joins,
which may come while the old thread still runs. `late` are the threads nobody
waited for. The capture thread is cut where it speaks; connecting, reading and
inferring are choices, and `Escape` is an exception of theirs that nothing
catches.

### CircuitBreaker, Publishers

The breaker has no lock. An action ends where the code calls something else (the
clock, the logger, the guarded function), which is where a thread can lose the
interpreter; a block between two calls is one step. `Publishers`
(`PublishersSpec`, `FairPublishers`) composes
callers of two kinds: capture threads, whose publish of a crossing is outside
any `try` and ends the thread if it raises, and storage workers, which survive.
Redis goes down and comes back at any time.

### LiveFeed

`pc` is where each client's handler is. The handlers are coroutines of one loop,
so an action runs from one suspending await to the next; `_state_lock` with its
fair queue is `lock` and `queue`. `conns`, `count` and `alices` are the
registry, the global count and the count of the one user with two clients;
`entry`, `tasks` and `cancelled` are the listener of the channel. One client is
followed through its loop: `beat` is its heartbeat, with what it has said and
nobody has read (`inbox`) and what took turns of the loop since the last pong
was read (`taken`), `bus` its bounded queue, filled from threads. A turn serves
an event, reads one message (`ReadPong`, `ReadOther`), closes or pings.

### FramePath

A frame is a number, given by the camera. The capture thread and the refresh
thread of the reader share `capture` (the handle) and `latest` (a queue of one,
0 for a signalled loss); `con` is the pipeline's thread, `enc` the encoder,
`jpegs` the queue of one that all viewers of a pipeline share. `RefDrain`,
`RefOpen` and `RefInstall` are `_swap_capture`, which notes the handle it will
release before it opens the new one. `conns` is the count of viewers in the
pipeline's metadata, which decides whether a frame is published (`Publish`) or
not (`Unwatched`); `watching` are those really there, and `Vanish` and
`StaleLeave` are the two ways in which they differ. `snap` is the camera's last
snapshot, which a generator without a JPEG shows once a second (`Stall`);
`served` is the last JPEG, `shown` the last image of either kind.

### CameraConfig

`camera` is what the camera's YAML holds, including what a reader sees between
truncation and write; `lanes` stands for the lane file and the zone file, which
are handled alike. Handlers of the event loop run to their end one by one, and
`Metrics`, the thread that lists the cameras every five seconds (and so writes
presets and support files), runs beside them, as does each starter of a
pipeline. `stream` is the running pipeline: the lanes its core has, the reload
flag, where its capture thread is in a hot reload, or that the thread is over
while the pipeline stays registered (`GiveUp`). `blocked` says that the file of
a preset listed before this one is no YAML, at which the listing raises.

### Reports

The specification is `ReportsSpec` (and `ReportsInit`, `ReportsNext`,
`reportVars`), named apart from that of `Jobs` because one module of proofs
extends both. `rows` and `buckets` are bags, as two crossings may be alike; what
SQL and Python sum, `SumOver` sums. Time passes in slots; a storage worker
stores a crossing up to `MaxLag` slots late, with its bucket (`Store`) or, if
the upsert raised, without (`StoreStale`); the seeder adds rows of the demo job.
The answers are operators of the code's queries, windows included, and where SQL
leaves a choice (which rows of an hour survive a limit) the answer is a set. A
summary is four queries with commits between them, and therefore actions; the
other answers are one query each and are compared in every state. `Cameras` are
all that rows may be stored of; the dashboard's figures are compared for every
subset of them as the cameras that have a file, since deleting a camera keeps
its rows, and for every state of the pipelines.

## 3. Runs

| Run | Configuration | What it shows |
|---|---|---|
| `storage_safety` | `StorageSafety.cfg` | no silent loss; counters add up in every state; published after stored; aggregates with their rows; the ledger is implemented; stop ends a worker of crossings; what is queued is settled |
| `live_safety` | `LiveSafety.cfg` | no orphan pipeline; registered pipelines are not stopped; the cap is exceeded by at most the agents that passed the check; connection counts exceed the viewers by nobody but clients that went too early |
| `live_supervisor` | `LiveSupervisor.cfg` | an allowed camera with room is registered again and again |
| `live_capture` | `LiveCapture.cfg` | a crossing is counted once and enqueued once per core; ghosts expire; replayed boxes are the detected ones |
| `capture_signals` | `CaptureSignals.cfg` | active alerts are the suppressed ones; a thread that delivers has no alert of its own left; a camera shown as on has a thread, or one of the named reasons |
| `frame_path` | `FramePath.cfg` | JPEGs are taken in order and none twice, and only a stall sets the image back; the newest arrives; no capture handle is lost |
| `camera_config` | `CameraConfig.cfg` | saved lanes are served; a deleted camera is stopped; presets come back |
| `camera_worker` | `CameraWorker.cfg` | with the sinks of every run: records in order, everything written or reported; counts agree in summary, storage and log, after an exception up to the frame that raised; the signalled process exits |
| `jobs` | `Jobs.cfg` | a log is imported whole or not at all, and as reported; slots are those of living requests and threads, and both answers of the statistics agree; jobs whose pipeline ends settle |
| `publishers` | `Publishers.cfg` | the breaker trips on failures alone and closes when Redis is back |
| `live_feed` | `LiveFeed.cfg` | limits and counts; one listener per channel; connected clients are reached and the bus keeps the newest; a client is closed for silence only if it was asked or turns were taken |
| `reports` | `Reports.cfg` | hours, series, totals and summaries count the same rows, up to those of deleted cameras; a summary lies between what was stored when it began and when it ended |

Many of these properties have named exceptions. Each is a case in which the code
does otherwise, found because TLC refuted the property without it; section 3.1
lists them, so that the exceptions can be read as statements about the code.

Further configurations are kept beside the runs. The first group states what a
comment, a docstring or the name of a function promises, and TLC shows the code
doing something else; the second checks the inductive invariants of the proofs,
which are stated in the module they are about, before they were proved.

| Configuration (module) | Shows |
|---|---|
| `StorageStopFull` (`StorageWorker`) | the sentinel of `stop()` is lost on a full queue, the worker never ends |
| `StorageRetry` (`StorageWorker`) | a commit retry commits nothing, and the rows are nowhere |
| `LiveLostViewer` (`MCLivePipelines`) | a client that goes before its generator began stays counted, so that the sweep takes its pipeline for watched |
| `LiveDeadCapture` (`LivePipelines`) | the supervisor does not replace a pipeline whose capture thread has ended |
| `CaptureReplay` (`LiveCapture`) | a still scene of a file source stores the last crossings once per frame |
| `CaptureReconnect` (`LiveCapture`) | frame numbers restart at a reconnect: departed vehicles stay in the occupancy |
| `OfflineBoxes` (`OfflineRun`) | boxes moved in place are the next frame's starting point |
| `OfflineVideoDies` (`OfflineRun`) | the run waits for ever on the queue of a dead video thread |
| `FrameStall` (`FramePath`) | a generator that stalls shows a snapshot older than what it served |
| `PublishersOutage` (`Publishers`) | the breaker stays half open for ever after a late success under the open state |
| `JobsCompletes` (`Jobs`) | a job with a crossing in its log fails though nothing went wrong |
| `StorageInvariants` (`StorageWorker`) | holds: types, what the worker holds at each place, each event in one place, single items, each event stored once; crossings within the critical depth, `stop()` reaches the worker |
| `LiveInvariants` (`MCLivePipelines`) | holds: types, the holders of pipelines, the counts of connections |
| `LiveCaptureVotes` (`LiveCapture`) | holds: types, retries, crossings handed over, ages of tracks; consecutive votes win; occupants seen are counted |
| `SignalInvariants` (`CaptureSignals`) | holds: types, history and suppression keys, a thread's own alerts, who said that the camera is on |
| `FrameInvariants` (`FramePath`) | holds, with two viewers, three handles and a client that goes too early: types, the holders of handles, the order of frames, the newest frame on its way, the count of viewers |
| `ConfigInvariants` (`CameraConfig`) | holds: types, writers, the stop of a delete, the lanes a reload has read |
| `FeedInvariants` (`MCLiveFeed`) | holds, with one message unread and a second client that may fail: types, the lock's queue, the clients that waited, names of listener tasks, the heartbeat |
| `ReportsInvariants` (`MCReports`) | holds: types, buckets have the number of their rows, what a summary has been told against what is stored |
| `OfflineRun` (`OfflineRun`) | holds: a single run, its types, the order and the cover of its records, the places of the stop item, the agreement of records and counts, and the run ends |

The type invariant of each module was checked with the constants of its run, as
were the invariants of `Jobs` (`ImportInv`, `SlotsInv`, `RowsInv`, `DoneIsSettled`)
and of `Publishers` (`BackedByFailures`, `HalfOpenIsProbed`).

### 3.1 Where the code does otherwise

* *Storage, registry, capture, offline run*: the eight configurations above. A
  publish that raises ends the run with a summary ahead of log and storage
  (`cut`).
* *Jobs*: timestamps in `frames.jsonl` are numbers, `_auto_ingest` takes them
  for datetimes, so every log with a crossing fails (`JobsCompletes`). An error
  that no clause catches between taking the slot and starting the thread keeps
  the slot until a restart (`leaked`). A row that says running at a restart is
  never corrected (`orphaned`). A lock on the first commit completes a job with
  no rows (`locked`). A job over a live camera has no end and keeps its slot
  (`endless`).
* *Circuit breaker*: a late success while the breaker is open clears the failure
  count; the next failed probe stays below the threshold, and the half-open
  state with its probes used up rejects every call (`raced`).
* *Capture signals*: the alert that a camera is offline is not resolved by a
  replacement that connects at its first attempt, because the mark that resolves
  it was in the old pipeline's metadata. An error of a bare publish, of a resize
  or of the detection ends the thread while the status stays active (`escaped`).
  The pipeline that lost the race of starters is stopped, but nobody waits for
  its thread, which may show the camera as on after the other was stopped
  (`late`). A viewer's last frame may show a stopped camera as on.
* *Feed*: a client that disconnects before the welcome is sent stays counted
  (`leaked`). The limit per user is looked at before the lock (`waited`). A
  client kept busy by events is neither asked nor listened to, and may be closed
  at the first quiet moment; so may one that sends messages which are no pong,
  since each takes the place of a ping and is no sign of life (`taken`). A
  message that is JSON but no object ends the handler. A client that names no
  camera has no listener when Redis is used. The two heartbeat settings are not
  compared: with a timeout of one interval, a client is closed before it is ever
  asked.
* *Frame path*: a handle put in place during a swap, or after the three seconds
  `release()` waits, is referred to by nobody (`mislaid`). A generator that
  stalls sets the viewer back to the snapshot (`FrameStall`). A generator of an
  earlier pipeline that ends late is taken off the count of the present one
  (`stale`), which then publishes nothing to a viewer who is alone.
* *Camera files*: a save made while a pipeline starts finds no stream to reload
  (`late`), a failed hot reload is not repeated (`failed`), and the listing may
  put an empty lane list over one just saved (`filled`). A pipeline may be
  started while `delete_camera` waits for the old one (`crossed`). A preset
  returns with the next listing, and a listing that meets the file between
  truncation and write may overwrite the model just asked for. One preset whose
  file is no YAML keeps those after it from coming back (`blocked`).
* *Camera worker*: the signal does not interrupt a run; `frames.jsonl` is
  appended to over runs whose CSV files are begun anew; crossings queued for the
  run's storage worker are lost at exit, as nobody stops the pipeline.
* *Reports*: the first hour of a past day also has the first hour of the next,
  because the window's end is inclusive; the limit counts bucket rows, not
  hours, and cuts days with many lanes; hours computed from rows carry the wrong
  date across midnight; a window without an end is cut to the last day; a fleet
  total with any live camera leaves stored counts out, while the rows mix both;
  the hours of the fleet include deleted cameras and its total does not; a lane
  may be listed by its directions with crossings the total does not have.

## 4. Bounds

* Storage: two crossings and a lane change, `QMax = 2`, `QCrit = 1`,
  `BatchMax = 2`, `DeadMax = 2`. Queue, batch and dead-letter list all reach
  their limits, the single and the batch path are both taken, and the drain can
  meet events of every kind. More events repeat these cases in more orders.
* Registry: two cameras, a cap of one, three callers of `ensure` (`Loop`,
  `Sup`, one operator) and one viewer. Three starters at once reach the
  overshoot of the cap; four names are enough for all of them plus one
  registered. One viewer can outlive its generation and rejoin. `MaxLost` bounds
  the clients of one pipeline that go before their generator began: one, and
  none where the supervisor's progress is asked for. The two cameras are
  interchangeable (`Symmetry`) in the runs without liveness. The liveness
  runs use two names, and `LiveDeadCapture` one camera. There starters wait
  for a free name. A second operator would add a second toggle at the same
  time: the sections it races with are those of the supervisor.
* Capture: one track, two lanes and a cell outside them, `Window = 4`,
  `Consecutive = 2`, timeouts of one frame, three frames per connection, two
  connections (`MaxConnections`), two cores (`MaxCores`), one failed opening and
  one failed read before the limits. A second track shares no state with the
  first except the tally. `EnqueueMax` caps a counter above all that the
  properties compare it with. `MaxFrame` bounds the frames of a connection.
* Offline: one track, four frames, queues of two, so that a queue fills while
  its thread holds a record. The violations use queues of one where that is
  shorter. The worker: three frames a run, two runs of a live source
  (`MaxRuns`), so that a stop can fall into the first run, the wait and the
  second.
* Cadences 1 and 2 are those that `recommended_detect_every_n` returns by
  default; `phase` therefore counts modulo 2.
* Jobs: two jobs and a cap of one or two that an operator may change at any time;
  two lane changes in a log, so that an import can stop half way. Jobs share
  only the slots.
* Signals: two generations of a camera (an old thread beside a new one), one
  reconnect before giving up, a history of two alerts for three keys, so that it
  forgets active ones.
* Publishers: two capture threads and one other caller, two failures to trip, one
  probe. The race needs two callers; the third can be a late success.
* Feed: five clients, two of them of one user with a limit of one, one that names
  no camera, and a server limit of two, so that clients wait for the lock, are
  turned away and leave while others enter. The followed client may lose
  its connection, and two use the bus. `MaxEvents = 3` overflows a queue of two.
  `MaxUnread = 2` messages may wait for the loop, so that a pong can stand behind
  another message. The invariants were checked with a
  second client that may fail and one message.
  Clients of one user other than the followed one are interchangeable.
* Frame path: two frames, two handles (the first and a reopened or refreshed
  one), one viewer and the late end of a generator of an earlier pipeline; with
  several viewers they take from the same queue and the properties speak of all
  together. The invariants were checked with three handles, two viewers and a
  client that goes too early. `MaxFrames` and `MaxHandles` bound what the camera
  delivers and opens, `MaxLost` those clients.
* Camera files: one starter beside the event loop and the metrics thread, two
  saves (`MaxSaves`), so that a save can cross the hot reload of an earlier one.
* Reports: two slots an hour, two hours a day and five slots, which is a day and
  the first hour of the next; three rows over two lanes of one camera and one of
  another; a limit of two bucket rows, so that it cuts. `MaxRows`, `LastSlot`
  and `MaxLag` bound rows, time and the delay of a crossing.

## 5. Fairness

* `StorageWorker`: weak fairness of the worker thread, and of the put that
  follows a depth check in the same call. The producer may stop and `stop()`
  may never be called.
* `LivePipelines`: weak fairness of the supervisor thread and of registration by
  whoever holds a started pipeline (the next statement of the same function);
  strong fairness of a successful start by the supervisor. The last says that
  starting a pipeline does not fail for ever, which the property needs and no
  code can give: an unreachable configuration is never restarted. Viewers,
  operators and sources are not fair.
* `OfflineRun`: weak fairness of the main thread and of each sink's thread, for
  a write that returns or raises.
* `CameraWorker`: the same for every run, weak fairness of the camera's thread,
  and of the exit, which nothing can hold up once the thread is over. The signal
  need not come.
* `Jobs`: weak fairness of each job's thread while its pipeline is not one of
  the `endless`, and of the start of the thread by the request that has recorded
  the job. Nothing makes the pipeline of a live camera, or one behind a dead
  writer, come to an end.
* `Publishers`: weak fairness of every step of a started call, of time, and of
  the next publish of a capture thread that lives, which repeats its occupancy
  every second. That Redis stays up is an assumption of the property.
* `FramePath`: weak fairness of the capture thread, of reading by the pipeline's
  thread and of its publishing or passing over what it has read, of the encoder,
  and of taking the JPEG by a viewer that watches. The refresh thread, the stop
  and the leaving of viewers are not fair.
* `CameraConfig`: weak fairness of the metrics thread's listing, which a loop
  repeats every five seconds.

## 6. Proofs

Each theorem is about the specification of its module, for every value of the
constants that satisfies the module's assumptions: what the code has as a
setting or a set of names (limits, timeouts, cadences, cameras, clients, jobs,
tracks) is arbitrary. The assumptions, next to the constants they are about:

* distinct roles: the two kinds of event are disjoint and neither is the
  sentinel or the idle value (`EventsAssumption`); event loop, supervisor,
  operators and the metrics thread are different agents (`ActorsAssumption`,
  `ConfigAssumption`); unknown lane, no lane and lanes differ (in
  `CoreAssumption`); the two sinks of a run differ and the end of a queue is no
  record (`RunAssumption`, `StopAssumption`);
* limits are positive, as their defaults are and as the code that reads them
  needs (`BoundsAssumption`, `LimitsAssumption`, `CapsAssumption`,
  `ThresholdAssumption`, `LimitAssumption`, `CoreAssumption`, `RunAssumption`),
  and bounds of the exploration are numbers (`CaptureAssumption`, `FrameBounds`,
  `MaxChangesAssumption`, `WorkerAssumption`);
* where a theorem counts, what it counts is finite (`FiniteAssumption`,
  `JobsAssumption`, `TracksAssumption`, `ClientsAssumption`,
  `GensAssumption`); for the reports the lanes, with an hour, a day and a row
  limit of positive length (`ReportsAssumption`).

A property is seldom inductive. Its invariant stands in the model's module as a
named operator, was checked by TLC with the configuration section 3 names, and
is proved by one lemma per conjunct (`...Step`) with one step per action or per
kind of action; the theorem then combines initial states and steps. Lemmas about
operators (sequences without duplicates, an alert history that forgets, votes in
a window, a set of finitely many pairs) are stated once and cited.

### StorageWorkerProofs

| Theorem | Says |
|---|---|
| `TypeCorrect` | queue and dead letters within their limits |
| `BatchInHand` | `HandInv` |
| `AggregatesFollowRows` | `RollupsMatchRows` |
| `SubscribersSeeStoredRows` | `PublishedAfterStored` |
| `BackpressureLosesNothing` | `NoSilentLoss` |
| `EachInOnePlace`, `TakenAlone` | `PlaceInv`, `OneTaken` |
| `EachStoredOnce` | `StoredOnce` |
| `NothingCountedTwice` | `CountersAddUp` |
| `WorkerKeepsLedger` | `ImplementsLedger` |
| `StopIsDelivered` | `StopReachesWorker`, the safety half of `StopEndsCrossingWorker`, from `CrossingsWithinDepth` |

What is published is durable because of what was inserted two steps before.
`HandInv` therefore says what the worker holds at each place of its loop:
nothing between batches (`EmptyHanded`); a settled adapter before anything is
collected (`AdapterSettled`); in the open transaction nothing outside `commit`,
and there the whole batch or, after a retry, nothing, with the batch among the
expunged rows (`SessionHoldsBatch`); a batch being published is durable or
expunged (`PublishingStored`). Rows are only added (`DurableGrows`), counts are
committed only with the session's rows (`RolledOnlyByCommit`), and each action
that takes an event out of queue, batch or producer puts it into one of the
others, the store or the dead-letter list, unless it enables one of the named
exceptions (`LossStep`).

`PlaceInv` adds that every event is in one place and there once, and the
sentinel queued once at most. The counters then balance: `QueuedCount` turns a
queue without duplicates into a number, and each action moves one unit from one
side of the equation to the other (`CountStep`).

The refinement maps `held` to the batch (or nothing, once it is committed)
followed by the queue without the sentinel. `WithoutSentinel` is written as a
function on indices, because SequencesExt's `RemoveAll` is a fold, whose every
fact would need an induction of its own; the two are the same for a queue that
holds the sentinel once at most, which `PlaceInv` says. `LedgerStep` maps a put
to `Accept`, a commit to `Store` of the whole batch, a failed or rejected one to
`GiveUp`, and everything else to a stutter.

Why `stop()` ends the worker of a camera without lane changes: the depth check
counts what is queued, the sentinel included, before the producer takes a
crossing in hand, so that crossings queued and in hand stay within the critical
depth (`DepthStep`), and with a longer queue (1024 and 2048 by default) the
sentinel fits both when `stop()` puts it and when a collecting worker puts it
back (`SentinelFits`). From `stop()` on it is queued, in that worker's hand, or
met (`StopStep`). A lane change is put without the check, hence the hypothesis,
and `StorageStopFull` shows what happens without it.

### LivePipelinesProofs

| Theorem | Says |
|---|---|
| `OneHolder` | `Shapes /\ HolderInv` |
| `PipelinesDoNotLeak`, `RegistryIsSound` | `NoOrphanPipeline`, `RegisteredIsRunning` |
| `CapIsNearlyKept` | `CapOvershootBounded` |
| `CountsAreWatched`, `ConnectionsAreReal` | `CountsInv`, `ConnectionsAreWatched` |
| `PipelineTypes` | `TypeOK` |

A pipeline that runs is registered under one camera, or in the hands of the one
agent that started it and is about to register it: that is `HolderInv`, and it
survives because names are reused only when nothing refers to them and because
whoever pops a pipeline from the registry sets its stop event in the same
section. The twenty-odd actions are sorted into kinds (`StepKinds`): somebody
moves without touching the registry, a pipeline starts, is registered, is
cleaned up, or a viewer comes, goes, or is lost. The cap: everybody who has
passed the check counts as one over it, and there are as many of those as
agents. The connections: a generator's `finally` clause looks its camera up
again, so that it may discount a pipeline it was not counted on; `CountsInv`
holds because a camera's registered pipeline changes only through a stop that
clears the count (`StoppedIsUncounted`), and the clients whose generator never
began are counted on the other side as well.

### CountingProofs

| Theorem | Says |
|---|---|
| `CountsAreTracks` | `CountedOnce`, with the types of core and loop |
| `HandedOverOnce` | `EnqueuedOncePerCore` |
| `GhostsAreForgotten` | `GhostsExpire` |
| `BoxesAsDetected` | `ReplayedAsDetected` |
| `OccupantsAreCounted`, `LastVotesWin` | `SeenOccupantsCounted`, `RecentVotesWin` |
| `CaptureTypes` | `TypeOK` |
| `RunIsSound`, `WorkerRunsAreSound` | `RunInv`, of one run and of every run of a worker |
| `WrittenOrReported` | `ReturnsWhenWritten` |
| `CountsAreTheSame` | `CountsAgree` |
| `WorkerTypes` | `WorkerTypeOK` |

`CoreStep` is the one long lemma: a processed frame keeps the types, counts each
new pair of track and lane once and adds exactly those to the tally. `SightInv`
relates two clocks: the age of a track by frame numbers, which the timeout
looks at, is never below its age by processed frames, because skipped frames only
add to the first. `LastVotesDecide` is the voting rule: a history that ends with
enough equal votes gives that lane, whatever the majority of the window.

The offline run uses the same `CoreStep` and adds an account of its records.
Those of a sink are what it has written, what its thread has in hand and what is
queued (`Records`). They are in the order of the source (`LineInv`), and with
the dropped frames they are exactly the frames read (`CoverInv`): a frame given
adds one to the end, and each of taking, writing and dying moves one or none
without disturbing that (the `Line...` lemmas, `GivenRecords`, `OtherRecords`).
`ClosingInv` says where the stop item may be: nowhere before the finally clause
has put it, the last of its queue, and gone once the thread has ended, which has
then nothing in hand or queued. When `run()` returns, both sinks are over; of
one that did not die all records are therefore on disk, which is
`ReturnsWhenWritten`. `AgreeInv` says that the storage worker's crossings are
those the core has counted, each given once, that no two records share one, and
that changes have rows; with `CountedOnce` of the core and a bijection between
the crossings of a lane and their tracks (`TracksAreCrossings`) this is
`CountsAgree`. An exception leaves both sides in step but for `cut`, the crossings
counted and not given on, which are those of the frame that raised and of no
record. All of it is reset by the new pipeline of the next run
(`WorkerStep`), so that neither the number of runs nor the moment of the signal
matters. Three assumptions are used: the two sinks differ and a queue holds at
least one item (`RunAssumption`); the `None` that ends a queue is not a frame
(`StopAssumption`); a worker runs at least once (`WorkerAssumption`).

### CaptureSignalsProofs, FramePathProofs, CameraConfigProofs

| Theorem | Says |
|---|---|
| `PointersAgree`, `SuppressedIsActive` | `PointersInv`, `ActiveAreSuppressed` |
| `DeliveringHasCleared` | `DeliveringClearsAlerts`, from `OwnAlertsInv` |
| `ShownIsRunning` | `ShownOnIsRunning`, from `ShownInv` |
| `NoHandleIsLost` | `HandlesAreHeld`, from `HandlesInv` |
| `PathInOrder`, `NoneServedTwice` | `InOrder`, `ServedInOrder` |
| `ViewersAreCounted` | `WatchersAreCounted` |
| `NewestIsKept` | `NewestIsOnItsWay`, the safety half of `NewestIsServed` |
| `DeletedStaysStopped` | `DeletedIsStopped`, from `StoppedInv` |
| `SavedAreServed` | `SavedIsServed`, from `ServedInv` |
| `SignalTypes`, `PathTypes`, `ConfigTypes` | the types, with what the writers hold |

*Signals.* `emit`, `resolve_by_key` and `resolve` either add an alert, with or
without the oldest forgotten, or settle one and remove its key (`Added`,
`Settled`); every suppression key points to its own unresolved alert through
the shift of a trim. A thread's unresolved alert is marked in its metadata, or
about to be cleared, or its last word. The thread that said last that the
camera is on has been started and not given up, and once it is stopped or over
it is being cleaned up or among those nobody waited for (`ShownInv`): the loser
of a race of starters is put there in the step that stops it.

*Frame path.* Each open handle is held by one thread or is the current one, but
for the two races recorded in `mislaid`. From camera to viewer, each of reader,
pipeline, preview, encoder and queue holds a frame newer than the next has
passed on (`InOrder`); hence no generator takes a JPEG twice or an older one. What
a stalled generator shows is the snapshot, of which nothing is claimed but that
only a stall sets the image back.
By the same order the newest frame read is never replaced by another: it is in
one of those places, or served, drained or not encoded (`WayStep`). It is passed
over without a counted viewer; and no viewer is uncounted, because a viewer
adds itself before it watches and takes off what it added, until a generator of
an earlier pipeline takes itself off (`ViewersAreCounted`).

*Camera files.* From the stop of its pipeline on, and not only from the removal
of its files, a deleted camera has none but one whose start crossed the delete.
A thread that is over runs on nothing. What a hot reload has read is what the
file holds, or the flag was set again by a later save, or the record says why
not.

### DatabaseProofs

| Theorem | Says |
|---|---|
| `ImportedAsReported` | `StoredAsReported`, from `ImportInv` |
| `SlotsAddUp` | `SlotsAreUsed`, from `SlotsInv` and `RowsInv` |
| `DoneJobsAreSettled` | `DoneIsSettled`, the safety half of `LaunchedJobSettles` |
| `BucketsAreTheirRows` | `BucketsInv` |
| `HoursCountRows` | `HourlyCountsRows`, from `BucketsInv` |
| `FleetTotalsAgree` | `FleetAddsUp`, from `BucketsInv` |
| `SummariesGrow` | `SummaryOnlyGrows`, from `RequestInv` |
| `JobTypes`, `ReportsTypes` | the types |

*Jobs.* At each place of a job's thread, what is pending and stored is the whole
log or nothing (`Imported`), unless a lock rolled it back. The slots are the
disjoint union of requests in hand, living threads and escaped requests
(`SlotsInv`); a row that says running is watched by one of these or orphaned
(`RowsInv`), from which the two numbers of the statistics are compared as
cardinalities of finite sets.

*Sums.* What the reports compute are sums over sets of rows, of any size. A sum
is a fold, a fold is a choice among the solutions of a recursion, and the
library states its induction over finite sets with an operator as a parameter,
which no prover here can instantiate. It also states, without one, that proper
inclusion of finite sets is well founded (`FS_StrictSubsetOrderingWellFounded`),
so that a set of counterexamples has a smallest one (`SmallestSet`). Each fact is
proved from that: the recursion has a solution and only one (`SumsExist`,
`SumsAgree`), any element may be taken first (`SumTakes`), sums over disjoint
sets add up (`SumOfUnion`), larger terms and larger sets have larger sums
(`SumOfLess`, `SumOfPart`), and a sum of sums over parts is the sum over their
union (`SumOfSums`). `MaxTypes` is proved in the same way.

*Hours.* A bucket has the number of the rows rolled up in its lane and hour: one
step adds a row and one to its bucket, which `SumGrows` says of the sums. So any
set of buckets sums to the rows in them (`BucketsCountRows`), and the figures
become sets of rows. `HoursOfDay`, from quotient and remainder, says that a row
is in an hour of a day just when the day's window and the hour of the day say so;
the end of the window, inclusive for buckets, is the first hour of the next day
(`NextDay`). What the row limit leaves of a series is all of it, or some of it
and never nothing (`NewestOfSeries`).

*Totals.* What is stored of the cameras sums to the rows of the last day
(`FleetCountsRows`), of which the cameras with a file have one part and the
others the rest (`FleetHasParts`); the hours of the present day are disjoint sets
of such rows (`HoursWithinFleet`), since a bucket that begins within the day has
no row from before it. The rows of the dashboard are its total because a camera
whose pipeline is not on has no tracks (`RowsAddUp`, `SumOfZeros`).

*Summaries.* `RequestInv` compares what a request has been told at each of its
four statements with what the tables hold now. In a window that is not cut to
the last day a counted row stays counted (`CountedStays`), so that each
comparison survives whatever is stored in between (`ToldStays`); each statement
adds its own. The lanes of the answer hold no less than those of the first
statement and no more than what is stored, lane by lane, and so in sum
(`NoMoreSums`).

### PubSubProofs

| Theorem | Says |
|---|---|
| `TripsOnFailuresAlone`, `PublisherTypes` | `TripsOnFailures`, from `BackedByFailures` |
| `HalfOpenHasProbe` | `HalfOpenIsProbed`, the safety half of `RecoversWithRedis` |
| `FeedIsSound`, `FeedTypes` | `FeedInv`, the inductive invariant of the feed, and its types |
| `ConnectionsKeepLimits` | `LimitsHold`, from `EnteredInv` |
| `ListenersAreShared` | `OneListener`, from `TasksInv` |
| `BroadcastsReachAll` | `ConnectedAreReached` |
| `SilentWereAsked` | `ClosesOnlySilent`, if `AgeLimit > 1` |

The breaker: every caller on its way into or out of the open state has the
threshold of failures behind it, until one thread's step overtakes another's.
So a probe that fails opens the breaker again and one that succeeds closes it:
while it is half open there is a caller out that will do one or the other
(`ProbeStep`), and `PublishersOutage` shows the state without one that the
overtaking leads to.
The feed: `count` is the number of clients registered or leaked, because each
handler registers and removes itself in one step; those over the limit of the
user are those that waited for the lock. A listener task bears the name of a
client that has been welcomed, so that nobody starts a second of its name, and
the table's entry is the one task that is not cancelled. Events reach a reader
in their order up to the newest because an overflow removes the oldest.
A heartbeat ages only by turns: a ping, or an event or a message that is no
pong, which `taken` records until a pong is read (`BeatInv`).
`SilentWereAsked` needs its hypothesis: the first interval without an answer
sends the ping, the next may close. With `AgeLimit = 1` a client is closed
without having been asked, as TLC shows; the settings' defaults are 90 and 30
seconds, and nothing in the code refuses others (section 3.1).

### Only model-checked

Liveness under fairness, which is out of the prover's reach:
`StopEndsCrossingWorker`, `QueuedIsSettled`, `SupervisorRestores`,
`StoppedWorkerExits`, `LaunchedJobSettles`, `RecoversWithRedis`,
`NewestIsServed`, `PresetsReturn`. Of four of them a theorem states the safety
half, what must be there for the rest to follow from scheduling:
`StopIsDelivered`, `DoneJobsAreSettled`, `HalfOpenHasProbe`, `NewestIsKept`.

## 7. Not modelled

* *Auth, users and tokens*: password and token checks over rows and a clock; a
  module would restate library calls. Stream tickets likewise.
* *Model registry* (`routes_models.py`, the loader of YOLO weights): uploads,
  a YAML list, a cache of loaded models. Two pipelines with the same weights
  share a tracker that keeps state between calls
  (`bytetrack_adapter.py:83-101`); what it does with frames of two cameras is
  the library's affair and cannot be translated from this code. Two uploads
  whose awaits interleave may each write a `models.yaml` without the other's
  model; that is read from the code, not checked.
* *Server lifespan* (`main.py`), settings, health and system metrics: reading
  and writing of single values; the thread that lists cameras is in
  `CameraConfig`.
* *Configuration compiler and validators*: pure functions from YAML to a
  configuration, with no state; whether they accept is a choice in `Jobs` and
  `CameraConfig`.
* `stop_live_supervisor`, two supervisors started by two toggles, and a loop that
  reads the global stop event after it was set to `None`: listed as a hazard, not
  covered. Snapshots and status reports of `routes_live.py`.
* A Redis package that cannot be imported: `_redis_sub_loop` imports it outside
  its loop of retries (`routes_ws.py:273`), so the listener would end. It is a
  required dependency of the API.
* In the capture loop: lane-change storage, occupancy and vehicle-type messages.
  An exception in a turn is `Raises` before the frame has had any effect.
* Vehicle classes, directions, confidences and overlapping lanes in the core; the
  boxes of track states, which only drawings and crops read.
* `start`, `stop` and `reset` of the offline pipeline object, the heartbeat
  thread of the worker.
* In reports: rates, peaks, CSV rendering, latest occupancy, and the seeder's
  `--clear`.
* Clients of the feed that name several channels; the wire format.
* CRUD routes over single rows, the import script, migrations, the frontend and
  deployment: single requests or files with no state that several actors share.

## 8. Plan

The model covers the parts with state that several actors share. Every safety
property a run checks is proved; the liveness properties are out of the
prover's reach. What would come next:

1. The safety halves of the other liveness properties: of `StoppedWorkerExits`,
   which thread a worker that has not exited is waiting for; of
   `SupervisorRestores`, that a camera without a pipeline is one the next sweep
   of the supervisor still sees.
2. The start and stop of supervisor threads (section 7), a hazard no property
   covers yet.

None of the modules proved about declares a recursive operator.
