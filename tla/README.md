# KanatBackend in TLA+

TLA+ models of the parts of KanatBackend whose correctness depends on the order
in which threads, requests, messages and failures happen; the TLC runs that check
them on small instances; and TLAPS proofs that hold for every value of the
constants. Paths below are relative to `src/`.

1. [The system](#1-the-system): inventory
2. [Modules](#2-modules): what models what
3. [Runs](#3-runs): what is checked, bounds
4. [Fairness](#4-fairness)
5. [Proofs](#5-proofs)
6. [Where the properties stop holding](#6-where-the-properties-stop-holding)
7. [What is not modelled](#7-what-is-not-modelled)
8. [Plan](#8-plan)

## 1. The system

A shooting range is watched by cameras. Three programs work together, started by
the composer on one machine; a window on the motion controller and a simulator of
it, and the tools that measure the vision pipeline, stand beside them:

```
 camera --RTSP--> MediaMTX (VideoService) ---RTSP---> Detection Service (ImageRecognitionService)
                     |  recordings                        |  POST /bullets      ^ start / end / status
                     v                                    v                     |
                  WebApp backend (FastAPI, PostgreSQL) <--+---------------------+
                     |  REST + Server-Sent Events
                     v
                  WebApp frontend (React, Electron)

 motion, safety and ONVIF devices --pcap--> PacketProcessingService (.NET) --> QuestDB, SignalR
```

### Components, their state and their operations

| Component | State | Operations | Talks to |
|---|---|---|---|
| **Detection Service**, `detection/service.py` | `_run` under `_lock`; per Run `state`, `loop`, `baseline_view`, `error` and the Events `ready`, `ended` | `start`, `end`, `status`, `close` on request threads; `_work`, `_watching` on one worker thread per Run | MediaMTX (Stream), backend (posts) |
| **WebAppPublisher**, `detection/webapp.py` | `_queue`, `_stop`, the worker's attempt | `publish`, `__exit__` (drain), the worker's attempts and delays | backend `POST /bullets` |
| **Detection sync**, `services/detection_sync.py` | `_states`, `_watched` under `_lock`; Session and camera rows | `start` (background task of a new Session), `ending`, `reopened` (requests), `reconcile` (tick every few seconds) | Detection Service over HTTP, PostgreSQL, live hub |
| **Bullet Holes**, `services/bullets.py`, `repositories/bullets.py` | rows with `rank`, `idempotency_key`, `deleted_at`; the Session row's `FOR UPDATE` lock | `create_bullet`, `delete_bullet` | PostgreSQL, live hub |
| **Live hub**, `core/live.py`, `routers/live.py` | a bounded queue per subscriber | `subscribe`, `publish`, `unsubscribe`, `event_stream` | frontends |
| **Live Session hook**, `hooks/useSessionLive.ts` | EventSource, cached Session (React Query), `reconcileTimer` | open, event handlers, `reconcile`, retry | live hub, REST |
| **Replay cache**, `services/recordings.py` | files and `.part` files, `_in_use`, `_locks` | `replay_file`, `_prune_cache`, hourly clean-up, `delete_video` | MediaMTX, PostgreSQL |
| **Packet pipe**, `DeviceService.cs`, `HandlerService.cs`, `DbWriterService.cs` | raw and parsed bounded channels, per-worker batches and senders | capture, `OnNext`, parse workers, writer workers, flush, retry, shutdown | QuestDB |
| Camera sync, `services/camera_sync.py`, `services/mediamtx.py` | MediaMTX paths against camera rows | reconcile loop | MediaMTX |
| Sessions, `services/sessions.py` | Session rows, recording intervals | create, complete, reopen, delete, list | all of the above |
| Run rows, `repositories/runs.py` | where the Board is, when | `_store_run`, `_follow` | PostgreSQL |
| Ranges, `RangeService.cs`, `RealtimeService.cs` | range rows, base and session tables | start, stop (copy, truncate) | the three pipes, QuestDB |
| Transmission, `TransmissionService.cs` | three dictionaries per stream key | register, deregister, `OnNext` | SignalR |
| **Vision pipeline**, `detection/new_bullet_holes.py`, `board.py` | the Stream's slot, clocks and `unseen`; Baseline Marks, Candidates, what is announced | grab, place, reopen and hand over on a reader thread; register, fold, judge and announce in the loop; `finish`, `stop` | MediaMTX, the service, the publisher |
| **Measuring tools**, `tools/evaluate.py`, `tools/regression.py` | label exports, derived truth, scored results | derive, correct, load, score, attribute, compare, move | recordings and Runs on disk |
| **Motion window and simulator**, `MotionSimulator/` | an axis; the window's socket, buffer, poll job, message boxes; the fire sender's flag | connect, poll, move, fire; `handle_client`, `update` | each other over TCP and UDP |
| **Composer**, `Composer_cli/` | containers, processes, release directories, packages, images | up, stop, restart, kill, build, release | docker, dotnet, MediaMTX, the Detection Service |
| Telemetry, Electron shell | | counters, window handling | |

### What is hard

* **Waiting outside a lock.** `DetectionService.start` and `end` name a Run under
  the lock and wait for it after releasing it; a tick of `detection_sync` acts for
  seconds on one status answer and one database read.
* **Calls that are lost or late.** A start may be answered, or even taken up,
  after the end that should have ended its Run; a `POST /bullets` given up on goes
  on in the backend and is retried beside itself.
* **Publishing after the commit.** Events leave the database's order and meet a
  fetch that read before or after them; a slow window is cut off.
* **Locks that come and go.** A replay part's lock is made when asked for and
  dropped with its last user, while deletion, download and pruning run.
* **Full queues.** Two bounded channels in a row, with parked writers on both,
  batches that wait for a tick, and workers that die.
* **Restarts** of the backend, of the Detection Service and of the packet host.
* **Two threads on one list.** The Stream's reader appends the frames it missed
  while the loop judges by them; a verdict given before its window ended must be
  the one its end gives.
* **Callbacks inside callbacks.** A message box of the motion window runs the event
  loop inside the command that showed it; every reply on its socket looks alike.
* **A machine nobody locks.** Two composers, failed and interrupted commands, and
  directories removed under what runs from them.

`PROJECT.json` lists each hazard at its line with the properties that cover it.

### What makes each component correct

* Detection Service: at most one Run uses the detector; an `end` is answered only
  once the Run's posts are drained; a failed `start` leaves nothing behind; no end
  is lost, whenever it comes; every call is answered even if the Stream is silent.
* Detection sync: a Run whose Session is over is ended; the active Session comes to be watched; a Session whose
  Run's end was never confirmed says so rather than losing shots silently.
* Bullet Holes: ranks shown are 1..n; a key is stored once; nothing is stored into
  a Session whose status does not allow it; requests behave as if made one at a time.
* Publisher: Bullet Holes are stored in the order they were found; one failure does not
  stop the rest; leaving ends.
* Live Session: a quiet window misses nothing; after faults it catches up.
* Replay cache: what is being played is not pruned; nothing of a deleted Session is
  left or comes back; deletion ends.
* Packet pipe: while the host runs, every packet captured comes to be stored, or counted
  as lost, but for the batch of a writer that dies without a sender; nothing waits
  forever; shutdown ends.
* Vision: a frame is placed past where it went out only by what a drop's length was
  measured too long; every due frame is accounted for
  once; an early verdict stands; a mark is announced once; a finished Run stops
  within a window, and a stopped one ends.
* Measuring tools: a derived truth says how many of its labels cannot be trusted; a change
  that passes is no worse, or says where its scope changed; a move reaches the frames it
  should.
* Motion: a gauge shows an answer to its own question; a move reported sent was run;
  the window keeps polling, once; the fire button tells the truth, or is about to; an axis arrives.
* Composer: an undisturbed `up` that returns zero leaves its release directory,
  containers and Detection Service complete and PacketProcessingService launched,
  whatever was left behind before; a failed start is ended; a release is whole.

## 2. Modules

| Module | Models | Form |
|---|---|---|
| `RunHolder` | what `/status` promises: no Run, or one that starts, watches, ends | abstract specification |
| `DetectionService` | `detection/service.py` | refines `RunHolder` |
| `DetectionSync` | `detection_sync.py`, `detection_client.py`, the Session requests | uses `RunHolder`'s actions as the service |
| `RankedHoles` | the Bullet Holes of a Session as one table changed atomically | abstract specification |
| `BulletHoles` | `services/bullets.py`, `repositories/bullets.py`, the row lock | refines `RankedHoles` |
| `Publisher` | `detection/webapp.py` | composes the worker with `BulletHoles` |
| `SessionLive` | `core/live.py`, `routers/live.py`, `useSessionLive.ts` | over `RankedHoles` |
| `ReplayCache` | `services/recordings.py` | |
| `PacketPipe` | capture, handler and DB writer services | |
| `FrameStream` | `Stream` of `new_bullet_holes.py`: the reader thread and the slot | |
| `BulletWatch` | `process`, `Persistence`, `_Announcer` | composes the loop with `FrameStream` |
| `Scoring` | `tools/evaluate.py`, `tools/regression.py` | operators over bounded inputs, in the order the tools run them |
| `MotionSimulator` | `motion_simulator.py`, `protocol.py` | |
| `MotionClient` | `ui_client.py` | composes the window with `MotionSimulator` |
| `Composer` | `Composer_cli/` | |
| `MC*` | the same with symmetry sets and constant values for TLC | |
| `*Proofs` | theorems about the module of that name; some hold a second subject, as below | |

Three proof modules extend, beside their own subject, one that belongs with it:
`DetectionSyncProofs` the Detection Service, `BulletWatchProofs` the tools that measure the
pipeline, `SessionLiveProofs` the packet pipe; and `PublisherProofs` instantiates
`BulletHolesProofs`. The two subjects have no constant and no variable in common, and the
specification, type invariant and assumption of the second carry its name: `DetectorSpec`,
`ToolSpec`, `PipeSpec`.

`RunHolder` and `RankedHoles` are the seams. `DetectionSync` does not look inside
the Detection Service: it takes `RunHolder`'s steps, which theorem `DetectorRefines` shows
the service to implement. `SessionLive`, and the operator's deletes in `Publisher`,
take `RankedHoles`' steps, which theorem `Refines` of `BulletHolesProofs` justifies.
Every definition that models code names its lines in `PROJECT.json` under `map`.
Definitions marked `Mutant` in the modules are never part of a specification: each
is a plausible bug that the property it belongs to must catch.

### How each module corresponds to the code

**DetectionService.** A step is what a thread does under `_lock`, or between two
points where it can wait. `call[t]` is what a request thread waits for, `work[r]`
where the Run's worker is in `_work`. Every wait with a timeout may time out at
any moment. The Stream may open, fail, stop at any frame, or never give another:
frames themselves are not modelled. `RunId` bounds how many Runs are ever made.

**DetectionSync.** Threads are the background task of each new Session (named by
its Session), the handlers of PATCH and DELETE, and the tick. Each has at most one
call at the service; a call whose caller gave up before it was taken becomes a
`stray`, which the service takes up later when `"late"` is a fault. `scenario` is
what the requests and the faults of an execution are, one of `Scenarios`, and never
changes. Faults are `late`, `create` (a create fails before it answers, and its task never runs),
`block` (the block of an end fails), `blind` (and whether it
committed cannot be read), `restart` (of the backend: memory and threads are gone),
`stop` (of the service), `cameraDisabled` and `cameraDeleted`. Decisions:
* there is one camera; all reasons of `not_watching` are one value, as no code
  path tells them apart when it decides;
* `owed` is a ghost: the active Sessions seen watching whose Run's end has not been
  confirmed since; a restart of the backend does not clear it. What the backend's memory
  lost with the restart is marked in the ghost `forgot`, until the Session is seen
  watching again: `NoSilentLoss` excepts exactly those;
* the operator acts only on Sessions whose creation was answered;
* `TickReads` merges the database read and the sweep that follows it at once;
* a start is stuck only when no thread makes it any more (in the code: `STUCK_S`
  is longer than the longest call).

**BulletHoles.** Each handler is cut where it takes the lock, after each of its
reads and at its commit. The unique index on the key is kept, so that a second
insert would answer 500. Ids are never used twice.

**Publisher.** The payload is its idempotency key. Each attempt is a thread of
`BulletHoles` that goes on after its caller gave up. `DRAIN_TIMEOUT_S` may run out
at any moment. The operator's delete is one step of `RankedHoles`.

**SessionLive.** `queue` is the hub's queue and what of it is on the wire. A request
commits and later publishes; `MaxPending` bounds how many are in between, and with
two they may publish in either order. A completed Session may be reopened, in the other
window as well. The operator acts in another window, so the
window's own optimistic updates are left out, as are Session deletion and the
refetch limit for streams refused for an unknown Session. A fetch's internal
retries are one failure. `detection_updated` patches a field no property is about
and then refetches, so `run_moved`, which only refetches, stands for both.

**ReplayCache.** A thread is at the label where it would next touch what others
see. `_part_lock`'s registry is modelled with its entries, so that dropping an entry
another thread is about to use is possible in the model. Marks of `_in_use` run out
only when no request that made them is in progress, unless `"slow"` is in `scenario`
(a download longer than every limit). Pruning takes copies in any order, which
includes the least recently used first. `interrupted` is a ghost for Sessions whose
deletion a restart cut short. One Session owns all parts of the instance.

**PacketPipe.** One of the three pipes (Motion, Safety, OnVIF). A bounded channel in
Wait mode parks its writer, and the read that makes room takes the parked item in.
A worker is at the point where it would next touch a channel, QuestDB or the token.
Failed writes are of three kinds: `ingress` (the sender is disposed and the batch
retried on another, used for that batch only; if that other cannot be opened the worker
dies with its batch, `SenderFails`), `other` (counted, the worker goes
on) and `lost` (committed, with only the answer lost). `FinalFlushAsync` is reached
only through the tick's own cancellation, as in the code. The hand-kept counts of
the channels are left out (only telemetry reads them), as is the transmission
service's `OnNext`, which never throws.

**FrameStream and BulletWatch.** Time is counted in frame intervals: frame *n* goes
out at time *n* and is read up to `MaxLag` later; the delay changes from frame to frame
but frames do not overtake each other (`ReadAt`). `_missed` counts a drop by the times
frames were *read*, as the code does, so it is over by what the delay grew across the drop:
the ghost `slip` adds that up. A frame carries its own timestamp, the one before it again, or
one counted from a new origin; a reopened stream always counts afresh. `_place`'s
arithmetic is kept in whole frames, without its rounding. A Look sees any set of
places: registration, the model and change detection are choices, as is a lost
Look. A place stands for all detections that `same_bullet_hole` takes for one mark.
`_judge` is kept as its inequality, with `PERSIST` a half. Only past the baseline is a step
for asking needless, so `JudgeLook` goes straight to waiting. `MaxFaults` bounds the
disturbed grabs, drops and lost Looks; the camera may go on dropping for ever past
its last frame.

**Scoring.** A mark is a point of a line, a list of marks is sorted, and the
registration of a photograph is an offset that a refit may correct. Matching is
the assignment `match` computes (most pairs, then least distance). Each Run places the
truth for itself (`Placement`), and what then lies off its `Sheets` is out of *its* scope:
the three results of a bench need not agree on it, and `compare` only notes where they do
not. One action per tool call, in the order a developer runs them: derive, correct, load, score three
times (reference, its shift, the change), compare; and, apart, a move of the Board
at every hundredth of a second.

**MotionSimulator and MotionClient.** Every callback of the Tk thread is cut where
it sends or receives; a message box leaves its callback waiting while polls and
queued callbacks run, and no click. A client waits for each answer, so a connection
holds at most one packet to be answered; bytes on the wire are the three parts of a
packet that its parser tells apart. A sending thread is cut where it looks at the flag,
sends, clears the flag (`SenderFails`) and, a Tk call later, queues the stop
(`SenderTells`). A request given up on leaves its reply on the connection, and the buffer
outlives the connection as in the code. One axis with whole positions, where a distance
below `Near` counts as arrived (the 0.01 of the code).

**Composer.** One action per docker, dotnet or process call. A directory is the set
of what it holds, an environment's containers are one thing, and a started
Detection Service is one of `Launches`. A terminal's command may be interrupted
between any two calls and beside the dashboard's. `quiet` is a ghost: nothing else
touched the machine since the command began. A PacketProcessingService told to end
(`Pkill`) goes on holding its port until it does; one launched comes to serve, finds the
port held and exits, or never gets its terminal, and the last two leave it `lost`.
The properties that a second composer can break are conditioned on `quiet`. A start that
timed out is assumed to have spawned its process within the minute `up` waits.

## 3. Runs

| Run | Instance | What it shows |
|---|---|---|
| `detection_service` | 2 Sessions, 2 Runs, 2 request threads | `AnsweredAfterDrain`, `FailedStartLeavesNothing`; the service implements `RunHolder` (`HoldsOneRun`); every call is answered (`CallsAnswered`) |
| `detection_sync` | 1 Session, 1 handler, six scenarios: complete and reopen with `late`, `restart`; complete with `stop`, `restart`; complete with `create`, `block`; complete with `block`, `blind`; delete with `cameraDeleted`; `cameraDisabled` with `cameraDeleted` | `RunsAreKnown`: no Run of a Session that was not committed; `NoSilentLoss`, `UnwantedEnds`, `WatchedAgain` |
| `bullet_holes` | 3 threads, 3 rows, 2 keys | `KeysAreStoredOnce`, `StoredWhileAllowed`; requests are atomic (`ChangesAreAtomic`) |
| `publisher` | 2 Bullet Holes, 2 attempts each, 2 rows | `StoredInOrder`, `NothingSkipped`, `LeavingEnds` |
| `session_live` | 2 rows, queue of 1, 2 pending events; every request, reopening included | `NothingMissing`, `CatchesUp` |
| `retried_report_revives` | deletes and retries together | **violated**: see section 6 |
| `replay_cache` | 1 part, 2 players, no room; restarts, with and without slow downloads | `GoneOnceDeleted`, `NeverLost`, `DeletionEnds` |
| `packet_pipe` | 3 packets (one unparsable), 1 handler, 2 writers, channels of 1, bursts and batches of 2, 2 faults of every kind (new senders failing among them), host stop | `NothingVanishes`, `Delivered`, `StopEnds` |
| `bullet_watch` | 8 frames, baseline of 2, stride 2, window of 5 (three Looks), one place, gaps of 1, delivery up to 1 late, 1 fault | `EarlyVerdictStands` (the code's assertion), `DueCountedOnce`, `AnnouncedOnce`, `FinishBounded`, `PlacedByTime`, `StopEnds` |
| `scoring` | lists of up to 2 marks among 3 positions, one of them off the sheets or not as each Run places it, offsets of 1; half a second of frames at 30 fps | `UnpairedIsTold`, `PassIsNoWorse`, `MoveReaches` |
| `motion` | 3 gauges, an absolute and a relative move, 2 connections, 2 commands, 2 fires, 2 faults | `ShownIsOurs`, `MoveTold`, `PollingAlive`, `ButtonTruthful`, `Arrives` |
| `composer` | the dashboard and a terminal, 3 operations, 2 launches, every call able to fail, terminals that do not open | `UpIsComplete`, `FailedStartIsEnded`, `ReleaseIsWhole` |

Why the bounds are enough for the cases of interest:

* Two Runs and two request threads let a Run be replaced between the moment an
  `end` names it and the moment it acts, and let a second `end` meet the first.
* One Session is enough for the sync's races between its background task, the tick,
  a request and the service, since the code handles Sessions one by one and the
  service has one Run; what a second Session adds (its Run in the place) is what a
  late start or a missed end of the first leaves behind. Faults are checked in the
  six groups that act on the same steps. The proofs of
  `WatchedIsShown` and `RunsAreKnown` are for any number, and all faults at once.
* Three threads on a Session's rows: two reports and a delete. Three rows: one in
  front of, and one behind, the one deleted.
* Two Bullet Holes with two attempts each: an attempt runs on beside its own retry
  and beside the next value's.
* A live queue of one is filled by one event, and cut off by the second.
* `Entry` of three is more than the locks in use at once with two players and the
  deletion; with `Budget` 0 every copy that is not in use may be pruned at once.
  With one part the deletion waits for one lock; several in turn are not checked.
* Channels of one packet, with three packets, park both kinds of writer at once;
  with `BatchSize` 2 the last packet never fills a batch. Two writers let one die beside
  a live one.
* Three Looks to a window and one fault: a verdict can be given at the second Look
  with the third still to come, lost, unseen or late. Two marks do not meet in
  `Persistence`, so one place is enough. A lag of one makes a drop's measured length one
  frame too long or too short. The proofs of `PlacedByTime`,
  `DueCountedOnce` and `FinishBounded` are for any of these bounds.
* Two marks to a list let one detection be near two truths, and three results (the
  reference, its shift, the change) differ in all ways two marks can.
* Two connections let an answer outlive its connection; two fires let a failed
  sender's queued stop meet a second start.
* Three operations: one that fails halfway, one beside the third.

Symmetry is used in safety runs only, over values no definition tells apart.
Deadlock is checked except in `session_live`, where the completed Session's window
stops and nothing is left to do, in `packet_pipe`, where the host may stop, in `motion`,
where the window may be closed, and in `composer`, which nobody has to ask for anything.

Type invariants (`TypeOK`, `DetectorTypeOK`, `PipeTypeOK`, `StreamTypeOK`, `SimTypeOK`) hold in the run of every module that has one; they are
proved where a module has proofs.

## 4. Fairness

Only what the scheduler, a timer or the code's own timeouts bring about:

* `DetectionService`: request threads' waits end (each has a timeout or an Event),
  and a worker that is not waiting for a frame goes on. No frame is ever assumed:
  a worker in the baseline or looking goes on only once it was told to stop.
* `DetectionSync`: background tasks, handlers and the tick are scheduled; the
  service takes and answers calls while it is up; a Run that is starting or ending
  settles (`CallsAnswered` of `DetectionService`). Restarts and faults are not
  fair: `WatchedAgain` and `UnwantedEnds` are about executions in which they stop,
  which their antecedents say.
* `Publisher`: the worker, the two joins of `__exit__`.
* `SessionLive`: requests publish what they committed, the stream's steps, the
  fetch's answers, the hook's timer. Nobody need press Retry: `CatchesUp` leaves a window
  that never loaded its Session on the page that offers it.
* `ReplayCache`: request threads, the lock (a waiting thread gets it), pruning, the
  clean-up and the deletion. A mark is not assumed to run out.
* `PacketPipe`: tasks, workers and the tick. Nothing of the device, the operator,
  or the host.
* `BulletWatch`: the loop's and the reader's threads, and, once a Run was told to
  finish, the service's stop (`FinisherWaits` of `DetectionSyncProofs`). The
  camera may be silent for ever.
* `MotionClient`: the simulation loop of the controller, which ticks every 10 ms.

## 5. Proofs

All theorems are checked by TLAPS from the named assumptions on the constants
(model values are distinct; sizes are naturals), for any number of threads, Runs,
Sessions, rows and keys.

**`DetectionSyncProofs`, the service.** `OneRun` is not inductive: nothing in it says that a
Run whose worker is busy is the one `_run` names, nor that a Run not yet made has
no worker. `DetectorInv` adds
`PlaceIsBusy` (`_run` names a Run whose worker has not released it),
`LoopIsThere` (past opening there is a loop to tell),
`BeforeBaseline` (before the baseline a Run reads starting or ending),
`UnbornIsUntouched`, `SignalsAreTrue` (`ready` and `ended` are set only when they
should be), `FinisherWaits` (a Run told to finish has a thread with a bounded wait),
`WatchingIsPlaced`. Results: `DetectorTypeCorrect`, `OneRunHolds`,
`AnswersAreHonest`, `FailuresLeaveNothing`, `EndsAreKept`, `FinishesAreBounded`, and
`DetectorRefines`: under the mapping `held`, the service implements `RunHolder`, each step being one of its steps or a stutter.

**`DetectionSyncProofs`.** `RunsAreKnown` needs to know of every thread, every call
on its way and every tick's memory that the Session they name was committed:
`ThreadsKnow`, `CallersWait`, `CallsKnow`. `WatchedIsShown` is proved with them for
every set of faults and requests. Results: `TypeCorrect`, `WatchedIsAlwaysShown`,
`RunsAreAlwaysKnown`. `LossIsTold` is `NoSilentLoss` under the hypothesis `[]Apart`,
that no two requests work on one Session at once. The hypothesis cannot go: two
completes that meet take each other's warning away (section 6). It leaves any
number of Sessions and of requests on different ones, every call that is lost,
late or answered by a service that restarted, and restarts of the backend but for what
they make it forget (`Due` is `owed` without `forgot`; section 6). `LInv` says that a Session that reads
`starting` has the thread that will settle it (`StartsAreMade`: the sweep finds none
to forget), what a request may rely on wherever it is (`Doing`), and that a Session
that is owed a warning stays in `_watched` until it warns (`Remembered`).

**`BulletHolesProofs`.** The invariant is about the lock: who is past it holds it
(`ReadersLock`), and what a handler decided from its reads still stands at its
commit (`DecisionsStand`), because nobody else could have come in. From these
`RanksAreDense` and `KeysAreStoredOnce` are inductive (with `RowsAreRows`, that an
id with no row has no key and is not deleted). Results: `RanksStayDense`,
`KeysStayUnique`, `AllowedWhenStored` and `OrderStays` (action properties), and
`Refines`: the rows change as `RankedHoles` allows.

**`BulletWatchProofs`.** For any baseline, stride, window, places and bounds.
*Placing*: `PlacedByTime` alone says nothing of the fixes frames are placed by.
`FixesBehind` adds that no fix is ahead of its session's time and the slip so far,
`TimedIsExact` that the origin is exactly there while every frame was timed, and `ClocksAgree` ties the
reader's clock to the camera's across a drop; lemma `Placing` is then what `_place`
returns from such a state. *Finishing*: `CandidatesPast` says that no Candidate was
opened after the Look that read the flag, so the window of any still open, or held
for, bounds the rest of the Run; it needs `FramesInOrder`, that frames reach the loop
in the order of their places. *Counting*: `DueInv` keeps the lists of frames apart
(each is bounded by where the reader and the loop are), and, because
what the loop took was offered first (`OfferedFirst`), past the baseline every frame
is due by its place. *Announcing*: `AnnounceInv` keeps what was announced apart from
what waits for it and from a Look's news; that a Look's news can be put in the order
of their first sighting at all is `CanBeOrdered`, proved with a minimal element of
the well-founded subset order (for which the places must be finitely many,
`WatchAssumption`) instead of an induction. *Judging early*: `VerdictsHold` says that
what persisted would persist if it were judged now; each frame processed moves from
those to come to those looked at, lost or unseen, and lemmas about the cardinalities
of the parts of a window (`MetAreFewer`, `JoinedAreMore`) give the inequality of
`_judge` again. Results: `PlacesAreTrue`, `FinishesInTime`, `DueFramesAreCounted`,
`AnnouncesOnce`, `EarlyVerdictsStand`.

**`ReplayCacheProofs`.** `GoneOnceDeleted` says nothing of a deletion under way, nor
of who may still write a copy. `Gone` says that every part of a Session that no
longer exists is either `Awaited` by the deletion, through the lock or the file it
was seen by, or `Clear`: nothing there and no request past `still_allowed`. That the
deletion's turn at a part ends every such request needs the lock to be one
(`Locking`), and that needs the count of an entry's users to be the number of
threads that took it (`Counted`), since the last of them drops it. `NeverLost` needs
what a request holds at each of its places (`Secured`): its mark until it leaves, its
half-written copy while it downloads, its copy from then on, and afterwards the copy
unless the Session was deleted; another request's step, a prune or a deletion leaves
these alone (`Bystander`). Results: `PartsAreApart`, `DeletedIsGone`, `NoneIsLost`.

**`ComposerProofs`.** For any number of composers, commands, images and launches, and
every fault. `IInv` says where in its command a composer can remember a launch
(`Remembers`; that the command is then `up` rests on `UpOnly`) and what has become of
it there (`Settled`: a process by the time it is signalled, free once the command has
returned). No other composer is given a launch that is remembered. `UpIsComplete` and
`ReleaseIsWhole` speak only of a command's end: `Undisturbed` says for every place of
an undisturbed command what its own steps have done by then (`Shaped`, `Filled`,
`Serving`, `Packed`), nothing being known of what it found. `UpsAreComplete` promises no
more of PacketProcessingService than that it was launched from the whole directory. Results:
`TimedOutIsEnded`, `UpsAreComplete`, `ReleasesAreWhole`.

**`PublisherProofs`.** For any number of values, attempts and rows, and every attempt
given up on that still runs in the backend. `NothingSkipped` needs the queue to be
what was published and not taken, in order, with the sentinel last (`InOrder`), and
every value taken but the one at hand to be settled (`Settled`). `StoredInOrder` needs
the backend as well: `BulletHolesProofs` is instantiated with a POST for each request,
its invariant is a conjunct here and its lemmas are cited, once `SameSteps` shows the
actions of the two instances to be the same. `Told` ties the two sides: no request and no row is
of a value the worker has not taken, and a 201 means that the row is there, deleted or
not, or that the Session is gone. So when a value is posted no later one is stored, and
when a later one is stored it is ranked after it; the operator's deletes keep the order
(`OperatorDeleted`). Results: `NoneIsSkipped`, `OrderIsPublished`.

**`MotionClientProofs`.** For any gauges (at least one), moves, speeds and bounds.
`OnePoll` says that the poll to come is the one `_polling_job` names, and when there is
one. `Button` counts the threads that have cleared the flag and not yet queued their stop
(`failing`) with the stops queued, and is inductive as it stands but for the types. The rest is about the
exchange on the one open connection (`Exchange`): a callback that asks for nothing finds
it `Quiet`, because a request that is given up closes its socket. Only the buffer
outlives it, and `Left` lists what it can hold: nothing, or two parts of a packet or
one that can never be completed by another's reply. `Meets` says how such a rest goes
with the bytes of the reply still to come, and lemma `Reads` that reading any number of
them keeps it and yields no packet but the reply's own. `Progress` says that a
connection holds at most the next step of the last command, so that an ACK is that
step's. Results: `PollsAlways`, `ButtonsTell`, `MovesAreTold`, `GaugesShowTheirs`.

**`SessionLiveProofs`.** For any number of rows and keys, any queue and any number of
requests between commit and publish. `NothingMissing` speaks of a quiet window; `Tracked`
says of every open stream that each Bullet Hole stored is `Announced` (an event of it is
still to be published or in the queue) or `Fetched` (a fetch will see it, has read it or
has shown it). It needs that a stream the hub has cut off finds the end of its queue
(`CutOffEnds`), that a fetch under an open stream is made again when it fails
(`FetchIsKept`), that there is a copy to patch (`CopiesAreThere`), and that no row is sent
with rank 0 (`EventsAreSent`). Results: `TypeCorrect`, `NoneIsMissing`.

The Session's status is tracked in the same way (`StatusTracked`): a `session_updated` is
`Told`, or a fetch will bring it. `QuietIsCurrent`, that a quiet window shows *exactly* what
is stored, is refuted by a retried report and by two publishes that change places
(section 6), and is not proved of anything.

**`SessionLiveProofs`, the pipe.** For any number of packets, handlers, writers and faults,
and any sizes. `NothingVanishes` says where a packet may be and who is there to take it on.
`Kept` is the first half, by membership rather than by counts: a packet captured is in a task,
a channel, parked at one, in a batch, in hand or in a buffer, or is stored, dropped or failed.
Each step moves a packet from one of these places to another; the lemmas about `Append`, `Tail`
and `RemoveAt` say that it takes none along. `Endings` is the second: a worker ends only with
the host, but for a writer that dies, and that one leaves a batch only where it found no sender.
`NeverOverrun` needs that a writer that goes back to read has room
(`RoomToRead`), since the first read of a round does not look. Results: `PipeTypeCorrect`,
`NoneVanishes`, `NoneOverruns`.

**`BulletWatchProofs`, the tools.** For any positions, marks, offsets, tolerance, frame rate
and strides. `ToolInv` says what each phase of the tools has: a derived truth has the labels
the Board gained and those of before-marks without a pair (`LabelsCounted`), every result is
the score of some list of marks under some placement (`ResultsAreScores`), and a verdict is
`compare`'s of the three (`VerdictIsCompared`). The rest is about the operators.
`UnpairedIsTold`: a matching pairs as many labels as marks (`SidesAgree`), which rests on
`MatchIsLargest`: the assignment `match` chooses exists and is a matching, which takes a
greatest cardinality and a least total distance to exist. `PassIsNoWorse`: what the reference
finds twice and the change does not is a failure unless the scopes differ, which is noted; the
false positives of a change that passes are, but for noise, mapped one to one to the
reference's. `MoveReaches`: `first_moved_index` is the first frame printed at the move's
time or later, by the monotonicity of a time rounded to hundredths, and the first
multiple of the stride from there is the first Look. Results: `ToolInductive`,
`UnpairedAreTold`, `PassesNoWorse`, `MovesReach`.

So every invariant and every action property of the passing runs has a theorem. Only
model-checked are the liveness properties (`CallsAnswered`, `UnwantedEnds`,
`WatchedAgain`, `LeavingEnds`, `CatchesUp`, `DeletionEnds`, `Delivered`, `StopEnds` of
`PacketPipe` and of `BulletWatch`, `Arrives`), since fairness and ENABLED are beyond the
prover.

## 6. Where the properties stop holding

**Checked as a run.** `retried_report_revives`: a report is stored and shown, the
operator deletes it, and a late retry of the same POST is answered with the
soft-deleted row, whose `bullet_created` is published again
(`routers/bullets.py:20`). The hook adds it to its cache without a refetch, and the
deleted Bullet Hole is shown. The comment at `:18` calls this publish harmless.

**To reproduce by changing a configuration's constants.** `NoSilentLoss` says for
which faults it is meant, and `WatchedAgain` and `CatchesUp` except a case each:
these are the cases left out, to be seen by taking the condition away.

| Property | Fails with | Because |
|---|---|---|
| `NoSilentLoss` | two `Handler`s, `"complete"` | both completes read the Session in `_watched`; the first's unconfirmed end takes it out, the second's `end_unconfirmed` becomes `none` (`detection_sync.py:92`; the comment at `:50` says it is kept until reopened) |
| `NoSilentLoss` | `"create"` in the scenario | a tick watches the new Session before its create says `starting`; the create then fails, and the sweep of the lost start forgets that it was watched (`:317`) |
| `NoSilentLoss` | `"block"` in the scenario | the block fails and the Session goes back to `none` with an unconfirmed Run forgotten (`:268`, docstring `:239`) |
| `NoSilentLoss` | `"cameraDeleted"` and reopen | whether there is a Run to end is read from the camera and the state once (`:248`, `:232`) |
| `NoSilentLoss` | `owed` in the place of `Due` (`"restart"` in the scenario) | `_states` and `_watched` are memory only (`:68`): a backend that restarts forgets the warning of a completed Session, and that an active one was watched until a status read shows it watching again |
| `WatchedAgain` | `"block"` and `"blind"` | when the read after a failed block fails too, a Session still active is left reading `end_unconfirmed`, which no tick may change (`:268`; the docstring at `:241` says the next tick watches it again) |
| `QuietIsCurrent` | `Requests = {"report", "delete"}`, `MaxPending = 2` | a report's publish overtakes the delete's: the deletion arrives first and does nothing (`routers/bullets.py:20`, `useSessionLive.ts:53`) |
| `NeverLost` | `"slow"` in the scenario | a mark of `_in_use` runs out during a download longer than it lasts, and the copy is pruned before it is served (`recordings.py:143`) |
| `CatchesUp` | without `status = "active"` | `session_updated` stops the hook, and with it the retry of a refetch that failed (`useSessionLive.ts:86`, comment `:81`) |

**Seen while reading, not in a model.** `HandlerService.cs:170` resets the raw
channel's count while packets are in it, although the comment at `:194` says it is
not reset because it represents the queue's actual state;
`DbWriterService.cs:124` lowers the parsed channel's count by the whole buffer at
each read; a second start without a stop (`DeviceService.cs:91`) opens a second
device that no stop closes (`Subscribe` takes the first only); a writer that recreated its sender for a retry keeps
the disposed one, so that every later batch fails once and is retried
(`DbWriterService.cs:274`; this one is in `PacketPipe`).

**In the models, outside the properties.** What the models allow because the code does:
* *Packet pipe.* A writer that cannot open another sender for a retry dies, and its batch
  is neither stored nor counted (`DbWriterService.cs:275`: the throw leaves the `catch`);
  a host that stops leaves packets in the channels, and in the buffer of a writer that
  ended outside the tick (`:155`), uncounted. `NothingVanishes` names these places.
* *Frames.* A drop's missed frames are an estimate by the wall clock
  (`new_bullet_holes.py:946`; the docstring at `:724` reports one 1.4 s over): every later
  frame is placed that much too late, until the Run ends.
* *Scoring.* A truth the reference found and the change's own placement puts off the sheets
  is a `scope` note, which does not fail (`regression.py:60`, `:251`): a change may pass and
  have lost it. Labels of pre-existing marks off the sheets are not checked at all
  (`evaluate.py:822`).
* *Motion.* After a failed command the message box is shown before the connection is
  toggled (`ui_client.py:663`): a poll that ran inside the box has already
  disconnected, and the toggle connects again. A stop and a start of the fire client
  within one interval leave two sending threads (`:157`), and the queued stop of a
  failed send cancels a restart that came before it (`:188`). Between `:185` and `:188`,
  and until the queued stop runs, the button says STOP while nothing sends; a press then
  starts a new sender, which the stop ends. A greeting that is not an ACK leaves the socket
  set in a window that says it is disconnected (`:59`). CMER may answer *complete* for an axis that has not had its
  first tick after a move. A command given up on may still be run by the controller.
* *Composer.* `stop` finds PacketProcessingService by a binary that must still be
  there, so one whose release directory a failed build removed runs on
  (`services/dotnet.py:82`); `up` stops the other environment's containers but not
  its PacketProcessingService (`app.py:71`); stopping either environment stops the
  one Detection Service and MediaMTX; `up -d` returns zero without looking whether
  PacketProcessingService came up: the one it told to end may still hold the port
  (`services/dotnet.py:87`), a terminal may not open (`shell.py:52`), and the result is not
  read (`app.py:108`); without the source, what a failed extraction left is started if the
  binary is there, with or without its assets; a build from a package without a binary
  returns zero (`services/environment.py:34`); that `compose stop` failed is not
  seen. A second composer beside the first can undo any of its steps: hence `quiet`.

## 7. What is not modelled

* The image processing (registration, the model, change detection, Board geometry):
  floating-point, out of a model checker's reach. What it may answer is a choice of
  `BulletWatch`. Recordings, groups and the files a Run writes are sequential.
* `end_to_end.py` and `mine_negatives.py`: scripts that run the rest and write
  images; reports and drawings of `evaluate.py`.
* Parsing of packets, formatting, export, migrations, logging, telemetry: one call,
  one result, no shared state.
* The composer's Windows branches, displays and image formats; the motion protocol's
  byte layout, the second axis and the capture tools.
* Camera sync, recording intervals, Run rows, ranges and transmission: see the plan.
* MediaMTX, PostgreSQL, QuestDB: third-party; modelled as the code uses them.
* Playback (`PlaybackService.cs`): most of its body is commented out.

`PROJECT.json` gives the reason for each component.

## 8. Plan

Done: `RunHolder`, `DetectionService`, `DetectionSync`, `RankedHoles`, `BulletHoles`,
`FrameStream`, `BulletWatch`, `ReplayCache`, `Composer`, `Publisher`,
`MotionSimulator` and `MotionClient`, each with proofs or used by a module that has
them; `SessionLive`, `PacketPipe` and `Scoring`.

Next, in order of what the system would lose:

1. `RealtimeRange`: start and stop of a range over the pipe: the copy before the
   drain, truncation after a failed copy, a second start. Composes `PacketPipe`'s
   abstraction (a set of packets on their way). Property: a packet captured in a
   range is found in that range's tables or counted.
2. `Sessions`: recording intervals against complete, reopen and delete, one active
   Session per camera; `CameraSync`: MediaMTX's paths come to be what the rows say.
3. `RunStore`: `_follow` writes are monotone although ticks and starts interleave.
4. `Transmission`: register and deregister race; no registered stream without its
   interval; at most one send per interval.
5. `HttpRange` (`core/ranges.py`) and `StreamReassembler` as operators against a
   reference definition; `useWhepStream`'s reconnects.
