# TLA+ models of the lossless-music-download core

This directory holds TLA+ specifications of the parts of the program in which
concurrency, failure and ordering decide whether a download ends well: the
cancellation and progress registries of the Rust engine, its download planner,
its transfers and the sessions of its extensions, the Android service that runs
a batch, and the queue of the Flutter app. TLC checks them on small instances;
TLAPS proves their safety properties for every instance.
`PROJECT.json` maps each definition to the source lines it models.

    tlc -workers 2 -config queue.cfg MCDownloadQueue
    tlapm DownloadQueueProofs.tla

## 1. The system

A user queues tracks in the app (`lib/`). On Android the queue hands a batch to
a foreground service (`android/app/.../DownloadForegroundService.kt`), which
calls the Rust engine (`rust_backend/crates/`) for each item; elsewhere, and
when the service does not answer, the app calls the engine itself. The engine
asks extensions (JavaScript) for sources, downloads, tags and files the result.

| Component | State it keeps | Operations | Hard because |
|---|---|---|---|
| Cancellation registry `core/src/cancellation.rs` | id -> shared flag and reference count; closed | acquire, release, cancel, cancel_active, reset, shutdown, wait | a retry shares the id of an attempt that is still unwinding; the notify is outside the lock |
| Progress registry `core/src/progress.rs`, `progress/subscription.rs`; desktop event loop `desktop/src/events.rs` | items with revisions, tombstones, sequence, cached snapshot; a cursor per client | start, updates, remove, snapshot, delta, shutdown | clients lag, reconnect and miss pruned tombstones; small updates are silent |
| Android service and gate `DownloadForegroundService.kt`, `NativeQueueGate.kt` | run id, items, job, stop flag, gate, snapshot file | intents, stop, timeout, destroy, network callbacks, per-item coroutines | four kinds of thread, blocking calls that outlive a stop, process death |
| Queue controller `lib/providers/download_queue_provider.dart` | entries, flags, the running batch, timers | enqueue, remove, retry, clear, pause, resume, poll, merge, fallback | each await lets commands, timers and stale answers in |
| Download planner `core/src/downloads.rs`, `extensions/src/backend/downloads*` | per request: lease, provider, lock, attempt directory; prepared downloads, progress entry | download, preflight, verified retry, attempts, publish | two requests of one item or one path, locks of two paths, callers that give up, cancellation at every step |
| Engine lifecycle `engine/RustEngine.kt` | UNINITIALIZED / INITIALIZING / READY / FAILED, buffered settings | init, configure, calls | calls during and after a failed initialisation |
| Post-processing `OutputPostProcessor.kt` and converters | a mutex per path | run | two results of one path |
| Signed sessions `extensions/src/signed_session/*` | stored record, clear generation, challenge, flights, grants | fetch, preflight, complete_grant, clear, forget, shutdown | single flights, answers that come after a clear or after a newer session |
| Transfers `extensions/src/download.rs`, `download/*`, locks of `files.rs` | staging file, checkpoint file, worker pool | segmented, chunked and plain download | resume after failures and crashes, bounded channels, objects that change on the server |
| Extension manager `extensions/src/manager.rs`, `manager/*`, `environment.rs` | registry, per extension: status, engine, pool of runtimes; source, backup and data directories | install, upgrade, remove, enable, configure, call, download, release, shutdown | users meet a removal or an upgrade; three kinds of lock; failing renames, crashes, memory pressure |
| JavaScript runtime `extensions/src/runtime.rs`, `runtime/*` | worker thread, bounded queue, closed flags, count of session checks | call, preflight, shutdown | deadlines and cancellation before and after the hand-over, shutdown with a full queue |
| Extension files, repository, authorisation | grants, pending requests | open, fetch, resolve | mostly I/O |
| Network, providers, caches, rate limits | pools, expiring entries | request, resolve | coalescing, expiry |
| Library, tags, media, lyrics | files and indexes | scan, read, write | byte formats; mostly I/O |
| Desktop host, casting, DLNA, link server | event streams, sessions | dispatch, serve | stream generations |
| Screens, settings, localisation | preferences | display | user interface |

How they interact: the queue sends the service *intents* (start, pause,
resume) and polls a *snapshot file* which the service replaces atomically; the
service calls the engine with a blocking call per item; the engine reports
through the progress registry, which the app follows by deltas; `remove` in the
app cancels through the cancellation registry. The service never cancels an
engine call when it stops, so a call may return into a later run. Inside the
engine the planner asks extensions for a download; an extension calls back into
the host for signed requests (signed sessions) and for the transfers, which
write into the attempt directory that the planner made.

What makes each modelled component correct:

* registry of cancellations: exact reference counts, one answer whoever is
  asked, cancellations that stick, no lost wakeup;
* registry of progress: a client that caught up sees exactly the registry, a
  cached snapshot is never silently stale, memory stays bounded;
* service: a stop leaves nothing half done and is final, permits are neither
  lost nor invented, a batch ends visibly;
* queue: no entry hangs with nobody working on it, done stays done, every
  queued entry is settled;
* planner: a file of the library is never replaced by accident, attempts do not
  meet in one directory, a source that forbids fallback is obeyed, no progress
  entry is left behind, every request ends;
* transfers: the output is always a whole object, what is resumed is what the
  checkpoint says, the pool of workers cannot block itself;
* extension manager: a removal or a shutdown meets nothing that still runs and
  is not undone, a pooled runtime is never out of date, a source is not lost,
  the locks never block each other;
* runtime: nothing runs for a caller that left, an interrupted VM is retired
  before anyone hears of it, calls and shutdowns end;
* signed sessions: a clear is final, a late answer does not undo a newer
  session, nobody waits for a flight that no one performs.

## 2. The modules

| Module | Models | Checked by | Proved in |
|---|---|---|---|
| `Cancellation` | `cancellation.rs` | `MCCancellation` | `RegistryProofs` |
| `Progress` | `progress.rs`, `subscription.rs`, `download_loop` of `events.rs` | `MCProgress` | `RegistryProofs` |
| `NativeWorker` | `DownloadForegroundService.kt`, `NativeQueueGate.kt` | `MCNativeWorker` | `NativeWorkerProofs` |
| `DownloadQueue` | `download_queue_provider.dart` | `MCDownloadQueue` | `DownloadQueueProofs` |
| `DownloadPlanner` | `backend/downloads.rs`, `downloads/prepared.rs`, `health.rs` (order), locks of `files.rs`, `core/src/downloads.rs` | `MCDownloadPlanner` | `DownloadPlannerProofs` |
| `SignedSession` | `signed_session/coordinator.rs`, `exchange.rs`, `fetch.rs`, predicates of `protocol.rs` | `MCSignedSession` | `SignedSessionProofs` |
| `StagedFile` | output lock, staging file, sync and rename, failures of process and disk | extended by the next two | |
| `SegmentedTransfer` | `download/segments.rs`, `segment_store.rs` | `MCTransfers` | `TransferProofs` |
| `RangedTransfer` | `download.rs`, `download/chunked.rs`, `store.rs` | `MCTransfers` | `TransferProofs` |
| `ExtensionRuntime` | `runtime.rs`, `runtime/vm.rs` (worker), `runtime/control.rs` | `MCExtensionRuntime` | `ExtensionRuntimeProofs` |
| `ExtensionManager` | `manager.rs`, `manager/install.rs`, `lifecycle.rs`, `downloads.rs`, `info.rs` (loading), `environment.rs` | `MCExtensionManager` | `ExtensionManagerProofs` |
| `AtomicOutput` | what both kinds of transfer promise (abstract) | refined in `MCTransfers` | |

Each module also contains faulty variants of some of its operations (a dropped
guard, a forgotten notify, a missing reset). They are not part of any
specification; substituted for the real operation they show that the property
they belong to can fail.

**Cancellation.** Every public operation holds one mutex and is one action.
`notify` happens after the unlock: `OweNotify` counts the threads in between,
`Notify` is their step. A flag (`Arc<AtomicBool>`) has an identity,
`<<id, generation>>`, because an entry that is removed and created again has a
new one. `wait_cancelled` is `WaitCall`, then `WaitStep` (evaluate the
predicates, return or park) and `Deadline`. A poisoned mutex, the thread list
and the external waker are left out; the latter two are the same notification.

**Progress.** An item keeps the fields that `bridge()` looks at. Percentages
are in units of `1/Full`, bytes in units of which `UpdateBytes` make a bucket,
a speed in tenths; a progress that is not a number is the value `NaN`. A client
has a cursor and a replica; `ApplyDelta` is one return of `wait_delta` together
with the consumer's use of it, `Reconnect` the loop's return to sequence 0. The
sequence (an `i64`) does not wrap in any realistic run and is bounded by
`MaxSeq`. `item()`, which only reads, has no action.

**NativeWorker.** Run ids are 1, 2, ...; `home` says which service object
accepted a run, because coroutines of a destroyed object live on and share only
the snapshot file with the next one. The main thread executes intents one after
the other, in the steps that other threads can observe (`StartQueue`,
`StartForeground`, `Launch`). Each item of a run has a coroutine that goes
through taken - queueing - slotted - check - update - publish - engine - ... A
stop is one step (`StopWorker`): it holds the service monitor, and the only
thing between its `workerStopped = true` and its requeueing is `updateItem`,
which takes the item lock the requeueing takes too. The stop at the end of a
batch is followed by a second step, since the main thread can accept a batch in
between. `ACTION_START` and `ACTION_UPDATE` only touch the notification and the
wake lock and have no action.

**DownloadQueue.** Dart runs one event loop, so a step is what happens between
two awaits. The worker and the engine are external: `worker` is the snapshot
they write, `intents` what is on its way to them, `orphans` the engine calls
that outlived a run. The list's order is abstracted: the next entry is any
queued one. Two assumptions about time are explicit: settings are loaded once,
and a rate-limit timer (at least 5 s) does not fire between the end of a
worker's run and the next poll (0.5 s) (`Polled`). The 30 s watchdog (`Stall`)
fires only when the start intent was really ignored. Pause and resume come from
one toggle button (`lib/screens/queue_screen.dart:44`), so they alternate.
`MaxEvents` bounds the pauses, resumes and stops by the system together;
`MaxAttempts` caps the count of an entry's attempts, which only `RetryHappens`
looks at. `late` is a history variable: an entry is "stopped" once one of its
engine calls outlived a run, and "lost" once the start of a later batch with it
failed (deviation 7).

**DownloadPlanner.** A thread runs one request at a time; `call` is its request
and its place in `plan_download`, and every action is what happens between two
calls that wait. The answers of a provider, its session check and its download
are the action's choice. A path of the library has an output lock and may have
attempt directories beside it. A delivered file whose container or album leads
to another path (`moved`) gives the first lock back before it takes the second,
as the code does. `Abandon` is the failing check that stands between any two
steps; it unwinds what the stack holds. Leases follow `Cancellation`: leases of
one item share a flag, the last release forgets it. Assumed: requests have an
id; no other program writes into the library; all providers plan the same path;
`cancel`'s two registry calls are one step, and so are the report and the drop
of the lease.

**SignedSession.** One scope (namespace) and the clients that share it. Each
critical section of the scope's lock is an action; between two of them a client
is in an HTTP call, waiting for another client's flight, or about to go on.
Sessions are numbers in the order the gateway mints them; `record` also carries
the generation and session its request began with, which the code has in local
variables and the properties need. Bootstrap, refresh and grant exchange are the
three flights; a follower takes the leader's result. Time is `Passing`: a
session becomes due, then expired; a challenge ends after its 180 s.

**StagedFile, SegmentedTransfer, RangedTransfer.** A file is a sequence of
pieces; `synced` is its durable content. After the death of the process the file
stays; after a power loss the durable part stays, followed by any number of
later pieces, written or junk. Renames and removals are durable in order. A
segment is two pieces, so that an append can be cut in the middle; an object on
the server is a sequence of pieces of one version. In `SegmentedTransfer` the
coordinator and every worker are processes and the two channels are bounded; in
`RangedTransfer` the server answers 200, 206 or an error, may ignore a range and
may replace the object at any time. The server is assumed to answer 206 to
`If-Range` only for the version that the validator names, and not to return to
an earlier version.

**ExtensionRuntime.** One runtime. The queue holds commands by caller and number
of the call, since a caller whose call ended may already wait with another one:
`Waits` compares both, as the code compares by the channel end that was dropped.
The worker's steps are receive - offer - execute - script - reply; a script ends
by itself or by the interrupt handler, which looks at the deadline, the lease and
both closed flags. `collect` is the pending garbage collection, which decides
whether an idle worker waits with a timeout.

**ExtensionManager.** One extension. `Admin` is whoever holds the mutation lock;
`Users` are threads that call, download or check a session. An `Installed` value
has a number, so that a user may hold an old one; runtimes have numbers too and
are reused when nothing refers to them. `th` is the place of each thread between
two lock operations or calls that wait. `Touched` is the directory that
`ExtensionStore::open` makes whenever a store is opened. Directories are reduced
to the version they hold: `target`, the `backup` of an upgrade, and `leftover`
for what a crash or a failed rollback leaves. `wanted`, `gone` and `stale` are
history variables for the properties. `Event` counts what may go wrong: a failing
script, file or gate, memory pressure, a shutdown, a crash.

**AtomicOutput** is the promise about the output path: it changes at most once
per call, in one step, to a complete content, and every call ends. `MCTransfers`
composes both kinds of transfer and maps the state to it (`CallOf`).

## 3. What is checked

| Run | Instance | Distinct states | Shows |
|---|---|---|---|
| `cancellation` | 2 ids, 2 leases, 2 flags per id, 2 notifiers | 309 k | exact counts, agreement of both views, cancellation sticks, no lost wakeup without the timeout's help |
| `progress` | 3 ids, limit 1, 4 sequence numbers, all kinds of report | 88 k | exact replicas across pruning, restart and reconnection; snapshots never silently stale |
| `worker_safety` | 1 item, 2 runs, Wi-Fi loss, crash | 1.1 M | stops requeue, stay stopped; permits exact |
| `worker_liveness` | 2 items, 1-2 slots, shared provider | 74 k | batches end visibly |
| `queue` | 2 entries, 3 runs, throwing and dropped starts, system stop, notification, both platforms, 2 events | 282 k | nothing stranded, done sticks, every queued entry settles |
| `transfers` | 2 lists of 3 segments, 2 workers, 2 calls; 2 versions of 3 and 2 pieces, 3 calls; 1 crash | 829 k | slots bounded, resumed data exact, refinement of `AtomicOutput` |
| `session` | 2 clients of 2 extensions, 2 grants, 2 sessions, 1 clear, 2 events | 319 k | clears are final, newer sessions kept, flights owned, calls end |
| `planner` | 2 threads, 2 requests of 1 item, 2 providers, 2 crossing paths, 1 event | 126 k | old files and sources kept, directories owned, no ghost progress, requests end |
| `runtime` | 2 callers, 2 shutdowns, queue of 2, 3 calls | 178 k | no abandoned run, retired before the reply, quiet shutdown, calls end |
| `manager` | 2 users (symmetric), 2 mutations, 1 event, 2 versions, 2 settings, account mode | 1.8 M | quiet removal and shutdown, fresh and pressure-proof pool, sources kept, no late borrower brings data back |
| `queue_retry` | 2 entries, rate limits | violated | deviation 1 |
| `ranged_rewind` | 1 object that grows, 1 crash | violated | deviation 2 |

Each module's type invariant is checked everywhere; in most modules it is one
part of an invariant that also says how the pieces of the state fit together
(`WorkerInv`, `QueueInv`, `TransferInv`, `SessionInv`, `PlannerInv`,
`RuntimeInv`, `ManagerInv`).

Six more configurations are kept beside the runs. `manager_liveness` (1 user, 2
mutations, 1 event, account mode, 48 k states) shows `OperationsEnd`: every
operation ends, so the locks of mutation, engine and pool are never wanted in a
circle. `worker_early_end`, `queue_resume`, `runtime_shutdown`, `manager_data` and
`queue_late` reproduce deviations 3 to 7 (`tlc -config worker_early_end.cfg MCNativeWorker`,
and so on).

*Bounds.* Two ids and two leases let an old lease and its retry share an id, or
two ids coexist; two flags per id let an entry be removed and created again.
Three ids exceed a tombstone limit of one, so that pruning happens and a client
can be on either side of the cutoff. The instances of these two modules are
small because their invariants are proved for all values. Two runs let
the tail of one meet the start of the next; two items make the permits of one
provider contended (`BatchesEnd` is checked with one run). Two entries let one
run outlive the backoff of another entry; the failures of the run `queue` are
rate limits, the ones that lead to further steps, and `EntriesSettle` excepts
behaviours in which `MaxRuns` is used up (`OutOfRuns`), the system stopped a run
or somebody paused. It is the second start that throws, so that one fails after a
run that was stopped. Three segments for two workers let a segment arrive before
its turn while a third job waits; two lists let a checkpoint belong to another
list. In `transfers` the object is replaced by a shorter one: a longer one is
deviation 2; power loss is for segments, whose checkpoints name a number and not a
validator. `MaxIgnored` bounds the ranges a server ignores, and `Mixing = FALSE`
keeps a path to one kind of transfer (both kinds use the same name of staging
file and remove the other's file only when they find no valid checkpoint). Two
requests whose paths lead to each other are the least in which locks can be
wanted in opposite order. A queue of two is full with the calls of two callers
(the code's has 8 places and as many callers as there are threads). Two mutations
are an installation and whatever follows it (`Offered`: the first package is not
the newest); four runtimes are a primary one of
the old and the new entry and one lent to each of two users (an allocation waits
when none is free, which `OperationsEnd` would show in `manager_liveness`). The extension of
the run has `accountDownloadMode`; what its session check does to removed data
(deviation 6) is the exception in `BorrowersLeaveDataGone`. `MaxOps`, `MaxRuns`, `MaxSeq`, `MaxGeneration`,
`MaxNotifiers`, `MaxWifiChanges`, `MaxCalls`, `MaxCrashes`, `MaxSessions`,
`MaxClears`, `MaxRequests` and `MaxEvents` bound counters in the guards. The
queue's, the transfers', the sessions', the planner's, the runtime's and the
manager's runs switch the deadlock check off, because a system without work
rightly does nothing; that work which is there goes on is `EntriesSettle`,
`OutputIsAtomic`, `CallsEnd` and `RequestsEnd`.

*Fairness.* `Cancellation`: a thread that owes a notify, and a waiter that is
awake, run; deadlines get no fairness, so nothing rests on them.
`NativeWorker`: the main looper, each coroutine on its IO thread (the engine's
requests have timeouts, so its calls return), the fallback loop and a callback
that has begun; no fairness for intents or for the delivery of callbacks.
`DownloadQueue`: the event loop runs what is due, timers fire, intents are
delivered and the worker works; none for users or for the system's stop.
`SegmentedTransfer`, `RangedTransfer`: each worker and the coordinator, or the
thread of the call, go on (requests have timeouts, receives poll). `SignedSession`:
each client goes on (requests time out, waits for a flight poll). `DownloadPlanner`:
each thread goes on (extension calls have timeouts, the wait for a lock wakes up
every 10 ms). `ExtensionRuntime`: worker, callers and shutdowns go on and
deadlines pass (every operation has one); a script need not end by itself.
`ExtensionManager`: each thread goes on, strongly fair where it waits for a mutex
that others may take again and again, and a shutdown goes on (scripts and session
checks have deadlines, which `ExtensionRuntime` shows to end them). Nothing is assumed of callers, servers, users, crashes or time.

### Deviations

Where the code does not do what a comment or a test of the repository says. The
first two are runs and are quoted in `PROJECT.json`.

1. *A lost retry* (`RetryHappens`). A rate-limited item whose run outlives the
   backoff is set to "queued" by its timer and back to "failed" by the next
   snapshot of the same run, and has used up its one retry.
2. *A checkpoint that outlives its data* (`RestoredIsComplete`). A 200 answer to
   a resumed request rewinds the staging file (`download.rs:283`) but leaves the
   old checkpoint on disk. When the process dies before the next checkpoint, the
   file holds new bytes under the old description; a checkpoint that says it is
   complete is then published without asking the server. With a longer new
   object the result is its beginning.
3. *A run that looks over before it began* (`NotRunningMeansDone`, `worker_early_end`).
   `startQueueInternal` registers the network callback before it assigns
   `workerJob`; a callback in between publishes `is_running = false` with the
   new run's id. The client ends its poll and cannot start the items again
   while the service is busy with them.
4. *A resume that reaches nobody* (`ResumeContinues`, `queue_resume`; a test is
   named "pause blocks new work; resume continues"). Pause while the requests
   are built, resume while `worker.start` is outstanding: the worker stays
   paused, the queue shows no pause.
5. *A shutdown that waits for ever* (`ShutdownReturns`, `runtime_shutdown`). `Stop` does not fit into
   a full queue; if every queued caller leaves before its turn, an idle worker
   drains the queue and blocks, and the shutdown that joins it does too.
6. *Data that comes back* (`DataStaysGone`, `manager_data`). A session check of an extension with
   `accountDownloadMode` looks the extension up and then reads its settings
   without a lock; a removal in between is followed by a new data directory.
7. *An entry that is never taken again* (`LateRevivesNothing`, `queue_late`; the
   comment at `download_queue_provider.dart:955` says "Late engine progress cannot
   revive an item requeued by native stop"). The next batch clears
   `_nativeRunStopped` (line 250), so while its requests are built, progress of a
   call of the stopped run turns the entry into "downloading". If `worker.start`
   (line 431) then throws, the `finally` block leaves the entry as it is, and when
   the late call fails nothing corrects it: `_processQueue` takes only queued
   entries. The first form of `NothingStranded` had no exception for this and
   could not be proved; the run's start that failed was then the first one, where
   no call can be late.

Met on the way and not a disagreement with any stated promise (most are notes of
the hazards in `PROJECT.json`): a follower of a session flight inherits the leader's
cancellation; a request that moved to another path can lose its attempt directory
to a newer request of the first path, and then fails; an old request's report can
remove the progress entry of a newer one of the same id; a source that is
unloaded after it forbade fallback is skipped; a crash between the two renames of
an upgrade keeps the old package, but under a name that `load_all` refuses;
`update_settings` drops the stored enabled flag unless its caller sends it; during
an upgrade the old entry can still be asked to load and then fails, or loads the
new code under the old manifest; `pollProgress` may renew the wake lock after a
stop released it, until its period ends; if `worker.start` throws every time, the
queue tries again without a pause.

## 4. What is proved

The modules `...Proofs` prove, for every value of the constants that satisfies
the assumptions named below (so for any number of threads, items, extensions,
sessions and runs, and any bound), that these hold of the specification:

| Module | Theorems, and the properties they state |
|---|---|
| `RegistryProofs` | of `Progress`: `TypeCorrect`, `ReplicaIsExact`, `SnapshotIsFresh`, `DeltasAreConsistent`, `TombstonesStayBounded`; of `Cancellation`: `CancelTypeCorrect`, `ReferencesAreExact`, `ViewsAlwaysAgree`, `IdleEntriesAreSentinels`, `CancellationSticks` |
| `DownloadQueueProofs` | `NothingIsStranded` (`QueueInv`), `DoneStaysDone` (`DoneSticks`), `WorkerIsWatched`, `RetriedOnce` |
| `NativeWorkerProofs` | `PermitsAreExact` (`WorkerInv`), `StopRequeues` (`StoppedMeansRequeued`), `StopIsPublished` (`StoppedNotRunning`) |
| `DownloadPlannerProofs` | `LockOwnsDirectory` (`PlannerInv`), `NothingRunsAlone` (`NoGhostProgress`), `SourceDecides` (`SourceKept`), `NothingOverwritten` (`OldFilesKept`) |
| `SignedSessionProofs` | `FlightsHaveOneOwner` (`SessionInv`), `ClearIsFinal` (`ClearedStaysCleared`), `LateAnswerHarmless` (`NewerSessionKept`) |
| `ExtensionRuntimeProofs` | `NoScriptForNobody` (`RuntimeInv`), `InterruptedMeansRetired` (`RetiredBeforeReply`), `ShutdownLeavesQuiet` (`ShutdownIsQuiet`) |
| `TransferProofs` | `TransferInvHolds` (`TransferInv`), `ContinuesHolds` (`ContinuesWhereItStopped`), `SegmentsExactHolds` (`ResumedSegmentsExact`), `RangeExactHolds` (`ResumedRangeExact`), `OutputSafe` (the safety part of `OutputIsAtomic`) |
| `ExtensionManagerProofs` | `BorrowersGetTheirSettings` (`ManagerInv`), `RemovalIsAlone` (`QuietRemoval`), `PressureIsFinal` (`PressureHolds`), `SourceSurvives` (`SourceKept`), `ShutdownLeavesNoRuntime` (`ShutdownIsQuiet`), `LateBorrowersAreHarmless` (`BorrowersLeaveDataGone`) |

`IdleIsSentinel` (an entry without references is a cancelled sentinel) and
`TombstonesBounded` are theorems and not part of a run; so are
`WorkerWatched` (a worker at work is polled, by the batch that sent it its
entries) and `OneTimer` (an entry gets its rate-limit timer once), which
`DownloadQueueProofs` states itself.

Every proof has the same shape. The properties are not inductive alone; the
module defines an invariant `IInv`, a conjunction of named parts, and proves
`Init => IInv`, one lemma per action (or per group of actions that disturb the
same parts) for `IInv /\ Next => IInv'`, and `IInv => Inv`. Action properties
follow from `IInv` and `Next`, one case per action.

*Cancellation.* `RegistryProofs` extends both registries, which is why some names of
`Cancellation` carry a prefix or differ (`CancelInit`, `CancelSpec`, `shut` for
`State.closed`). `CancelIInv` says that the counter of an id is the number of its
holders (`CountsHolders`), that a held lease has its entry (`HeldHasEntry`), that
its flag is the current flag of that entry (`SharesFlag`: without it an acquire
could bring the two views apart), that a closed registry is empty
(`ClosedIsEmpty`) and that idle entries are sentinels. The counting part uses the
cardinality theorems for adding and removing one element.

*Progress.* `ReplicaExact` speaks only of a client that has caught up. The
invariant says what a lagging client can be wrong about: every difference
between its replica and the registry is announced by a revision or a tombstone
newer than its cursor, unless the cursor is below the reset mark or zero, in
which case the next delta replaces everything. Revisions and tombstones never
exceed the sequence, and live ids have no tombstone. Pruning preserves this
since the reset mark reaches the cutoff.

*DownloadQueue.* `NothingStranded` speaks of the moments without a batch. The
invariant names who takes care of an entry at every moment (`Covered`): an entry
that shows a download, or that late progress may still make show one, is in
`ctl.left`, or its timer runs, or it is lost. A batch ends in three ways, and each
needs a part of its own. After a native run: a snapshot of an ended run shows
nothing in progress (`Sound`, `Working`), what was read is behind the worker only by
what went on since (`Reading`), and a run that stopped with work left sets
`runStopped`, which keeps late progress out. After the fallback: it drops an entry
only when that is settled or waits for its timer (`Timers`). After a start that
throws: until then only a call that outlived a run can have touched an entry of the
batch (`Building`, `Engines`), which makes it "lost". `Starting` says that at most
one start is on its way and that it is the current run's, so a worker never works
for a batch that nobody polls. The parts take the controller's record as a
parameter, because a step first writes its fields and then may start the next batch
(`Kick`); `KickGood` and `LeaveGood` treat that second half once. `DoneSticks` needs
the types only, one case per action that writes a status.

*NativeWorker.* The invariant ties runs to the service objects that accepted them
(`ServiceInv`), says that at most one job is active and that a run being accepted
has none yet (`JobInv`), that only coroutines of an active job wait for a permit
(`CoroutineInv`), and that an item is handed out once (`IteratorInv`: the
requests of a batch differ). `PermitsExact` compares a counter with the
cardinality of the set of coroutines that hold a permit, so acquire and release
use the cardinality theorems. `StoppedMeansRequeued` is inductive because a late
coroutine looks at the stop flag under the same lock.

*DownloadPlanner.* `LockInv` says that a thread holds the lock of its destination
exactly while it downloads or publishes, and no other; `LibraryInv` that a thread
about to write its planned path finds there what it found when it took the lock;
`NumberInv` that running requests have different numbers, which is how the
directories of `DirectoryInv` tell their owners apart. `SourceBound` carries the
decision of the source from the moment it is read to the moment another provider
would be asked. That the filter of the priority list (`Keep`, a
recursive function) returns a list of providers is shown through a least
counterexample, since the library's induction theorems cannot be used here.

*SignedSession.* `FlightsOwned` makes `FlightInv` inductive: a flight has a leader
that is at work on it, and every leader's flight is the registered one. The store
never holds a session that is older than the last clear (`StoreInv`), because an
answer is stored only when the generation is the one its request began with.

*ExtensionRuntime.* While the worker serves a command its caller is at "running"
with that same call (`Served`): nobody leaves without the worker's noticing.
`CutIsClosed` says that an interrupted script means a retired runtime, and
`ShutdownOrder` how far each shutdown has come: a closed runtime takes no session
check, and a stopped worker stays stopped.

*ExtensionManager.* The parts are the places of threads (`ThreadInv`, `AdminInv`,
`RoleInv`), entries (`EntryInv`, `EngineInv`), runtimes (`PoolInv`, `OpenInv`), and
the disk (`DiskInv`, `SettingsInv`, `StaleInv`). Three ideas carry them. A busy user
belongs to the registered entry, to an entry whose teardown still waits for it, or
everything is closed (`BusyInv`), hence a removal that has seen the users leave is
alone. Every runtime has one place: primary, idle, lent or closed, and a borrower's
generation is behind the pool's once memory ran short. `backup` is there exactly
between the two renames of an upgrade, and after a complete removal nothing is
registered and no source is left.

*Transfers.* For the pool of a segmented download: a segment that was taken is in
one place only - at a worker, in the results, or pending (`TakenInv`); the channel
of jobs holds the segments from the first untaken one to `nextJob`; and `nextJob`
never exceeds `next + slots` (`JobsInv`). So the segments that hold a slot lie in an
interval of that length, which is `SlotsBounded`. For the disk (`DiskInv`): the
staging file begins with the assembled segments; half a segment is left behind
only by a failure, and then that segment is lost to the pool, so nothing can be
appended after it; a checkpoint describes pieces that are both written and
durable, so any content that survives a power loss begins with them
(`SurvivorsBegin`). For plain and chunked downloads (`DataInv`): there is one version
`v` whose beginning the staging file is, and neither the checkpoint nor the
validators in memory name a later one; a server that answers 206 for a validator
has a version that is not earlier, hence `v` itself. A chunked call without a
validator relies on the object staying, as the model states. The hypotheses are
stated in the theorems: a path is used by one kind of transfer (`~Mixing`), and the
machine does not die under a plain or chunked download, both as in the run; and
for `OutputSafe` no object is replaced by a longer one (`Shrinks`), which is
exactly what deviation 2 needs. `TransferInvHolds` and `ContinuesHolds` need none of
these.

*Assumptions.* Those stated by name in the modules, which TLC evaluates on every
run: finite sets of leases, ids and items, natural bounds, the empty id outside
the ids, byte counts that are not negative, requests of a batch that differ,
restored sessions of known extensions, versions and entries numbered from 1, a
second path that differs from the first, at least one segment, worker, attempt and
version, chunks that are not empty.

*Only model-checked.* Liveness (`NoLostWakeup`, `BatchesEnd`, `EntriesSettle`,
`CallsEnd`, `RequestsEnd`, `OperationsEnd`, the end of calls in `OutputIsAtomic`),
which the proof system does not treat under fairness. Every invariant and action
property that a passing run checks is also a theorem.

## 5. Not modelled

The parts listed in section 1 without a module, for the reasons in
`PROJECT.json`: byte formats, parsing, network and file I/O, the JavaScript
interpreter, the user interface and tables of data (such as the case tables of
the MusicBrainz metadata) are outside what a small model can say something
about. In the modelled parts: notification and wake lock, texts, paths, byte
counts of the service's items, generations of desktop event streams, the
per-path lock of post-processing, matching, tags and covers of a download,
signatures and headers of signed requests, loading and host calls of a runtime, a
panicking worker, provider priorities, the manager's public `initialize` and
`cleanup` (which take no mutation lock), and delays.

## 6. Plan

Models: `ProgressStream` (generations of the desktop event streams); `RustEngine`
(initialisation with buffered configuration); an abstract service that
`NativeWorker` refines and `DownloadQueue` uses in place of its external worker;
caches, coalescing and rate limits of the providers.
