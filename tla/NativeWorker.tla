---------------------------- MODULE NativeWorker ----------------------------
(***************************************************************************)
(* The Android foreground service that runs a batch of downloads           *)
(* (DownloadForegroundService.kt) and its admission gate                   *)
(* (NativeQueueGate.kt).                                                   *)
(*                                                                         *)
(* Four kinds of thread touch the service.  The main thread delivers       *)
(* intents, onTimeout and onDestroy one at a time.  The coroutines of a    *)
(* batch run on Dispatchers.IO, one per slot.  The batch's parent          *)
(* coroutine waits for them and then stops the service.  The connectivity  *)
(* thread, or the five second fallback job, refreshes the network state.   *)
(* A process death may come at any moment and leaves only the snapshot     *)
(* file.                                                                   *)
(*                                                                         *)
(* Two locks matter.  workerItemsLock makes updateItem one step.  The      *)
(* monitor of the service object is held by writeSnapshot, ensureWakeLock  *)
(* and stopForegroundService; only the stop of a batch's own tail is split *)
(* in two steps (StopTail, ReleaseTail), because only there does the main  *)
(* thread, which does not take the monitor to accept a batch, come between *)
(* them.                                                                   *)
(*                                                                         *)
(* Left out: the notification and the wake lock, byte counts, error texts  *)
(* and paths of an item, the pause reason inside the snapshot, and the     *)
(* order of two finalizers of one path (OutputPostProcessor).              *)
(***************************************************************************)
EXTENDS Naturals, Sequences, FiniteSets

CONSTANTS
    Items,           \* item ids
    Requests,        \* the batches a client may send: sequences of distinct items
    Limits,          \* values of concurrent_downloads, already coerced to 1..3
    WifiModes,       \* values of wifi_only
    Provider,        \* the download provider of each item
    ProviderLimit,   \* network_concurrency_limit of each provider, coerced to 1..3
    MaxRuns,         \* bound: batches accepted
    MaxWifiChanges,  \* bound: how often Wi-Fi comes and goes
    MayCrash,        \* whether the process may be killed
    MayFailWrite     \* whether a write of the snapshot file may fail

Runs == 1..MaxRuns
Elements(s) == {s[n] : n \in DOMAIN s}

ASSUME ConstantsAssumption ==
    /\ MaxRuns \in Nat /\ MaxWifiChanges \in Nat
    /\ MayCrash \in BOOLEAN /\ MayFailWrite \in BOOLEAN
    /\ WifiModes \subseteq BOOLEAN
    /\ Limits \subseteq 1..3
    /\ IsFiniteSet(Items)
    /\ \A s \in Requests : /\ s \in Seq(Items) /\ s # <<>>
                            /\ \A m, n \in DOMAIN s : s[m] = s[n] => m = n
    /\ \A i \in Items : ProviderLimit[Provider[i]] \in 1..3

VARIABLES
    instance,   \* which service object is current; earlier ones are destroyed
    phase,      \* "none", "alive", or "doomed": stopSelf() accepted, onDestroy due
    started,    \* runs accepted so far; run ids are never reused
    home,       \* the service object that accepted a run
    run,        \* currentRunId, 0 for ""
    stopped,    \* workerStopped
    job,        \* workerJob, 0 for null
    active,     \* runs whose job is active
    status,     \* the workerItems of each run, "absent" when not in it
    pending,    \* what the shared iterator of runAll has not handed out
    co,         \* the coroutine working on an item: where it is, and the
                \* status it is about to report
    free,       \* permits left in the gate's semaphore
    gate,       \* the gate: its flags, its limit and the wifi_only setting
    tail,       \* the parent coroutine of a run, from joinAll on
    main,       \* what the main thread is in the middle of
    net,        \* what the connectivity thread is in the middle of, and for
                \* which service object
    air,        \* Wi-Fi: is it there, does a callback wait, do we listen,
                \* how often has it changed
    snap,       \* the snapshot file
    unwritten   \* for the properties only: the last snapshot that was to be
                \* written did not reach the file

vars == <<instance, phase, started, home, run, stopped, job, active, status,
          pending, co, free, gate, tail, main, net, air, snap, unwritten>>
threads == <<main, net, air, gate, instance, phase, started, home, run>>

Statuses == {"absent", "queued", "downloading", "finalizing", "done", "failed"}
Places == {"none", "taken", "queueing", "slotted", "check", "update",
           "publish", "engine", "post", "finished"}
Unstarted == {"none", "taken", "queueing", "slotted"}

TypeOK ==
    /\ instance \in 1..started + 1
    /\ phase \in {"none", "alive", "doomed"}
    /\ started \in 0..MaxRuns
    /\ home \in [Runs -> Nat]
    /\ run \in 0..started
    /\ stopped \in BOOLEAN
    /\ job \in 0..started
    /\ active \subseteq 1..started
    /\ status \in [0..MaxRuns -> [Items -> Statuses]]
    /\ pending \in [Runs -> Seq(Items)]
    /\ co \in [Runs -> [Items -> [at : Places, to : Statuses]]]
    /\ gate \in [manual : BOOLEAN, network : BOOLEAN, limit : 1..3, wifiOnly : BOOLEAN]
    /\ free \in 0..gate.limit
    /\ tail \in [Runs -> {"none", "work", "report", "stop", "release", "done"}]
    /\ main \in {"idle", "foreground", "launch", "publishRunning", "publishEnded"}
    /\ net \in [at : {"idle", "publishRunning", "publishEnded"}, home : Nat]
    /\ air \in [wifi : BOOLEAN, notice : BOOLEAN, listening : BOOLEAN,
                changes : 0..MaxWifiChanges]
    /\ snap \in [run : 0..started, running : BOOLEAN, items : [Items -> Statuses]]
    /\ unwritten \in BOOLEAN

Idle == [at |-> "none", to |-> "queued"]
Finished == [at |-> "finished", to |-> "queued"]
FreshGate == [manual |-> FALSE, network |-> FALSE, limit |-> 1, wifiOnly |-> FALSE]
AtRest == [at |-> "idle", home |-> 0]
NoItems == [i \in Items |-> "absent"]

Init ==
    /\ instance = 1 /\ phase = "none" /\ started = 0
    /\ home = [r \in Runs |-> 0]
    /\ run = 0 /\ stopped = TRUE /\ job = 0 /\ active = {}
    /\ status = [r \in 0..MaxRuns |-> NoItems]
    /\ pending = [r \in Runs |-> <<>>]
    /\ co = [r \in Runs |-> [i \in Items |-> Idle]]
    /\ free = FreshGate.limit
    /\ gate = FreshGate
    /\ tail = [r \in Runs |-> "none"]
    /\ main = "idle" /\ net = AtRest
    /\ air \in [wifi : BOOLEAN, notice : {FALSE}, listening : {FALSE}, changes : {0}]
    /\ snap = [run |-> 0, running |-> FALSE, items |-> NoItems] /\ unwritten = FALSE

-----------------------------------------------------------------------------
(* The pieces the handlers are made of. *)

\* The coroutine of a destroyed service object still sees that object's
\* fields: workerStopped is TRUE there for good.
Stale(r) == home[r] # instance
LastRun(k) == CHOOSE r \in Runs : home[r] = k /\ \A q \in Runs : home[q] = k => q <= r

PauseReason ==
    IF gate.manual THEN "paused" ELSE IF gate.network THEN "waiting_wifi" ELSE "none"
Paused == PauseReason # "none"

\* stopForegroundService holds the monitor between the two steps of a tail.
MonitorFree == \A r \in Runs : tail[r] = "release" => Stale(r)

UpdateItemAlways(r, i, s) ==
    status' = IF Stale(r) \/ status[run][i] = "absent"
              THEN status ELSE [status EXCEPT ![run][i] = s]
UpdateItem(r, i, s) ==
    status' = IF stopped \/ Stale(r) \/ status[run][i] = "absent"
              THEN status ELSE [status EXCEPT ![run][i] = s]

\* The temporary file and its rename.  A failure of either is logged and
\* forgotten: the earlier snapshot stays.
WriteFile(snapshot) ==
    \/ snap' = snapshot /\ unwritten' = FALSE
    \/ MayFailWrite /\ snap' = snap /\ unwritten' = TRUE

WriteSnapshotAlways(running) ==
    WriteFile([run |-> run, running |-> running, items |-> status[run]])
\* writeSnapshot in the current service object.
WriteSnapshot(running) ==
    IF running /\ stopped
    THEN UNCHANGED <<snap, unwritten>>
    ELSE WriteFile([run |-> run, running |-> running, items |-> status[run]])

\* A writeSnapshot(false) that reaches the file, which all objects share, after
\* its own object was destroyed.
WriteStaleSnapshot(k) ==
    WriteFile([run |-> LastRun(k), running |-> FALSE, items |-> status[LastRun(k)]])

RequeueOnStop(items) ==
    [i \in Items |-> IF items[i] \in {"downloading", "finalizing"}
                     THEN "queued" ELSE items[i]]

\* A cancelled job: coroutines waiting for a permit or a slot die in that
\* wait, the others at their next ensureActive.
Cancelled(r) ==
    IF r = 0 THEN co
    ELSE [co EXCEPT ![r] = [i \in Items |->
             IF co[r][i].at \in Unstarted THEN Finished ELSE co[r][i]]]

\* stopForegroundService up to workerJob = null.
StopWorker ==
    /\ stopped' = TRUE
    /\ status' = IF stopped THEN status
                 ELSE [status EXCEPT ![run] = RequeueOnStop(status[run])]
    /\ IF stopped
       THEN UNCHANGED <<snap, unwritten>>
       ELSE WriteFile([run |-> run, running |-> FALSE, items |-> RequeueOnStop(status[run])])
    /\ co' = Cancelled(job)
    /\ active' = active \ {job}
    /\ job' = 0

\* refreshQueueState: the argument is read before the monitor is taken.
RefreshRead ==
    IF stopped THEN "idle" ELSE IF job \in active THEN "publishRunning" ELSE "publishEnded"

-----------------------------------------------------------------------------
(* The main thread: intents, onTimeout, onDestroy. *)

\* startQueueInternal up to registerNetworkCallback.  A batch that arrives
\* while workerJob is active is dropped without a trace.
StartQueue(requests, limit, wifiOnly, paused) ==
    /\ main = "idle" /\ started < MaxRuns
    /\ job \notin active
    /\ started' = started + 1
    /\ run' = started'
    /\ home' = [home EXCEPT ![started'] = instance]
    /\ phase' = IF phase = "none" THEN "alive" ELSE phase
    /\ stopped' = FALSE
    /\ status' = [status EXCEPT ![started'] =
                    [i \in Items |-> IF i \in Elements(requests) THEN "queued" ELSE "absent"]]
    /\ pending' = [pending EXCEPT ![started'] = requests]
    /\ gate' = [manual |-> paused, network |-> wifiOnly /\ ~air.wifi,
                limit |-> limit, wifiOnly |-> wifiOnly]
    /\ free' = limit
    /\ air' = [air EXCEPT !.listening = wifiOnly, !.notice = wifiOnly]
    /\ main' = "foreground"
    /\ UNCHANGED <<instance, job, active, co, tail, net, snap, unwritten>>

\* startForegroundService (ensureWakeLock takes the monitor), writeSnapshot.
StartForeground ==
    /\ main = "foreground" /\ MonitorFree
    /\ WriteSnapshot(TRUE)
    /\ main' = "launch"
    /\ UNCHANGED <<instance, phase, started, home, run, stopped, job, active,
                   status, pending, co, free, gate, tail, net, air>>

Launch ==
    /\ main = "launch"
    /\ job' = run
    /\ active' = (active \ {job}) \cup {run}
    /\ tail' = [tail EXCEPT ![run] = "work"]
    /\ main' = "idle"
    /\ UNCHANGED <<instance, phase, started, home, run, stopped, status,
                   pending, co, free, gate, net, air, snap, unwritten>>

\* An empty or unreadable batch only brings the service object to life.
StartNothing ==
    /\ main = "idle" /\ phase = "none"
    /\ phase' = "alive"
    /\ UNCHANGED <<instance, started, home, run, stopped, job, active, status,
                   pending, co, free, gate, tail, main, net, air, snap, unwritten>>

\* ACTION_STOP, a null intent, onTimeout.
ForcedStop ==
    /\ main = "idle" /\ MonitorFree
    /\ StopWorker
    /\ air' = [air EXCEPT !.listening = FALSE, !.notice = FALSE]
    /\ phase' = "doomed"
    /\ UNCHANGED <<instance, started, home, run, pending, free, gate, tail, main, net>>

\* An object that never accepted a batch leaves no thread behind: its number is
\* used again.
NextInstance == IF \E r \in Runs : home[r] = instance THEN instance + 1 ELSE instance

\* onDestroy, and the fresh fields of the service object that comes next.
OnDestroy ==
    /\ main = "idle" /\ phase = "doomed" /\ MonitorFree
    /\ StopWorker
    /\ air' = [air EXCEPT !.listening = FALSE, !.notice = FALSE]
    /\ instance' = NextInstance
    /\ phase' = "none" /\ run' = 0
    /\ gate' = FreshGate /\ free' = FreshGate.limit
    /\ UNCHANGED <<started, home, pending, tail, main, net>>

\* ACTION_PAUSE and ACTION_RESUME with a batch, up to the monitor.
PauseIntent(paused) ==
    /\ main = "idle" /\ job \in active
    /\ gate' = [gate EXCEPT !.manual = paused]
    /\ main' = RefreshRead
    /\ UNCHANGED <<instance, phase, started, home, run, stopped, job, active,
                   status, pending, co, free, tail, net, air, snap, unwritten>>

\* Without one: stopSelf(startId), void when a later intent is on its way.
PauseIntentIdle ==
    /\ main = "idle" /\ job \notin active
    /\ phase # "doomed"
    /\ phase' \in {"alive", "doomed"}
    /\ UNCHANGED <<instance, started, home, run, stopped, job, active, status,
                   pending, co, free, gate, tail, main, net, air, snap, unwritten>>

RefreshMain ==
    /\ main \in {"publishRunning", "publishEnded"} /\ MonitorFree
    /\ WriteSnapshot(main = "publishRunning")
    /\ main' = "idle"
    /\ UNCHANGED <<instance, phase, started, home, run, stopped, job, active,
                   status, pending, co, free, gate, tail, net, air>>

-----------------------------------------------------------------------------
(* The connectivity thread and the fallback job. *)

WifiChange ==
    /\ air.changes < MaxWifiChanges
    /\ air' = [air EXCEPT !.wifi = ~@, !.notice = air.listening, !.changes = @ + 1]
    /\ UNCHANGED <<instance, phase, started, home, run, stopped, job, active,
                   status, pending, co, free, gate, tail, main, net, snap, unwritten>>

\* onLost or onCapabilitiesChanged, which the system may also fail to deliver.
NetworkCallback ==
    /\ air.listening /\ air.notice /\ net.at = "idle"
    /\ gate' = [gate EXCEPT !.network = gate.wifiOnly /\ ~air.wifi]
    /\ air' = [air EXCEPT !.notice = FALSE]
    /\ net' = [at |-> RefreshRead, home |-> instance]
    /\ UNCHANGED <<instance, phase, started, home, run, stopped, job, active,
                   status, pending, co, free, tail, main, snap, unwritten>>

MissCallback ==
    /\ air.notice
    /\ air' = [air EXCEPT !.notice = FALSE]
    /\ UNCHANGED <<instance, phase, started, home, run, stopped, job, active,
                   status, pending, co, free, gate, tail, main, net, snap, unwritten>>

\* The loop that asks every five seconds while the gate waits for Wi-Fi.
NetworkFallbackManual ==
    /\ air.listening /\ net.at = "idle"
    /\ PauseReason = "paused"
    /\ gate' = [gate EXCEPT !.network = gate.wifiOnly /\ ~air.wifi]
    /\ net' = [at |-> RefreshRead, home |-> instance]
    /\ UNCHANGED <<instance, phase, started, home, run, stopped, job, active,
                   status, pending, co, free, tail, main, air, snap, unwritten>>
NetworkFallback ==
    /\ air.listening /\ net.at = "idle"
    /\ PauseReason = "waiting_wifi"
    /\ gate' = [gate EXCEPT !.network = gate.wifiOnly /\ ~air.wifi]
    /\ net' = [at |-> RefreshRead, home |-> instance]
    /\ UNCHANGED <<instance, phase, started, home, run, stopped, job, active,
                   status, pending, co, free, tail, main, air, snap, unwritten>>

RefreshNet ==
    /\ net.at # "idle"
    /\ IF net.home = instance
       THEN MonitorFree /\ WriteSnapshot(net.at = "publishRunning")
       ELSE IF net.at = "publishEnded" THEN WriteStaleSnapshot(net.home)
       ELSE UNCHANGED <<snap, unwritten>>
    /\ net' = AtRest
    /\ UNCHANGED <<instance, phase, started, home, run, stopped, job, active,
                   status, pending, co, free, gate, tail, main, air>>

-----------------------------------------------------------------------------
(* The coroutines of a batch: runAll, withSlot, processItem. *)

Holding(r, places) == {i \in Items : co[r][i].at \in places}
Working == Places \ {"none", "finished"}
Move(r, i, place) == co' = [co EXCEPT ![r][i].at = place]

Take(r) ==
    /\ r \in active /\ pending[r] # <<>>
    /\ Cardinality(Holding(r, Working)) < gate.limit
    /\ Move(r, Head(pending[r]), "taken")
    /\ pending' = [pending EXCEPT ![r] = Tail(@)]
    /\ UNCHANGED <<threads, stopped, job, active, status, free, tail, snap, unwritten>>

\* provider.withPermit
TakePermit(r, i) ==
    /\ co[r][i].at = "taken"
    /\ LET limit == ProviderLimit[Provider[i]]
           peers == {j \in Holding(r, Working \ {"taken"}) : Provider[j] = Provider[i]}
       IN  Cardinality(peers) < IF limit < gate.limit THEN limit ELSE gate.limit
    /\ Move(r, i, "queueing")
    /\ UNCHANGED <<threads, stopped, job, active, status, pending, free, tail, snap, unwritten>>

AcquireSlot(r, i) ==
    /\ co[r][i].at = "queueing" /\ free > 0
    /\ free' = free - 1
    /\ Move(r, i, "slotted")
    /\ UNCHANGED <<threads, stopped, job, active, status, pending, tail, snap, unwritten>>

\* The permit plus this check admits an item; refused, it gives the permit back.
CheckSlotKeepsSlot(r, i) ==
    /\ co[r][i].at = "slotted"
    /\ IF Paused THEN Move(r, i, "queueing")
                 ELSE co' = [co EXCEPT ![r][i] = [at |-> "check", to |-> "downloading"]]
    /\ UNCHANGED <<threads, stopped, job, active, status, pending, free, tail, snap, unwritten>>
CheckSlot(r, i) ==
    /\ co[r][i].at = "slotted"
    /\ IF Paused
       THEN free' = free + 1 /\ Move(r, i, "queueing")
       ELSE free' = free /\ co' = [co EXCEPT ![r][i] = [at |-> "check", to |-> "downloading"]]
    /\ UNCHANGED <<threads, stopped, job, active, status, pending, tail, snap, unwritten>>

\* ensureActive() before a status is reported.
EnsureActive(r, i) ==
    /\ co[r][i].at = "check"
    /\ co' = [co EXCEPT ![r][i] = IF r \in active THEN [@ EXCEPT !.at = "update"] ELSE Finished]
    /\ UNCHANGED <<threads, stopped, job, active, status, pending, free, tail, snap, unwritten>>

Update(r, i) ==
    /\ co[r][i].at = "update"
    /\ UpdateItem(r, i, co[r][i].to)
    /\ Move(r, i, "publish")
    /\ UNCHANGED <<threads, stopped, job, active, pending, free, tail, snap, unwritten>>

\* writeSnapshot(true), then the blocking step the status announces; after a
\* terminal status the slot is released.
Publish(r, i) ==
    /\ co[r][i].at = "publish" /\ (MonitorFree \/ Stale(r))
    /\ IF Stale(r) THEN UNCHANGED <<snap, unwritten>> ELSE WriteSnapshot(TRUE)
    /\ LET next == CASE co[r][i].to = "downloading" -> "engine"
                     [] co[r][i].to = "finalizing" -> "post"
                     [] OTHER -> "finished"
       IN  /\ co' = [co EXCEPT ![r][i] =
                        IF next = "finished" THEN Finished ELSE [@ EXCEPT !.at = next]]
           /\ free' = IF next = "finished" /\ r \in active THEN free + 1 ELSE free
    /\ UNCHANGED <<threads, stopped, job, active, status, pending, tail>>

\* isDuplicate answers yes ("done"), or downloadByStrategy returns.  It is not
\* cancelled by a stop, so it may return much later.
EngineReturns(r, i, result) ==
    /\ co[r][i].at = "engine"
    /\ co' = [co EXCEPT ![r][i] = [at |-> "check", to |-> result]]
    /\ UNCHANGED <<threads, stopped, job, active, status, pending, free, tail, snap, unwritten>>

PostProcessed(r, i) ==
    /\ co[r][i].at = "post"
    /\ co' = [co EXCEPT ![r][i] = [at |-> "check", to |-> "done"]]
    /\ UNCHANGED <<threads, stopped, job, active, status, pending, free, tail, snap, unwritten>>

\* Any exception out of processItem is caught by runWorker, which does not
\* look whether the job is still active.
PostThrows(r, i) ==
    /\ co[r][i].at = "post"
    /\ co' = [co EXCEPT ![r][i] = [at |-> "update", to |-> "failed"]]
    /\ UNCHANGED <<threads, stopped, job, active, status, pending, free, tail, snap, unwritten>>

\* pollProgress, once a second while the engine works.
PollProgress(r) ==
    /\ r \in active /\ Holding(r, {"engine"}) # {} /\ MonitorFree
    /\ WriteSnapshot(TRUE)
    /\ UNCHANGED <<threads, stopped, job, active, status, pending, co, free, tail>>

-----------------------------------------------------------------------------
(* The end of runWorker. *)

JoinAll(r) ==
    /\ tail[r] = "work" /\ r \in active
    /\ pending[r] = <<>> /\ Holding(r, Working) = {}
    /\ tail' = [tail EXCEPT ![r] = "report"]
    /\ UNCHANGED <<threads, stopped, job, active, status, pending, co, free, snap, unwritten>>

\* writeSnapshot(isRunning = false) does not suspend: it happens even when the
\* job was cancelled in the meantime.
ReportEnd(r) ==
    /\ tail[r] = "report" /\ (MonitorFree \/ Stale(r))
    /\ IF Stale(r)
       THEN WriteStaleSnapshot(home[r])
       ELSE WriteSnapshot(FALSE)
    /\ tail' = [tail EXCEPT ![r] = "stop"]
    /\ UNCHANGED <<threads, stopped, job, active, status, pending, co, free>>

StopTail(r) ==
    /\ tail[r] = "stop" /\ ~Stale(r) /\ MonitorFree
    /\ StopWorker
    /\ tail' = [tail EXCEPT ![r] = "release"]
    /\ UNCHANGED <<threads, pending, free>>

StopStaleTail(r) ==
    /\ tail[r] = "stop" /\ Stale(r)
    /\ tail' = [tail EXCEPT ![r] = "done"]
    /\ UNCHANGED <<threads, stopped, job, active, status, pending, co, free, snap, unwritten>>

\* unregisterNetworkCallback, stopForeground, stopSelf().
ReleaseTail(r) ==
    /\ tail[r] = "release"
    /\ air' = [air EXCEPT !.listening = FALSE, !.notice = FALSE]
    /\ phase' = "doomed"
    /\ tail' = [tail EXCEPT ![r] = "done"]
    /\ UNCHANGED <<instance, started, home, run, stopped, job, active, status,
                   pending, co, free, gate, main, net, snap, unwritten>>

-----------------------------------------------------------------------------
\* The process is killed: every thread is gone, the file stays.
Crash ==
    /\ MayCrash /\ phase # "none"
    /\ instance' = NextInstance
    /\ phase' = "none" /\ run' = 0 /\ stopped' = TRUE /\ job' = 0 /\ active' = {}
    /\ pending' = [r \in Runs |-> <<>>]
    /\ co' = [r \in Runs |-> [i \in Items |-> Idle]]
    /\ tail' = [r \in Runs |-> "none"]
    /\ main' = "idle" /\ net' = AtRest
    /\ gate' = FreshGate /\ free' = FreshGate.limit
    /\ air' = [air EXCEPT !.listening = FALSE, !.notice = FALSE]
    /\ UNCHANGED <<started, home, status, snap, unwritten>>

Coroutine(r, i) ==
    \/ TakePermit(r, i) \/ AcquireSlot(r, i) \/ CheckSlot(r, i)
    \/ EnsureActive(r, i) \/ Update(r, i) \/ Publish(r, i)
    \/ \E result \in {"done", "failed", "finalizing"} : EngineReturns(r, i, result)
    \/ PostProcessed(r, i) \/ PostThrows(r, i)

ParentCoroutine(r) ==
    Take(r) \/ JoinAll(r) \/ ReportEnd(r) \/ StopTail(r) \/ StopStaleTail(r) \/ ReleaseTail(r)

Intents ==
    \/ \E s \in Requests, n \in Limits, w \in WifiModes, p \in BOOLEAN : StartQueue(s, n, w, p)
    \/ StartNothing \/ ForcedStop \/ PauseIntentIdle
    \/ \E p \in BOOLEAN : PauseIntent(p)

MainThread == StartForeground \/ Launch \/ RefreshMain \/ OnDestroy

Next ==
    \/ Intents \/ MainThread
    \/ WifiChange \/ NetworkCallback \/ MissCallback \/ NetworkFallback \/ RefreshNet
    \/ \E r \in Runs : ParentCoroutine(r) \/ PollProgress(r)
    \/ \E r \in Runs, i \in Items : Coroutine(r, i)
    \/ Crash

Spec == Init /\ [][Next]_vars

(***************************************************************************)
(* Every thread runs: the main looper, each coroutine on its IO thread     *)
(* (engine calls and post-processing return, since the engine's requests   *)
(* time out), the fallback loop and the callback's own write.  Nothing     *)
(* forces a client to send intents, nor the system to deliver a callback.  *)
(***************************************************************************)
Fairness ==
    /\ WF_vars(MainThread) /\ WF_vars(NetworkFallback) /\ WF_vars(RefreshNet)
    /\ \A r \in Runs : WF_vars(ParentCoroutine(r))
    /\ \A r \in Runs, i \in Items : WF_vars(Coroutine(r, i))

FairSpec == Spec /\ Fairness

-----------------------------------------------------------------------------
(* Properties. *)

\* After a stop no item of the current batch is left in the middle: whatever a
\* blocking engine call reports when it finally returns, the items the stop
\* put back in the queue stay there, so the client can run them again.
StoppedMeansRequeued ==
    stopped => \A i \in Items : status[run][i] \notin {"downloading", "finalizing"}

\* Once the service stopped, the snapshot file says so of that run, for good,
\* unless the write of it failed: no late progress, pause or network refresh
\* can publish "running" again, which would keep the client polling a worker
\* that is gone.  A failed write, which the code swallows, does keep it polling.
StoppedNotRunning ==
    stopped /\ snap.run = run /\ snap.running => unwritten

\* No permit is lost or invented while a batch is alive: what the semaphore
\* does not hold is held by the coroutines past slots.acquire(), also after any
\* number of refusals by a closed gate.
PermitsExact ==
    \A r \in active :
        free + Cardinality(Holding(r, Working \ {"taken", "queueing"})) = gate.limit

\* The state is well typed and the gate's permits are exact: what the service
\* keeps of a batch fits together at every step of every thread.
WorkerInv == TypeOK /\ PermitsExact

\* "Poll until the native worker reports it's done with this run": a snapshot
\* of the current run that is not running means the run was stopped or all its
\* items were processed.
NotRunningMeansDone ==
    run # 0 /\ main = "idle" /\ snap.run = run /\ ~snap.running
        => stopped \/ tail[run] \in {"stop", "release", "done"}

\* Unless the gate stays closed, every accepted batch comes to an end, and one
\* that the client can see unless the write that reports it failed: a settled
\* snapshot that is not running, or a later batch.
EndShown(r) ==
    /\ snap.run = r /\ ~snap.running
    /\ \A i \in Items : snap.items[i] \notin {"downloading", "finalizing"}
Ended(r) == started > r \/ (r \notin active /\ (EndShown(r) \/ unwritten))
BatchesEnd ==
    <>[](~gate.manual /\ (air.wifi \/ ~gate.wifiOnly))
        => \A r \in Runs : (run = r /\ main = "foreground") ~> Ended(r)
=============================================================================
