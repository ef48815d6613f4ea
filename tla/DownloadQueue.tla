---------------------------- MODULE DownloadQueue ----------------------------
(***************************************************************************)
(* The client-side download queue of the Flutter app                       *)
(* (lib/providers/download_queue_provider.dart).                           *)
(*                                                                         *)
(* DownloadQueueController runs on one event loop, so a step here is what  *)
(* the controller does between two awaits.  Its single batch at a time     *)
(* (_processQueue) is a coroutine: ctl.at says which await it is in.  User *)
(* commands, progress events, the app coming back to the foreground and    *)
(* the timers of rate-limited items run in between.                        *)
(*                                                                         *)
(* External to the module are the Android worker, seen through the intents *)
(* it is sent and the snapshot it writes, and the engine's progress        *)
(* tracker.  NativeWorker models the first, Progress the second, in        *)
(* detail; here each keeps only what the queue can observe of it.          *)
(*                                                                         *)
(* Left out: the order of the list (the next item is any queued one), the  *)
(* contents of requests, byte counts and paths, the log, and the disposal  *)
(* of the provider, which lives as long as the app.  A failure that only   *)
(* says the file is already in the library counts as done.                 *)
(***************************************************************************)
EXTENDS Naturals, Sequences, FiniteSets

CONSTANTS
    Items,       \* item ids; enqueue uses each at most once
    Platforms,   \* whether the native worker is available: TRUE on Android
    Rejected,    \* items whose request the native gate refuses
    WifiOnly,    \* the Wi-Fi only setting
    Failures,    \* the kinds of failure that may happen: "rate", "other"
    MayDrop,     \* whether the worker may ignore a start (its last batch is alive)
    MayStop,     \* whether the system may stop the worker (timeout)
    Notifies,    \* whether the user may use the pause button of the notification
    Throwing,    \* the runs whose start call fails
    MaxRuns,     \* bound: batches started
    MaxEvents,   \* bound: pauses, resumes and stops by the system
    MaxAttempts  \* bound: attempts of an item that are counted

ASSUME ConstantsAssumption ==
    /\ Platforms \subseteq BOOLEAN /\ WifiOnly \in BOOLEAN
    /\ MayDrop \in BOOLEAN /\ MayStop \in BOOLEAN /\ Notifies \in BOOLEAN
    /\ Rejected \subseteq Items
    /\ Failures \subseteq {"rate", "other"}
    /\ MaxRuns \in Nat /\ MaxEvents \in Nat /\ MaxAttempts \in Nat
    /\ Throwing \subseteq 1..MaxRuns

VARIABLES
    status,    \* each entry's status; "unused" before enqueue, "gone" once removed
    error,     \* its error: "none", "rate" (isRateLimitError), "other"
    retried,   \* _rateLimitRetriedItemIds
    backoff,   \* items whose rate-limit timer runs
    ctl,       \* the controller's flags and its coroutine
    intents,   \* intents on their way to the worker
    worker,    \* the worker's snapshot
    engine,    \* the engine's progress of each item
    orphans,   \* items whose engine call outlived the batch that made it
    late,      \* history: "stopped" once an item had such a call, "lost" once the
               \* start of a later batch with the item failed
    attempts,  \* how often an item was handed to the worker or the engine, to MaxAttempts
    events     \* pauses, resumes and stops by the system so far

vars == <<status, error, retried, backoff, ctl, intents, worker, engine,
          orphans, late, attempts, events>>
entries == <<status, error, retried, backoff>>
outside == <<intents, worker, engine, orphans, late>>

\* Further attempts are not told apart.
Tried(n) == IF n < MaxAttempts THEN n + 1 ELSE n

Statuses == {"queued", "downloading", "finalizing", "done", "failed"}
Terminal == {"done", "failed"}
Errors == {"none", "rate", "other"}
Present == {i \in Items : status[i] \in Statuses}
NoRun == [run |-> 0, running |-> FALSE, manual |-> FALSE,
          items |-> [i \in Items |-> "absent"], errors |-> [i \in Items |-> "none"]]

Snapshots == [run : 0..MaxRuns, running : BOOLEAN, manual : BOOLEAN,
              items : [Items -> Statuses \cup {"absent"}], errors : [Items -> Errors]]
Intents == [kind : {"start"}, run : 0..MaxRuns, batch : SUBSET Items, manual : BOOLEAN]
             \cup [kind : {"pause"}, manual : BOOLEAN]

TypeOK ==
    /\ status \in [Items -> Statuses \cup {"unused", "gone"}]
    /\ error \in [Items -> Errors]
    /\ retried \subseteq Items
    /\ backoff \subseteq retried
    /\ ctl \in [native : BOOLEAN, processing : BOOLEAN, runStopped : BOOLEAN, manual : BOOLEAN,
                pending : {"none", "pause", "resume"}, linked : BOOLEAN,
                hydrated : BOOLEAN,
                at : {"idle", "hydrate", "build", "starting", "poll", "merge",
                      "fallback", "admission", "download", "wait"},
                batch : SUBSET Items, left : SUBSET Items, run : 0..MaxRuns,
                read : Snapshots]
    /\ ctl.left \subseteq ctl.batch
    /\ ctl.at \in {"admission", "download", "wait"} => ctl.left # {}
    /\ intents \in Seq(Intents)
    /\ worker \in Snapshots
    /\ engine \in [Items -> {"none", "downloading", "completed"}]
    /\ orphans \subseteq Items
    /\ late \in [Items -> {"no", "stopped", "lost"}]
    /\ attempts \in [Items -> 0..MaxAttempts]
    /\ events \in 0..MaxEvents

Init ==
    /\ status = [i \in Items |-> "unused"]
    /\ error = [i \in Items |-> "none"]
    /\ retried = {} /\ backoff = {}
    /\ ctl \in [native : Platforms, processing : {FALSE}, runStopped : {FALSE},
                manual : {FALSE}, pending : {"none"}, linked : {FALSE},
                hydrated : {FALSE}, at : {"idle"}, batch : {{}}, left : {{}},
                run : {0}, read : {NoRun}]
    /\ intents = <<>> /\ worker = NoRun
    /\ engine = [i \in Items |-> "none"]
    /\ orphans = {}
    /\ late = [i \in Items |-> "no"]
    /\ attempts = [i \in Items |-> 0]
    /\ events = 0

-----------------------------------------------------------------------------
(* _processQueue: what it does before its first await, and how it ends. *)

\* The settings are loaded once; later batches find them ready and go on to
\* their requests without giving any other event a turn.
Kick(c, st) ==
    LET queued == {i \in Items : st[i] = "queued"}
    IN  IF c.processing \/ c.manual \/ queued = {}
        THEN c
        ELSE [c EXCEPT !.processing = TRUE, !.runStopped = FALSE,
                       !.at = IF c.hydrated THEN "build" ELSE "hydrate",
                       !.batch = queued, !.left = queued]

LeaveWithoutKick(c, st, continue) ==
    [c EXCEPT !.processing = FALSE, !.at = "idle", !.batch = {}, !.left = {}, !.read = NoRun]
Leave(c, st, continue) ==
    LET done == [c EXCEPT !.processing = FALSE, !.at = "idle", !.batch = {},
                          !.left = {}, !.read = NoRun]
    IN  IF continue THEN Kick(done, st) ELSE done

-----------------------------------------------------------------------------
(* User commands and the app's lifecycle. *)

Enqueue(i) ==
    /\ status[i] = "unused"
    /\ status' = [status EXCEPT ![i] = "queued"]
    /\ ctl' = Kick(ctl, status')
    /\ UNCHANGED <<error, retried, backoff, outside, attempts, events>>

\* remove also asks the engine to cancel: the call fails soon after.
Remove(i) ==
    /\ i \in Present
    /\ status' = [status EXCEPT ![i] = "gone"]
    /\ UNCHANGED <<error, retried, backoff, ctl, outside, attempts, events>>

ClearCompleted ==
    /\ \E i \in Items : status[i] = "done"
    /\ status' = [i \in Items |-> IF status[i] = "done" THEN "gone" ELSE status[i]]
    /\ UNCHANGED <<error, retried, backoff, ctl, outside, attempts, events>>

\* The track gets a new entry under a new id; retryAllFailed repeats this.
Retry(i, new) ==
    /\ i \in Present /\ status[new] = "unused"
    /\ status' = [status EXCEPT ![i] = "gone", ![new] = "queued"]
    /\ ctl' = Kick(ctl, status')
    /\ UNCHANGED <<error, retried, backoff, outside, attempts, events>>

Send(paused) ==
    intents' = IF ctl.linked THEN Append(intents, [kind |-> "pause", manual |-> paused])
               ELSE intents

\* One button, queue_screen.dart: it resumes while the queue shows a pause.
Pause ==
    /\ ~ctl.manual /\ events < MaxEvents /\ events' = events + 1
    /\ ctl' = [ctl EXCEPT !.manual = TRUE, !.pending = "pause"]
    /\ Send(TRUE)
    /\ UNCHANGED <<entries, worker, engine, orphans, late, attempts>>

Resume ==
    /\ ctl.manual /\ events < MaxEvents /\ events' = events + 1
    /\ ctl' = Kick([ctl EXCEPT !.manual = FALSE, !.pending = "resume"], status)
    /\ Send(FALSE)
    /\ UNCHANGED <<entries, worker, engine, orphans, late, attempts>>

\* AppLifecycleListener.onResume
AppResumed ==
    /\ ctl' = Kick(ctl, status)
    /\ ctl' # ctl
    /\ UNCHANGED <<entries, outside, attempts, events>>

-----------------------------------------------------------------------------
(* Progress events of the engine: _merge.  An entry the engine finalizes    *)
(* counts as downloading here: both are neither queued nor terminal, and no *)
(* guard of the controller tells them apart.                                *)

MergeEntryUnguarded(i) ==
    IF status[i] \notin Statuses \ Terminal THEN status[i]
    ELSE CASE engine[i] = "none" -> status[i]
           [] engine[i] = "downloading" -> "downloading"
           [] engine[i] = "completed" -> "done"
MergeEntry(i) ==
    IF (ctl.runStopped /\ status[i] = "queued") \/ status[i] \notin Statuses \ Terminal
    THEN status[i]
    ELSE CASE engine[i] = "none" -> status[i]
           [] engine[i] = "downloading" -> "downloading"
           [] engine[i] = "completed" -> "done"

Merge ==
    /\ status' = [i \in Items |-> MergeEntry(i)]
    /\ status' # status
    /\ UNCHANGED <<error, retried, backoff, ctl, outside, attempts, events>>

-----------------------------------------------------------------------------
(* The batch: hydrate the settings, build the requests, start the worker. *)

Hydrate ==
    /\ ctl.at = "hydrate"
    /\ LET c == [ctl EXCEPT !.hydrated = TRUE]
       IN  ctl' = IF ctl.manual THEN Leave(c, status, TRUE) ELSE [c EXCEPT !.at = "build"]
    /\ UNCHANGED <<entries, outside, attempts, events>>

\* Without the native worker a batch is one entry for the fallback.
BuildFallback ==
    /\ ctl.at = "build" /\ ~ctl.native
    /\ \E i \in ctl.batch : ctl' = [ctl EXCEPT !.at = "fallback", !.left = {i}]
    /\ UNCHANGED <<entries, outside, attempts, events>>

Sent == ctl.batch \ Rejected

Build ==
    /\ ctl.at = "build" /\ ctl.native
    /\ \/ /\ Sent = {}
          /\ ctl' = [ctl EXCEPT !.at = "fallback", !.left = ctl.batch]
          /\ UNCHANGED <<intents, attempts>>
       \/ /\ Sent # {} /\ ctl.run < MaxRuns
          /\ ctl' = [ctl EXCEPT !.at = "starting", !.run = ctl.run + 1]
          /\ intents' = IF ctl.run + 1 \in Throwing THEN intents
                        ELSE Append(intents, [kind |-> "start", run |-> ctl.run + 1,
                                              batch |-> Sent, manual |-> ctl.manual])
          /\ attempts' = [i \in Items |-> IF i \in Sent THEN Tried(attempts[i]) ELSE attempts[i]]
    /\ UNCHANGED <<entries, worker, engine, orphans, late, events>>

\* worker.start returned; a pause that came meanwhile is sent on.
StartReturns ==
    /\ ctl.at = "starting" /\ ctl.run \notin Throwing
    /\ ctl' = [ctl EXCEPT !.at = "poll", !.linked = TRUE]
    /\ intents' = IF ctl.manual
                  THEN Append(intents, [kind |-> "pause", manual |-> TRUE])
                  ELSE intents
    /\ UNCHANGED <<entries, worker, engine, orphans, late, attempts, events>>

\* The call fails and no intent is sent: the exception leaves through the
\* finally block of _processQueue, which starts over.
StartThrows ==
    /\ ctl.at = "starting" /\ ctl.run \in Throwing
    /\ ctl' = Leave(ctl, status, TRUE)
    /\ late' = [i \in Items |-> IF i \in ctl.batch /\ late[i] = "stopped"
                               THEN "lost" ELSE late[i]]
    /\ UNCHANGED <<entries, intents, worker, engine, orphans, attempts, events>>

-----------------------------------------------------------------------------
(* Polling: the snapshot is read now and merged after the channel's await. *)

PollRead ==
    /\ ctl.at = "poll" /\ worker.run = ctl.run
    /\ ctl' = [ctl EXCEPT !.at = "merge", !.read = worker]
    /\ UNCHANGED <<entries, outside, attempts, events>>

\* No snapshot of this run for 30 seconds: the worker ignored the start.
Stall ==
    /\ ctl.at = "poll" /\ worker.run # ctl.run
    /\ \A n \in DOMAIN intents : intents[n].kind # "start"
    /\ ctl' = [ctl EXCEPT !.at = "fallback", !.linked = FALSE, !.left = ctl.batch]
    /\ UNCHANGED <<entries, outside, attempts, events>>

\* _applyNativeItemState
Shows(i) == ctl.read.items[i] # "absent" /\ i \in ctl.batch
AppliedOverDone(i) ==
    IF ~Shows(i) \/ i \notin Present THEN status[i] ELSE ctl.read.items[i]
Applied(i) ==
    IF ~Shows(i) \/ i \notin Present
       \/ (status[i] \in Terminal /\ status[i] # ctl.read.items[i])
    THEN status[i] ELSE ctl.read.items[i]
AppliedError(i) ==
    IF Shows(i) /\ i \in Present /\ Applied(i) = ctl.read.items[i]
       /\ ctl.read.errors[i] # "none"
    THEN ctl.read.errors[i] ELSE error[i]

\* The failed entries _mergeNativeSnapshot hands to _handleRateLimited.
RateLimited ==
    {i \in Items : Applied(i) = "failed" /\ AppliedError(i) = "rate" /\ i \notin retried}

\* _pendingPause: a local command holds until the worker's snapshot agrees.
Reconciled(c) ==
    LET native == IF c.read.manual THEN "pause" ELSE "resume"
        acked == c.pending \in {"none", native}
    IN  [c EXCEPT !.pending = IF acked THEN "none" ELSE @,
                  !.manual = IF acked THEN c.read.manual ELSE @]

PollMerge ==
    /\ ctl.at = "merge"
    /\ LET again == RateLimited
           c == Reconciled(ctl)
           stoppedWithPending == \E i \in Items : Shows(i) /\ ctl.read.items[i] = "queued"
           over == [c EXCEPT !.linked = FALSE, !.runStopped = stoppedWithPending]
       IN  /\ status' = [i \in Items |-> IF i \in again THEN "downloading" ELSE Applied(i)]
           /\ error' = [i \in Items |-> AppliedError(i)]
           /\ retried' = retried \cup again
           /\ backoff' = backoff \cup again
           /\ ctl' = IF ctl.read.running
                     THEN [c EXCEPT !.at = "poll", !.read = NoRun]
                     ELSE IF ctl.batch \cap Rejected # {}
                     THEN [over EXCEPT !.at = "fallback", !.read = NoRun,
                                       !.left = ctl.batch \cap Rejected]
                     ELSE Leave(over, status', ~stoppedWithPending)
    /\ UNCHANGED <<outside, attempts, events>>

\* A timer runs for five seconds at least, the worker is polled twice a second
\* and ends its run as soon as the last item is settled: no timer fires between
\* that moment and the merge of the last snapshot.
Polled ==
    /\ ctl.at # "merge"
    /\ (ctl.at = "poll" /\ worker.run = ctl.run)
          => worker.running /\ \E i \in Items : worker.items[i] \in Statuses \ Terminal

\* The timer of _handleRateLimited fires.
BackoffFires(i) ==
    /\ i \in backoff /\ Polled
    /\ backoff' = backoff \ {i}
    /\ status' = IF i \in Present THEN [status EXCEPT ![i] = "queued"] ELSE status
    /\ ctl' = IF i \in Present THEN Kick(ctl, status') ELSE ctl
    /\ UNCHANGED <<error, retried, outside, attempts, events>>

-----------------------------------------------------------------------------
(* _runDartFallback, one entry of ctl.left after the other. *)

\* The entry the fallback works on while it awaits something.
Current == CHOOSE i \in ctl.left : TRUE

\* The batch ends here unless the worker's run stopped with work pending.
FallbackDone ==
    /\ ctl.at = "fallback" /\ ctl.left = {}
    /\ ctl' = Leave(ctl, status, ~ctl.runStopped)
    /\ UNCHANGED <<entries, outside, attempts, events>>

FallbackNext ==
    /\ ctl.at = "fallback" /\ ctl.left # {}
    /\ LET i == Current
       IN  IF status[i] \notin Statuses \ Terminal
           THEN /\ ctl' = [ctl EXCEPT !.left = @ \ {i}]
                /\ UNCHANGED <<status, attempts, engine>>
           ELSE IF ctl.manual \/ WifiOnly
           THEN /\ ctl' = [ctl EXCEPT !.at = "admission"]
                /\ status' = [status EXCEPT ![i] = "queued"]
                /\ UNCHANGED <<attempts, engine>>
           ELSE /\ ctl' = [ctl EXCEPT !.at = "download"]
                /\ status' = [status EXCEPT ![i] = "downloading"]
                /\ attempts' = [attempts EXCEPT ![i] = Tried(@)]
                /\ engine' = [engine EXCEPT ![i] = "downloading"]
    /\ UNCHANGED <<error, retried, backoff, intents, worker, orphans, late, events>>

\* _waitForAdmission: the entry is gone, or the pause is over (and Wi-Fi is there).
Admission ==
    /\ ctl.at = "admission"
    /\ LET i == Current
       IN  \/ /\ i \notin Present
              /\ ctl' = [ctl EXCEPT !.at = "fallback", !.left = @ \ {i}]
              /\ UNCHANGED <<status, attempts, engine>>
           \/ /\ i \in Present /\ ~ctl.manual
              /\ ctl' = [ctl EXCEPT !.at = "download"]
              /\ status' = [status EXCEPT ![i] = "downloading"]
              /\ attempts' = [attempts EXCEPT ![i] = Tried(@)]
              /\ engine' = [engine EXCEPT ![i] = "downloading"]
    /\ UNCHANGED <<error, retried, backoff, intents, worker, orphans, late, events>>

\* downloadByStrategy returned with success or an ordinary failure, or the
\* duplicate check or an exception ended it earlier.
SetStatus(i, s) == IF i \in Present THEN [status EXCEPT ![i] = s] ELSE status

FallbackResult(s) ==
    /\ ctl.at = "download"
    /\ LET i == Current
       IN  /\ status' = SetStatus(i, s)
           /\ error' = IF s = "failed" /\ i \in Present THEN [error EXCEPT ![i] = "other"] ELSE error
           /\ engine' = [engine EXCEPT ![i] = IF s = "done" THEN "completed" ELSE "none"]
           /\ ctl' = [ctl EXCEPT !.at = "fallback", !.left = @ \ {i}]
    /\ UNCHANGED <<retried, backoff, intents, worker, orphans, late, attempts, events>>

\* It was rate limited: the first time the fallback itself awaits the timer,
\* the second time the failure is shown.
FallbackRateLimited ==
    /\ ctl.at = "download" /\ "rate" \in Failures
    /\ LET i == Current
           again == i \notin retried
       IN  /\ status' = SetStatus(i, IF again THEN "downloading" ELSE "failed")
           /\ error' = IF i \in Present THEN [error EXCEPT ![i] = "rate"] ELSE error
           /\ engine' = [engine EXCEPT ![i] = "none"]
           /\ retried' = retried \cup {i}
           /\ backoff' = IF again THEN backoff \cup {i} ELSE backoff
           /\ ctl' = IF again THEN [ctl EXCEPT !.at = "wait"]
                     ELSE [ctl EXCEPT !.at = "fallback", !.left = @ \ {i}]
    /\ UNCHANGED <<intents, worker, orphans, late, attempts, events>>

BackoffAwaited ==
    /\ ctl.at = "wait" /\ Current \notin backoff
    /\ ctl' = [ctl EXCEPT !.at = "fallback", !.left = @ \ {Current}]
    /\ UNCHANGED <<entries, outside, attempts, events>>

-----------------------------------------------------------------------------
(* External: the worker and the engine behind it. *)

\* A start is accepted, or dropped while an earlier batch is alive.
WorkerStarts ==
    /\ intents # <<>> /\ Head(intents).kind = "start"
    /\ \/ /\ ~worker.running
          /\ worker' = [run |-> Head(intents).run, running |-> TRUE,
                        manual |-> Head(intents).manual,
                        items |-> [i \in Items |-> IF i \in Head(intents).batch
                                                   THEN "queued" ELSE "absent"],
                        errors |-> NoRun.errors]
       \/ (MayDrop \/ worker.running) /\ worker' = worker
    /\ intents' = Tail(intents)
    /\ UNCHANGED <<entries, ctl, engine, orphans, late, attempts, events>>

WorkerPauses ==
    /\ intents # <<>> /\ Head(intents).kind = "pause"
    /\ worker' = IF worker.running THEN [worker EXCEPT !.manual = Head(intents).manual]
                 ELSE worker
    /\ intents' = Tail(intents)
    /\ UNCHANGED <<entries, ctl, engine, orphans, late, attempts, events>>

\* The pause button of the notification.
NotificationToggle ==
    /\ Notifies /\ worker.running /\ events < MaxEvents
    /\ events' = events + 1
    /\ worker' = [worker EXCEPT !.manual = ~@]
    /\ UNCHANGED <<entries, ctl, intents, engine, orphans, late, attempts>>

WorkerBegins(i) ==
    /\ worker.running /\ ~worker.manual /\ worker.items[i] = "queued"
    /\ worker' = [worker EXCEPT !.items[i] = "downloading"]
    /\ engine' = [engine EXCEPT ![i] = "downloading"]
    /\ UNCHANGED <<entries, ctl, intents, orphans, late, attempts, events>>

WorkerFinalizes(i) ==
    /\ worker.running /\ worker.items[i] = "downloading"
    /\ worker' = [worker EXCEPT !.items[i] = "finalizing"]
    /\ engine' = [engine EXCEPT ![i] = "completed"]
    /\ UNCHANGED <<entries, ctl, intents, orphans, late, attempts, events>>

WorkerDone(i) ==
    /\ worker.running /\ worker.items[i] = "finalizing"
    /\ worker' = [worker EXCEPT !.items[i] = "done"]
    /\ UNCHANGED <<entries, ctl, intents, engine, orphans, late, attempts, events>>

WorkerFails(i, e) ==
    /\ worker.running /\ worker.items[i] = "downloading"
    /\ worker' = [worker EXCEPT !.items[i] = "failed", !.errors[i] = e]
    /\ engine' = [engine EXCEPT ![i] = "none"]
    /\ UNCHANGED <<entries, ctl, intents, orphans, late, attempts, events>>

WorkerEnds ==
    /\ worker.running
    /\ \A i \in Items : worker.items[i] \in Terminal \cup {"absent"}
    /\ worker' = [worker EXCEPT !.running = FALSE]
    /\ UNCHANGED <<entries, ctl, intents, engine, orphans, late, attempts, events>>

\* Stopped by the system: unfinished items are queued again, their engine
\* calls go on.
WorkerStops ==
    /\ MayStop /\ worker.running /\ events < MaxEvents /\ events' = events + 1
    /\ worker' = [worker EXCEPT !.running = FALSE,
                    !.items = [i \in Items |-> IF @[i] \in {"downloading", "finalizing"}
                                               THEN "queued" ELSE @[i]]]
    /\ orphans' = orphans \cup {i \in Items : worker.items[i] = "downloading"}
    /\ late' = [i \in Items |-> IF worker.items[i] = "downloading" /\ late[i] = "no"
                               THEN "stopped" ELSE late[i]]
    /\ UNCHANGED <<entries, ctl, intents, engine, attempts>>

OrphanEnds(i, result) ==
    /\ i \in orphans
    /\ orphans' = orphans \ {i}
    /\ engine' = [engine EXCEPT ![i] = result]
    /\ UNCHANGED <<entries, ctl, intents, worker, late, attempts, events>>

-----------------------------------------------------------------------------
User ==
    \/ \E i \in Items : Enqueue(i) \/ Remove(i)
    \/ \E i, j \in Items : Retry(i, j)
    \/ ClearCompleted \/ Pause \/ Resume \/ AppResumed \/ NotificationToggle

Batch ==
    \/ Hydrate \/ Build \/ BuildFallback \/ StartReturns \/ StartThrows
    \/ PollRead \/ PollMerge \/ Stall
    \/ FallbackNext \/ FallbackDone \/ Admission
    \/ \E s \in Terminal : FallbackResult(s)
    \/ FallbackRateLimited \/ BackoffAwaited

Worker ==
    \/ WorkerStarts \/ WorkerPauses \/ WorkerEnds
    \/ \E i \in Items :
         \/ WorkerBegins(i) \/ WorkerFinalizes(i) \/ WorkerDone(i)
         \/ \E e \in Failures : WorkerFails(i, e)
         \/ \E e \in {"none", "completed"} : OrphanEnds(i, e)

Next ==
    \/ User \/ Merge \/ Batch \/ Worker \/ WorkerStops
    \/ \E i \in Items : BackoffFires(i)

Spec == Init /\ [][Next]_vars

(***************************************************************************)
(* The event loop runs what is due (the batch, the timers), the intents    *)
(* are delivered and the worker works.  Users and the system that stops    *)
(* the worker are free.                                                    *)
(***************************************************************************)
FairSpec ==
    /\ Spec
    /\ WF_vars(Batch) /\ WF_vars(Worker)
    /\ \A i \in Items : WF_vars(BackoffFires(i))

-----------------------------------------------------------------------------
(* Properties. *)

\* Nothing is left hanging: while no batch runs, an entry that is neither done
\* nor failed is queued, so the next batch takes it, or waits for its
\* rate-limit timer.  An entry shown as downloading with nobody working on it
\* would stay so for ever, since _processQueue takes only queued entries.  That
\* happens in one way: the system stops a run, its engine call goes on, progress
\* of that call turns the requeued entry of the next batch into a downloading
\* one, and the start of that batch fails.  The finally block leaves the entry
\* as it is, and a late call that then fails never corrects it: "lost".
NothingStranded ==
    ~ctl.processing =>
        \A i \in Present :
            \/ status[i] \in Terminal \cup {"queued"} \/ i \in backoff
            \/ late[i] = "lost"

\* "Late engine progress cannot revive an item requeued by native stop"
\* (_mergeEntry): without the exception of NothingStranded.
LateRevivesNothing ==
    ~ctl.processing =>
        \A i \in Present : status[i] \in Terminal \cup {"queued"} \/ i \in backoff

\* The state is well typed and no entry hangs without a batch.
QueueInv == TypeOK /\ NothingStranded

\* A finished download stays finished: no late progress and no snapshot, of this
\* run or of one that was stopped, takes an entry out of "done"; only the user
\* removes it.  Two writers are free to: a running rate-limit timer requeues its
\* entry whatever happened to it, and the fallback's own call on an entry reports
\* its result although an engine call that outlived a stopped run has meanwhile
\* finished the same download.
DoneSticks ==
    [][\A i \in Items \ backoff :
          status[i] = "done" /\ ~(ctl.at \in {"admission", "download"} /\ i = Current)
              => status'[i] \in {"done", "gone"}]_vars

\* Whatever goes wrong on the way (a start that fails or is dropped, a request
\* the gate refuses, a rate limit), a queued entry is settled in the end, unless
\* the user removes it, somebody pauses, or the system stops the worker, after
\* which the queue waits for the user, or it is lost as NothingStranded says.
\* OutOfRuns: the bound on batches is met.
OutOfRuns == ctl.at = "build" /\ ctl.run = MaxRuns
EntriesSettle ==
    \A i \in Items :
        status[i] = "queued"
            ~> (\/ status[i] \in Terminal \cup {"gone"}
                \/ ctl.manual \/ worker.manual \/ ctl.runStopped \/ late[i] = "lost"
                \/ OutOfRuns)

\* "give it one delayed retry so the shared API's limit resets, instead of
\* hard-failing": an item whose retry was scheduled is tried again, unless the
\* user removes it or pauses the queue.
RetryHappens ==
    \A i \in Items :
        (i \in backoff /\ attempts[i] = 1)
            ~> (attempts[i] > 1 \/ i \notin Present \/ ctl.manual)

\* "resume continues": once the queue is no longer paused for good, a running
\* worker is not either.
ResumeContinues ==
    <>[](~ctl.manual) => []<>(~worker.running \/ ~worker.manual)
=============================================================================
