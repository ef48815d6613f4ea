-------------------------- MODULE SegmentedTransfer --------------------------
(***************************************************************************)
(* Segmented downloads: extensions/src/download/segments.rs (the           *)
(* coordinator, its workers and fetch) and segment_store.rs                *)
(* (SegmentOutput).  One action per blocking call of a thread: a worker's  *)
(* check, recv, attempt and send, the coordinator's spawn, receive,       *)
(* append, checkpoint, send and publish.  A segment is two pieces, so that  *)
(* an append can stop in the middle.                                       *)
(***************************************************************************)
EXTENDS StagedFile, FiniteSetsExt

CONSTANTS
    SegmentCalls,  \* kinds of call: [list, keep], a segment list (its URLs
                   \* are the fingerprint) and persistentCheckpoint
    Segments,      \* segments of a list
    MaxParallel    \* policy.max_parallel_segments

ASSUME SegmentAssumption ==
    /\ Segments \in Nat \ {0}
    /\ MaxParallel \in Nat \ {0}
    /\ \A c \in SegmentCalls : c.keep \in BOOLEAN

VARIABLES
    pc,            \* the coordinator's position, "idle" between calls
    list,          \* the segment list of the call
    next,          \* state.next_index: segments assembled
    checkpoint,    \* the checkpoint file: NoCheckpoint or [list, next]
    worker,        \* per worker: position, segment, outcome
    slots,         \* worker_count, the capacity of both channels
    jobs, jobsOpen, nextJob,   \* the channel of jobs and its sender
    results,       \* the channel of results, in whichever order they came
    pending,       \* fetched segments waiting for their turn
    stop, failed   \* the stop flag; is there a first_failure?

segVars == <<pc, list, next, checkpoint, worker, slots, jobs, jobsOpen,
             nextJob, results, pending, stop, failed>>
segAllVars == <<segVars, fileVars>>
poolVars == <<worker, slots, jobs, jobsOpen, nextJob, results, pending,
              stop, failed>>

Lists == {c.list : c \in SegmentCalls}
Workers == 1..MaxParallel
NoCheckpoint == [list |-> "none", next |-> 0]
Resting == [at |-> "exited", segment |-> 0, ok |-> FALSE]

Assembled(l, n) ==
    [i \in 1..2 * n |-> <<l, (i - 1) \div 2, (i - 1) % 2>>]

SegInit ==
    /\ pc = "idle"
    /\ list = NoCheckpoint.list
    /\ next = 0
    /\ checkpoint = NoCheckpoint
    /\ worker = [w \in Workers |-> Resting]
    /\ slots = 0
    /\ jobs = <<>> /\ jobsOpen = FALSE /\ nextJob = 0
    /\ results = {} /\ pending = {}
    /\ stop = FALSE /\ failed = FALSE

\* What the call kept in memory is dropped when it returns or dies.
Return ==
    /\ pc' = "idle"
    /\ list' = NoCheckpoint.list
    /\ next' = 0
    /\ worker' = [w \in Workers |-> Resting]
    /\ slots' = 0
    /\ jobs' = <<>> /\ jobsOpen' = FALSE /\ nextJob' = 0
    /\ results' = {} /\ pending' = {}
    /\ stop' = FALSE /\ failed' = FALSE

-----------------------------------------------------------------------------
(* Opening the output and starting the workers.                            *)

\* SegmentOutput::open: a checkpoint of another list is discarded together
\* with the staging file, and so is one that the file is too short for.
Open(l, kept) ==
    LET valid == kept /\ checkpoint # NoCheckpoint /\ checkpoint.list = l
        restored == IF valid /\ Len(partial) >= 2 * checkpoint.next
                    THEN checkpoint.next ELSE 0
    IN  /\ next' = restored
        /\ partial' = Prefix(partial, 2 * restored)
        /\ synced' = IF valid THEN synced ELSE <<>>
        /\ checkpoint' = IF restored = 0 THEN NoCheckpoint ELSE checkpoint
        /\ UNCHANGED target

\* The channels and the first jobs, before there is a worker to take them.
CreatePool(first) ==
    LET count == Min({MaxParallel, Segments - first})
    IN  /\ slots' = count
        /\ jobs' = [i \in 1..count |-> first + i - 1]
        /\ nextJob' = first + count
        /\ jobsOpen' = (first + count < Segments)
        /\ worker' = [w \in Workers |->
                        IF w <= count THEN [Resting EXCEPT !.at = "new"]
                        ELSE Resting]
        /\ failed' = FALSE
        /\ stop' = FALSE
        /\ results' = {}
        /\ pending' = {}

StartSegments(l, kept) ==
    /\ pc = "idle"
    /\ Enter("segments", kept)
    /\ list' = l
    /\ Open(l, kept)
    /\ IF next' = Segments
       THEN /\ pc' = "publish"
            /\ UNCHANGED poolVars
       ELSE /\ pc' = "spawn"
            /\ CreatePool(next')

-----------------------------------------------------------------------------
(* The workers.                                                            *)

Set(w, position) == worker' = [worker EXCEPT ![w].at = position]

OnlyWorker(w) ==
    UNCHANGED <<pc, list, next, checkpoint, slots, jobsOpen, nextJob, pending,
                stop, failed, fileVars>>

WorkerCheck(w) ==
    /\ worker[w].at = "check"
    /\ Set(w, IF stop \/ cancelled THEN "exited" ELSE "recv")
    /\ OnlyWorker(w)
    /\ UNCHANGED <<jobs, results>>

WorkerReceive(w) ==
    /\ worker[w].at = "recv"
    /\ \/ /\ jobs # <<>>
          /\ worker' = [worker EXCEPT ![w] =
                [at |-> "fetch", segment |-> Head(jobs), ok |-> FALSE]]
          /\ jobs' = Tail(jobs)
       \/ /\ jobs = <<>>
          /\ ~jobsOpen
          /\ Set(w, "exited")
          /\ UNCHANGED jobs
    /\ OnlyWorker(w)
    /\ UNCHANGED results

\* fetch, its attempts and delays included: a complete body in the segment's
\* own file, or no file and a failure (an error that is final, the last
\* attempt, a cancelled call or a stopped worker).
WorkerFetch(w) ==
    /\ worker[w].at = "fetch"
    /\ \E ok \in BOOLEAN :
           worker' = [worker EXCEPT ![w].at = "send", ![w].ok = ok]
    /\ OnlyWorker(w)
    /\ UNCHANGED <<jobs, results>>

WorkerSend(w) ==
    /\ worker[w].at = "send"
    /\ Cardinality(results) < slots
    /\ results' = results \cup {[segment |-> worker[w].segment,
                                 ok |-> worker[w].ok]}
    /\ Set(w, IF worker[w].ok THEN "check" ELSE "exited")
    /\ OnlyWorker(w)
    /\ UNCHANGED jobs

-----------------------------------------------------------------------------
(* The coordinator.                                                        *)

\* first_failure.get_or_insert, stop.store(true), jobs.take().
FailIf(condition) ==
    /\ failed' = (failed \/ condition)
    /\ stop' = (stop \/ condition)
    /\ jobsOpen' = (jobsOpen /\ ~condition)

\* What no step of the coordinator changes during a call.
Coordinate == UNCHANGED <<list, slots, kind, keep, cancelled, calls, crashes>>

Unstarted == {w \in Workers : worker[w].at = "new"}

\* spawn_scoped, one worker after the other beside those that already fetch;
\* a thread that cannot be started ends the loop and stops the others.
SpawnWorker ==
    /\ pc = "spawn"
    /\ \/ \E w \in Unstarted :
             /\ \A v \in Unstarted : w <= v
             /\ Set(w, "check")
             /\ pc' = IF Unstarted = {w} THEN "loop" ELSE "spawn"
             /\ UNCHANGED <<failed, stop, jobsOpen>>
       \/ /\ worker' = [w \in Workers |->
                            IF w \in Unstarted THEN Resting ELSE worker[w]]
          /\ pc' = "loop"
          /\ FailIf(TRUE)
    /\ Coordinate
    /\ UNCHANGED <<next, checkpoint, jobs, nextJob, results, pending,
                   diskVars>>

NoticeCancel ==
    /\ pc = "loop" /\ cancelled /\ results = {}
    /\ ~failed \/ ~stop \/ jobsOpen
    /\ FailIf(TRUE)
    /\ Coordinate
    /\ UNCHANGED <<pc, next, checkpoint, worker, jobs, nextJob, results,
                   pending, diskVars>>

Receive ==
    /\ pc = "loop"
    /\ \E result \in results :
          /\ results' = results \ {result}
          /\ FailIf(cancelled \/ ~result.ok)
          /\ pending' = IF result.ok THEN pending \cup {result.segment}
                        ELSE pending
    /\ pc' = "assemble"
    /\ Coordinate
    /\ UNCHANGED <<next, checkpoint, worker, jobs, nextJob, diskVars>>

Disconnected ==
    /\ pc = "loop" /\ results = {}
    /\ \A w \in Workers : worker[w].at = "exited"
    /\ FailIf(cancelled)
    /\ pc' = "ended"
    /\ Coordinate
    /\ UNCHANGED <<next, checkpoint, worker, jobs, nextJob, results, pending,
                   diskVars>>

\* SegmentOutput::append, first buffer.
AppendFirst ==
    /\ pc = "assemble"
    /\ next \in pending
    /\ pending' = pending \ {next}
    /\ partial' = Append(partial, <<list, next, 0>>)
    /\ pc' = "append"
    /\ Coordinate
    /\ UNCHANGED <<next, checkpoint, worker, jobs, jobsOpen, nextJob, results,
                   stop, failed, synced, target>>

\* ... and last: only now does the segment count.  checkpoint(false) then
\* saves when 8 MiB or 5 s have passed.
AppendLast ==
    /\ pc = "append"
    /\ ~cancelled
    /\ partial' = Append(partial, <<list, next, 1>>)
    /\ next' = next + 1
    /\ \/ keep /\ pc' = "sync"
       \/ pc' = "slot"
    /\ Coordinate
    /\ UNCHANGED <<checkpoint, worker, jobs, jobsOpen, nextJob, results,
                   pending, stop, failed, synced, target>>

\* Cancellation or an I/O error inside the append: truncate, if that works.
AppendFail ==
    /\ pc = "append"
    /\ partial' \in {partial, Prefix(partial, 2 * next)}
    /\ FailIf(TRUE)
    /\ pc' = "loop"
    /\ Coordinate
    /\ UNCHANGED <<next, checkpoint, worker, jobs, nextJob, results, pending,
                   synced, target>>

\* Mutant: every received result releases a slot.
NothingReadyReleases ==
    /\ pc = "assemble"
    /\ next \notin pending
    /\ pc' = "slot"
    /\ Coordinate
    /\ UNCHANGED <<next, checkpoint, worker, jobs, jobsOpen, nextJob, results,
                   pending, stop, failed, diskVars>>

NothingReady ==
    /\ pc = "assemble"
    /\ next \notin pending
    /\ pc' = "loop"
    /\ Coordinate
    /\ UNCHANGED <<next, checkpoint, worker, jobs, jobsOpen, nextJob, results,
                   pending, stop, failed, diskVars>>

AfterSave(position) == IF position \in {"sync", "rename"} THEN "slot" ELSE "drop"

\* Mutant: the checkpoint is written without syncing the data.
SaveUnsynced ==
    /\ pc \in {"sync", "finalSync"}
    /\ pc' = IF pc = "sync" THEN "rename" ELSE "finalRename"
    /\ Coordinate
    /\ UNCHANGED <<next, checkpoint, worker, jobs, jobsOpen, nextJob, results,
                   pending, stop, failed, diskVars>>

\* SegmentOutput::save: sync the data, then rename the checkpoint into place.
SaveSync ==
    /\ pc \in {"sync", "finalSync"}
    /\ \/ /\ SyncAll
          /\ pc' = IF pc = "sync" THEN "rename" ELSE "finalRename"
       \/ /\ UNCHANGED synced
          /\ pc' = AfterSave(pc)
    /\ Coordinate
    /\ UNCHANGED <<next, checkpoint, worker, jobs, jobsOpen, nextJob, results,
                   pending, stop, failed, partial, target>>

SaveRename ==
    /\ pc \in {"rename", "finalRename"}
    /\ checkpoint' \in {checkpoint, [list |-> list, next |-> next]}
    /\ pc' = AfterSave(pc)
    /\ Coordinate
    /\ UNCHANGED <<next, worker, jobs, jobsOpen, nextJob, results, pending,
                   stop, failed, diskVars>>

\* "Only assembly releases a slot": the next job, then the next segment.
ReleaseSlot ==
    /\ pc = "slot"
    /\ pc' = "assemble"
    /\ \/ /\ jobsOpen
          /\ Len(jobs) < slots
          /\ jobs' = Append(jobs, nextJob)
          /\ nextJob' = nextJob + 1
          /\ jobsOpen' = (nextJob + 1 < Segments)
       \/ /\ ~jobsOpen
          /\ UNCHANGED <<jobs, nextJob, jobsOpen>>
    /\ Coordinate
    /\ UNCHANGED <<next, checkpoint, worker, results, pending, stop, failed,
                   diskVars>>

\* Mutant: a failed call whose staging file is not kept is published.
LeaveScopeUnchecked ==
    /\ pc = "ended"
    /\ pc' = IF failed /\ keep THEN "finalSync" ELSE "publish"
    /\ Coordinate
    /\ UNCHANGED <<next, checkpoint, poolVars, diskVars>>

\* A failed call saves what it assembled; an incomplete one just fails.
LeaveScope ==
    /\ pc = "ended"
    /\ pc' = IF failed THEN IF keep /\ next > 0 THEN "finalSync" ELSE "drop"
             ELSE IF next = Segments THEN "publish" ELSE "drop"
    /\ Coordinate
    /\ UNCHANGED <<next, checkpoint, poolVars, diskVars>>

\* SegmentOutput::publish: sync, check, rename; then the checkpoint goes.
PublishSync ==
    /\ pc = "publish"
    /\ \/ SyncAll /\ pc' = "promote"
       \/ UNCHANGED synced /\ pc' = "drop"
    /\ Coordinate
    /\ UNCHANGED <<next, checkpoint, poolVars, partial, target>>

PublishRename ==
    /\ pc = "promote"
    /\ \/ ~cancelled /\ Promote /\ pc' = "clean"
       \/ UNCHANGED diskVars /\ pc' = "drop"
    /\ Coordinate
    /\ UNCHANGED <<next, checkpoint, poolVars>>

PublishClean ==
    /\ pc = "clean"
    /\ checkpoint' = NoCheckpoint
    /\ Return
    /\ Leave
    /\ UNCHANGED diskVars

\* Drop for SegmentOutput, for an output that was not published.
DropOutput ==
    /\ pc = "drop"
    /\ IF keep
       THEN UNCHANGED <<checkpoint, partial, synced>>
       ELSE checkpoint' = NoCheckpoint /\ partial' = <<>> /\ synced' = <<>>
    /\ Return
    /\ Leave
    /\ UNCHANGED target

SegCancel ==
    /\ pc # "idle"
    /\ CancelCall
    /\ UNCHANGED segVars

SegCrash ==
    /\ kind = "segments"
    /\ CrashFile
    /\ Return
    /\ UNCHANGED checkpoint

-----------------------------------------------------------------------------
WorkerStep(w) ==
    WorkerCheck(w) \/ WorkerReceive(w) \/ WorkerFetch(w) \/ WorkerSend(w)

CoordinatorStep ==
    \/ SpawnWorker \/ NoticeCancel \/ Receive \/ Disconnected
    \/ AppendFirst \/ AppendLast \/ AppendFail \/ NothingReady
    \/ SaveSync \/ SaveRename \/ ReleaseSlot
    \/ LeaveScope \/ PublishSync \/ PublishRename \/ PublishClean
    \/ DropOutput

SegStep ==
    \/ \E c \in SegmentCalls : StartSegments(c.list, c.keep)
    \/ \E w \in Workers : WorkerStep(w)
    \/ CoordinatorStep
    \/ SegCancel
    \/ SegCrash

SegFairness ==
    /\ \A w \in Workers : WF_segAllVars(WorkerStep(w))
    /\ WF_segAllVars(CoordinatorStep)

-----------------------------------------------------------------------------
SegTypeOK ==
    /\ pc \in {"idle", "spawn", "loop", "assemble", "append", "sync", "rename",
               "slot", "ended", "finalSync", "finalRename", "publish",
               "promote", "clean", "drop"}
    /\ list \in Lists \cup {NoCheckpoint.list}
    /\ next \in 0..Segments /\ nextJob \in 0..Segments
    /\ checkpoint \in [list : Lists, next : 1..Segments] \cup {NoCheckpoint}
    /\ \A w \in Workers : worker[w].segment \in 0..Segments - 1
    /\ jobsOpen \in BOOLEAN /\ stop \in BOOLEAN /\ failed \in BOOLEAN
    /\ pending \subseteq 0..Segments - 1

\* Segments that hold a slot: queued, being fetched, fetched, or waiting.
Held ==
    {jobs[i] : i \in DOMAIN jobs}
        \cup {worker[w].segment : w \in {v \in Workers :
                  worker[v].at \in {"fetch", "send"}}}
        \cup {result.segment : result \in results}
        \cup pending
        \cup (IF pc = "append" THEN {next} ELSE {})

\* Completed files and active requests together never exceed the worker count
\* (segments.rs:209), so neither channel can ever block its sender: the
\* coordinator would otherwise wait for workers that wait for the coordinator.
SlotsBounded ==
    pc \in {"spawn", "loop", "assemble", "append", "sync", "rename",
            "slot"} =>
        /\ Cardinality(Held) <= slots
        /\ pc = "slot" /\ jobsOpen => Cardinality(Held) < slots

\* Whatever the next call would resume is exactly the first segments of that
\* list, in order: in every state, so also after a crash that loses or garbles
\* what was not synced, and after an append that was cut short.
ResumedSegmentsExact ==
    checkpoint # NoCheckpoint /\ Len(partial) >= 2 * checkpoint.next =>
        Prefix(partial, 2 * checkpoint.next)
            = Assembled(checkpoint.list, checkpoint.next)

\* What the output must be: see AtomicOutput.
WholeLists == {Assembled(l, Segments) : l \in Lists}
=============================================================================
