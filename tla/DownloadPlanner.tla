--------------------------- MODULE DownloadPlanner ---------------------------
(***************************************************************************)
(* The engine's download planner: backend/downloads.rs with the prepared   *)
(* cache (downloads/prepared.rs), the output locks of files.rs and the     *)
(* DownloadState of core/src/downloads.rs.                                 *)
(*                                                                         *)
(* Each thread runs one request at a time: it checks the session, tries    *)
(* the providers one after the other, and publishes what the first good    *)
(* one delivered.  Threads meet in the library's paths and their locks, in *)
(* the attempt directories beside them, in the progress entry and in the   *)
(* cancellation of an item.  Every action is what a thread does between    *)
(* two calls that wait (a provider, a session check, a lock).              *)
(*                                                                         *)
(* A lease is the registry entry of its item: held leases of one item      *)
(* share one flag, the last release forgets it (Cancellation proves that). *)
(* Track data, quality names, tags and covers are left out; what a         *)
(* provider answers is the action's choice.  Not modelled: a file that     *)
(* another program puts into the library.                                  *)
(***************************************************************************)
EXTENDS Naturals, Sequences, FiniteSets

CONSTANTS
    Threads,
    Items,          \* download ids
    Paths,          \* files of the library
    Providers,      \* extensions that are download providers
    None,
    Requests,       \* the requests that may be made
    Elsewhere,      \* path -> the path that the delivered container or album
                    \* leads to instead
    Priority,       \* the user's order of the providers
    Allowed,        \* providers that may be fallbacks
    Strict,         \* providers whose manifest stops_provider_fallback
    OldFiles,       \* paths taken before the engine starts
    MaxRequests,    \* bound on the requests
    MaxEvents       \* bound on the events from outside

ASSUME PlannerAssumption ==
    /\ None \notin Threads \cup Providers
    /\ OldFiles \subseteq Paths
    /\ Elsewhere \in [Paths -> Paths] /\ \A p \in Paths : Elsewhere[p] # p
    /\ Priority \in Seq(Providers)
    /\ Requests \subseteq [item : Items, source : Providers \cup {None},
                           service : Providers \cup {None}, fallback : BOOLEAN,
                           path : Paths, variant : BOOLEAN]
    /\ MaxRequests \in Nat /\ MaxEvents \in Nat

VARIABLES
    call,        \* thread -> its request and where it stands
    library,     \* path -> 0, or the number of the request that wrote the file
    lock,        \* path -> the thread that holds its output lock, or None
    dirs,        \* attempt directories: [path, provider, owner]
    prepared,    \* item -> the cached Prepared entry, or None
    progress,    \* item -> "absent", "active" or "completed"
    cancelled,   \* items whose registry entry is cancelled
    account,     \* providers in account mode
    installed,   \* providers whose extension is loaded
    started, events

files == <<library, lock, dirs>>
settings == <<account, installed, started, events>>
vars == <<call, files, prepared, progress, cancelled, settings>>

NoRequest == [item |-> None, source |-> None, service |-> None,
              fallback |-> FALSE, path |-> None, variant |-> FALSE]
Idle == [at |-> "idle", req |-> NoRequest, number |-> 0, held |-> FALSE,
         selected |-> None, source |-> "none",
         direct |-> FALSE, expanded |-> FALSE, queue |-> <<>>, mode |-> "none",
         provider |-> None, account |-> FALSE, stop |-> FALSE,
         moved |-> FALSE, ok |-> FALSE]

\* The number of a file that no request of this model wrote.
Old == MaxRequests + 1

Init ==
    /\ call = [t \in Threads |-> Idle]
    /\ library = [p \in Paths |-> IF p \in OldFiles THEN Old ELSE 0]
    /\ lock = [p \in Paths |-> None]
    /\ dirs = {}
    /\ prepared = [i \in Items |-> None]
    /\ progress = [i \in Items |-> "absent"]
    /\ cancelled = {}
    /\ account = {}
    /\ installed = Providers
    /\ started = 0 /\ events = 0

-----------------------------------------------------------------------------
Req(t) == call[t].req
Holders(i) == {t \in Threads : call[t].held /\ Req(t).item = i}

\* The check closure: the lease is neither released nor cancelled.
Live(t) == call[t].held /\ Req(t).item \notin cancelled
At(t, place) == call[t].at = place /\ Live(t)

Set(t, changes) ==
    call' = [call EXCEPT ![t] =
                [f \in DOMAIN Idle |-> IF f \in DOMAIN changes THEN changes[f]
                                       ELSE call[t][f]]]

Event == events < MaxEvents /\ events' = events + 1

\* RequestLease::release by the thread t.
ReleaseLease(t) ==
    cancelled' = IF call[t].held /\ Holders(Req(t).item) = {t}
                 THEN cancelled \ {Req(t).item} ELSE cancelled

\* The guards of an attempt leave scope: its output lock, its directory.
OwnDirectory(t) == [path |-> Req(t).path, provider |-> call[t].provider,
                    owner |-> call[t].number]
Unlocked(t) == [p \in Paths |-> IF lock[p] = t THEN None ELSE lock[p]]

LeaveAttempt(t) ==
    /\ lock' = Unlocked(t)
    /\ dirs' = dirs \ {OwnDirectory(t)}

\* The planner thread ends, with a success or not.
Answer(t, good) ==
    call' = [call EXCEPT ![t] = [Idle EXCEPT !.at = "answered", !.ok = good,
                                    !.req = Req(t), !.number = call[t].number,
                                    !.held = call[t].held]]

\* It goes on with the next provider.
Onward(t) == Set(t, [at |-> "next", mode |-> "none", provider |-> None,
                     account |-> FALSE, stop |-> FALSE])

-----------------------------------------------------------------------------
(* download_request: before and after the planner thread. *)

\* download_by_strategy, download_request.
Begin(t, q) ==
    /\ call[t].at = "idle" /\ started < MaxRequests
    /\ started' = started + 1
    /\ IF q.item \in cancelled
       THEN \* acquired, refused by check_active and dropped again
            /\ cancelled' = IF Holders(q.item) = {} THEN cancelled \ {q.item}
                            ELSE cancelled
            /\ UNCHANGED <<call, progress>>
       ELSE /\ Set(t, [at |-> "preflight", req |-> q, number |-> started',
                       held |-> TRUE,
                       selected |-> IF q.service = None /\ ~q.fallback
                                    THEN q.source ELSE q.service])
            /\ progress' = [progress EXCEPT ![q.item] = "active"]
            /\ UNCHANGED cancelled
    /\ UNCHANGED <<files, prepared, account, installed, events>>

\* The caller's own check fails while it waits for the planner thread.
CallerGivesUp(t) ==
    /\ call[t].at \notin {"idle", "reporting"} /\ call[t].held
    /\ Event
    /\ ReleaseLease(t)
    /\ Set(t, [held |-> FALSE])
    /\ UNCHANGED <<files, prepared, progress, account, installed, started>>

\* A check between two steps fails, and everything on the stack is dropped.
Abandon(t) ==
    /\ call[t].at \notin {"idle", "answered", "reporting"} /\ ~Live(t)
    /\ LeaveAttempt(t)
    /\ Answer(t, FALSE)
    /\ UNCHANGED <<library, prepared, progress, cancelled, settings>>

\* The planner thread is joined; a success of a dead lease is an error.
Join(t) ==
    /\ call[t].at = "answered"
    /\ Set(t, [at |-> "reporting", ok |-> call[t].ok /\ Live(t)])
    /\ UNCHANGED <<files, prepared, progress, cancelled, settings>>

\* progress.complete leaves an id alone that cancel() has removed.
Reported(t) ==
    CASE ~call[t].ok -> "absent"
      [] progress[Req(t).item] = "absent" -> "absent"
      [] OTHER -> "completed"

\* Mutant: a failed request leaves its entry behind.
ReportSuccessOnly(t) ==
    /\ call[t].at = "reporting"
    /\ progress' = IF call[t].ok
                   THEN [progress EXCEPT ![Req(t).item] = Reported(t)]
                   ELSE progress
    /\ ReleaseLease(t)
    /\ call' = [call EXCEPT ![t] = Idle]
    /\ UNCHANGED <<files, prepared, settings>>

Report(t) ==
    /\ call[t].at = "reporting"
    /\ progress' = [progress EXCEPT ![Req(t).item] = Reported(t)]
    /\ ReleaseLease(t)
    /\ call' = [call EXCEPT ![t] = Idle]
    /\ UNCHANGED <<files, prepared, settings>>

-----------------------------------------------------------------------------
(* plan_download up to the first attempt. *)

Key(q) == <<q.item, q.service, q.source>>
CachePrepared(t, ready) ==
    prepared' = [prepared EXCEPT ![Req(t).item] =
                    [key |-> Key(Req(t)), ready |-> ready]]

SessionProvider(q) == IF q.service = None THEN q.source ELSE q.service

\* take_prepared finds what a refused preflight of the same request left; the
\* entry is removed whosever it is.
Challenged(t) ==
    prepared[Req(t).item] = [key |-> Key(Req(t)), ready |-> FALSE]

PreflightRefused(t) ==
    /\ At(t, "preflight") /\ SessionProvider(Req(t)) \in installed
    /\ CachePrepared(t, FALSE) \/ UNCHANGED prepared
    /\ Answer(t, FALSE)
    /\ UNCHANGED <<files, progress, cancelled, settings>>

\* The next stage is reported as the entry's state "active".
Preparing(t) ==
    progress' = [progress EXCEPT ![Req(t).item] = IF @ = "absent" THEN @
                                                  ELSE "active"]

Preflight(t) ==
    /\ At(t, "preflight")
    /\ prepared' = [prepared EXCEPT ![Req(t).item] = None]
    /\ Preparing(t)
    /\ Set(t, [at |-> IF Challenged(t) THEN "retry" ELSE "source"])
    /\ UNCHANGED <<files, cancelled, settings>>

\* download_verified_retry: the challenged provider at once, unless another
\* download provider is the source and must be asked first.
VerifiedRetry(t) ==
    /\ At(t, "retry")
    /\ LET q == Req(t)
           id == call[t].selected
           applies == /\ id \in installed
                      /\ q.source \in {None, id} \/ q.source \notin installed
       IN  IF ~applies THEN Set(t, [at |-> "source"])
           ELSE Set(t, [at |-> IF q.source = id THEN "lock" ELSE "asked",
                        mode |-> "retry", provider |-> id])
    /\ UNCHANGED <<files, prepared, progress, cancelled, settings>>

\* Whether the source may prohibit replacing its recording.
SourceAsked(t) ==
    /\ Req(t).source \in installed
    /\ call[t].selected # Req(t).source

AskSource(t) ==
    /\ At(t, "source")
    /\ IF SourceAsked(t)
       THEN Set(t, [at |-> "asked", mode |-> "source",
                    provider |-> Req(t).source])
       ELSE Set(t, [at |-> "next",
                    direct |-> Req(t).source # None
                               /\ call[t].selected = Req(t).source])
    /\ UNCHANGED <<files, prepared, progress, cancelled, settings>>

-----------------------------------------------------------------------------
(* The providers, one after the other. *)

\* retain and filter: of a list, the entries that are in S, in their order.
Keep(S) ==
    [list \in Seq(Providers) |->
        LET kept[n \in 0..Len(list)] ==
                IF n = 0 THEN <<>>
                ELSE IF list[n] \in S THEN Append(kept[n - 1], list[n])
                ELSE kept[n - 1]
        IN  kept[Len(list)]]

\* Made before the source is asked: its answer does not change the order.
Order(q) ==
    CASE ~q.fallback /\ SessionProvider(q) # None -> <<SessionProvider(q)>>
      [] q.fallback /\ q.service # None ->
            <<q.service>> \o Keep(Providers \ {q.service})[Priority]
      [] OTHER -> Priority

\* prioritize_healthy_downloads: online, degraded, then unknown; offline ones
\* are left out, the selected one comes first.
Healthy(list, protected, selected, health) ==
    LET unasked(id) ==
            id = protected \/ id \notin Allowed \/ id \notin installed
        rank(id) == IF unasked(id) THEN "unknown" ELSE health[id]
        group(r) == Keep({id \in Providers : rank(id) = r})[list]
        ordered == group("online") \o group("degraded") \o group("unknown")
    IN  Keep({selected})[ordered] \o Keep(Providers \ {selected})[ordered]

Expand(t) ==
    /\ At(t, "next") /\ ~call[t].direct
    /\ call[t].queue = <<>> /\ ~call[t].expanded
    /\ \E health \in [Providers -> {"online", "degraded", "offline"}] :
          Set(t, [expanded |-> TRUE,
                  queue |-> Healthy(Order(Req(t)),
                                    IF call[t].selected = None
                                    THEN Req(t).source ELSE call[t].selected,
                                    call[t].selected, health)])
    /\ UNCHANGED <<files, prepared, progress, cancelled, settings>>

Exhausted(t) ==
    /\ At(t, "next") /\ ~call[t].direct
    /\ call[t].queue = <<>> /\ call[t].expanded
    /\ Answer(t, FALSE)
    /\ UNCHANGED <<files, prepared, progress, cancelled, settings>>

\* The attempt on the source itself, with the answer it gave before, if any.
Direct(t) ==
    /\ At(t, "next") /\ call[t].direct
    /\ LET id == Req(t).source
       IN  IF id \notin installed THEN Set(t, [direct |-> FALSE])
           ELSE IF call[t].source = "unavailable" THEN Answer(t, FALSE)
           ELSE Set(t, [at |-> "lock", mode |-> "direct", direct |-> FALSE,
                        provider |-> id, account |-> id \in account,
                        stop |-> call[t].source # "none" \/ id \in account])
    /\ UNCHANGED <<files, prepared, progress, cancelled, settings>>

Skipped(t, id) ==
    \/ id = Req(t).source /\ id # call[t].selected
    \/ id # call[t].selected /\ id \notin Allowed
    \/ id \notin installed

Fallback(t) ==
    /\ At(t, "next") /\ ~call[t].direct /\ call[t].queue # <<>>
    /\ LET id == Head(call[t].queue)
           rest == Tail(call[t].queue)
       IN  IF Skipped(t, id) THEN Set(t, [queue |-> rest])
           ELSE Set(t, [at |-> "asked", mode |-> "fallback", queue |-> rest,
                        provider |-> id, account |-> id \in account])
    /\ UNCHANGED <<files, prepared, progress, cancelled, settings>>

\* The availability of a provider, with what its session check may add.
Answers == [available : BOOLEAN, stop : BOOLEAN]

RetryAnswered(t, a) ==
    /\ At(t, "asked") /\ call[t].mode = "retry"
    /\ CASE a.available -> Set(t, [at |-> "lock"])
         [] ~a.available /\ a.stop -> Answer(t, FALSE)
         [] OTHER -> Set(t, [at |-> "source"])
    /\ UNCHANGED <<files, prepared, progress, cancelled, settings>>

SourceAnswered(t, a) ==
    /\ At(t, "asked") /\ call[t].mode = "source"
    /\ IF a.stop
       THEN Set(t, [at |-> "next", direct |-> TRUE, mode |-> "none",
                    provider |-> None, selected |-> Req(t).source,
                    source |-> IF a.available THEN "available"
                               ELSE "unavailable"])
       ELSE Onward(t)
    /\ UNCHANGED <<files, prepared, progress, cancelled, settings>>

FallbackAnswered(t, a) ==
    /\ At(t, "asked") /\ call[t].mode = "fallback"
    /\ LET stop == a.stop \/ call[t].account
       IN  CASE a.available -> Set(t, [at |-> "lock", stop |-> stop])
             [] ~a.available /\ stop -> Answer(t, FALSE)
             [] OTHER -> Onward(t)
    /\ UNCHANGED <<files, prepared, progress, cancelled, settings>>

\* The provider's script fails; `verify` if it wants a verification.
AskingFails(t, verify) ==
    /\ At(t, "asked")
    /\ CASE call[t].mode = "source" -> Onward(t)
         [] call[t].mode = "retry" /\ ~verify -> Set(t, [at |-> "source"])
         [] call[t].mode = "fallback" /\ ~verify /\ ~call[t].account ->
                Onward(t)
         [] OTHER -> Answer(t, FALSE)
    /\ IF call[t].mode = "fallback" /\ verify /\ ~call[t].account
       THEN CachePrepared(t, TRUE) ELSE UNCHANGED prepared
    /\ UNCHANGED <<files, progress, cancelled, settings>>

-----------------------------------------------------------------------------
(* download_attempt. *)

\* Mutant: a provider's skip_fallback is forgotten when its attempt fails.
StopsHereForgetful(t, kind) ==
    IF call[t].mode = "retry" THEN kind \in {"verify", "storage"}
    ELSE \/ call[t].account \/ call[t].provider \in account
         \/ kind \in {"verify", "storage"}
         \/ call[t].mode = "direct" /\ call[t].provider \in Strict

\* Whether plan_download, or download_verified_retry, ends with this failure.
StopsHere(t, kind) ==
    IF call[t].mode = "retry" THEN kind \in {"verify", "storage"}
    ELSE \/ call[t].account \/ call[t].provider \in account
         \/ kind \in {"verify", "storage"}
         \/ call[t].stop
         \/ call[t].mode = "direct" /\ call[t].provider \in Strict

Settle(t, kind) ==
    /\ IF StopsHere(t, kind) THEN Answer(t, FALSE)
       ELSE IF call[t].mode = "retry" THEN Set(t, [at |-> "source"])
       ELSE Onward(t)
    /\ IF /\ call[t].mode # "retry" /\ kind = "verify"
          /\ ~call[t].account /\ call[t].provider \notin account
       THEN CachePrepared(t, TRUE) ELSE UNCHANGED prepared

\* resolve_download_quality refuses the provider.
NoQuality(t) ==
    /\ At(t, "lock")
    /\ Settle(t, "quality")
    /\ UNCHANGED <<files, progress, cancelled, settings>>

\* The output lock is taken, attempt directories of this destination are
\* reclaimed, a file that is already there is the result, or else a new
\* attempt directory is made and the extension asked to download into it.
Remains(t) ==
    {d \in dirs : d.path # Req(t).path \/ d.provider # call[t].provider}
\* `variant`: allow_quality_variant, or the album that names the folder is not
\* known yet.
Exists(t) == library[Req(t).path] # 0 /\ ~Req(t).variant

\* Mutant: the directories are reclaimed before the lock is held.
LockAfterReclaim(t) ==
    /\ At(t, "lock")
    /\ IF lock[Req(t).path] # None
       THEN /\ dirs' = Remains(t) /\ dirs # dirs'
            /\ UNCHANGED <<call, progress, lock>>
       ELSE /\ lock' = [lock EXCEPT ![Req(t).path] = t]
            /\ dirs' = Remains(t) \cup {OwnDirectory(t)}
            /\ Preparing(t)
            /\ Set(t, [at |-> "download"])
    /\ UNCHANGED <<library, prepared, cancelled, settings>>

Lock(t) ==
    /\ At(t, "lock") /\ lock[Req(t).path] = None
    /\ IF Exists(t)
       THEN /\ dirs' = Remains(t)
            /\ Answer(t, TRUE)
            /\ UNCHANGED <<lock, progress>>
       ELSE /\ lock' = [lock EXCEPT ![Req(t).path] = t]
            /\ dirs' = Remains(t) \cup {OwnDirectory(t)}
            /\ Preparing(t)
            /\ Set(t, [at |-> "download"])
    /\ UNCHANGED <<library, prepared, cancelled, settings>>

\* An error, a failure, another track, a file outside the directory, no audio.
DownloadFails(t, kind) ==
    /\ At(t, "download")
    /\ LeaveAttempt(t)
    /\ Settle(t, kind)
    /\ UNCHANGED <<library, progress, cancelled, settings>>

\* The provider points to a file the library has already.
DownloadExists(t) ==
    /\ At(t, "download")
    /\ LeaveAttempt(t)
    /\ Answer(t, TRUE)
    /\ UNCHANGED <<library, prepared, progress, cancelled, settings>>

\* Mutant: the planned path's lock is kept, in one of two orders.
DeliveredKeepsLock(t, moved) ==
    /\ At(t, "download")
    /\ Preparing(t)
    /\ Set(t, [at |-> IF moved THEN "relock" ELSE "publish", moved |-> moved])
    /\ UNCHANGED <<files, prepared, cancelled, settings>>

\* Mutant: the lock is given back although the path stays the same.
DeliveredUnlocks(t, moved) ==
    /\ At(t, "download")
    /\ Preparing(t)
    /\ Set(t, [at |-> IF moved THEN "relock" ELSE "publish", moved |-> moved])
    /\ lock' = Unlocked(t)
    /\ UNCHANGED <<library, dirs, prepared, cancelled, settings>>

\* The file is good; finalizing.  If its container or album lead to another
\* path, the lock of the planned one is given back before the other is taken.
Delivered(t, moved) ==
    /\ At(t, "download")
    /\ Preparing(t)
    /\ Set(t, [at |-> IF moved THEN "relock" ELSE "publish", moved |-> moved])
    /\ lock' = IF moved THEN Unlocked(t) ELSE lock
    /\ UNCHANGED <<library, dirs, prepared, cancelled, settings>>

Destination(t) == IF call[t].moved THEN Elsewhere[Req(t).path] ELSE Req(t).path

Relock(t) ==
    /\ At(t, "relock") /\ lock[Destination(t)] = None
    /\ IF library[Destination(t)] # 0
       THEN LeaveAttempt(t) /\ Answer(t, FALSE)
       ELSE /\ lock' = [lock EXCEPT ![Destination(t)] = t]
            /\ Set(t, [at |-> "publish"])
            /\ UNCHANGED dirs
    /\ UNCHANGED <<library, prepared, progress, cancelled, settings>>

\* stage, stage_from, embed, publish or publish_new.  The delivered file must
\* still be in the attempt directory; publish_new replaces nothing.  An error
\* of the ISRC index comes after the file is in place.
Publish(t) ==
    /\ At(t, "publish")
    /\ LeaveAttempt(t)
    /\ IF /\ OwnDirectory(t) \in dirs
          /\ call[t].moved => library[Destination(t)] = 0
       THEN /\ library' = [library EXCEPT ![Destination(t)] = call[t].number]
            /\ \E indexed \in BOOLEAN : Answer(t, indexed)
       ELSE Answer(t, FALSE) /\ UNCHANGED library
    /\ UNCHANGED <<prepared, progress, cancelled, settings>>

\* The file system refuses a directory, a read or a write.
AttemptErrs(t) ==
    /\ At(t, "download") \/ At(t, "publish")
    /\ LeaveAttempt(t)
    /\ Answer(t, FALSE)
    /\ UNCHANGED <<library, prepared, progress, cancelled, settings>>

-----------------------------------------------------------------------------
(* From outside. *)

\* DownloadState::cancel.
Cancel(i) ==
    /\ Event
    /\ cancelled' = cancelled \cup {i}
    /\ progress' = [progress EXCEPT ![i] = "absent"]
    /\ UNCHANGED <<call, files, prepared, account, installed, started>>

\* The application resets its id before a retry.
Reset(i) ==
    /\ i \in cancelled /\ Holders(i) = {}
    /\ cancelled' = cancelled \ {i}
    /\ UNCHANGED <<call, files, prepared, progress, settings>>

\* Five minutes pass, or 128 newer entries come.
Expire(i) ==
    /\ prepared[i] # None
    /\ prepared' = [prepared EXCEPT ![i] = None]
    /\ UNCHANGED <<call, files, progress, cancelled, settings>>

AccountMode(id) ==
    /\ Event
    /\ account' = IF id \in account THEN account \ {id} ELSE account \cup {id}
    /\ UNCHANGED <<call, files, prepared, progress, cancelled, installed,
                   started>>

Unload(id) ==
    /\ Event /\ id \in installed
    /\ installed' = installed \ {id}
    /\ UNCHANGED <<call, files, prepared, progress, cancelled, account,
                   started>>

\* The process dies: files and directories stay.
Crash ==
    /\ Event
    /\ call' = [t \in Threads |-> Idle]
    /\ lock' = [p \in Paths |-> None]
    /\ prepared' = [i \in Items |-> None]
    /\ progress' = [i \in Items |-> "absent"]
    /\ cancelled' = {}
    /\ UNCHANGED <<library, dirs, account, installed, started>>

Step(t) ==
    \/ Abandon(t) \/ Join(t) \/ Report(t)
    \/ PreflightRefused(t) \/ Preflight(t) \/ VerifiedRetry(t) \/ AskSource(t)
    \/ Expand(t) \/ Exhausted(t) \/ Direct(t) \/ Fallback(t)
    \/ \E a \in Answers : \/ RetryAnswered(t, a) \/ SourceAnswered(t, a)
                          \/ FallbackAnswered(t, a)
    \/ \E verify \in BOOLEAN : AskingFails(t, verify)
    \/ NoQuality(t) \/ Lock(t)
    \/ \E kind \in {"verify", "storage", "other"} : DownloadFails(t, kind)
    \/ DownloadExists(t)
    \/ \E moved \in BOOLEAN : Delivered(t, moved)
    \/ Relock(t) \/ Publish(t) \/ AttemptErrs(t)

Outside ==
    \/ \E i \in Items : Cancel(i) \/ Reset(i) \/ Expire(i)
    \/ \E id \in Providers : AccountMode(id) \/ Unload(id)
    \/ Crash

Next ==
    \/ \E t \in Threads : Step(t) \/ CallerGivesUp(t)
    \/ \E t \in Threads, q \in Requests : Begin(t, q)
    \/ Outside

Spec == Init /\ [][Next]_vars

(***************************************************************************)
(* A planner thread goes on: extension calls and session checks have       *)
(* timeouts, the wait for a lock wakes up every ten milliseconds.  Callers *)
(* and the outside are free.                                               *)
(***************************************************************************)
FairSpec == Spec /\ \A t \in Threads : WF_vars(Step(t))

-----------------------------------------------------------------------------
(* Properties. *)

Places == {"idle", "preflight", "retry", "source", "next", "asked", "lock",
           "download", "relock", "publish", "answered", "reporting"}
Numbers == 0..MaxRequests + 1
Directories == [path : Paths, provider : Providers, owner : Numbers]
Entries == [key : {Key(q) : q \in Requests}, ready : BOOLEAN]

TypeOK ==
    /\ \A t \in Threads :
          /\ DOMAIN call[t] = DOMAIN Idle
          /\ call[t].at \in Places
          /\ call[t].at # "idle" => Req(t) \in Requests
          /\ call[t].number \in Numbers
          /\ call[t].held \in BOOLEAN
          /\ call[t].selected \in Providers \cup {None}
          /\ call[t].provider \in Providers \cup {None}
          /\ call[t].queue \in Seq(Providers)
          /\ call[t].at \in {"asked", "lock", "download", "relock", "publish"}
                => call[t].provider \in Providers
    /\ library \in [Paths -> Numbers]
    /\ lock \in [Paths -> Threads \cup {None}]
    /\ \A p \in Paths : lock[p] # None =>
          call[lock[p]].at \in {"download", "publish"}
    /\ dirs \subseteq Directories
    /\ prepared \in [Items -> Entries \cup {None}]
    /\ progress \in [Items -> {"absent", "active", "completed"}]
    /\ cancelled \subseteq Items
    /\ account \subseteq Providers /\ installed \subseteq Providers
    /\ started \in 0..MaxRequests /\ events \in 0..MaxEvents

\* "A mismatched track, failed provider or cancellation can never overwrite an
\* old library file" (downloads.rs:726): a file that is there is replaced only
\* by a request that asked for a variant of that very path, however many
\* requests head for the path at once, directly or by a changed container.
OldFilesKept ==
    [][ \A p \in Paths :
          library[p] # 0 /\ library'[p] # library[p]
              => \E t \in Threads :
                    /\ call[t].number = library'[p]
                    /\ Req(t).variant /\ Req(t).path = p ]_vars

\* "The output lock also owns this destination's attempt directories"
\* (downloads.rs:682): while a request holds the lock of its planned path, its
\* directory is on disk, and it is the only one of that provider and path.
\* It does not outlive the lock: see the README on requests that change path.
DirectoryOwned ==
    \A t \in Threads :
        call[t].at \in {"download", "publish"} /\ ~call[t].moved
            => dirs \ Remains(t) = {OwnDirectory(t)}

\* The state is well typed and a request that holds the lock of its planned path
\* owns its directory.
PlannerInv == TypeOK /\ DirectoryOwned

\* No download is shown as running that nobody runs: whoever finished, failed,
\* was cancelled or given up by its caller, and in whatever order two requests
\* of one item did so, an item without a request is absent or completed.
NoGhostProgress ==
    \A i \in Items :
        progress[i] = "active"
            => \E t \in Threads : call[t].at # "idle" /\ Req(t).item = i

\* "A source catalog can explicitly prohibit replacing its recording"
\* (downloads.rs:242): once the source has said so, no other provider is ever
\* asked to download for this request, as long as the source is loaded.
SourceKept ==
    \A t \in Threads :
        /\ call[t].source # "none" /\ Req(t).source \in installed
        /\ call[t].at \in {"lock", "download", "relock", "publish"}
        => call[t].provider = Req(t).source

\* Every request is answered, although requests wait for each other's output
\* locks and may want the same two paths in opposite order.
RequestsEnd == \A t \in Threads : call[t].at # "idle" ~> call[t].at = "idle"
=============================================================================
