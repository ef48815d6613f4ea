------------------------- MODULE DownloadQueueProofs -------------------------
(***************************************************************************)
(* Proofs about the download queue, for any items, platforms and bounds.   *)
(*                                                                         *)
(* NothingStranded speaks of the moments without a batch, so what makes it *)
(* inductive says who takes care of an entry while one runs: Covered.  It  *)
(* must also hold of queued entries that late progress can still turn into *)
(* downloading ones, and it survives the end of a batch for three reasons: *)
(* a snapshot of an ended run shows nothing in progress (Sound), the       *)
(* fallback drops an entry only once it is settled or its timer runs       *)
(* (Timers), and before a run is started only an engine call that outlived *)
(* an earlier one can have touched an entry (Building).                    *)
(*                                                                         *)
(* The parts take the controller's record as a parameter: a step first     *)
(* writes its fields and then may start the next batch, Kick, and the two  *)
(* are looked at one after the other.                                      *)
(***************************************************************************)
EXTENDS DownloadQueue, SequenceTheorems, TLAPS

Ctls == [native : BOOLEAN, processing : BOOLEAN, runStopped : BOOLEAN, manual : BOOLEAN,
         pending : {"none", "pause", "resume"}, linked : BOOLEAN,
         hydrated : BOOLEAN,
         at : {"idle", "hydrate", "build", "starting", "poll", "merge",
               "fallback", "admission", "download", "wait"},
         batch : SUBSET Items, left : SUBSET Items, run : 0..MaxRuns,
         read : Snapshots]

\* The awaits before the fallback, those of a native run and those of the fallback.
Early == {"hydrate", "build", "starting", "poll", "merge"}
Native == {"starting", "poll", "merge"}
Falling == {"fallback", "admission", "download", "wait"}

\* The entry shows a download.
Live(i) == status[i] \in {"downloading", "finalizing"}
\* The entry the fallback is busy with.
CurrentOf(c) == CHOOSE i \in c.left : TRUE

-----------------------------------------------------------------------------
(* The inductive invariant. *)

\* The coroutine's place and its flags.
Shape(c) ==
    /\ c.left \subseteq c.batch
    /\ c.at \in {"admission", "download", "wait"} => c.left # {}
    /\ c.processing <=> c.at # "idle"
    /\ c.at = "idle" => c.batch = {}
    /\ c.at \in Early => c.left = c.batch /\ ~c.runStopped
    /\ c.at \in Native => c.native
    /\ c.at = "hydrate" => ~c.hydrated
    /\ ~c.hydrated => c.at \in {"idle", "hydrate"}

\* Nothing is known of an id before its entry exists.
Unknown(c) ==
    \A i \in Items : status[i] = "unused" =>
        engine[i] = "none" /\ late[i] = "no" /\ i \notin retried /\ i \notin c.batch

\* No download before the settings are loaded.
Unhydrated(c) ==
    ~c.hydrated => \A i \in Items : engine[i] # "downloading" /\ ~Live(i)

\* Every download that is shown, or that late progress may still show, is the
\* batch's, or its timer runs, or it is lost.
Covered(c) ==
    \A i \in Items :
        Live(i) \/ (status[i] = "queued" /\ engine[i] = "downloading" /\ ~c.runStopped)
            => i \in backoff \/ late[i] = "lost" \/ i \in c.left

\* Until the worker is started, only a call that outlived an earlier run makes
\* an entry of the batch show a download.
Unstarted(c) == c.at \in {"hydrate", "build"} \/ (c.at = "starting" /\ c.run \in Throwing)
Building(c) ==
    Unstarted(c) => \A i \in Items : Live(i) => i \in backoff \/ late[i] # "no"

\* Who may be downloading.
Engines(c) ==
    \A i \in Items : engine[i] = "downloading" =>
        \/ late[i] # "no"
        \/ worker.running /\ worker.items[i] = "downloading"
        \/ c.at = "download" /\ i = CurrentOf(c)

\* A run that ended shows nothing in progress, and only failures have errors.
Sound(w) ==
    /\ w.running \/ \A i \in Items : w.items[i] \in Terminal \cup {"queued", "absent"}
    /\ \A i \in Items : w.errors[i] # "none" => w.items[i] = "failed"

\* The worker works for the batch that polls it, on what it was sent.
Working(c) ==
    /\ Sound(worker)
    /\ worker.run <= c.run
    /\ worker.running => c.at \in Native /\ worker.run = c.run
    /\ Unstarted(c) => ~worker.running
    /\ c.at = "merge" => worker.run = c.run
    /\ c.at \in Native /\ worker.run = c.run =>
         \A i \in Items :
           /\ worker.items[i] # "absent" <=> i \in c.batch \ Rejected
           /\ worker.items[i] = "failed" => engine[i] # "downloading"

\* At most one start is on its way, that of the current run.
Starting(c) ==
    \A n \in DOMAIN intents : intents[n].kind = "start" =>
        /\ c.at \in {"starting", "poll"} /\ ~Unstarted(c)
        /\ intents[n].run = c.run /\ intents[n].batch = c.batch \ Rejected
        /\ worker.run # c.run
        /\ \A m \in DOMAIN intents : intents[m].kind = "start" => m = n

\* What was read of the run is out of date at most by what went on since.
Reading(c) ==
    c.at = "merge" =>
        /\ Sound(c.read)
        /\ ~c.read.running => ~worker.running
        /\ \A i \in Items :
             /\ c.read.items[i] = "absent" <=> worker.items[i] = "absent"
             /\ c.read.items[i] \in Terminal => worker.items[i] = c.read.items[i]

\* An entry whose timer runs is not worked on: its part of the batch is over.
Timers(c) ==
    /\ \A i \in backoff : status[i] # "queued" /\ engine[i] # "downloading"
    /\ c.at \in Early => \A i \in backoff \cap c.batch :
         /\ c.at \in {"poll", "merge"} /\ worker.run = c.run
         /\ worker.items[i] = "failed"
         /\ c.at = "merge" => c.read.items[i] = "failed"
    /\ c.at \in Falling => \A i \in backoff \cap c.left : c.at = "wait" /\ i = CurrentOf(c)
    /\ c.at = "wait" =>
         /\ engine[CurrentOf(c)] # "downloading"
         /\ Live(CurrentOf(c)) => CurrentOf(c) \in backoff

\* A rate limit that is shown has had its retry.
Limited == \A i \in Items : error[i] = "rate" => i \in retried

\* Only the native worker's calls outlive their run.
Outlived(c) ==
    /\ \A i \in orphans : late[i] # "no"
    /\ ~c.native => \A i \in Items : late[i] = "no"

Good(c) ==
    /\ Shape(c) /\ Unknown(c) /\ Unhydrated(c) /\ Covered(c) /\ Building(c)
    /\ Engines(c) /\ Working(c) /\ Starting(c) /\ Reading(c) /\ Timers(c)
    /\ Limited /\ Outlived(c)

IInv == TypeOK /\ Good(ctl)

-----------------------------------------------------------------------------
(* Types.  Types is TypeOK without what it says of ctl. *)

Types ==
    /\ status \in [Items -> Statuses \cup {"unused", "gone"}]
    /\ error \in [Items -> Errors]
    /\ retried \subseteq Items
    /\ backoff \subseteq retried
    /\ intents \in Seq(Intents)
    /\ worker \in Snapshots
    /\ engine \in [Items -> {"none", "downloading", "completed"}]
    /\ orphans \subseteq Items
    /\ late \in [Items -> {"no", "stopped", "lost"}]
    /\ attempts \in [Items -> 0..MaxAttempts]
    /\ events \in 0..MaxEvents

(* TypeOK by its two halves. *)
LEMMA TypeSplit ==
    ASSUME TypeOK PROVE Types /\ ctl \in Ctls
  BY DEF TypeOK, Types, Ctls

(* The halves and the invariant make IInv. *)
LEMMA TypeJoin ==
    ASSUME Types, ctl \in Ctls, Good(ctl) PROVE IInv
  BY DEF TypeOK, Types, Ctls, Good, Shape, IInv

(* The same after a step. *)
LEMMA TypeJoinNext ==
    ASSUME Types', ctl' \in Ctls, Good(ctl)' PROVE IInv'
  BY DEF TypeOK, Types, Ctls, Good, Shape, IInv

(* No run is a sound snapshot. *)
LEMMA NoRunIsSnapshot == NoRun \in Snapshots /\ Sound(NoRun)
  BY ConstantsAssumption DEF NoRun, Snapshots, Sound, Errors

(* The fallback's current entry is one it has left. *)
LEMMA CurrentIsLeft ==
    ASSUME NEW c, c.left # {} PROVE CurrentOf(c) \in c.left
  BY DEF CurrentOf

-----------------------------------------------------------------------------
(* _processQueue starts a batch only when none runs, with what is queued. *)
LEMMA KickFields ==
    ASSUME NEW c \in Ctls, NEW st
    PROVE  \/ Kick(c, st) = c
           \/ /\ Kick(c, st) \in Ctls
              /\ ~c.processing /\ ~c.manual
              /\ Kick(c, st).processing /\ ~Kick(c, st).runStopped
              /\ Kick(c, st).at = IF c.hydrated THEN "build" ELSE "hydrate"
              /\ Kick(c, st).batch = {i \in Items : st[i] = "queued"}
              /\ Kick(c, st).left = {i \in Items : st[i] = "queued"}
              /\ Kick(c, st).run = c.run /\ Kick(c, st).hydrated = c.hydrated
              /\ Kick(c, st).native = c.native
<1> DEFINE queued == {i \in Items : st[i] = "queued"}
           k == [c EXCEPT !.processing = TRUE, !.runStopped = FALSE,
                          !.at = IF c.hydrated THEN "build" ELSE "hydrate",
                          !.batch = queued, !.left = queued]
<1>1. Kick(c, st) = IF c.processing \/ c.manual \/ queued = {} THEN c ELSE k
  BY DEF Kick
<1>2. queued \in SUBSET Items
  OBVIOUS
<1> HIDE DEF queued
<1>3. k \in Ctls
  BY <1>2 DEF Ctls
<1>4. /\ k.processing = TRUE /\ k.runStopped = FALSE
      /\ k.at = IF c.hydrated THEN "build" ELSE "hydrate"
      /\ k.batch = queued /\ k.left = queued
      /\ k.run = c.run /\ k.hydrated = c.hydrated /\ k.native = c.native
  BY DEF Ctls
<1> HIDE DEF k
<1>5. CASE c.processing \/ c.manual \/ queued = {}
  BY <1>1, <1>5
<1>6. CASE ~(c.processing \/ c.manual \/ queued = {})
  <2>1. Kick(c, st) = k
    BY <1>1, <1>6
  <2> QED
    BY <2>1, <1>3, <1>4, <1>6 DEF queued
<1> QED
  BY <1>5, <1>6

(* A step that writes c into ctl. *)
LEMMA GoodOfCtl ==
    ASSUME NEW CONSTANT c, ctl' = c, Good(c)' PROVE Good(ctl)'
  BY DEF Good, Shape, Unknown, Unhydrated, Covered, Building, Unstarted, Engines,
     CurrentOf, Working, Starting, Reading, Timers, Outlived

(* So a batch may be started whenever the invariant holds. *)
LEMMA KickGood ==
    ASSUME NEW CONSTANT c \in Ctls, Types', Good(c)', ctl' = Kick(c, status')
    PROVE  ctl' \in Ctls /\ Good(ctl)'
<1>1. CASE ctl' = c
  BY <1>1, GoodOfCtl
<1>2. CASE ctl' # c
  <2> DEFINE queued == {i \in Items : status'[i] = "queued"}
  <2>1. /\ ctl' \in Ctls /\ ~c.processing
        /\ ctl'.processing /\ ~ctl'.runStopped
        /\ ctl'.at = (IF c.hydrated THEN "build" ELSE "hydrate")
        /\ ctl'.batch = queued /\ ctl'.left = queued
        /\ ctl'.run = c.run /\ ctl'.hydrated = c.hydrated
        /\ ctl'.native = c.native
    BY <1>2, KickFields
  <2>2. c.at = "idle" /\ c.batch = {} /\ c.left = {}
    BY <2>1 DEF Good, Shape, Ctls
  <2>3. ctl'.at \in {"hydrate", "build"}
    BY <2>1
  <2>4. Shape(ctl)'
    BY <2>1, <2>3 DEF Shape, Early, Native
  <2>5. Unknown(ctl)' /\ Unhydrated(ctl)'
    BY <2>1 DEF Good, Unknown, Unhydrated
  <2>6. Covered(ctl)' /\ Building(ctl)'
    <3>1. \A i \in Items : Live(i)' => i \in backoff' \/ late'[i] = "lost"
      BY <2>2 DEF Good, Covered
    <3> QED
      BY <3>1, <2>1 DEF Covered, Building, Live
  <2>7. Engines(ctl)'
    BY <2>2 DEF Good, Engines
  <2>8. Working(ctl)' /\ Starting(ctl)' /\ Reading(ctl)'
    BY <2>1, <2>2, <2>3 DEF Good, Working, Starting, Reading, Native
  <2>9. Timers(ctl)'
    BY <2>1, <2>2, <2>3 DEF Good, Timers, Early, Falling
  <2>10. Limited' /\ Outlived(ctl)'
    BY <2>1 DEF Good, Outlived
  <2> QED
    BY <2>1, <2>4, <2>5, <2>6, <2>7, <2>8, <2>9, <2>10 DEF Good
<1> QED
  BY <1>1, <1>2

(* The controller between two batches; Leave goes there and may kick. *)
Ended(c) == [c EXCEPT !.processing = FALSE, !.at = "idle", !.batch = {},
                      !.left = {}, !.read = NoRun]

(* The fields of the controller between two batches. *)
LEMMA EndedFields ==
    ASSUME NEW c \in Ctls
    PROVE  /\ Ended(c) \in Ctls
           /\ Ended(c).processing = FALSE /\ Ended(c).at = "idle"
           /\ Ended(c).batch = {} /\ Ended(c).left = {}
           /\ Ended(c).run = c.run /\ Ended(c).hydrated = c.hydrated
           /\ Ended(c).native = c.native /\ Ended(c).runStopped = c.runStopped
           /\ Ended(c).manual = c.manual
  BY NoRunIsSnapshot DEF Ended, Ctls

(* A batch may end when it leaves nothing in progress but what a timer will *)
(* take up, and no worker.                                                  *)
LEMMA EndedGood ==
    ASSUME NEW CONSTANT c \in Ctls, Unknown(c)', Unhydrated(c)', Limited', Outlived(c)',
           \A i \in Items :
             Live(i)' \/ (status'[i] = "queued" /\ engine'[i] = "downloading" /\ ~c.runStopped)
               => i \in backoff' \/ late'[i] = "lost",
           \A i \in Items : engine'[i] = "downloading" => late'[i] # "no",
           \A i \in backoff' : status'[i] # "queued" /\ engine'[i] # "downloading",
           Sound(worker)', worker'.run <= c.run, ~worker'.running,
           \A n \in DOMAIN intents' : intents'[n].kind # "start"
    PROVE  Ended(c) \in Ctls /\ Good(Ended(c))'
<1> PICK k : k = Ended(c)
  OBVIOUS
<1>1. /\ k \in Ctls
      /\ k.processing = FALSE /\ k.at = "idle" /\ k.batch = {} /\ k.left = {}
      /\ k.run = c.run /\ k.hydrated = c.hydrated
      /\ k.native = c.native /\ k.runStopped = c.runStopped
  BY EndedFields
<1>2. Shape(k)'
  BY <1>1 DEF Shape, Early, Native
<1>3. Unknown(k)' /\ Unhydrated(k)' /\ Outlived(k)'
  BY <1>1 DEF Unknown, Unhydrated, Outlived
<1>4. Covered(k)' /\ Building(k)' /\ Engines(k)'
  BY <1>1 DEF Covered, Building, Unstarted, Engines
<1>5. Working(k)' /\ Starting(k)' /\ Reading(k)'
  BY <1>1 DEF Working, Starting, Reading, Unstarted, Native
<1>6. Timers(k)'
  BY <1>1 DEF Timers, Early, Falling
<1>7. Good(k)'
  BY <1>2, <1>3, <1>4, <1>5, <1>6 DEF Good
<1> QED
  BY <1>1, <1>7

(* Leave: a sound end, then perhaps the next batch. *)
LEMMA LeaveGood ==
    ASSUME NEW CONSTANT c \in Ctls, NEW continue \in BOOLEAN, Types', Good(Ended(c))',
           ctl' = Leave(c, status', continue)
    PROVE  ctl' \in Ctls /\ Good(ctl)'
<1> PICK k : k = Ended(c)
  OBVIOUS
<1>1. k \in Ctls /\ Good(k)'
  BY EndedFields
<1>2. ctl' = IF continue THEN Kick(k, status') ELSE k
  BY DEF Leave, Ended
<1>3. CASE continue
  BY <1>1, <1>2, <1>3, KickGood
<1>4. CASE ~continue
  <2>1. ctl' = k
    BY <1>2, <1>4
  <2> QED
    BY <1>1, <2>1, GoodOfCtl
<1> QED
  BY <1>3, <1>4

-----------------------------------------------------------------------------
(* What several steps share. *)

\* c and d agree in all but the pause, its acknowledgement and the link.
Agree(c, d) ==
    /\ c.native = d.native /\ c.processing = d.processing /\ c.runStopped = d.runStopped
    /\ c.hydrated = d.hydrated /\ c.at = d.at /\ c.batch = d.batch /\ c.left = d.left
    /\ c.run = d.run /\ c.read = d.read

(* Pausing and resuming touch nothing the invariant speaks of. *)
LEMMA PausingGood ==
    ASSUME Good(ctl), NEW CONSTANT c, Agree(c, ctl),
           UNCHANGED <<status, error, retried, backoff, engine, orphans, late>>,
           worker'.run = worker.run, worker'.running = worker.running,
           worker'.items = worker.items, worker'.errors = worker.errors,
           Starting(c)'
    PROVE  Good(c)'
<1> USE DEF Agree
<1>1. Shape(c)' /\ Unknown(c)' /\ Unhydrated(c)' /\ Covered(c)' /\ Building(c)'
  BY DEF Good, Shape, Unknown, Unhydrated, Covered, Building, Unstarted, Live
<1>2. Engines(c)' /\ Working(c)' /\ Reading(c)'
  BY DEF Good, Engines, CurrentOf, Working, Sound, Reading, Unstarted
<1>3. Timers(c)' /\ Limited' /\ Outlived(c)'
  BY DEF Good, Timers, CurrentOf, Live, Limited, Outlived
<1> QED
  BY <1>1, <1>2, <1>3 DEF Good

(* Starting survives a step that sends nothing. *)
LEMMA StartsUnchanged ==
    ASSUME Starting(ctl), NEW CONSTANT c, Agree(c, ctl), UNCHANGED intents,
           worker'.run = worker.run
    PROVE  Starting(c)'
  BY DEF Starting, Agree, Unstarted

(* A pause or resume intent is no start. *)
LEMMA PauseAppended ==
    ASSUME Types, Starting(ctl), NEW CONSTANT c, Agree(c, ctl), NEW b \in BOOLEAN,
           intents' = Append(intents, [kind |-> "pause", manual |-> b]),
           worker' = worker
    PROVE  Starting(c)' /\ intents' \in Seq(Intents)
<1> DEFINE p == [kind |-> "pause", manual |-> b]
<1>1. p \in Intents /\ p.kind = "pause"
  BY DEF Intents
<1> HIDE DEF p
<1>2. intents' = Append(intents, p) /\ intents \in Seq(Intents)
  BY DEF Types, p
<1>3. /\ DOMAIN intents = 1..Len(intents) /\ Len(intents) \in Nat
      /\ DOMAIN intents' = 1..(Len(intents) + 1)
      /\ \A n \in 1..Len(intents) : intents'[n] = intents[n]
      /\ intents'[Len(intents) + 1] = p
  BY <1>2
<1>4. \A n \in DOMAIN intents' : intents'[n].kind = "start" =>
         n \in DOMAIN intents /\ intents'[n] = intents[n]
  BY <1>1, <1>3
<1>5. intents' \in Seq(Intents)
  BY <1>1, <1>2
<1>6. Starting(c)'
  BY <1>4 DEF Starting, Agree, Unstarted
<1> QED
  BY <1>5, <1>6

(* New and removed entries. *)
LEMMA EntriesGood ==
    ASSUME Types, ctl \in Ctls, Good(ctl), NEW CONSTANT c, c = ctl,
           UNCHANGED <<error, retried, backoff, outside>>,
           status' \in [Items -> Statuses \cup {"unused", "gone"}],
           \A i \in Items : \/ status'[i] = status[i] \/ status'[i] = "gone"
                            \/ status[i] = "unused" /\ status'[i] = "queued"
    PROVE  Good(c)'
<1> USE DEF outside
<1>1. Shape(c)' /\ Unhydrated(c)' /\ Engines(c)' /\ Working(c)' /\ Starting(c)' /\ Reading(c)'
  BY DEF Good, Shape, Unhydrated, Live, Engines, CurrentOf, Working, Sound, Starting, Reading,
     Unstarted
<1>2. Unknown(c)' /\ Limited' /\ Outlived(c)'
  BY DEF Good, Unknown, Limited, Outlived
<1>3. \A i \in Items : Live(i)' => Live(i)
  BY DEF Live
<1>4. Covered(c)' /\ Building(c)'
  BY <1>3 DEF Good, Covered, Building, Unstarted, Unknown
<1>5. Timers(c)'
  <2>1. \A i \in backoff : i \in Items /\ status[i] # "unused" /\ status'[i] # "queued"
    BY DEF Types, Good, Timers, Unknown
  <2>2. ctl.at = "wait" => CurrentOf(ctl) \in Items
    BY CurrentIsLeft DEF Good, Shape, Ctls
  <2> QED
    BY <1>3, <2>1, <2>2 DEF Good, Timers, CurrentOf
<1> QED
  BY <1>1, <1>2, <1>4, <1>5 DEF Good

-----------------------------------------------------------------------------
(* User commands. *)

(* Entries come and go while the batch runs. *)
LEMMA EntriesPreserve ==
    ASSUME IInv, UNCHANGED <<error, retried, backoff, outside, attempts, events>>,
           status' \in [Items -> Statuses \cup {"unused", "gone"}],
           \A i \in Items : \/ status'[i] = status[i] \/ status'[i] = "gone"
                            \/ status[i] = "unused" /\ status'[i] = "queued",
           ctl' = ctl \/ ctl' = Kick(ctl, status')
    PROVE  IInv'
<1> PICK c : c = ctl
  OBVIOUS
<1>1. Types /\ c \in Ctls /\ Good(ctl)
  BY TypeSplit DEF IInv
<1>2. Types'
  BY <1>1 DEF Types, outside
<1>3. Good(c)'
  BY <1>1, EntriesGood
<1>4. ctl' \in Ctls /\ Good(ctl)'
  <2>1. CASE ctl' = Kick(ctl, status')
    BY <2>1, <1>1, <1>2, <1>3, KickGood
  <2>2. CASE ctl' = ctl
    BY <2>2, <1>1, <1>3, GoodOfCtl
  <2> QED
    BY <2>1, <2>2
<1> QED
  BY <1>2, <1>4, TypeJoinNext

(* enqueue: a new entry, then a batch if none runs. *)
LEMMA EnqueuePreserves ==
    ASSUME IInv, NEW i \in Items, Enqueue(i) PROVE IInv'
<1>1. status \in [Items -> Statuses \cup {"unused", "gone"}]
  BY DEF IInv, TypeOK
<1>2. /\ status' \in [Items -> Statuses \cup {"unused", "gone"}]
      /\ \A j \in Items : \/ status'[j] = status[j]
                          \/ status[j] = "unused" /\ status'[j] = "queued"
  BY <1>1 DEF Enqueue, Statuses
<1> QED
  BY <1>2, EntriesPreserve DEF Enqueue

(* remove: whoever works on the entry finds it gone. *)
LEMMA RemovePreserves ==
    ASSUME IInv, NEW i \in Items, Remove(i) PROVE IInv'
<1>1. status \in [Items -> Statuses \cup {"unused", "gone"}]
  BY DEF IInv, TypeOK
<1>2. /\ status' \in [Items -> Statuses \cup {"unused", "gone"}]
      /\ \A j \in Items : status'[j] = status[j] \/ status'[j] = "gone"
  BY <1>1 DEF Remove
<1> QED
  BY <1>2, EntriesPreserve DEF Remove

(* clearCompleted removes finished entries only. *)
LEMMA ClearCompletedPreserves ==
    ASSUME IInv, ClearCompleted PROVE IInv'
<1>1. status \in [Items -> Statuses \cup {"unused", "gone"}]
  BY DEF IInv, TypeOK
<1>2. /\ status' \in [Items -> Statuses \cup {"unused", "gone"}]
      /\ \A j \in Items : status'[j] = status[j] \/ status'[j] = "gone"
  BY <1>1 DEF ClearCompleted
<1> QED
  BY <1>2, EntriesPreserve DEF ClearCompleted

(* retry: one entry goes, one under a new id comes. *)
LEMMA RetryPreserves ==
    ASSUME IInv, NEW i \in Items, NEW new \in Items, Retry(i, new) PROVE IInv'
<1>1. status \in [Items -> Statuses \cup {"unused", "gone"}]
  BY DEF IInv, TypeOK
<1>2. /\ status' \in [Items -> Statuses \cup {"unused", "gone"}]
      /\ \A j \in Items : \/ status'[j] = status[j] \/ status'[j] = "gone"
                          \/ status[j] = "unused" /\ status'[j] = "queued"
  BY <1>1 DEF Retry, Statuses
<1> QED
  BY <1>2, EntriesPreserve DEF Retry

(* The pause and resume buttons, with the intent they may send. *)
LEMMA SendGood ==
    ASSUME Types, Good(ctl), NEW CONSTANT c, Agree(c, ctl), NEW b \in BOOLEAN, Send(b),
           UNCHANGED <<entries, worker, engine, orphans, late, attempts>>,
           events' \in 0..MaxEvents
    PROVE  Types' /\ Good(c)'
<1>1. Starting(c)' /\ intents' \in Seq(Intents)
  <2>1. CASE intents' = intents
    BY <2>1, StartsUnchanged DEF Good, Types
  <2>2. CASE intents' = Append(intents, [kind |-> "pause", manual |-> b])
    BY <2>2, PauseAppended DEF Good
  <2> QED
    BY <2>1, <2>2 DEF Send
<1>2. Good(c)'
  BY <1>1, PausingGood DEF entries
<1>3. Types'
  BY <1>1 DEF Types, entries
<1> QED
  BY <1>2, <1>3

(* The counter of outside events stays in its range. *)
LEMMA EventCounted ==
    ASSUME Types, events < MaxEvents, events' = events + 1 PROVE events' \in 0..MaxEvents
  BY ConstantsAssumption DEF Types

(* pause: no batch is started or ended by it. *)
LEMMA PausePreserves ==
    ASSUME IInv, Pause PROVE IInv'
<1> PICK c : c = [ctl EXCEPT !.manual = TRUE, !.pending = "pause"]
  OBVIOUS
<1>1. Types /\ ctl \in Ctls /\ Good(ctl)
  BY TypeSplit DEF IInv
<1>2. c \in Ctls /\ Agree(c, ctl)
  BY <1>1 DEF Ctls, Agree
<1>3. events' \in 0..MaxEvents
  BY <1>1, EventCounted DEF Pause
<1>4. Types' /\ Good(c)'
  BY <1>1, <1>2, <1>3, SendGood DEF Pause
<1>5. ctl' = c
  BY DEF Pause
<1> QED
  BY <1>2, <1>4, <1>5, GoodOfCtl, TypeJoinNext

(* resume: the pause ends and a batch may start. *)
LEMMA ResumePreserves ==
    ASSUME IInv, Resume PROVE IInv'
<1> PICK c : c = [ctl EXCEPT !.manual = FALSE, !.pending = "resume"]
  OBVIOUS
<1>1. Types /\ ctl \in Ctls /\ Good(ctl)
  BY TypeSplit DEF IInv
<1>2. c \in Ctls /\ Agree(c, ctl)
  BY <1>1 DEF Ctls, Agree
<1>3. events' \in 0..MaxEvents
  BY <1>1, EventCounted DEF Resume
<1>4. Types' /\ Good(c)'
  BY <1>1, <1>2, <1>3, SendGood DEF Resume
<1>5. ctl' = Kick(c, status')
  BY DEF Resume, entries
<1>6. ctl' \in Ctls /\ Good(ctl)'
  BY <1>2, <1>4, <1>5, KickGood
<1> QED
  BY <1>4, <1>6, TypeJoinNext

(* The app is back in the foreground: a batch may start. *)
LEMMA AppResumedPreserves ==
    ASSUME IInv, AppResumed PROVE IInv'
<1>1. status \in [Items -> Statuses \cup {"unused", "gone"}]
  BY DEF IInv, TypeOK
<1> QED
  BY <1>1, EntriesPreserve DEF AppResumed, entries

-----------------------------------------------------------------------------
(* The worker and the engine. *)

(* A running worker goes on with what it was sent and only settles items. *)
LEMMA RunningPreserves ==
    ASSUME IInv, worker.running, UNCHANGED <<entries, ctl, intents, attempts>>,
           events' \in 0..MaxEvents,
           worker' \in Snapshots, worker'.run = worker.run, Sound(worker)',
           engine' \in [Items -> {"none", "downloading", "completed"}],
           late' \in [Items -> {"no", "stopped", "lost"}],
           orphans' \subseteq Items, \A i \in orphans' : late'[i] # "no",
           Engines(ctl)',
           \A i \in Items :
             /\ worker'.items[i] = "absent" <=> worker.items[i] = "absent"
             /\ worker.items[i] \in Terminal => worker'.items[i] = worker.items[i]
             /\ engine'[i] = engine[i] \/ worker.items[i] # "absent"
             /\ engine'[i] = "downloading" =>
                  engine[i] = "downloading" \/ worker.items[i] = "queued"
             /\ worker'.items[i] = "failed" => engine'[i] # "downloading"
             /\ late'[i] = late[i] \/ worker.items[i] # "absent"
             /\ late'[i] = "lost" <=> late[i] = "lost"
             /\ late[i] # "no" => late'[i] # "no"
    PROVE  IInv'
<1>1. Types /\ ctl \in Ctls /\ Good(ctl)
  BY TypeSplit DEF IInv
<1>2. Types' /\ ctl' \in Ctls
  BY <1>1 DEF Types, entries
<1>3. UNCHANGED <<status, error, retried, backoff, ctl>>
  BY DEF entries
<1>4. /\ ctl.at \in Native /\ worker.run = ctl.run /\ ctl.native /\ ctl.hydrated
      /\ ctl.left = ctl.batch /\ ~Unstarted(ctl)
      /\ \A i \in Items : worker.items[i] # "absent" <=> i \in ctl.batch \ Rejected
  BY <1>1 DEF Good, Working, Shape, Native, Early
<1>5. Shape(ctl)' /\ Unknown(ctl)' /\ Unhydrated(ctl)' /\ Building(ctl)' /\ Limited'
  BY <1>1, <1>3, <1>4 DEF Good, Shape, Unknown, Unhydrated, Building, Unstarted, Limited
<1>6. Covered(ctl)'
  BY <1>1, <1>3, <1>4 DEF Good, Covered, Live
<1>7. Working(ctl)' /\ Starting(ctl)'
  BY <1>1, <1>3, <1>4 DEF Good, Working, Starting, Unstarted
<1>8. Reading(ctl)'
  BY <1>1, <1>3 DEF Good, Reading, Sound
<1>9. Timers(ctl)'
  <2>1. \A i \in backoff : engine'[i] # "downloading"
    BY <1>1, <1>4 DEF Good, Timers, Types, Early, Native
  <2>2. \A i \in backoff : i \in Items
    BY <1>1 DEF Types
  <2> QED
    BY <1>1, <1>3, <1>4, <2>1, <2>2 DEF Good, Timers, Terminal, Native, Falling
<1>10. Outlived(ctl)'
  BY <1>3, <1>4 DEF Outlived
<1> QED
  BY <1>2, <1>5, <1>6, <1>7, <1>8, <1>9, <1>10, TypeJoinNext DEF Good

(* Items that failed in this run are not being downloaded. *)
LEMMA FailedIsIdle ==
    ASSUME Good(ctl), worker.running
    PROVE  \A i \in Items : worker.items[i] = "failed" => engine[i] # "downloading"
  BY DEF Good, Working

(* The worker hands an item to the engine. *)
LEMMA WorkerBeginsPreserves ==
    ASSUME IInv, NEW i \in Items, WorkerBegins(i) PROVE IInv'
<1>1. Types /\ ctl \in Ctls /\ Good(ctl)
  BY TypeSplit DEF IInv
<1>2. /\ worker' \in Snapshots /\ worker'.run = worker.run
      /\ worker'.running = worker.running /\ worker'.errors = worker.errors
      /\ worker'.items = [worker.items EXCEPT ![i] = "downloading"]
      /\ worker.items \in [Items -> Statuses \cup {"absent"}]
  BY <1>1 DEF WorkerBegins, Types, Snapshots, Statuses
<1>3. engine' = [engine EXCEPT ![i] = "downloading"]
      /\ engine' \in [Items -> {"none", "downloading", "completed"}]
  BY <1>1 DEF WorkerBegins, Types
<1>4. Sound(worker)'
  BY <1>1, <1>2 DEF WorkerBegins, Good, Working, Sound
<1>5. Engines(ctl)'
  BY <1>1, <1>2, <1>3 DEF WorkerBegins, Good, Engines, CurrentOf, Types
<1> QED
  BY <1>1, <1>2, <1>3, <1>4, <1>5, FailedIsIdle, RunningPreserves
     DEF WorkerBegins, Types, Terminal, Good, Outlived

(* The engine is done with an item the worker still finalizes. *)
LEMMA WorkerFinalizesPreserves ==
    ASSUME IInv, NEW i \in Items, WorkerFinalizes(i) PROVE IInv'
<1>1. Types /\ ctl \in Ctls /\ Good(ctl)
  BY TypeSplit DEF IInv
<1>2. /\ worker' \in Snapshots /\ worker'.run = worker.run
      /\ worker'.running = worker.running /\ worker'.errors = worker.errors
      /\ worker'.items = [worker.items EXCEPT ![i] = "finalizing"]
      /\ worker.items \in [Items -> Statuses \cup {"absent"}]
  BY <1>1 DEF WorkerFinalizes, Types, Snapshots, Statuses
<1>3. engine' = [engine EXCEPT ![i] = "completed"]
      /\ engine' \in [Items -> {"none", "downloading", "completed"}]
  BY <1>1 DEF WorkerFinalizes, Types
<1>4. Sound(worker)'
  BY <1>1, <1>2 DEF WorkerFinalizes, Good, Working, Sound
<1>5. Engines(ctl)'
  BY <1>1, <1>2, <1>3 DEF WorkerFinalizes, Good, Engines, CurrentOf, Types
<1> QED
  BY <1>1, <1>2, <1>3, <1>4, <1>5, FailedIsIdle, RunningPreserves
     DEF WorkerFinalizes, Types, Terminal, Good, Outlived

(* The worker reports an item as done. *)
LEMMA WorkerDonePreserves ==
    ASSUME IInv, NEW i \in Items, WorkerDone(i) PROVE IInv'
<1>1. Types /\ ctl \in Ctls /\ Good(ctl)
  BY TypeSplit DEF IInv
<1>2. /\ worker' \in Snapshots /\ worker'.run = worker.run
      /\ worker'.running = worker.running /\ worker'.errors = worker.errors
      /\ worker'.items = [worker.items EXCEPT ![i] = "done"]
      /\ worker.items \in [Items -> Statuses \cup {"absent"}]
  BY <1>1 DEF WorkerDone, Types, Snapshots, Statuses
<1>3. Sound(worker)'
  BY <1>1, <1>2 DEF WorkerDone, Good, Working, Sound
<1>4. Engines(ctl)'
  BY <1>1, <1>2 DEF WorkerDone, Good, Engines, CurrentOf
<1> QED
  BY <1>1, <1>2, <1>3, <1>4, FailedIsIdle, RunningPreserves
     DEF WorkerDone, Types, Terminal, Good, Outlived

(* The worker reports a failure: the engine is off the item. *)
LEMMA WorkerFailsPreserves ==
    ASSUME IInv, NEW i \in Items, NEW e \in Failures, WorkerFails(i, e) PROVE IInv'
<1>1. Types /\ ctl \in Ctls /\ Good(ctl)
  BY TypeSplit DEF IInv
<1>2. e \in Errors
  BY ConstantsAssumption DEF Errors
<1>3. /\ worker' \in Snapshots /\ worker'.run = worker.run
      /\ worker'.running = worker.running
      /\ worker'.errors = [worker.errors EXCEPT ![i] = e]
      /\ worker'.items = [worker.items EXCEPT ![i] = "failed"]
      /\ worker.items \in [Items -> Statuses \cup {"absent"}]
      /\ worker.errors \in [Items -> Errors]
  BY <1>1, <1>2 DEF WorkerFails, Types, Snapshots, Statuses
<1>4. engine' = [engine EXCEPT ![i] = "none"]
      /\ engine' \in [Items -> {"none", "downloading", "completed"}]
  BY <1>1 DEF WorkerFails, Types
<1>5. Sound(worker)'
  BY <1>1, <1>3 DEF WorkerFails, Good, Working, Sound
<1>6. Engines(ctl)'
  BY <1>1, <1>3, <1>4 DEF WorkerFails, Good, Engines, CurrentOf, Types
<1> QED
  BY <1>1, <1>3, <1>4, <1>5, <1>6, FailedIsIdle, RunningPreserves
     DEF WorkerFails, Types, Terminal, Good, Outlived

(* A run ends with nothing in progress. *)
LEMMA WorkerEndsPreserves ==
    ASSUME IInv, WorkerEnds PROVE IInv'
<1>1. Types /\ ctl \in Ctls /\ Good(ctl)
  BY TypeSplit DEF IInv
<1>2. /\ worker' \in Snapshots /\ worker'.run = worker.run
      /\ worker'.running = FALSE /\ worker'.errors = worker.errors
      /\ worker'.items = worker.items
  BY <1>1 DEF WorkerEnds, Types, Snapshots
<1>3. Sound(worker)'
  BY <1>1, <1>2 DEF WorkerEnds, Good, Working, Sound
<1>4. Engines(ctl)'
  BY <1>1 DEF WorkerEnds, Good, Engines, CurrentOf, Terminal
<1> QED
  BY <1>1, <1>2, <1>3, <1>4, FailedIsIdle, RunningPreserves
     DEF WorkerEnds, Types, Good, Outlived

(* The calls that go on without the worker are marked as late. *)
LEMMA WorkerStopsPreserves ==
    ASSUME IInv, WorkerStops PROVE IInv'
<1>1. Types /\ ctl \in Ctls /\ Good(ctl)
  BY TypeSplit DEF IInv
<1>2. /\ worker' \in Snapshots /\ worker'.run = worker.run
      /\ worker'.running = FALSE /\ worker'.errors = worker.errors
      /\ worker'.items = [i \in Items |-> IF worker.items[i] \in {"downloading", "finalizing"}
                                          THEN "queued" ELSE worker.items[i]]
      /\ worker.items \in [Items -> Statuses \cup {"absent"}]
  BY <1>1 DEF WorkerStops, Types, Snapshots, Statuses
<1>3. Sound(worker)'
  BY <1>1, <1>2 DEF Good, Working, Sound, Terminal, Statuses
<1>4. /\ late' \in [Items -> {"no", "stopped", "lost"}]
      /\ \A i \in Items :
           /\ late'[i] = "lost" <=> late[i] = "lost"
           /\ late[i] # "no" => late'[i] # "no"
           /\ worker.items[i] = "downloading" => late'[i] # "no"
           /\ worker.items[i] # "downloading" => late'[i] = late[i]
  BY <1>1 DEF WorkerStops, Types
<1>5. orphans' \subseteq Items /\ \A i \in orphans' : late'[i] # "no"
  BY <1>1, <1>4 DEF WorkerStops, Types, Good, Outlived
<1>6. Engines(ctl)'
  BY <1>1, <1>4 DEF WorkerStops, Good, Engines, CurrentOf
<1>7. events' \in 0..MaxEvents
  BY <1>1, EventCounted DEF WorkerStops
<1>8. \A i \in Items :
        /\ worker'.items[i] = "absent" <=> worker.items[i] = "absent"
        /\ worker.items[i] \in Terminal => worker'.items[i] = worker.items[i]
  BY <1>2 DEF Terminal
<1>9. \A i \in Items : worker'.items[i] = "failed" => engine'[i] # "downloading"
  BY <1>1, <1>2, FailedIsIdle DEF WorkerStops
<1> QED
  BY <1>1, <1>2, <1>3, <1>4, <1>5, <1>6, <1>7, <1>8, <1>9, RunningPreserves
     DEF WorkerStops, Types

(* Taking the first intent off the channel renumbers the others. *)
LEMMA TailIntents ==
    ASSUME NEW s \in Seq(Intents), s # <<>>
    PROVE  /\ Tail(s) \in Seq(Intents) /\ Head(s) = s[1] /\ 1 \in DOMAIN s
           /\ Head(s) \in Intents
           /\ \A n \in DOMAIN Tail(s) :
                n + 1 \in DOMAIN s /\ Tail(s)[n] = s[n + 1] /\ n \in Nat \ {0}
<1>1. /\ Tail(s) \in Seq(Intents) /\ Len(s) \in Nat \ {0} /\ DOMAIN s = 1..Len(s)
      /\ DOMAIN Tail(s) = 1..(Len(s) - 1)
      /\ \A n \in 1..(Len(s) - 1) : Tail(s)[n] = s[n + 1]
  OBVIOUS
<1>2. 1 \in DOMAIN s /\ Head(s) = s[1] /\ s[1] \in Intents
  BY <1>1
<1>3. \A n \in 1..(Len(s) - 1) : n + 1 \in 1..Len(s) /\ n \in Nat \ {0}
  BY <1>1
<1> QED
  BY <1>1, <1>2, <1>3

(* A pause or resume reaches the worker. *)
LEMMA WorkerPausesPreserves ==
    ASSUME IInv, WorkerPauses PROVE IInv'
<1> PICK c : c = ctl
  OBVIOUS
<1>1. Types /\ c \in Ctls /\ Good(ctl) /\ Agree(c, ctl)
  BY TypeSplit DEF IInv, Agree
<1>2. intents \in Seq(Intents) /\ worker \in Snapshots
  BY <1>1 DEF Types
<1>3. intents' = Tail(intents) /\ intents' \in Seq(Intents) /\ Head(intents) \in Intents
      /\ \A n \in DOMAIN intents' :
           n + 1 \in DOMAIN intents /\ intents'[n] = intents[n + 1] /\ n \in Nat
  BY <1>2, TailIntents DEF WorkerPauses
<1>4. Head(intents).manual \in BOOLEAN
  BY <1>3 DEF Intents, WorkerPauses
<1>5. /\ worker' \in Snapshots /\ worker'.run = worker.run
      /\ worker'.running = worker.running
      /\ worker'.items = worker.items /\ worker'.errors = worker.errors
  BY <1>2, <1>4 DEF WorkerPauses, Snapshots
<1>6. Starting(c)'
  <2> SUFFICES ASSUME NEW n \in DOMAIN intents', intents'[n].kind = "start"
               PROVE  /\ c.at \in {"starting", "poll"} /\ ~Unstarted(c)
                      /\ intents'[n].run = c.run /\ intents'[n].batch = c.batch \ Rejected
                      /\ worker'.run # c.run
                      /\ \A m \in DOMAIN intents' : intents'[m].kind = "start" => m = n
    BY DEF Starting, Unstarted
  <2>1. n + 1 \in DOMAIN intents /\ intents[n + 1].kind = "start" /\ intents'[n] = intents[n + 1]
    BY <1>3
  <2>2. /\ c.at \in {"starting", "poll"} /\ ~Unstarted(c)
        /\ intents[n + 1].run = c.run /\ intents[n + 1].batch = c.batch \ Rejected
        /\ worker.run # c.run
        /\ \A m \in DOMAIN intents : intents[m].kind = "start" => m = n + 1
    BY <1>1, <2>1 DEF Good, Starting, Unstarted
  <2>3. ASSUME NEW m \in DOMAIN intents', intents'[m].kind = "start" PROVE m = n
    <3>1. m + 1 = n + 1 /\ m \in Nat /\ n \in Nat
      BY <1>3, <2>2, <2>3
    <3> QED
      BY <3>1
  <2> QED
    BY <1>5, <2>1, <2>2, <2>3
<1>7. Good(c)'
  BY <1>1, <1>5, <1>6, PausingGood DEF WorkerPauses, entries
<1>8. Types'
  BY <1>1, <1>3, <1>5 DEF Types, WorkerPauses, entries
<1> QED
  BY <1>1, <1>7, <1>8, GoodOfCtl, TypeJoinNext DEF WorkerPauses

(* The button of the notification. *)
LEMMA NotificationTogglePreserves ==
    ASSUME IInv, NotificationToggle PROVE IInv'
<1> PICK c : c = ctl
  OBVIOUS
<1>1. Types /\ c \in Ctls /\ Good(ctl) /\ Agree(c, ctl)
  BY TypeSplit DEF IInv, Agree
<1>2. /\ worker' \in Snapshots /\ worker'.run = worker.run
      /\ worker'.running = worker.running
      /\ worker'.items = worker.items /\ worker'.errors = worker.errors
  BY <1>1 DEF NotificationToggle, Types, Snapshots
<1>3. Starting(c)'
  BY <1>1, <1>2, StartsUnchanged DEF NotificationToggle, Good
<1>4. Good(c)'
  BY <1>1, <1>2, <1>3, PausingGood DEF NotificationToggle, entries
<1>5. events' \in 0..MaxEvents
  BY <1>1, EventCounted DEF NotificationToggle
<1>6. Types'
  BY <1>1, <1>2, <1>5 DEF Types, NotificationToggle, entries
<1> QED
  BY <1>1, <1>4, <1>6, GoodOfCtl, TypeJoinNext DEF NotificationToggle

(* The worker takes up the batch it is sent; the last snapshot, of an older *)
(* run, goes.                                                               *)
LEMMA WorkerStartsPreserves ==
    ASSUME IInv, WorkerStarts PROVE IInv'
<1>1. Types /\ ctl \in Ctls /\ Good(ctl)
  BY TypeSplit DEF IInv
<1>2. intents \in Seq(Intents) /\ worker \in Snapshots
  BY <1>1 DEF Types
<1>3. /\ intents' = Tail(intents) /\ intents' \in Seq(Intents)
      /\ Head(intents) \in Intents /\ Head(intents) = intents[1] /\ 1 \in DOMAIN intents
      /\ \A n \in DOMAIN intents' :
           n + 1 \in DOMAIN intents /\ intents'[n] = intents[n + 1] /\ n \in Nat \ {0}
  BY <1>2, TailIntents DEF WorkerStarts
<1>4. UNCHANGED <<status, error, retried, backoff, ctl, engine, orphans, late, attempts, events>>
  BY DEF WorkerStarts, entries
<1>5. /\ ctl.at \in {"starting", "poll"} /\ ~Unstarted(ctl)
      /\ Head(intents).run = ctl.run /\ Head(intents).batch = ctl.batch \ Rejected
      /\ worker.run # ctl.run
      /\ \A m \in DOMAIN intents : intents[m].kind = "start" => m = 1
  BY <1>1, <1>3 DEF Good, Starting, WorkerStarts
<1>6. ~worker.running
  BY <1>1, <1>5 DEF Good, Working
<1>7. \A n \in DOMAIN intents' : intents'[n].kind # "start"
  <2> SUFFICES ASSUME NEW n \in DOMAIN intents', intents'[n].kind = "start" PROVE FALSE
    OBVIOUS
  <2>1. n + 1 = 1 /\ n \in Nat \ {0}
    BY <1>3, <1>5
  <2> QED
    BY <2>1
<1>8. CASE worker' = worker
  <2>1. Starting(ctl)'
    BY <1>7 DEF Starting
  <2> PICK c : c = ctl
    OBVIOUS
  <2>2. Agree(c, ctl) /\ Starting(c)'
    BY <1>7 DEF Agree, Starting
  <2>3. Good(c)'
    BY <1>1, <1>4, <1>8, <2>2, PausingGood
  <2>4. Types'
    BY <1>1, <1>3, <1>4, <1>8 DEF Types
  <2> QED
    BY <1>1, <1>4, <2>3, <2>4, GoodOfCtl, TypeJoinNext
<1>9. CASE worker' # worker
  <2> DEFINE sent == ctl.batch \ Rejected
  <2>1. worker' = [run |-> ctl.run, running |-> TRUE, manual |-> Head(intents).manual,
                   items |-> [i \in Items |-> IF i \in sent THEN "queued" ELSE "absent"],
                   errors |-> NoRun.errors]
    BY <1>5, <1>9 DEF WorkerStarts
  <2>2. Head(intents).manual \in BOOLEAN /\ ctl.run \in 0..MaxRuns
    BY <1>1, <1>3 DEF Intents, WorkerStarts, Ctls
  <2>3. NoRun.errors = [i \in Items |-> "none"]
    BY DEF NoRun
  <2> HIDE DEF sent
  <2>4. /\ worker' \in Snapshots
        /\ worker'.run = ctl.run /\ worker'.running = TRUE
        /\ \A i \in Items : worker'.items[i] = (IF i \in sent THEN "queued" ELSE "absent")
        /\ \A i \in Items : worker'.errors[i] = "none"
    BY <2>1, <2>2, <2>3 DEF Snapshots, Statuses, Errors
  <2>5. Types'
    BY <1>1, <1>3, <1>4, <2>4 DEF Types
  <2>6. /\ Shape(ctl)' /\ Unknown(ctl)' /\ Unhydrated(ctl)' /\ Covered(ctl)'
        /\ Limited' /\ Outlived(ctl)'
    BY <1>1, <1>4 DEF Good, Shape, Unknown, Unhydrated, Covered, Live, Limited, Outlived
  <2>7. Building(ctl)' /\ Starting(ctl)' /\ Reading(ctl)'
    BY <1>1, <1>4, <1>5, <1>7 DEF Good, Building, Unstarted, Live, Starting, Reading
  <2>8. Engines(ctl)'
    BY <1>1, <1>4, <1>6 DEF Good, Engines, CurrentOf
  <2>9. Working(ctl)'
    <3>1. Sound(worker)'
      BY <2>4 DEF Sound
    <3>2. ctl.run \in Nat
      BY <1>1, ConstantsAssumption DEF Ctls
    <3> QED
      BY <1>4, <1>5, <2>4, <3>1, <3>2 DEF Working, Unstarted, Native, sent
  <2>10. Timers(ctl)'
    BY <1>1, <1>4, <1>5 DEF Good, Timers, CurrentOf, Live, Early, Falling
  <2> QED
    BY <1>1, <1>4, <2>5, <2>6, <2>7, <2>8, <2>9, <2>10, TypeJoinNext DEF Good
<1> QED
  BY <1>8, <1>9

(* A late call ends. *)
LEMMA OrphanEndsPreserves ==
    ASSUME IInv, NEW i \in Items, NEW result \in {"none", "completed"}, OrphanEnds(i, result)
    PROVE  IInv'
<1>1. Types /\ ctl \in Ctls /\ Good(ctl)
  BY TypeSplit DEF IInv
<1>2. UNCHANGED <<status, error, retried, backoff, ctl, intents, worker, late, attempts, events>>
  BY DEF OrphanEnds, entries
<1>3. late[i] # "no" /\ orphans' \subseteq orphans
  BY <1>1 DEF OrphanEnds, Good, Outlived
<1>4. /\ engine' \in [Items -> {"none", "downloading", "completed"}]
      /\ engine'[i] # "downloading"
      /\ \A j \in Items : j # i => engine'[j] = engine[j]
  BY <1>1 DEF OrphanEnds, Types
<1>5. \A j \in Items : engine'[j] = "downloading" => engine[j] = "downloading"
  BY <1>4
<1>6. Types'
  BY <1>1, <1>2, <1>3, <1>4 DEF Types
<1>7. Shape(ctl)' /\ Unknown(ctl)' /\ Unhydrated(ctl)' /\ Covered(ctl)' /\ Building(ctl)'
  BY <1>1, <1>2, <1>3, <1>4, <1>5
     DEF Good, Shape, Unknown, Unhydrated, Covered, Building, Unstarted, Live
<1>8. Engines(ctl)' /\ Working(ctl)' /\ Starting(ctl)' /\ Reading(ctl)'
  BY <1>1, <1>2, <1>5 DEF Good, Engines, CurrentOf, Working, Sound, Starting, Reading, Unstarted
<1>9. Timers(ctl)'
  <2>1. ctl.at = "wait" => CurrentOf(ctl) \in Items
    BY <1>1, CurrentIsLeft DEF Good, Shape, Ctls
  <2>2. \A j \in backoff : j \in Items
    BY <1>1 DEF Types
  <2> QED
    BY <1>1, <1>2, <1>5, <2>1, <2>2 DEF Good, Timers, CurrentOf, Live
<1>10. Limited' /\ Outlived(ctl)'
  BY <1>1, <1>2, <1>3 DEF Good, Limited, Outlived
<1> QED
  BY <1>1, <1>2, <1>6, <1>7, <1>8, <1>9, <1>10, TypeJoinNext DEF Good

-----------------------------------------------------------------------------
(* Progress events and timers. *)

(* Progress turns an entry into a download only where Covered provides for it. *)
LEMMA MergePreserves ==
    ASSUME IInv, Merge PROVE IInv'
<1>1. Types /\ ctl \in Ctls /\ Good(ctl)
  BY TypeSplit DEF IInv
<1>2. UNCHANGED <<error, retried, backoff, ctl, intents, worker, engine, orphans, late,
                  attempts, events>>
  BY DEF Merge, outside
<1>3. \A i \in Items :
        \/ status'[i] = status[i]
        \/ status'[i] = "done" /\ status[i] \in Statuses
        \/ /\ status'[i] = "downloading" /\ engine[i] = "downloading"
           /\ Live(i) \/ (status[i] = "queued" /\ ~ctl.runStopped)
  BY <1>1 DEF Merge, MergeEntry, Live, Statuses, Terminal, Types
<1>4. status' \in [Items -> Statuses \cup {"unused", "gone"}]
  <2>1. status' = [i \in Items |-> MergeEntry(i)]
    BY DEF Merge
  <2>2. \A i \in Items : MergeEntry(i) \in Statuses \cup {"unused", "gone"}
    BY <1>1 DEF Types, MergeEntry, Statuses, Terminal
  <2> QED
    BY <2>1, <2>2
<1>5. Types'
  BY <1>1, <1>2, <1>4 DEF Types
<1>6. \A i \in Items : Live(i)' =>
        Live(i) \/ (status[i] = "queued" /\ engine[i] = "downloading" /\ ~ctl.runStopped)
  BY <1>3 DEF Live
<1>7. \A i \in Items : /\ status'[i] = "queued" => status[i] = "queued"
                       /\ status'[i] = "unused" => status[i] = "unused"
  BY <1>3
<1>8. Shape(ctl)' /\ Engines(ctl)' /\ Working(ctl)' /\ Starting(ctl)' /\ Reading(ctl)'
  BY <1>1, <1>2 DEF Good, Shape, Engines, CurrentOf, Working, Sound, Starting, Reading, Unstarted
<1>9. Unknown(ctl)' /\ Unhydrated(ctl)' /\ Covered(ctl)'
  BY <1>1, <1>2, <1>6, <1>7 DEF Good, Unknown, Unhydrated, Covered
<1>10. Building(ctl)'
  <2> SUFFICES ASSUME Unstarted(ctl), NEW i \in Items, Live(i)'
               PROVE  i \in backoff \/ late[i] # "no"
    BY <1>2 DEF Building, Unstarted
  <2>1. CASE Live(i)
    BY <1>1, <2>1 DEF Good, Building
  <2>2. CASE engine[i] = "downloading"
    BY <1>1, <2>2 DEF Good, Engines, Working, Unstarted
  <2> QED
    BY <1>6, <2>1, <2>2
<1>11. Timers(ctl)'
  <2>1. ctl.at = "wait" => CurrentOf(ctl) \in Items
    BY <1>1, CurrentIsLeft DEF Good, Shape, Ctls
  <2>2. \A j \in backoff : j \in Items
    BY <1>1 DEF Types
  <2>3. ctl.at = "wait" => (Live(CurrentOf(ctl))' => Live(CurrentOf(ctl)))
    BY <1>1, <1>2, <1>6, <2>1 DEF Good, Timers
  <2> QED
    BY <1>1, <1>2, <1>7, <2>1, <2>2, <2>3 DEF Good, Timers, CurrentOf, Live
<1>12. Limited' /\ Outlived(ctl)'
  BY <1>1, <1>2 DEF Good, Limited, Outlived
<1> QED
  BY <1>1, <1>2, <1>5, <1>8, <1>9, <1>10, <1>11, <1>12, TypeJoinNext DEF Good

(* A timer hands its entry to the batch that runs next. *)
LEMMA BackoffFiresPreserves ==
    ASSUME IInv, NEW i \in Items, BackoffFires(i) PROVE IInv'
<1> PICK c : c = ctl
  OBVIOUS
<1>1. Types /\ c \in Ctls /\ Good(ctl)
  BY TypeSplit DEF IInv
<1>2. UNCHANGED <<error, retried, intents, worker, engine, orphans, late, attempts, events>>
      /\ i \in backoff /\ backoff' = backoff \ {i}
  BY DEF BackoffFires, outside
<1>3. /\ status' \in [Items -> Statuses \cup {"unused", "gone"}]
      /\ \A j \in Items : j # i => status'[j] = status[j]
      /\ status'[i] = IF i \in Present THEN "queued" ELSE status[i]
  BY <1>1 DEF BackoffFires, Types, Statuses
<1>4. Types'
  BY <1>1, <1>2, <1>3 DEF Types
<1>5. status[i] # "unused" /\ engine[i] # "downloading"
  BY <1>1, <1>2 DEF Good, Unknown, Timers, Types
<1>6. ~Live(i)' /\ \A j \in Items : j # i => (Live(j)' <=> Live(j))
  BY <1>3 DEF Live, Present, Statuses
<1>7. Good(c)'
  <2>1. Shape(c)' /\ Engines(c)' /\ Working(c)' /\ Starting(c)' /\ Reading(c)'
    BY <1>1, <1>2 DEF Good, Shape, Engines, CurrentOf, Working, Sound, Starting, Reading, Unstarted
  <2>2. Unknown(c)' /\ Unhydrated(c)'
    BY <1>1, <1>2, <1>3, <1>5, <1>6 DEF Good, Unknown, Unhydrated
  <2>3. Covered(c)' /\ Building(c)'
    BY <1>1, <1>2, <1>3, <1>5, <1>6 DEF Good, Covered, Building, Unstarted
  <2>4. Timers(c)'
    <3>1. c.at = "wait" => CurrentOf(c) \in Items
      BY <1>1, CurrentIsLeft DEF Good, Shape, Ctls
    <3>2. \A j \in backoff' : j \in Items /\ j \in backoff /\ j # i
      BY <1>1, <1>2 DEF Types
    <3>3. \A j \in backoff' : status'[j] # "queued" /\ engine'[j] # "downloading"
      BY <1>1, <1>2, <1>3, <3>2 DEF Good, Timers
    <3>4. c.at = "wait" => /\ engine'[CurrentOf(c)] # "downloading"
                           /\ Live(CurrentOf(c))' => CurrentOf(c) \in backoff'
      BY <1>1, <1>2, <1>6, <3>1 DEF Good, Timers
    <3> QED
      BY <1>1, <1>2, <3>2, <3>3, <3>4 DEF Good, Timers, CurrentOf, Live
  <2>5. Limited' /\ Outlived(c)'
    BY <1>1, <1>2 DEF Good, Limited, Outlived
  <2> QED
    BY <2>1, <2>2, <2>3, <2>4, <2>5 DEF Good
<1>8. ctl' = c \/ ctl' = Kick(c, status')
  BY DEF BackoffFires
<1>9. ctl' \in Ctls /\ Good(ctl)'
  BY <1>1, <1>4, <1>7, <1>8, KickGood, GoodOfCtl
<1> QED
  BY <1>4, <1>9, TypeJoinNext

-----------------------------------------------------------------------------
(* The batch until its worker has been started. *)

(* The settings are there: the batch goes on to its requests. *)
LEMMA ToBuild ==
    ASSUME NEW c \in Ctls, NEW k, k = [c EXCEPT !.at = "build"]
    PROVE  /\ k \in Ctls /\ k.at = "build" /\ k.hydrated = c.hydrated /\ k.native = c.native
           /\ k.run = c.run /\ k.batch = c.batch /\ k.left = c.left
           /\ k.runStopped = c.runStopped /\ k.processing = c.processing
  BY DEF Ctls

(* Before the settings are loaded there is nothing to leave behind. *)
LEMMA HydratePreserves ==
    ASSUME IInv, Hydrate PROVE IInv'
<1> PICK c : c = [ctl EXCEPT !.hydrated = TRUE]
  OBVIOUS
<1>1. Types /\ ctl \in Ctls /\ Good(ctl)
  BY TypeSplit DEF IInv
<1>2. UNCHANGED <<status, error, retried, backoff, intents, worker, engine, orphans, late,
                  attempts, events>> /\ ctl.at = "hydrate"
  BY DEF Hydrate, entries, outside
<1>3. Types'
  BY <1>1, <1>2 DEF Types
<1>4. ~ctl.hydrated /\ ~ctl.runStopped /\ ~worker.running
      /\ \A n \in DOMAIN intents : intents[n].kind # "start"
  BY <1>1, <1>2 DEF Good, Shape, Early, Working, Unstarted, Starting
<1>5. \A i \in Items : engine[i] # "downloading" /\ ~Live(i)
  BY <1>1, <1>4 DEF Good, Unhydrated
<1>6. /\ c \in Ctls /\ c.hydrated = TRUE /\ c.native = ctl.native /\ c.run = ctl.run
      /\ c.batch = ctl.batch /\ c.left = ctl.left /\ c.runStopped = ctl.runStopped
      /\ c.processing = ctl.processing
  BY <1>1 DEF Ctls
<1>7. CASE ctl.manual
  <2>1. ctl' = Leave(c, status', TRUE)
    BY <1>2, <1>7 DEF Hydrate
  <2>2. Unknown(c)' /\ Unhydrated(c)' /\ Limited' /\ Outlived(c)'
    BY <1>1, <1>2, <1>6 DEF Good, Unknown, Unhydrated, Limited, Outlived
  <2>3. \A i \in Items : ~Live(i)'
    BY <1>2, <1>5 DEF Live
  <2>4. \A i \in backoff' : i \in Items /\ status'[i] # "queued" /\ engine'[i] # "downloading"
    BY <1>1, <1>2 DEF Good, Timers, Types
  <2>5. Sound(worker)' /\ worker'.run <= c.run
    BY <1>1, <1>2, <1>6 DEF Good, Working, Sound
  <2>6. Good(Ended(c))'
    BY <1>2, <1>4, <1>5, <1>6, <2>2, <2>3, <2>4, <2>5, EndedGood
  <2> QED
    BY <1>3, <1>6, <2>1, <2>6, LeaveGood, TypeJoinNext
<1>8. CASE ~ctl.manual
  <2> PICK k : k = [c EXCEPT !.at = "build"]
    OBVIOUS
  <2>1. /\ k \in Ctls /\ k.at = "build" /\ k.hydrated = TRUE /\ k.native = ctl.native
        /\ k.run = ctl.run /\ k.batch = ctl.batch /\ k.left = ctl.left
        /\ k.runStopped = ctl.runStopped /\ k.processing = ctl.processing
    BY <1>6, ToBuild
  <2>2. ctl' = k
    BY <1>8 DEF Hydrate
  <2>3. Shape(k)' /\ Unknown(k)' /\ Unhydrated(k)' /\ Limited' /\ Outlived(k)'
    BY <1>1, <1>2, <2>1 DEF Good, Shape, Early, Native, Unknown, Unhydrated, Limited, Outlived
  <2>4. Covered(k)' /\ Building(k)' /\ Engines(k)'
    BY <1>2, <1>5 DEF Covered, Building, Engines, Live
  <2>5. Working(k)' /\ Starting(k)' /\ Reading(k)'
    BY <1>1, <1>2, <1>4, <2>1 DEF Good, Working, Sound, Starting, Reading, Native
  <2>6. Timers(k)'
    BY <1>1, <1>2, <2>1 DEF Good, Timers, Early, Falling
  <2>7. Good(k)'
    BY <2>3, <2>4, <2>5, <2>6 DEF Good
  <2> QED
    BY <1>3, <2>1, <2>2, <2>7, GoodOfCtl, TypeJoinNext
<1> QED
  BY <1>7, <1>8

(* To the fallback: the batch gives up the entries it does not leave to it. *)
LEMMA ToFallback ==
    ASSUME Types, ctl \in Ctls, Good(ctl), NEW CONSTANT c \in Ctls,
           UNCHANGED <<status, error, retried, backoff, intents, worker, engine, orphans, late>>,
           ctl.at \in {"build", "poll"}, ~worker.running, worker.run # ctl.run \/ ctl.at = "build",
           \A n \in DOMAIN intents : intents[n].kind # "start",
           c.at = "fallback", c.left \subseteq ctl.batch,
           c.batch = ctl.batch, c.run = ctl.run, c.native = ctl.native,
           c.hydrated = ctl.hydrated, c.runStopped = ctl.runStopped,
           c.processing = ctl.processing,
           \A i \in ctl.batch \ c.left :
             (Live(i) => i \in backoff) /\ engine[i] # "downloading"
    PROVE  Good(c)'
<1>1. ctl.hydrated /\ ctl.processing /\ ctl.left = ctl.batch
  BY DEF Good, Shape, Ctls, Early
<1>2. Shape(c)' /\ Unknown(c)' /\ Unhydrated(c)' /\ Limited' /\ Outlived(c)'
  BY <1>1 DEF Good, Shape, Early, Native, Unknown, Unhydrated, Limited, Outlived
<1>3. Covered(c)' /\ Building(c)'
  BY <1>1 DEF Good, Covered, Live, Building, Unstarted
<1>4. Engines(c)' /\ Working(c)' /\ Starting(c)' /\ Reading(c)'
  BY DEF Good, Engines, Working, Sound, Starting, Reading, Native, Unstarted
<1>5. \A i \in backoff : i \notin ctl.batch
  BY DEF Good, Timers, Early
<1>6. Timers(c)'
  BY <1>5 DEF Good, Timers, Early
<1> QED
  BY <1>2, <1>3, <1>4, <1>6 DEF Good

(* Without the native worker nothing touched the entries that are left over. *)
LEMMA BuildFallbackPreserves ==
    ASSUME IInv, BuildFallback PROVE IInv'
<1>1. Types /\ ctl \in Ctls /\ Good(ctl)
  BY TypeSplit DEF IInv
<1>2. UNCHANGED <<status, error, retried, backoff, intents, worker, engine, orphans, late,
                  attempts, events>> /\ ctl.at = "build" /\ ~ctl.native
  BY DEF BuildFallback, entries, outside
<1>3. Types'
  BY <1>1, <1>2 DEF Types
<1>4. PICK i \in ctl.batch : ctl' = [ctl EXCEPT !.at = "fallback", !.left = {i}]
  BY DEF BuildFallback
<1> PICK c : c = [ctl EXCEPT !.at = "fallback", !.left = {i}]
  OBVIOUS
<1>5. ctl.batch \subseteq Items /\ i \in Items
  BY <1>1 DEF Ctls
<1>6. /\ c \in Ctls /\ c.at = "fallback" /\ c.left = {i}
      /\ c.batch = ctl.batch /\ c.run = ctl.run /\ c.native = ctl.native
      /\ c.hydrated = ctl.hydrated /\ c.runStopped = ctl.runStopped
      /\ c.processing = ctl.processing
  BY <1>1, <1>5 DEF Ctls
<1>7. ~worker.running /\ \A n \in DOMAIN intents : intents[n].kind # "start"
  BY <1>1, <1>2 DEF Good, Working, Unstarted, Starting
<1>8. \A j \in Items : late[j] = "no"
  BY <1>1, <1>2 DEF Good, Outlived
<1>9. \A j \in Items : (Live(j) => j \in backoff) /\ engine[j] # "downloading"
  BY <1>1, <1>2, <1>7, <1>8 DEF Good, Building, Engines, Unstarted
<1>10. Good(c)'
  BY <1>1, <1>2, <1>5, <1>6, <1>7, <1>9, ToFallback
<1> QED
  BY <1>3, <1>4, <1>6, <1>10, GoodOfCtl, TypeJoinNext

(* The worker ignored the start: the fallback takes the whole batch. *)
LEMMA StallPreserves ==
    ASSUME IInv, Stall PROVE IInv'
<1> PICK c : c = [ctl EXCEPT !.at = "fallback", !.linked = FALSE, !.left = ctl.batch]
  OBVIOUS
<1>1. Types /\ ctl \in Ctls /\ Good(ctl)
  BY TypeSplit DEF IInv
<1>2. UNCHANGED <<status, error, retried, backoff, intents, worker, engine, orphans, late,
                  attempts, events>> /\ ctl.at = "poll" /\ worker.run # ctl.run
      /\ \A n \in DOMAIN intents : intents[n].kind # "start"
  BY DEF Stall, entries, outside
<1>3. Types'
  BY <1>1, <1>2 DEF Types
<1>4. /\ c \in Ctls /\ c.at = "fallback" /\ c.left = ctl.batch
      /\ c.batch = ctl.batch /\ c.run = ctl.run /\ c.native = ctl.native
      /\ c.hydrated = ctl.hydrated /\ c.runStopped = ctl.runStopped
      /\ c.processing = ctl.processing
  BY <1>1 DEF Ctls
<1>5. ~worker.running
  BY <1>1, <1>2 DEF Good, Working
<1>6. Good(c)'
  BY <1>1, <1>2, <1>4, <1>5, ToFallback
<1> QED
  BY <1>3, <1>4, <1>6, GoodOfCtl, TypeJoinNext DEF Stall

(* The start is sent, or, when the gate refused everything or the call will *)
(* throw, it is not.                                                        *)
LEMMA BuildPreserves ==
    ASSUME IInv, Build PROVE IInv'
<1>1. Types /\ ctl \in Ctls /\ Good(ctl)
  BY TypeSplit DEF IInv
<1>2. UNCHANGED <<status, error, retried, backoff, worker, engine, orphans, late, events>>
      /\ ctl.at = "build" /\ ctl.native
  BY DEF Build, entries
<1>3. ~worker.running /\ worker.run <= ctl.run
      /\ \A n \in DOMAIN intents : intents[n].kind # "start"
  BY <1>1, <1>2 DEF Good, Working, Unstarted, Starting
<1>4. CASE Sent = {} /\ ctl' = [ctl EXCEPT !.at = "fallback", !.left = ctl.batch]
           /\ UNCHANGED <<intents, attempts>>
  <2> PICK c : c = [ctl EXCEPT !.at = "fallback", !.left = ctl.batch]
    OBVIOUS
  <2>1. /\ c \in Ctls /\ c.at = "fallback" /\ c.left = ctl.batch
        /\ c.batch = ctl.batch /\ c.run = ctl.run /\ c.native = ctl.native
        /\ c.hydrated = ctl.hydrated /\ c.runStopped = ctl.runStopped
        /\ c.processing = ctl.processing
    BY <1>1 DEF Ctls
  <2>2. Good(c)'
    BY <1>1, <1>2, <1>3, <1>4, <2>1, ToFallback
  <2>3. Types'
    BY <1>1, <1>2, <1>4 DEF Types
  <2> QED
    BY <1>4, <2>1, <2>2, <2>3, GoodOfCtl, TypeJoinNext
<1>5. CASE /\ Sent # {} /\ ctl.run < MaxRuns
           /\ ctl' = [ctl EXCEPT !.at = "starting", !.run = ctl.run + 1]
           /\ intents' = IF ctl.run + 1 \in Throwing THEN intents
                         ELSE Append(intents, [kind |-> "start", run |-> ctl.run + 1,
                                               batch |-> Sent, manual |-> ctl.manual])
           /\ attempts' = [i \in Items |-> IF i \in Sent THEN Tried(attempts[i]) ELSE attempts[i]]
  <2> PICK c : c = [ctl EXCEPT !.at = "starting", !.run = ctl.run + 1]
    OBVIOUS
  <2>1. ctl.run + 1 \in 0..MaxRuns /\ ctl.run \in Nat /\ worker.run \in Nat
    BY <1>1, <1>5, ConstantsAssumption DEF Ctls, Types, Snapshots
  <2>2. /\ c \in Ctls /\ c.at = "starting" /\ c.run = ctl.run + 1
        /\ c.batch = ctl.batch /\ c.left = ctl.left /\ c.native = ctl.native
        /\ c.hydrated = ctl.hydrated /\ c.runStopped = ctl.runStopped
        /\ c.processing = ctl.processing
    BY <1>1, <2>1 DEF Ctls
  <2>3. worker.run # c.run /\ worker.run <= c.run
    BY <1>3, <2>1, <2>2
  <2>4. attempts' \in [Items -> 0..MaxAttempts]
    BY <1>1, <1>5, ConstantsAssumption DEF Types, Tried
  <2>5. intents' \in Seq(Intents) /\ Starting(c)'
    <3>1. CASE c.run \in Throwing
      BY <1>1, <1>3, <1>5, <2>2, <3>1 DEF Types, Starting
    <3>2. CASE c.run \notin Throwing
      <4> DEFINE p == [kind |-> "start", run |-> ctl.run + 1, batch |-> Sent,
                       manual |-> ctl.manual]
      <4>1. p \in Intents /\ p.kind = "start" /\ p.run = c.run
            /\ p.batch = c.batch \ Rejected
        BY <1>1, <2>1, <2>2 DEF Intents, Sent, Ctls
      <4>2. intents' = Append(intents, p) /\ intents \in Seq(Intents)
        BY <1>1, <1>5, <2>2, <3>2 DEF Types
      <4> HIDE DEF p
      <4>3. /\ DOMAIN intents = 1..Len(intents) /\ Len(intents) \in Nat
            /\ DOMAIN intents' = 1..(Len(intents) + 1)
            /\ \A n \in 1..Len(intents) : intents'[n] = intents[n]
            /\ intents'[Len(intents) + 1] = p
        BY <4>2
      <4>4. \A n \in DOMAIN intents' : intents'[n].kind = "start" =>
              n = Len(intents) + 1 /\ intents'[n] = p
        BY <1>3, <4>3
      <4>5. intents' \in Seq(Intents)
        BY <4>1, <4>2
      <4>6. ~Unstarted(c)
        BY <2>2, <3>2 DEF Unstarted
      <4>7. worker'.run # c.run
        BY <1>2, <2>3
      <4> HIDE DEF Unstarted
      <4>8. Starting(c)'
        BY <2>2, <4>1, <4>4, <4>6, <4>7 DEF Starting, Unstarted
      <4> QED
        BY <4>5, <4>8
    <3> QED
      BY <3>1, <3>2
  <2>6. Types'
    BY <1>1, <1>2, <2>4, <2>5 DEF Types
  <2>7. Shape(c)' /\ Unknown(c)' /\ Unhydrated(c)' /\ Limited' /\ Outlived(c)'
    BY <1>1, <1>2, <2>2 DEF Good, Shape, Early, Native, Unknown, Unhydrated, Limited, Outlived,
       Live
  <2>8. Covered(c)' /\ Building(c)' /\ Engines(c)'
    BY <1>1, <1>2, <2>2 DEF Good, Covered, Live, Building, Unstarted, Engines
  <2>9. Working(c)' /\ Reading(c)'
    BY <1>1, <1>2, <1>3, <2>2, <2>3 DEF Good, Working, Sound, Reading
  <2>10. Timers(c)'
    BY <1>1, <1>2, <2>2 DEF Good, Timers, Early, Falling
  <2>11. Good(c)'
    BY <2>5, <2>7, <2>8, <2>9, <2>10 DEF Good
  <2> QED
    BY <1>5, <2>2, <2>6, <2>11, GoodOfCtl, TypeJoinNext
<1> QED
  BY <1>4, <1>5 DEF Build

(* worker.start returned: the queue polls. *)
LEMMA StartReturnsPreserves ==
    ASSUME IInv, StartReturns PROVE IInv'
<1> PICK c : c = [ctl EXCEPT !.at = "poll", !.linked = TRUE]
  OBVIOUS
<1>1. Types /\ ctl \in Ctls /\ Good(ctl)
  BY TypeSplit DEF IInv
<1>2. UNCHANGED <<status, error, retried, backoff, worker, engine, orphans, late, attempts, events>>
      /\ ctl.at = "starting" /\ ctl.run \notin Throwing
  BY DEF StartReturns, entries
<1>3. /\ c \in Ctls /\ c.at = "poll" /\ c.run = ctl.run
      /\ c.batch = ctl.batch /\ c.left = ctl.left /\ c.native = ctl.native
      /\ c.hydrated = ctl.hydrated /\ c.runStopped = ctl.runStopped
      /\ c.processing = ctl.processing
  BY <1>1 DEF Ctls
<1>4. intents' \in Seq(Intents) /\ Starting(c)'
  <2> PICK k : k = ctl
    OBVIOUS
  <2>1. intents' \in Seq(Intents) /\ Starting(k)'
    <3>1. Starting(ctl) /\ Agree(k, ctl)
      BY <1>1 DEF Good, Agree
    <3>2. CASE intents' = intents
      BY <1>1, <1>2, <3>1, <3>2, StartsUnchanged DEF Types
    <3>3. CASE intents' = Append(intents, [kind |-> "pause", manual |-> TRUE])
      BY <1>1, <1>2, <3>1, <3>3, PauseAppended
    <3> QED
      BY <3>2, <3>3 DEF StartReturns
  <2>2. ~Unstarted(c) /\ k.run = c.run /\ k.batch = c.batch
    BY <1>3 DEF Unstarted
  <2> QED
    BY <1>3, <2>1, <2>2 DEF Starting, Unstarted
<1>5. Types'
  BY <1>1, <1>2, <1>4 DEF Types
<1>6. Shape(c)' /\ Unknown(c)' /\ Unhydrated(c)' /\ Limited' /\ Outlived(c)'
  BY <1>1, <1>2, <1>3 DEF Good, Shape, Early, Native, Unknown, Unhydrated, Limited, Outlived,
     Live
<1>7. Covered(c)' /\ Building(c)' /\ Engines(c)'
  BY <1>1, <1>2, <1>3 DEF Good, Covered, Live, Building, Unstarted, Engines
<1>8. Working(c)' /\ Reading(c)'
  BY <1>1, <1>2, <1>3 DEF Good, Working, Sound, Reading, Native, Unstarted
<1>9. Timers(c)'
  BY <1>1, <1>2, <1>3 DEF Good, Timers, Early, Falling
<1>10. Good(c)'
  BY <1>4, <1>6, <1>7, <1>8, <1>9 DEF Good
<1> QED
  BY <1>3, <1>5, <1>10, GoodOfCtl, TypeJoinNext DEF StartReturns

(* A start that fails leaves the batch: what it may leave in progress are  *)
(* the calls that outlived an earlier run, and those count as lost.        *)
LEMMA StartThrowsPreserves ==
    ASSUME IInv, StartThrows PROVE IInv'
<1> PICK c : c = ctl
  OBVIOUS
<1>1. Types /\ c \in Ctls /\ Good(ctl)
  BY TypeSplit DEF IInv
<1>2. UNCHANGED <<status, error, retried, backoff, intents, worker, engine, orphans,
                  attempts, events>> /\ ctl.at = "starting" /\ ctl.run \in Throwing
  BY DEF StartThrows, entries
<1>3. ~worker.running /\ Unstarted(ctl) /\ ctl.left = ctl.batch /\ ctl.native
      /\ \A n \in DOMAIN intents : intents[n].kind # "start"
  BY <1>1, <1>2 DEF Good, Shape, Early, Native, Working, Unstarted, Starting
<1>4. /\ late' \in [Items -> {"no", "stopped", "lost"}]
      /\ \A i \in Items : /\ late[i] = "no" => late'[i] = "no"
                          /\ late[i] # "no" => late'[i] # "no"
                          /\ late[i] = "lost" => late'[i] = "lost"
                          /\ late[i] # "no" /\ i \in ctl.batch => late'[i] = "lost"
  BY <1>1 DEF StartThrows, Types
<1>5. Types'
  BY <1>1, <1>2, <1>4 DEF Types
<1>6. \A i \in Items : engine[i] = "downloading" => late[i] # "no"
  BY <1>1, <1>2, <1>3 DEF Good, Engines
<1>7. \A i \in Items :
        Live(i) \/ (status[i] = "queued" /\ engine[i] = "downloading" /\ ~ctl.runStopped)
          => i \in backoff \/ late'[i] = "lost"
  BY <1>1, <1>3, <1>4, <1>6 DEF Good, Covered, Building
<1>8. Unknown(c)' /\ Unhydrated(c)' /\ Limited' /\ Outlived(c)'
  BY <1>1, <1>2, <1>3, <1>4 DEF Good, Unknown, Unhydrated, Limited, Outlived, Types, Live
<1>9. \A i \in backoff : i \in Items /\ status[i] # "queued" /\ engine[i] # "downloading"
  BY <1>1 DEF Good, Timers, Types
<1>10. Sound(worker)' /\ worker'.run <= c.run
  BY <1>1, <1>2 DEF Good, Working, Sound
<1>11. \A i \in Items : Live(i)' <=> Live(i)
  BY <1>2 DEF Live
<1>12. Good(Ended(c))'
  BY <1>1, <1>2, <1>3, <1>4, <1>6, <1>7, <1>8, <1>9, <1>10, <1>11, EndedGood
<1>13. ctl' = Leave(c, status', TRUE)
  BY <1>2 DEF StartThrows
<1> QED
  BY <1>1, <1>5, <1>12, <1>13, LeaveGood, TypeJoinNext

-----------------------------------------------------------------------------
(* Polling. *)

(* The snapshot is read, to be merged one await later. *)
LEMMA PollReadPreserves ==
    ASSUME IInv, PollRead PROVE IInv'
<1> PICK c : c = [ctl EXCEPT !.at = "merge", !.read = worker]
  OBVIOUS
<1>1. Types /\ ctl \in Ctls /\ Good(ctl)
  BY TypeSplit DEF IInv
<1>2. UNCHANGED <<status, error, retried, backoff, intents, worker, engine, orphans, late,
                  attempts, events>> /\ ctl.at = "poll" /\ worker.run = ctl.run
  BY DEF PollRead, entries, outside
<1>3. Types' /\ worker \in Snapshots
  BY <1>1, <1>2 DEF Types
<1>4. /\ c \in Ctls /\ c.at = "merge" /\ c.read = worker /\ c.run = ctl.run
      /\ c.batch = ctl.batch /\ c.left = ctl.left /\ c.native = ctl.native
      /\ c.hydrated = ctl.hydrated /\ c.runStopped = ctl.runStopped
      /\ c.processing = ctl.processing
  BY <1>1, <1>3 DEF Ctls
<1>5. Shape(c)' /\ Unknown(c)' /\ Unhydrated(c)' /\ Limited' /\ Outlived(c)'
  BY <1>1, <1>2, <1>4 DEF Good, Shape, Early, Native, Unknown, Unhydrated, Limited, Outlived,
     Live
<1>6. Covered(c)' /\ Building(c)' /\ Engines(c)'
  BY <1>1, <1>2, <1>4 DEF Good, Covered, Live, Building, Unstarted, Engines
<1>7. Working(c)' /\ Starting(c)'
  BY <1>1, <1>2, <1>4 DEF Good, Working, Sound, Starting, Native, Unstarted
<1>8. Reading(c)'
  BY <1>1, <1>2, <1>4 DEF Good, Working, Sound, Reading
<1>9. Timers(c)'
  BY <1>1, <1>2, <1>4 DEF Good, Timers, Early, Falling
<1>10. Good(c)'
  BY <1>5, <1>6, <1>7, <1>8, <1>9 DEF Good
<1> QED
  BY <1>3, <1>4, <1>10, GoodOfCtl, TypeJoinNext DEF PollRead

(* The snapshot's pause is taken over, or waits for the worker's answer. *)
LEMMA ReconciledFields ==
    ASSUME NEW c \in Ctls
    PROVE  Reconciled(c) \in Ctls /\ Agree(Reconciled(c), c)
<1>1. c.read \in Snapshots /\ c.read.manual \in BOOLEAN
  BY DEF Ctls, Snapshots
<1> QED
  BY <1>1 DEF Reconciled, Ctls, Agree

(* What _mergeNativeSnapshot does to the entries. *)
LEMMA MergedEntries ==
    ASSUME Types, ctl \in Ctls, Good(ctl), PollMerge
    PROVE  /\ Types'
           /\ Limited'
           /\ \A i \in Items : Shows(i) <=> i \in ctl.batch \ Rejected
           /\ \A i \in Items : ~Shows(i) => status'[i] = status[i]
           /\ \A i \in Items : Shows(i) =>
                \/ status'[i] = status[i] /\ status[i] \in {"done", "failed", "unused", "gone"}
                \/ status[i] \in Statuses /\ status'[i] = ctl.read.items[i]
                \/ status[i] \in Statuses /\ status'[i] = "downloading" /\ i \in RateLimited
           /\ \A i \in RateLimited : /\ i \in Items /\ Shows(i) /\ status'[i] = "downloading"
                                     /\ ctl.read.items[i] = "failed"
                                     /\ worker.items[i] = "failed"
           /\ retried' = retried \cup RateLimited
           /\ backoff' = backoff \cup RateLimited
<1>1. ctl.at = "merge" /\ worker.run = ctl.run /\ Sound(ctl.read)
      /\ \A i \in Items :
           /\ ctl.read.items[i] = "absent" <=> worker.items[i] = "absent"
           /\ ctl.read.items[i] \in Terminal => worker.items[i] = ctl.read.items[i]
           /\ worker.items[i] # "absent" <=> i \in ctl.batch \ Rejected
  BY DEF PollMerge, Good, Working, Reading, Native
<1>2. /\ ctl.read.items \in [Items -> Statuses \cup {"absent"}]
      /\ ctl.read.errors \in [Items -> Errors]
  BY DEF Ctls, Snapshots
<1>3. \A i \in Items : Shows(i) <=> i \in ctl.batch \ Rejected
  BY <1>1 DEF Shows
<1>4. /\ status' = [i \in Items |-> IF i \in RateLimited THEN "downloading" ELSE Applied(i)]
      /\ error' = [i \in Items |-> AppliedError(i)]
      /\ retried' = retried \cup RateLimited
      /\ backoff' = backoff \cup RateLimited
      /\ UNCHANGED <<intents, worker, engine, orphans, late, attempts, events>>
  BY DEF PollMerge, outside
<1>5. \A i \in Items : Applied(i) = status[i] \/ (Shows(i) /\ Applied(i) = ctl.read.items[i])
  BY DEF Applied
<1>6. \A i \in Items : Applied(i) \in Statuses \cup {"unused", "gone"}
  <2> SUFFICES ASSUME NEW i \in Items PROVE Applied(i) \in Statuses \cup {"unused", "gone"}
    OBVIOUS
  <2>1. status[i] \in Statuses \cup {"unused", "gone"}
        /\ ctl.read.items[i] \in Statuses \cup {"absent"}
    BY <1>2 DEF Types
  <2>2. Applied(i) = status[i] \/ (ctl.read.items[i] # "absent" /\ Applied(i) = ctl.read.items[i])
    BY <1>5 DEF Shows
  <2> QED
    BY <2>1, <2>2
<1>7. \A i \in Items : AppliedError(i) \in Errors
  BY <1>2 DEF Types, AppliedError
<1>8. RateLimited \subseteq Items
  BY DEF RateLimited
<1>9. Types'
  <2>1. status' \in [Items -> Statuses \cup {"unused", "gone"}]
    BY <1>4, <1>6 DEF Statuses
  <2>2. error' \in [Items -> Errors]
    BY <1>4, <1>7
  <2>3. retried' \subseteq Items /\ backoff' \subseteq retried'
    BY <1>4, <1>8 DEF Types
  <2> QED
    BY <1>4, <2>1, <2>2, <2>3 DEF Types
<1>10. \A i \in RateLimited : /\ i \in Items /\ Shows(i) /\ status'[i] = "downloading"
                              /\ ctl.read.items[i] = "failed" /\ worker.items[i] = "failed"
                              /\ status[i] \in Statuses
  <2> SUFFICES ASSUME NEW i \in RateLimited
               PROVE  /\ i \in Items /\ Shows(i) /\ status'[i] = "downloading"
                      /\ ctl.read.items[i] = "failed" /\ worker.items[i] = "failed"
                      /\ status[i] \in Statuses
    OBVIOUS
  <2>1. i \in Items /\ Applied(i) = "failed" /\ AppliedError(i) = "rate" /\ i \notin retried
    BY DEF RateLimited
  <2>2. error[i] # "rate"
    BY <2>1 DEF Good, Limited
  <2>3. Shows(i) /\ i \in Present /\ ctl.read.items[i] = "failed"
    BY <2>1, <2>2 DEF AppliedError
  <2>4. status'[i] = "downloading"
    BY <1>4, <2>1
  <2> QED
    BY <1>1, <2>1, <2>3, <2>4 DEF Terminal, Present
<1>11. \A i \in Items : ~Shows(i) => status'[i] = status[i]
  BY <1>4, <1>5, <1>10
<1>12. \A i \in Items : Shows(i) =>
         \/ status'[i] = status[i] /\ status[i] \in {"done", "failed", "unused", "gone"}
         \/ status[i] \in Statuses /\ status'[i] = ctl.read.items[i]
         \/ status[i] \in Statuses /\ status'[i] = "downloading" /\ i \in RateLimited
  <2> SUFFICES ASSUME NEW i \in Items, Shows(i)
               PROVE
         \/ status'[i] = status[i] /\ status[i] \in {"done", "failed", "unused", "gone"}
         \/ status[i] \in Statuses /\ status'[i] = ctl.read.items[i]
         \/ status[i] \in Statuses /\ status'[i] = "downloading" /\ i \in RateLimited
    OBVIOUS
  <2>1. CASE i \in RateLimited
    BY <1>10, <2>1
  <2>2. CASE i \notin RateLimited
    <3>1. status'[i] = Applied(i)
      BY <1>4, <2>2
    <3>2. status[i] \in Statuses \cup {"unused", "gone"}
      BY DEF Types
    <3> QED
      BY <3>1, <3>2 DEF Applied, Present, Terminal
  <2> QED
    BY <2>1, <2>2
<1>13. Limited'
  <2> SUFFICES ASSUME NEW i \in Items, error'[i] = "rate" PROVE i \in retried'
    BY DEF Limited
  <2>1. AppliedError(i) = "rate"
    BY <1>4
  <2>2. CASE error[i] = "rate"
    BY <1>4, <2>2 DEF Good, Limited
  <2>3. CASE error[i] # "rate"
    <3>1. Applied(i) = ctl.read.items[i] /\ ctl.read.errors[i] # "none"
      BY <2>1, <2>3 DEF AppliedError
    <3>2. Applied(i) = "failed"
      BY <1>1, <3>1 DEF Sound
    <3>3. i \in retried \/ i \in RateLimited
      BY <2>1, <3>2 DEF RateLimited
    <3> QED
      BY <1>4, <3>3
  <2> QED
    BY <2>2, <2>3
<1> QED
  BY <1>3, <1>4, <1>9, <1>10, <1>11, <1>12, <1>13

(* The run goes on: the queue polls again. *)
LEMMA MergeOn ==
    ASSUME IInv, PollMerge, ctl.read.running PROVE IInv'
<1> PICK d : d = Reconciled(ctl)
  OBVIOUS
<1> PICK c : c = [d EXCEPT !.at = "poll", !.read = NoRun]
  OBVIOUS
<1>1. Types /\ ctl \in Ctls /\ Good(ctl)
  BY TypeSplit DEF IInv
<1>2. ctl' = c /\ ctl.at = "merge"
      /\ UNCHANGED <<intents, worker, engine, orphans, late, attempts, events>>
  BY DEF PollMerge, outside
<1>3. d \in Ctls /\ Agree(d, ctl)
  BY <1>1, ReconciledFields
<1>4. /\ c \in Ctls /\ c.at = "poll" /\ c.run = ctl.run
      /\ c.batch = ctl.batch /\ c.left = ctl.left /\ c.native = ctl.native
      /\ c.hydrated = ctl.hydrated /\ c.runStopped = ctl.runStopped
      /\ c.processing = ctl.processing
  BY <1>3, NoRunIsSnapshot DEF Ctls, Agree
<1>5. /\ Types' /\ Limited'
      /\ \A i \in Items : ~Shows(i) => status'[i] = status[i]
      /\ \A i \in Items : Shows(i) =>
           /\ i \in ctl.batch
           /\ \/ status'[i] = status[i] /\ status[i] \in {"done", "failed", "unused", "gone"}
              \/ status[i] \in Statuses /\ status'[i] \in Statuses
      /\ \A i \in backoff' \ backoff : /\ i \in Items /\ Shows(i) /\ status'[i] = "downloading"
                                       /\ worker.items[i] = "failed"
      /\ backoff \subseteq backoff' /\ retried \subseteq retried'
      /\ \A i \in retried' \ retried : status'[i] # "unused"
  <2>1. \A i \in Items : Shows(i) => ctl.read.items[i] \in Statuses
    BY <1>1 DEF Ctls, Snapshots, Shows
  <2> QED
    BY <1>1, <2>1, MergedEntries DEF Shows, Statuses
<1>6. Shape(c)' /\ Outlived(c)' /\ Unhydrated(c)'
  BY <1>1, <1>2, <1>4 DEF Good, Shape, Early, Native, Outlived, Unhydrated
<1>7. Unknown(c)'
  BY <1>1, <1>2, <1>4, <1>5 DEF Good, Unknown, Statuses
<1>8. Covered(c)' /\ Building(c)'
  <2>1. ~Unstarted(c)
    BY <1>4 DEF Unstarted
  <2>2. ctl.left = ctl.batch /\ ~ctl.runStopped
    BY <1>1, <1>2 DEF Good, Shape, Early
  <2> QED
    BY <1>1, <1>2, <1>4, <1>5, <2>1, <2>2 DEF Good, Covered, Live, Building, Unstarted
<1>9. Engines(c)' /\ Working(c)' /\ Starting(c)' /\ Reading(c)'
  BY <1>1, <1>2, <1>4 DEF Good, Engines, Working, Sound, Starting, Reading, Native, Unstarted
<1>10. Timers(c)'
  <2>1. /\ worker.run = ctl.run
        /\ \A i \in Items : worker.items[i] = "failed" => engine[i] # "downloading"
    BY <1>1, <1>2 DEF Good, Working, Native
  <2>2. \A i \in backoff : /\ i \in Items /\ engine[i] # "downloading"
                           /\ status'[i] # "queued"
                           /\ i \in ctl.batch => worker.items[i] = "failed"
    <3> SUFFICES ASSUME NEW i \in backoff
                 PROVE  /\ i \in Items /\ engine[i] # "downloading"
                        /\ status'[i] # "queued"
                        /\ i \in ctl.batch => worker.items[i] = "failed"
      OBVIOUS
    <3>1. /\ i \in Items /\ status[i] # "queued" /\ engine[i] # "downloading"
          /\ i \in ctl.batch => worker.items[i] = "failed" /\ ctl.read.items[i] = "failed"
      BY <1>1, <1>2 DEF Types, Good, Timers, Early
    <3>2. status'[i] # "queued"
      BY <1>1, <3>1, MergedEntries DEF Shows
    <3> QED
      BY <3>1, <3>2
  <2>3. \A i \in backoff' : /\ status'[i] # "queued" /\ engine'[i] # "downloading"
                            /\ i \in c.batch => worker'.items[i] = "failed"
    BY <1>2, <1>4, <1>5, <2>1, <2>2
  <2> QED
    BY <1>2, <1>4, <2>1, <2>3 DEF Timers, Early, Falling
<1>11. Good(c)'
  BY <1>5, <1>6, <1>7, <1>8, <1>9, <1>10 DEF Good
<1> QED
  BY <1>2, <1>4, <1>5, <1>11, GoodOfCtl, TypeJoinNext

\* The run that was read left items for later.
Pending == \E i \in Items : Shows(i) /\ ctl.read.items[i] = "queued"

(* When the run is over, what the snapshot shows is settled, waits for its *)
(* timer, or is queued and marks the run as stopped.                       *)
LEMMA MergeEnds ==
    ASSUME Types, ctl \in Ctls, Good(ctl), PollMerge, ~ctl.read.running
    PROVE  /\ Types' /\ Limited'
           /\ UNCHANGED <<intents, worker, engine, orphans, late>>
           /\ ~worker.running /\ worker.run = ctl.run /\ Sound(worker)
           /\ \A n \in DOMAIN intents : intents[n].kind # "start"
           /\ ctl.hydrated /\ ctl.native /\ ctl.processing
           /\ \A i \in Items : engine[i] = "downloading" => late[i] # "no"
           /\ \A i \in backoff' : /\ i \in Items /\ status'[i] # "queued"
                                  /\ engine[i] # "downloading"
                                  /\ i \notin ctl.batch \cap Rejected
           /\ \A i \in Items :
                Live(i)' \/ (status'[i] = "queued" /\ engine[i] = "downloading" /\ ~Pending)
                  => i \in backoff' \/ late[i] = "lost" \/ i \in ctl.batch \cap Rejected
           /\ \A i \in Items : status'[i] = "unused" =>
                /\ engine[i] = "none" /\ late[i] = "no"
                /\ i \notin retried' /\ i \notin ctl.batch
           /\ \A i \in orphans : late[i] # "no"
<1>1. ctl.at = "merge"
      /\ UNCHANGED <<intents, worker, engine, orphans, late>>
  BY DEF PollMerge, outside
<1>2. /\ ctl.hydrated /\ ctl.native /\ ctl.processing
      /\ ctl.left = ctl.batch /\ ~ctl.runStopped
  BY <1>1 DEF Good, Shape, Early, Native, Ctls
<1>3. /\ ~worker.running /\ worker.run = ctl.run /\ Sound(worker) /\ Sound(ctl.read)
      /\ \A i \in Items :
           /\ worker.items[i] # "absent" <=> i \in ctl.batch \ Rejected
           /\ worker.items[i] = "failed" => engine[i] # "downloading"
  BY <1>1 DEF Good, Working, Native, Reading
<1>4. \A n \in DOMAIN intents : intents[n].kind # "start"
  BY <1>3 DEF Good, Starting
<1>5. \A i \in Items : engine[i] = "downloading" => late[i] # "no"
  BY <1>1, <1>3 DEF Good, Engines
<1>6. /\ Types' /\ Limited'
      /\ \A i \in Items : Shows(i) <=> i \in ctl.batch \ Rejected
      /\ \A i \in Items : ~Shows(i) => status'[i] = status[i]
      /\ \A i \in Items : Shows(i) =>
           \/ status'[i] = status[i] /\ status[i] \in {"done", "failed", "unused", "gone"}
           \/ status[i] \in Statuses /\ status'[i] = ctl.read.items[i]
           \/ status[i] \in Statuses /\ status'[i] = "downloading" /\ i \in RateLimited
      /\ \A i \in RateLimited : /\ i \in Items /\ Shows(i) /\ status'[i] = "downloading"
                                /\ ctl.read.items[i] = "failed"
                                /\ worker.items[i] = "failed"
      /\ retried' = retried \cup RateLimited
      /\ backoff' = backoff \cup RateLimited
  BY MergedEntries
<1>7. \A i \in Items : Shows(i) => ctl.read.items[i] \in {"done", "failed", "queued"}
  BY <1>3 DEF Sound, Shows, Terminal
<1>8. \A i \in backoff' : /\ i \in Items /\ status'[i] # "queued"
                          /\ engine[i] # "downloading"
                          /\ i \notin ctl.batch \cap Rejected
  <2>1. \A i \in backoff : /\ i \in Items /\ status[i] # "queued" /\ engine[i] # "downloading"
                           /\ i \in ctl.batch => /\ worker.items[i] = "failed"
                                                 /\ ctl.read.items[i] = "failed"
    BY <1>1 DEF Types, Good, Timers, Early
  <2>2. \A i \in backoff : status'[i] # "queued"
    BY <1>6, <2>1 DEF Shows
  <2> QED
    BY <1>3, <1>6, <2>1, <2>2
<1>9. \A i \in Items :
        Live(i)' \/ (status'[i] = "queued" /\ engine[i] = "downloading" /\ ~Pending)
          => i \in backoff' \/ late[i] = "lost" \/ i \in ctl.batch \cap Rejected
  <2> SUFFICES ASSUME NEW i \in Items,
                 Live(i)' \/ (status'[i] = "queued" /\ engine[i] = "downloading" /\ ~Pending)
               PROVE i \in backoff' \/ late[i] = "lost" \/ i \in ctl.batch \cap Rejected
    OBVIOUS
  <2>1. CASE Shows(i)
    <3>1. status'[i] \in {"downloading", "finalizing"} \/ (status'[i] = "queued" /\ ~Pending)
      BY DEF Live
    <3>2. ~Pending => ctl.read.items[i] # "queued"
      BY <2>1 DEF Pending
    <3>3. i \in RateLimited
      BY <1>6, <1>7, <2>1, <3>1, <3>2
    <3> QED
      BY <1>6, <3>3
  <2>2. CASE ~Shows(i)
    <3>1. Live(i) \/ (status[i] = "queued" /\ engine[i] = "downloading" /\ ~ctl.runStopped)
      BY <1>2, <1>6, <2>2 DEF Live
    <3>2. i \in backoff \/ late[i] = "lost" \/ i \in ctl.left
      BY <3>1 DEF Good, Covered
    <3> QED
      BY <1>2, <1>6, <2>2, <3>2
  <2> QED
    BY <2>1, <2>2
<1>10. \A i \in Items : status'[i] = "unused" =>
         /\ engine[i] = "none" /\ late[i] = "no"
         /\ i \notin retried' /\ i \notin ctl.batch
  <2>1. \A i \in Items : status'[i] = "unused" => status[i] = "unused" /\ i \notin RateLimited
    BY <1>6, <1>7
  <2> QED
    BY <1>6, <2>1 DEF Good, Unknown
<1>11. \A i \in orphans : late[i] # "no"
  BY DEF Good, Outlived
<1> QED
  BY <1>1, <1>2, <1>3, <1>4, <1>5, <1>6, <1>8, <1>9, <1>10, <1>11

(* The run is over and the batch with it, or the fallback takes what the   *)
(* gate refused.                                                           *)
LEMMA MergeOver ==
    ASSUME IInv, PollMerge, ~ctl.read.running PROVE IInv'
<1> PICK d : d = Reconciled(ctl)
  OBVIOUS
<1>0. PICK over : over = [d EXCEPT !.linked = FALSE, !.runStopped = Pending]
  OBVIOUS
<1>1. Types /\ ctl \in Ctls /\ Good(ctl)
  BY TypeSplit DEF IInv
<1>2. Pending \in BOOLEAN
  BY DEF Pending
<1>3. ctl' = IF ctl.batch \cap Rejected # {}
             THEN [over EXCEPT !.at = "fallback", !.read = NoRun,
                               !.left = ctl.batch \cap Rejected]
             ELSE Leave(over, status', ~Pending)
  BY <1>0 DEF PollMerge, Pending
<1>4. d \in Ctls /\ Agree(d, ctl)
  BY <1>1, ReconciledFields
<1>5. /\ over \in Ctls /\ over.runStopped = Pending
      /\ over.native = ctl.native /\ over.processing = ctl.processing
      /\ over.hydrated = ctl.hydrated /\ over.batch = ctl.batch /\ over.run = ctl.run
  <2> PICK p : p = Pending
    OBVIOUS
  <2>1. p \in BOOLEAN /\ over = [d EXCEPT !.linked = FALSE, !.runStopped = p]
    BY <1>0, <1>2
  <2>2. /\ over \in Ctls /\ over.runStopped = p
        /\ over.native = d.native /\ over.processing = d.processing
        /\ over.hydrated = d.hydrated /\ over.batch = d.batch /\ over.run = d.run
    BY <1>4, <2>1 DEF Ctls
  <2> QED
    BY <1>4, <2>2 DEF Agree
<1>6. /\ Types' /\ Limited'
      /\ UNCHANGED <<intents, worker, engine, orphans, late>>
      /\ ~worker.running /\ worker.run = ctl.run /\ Sound(worker)
      /\ \A n \in DOMAIN intents : intents[n].kind # "start"
      /\ ctl.hydrated /\ ctl.native /\ ctl.processing
      /\ \A i \in Items : engine[i] = "downloading" => late[i] # "no"
      /\ \A i \in backoff' : /\ i \in Items /\ status'[i] # "queued"
                             /\ engine[i] # "downloading"
                             /\ i \notin ctl.batch \cap Rejected
      /\ \A i \in Items :
           Live(i)' \/ (status'[i] = "queued" /\ engine[i] = "downloading" /\ ~Pending)
             => i \in backoff' \/ late[i] = "lost" \/ i \in ctl.batch \cap Rejected
      /\ \A i \in Items : status'[i] = "unused" =>
           /\ engine[i] = "none" /\ late[i] = "no"
           /\ i \notin retried' /\ i \notin ctl.batch
      /\ \A i \in orphans : late[i] # "no"
  BY <1>1, MergeEnds
<1>7. Sound(worker)' /\ ~worker'.running /\ worker'.run = over.run
      /\ worker'.run <= over.run
  <2>1. over.run \in Nat
    BY <1>5, ConstantsAssumption DEF Ctls
  <2> QED
    BY <1>5, <1>6, <2>1 DEF Sound
<1>8. Unknown(over)' /\ Unhydrated(over)' /\ Outlived(over)'
  BY <1>5, <1>6 DEF Unknown, Unhydrated, Outlived
<1> HIDE DEF Pending
<1>9. CASE ctl.batch \cap Rejected = {}
  <2>1. \A i \in Items :
          Live(i)' \/ (status'[i] = "queued" /\ engine'[i] = "downloading" /\ ~over.runStopped)
            => i \in backoff' \/ late'[i] = "lost"
    BY <1>5, <1>6, <1>9
  <2>2. /\ \A i \in Items : engine'[i] = "downloading" => late'[i] # "no"
        /\ \A i \in backoff' : status'[i] # "queued" /\ engine'[i] # "downloading"
        /\ \A n \in DOMAIN intents' : intents'[n].kind # "start"
    BY <1>6
  <2>3. Good(Ended(over))'
    BY <1>5, <1>6, <1>7, <1>8, <2>1, <2>2, EndedGood
  <2> QED
    BY <1>2, <1>3, <1>5, <1>6, <1>9, <2>3, LeaveGood, TypeJoinNext
<1>10. CASE ctl.batch \cap Rejected # {}
  <2> PICK c : c = [over EXCEPT !.at = "fallback", !.read = NoRun,
                                !.left = ctl.batch \cap Rejected]
    OBVIOUS
  <2>1. /\ c \in Ctls /\ c.at = "fallback" /\ c.left = ctl.batch \cap Rejected
        /\ c.batch = ctl.batch /\ c.run = ctl.run /\ c.native = ctl.native
        /\ c.hydrated = ctl.hydrated /\ c.runStopped = Pending
        /\ c.processing = ctl.processing
    <3>1. ctl.batch \cap Rejected \in SUBSET Items
      BY <1>1 DEF Ctls
    <3> HIDE DEF Ctls
    <3>2. /\ c \in Ctls /\ c.at = "fallback" /\ c.left = ctl.batch \cap Rejected
          /\ c.batch = over.batch /\ c.run = over.run /\ c.native = over.native
          /\ c.hydrated = over.hydrated /\ c.runStopped = over.runStopped
          /\ c.processing = over.processing
      BY <1>5, <3>1, NoRunIsSnapshot DEF Ctls
    <3> QED
      BY <1>5, <3>2
  <2>2. Shape(c)' /\ Unknown(c)' /\ Unhydrated(c)' /\ Outlived(c)'
    BY <1>5, <1>6, <1>8, <2>1 DEF Shape, Early, Native, Unknown, Unhydrated, Outlived
  <2>3. Covered(c)' /\ Building(c)' /\ Engines(c)'
    BY <1>6, <2>1 DEF Covered, Building, Unstarted, Engines
  <2>4. Working(c)' /\ Starting(c)' /\ Reading(c)'
    BY <1>5, <1>6, <1>7, <2>1 DEF Working, Starting, Reading, Native, Unstarted
  <2>5. Timers(c)'
    BY <1>6, <2>1 DEF Timers, Early, Falling
  <2>6. Good(c)'
    BY <1>6, <2>2, <2>3, <2>4, <2>5 DEF Good
  <2> QED
    BY <1>3, <1>6, <1>10, <2>1, <2>6, GoodOfCtl, TypeJoinNext
<1> QED
  BY <1>9, <1>10

(* Whether the run goes on or is over. *)
LEMMA PollMergePreserves ==
    ASSUME IInv, PollMerge PROVE IInv'
  BY MergeOn, MergeOver

-----------------------------------------------------------------------------
(* The fallback.  A step of it concerns its current entry alone: the entry   *)
(* stays the current one, or it is dropped and must then be settled or wait  *)
(* for its timer.                                                            *)
\* c is a later place of the fallback, with the entry e or past it.
Moves(c, e) ==
    /\ c.at \in Falling
    /\ c.native = ctl.native /\ c.processing = ctl.processing /\ c.hydrated = ctl.hydrated
    /\ c.runStopped = ctl.runStopped /\ c.batch = ctl.batch /\ c.run = ctl.run
    /\ c.left = ctl.left \/ (c.left = ctl.left \ {e} /\ c.at = "fallback")

\* Only the entry e changes.
Alone(e) ==
    /\ UNCHANGED <<intents, worker, orphans, late>>
    /\ backoff' \subseteq Items
    /\ \A i \in Items : i # e => /\ status'[i] = status[i] /\ engine'[i] = engine[i]
                                 /\ i \in backoff' <=> i \in backoff
                                 /\ i \in retried' <=> i \in retried

\* What becomes of e.
Cared(c, e) ==
    /\ status'[e] # "unused"
    /\ c.left # ctl.left =>
         /\ Live(e)' => e \in backoff' \/ late[e] = "lost"
         /\ status'[e] = "queued" =>
              engine'[e] # "downloading" \/ late[e] = "lost" \/ ctl.runStopped
    /\ engine'[e] = "downloading" => late[e] # "no" \/ c.at = "download"
    /\ e \in backoff' => /\ status'[e] # "queued" /\ engine'[e] # "downloading"
                         /\ c.at = "wait" \/ c.left # ctl.left
    /\ c.at = "wait" => engine'[e] # "downloading" /\ (Live(e)' => e \in backoff')

(* Such a step preserves the invariant. *)
LEMMA FallingGood ==
    ASSUME Types, ctl \in Ctls, Good(ctl), ctl.at \in Falling, ctl.left # {},
           NEW CONSTANT c \in Ctls, NEW CONSTANT e, e = CurrentOf(ctl),
           Moves(c, e), Alone(e), Cared(c, e), Limited'
    PROVE  Good(c)'
<1> USE DEF Moves, Alone, Cared
<1>1. e \in ctl.left /\ e \in ctl.batch /\ e \in Items
  BY CurrentIsLeft DEF Good, Shape, Ctls
<1>2. c.left = ctl.left => CurrentOf(c) = e
  BY DEF CurrentOf
<1>3. /\ ~worker.running /\ ctl.hydrated /\ ctl.processing /\ worker.run <= ctl.run
      /\ \A n \in DOMAIN intents : intents[n].kind # "start"
  BY DEF Good, Working, Native, Starting, Shape, Falling, Ctls
<1>4. Shape(c)'
  BY <1>3 DEF Good, Shape, Early, Native, Falling
<1>5. Unknown(c)' /\ Unhydrated(c)' /\ Outlived(c)'
  BY <1>1, <1>3 DEF Good, Unknown, Unhydrated, Outlived
<1>6. Covered(c)'
  <2> SUFFICES ASSUME NEW i \in Items,
                 Live(i)' \/ (status'[i] = "queued" /\ engine'[i] = "downloading"
                                /\ ~c.runStopped)
               PROVE  i \in backoff' \/ late'[i] = "lost" \/ i \in c.left
    BY DEF Covered
  <2>1. CASE i = e
    BY <1>1, <2>1
  <2>2. CASE i # e
    <3>1. Live(i) \/ (status[i] = "queued" /\ engine[i] = "downloading" /\ ~ctl.runStopped)
      BY <2>2 DEF Live
    <3>2. i \in backoff \/ late[i] = "lost" \/ i \in ctl.left
      BY <3>1 DEF Good, Covered
    <3> QED
      BY <2>2, <3>2
  <2> QED
    BY <2>1, <2>2
<1>7. Building(c)' /\ Reading(c)'
  BY DEF Building, Unstarted, Reading, Falling
<1>8. Engines(c)'
  <2> SUFFICES ASSUME NEW i \in Items, engine'[i] = "downloading"
               PROVE  late'[i] # "no" \/ (c.at = "download" /\ i = CurrentOf(c))
    BY DEF Engines
  <2>1. CASE i = e
    BY <1>2, <2>1
  <2>2. CASE i # e
    BY <1>3, <2>2 DEF Good, Engines
  <2> QED
    BY <2>1, <2>2
<1>9. Working(c)' /\ Starting(c)'
  BY <1>3 DEF Good, Working, Sound, Starting, Native, Falling, Unstarted
<1>10. Timers(c)'
  <2>1. \A i \in backoff' : status'[i] # "queued" /\ engine'[i] # "downloading"
    BY DEF Good, Timers
  <2>2. \A i \in backoff' \cap c.left : c.at = "wait" /\ i = CurrentOf(c)
    <3> SUFFICES ASSUME NEW i \in backoff' \cap c.left
                 PROVE  c.at = "wait" /\ i = CurrentOf(c)
      OBVIOUS
    <3>1. i \in Items /\ i \in ctl.left
      BY DEF Ctls
    <3>2. i = e
      <4> SUFFICES ASSUME i # e PROVE FALSE
        OBVIOUS
      <4>1. i \in backoff
        BY <3>1
      <4> QED
        BY <3>1, <4>1 DEF Good, Timers
    <3> QED
      BY <1>2, <3>2
  <2>3. c.at \notin Early
    BY DEF Early, Falling
  <2> QED
    BY <1>2, <2>1, <2>2, <2>3 DEF Timers
<1> QED
  BY <1>4, <1>5, <1>6, <1>7, <1>8, <1>9, <1>10 DEF Good

(* The entry the fallback is busy with. *)
LEMMA CurrentFacts ==
    ASSUME Types, ctl \in Ctls, Good(ctl), ctl.at \in Falling, ctl.left # {}
    PROVE  /\ Current = CurrentOf(ctl) /\ Current \in Items /\ Current \in ctl.left
           /\ status[Current] \in Statuses \cup {"gone"}
           /\ ctl.at # "wait" => Current \notin backoff
           /\ engine[Current] = "downloading" => late[Current] # "no" \/ ctl.at = "download"
<1>1. Current = CurrentOf(ctl)
  BY DEF Current, CurrentOf
<1>2. Current \in ctl.left /\ Current \in ctl.batch /\ Current \in Items
  BY <1>1, CurrentIsLeft DEF Good, Shape, Ctls
<1>3. status[Current] \in Statuses \cup {"gone"}
  BY <1>2 DEF Types, Good, Unknown
<1>4. ctl.at # "wait" => Current \notin backoff
  BY <1>2 DEF Good, Timers
<1>5. engine[Current] = "downloading" => late[Current] # "no" \/ ctl.at = "download"
  BY <1>2 DEF Good, Engines, Working, Native, Falling
<1> QED
  BY <1>1, <1>2, <1>3, <1>4, <1>5

(* The entry is taken up: by FallbackNext at once, by Admission later. *)
LEMMA Taken ==
    ASSUME IInv, ctl.at \in {"fallback", "admission"}, ctl.left # {},
           ctl' = [ctl EXCEPT !.at = "download"],
           status' = [status EXCEPT ![Current] = "downloading"],
           attempts' = [attempts EXCEPT ![Current] = Tried(@)],
           engine' = [engine EXCEPT ![Current] = "downloading"],
           UNCHANGED <<error, retried, backoff, intents, worker, orphans, late, events>>
    PROVE  IInv'
<1> PICK c : c = [ctl EXCEPT !.at = "download"]
  OBVIOUS
<1> PICK e : e = Current
  OBVIOUS
<1>1. Types /\ ctl \in Ctls /\ Good(ctl) /\ ctl.at \in Falling
  BY TypeSplit DEF IInv, Falling
<1>2. e = CurrentOf(ctl) /\ e \in Items /\ e \in ctl.left /\ e \notin backoff
  BY <1>1, CurrentFacts
<1>3. /\ c \in Ctls /\ c.at = "download" /\ c.run = ctl.run
      /\ c.batch = ctl.batch /\ c.left = ctl.left /\ c.native = ctl.native
      /\ c.hydrated = ctl.hydrated /\ c.runStopped = ctl.runStopped
      /\ c.processing = ctl.processing
  BY <1>1 DEF Ctls
<1>4. /\ status'[e] = "downloading" /\ engine'[e] = "downloading"
      /\ \A i \in Items : i # e => status'[i] = status[i] /\ engine'[i] = engine[i]
      /\ status' \in [Items -> Statuses \cup {"unused", "gone"}]
      /\ engine' \in [Items -> {"none", "downloading", "completed"}]
  BY <1>1, <1>2 DEF Types, Statuses
<1>5. attempts' \in [Items -> 0..MaxAttempts]
  BY <1>1, <1>2, ConstantsAssumption DEF Types, Tried
<1>6. Types' /\ Limited'
  BY <1>1, <1>4, <1>5 DEF Types, Good, Limited
<1>7. Moves(c, e) /\ Alone(e)
  BY <1>1, <1>3, <1>4 DEF Moves, Alone, Falling, Types
<1>8. Cared(c, e)
  BY <1>2, <1>3, <1>4 DEF Cared
<1>9. Good(c)'
  BY <1>1, <1>2, <1>3, <1>6, <1>7, <1>8, FallingGood
<1> QED
  BY <1>3, <1>6, <1>9, GoodOfCtl, TypeJoinNext

(* The entry is dropped from the fallback's list, as it stands. *)
LEMMA Dropped ==
    ASSUME IInv, ctl.at \in Falling, ctl.left # {},
           NEW e, e = Current,
           ctl' = [ctl EXCEPT !.at = "fallback", !.left = @ \ {e}],
           UNCHANGED <<status, error, retried, backoff, engine, attempts, intents, worker,
                       orphans, late, events>>,
           Live(e) => e \in backoff,
           status[e] = "queued" => engine[e] # "downloading",
           engine[e] = "downloading" => late[e] # "no"
    PROVE  IInv'
<1> PICK c : c = [ctl EXCEPT !.at = "fallback", !.left = @ \ {e}]
  OBVIOUS
<1>1. Types /\ ctl \in Ctls /\ Good(ctl)
  BY TypeSplit DEF IInv
<1>2. /\ e = CurrentOf(ctl) /\ e \in Items /\ e \in ctl.left
      /\ status[e] \in Statuses \cup {"gone"}
  BY <1>1, CurrentFacts
<1>3. /\ c \in Ctls /\ c.at = "fallback" /\ c.run = ctl.run
      /\ c.batch = ctl.batch /\ c.left = ctl.left \ {e} /\ c.native = ctl.native
      /\ c.hydrated = ctl.hydrated /\ c.runStopped = ctl.runStopped
      /\ c.processing = ctl.processing
  BY <1>1 DEF Ctls
<1>4. Types' /\ Limited'
  BY <1>1 DEF Types, Good, Limited
<1>5. (Live(e)' <=> Live(e)) /\ status'[e] # "unused"
  BY <1>2 DEF Live, Statuses
<1>6. \A i \in backoff : status[i] # "queued" /\ engine[i] # "downloading"
  BY <1>1 DEF Good, Timers
<1>7. Moves(c, e) /\ Alone(e)
  BY <1>1, <1>3 DEF Moves, Alone, Falling, Types
<1>8. Cared(c, e)
  BY <1>2, <1>3, <1>5, <1>6 DEF Cared
<1>9. Good(c)'
  BY <1>1, <1>2, <1>3, <1>4, <1>7, <1>8, FallingGood
<1> QED
  BY <1>3, <1>4, <1>9, GoodOfCtl, TypeJoinNext

(* The next entry is skipped, held back or taken up. *)
LEMMA FallbackNextPreserves ==
    ASSUME IInv, FallbackNext PROVE IInv'
<1> PICK e : e = Current
  OBVIOUS
<1>1. Types /\ ctl \in Ctls /\ Good(ctl) /\ ctl.at \in Falling
  BY TypeSplit DEF IInv, FallbackNext, Falling
<1>2. /\ ctl.at = "fallback" /\ ctl.left # {}
      /\ UNCHANGED <<error, retried, backoff, intents, worker, orphans, late, events>>
  BY DEF FallbackNext
<1>3. /\ e = CurrentOf(ctl) /\ e \in Items /\ e \in ctl.left /\ e \notin backoff
      /\ status[e] \in Statuses \cup {"gone"}
      /\ engine[e] = "downloading" => late[e] # "no"
  BY <1>1, <1>2, CurrentFacts
<1>4. CASE /\ status[e] \notin Statuses \ Terminal
           /\ ctl' = [ctl EXCEPT !.left = @ \ {e}]
           /\ UNCHANGED <<status, attempts, engine>>
  <2>1. ctl' = [ctl EXCEPT !.at = "fallback", !.left = @ \ {e}]
    BY <1>1, <1>2, <1>4 DEF Ctls
  <2>2. ~Live(e) /\ status[e] # "queued"
    BY <1>4 DEF Live, Statuses, Terminal
  <2> QED
    BY <1>1, <1>2, <1>3, <1>4, <2>1, <2>2, Dropped
<1>5. CASE /\ ctl' = [ctl EXCEPT !.at = "admission"]
           /\ status' = [status EXCEPT ![e] = "queued"]
           /\ UNCHANGED <<attempts, engine>>
  <2> PICK c : c = [ctl EXCEPT !.at = "admission"]
    OBVIOUS
  <2>1. /\ c \in Ctls /\ c.at = "admission" /\ c.run = ctl.run
        /\ c.batch = ctl.batch /\ c.left = ctl.left /\ c.native = ctl.native
        /\ c.hydrated = ctl.hydrated /\ c.runStopped = ctl.runStopped
        /\ c.processing = ctl.processing
    BY <1>1 DEF Ctls
  <2>2. /\ status'[e] = "queued" /\ engine' = engine
        /\ \A i \in Items : i # e => status'[i] = status[i]
        /\ status' \in [Items -> Statuses \cup {"unused", "gone"}]
    BY <1>1, <1>3, <1>5 DEF Types, Statuses
  <2>3. Types' /\ Limited'
    BY <1>1, <1>2, <1>5, <2>2 DEF Types, Good, Limited
  <2>4. Moves(c, e) /\ Alone(e)
    BY <1>1, <1>2, <2>1, <2>2 DEF Moves, Alone, Falling, Types
  <2>5. Cared(c, e)
    BY <1>2, <1>3, <2>1, <2>2 DEF Cared
  <2>6. Good(c)'
    BY <1>1, <1>2, <1>3, <2>1, <2>3, <2>4, <2>5, FallingGood
  <2> QED
    BY <1>5, <2>1, <2>3, <2>6, GoodOfCtl, TypeJoinNext
<1>6. CASE /\ ctl' = [ctl EXCEPT !.at = "download"]
           /\ status' = [status EXCEPT ![e] = "downloading"]
           /\ attempts' = [attempts EXCEPT ![e] = Tried(@)]
           /\ engine' = [engine EXCEPT ![e] = "downloading"]
  BY <1>2, <1>6, Taken
<1> QED
  BY <1>4, <1>5, <1>6 DEF FallbackNext

(* A held entry is dropped when removed, taken up after the pause. *)
LEMMA AdmissionPreserves ==
    ASSUME IInv, Admission PROVE IInv'
<1> PICK e : e = Current
  OBVIOUS
<1>1. Types /\ ctl \in Ctls /\ Good(ctl) /\ ctl.at = "admission" /\ ctl.at \in Falling
      /\ UNCHANGED <<error, retried, backoff, intents, worker, orphans, late, events>>
  BY TypeSplit DEF IInv, Admission, Falling
<1>2. ctl.left # {}
  BY <1>1 DEF Good, Shape
<1>3. /\ e = CurrentOf(ctl) /\ e \in Items /\ e \in ctl.left /\ e \notin backoff
      /\ engine[e] = "downloading" => late[e] # "no"
  BY <1>1, <1>2, CurrentFacts
<1>4. CASE /\ e \notin Present
           /\ ctl' = [ctl EXCEPT !.at = "fallback", !.left = @ \ {e}]
           /\ UNCHANGED <<status, attempts, engine>>
  <2>1. ~Live(e) /\ status[e] # "queued"
    BY <1>3, <1>4 DEF Live, Statuses, Present
  <2> QED
    BY <1>1, <1>2, <1>3, <1>4, <2>1, Dropped
<1>5. CASE /\ ctl' = [ctl EXCEPT !.at = "download"]
           /\ status' = [status EXCEPT ![e] = "downloading"]
           /\ attempts' = [attempts EXCEPT ![e] = Tried(@)]
           /\ engine' = [engine EXCEPT ![e] = "downloading"]
  BY <1>1, <1>2, <1>5, Taken
<1> QED
  BY <1>4, <1>5 DEF Admission

(* The fallback's call returned: done, or failed for good. *)
LEMMA FallbackResultPreserves ==
    ASSUME IInv, NEW s \in Terminal, FallbackResult(s) PROVE IInv'
<1> PICK e : e = Current
  OBVIOUS
<1> PICK c : c = [ctl EXCEPT !.at = "fallback", !.left = @ \ {e}]
  OBVIOUS
<1>1. Types /\ ctl \in Ctls /\ Good(ctl) /\ ctl.at = "download" /\ ctl.at \in Falling
  BY TypeSplit DEF IInv, FallbackResult, Falling
<1>2. /\ UNCHANGED <<retried, backoff, intents, worker, orphans, late, attempts, events>>
      /\ status' = SetStatus(e, s)
      /\ error' = IF s = "failed" /\ e \in Present THEN [error EXCEPT ![e] = "other"] ELSE error
      /\ engine' = [engine EXCEPT ![e] = IF s = "done" THEN "completed" ELSE "none"]
      /\ ctl' = c
  BY DEF FallbackResult
<1>3. ctl.left # {}
  BY <1>1 DEF Good, Shape
<1>4. /\ e = CurrentOf(ctl) /\ e \in Items /\ e \in ctl.left /\ e \notin backoff
      /\ status[e] \in Statuses \cup {"gone"}
  BY <1>1, <1>3, CurrentFacts
<1>5. /\ c \in Ctls /\ c.at = "fallback" /\ c.run = ctl.run
      /\ c.batch = ctl.batch /\ c.left = ctl.left \ {e} /\ c.native = ctl.native
      /\ c.hydrated = ctl.hydrated /\ c.runStopped = ctl.runStopped
      /\ c.processing = ctl.processing
  BY <1>1 DEF Ctls
<1>6. s \in {"done", "failed"}
  BY DEF Terminal
<1>7. /\ status'[e] \in {"done", "failed", "gone"}
      /\ \A i \in Items : i # e => status'[i] = status[i]
      /\ status' \in [Items -> Statuses \cup {"unused", "gone"}]
  BY <1>1, <1>2, <1>4, <1>6 DEF Types, Statuses, SetStatus, Present
<1>8. /\ engine'[e] # "downloading"
      /\ \A i \in Items : i # e => engine'[i] = engine[i]
      /\ engine' \in [Items -> {"none", "downloading", "completed"}]
  BY <1>1, <1>2, <1>4 DEF Types
<1>9. /\ error' \in [Items -> Errors]
      /\ \A i \in Items : error'[i] = "rate" => error[i] = "rate"
  BY <1>1, <1>2, <1>4 DEF Types, Errors
<1>10. Types' /\ Limited'
  BY <1>1, <1>2, <1>7, <1>8, <1>9 DEF Types, Good, Limited
<1>11. Moves(c, e) /\ Alone(e)
  BY <1>1, <1>2, <1>5, <1>7, <1>8 DEF Moves, Alone, Falling, Types
<1>12. ~Live(e)'
  BY <1>7 DEF Live
<1>13. Cared(c, e)
  BY <1>2, <1>4, <1>5, <1>7, <1>8, <1>12 DEF Cared
<1>14. Good(c)'
  BY <1>1, <1>3, <1>4, <1>5, <1>10, <1>11, <1>13, FallingGood
<1> QED
  BY <1>2, <1>5, <1>10, <1>14, GoodOfCtl, TypeJoinNext

(* It was rate limited: the timer takes over, or the retry has been spent. *)
LEMMA FallbackRateLimitedPreserves ==
    ASSUME IInv, FallbackRateLimited PROVE IInv'
<1> PICK e : e = Current
  OBVIOUS
<1>1. Types /\ ctl \in Ctls /\ Good(ctl) /\ ctl.at = "download" /\ ctl.at \in Falling
  BY TypeSplit DEF IInv, FallbackRateLimited, Falling
<1>2. /\ UNCHANGED <<intents, worker, orphans, late, attempts, events>>
      /\ status' = SetStatus(e, IF e \notin retried THEN "downloading" ELSE "failed")
      /\ error' = IF e \in Present THEN [error EXCEPT ![e] = "rate"] ELSE error
      /\ engine' = [engine EXCEPT ![e] = "none"]
      /\ retried' = retried \cup {e}
      /\ backoff' = IF e \notin retried THEN backoff \cup {e} ELSE backoff
      /\ ctl' = IF e \notin retried THEN [ctl EXCEPT !.at = "wait"]
                ELSE [ctl EXCEPT !.at = "fallback", !.left = @ \ {e}]
  BY DEF FallbackRateLimited
<1>3. ctl.left # {}
  BY <1>1 DEF Good, Shape
<1>4. /\ e = CurrentOf(ctl) /\ e \in Items /\ e \in ctl.left /\ e \notin backoff
      /\ status[e] \in Statuses \cup {"gone"}
  BY <1>1, <1>3, CurrentFacts
<1>5. /\ status'[e] \in {IF e \notin retried THEN "downloading" ELSE "failed", "gone"}
      /\ \A i \in Items : i # e => status'[i] = status[i]
      /\ status' \in [Items -> Statuses \cup {"unused", "gone"}]
  BY <1>1, <1>2, <1>4 DEF Types, Statuses, SetStatus, Present
<1>6. /\ engine'[e] = "none"
      /\ \A i \in Items : i # e => engine'[i] = engine[i]
      /\ engine' \in [Items -> {"none", "downloading", "completed"}]
  BY <1>1, <1>2, <1>4 DEF Types
<1>7. /\ error' \in [Items -> Errors]
      /\ \A i \in Items : error'[i] = "rate" => error[i] = "rate" \/ i = e
  BY <1>1, <1>2, <1>4 DEF Types, Errors
<1>8. /\ retried' \subseteq Items /\ backoff' \subseteq retried' /\ backoff' \subseteq Items
      /\ e \in retried' /\ (e \in backoff' <=> e \notin retried)
      /\ \A i \in Items : i # e => (i \in backoff' <=> i \in backoff)
                                   /\ (i \in retried' <=> i \in retried)
  BY <1>1, <1>2, <1>4 DEF Types
<1>9. Types' /\ Limited'
  BY <1>1, <1>2, <1>5, <1>6, <1>7, <1>8 DEF Types, Good, Limited
<1>10. CASE e \notin retried
  <2> PICK c : c = [ctl EXCEPT !.at = "wait"]
    OBVIOUS
  <2>1. /\ c \in Ctls /\ c.at = "wait" /\ c.run = ctl.run
        /\ c.batch = ctl.batch /\ c.left = ctl.left /\ c.native = ctl.native
        /\ c.hydrated = ctl.hydrated /\ c.runStopped = ctl.runStopped
        /\ c.processing = ctl.processing
    BY <1>1 DEF Ctls
  <2>2. Moves(c, e) /\ Alone(e)
    BY <1>2, <1>5, <1>6, <1>8, <2>1 DEF Moves, Alone, Falling
  <2>3. Cared(c, e)
    BY <1>5, <1>6, <1>8, <1>10, <2>1 DEF Cared
  <2>4. Good(c)'
    BY <1>1, <1>3, <1>4, <1>9, <2>1, <2>2, <2>3, FallingGood
  <2> QED
    BY <1>2, <1>9, <1>10, <2>1, <2>4, GoodOfCtl, TypeJoinNext
<1>11. CASE e \in retried
  <2> PICK c : c = [ctl EXCEPT !.at = "fallback", !.left = @ \ {e}]
    OBVIOUS
  <2>1. /\ c \in Ctls /\ c.at = "fallback" /\ c.run = ctl.run
        /\ c.batch = ctl.batch /\ c.left = ctl.left \ {e} /\ c.native = ctl.native
        /\ c.hydrated = ctl.hydrated /\ c.runStopped = ctl.runStopped
        /\ c.processing = ctl.processing
    BY <1>1 DEF Ctls
  <2>2. Moves(c, e) /\ Alone(e)
    BY <1>2, <1>5, <1>6, <1>8, <2>1 DEF Moves, Alone, Falling
  <2>3. status'[e] \in {"failed", "gone"} /\ ~Live(e)'
    BY <1>5, <1>11 DEF Live
  <2>4. Cared(c, e)
    BY <1>6, <1>8, <1>11, <2>1, <2>3 DEF Cared
  <2>5. Good(c)'
    BY <1>1, <1>3, <1>4, <1>9, <2>1, <2>2, <2>4, FallingGood
  <2> QED
    BY <1>2, <1>9, <1>11, <2>1, <2>5, GoodOfCtl, TypeJoinNext
<1> QED
  BY <1>10, <1>11

(* The timer fired, or the entry was removed and then it did. *)
LEMMA BackoffAwaitedPreserves ==
    ASSUME IInv, BackoffAwaited PROVE IInv'
<1> PICK e : e = Current
  OBVIOUS
<1>1. Types /\ ctl \in Ctls /\ Good(ctl) /\ ctl.at = "wait" /\ ctl.at \in Falling
  BY TypeSplit DEF IInv, BackoffAwaited, Falling
<1>2. /\ e \notin backoff
      /\ ctl' = [ctl EXCEPT !.at = "fallback", !.left = @ \ {e}]
      /\ UNCHANGED <<status, error, retried, backoff, engine, attempts, intents, worker,
                     orphans, late, events>>
  BY DEF BackoffAwaited, entries, outside
<1>3. ctl.left # {}
  BY <1>1 DEF Good, Shape
<1>4. e = CurrentOf(ctl)
  BY <1>1, <1>3, CurrentFacts
<1>5. engine[e] # "downloading" /\ ~Live(e)
  BY <1>1, <1>2, <1>4 DEF Good, Timers
<1> QED
  BY <1>1, <1>2, <1>3, <1>5, Dropped

(* With the last entry dropped the batch is over. *)
LEMMA FallbackDonePreserves ==
    ASSUME IInv, FallbackDone PROVE IInv'
<1> PICK c : c = ctl
  OBVIOUS
<1>1. Types /\ c \in Ctls /\ Good(ctl) /\ ctl.at = "fallback" /\ ctl.left = {}
  BY TypeSplit DEF IInv, FallbackDone
<1>2. UNCHANGED <<status, error, retried, backoff, intents, worker, engine, orphans, late,
                  attempts, events>>
  BY DEF FallbackDone, entries, outside
<1>3. Types'
  BY <1>1, <1>2 DEF Types
<1>4. ~worker.running /\ \A n \in DOMAIN intents : intents[n].kind # "start"
  BY <1>1 DEF Good, Working, Native, Starting
<1>5. \A i \in Items : Live(i)' <=> Live(i)
  BY <1>2 DEF Live
<1>6. \A i \in Items :
        Live(i)' \/ (status'[i] = "queued" /\ engine'[i] = "downloading" /\ ~c.runStopped)
          => i \in backoff' \/ late'[i] = "lost"
  BY <1>1, <1>2, <1>5 DEF Good, Covered
<1>7. \A i \in Items : engine'[i] = "downloading" => late'[i] # "no"
  BY <1>1, <1>2, <1>4 DEF Good, Engines
<1>8. \A i \in backoff' : status'[i] # "queued" /\ engine'[i] # "downloading"
  BY <1>1, <1>2 DEF Good, Timers
<1>9. Unknown(c)' /\ Unhydrated(c)' /\ Limited' /\ Outlived(c)'
  BY <1>1, <1>2 DEF Good, Unknown, Unhydrated, Limited, Outlived, Live
<1>10. /\ Sound(worker)' /\ worker'.run <= c.run /\ ~worker'.running
       /\ \A n \in DOMAIN intents' : intents'[n].kind # "start"
  BY <1>1, <1>2, <1>4 DEF Good, Working, Sound
<1>11. Good(Ended(c))'
  BY <1>1, <1>6, <1>7, <1>8, <1>9, <1>10, EndedGood
<1>12. c.runStopped \in BOOLEAN
  BY <1>1 DEF Ctls
<1>13. ctl' = Leave(c, status', ~c.runStopped)
  BY <1>2 DEF FallbackDone
<1> QED
  BY <1>1, <1>3, <1>11, <1>12, <1>13, LeaveGood, TypeJoinNext

-----------------------------------------------------------------------------
(* The invariant holds. *)

(* The first state. *)
LEMMA InitGood == Init => IInv
<1> SUFFICES ASSUME Init PROVE IInv
  OBVIOUS
<1>1. /\ ctl \in Ctls /\ ctl.processing = FALSE /\ ctl.runStopped = FALSE
      /\ ctl.hydrated = FALSE /\ ctl.at = "idle" /\ ctl.batch = {} /\ ctl.left = {}
      /\ ctl.run = 0
  <2>1. ctl \in [native : Platforms, processing : {FALSE}, runStopped : {FALSE},
                manual : {FALSE}, pending : {"none"}, linked : {FALSE},
                hydrated : {FALSE}, at : {"idle"}, batch : {{}}, left : {{}},
                run : {0}, read : {NoRun}]
    BY DEF Init
  <2>2. /\ ctl.processing = FALSE /\ ctl.runStopped = FALSE /\ ctl.manual = FALSE
        /\ ctl.pending = "none" /\ ctl.linked = FALSE /\ ctl.native \in BOOLEAN
        /\ ctl.hydrated = FALSE /\ ctl.at = "idle" /\ ctl.batch = {} /\ ctl.left = {}
        /\ ctl.run = 0 /\ ctl.read = NoRun
    BY <2>1, ConstantsAssumption
  <2>3. /\ ctl = [native |-> ctl.native, processing |-> FALSE, runStopped |-> FALSE,
                  manual |-> FALSE, pending |-> "none", linked |-> FALSE,
                  hydrated |-> FALSE, at |-> "idle", batch |-> {}, left |-> {},
                  run |-> 0, read |-> NoRun]
        /\ 0 \in 0..MaxRuns
    BY <2>1, <2>2, ConstantsAssumption
  <2>4. ctl \in Ctls
    BY <2>2, <2>3, NoRunIsSnapshot DEF Ctls
  <2> QED
    BY <2>2, <2>4
<1>2. Types
  BY NoRunIsSnapshot, ConstantsAssumption DEF Init, Types, Errors, Intents
<1>3. /\ worker = NoRun /\ worker.run = 0 /\ worker.running = FALSE /\ Sound(worker)
  BY NoRunIsSnapshot DEF Init, NoRun
<1>4. Shape(ctl) /\ Unknown(ctl) /\ Unhydrated(ctl) /\ Covered(ctl) /\ Building(ctl)
  BY <1>1 DEF Init, Shape, Early, Native, Unknown, Unhydrated, Live, Covered, Building, Unstarted
<1>5. Engines(ctl) /\ Working(ctl) /\ Reading(ctl)
  BY <1>1, <1>3 DEF Init, Engines, Working, Reading, Unstarted, Native
<1>6. Starting(ctl)
  <2>1. DOMAIN intents = {}
    BY DEF Init
  <2> QED
    BY <2>1 DEF Starting
<1>7. Timers(ctl) /\ Limited /\ Outlived(ctl)
  BY <1>1 DEF Init, Timers, Early, Falling, Limited, Outlived
<1> QED
  BY <1>1, <1>2, <1>4, <1>5, <1>6, <1>7, TypeJoin DEF Good

(* Steps of other components. *)
LEMMA StutterGood ==
    ASSUME IInv, UNCHANGED vars PROVE IInv'
<1> PICK c : c = ctl
  OBVIOUS
<1>1. Types /\ ctl \in Ctls /\ Good(ctl) /\ Agree(c, ctl)
  BY TypeSplit DEF IInv, Agree
<1>2. UNCHANGED <<status, error, retried, backoff, ctl, intents, worker, engine, orphans, late,
                  attempts, events>>
  BY DEF vars
<1>3. Types'
  BY <1>1, <1>2 DEF Types
<1>4. Starting(c)'
  BY <1>1, <1>2, StartsUnchanged DEF Good
<1>5. Good(c)'
  BY <1>1, <1>2, <1>4, PausingGood
<1> QED
  BY <1>1, <1>2, <1>3, <1>5, GoodOfCtl, TypeJoinNext

(* Every step, one case per group of actions. *)
LEMMA NextPreserves ==
    ASSUME IInv, Next PROVE IInv'
<1>1. CASE User
  BY <1>1, EnqueuePreserves, RemovePreserves, RetryPreserves, ClearCompletedPreserves,
     PausePreserves, ResumePreserves, AppResumedPreserves, NotificationTogglePreserves DEF User
<1>2. CASE Merge
  BY <1>2, MergePreserves
<1>3. CASE Hydrate \/ Build \/ BuildFallback \/ StartReturns \/ StartThrows
           \/ PollRead \/ PollMerge \/ Stall
  BY <1>3, HydratePreserves, BuildPreserves, BuildFallbackPreserves, StartReturnsPreserves,
     StartThrowsPreserves, PollReadPreserves, PollMergePreserves, StallPreserves
<1>4. CASE \/ FallbackNext \/ FallbackDone \/ Admission
           \/ \E s \in Terminal : FallbackResult(s)
           \/ FallbackRateLimited \/ BackoffAwaited
  BY <1>4, FallbackNextPreserves, FallbackDonePreserves, AdmissionPreserves,
     FallbackResultPreserves, FallbackRateLimitedPreserves, BackoffAwaitedPreserves
<1>5. CASE Worker
  BY <1>5, WorkerStartsPreserves, WorkerPausesPreserves, WorkerEndsPreserves,
     WorkerBeginsPreserves, WorkerFinalizesPreserves, WorkerDonePreserves,
     WorkerFailsPreserves, OrphanEndsPreserves DEF Worker
<1>6. CASE WorkerStops
  BY <1>6, WorkerStopsPreserves
<1>7. CASE \E i \in Items : BackoffFires(i)
  BY <1>7, BackoffFiresPreserves
<1> QED
  BY <1>1, <1>2, <1>3, <1>4, <1>5, <1>6, <1>7 DEF Next, Batch

(* The inductive invariant holds of every behaviour, for any set of items, *)
(* any choice of refused requests and failing starts, and any bounds.      *)
THEOREM Invariance == Spec => []IInv
<1>1. Init => IInv
  BY InitGood
<1>2. IInv /\ [Next]_vars => IInv'
  BY NextPreserves, StutterGood
<1> QED
  BY <1>1, <1>2, PTL DEF Spec

(* What Covered says when no batch runs. *)
LEMMA StrandedNever == IInv => QueueInv
<1> SUFFICES ASSUME IInv PROVE QueueInv
  OBVIOUS
<1>1. Types /\ ctl \in Ctls /\ Good(ctl)
  BY TypeSplit DEF IInv
<1>2. ASSUME ~ctl.processing, NEW i \in Present
      PROVE  status[i] \in Terminal \cup {"queued"} \/ i \in backoff \/ late[i] = "lost"
  <2>1. ctl.left = {}
    BY <1>1, <1>2 DEF Good, Shape
  <2>2. i \in Items /\ status[i] \in Statuses
    BY DEF Present
  <2>3. Live(i) => i \in backoff \/ late[i] = "lost"
    BY <1>1, <2>1, <2>2 DEF Good, Covered
  <2> QED
    BY <2>2, <2>3 DEF Live, Statuses, Terminal
<1> QED
  BY <1>2 DEF IInv, QueueInv, NothingStranded

(* No entry is stranded: while no batch runs, an entry that is neither done *)
(* nor failed is queued or waits for its rate-limit timer, but for those    *)
(* whose call outlived a stopped run and whose next start then failed.      *)
THEOREM NothingIsStranded == Spec => []QueueInv
  BY Invariance, StrandedNever, PTL

-----------------------------------------------------------------------------
(* Done stays done. *)

(* One case per action that writes a status. *)
LEMMA DoneKept ==
    ASSUME Types, Next, NEW i \in Items \ backoff, status[i] = "done",
           ~(ctl.at \in {"admission", "download"} /\ i = Current)
    PROVE  status'[i] \in {"done", "gone"}
<1>0. i \in Items /\ i \notin backoff /\ status[i] = "done"
      /\ status \in [Items -> Statuses \cup {"unused", "gone"}]
  BY DEF Types
<1>1. CASE User
  <2>1. ASSUME NEW j \in Items, Enqueue(j) PROVE status'[i] = "done"
    BY <1>0, <2>1 DEF Enqueue
  <2>2. ASSUME NEW j \in Items, Remove(j) PROVE status'[i] \in {"done", "gone"}
    BY <1>0, <2>2 DEF Remove
  <2>3. ASSUME NEW j \in Items, NEW new \in Items, Retry(j, new)
        PROVE  status'[i] \in {"done", "gone"}
    BY <1>0, <2>3 DEF Retry
  <2>4. CASE ClearCompleted
    BY <1>0, <2>4 DEF ClearCompleted
  <2>5. CASE Pause \/ Resume \/ AppResumed \/ NotificationToggle
    BY <1>0, <2>5 DEF Pause, Resume, AppResumed, NotificationToggle, entries
  <2> QED
    BY <1>1, <2>1, <2>2, <2>3, <2>4, <2>5 DEF User
<1>2. CASE Merge
  <2>1. MergeEntry(i) = "done"
    BY <1>0 DEF MergeEntry, Statuses, Terminal
  <2> QED
    BY <1>0, <1>2, <2>1 DEF Merge
<1>3. CASE PollMerge
  <2>1. Applied(i) = "done"
    BY <1>0 DEF Applied, Terminal
  <2>2. i \notin RateLimited
    BY <2>1 DEF RateLimited
  <2>3. status' = [j \in Items |-> IF j \in RateLimited THEN "downloading" ELSE Applied(j)]
    BY <1>3 DEF PollMerge
  <2> QED
    BY <1>0, <2>1, <2>2, <2>3
<1>4. CASE FallbackNext
  <2> PICK e : e = Current
    OBVIOUS
  <2>1. \/ status' = status
        \/ e # i /\ status' = [status EXCEPT ![e] = "queued"]
        \/ e # i /\ status' = [status EXCEPT ![e] = "downloading"]
    BY <1>0, <1>4 DEF FallbackNext, Statuses, Terminal
  <2> QED
    BY <1>0, <2>1
<1>5. CASE Admission \/ FallbackRateLimited \/ \E s \in Terminal : FallbackResult(s)
  <2> PICK e : e = Current
    OBVIOUS
  <2>1. ctl.at \in {"admission", "download"}
    BY <1>5 DEF Admission, FallbackRateLimited, FallbackResult
  <2>2. i # e
    BY <2>1
  <2>3. status' = status \/ \E s : status' = [status EXCEPT ![e] = s]
    BY <1>5 DEF Admission, FallbackRateLimited, FallbackResult, SetStatus
  <2> QED
    BY <1>0, <2>2, <2>3
<1>6. CASE \E j \in Items : BackoffFires(j)
  BY <1>0, <1>6 DEF BackoffFires
<1>7. CASE Hydrate \/ Build \/ BuildFallback \/ StartReturns \/ StartThrows
           \/ PollRead \/ Stall \/ FallbackDone \/ BackoffAwaited
  BY <1>0, <1>7 DEF Hydrate, Build, BuildFallback, StartReturns, StartThrows, PollRead, Stall,
     FallbackDone, BackoffAwaited, entries
<1>8. CASE Worker \/ WorkerStops
  BY <1>0, <1>8 DEF Worker, WorkerStops, WorkerStarts, WorkerPauses, WorkerEnds, WorkerBegins,
     WorkerFinalizes, WorkerDone, WorkerFails, OrphanEnds, entries
<1> QED
  BY <1>1, <1>2, <1>3, <1>4, <1>5, <1>6, <1>7, <1>8 DEF Next, Batch

(* A finished download stays finished: neither late progress nor a snapshot *)
(* nor another entry's step takes an entry out of done.                     *)
THEOREM DoneStaysDone == Spec => DoneSticks
<1>1. IInv /\ [Next]_vars =>
        [\A i \in Items \ backoff :
            status[i] = "done" /\ ~(ctl.at \in {"admission", "download"} /\ i = Current)
                => status'[i] \in {"done", "gone"}]_vars
  BY DoneKept, TypeSplit DEF IInv
<1> QED
  BY <1>1, Invariance, PTL DEF Spec, DoneSticks

-----------------------------------------------------------------------------
(* More that follows from the invariant. *)

\* A worker at work is polled: it works for the batch that runs, and for
\* entries that batch sent it.
WorkerWatched ==
    worker.running =>
        /\ ctl.processing /\ worker.run = ctl.run
        /\ \A i \in Items : worker.items[i] # "absent" => i \in ctl.batch \ Rejected

(* The worker never works for a batch that nobody polls, however starts are *)
(* dropped, delayed or fail: its results reach the entries they belong to.  *)
THEOREM WorkerIsWatched == Spec => []WorkerWatched
<1>1. IInv => WorkerWatched
  BY DEF IInv, Good, Shape, Working, Native, WorkerWatched
<1> QED
  BY <1>1, Invariance, PTL

\* An entry gets its timer once.
OneTimer ==
    [][/\ retried \subseteq retried'
       /\ \A i \in backoff' \ backoff : i \in retried' \ retried]_vars

(* A step starts timers for entries that had none before, and marks them.  *)
LEMMA TimersMarked ==
    ASSUME Next
    PROVE  /\ retried \subseteq retried'
           /\ \A i \in backoff' \ backoff : i \in retried' \ retried
<1>1. CASE PollMerge
  <2>1. retried' = retried \cup RateLimited /\ backoff' = backoff \cup RateLimited
    BY <1>1 DEF PollMerge
  <2> QED
    BY <2>1 DEF RateLimited
<1>2. CASE FallbackRateLimited
  <2> PICK e : e = Current
    OBVIOUS
  <2>1. /\ retried' = retried \cup {e}
        /\ backoff' = IF e \notin retried THEN backoff \cup {e} ELSE backoff
    BY <1>2 DEF FallbackRateLimited
  <2> QED
    BY <2>1
<1>3. CASE \E i \in Items : BackoffFires(i)
  BY <1>3 DEF BackoffFires
<1>4. CASE UNCHANGED <<retried, backoff>>
  BY <1>4
<1>5. CASE User \/ Merge
  BY <1>4, <1>5 DEF User, Merge, Enqueue, Remove, Retry, ClearCompleted, Pause, Resume,
     AppResumed, NotificationToggle, entries
<1>6. CASE Hydrate \/ Build \/ BuildFallback \/ StartReturns \/ StartThrows
           \/ PollRead \/ Stall \/ FallbackNext \/ FallbackDone \/ Admission
           \/ (\E s \in Terminal : FallbackResult(s)) \/ BackoffAwaited
  BY <1>4, <1>6 DEF Hydrate, Build, BuildFallback, StartReturns, StartThrows, PollRead, Stall,
     FallbackNext, FallbackDone, Admission, FallbackResult, BackoffAwaited, entries
<1>7. CASE Worker \/ WorkerStops
  BY <1>4, <1>7 DEF Worker, WorkerStops, WorkerStarts, WorkerPauses, WorkerEnds, WorkerBegins,
     WorkerFinalizes, WorkerDone, WorkerFails, OrphanEnds, entries
<1> QED
  BY <1>1, <1>2, <1>3, <1>5, <1>6, <1>7 DEF Next, Batch

(* A rate-limited entry gets its delayed retry at most once, through the   *)
(* worker and the fallback together (_rateLimitRetriedItemIds).            *)
THEOREM RetriedOnce == Spec => OneTimer
<1>1. [Next]_vars => [/\ retried \subseteq retried'
                      /\ \A i \in backoff' \ backoff : i \in retried' \ retried]_vars
  BY TimersMarked
<1> QED
  BY <1>1, PTL DEF Spec, OneTimer
=============================================================================
