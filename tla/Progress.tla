------------------------------ MODULE Progress ------------------------------
(***************************************************************************)
(* The download-progress registry of the Rust engine (core/src/progress.rs *)
(* and progress/subscription.rs), with the clients that follow it by       *)
(* deltas (desktop/src/events.rs).                                         *)
(*                                                                         *)
(* Every visible change of an item takes a new sequence number; a removal  *)
(* leaves a tombstone.  A client asks for what changed since its cursor    *)
(* and keeps a replica.  Tombstones are pruned when there are too many; a  *)
(* client that missed a pruned one must be sent everything again.  Each    *)
(* operation runs under one mutex and is one action.                       *)
(***************************************************************************)
EXTENDS Integers, FiniteSets

CONSTANTS
    Ids,            \* item ids
    Clients,        \* independent delta readers
    TombstoneLimit, \* 512 in the code: more tombstones than this are pruned
    UpdateBytes,    \* UPDATE_BYTES, the width of a byte bucket
    Full,           \* the value of progress that stands for 1.0
    Reports,        \* arguments [progress, received, total] of set_progress
    Receipts,       \* arguments [received, speed] of set_received(_with_speed)
    MaxSeq          \* bound: sequence numbers

ASSUME IdsFinite == IsFiniteSet(Ids)
ASSUME LimitAssumption == TombstoneLimit \in Nat /\ MaxSeq \in Nat
ASSUME UnitAssumption == UpdateBytes \in Nat \ {0} /\ Full \in Nat \ {0}

(* A progress that is not a number.  It rounds to 0 and is below 1.0. *)
NaN == -1

(* Byte counts are not negative, and a speed is counted in the tenths that *)
(* bridge() keeps of it.                                                   *)
ASSUME InputAssumption ==
    /\ Reports \subseteq [progress : Int, received : Nat, total : Nat]
    /\ Receipts \subseteq [received : Nat, speed : Nat]

VARIABLES
    live,      \* the keys of State.items
    item,      \* id -> ItemProgress (Blank when not live)
    revision,  \* id -> ItemProgress.revision (0 when not live)
    tombstone, \* State.removed: id -> revision of its removal (0 for none)
    seq,       \* State.seq
    reset,     \* State.reset: cursors below it missed a pruned tombstone
    dirty,     \* State.dirty: the cached snapshot is out of date
    cached,    \* State.cached: the picture last serialised
    closed,    \* State.closed
    cursor,    \* client -> the sequence it has read up to
    replica    \* client -> the picture it has put together from deltas

vars == <<live, item, revision, tombstone, seq, reset, dirty, cached, closed,
          cursor, replica>>
clients == <<cursor, replica>>

Statuses == {"preparing", "downloading", "finalizing", "completed"}
Items == [status : Statuses, stage : BOOLEAN, downloading : BOOLEAN,
          received : Int, total : Int, progress : Int, speed : Int]
Blank == [status |-> "preparing", stage |-> FALSE, downloading |-> FALSE,
          received |-> 0, total |-> 0, progress |-> 0, speed |-> 0]

-----------------------------------------------------------------------------
(* bridge(): what a consumer can tell apart.  Bytes are cut to buckets and *)
(* the progress is clamped and rounded.                                    *)
Clamp(p) == IF p <= 0 THEN 0 ELSE IF p > Full THEN Full ELSE p
Percent(p) == (2 * Clamp(p) + UpdateBytes) \div (2 * UpdateBytes)
Bridge(x) == [bucket |-> x.received \div UpdateBytes, total |-> x.total,
              percent |-> Percent(x.progress), speed |-> x.speed,
              downloading |-> x.downloading, status |-> x.status,
              stage |-> x.stage]
Finite(x) == x.progress # NaN

(* The picture of the registry at bridge resolution: a set of pairs. *)
Shown(i) == <<i, Bridge(item[i])>>
Picture == {Shown(i) : i \in live}

-----------------------------------------------------------------------------
(* The updates of one item, as functions of the item. *)
Marked(x, status, stage, downloading) ==
    [x EXCEPT !.status = status, !.stage = stage, !.downloading = downloading]

MarkDownloading(x) == Marked(x, "downloading", FALSE, TRUE)

(* preparing sets every field, so nothing of the old item survives. *)
AsPreparing(stage) == Marked(Blank, "preparing", stage, TRUE)

(* The progress is received / total, in units of 1 / Full. *)
AsReceived(x, received) ==
    LET y == [x EXCEPT !.received = received,
                       !.progress = IF x.total > 0
                                    THEN (received * Full) \div x.total ELSE @]
    IN  IF received > 0 THEN MarkDownloading(y) ELSE y

AsReport(x, r) ==
    LET hasBytes == r.received > 0 \/ r.total > 0
        done == r.progress >= Full
        y == [x EXCEPT
               !.progress = IF x.status # "preparing" \/ hasBytes \/ done
                            THEN r.progress ELSE 0,
               !.received = IF r.received > 0 THEN r.received ELSE @,
               !.total = IF r.total > 0 THEN r.total ELSE @]
    IN  IF hasBytes \/ done \/ y.status = "downloading"
        THEN MarkDownloading(y) ELSE y

AsFinalizing(x) ==
    [Marked(x, "finalizing", FALSE, x.downloading) EXCEPT !.progress = Full]

AsCompleted(x) ==
    [Marked(x, "completed", FALSE, FALSE) EXCEPT !.progress = Full]

-----------------------------------------------------------------------------
TypeOK ==
    /\ live \in SUBSET Ids
    /\ item \in [Ids -> Items]
    /\ revision \in [Ids -> 0..MaxSeq]
    /\ tombstone \in [Ids -> 0..MaxSeq]
    /\ seq \in 0..MaxSeq
    /\ reset \in 0..MaxSeq
    /\ dirty \in BOOLEAN
    /\ closed \in BOOLEAN
    /\ cursor \in [Clients -> 0..MaxSeq]

Init ==
    /\ live = {}
    /\ item = [i \in Ids |-> Blank]
    /\ revision = [i \in Ids |-> 0]
    /\ tombstone = [i \in Ids |-> 0]
    /\ seq = 0
    /\ reset = 0
    /\ dirty = TRUE
    /\ cached = {}
    /\ closed = FALSE
    /\ cursor = [c \in Clients |-> 0]
    /\ replica = [c \in Clients |-> {}]

(* Faulty variants of the operations below, each the slip a change to this *)
(* code could make; the runs show that the properties notice them.         *)
AdvanceQuiet == \* the cached snapshot is not marked stale
    /\ seq < MaxSeq
    /\ seq' = seq + 1
    /\ UNCHANGED dirty

StartOnTombstone(i) == \* the tombstone of a restarted id is kept
    /\ ~closed
    /\ seq < MaxSeq
    /\ seq' = seq + 1
    /\ dirty' = TRUE
    /\ live' = live \cup {i}
    /\ item' = [item EXCEPT ![i] = Blank]
    /\ revision' = [revision EXCEPT ![i] = seq']
    /\ UNCHANGED <<tombstone, reset, cached, closed, clients>>

StartOverAtZero(since) == since <= 0 \* the reset mark is ignored

ReconnectBefore(c) == \* the sequence restarts below its first value
    /\ cursor[c] > 0
    /\ cursor' = [cursor EXCEPT ![c] = -1]
    /\ UNCHANGED <<live, item, revision, tombstone, seq, reset, dirty, cached,
                   closed, replica>>

-----------------------------------------------------------------------------
(* advance(): the next sequence number; the cached snapshot is stale. *)
Advance ==
    /\ seq < MaxSeq
    /\ seq' = seq + 1
    /\ dirty' = TRUE

Tombstones == {i \in Ids : tombstone[i] > 0}

-----------------------------------------------------------------------------
(* start: a fresh item replaces whatever the id had, its tombstone too. *)
Start(i) ==
    /\ ~closed
    /\ Advance
    /\ live' = live \cup {i}
    /\ item' = [item EXCEPT ![i] = Blank]
    /\ revision' = [revision EXCEPT ![i] = seq']
    /\ tombstone' = [tombstone EXCEPT ![i] = 0]
    /\ UNCHANGED <<reset, cached, closed, clients>>

(* update: only a change a consumer can see takes a sequence number and    *)
(* makes the snapshot stale; an unknown id is ignored.                     *)
Update(i, new) ==
    /\ ~closed
    /\ i \in live
    /\ item' = [item EXCEPT ![i] = new]
    /\ IF Bridge(new) # Bridge(item[i])
       THEN /\ Advance
            /\ revision' = [revision EXCEPT ![i] = seq']
       ELSE UNCHANGED <<seq, dirty, revision>>
    /\ UNCHANGED <<live, tombstone, reset, cached, closed, clients>>

Preparing(i) == \E stage \in BOOLEAN : Update(i, AsPreparing(stage))
Downloading(i) == Update(i, MarkDownloading(item[i]))
SetReceived(i) == \E r \in Receipts : Update(i, AsReceived(item[i], r.received))
SetReceivedWithSpeed(i) ==
    \E r \in Receipts :
        Update(i, AsReceived([item[i] EXCEPT !.speed = r.speed], r.received))
SetProgress(i) == \E r \in Reports : Update(i, AsReport(item[i], r))
Finalizing(i) == Update(i, AsFinalizing(item[i]))
Complete(i) == Update(i, AsCompleted(item[i]))

(* remove: a live item leaves a tombstone.  When there are more than the   *)
(* limit, the older half goes, and cursors older than the cutoff must      *)
(* start over.  The removal of an unknown id only dirties the cache.       *)
(* remove_many is a sequence of these under one lock.                      *)
Median(S, r) == Cardinality({x \in S : x < r}) = Cardinality(S) \div 2

Pruned(stones, cutoff) ==
    [i \in Ids |-> IF stones[i] > cutoff THEN stones[i] ELSE 0]

RemoveLive(i) ==
    LET stones == [tombstone EXCEPT ![i] = seq + 1]
        buried == {j \in Ids : stones[j] > 0}
    IN
    /\ i \in live
    /\ Advance
    /\ live' = live \ {i}
    /\ item' = [item EXCEPT ![i] = Blank]
    /\ revision' = [revision EXCEPT ![i] = 0]
    /\ IF Cardinality(buried) > TombstoneLimit
       THEN \E cutoff \in {stones[j] : j \in buried} :
              /\ Median({stones[j] : j \in buried}, cutoff)
              /\ tombstone' = Pruned(stones, cutoff)
              /\ reset' = IF cutoff > reset THEN cutoff ELSE reset
       ELSE /\ tombstone' = stones
            /\ UNCHANGED reset

RemoveUnknown(i) ==
    /\ i \notin live
    /\ dirty' = TRUE
    /\ UNCHANGED <<live, item, revision, tombstone, seq, reset>>

Remove(i) ==
    /\ ~closed
    /\ RemoveLive(i) \/ RemoveUnknown(i)
    /\ UNCHANGED <<cached, closed, clients>>

(* snapshot: serialised when stale; an item that is not finite gives the   *)
(* empty answer and leaves the cache as it was.                            *)
Snapshot ==
    /\ ~closed
    /\ dirty
    /\ \A i \in live : Finite(item[i])
    /\ cached' = Picture
    /\ dirty' = FALSE
    /\ UNCHANGED <<live, item, revision, tombstone, seq, reset, closed, clients>>

Shutdown ==
    /\ closed' = TRUE
    /\ live' = {}
    /\ item' = [i \in Ids |-> Blank]
    /\ revision' = [i \in Ids |-> 0]
    /\ tombstone' = [i \in Ids |-> 0]
    /\ cached' = {}
    /\ UNCHANGED <<seq, reset, dirty, clients>>

-----------------------------------------------------------------------------
(* delta(since): everything when the cursor is not usable, otherwise the   *)
(* items and tombstones newer than it.  Empty, so no answer, when an item  *)
(* it would carry is not finite.                                           *)
StartOver(since) == since <= 0 \/ since < reset
DeltaItems(since) == {i \in live : StartOver(since) \/ revision[i] > since}
DeltaRemoved(since) == {i \in Tombstones : ~StartOver(since) /\ tombstone[i] > since}

(* wait_delta returns and the client applies the answer. *)
ApplyDelta(c) ==
    LET since == cursor[c]
        new == DeltaItems(since)
        kept == {p \in replica[c] : /\ ~StartOver(since)
                                    /\ p[1] \notin new \cup DeltaRemoved(since)}
    IN
    /\ ~closed
    /\ since < seq
    /\ \A i \in new : Finite(item[i])
    /\ replica' = [replica EXCEPT ![c] = kept \cup {Shown(i) : i \in new}]
    /\ cursor' = [cursor EXCEPT ![c] = seq]
    /\ UNCHANGED <<live, item, revision, tombstone, seq, reset, dirty, cached, closed>>

(* A client whose subscription failed or was reopened reads from 0 again,  *)
(* its consumer still showing the old replica.                             *)
Reconnect(c) ==
    /\ cursor[c] > 0
    /\ cursor' = [cursor EXCEPT ![c] = 0]
    /\ UNCHANGED <<live, item, revision, tombstone, seq, reset, dirty, cached,
                   closed, replica>>

-----------------------------------------------------------------------------
Next ==
    \/ \E i \in Ids : Start(i)
    \/ \E i \in Ids : Preparing(i)
    \/ \E i \in Ids : Downloading(i)
    \/ \E i \in Ids : SetReceived(i)
    \/ \E i \in Ids : SetReceivedWithSpeed(i)
    \/ \E i \in Ids : SetProgress(i)
    \/ \E i \in Ids : Finalizing(i)
    \/ \E i \in Ids : Complete(i)
    \/ \E i \in Ids : Remove(i)
    \/ Snapshot
    \/ Shutdown
    \/ \E c \in Clients : ApplyDelta(c)
    \/ \E c \in Clients : Reconnect(c)

Spec == Init /\ [][Next]_vars

-----------------------------------------------------------------------------
(* A client that has read up to the current sequence shows exactly the     *)
(* registry, at bridge resolution, whatever it missed before: silent       *)
(* updates, removals, restarts of a removed id, pruned tombstones and      *)
(* reconnections.                                                          *)
ReplicaExact ==
    ~closed => \A c \in Clients : cursor[c] = seq => replica[c] = Picture

(* The cached snapshot is the registry's picture unless it is marked       *)
(* stale, although silent updates change items without marking it.         *)
SnapshotFresh == ~closed /\ ~dirty => cached = Picture

(* No delta names an id both as an item and as removed, so the order in    *)
(* which a consumer applies the two lists does not matter.                 *)
DeltaConsistent == live \cap Tombstones = {}

(* The tombstones stay within their limit for ever. *)
TombstonesBounded == Cardinality(Tombstones) <= TombstoneLimit
=============================================================================
