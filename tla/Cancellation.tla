---------------------------- MODULE Cancellation ----------------------------
(***************************************************************************)
(* The request-cancellation registry of the Rust engine                    *)
(* (core/src/cancellation.rs).  A registry maps a request id to an entry:  *)
(* a shared flag and the number of leases that reference it.  Every public *)
(* operation runs under one mutex and is one action here; the condvar      *)
(* notification happens after the mutex is dropped and is a step of its    *)
(* own, so a waiter can act in between.                                    *)
(*                                                                         *)
(* The shared flag (Arc<AtomicBool>) has an identity: an entry that is     *)
(* removed and created again has a new flag.  generation[id] counts the    *)
(* flags created for id, and the flag of the current entry of id is        *)
(* <<id, generation[id]>>.                                                 *)
(*                                                                         *)
(* Some names carry a prefix (CancelInit, CancelShutdown) so that this     *)
(* module and Progress can be extended together by the one that proves     *)
(* things about both.                                                      *)
(***************************************************************************)
EXTENDS Integers, FiniteSets

CONSTANTS
    Requests,      \* the non-empty request ids
    NoId,          \* the empty id: its leases are untracked
    Leases,        \* the lease handles callers may obtain, each used once
    MaxGeneration, \* bound: flags created per id
    MaxNotifiers   \* bound: threads between the unlock and the notify

ASSUME LeasesFinite == IsFiniteSet(Leases)
ASSUME NoIdAssumption == NoId \notin Requests
ASSUME BoundsAssumption == MaxGeneration \in Nat /\ MaxNotifiers \in Nat \ {0}

VARIABLES
    shut,        \* State.closed
    entries,     \* the ids that have an entry (the keys of State.entries)
    generation,  \* id -> flags created so far for it
    references,  \* id -> Entry.references (0 when there is no entry)
    cancelled,   \* the flags <<id, generation>> that are set
    status,      \* lease -> "unused", "held" or "released"
    request,     \* lease -> its id
    flag,        \* lease -> generation of the flag it shares
    wait,        \* lease -> where its wait_cancelled call stands
    expired,     \* the leases whose wait deadline has passed
    notifying    \* threads that dropped the mutex and have not notified yet

cancelVars == <<shut, entries, generation, references, cancelled, status,
                request, flag, wait, expired, notifying>>
registry == <<shut, entries, generation, references, cancelled>>
leases == <<status, request, flag>>
waits == <<wait, expired>>

Returned == {"cancelled", "heartbeat", "closed", "released"}
WaitStates == {"idle", "running", "parked"} \cup Returned

CancelTypeOK ==
    /\ shut \in BOOLEAN
    /\ entries \in SUBSET Requests
    /\ generation \in [Requests -> 0..MaxGeneration]
    /\ references \in [Requests -> Nat]
    /\ cancelled \in SUBSET (Requests \X (0..MaxGeneration))
    /\ status \in [Leases -> {"unused", "held", "released"}]
    /\ request \in [Leases -> Requests \cup {NoId}]
    /\ flag \in [Leases -> 0..MaxGeneration]
    /\ wait \in [Leases -> WaitStates]
    /\ expired \in SUBSET Leases
    /\ notifying \in 0..MaxNotifiers

CancelInit ==
    /\ shut = FALSE
    /\ entries = {}
    /\ generation = [i \in Requests |-> 0]
    /\ references = [i \in Requests |-> 0]
    /\ cancelled = {}
    /\ status = [l \in Leases |-> "unused"]
    /\ request = [l \in Leases |-> NoId]
    /\ flag = [l \in Leases |-> 0]
    /\ wait = [l \in Leases |-> "idle"]
    /\ expired = {}
    /\ notifying = 0

-----------------------------------------------------------------------------
(* state.entries.entry(id).or_default() for every id of S: an id without   *)
(* an entry gets one with a new flag; the others keep theirs.              *)
OrDefault(S) ==
    /\ \A i \in S \ entries : generation[i] < MaxGeneration
    /\ entries' = entries \cup S
    /\ generation' = [i \in Requests |-> IF i \in S \ entries THEN generation[i] + 1
                                                         ELSE generation[i]]

(* The mutex is dropped and changed.notify_all() is still to come. *)
OweNotify ==
    /\ notifying < MaxNotifiers
    /\ notifying' = notifying + 1

(* What the registry answers for an id, and what a lease answers. *)
RegistryCancelled(i) == i \in entries /\ <<i, generation[i]>> \in cancelled
LeaseCancelled(l) == <<request[l], flag[l]>> \in cancelled
Holders(i) == {l \in Leases : status[l] = "held" /\ request[l] = i}

-----------------------------------------------------------------------------
(* Faulty variants of the operations below, each the slip a change to this *)
(* code could make; the runs show that the properties notice them.         *)
AcquireTrackedNewFlag(l, i) == \* acquire replaces the entry's flag
    /\ ~shut
    /\ status[l] = "unused"
    /\ generation[i] < MaxGeneration
    /\ entries' = entries \cup {i}
    /\ generation' = [generation EXCEPT ![i] = @ + 1]
    /\ references' = [references EXCEPT ![i] = @ + 1]
    /\ status' = [status EXCEPT ![l] = "held"]
    /\ request' = [request EXCEPT ![l] = i]
    /\ flag' = [flag EXCEPT ![l] = generation'[i]]
    /\ UNCHANGED <<shut, cancelled, waits, notifying>>

ResetManyAlways(S) == \* the references = 0 test of reset is dropped
    /\ ~shut
    /\ entries' = entries \ S
    /\ UNCHANGED <<shut, generation, references, cancelled, leases, waits,
                   notifying>>

ReleaseDropsEntry(l) == \* release removes the entry whoever else holds it
    /\ status[l] = "held"
    /\ status' = [status EXCEPT ![l] = "released"]
    /\ entries' = entries \ {request[l]}
    /\ references' = IF request[l] \in entries
                     THEN [references EXCEPT ![request[l]] = 0]
                     ELSE references
    /\ OweNotify
    /\ UNCHANGED <<shut, generation, cancelled, request, flag, waits>>

CancelManySilent(S) == \* the notify is forgotten
    /\ ~shut
    /\ OrDefault(S)
    /\ cancelled' = cancelled \cup {<<i, generation'[i]>> : i \in S}
    /\ UNCHANGED <<shut, references, leases, waits, notifying>>

ReleaseTwice(l) == \* the swap of the released flag is dropped
    /\ status[l] # "unused"
    /\ status' = [status EXCEPT ![l] = "released"]
    /\ IF request[l] \in entries
       THEN /\ references' = [references EXCEPT ![request[l]] = @ - 1]
            /\ entries' = IF references'[request[l]] = 0
                          THEN entries \ {request[l]} ELSE entries
       ELSE UNCHANGED <<entries, references>>
    /\ OweNotify
    /\ UNCHANGED <<shut, generation, cancelled, request, flag, waits>>

-----------------------------------------------------------------------------
(* acquire: an untracked lease has a private flag nobody can set. *)
AcquireTracked(l, i) ==
    /\ ~shut
    /\ status[l] = "unused"
    /\ OrDefault({i})
    /\ references' = [references EXCEPT ![i] = @ + 1]
    /\ status' = [status EXCEPT ![l] = "held"]
    /\ request' = [request EXCEPT ![l] = i]
    /\ flag' = [flag EXCEPT ![l] = generation'[i]]
    /\ UNCHANGED <<shut, cancelled, waits, notifying>>

AcquireUntracked(l) ==
    /\ ~shut
    /\ status[l] = "unused"
    /\ status' = [status EXCEPT ![l] = "held"]
    /\ request' = [request EXCEPT ![l] = NoId]
    /\ UNCHANGED <<registry, flag, waits, notifying>>

(* cancel_many: an id nobody holds gets a sentinel, an entry without       *)
(* references, that a later acquire picks up.  Empty ids are filtered.     *)
CancelMany(S) ==
    /\ ~shut
    /\ OrDefault(S)
    /\ cancelled' = cancelled \cup {<<i, generation'[i]>> : i \in S}
    /\ OweNotify
    /\ UNCHANGED <<shut, references, leases, waits>>

(* cancel_active: sentinels are left alone; the notify is unconditional. *)
CancelActive ==
    /\ ~shut
    /\ cancelled' = cancelled \cup
         {<<i, generation[i]>> : i \in {j \in entries : references[j] > 0}}
    /\ OweNotify
    /\ UNCHANGED <<shut, entries, generation, references, leases, waits>>

(* reset_many_if_idle: only sentinels go. *)
ResetManyIfIdle(S) ==
    /\ ~shut
    /\ entries' = {i \in entries : ~(i \in S /\ references[i] = 0)}
    /\ UNCHANGED <<shut, generation, references, cancelled, leases, waits,
                   notifying>>

CancelShutdown ==
    /\ shut' = TRUE
    /\ entries' = {}
    /\ references' = [i \in Requests |-> 0]
    /\ OweNotify
    /\ UNCHANGED <<generation, cancelled, leases, waits>>

(* release, explicit or by drop.  A second release returns at the swap of  *)
(* the released flag and changes nothing, so it needs no action.  After    *)
(* shutdown the entry is gone and only the flag and the notify remain.     *)
Release(l) ==
    /\ status[l] = "held"
    /\ status' = [status EXCEPT ![l] = "released"]
    /\ IF request[l] \in entries
       THEN /\ references' = [references EXCEPT ![request[l]] = @ - 1]
            /\ entries' = IF references'[request[l]] = 0
                          THEN entries \ {request[l]} ELSE entries
       ELSE UNCHANGED <<entries, references>>
    /\ OweNotify
    /\ UNCHANGED <<shut, generation, cancelled, request, flag, waits>>

(* changed.notify_all(): every thread parked on the condvar wakes up. *)
Notify ==
    /\ notifying > 0
    /\ notifying' = notifying - 1
    /\ wait' = [l \in Leases |-> IF wait[l] = "parked" THEN "running"
                                                       ELSE wait[l]]
    /\ UNCHANGED <<registry, leases, expired>>

-----------------------------------------------------------------------------
(* wait_cancelled: the caller enters the loop, evaluates its predicates    *)
(* under the mutex (WaitStep) and parks if none holds; the deadline, which *)
(* may pass at any time, also wakes it.                                    *)
WaitCall(l) ==
    /\ status[l] # "unused"
    /\ wait[l] = "idle"
    /\ wait' = [wait EXCEPT ![l] = "running"]
    /\ UNCHANGED <<registry, leases, expired, notifying>>

WaitOutcome(l) ==
    IF shut THEN "closed"
    ELSE IF status[l] = "released" THEN "released"
    ELSE IF LeaseCancelled(l) THEN "cancelled"
    ELSE IF l \in expired THEN "heartbeat"
    ELSE "parked"

WaitStep(l) ==
    /\ wait[l] = "running"
    /\ wait' = [wait EXCEPT ![l] = WaitOutcome(l)]
    /\ UNCHANGED <<registry, leases, expired, notifying>>

Deadline(l) ==
    /\ wait[l] \in {"running", "parked"}
    /\ l \notin expired
    /\ expired' = expired \cup {l}
    /\ wait' = [wait EXCEPT ![l] = "running"]
    /\ UNCHANGED <<registry, leases, notifying>>

-----------------------------------------------------------------------------
CancelNext ==
    \/ \E l \in Leases, i \in Requests : AcquireTracked(l, i)
    \/ \E l \in Leases : AcquireUntracked(l)
    \/ \E S \in SUBSET Requests \ {{}} : CancelMany(S)
    \/ CancelActive
    \/ \E S \in SUBSET Requests \ {{}} : ResetManyIfIdle(S)
    \/ CancelShutdown
    \/ \E l \in Leases : Release(l)
    \/ Notify
    \/ \E l \in Leases : WaitCall(l)
    \/ \E l \in Leases : WaitStep(l)
    \/ \E l \in Leases : Deadline(l)

(* A thread that owes a notify and a thread that is awake keep running;    *)
(* no fairness for Deadline: what must happen must not need the timeout.   *)
Fairness ==
    /\ WF_cancelVars(Notify)
    /\ \A l \in Leases : WF_cancelVars(WaitStep(l))

CancelSpec == CancelInit /\ [][CancelNext]_cancelVars
CancelFairSpec == CancelSpec /\ Fairness

-----------------------------------------------------------------------------
(* Entry.references counts exactly the unreleased leases of the id, and a  *)
(* lease that is still held always finds its entry: release never          *)
(* underflows the counter (usize, line 328), never removes an entry that a *)
(* later retry still references (lines 320-321), never leaks one.          *)
ReferencesExact ==
    ~shut => \A i \in Requests :
        /\ references[i] = Cardinality(Holders(i))
        /\ Holders(i) # {} => i \in entries

(* The two ways to ask whether a request is cancelled agree while a lease  *)
(* is held: the media writer asks the registry by id, the planner asks its *)
(* lease.  A lease that shared the flag of an earlier entry of its id      *)
(* would let one of them go on after a cancel.                             *)
ViewsAgree ==
    ~shut => \A i \in Requests : \A l \in Holders(i) :
        LeaseCancelled(l) <=> RegistryCancelled(i)

(* An entry without references is a cancelled sentinel: no operation       *)
(* leaves an idle, uncancelled entry behind.                               *)
IdleIsSentinel ==
    \A i \in entries : references[i] = 0 => RegistryCancelled(i)

(* Leases from a still-unwinding attempt keep their cancellation state:    *)
(* while the id stays held, neither reset, nor acquire, nor the release of *)
(* another lease clears its cancellation.                                  *)
CancelSticks ==
    [][\A i \in Requests :
         RegistryCancelled(i) /\ Holders(i) # {} /\ Holders(i)' # {} /\ ~shut'
           => RegistryCancelled(i)']_cancelVars

(* No lost wakeup: a waiter whose lease is cancelled or released, or whose *)
(* registry is shut down, returns without the help of its timeout.         *)
MustReturn(l) == LeaseCancelled(l) \/ status[l] = "released" \/ shut
NoLostWakeup ==
    \A l \in Leases :
        wait[l] = "parked" /\ MustReturn(l) ~> wait[l] \in Returned
=============================================================================
