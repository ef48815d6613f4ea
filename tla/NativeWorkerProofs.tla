------------------------- MODULE NativeWorkerProofs -------------------------
(***************************************************************************)
(* Proofs about the foreground service, for any set of items, any batches, *)
(* any number of runs, of Wi-Fi changes and of kills of the process.       *)
(*                                                                         *)
(* The inductive invariant says, beyond the types: at most one job is      *)
(* active, and it is workerJob; a run that is being accepted finds no      *)
(* active job, all permits free and none of its coroutines started; the    *)
(* coroutines of a run that is not active wait for nothing; an item that   *)
(* the shared iterator has not handed out has no coroutine; a service      *)
(* object without a batch is stopped; and every thread that may write a    *)
(* snapshot late belongs to an object that accepted a batch.               *)
(***************************************************************************)
EXTENDS NativeWorker, SequenceTheorems, FiniteSetTheorems, WellFoundedInduction,
        TLAPS

Waits == {"taken", "queueing", "slotted"}
Slotted == Working \ {"taken", "queueing"}
CoType == [at : Places, to : Statuses]
Accepting == main \in {"foreground", "launch"}

\* The service objects and the runs they accepted.
ServiceInv ==
    /\ started \in 0..MaxRuns
    /\ instance \in 1..started + 1
    /\ phase \in {"none", "alive", "doomed"}
    /\ home \in [Runs -> Nat]
    /\ \A r \in Runs : IF r <= started THEN home[r] \in 1..instance ELSE home[r] = 0
    /\ \A r \in Runs : home[r] = instance => instance <= started
    /\ run \in 0..started
    /\ main \in {"idle", "foreground", "launch", "publishRunning", "publishEnded"}

\* At most one job is active; a run that is being accepted has none yet.
JobInv ==
    /\ job \in 0..started
    /\ active \subseteq {job} /\ 0 \notin active
    /\ Accepting => run # 0 /\ run = started /\ active = {} /\ job # run

\* What the clients see: the items of a run and the snapshot file.
StatusInv ==
    /\ status \in [0..MaxRuns -> [Items -> Statuses]]
    /\ status[0] = NoItems
    /\ stopped \in BOOLEAN
    /\ run = 0 => stopped
    /\ StoppedMeansRequeued

SnapInv ==
    /\ snap \in [run : 0..started, running : BOOLEAN, items : [Items -> Statuses]]
    /\ snap.run = 0 => ~snap.running
    /\ unwritten \in BOOLEAN
    /\ StoppedNotRunning

\* The connectivity thread works for an object that accepted a batch.
NetInv ==
    /\ net \in [at : {"idle", "publishRunning", "publishEnded"}, home : Nat]
    /\ net.at # "idle" => \E r \in 1..started : home[r] = net.home
    /\ air \in [wifi : BOOLEAN, notice : BOOLEAN, listening : BOOLEAN,
                changes : 0..MaxWifiChanges]
    /\ air.listening => \E r \in 1..started : home[r] = instance

GateInv ==
    /\ gate \in [manual : BOOLEAN, network : BOOLEAN, limit : 1..3, wifiOnly : BOOLEAN]
    /\ free \in 0..gate.limit
    /\ Accepting => free = gate.limit
    /\ PermitsExact

\* The coroutines of a run and the iterator they share.
IteratorInv ==
    /\ pending \in [Runs -> Seq(Items)]
    /\ \A r \in Runs : \A m, n \in DOMAIN pending[r] :
           pending[r][m] = pending[r][n] => m = n
    /\ \A r \in Runs : \A n \in DOMAIN pending[r] :
           co[r][pending[r][n]].at \in {"none", "finished"}

CoroutineInv ==
    /\ co \in [Runs -> [Items -> CoType]]
    /\ tail \in [Runs -> {"none", "work", "report", "stop", "release", "done"}]
    /\ \A r \in Runs : r > started => tail[r] = "none"
    /\ \A r \in Runs, i \in Items :
           /\ co[r][i].at \in Waits => r \in active
           /\ r > started => co[r][i].at = "none"
           /\ Accepting /\ r = run => co[r][i].at = "none"

IInv ==
    /\ ServiceInv /\ JobInv /\ StatusInv /\ SnapInv /\ NetInv
    /\ GateInv /\ IteratorInv /\ CoroutineInv

-----------------------------------------------------------------------------
(* A set of naturals that is not empty has a least element, and a bounded  *)
(* one a greatest.                                                         *)
LEMMA Smallest ==
    ASSUME NEW T, T \subseteq Nat, T # {}
    PROVE  \E m \in T : \A x \in T : m <= x
<1> DEFINE R == OpToRel(<, Nat)
<1>1. IsWellFoundedOn(R, Nat)
  BY NatLessThanWellFounded, Zenon
<1>2. \A x, y \in Nat : x < y => <<x, y>> \in R
  BY DEF OpToRel
<1> HIDE DEF R
<1>3. \E m \in T : \A x \in T : ~(<<x, m>> \in R)
  BY <1>1, WFMin
<1>4. PICK m \in T : \A x \in T : ~(<<x, m>> \in R)
  BY <1>3
<1>5. ASSUME NEW x \in T PROVE m <= x
  <2>1. ~(x < m) /\ x \in Nat /\ m \in Nat
    BY <1>2, <1>4
  <2> QED
    BY <2>1
<1> QED
  BY <1>5

LEMMA Largest ==
    ASSUME NEW n \in Nat, NEW S \in SUBSET (1..n), S # {}
    PROVE  \E m \in S : \A x \in S : x <= m
<1> DEFINE T == {n - x : x \in S}
<1>1. \A x \in S : n - x \in Nat
  OBVIOUS
<1>2. T \subseteq Nat
  BY <1>1
<1>3. T # {}
  OBVIOUS
<1>4. \A x \in S : n - x \in T
  OBVIOUS
<1>5. \A t \in T : \E x \in S : t = n - x
  OBVIOUS
<1> HIDE DEF T
<1>6. PICK t \in T : \A y \in T : t <= y
  BY <1>2, <1>3, Smallest
<1>7. PICK m \in S : t = n - m
  BY <1>5
<1>8. ASSUME NEW x \in S PROVE x <= m
  BY <1>4, <1>6, <1>7
<1> QED
  BY <1>8

(* The last run of a service object that accepted one. *)
LEMMA LastRunExists ==
    ASSUME ServiceInv, NEW k, NEW r \in 1..started, home[r] = k
    PROVE  LastRun(k) \in 1..started
<1> DEFINE S == {q \in Runs : home[q] = k}
<1>1. r \in Runs /\ started \in Nat /\ MaxRuns \in Nat
  BY ConstantsAssumption DEF ServiceInv, Runs
<1>2. S # {} /\ S \in SUBSET (1..MaxRuns)
  BY <1>1 DEF Runs
<1>3. \E m \in S : \A x \in S : x <= m
  BY <1>1, <1>2, Largest
<1>4. \E m \in Runs : home[m] = k /\ \A q \in Runs : home[q] = k => q <= m
  BY <1>3
<1>5. LastRun(k) \in Runs /\ home[LastRun(k)] = k
  BY <1>4 DEF LastRun
<1>6. k # 0
  BY <1>1 DEF ServiceInv
<1> QED
  BY <1>1, <1>5, <1>6 DEF ServiceInv, Runs

-----------------------------------------------------------------------------
(* The invariant gives the types that the run checks. *)
LEMMA Typed == IInv => WorkerInv
<1> SUFFICES ASSUME IInv PROVE WorkerInv
  OBVIOUS
<1>1. active \subseteq 1..started
  BY ConstantsAssumption DEF IInv, JobInv, ServiceInv
<1>2. TypeOK
  BY <1>1 DEF IInv, TypeOK, ServiceInv, JobInv, StatusInv, SnapInv, NetInv, GateInv,
              IteratorInv, CoroutineInv, CoType
<1> QED
  BY <1>2 DEF WorkerInv, IInv, GateInv

(* What leaves a part of the state alone keeps that part. *)
LEMMA Frames ==
    /\ ServiceInv /\ UNCHANGED <<instance, phase, started, home, run, main>> => ServiceInv'
    /\ JobInv /\ UNCHANGED <<started, job, active, run, main>> => JobInv'
    /\ StatusInv /\ UNCHANGED <<status, stopped, run>> => StatusInv'
    /\ SnapInv /\ UNCHANGED <<snap, unwritten, started, stopped, run>> => SnapInv'
    /\ NetInv /\ UNCHANGED <<net, started, home, air, instance>> => NetInv'
    /\ GateInv /\ UNCHANGED <<gate, free, main, active, co>> => GateInv'
    /\ IteratorInv /\ UNCHANGED <<pending, co>> => IteratorInv'
    /\ CoroutineInv /\ UNCHANGED <<co, tail, active, started, run, main>> => CoroutineInv'
<1>1. ServiceInv /\ UNCHANGED <<instance, phase, started, home, run, main>> => ServiceInv'
  BY DEF ServiceInv
<1>2. JobInv /\ UNCHANGED <<started, job, active, run, main>> => JobInv'
  BY DEF JobInv, Accepting
<1>3. StatusInv /\ UNCHANGED <<status, stopped, run>> => StatusInv'
  BY DEF StatusInv, StoppedMeansRequeued
<1>4. SnapInv /\ UNCHANGED <<snap, unwritten, started, stopped, run>> => SnapInv'
  BY DEF SnapInv, StoppedNotRunning
<1>5. NetInv /\ UNCHANGED <<net, started, home, air, instance>> => NetInv'
  BY DEF NetInv
<1>6. GateInv /\ UNCHANGED <<gate, free, main, active, co>> => GateInv'
  BY DEF GateInv, Accepting, PermitsExact, Holding
<1>7. IteratorInv /\ UNCHANGED <<pending, co>> => IteratorInv'
  BY DEF IteratorInv
<1>8. CoroutineInv /\ UNCHANGED <<co, tail, active, started, run, main>> => CoroutineInv'
  BY DEF CoroutineInv, Accepting
<1> QED
  BY <1>1, <1>2, <1>3, <1>4, <1>5, <1>6, <1>7, <1>8

(* The main thread is done with accepting a batch, or was not at it. *)
LEMMA MainFrames ==
    ASSUME IInv, ~Accepting', main' \in {"idle", "publishRunning", "publishEnded"}
    PROVE  /\ UNCHANGED <<instance, phase, started, home, run>> => ServiceInv'
           /\ UNCHANGED <<started, job, active>> => JobInv'
           /\ UNCHANGED <<gate, free, active, co>> => GateInv'
           /\ UNCHANGED <<co, tail, active, started>> => CoroutineInv'
<1>1. UNCHANGED <<instance, phase, started, home, run>> => ServiceInv'
  BY DEF IInv, ServiceInv
<1>2. UNCHANGED <<started, job, active>> => JobInv'
  BY DEF IInv, JobInv
<1>3. UNCHANGED <<gate, free, active, co>> => GateInv'
  BY DEF IInv, GateInv, PermitsExact, Holding
<1>4. UNCHANGED <<co, tail, active, started>> => CoroutineInv'
  BY DEF IInv, CoroutineInv
<1> QED
  BY <1>1, <1>2, <1>3, <1>4

(* A write that fails leaves the earlier snapshot, and says so.            *)
LEMMA Unwritten ==
    ASSUME SnapInv, snap' = snap, unwritten' = TRUE, UNCHANGED started
    PROVE  SnapInv'
  BY DEF SnapInv, StoppedNotRunning

(* A snapshot by the current service object: one that says "running" is    *)
(* not written once it has stopped.                                        *)
LEMMA Written ==
    ASSUME IInv, NEW running \in BOOLEAN, WriteSnapshot(running),
           UNCHANGED <<started, stopped, run>>
    PROVE  SnapInv'
<1>1. status[run] \in [Items -> Statuses] /\ run \in 0..started
  BY ConstantsAssumption DEF IInv, StatusInv, ServiceInv
<1>2. CASE running /\ stopped
  BY <1>2, Frames DEF WriteSnapshot, IInv
<1>3. CASE ~(running /\ stopped)
  <2> SUFFICES ASSUME unwritten' # TRUE PROVE SnapInv'
    BY <1>3, Unwritten DEF WriteSnapshot, WriteFile, IInv
  <2>1. snap' = [run |-> run, running |-> running, items |-> status[run]]
        /\ unwritten' = FALSE
    BY <1>3 DEF WriteSnapshot, WriteFile
  <2>2. snap' \in [run : 0..started, running : BOOLEAN, items : [Items -> Statuses]]
    BY <1>1, <2>1
  <2>3. snap'.run = run /\ snap'.running = running
    BY <2>1
  <2>4. run = 0 => stopped
    BY DEF IInv, StatusInv
  <2> QED
    BY <1>3, <2>1, <2>2, <2>3, <2>4 DEF SnapInv, StoppedNotRunning
<1> QED
  BY <1>2, <1>3

(* A snapshot by a destroyed one never says "running". *)
LEMMA WrittenLate ==
    ASSUME IInv, NEW k, NEW r \in 1..started, home[r] = k, WriteStaleSnapshot(k),
           UNCHANGED <<started, stopped, run>>
    PROVE  SnapInv'
<1> SUFFICES ASSUME unwritten' # TRUE PROVE SnapInv'
  BY Unwritten DEF WriteStaleSnapshot, WriteFile, IInv
<1>1. LastRun(k) \in 1..started
  BY LastRunExists DEF IInv
<1> DEFINE l == LastRun(k)
<1>2. snap' = [run |-> l, running |-> FALSE, items |-> status[l]] /\ unwritten' = FALSE
  BY DEF WriteStaleSnapshot, WriteFile
<1> HIDE DEF l
<1>3. l \in 1..started
  BY <1>1 DEF l
<1>4. status[l] \in [Items -> Statuses] /\ l \in 0..started
  BY <1>3, ConstantsAssumption DEF IInv, StatusInv, ServiceInv
<1>5. snap' \in [run : 0..started, running : BOOLEAN, items : [Items -> Statuses]]
  BY <1>2, <1>4
<1>6. snap'.running = FALSE
  BY <1>2
<1> QED
  BY <1>2, <1>5, <1>6 DEF SnapInv, StoppedNotRunning

-----------------------------------------------------------------------------
(* stopForegroundService, as a part of a step: the items are put back, the *)
(* file says so, and the job's coroutines that wait are gone.              *)
LEMMA StopKeeps ==
    ASSUME IInv, StopWorker, UNCHANGED <<started, main, pending>>,
           run' = run \/ (run' = 0 /\ ~Accepting)
    PROVE  /\ JobInv' /\ StatusInv' /\ SnapInv' /\ IteratorInv' /\ PermitsExact'
           /\ (\A r \in Runs : r > started => tail'[r] = "none")
              /\ tail' \in [Runs -> {"none", "work", "report", "stop", "release", "done"}]
                  => CoroutineInv'
<1>1. active' = {} /\ job' = 0 /\ stopped' = TRUE
  BY DEF StopWorker, IInv, JobInv
<1>2. JobInv'
  BY <1>1, ConstantsAssumption DEF IInv, ServiceInv, JobInv, Accepting
<1>3. RequeueOnStop(status[run]) \in [Items -> Statuses]
      /\ \A i \in Items : RequeueOnStop(status[run])[i] \notin {"downloading", "finalizing"}
  <2>1. status[run] \in [Items -> Statuses]
    BY ConstantsAssumption DEF IInv, StatusInv, ServiceInv
  <2> QED
    BY <2>1 DEF RequeueOnStop, Statuses
<1>4. /\ status' \in [0..MaxRuns -> [Items -> Statuses]]
      /\ status'[0] = NoItems
      /\ run' = run => \A i \in Items : status'[run][i] \notin {"downloading", "finalizing"}
  <2>1. run \in 0..MaxRuns
    BY ConstantsAssumption DEF IInv, ServiceInv
  <2>2. CASE stopped
    BY <2>2 DEF StopWorker, IInv, StatusInv, StoppedMeansRequeued
  <2>3. CASE ~stopped
    <3>1. status' = [status EXCEPT ![run] = RequeueOnStop(status[run])] /\ run # 0
      BY <2>3 DEF StopWorker, IInv, StatusInv
    <3> QED
      BY <1>3, <2>1, <3>1 DEF IInv, StatusInv
  <2> QED
    BY <2>2, <2>3
<1>5. StatusInv'
  <2>1. \A i \in Items : status'[0][i] = "absent"
    BY <1>4 DEF NoItems
  <2>2. StoppedMeansRequeued'
    BY <1>4, <2>1 DEF StoppedMeansRequeued
  <2> QED
    BY <1>1, <1>4, <2>2 DEF StatusInv, NoItems
<1>6. SnapInv'
  <2>1. CASE stopped
    BY <1>1, <2>1 DEF StopWorker, IInv, SnapInv, StoppedNotRunning
  <2>2. CASE ~stopped
    <3> SUFFICES ASSUME unwritten' # TRUE PROVE SnapInv'
      BY <2>2, Unwritten DEF StopWorker, WriteFile, IInv
    <3>1. snap' = [run |-> run, running |-> FALSE, items |-> RequeueOnStop(status[run])]
          /\ unwritten' = FALSE
      BY <2>2 DEF StopWorker, WriteFile
    <3>2. snap' \in [run : 0..started, running : BOOLEAN, items : [Items -> Statuses]]
      BY <1>3, <3>1 DEF IInv, ServiceInv
    <3>3. snap'.running = FALSE
      BY <3>1
    <3> QED
      BY <3>1, <3>2, <3>3 DEF SnapInv, StoppedNotRunning
  <2> QED
    BY <2>1, <2>2
<1>7. Finished \in CoType /\ Finished.at = "finished"
  BY DEF Finished, CoType, Places, Statuses
<1>8. /\ co' \in [Runs -> [Items -> CoType]]
      /\ \A r \in Runs, i \in Items :
             /\ r # job => co'[r][i] = co[r][i]
             /\ r = job => co'[r][i] = IF co[r][i].at \in Unstarted THEN Finished
                                       ELSE co[r][i]
  <2>1. CASE job = 0
    <3>1. co' = co /\ \A r \in Runs : r # job
      BY <2>1, ConstantsAssumption DEF StopWorker, Cancelled, Runs
    <3> QED
      BY <3>1 DEF IInv, CoroutineInv
  <2>2. CASE job # 0
    <3>1. co' = [co EXCEPT ![job] = [i \in Items |->
                    IF co[job][i].at \in Unstarted THEN Finished ELSE co[job][i]]]
      BY <2>2 DEF StopWorker, Cancelled
    <3>2. job \in Runs
      BY <2>2, ConstantsAssumption DEF IInv, JobInv, ServiceInv, Runs
    <3> QED
      BY <1>7, <3>1, <3>2 DEF IInv, CoroutineInv
  <2> QED
    BY <2>1, <2>2
<1>9. \A r \in Runs, i \in Items :
          /\ co[r][i].at \in {"none", "finished"} => co'[r][i].at \in {"none", "finished"}
          /\ co'[r][i].at \notin Waits
          /\ r > started => co'[r][i].at = "none"
          /\ Accepting /\ r = run => co'[r][i].at = "none"
  <2> SUFFICES ASSUME NEW r \in Runs, NEW i \in Items
               PROVE  /\ co[r][i].at \in {"none", "finished"}
                             => co'[r][i].at \in {"none", "finished"}
                      /\ co'[r][i].at \notin Waits
                      /\ r > started => co'[r][i].at = "none"
                      /\ Accepting /\ r = run => co'[r][i].at = "none"
    OBVIOUS
  <2>1. CASE r = job
    <3>1. ~(r > started) /\ ~(Accepting /\ r = run)
      BY <2>1, ConstantsAssumption DEF IInv, JobInv, ServiceInv, Runs
    <3>2. co'[r][i].at = IF co[r][i].at \in Unstarted THEN "finished" ELSE co[r][i].at
      BY <1>7, <1>8, <2>1
    <3> QED
      BY <3>1, <3>2 DEF Unstarted, Waits
  <2>2. CASE r # job
    BY <1>8, <2>2 DEF IInv, CoroutineInv, JobInv
  <2> QED
    BY <2>1, <2>2
<1>10. IteratorInv'
  <2>1. \A r \in Runs : \A n \in DOMAIN pending[r] : pending[r][n] \in Items
    BY DEF IInv, IteratorInv
  <2> QED
    BY <1>9, <2>1 DEF IInv, IteratorInv
<1>11. PermitsExact'
  BY <1>1 DEF PermitsExact
<1>12. ASSUME \A r \in Runs : r > started => tail'[r] = "none",
              tail' \in [Runs -> {"none", "work", "report", "stop", "release", "done"}]
       PROVE  CoroutineInv'
  <2>1. Accepting' => Accepting /\ run' = run
    BY DEF Accepting
  <2> QED
    BY <1>8, <1>9, <1>12, <2>1 DEF CoroutineInv
<1> QED
  BY <1>2, <1>5, <1>6, <1>10, <1>11, <1>12

-----------------------------------------------------------------------------
(* The places past slots.acquire(), and the number of coroutines there.    *)
LEMMA SlottedIs ==
    /\ Slotted = {"slotted", "check", "update", "publish", "engine", "post"}
    /\ Slotted \subseteq Places
  BY DEF Slotted, Working, Places

LEMMA HoldingFinite ==
    ASSUME NEW r
    PROVE  /\ IsFiniteSet(Holding(r, Slotted))
           /\ Cardinality(Holding(r, Slotted)) \in Nat
<1>1. Holding(r, Slotted) \in SUBSET Items
  BY DEF Holding
<1> QED
  BY <1>1, FS_Subset, FS_CardinalityType, ConstantsAssumption

(* One coroutine moves: what becomes of the sets of holders. *)
LEMMA CoStep ==
    ASSUME CoroutineInv, NEW r \in Runs, NEW i \in Items, NEW m \in CoType,
           co' = [co EXCEPT ![r][i] = m]
    PROVE  /\ co' \in [Runs -> [Items -> CoType]]
           /\ \A q \in Runs, j \in Items :
                  co'[q][j] = IF q = r /\ j = i THEN m ELSE co[q][j]
           /\ \A q \in Runs : q # r => Holding(q, Slotted)' = Holding(q, Slotted)
           /\ Holding(r, Slotted)' = IF m.at \in Slotted THEN Holding(r, Slotted) \cup {i}
                                     ELSE Holding(r, Slotted) \ {i}
           /\ i \in Holding(r, Slotted) <=> co[r][i].at \in Slotted
<1>1. co' \in [Runs -> [Items -> CoType]]
  BY DEF CoroutineInv
<1>2. \A q \in Runs, j \in Items : co'[q][j] = IF q = r /\ j = i THEN m ELSE co[q][j]
  BY DEF CoroutineInv
<1>3. \A q \in Runs : q # r => Holding(q, Slotted)' = Holding(q, Slotted)
  BY <1>2 DEF Holding
<1>4. \A j : j \in Holding(r, Slotted)' <=>
                 j \in Items /\ (IF j = i THEN m.at \in Slotted ELSE co[r][j].at \in Slotted)
  BY <1>2 DEF Holding
<1>5. \A j : j \in Holding(r, Slotted) <=> j \in Items /\ co[r][j].at \in Slotted
  BY DEF Holding
<1>6. CASE m.at \in Slotted
  <2>1. Holding(r, Slotted)' = Holding(r, Slotted) \cup {i}
    BY <1>4, <1>5, <1>6
  <2> QED
    BY <1>1, <1>2, <1>3, <1>5, <1>6, <2>1
<1>7. CASE m.at \notin Slotted
  <2>1. Holding(r, Slotted)' = Holding(r, Slotted) \ {i}
    BY <1>4, <1>5, <1>7
  <2> QED
    BY <1>1, <1>2, <1>3, <1>5, <1>7, <2>1
<1> QED
  BY <1>6, <1>7

(* A coroutine at work goes on: it takes a permit as it goes past          *)
(* slots.acquire(), and gives it back to the batch's gate when it leaves.  *)
LEMMA CoMoves ==
    ASSUME IInv, NEW r \in Runs, NEW i \in Items, NEW m \in CoType,
           co' = [co EXCEPT ![r][i] = m],
           co[r][i].at \in Working, m.at # "none",
           m.at \in Waits => r \in active,
           UNCHANGED <<pending, tail, active, started, run, main, gate>>,
           \/ /\ free' = free
              /\ co[r][i].at \in Slotted <=> m.at \in Slotted
           \/ /\ free' = free
              /\ r \notin active
           \/ /\ free' = free - 1 /\ free > 0
              /\ co[r][i].at \notin Slotted /\ m.at \in Slotted
              /\ r \in active
           \/ /\ free' = free + 1
              /\ co[r][i].at \in Slotted /\ m.at \notin Slotted
              /\ r \in active
    PROVE  GateInv' /\ IteratorInv' /\ CoroutineInv'
<1>1. /\ co' \in [Runs -> [Items -> CoType]]
      /\ \A q \in Runs, j \in Items : co'[q][j] = IF q = r /\ j = i THEN m ELSE co[q][j]
      /\ \A q \in Runs : q # r => Holding(q, Slotted)' = Holding(q, Slotted)
      /\ Holding(r, Slotted)' = IF m.at \in Slotted THEN Holding(r, Slotted) \cup {i}
                                ELSE Holding(r, Slotted) \ {i}
      /\ i \in Holding(r, Slotted) <=> co[r][i].at \in Slotted
  BY CoStep DEF IInv
<1>2. co[r][i].at \notin {"none", "finished"}
  BY DEF Working
<1>3. IteratorInv'
  <2>1. \A q \in Runs : \A n \in DOMAIN pending[q] : pending[q][n] \in Items
    BY DEF IInv, IteratorInv
  <2>2. \A q \in Runs : \A n \in DOMAIN pending[q] : ~(q = r /\ pending[q][n] = i)
    BY <1>2 DEF IInv, IteratorInv
  <2> QED
    BY <1>1, <2>1, <2>2 DEF IInv, IteratorInv
<1>4. ~(r > started) /\ ~(Accepting /\ r = run)
  BY <1>2 DEF IInv, CoroutineInv
<1>5. CoroutineInv'
  BY <1>1, <1>4 DEF IInv, CoroutineInv, Accepting
<1> DEFINE n == Cardinality(Holding(r, Slotted))
<1>6. n \in Nat /\ IsFiniteSet(Holding(r, Slotted))
  BY HoldingFinite
<1>7. Cardinality(Holding(r, Slotted)') =
          IF m.at \in Slotted
          THEN IF co[r][i].at \in Slotted THEN n ELSE n + 1
          ELSE IF co[r][i].at \in Slotted THEN n - 1 ELSE n
  <2> DEFINE S == Holding(r, Slotted)
  <2>1. /\ Cardinality(S \cup {i}) = IF i \in S THEN n ELSE n + 1
        /\ Cardinality(S \ {i}) = IF i \in S THEN n - 1 ELSE n
    BY <1>6, FS_AddElement, FS_RemoveElement
  <2> HIDE DEF n
  <2> QED
    BY <1>1, <2>1
<1>8. /\ co[r][i].at \in Slotted => n > 0
      /\ gate.limit \in 1..3 /\ free \in 0..gate.limit
      /\ r \in active => free + n = gate.limit
      /\ active \subseteq Runs
  <2>1. co[r][i].at \in Slotted => n > 0
    <3>1. co[r][i].at \in Slotted => Holding(r, Slotted) # {}
      BY <1>1
    <3> QED
      BY <1>6, <3>1, FS_EmptySet
  <2>2. gate.limit \in 1..3 /\ free \in 0..gate.limit
    BY DEF IInv, GateInv
  <2>3. r \in active => free + n = gate.limit
    BY DEF IInv, GateInv, PermitsExact, Slotted
  <2>4. active \subseteq Runs
    BY ConstantsAssumption DEF IInv, JobInv, ServiceInv, Runs
  <2> QED
    BY <2>1, <2>2, <2>3, <2>4
<1> DEFINE n2 == Cardinality(Holding(r, Slotted)')
<1> HIDE DEF n, n2
<1>9. free' \in 0..gate.limit /\ (r \in active => free' + n2 = gate.limit)
  <2>1. n2 = IF m.at \in Slotted
             THEN IF co[r][i].at \in Slotted THEN n ELSE n + 1
             ELSE IF co[r][i].at \in Slotted THEN n - 1 ELSE n
    BY <1>7 DEF n, n2
  <2> QED
    BY <1>6, <1>8, <2>1
<1>10. PermitsExact'
  <2> SUFFICES ASSUME NEW q \in active
               PROVE  free' + Cardinality(Holding(q, Slotted)') = gate.limit
    BY DEF PermitsExact, Slotted
  <2>1. CASE q = r
    BY <1>9, <2>1 DEF n2
  <2>2. CASE q # r
    <3>1. r \notin active
      BY <2>2 DEF IInv, JobInv
    <3>2. free' = free
      BY <3>1
    <3>3. Holding(q, Slotted)' = Holding(q, Slotted)
      BY <1>1, <1>8, <2>2
    <3> QED
      BY <3>2, <3>3 DEF IInv, GateInv, PermitsExact, Slotted
  <2> QED
    BY <2>1, <2>2
<1>11. Accepting' => free' = gate'.limit
  <2>1. Accepting => active = {}
    BY DEF IInv, JobInv
  <2>2. Accepting => free' = free
    BY <2>1
  <2> QED
    BY <2>2 DEF IInv, GateInv, Accepting
<1>12. GateInv'
  BY <1>9, <1>10, <1>11 DEF IInv, GateInv
<1> QED
  BY <1>3, <1>5, <1>12

-----------------------------------------------------------------------------
(* A fresh process. *)
LEMMA InitEstablishes == Init => IInv
<1> SUFFICES ASSUME Init PROVE IInv
  OBVIOUS
<1>1. NoItems \in [Items -> Statuses]
  BY DEF NoItems, Statuses
<1>2. Idle \in CoType /\ Idle.at = "none"
  BY DEF Idle, CoType, Places, Statuses
<1>3. ServiceInv /\ JobInv
  BY ConstantsAssumption DEF Init, ServiceInv, JobInv, Runs, Accepting
<1>4. StatusInv
  BY <1>1, ConstantsAssumption DEF Init, StatusInv, StoppedMeansRequeued, NoItems
<1>5. SnapInv
  <2>1. snap.run = 0 /\ snap.running = FALSE /\ unwritten = FALSE
    BY DEF Init
  <2>2. snap \in [run : 0..started, running : BOOLEAN, items : [Items -> Statuses]]
    BY <1>1 DEF Init
  <2> QED
    BY <2>1, <2>2 DEF SnapInv, StoppedNotRunning
<1>6. NetInv
  <2>1. /\ air \in [wifi : BOOLEAN, notice : BOOLEAN, listening : BOOLEAN, changes : {0}]
        /\ air.listening = FALSE
    BY DEF Init
  <2>2. {0} \subseteq 0..MaxWifiChanges
    BY ConstantsAssumption
  <2>3. air \in [wifi : BOOLEAN, notice : BOOLEAN, listening : BOOLEAN,
                 changes : 0..MaxWifiChanges]
    BY <2>1, <2>2
  <2>4. /\ net \in [at : {"idle", "publishRunning", "publishEnded"}, home : Nat]
        /\ net.at = "idle"
    BY DEF Init, AtRest
  <2> QED
    BY <2>1, <2>3, <2>4 DEF NetInv
<1>7. GateInv
  BY DEF Init, GateInv, FreshGate, PermitsExact, Accepting
<1>8. CoroutineInv
  BY <1>2 DEF Init, CoroutineInv, Accepting, Waits
<1>9. IteratorInv
  <2>1. <<>> \in Seq(Items) /\ DOMAIN <<>> = {}
    BY EmptySeq
  <2>2. pending \in [Runs -> Seq(Items)]
    BY <2>1 DEF Init
  <2>3. \A r \in Runs : DOMAIN pending[r] = {}
    BY <2>1 DEF Init
  <2> QED
    BY <2>2, <2>3 DEF IteratorInv
<1> QED
  BY <1>3, <1>4, <1>5, <1>6, <1>7, <1>8, <1>9 DEF IInv

(* startQueueInternal: a batch is accepted only while no job is active.    *)
LEMMA StartPreserves ==
    ASSUME IInv, NEW s \in Requests, NEW n \in Limits, NEW w \in WifiModes,
           NEW p \in BOOLEAN, StartQueue(s, n, w, p)
    PROVE  IInv'
<1> DEFINE new == started + 1
<1>1. /\ started \in Nat /\ new \in Runs /\ new \in 1..MaxRuns
      /\ instance \in 1..new
      /\ started' = new /\ run' = new /\ main' = "foreground" /\ stopped' = FALSE
      /\ active = {}
      /\ UNCHANGED <<instance, job, active, co, tail, net, snap, unwritten>>
  BY ConstantsAssumption DEF StartQueue, IInv, ServiceInv, JobInv, Runs
<1>2. home' = [home EXCEPT ![new] = instance]
  BY <1>1 DEF StartQueue
<1>3. ServiceInv'
  <2>1. home' \in [Runs -> Nat]
    BY <1>1, <1>2 DEF IInv, ServiceInv
  <2>2. \A r \in Runs : home'[r] = IF r = new THEN instance ELSE home[r]
    BY <1>1, <1>2 DEF IInv, ServiceInv
  <2>3. \A r \in Runs : r <= new <=> r = new \/ r <= started
    BY <1>1, ConstantsAssumption DEF Runs
  <2>4. \A r \in Runs : IF r <= new THEN home'[r] \in 1..instance ELSE home'[r] = 0
    BY <1>1, <2>2, <2>3 DEF IInv, ServiceInv
  <2>5. phase' \in {"none", "alive", "doomed"}
    BY DEF StartQueue, IInv, ServiceInv
  <2> QED
    BY <1>1, <2>1, <2>4, <2>5 DEF ServiceInv
<1>4. JobInv'
  BY <1>1 DEF IInv, JobInv, Accepting
<1>5. StatusInv'
  <2>1. status' = [status EXCEPT ![new] =
                     [i \in Items |-> IF i \in Elements(s) THEN "queued" ELSE "absent"]]
    BY <1>1 DEF StartQueue
  <2>2. status' \in [0..MaxRuns -> [Items -> Statuses]]
    BY <1>1, <2>1 DEF IInv, StatusInv, Statuses
  <2>3. status'[0] = status[0]
    BY <1>1, <2>1 DEF IInv, StatusInv
  <2>4. status'[0] = NoItems
    BY <2>3 DEF IInv, StatusInv
  <2>5. stopped' = FALSE /\ run' # 0
    BY <1>1
  <2>6. StoppedMeansRequeued'
    BY <2>5 DEF StoppedMeansRequeued
  <2> QED
    BY <2>2, <2>4, <2>5, <2>6 DEF StatusInv, NoItems
<1>6. SnapInv'
  <2>1. 0..started \subseteq 0..new
    BY <1>1
  <2>2. snap' \in [run : 0..new, running : BOOLEAN, items : [Items -> Statuses]]
    BY <1>1, <2>1 DEF IInv, SnapInv
  <2> QED
    BY <1>1, <2>2 DEF IInv, SnapInv, StoppedNotRunning
<1>7. NetInv'
  <2>1. \A r \in 1..started : r \in 1..new /\ home'[r] = home[r]
    BY <1>1, <1>2 DEF IInv, ServiceInv, Runs
  <2>2. home'[new] = instance /\ new \in 1..new
    BY <1>1, <1>2 DEF IInv, ServiceInv
  <2>3. air' = [air EXCEPT !.listening = w, !.notice = w]
    BY DEF StartQueue
  <2>4. w \in BOOLEAN
    BY ConstantsAssumption
  <2>5. air' \in [wifi : BOOLEAN, notice : BOOLEAN, listening : BOOLEAN,
                  changes : 0..MaxWifiChanges]
    BY <2>3, <2>4 DEF IInv, NetInv
  <2> QED
    BY <1>1, <2>1, <2>2, <2>5 DEF IInv, NetInv
<1>8. GateInv'
  <2>2. n \in 1..3 /\ w \in BOOLEAN
    BY ConstantsAssumption
  <2> DEFINE net2 == w /\ ~air.wifi
  <2>3. gate' = [manual |-> p, network |-> net2, limit |-> n, wifiOnly |-> w] /\ free' = n
    BY DEF StartQueue
  <2>4. net2 \in BOOLEAN
    OBVIOUS
  <2> HIDE DEF net2
  <2>5. gate' \in [manual : BOOLEAN, network : BOOLEAN, limit : 1..3, wifiOnly : BOOLEAN]
        /\ gate'.limit = n
    BY <2>2, <2>3, <2>4
  <2> QED
    BY <1>1, <2>2, <2>3, <2>5 DEF GateInv, PermitsExact
<1>9. CoroutineInv'
  <2>1. \A r \in Runs : r > new => r > started
    BY <1>1, ConstantsAssumption DEF Runs
  <2>2. new > started
    BY <1>1
  <2> QED
    BY <1>1, <2>1, <2>2 DEF IInv, CoroutineInv
<1>10. IteratorInv'
  <2>1. /\ s \in Seq(Items)
        /\ \A a, b \in DOMAIN s : s[a] = s[b] => a = b
    BY ConstantsAssumption
  <2>2. pending' = [pending EXCEPT ![new] = s]
    BY <1>1 DEF StartQueue
  <2>3. pending' \in [Runs -> Seq(Items)]
    BY <1>1, <2>1, <2>2 DEF IInv, IteratorInv
  <2>4. \A r \in Runs : pending'[r] = IF r = new THEN s ELSE pending[r]
    BY <1>1, <2>2 DEF IInv, IteratorInv
  <2>5. \A i \in Items : co[new][i].at = "none"
    BY <1>1 DEF IInv, CoroutineInv
  <2>6. \A a \in DOMAIN s : s[a] \in Items
    BY <2>1
  <2>7. ASSUME NEW r \in Runs
        PROVE  /\ \A a, b \in DOMAIN pending'[r] : pending'[r][a] = pending'[r][b] => a = b
               /\ \A a \in DOMAIN pending'[r] :
                      co'[r][pending'[r][a]].at \in {"none", "finished"}
    <3>1. CASE r = new
      BY <1>1, <2>1, <2>4, <2>5, <2>6, <3>1
    <3>2. CASE r # new
      BY <1>1, <2>4, <3>2 DEF IInv, IteratorInv
    <3> QED
      BY <3>1, <3>2
  <2> QED
    BY <2>3, <2>7 DEF IteratorInv
<1> QED
  BY <1>3, <1>4, <1>5, <1>6, <1>7, <1>8, <1>9, <1>10 DEF IInv

(* A callback that is unregistered is not delivered any more. *)
LEMMA Unlistened ==
    ASSUME IInv, air' = [air EXCEPT !.listening = FALSE, !.notice = FALSE],
           UNCHANGED <<started, home>>, net' = net \/ net' = AtRest
    PROVE  NetInv'
<1>1. /\ air' \in [wifi : BOOLEAN, notice : BOOLEAN, listening : BOOLEAN,
                   changes : 0..MaxWifiChanges]
      /\ air'.listening = FALSE
  BY DEF IInv, NetInv
<1>2. AtRest.at = "idle" /\ AtRest \in [at : {"idle", "publishRunning", "publishEnded"},
                                        home : Nat]
  BY DEF AtRest
<1> QED
  BY <1>1, <1>2 DEF IInv, NetInv

(* The service object that follows one that was destroyed or killed. *)
LEMMA NextObject ==
    ASSUME IInv, instance' = NextInstance, UNCHANGED <<started, home>>,
           phase' = "none", run' = 0, main' = "idle"
    PROVE  ServiceInv'
<1>1. CASE \E r \in Runs : home[r] = instance
  <2>1. instance' = instance + 1 /\ instance <= started
    BY <1>1 DEF NextInstance, IInv, ServiceInv
  <2>2. \A r \in Runs : home[r] # instance'
    BY <2>1, ConstantsAssumption DEF IInv, ServiceInv
  <2> QED
    BY <2>1, <2>2, ConstantsAssumption DEF IInv, ServiceInv
<1>2. CASE ~\E r \in Runs : home[r] = instance
  BY <1>2, ConstantsAssumption DEF NextInstance, IInv, ServiceInv
<1> QED
  BY <1>1, <1>2

(* The rest of the main thread. *)
LEMMA MainPreserves ==
    ASSUME IInv,
           \/ StartForeground \/ Launch \/ StartNothing \/ ForcedStop \/ OnDestroy
           \/ (\E p \in BOOLEAN : PauseIntent(p)) \/ PauseIntentIdle \/ RefreshMain
    PROVE  IInv'
<1>1. CASE StartForeground
  <2>1. SnapInv'
    BY <1>1, Written DEF StartForeground
  <2>2. Accepting /\ Accepting' /\ main' = "launch"
    BY <1>1 DEF StartForeground, Accepting
  <2>3. ServiceInv' /\ JobInv' /\ GateInv' /\ CoroutineInv'
    <3>1. ServiceInv'
      BY <1>1, <2>2 DEF StartForeground, IInv, ServiceInv
    <3>2. JobInv'
      BY <1>1, <2>2 DEF StartForeground, IInv, JobInv
    <3>3. GateInv'
      BY <1>1, <2>2 DEF StartForeground, IInv, GateInv, PermitsExact, Holding
    <3>4. CoroutineInv'
      BY <1>1, <2>2 DEF StartForeground, IInv, CoroutineInv
    <3> QED
      BY <3>1, <3>2, <3>3, <3>4
  <2> QED
    BY <1>1, <2>1, <2>3, Frames DEF StartForeground, IInv
<1>2. CASE Launch
  <2>1. /\ run # 0 /\ run = started /\ active = {} /\ job # run
        /\ free = gate.limit /\ \A i \in Items : co[run][i].at = "none"
        /\ run \in Runs
    BY <1>2, ConstantsAssumption
       DEF Launch, IInv, JobInv, GateInv, CoroutineInv, ServiceInv, Accepting, Runs
  <2>2. /\ job' = run /\ active' = {run} /\ main' = "idle" /\ ~Accepting'
        /\ tail' = [tail EXCEPT ![run] = "work"]
        /\ UNCHANGED <<instance, phase, started, home, run, stopped, status,
                       pending, co, free, gate, net, air, snap, unwritten>>
    BY <1>2, <2>1 DEF Launch, Accepting
  <2>3. ServiceInv'
    BY <2>2, MainFrames
  <2>4. JobInv'
    BY <2>1, <2>2 DEF IInv, JobInv, ServiceInv
  <2>5. PermitsExact'
    <3>1. Holding(run, Slotted)' = {}
      BY <2>1, <2>2 DEF Holding, Slotted, Working
    <3>2. Cardinality(Holding(run, Slotted)') = 0
      BY <3>1, FS_EmptySet
    <3>3. free' + Cardinality(Holding(run, Slotted)') = gate'.limit
      BY <2>1, <2>2, <3>2 DEF IInv, GateInv
    <3> QED
      BY <2>2, <3>3 DEF PermitsExact, Slotted
  <2>6. GateInv'
    BY <2>2, <2>5 DEF IInv, GateInv
  <2>7. CoroutineInv'
    <3>1. tail' \in [Runs -> {"none", "work", "report", "stop", "release", "done"}]
      BY <2>2 DEF IInv, CoroutineInv
    <3>2. \A r \in Runs : r > started => tail'[r] = "none"
      BY <2>1, <2>2, ConstantsAssumption DEF IInv, CoroutineInv, Runs
    <3> QED
      BY <2>1, <2>2, <3>1, <3>2 DEF IInv, CoroutineInv
  <2> QED
    BY <2>2, <2>3, <2>4, <2>6, <2>7, Frames DEF IInv
<1>3. CASE StartNothing \/ PauseIntentIdle
  <2>1. phase' \in {"none", "alive", "doomed"}
        /\ UNCHANGED <<instance, started, home, run, stopped, job, active, status,
                       pending, co, free, gate, tail, main, net, air, snap, unwritten>>
    BY <1>3 DEF StartNothing, PauseIntentIdle
  <2>2. ServiceInv'
    BY <2>1 DEF IInv, ServiceInv
  <2> QED
    BY <2>1, <2>2, Frames DEF IInv
<1>4. CASE ForcedStop
  <2>1. /\ StopWorker /\ main' = main /\ main = "idle" /\ ~Accepting' /\ phase' = "doomed"
        /\ UNCHANGED <<instance, started, home, run, pending, free, gate, tail, net>>
    BY <1>4 DEF ForcedStop, Accepting
  <2>2. JobInv' /\ StatusInv' /\ SnapInv' /\ IteratorInv' /\ PermitsExact' /\ CoroutineInv'
    BY <2>1, StopKeeps DEF IInv, CoroutineInv
  <2>3. ServiceInv'
    BY <2>1 DEF IInv, ServiceInv
  <2>4. NetInv'
    BY <1>4, <2>1, Unlistened DEF ForcedStop
  <2>5. GateInv'
    BY <2>1, <2>2 DEF IInv, GateInv
  <2> QED
    BY <2>2, <2>3, <2>4, <2>5 DEF IInv
<1>5. CASE OnDestroy
  <2>1. /\ StopWorker /\ main' = main /\ main = "idle" /\ ~Accepting /\ ~Accepting'
        /\ phase' = "none" /\ run' = 0 /\ instance' = NextInstance
        /\ gate' = FreshGate /\ free' = FreshGate.limit
        /\ UNCHANGED <<started, home, pending, tail, net>>
    BY <1>5 DEF OnDestroy, Accepting
  <2>2. JobInv' /\ StatusInv' /\ SnapInv' /\ IteratorInv' /\ PermitsExact' /\ CoroutineInv'
    BY <2>1, StopKeeps DEF IInv, CoroutineInv
  <2>3. ServiceInv'
    BY <2>1, NextObject
  <2>4. NetInv'
    BY <1>5, <2>1, Unlistened DEF OnDestroy
  <2>5. GateInv'
    BY <2>1, <2>2 DEF GateInv, FreshGate
  <2> QED
    BY <2>2, <2>3, <2>4, <2>5 DEF IInv
<1>6. ASSUME NEW p \in BOOLEAN, PauseIntent(p) PROVE IInv'
  <2>1. /\ main' \in {"idle", "publishRunning", "publishEnded"} /\ ~Accepting'
        /\ gate' = [gate EXCEPT !.manual = p]
        /\ UNCHANGED <<instance, phase, started, home, run, stopped, job, active,
                       status, pending, co, free, tail, net, air, snap, unwritten>>
    BY <1>6 DEF PauseIntent, RefreshRead, Accepting
  <2>2. /\ gate' \in [manual : BOOLEAN, network : BOOLEAN, limit : 1..3, wifiOnly : BOOLEAN]
        /\ gate'.limit = gate.limit
    BY <2>1 DEF IInv, GateInv
  <2>3. GateInv'
    BY <2>1, <2>2 DEF IInv, GateInv, PermitsExact, Holding
  <2>4. ServiceInv' /\ JobInv' /\ CoroutineInv'
    BY <2>1, MainFrames
  <2> QED
    BY <2>1, <2>3, <2>4, Frames DEF IInv
<1>7. CASE RefreshMain
  <2>1. main' = "idle" /\ ~Accepting'
    BY <1>7 DEF RefreshMain, Accepting
  <2>2. ServiceInv' /\ JobInv' /\ GateInv' /\ CoroutineInv'
    BY <1>7, <2>1, MainFrames DEF RefreshMain
  <2>3. SnapInv'
    BY <1>7, Written DEF RefreshMain
  <2> QED
    BY <1>7, <2>2, <2>3, Frames DEF RefreshMain, IInv
<1> QED
  BY <1>1, <1>2, <1>3, <1>4, <1>5, <1>6, <1>7

(* The connectivity thread and the fallback job. *)
LEMMA NetPreserves ==
    ASSUME IInv,
           WifiChange \/ NetworkCallback \/ MissCallback \/ NetworkFallback \/ RefreshNet
    PROVE  IInv'
<1>1. /\ UNCHANGED <<instance, phase, started, home, run, stopped, job, active,
                     status, pending, co, free, tail, main>>
  BY DEF WifiChange, NetworkCallback, MissCallback, NetworkFallback, RefreshNet
<1>2. ServiceInv' /\ JobInv' /\ StatusInv' /\ IteratorInv' /\ CoroutineInv'
  BY <1>1, Frames DEF IInv
<1>3. SnapInv'
  <2>1. CASE UNCHANGED <<snap, unwritten>>
    BY <1>1, <2>1, Frames DEF IInv
  <2>2. CASE RefreshNet /\ net.home = instance
    BY <1>1, <2>2, Written DEF RefreshNet
  <2>3. CASE RefreshNet /\ WriteStaleSnapshot(net.home)
    <3>1. PICK r \in 1..started : home[r] = net.home
      BY <2>3 DEF RefreshNet, IInv, NetInv
    <3> QED
      BY <1>1, <2>3, <3>1, WrittenLate
  <2> QED
    BY <2>1, <2>2, <2>3
       DEF WifiChange, NetworkCallback, MissCallback, NetworkFallback, RefreshNet
<1>4. GateInv'
  <2>1. CASE UNCHANGED gate
    BY <1>1, <2>1, Frames DEF IInv
  <2>2. CASE gate' = [gate EXCEPT !.network = gate.wifiOnly /\ ~air.wifi]
    <3> DEFINE b == gate.wifiOnly /\ ~air.wifi
    <3>1. b \in BOOLEAN /\ gate' = [gate EXCEPT !.network = b]
      BY <2>2
    <3> HIDE DEF b
    <3>2. /\ gate' \in [manual : BOOLEAN, network : BOOLEAN, limit : 1..3,
                        wifiOnly : BOOLEAN]
          /\ gate'.limit = gate.limit
      BY <3>1 DEF IInv, GateInv
    <3> QED
      BY <1>1, <3>2 DEF IInv, GateInv, PermitsExact, Holding, Accepting
  <2> QED
    BY <2>1, <2>2
       DEF WifiChange, NetworkCallback, MissCallback, NetworkFallback, RefreshNet
<1>5. NetInv'
  <2>1. /\ air' \in [wifi : BOOLEAN, notice : BOOLEAN, listening : BOOLEAN,
                     changes : 0..MaxWifiChanges]
        /\ air'.listening = air.listening
    <3>1. CASE WifiChange
      <4> DEFINE b == ~air.wifi
                 n == air.changes + 1
      <4>1. air' = [air EXCEPT !.wifi = b, !.notice = air.listening, !.changes = n]
        BY <3>1 DEF WifiChange
      <4>2. b \in BOOLEAN
        OBVIOUS
      <4>3. n \in 0..MaxWifiChanges
        BY <3>1, ConstantsAssumption DEF WifiChange, IInv, NetInv
      <4> HIDE DEF b, n
      <4> QED
        BY <4>1, <4>2, <4>3 DEF IInv, NetInv
    <3>2. CASE air' = [air EXCEPT !.notice = FALSE]
      BY <3>2 DEF IInv, NetInv
    <3>3. CASE UNCHANGED air
      BY <3>3 DEF IInv, NetInv
    <3> QED
      BY <3>1, <3>2, <3>3 DEF NetworkCallback, MissCallback, NetworkFallback, RefreshNet
  <2>2. \/ UNCHANGED net
        \/ net' = AtRest
        \/ net' = [at |-> RefreshRead, home |-> instance] /\ air.listening
    BY DEF WifiChange, NetworkCallback, MissCallback, NetworkFallback, RefreshNet
  <2>3. RefreshRead \in {"idle", "publishRunning", "publishEnded"}
    BY DEF RefreshRead
  <2>4. /\ net' \in [at : {"idle", "publishRunning", "publishEnded"}, home : Nat]
        /\ net'.at # "idle" => \E r \in 1..started : home[r] = net'.home
    <3>1. CASE UNCHANGED net
      BY <3>1 DEF IInv, NetInv
    <3>2. CASE net' = AtRest
      BY <3>2 DEF AtRest
    <3>3. CASE net' = [at |-> RefreshRead, home |-> instance] /\ air.listening
      <4>1. instance \in Nat
        BY ConstantsAssumption DEF IInv, ServiceInv
      <4>2. \E r \in 1..started : home[r] = instance
        BY <3>3 DEF IInv, NetInv
      <4>3. net'.home = instance
        BY <3>3
      <4> QED
        BY <2>3, <3>3, <4>1, <4>2, <4>3
    <3> QED
      BY <2>2, <3>1, <3>2, <3>3
  <2> QED
    BY <1>1, <2>1, <2>4 DEF IInv, NetInv
<1> QED
  BY <1>2, <1>3, <1>4, <1>5 DEF IInv

(* What a coroutine reports: updateItem says nothing once the service has  *)
(* stopped.                                                                *)
LEMMA Reported ==
    ASSUME IInv, NEW r \in Runs, NEW i \in Items, NEW to \in Statuses,
           UpdateItem(r, i, to), UNCHANGED <<stopped, run>>
    PROVE  StatusInv'
<1>1. CASE UNCHANGED status
  BY <1>1, Frames DEF IInv
<1>2. CASE ~stopped /\ status' = [status EXCEPT ![run][i] = to]
  <2>1. run \in 0..MaxRuns /\ run # 0
    BY <1>2, ConstantsAssumption DEF IInv, ServiceInv, StatusInv
  <2>2. status' \in [0..MaxRuns -> [Items -> Statuses]]
    BY <1>2, <2>1 DEF IInv, StatusInv
  <2>3. status'[0] = NoItems
    BY <1>2, <2>1 DEF IInv, StatusInv
  <2>4. StoppedMeansRequeued'
    BY <1>2 DEF StoppedMeansRequeued
  <2> QED
    BY <2>1, <2>2, <2>3, <2>4 DEF IInv, StatusInv, NoItems
<1> QED
  BY <1>1, <1>2 DEF UpdateItem

(* What every step of a coroutine leaves alone. *)
LEMMA CoroutineFrame ==
    ASSUME IInv, NEW r \in Runs, NEW i \in Items, Coroutine(r, i)
    PROVE  /\ UNCHANGED <<threads, stopped, job, active, pending, tail>>
           /\ UNCHANGED <<main, gate, run, started>>
           /\ ServiceInv' /\ JobInv' /\ NetInv'
<1>1. UNCHANGED <<threads, stopped, job, active, pending, tail>>
  BY DEF Coroutine, TakePermit, AcquireSlot, CheckSlot, EnsureActive, Update,
         Publish, EngineReturns, PostProcessed, PostThrows
<1> QED
  BY <1>1, Frames DEF threads, IInv

(* A step of a coroutine, by the place it moves to. *)
LEMMA CoroutineMoves ==
    ASSUME IInv, NEW r \in Runs, NEW i \in Items, Coroutine(r, i)
    PROVE  GateInv' /\ IteratorInv' /\ CoroutineInv'
<1>1. UNCHANGED <<pending, tail, active, started, run, main, gate>>
  BY CoroutineFrame
<1>2. co[r][i] \in CoType /\ co[r][i].at \in Places /\ co[r][i].to \in Statuses
  BY DEF IInv, CoroutineInv, CoType
<1>3. Slotted = {"slotted", "check", "update", "publish", "engine", "post"}
  BY SlottedIs
<1>4. ASSUME NEW p \in Places, co' = [co EXCEPT ![r][i].at = p]
      PROVE  /\ co' = [co EXCEPT ![r][i] = [at |-> p, to |-> co[r][i].to]]
             /\ [at |-> p, to |-> co[r][i].to] \in CoType
             /\ [at |-> p, to |-> co[r][i].to].at = p
  <2>1. [co[r][i] EXCEPT !.at = p] = [at |-> p, to |-> co[r][i].to]
    BY <1>2 DEF CoType
  <2>2. co' = [co EXCEPT ![r][i] = [co[r][i] EXCEPT !.at = p]]
    BY <1>4 DEF IInv, CoroutineInv
  <2> QED
    BY <1>2, <2>1, <2>2 DEF CoType
<1>5. ASSUME NEW p \in Places, NEW t \in Statuses
      PROVE  [at |-> p, to |-> t] \in CoType /\ [at |-> p, to |-> t].at = p
  BY DEF CoType
<1>6. Finished \in CoType /\ Finished.at = "finished"
  BY DEF Finished, CoType, Places, Statuses
<1>7. co[r][i].at \in Waits => r \in active
  BY DEF IInv, CoroutineInv
<1>8. CASE TakePermit(r, i)
  <2>1. co[r][i].at = "taken" /\ free' = free /\ co' = [co EXCEPT ![r][i].at = "queueing"]
    BY <1>8 DEF TakePermit, Move
  <2> DEFINE m == [at |-> "queueing", to |-> co[r][i].to]
  <2>2. co' = [co EXCEPT ![r][i] = m] /\ m \in CoType /\ m.at = "queueing"
    BY <1>4, <2>1 DEF Places
  <2> HIDE DEF m
  <2>3. "taken" \in Working /\ r \in active /\ "taken" \notin Slotted /\ "queueing" \notin Slotted
    BY <1>3, <1>7, <2>1 DEF Working, Places, Waits
  <2> QED
    BY <1>1, <2>1, <2>2, <2>3, CoMoves
<1>9. CASE AcquireSlot(r, i)
  <2>1. /\ co[r][i].at = "queueing" /\ free' = free - 1 /\ free > 0
        /\ co' = [co EXCEPT ![r][i].at = "slotted"]
    BY <1>9 DEF AcquireSlot, Move
  <2> DEFINE m == [at |-> "slotted", to |-> co[r][i].to]
  <2>2. co' = [co EXCEPT ![r][i] = m] /\ m \in CoType /\ m.at = "slotted"
    BY <1>4, <2>1 DEF Places
  <2> HIDE DEF m
  <2>3. "queueing" \in Working /\ r \in active /\ "queueing" \notin Slotted /\ "slotted" \in Slotted
    BY <1>3, <1>7, <2>1 DEF Working, Places, Waits
  <2> QED
    BY <1>1, <2>1, <2>2, <2>3, CoMoves
<1>10. CASE CheckSlot(r, i)
  <2>1. co[r][i].at = "slotted" /\ r \in active
    BY <1>7, <1>10 DEF CheckSlot, Waits
  <2>2. "slotted" \in Working /\ "slotted" \in Slotted /\ "check" \in Slotted
        /\ "queueing" \notin Slotted
    BY <1>3 DEF Working, Places
  <2>3. CASE Paused
    <3>1. free' = free + 1 /\ co' = [co EXCEPT ![r][i].at = "queueing"]
      BY <1>10, <2>3 DEF CheckSlot, Move
    <3> DEFINE m == [at |-> "queueing", to |-> co[r][i].to]
    <3>2. co' = [co EXCEPT ![r][i] = m] /\ m \in CoType /\ m.at = "queueing"
      BY <1>4, <3>1 DEF Places
    <3> HIDE DEF m
    <3> QED
      BY <1>1, <2>1, <2>2, <3>1, <3>2, CoMoves
  <2>4. CASE ~Paused
    <3> DEFINE m == [at |-> "check", to |-> "downloading"]
    <3>1. free' = free /\ co' = [co EXCEPT ![r][i] = m]
      BY <1>10, <2>4 DEF CheckSlot
    <3>2. m \in CoType /\ m.at = "check"
      BY <1>5 DEF Places, Statuses
    <3> HIDE DEF m
    <3> QED
      BY <1>1, <2>1, <2>2, <3>1, <3>2, CoMoves
  <2> QED
    BY <2>3, <2>4
<1>11. ASSUME NEW m \in CoType, co' = [co EXCEPT ![r][i] = m],
              co[r][i].at \in Slotted, m.at \in Slotted \ {"slotted"}, UNCHANGED free
       PROVE  GateInv' /\ IteratorInv' /\ CoroutineInv'
  <2>1. co[r][i].at \in Working /\ m.at # "none" /\ m.at \notin Waits /\ m.at \in Slotted
    BY <1>3, <1>11 DEF Working, Places, Waits
  <2> QED
    BY <1>1, <1>11, <2>1, CoMoves
<1>12. ASSUME co' = [co EXCEPT ![r][i] = Finished], co[r][i].at \in Slotted,
              free' = IF r \in active THEN free + 1 ELSE free
       PROVE  GateInv' /\ IteratorInv' /\ CoroutineInv'
  <2>1. co[r][i].at \in Working /\ Finished.at # "none" /\ Finished.at \notin Waits
        /\ Finished.at \notin Slotted
    BY <1>3, <1>6, <1>12 DEF Working, Places, Waits
  <2> QED
    BY <1>1, <1>6, <1>12, <2>1, CoMoves
<1>13. {"check", "update", "publish", "engine", "post"} \subseteq Slotted \ {"slotted"}
       /\ {"check", "update", "publish", "engine", "post"} \subseteq Places
       /\ {"downloading", "done", "failed", "finalizing"} \subseteq Statuses
  BY <1>3 DEF Places, Statuses
<1>14. CASE EnsureActive(r, i)
  <2>1. co[r][i].at = "check" /\ free' = free
    BY <1>14 DEF EnsureActive
  <2>2. CASE r \in active
    <3>1. co' = [co EXCEPT ![r][i] = [co[r][i] EXCEPT !.at = "update"]]
      BY <1>14, <2>2 DEF EnsureActive, IInv, CoroutineInv
    <3> DEFINE m == [co[r][i] EXCEPT !.at = "update"]
    <3>2. m \in CoType /\ m.at = "update"
      BY <1>2, <1>13 DEF CoType
    <3> HIDE DEF m
    <3>3. co' = [co EXCEPT ![r][i] = m]
      BY <3>1 DEF m
    <3> QED
      BY <1>11, <1>13, <2>1, <3>2, <3>3
  <2>3. CASE r \notin active
    <3>1. co' = [co EXCEPT ![r][i] = Finished]
      BY <1>14, <2>3 DEF EnsureActive
    <3> QED
      BY <1>12, <1>13, <2>1, <2>3, <3>1
  <2> QED
    BY <2>2, <2>3
<1>15. CASE Update(r, i)
  <2>1. co[r][i].at = "update" /\ free' = free /\ co' = [co EXCEPT ![r][i].at = "publish"]
    BY <1>15 DEF Update, Move
  <2> DEFINE m == [at |-> "publish", to |-> co[r][i].to]
  <2>2. co' = [co EXCEPT ![r][i] = m] /\ m \in CoType /\ m.at = "publish"
    BY <1>4, <1>13, <2>1
  <2> HIDE DEF m
  <2> QED
    BY <1>11, <1>13, <2>1, <2>2
<1>16. CASE Publish(r, i)
  <2>1. co[r][i].at = "publish"
    BY <1>16 DEF Publish
  <2>2. CASE co[r][i].to \notin {"downloading", "finalizing"}
    <3>1. /\ co' = [co EXCEPT ![r][i] = Finished]
          /\ free' = IF r \in active THEN free + 1 ELSE free
      BY <1>16, <2>2 DEF Publish
    <3> QED
      BY <1>12, <1>13, <2>1, <3>1
  <2>3. ASSUME NEW p \in {"engine", "post"},
               co' = [co EXCEPT ![r][i] = [co[r][i] EXCEPT !.at = p]], free' = free
        PROVE  GateInv' /\ IteratorInv' /\ CoroutineInv'
    <3> DEFINE m == [co[r][i] EXCEPT !.at = p]
    <3>1. m \in CoType /\ m.at = p
      BY <1>2, <1>13 DEF CoType
    <3> HIDE DEF m
    <3>2. co' = [co EXCEPT ![r][i] = m]
      BY <2>3 DEF m
    <3> QED
      BY <1>11, <1>13, <2>1, <2>3, <3>1, <3>2
  <2>4. CASE co[r][i].to = "downloading"
    <3>1. co' = [co EXCEPT ![r][i] = [co[r][i] EXCEPT !.at = "engine"]] /\ free' = free
      BY <1>16, <2>4 DEF Publish, IInv, CoroutineInv
    <3> QED
      BY <2>3, <3>1
  <2>5. CASE co[r][i].to = "finalizing"
    <3>1. co' = [co EXCEPT ![r][i] = [co[r][i] EXCEPT !.at = "post"]] /\ free' = free
      BY <1>16, <2>5 DEF Publish, IInv, CoroutineInv
    <3> QED
      BY <2>3, <3>1
  <2> QED
    BY <2>2, <2>4, <2>5
<1>17. ASSUME NEW p \in {"check", "update"}, NEW t \in {"done", "failed", "finalizing"},
              co' = [co EXCEPT ![r][i] = [at |-> p, to |-> t]],
              co[r][i].at \in {"engine", "post"}, UNCHANGED free
       PROVE  GateInv' /\ IteratorInv' /\ CoroutineInv'
  <2> DEFINE m == [at |-> p, to |-> t]
  <2>1. m \in CoType /\ m.at = p
    BY <1>5, <1>13
  <2>2. co' = [co EXCEPT ![r][i] = m]
    BY <1>17
  <2> HIDE DEF m
  <2> QED
    BY <1>11, <1>13, <1>17, <2>1, <2>2
<1>18. CASE \E result \in {"done", "failed", "finalizing"} : EngineReturns(r, i, result)
  BY <1>17, <1>18 DEF EngineReturns
<1>19. CASE PostProcessed(r, i) \/ PostThrows(r, i)
  BY <1>17, <1>19 DEF PostProcessed, PostThrows
<1> QED
  BY <1>8, <1>9, <1>10, <1>14, <1>15, <1>16, <1>18, <1>19 DEF Coroutine

(* The coroutines of a batch. *)
LEMMA CoroutinePreserves ==
    ASSUME IInv, NEW r \in Runs, NEW i \in Items, Coroutine(r, i)
    PROVE  IInv'
<1>1. /\ UNCHANGED <<run, started, stopped>>
      /\ ServiceInv' /\ JobInv' /\ NetInv'
  BY CoroutineFrame DEF threads
<1>2. GateInv' /\ IteratorInv' /\ CoroutineInv'
  BY CoroutineMoves
<1>3. StatusInv'
  <2>1. CASE Update(r, i)
    <3>1. co[r][i].to \in Statuses
      BY DEF IInv, CoroutineInv, CoType
    <3> QED
      BY <1>1, <2>1, <3>1, Reported DEF Update
  <2>2. CASE ~Update(r, i)
    <3>1. UNCHANGED status
      BY <2>2 DEF Coroutine, TakePermit, AcquireSlot, CheckSlot, EnsureActive,
                  Publish, EngineReturns, PostProcessed, PostThrows
    <3> QED
      BY <1>1, <3>1, Frames DEF IInv
  <2> QED
    BY <2>1, <2>2
<1>4. SnapInv'
  <2>1. CASE Publish(r, i) /\ ~Stale(r)
    BY <1>1, <2>1, Written DEF Publish
  <2>2. CASE ~(Publish(r, i) /\ ~Stale(r))
    <3>1. UNCHANGED <<snap, unwritten>>
      BY <2>2 DEF Coroutine, TakePermit, AcquireSlot, CheckSlot, EnsureActive, Update,
                  Publish, EngineReturns, PostProcessed, PostThrows
    <3> QED
      BY <1>1, <3>1, Frames DEF IInv
  <2> QED
    BY <2>1, <2>2
<1> QED
  BY <1>1, <1>2, <1>3, <1>4 DEF IInv

(* runAll hands out the next item of the batch. *)
LEMMA TakePreserves ==
    ASSUME IInv, NEW r \in Runs, Take(r)
    PROVE  IInv'
<1> DEFINE i == Head(pending[r])
<1>1. /\ r \in active /\ pending[r] # <<>>
      /\ UNCHANGED <<threads, stopped, job, active, status, free, tail, snap, unwritten>>
      /\ pending' = [pending EXCEPT ![r] = Tail(pending[r])]
  BY DEF Take, IInv, IteratorInv
<1>2. UNCHANGED <<main, net, air, gate, instance, phase, started, home, run>>
  BY <1>1 DEF threads
<1>3. /\ pending[r] \in Seq(Items) /\ Len(pending[r]) \in Nat
      /\ 1 \in DOMAIN pending[r] /\ i = pending[r][1] /\ i \in Items
      /\ Tail(pending[r]) \in Seq(Items)
      /\ \A n \in DOMAIN Tail(pending[r]) :
             n + 1 \in DOMAIN pending[r] /\ n \in Nat /\ n # 0
             /\ Tail(pending[r])[n] = pending[r][n + 1]
  <2>1. pending[r] \in Seq(Items)
    BY DEF IInv, IteratorInv
  <2> QED
    BY <1>1, <2>1
<1>4. co[r][i].at \in {"none", "finished"} /\ co[r][i] \in CoType
  BY <1>3 DEF IInv, IteratorInv, CoroutineInv
<1> DEFINE m == [co[r][i] EXCEPT !.at = "taken"]
<1>5. m \in CoType /\ m.at = "taken"
  BY <1>4 DEF CoType, Places
<1>6. co' = [co EXCEPT ![r][i] = m]
  BY <1>3 DEF Take, Move, IInv, CoroutineInv
<1> HIDE DEF m, i
<1>7. /\ co' \in [Runs -> [Items -> CoType]]
      /\ \A q \in Runs, j \in Items : co'[q][j] = IF q = r /\ j = i THEN m ELSE co[q][j]
      /\ \A q \in Runs : q # r => Holding(q, Slotted)' = Holding(q, Slotted)
      /\ Holding(r, Slotted)' = IF m.at \in Slotted THEN Holding(r, Slotted) \cup {i}
                                ELSE Holding(r, Slotted) \ {i}
      /\ i \in Holding(r, Slotted) <=> co[r][i].at \in Slotted
  <2>1. i \in Items
    BY <1>3
  <2> QED
    BY <1>5, <1>6, <2>1, CoStep DEF IInv
<1>8. \A q \in Runs : Holding(q, Slotted)' = Holding(q, Slotted)
  <2>1. m.at \notin Slotted /\ i \notin Holding(r, Slotted)
    BY <1>4, <1>5, <1>7, SlottedIs
  <2> QED
    BY <1>7, <2>1
<1>9. active \subseteq Runs
  BY ConstantsAssumption DEF IInv, JobInv, ServiceInv, Runs
<1>10. GateInv'
  BY <1>1, <1>2, <1>8, <1>9 DEF IInv, GateInv, PermitsExact, Slotted, Accepting
<1>11. CoroutineInv'
  <2>1. ~(r > started) /\ ~Accepting
    BY <1>1, ConstantsAssumption DEF IInv, JobInv, ServiceInv, Runs
  <2> QED
    BY <1>1, <1>2, <1>5, <1>7, <2>1 DEF IInv, CoroutineInv, Accepting
<1>12. IteratorInv'
  <2>1. pending' \in [Runs -> Seq(Items)]
    BY <1>1, <1>3 DEF IInv, IteratorInv
  <2>2. \A q \in Runs : pending'[q] = IF q = r THEN Tail(pending[r]) ELSE pending[q]
    BY <1>1 DEF IInv, IteratorInv
  <2>3. ASSUME NEW q \in Runs
        PROVE  /\ \A a, b \in DOMAIN pending'[q] : pending'[q][a] = pending'[q][b] => a = b
               /\ \A a \in DOMAIN pending'[q] :
                      co'[q][pending'[q][a]].at \in {"none", "finished"}
    <3>1. CASE q # r
      <4>1. \A a \in DOMAIN pending[q] : pending[q][a] \in Items
        BY DEF IInv, IteratorInv
      <4>2. pending'[q] = pending[q]
        BY <2>2, <3>1
      <4>3. \A j \in Items : co'[q][j] = co[q][j]
        BY <1>7, <3>1
      <4> QED
        BY <4>1, <4>2, <4>3 DEF IInv, IteratorInv
    <3>2. CASE q = r
      <4>1. pending'[q] = Tail(pending[r])
        BY <2>2, <3>2
      <4>2. \A a, b \in DOMAIN pending[r] : pending[r][a] = pending[r][b] => a = b
        BY DEF IInv, IteratorInv
      <4>3. \A a, b \in DOMAIN Tail(pending[r]) :
                Tail(pending[r])[a] = Tail(pending[r])[b] => a = b
        <5> TAKE a, b \in DOMAIN Tail(pending[r])
        <5> HAVE Tail(pending[r])[a] = Tail(pending[r])[b]
        <5>1. a + 1 = b + 1 /\ a \in Nat /\ b \in Nat
          BY <1>3, <4>2
        <5> QED
          BY <5>1
      <4>4. ASSUME NEW a \in DOMAIN Tail(pending[r])
            PROVE  co'[r][Tail(pending[r])[a]].at \in {"none", "finished"}
        <5>1. a + 1 \in DOMAIN pending[r] /\ a + 1 # 1
              /\ Tail(pending[r])[a] = pending[r][a + 1] /\ pending[r][a + 1] \in Items
          BY <1>3
        <5>2. pending[r][a + 1] # i
          BY <1>3, <4>2, <5>1
        <5>3. co[r][pending[r][a + 1]].at \in {"none", "finished"}
          BY <5>1 DEF IInv, IteratorInv
        <5> QED
          BY <1>7, <5>1, <5>2, <5>3
      <4> QED
        BY <3>2, <4>1, <4>3, <4>4
    <3> QED
      BY <3>1, <3>2
  <2> QED
    BY <2>1, <2>3 DEF IteratorInv
<1> QED
  BY <1>1, <1>2, <1>10, <1>11, <1>12, Frames DEF IInv

(* The end of runWorker, and pollProgress. *)
LEMMA TailPreserves ==
    ASSUME IInv, NEW r \in Runs,
           \/ JoinAll(r) \/ ReportEnd(r) \/ StopTail(r) \/ StopStaleTail(r)
           \/ ReleaseTail(r) \/ PollProgress(r)
    PROVE  IInv'
<1>1. ASSUME NEW t \in {"report", "stop", "release", "done"}, tail[r] # "none",
             tail' = [tail EXCEPT ![r] = t]
      PROVE  /\ tail' \in [Runs -> {"none", "work", "report", "stop", "release", "done"}]
             /\ \A q \in Runs : q > started => tail'[q] = "none"
  <2>1. ~(r > started)
    BY <1>1 DEF IInv, CoroutineInv
  <2> QED
    BY <1>1, <2>1 DEF IInv, CoroutineInv
<1>2. ASSUME NEW t \in {"report", "stop", "release", "done"}, tail[r] # "none",
             tail' = [tail EXCEPT ![r] = t],
             UNCHANGED <<co, active, started, run, main>>
      PROVE  CoroutineInv'
  <2>1. /\ tail' \in [Runs -> {"none", "work", "report", "stop", "release", "done"}]
        /\ \A q \in Runs : q > started => tail'[q] = "none"
    BY <1>1, <1>2
  <2> QED
    BY <1>2, <2>1 DEF IInv, CoroutineInv, Accepting
<1>3. CASE JoinAll(r)
  <2>1. CoroutineInv'
    BY <1>2, <1>3 DEF JoinAll, threads
  <2> QED
    BY <1>3, <2>1, Frames DEF JoinAll, threads, IInv
<1>4. CASE ReportEnd(r)
  <2>1. UNCHANGED <<threads, stopped, job, active, status, pending, co, free>>
        /\ tail' = [tail EXCEPT ![r] = "stop"] /\ tail[r] = "report"
    BY <1>4 DEF ReportEnd
  <2>2. CoroutineInv'
    BY <1>2, <2>1 DEF threads
  <2>3. r \in 1..started
    <3>1. ~(r > started)
      BY <2>1 DEF IInv, CoroutineInv
    <3>2. started \in Nat /\ r \in Nat /\ r # 0
      BY ConstantsAssumption DEF IInv, ServiceInv, Runs
    <3> QED
      BY <3>1, <3>2
  <2>4. SnapInv'
    <3>1. CASE Stale(r)
      BY <1>4, <2>1, <2>3, <3>1, WrittenLate DEF ReportEnd, threads
    <3>2. CASE ~Stale(r)
      BY <1>4, <2>1, <3>2, Written DEF ReportEnd, threads
    <3> QED
      BY <3>1, <3>2
  <2> QED
    BY <2>1, <2>2, <2>4, Frames DEF threads, IInv
<1>5. CASE StopTail(r)
  <2>1. /\ StopWorker /\ tail[r] = "stop" /\ tail' = [tail EXCEPT ![r] = "release"]
        /\ UNCHANGED <<threads, pending, free>>
    BY <1>5 DEF StopTail
  <2>2. UNCHANGED <<main, net, air, gate, instance, phase, started, home, run>>
    BY <2>1 DEF threads
  <2>3. /\ tail' \in [Runs -> {"none", "work", "report", "stop", "release", "done"}]
        /\ \A q \in Runs : q > started => tail'[q] = "none"
    BY <1>1, <2>1
  <2>4. JobInv' /\ StatusInv' /\ SnapInv' /\ IteratorInv' /\ PermitsExact' /\ CoroutineInv'
    BY <2>1, <2>2, <2>3, StopKeeps
  <2>5. GateInv'
    BY <2>1, <2>2, <2>4 DEF IInv, GateInv, Accepting
  <2> QED
    BY <2>2, <2>4, <2>5, Frames DEF IInv
<1>6. CASE StopStaleTail(r)
  <2>1. CoroutineInv'
    BY <1>2, <1>6 DEF StopStaleTail, threads
  <2> QED
    BY <1>6, <2>1, Frames DEF StopStaleTail, threads, IInv
<1>7. CASE ReleaseTail(r)
  <2>1. CoroutineInv'
    BY <1>2, <1>7 DEF ReleaseTail
  <2>2. NetInv'
    BY <1>7, Unlistened DEF ReleaseTail
  <2>3. ServiceInv'
    BY <1>7 DEF ReleaseTail, IInv, ServiceInv
  <2> QED
    BY <1>7, <2>1, <2>2, <2>3, Frames DEF ReleaseTail, IInv
<1>8. CASE PollProgress(r)
  <2>1. SnapInv'
    BY <1>8, Written DEF PollProgress, threads
  <2> QED
    BY <1>8, <2>1, Frames DEF PollProgress, threads, IInv
<1> QED
  BY <1>3, <1>4, <1>5, <1>6, <1>7, <1>8

(* A killed process leaves the file, and what it says of the run is no     *)
(* longer about a run of this process.                                     *)
LEMMA CrashPreserves ==
    ASSUME IInv, Crash
    PROVE  IInv'
<1>1. /\ instance' = NextInstance /\ phase' = "none" /\ run' = 0 /\ stopped' = TRUE
      /\ job' = 0 /\ active' = {} /\ main' = "idle" /\ net' = AtRest /\ ~Accepting'
      /\ UNCHANGED <<started, home, status, snap, unwritten>>
  BY DEF Crash, Accepting
<1>2. ServiceInv'
  BY <1>1, NextObject
<1>3. JobInv'
  BY <1>1, ConstantsAssumption DEF IInv, ServiceInv, JobInv
<1>4. StatusInv'
  <2>1. \A i \in Items : status'[0][i] = "absent"
    BY <1>1 DEF IInv, StatusInv, NoItems
  <2>2. StoppedMeansRequeued'
    BY <1>1, <2>1 DEF StoppedMeansRequeued
  <2> QED
    BY <1>1, <2>2 DEF IInv, StatusInv, NoItems
<1>5. SnapInv'
  BY <1>1 DEF IInv, SnapInv, StoppedNotRunning
<1>6. NetInv'
  BY <1>1, Unlistened DEF Crash
<1>7. GateInv'
  BY <1>1 DEF Crash, GateInv, FreshGate, PermitsExact
<1>8. Idle \in CoType /\ Idle.at = "none"
  BY DEF Idle, CoType, Places, Statuses
<1>9. CoroutineInv'
  BY <1>1, <1>8 DEF Crash, CoroutineInv, Waits
<1>10. IteratorInv'
  <2>1. <<>> \in Seq(Items) /\ DOMAIN <<>> = {}
    BY EmptySeq
  <2>2. pending' \in [Runs -> Seq(Items)]
    BY <2>1 DEF Crash
  <2>3. \A r \in Runs : DOMAIN pending'[r] = {}
    BY <2>1 DEF Crash
  <2> QED
    BY <2>2, <2>3 DEF IteratorInv
<1> QED
  BY <1>2, <1>3, <1>4, <1>5, <1>6, <1>7, <1>9, <1>10 DEF IInv

(* Every step keeps the invariant. *)
LEMMA NextPreserves == IInv /\ [Next]_vars => IInv'
<1> SUFFICES ASSUME IInv, [Next]_vars PROVE IInv'
  OBVIOUS
<1>1. CASE Intents \/ MainThread
  BY <1>1, StartPreserves, MainPreserves DEF Intents, MainThread
<1>2. CASE WifiChange \/ NetworkCallback \/ MissCallback \/ NetworkFallback \/ RefreshNet
  BY <1>2, NetPreserves
<1>3. ASSUME NEW r \in Runs, ParentCoroutine(r) \/ PollProgress(r) PROVE IInv'
  BY <1>3, TakePreserves, TailPreserves DEF ParentCoroutine
<1>4. ASSUME NEW r \in Runs, NEW i \in Items, Coroutine(r, i) PROVE IInv'
  BY <1>4, CoroutinePreserves
<1>5. CASE UNCHANGED vars
  BY <1>5, Frames DEF vars, IInv
<1> QED
  BY <1>1, <1>2, <1>3, <1>4, <1>5, CrashPreserves DEF Next

LEMMA Inductive == Spec => []IInv
  BY InitEstablishes, NextPreserves, PTL DEF Spec

-----------------------------------------------------------------------------
(* The service's state is well typed, and no permit of the gate is lost or *)
(* invented while a batch is alive, whatever pauses, stops and kills come. *)
THEOREM PermitsAreExact == Spec => []WorkerInv
  BY Inductive, Typed, PTL

(* After a stop no item of the batch is left in the middle, whatever a     *)
(* blocking engine call reports when it finally returns (updateItem).      *)
THEOREM StopRequeues == Spec => []StoppedMeansRequeued
<1>1. IInv => StoppedMeansRequeued
  BY DEF IInv, StatusInv
<1> QED
  BY <1>1, Inductive, PTL

(* Once the service stopped, the file says "running" of its run only when  *)
(* the latest write of it failed, which the code swallows: no late         *)
(* progress, pause or network refresh publishes it again (writeSnapshot).  *)
THEOREM StopIsPublished == Spec => []StoppedNotRunning
<1>1. IInv => StoppedNotRunning
  BY DEF IInv, SnapInv
<1> QED
  BY <1>1, Inductive, PTL
=============================================================================
