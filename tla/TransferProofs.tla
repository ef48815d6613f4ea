--------------------------- MODULE TransferProofs ---------------------------
(***************************************************************************)
(* Proofs about the two kinds of transfer on one output path, for any      *)
(* lists of segments, any number of workers, any versions of an object,    *)
(* any number of calls and crashes.                                        *)
(***************************************************************************)
EXTENDS MCTransfers, FiniteSetTheorems, SequenceTheorems, NaturalsInduction,
        WellFoundedInduction, TLAPS

\* An object is never replaced by a longer one.
Shrinks ==
    \A v, w \in Versions : v <= w => Lengths[w] <= Lengths[v]

-----------------------------------------------------------------------------
(* The inductive invariant.                                                *)

\* What a staging file can hold.
Pieces == {Junk} \cup (Lists \X Nat \X Nat) \cup (Versions \X Nat)

FileInv ==
    /\ FileTypeOK
    /\ partial \in Seq(Pieces) /\ synced \in Seq(Pieces)

\* The staging file of a segmented download is never too short.
LengthInv ==
    /\ pc \notin {"idle", "clean"} => 2 * next <= Len(partial)
    /\ pc = "append" => 2 * next < Len(partial)

Positions ==
    {"idle", "spawn", "loop", "assemble", "append", "sync", "rename", "slot",
     "ended", "finalSync", "finalRename", "publish", "promote", "clean", "drop"}

Looping == {"spawn", "loop", "assemble", "append", "sync", "rename", "slot"}

\* The position of the coordinator and its types.
CallInv ==
    /\ pc \in Positions
    /\ list \in Lists \cup {NoCheckpoint.list}
    /\ pc # "idle" => list \in Lists
    /\ next \in 0..Segments
    /\ pc \in {"sync", "rename", "finalSync", "finalRename"} => next > 0
    /\ checkpoint \in [list : Lists, next : 1..Segments] \cup {NoCheckpoint}
    /\ stop \in BOOLEAN /\ failed \in BOOLEAN /\ jobsOpen \in BOOLEAN

\* The first segment that no worker has taken.
Front == nextJob - Len(jobs)

\* The channel of jobs holds the segments from Front to nextJob.
JobsInv ==
    /\ slots \in Nat
    /\ nextJob \in 0..Segments
    /\ jobsOpen => nextJob < Segments
    /\ jobs \in Seq(Nat)
    /\ Len(jobs) <= nextJob
    /\ \A i \in 1..Len(jobs) : jobs[i] = Front + i - 1
    /\ pc \in Looping => next <= Front /\ nextJob <= next + slots
    /\ pc \in {"sync", "rename", "slot"} => nextJob < next + slots

Places == {"new", "exited", "check", "recv", "fetch", "send"}
Results == [segment : 0..Segments - 1, ok : BOOLEAN]

Busy(w) == worker[w].at \in {"fetch", "send"}
Lost(k) ==
    /\ \A w \in Workers : Busy(w) => worker[w].segment # k
    /\ \A r \in results : r.segment # k
    /\ k \notin pending

\* A segment that was taken is in one place only, until it is assembled.
TakenInv ==
    /\ worker \in [Workers -> [at : Places, segment : 0..Segments - 1,
                               ok : BOOLEAN]]
    /\ results \subseteq Results
    /\ pending \subseteq 0..Segments - 1
    /\ \A w \in Workers : Busy(w) =>
           next <= worker[w].segment /\ worker[w].segment < Front
    /\ \A r \in results : next <= r.segment /\ r.segment < Front
    /\ \A k \in pending : next <= k /\ k < Front
    /\ \A w, x \in Workers : w # x /\ Busy(w) /\ Busy(x) =>
           worker[w].segment # worker[x].segment
    /\ \A w \in Workers : Busy(w) =>
           /\ worker[w].segment \notin pending
           /\ \A r \in results : r.segment # worker[w].segment
    /\ \A r \in results : r.segment \notin pending
    /\ \A r, s \in results : r.segment = s.segment => r = s
    /\ pc = "append" => next < Front /\ Lost(next)

\* Outside the loop no worker runs, and between calls nothing is left of the
\* pool.
RestInv ==
    /\ pc \notin Looping => \A w \in Workers : worker[w].at = "exited"
    /\ pc = "idle" =>
           /\ worker = [w \in Workers |-> Resting]
           /\ jobs = <<>> /\ nextJob = 0 /\ ~jobsOpen /\ slots = 0
           /\ results = {} /\ pending = {}
           /\ next = 0

PoolInv == CallInv /\ JobsInv /\ TakenInv /\ RestInv

States == {"idle", "request", "body", "probe", "chunk", "ask", "size",
           "publish", "promote", "clean", "drop"}

\* The state of a plain or chunked call.
LoopInv ==
    /\ at \in States
    /\ mode \in Modes \cup {NoMode}
    /\ server \in Versions
    /\ state \in [validator : Tagged \cup {0}, total : Nat]
    /\ saved \in [validator : Tagged \cup {0}, total : Nat, bytes : Nat]
    /\ saved = Unsaved \/ (saved.validator # 0 /\ saved.bytes > 0)
    /\ probe \in Tagged \cup {0}
    /\ attempt \in 0..Tries
    /\ start \in Nat /\ end \in Nat /\ ignored \in Nat
    /\ at = "idle" => mode = NoMode /\ state = Fresh /\ probe = 0
    /\ at \in {"probe", "chunk", "ask", "size"} => mode.chunked
    /\ at = "request" => ~mode.chunked

Bodies == [version : Versions \cup {0}, position : Nat, last : Nat,
           full : BOOLEAN]

\* The answer that is being read goes on where the staging file ends.
ReadInv ==
    /\ at = "request" /\ (~mode.resume \/ state.validator = 0) => partial = <<>>
    /\ at = "ask" => start = Len(partial)
    /\ at \in {"ask", "body"} /\ mode.chunked =>
           /\ start <= Len(partial) /\ start <= end
           /\ state.total = 0 => start + ChunkSize <= end
    /\ body \in Bodies
    /\ at = "body" =>
           /\ body.version \in Versions
           /\ ~MayReturn => body.version <= server
           /\ ~OtherSuccess => body.position = Len(partial)
           /\ body.position <= body.last
           /\ body.last <= Lengths[body.version]
           /\ ~mode.chunked \/ body.full => body.last = Lengths[body.version]
           /\ mode.chunked /\ ~body.full /\ state.total = 0 =>
                  \/ body.last = Lengths[body.version]
                  \/ start + ChunkSize <= body.last

\* A path is used by one kind of transfer.
KindInv ==
    /\ pc # "idle" => kind = "segments"
    /\ at # "idle" => kind = "ranged"
    /\ ~Mixing /\ kind # "segments" => checkpoint = NoCheckpoint
    /\ ~Mixing /\ kind # "ranged" => saved = Unsaved

\* A file that begins with the first n segments of list l.
Begins(file, l, n) ==
    /\ 2 * n <= Len(file)
    /\ \A i \in 1..2 * n : file[i] = <<l, (i - 1) \div 2, (i - 1) % 2>>

\* The staging file of a segmented download holds what was assembled, the
\* checkpoint describes durable data, and only a failed call leaves half a
\* segment behind.
DiskOK ==
    /\ pc \notin {"idle", "clean"} => Begins(partial, list, next)
    /\ pc \notin {"idle", "clean", "append"} /\ Len(partial) # 2 * next =>
           failed /\ Lost(next) /\ next < Front
    /\ pc = "append" =>
           /\ Len(partial) = 2 * next + 1
           /\ partial[2 * next + 1] = <<list, next, 0>>
    /\ pc \in {"publish", "promote"} =>
           next = Segments /\ Len(partial) = 2 * next
    /\ pc \in {"rename", "finalRename"} => synced = partial
    /\ checkpoint # NoCheckpoint =>
           /\ pc # "idle" => checkpoint.next <= next
           /\ \/ /\ pc \in {"idle", "clean"}
                 /\ partial = <<>> /\ synced = <<>>
              \/ /\ Begins(partial, checkpoint.list, checkpoint.next)
                 /\ Begins(synced, checkpoint.list, checkpoint.next)

DiskInv == ~Mixing /\ kind # "ranged" => DiskOK

\* The staging file of a plain or chunked download is the beginning of version
\* v, and no checkpoint or validator names a later version.
DataOf(v) ==
    /\ v <= server
    /\ Len(partial) <= Lengths[v]
    /\ \A i \in 1..Len(partial) : partial[i] = <<v, i>>
    /\ saved.validator <= v /\ state.validator <= v /\ probe <= v
    /\ at = "body" => v = body.version
    /\ mode.chunked /\ at \notin {"idle", "probe"} /\ probe = 0 => v = server
    /\ Shrinks =>
           /\ saved.total = 0 \/ Lengths[v] <= saved.total
           /\ state.total = 0 \/ Lengths[v] <= state.total
           /\ at \in {"size", "publish", "promote"} =>
                  Len(partial) = Lengths[v]

\* A server that keeps to 200 and 206, and to no version it has replaced.
Regular == ~MayReturn /\ ~OtherSuccess

DataInv ==
    ~Mixing /\ "ranged" \notin PowerLoss /\ Regular /\ kind # "segments" =>
        \E v \in Versions : DataOf(v)

IInv ==
    /\ FileInv /\ LengthInv /\ PoolInv /\ LoopInv /\ ReadInv
    /\ KindInv /\ DiskInv /\ DataInv

-----------------------------------------------------------------------------
(* Files, numbers and the part of a file that two copies agree on.         *)

\* The first n pieces of a file.
LEMMA PrefixOf ==
    ASSUME NEW S, NEW f \in Seq(S), NEW n \in Nat, n <= Len(f)
    PROVE  /\ Prefix(f, n) \in Seq(S) /\ Len(Prefix(f, n)) = n
           /\ \A i \in 1..n : Prefix(f, n)[i] = f[i]
<1>1. 1 \in 1..Len(f) + 1 /\ n \in 0..Len(f)
  OBVIOUS
<1>2. \A i \in 1..n : i \in Nat
  OBVIOUS
<1> QED
  BY <1>1, <1>2 DEF Prefix

\* One more piece.
LEMMA OneMore ==
    ASSUME NEW S, NEW f \in Seq(S), NEW x \in S
    PROVE  /\ Append(f, x) \in Seq(S) /\ Len(Append(f, x)) = Len(f) + 1
           /\ Append(f, x)[Len(f) + 1] = x
           /\ \A i \in 1..Len(f) : Append(f, x)[i] = f[i]
  BY AppendProperties

\* The smaller of two numbers.
LEMMA Smaller ==
    ASSUME NEW a \in Int, NEW b \in Int
    PROVE  /\ Min({a, b}) \in {a, b}
           /\ Min({a, b}) <= a /\ Min({a, b}) <= b
<1>1. \E x \in {a, b} : \A y \in {a, b} : x <= y
  OBVIOUS
<1>2. Min({a, b}) \in {a, b} /\ \A y \in {a, b} : Min({a, b}) <= y
  BY <1>1 DEF Min
<1> QED
  BY <1>2

\* A set of naturals that is not empty has a least element.
LEMMA LeastNumber ==
    ASSUME NEW T, T \subseteq Nat, T # {}
    PROVE  \E m \in T : \A x \in T : m <= x
<1> DEFINE R == OpToRel(<, Nat)
<1>1. IsWellFoundedOn(R, Nat)
  BY NatLessThanWellFounded, Zenon
<1>2. \A x, y \in Nat : x < y => <<x, y>> \in R
  BY DEF OpToRel
<1> HIDE DEF R
<1>3. PICK m \in T : \A x \in T : ~(<<x, m>> \in R)
  BY <1>1, WFMin
<1>4. ASSUME NEW x \in T PROVE m <= x
  <2>1. ~(x < m) /\ x \in Nat /\ m \in Nat
    BY <1>2, <1>3
  <2> QED
    BY <2>1
<1> QED
  BY <1>4

\* Agreed is the length of the longest beginning that both copies share.
LEMMA AgreedReaches ==
    ASSUME FileInv, NEW n \in Nat, n <= Len(partial), n <= Len(synced),
           \A i \in 1..n : partial[i] = synced[i]
    PROVE  Agreed \in 0..Len(partial) /\ n <= Agreed
<1> DEFINE Same(m) == /\ m <= Len(synced)
                      /\ Prefix(partial, m) = Prefix(synced, m)
           T == {k \in 0..Len(partial) : Same(Len(partial) - k)}
<1>1. partial \in Seq(Pieces) /\ synced \in Seq(Pieces)
  BY DEF FileInv
<1>2. Len(partial) \in Nat /\ Len(synced) \in Nat
  BY <1>1
<1>3. Same(n)
  <2>1. /\ Prefix(partial, n) \in Seq(Pieces) /\ Len(Prefix(partial, n)) = n
        /\ \A i \in 1..n : Prefix(partial, n)[i] = partial[i]
    BY <1>1, PrefixOf
  <2>2. /\ Prefix(synced, n) \in Seq(Pieces) /\ Len(Prefix(synced, n)) = n
        /\ \A i \in 1..n : Prefix(synced, n)[i] = synced[i]
    BY <1>1, PrefixOf
  <2>3. \A i \in 1..n : Prefix(partial, n)[i] = Prefix(synced, n)[i]
    BY <2>1, <2>2
  <2> QED
    BY <2>1, <2>2, <2>3, SeqEqual
<1> HIDE DEF Same
<1>4. Len(partial) - n \in T
  <2>1. Len(partial) - n \in 0..Len(partial)
    BY <1>2
  <2>2. Len(partial) - (Len(partial) - n) = n
    BY <1>2
  <2> QED
    BY <1>3, <2>1, <2>2
<1>5. PICK k \in T : \A x \in T : k <= x
  <2>1. T \subseteq Nat
    BY <1>2
  <2> HIDE DEF T
  <2> QED
    BY <1>4, <2>1, LeastNumber
<1> DEFINE a == Len(partial) - k
<1>6. a \in 0..Len(partial) /\ Same(a)
  BY <1>2, <1>5
<1>7. ASSUME NEW m \in a + 1..Len(partial), Same(m) PROVE FALSE
  <2>1. Len(partial) - m \in 0..Len(partial) /\ Len(partial) - m < k
    BY <1>2, <1>5, <1>6
  <2>2. Len(partial) - (Len(partial) - m) = m
    BY <1>2, <1>6
  <2>3. Len(partial) - m \in T
    BY <1>7, <2>1, <2>2
  <2> QED
    BY <1>2, <1>5, <2>1, <2>3
<1>8. \E b \in 0..Len(partial) :
          /\ b <= Len(synced)
          /\ Prefix(partial, b) = Prefix(synced, b)
          /\ \A m \in b + 1..Len(partial) :
                 m <= Len(synced) => Prefix(partial, m) # Prefix(synced, m)
  BY <1>6, <1>7 DEF Same
<1>9. /\ Agreed \in 0..Len(partial)
      /\ \A m \in Agreed + 1..Len(partial) :
             m <= Len(synced) => Prefix(partial, m) # Prefix(synced, m)
  BY <1>8 DEF Agreed
<1>10. ~(n \in Agreed + 1..Len(partial))
  BY <1>3, <1>9 DEF Same
<1> QED
  BY <1>2, <1>9, <1>10

\* Whatever survives a crash begins with the pieces that were durable.
LEMMA SurvivorsBegin ==
    ASSUME FileInv, NEW n \in Nat, n <= Len(partial), n <= Len(synced),
           \A i \in 1..n : partial[i] = synced[i], NEW c \in Surviving
    PROVE  /\ c \in Seq(Pieces) /\ n <= Len(c)
           /\ c = synced \/ Len(c) <= Len(partial)
           /\ \A i \in 1..n : c[i] = partial[i]
<1>1. /\ partial \in Seq(Pieces) /\ synced \in Seq(Pieces)
      /\ Len(partial) \in Nat
  BY DEF FileInv
<1>2. Agreed \in 0..Len(partial) /\ n <= Agreed
  BY AgreedReaches
<1> HIDE DEF Agreed
<1>3. CASE c \in {partial, synced}
  BY <1>1, <1>3
<1>4. ASSUME NEW m \in Agreed..Len(partial), c = Prefix(partial, m)
      PROVE  /\ c \in Seq(Pieces) /\ n <= Len(c)
             /\ c = synced \/ Len(c) <= Len(partial)
             /\ \A i \in 1..n : c[i] = partial[i]
  <2>1. m \in Nat /\ m <= Len(partial) /\ n <= m
    BY <1>1, <1>2
  <2>2. /\ c \in Seq(Pieces) /\ Len(c) = m
        /\ \A i \in 1..m : c[i] = partial[i]
    BY <1>1, <1>4, <2>1, PrefixOf
  <2> QED
    BY <1>1, <2>1, <2>2
<1>5. ASSUME NEW m \in Agreed..Len(partial), c = Junked(m)
      PROVE  /\ c \in Seq(Pieces) /\ n <= Len(c)
             /\ c = synced \/ Len(c) <= Len(partial)
             /\ \A i \in 1..n : c[i] = partial[i]
  <2>1. m \in Nat /\ m <= Len(partial) /\ n <= m
    BY <1>1, <1>2
  <2>2. Junk \in Pieces
    BY DEF Pieces
  <2>3. c = [i \in 1..m |-> IF i <= Agreed THEN partial[i] ELSE Junk]
    BY <1>5 DEF Junked
  <2>4. \A i \in 1..m : (IF i <= Agreed THEN partial[i] ELSE Junk) \in Pieces
    <3>1. \A i \in 1..m : i \in 1..Len(partial)
      BY <1>1, <2>1
    <3>2. \A i \in 1..Len(partial) : partial[i] \in Pieces
      BY <1>1
    <3> QED
      BY <2>2, <3>1, <3>2
  <2>5. c \in [1..m -> Pieces]
    BY <2>3, <2>4
  <2>6. c \in Seq(Pieces) /\ Len(c) = m
    BY <2>1, <2>5
  <2>7. \A i \in 1..n : i \in 1..m /\ i <= Agreed
    BY <1>1, <1>2, <2>1
  <2> QED
    BY <1>1, <2>1, <2>3, <2>6, <2>7
<1> QED
  BY <1>3, <1>4, <1>5 DEF Surviving
-----------------------------------------------------------------------------
(* The initial state, and what a step of one kind leaves to the other.     *)

\* The inductive invariant holds at first.
LEMMA InitIInv == Init => IInv
<1> SUFFICES ASSUME Init PROVE IInv
  OBVIOUS
<1> USE DEF Init
<1>1. FileInv
  <2>1. partial \in Seq(Pieces) /\ synced \in Seq(Pieces)
    BY EmptySeq DEF FileInit
  <2>2. calls \in Nat /\ crashes \in 0..MaxCrashes
    BY FileAssumption DEF FileInit
  <2> QED
    BY <2>1, <2>2 DEF FileInit, FileInv, FileTypeOK
<1>2. CallInv
  <2>1. pc = "idle" /\ list = NoCheckpoint.list /\ checkpoint = NoCheckpoint
    BY DEF SegInit
  <2>2. next \in 0..Segments
    BY SegmentAssumption DEF SegInit
  <2>3. stop \in BOOLEAN /\ failed \in BOOLEAN /\ jobsOpen \in BOOLEAN
    BY DEF SegInit
  <2> QED
    BY <2>1, <2>2, <2>3 DEF CallInv, Positions
<1>3. JobsInv
  BY SegmentAssumption DEF SegInit, JobsInv, Front, Looping
<1>4. TakenInv
  BY SegmentAssumption DEF SegInit, TakenInv, Busy, Lost, Resting, Places
<1>5. RestInv
  BY DEF SegInit, RestInv, Resting
<1>6. LoopInv
  BY RangedAssumption DEF RangedInit, LoopInv, States, Versions, Unsaved, Fresh
<1>7. ReadInv
  BY DEF RangedInit, ReadInv, NoBody, Bodies
<1>8. KindInv
  BY DEF SegInit, RangedInit, KindInv
<1>9. DiskInv
  BY DEF SegInit, DiskInv, DiskOK
<1>10. DataInv
  <2>1. 1 \in Versions /\ Lengths[1] \in Nat
    BY RangedAssumption DEF Versions
  <2>2. DataOf(1)
    BY <2>1 DEF FileInit, RangedInit, DataOf, Unsaved, Fresh, NoMode
  <2> QED
    BY <2>1, <2>2 DEF DataInv
<1>11. LengthInv
  BY DEF SegInit, LengthInv
<1> QED
  BY <1>1, <1>2, <1>3, <1>4, <1>5, <1>6, <1>7, <1>8, <1>9, <1>10, <1>11
     DEF IInv, PoolInv

\* A step of a segmented download leaves the other kind at rest.
LEMMA RangedRests ==
    ASSUME LoopInv, ReadInv, DataInv, at = "idle", UNCHANGED rangedVars,
           kind' = "segments" \/ UNCHANGED <<kind, partial>>
    PROVE  LoopInv' /\ ReadInv' /\ DataInv'
<1>1. UNCHANGED <<at, mode, server, state, saved, probe, ignored, start, end,
                  attempt, body>>
  BY DEF rangedVars, loopVars
<1>2. LoopInv'
  BY <1>1 DEF LoopInv
<1>3. ReadInv'
  BY <1>1 DEF ReadInv
<1>4. CASE UNCHANGED <<kind, partial>>
  BY <1>1, <1>2, <1>3, <1>4 DEF DataInv, DataOf
<1> QED
  BY <1>2, <1>3, <1>4 DEF DataInv

\* And the other way round.
LEMMA SegmentsRest ==
    ASSUME PoolInv, DiskInv, pc = "idle", UNCHANGED segVars,
           kind' = "ranged" \/ UNCHANGED <<kind, partial, synced>>
    PROVE  PoolInv' /\ DiskInv' /\ LengthInv'
<1>1. UNCHANGED <<pc, list, next, checkpoint, worker, slots, jobs, jobsOpen,
                  nextJob, results, pending, stop, failed>>
  BY DEF segVars
<1>2. CallInv' /\ JobsInv' /\ TakenInv' /\ RestInv'
  BY <1>1 DEF PoolInv, CallInv, JobsInv, TakenInv, RestInv, Front, Busy, Lost
<1>3. DiskInv'
  BY <1>1 DEF DiskInv, DiskOK, Begins
<1> QED
  BY <1>1, <1>2, <1>3 DEF PoolInv, LengthInv

-----------------------------------------------------------------------------
(* The workers of a segmented download.                                    *)

\* A step that leaves the disk and the coordinator's position alone keeps the
\* disk's part, if it does not bring back a segment that was lost.
LEMMA DiskStays ==
    ASSUME DiskInv,
           UNCHANGED <<pc, list, next, checkpoint, partial, synced, kind>>,
           failed => failed',
           Lost(next) /\ next < Front => Lost(next)' /\ (next < Front)'
    PROVE  DiskInv'
<1> SUFFICES ASSUME ~Mixing, kind # "ranged", DiskOK PROVE DiskOK'
  BY DEF DiskInv
<1>1. (Len(partial) # 2 * next) = (Len(partial) # 2 * next)'
  OBVIOUS
<1>2. \A l, n : Begins(partial, l, n) => Begins(partial, l, n)'
  BY DEF Begins
<1>3. \A l, n : Begins(synced, l, n) => Begins(synced, l, n)'
  BY DEF Begins
<1>4. (pc \notin {"idle", "clean", "append"} /\ Len(partial) # 2 * next =>
           failed /\ Lost(next) /\ next < Front)'
  BY DEF DiskOK
<1> HIDE DEF Begins
<1> QED
  BY <1>4 DEF DiskOK, Begins

\* No worker touches the coordinator or the disk, and jobs leave in order.
LEMMA WorkerMoves ==
    ASSUME IInv, NEW w \in Workers, WorkerStep(w)
    PROVE  /\ CallInv' /\ JobsInv' /\ RestInv'
           /\ UNCHANGED <<pc, list, next, checkpoint, failed, fileVars>>
           /\ Front <= Front'
<1>1. CallInv /\ JobsInv /\ RestInv /\ TakenInv
  BY DEF IInv, PoolInv
<1>2. UNCHANGED <<pc, list, next, checkpoint, slots, jobsOpen, nextJob, pending,
                  stop, failed, fileVars>>
  BY DEF WorkerStep, WorkerCheck, WorkerReceive, WorkerFetch, WorkerSend,
         OnlyWorker
<1>3. pc \in Looping
  BY <1>1 DEF RestInv, WorkerStep, WorkerCheck, WorkerReceive, WorkerFetch,
              WorkerSend
<1>4. CallInv' /\ RestInv'
  BY <1>1, <1>2, <1>3 DEF CallInv, RestInv, Looping
<1>5. jobs' = jobs \/ (jobs # <<>> /\ jobs' = Tail(jobs))
  BY DEF WorkerStep, WorkerCheck, WorkerReceive, WorkerFetch, WorkerSend
<1>6. CASE jobs' = jobs
  BY <1>1, <1>2, <1>4, <1>6 DEF JobsInv, Front
<1>7. CASE jobs # <<>> /\ jobs' = Tail(jobs)
  <2>1. /\ jobs \in Seq(Nat) /\ jobs' \in Seq(Nat) /\ Len(jobs) \in Nat
        /\ Len(jobs') = Len(jobs) - 1
        /\ \A i \in 1..Len(jobs') : jobs'[i] = jobs[i + 1]
    BY <1>1, <1>7, HeadTailProperties DEF JobsInv
  <2>2. nextJob \in Nat /\ Front' = Front + 1
    BY <1>1, <1>2, <2>1 DEF JobsInv, Front
  <2>3. \A i \in 1..Len(jobs') : i + 1 \in 1..Len(jobs)
    BY <2>1
  <2>4. \A i \in 1..Len(jobs') : jobs'[i] = Front' + i - 1
    <3> SUFFICES ASSUME NEW i \in 1..Len(jobs')
                 PROVE  jobs'[i] = Front' + i - 1
      OBVIOUS
    <3>1. Front \in Int /\ \A k \in 1..Len(jobs) : jobs[k] = Front + k - 1
      BY <1>1, <2>1, <2>2 DEF JobsInv, Front
    <3> HIDE DEF Front
    <3>2. jobs'[i] = Front + (i + 1) - 1
      BY <2>1, <2>3, <3>1
    <3> QED
      BY <2>1, <2>2, <3>1, <3>2
  <2>5. JobsInv'
    BY <1>1, <1>2, <2>1, <2>2, <2>4, SegmentAssumption
       DEF JobsInv, Front, CallInv
  <2> QED
    BY <1>1, <1>2, <1>4, <2>1, <2>2, <2>5 DEF JobsInv, Front
<1> QED
  BY <1>2, <1>4, <1>5, <1>6, <1>7

\* A worker that takes no segment and gives none away.
LEMMA WorkerTurns ==
    ASSUME IInv, NEW w \in Workers, NEW p \in Places, Set(w, p), ~Busy(w),
           p \notin {"fetch", "send"},
           UNCHANGED <<jobs, results, pc, next, nextJob, pending>>
    PROVE  TakenInv' /\ (Lost(next) => Lost(next)')
<1>1. TakenInv /\ JobsInv
  BY DEF IInv, PoolInv
<1>2. worker \in [Workers -> [at : Places, segment : 0..Segments - 1,
                              ok : BOOLEAN]]
  BY <1>1 DEF TakenInv
<1>3. /\ worker' \in [Workers -> [at : Places, segment : 0..Segments - 1,
                                  ok : BOOLEAN]]
      /\ worker'[w].at = p
      /\ \A x \in Workers : x # w => worker'[x] = worker[x]
  BY <1>2 DEF Set
<1>4. \A x \in Workers : Busy(x)' => Busy(x) /\ worker'[x] = worker[x]
  BY <1>3 DEF Busy
<1>5. UNCHANGED Front
  BY DEF Front
<1>6. Lost(next) => Lost(next)'
  BY <1>4 DEF Lost
<1> HIDE DEF Busy, Front
<1>7. TakenInv'
  BY <1>1, <1>3, <1>4, <1>5, <1>6 DEF TakenInv
<1> QED
  BY <1>6, <1>7

\* A job that is taken was nobody's before.
LEMMA ReceiveTaken ==
    ASSUME IInv, NEW w \in Workers, worker[w].at = "recv", jobs # <<>>,
           worker' = [worker EXCEPT ![w] =
                [at |-> "fetch", segment |-> Head(jobs), ok |-> FALSE]],
           jobs' = Tail(jobs), UNCHANGED <<results, pc, next, nextJob, pending>>
    PROVE  TakenInv' /\ (Lost(next) /\ next < Front => Lost(next)')
<1>1. TakenInv /\ JobsInv /\ RestInv /\ CallInv
  BY DEF IInv, PoolInv
<1>2. worker \in [Workers -> [at : Places, segment : 0..Segments - 1,
                              ok : BOOLEAN]]
  BY <1>1 DEF TakenInv
<1>3. /\ jobs \in Seq(Nat) /\ Len(jobs) \in Nat /\ Len(jobs) > 0
      /\ Len(jobs') = Len(jobs) - 1 /\ Head(jobs) = jobs[1]
  BY <1>1, HeadTailProperties DEF JobsInv
<1>4. /\ Head(jobs) = Front /\ Front' = Front + 1 /\ Front \in 0..Segments - 1
      /\ next \in Int /\ Front \in Int
  BY <1>1, <1>3, SegmentAssumption DEF JobsInv, Front, CallInv
<1>5. pc \in Looping
  BY <1>1 DEF RestInv
<1>6. /\ worker' \in [Workers -> [at : Places, segment : 0..Segments - 1,
                                  ok : BOOLEAN]]
      /\ worker'[w].segment = Front
      /\ \A x \in Workers : x # w => worker'[x] = worker[x]
  BY <1>2, <1>4 DEF Places
<1>7. \A x \in Workers : x # w /\ Busy(x)' => Busy(x) /\ worker'[x] = worker[x]
  BY <1>6 DEF Busy
<1>8. next <= Front
  BY <1>1, <1>5 DEF JobsInv
<1>9. next < Front /\ Lost(next) => Lost(next)'
  BY <1>4, <1>6, <1>7 DEF Lost
<1> HIDE DEF Busy, Front
<1>10. TakenInv'
  <2>1. /\ \A x \in Workers : worker[x].segment \in Int
        /\ \A r \in results : r.segment \in Int
        /\ \A k \in pending : k \in Int
    BY <1>1, SegmentAssumption DEF TakenInv, Results
  <2>2. \A x \in Workers : Busy(x)' =>
            next <= worker'[x].segment /\ worker'[x].segment < Front'
    BY <1>1, <1>4, <1>6, <1>7, <1>8, <2>1 DEF TakenInv
  <2>3. /\ \A r \in results : next <= r.segment /\ r.segment < Front'
        /\ \A k \in pending : next <= k /\ k < Front'
    <3>1. \A k \in Int : k < Front => k < Front'
      BY <1>4
    <3> QED
      BY <1>1, <2>1, <3>1 DEF TakenInv
  <2>4. \A x, y \in Workers : x # y /\ Busy(x)' /\ Busy(y)' =>
            worker'[x].segment # worker'[y].segment
    BY <1>1, <1>4, <1>6, <1>7, <2>1 DEF TakenInv
  <2>5. \A x \in Workers : Busy(x)' =>
            /\ worker'[x].segment \notin pending
            /\ \A r \in results : r.segment # worker'[x].segment
    BY <1>1, <1>4, <1>6, <1>7, <2>1 DEF TakenInv
  <2>6. pc = "append" => next < Front' /\ Lost(next)'
    BY <1>1, <1>4, <1>9 DEF TakenInv
  <2> QED
    BY <1>1, <1>6, <2>2, <2>3, <2>4, <2>5, <2>6 DEF TakenInv
<1> QED
  BY <1>9, <1>10

\* A fetch, good or bad, keeps its segment.
LEMMA FetchTaken ==
    ASSUME IInv, NEW w \in Workers, NEW good \in BOOLEAN,
           worker[w].at = "fetch",
           worker' = [worker EXCEPT ![w].at = "send", ![w].ok = good],
           UNCHANGED <<jobs, results, pc, next, nextJob, pending>>
    PROVE  TakenInv' /\ (Lost(next) => Lost(next)')
<1>1. TakenInv
  BY DEF IInv, PoolInv
<1>2. worker \in [Workers -> [at : Places, segment : 0..Segments - 1,
                              ok : BOOLEAN]]
  BY <1>1 DEF TakenInv
<1>3. /\ worker' \in [Workers -> [at : Places, segment : 0..Segments - 1,
                                  ok : BOOLEAN]]
      /\ \A x \in Workers : Busy(x)' =>
             Busy(x) /\ worker'[x].segment = worker[x].segment
  BY <1>2 DEF Places, Busy
<1>4. UNCHANGED Front
  BY DEF Front
<1>5. Lost(next) => Lost(next)'
  BY <1>3 DEF Lost
<1> HIDE DEF Busy, Front
<1>6. TakenInv'
  BY <1>1, <1>3, <1>4, <1>5 DEF TakenInv
<1> QED
  BY <1>5, <1>6

\* A result takes the place of its worker.
LEMMA SendTaken ==
    ASSUME IInv, NEW w \in Workers, WorkerSend(w)
    PROVE  TakenInv' /\ (Lost(next) => Lost(next)')
<1> DEFINE sent == [segment |-> worker[w].segment, ok |-> worker[w].ok]
<1>1. /\ TakenInv /\ worker[w].at = "send" /\ Busy(w)
      /\ results' = results \cup {sent}
      /\ Set(w, IF worker[w].ok THEN "check" ELSE "exited")
      /\ UNCHANGED <<pc, next, nextJob, pending, jobs>>
  BY DEF IInv, PoolInv, WorkerSend, OnlyWorker, Busy
<1>2. worker \in [Workers -> [at : Places, segment : 0..Segments - 1,
                              ok : BOOLEAN]]
  BY <1>1 DEF TakenInv
<1>3. sent \in Results /\ sent.segment = worker[w].segment
  BY <1>2 DEF Results
<1>4. /\ worker' \in [Workers -> [at : Places, segment : 0..Segments - 1,
                                  ok : BOOLEAN]]
      /\ ~Busy(w)'
      /\ \A x \in Workers : x # w => worker'[x] = worker[x]
  BY <1>1, <1>2 DEF Set, Places, Busy
<1>5. \A x \in Workers : Busy(x)' =>
          x # w /\ Busy(x) /\ worker'[x] = worker[x]
  BY <1>4 DEF Busy
<1>6. UNCHANGED Front
  BY <1>1 DEF Front
<1> HIDE DEF sent, Busy, Front
<1>7. Lost(next) => Lost(next)'
  BY <1>1, <1>3, <1>5 DEF Lost
<1>8. TakenInv'
  <2>1. results' \subseteq Results
    BY <1>1, <1>3 DEF TakenInv
  <2>2. \A r \in results' : next <= r.segment /\ r.segment < Front
    BY <1>1, <1>3 DEF TakenInv
  <2>3. \A r, s \in results' : r.segment = s.segment => r = s
    BY <1>1, <1>3 DEF TakenInv
  <2>4. \A r \in results' : r.segment \notin pending
    BY <1>1, <1>3 DEF TakenInv
  <2>5. \A x \in Workers : Busy(x)' =>
            /\ worker'[x].segment \notin pending
            /\ \A r \in results' : r.segment # worker'[x].segment
    BY <1>1, <1>3, <1>5 DEF TakenInv
  <2>6. \A x, y \in Workers : x # y /\ Busy(x)' /\ Busy(y)' =>
            worker'[x].segment # worker'[y].segment
    BY <1>1, <1>5 DEF TakenInv
  <2>7. \A x \in Workers : Busy(x)' =>
            next <= worker'[x].segment /\ worker'[x].segment < Front
    BY <1>1, <1>5 DEF TakenInv
  <2>8. pc = "append" => next < Front /\ Lost(next)'
    BY <1>1, <1>7 DEF TakenInv
  <2>9. \A k \in pending : next <= k /\ k < Front
    BY <1>1 DEF TakenInv
  <2>10. pending' \subseteq 0..Segments - 1
    BY <1>1 DEF TakenInv
  <2> QED
    BY <1>1, <1>4, <1>6, <2>1, <2>2, <2>3, <2>4, <2>5, <2>6, <2>7, <2>8, <2>9,
       <2>10 DEF TakenInv
<1> QED
  BY <1>7, <1>8

\* A step of a worker, whatever the coordinator is doing.
LEMMA WorkerIInv ==
    ASSUME IInv, NEW w \in Workers, WorkerStep(w), at = "idle",
           UNCHANGED rangedVars
    PROVE  IInv'
<1>1. /\ CallInv' /\ JobsInv' /\ RestInv'
      /\ UNCHANGED <<pc, list, next, checkpoint, failed, fileVars>>
      /\ Front <= Front'
  BY WorkerMoves
<1>2. UNCHANGED <<partial, synced, target, kind, keep, cancelled, calls,
                  crashes>>
  BY <1>1 DEF fileVars, diskVars, callVars
<1>3. UNCHANGED <<nextJob, pending>>
  BY DEF WorkerStep, WorkerCheck, WorkerReceive, WorkerFetch, WorkerSend,
         OnlyWorker
<1>4. TakenInv' /\ (Lost(next) /\ next < Front => Lost(next)')
  <2>1. CASE WorkerCheck(w)
    <3>1. PICK p \in Places : p \notin {"fetch", "send"} /\ Set(w, p)
      BY <2>1 DEF WorkerCheck, Places
    <3> QED
      BY <1>1, <1>3, <2>1, <3>1, WorkerTurns DEF WorkerCheck, Busy
  <2>2. CASE WorkerReceive(w)
    <3>1. CASE jobs # <<>>
      BY <1>1, <1>3, <2>2, <3>1, ReceiveTaken DEF WorkerReceive
    <3>2. CASE jobs = <<>>
      <4>1. "exited" \in Places /\ Set(w, "exited") /\ ~Busy(w)
            /\ UNCHANGED <<jobs, results>>
        BY <2>2, <3>2 DEF WorkerReceive, Places, Busy
      <4> QED
        BY <1>1, <1>3, <4>1, WorkerTurns
    <3> QED
      BY <3>1, <3>2
  <2>3. CASE WorkerFetch(w)
    BY <1>1, <1>3, <2>3, FetchTaken DEF WorkerFetch
  <2>4. CASE WorkerSend(w)
    BY <2>4, SendTaken
  <2> QED
    BY <2>1, <2>2, <2>3, <2>4 DEF WorkerStep
<1>5. FileInv'
  BY <1>2 DEF IInv, FileInv, FileTypeOK
<1>6. KindInv'
  <2>1. UNCHANGED <<at, saved>>
    BY DEF rangedVars
  <2> QED
    BY <1>1, <1>2, <2>1 DEF IInv, KindInv
<1>7. LoopInv' /\ ReadInv' /\ DataInv'
  BY <1>2, RangedRests DEF IInv
<1>8. DiskInv'
  <2>1. next \in Int /\ Front \in Int /\ Front' \in Int
    BY <1>1 DEF IInv, PoolInv, CallInv, JobsInv, Front
  <2>2. Lost(next) /\ next < Front => Lost(next)' /\ (next < Front)'
    BY <1>1, <1>4, <2>1
  <2> QED
    BY <1>1, <1>2, <2>2, DiskStays DEF IInv
<1>9. LengthInv'
  BY <1>1, <1>2 DEF IInv, LengthInv
<1> QED
  BY <1>1, <1>4, <1>5, <1>6, <1>7, <1>8, <1>9 DEF IInv, PoolInv

-----------------------------------------------------------------------------
(* The coordinator of a segmented download.                                *)

\* What a step of the coordinator leaves to show.
LEMMA CoordinatorFrame ==
    ASSUME IInv, at = "idle", UNCHANGED rangedVars,
           kind = "segments", kind' = "segments",
           keep' \in BOOLEAN, cancelled' \in BOOLEAN, calls' \in Nat,
           crashes' \in 0..MaxCrashes,
           partial' \in Seq(Pieces), synced' \in Seq(Pieces), LengthInv',
           PoolInv', ~Mixing /\ DiskOK => DiskOK'
    PROVE  IInv'
<1>1. FileInv'
  BY DEF FileInv, FileTypeOK
<1>2. LoopInv' /\ ReadInv' /\ DataInv'
  BY RangedRests DEF IInv
<1>3. UNCHANGED <<at, saved>>
  BY DEF rangedVars
<1>4. KindInv'
  BY <1>3 DEF IInv, KindInv
<1>5. DiskInv'
  BY DEF IInv, DiskInv
<1> QED
  BY <1>1, <1>2, <1>4, <1>5 DEF IInv

\* A step that moves no segment and begins no round of the loop.
LEMMA PoolSteady ==
    ASSUME PoolInv, pc # "idle",
           UNCHANGED <<list, next, worker, jobs, nextJob, results, pending,
                       slots>>,
           pc' \in Positions \ {"idle", "append"},
           pc' \in Looping => pc \in Looping,
           pc' \in {"sync", "rename", "slot"} =>
               pc \in {"sync", "rename", "slot"},
           pc' \in {"sync", "rename", "finalSync", "finalRename"} => next > 0,
           pc' \notin Looping => \A w \in Workers : worker[w].at = "exited",
           checkpoint' \in [list : Lists, next : 1..Segments]
               \cup {NoCheckpoint},
           stop' \in BOOLEAN, failed' \in BOOLEAN, jobsOpen' \in BOOLEAN,
           jobsOpen' => jobsOpen
    PROVE  PoolInv' /\ UNCHANGED Front /\ (Lost(next) => Lost(next)')
<1>1. CallInv'
  BY DEF PoolInv, CallInv
<1>2. UNCHANGED Front
  BY DEF Front
<1>3. JobsInv'
  BY <1>2 DEF PoolInv, JobsInv
<1>4. TakenInv'
  BY <1>2 DEF PoolInv, TakenInv, Busy, Lost
<1>5. RestInv'
  BY DEF PoolInv, RestInv
<1>6. Lost(next) => Lost(next)'
  BY DEF Lost, Busy
<1> QED
  BY <1>1, <1>2, <1>3, <1>4, <1>5, <1>6 DEF PoolInv

\* The end of a call leaves nothing of the pool.
LEMMA PoolReturns ==
    ASSUME Return,
           checkpoint' \in [list : Lists, next : 1..Segments]
               \cup {NoCheckpoint}
    PROVE  PoolInv'
<1> USE DEF Return
<1>1. CallInv'
  <2>1. pc' = "idle" /\ list' = NoCheckpoint.list /\ next' = 0
    OBVIOUS
  <2>2. next' \in 0..Segments
    BY <2>1, SegmentAssumption
  <2>3. stop' \in BOOLEAN /\ failed' \in BOOLEAN /\ jobsOpen' \in BOOLEAN
    OBVIOUS
  <2> QED
    BY <2>1, <2>2, <2>3 DEF CallInv, Positions
<1>2. JobsInv'
  BY SegmentAssumption DEF JobsInv, Front, Looping
<1>3. TakenInv'
  BY SegmentAssumption DEF TakenInv, Busy, Lost, Resting, Places
<1>4. RestInv'
  BY DEF RestInv, Resting
<1> QED
  BY <1>1, <1>2, <1>3, <1>4 DEF PoolInv

\* Facts that the steps of the coordinator share.
LEMMA Coordinating ==
    ASSUME IInv, pc # "idle"
    PROVE  /\ kind = "segments" /\ list \in Lists
           /\ FileTypeOK /\ partial \in Seq(Pieces) /\ synced \in Seq(Pieces)
           /\ Len(partial) \in Nat /\ LengthInv
           /\ PoolInv /\ next \in Nat /\ next <= Segments /\ Segments \in Nat
           /\ Front \in Int /\ nextJob \in Nat
           /\ checkpoint \in [list : Lists, next : 1..Segments]
                  \cup {NoCheckpoint}
           /\ stop \in BOOLEAN /\ failed \in BOOLEAN /\ jobsOpen \in BOOLEAN
<1>1. FileInv /\ PoolInv /\ CallInv /\ JobsInv /\ KindInv
  BY DEF IInv, PoolInv
<1>2. Len(partial) \in Nat
  BY <1>1 DEF FileInv
<1>3. Front \in Int /\ nextJob \in Nat
  BY <1>1, SegmentAssumption DEF JobsInv, Front
<1>4. next \in Nat /\ next <= Segments /\ Segments \in Nat
  BY <1>1, SegmentAssumption DEF CallInv
<1> QED
  BY <1>1, <1>2, <1>3, <1>4 DEF IInv, FileInv, CallInv, KindInv

\* A failure is noted and no more jobs are sent.
LEMMA FailureNoted ==
    ASSUME NEW c \in BOOLEAN, FailIf(c), stop \in BOOLEAN, failed \in BOOLEAN,
           jobsOpen \in BOOLEAN
    PROVE  /\ stop' \in BOOLEAN /\ failed' \in BOOLEAN /\ jobsOpen' \in BOOLEAN
           /\ jobsOpen' => jobsOpen
           /\ failed => failed'
           /\ c => failed'
  BY Zenon DEF FailIf

\* Steps that only change the flags and the position.
LEMMA FlagSteps ==
    ASSUME IInv, at = "idle", UNCHANGED rangedVars,
           NoticeCancel \/ Disconnected \/ NothingReady \/ LeaveScope
    PROVE  IInv'
<1>1. pc # "idle"
  BY DEF NoticeCancel, Disconnected, NothingReady, LeaveScope
<1>2. /\ kind = "segments" /\ list \in Lists
      /\ FileTypeOK /\ partial \in Seq(Pieces) /\ synced \in Seq(Pieces)
      /\ PoolInv /\ LengthInv /\ next \in Nat
      /\ checkpoint \in [list : Lists, next : 1..Segments] \cup {NoCheckpoint}
      /\ stop \in BOOLEAN /\ failed \in BOOLEAN /\ jobsOpen \in BOOLEAN
  BY <1>1, Coordinating
<1>3. /\ UNCHANGED <<list, slots, kind, keep, cancelled, calls, crashes, next,
                     checkpoint, worker, jobs, nextJob, results, pending,
                     partial, synced, target>>
      /\ stop' \in BOOLEAN /\ failed' \in BOOLEAN /\ jobsOpen' \in BOOLEAN
      /\ jobsOpen' => jobsOpen
      /\ failed => failed'
  <2>1. UNCHANGED <<list, slots, kind, keep, cancelled, calls, crashes, next,
                    checkpoint, worker, jobs, nextJob, results, pending,
                    partial, synced, target>>
    BY DEF NoticeCancel, Disconnected, NothingReady, LeaveScope, Coordinate,
           diskVars, poolVars
  <2>2. \/ \E c \in BOOLEAN : FailIf(c)
        \/ UNCHANGED <<stop, failed, jobsOpen>>
    BY <1>2 DEF NoticeCancel, Disconnected, NothingReady, LeaveScope, poolVars,
                FileTypeOK
  <2>3. /\ stop' \in BOOLEAN /\ failed' \in BOOLEAN /\ jobsOpen' \in BOOLEAN
        /\ jobsOpen' => jobsOpen
        /\ failed => failed'
    BY <1>2, <2>2, FailureNoted
  <2> QED
    BY <2>1, <2>3
<1>4. /\ pc' \in Positions \ {"idle", "append", "sync", "rename", "slot",
                              "finalRename", "promote", "clean"}
      /\ pc' \in Looping => pc \in Looping
      /\ pc' = "finalSync" => next > 0
      /\ pc' = "publish" => ~failed /\ next = Segments
      /\ pc \notin {"append", "clean"}
      /\ pc \notin Looping => pc' \notin Looping
  BY <1>1, <1>2 DEF NoticeCancel, Disconnected, NothingReady, LeaveScope,
                    Positions, Looping
<1>5. pc' \notin Looping => \A w \in Workers : worker[w].at = "exited"
  <2>1. CASE pc \in Looping
    BY <2>1 DEF NoticeCancel, Disconnected, NothingReady, LeaveScope, Looping
  <2>2. CASE pc \notin Looping
    BY <1>2, <2>2 DEF PoolInv, RestInv
  <2> QED
    BY <2>1, <2>2
<1>6. PoolInv' /\ UNCHANGED Front /\ (Lost(next) => Lost(next)')
  BY <1>1, <1>2, <1>3, <1>4, <1>5, PoolSteady
<1>7. ASSUME DiskOK PROVE DiskOK'
  <2>1. Begins(partial, list, next)
    BY <1>1, <1>4, <1>7 DEF DiskOK
  <2>2. Len(partial) # 2 * next => failed /\ Lost(next) /\ next < Front
    BY <1>1, <1>4, <1>7 DEF DiskOK
  <2>3. checkpoint # NoCheckpoint =>
            /\ checkpoint.next <= next
            /\ Begins(partial, checkpoint.list, checkpoint.next)
            /\ Begins(synced, checkpoint.list, checkpoint.next)
    BY <1>1, <1>4, <1>7 DEF DiskOK
  <2> QED
    BY <1>3, <1>4, <1>6, <2>1, <2>2, <2>3 DEF DiskOK, Begins
<1>8. LengthInv'
  BY <1>1, <1>2, <1>3, <1>4 DEF LengthInv
<1> QED
  BY <1>2, <1>3, <1>6, <1>7, <1>8, CoordinatorFrame DEF FileTypeOK

\* A worker starts, or none of the others will.
LEMMA SpawnIInv ==
    ASSUME IInv, at = "idle", UNCHANGED rangedVars, SpawnWorker
    PROVE  IInv'
<1>1. /\ pc = "spawn" /\ pc # "idle" /\ pc' \in {"spawn", "loop"}
      /\ UNCHANGED <<list, slots, kind, keep, cancelled, calls, crashes, next,
                     checkpoint, jobs, nextJob, results, pending, partial,
                     synced, target>>
  BY DEF SpawnWorker, Coordinate, diskVars
<1>2. /\ kind = "segments" /\ list \in Lists
      /\ FileTypeOK /\ partial \in Seq(Pieces) /\ synced \in Seq(Pieces)
      /\ PoolInv /\ LengthInv /\ next \in Nat
      /\ checkpoint \in [list : Lists, next : 1..Segments] \cup {NoCheckpoint}
      /\ stop \in BOOLEAN /\ failed \in BOOLEAN /\ jobsOpen \in BOOLEAN
  BY <1>1, Coordinating
<1>3. /\ stop' \in BOOLEAN /\ failed' \in BOOLEAN /\ jobsOpen' \in BOOLEAN
      /\ jobsOpen' => jobsOpen
      /\ failed => failed'
  <2>1. FailIf(TRUE) \/ UNCHANGED <<stop, failed, jobsOpen>>
    BY DEF SpawnWorker
  <2>2. TRUE \in BOOLEAN
    OBVIOUS
  <2>3. CASE FailIf(TRUE)
    BY <1>2, <2>2, <2>3, FailureNoted, Zenon
  <2>4. CASE UNCHANGED <<stop, failed, jobsOpen>>
    BY <1>2, <2>4
  <2> QED
    BY <2>1, <2>3, <2>4
<1>4. TakenInv /\ worker \in [Workers -> [at : Places,
                                         segment : 0..Segments - 1,
                                         ok : BOOLEAN]]
  BY <1>2 DEF PoolInv, TakenInv
<1>5. /\ worker' \in [Workers -> [at : Places, segment : 0..Segments - 1,
                                  ok : BOOLEAN]]
      /\ \A w \in Workers : Busy(w)' => Busy(w) /\ worker'[w] = worker[w]
  <2>1. CASE \E w \in Unstarted : Set(w, "check")
    <3>1. PICK w \in Workers : Set(w, "check")
      BY <2>1 DEF Unstarted
    <3>2. /\ worker' \in [Workers -> [at : Places, segment : 0..Segments - 1,
                                      ok : BOOLEAN]]
          /\ worker'[w].at = "check"
          /\ \A x \in Workers : x # w => worker'[x] = worker[x]
      <4>1. "check" \in Places
        BY DEF Places
      <4> QED
        BY <1>4, <3>1, <4>1 DEF Set
    <3> QED
      BY <3>2 DEF Busy
  <2>2. CASE worker' = [w \in Workers |->
                          IF w \in Unstarted THEN Resting ELSE worker[w]]
    <3>1. Resting \in [at : Places, segment : 0..Segments - 1, ok : BOOLEAN]
      BY SegmentAssumption DEF Resting, Places
    <3>2. worker' \in [Workers -> [at : Places, segment : 0..Segments - 1,
                                   ok : BOOLEAN]]
      BY <1>4, <2>2, <3>1
    <3>3. \A w \in Workers : Busy(w)' => Busy(w) /\ worker'[w] = worker[w]
      BY <2>2 DEF Busy, Resting
    <3> QED
      BY <3>2, <3>3
  <2> QED
    BY <2>1, <2>2 DEF SpawnWorker
<1>6. UNCHANGED Front
  BY <1>1 DEF Front
<1>7. Lost(next) => Lost(next)'
  BY <1>1, <1>5 DEF Lost
<1>8. CallInv'
  BY <1>1, <1>2, <1>3 DEF PoolInv, CallInv, Positions
<1>9. JobsInv'
  BY <1>1, <1>2, <1>3, <1>6 DEF PoolInv, JobsInv, Looping
<1>10. TakenInv'
  <2> HIDE DEF Busy, Front
  <2> QED
    BY <1>1, <1>4, <1>5, <1>6 DEF TakenInv
<1>11. RestInv'
  BY <1>1 DEF RestInv, Looping
<1>12. PoolInv'
  BY <1>8, <1>9, <1>10, <1>11 DEF PoolInv
<1>13. ASSUME DiskOK PROVE DiskOK'
  <2>1. Begins(partial, list, next)
    BY <1>1, <1>13 DEF DiskOK
  <2>2. Len(partial) # 2 * next => failed /\ Lost(next) /\ next < Front
    BY <1>1, <1>13 DEF DiskOK
  <2>3. checkpoint # NoCheckpoint =>
            /\ checkpoint.next <= next
            /\ Begins(partial, checkpoint.list, checkpoint.next)
            /\ Begins(synced, checkpoint.list, checkpoint.next)
    BY <1>1, <1>13 DEF DiskOK
  <2> QED
    BY <1>1, <1>3, <1>6, <1>7, <2>1, <2>2, <2>3 DEF DiskOK, Begins
<1>14. LengthInv'
  BY <1>1, <1>2 DEF LengthInv
<1> QED
  BY <1>1, <1>2, <1>3, <1>12, <1>13, <1>14, CoordinatorFrame DEF FileTypeOK

\* A result is taken from the channel: its segment waits for its turn, or the
\* call has failed.
LEMMA ReceiveIInv ==
    ASSUME IInv, at = "idle", UNCHANGED rangedVars, Receive
    PROVE  IInv'
<1>1. pc = "loop" /\ pc' = "assemble" /\ pc # "idle"
  BY DEF Receive
<1>2. /\ kind = "segments" /\ list \in Lists
      /\ FileTypeOK /\ partial \in Seq(Pieces) /\ synced \in Seq(Pieces)
      /\ PoolInv /\ LengthInv /\ next \in Nat
      /\ checkpoint \in [list : Lists, next : 1..Segments] \cup {NoCheckpoint}
      /\ stop \in BOOLEAN /\ failed \in BOOLEAN /\ jobsOpen \in BOOLEAN
  BY <1>1, Coordinating
<1>3. UNCHANGED <<list, slots, kind, keep, cancelled, calls, crashes, next,
                  checkpoint, worker, jobs, nextJob, partial, synced, target>>
  BY DEF Receive, Coordinate, diskVars
<1>4. PICK r \in results :
          /\ results' = results \ {r}
          /\ FailIf(cancelled \/ ~r.ok)
          /\ pending' = IF r.ok THEN pending \cup {r.segment} ELSE pending
  BY DEF Receive
<1>5. TakenInv /\ JobsInv /\ CallInv /\ RestInv
  BY <1>2 DEF PoolInv
<1>6. /\ stop' \in BOOLEAN /\ failed' \in BOOLEAN /\ jobsOpen' \in BOOLEAN
      /\ jobsOpen' => jobsOpen
      /\ failed => failed'
  <2>1. (cancelled \/ ~r.ok) \in BOOLEAN
    OBVIOUS
  <2> QED
    BY <1>2, <1>4, <2>1, FailureNoted
<1>7. UNCHANGED Front /\ \A w \in Workers : Busy(w)' = Busy(w)
  BY <1>3 DEF Front, Busy
<1>8. /\ results' \subseteq results /\ r \notin results'
      /\ \A k \in pending' : k \in pending \/ k = r.segment
  BY <1>4
<1>9. CallInv' /\ JobsInv' /\ RestInv'
  BY <1>1, <1>3, <1>5, <1>6, <1>7 DEF CallInv, JobsInv, RestInv, Positions, Looping
<1>10. Lost(next) => Lost(next)'
  BY <1>3, <1>7, <1>8 DEF Lost
<1>11. TakenInv'
  <2>1. r.segment \in 0..Segments - 1 /\ next <= r.segment /\ r.segment < Front
    BY <1>5 DEF TakenInv, Results
  <2>2. pending' \subseteq 0..Segments - 1 /\ results' \subseteq Results
    BY <1>5, <1>8, <2>1 DEF TakenInv
  <2>3. \A k \in pending' : next <= k /\ k < Front
    BY <1>5, <1>8, <2>1 DEF TakenInv
  <2>4. \A w \in Workers : Busy(w) =>
            /\ worker[w].segment \notin pending'
            /\ \A s \in results' : s.segment # worker[w].segment
    BY <1>5, <1>8 DEF TakenInv
  <2>5. \A s \in results' : s.segment # r.segment
    BY <1>5, <1>8 DEF TakenInv
  <2>6. \A s \in results' : s.segment \notin pending'
    BY <1>5, <1>8, <2>5 DEF TakenInv
  <2>7. \A s, t \in results' : s.segment = t.segment => s = t
    BY <1>5, <1>8 DEF TakenInv
  <2>8. \A s \in results' : next <= s.segment /\ s.segment < Front
    BY <1>5, <1>8 DEF TakenInv
  <2> HIDE DEF Busy, Front
  <2> QED
    BY <1>1, <1>3, <1>5, <1>7, <2>2, <2>3, <2>4, <2>6, <2>7, <2>8 DEF TakenInv
<1>12. ASSUME DiskOK PROVE DiskOK'
  <2>1. Begins(partial, list, next)
    BY <1>1, <1>12 DEF DiskOK
  <2>2. Len(partial) # 2 * next => failed /\ Lost(next) /\ next < Front
    BY <1>1, <1>12 DEF DiskOK
  <2>3. checkpoint # NoCheckpoint =>
            /\ checkpoint.next <= next
            /\ Begins(partial, checkpoint.list, checkpoint.next)
            /\ Begins(synced, checkpoint.list, checkpoint.next)
    BY <1>1, <1>12 DEF DiskOK
  <2> QED
    BY <1>1, <1>3, <1>6, <1>7, <1>10, <2>1, <2>2, <2>3 DEF DiskOK, Begins
<1>13. PoolInv'
  BY <1>9, <1>11 DEF PoolInv
<1>14. LengthInv'
  BY <1>1, <1>2, <1>3 DEF LengthInv
<1> QED
  BY <1>2, <1>3, <1>12, <1>13, <1>14, CoordinatorFrame DEF FileTypeOK

\* A file that has the same first pieces begins in the same way.
LEMMA BeginsAlike ==
    ASSUME NEW f, NEW g, NEW l, NEW n \in Nat, Begins(f, l, n),
           2 * n <= Len(g), \A i \in 1..2 * n : g[i] = f[i]
    PROVE  Begins(g, l, n)
<1>1. \A i \in 1..2 * n : f[i] = <<l, (i - 1) \div 2, (i - 1) % 2>>
  BY DEF Begins
<1>2. \A i \in 1..2 * n : g[i] = <<l, (i - 1) \div 2, (i - 1) % 2>>
  BY <1>1
<1> QED
  BY <1>2 DEF Begins

\* The two halves of segment n.
LEMMA Halves ==
    ASSUME NEW n \in Nat
    PROVE  /\ (2 * n + 1 - 1) \div 2 = n /\ (2 * n + 1 - 1) % 2 = 0
           /\ (2 * n + 2 - 1) \div 2 = n /\ (2 * n + 2 - 1) % 2 = 1
  OBVIOUS

\* The first half of the next segment is written.
LEMMA AppendFirstIInv ==
    ASSUME IInv, at = "idle", UNCHANGED rangedVars, AppendFirst
    PROVE  IInv'
<1>1. /\ pc = "assemble" /\ pc' = "append" /\ pc # "idle"
      /\ next \in pending /\ pending' = pending \ {next}
      /\ partial' = Append(partial, <<list, next, 0>>)
      /\ UNCHANGED <<list, slots, kind, keep, cancelled, calls, crashes, next,
                     checkpoint, worker, jobs, jobsOpen, nextJob, results, stop,
                     failed, synced, target>>
  BY DEF AppendFirst, Coordinate
<1>2. /\ kind = "segments" /\ list \in Lists
      /\ FileTypeOK /\ partial \in Seq(Pieces) /\ synced \in Seq(Pieces)
      /\ Len(partial) \in Nat
      /\ PoolInv /\ LengthInv /\ next \in Nat
      /\ checkpoint \in [list : Lists, next : 1..Segments] \cup {NoCheckpoint}
      /\ stop \in BOOLEAN /\ failed \in BOOLEAN /\ jobsOpen \in BOOLEAN
  BY <1>1, Coordinating
<1>3. TakenInv /\ JobsInv /\ CallInv /\ RestInv
  BY <1>2 DEF PoolInv
<1>4. <<list, next, 0>> \in Pieces
  BY <1>2 DEF Pieces
<1>5. /\ partial' \in Seq(Pieces) /\ Len(partial') = Len(partial) + 1
      /\ partial'[Len(partial) + 1] = <<list, next, 0>>
      /\ \A i \in 1..Len(partial) : partial'[i] = partial[i]
  BY <1>1, <1>2, <1>4, OneMore
<1>6. UNCHANGED Front /\ \A w \in Workers : Busy(w)' = Busy(w)
  BY <1>1 DEF Front, Busy
<1>7. CallInv' /\ JobsInv' /\ RestInv'
  BY <1>1, <1>3, <1>6 DEF CallInv, JobsInv, RestInv, Positions, Looping
<1>8. Lost(next)' /\ next < Front
  BY <1>1, <1>3, <1>6 DEF Lost, TakenInv
<1>9. TakenInv'
  <2> HIDE DEF Busy, Front, Lost
  <2> QED
    BY <1>1, <1>3, <1>6, <1>8 DEF TakenInv
<1>10. ASSUME DiskOK PROVE DiskOK'
  <2>1. Begins(partial, list, next)
    BY <1>1, <1>10 DEF DiskOK
  <2>2. Len(partial) = 2 * next
    BY <1>1, <1>10 DEF DiskOK, Lost
  <2>3. checkpoint # NoCheckpoint =>
            /\ checkpoint.next <= next
            /\ Begins(partial, checkpoint.list, checkpoint.next)
            /\ Begins(synced, checkpoint.list, checkpoint.next)
    BY <1>1, <1>10 DEF DiskOK
  <2>4. \A l : \A n \in Nat : Begins(partial, l, n) => Begins(partial', l, n)
    <3> SUFFICES ASSUME NEW l, NEW n \in Nat, Begins(partial, l, n)
                 PROVE  Begins(partial', l, n)
      OBVIOUS
    <3>1. 2 * n <= Len(partial)
      BY DEF Begins
    <3>2. \A i \in 1..2 * n : i \in 1..Len(partial)
      BY <1>2, <3>1
    <3>3. 2 * n <= Len(partial') /\ \A i \in 1..2 * n : partial'[i] = partial[i]
      BY <1>2, <1>5, <3>1, <3>2
    <3> QED
      BY <3>3, BeginsAlike
  <2>5. checkpoint # NoCheckpoint => checkpoint.next \in Nat
    BY <1>2
  <2>6. /\ Begins(partial', list', next')
        /\ Len(partial') = 2 * next' + 1
        /\ partial'[2 * next' + 1] = <<list', next', 0>>
    BY <1>1, <1>2, <1>5, <2>1, <2>2, <2>4
  <2>7. checkpoint' # NoCheckpoint =>
            /\ checkpoint'.next <= next'
            /\ Begins(partial', checkpoint'.list, checkpoint'.next)
            /\ Begins(synced', checkpoint'.list, checkpoint'.next)
    BY <1>1, <2>3, <2>4, <2>5
  <2> QED
    BY <1>1, <2>6, <2>7 DEF DiskOK
<1>11. PoolInv'
  BY <1>7, <1>9 DEF PoolInv
<1>12. LengthInv'
  BY <1>1, <1>2, <1>5 DEF LengthInv
<1> QED
  BY <1>1, <1>2, <1>5, <1>10, <1>11, <1>12, CoordinatorFrame DEF FileTypeOK

\* The second half completes the segment.
LEMMA AppendLastIInv ==
    ASSUME IInv, at = "idle", UNCHANGED rangedVars, AppendLast
    PROVE  IInv'
<1>1. /\ pc = "append" /\ pc' \in {"sync", "slot"} /\ pc # "idle"
      /\ partial' = Append(partial, <<list, next, 1>>)
      /\ next' = next + 1
      /\ UNCHANGED <<list, slots, kind, keep, cancelled, calls, crashes,
                     checkpoint, worker, jobs, jobsOpen, nextJob, results,
                     pending, stop, failed, synced, target>>
  BY DEF AppendLast, Coordinate
<1>2. /\ kind = "segments" /\ list \in Lists
      /\ FileTypeOK /\ partial \in Seq(Pieces) /\ synced \in Seq(Pieces)
      /\ Len(partial) \in Nat
      /\ PoolInv /\ LengthInv /\ next \in Nat /\ Segments \in Nat
      /\ Front \in Int /\ nextJob \in Nat
      /\ checkpoint \in [list : Lists, next : 1..Segments] \cup {NoCheckpoint}
      /\ stop \in BOOLEAN /\ failed \in BOOLEAN /\ jobsOpen \in BOOLEAN
  BY <1>1, Coordinating
<1>3. TakenInv /\ JobsInv /\ CallInv /\ RestInv
  BY <1>2 DEF PoolInv
<1>4. <<list, next, 1>> \in Pieces
  BY <1>2 DEF Pieces
<1>5. /\ partial' \in Seq(Pieces) /\ Len(partial') = Len(partial) + 1
      /\ partial'[Len(partial) + 1] = <<list, next, 1>>
      /\ \A i \in 1..Len(partial) : partial'[i] = partial[i]
  BY <1>1, <1>2, <1>4, OneMore
<1>6. UNCHANGED Front /\ \A w \in Workers : Busy(w)' = Busy(w)
  BY <1>1 DEF Front, Busy
<1>7. Lost(next) /\ next < Front
  BY <1>1, <1>3 DEF TakenInv
<1>8. Front <= nextJob /\ nextJob <= Segments /\ nextJob <= next + slots
      /\ slots \in Nat
  BY <1>1, <1>2, <1>3 DEF JobsInv, Front, Looping
<1>9. CallInv'
  <2>1. next' \in 0..Segments /\ next' > 0
    BY <1>1, <1>2, <1>7, <1>8
  <2> QED
    BY <1>1, <1>2, <1>3, <2>1 DEF CallInv, Positions
<1>10. JobsInv'
  <2>1. next' <= Front /\ nextJob < next' + slots
    BY <1>1, <1>2, <1>7, <1>8
  <2>2. nextJob <= next' + slots
    BY <1>1, <1>2, <1>8, <2>1
  <2> QED
    BY <1>1, <1>3, <1>6, <2>1, <2>2 DEF JobsInv
<1>11. RestInv'
  BY <1>1, <1>3 DEF RestInv, Looping
<1>12. TakenInv'
  <2>1. /\ \A x \in Workers : worker[x].segment \in Int
        /\ \A r \in results : r.segment \in Int
        /\ \A k \in pending : k \in Int
    BY <1>3, SegmentAssumption DEF TakenInv, Results
  <2>2. \A k \in Int : next <= k /\ k # next => next' <= k
    BY <1>1, <1>2
  <2>3. \A w \in Workers : Busy(w) => next' <= worker[w].segment
    BY <1>3, <1>7, <2>1, <2>2 DEF TakenInv, Lost
  <2>4. \A r \in results : next' <= r.segment
    BY <1>3, <1>7, <2>1, <2>2 DEF TakenInv, Lost
  <2>5. \A k \in pending : next' <= k
    BY <1>3, <1>7, <2>1, <2>2 DEF TakenInv, Lost
  <2> HIDE DEF Busy, Front, Lost
  <2> QED
    BY <1>1, <1>3, <1>6, <2>3, <2>4, <2>5 DEF TakenInv
<1>13. ASSUME DiskOK PROVE DiskOK'
  <2>1. /\ Begins(partial, list, next)
        /\ Len(partial) = 2 * next + 1
        /\ partial[2 * next + 1] = <<list, next, 0>>
    BY <1>1, <1>13 DEF DiskOK
  <2>2. checkpoint # NoCheckpoint =>
            /\ checkpoint.next <= next
            /\ Begins(partial, checkpoint.list, checkpoint.next)
            /\ Begins(synced, checkpoint.list, checkpoint.next)
    BY <1>1, <1>13 DEF DiskOK
  <2>3. Len(partial') = 2 * next'
    BY <1>1, <1>2, <1>5, <2>1
  <2>4. Begins(partial', list', next')
    <3>1. \A i \in 1..2 * next :
              partial[i] = <<list, (i - 1) \div 2, (i - 1) % 2>>
      BY <2>1 DEF Begins
    <3>2. ASSUME NEW i \in 1..2 * next'
          PROVE  partial'[i] = <<list, (i - 1) \div 2, (i - 1) % 2>>
      <4>1. i \in 1..2 * next \/ i = 2 * next + 1 \/ i = 2 * next + 2
        BY <1>1, <1>2
      <4>2. CASE i \in 1..2 * next
        BY <1>2, <1>5, <2>1, <3>1, <4>2
      <4>3. CASE i = 2 * next + 1
        <5>1. (i - 1) \div 2 = next /\ (i - 1) % 2 = 0
          BY <1>2, <4>3, Halves
        <5>2. partial'[i] = partial[i]
          BY <1>2, <1>5, <2>1, <4>3
        <5> QED
          BY <2>1, <4>3, <5>1, <5>2
      <4>4. CASE i = 2 * next + 2
        <5>1. (i - 1) \div 2 = next /\ (i - 1) % 2 = 1
          BY <1>2, <4>4, Halves
        <5>2. partial'[i] = <<list, next, 1>>
          BY <1>2, <1>5, <2>1, <4>4
        <5> QED
          BY <5>1, <5>2
      <4> QED
        BY <4>1, <4>2, <4>3, <4>4
    <3>3. \A i \in 1..2 * next' :
              partial'[i] = <<list', (i - 1) \div 2, (i - 1) % 2>>
      BY <1>1, <3>2
    <3>4. 2 * next' <= Len(partial')
      BY <1>1, <1>2, <2>3
    <3> QED
      BY <3>3, <3>4 DEF Begins
  <2>5. ASSUME checkpoint # NoCheckpoint
        PROVE  /\ checkpoint.next <= next'
               /\ Begins(partial', checkpoint.list, checkpoint.next)
    <3>1. checkpoint.next \in Nat /\ checkpoint.next <= next
      BY <1>2, <2>2, <2>5
    <3>2. \A i \in 1..2 * checkpoint.next : i \in 1..Len(partial)
      BY <1>2, <2>1, <3>1
    <3>3. /\ 2 * checkpoint.next <= Len(partial')
          /\ \A i \in 1..2 * checkpoint.next : partial'[i] = partial[i]
      BY <1>1, <1>2, <1>5, <2>3, <3>1, <3>2
    <3>4. Begins(partial', checkpoint.list, checkpoint.next)
      BY <2>2, <2>5, <3>1, <3>3, BeginsAlike
    <3> QED
      BY <1>1, <1>2, <3>1, <3>4
  <2>6. checkpoint' # NoCheckpoint =>
            /\ checkpoint'.next <= next'
            /\ Begins(partial', checkpoint'.list, checkpoint'.next)
            /\ Begins(synced', checkpoint'.list, checkpoint'.next)
    BY <1>1, <2>2, <2>5
  <2> QED
    BY <1>1, <2>3, <2>4, <2>6 DEF DiskOK
<1>14. PoolInv'
  BY <1>9, <1>10, <1>11, <1>12 DEF PoolInv
<1>15. LengthInv'
  BY <1>1, <1>2, <1>5 DEF LengthInv
<1> QED
  BY <1>1, <1>2, <1>5, <1>13, <1>14, <1>15, CoordinatorFrame DEF FileTypeOK

\* An append that fails leaves the file cut back, or half a segment that no
\* later append will meet.
LEMMA AppendFailIInv ==
    ASSUME IInv, at = "idle", UNCHANGED rangedVars, AppendFail
    PROVE  IInv'
<1>1. /\ pc = "append" /\ pc' = "loop" /\ pc # "idle"
      /\ partial' \in {partial, Prefix(partial, 2 * next)}
      /\ FailIf(TRUE)
      /\ UNCHANGED <<list, slots, kind, keep, cancelled, calls, crashes, next,
                     checkpoint, worker, jobs, nextJob, results, pending,
                     synced, target>>
  BY DEF AppendFail, Coordinate
<1>2. /\ kind = "segments" /\ list \in Lists
      /\ FileTypeOK /\ partial \in Seq(Pieces) /\ synced \in Seq(Pieces)
      /\ Len(partial) \in Nat
      /\ PoolInv /\ LengthInv /\ next \in Nat
      /\ checkpoint \in [list : Lists, next : 1..Segments] \cup {NoCheckpoint}
      /\ stop \in BOOLEAN /\ failed \in BOOLEAN /\ jobsOpen \in BOOLEAN
  BY <1>1, Coordinating
<1>3. /\ stop' \in BOOLEAN /\ failed' \in BOOLEAN /\ jobsOpen' \in BOOLEAN
      /\ jobsOpen' => jobsOpen
      /\ failed'
  BY <1>1, <1>2, FailureNoted
<1>4. PoolInv' /\ UNCHANGED Front /\ (Lost(next) => Lost(next)')
  <2>1. /\ pc' \in Positions \ {"idle", "append"}
        /\ pc' \in Looping /\ pc \in Looping
        /\ pc' \notin {"sync", "rename", "slot", "finalSync", "finalRename"}
    BY <1>1 DEF Positions, Looping
  <2> QED
    BY <1>1, <1>2, <1>3, <2>1, PoolSteady
<1>5. Lost(next) /\ next < Front
  BY <1>1, <1>2 DEF PoolInv, TakenInv
<1>6. /\ partial' \in Seq(Pieces) /\ 2 * next <= Len(partial')
      /\ \A i \in 1..2 * next : partial'[i] = partial[i]
  <2>1. 2 * next \in Nat /\ 2 * next <= Len(partial)
    BY <1>1, <1>2 DEF LengthInv
  <2>2. /\ Prefix(partial, 2 * next) \in Seq(Pieces)
        /\ Len(Prefix(partial, 2 * next)) = 2 * next
        /\ \A i \in 1..2 * next : Prefix(partial, 2 * next)[i] = partial[i]
    BY <1>2, <2>1, PrefixOf
  <2> QED
    BY <1>1, <1>2, <2>1, <2>2
<1>7. ASSUME DiskOK PROVE DiskOK'
  <2>1. Begins(partial, list, next)
    BY <1>1, <1>7 DEF DiskOK
  <2>2. checkpoint # NoCheckpoint =>
            /\ checkpoint.next \in Nat /\ checkpoint.next <= next
            /\ Begins(partial, checkpoint.list, checkpoint.next)
            /\ Begins(synced, checkpoint.list, checkpoint.next)
    BY <1>1, <1>2, <1>7 DEF DiskOK
  <2>3. \A l : \A n \in Nat : n <= next /\ Begins(partial, l, n)
                   => Begins(partial', l, n)
    <3> SUFFICES ASSUME NEW l, NEW n \in Nat, n <= next, Begins(partial, l, n)
                 PROVE  Begins(partial', l, n)
      OBVIOUS
    <3>1. Len(partial') \in Nat
      BY <1>6
    <3>2. 2 * n <= Len(partial') /\ \A i \in 1..2 * n : partial'[i] = partial[i]
      BY <1>2, <1>6, <3>1
    <3> QED
      BY <3>2, BeginsAlike
  <2>4. Begins(partial', list', next')
    BY <1>1, <1>2, <2>1, <2>3
  <2>5. checkpoint' # NoCheckpoint =>
            /\ checkpoint'.next <= next'
            /\ Begins(partial', checkpoint'.list, checkpoint'.next)
            /\ Begins(synced', checkpoint'.list, checkpoint'.next)
    BY <1>1, <2>2, <2>3
  <2>6. (failed /\ Lost(next) /\ next < Front)'
    BY <1>1, <1>3, <1>4, <1>5
  <2> QED
    BY <1>1, <2>4, <2>5, <2>6 DEF DiskOK
<1>8. LengthInv'
  BY <1>1, <1>6 DEF LengthInv
<1> QED
  BY <1>1, <1>2, <1>4, <1>6, <1>7, <1>8, CoordinatorFrame DEF FileTypeOK

\* Syncing the data, before a checkpoint is written or the file is published.
LEMMA SyncIInv ==
    ASSUME IInv, at = "idle", UNCHANGED rangedVars, SaveSync \/ PublishSync
    PROVE  IInv'
<1>1. /\ pc \in {"sync", "finalSync", "publish"} /\ pc # "idle"
      /\ \/ /\ synced' = partial
            /\ \/ pc = "sync" /\ pc' = "rename"
               \/ pc = "finalSync" /\ pc' = "finalRename"
               \/ pc = "publish" /\ pc' = "promote"
         \/ /\ synced' = synced
            /\ \/ pc = "sync" /\ pc' = "slot"
               \/ pc # "sync" /\ pc' = "drop"
      /\ UNCHANGED <<list, slots, kind, keep, cancelled, calls, crashes, next,
                     checkpoint, worker, jobs, jobsOpen, nextJob, results,
                     pending, stop, failed, partial, target>>
  BY DEF SaveSync, PublishSync, SyncAll, AfterSave, Coordinate, poolVars
<1>2. /\ kind = "segments" /\ list \in Lists
      /\ FileTypeOK /\ partial \in Seq(Pieces) /\ synced \in Seq(Pieces)
      /\ PoolInv /\ LengthInv /\ next \in Nat
      /\ checkpoint \in [list : Lists, next : 1..Segments] \cup {NoCheckpoint}
      /\ stop \in BOOLEAN /\ failed \in BOOLEAN /\ jobsOpen \in BOOLEAN
  BY <1>1, Coordinating
<1>3. /\ pc' \in Positions \ {"idle", "append"}
      /\ pc' \in Looping => pc = "sync"
      /\ pc' \notin Looping => pc \notin Looping
      /\ pc = "sync" => pc \in Looping
      /\ pc' \in {"sync", "rename", "finalSync", "finalRename"} =>
             pc \in {"sync", "finalSync"}
      /\ pc' \in {"sync", "rename", "slot"} => pc = "sync"
  BY <1>1 DEF Positions, Looping
<1>4. pc \in {"sync", "finalSync"} => next > 0
  BY <1>2 DEF PoolInv, CallInv
<1>5. pc' \notin Looping => \A w \in Workers : worker[w].at = "exited"
  BY <1>2, <1>3 DEF PoolInv, RestInv
<1>6. PoolInv' /\ UNCHANGED Front /\ (Lost(next) => Lost(next)')
  BY <1>1, <1>2, <1>3, <1>4, <1>5, PoolSteady
<1>7. ASSUME DiskOK PROVE DiskOK'
  <2>1. Begins(partial, list, next)
    BY <1>1, <1>7 DEF DiskOK
  <2>2. Len(partial) # 2 * next => failed /\ Lost(next) /\ next < Front
    BY <1>1, <1>7 DEF DiskOK
  <2>3. checkpoint # NoCheckpoint =>
            /\ checkpoint.next <= next
            /\ Begins(partial, checkpoint.list, checkpoint.next)
            /\ Begins(synced, checkpoint.list, checkpoint.next)
    BY <1>1, <1>7 DEF DiskOK
  <2>4. pc = "publish" => next = Segments /\ Len(partial) = 2 * next
    BY <1>7 DEF DiskOK
  <2>5. checkpoint' # NoCheckpoint =>
            /\ checkpoint'.next <= next'
            /\ Begins(partial', checkpoint'.list, checkpoint'.next)
            /\ Begins(synced', checkpoint'.list, checkpoint'.next)
    BY <1>1, <2>3
  <2>6. Begins(partial', list', next')
    BY <1>1, <2>1
  <2>7. Len(partial') # 2 * next' => failed' /\ Lost(next)' /\ (next < Front)'
    BY <1>1, <1>6, <2>2
  <2>8. pc' \in {"rename", "finalRename"} => synced' = partial'
    BY <1>1
  <2>9. pc' \in {"publish", "promote"} =>
            next' = Segments /\ Len(partial') = 2 * next'
    BY <1>1, <2>4
  <2> QED
    BY <1>3, <2>5, <2>6, <2>7, <2>8, <2>9 DEF DiskOK
<1>8. LengthInv'
  BY <1>1, <1>2, <1>3 DEF LengthInv
<1> QED
  BY <1>1, <1>2, <1>6, <1>7, <1>8, CoordinatorFrame DEF FileTypeOK

\* The checkpoint is renamed into place: it describes what was synced.
LEMMA RenameIInv ==
    ASSUME IInv, at = "idle", UNCHANGED rangedVars, SaveRename
    PROVE  IInv'
<1>1. /\ pc \in {"rename", "finalRename"} /\ pc # "idle"
      /\ checkpoint' \in {checkpoint, [list |-> list, next |-> next]}
      /\ \/ pc = "rename" /\ pc' = "slot"
         \/ pc # "rename" /\ pc' = "drop"
      /\ UNCHANGED <<list, slots, kind, keep, cancelled, calls, crashes, next,
                     worker, jobs, jobsOpen, nextJob, results, pending, stop,
                     failed, partial, synced, target>>
  BY DEF SaveRename, AfterSave, Coordinate, diskVars
<1>2. /\ kind = "segments" /\ list \in Lists
      /\ FileTypeOK /\ partial \in Seq(Pieces) /\ synced \in Seq(Pieces)
      /\ PoolInv /\ LengthInv /\ next \in Nat /\ next <= Segments
      /\ Segments \in Nat
      /\ checkpoint \in [list : Lists, next : 1..Segments] \cup {NoCheckpoint}
      /\ stop \in BOOLEAN /\ failed \in BOOLEAN /\ jobsOpen \in BOOLEAN
  BY <1>1, Coordinating
<1>3. /\ pc' \in Positions \ {"idle", "append", "sync", "rename", "finalSync",
                              "finalRename"}
      /\ pc' \in Looping => pc = "rename" /\ pc \in Looping
      /\ pc' \notin Looping => pc \notin Looping
      /\ pc' \in {"sync", "rename", "slot"} => pc = "rename"
  BY <1>1 DEF Positions, Looping
<1>4. next > 0
  BY <1>1, <1>2 DEF PoolInv, CallInv
<1>5. pc' \notin Looping => \A w \in Workers : worker[w].at = "exited"
  BY <1>2, <1>3 DEF PoolInv, RestInv
<1>6. checkpoint' \in [list : Lists, next : 1..Segments] \cup {NoCheckpoint}
  <2>1. next \in 1..Segments
    BY <1>2, <1>4
  <2> QED
    BY <1>1, <1>2, <2>1
<1>7. PoolInv' /\ UNCHANGED Front /\ (Lost(next) => Lost(next)')
  BY <1>1, <1>2, <1>3, <1>5, <1>6, PoolSteady
<1>8. ASSUME DiskOK PROVE DiskOK'
  <2>1. Begins(partial, list, next) /\ synced = partial
    BY <1>1, <1>8 DEF DiskOK
  <2>2. Len(partial) # 2 * next => failed /\ Lost(next) /\ next < Front
    BY <1>1, <1>8 DEF DiskOK
  <2>3. checkpoint # NoCheckpoint =>
            /\ checkpoint.next <= next
            /\ Begins(partial, checkpoint.list, checkpoint.next)
            /\ Begins(synced, checkpoint.list, checkpoint.next)
    BY <1>1, <1>8 DEF DiskOK
  <2>4. checkpoint' # NoCheckpoint =>
            /\ checkpoint'.next <= next'
            /\ Begins(partial', checkpoint'.list, checkpoint'.next)
            /\ Begins(synced', checkpoint'.list, checkpoint'.next)
    <3>1. CASE checkpoint' = checkpoint
      BY <1>1, <2>3, <3>1
    <3>2. CASE checkpoint' = [list |-> list, next |-> next]
      <4>1. checkpoint'.list = list /\ checkpoint'.next = next
        BY <3>2
      <4> QED
        BY <1>1, <1>2, <2>1, <4>1
    <3> QED
      BY <1>1, <3>1, <3>2
  <2>5. Begins(partial', list', next')
    BY <1>1, <2>1
  <2>6. Len(partial') # 2 * next' => failed' /\ Lost(next)' /\ (next < Front)'
    BY <1>1, <1>7, <2>2
  <2> QED
    BY <1>1, <1>3, <2>4, <2>5, <2>6 DEF DiskOK
<1>9. LengthInv'
  BY <1>1, <1>2, <1>3 DEF LengthInv
<1> QED
  BY <1>1, <1>2, <1>7, <1>8, <1>9, CoordinatorFrame DEF FileTypeOK

\* Assembly releases a slot: the next job is sent, if there is one.
LEMMA ReleaseIInv ==
    ASSUME IInv, at = "idle", UNCHANGED rangedVars, ReleaseSlot
    PROVE  IInv'
<1>1. /\ pc = "slot" /\ pc' = "assemble" /\ pc # "idle"
      /\ UNCHANGED <<list, slots, kind, keep, cancelled, calls, crashes, next,
                     checkpoint, worker, results, pending, stop, failed,
                     partial, synced, target>>
  BY DEF ReleaseSlot, Coordinate, diskVars
<1>2. /\ kind = "segments" /\ list \in Lists
      /\ FileTypeOK /\ partial \in Seq(Pieces) /\ synced \in Seq(Pieces)
      /\ PoolInv /\ LengthInv /\ next \in Nat /\ next <= Segments
      /\ Segments \in Nat /\ Front \in Int /\ nextJob \in Nat
      /\ checkpoint \in [list : Lists, next : 1..Segments] \cup {NoCheckpoint}
      /\ stop \in BOOLEAN /\ failed \in BOOLEAN /\ jobsOpen \in BOOLEAN
  BY <1>1, Coordinating
<1>3. PoolInv' /\ UNCHANGED Front /\ (Lost(next) => Lost(next)')
  <2>1. CASE UNCHANGED <<jobs, nextJob, jobsOpen>>
    <3>1. /\ pc' \in Positions \ {"idle", "append"}
          /\ pc' \in Looping /\ pc \in Looping
          /\ pc' \notin {"sync", "rename", "slot", "finalSync", "finalRename"}
      BY <1>1 DEF Positions, Looping
    <3> QED
      BY <1>1, <1>2, <2>1, <3>1, PoolSteady
  <2>2. CASE /\ jobsOpen
             /\ jobs' = Append(jobs, nextJob)
             /\ nextJob' = nextJob + 1
             /\ jobsOpen' = (nextJob + 1 < Segments)
    <3>1. CallInv /\ JobsInv /\ TakenInv /\ RestInv
      BY <1>2 DEF PoolInv
    <3>2. /\ jobs \in Seq(Nat) /\ Len(jobs) \in Nat /\ slots \in Nat
          /\ jobs' \in Seq(Nat) /\ Len(jobs') = Len(jobs) + 1
          /\ jobs'[Len(jobs) + 1] = nextJob
          /\ \A i \in 1..Len(jobs) : jobs'[i] = jobs[i]
      BY <1>2, <2>2, <3>1, OneMore DEF JobsInv
    <3>3. Front' = Front
      BY <1>2, <2>2, <3>2 DEF Front
    <3>4. nextJob < Segments /\ nextJob < next + slots /\ next <= Front
      BY <1>1, <2>2, <3>1 DEF JobsInv, Looping
    <3>5. \A i \in 1..Len(jobs') : jobs'[i] = Front + i - 1
      <4> SUFFICES ASSUME NEW i \in 1..Len(jobs') PROVE jobs'[i] = Front + i - 1
        OBVIOUS
      <4>1. CASE i \in 1..Len(jobs)
        BY <3>1, <3>2, <4>1 DEF JobsInv
      <4>2. CASE i = Len(jobs) + 1
        BY <1>2, <3>2, <4>2 DEF Front
      <4> QED
        BY <3>2, <4>1, <4>2
    <3>6. JobsInv'
      <4>1. /\ nextJob' \in 0..Segments /\ Len(jobs') <= nextJob'
            /\ nextJob' <= next + slots
        BY <1>2, <2>2, <3>1, <3>2, <3>4 DEF JobsInv
      <4>2. jobsOpen' => nextJob' < Segments
        BY <2>2
      <4> QED
        BY <1>1, <3>2, <3>3, <3>4, <3>5, <4>1, <4>2 DEF JobsInv
    <3>7. CallInv'
      <4>1. jobsOpen' \in BOOLEAN
        BY <2>2
      <4> QED
        BY <1>1, <3>1, <4>1 DEF CallInv, Positions
    <3>8. \A w \in Workers : Busy(w)' = Busy(w)
      BY <1>1 DEF Busy
    <3>9. Lost(next) => Lost(next)'
      BY <1>1, <3>8 DEF Lost
    <3>10. RestInv'
      BY <1>1, <3>1 DEF RestInv, Looping
    <3> HIDE DEF Busy, Front, Lost
    <3>11. TakenInv'
      BY <1>1, <3>1, <3>3, <3>8 DEF TakenInv
    <3> QED
      BY <3>3, <3>6, <3>7, <3>9, <3>10, <3>11 DEF PoolInv
  <2> QED
    BY <2>1, <2>2 DEF ReleaseSlot
<1>4. ASSUME DiskOK PROVE DiskOK'
  <2>1. Begins(partial, list, next)
    BY <1>1, <1>4 DEF DiskOK
  <2>2. Len(partial) # 2 * next => failed /\ Lost(next) /\ next < Front
    BY <1>1, <1>4 DEF DiskOK
  <2>3. checkpoint # NoCheckpoint =>
            /\ checkpoint.next <= next
            /\ Begins(partial, checkpoint.list, checkpoint.next)
            /\ Begins(synced, checkpoint.list, checkpoint.next)
    BY <1>1, <1>4 DEF DiskOK
  <2> QED
    BY <1>1, <1>3, <2>1, <2>2, <2>3 DEF DiskOK, Begins
<1>5. LengthInv'
  BY <1>1, <1>2 DEF LengthInv
<1> QED
  BY <1>1, <1>2, <1>3, <1>4, <1>5, CoordinatorFrame DEF FileTypeOK

\* The staging file becomes the output, or the call fails.
LEMMA PromoteIInv ==
    ASSUME IInv, at = "idle", UNCHANGED rangedVars, PublishRename
    PROVE  IInv'
<1>1. /\ pc = "promote" /\ pc # "idle"
      /\ \/ pc' = "clean" /\ partial' = <<>> /\ synced' = <<>>
         \/ pc' = "drop" /\ partial' = partial /\ synced' = synced
      /\ UNCHANGED <<list, slots, kind, keep, cancelled, calls, crashes, next,
                     checkpoint, worker, jobs, jobsOpen, nextJob, results,
                     pending, stop, failed>>
  BY DEF PublishRename, Promote, Coordinate, poolVars, diskVars
<1>2. /\ kind = "segments" /\ list \in Lists
      /\ FileTypeOK /\ partial \in Seq(Pieces) /\ synced \in Seq(Pieces)
      /\ PoolInv /\ LengthInv /\ next \in Nat
      /\ checkpoint \in [list : Lists, next : 1..Segments] \cup {NoCheckpoint}
      /\ stop \in BOOLEAN /\ failed \in BOOLEAN /\ jobsOpen \in BOOLEAN
  BY <1>1, Coordinating
<1>3. /\ pc' \in Positions \ {"idle", "append", "sync", "rename", "slot",
                              "finalSync", "finalRename"}
      /\ pc' \notin Looping /\ pc \notin Looping
  BY <1>1 DEF Positions, Looping
<1>4. \A w \in Workers : worker[w].at = "exited"
  BY <1>2, <1>3 DEF PoolInv, RestInv
<1>5. PoolInv' /\ UNCHANGED Front /\ (Lost(next) => Lost(next)')
  BY <1>1, <1>2, <1>3, <1>4, PoolSteady
<1>6. partial' \in Seq(Pieces) /\ synced' \in Seq(Pieces)
  BY <1>1, <1>2, EmptySeq
<1>7. ASSUME DiskOK PROVE DiskOK'
  <2>1. Begins(partial, list, next)
    BY <1>1, <1>7 DEF DiskOK
  <2>2. Len(partial) # 2 * next => failed /\ Lost(next) /\ next < Front
    BY <1>1, <1>7 DEF DiskOK
  <2>3. checkpoint # NoCheckpoint =>
            /\ checkpoint.next <= next
            /\ Begins(partial, checkpoint.list, checkpoint.next)
            /\ Begins(synced, checkpoint.list, checkpoint.next)
    BY <1>1, <1>7 DEF DiskOK
  <2>4. CASE pc' = "clean" /\ partial' = <<>> /\ synced' = <<>>
    BY <1>1, <2>3, <2>4 DEF DiskOK
  <2>5. CASE pc' = "drop" /\ partial' = partial /\ synced' = synced
    BY <1>1, <1>5, <2>1, <2>2, <2>3, <2>5 DEF DiskOK, Begins
  <2> QED
    BY <1>1, <2>4, <2>5
<1>8. LengthInv'
  BY <1>1, <1>2 DEF LengthInv
<1> QED
  BY <1>1, <1>2, <1>5, <1>6, <1>7, <1>8, CoordinatorFrame DEF FileTypeOK

\* The call returns.
LEMMA ReturnIInv ==
    ASSUME IInv, at = "idle", UNCHANGED rangedVars, PublishClean \/ DropOutput
    PROVE  IInv'
<1>1. /\ pc \in {"clean", "drop"} /\ pc # "idle" /\ Return /\ pc' = "idle"
      /\ keep' = FALSE /\ cancelled' = FALSE
      /\ UNCHANGED <<kind, calls, crashes, target>>
      /\ \/ checkpoint' = NoCheckpoint /\ partial' = <<>> /\ synced' = <<>>
         \/ checkpoint' = NoCheckpoint /\ UNCHANGED <<partial, synced>>
         \/ pc = "drop" /\ UNCHANGED <<checkpoint, partial, synced>>
  BY DEF PublishClean, DropOutput, Leave, Return, diskVars
<1>2. /\ kind = "segments"
      /\ FileTypeOK /\ partial \in Seq(Pieces) /\ synced \in Seq(Pieces)
      /\ PoolInv /\ LengthInv
      /\ checkpoint \in [list : Lists, next : 1..Segments] \cup {NoCheckpoint}
  BY <1>1, Coordinating
<1>3. PoolInv'
  BY <1>1, <1>2, PoolReturns
<1>4. partial' \in Seq(Pieces) /\ synced' \in Seq(Pieces)
  BY <1>1, <1>2, EmptySeq
<1>5. ASSUME DiskOK PROVE DiskOK'
  <2>1. CASE checkpoint' = NoCheckpoint
    BY <1>1, <2>1 DEF DiskOK
  <2>2. CASE pc = "drop" /\ UNCHANGED <<checkpoint, partial, synced>>
    BY <1>1, <1>5, <2>2 DEF DiskOK, Begins
  <2> QED
    BY <1>1, <2>1, <2>2
<1>6. LengthInv'
  BY <1>1 DEF LengthInv
<1> QED
  BY <1>1, <1>2, <1>3, <1>4, <1>5, <1>6, CoordinatorFrame DEF FileTypeOK

\* The caller cancels.
LEMMA SegCancelIInv ==
    ASSUME IInv, at = "idle", UNCHANGED rangedVars, SegCancel
    PROVE  IInv'
<1>1. /\ pc # "idle" /\ cancelled' = TRUE /\ UNCHANGED segVars
      /\ UNCHANGED <<partial, synced, target, kind, keep, calls, crashes>>
  BY DEF SegCancel, CancelCall, diskVars
<1>2. UNCHANGED <<pc, list, next, checkpoint, worker, slots, jobs, jobsOpen,
                  nextJob, results, pending, stop, failed>>
  BY <1>1 DEF segVars
<1>3. /\ kind = "segments"
      /\ FileTypeOK /\ partial \in Seq(Pieces) /\ synced \in Seq(Pieces)
      /\ PoolInv /\ LengthInv
  BY <1>1, Coordinating
<1>4. CallInv' /\ JobsInv' /\ TakenInv' /\ RestInv'
  BY <1>2, <1>3 DEF PoolInv, CallInv, JobsInv, TakenInv, RestInv, Front, Busy,
                    Lost
<1>5. DiskOK => DiskOK'
  BY <1>1, <1>2 DEF DiskOK, Begins, Lost, Busy, Front
<1>6. PoolInv' /\ LengthInv'
  BY <1>1, <1>2, <1>3, <1>4 DEF PoolInv, LengthInv
<1> QED
  BY <1>1, <1>3, <1>5, <1>6, CoordinatorFrame DEF FileTypeOK

\* The process or the machine dies.
LEMMA SegCrashIInv ==
    ASSUME IInv, at = "idle", UNCHANGED rangedVars, SegCrash
    PROVE  IInv'
<1>1. /\ kind = "segments" /\ kind' = kind /\ Return /\ pc' = "idle"
      /\ keep' = FALSE /\ cancelled' = FALSE /\ calls' = calls
      /\ crashes < MaxCrashes /\ crashes' = crashes + 1
      /\ checkpoint' = checkpoint
  BY DEF SegCrash, CrashFile, Return
<1>2. PICK c \in Surviving : partial' = c /\ synced' = c
  BY DEF SegCrash, CrashFile
<1>3. /\ FileInv /\ partial \in Seq(Pieces) /\ synced \in Seq(Pieces)
      /\ Len(partial) \in Nat /\ Len(synced) \in Nat
      /\ calls \in Nat /\ crashes \in Nat
      /\ checkpoint \in [list : Lists, next : 1..Segments] \cup {NoCheckpoint}
  BY FileAssumption DEF IInv, FileInv, FileTypeOK, PoolInv, CallInv
<1>4. crashes' \in 0..MaxCrashes
  BY <1>1, <1>3, FileAssumption
<1>5. c \in Seq(Pieces) /\ (c = synced \/ Len(c) <= Len(partial))
  <2>1. /\ 0 \in Nat /\ 0 <= Len(partial) /\ 0 <= Len(synced)
        /\ \A i \in 1..0 : partial[i] = synced[i]
    BY <1>3
  <2> QED
    BY <1>3, <2>1, SurvivorsBegin
<1>6. PoolInv'
  BY <1>1, <1>3, PoolReturns
<1>7. ASSUME DiskOK PROVE DiskOK'
  <2>1. CASE checkpoint = NoCheckpoint
    BY <1>1, <2>1 DEF DiskOK
  <2>2. CASE partial = <<>> /\ synced = <<>>
    <3>1. c = <<>>
      <4>1. Len(c) \in Nat /\ Len(<<>>) = 0
        BY <1>5
      <4>2. c = <<>> \/ Len(c) <= 0
        BY <1>5, <2>2, <4>1
      <4> QED
        BY <1>5, <4>1, <4>2, EmptySeq
    <3> QED
      BY <1>1, <1>2, <3>1 DEF DiskOK
  <2>3. CASE /\ checkpoint # NoCheckpoint
             /\ Begins(partial, checkpoint.list, checkpoint.next)
             /\ Begins(synced, checkpoint.list, checkpoint.next)
    <3> DEFINE l == checkpoint.list
               n == checkpoint.next
    <3>1. n \in Nat /\ 2 * n \in Nat
      BY <1>3, <2>3
    <3>2. 2 * n <= Len(partial) /\ 2 * n <= Len(synced)
      BY <2>3 DEF Begins
    <3>3. \A i \in 1..2 * n : partial[i] = synced[i]
      BY <2>3 DEF Begins
    <3>4. 2 * n <= Len(c) /\ \A i \in 1..2 * n : c[i] = partial[i]
      <4> HIDE DEF n
      <4> QED
        BY <1>3, <3>1, <3>2, <3>3, SurvivorsBegin
    <3>5. Begins(c, l, n)
      <4>1. Begins(partial, l, n)
        BY <2>3
      <4> HIDE DEF n, l
      <4> QED
        BY <3>1, <3>4, <4>1, BeginsAlike
    <3>6. /\ Begins(partial', checkpoint'.list, checkpoint'.next)
          /\ Begins(synced', checkpoint'.list, checkpoint'.next)
      BY <1>1, <1>2, <3>5
    <3> QED
      BY <1>1, <3>6 DEF DiskOK
  <2> QED
    BY <1>7, <2>1, <2>2, <2>3 DEF DiskOK
<1>8. LengthInv'
  BY <1>1 DEF LengthInv
<1> QED
  BY <1>1, <1>2, <1>3, <1>4, <1>5, <1>6, <1>7, <1>8, CoordinatorFrame

\* The workers that a call is going to start, and the first jobs.
LEMMA PoolCreated ==
    ASSUME NEW first \in Nat, first < Segments, CreatePool(first),
           next' = first, pc' = "spawn"
    PROVE  /\ JobsInv' /\ TakenInv' /\ RestInv'
           /\ stop' \in BOOLEAN /\ failed' \in BOOLEAN /\ jobsOpen' \in BOOLEAN
<1> DEFINE count == Min({MaxParallel, Segments - first})
<1>1. /\ slots' = count
      /\ jobs' = [i \in 1..count |-> first + i - 1]
      /\ nextJob' = first + count
      /\ jobsOpen' = (first + count < Segments)
      /\ worker' = [w \in Workers |->
                      IF w <= count THEN [Resting EXCEPT !.at = "new"]
                      ELSE Resting]
      /\ failed' = FALSE /\ stop' = FALSE
      /\ results' = {} /\ pending' = {}
  BY DEF CreatePool
<1>2. count \in Nat /\ count <= Segments - first
  BY SegmentAssumption, Smaller
<1> HIDE DEF count
<1>3. stop' \in BOOLEAN /\ failed' \in BOOLEAN /\ jobsOpen' \in BOOLEAN
  <2>1. (first + count < Segments) \in BOOLEAN
    BY <1>2, SegmentAssumption
  <2>2. jobsOpen' = (first + count < Segments)
    BY <1>1, Zenon
  <2>3. jobsOpen' \in BOOLEAN
    BY <2>1, <2>2, Zenon
  <2>4. stop' = FALSE /\ failed' = FALSE
    BY <1>1, Zenon
  <2> QED
    BY <2>3, <2>4, Zenon
<1>4. jobsOpen' => first + count < Segments
  BY <1>1
<1>5. worker' \in [Workers -> [at : {"new", "exited"},
                               segment : 0..Segments - 1, ok : BOOLEAN]]
  <2>1. /\ Resting \in [at : {"new", "exited"}, segment : 0..Segments - 1,
                        ok : BOOLEAN]
        /\ [Resting EXCEPT !.at = "new"] \in
               [at : {"new", "exited"}, segment : 0..Segments - 1,
                ok : BOOLEAN]
    <3>1. 0 \in 0..Segments - 1
      BY SegmentAssumption
    <3> QED
      BY <3>1 DEF Resting
  <2> QED
    BY <1>1, <2>1
<1>6. /\ jobs' \in Seq(Nat) /\ Len(jobs') = count
      /\ \A i \in 1..count : jobs'[i] = first + i - 1
  <2>1. \A i \in 1..count : first + i - 1 \in Nat
    OBVIOUS
  <2>2. jobs' \in [1..count -> Nat]
    BY <1>1, <2>1
  <2>3. jobs' \in Seq(Nat) /\ Len(jobs') = count
    BY <1>2, <2>2
  <2> QED
    BY <1>1, <2>3
<1>7. Front' = first
  BY <1>1, <1>2, <1>6 DEF Front
<1>8. JobsInv'
  <2>1. /\ nextJob' \in 0..Segments /\ Len(jobs') <= nextJob'
        /\ nextJob' <= next' + slots'
    BY <1>1, <1>2, <1>6, SegmentAssumption
  <2>2. next' <= Front'
    BY <1>7
  <2>3. \A i \in 1..Len(jobs') : jobs'[i] = Front' + i - 1
    BY <1>6, <1>7
  <2> QED
    BY <1>1, <1>2, <1>4, <1>6, <2>1, <2>2, <2>3 DEF JobsInv
<1>9. TakenInv'
  <2>1. \A w \in Workers : ~Busy(w)'
    BY <1>5 DEF Busy
  <2>2. worker' \in [Workers -> [at : Places, segment : 0..Segments - 1,
                                 ok : BOOLEAN]]
    BY <1>5 DEF Places
  <2> QED
    BY <1>1, <2>1, <2>2 DEF TakenInv
<1>10. RestInv'
  BY DEF RestInv, Looping
<1> QED
  BY <1>3, <1>8, <1>9, <1>10

\* Opening restores what the checkpoint describes, or begins anew.
LEMMA OpenRestores ==
    ASSUME IInv, pc = "idle", NEW l \in Lists, NEW kept \in BOOLEAN, Open(l, kept)
    PROVE  /\ next' \in 0..Segments
           /\ partial' \in Seq(Pieces) /\ Len(partial') = 2 * next'
           /\ synced' \in Seq(Pieces)
           /\ checkpoint' \in [list : Lists, next : 1..Segments]
                  \cup {NoCheckpoint}
           /\ checkpoint' # NoCheckpoint =>
                  checkpoint'.list = l /\ checkpoint'.next = next'
           /\ DiskOK => /\ Begins(partial', l, next')
                        /\ checkpoint' # NoCheckpoint =>
                               Begins(synced', l, next')
<1> DEFINE valid == kept /\ checkpoint # NoCheckpoint /\ checkpoint.list = l
           good == valid /\ Len(partial) >= 2 * checkpoint.next
<1>1. /\ next' = IF good THEN checkpoint.next ELSE 0
      /\ partial' = Prefix(partial, 2 * next')
      /\ synced' = IF valid THEN synced ELSE <<>>
      /\ checkpoint' = IF next' = 0 THEN NoCheckpoint ELSE checkpoint
  BY Zenon DEF Open
<1>2. /\ partial \in Seq(Pieces) /\ synced \in Seq(Pieces)
      /\ Len(partial) \in Nat
      /\ checkpoint \in [list : Lists, next : 1..Segments] \cup {NoCheckpoint}
  BY DEF IInv, FileInv, PoolInv, CallInv
<1>3. synced' \in Seq(Pieces)
  BY <1>1, <1>2, EmptySeq
<1>4. CASE good
  <2>1. /\ checkpoint \in [list : Lists, next : 1..Segments]
        /\ checkpoint.list = l /\ next' = checkpoint.next
        /\ Len(partial) >= 2 * checkpoint.next
        /\ synced' = synced
    BY <1>1, <1>2, <1>4
  <2>2. next' \in 1..Segments
    BY <2>1
  <2>3. checkpoint' = checkpoint /\ 2 * next' \in Nat /\ 2 * next' <= Len(partial)
    BY <1>1, <2>1, <2>2
  <2>4. /\ partial' \in Seq(Pieces) /\ Len(partial') = 2 * next'
        /\ \A i \in 1..2 * next' : partial'[i] = partial[i]
    BY <1>1, <1>2, <2>3, PrefixOf
  <2>5. ASSUME DiskOK PROVE Begins(partial', l, next') /\ Begins(synced', l, next')
    <3>1. partial # <<>>
      BY <1>2, <2>2, <2>3
    <3>2. Begins(partial, l, next') /\ Begins(synced', l, next')
      BY <1>4, <2>1, <2>5, <3>1 DEF DiskOK
    <3>3. next' \in Nat /\ 2 * next' <= Len(partial')
      <4>1. next' \in Nat
        BY <2>2, SegmentAssumption
      <4>2. Len(partial') \in Nat /\ Len(partial') = 2 * next'
        BY <2>4
      <4>3. \A n \in Nat : n <= n
        OBVIOUS
      <4>4. Len(partial') <= Len(partial')
        BY <4>2, <4>3, Zenon
      <4> QED
        BY <4>1, <4>2, <4>4, Zenon
    <3> QED
      BY <2>4, <3>2, <3>3, BeginsAlike
  <2> QED
    BY <1>3, <2>1, <2>2, <2>3, <2>4, <2>5
<1>5. CASE ~good
  <2>1. next' = 0 /\ checkpoint' = NoCheckpoint
    BY <1>1, <1>5
  <2>2. partial' = Prefix(partial, 0)
    BY <1>1, <2>1
  <2>3. partial' \in Seq(Pieces) /\ Len(partial') = 0
    BY <1>2, <2>2, PrefixOf
  <2>4. Begins(partial', l, next')
    BY <2>1, <2>3 DEF Begins
  <2> QED
    BY <1>3, <2>1, <2>3, <2>4, SegmentAssumption
<1> QED
  BY <1>4, <1>5

\* A call opens its output and sets up its workers, or has all it needs.
LEMMA StartSegmentsIInv ==
    ASSUME IInv, at = "idle", UNCHANGED rangedVars, NEW c \in SegmentCalls,
           StartSegments(c.list, c.keep)
    PROVE  IInv'
<1> DEFINE l == c.list
           kept == c.keep
<1>1. /\ pc = "idle" /\ list' = l /\ Open(l, kept)
      /\ kind' = "segments" /\ keep' = kept /\ cancelled' = FALSE
      /\ calls' = calls + 1 /\ crashes' = crashes
      /\ Mixing \/ kind \in {"none", "segments"}
      /\ \/ next' = Segments /\ pc' = "publish" /\ UNCHANGED poolVars
         \/ next' # Segments /\ pc' = "spawn" /\ CreatePool(next')
  BY DEF StartSegments, Enter
<1>2. l \in Lists /\ kept \in BOOLEAN
  BY SegmentAssumption DEF Lists
<1> HIDE DEF l, kept
<1>3. /\ next' \in 0..Segments
      /\ partial' \in Seq(Pieces) /\ Len(partial') = 2 * next'
      /\ synced' \in Seq(Pieces)
      /\ checkpoint' \in [list : Lists, next : 1..Segments] \cup {NoCheckpoint}
      /\ checkpoint' # NoCheckpoint =>
             checkpoint'.list = l /\ checkpoint'.next = next'
      /\ DiskOK => /\ Begins(partial', l, next')
                   /\ checkpoint' # NoCheckpoint => Begins(synced', l, next')
  BY <1>1, <1>2, OpenRestores
<1>4. PoolInv /\ CallInv /\ RestInv /\ FileTypeOK
  BY DEF IInv, PoolInv, FileInv
<1>5. ASSUME next' = Segments, pc' = "publish", UNCHANGED poolVars
      PROVE  PoolInv'
  <2>1. UNCHANGED <<worker, slots, jobs, jobsOpen, nextJob, results, pending,
                    stop, failed>>
    BY <1>5 DEF poolVars
  <2>2. /\ worker = [w \in Workers |-> Resting] /\ jobs = <<>> /\ nextJob = 0
        /\ ~jobsOpen /\ slots = 0 /\ results = {} /\ pending = {}
    BY <1>1, <1>4 DEF RestInv
  <2>3. JobsInv'
    BY <1>5, <2>1, <2>2, SegmentAssumption DEF JobsInv, Front, Looping
  <2>4. TakenInv'
    BY <1>5, <2>1, <2>2, SegmentAssumption DEF TakenInv, Busy, Lost, Resting, Places
  <2>5. RestInv'
    BY <1>5, <2>1, <2>2 DEF RestInv, Resting
  <2>6. CallInv'
    BY <1>1, <1>2, <1>3, <1>4, <1>5, <2>1 DEF CallInv, Positions
  <2> QED
    BY <2>3, <2>4, <2>5, <2>6 DEF PoolInv
<1>6. ASSUME next' # Segments, pc' = "spawn", CreatePool(next')
      PROVE  PoolInv'
  <2>1. next' \in Nat /\ next' < Segments
    BY <1>3, <1>6, SegmentAssumption
  <2>2. /\ JobsInv' /\ TakenInv' /\ RestInv'
        /\ stop' \in BOOLEAN /\ failed' \in BOOLEAN /\ jobsOpen' \in BOOLEAN
    <3> DEFINE first == next'
    <3>1. first \in Nat /\ first < Segments /\ next' = first
          /\ CreatePool(first) /\ pc' = "spawn"
      BY <1>6, <2>1
    <3> HIDE DEF first
    <3> QED
      BY <3>1, PoolCreated
  <2>3. CallInv'
    BY <1>1, <1>2, <1>3, <1>6, <2>2 DEF CallInv, Positions
  <2> QED
    BY <2>2, <2>3 DEF PoolInv
<1>7. PoolInv' /\ pc' \in {"publish", "spawn"} /\ (pc' = "publish" => next' = Segments)
  BY <1>1, <1>5, <1>6
<1>8. FileInv'
  <2>1. calls' \in Nat
    BY <1>1, <1>4 DEF FileTypeOK
  <2> QED
    BY <1>1, <1>2, <1>3, <1>4, <2>1 DEF FileInv, FileTypeOK
<1>9. LengthInv'
  <2>1. next' \in Nat /\ 2 * next' <= Len(partial')
    <3>1. next' \in Nat
      BY <1>3, SegmentAssumption
    <3>2. Len(partial') \in Nat /\ Len(partial') = 2 * next'
      <4>1. 2 * next' \in Nat
        <5> DEFINE n == next'
        <5>1. n \in Nat
          BY <3>1
        <5> HIDE DEF n
        <5>2. 2 * n \in Nat
          BY <5>1
        <5> QED
          BY <5>2 DEF n
      <4>2. Len(partial') = 2 * next'
        BY <1>3, Zenon
      <4> QED
        BY <4>1, <4>2, Zenon
    <3>3. \A n \in Nat : n <= n
      OBVIOUS
    <3>4. Len(partial') <= Len(partial')
      BY <3>2, <3>3, Zenon
    <3> QED
      BY <3>1, <3>2, <3>4, Zenon
  <2>2. pc' # "append"
    BY <1>7
  <2> QED
    BY <2>1, <2>2 DEF LengthInv
<1>10. LoopInv' /\ ReadInv' /\ DataInv'
  BY <1>1, RangedRests DEF IInv
<1>11. KindInv'
  <2>1. UNCHANGED <<at, saved>>
    BY DEF rangedVars
  <2>2. ~Mixing => saved = Unsaved
    BY <1>1 DEF IInv, KindInv
  <2> QED
    BY <1>1, <2>1, <2>2 DEF KindInv
<1>12. DiskInv'
  <2> SUFFICES ASSUME ~Mixing PROVE DiskOK'
    BY DEF DiskInv
  <2>1. DiskOK
    BY <1>1 DEF IInv, DiskInv
  <2>2. next' \in Nat
    BY <1>3, SegmentAssumption
  <2>3. checkpoint' # NoCheckpoint =>
            /\ checkpoint'.next <= next'
            /\ Begins(partial', checkpoint'.list, checkpoint'.next)
            /\ Begins(synced', checkpoint'.list, checkpoint'.next)
    BY <1>3, <2>1, <2>2
  <2>4. Begins(partial', list', next') /\ Len(partial') = 2 * next'
    BY <1>1, <1>3, <2>1
  <2> QED
    BY <1>7, <2>3, <2>4 DEF DiskOK
<1> QED
  BY <1>7, <1>8, <1>9, <1>10, <1>11, <1>12 DEF IInv

\* Every step of a segmented download.
LEMMA SegStepIInv ==
    ASSUME IInv, at = "idle", SegStep, UNCHANGED rangedVars
    PROVE  IInv'
<1>1. ASSUME NEW c \in SegmentCalls, StartSegments(c.list, c.keep)
      PROVE  IInv'
  BY <1>1, StartSegmentsIInv
<1>2. ASSUME NEW w \in Workers, WorkerStep(w) PROVE IInv'
  BY <1>2, WorkerIInv
<1>3. CASE CoordinatorStep
  BY <1>3, SpawnIInv, FlagSteps, ReceiveIInv, AppendFirstIInv, AppendLastIInv,
     AppendFailIInv, SyncIInv, RenameIInv, ReleaseIInv, PromoteIInv, ReturnIInv
     DEF CoordinatorStep
<1> QED
  BY <1>1, <1>2, <1>3, SegCancelIInv, SegCrashIInv DEF SegStep
-----------------------------------------------------------------------------
(* Plain and chunked downloads.                                            *)

\* What is known of a version.
LEMMA VersionFacts ==
    ASSUME NEW v \in Versions
    PROVE  /\ v \in Nat /\ v > 0 /\ Lengths[v] \in Nat
           /\ Validator(v) \in Tagged \cup {0}
           /\ Validator(v) # 0 => Validator(v) = v
           /\ Validator(v) \in Nat /\ Validator(v) <= v
           /\ Total(v) \in {0, Lengths[v]} /\ Total(v) \in Nat
<1>1. v \in 1..Len(Lengths) /\ Len(Lengths) \in Nat /\ Lengths[v] \in Nat
  BY RangedAssumption DEF Versions
<1> QED
  BY <1>1 DEF Validator, Total

\* Versions that carry a validator are numbered from 1.
LEMMA TaggedFacts ==
    \A t \in Tagged : t \in Versions /\ t \in Nat /\ t > 0
<1> SUFFICES ASSUME NEW t \in Tagged
             PROVE  t \in Versions /\ t \in Nat /\ t > 0
  OBVIOUS
<1>1. t \in Versions
  BY RangedAssumption DEF Versions
<1> QED
  BY <1>1, VersionFacts

\* What a step of a plain or chunked download has to show.
LEMMA RangedFrame ==
    ASSUME IInv, pc = "idle", UNCHANGED segVars, kind' = "ranged",
           Mixing \/ kind # "segments",
           keep' \in BOOLEAN, cancelled' \in BOOLEAN, calls' \in Nat,
           crashes' \in 0..MaxCrashes,
           partial' \in Seq(Pieces), synced' \in Seq(Pieces),
           LoopInv', ReadInv',
           \A v \in Versions : "ranged" \notin PowerLoss /\ Regular /\ DataOf(v) =>
               \E w \in Versions : DataOf(w)'
    PROVE  IInv'
<1>1. FileInv'
  BY DEF FileInv, FileTypeOK
<1>2. PoolInv' /\ DiskInv' /\ LengthInv'
  BY SegmentsRest DEF IInv
<1>3. pc' = pc /\ checkpoint' = checkpoint
  BY DEF segVars
<1>4. KindInv'
  BY <1>3 DEF IInv, KindInv
<1>5. DataInv'
  BY DEF IInv, DataInv
<1> QED
  BY <1>1, <1>2, <1>4, <1>5 DEF IInv

\* What a call of this kind may rely on.
LEMMA Serving ==
    ASSUME IInv
    PROVE  /\ at # "idle" => kind = "ranged"
           /\ FileTypeOK /\ partial \in Seq(Pieces) /\ synced \in Seq(Pieces)
           /\ Len(partial) \in Nat /\ LoopInv /\ ReadInv
           /\ server \in Versions /\ server \in Nat /\ Lengths[server] \in Nat
           /\ state.validator \in Nat /\ state.total \in Nat
           /\ saved.validator \in Nat /\ saved.total \in Nat
           /\ saved.bytes \in Nat /\ probe \in Nat
           /\ ChunkSize \in Nat /\ ChunkSize > 0 /\ Tries \in Nat
<1>1. /\ at # "idle" => kind = "ranged"
      /\ FileTypeOK /\ partial \in Seq(Pieces) /\ synced \in Seq(Pieces)
      /\ LoopInv /\ ReadInv
  BY DEF IInv, KindInv, FileInv
<1>2. Len(partial) \in Nat
  BY <1>1
<1>3. /\ server \in Versions
      /\ state.validator \in Tagged \cup {0} /\ state.total \in Nat
      /\ saved.validator \in Tagged \cup {0} /\ saved.total \in Nat
      /\ saved.bytes \in Nat /\ probe \in Tagged \cup {0}
  BY <1>1 DEF LoopInv
<1>4. server \in Nat /\ Lengths[server] \in Nat
  BY <1>3, VersionFacts
<1>5. state.validator \in Nat /\ saved.validator \in Nat /\ probe \in Nat
  BY <1>3, TaggedFacts
<1>6. ChunkSize \in Nat /\ ChunkSize > 0 /\ Tries \in Nat
  BY RangedAssumption
<1> QED
  BY <1>1, <1>2, <1>3, <1>4, <1>5, <1>6

\* A checkpoint that is written describes the call, one that is not stays.
LEMMA SaveKeeps ==
    ASSUME LoopInv, synced \in Seq(Pieces), NEW file \in Seq(Pieces),
           Checkpointed(file, state)
    PROVE  /\ synced' \in Seq(Pieces)
           /\ saved' \in [validator : Tagged \cup {0}, total : Nat, bytes : Nat]
           /\ saved' = Unsaved \/ (saved'.validator # 0 /\ saved'.bytes > 0)
           /\ \/ saved'.validator = saved.validator /\ saved'.total = saved.total
              \/ saved'.validator = state.validator /\ saved'.total = state.total
<1>1. CASE saved' = saved
  BY <1>1 DEF Checkpointed, LoopInv
<1>2. CASE /\ saved' = [validator |-> state.validator, total |-> state.total,
                        bytes |-> Len(file)]
           /\ state.validator # 0 /\ file # <<>> /\ synced' = file
  <2>1. Len(file) \in Nat /\ Len(file) > 0
    BY <1>2, EmptySeq
  <2>2. state.validator \in Tagged \cup {0} /\ state.total \in Nat
    BY DEF LoopInv
  <2> QED
    BY <1>2, <2>1, <2>2
<1> QED
  BY <1>1, <1>2 DEF Checkpointed

\* An empty staging file is the beginning of whatever the server has.
LEMMA EmptyIsCurrent ==
    ASSUME IInv, NEW v \in Versions, DataOf(v), partial' = <<>>,
           server' = server, probe' \in {0, probe, Validator(server)},
           saved' = saved \/ saved' = Unsaved,
           state'.validator \in {0, state.validator, probe, Validator(server)},
           state'.total \in {0, state.total, Total(server)},
           at' \notin {"size", "publish", "promote"},
           at' = "body" => body'.version = server
    PROVE  DataOf(server)'
<1>1. /\ server \in Versions /\ server \in Nat /\ Lengths[server] \in Nat
      /\ state.validator \in Nat /\ state.total \in Nat
      /\ saved.validator \in Nat /\ saved.total \in Nat /\ probe \in Nat
  BY Serving
<1>2. v \in Nat /\ Lengths[v] \in Nat /\ v <= server
  BY VersionFacts DEF DataOf
<1>3. /\ Validator(server) \in Nat /\ Validator(server) <= server
      /\ Total(server) \in {0, Lengths[server]}
  BY <1>1, VersionFacts
<1>4. saved.validator <= server /\ state.validator <= server /\ probe <= server
  BY <1>1, <1>2 DEF DataOf
<1>5. /\ saved'.validator <= server' /\ state'.validator <= server'
      /\ probe' <= server'
  BY <1>1, <1>3, <1>4 DEF Unsaved
<1>6. ASSUME Shrinks
      PROVE  /\ saved'.total = 0 \/ Lengths[server'] <= saved'.total
             /\ state'.total = 0 \/ Lengths[server'] <= state'.total
  <2>1. Lengths[server] <= Lengths[v]
    BY <1>1, <1>2, <1>6 DEF Shrinks
  <2>2. /\ saved.total = 0 \/ Lengths[server] <= saved.total
        /\ state.total = 0 \/ Lengths[server] <= state.total
    BY <1>1, <1>2, <1>6, <2>1 DEF DataOf
  <2> QED
    BY <1>1, <1>3, <2>2 DEF Unsaved
<1>7. Len(partial') = 0 /\ server' <= server' /\ 0 <= Lengths[server']
  BY <1>1
<1> QED
  BY <1>5, <1>6, <1>7 DEF DataOf
\* A step that leaves the staging file as it is and reads no answer.
LEMMA StillIInv ==
    ASSUME IInv, pc = "idle", UNCHANGED segVars, at \notin {"idle", "probe"},
           at' \in {"drop", "size", "chunk", "publish", "promote"},
           at' \in {"size", "chunk"} => mode.chunked,
           at' \in {"size", "publish", "promote"} =>
               \A v \in Versions : Regular /\ DataOf(v) /\ Shrinks =>
                   Len(partial) = Lengths[v],
           LoopInv => /\ saved' \in [validator : Tagged \cup {0}, total : Nat,
                                     bytes : Nat]
                      /\ \/ saved' = Unsaved
                         \/ saved'.validator # 0 /\ saved'.bytes > 0
                      /\ \/ /\ saved'.validator = saved.validator
                            /\ saved'.total = saved.total
                         \/ /\ saved'.validator = state.validator
                            /\ saved'.total = state.total,
           synced' \in Seq(Pieces), body' \in {body, NoBody},
           UNCHANGED <<mode, server, state, probe, ignored, start, end>>,
           UNCHANGED <<partial, callVars, crashes>>,
           attempt' \in 0..Tries
    PROVE  IInv'
<1>1. /\ kind = "ranged" /\ FileTypeOK
      /\ partial \in Seq(Pieces) /\ synced \in Seq(Pieces)
      /\ LoopInv /\ ReadInv
  BY Serving
<1>2. UNCHANGED <<kind, keep, cancelled, calls>>
  BY DEF callVars
<1>3. LoopInv'
  BY <1>1 DEF LoopInv, States
<1>4. ReadInv'
  <2>1. body' \in Bodies
    <3>1. body \in Bodies
      BY <1>1 DEF ReadInv
    <3>2. NoBody \in Bodies
      BY DEF NoBody, Bodies
    <3> QED
      BY <3>1, <3>2
  <2> QED
    BY <2>1 DEF ReadInv
<1>5. ASSUME NEW v \in Versions, Regular, DataOf(v) PROVE DataOf(v)'
  BY <1>1, <1>5 DEF DataOf
<1> QED
  BY <1>1, <1>2, <1>3, <1>4, <1>5, RangedFrame DEF FileTypeOK

\* A call that gives up.
LEMMA GiveUpIInv ==
    ASSUME IInv, pc = "idle", UNCHANGED segVars, at \notin {"idle", "probe"},
           GiveUp
    PROVE  IInv'
<1>1. /\ at' = "drop"
      /\ UNCHANGED <<mode, server, state, probe, ignored, start, end>>
      /\ UNCHANGED <<partial, callVars, crashes>>
      /\ saved' = saved /\ synced' = synced /\ body' = body /\ attempt' = attempt
  BY DEF GiveUp, loopVars, diskVars
<1>2. LoopInv /\ synced \in Seq(Pieces)
  BY Serving
<1> QED
  BY <1>1, <1>2, StillIInv DEF LoopInv

\* Steps that end the reading of an answer, or of the file.
LEMMA HaltsIInv ==
    ASSUME IInv, pc = "idle", UNCHANGED segVars,
           \/ PlainRefused \/ WriteFailed \/ ChunkAborted \/ ChunkFailed
           \/ PlainEnd \/ ChunkEnd \/ ChunkSized \/ RangedPublishSync
    PROVE  IInv'
<1>1. /\ synced \in Seq(Pieces) /\ partial \in Seq(Pieces) /\ LoopInv /\ ReadInv
      /\ Len(partial) \in Nat /\ state.total \in Nat /\ start \in Nat
      /\ ChunkSize \in Nat /\ attempt \in 0..Tries
  BY Serving DEF LoopInv
<1>2. CASE PlainRefused \/ WriteFailed \/ ChunkAborted
  BY <1>2, GiveUpIInv DEF PlainRefused, WriteFailed, ChunkAborted
<1>3. CASE ChunkFailed
  BY <1>1, <1>3, SaveKeeps, StillIInv DEF ChunkFailed, loopVars
<1>4. CASE PlainEnd
  <2>1. /\ at = "body" /\ at' \in {"drop", "publish"} /\ body' = NoBody
        /\ UNCHANGED <<mode, server, state, probe, ignored, start, end>>
        /\ UNCHANGED <<partial, callVars, crashes>>
        /\ saved' = saved /\ synced' = synced /\ attempt' = attempt
        /\ ~mode.chunked /\ body.position = body.last
    BY <1>4 DEF PlainEnd, loopVars, diskVars
  <2>2. ASSUME NEW v \in Versions, Regular, DataOf(v)
        PROVE  Len(partial) = Lengths[v]
    BY <1>1, <2>1, <2>2 DEF Regular, ReadInv, DataOf
  <2> QED
    BY <1>1, <2>1, <2>2, StillIInv DEF LoopInv
<1>5. CASE ChunkEnd
  <2>1. /\ at = "body" /\ body' = NoBody
        /\ UNCHANGED <<mode, server, state, probe, ignored, start, end>>
        /\ UNCHANGED <<partial, callVars, crashes>>
        /\ attempt' = attempt /\ Checkpointed(partial, state)
        /\ mode.chunked /\ body.position = body.last
        /\ \/ at' = "chunk"
           \/ /\ at' = "size"
              /\ body.full \/ (state.total = 0 /\ Len(partial) - start < ChunkSize)
    BY <1>5 DEF ChunkEnd, loopVars
  <2>2. ASSUME NEW v \in Versions, Regular, DataOf(v), at' = "size"
        PROVE  Len(partial) = Lengths[v]
    <3>1. v = body.version /\ Len(partial) = body.last /\ Lengths[v] \in Nat
      BY <1>1, <2>1, <2>2, VersionFacts DEF Regular, ReadInv, DataOf
    <3>2. body.last = Lengths[body.version]
      BY <1>1, <2>1, <2>2, <3>1 DEF ReadInv
    <3> QED
      BY <3>1, <3>2
  <2> QED
    BY <1>1, <2>1, <2>2, SaveKeeps, StillIInv
<1>6. CASE ChunkSized
  <2>1. /\ at = "size" /\ at' \in {"drop", "publish"} /\ body' = body
        /\ UNCHANGED <<mode, server, state, probe, ignored, start, end>>
        /\ UNCHANGED <<partial, callVars, crashes>>
        /\ saved' = saved /\ synced' = synced /\ attempt' = attempt
    BY <1>6 DEF ChunkSized, loopVars, diskVars
  <2>2. ASSUME NEW v \in Versions, DataOf(v), Shrinks
        PROVE  Len(partial) = Lengths[v]
    BY <2>1, <2>2 DEF DataOf
  <2> QED
    BY <1>1, <2>1, <2>2, StillIInv DEF LoopInv
<1>7. CASE RangedPublishSync
  <2>1. /\ at = "publish" /\ at' \in {"drop", "promote"} /\ body' = body
        /\ UNCHANGED <<mode, server, state, probe, ignored, start, end>>
        /\ UNCHANGED <<partial, callVars, crashes>>
        /\ saved' = saved /\ synced' \in {synced, partial}
        /\ attempt' = attempt
    BY <1>7 DEF RangedPublishSync, SyncAll, loopVars
  <2>2. ASSUME NEW v \in Versions, DataOf(v), Shrinks
        PROVE  Len(partial) = Lengths[v]
    BY <2>1, <2>2 DEF DataOf
  <2> QED
    BY <1>1, <2>1, <2>2, StillIInv DEF LoopInv
<1> QED
  BY <1>2, <1>3, <1>4, <1>5, <1>6, <1>7
\* Another attempt, a cancellation: nothing else changes.
LEMMA RetriesIInv ==
    ASSUME IInv, pc = "idle", UNCHANGED segVars,
           PlainRetry \/ ChunkRetry \/ RangedCancel
    PROVE  IInv'
<1>1. /\ at # "idle" => kind = "ranged"
      /\ FileTypeOK /\ partial \in Seq(Pieces) /\ synced \in Seq(Pieces)
      /\ LoopInv /\ ReadInv /\ Tries \in Nat /\ attempt \in 0..Tries
  BY Serving DEF LoopInv
<1>2. /\ at # "idle" /\ attempt' \in 0..Tries /\ cancelled' \in BOOLEAN
      /\ UNCHANGED <<at, mode, server, state, saved, probe, ignored, start, end,
                     body>>
      /\ UNCHANGED <<partial, synced, kind, keep, calls, crashes>>
  <2>1. CASE PlainRetry
    <3>1. at = "request" /\ attempt < Tries /\ attempt' = attempt + 1
      BY <2>1 DEF PlainRetry
    <3>2. /\ UNCHANGED <<at, mode, server, probe, ignored, start, end, body>>
          /\ UNCHANGED <<kind, keep, cancelled, calls, crashes>>
      BY <2>1 DEF PlainRetry, loopVars, callVars
    <3>3. ~mode.resume \/ state.validator = 0 => partial = <<>>
      BY <1>1, <3>1 DEF ReadInv
    <3>4. UNCHANGED <<partial, synced, saved, state>>
      BY <2>1, <3>3 DEF PlainRetry
    <3>5. attempt' \in 0..Tries
      BY <1>1, <3>1
    <3>6. cancelled' \in BOOLEAN
      BY <1>1, <3>2 DEF FileTypeOK
    <3> QED
      BY <3>1, <3>2, <3>4, <3>5, <3>6
  <2>2. CASE ChunkRetry
    <3>1. /\ at = "ask" /\ attempt < Tries /\ attempt' = attempt + 1
          /\ UNCHANGED <<at, mode, server, state, saved, probe, ignored, start,
                         end, body>>
          /\ UNCHANGED <<partial, synced, kind, keep, cancelled, calls, crashes>>
      BY <2>2 DEF ChunkRetry, loopVars, diskVars, callVars
    <3>2. attempt' \in 0..Tries
      BY <1>1, <3>1
    <3> QED
      BY <1>1, <3>1, <3>2 DEF FileTypeOK
  <2>3. CASE RangedCancel
    BY <1>1, <2>3 DEF RangedCancel, CancelCall, rangedVars, loopVars, diskVars
  <2> QED
    BY <2>1, <2>2, <2>3
<1>3. LoopInv'
  BY <1>1, <1>2 DEF LoopInv
<1>4. ReadInv'
  BY <1>1, <1>2 DEF ReadInv
<1>5. ASSUME NEW v \in Versions, DataOf(v) PROVE DataOf(v)'
  BY <1>2, <1>5 DEF DataOf
<1> QED
  BY <1>1, <1>2, <1>3, <1>4, <1>5, RangedFrame DEF FileTypeOK

\* The server has another object now.
LEMMA ReplaceIInv ==
    ASSUME IInv, pc = "idle", UNCHANGED segVars, ReplaceObject
    PROVE  IInv'
<1>1. /\ FileTypeOK /\ partial \in Seq(Pieces) /\ synced \in Seq(Pieces)
      /\ LoopInv /\ ReadInv /\ server \in Nat
  BY Serving
<1>2. /\ kind = "ranged" /\ server' \in Versions /\ server' \in Nat
      /\ ~MayReturn => server < server'
      /\ mode.chunked => at = "probe" \/ probe # 0
      /\ UNCHANGED <<at, mode, state, saved, probe, ignored, start, end, attempt,
                     body>>
      /\ UNCHANGED <<partial, synced, kind, keep, cancelled, calls, crashes>>
  BY <1>1, VersionFacts DEF ReplaceObject, loopVars, fileVars, diskVars, callVars
<1>6. ASSUME NEW n \in Nat, n <= server, ~MayReturn PROVE n <= server'
  <2>1. server < server' /\ server' \in Nat /\ server \in Nat
    BY <1>1, <1>2, <1>6
  <2> QED
    BY <1>6, <2>1
<1>3. LoopInv'
  BY <1>1, <1>2 DEF LoopInv
<1>4. ReadInv'
  <2>1. ASSUME body.version \in Versions, body.version <= server, ~MayReturn
        PROVE  body.version <= server'
    <3>1. body.version \in Nat
      BY <2>1, VersionFacts
    <3> QED
      BY <1>6, <2>1, <3>1
  <2> QED
    BY <1>1, <1>2, <2>1 DEF ReadInv
<1>5. ASSUME NEW v \in Versions, Regular, DataOf(v) PROVE DataOf(v)'
  <2>1. v \in Nat /\ v <= server /\ ~MayReturn
    BY <1>5, VersionFacts DEF Regular, DataOf
  <2>2. v <= server'
    BY <1>6, <2>1
  <2> QED
    BY <1>2, <1>5, <2>2 DEF DataOf
<1> QED
  BY <1>1, <1>2, <1>3, <1>4, <1>5, RangedFrame DEF FileTypeOK

\* 206: the server has the version that the validator names.
LEMMA PlainPartialIInv ==
    ASSUME IInv, pc = "idle", UNCHANGED segVars, PlainPartial
    PROVE  IInv'
<1>1. /\ at # "idle" => kind = "ranged"
      /\ FileTypeOK /\ partial \in Seq(Pieces) /\ synced \in Seq(Pieces)
      /\ LoopInv /\ ReadInv /\ server \in Versions /\ Len(partial) \in Nat
      /\ server \in Nat /\ Lengths[server] \in Nat
  BY Serving
<1>2. CASE Validator(server) # state.validator
  BY <1>2, GiveUpIInv DEF PlainPartial
<1>3. CASE Validator(server) = state.validator
  <2>1. /\ at = "request" /\ RangeFrom > 0 /\ RangeFrom < Lengths[server]
        /\ Validator(server) # 0 /\ at' = "body"
        /\ body' = [version |-> server, position |-> RangeFrom,
                    last |-> Lengths[server], full |-> FALSE]
        /\ state' = [state EXCEPT !.total = Lengths[server]]
        /\ UNCHANGED <<mode, server, saved, probe, ignored, start, end, attempt>>
        /\ UNCHANGED <<partial, synced, kind, keep, cancelled, calls, crashes>>
    BY <1>3 DEF PlainPartial, loopVars, diskVars, callVars
  <2>2. RangeFrom = Len(partial) /\ ~mode.chunked
    BY <1>1, <2>1 DEF RangeFrom, LoopInv
  <2>3. LoopInv'
    BY <1>1, <2>1 DEF LoopInv, States
  <2>4. body' \in Bodies
    BY <1>1, <2>1, <2>2 DEF Bodies
  <2>5. ReadInv'
    BY <1>1, <2>1, <2>2, <2>4 DEF ReadInv
  <2>6. ASSUME NEW v \in Versions, DataOf(v) PROVE DataOf(v)'
    <3>1. Validator(server) = server /\ v \in Nat
      BY <1>1, <2>1, VersionFacts
    <3>2. v = server
      BY <1>1, <1>3, <2>6, <3>1 DEF DataOf
    <3>3. state'.validator = state.validator /\ state'.total = Lengths[server]
      BY <1>1, <2>1 DEF LoopInv
    <3> QED
      BY <1>1, <2>1, <2>2, <2>6, <3>2, <3>3 DEF DataOf
  <2> QED
    BY <1>1, <2>1, <2>3, <2>5, <2>6, RangedFrame DEF FileTypeOK
<1> QED
  BY <1>2, <1>3

\* 200: what was staged is cut off.
LEMMA PlainFullIInv ==
    ASSUME IInv, pc = "idle", UNCHANGED segVars, PlainFull
    PROVE  IInv'
<1>1. /\ at # "idle" => kind = "ranged"
      /\ FileTypeOK /\ partial \in Seq(Pieces) /\ synced \in Seq(Pieces)
      /\ LoopInv /\ ReadInv /\ server \in Versions /\ Len(partial) \in Nat
      /\ server \in Nat /\ Lengths[server] \in Nat
  BY Serving
<1>2. /\ at = "request" /\ at' = "body"
      /\ body' = [version |-> server, position |-> 0, last |-> Lengths[server],
                  full |-> TRUE]
      /\ \/ partial' = IF RangeFrom > 0 THEN <<>> ELSE partial
         \/ OtherSuccess /\ partial' = partial
      /\ state' = [validator |-> IF Validator(server) # 0 THEN Validator(server)
                                 ELSE state.validator,
                   total |-> Total(server)]
      /\ UNCHANGED <<mode, server, saved, probe, ignored, start, end, attempt>>
      /\ UNCHANGED <<synced, kind, keep, cancelled, calls, crashes>>
  BY DEF PlainFull, loopVars, callVars
<1>3. ASSUME ~OtherSuccess \/ partial' # partial PROVE partial' = <<>>
  <2>0. partial' = IF RangeFrom > 0 THEN <<>> ELSE partial
    BY <1>2, <1>3
  <2>1. CASE RangeFrom > 0
    BY <2>0, <2>1
  <2>2. CASE ~(RangeFrom > 0) /\ mode.resume /\ state.validator # 0
    <3>1. Len(partial) = 0
      BY <1>1, <2>2 DEF RangeFrom
    <3> QED
      BY <1>1, <2>0, <2>2, <3>1, EmptySeq
  <2>3. CASE ~(RangeFrom > 0) /\ (~mode.resume \/ state.validator = 0)
    BY <1>1, <1>2, <2>0, <2>3 DEF ReadInv
  <2> QED
    BY <2>1, <2>2, <2>3
<1>4. partial' \in Seq(Pieces) /\ (~OtherSuccess => Len(partial') = 0)
  BY <1>1, <1>3, EmptySeq
<1>5. /\ Validator(server) \in Tagged \cup {0} /\ Total(server) \in Nat
  BY <1>1, VersionFacts
<1>6. LoopInv'
  <2>1. state' \in [validator : Tagged \cup {0}, total : Nat]
    BY <1>1, <1>2, <1>5 DEF LoopInv
  <2> QED
    BY <1>1, <1>2, <2>1 DEF LoopInv, States
<1>7. ReadInv'
  <2>1. body' \in Bodies
    BY <1>1, <1>2 DEF Bodies
  <2>2. ~mode.chunked
    BY <1>1, <1>2 DEF LoopInv
  <2> QED
    BY <1>1, <1>2, <1>4, <2>1, <2>2 DEF ReadInv
<1>8. ASSUME NEW v \in Versions, Regular, DataOf(v) PROVE DataOf(server)'
  <2>1. /\ state'.validator \in {0, state.validator, probe, Validator(server)}
        /\ state'.total \in {0, state.total, Total(server)}
        /\ body'.version = server
    BY <1>2
  <2>2. partial' = <<>>
    BY <1>3, <1>8 DEF Regular
  <2> QED
    BY <1>2, <1>8, <2>1, <2>2, EmptyIsCurrent
<1> QED
  BY <1>1, <1>2, <1>4, <1>6, <1>7, <1>8, RangedFrame DEF FileTypeOK
\* A piece of the answer is written where the staging file ends.
LEMMA ReadIInv ==
    ASSUME IInv, pc = "idle", UNCHANGED segVars, PlainRead \/ ChunkRead
    PROVE  IInv'
<1> DEFINE piece == <<body.version, body.position + 1>>
<1>1. /\ at # "idle" => kind = "ranged"
      /\ FileTypeOK /\ partial \in Seq(Pieces) /\ synced \in Seq(Pieces)
      /\ LoopInv /\ ReadInv /\ Len(partial) \in Nat
  BY Serving
<1>2. /\ at = "body" /\ body.position < body.last
      /\ body' = [body EXCEPT !.position = @ + 1]
      /\ partial' = Append(partial, piece)
      /\ Checkpointed(partial', state)
      /\ UNCHANGED <<at, mode, server, state, probe, ignored, start, end, attempt>>
      /\ UNCHANGED <<kind, keep, cancelled, calls, crashes>>
  BY DEF PlainRead, ChunkRead, Checkpointed, loopVars, callVars
<1>3. /\ body \in Bodies /\ body.version \in Versions
      /\ body.position \in Nat /\ body.last \in Nat
      /\ ~OtherSuccess => body.position = Len(partial)
      /\ body.last <= Lengths[body.version] /\ Lengths[body.version] \in Nat
  <2>1. body \in Bodies /\ body.version \in Versions
    BY <1>1, <1>2 DEF ReadInv
  <2>2. Lengths[body.version] \in Nat
    BY <2>1, VersionFacts
  <2> QED
    BY <1>1, <1>2, <2>1, <2>2 DEF ReadInv, Bodies
<1>4. piece \in Pieces
  BY <1>3 DEF Pieces
<1>5. /\ partial' \in Seq(Pieces) /\ Len(partial') = Len(partial) + 1
      /\ partial'[Len(partial) + 1] = piece
      /\ \A i \in 1..Len(partial) : partial'[i] = partial[i]
  <2> HIDE DEF piece
  <2> QED
    BY <1>1, <1>2, <1>4, OneMore
<1>6. /\ synced' \in Seq(Pieces)
      /\ saved' \in [validator : Tagged \cup {0}, total : Nat, bytes : Nat]
      /\ saved' = Unsaved \/ (saved'.validator # 0 /\ saved'.bytes > 0)
      /\ \/ saved'.validator = saved.validator /\ saved'.total = saved.total
         \/ saved'.validator = state.validator /\ saved'.total = state.total
  BY <1>1, <1>2, <1>5, SaveKeeps
<1>7. LoopInv'
  BY <1>1, <1>2, <1>6 DEF LoopInv
<1>8. /\ body'.version = body.version /\ body'.position = body.position + 1
      /\ body'.last = body.last /\ body'.full = body.full /\ body' \in Bodies
  BY <1>2, <1>3 DEF Bodies
<1>9. ReadInv'
  <2>1. start \in Nat
    BY <1>1 DEF LoopInv
  <2>2. start <= Len(partial) => start <= Len(partial')
    BY <1>1, <1>5, <2>1
  <2>3. /\ ~OtherSuccess => body'.position = Len(partial')
        /\ body'.position <= body'.last
    BY <1>3, <1>5, <1>8, <1>2
  <2> QED
    BY <1>1, <1>2, <1>8, <2>2, <2>3 DEF ReadInv
<1>10. ASSUME NEW v \in Versions, Regular, DataOf(v) PROVE DataOf(v)'
  <2>1. v = body.version /\ body.position = Len(partial)
    BY <1>2, <1>3, <1>10 DEF Regular, DataOf
  <2>2. Len(partial') <= Lengths[v]
    BY <1>2, <1>3, <1>5, <2>1
  <2>3. \A i \in 1..Len(partial') : partial'[i] = <<v, i>>
    <3> SUFFICES ASSUME NEW i \in 1..Len(partial') PROVE partial'[i] = <<v, i>>
      OBVIOUS
    <3>1. CASE i = Len(partial) + 1
      BY <1>3, <1>5, <2>1, <3>1
    <3>2. CASE i # Len(partial) + 1
      <4>1. i \in 1..Len(partial)
        BY <1>1, <1>5, <3>2
      <4> QED
        BY <1>5, <1>10, <4>1 DEF DataOf
    <3> QED
      BY <3>1, <3>2
  <2> QED
    BY <1>2, <1>6, <1>8, <1>10, <2>1, <2>2, <2>3 DEF DataOf
<1> QED
  BY <1>1, <1>2, <1>5, <1>6, <1>7, <1>9, <1>10, RangedFrame DEF FileTypeOK

\* A broken answer is asked for again, from the start without a validator.
LEMMA PlainBrokenIInv ==
    ASSUME IInv, pc = "idle", UNCHANGED segVars, PlainBroken
    PROVE  IInv'
<1>1. /\ at # "idle" => kind = "ranged"
      /\ FileTypeOK /\ partial \in Seq(Pieces) /\ synced \in Seq(Pieces)
      /\ LoopInv /\ ReadInv /\ Len(partial) \in Nat /\ server \in Versions
      /\ Tries \in Nat /\ attempt \in 0..Tries
  BY Serving DEF LoopInv
<1>2. /\ at = "body" /\ ~mode.chunked /\ body' = NoBody
      /\ UNCHANGED <<mode, server, probe, ignored, start, end>>
      /\ UNCHANGED <<kind, keep, cancelled, calls, crashes>>
  BY DEF PlainBroken, loopVars, callVars
<1>3. CASE at' = "drop"
  <2>1. /\ Checkpointed(partial, state) /\ attempt' = attempt
        /\ UNCHANGED <<partial, state, callVars, crashes>>
    BY <1>3 DEF PlainBroken
  <2> QED
    BY <1>1, <1>2, <1>3, <2>1, SaveKeeps, StillIInv
<1>4. CASE at' = "request"
  <2>1. attempt < Tries /\ attempt' = attempt + 1
    BY <1>4 DEF PlainBroken
  <2>2. attempt' \in 0..Tries
    BY <1>1, <2>1
  <2>3. NoBody \in Bodies
    BY DEF NoBody, Bodies
  <2>4. CASE mode.resume /\ state.validator # 0
    <3>1. Checkpointed(partial, state) /\ UNCHANGED <<partial, state>>
      BY <1>4, <2>4 DEF PlainBroken
    <3>2. /\ synced' \in Seq(Pieces)
          /\ saved' \in [validator : Tagged \cup {0}, total : Nat, bytes : Nat]
          /\ saved' = Unsaved \/ (saved'.validator # 0 /\ saved'.bytes > 0)
          /\ \/ saved'.validator = saved.validator /\ saved'.total = saved.total
             \/ saved'.validator = state.validator /\ saved'.total = state.total
      BY <1>1, <3>1, SaveKeeps
    <3>3. LoopInv'
      BY <1>1, <1>2, <1>4, <2>2, <3>1, <3>2 DEF LoopInv, States
    <3>4. ReadInv'
      BY <1>2, <1>4, <2>3, <2>4, <3>1 DEF ReadInv
    <3>5. ASSUME NEW v \in Versions, DataOf(v) PROVE DataOf(v)'
      BY <1>2, <1>4, <3>1, <3>2, <3>5 DEF DataOf
    <3> QED
      BY <1>1, <1>2, <3>1, <3>2, <3>3, <3>4, <3>5, RangedFrame DEF FileTypeOK
  <2>5. CASE ~(mode.resume /\ state.validator # 0)
    <3>1. /\ partial' = <<>> /\ saved' = Unsaved /\ synced' = synced
          /\ state' = [state EXCEPT !.validator = 0]
      BY <1>4, <2>5 DEF PlainBroken, Restart
    <3>2. /\ state' \in [validator : Tagged \cup {0}, total : Nat]
          /\ state'.validator = 0 /\ state'.total = state.total
      BY <1>1, <3>1 DEF LoopInv
    <3>3. LoopInv'
      BY <1>1, <1>2, <1>4, <2>2, <3>1, <3>2 DEF LoopInv, States, Unsaved
    <3>4. ReadInv'
      BY <1>2, <1>4, <2>3, <3>1 DEF ReadInv
    <3>5. ASSUME NEW v \in Versions, DataOf(v) PROVE DataOf(server)'
      BY <1>2, <1>4, <3>1, <3>2, <3>5, EmptyIsCurrent
    <3>6. partial' \in Seq(Pieces)
      BY <3>1, EmptySeq
    <3> QED
      BY <1>1, <1>2, <3>1, <3>3, <3>4, <3>5, <3>6, RangedFrame DEF FileTypeOK
  <2> QED
    BY <2>4, <2>5
<1> QED
  BY <1>3, <1>4 DEF PlainBroken
\* Opening the staging file keeps the beginning that a checkpoint vouches for,
\* or nothing.
LEMMA Reopened ==
    ASSUME IInv, NEW kept \in BOOLEAN, OpenFile(kept)
    PROVE  /\ partial' \in Seq(Pieces) /\ synced' \in Seq(Pieces)
           /\ \/ /\ kept /\ saved # Unsaved /\ saved' = saved
                 /\ Len(partial') <= Len(partial)
                 /\ \A i \in 1..Len(partial') : partial'[i] = partial[i]
              \/ partial' = <<>> /\ saved' = Unsaved
<1>1. /\ partial \in Seq(Pieces) /\ synced \in Seq(Pieces)
      /\ Len(partial) \in Nat /\ saved.bytes \in Nat
  BY Serving
<1>2. CASE Restorable(kept)
  <2> DEFINE n == Min({saved.bytes, Len(partial)})
  <2>1. partial' = Prefix(partial, n) /\ synced' = synced /\ saved' = saved
    BY <1>2 DEF OpenFile
  <2>2. n \in Nat /\ n <= Len(partial)
    <3>1. saved.bytes \in Int /\ Len(partial) \in Int
      BY <1>1
    <3>2. n \in {saved.bytes, Len(partial)} /\ n <= Len(partial)
      BY <3>1, Smaller, Zenon
    <3> QED
      BY <1>1, <3>2
  <2> HIDE DEF n
  <2>3. /\ partial' \in Seq(Pieces) /\ Len(partial') = n
        /\ \A i \in 1..n : partial'[i] = partial[i]
    BY <1>1, <2>1, <2>2, PrefixOf
  <2>4. kept /\ saved # Unsaved
    BY <1>2 DEF Restorable
  <2> QED
    BY <1>1, <2>1, <2>2, <2>3, <2>4
<1>3. CASE ~Restorable(kept)
  <2>1. partial' = Prefix(partial, 0) /\ synced' = <<>> /\ saved' = Unsaved
    BY <1>3 DEF OpenFile
  <2>2. partial' \in Seq(Pieces) /\ Len(partial') = 0
    BY <1>1, <2>1, PrefixOf
  <2>3. partial' = <<>>
    BY <2>2, EmptySeq
  <2> QED
    BY <2>1, <2>2, <2>3, EmptySeq
<1> QED
  BY <1>2, <1>3

\* A plain call starts from its checkpoint, and publishes a complete one.
LEMMA StartPlainIInv ==
    ASSUME IInv, pc = "idle", UNCHANGED segVars, NEW options \in Modes,
           StartPlain(options)
    PROVE  IInv'
<1>1. /\ FileTypeOK /\ partial \in Seq(Pieces) /\ synced \in Seq(Pieces)
      /\ LoopInv /\ ReadInv /\ Len(partial) \in Nat /\ server \in Versions
      /\ server \in Nat /\ Lengths[server] \in Nat /\ saved.total \in Nat
      /\ Tries \in Nat
  BY Serving
<1>2. /\ at = "idle" /\ ~options.chunked /\ mode' = options
      /\ Mixing \/ kind \in {"none", "ranged"}
      /\ kind' = "ranged" /\ keep' = (options.resume /\ options.persistent)
      /\ cancelled' = FALSE /\ calls' = calls + 1 /\ crashes' = crashes
      /\ OpenFile(keep')
      /\ state' = [validator |-> saved'.validator, total |-> saved'.total]
      /\ attempt' = 1
      /\ \/ /\ at' = "publish" /\ partial' # <<>>
            /\ saved'.total = Len(partial')
         \/ at' = "request"
      /\ UNCHANGED <<server, probe, ignored, start, end, body>>
  BY DEF StartPlain, Enter, loopVars
<1>3. keep' \in BOOLEAN /\ (keep' => options.resume) /\ options.resume \in BOOLEAN
  BY <1>2, RangedAssumption
<1>4. /\ partial' \in Seq(Pieces) /\ synced' \in Seq(Pieces)
      /\ \/ /\ keep' /\ saved # Unsaved /\ saved' = saved
            /\ Len(partial') <= Len(partial)
            /\ \A i \in 1..Len(partial') : partial'[i] = partial[i]
         \/ partial' = <<>> /\ saved' = Unsaved
  <2> DEFINE kept == keep'
  <2>1. kept \in BOOLEAN /\ OpenFile(kept)
    BY <1>2, <1>3
  <2> HIDE DEF kept
  <2>2. /\ partial' \in Seq(Pieces) /\ synced' \in Seq(Pieces)
        /\ \/ /\ kept /\ saved # Unsaved /\ saved' = saved
              /\ Len(partial') <= Len(partial)
              /\ \A i \in 1..Len(partial') : partial'[i] = partial[i]
           \/ partial' = <<>> /\ saved' = Unsaved
    BY <2>1, Reopened
  <2> QED
    BY <2>2 DEF kept
<1>5. /\ saved' \in [validator : Tagged \cup {0}, total : Nat, bytes : Nat]
      /\ saved' = Unsaved \/ (saved'.validator # 0 /\ saved'.bytes > 0)
      /\ saved' # Unsaved => saved'.validator # 0
  BY <1>1, <1>4 DEF LoopInv, Unsaved
<1>6. LoopInv'
  <2>1. 1 \in 0..Tries
    BY RangedAssumption
  <2>2. state' \in [validator : Tagged \cup {0}, total : Nat]
    BY <1>2, <1>5
  <2> QED
    BY <1>1, <1>2, <1>5, <2>1, <2>2 DEF LoopInv, States
<1>7. ReadInv'
  <2>1. ~options.resume \/ state'.validator = 0 => partial' = <<>>
    BY <1>1, <1>2, <1>3, <1>4 DEF LoopInv
  <2> QED
    BY <1>1, <1>2, <2>1 DEF ReadInv
<1>8. ASSUME NEW v \in Versions, DataOf(v)
      PROVE  \E w \in Versions : DataOf(w)'
  <2>1. CASE partial' = <<>> /\ saved' = Unsaved
    <3>1. at' = "request" /\ state'.validator = 0 /\ state'.total = 0
      BY <1>2, <2>1 DEF Unsaved
    <3>2. DataOf(server)'
      BY <1>2, <1>8, <2>1, <3>1, EmptyIsCurrent
    <3>3. server' \in Versions
      BY <1>1, <1>2
    <3> QED
      BY <3>2, <3>3
  <2>2. CASE /\ saved' = saved
             /\ Len(partial') <= Len(partial)
             /\ \A i \in 1..Len(partial') : partial'[i] = partial[i]
    <3>1. v \in Nat /\ Lengths[v] \in Nat /\ Len(partial') \in Nat
      BY <1>4, VersionFacts
    <3>2. Len(partial') <= Lengths[v]
      BY <1>1, <1>8, <2>2, <3>1 DEF DataOf
    <3>3. \A i \in 1..Len(partial') : partial'[i] = <<v, i>>
      <4>1. \A i \in 1..Len(partial') : i \in 1..Len(partial)
        BY <1>1, <2>2, <3>1
      <4> QED
        BY <1>8, <2>2, <4>1 DEF DataOf
    <3>4. state'.validator = saved.validator /\ state'.total = saved.total
      BY <1>2, <2>2
    <3>5. ASSUME Shrinks, at' = "publish" PROVE Len(partial') = Lengths[v]
      <4>1. Len(partial') # 0
        BY <1>2, <1>4, <3>5, EmptySeq
      <4>2. Lengths[v] <= saved.total
        BY <1>2, <1>8, <2>2, <3>5, <4>1 DEF DataOf
      <4> QED
        BY <1>2, <2>2, <3>1, <3>2, <3>5, <4>2
    <3>6. ~mode'.chunked /\ at' \in {"publish", "request"}
      BY <1>2
    <3>7. DataOf(v)'
      BY <1>2, <1>8, <2>2, <3>2, <3>3, <3>4, <3>5, <3>6 DEF DataOf
    <3> QED
      BY <3>7
  <2> QED
    BY <1>4, <2>1, <2>2
<1>9. calls' \in Nat /\ crashes' \in 0..MaxCrashes
  BY <1>1, <1>2 DEF FileTypeOK
<1> QED
  BY <1>2, <1>3, <1>4, <1>6, <1>7, <1>8, <1>9, RangedFrame

\* A chunked call starts with a probe, before it opens the file.
LEMMA StartChunkedIInv ==
    ASSUME IInv, pc = "idle", UNCHANGED segVars, NEW options \in Modes,
           StartChunked(options)
    PROVE  IInv'
<1>1. /\ FileTypeOK /\ partial \in Seq(Pieces) /\ synced \in Seq(Pieces)
      /\ LoopInv /\ ReadInv
  BY Serving
<1>2. /\ at = "idle" /\ options.chunked /\ mode' = options
      /\ Mixing \/ kind \in {"none", "ranged"}
      /\ kind' = "ranged" /\ keep' = FALSE
      /\ cancelled' = FALSE /\ calls' = calls + 1 /\ crashes' = crashes
      /\ at' = "probe"
      /\ UNCHANGED <<server, state, saved, probe, ignored, start, end, attempt,
                     body, partial, synced>>
  BY DEF StartChunked, Enter, loopVars, diskVars
<1>3. LoopInv'
  BY <1>1, <1>2 DEF LoopInv, States
<1>4. ReadInv'
  BY <1>1, <1>2 DEF ReadInv
<1>5. ASSUME NEW v \in Versions, DataOf(v) PROVE DataOf(v)'
  BY <1>2, <1>5 DEF DataOf
<1>6. calls' \in Nat /\ crashes' \in 0..MaxCrashes
  BY <1>1, <1>2 DEF FileTypeOK
<1> QED
  BY <1>1, <1>2, <1>3, <1>4, <1>5, <1>6, RangedFrame
\* What a call had in memory when it has returned, or died.
LEMMA Forgotten ==
    ASSUME IInv, Forget, server' = server, saved' \in {saved, Unsaved}
    PROVE  /\ LoopInv' /\ ReadInv'
           /\ \A v \in Versions :
                  DataOf(v) /\ partial' \in {partial, <<>>} => DataOf(v)'
<1>1. LoopInv /\ ReadInv
  BY Serving
<1>2. /\ at' = "idle" /\ mode' = NoMode /\ state' = Fresh /\ probe' = 0
      /\ ignored' = 0 /\ start' = 0 /\ end' = 0 /\ attempt' = 0 /\ body' = NoBody
  BY DEF Forget
<1>3. LoopInv'
  <2>1. state' \in [validator : Tagged \cup {0}, total : Nat]
    BY <1>2 DEF Fresh
  <2>2. 0 \in 0..Tries
    BY RangedAssumption
  <2>3. Unsaved \in [validator : Tagged \cup {0}, total : Nat, bytes : Nat]
    BY DEF Unsaved
  <2> QED
    BY <1>1, <1>2, <2>1, <2>2, <2>3 DEF LoopInv, States
<1>4. ReadInv'
  <2>1. NoBody \in Bodies
    BY DEF NoBody, Bodies
  <2> QED
    BY <1>2, <2>1 DEF ReadInv
<1>5. ASSUME NEW v \in Versions, DataOf(v), partial' \in {partial, <<>>}
      PROVE  DataOf(v)'
  <2>1. v \in Nat /\ Lengths[v] \in Nat
    BY VersionFacts
  <2>2. /\ Len(partial') <= Lengths[v]
        /\ \A i \in 1..Len(partial') : partial'[i] = <<v, i>>
    <3>1. CASE partial' = partial
      BY <1>5, <3>1 DEF DataOf
    <3>2. CASE partial' = <<>>
      BY <2>1, <3>2
    <3> QED
      BY <1>5, <3>1, <3>2
  <2>3. /\ saved'.validator <= v /\ state'.validator <= v /\ probe' <= v
        /\ Shrinks => /\ saved'.total = 0 \/ Lengths[v] <= saved'.total
                      /\ state'.total = 0 \/ Lengths[v] <= state'.total
    BY <1>2, <1>5, <2>1 DEF DataOf, Unsaved, Fresh
  <2>4. v <= server'
    BY <1>5 DEF DataOf
  <2> QED
    BY <1>2, <2>2, <2>3, <2>4 DEF DataOf
<1> QED
  BY <1>3, <1>4, <1>5

\* The end of a call, published or not, and the end of the process.
LEMMA RangedReturnIInv ==
    ASSUME IInv, pc = "idle", UNCHANGED segVars,
           \/ ProbeRefused \/ RangedPublishClean \/ RangedDrop \/ RangedCrash
    PROVE  IInv'
<1>1. /\ at # "idle" => kind = "ranged"
      /\ FileInv /\ FileTypeOK /\ partial \in Seq(Pieces)
      /\ synced \in Seq(Pieces) /\ Len(partial) \in Nat /\ Len(synced) \in Nat
  BY Serving DEF IInv
<1>2. /\ Forget /\ server' = server /\ saved' \in {saved, Unsaved}
      /\ kind = "ranged" /\ kind' = kind /\ calls' = calls
      /\ keep' = FALSE /\ cancelled' = FALSE
  BY <1>1 DEF ProbeRefused, RangedPublishClean, RangedDrop, RangedCrash, Leave,
              CrashFile
<1>3. crashes' \in 0..MaxCrashes
  <2>1. CASE RangedCrash
    <3>1. crashes < MaxCrashes /\ crashes' = crashes + 1
      BY <2>1 DEF RangedCrash, CrashFile
    <3> QED
      BY <1>1, <3>1, FileAssumption DEF FileTypeOK
  <2>2. CASE ProbeRefused \/ RangedPublishClean \/ RangedDrop
    BY <1>1, <2>2 DEF ProbeRefused, RangedPublishClean, RangedDrop, Leave,
                      FileTypeOK
  <2> QED
    BY <2>1, <2>2
<1>4. /\ partial' \in Seq(Pieces) /\ synced' \in Seq(Pieces)
      /\ "ranged" \notin PowerLoss => partial' \in {partial, <<>>}
  <2>1. CASE RangedCrash
    <3>1. PICK c \in Surviving : partial' = c /\ synced' = c
      BY <2>1 DEF RangedCrash, CrashFile
    <3>2. c \in Seq(Pieces)
      <4>1. /\ 0 \in Nat /\ 0 <= Len(partial) /\ 0 <= Len(synced)
            /\ \A i \in 1..0 : partial[i] = synced[i]
        BY <1>1
      <4> QED
        BY <1>1, <4>1, SurvivorsBegin
    <3>3. "ranged" \notin PowerLoss => c = partial
      BY <1>2, <3>1 DEF Surviving
    <3> QED
      BY <3>1, <3>2, <3>3
  <2>2. CASE ProbeRefused \/ RangedPublishClean \/ RangedDrop
    <3>1. /\ partial' \in {partial, <<>>} /\ synced' \in {synced, <<>>}
      BY <2>2 DEF ProbeRefused, RangedPublishClean, RangedDrop, diskVars
    <3> QED
      BY <1>1, <3>1, EmptySeq
  <2> QED
    BY <2>1, <2>2
<1>5. LoopInv' /\ ReadInv'
  BY <1>2, Forgotten
<1>6. ASSUME NEW v \in Versions, "ranged" \notin PowerLoss, DataOf(v)
      PROVE  DataOf(v)'
  BY <1>2, <1>4, <1>6, Forgotten
<1>7. kind' = "ranged" /\ calls' \in Nat
  BY <1>1, <1>2 DEF FileTypeOK
<1> QED
  BY <1>2, <1>3, <1>4, <1>5, <1>6, <1>7, RangedFrame

\* The staging file becomes the output.
LEMMA RangedRenameIInv ==
    ASSUME IInv, pc = "idle", UNCHANGED segVars, RangedPublishRename
    PROVE  IInv'
<1>1. /\ at # "idle" => kind = "ranged"
      /\ FileTypeOK /\ synced \in Seq(Pieces) /\ LoopInv /\ ReadInv
  BY Serving
<1>2. /\ at = "promote"
      /\ UNCHANGED <<mode, server, state, saved, probe, ignored, start, end,
                     attempt, body>>
      /\ UNCHANGED <<kind, keep, cancelled, calls, crashes>>
  BY DEF RangedPublishRename, loopVars, callVars
<1>3. CASE at' = "drop" /\ UNCHANGED diskVars
  <2>1. GiveUp
    BY <1>2, <1>3 DEF GiveUp, loopVars, callVars
  <2> QED
    BY <1>2, <2>1, GiveUpIInv
<1>4. CASE at' = "clean" /\ Promote
  <2>1. partial' = <<>> /\ synced' = <<>>
    BY <1>4 DEF Promote
  <2>2. LoopInv'
    BY <1>1, <1>2, <1>4 DEF LoopInv, States
  <2>3. ReadInv'
    BY <1>1, <1>2, <1>4 DEF ReadInv
  <2>4. ASSUME NEW v \in Versions, DataOf(v) PROVE DataOf(v)'
    <3>1. Lengths[v] \in Nat /\ Len(partial') = 0
      BY <2>1, VersionFacts
    <3> QED
      BY <1>2, <1>4, <2>1, <2>4, <3>1 DEF DataOf
  <2>5. <<>> \in Seq(Pieces)
    BY EmptySeq
  <2> QED
    BY <1>1, <1>2, <2>1, <2>2, <2>3, <2>4, <2>5, RangedFrame DEF FileTypeOK
<1> QED
  BY <1>3, <1>4 DEF RangedPublishRename

\* The probe decides whether the checkpoint still fits.
LEMMA ProbeIInv ==
    ASSUME IInv, pc = "idle", UNCHANGED segVars, ProbeAnswered
    PROVE  IInv'
<1> DEFINE kept == mode.persistent /\ Validator(server) # 0
<1>1. /\ at # "idle" => kind = "ranged"
      /\ FileTypeOK /\ partial \in Seq(Pieces) /\ synced \in Seq(Pieces)
      /\ LoopInv /\ ReadInv /\ Len(partial) \in Nat /\ server \in Versions
      /\ server \in Nat /\ Lengths[server] \in Nat /\ saved.validator \in Nat
  BY Serving
<1>2. /\ at = "probe" /\ at' = "chunk" /\ keep' = kept
      /\ state' = [validator |-> Validator(server), total |-> Total(server)]
      /\ probe' = Validator(server)
      /\ UNCHANGED <<mode, server, start, end, attempt, ignored, body, kind,
                     cancelled, calls, crashes>>
      /\ \/ Restart
         \/ /\ OpenFile(kept)
            /\ Restorable(kept) => saved.validator = Validator(server)
  BY DEF ProbeAnswered
<1>3. /\ Validator(server) \in Tagged \cup {0} /\ Validator(server) \in Nat
      /\ Validator(server) <= server
      /\ Validator(server) # 0 => Validator(server) = server
      /\ Total(server) \in {0, Lengths[server]} /\ Total(server) \in Nat
  BY <1>1, VersionFacts
<1>4. kept \in BOOLEAN
  OBVIOUS
<1>5. /\ partial' \in Seq(Pieces) /\ synced' \in Seq(Pieces)
      /\ \/ /\ saved' = saved /\ saved.validator = server
            /\ Len(partial') <= Len(partial)
            /\ \A i \in 1..Len(partial') : partial'[i] = partial[i]
         \/ partial' = <<>> /\ saved' = Unsaved
  <2>1. CASE Restart
    BY <1>1, <2>1, EmptySeq DEF Restart
  <2>2. CASE OpenFile(kept) /\ (Restorable(kept) => saved.validator = Validator(server))
    <3>1. kept => Validator(server) = server
      BY <1>3
    <3> HIDE DEF kept
    <3>2. /\ partial' \in Seq(Pieces) /\ synced' \in Seq(Pieces)
          /\ \/ /\ kept /\ saved # Unsaved /\ saved' = saved
                /\ Len(partial') <= Len(partial)
                /\ \A i \in 1..Len(partial') : partial'[i] = partial[i]
             \/ partial' = <<>> /\ saved' = Unsaved
      BY <1>4, <2>2, Reopened
    <3> QED
      BY <2>2, <3>1, <3>2 DEF Restorable
  <2> QED
    BY <1>2, <2>1, <2>2
<1> HIDE DEF kept
<1>6. LoopInv'
  <2>1. state' \in [validator : Tagged \cup {0}, total : Nat]
    BY <1>2, <1>3
  <2>2. /\ saved' \in [validator : Tagged \cup {0}, total : Nat, bytes : Nat]
        /\ saved' = Unsaved \/ (saved'.validator # 0 /\ saved'.bytes > 0)
    BY <1>1, <1>5 DEF LoopInv, Unsaved
  <2> QED
    BY <1>1, <1>2, <1>3, <2>1, <2>2 DEF LoopInv, States
<1>7. ReadInv'
  BY <1>1, <1>2 DEF ReadInv
<1>8. ASSUME NEW v \in Versions, DataOf(v) PROVE DataOf(server)'
  <2>1. CASE partial' = <<>> /\ saved' = Unsaved
    <3>1. /\ state'.validator = Validator(server)
          /\ state'.total = Total(server)
      BY <1>2
    <3> QED
      BY <1>2, <1>8, <2>1, <3>1, EmptyIsCurrent
  <2>2. CASE /\ saved' = saved /\ saved.validator = server
             /\ Len(partial') <= Len(partial)
             /\ \A i \in 1..Len(partial') : partial'[i] = partial[i]
    <3>1. v = server /\ Len(partial') \in Nat
      <4>1. v <= server /\ server <= v
        BY <1>8, <2>2 DEF DataOf
      <4>2. v \in Nat
        BY VersionFacts
      <4>3. v = server
        BY <1>1, <4>1, <4>2
      <4> QED
        BY <1>5, <4>3
    <3>2. /\ Len(partial') <= Lengths[server']
          /\ \A i \in 1..Len(partial') : i \in 1..Len(partial)
      BY <1>1, <1>2, <1>8, <2>2, <3>1 DEF DataOf
    <3>3. \A i \in 1..Len(partial') : partial'[i] = <<server', i>>
      BY <1>2, <1>8, <2>2, <3>1, <3>2 DEF DataOf
    <3>4. /\ saved'.validator <= server' /\ state'.validator <= server'
          /\ probe' <= server' /\ server' <= server'
      <4>1. server' = server /\ server <= server
        BY <1>1, <1>2
      <4>2. /\ saved'.validator = server /\ probe' = Validator(server)
            /\ state'.validator = Validator(server)
        BY <1>2, <2>2
      <4> QED
        BY <1>3, <4>1, <4>2
    <3>5. Shrinks => /\ saved'.total = 0 \/ Lengths[server'] <= saved'.total
                     /\ state'.total = 0 \/ Lengths[server'] <= state'.total
      BY <1>1, <1>2, <1>3, <1>8, <2>2, <3>1 DEF DataOf
    <3> QED
      BY <1>2, <3>2, <3>3, <3>4, <3>5 DEF DataOf
  <2> QED
    BY <1>5, <2>1, <2>2
<1>9. server' \in Versions /\ kind' = "ranged"
  BY <1>1, <1>2
<1>10. \A v \in Versions : DataOf(v) => \E w \in Versions : DataOf(w)'
  BY <1>8, <1>9
<1>11. /\ keep' \in BOOLEAN /\ cancelled' \in BOOLEAN /\ calls' \in Nat
       /\ crashes' \in 0..MaxCrashes
  BY <1>1, <1>2, <1>4 DEF FileTypeOK
<1> QED
  BY <1>1, <1>2, <1>5, <1>6, <1>7, <1>9, <1>10, <1>11, RangedFrame
\* The next chunk is asked for from the end of the staging file.
LEMMA NextChunkIInv ==
    ASSUME IInv, pc = "idle", UNCHANGED segVars, NextChunk
    PROVE  IInv'
<1>1. /\ at # "idle" => kind = "ranged"
      /\ FileTypeOK /\ partial \in Seq(Pieces) /\ synced \in Seq(Pieces)
      /\ LoopInv /\ ReadInv /\ Len(partial) \in Nat
      /\ state.total \in Nat /\ ChunkSize \in Nat /\ ChunkSize > 0
      /\ attempt \in 0..Tries
  BY Serving DEF LoopInv
<1>2. /\ at = "chunk" /\ mode.chunked
      /\ UNCHANGED <<mode, server, state, saved, probe, ignored, body>>
      /\ UNCHANGED <<partial, synced, kind, keep, cancelled, calls, crashes>>
  BY <1>1 DEF NextChunk, LoopInv, diskVars, callVars
<1>3. CASE state.total = 0 \/ Len(partial) < state.total
  <2>1. /\ at' = "ask" /\ attempt' = 1 /\ start' = Len(partial)
        /\ end' = IF state.total = 0 THEN start' + ChunkSize
                  ELSE Min({start' + ChunkSize, state.total})
    BY <1>3 DEF NextChunk
  <2>2. /\ end' \in Nat /\ start' <= end'
        /\ state.total = 0 => start' + ChunkSize <= end'
    <3>1. CASE state.total = 0
      BY <1>1, <2>1, <3>1
    <3>2. CASE state.total # 0
      <4> DEFINE a == start' + ChunkSize
                 m == Min({a, state.total})
      <4>1. a \in Int /\ state.total \in Int /\ a \in Nat /\ a >= start'
        BY <1>1, <2>1
      <4>2. end' = m
        BY <2>1, <3>2
      <4> HIDE DEF a
      <4>3. m \in {a, state.total}
        BY <4>1, Smaller, Zenon
      <4> HIDE DEF m
      <4> QED
        BY <1>1, <1>3, <2>1, <3>2, <4>1, <4>2, <4>3
    <3> QED
      BY <3>1, <3>2
  <2>3. LoopInv'
    <3>1. 1 \in 0..Tries
      BY RangedAssumption
    <3> QED
      BY <1>1, <1>2, <2>1, <2>2, <3>1 DEF LoopInv, States
  <2>4. ReadInv'
    <3>1. start' <= Len(partial')
      BY <1>1, <1>2, <2>1
    <3> QED
      BY <1>1, <1>2, <2>1, <2>2, <3>1 DEF ReadInv
  <2>5. ASSUME NEW v \in Versions, DataOf(v) PROVE DataOf(v)'
    BY <1>2, <2>1, <2>5 DEF DataOf
  <2> QED
    BY <1>1, <1>2, <2>3, <2>4, <2>5, RangedFrame DEF FileTypeOK
<1>4. CASE ~(state.total = 0 \/ Len(partial) < state.total)
  <2>1. at' = "size" /\ UNCHANGED <<start, end, attempt>>
    BY <1>4 DEF NextChunk
  <2>2. ASSUME NEW v \in Versions, DataOf(v), Shrinks
        PROVE  Len(partial) = Lengths[v]
    <3>1. Lengths[v] \in Nat
      BY VersionFacts
    <3> QED
      BY <1>1, <1>4, <2>2, <3>1 DEF DataOf
  <2> QED
    BY <1>1, <1>2, <2>1, <2>2, StillIInv DEF LoopInv, callVars
<1> QED
  BY <1>3, <1>4

\* 206: the server has the version that the probe saw.
LEMMA ChunkPartialIInv ==
    ASSUME IInv, pc = "idle", UNCHANGED segVars, ChunkPartial
    PROVE  IInv'
<1>1. /\ at # "idle" => kind = "ranged"
      /\ FileTypeOK /\ partial \in Seq(Pieces) /\ synced \in Seq(Pieces)
      /\ LoopInv /\ ReadInv /\ server \in Versions /\ Len(partial) \in Nat
      /\ server \in Nat /\ Lengths[server] \in Nat /\ ChunkSize \in Nat
      /\ start \in Nat /\ end \in Nat
  BY Serving DEF LoopInv
<1>2. /\ at = "ask" /\ at' = "body" /\ Validator(server) = probe
      /\ start < Lengths[server]
      /\ body' = [version |-> server, position |-> start,
                  last |-> Min({end, Lengths[server]}), full |-> FALSE]
      /\ UNCHANGED <<mode, server, state, saved, probe, ignored, start, end,
                     attempt>>
      /\ UNCHANGED <<partial, synced, kind, keep, cancelled, calls, crashes>>
  BY DEF ChunkPartial, loopVars, diskVars, callVars
<1>3. /\ mode.chunked /\ start = Len(partial) /\ start <= end
      /\ state.total = 0 => start + ChunkSize <= end
  BY <1>1, <1>2 DEF LoopInv, ReadInv
<1>4. /\ body'.last \in {end, Lengths[server]} /\ body'.last \in Nat
      /\ body'.last <= Lengths[server]
      /\ body'.version = server /\ body'.position = start /\ ~body'.full
  <2> DEFINE m == Min({end, Lengths[server]})
  <2>1. end \in Int /\ Lengths[server] \in Int
    BY <1>1
  <2>2. m \in {end, Lengths[server]} /\ m <= Lengths[server]
    BY <2>1, Smaller, Zenon
  <2>3. /\ body'.last = m /\ body'.version = server /\ body'.position = start
        /\ body'.full = FALSE
    BY <1>2
  <2> HIDE DEF m
  <2> QED
    BY <1>1, <2>2, <2>3
<1>5. LoopInv'
  BY <1>1, <1>2 DEF LoopInv, States
<1>6. ReadInv'
  <2>1. body' \in Bodies
    BY <1>1, <1>2, <1>4 DEF Bodies
  <2>2. body'.position <= body'.last /\ body'.version <= server'
    BY <1>1, <1>2, <1>3, <1>4
  <2>3. state.total = 0 => \/ body'.last = Lengths[server]
                           \/ start + ChunkSize <= body'.last
    BY <1>3, <1>4
  <2> QED
    BY <1>1, <1>2, <1>3, <1>4, <2>1, <2>2, <2>3 DEF ReadInv
<1>7. ASSUME NEW v \in Versions, DataOf(v) PROVE DataOf(v)'
  <2>1. v = server
    <3>1. CASE probe = 0
      BY <1>2, <1>3, <1>7, <3>1 DEF DataOf
    <3>2. CASE probe # 0
      <4>1. probe = server /\ v \in Nat
        BY <1>1, <1>2, <3>2, VersionFacts
      <4> QED
        BY <1>1, <1>7, <4>1 DEF DataOf
    <3> QED
      BY <3>1, <3>2
  <2> QED
    BY <1>2, <1>4, <1>7, <2>1 DEF DataOf
<1> QED
  BY <1>1, <1>2, <1>5, <1>6, <1>7, RangedFrame DEF FileTypeOK

\* 200 to a range: the chunks start again from the beginning.
LEMMA ChunkIgnoredIInv ==
    ASSUME IInv, pc = "idle", UNCHANGED segVars, ChunkIgnored
    PROVE  IInv'
<1>1. /\ at # "idle" => kind = "ranged"
      /\ FileTypeOK /\ partial \in Seq(Pieces) /\ synced \in Seq(Pieces)
      /\ LoopInv /\ ReadInv /\ server \in Versions /\ Len(partial) \in Nat
      /\ server \in Nat /\ Lengths[server] \in Nat /\ ChunkSize \in Nat
      /\ start \in Nat /\ end \in Nat /\ ignored \in Nat /\ state.total \in Nat
      /\ Total(server) \in Nat
  BY Serving, VersionFacts DEF LoopInv
<1>2. /\ at = "ask" /\ at' = "body" /\ ignored' = ignored + 1
      /\ body' = [version |-> server, position |-> 0, last |-> Lengths[server],
                  full |-> TRUE]
      /\ UNCHANGED <<mode, server, probe, end, attempt>>
      /\ UNCHANGED <<kind, keep, cancelled, calls, crashes>>
  BY DEF ChunkIgnored, callVars
<1>3. /\ mode.chunked /\ start = Len(partial) /\ start <= end
      /\ state.total = 0 => start + ChunkSize <= end
  BY <1>1, <1>2 DEF LoopInv, ReadInv
<1>4. /\ partial' = <<>> /\ synced' = synced /\ saved' \in {saved, Unsaved}
      /\ start' = 0
      /\ state' \in [validator : Tagged \cup {0}, total : Nat]
      /\ state'.validator \in {state.validator, probe}
      /\ state'.total \in {state.total, Total(server)}
      /\ state'.total = 0 => state.total = 0
  <2>1. CASE start > 0
    <3>1. /\ partial' = <<>> /\ saved' = Unsaved /\ synced' = synced
          /\ start' = 0
          /\ state' = [validator |-> probe,
                       total |-> IF Total(server) > 0 THEN Total(server)
                                 ELSE state.total]
      BY <2>1 DEF ChunkIgnored, Restart
    <3>2. probe \in Tagged \cup {0}
      BY <1>1 DEF LoopInv
    <3> QED
      BY <1>1, <3>1, <3>2
  <2>2. CASE ~(start > 0)
    <3>1. UNCHANGED <<partial, synced, saved, state, start>>
      BY <2>2 DEF ChunkIgnored
    <3>2. start = 0
      BY <1>1, <2>2
    <3>3. partial = <<>>
      BY <1>1, <1>3, <3>2, EmptySeq
    <3>4. state \in [validator : Tagged \cup {0}, total : Nat]
      BY <1>1 DEF LoopInv
    <3> QED
      BY <3>1, <3>2, <3>3, <3>4
  <2> QED
    BY <2>1, <2>2
<1>5. partial' \in Seq(Pieces) /\ Len(partial') = 0
  BY <1>4, EmptySeq
<1>6. LoopInv'
  <2>1. /\ saved' \in [validator : Tagged \cup {0}, total : Nat, bytes : Nat]
        /\ saved' = Unsaved \/ (saved'.validator # 0 /\ saved'.bytes > 0)
    BY <1>1, <1>4 DEF LoopInv, Unsaved
  <2> QED
    BY <1>1, <1>2, <1>4, <2>1 DEF LoopInv, States
<1>7. ReadInv'
  <2>1. body' \in Bodies
    BY <1>1, <1>2 DEF Bodies
  <2>2. start' <= Len(partial') /\ start' <= end'
    BY <1>1, <1>2, <1>4, <1>5
  <2>3. state'.total = 0 => start' + ChunkSize <= end'
    BY <1>1, <1>2, <1>3, <1>4
  <2>4. /\ body'.version = server /\ body'.position = 0
        /\ body'.last = Lengths[server] /\ body'.full
    BY <1>2
  <2>5. body'.position <= body'.last /\ body'.last <= Lengths[server]
        /\ body'.version <= server'
    BY <1>1, <1>2, <2>4
  <2> QED
    BY <1>1, <1>2, <1>5, <2>1, <2>2, <2>3, <2>4, <2>5 DEF ReadInv
<1>8. ASSUME NEW v \in Versions, DataOf(v) PROVE DataOf(server)'
  <2>1. body'.version = server
    BY <1>2
  <2> QED
    BY <1>2, <1>4, <1>8, <2>1, EmptyIsCurrent
<1>9. server' \in Versions
  BY <1>1, <1>2
<1> QED
  BY <1>1, <1>2, <1>4, <1>5, <1>6, <1>7, <1>8, <1>9, RangedFrame DEF FileTypeOK

\* An incomplete chunk is rolled back.
LEMMA ChunkBrokenIInv ==
    ASSUME IInv, pc = "idle", UNCHANGED segVars, ChunkBroken
    PROVE  IInv'
<1>1. /\ at # "idle" => kind = "ranged"
      /\ FileTypeOK /\ partial \in Seq(Pieces) /\ synced \in Seq(Pieces)
      /\ LoopInv /\ ReadInv /\ Len(partial) \in Nat /\ start \in Nat
      /\ Tries \in Nat /\ attempt \in 0..Tries
  BY Serving DEF LoopInv
<1>2. /\ at = "body" /\ mode.chunked /\ body' = NoBody
      /\ partial' = Prefix(partial, start)
      /\ UNCHANGED <<mode, server, state, probe, ignored, start, end>>
      /\ UNCHANGED <<kind, keep, cancelled, calls, crashes>>
      /\ at' \in {"drop", "ask"} /\ Checkpointed(partial', state)
      /\ attempt' = attempt \/ (attempt < Tries /\ attempt' = attempt + 1)
  BY DEF ChunkBroken, Checkpointed, loopVars, callVars
<1>3. start <= Len(partial)
  BY <1>1, <1>2 DEF ReadInv
<1>4. /\ partial' \in Seq(Pieces) /\ Len(partial') = start
      /\ \A i \in 1..start : partial'[i] = partial[i]
  BY <1>1, <1>2, <1>3, PrefixOf
<1>5. /\ synced' \in Seq(Pieces)
      /\ saved' \in [validator : Tagged \cup {0}, total : Nat, bytes : Nat]
      /\ saved' = Unsaved \/ (saved'.validator # 0 /\ saved'.bytes > 0)
      /\ \/ saved'.validator = saved.validator /\ saved'.total = saved.total
         \/ saved'.validator = state.validator /\ saved'.total = state.total
  BY <1>1, <1>2, <1>4, SaveKeeps
<1>6. attempt' \in 0..Tries
  BY <1>1, <1>2
<1>7. LoopInv'
  BY <1>1, <1>2, <1>5, <1>6 DEF LoopInv, States
<1>8. ReadInv'
  <2>1. NoBody \in Bodies
    BY DEF NoBody, Bodies
  <2>2. start' = Len(partial') /\ start' <= Len(partial')
    BY <1>1, <1>2, <1>4
  <2> QED
    BY <1>1, <1>2, <2>1, <2>2 DEF ReadInv
<1>9. ASSUME NEW v \in Versions, DataOf(v) PROVE DataOf(v)'
  <2>1. Len(partial') <= Lengths[v] /\ \A i \in 1..start : i \in 1..Len(partial)
    BY <1>1, <1>3, <1>4, <1>9, VersionFacts DEF DataOf
  <2>2. \A i \in 1..Len(partial') : partial'[i] = <<v, i>>
    BY <1>4, <1>9, <2>1 DEF DataOf
  <2> QED
    BY <1>2, <1>5, <1>9, <2>1, <2>2 DEF DataOf
<1> QED
  BY <1>1, <1>2, <1>4, <1>5, <1>7, <1>8, <1>9, RangedFrame DEF FileTypeOK

\* Every step of a plain or chunked download.
LEMMA RangedStepIInv ==
    ASSUME IInv, pc = "idle", RangedStep, UNCHANGED segVars
    PROVE  IInv'
<1>1. ASSUME NEW options \in Modes,
             StartPlain(options) \/ StartChunked(options)
      PROVE  IInv'
  BY <1>1, StartPlainIInv, StartChunkedIInv
<1>2. CASE RangedWork
  BY <1>2, HaltsIInv, RetriesIInv, PlainPartialIInv, PlainFullIInv, ReadIInv,
     PlainBrokenIInv, RangedReturnIInv, ProbeIInv, NextChunkIInv,
     ChunkPartialIInv, ChunkIgnoredIInv, ChunkBrokenIInv, RangedRenameIInv
     DEF RangedWork
<1> QED
  BY <1>1, <1>2, RetriesIInv, RangedReturnIInv, ReplaceIInv DEF RangedStep

\* Every step of the two kinds of transfer.
LEMMA NextIInv ==
    ASSUME IInv, [Next]_vars
    PROVE  IInv'
<1>1. CASE at = "idle" /\ SegStep /\ UNCHANGED rangedVars
  BY <1>1, SegStepIInv
<1>2. CASE pc = "idle" /\ RangedStep /\ UNCHANGED segVars
  BY <1>2, RangedStepIInv
<1>3. CASE UNCHANGED vars
  <2>1. UNCHANGED <<segVars, rangedVars, fileVars>>
    BY <1>3 DEF vars
  <2>2. UNCHANGED <<pc, list, next, checkpoint, worker, slots, jobs, jobsOpen,
                    nextJob, results, pending, stop, failed>>
    BY <2>1 DEF segVars
  <2>3. UNCHANGED <<at, mode, server, state, saved, probe, ignored, start, end,
                    attempt, body>>
    BY <2>1 DEF rangedVars, loopVars
  <2>4. UNCHANGED <<partial, synced, kind, keep, cancelled, calls, crashes>>
    BY <2>1 DEF fileVars, diskVars, callVars
  <2>5. FileInv' /\ LengthInv'
    BY <2>2, <2>4 DEF IInv, FileInv, FileTypeOK, LengthInv
  <2>6. PoolInv'
    BY <2>2 DEF IInv, PoolInv, CallInv, JobsInv, TakenInv, RestInv, Front, Busy,
                Lost
  <2>7. LoopInv' /\ ReadInv'
    BY <2>3, <2>4 DEF IInv, LoopInv, ReadInv
  <2>8. KindInv' /\ DiskInv'
    BY <2>2, <2>3, <2>4 DEF IInv, KindInv, DiskInv, DiskOK, Begins, Lost, Busy,
                            Front
  <2>9. DataInv'
    BY <2>3, <2>4 DEF IInv, DataInv, DataOf
  <2> QED
    BY <2>5, <2>6, <2>7, <2>8, <2>9 DEF IInv
<1> QED
  BY <1>1, <1>2, <1>3 DEF Next
-----------------------------------------------------------------------------
(* What follows from the invariant.                                        *)

\* The segments that hold a slot are numbered from next to nextJob.
LEMMA HeldBounded ==
    ASSUME PoolInv, pc \in Looping
    PROVE  SlotsBounded
<1>1. /\ next \in Nat /\ nextJob \in Nat /\ slots \in Nat /\ Front \in Int
      /\ next <= Front /\ Front <= nextJob /\ nextJob <= next + slots
      /\ Len(jobs) \in Nat /\ DOMAIN jobs = 1..Len(jobs)
      /\ Front = nextJob - Len(jobs)
      /\ \A i \in 1..Len(jobs) : jobs[i] = Front + i - 1
      /\ pc \in {"sync", "rename", "slot"} => nextJob < next + slots
  BY SegmentAssumption DEF PoolInv, CallInv, JobsInv, Front
<1> HIDE DEF Front
<1> DEFINE Given == next..nextJob - 1
<1>2. Held \subseteq Given
  <2>1. \A i \in DOMAIN jobs : jobs[i] \in Given
    BY <1>1
  <2>2. \A w \in Workers : worker[w].at \in {"fetch", "send"} =>
            worker[w].segment \in Given
    <3> SUFFICES ASSUME NEW w \in Workers, Busy(w)
                 PROVE  worker[w].segment \in Given
      BY DEF Busy
    <3>1. /\ worker[w].segment \in 0..Segments - 1
          /\ next <= worker[w].segment /\ worker[w].segment < Front
      <4> HIDE DEF Busy
      <4> QED
        BY DEF PoolInv, TakenInv
    <3> QED
      BY <1>1, <3>1, SegmentAssumption
  <2>3. \A r \in results : r.segment \in Given
    <3> SUFFICES ASSUME NEW r \in results PROVE r.segment \in Given
      OBVIOUS
    <3>1. /\ r.segment \in 0..Segments - 1
          /\ next <= r.segment /\ r.segment < Front
      BY DEF PoolInv, TakenInv, Results
    <3> QED
      BY <1>1, <3>1, SegmentAssumption
  <2>4. pending \subseteq Given
    <3> SUFFICES ASSUME NEW k \in pending PROVE k \in Given
      OBVIOUS
    <3>1. k \in 0..Segments - 1 /\ next <= k /\ k < Front
      BY DEF PoolInv, TakenInv
    <3> QED
      BY <1>1, <3>1, SegmentAssumption
  <2>5. pc = "append" => next \in Given
    <3>1. pc = "append" => next < Front
      BY DEF PoolInv, TakenInv
    <3> QED
      BY <1>1, <3>1
  <2> HIDE DEF Given
  <2> QED
    BY <2>1, <2>2, <2>3, <2>4, <2>5 DEF Held
<1>3. /\ IsFiniteSet(Given)
      /\ Cardinality(Given) = IF next > nextJob - 1 THEN 0 ELSE nextJob - 1 - next + 1
  <2>1. next \in Int /\ nextJob - 1 \in Int
    BY <1>1
  <2> QED
    BY <2>1, FS_Interval
<1>4. Cardinality(Given) = nextJob - next /\ nextJob - next <= slots
  BY <1>1, <1>3
<1> HIDE DEF Given
<1>5. /\ IsFiniteSet(Held) /\ Cardinality(Held) <= Cardinality(Given)
      /\ Cardinality(Held) \in Nat
  BY <1>2, <1>3, FS_Subset, FS_CardinalityType
<1>6. Cardinality(Held) <= slots
  BY <1>1, <1>4, <1>5
<1>7. pc = "slot" => Cardinality(Held) < slots
  BY <1>1, <1>4, <1>5
<1> QED
  BY <1>6, <1>7 DEF SlotsBounded

\* The invariant the run checks follows.
LEMMA IInvTransfer == IInv => TransferInv
<1> SUFFICES ASSUME IInv PROVE TransferInv
  OBVIOUS
<1>1. FileTypeOK
  BY DEF IInv, FileInv
<1>2. SegTypeOK
  <2>1. \A w \in Workers : worker[w].segment \in 0..Segments - 1
    BY DEF IInv, PoolInv, TakenInv
  <2> QED
    BY <2>1 DEF IInv, PoolInv, CallInv, JobsInv, TakenInv, SegTypeOK, Positions
<1>3. RangedTypeOK
  <2>1. saved = Unsaved \/ (saved.validator \in Tagged /\ saved.bytes > 0)
    BY DEF IInv, LoopInv
  <2> QED
    BY <2>1 DEF IInv, LoopInv, RangedTypeOK, States
<1>4. SlotsBounded
  <2>1. CASE pc \in Looping
    BY <2>1, HeldBounded DEF IInv
  <2>2. CASE pc \notin Looping
    BY <2>2 DEF SlotsBounded, Looping
  <2> QED
    BY <2>1, <2>2
<1> QED
  BY <1>1, <1>2, <1>3, <1>4 DEF TransferInv, TypeOK

\* The inductive invariant holds in every state.
LEMMA SpecIInv == Spec => []IInv
<1>1. IInv /\ [Next]_vars => IInv'
  BY NextIInv
<1> QED
  BY <1>1, InitIInv, PTL DEF Spec
\* What a checkpoint of a segmented download describes is there.
LEMMA SegmentsExact ==
    ASSUME IInv, ~Mixing
    PROVE  ResumedSegmentsExact
<1> SUFFICES ASSUME checkpoint # NoCheckpoint,
                    Len(partial) >= 2 * checkpoint.next
             PROVE  Prefix(partial, 2 * checkpoint.next)
                        = Assembled(checkpoint.list, checkpoint.next)
  BY DEF ResumedSegmentsExact
<1> DEFINE l == checkpoint.list
           n == checkpoint.next
           N == 2 * n
<1>1. /\ DiskOK /\ partial \in Seq(Pieces) /\ Len(partial) \in Nat
      /\ checkpoint \in [list : Lists, next : 1..Segments]
  BY DEF IInv, KindInv, DiskInv, FileInv, PoolInv, CallInv
<1>2. n \in Nat /\ N \in Nat /\ N > 0 /\ N <= Len(partial)
  BY <1>1, SegmentAssumption
<1>3. partial # <<>>
  BY <1>2
<1>4. Begins(partial, l, n)
  BY <1>1, <1>3 DEF DiskOK
<1>5. \A i \in 1..N : partial[i] = <<l, (i - 1) \div 2, (i - 1) % 2>>
  BY <1>4 DEF Begins
<1> HIDE DEF l, n
<1>6. Assembled(l, n) = [i \in 1..N |-> <<l, (i - 1) \div 2, (i - 1) % 2>>]
  BY DEF Assembled
<1> HIDE DEF N
<1>7. /\ Prefix(partial, N) \in Seq(Pieces) /\ Len(Prefix(partial, N)) = N
      /\ \A i \in 1..N : Prefix(partial, N)[i] = partial[i]
  BY <1>1, <1>2, PrefixOf
<1>8. Prefix(partial, N) = [i \in 1..N |-> Prefix(partial, N)[i]]
  BY <1>7
<1>9. Prefix(partial, N) = Assembled(l, n)
  BY <1>5, <1>6, <1>7, <1>8
<1> QED
  BY <1>9 DEF l, n, N

\* What a validator of a plain or chunked download names is there.
LEMMA RangeExact ==
    ASSUME IInv, ~Mixing, "ranged" \notin PowerLoss, Regular
    PROVE  ResumedRangeExact
<1> DEFINE n == Min({saved.bytes, Len(partial)})
<1> SUFFICES ASSUME saved # Unsaved, saved.validator = Validator(server)
             PROVE  Prefix(partial, n) = Prefix(Whole(server), n)
  BY DEF ResumedRangeExact
<1>1. /\ partial \in Seq(Pieces) /\ Len(partial) \in Nat /\ saved.bytes \in Nat
      /\ LoopInv /\ server \in Versions /\ server \in Nat
      /\ Lengths[server] \in Nat
  BY Serving
<1>2. PICK v \in Versions : DataOf(v)
  BY DEF IInv, KindInv, DataInv
<1>3. v = server
  <2>1. saved.validator = server
    BY <1>1, VersionFacts DEF LoopInv
  <2>2. v <= server /\ server <= v
    BY <1>2, <2>1 DEF DataOf
  <2>3. v \in Nat
    BY VersionFacts
  <2> QED
    BY <1>1, <2>2, <2>3
<1>4. n \in Nat /\ n <= Len(partial)
  <2>1. saved.bytes \in Int /\ Len(partial) \in Int
    BY <1>1
  <2>2. n \in {saved.bytes, Len(partial)} /\ n <= Len(partial)
    BY <2>1, Smaller, Zenon
  <2> QED
    BY <1>1, <2>2
<1> HIDE DEF n
<1>5. /\ Len(partial) <= Lengths[server]
      /\ \A i \in 1..Len(partial) : partial[i] = <<server, i>>
  BY <1>2, <1>3 DEF DataOf
<1>6. /\ Whole(server) \in Seq(Pieces) /\ Len(Whole(server)) = Lengths[server]
      /\ \A i \in 1..Lengths[server] : Whole(server)[i] = <<server, i>>
  <2>1. \A i \in 1..Lengths[server] : <<server, i>> \in Pieces
    BY <1>1 DEF Pieces
  <2> QED
    BY <1>1, <2>1 DEF Whole
<1>7. /\ Prefix(partial, n) \in Seq(Pieces) /\ Len(Prefix(partial, n)) = n
      /\ \A i \in 1..n : Prefix(partial, n)[i] = partial[i]
  BY <1>1, <1>4, PrefixOf
<1>8. n <= Len(Whole(server))
  BY <1>1, <1>4, <1>5, <1>6
<1>9. /\ Prefix(Whole(server), n) \in Seq(Pieces)
      /\ Len(Prefix(Whole(server), n)) = n
      /\ \A i \in 1..n : Prefix(Whole(server), n)[i] = Whole(server)[i]
  BY <1>4, <1>6, <1>8, PrefixOf
<1>10. \A i \in 1..n : i \in 1..Len(partial) /\ i \in 1..Lengths[server]
  BY <1>1, <1>4, <1>5
<1>11. \A i \in 1..n : Prefix(partial, n)[i] = Prefix(Whole(server), n)[i]
  BY <1>5, <1>6, <1>7, <1>9, <1>10
<1> QED
  BY <1>7, <1>9, <1>11, SeqEqual
-----------------------------------------------------------------------------
(* The transfers implement the safety part of AtomicOutput.                *)

\* How a step moves one kind of transfer: p is its position, q the next one.
Moves(p, q, before, after, staged) ==
    \/ p = "idle" /\ q \notin {"idle", "clean"} /\ after = before
    \/ p = q /\ after = before
    \/ /\ p \notin {"idle", "clean"} /\ q \notin {"idle", "clean"}
       /\ after = before
    \/ p = "promote" /\ q = "clean" /\ after = staged
    \/ q = "idle" /\ after = before

\* The steps of a segmented download.
LEMMA SegmentsMove ==
    ASSUME SegStep
    PROVE  Moves(pc, pc', target, target', partial)
<1>1. ASSUME NEW c \in SegmentCalls, StartSegments(c.list, c.keep)
      PROVE  Moves(pc, pc', target, target', partial)
  <2>1. pc = "idle" /\ pc' \in {"publish", "spawn"} /\ target' = target
    BY <1>1 DEF StartSegments, Open
  <2> QED
    BY <2>1 DEF Moves
<1>2. ASSUME NEW w \in Workers, WorkerStep(w)
      PROVE  Moves(pc, pc', target, target', partial)
  <2>1. pc' = pc /\ target' = target
    BY <1>2 DEF WorkerStep, WorkerCheck, WorkerReceive, WorkerFetch, WorkerSend,
                OnlyWorker, fileVars, diskVars
  <2> QED
    BY <2>1 DEF Moves
<1>3. CASE CoordinatorStep
  <2>1. CASE PublishClean \/ DropOutput
    <3>1. pc' = "idle" /\ target' = target
      BY <2>1 DEF PublishClean, DropOutput, Return, diskVars
    <3> QED
      BY <3>1 DEF Moves
  <2>2. CASE PublishRename
    <3>1. /\ pc = "promote"
          /\ \/ pc' = "clean" /\ target' = partial
             \/ pc' = "drop" /\ target' = target
      BY <2>2 DEF PublishRename, Promote, diskVars
    <3> QED
      BY <3>1 DEF Moves
  <2>3. CASE \/ SpawnWorker \/ NoticeCancel \/ Receive \/ Disconnected \/ AppendFirst
             \/ AppendLast \/ AppendFail \/ NothingReady
    <3>1. /\ pc \in {"spawn", "loop", "assemble", "append"}
          /\ pc' \in {"spawn", "loop", "assemble", "append", "ended", "sync", "slot"}
          /\ target' = target
      BY <2>3 DEF SpawnWorker, NoticeCancel, Receive, Disconnected, AppendFirst, AppendLast,
                  AppendFail, NothingReady, diskVars
    <3> QED
      BY <3>1 DEF Moves
  <2>4. CASE SaveSync \/ SaveRename \/ ReleaseSlot \/ LeaveScope \/ PublishSync
    <3>1. /\ pc \notin {"idle", "clean"} /\ pc' \notin {"idle", "clean"}
          /\ target' = target
      BY <2>4 DEF SaveSync, SaveRename, ReleaseSlot, LeaveScope, PublishSync,
                  AfterSave, diskVars
    <3> QED
      BY <3>1 DEF Moves
  <2> QED
    BY <1>3, <2>1, <2>2, <2>3, <2>4 DEF CoordinatorStep
<1>4. CASE SegCancel
  <2>1. pc' = pc /\ target' = target
    BY <1>4 DEF SegCancel, CancelCall, segVars, diskVars
  <2> QED
    BY <2>1 DEF Moves
<1>5. CASE SegCrash
  <2>1. pc' = "idle" /\ target' = target
    BY <1>5 DEF SegCrash, CrashFile, Return
  <2> QED
    BY <2>1 DEF Moves
<1> QED
  BY <1>1, <1>2, <1>3, <1>4, <1>5 DEF SegStep

\* The steps of a plain or chunked download.
LEMMA RangedMoves ==
    ASSUME RangedStep
    PROVE  Moves(at, at', target, target', partial)
<1>1. ASSUME NEW options \in Modes,
             StartPlain(options) \/ StartChunked(options)
      PROVE  Moves(at, at', target, target', partial)
  <2>1. at = "idle" /\ at' \in {"publish", "request", "probe"} /\ target' = target
    BY <1>1 DEF StartPlain, StartChunked, OpenFile, diskVars
  <2> QED
    BY <2>1 DEF Moves
<1>2. CASE PlainRefused \/ PlainRetry \/ PlainPartial \/ PlainFull
  <2>1. /\ at = "request" /\ at' \in {"request", "drop", "body"}
        /\ target' = target
    BY <1>2 DEF PlainRefused, PlainRetry, PlainPartial, PlainFull, GiveUp,
                diskVars
  <2> QED
    BY <2>1 DEF Moves
<1>3. CASE PlainRead \/ WriteFailed \/ PlainEnd \/ PlainBroken \/ ChunkRead
           \/ ChunkEnd \/ ChunkBroken
  <2>1. /\ at = "body"
        /\ at' \in {"body", "drop", "publish", "request", "size", "chunk", "ask"}
        /\ target' = target
    BY <1>3 DEF PlainRead, WriteFailed, PlainEnd, PlainBroken, ChunkRead,
                ChunkEnd, ChunkBroken, GiveUp, diskVars
  <2> QED
    BY <2>1 DEF Moves
<1>4. CASE NextChunk \/ ChunkRetry \/ ChunkAborted \/ ChunkFailed
           \/ ChunkPartial \/ ChunkIgnored \/ ChunkSized \/ RangedPublishSync
  <2>1. /\ at \in {"chunk", "ask", "size", "publish"}
        /\ at' \in {"ask", "size", "drop", "body", "publish", "promote"}
        /\ target' = target
    BY <1>4 DEF NextChunk, ChunkRetry, ChunkAborted, ChunkFailed, ChunkPartial,
                ChunkIgnored, ChunkSized, RangedPublishSync, GiveUp, diskVars
  <2> QED
    BY <2>1 DEF Moves
<1>5. CASE ProbeAnswered
  <2>1. at = "probe" /\ at' = "chunk" /\ target' = target
    BY <1>5 DEF ProbeAnswered, OpenFile
  <2> QED
    BY <2>1 DEF Moves
<1>6. CASE ProbeRefused \/ RangedPublishClean \/ RangedDrop \/ RangedCrash
  <2>1. at' = "idle" /\ target' = target
    BY <1>6 DEF ProbeRefused, RangedPublishClean, RangedDrop, RangedCrash,
                CrashFile, Forget, diskVars
  <2> QED
    BY <2>1 DEF Moves
<1>7. CASE RangedPublishRename
  <2>1. /\ at = "promote"
        /\ \/ at' = "clean" /\ target' = partial
           \/ at' = "drop" /\ target' = target
    BY <1>7 DEF RangedPublishRename, Promote, diskVars
  <2> QED
    BY <2>1 DEF Moves
<1>8. CASE RangedCancel \/ ReplaceObject
  <2>1. at' = at /\ target' = target
    BY <1>8 DEF RangedCancel, CancelCall, ReplaceObject, rangedVars, fileVars,
                diskVars
  <2> QED
    BY <2>1 DEF Moves
<1> QED
  BY <1>1, <1>2, <1>3, <1>4, <1>5, <1>6, <1>7, <1>8 DEF RangedStep, RangedWork

\* What is about to be promoted is complete.
LEMMA PromotedIsWhole ==
    ASSUME IInv, ~Mixing, "ranged" \notin PowerLoss, Regular, Shrinks
    PROVE  /\ pc = "promote" => partial \in WholeLists
           /\ at = "promote" => partial \in WholeVersions
<1>1. partial \in Seq(Pieces) /\ Len(partial) \in Nat
  BY Serving
<1>2. ASSUME pc = "promote" PROVE partial \in WholeLists
  <2>1. DiskOK /\ list \in Lists
    BY <1>2 DEF IInv, KindInv, DiskInv, PoolInv, CallInv
  <2>2. Begins(partial, list, Segments) /\ Len(partial) = 2 * Segments
    BY <1>2, <2>1 DEF DiskOK
  <2> DEFINE N == 2 * Segments
  <2>3. \A i \in 1..N : partial[i] = <<list, (i - 1) \div 2, (i - 1) % 2>>
    BY <2>2 DEF Begins
  <2>4. Assembled(list, Segments)
            = [i \in 1..N |-> <<list, (i - 1) \div 2, (i - 1) % 2>>]
    BY DEF Assembled
  <2>5. Len(partial) = N
    BY <2>2
  <2> HIDE DEF N
  <2>6. partial = [i \in 1..N |-> partial[i]]
    BY <1>1, <2>5
  <2>7. partial = Assembled(list, Segments)
    BY <2>3, <2>4, <2>6
  <2> QED
    BY <2>1, <2>7 DEF WholeLists
<1>3. ASSUME at = "promote" PROVE partial \in WholeVersions
  <2>1. PICK v \in Versions : DataOf(v)
    BY <1>3 DEF IInv, KindInv, DataInv
  <2>2. /\ Len(partial) = Lengths[v]
        /\ \A i \in 1..Len(partial) : partial[i] = <<v, i>>
    BY <1>3, <2>1 DEF DataOf
  <2>3. partial = [i \in 1..Lengths[v] |-> partial[i]]
    BY <1>1, <2>2
  <2>4. partial = Whole(v)
    BY <2>2, <2>3 DEF Whole
  <2> QED
    BY <2>4 DEF WholeVersions
<1> QED
  BY <1>2, <1>3

\* Every step is a step of AtomicOutput, or leaves output and call alone.
LEMMA OutputStep ==
    ASSUME IInv, ~Mixing, "ranged" \notin PowerLoss, Regular, Shrinks,
           [Next]_vars
    PROVE  [Output!Next]_(Output!vars)
<1> DEFINE Complete == WholeLists \cup WholeVersions
<1>1. ASSUME at = "idle", at' = "idle", Moves(pc, pc', target, target', partial)
      PROVE  \/ CallOf = "idle" /\ CallOf' = "working" /\ target' = target
             \/ CallOf = "working" /\ CallOf' = "delivered" /\ target' \in Complete
             \/ /\ CallOf \in {"working", "delivered"} /\ CallOf' = "idle"
                /\ target' = target
             \/ CallOf' = CallOf /\ target' = target
  <2>1. pc = "promote" => partial \in Complete
    BY PromotedIsWhole
  <2> HIDE DEF Complete
  <2> QED
    BY <1>1, <2>1 DEF Moves, CallOf
<1>2. ASSUME pc = "idle", pc' = "idle", Moves(at, at', target, target', partial)
      PROVE  \/ CallOf = "idle" /\ CallOf' = "working" /\ target' = target
             \/ CallOf = "working" /\ CallOf' = "delivered" /\ target' \in Complete
             \/ /\ CallOf \in {"working", "delivered"} /\ CallOf' = "idle"
                /\ target' = target
             \/ CallOf' = CallOf /\ target' = target
  <2>1. at = "promote" => partial \in Complete
    BY PromotedIsWhole
  <2> HIDE DEF Complete
  <2> QED
    BY <1>2, <2>1 DEF Moves, CallOf
<1>3. CASE at = "idle" /\ SegStep /\ UNCHANGED rangedVars
  <2>1. at' = "idle"
    BY <1>3 DEF rangedVars
  <2> QED
    BY <1>1, <1>3, <2>1, SegmentsMove
       DEF Output!Next, Output!Begin, Output!Deliver, Output!End, Output!vars
<1>4. CASE pc = "idle" /\ RangedStep /\ UNCHANGED segVars
  <2>1. pc' = "idle"
    BY <1>4 DEF segVars
  <2> QED
    BY <1>2, <1>4, <2>1, RangedMoves
       DEF Output!Next, Output!Begin, Output!Deliver, Output!End, Output!vars
<1>5. CASE UNCHANGED vars
  <2>1. UNCHANGED <<at, pc, target>>
    BY <1>5 DEF vars, segVars, rangedVars, fileVars, diskVars
  <2> QED
    BY <2>1 DEF CallOf, Output!vars
<1> QED
  BY <1>3, <1>4, <1>5 DEF Next
-----------------------------------------------------------------------------
(* The theorems.                                                           *)

\* Every state of the two transfers is well typed, and the segments that are
\* queued, being fetched, fetched or waiting never exceed the slots, so neither
\* channel of the pool blocks: for any number of segments and workers, whatever
\* fails, and whether or not the kinds share a path.
THEOREM TransferInvHolds == Spec => []TransferInv
  BY SpecIInv, IInvTransfer, PTL

\* A body is only ever read into the staging file where the file ends, after
\* any retries, restarts, ignored ranges and rolled back chunks, if the server
\* answers a range with 200, 206 or an error.
THEOREM ContinuesHolds ==
    ASSUME ~OtherSuccess
    PROVE  Spec => []ContinuesWhereItStopped
<1>1. IInv => ContinuesWhereItStopped
  BY DEF IInv, ReadInv, ContinuesWhereItStopped
<1> QED
  BY <1>1, SpecIInv, PTL

\* What a segmented download would resume is the first segments of its list,
\* even after the machine died at any point, if a path is used by one kind of
\* transfer.
THEOREM SegmentsExactHolds ==
    ASSUME ~Mixing
    PROVE  Spec => []ResumedSegmentsExact
<1>1. IInv => ResumedSegmentsExact
  BY SegmentsExact
<1> QED
  BY <1>1, SpecIInv, PTL

\* What a plain or chunked download would resume is the beginning of the
\* version that its validator names, for any sequence of new versions under the
\* URL.  Four things are assumed: a path is used by one kind of transfer, only
\* the process dies, no version comes back once it was replaced, and a range is
\* answered by 200, 206 or an error.  Without the third a checkpoint that
\* survived a 200 would be continued with what was written over its data.
THEOREM RangeExactHolds ==
    ASSUME ~Mixing, "ranged" \notin PowerLoss, ~MayReturn, ~OtherSuccess
    PROVE  Spec => []ResumedRangeExact
<1>1. IInv => ResumedRangeExact
  BY RangeExact DEF Regular
<1> QED
  BY <1>1, SpecIInv, PTL

\* The transfers implement the safety part of AtomicOutput: the output changes
\* at most once per call, in one step, from what it was to a complete list of
\* segments or a complete version, under the same assumptions, if moreover no
\* object is replaced by a longer one (see the run ranged_rewind for what
\* happens otherwise).
THEOREM OutputSafe ==
    ASSUME ~Mixing, "ranged" \notin PowerLoss, ~MayReturn, ~OtherSuccess, Shrinks
    PROVE  Spec => Output!Init /\ [][Output!Next]_(Output!vars)
<1>1. Init => Output!Init
  BY DEF Init, FileInit, SegInit, RangedInit, CallOf, Output!Init
<1>2. IInv /\ [Next]_vars => [Output!Next]_(Output!vars)
  BY OutputStep DEF Regular
<1> QED
  BY <1>1, <1>2, SpecIInv, PTL DEF Spec
=============================================================================
