---------------------------- MODULE RegistryProofs ----------------------------
(***************************************************************************)
(* Proofs about the two registries of the core crate, progress and         *)
(* cancellation, for any constants.                                        *)
(*                                                                         *)
(* Progress: what makes ReplicaExact inductive is Follows.  What a client  *)
(* with a usable cursor shows and what the registry holds differ only      *)
(* where the registry has a newer revision or a newer tombstone to tell    *)
(* it.  Pruning keeps it because every cursor that a pruned tombstone was  *)
(* meant for becomes unusable in the same step.                            *)
(*                                                                         *)
(* Cancellation: an entry's counter is the number of its holders, an id    *)
(* that somebody holds has an entry, and all holders of an id share the    *)
(* flag of its current entry.                                              *)
(***************************************************************************)
EXTENDS Progress, Cancellation, FiniteSetTheorems, TLAPS

Views == {Bridge(x) : x \in Items}

(* Revisions, tombstones, cursors and the reset mark are all in the past.  *)
Past ==
    /\ \A i \in Ids : revision[i] <= seq /\ tombstone[i] <= seq
    /\ reset <= seq
    /\ \A c \in Clients : cursor[c] <= seq

(* Nothing has been shown before the first sequence number. *)
Fresh == seq = 0 => live = {} /\ \A c \in Clients : replica[c] = {}

Follows(c) ==
    /\ \A i \in live : revision[i] <= cursor[c] => Shown(i) \in replica[c]
    /\ \A p \in replica[c] :
         \/ p[1] \in live /\ p = Shown(p[1])
         \/ p[1] \in live /\ revision[p[1]] > cursor[c]
         \/ p[1] \notin live /\ tombstone[p[1]] > cursor[c]

FollowsAll == \A c \in Clients : ~StartOver(cursor[c]) => Follows(c)

ReplicaShape == replica \in [Clients -> SUBSET (Ids \X Views)]

IInv ==
    /\ TypeOK
    /\ DeltaConsistent
    /\ ReplicaShape
    /\ ~closed => Past /\ Fresh /\ FollowsAll /\ SnapshotFresh

-----------------------------------------------------------------------------
(* What start inserts is an item. *)
LEMMA BlankIsItem == Blank \in Items
  BY DEF Blank, Items, Statuses

(* The items and revisions after a step in which only id i may change and, *)
(* if what it shows changes, takes the next revision.  Start and update    *)
(* both have this shape.                                                   *)
LEMMA RevisedFollows ==
    ASSUME IInv, ~closed, NEW i \in Ids, seq' \in Int,
           seq' >= seq, UNCHANGED <<reset, clients>>,
           live' = live \cup {i},
           \A j \in Ids \ {i} : /\ item'[j] = item[j]
                                /\ revision'[j] = revision[j]
                                /\ tombstone'[j] = tombstone[j],
           \/ seq' = seq + 1 /\ revision'[i] = seq'
           \/ i \in live /\ revision'[i] = revision[i] /\ Bridge(item'[i]) = Bridge(item[i])
    PROVE  FollowsAll'
<1> SUFFICES ASSUME NEW c \in Clients, ~StartOver(cursor[c])
             PROVE  Follows(c)'
  BY DEF FollowsAll, StartOver, clients
<1>1. Follows(c)
  BY DEF IInv, FollowsAll
<1>2. cursor'[c] = cursor[c] /\ replica'[c] = replica[c] /\ cursor[c] <= seq
      /\ cursor[c] \in Int /\ seq \in Int
  BY DEF clients, IInv, Past, TypeOK
<1>3. \A j \in live \ {i} : Shown(j)' = Shown(j)
  BY DEF Shown, IInv, TypeOK
<1>4. CASE seq' = seq + 1 /\ revision'[i] = seq'
  <2>1. \A j \in live' : revision'[j] <= cursor[c] => Shown(j)' \in replica[c]
    BY <1>1, <1>2, <1>3, <1>4 DEF Follows, IInv, TypeOK
  <2>2. ASSUME NEW p \in replica[c]
        PROVE  \/ p[1] \in live' /\ p = Shown(p[1])'
               \/ p[1] \in live' /\ revision'[p[1]] > cursor[c]
               \/ p[1] \notin live' /\ tombstone'[p[1]] > cursor[c]
    <3>1. p[1] \in Ids
      BY DEF IInv, ReplicaShape
    <3>2. CASE p[1] = i
      BY <3>2, <1>2, <1>4
    <3>3. CASE p[1] # i
      BY <3>1, <3>3, <1>1, <1>3 DEF Follows
    <3> QED
      BY <3>2, <3>3
  <2> QED
    BY <2>1, <2>2, <1>2 DEF Follows
<1>5. CASE i \in live /\ revision'[i] = revision[i] /\ Bridge(item'[i]) = Bridge(item[i])
  <2>1. \A j \in live : Shown(j)' = Shown(j) /\ revision'[j] = revision[j]
    BY <1>3, <1>5 DEF Shown, IInv, TypeOK
  <2>2. live' = live
    BY <1>5
  <2>3. \A j \in live : revision'[j] <= cursor[c] => Shown(j)' \in replica[c]
    BY <2>1, <1>1 DEF Follows
  <2>4. ASSUME NEW p \in replica[c]
        PROVE  \/ p[1] \in live /\ p = Shown(p[1])'
               \/ p[1] \in live /\ revision'[p[1]] > cursor[c]
               \/ p[1] \notin live /\ tombstone'[p[1]] > cursor[c]
    <3>1. p[1] \in Ids
      BY DEF IInv, ReplicaShape
    <3> QED
      BY <3>1, <2>1, <1>1, <1>5 DEF Follows
  <2> QED
    BY <2>2, <2>3, <2>4, <1>2 DEF Follows
<1> QED
  BY <1>4, <1>5

(* start *)
LEMMA StartPreserves ==
    ASSUME IInv, NEW i \in Ids, Start(i)
    PROVE  IInv'
<1> USE DEF IInv
<1>1. TypeOK'
  BY BlankIsItem, LimitAssumption DEF TypeOK, Start, Advance, clients
<1>2. DeltaConsistent'
  BY DEF TypeOK, Start, DeltaConsistent, Tombstones
<1>3. ReplicaShape'
  BY DEF Start, clients, ReplicaShape
<1>4. Past'
  BY DEF TypeOK, Past, Start, Advance, clients
<1>5. Fresh'
  BY DEF TypeOK, Start, Advance, Fresh
<1>6. FollowsAll'
  <2>1. seq' = seq + 1 /\ seq \in Int /\ revision'[i] = seq' /\ live' = live \cup {i}
    BY DEF TypeOK, Start, Advance
  <2>2. \A j \in Ids \ {i} : /\ item'[j] = item[j]
                              /\ revision'[j] = revision[j]
                              /\ tombstone'[j] = tombstone[j]
    BY DEF TypeOK, Start
  <2>3. ~closed /\ UNCHANGED <<reset, clients>>
    BY DEF Start
  <2> QED
    BY <2>1, <2>2, <2>3, RevisedFollows
<1>7. SnapshotFresh'
  BY DEF Start, Advance, SnapshotFresh
<1> QED
  BY <1>1, <1>2, <1>3, <1>4, <1>5, <1>6, <1>7

(* update, whatever the item becomes *)
LEMMA UpdatePreserves ==
    ASSUME IInv, NEW i \in Ids, NEW new \in Items, Update(i, new)
    PROVE  IInv'
<1> USE DEF IInv
<1>1. TypeOK'
  <2>1. CASE Bridge(new) # Bridge(item[i])
    BY <2>1, LimitAssumption DEF TypeOK, Update, Advance, clients
  <2>2. CASE Bridge(new) = Bridge(item[i])
    BY <2>2 DEF TypeOK, Update, clients
  <2> QED
    BY <2>1, <2>2
<1>2. DeltaConsistent'
  BY DEF Update, DeltaConsistent, Tombstones
<1>3. ReplicaShape'
  BY DEF Update, clients, ReplicaShape
<1>4. Past'
  BY DEF TypeOK, Past, Update, Advance, clients
<1>5. Fresh'
  BY DEF TypeOK, Update, Advance, Fresh, clients
<1>6. item'[i] = new /\ \A j \in Ids \ {i} : item'[j] = item[j]
  BY DEF TypeOK, Update
<1>7. FollowsAll'
  <2>1. CASE Bridge(new) # Bridge(item[i])
    BY <2>1, <1>6, RevisedFollows DEF TypeOK, Update, Advance
  <2>2. CASE Bridge(new) = Bridge(item[i])
    BY <2>2, <1>6, RevisedFollows DEF TypeOK, Update
  <2> QED
    BY <2>1, <2>2
<1>8. SnapshotFresh'
  <2>1. CASE Bridge(new) # Bridge(item[i])
    BY <2>1 DEF Update, Advance, SnapshotFresh
  <2>2. CASE Bridge(new) = Bridge(item[i])
    <3>1. \A j \in live : Shown(j)' = Shown(j)
      BY <2>2, <1>6 DEF Shown, TypeOK
    <3>2. Picture' = Picture
      BY <3>1 DEF Picture, Update
    <3> QED
      BY <2>2, <3>2 DEF Update, SnapshotFresh
  <2> QED
    BY <2>1, <2>2
<1> QED
  BY <1>1, <1>2, <1>3, <1>4, <1>5, <1>7, <1>8

-----------------------------------------------------------------------------
(* remove of a live item: what the client still shows of it gets a newer   *)
(* tombstone, and a cursor that survives the new reset mark is at or above *)
(* the cutoff, so no tombstone it needs was pruned.                        *)
LEMMA RemoveLivePreserves ==
    ASSUME IInv, NEW i \in Ids, ~closed, RemoveLive(i),
           UNCHANGED <<cached, closed, clients>>
    PROVE  IInv'
<1> USE DEF IInv
<1> DEFINE stones == [tombstone EXCEPT ![i] = seq + 1]
           buried == {j \in Ids : stones[j] > 0}
<1>1. PICK cutoff \in 0..MaxSeq :
        /\ cutoff <= seq'
        /\ tombstone' = Pruned(stones, cutoff)
        /\ cutoff = 0 \/ cutoff <= reset'
        /\ reset <= reset' /\ reset' <= seq'
        /\ reset' \in 0..MaxSeq
  <2>1. \A j \in Ids : stones[j] \in 0..MaxSeq /\ stones[j] <= seq'
    BY LimitAssumption DEF TypeOK, RemoveLive, Advance, Past
  <2>2. CASE Cardinality(buried) > TombstoneLimit
    <3>1. PICK cutoff \in {stones[j] : j \in buried} :
            /\ tombstone' = Pruned(stones, cutoff)
            /\ reset' = IF cutoff > reset THEN cutoff ELSE reset
      BY <2>2 DEF RemoveLive
    <3>2. cutoff \in 0..MaxSeq /\ cutoff <= seq'
      BY <2>1, <3>1
    <3>3. seq' \in Int /\ seq \in Int /\ seq < seq' /\ reset \in 0..MaxSeq /\ reset <= seq
      BY DEF TypeOK, RemoveLive, Advance, Past
    <3>4. reset <= reset' /\ reset' <= seq' /\ cutoff <= reset' /\ reset' \in 0..MaxSeq
      BY <3>1, <3>2, <3>3
    <3> QED
      BY <3>1, <3>2, <3>4
  <2>3. CASE ~(Cardinality(buried) > TombstoneLimit)
    <3>1. tombstone' = stones /\ reset' = reset
      BY <2>3 DEF RemoveLive
    <3>2. stones \in [Ids -> 0..MaxSeq]
      BY <2>1 DEF TypeOK
    <3>3. \A j \in Ids : stones[j] = IF stones[j] > 0 THEN stones[j] ELSE 0
      BY <2>1
    <3>4. \A f \in [Ids -> 0..MaxSeq] :
            (\A j \in Ids : f[j] = IF f[j] > 0 THEN f[j] ELSE 0) => f = Pruned(f, 0)
      BY DEF Pruned
    <3>5. tombstone' = Pruned(stones, 0)
      BY <3>1, <3>2, <3>3, <3>4
    <3>6. reset <= seq' /\ 0 <= seq' /\ 0 \in 0..MaxSeq /\ reset \in 0..MaxSeq
      BY LimitAssumption DEF TypeOK, RemoveLive, Advance, Past
    <3> HIDE DEF stones
    <3> QED
      BY <3>1, <3>5, <3>6
  <2> QED
    BY <2>2, <2>3
<1>2. seq' = seq + 1 /\ seq' \in 0..MaxSeq /\ seq \in 0..MaxSeq /\ dirty' = TRUE
  BY LimitAssumption DEF TypeOK, RemoveLive, Advance
<1>3. /\ stones \in [Ids -> 0..MaxSeq]
      /\ stones[i] = seq + 1
      /\ \A j \in Ids \ {i} : stones[j] = tombstone[j]
      /\ \A j \in Ids : stones[j] <= seq'
  BY <1>2 DEF TypeOK, Past
<1> HIDE DEF stones
<1>4. \A j \in Ids : /\ tombstone'[j] = IF stones[j] > cutoff THEN stones[j] ELSE 0
                     /\ tombstone'[j] \in 0..MaxSeq
                     /\ tombstone'[j] <= seq'
  <2>1. \A j \in Ids : tombstone'[j] = IF stones[j] > cutoff THEN stones[j] ELSE 0
    BY <1>1 DEF Pruned
  <2>2. ASSUME NEW j \in Ids
        PROVE  tombstone'[j] \in 0..MaxSeq /\ tombstone'[j] <= seq'
    <3>1. stones[j] \in 0..MaxSeq /\ stones[j] <= seq' /\ 0 <= seq' /\ 0 \in 0..MaxSeq
      BY <1>2, <1>3, LimitAssumption
    <3> QED
      BY <2>1, <3>1
  <2> QED
    BY <2>1, <2>2
<1>5. /\ live' = live \ {i} /\ i \in live
      /\ item' = [item EXCEPT ![i] = Blank]
      /\ revision' = [revision EXCEPT ![i] = 0]
  BY DEF RemoveLive
<1>6. TypeOK'
  <2>1. tombstone' \in [Ids -> 0..MaxSeq]
    BY <1>1, <1>4 DEF Pruned
  <2>2. item' \in [Ids -> Items] /\ revision' \in [Ids -> 0..MaxSeq]
    BY <1>5, BlankIsItem, LimitAssumption DEF TypeOK
  <2> QED
    BY <2>1, <2>2, <1>1, <1>2, <1>5 DEF TypeOK, clients
<1>7. DeltaConsistent'
  <2> SUFFICES ASSUME NEW j \in live' PROVE ~(tombstone'[j] > 0)
    BY DEF DeltaConsistent, Tombstones
  <2>1. j \in Ids /\ j # i /\ j \in live
    BY <1>5 DEF TypeOK
  <2>2. stones[j] = tombstone[j] /\ ~(tombstone[j] > 0)
    BY <2>1, <1>3 DEF DeltaConsistent, Tombstones
  <2> QED
    BY <2>1, <2>2, <1>4
<1>8. ReplicaShape'
  BY DEF clients, ReplicaShape
<1>9. Past'
  <2>1. \A j \in Ids : revision'[j] <= seq'
    BY <1>2, <1>5 DEF TypeOK, Past
  <2>2. \A c \in Clients : cursor'[c] <= seq'
    BY <1>2 DEF TypeOK, Past, clients
  <2> QED
    BY <2>1, <2>2, <1>1, <1>4 DEF Past
<1>10. Fresh'
  BY <1>2 DEF Fresh
<1>11. FollowsAll'
  <2> SUFFICES ASSUME NEW c \in Clients, ~StartOver(cursor[c])'
               PROVE  Follows(c)'
    BY DEF FollowsAll
  <2>1. /\ cursor'[c] = cursor[c] /\ replica'[c] = replica[c]
        /\ cursor[c] \in 0..MaxSeq /\ cursor[c] <= seq /\ cursor[c] > 0
        /\ cursor[c] >= reset'
    BY <1>1 DEF clients, TypeOK, Past, StartOver
  <2>2. Follows(c)
    BY <2>1, <1>1 DEF FollowsAll, StartOver, TypeOK
  <2>3. cutoff <= cursor[c]
    BY <2>1, <1>1
  <2>4. \A j \in live' : j # i /\ j \in live /\ Shown(j)' = Shown(j) /\ revision'[j] = revision[j]
    BY <1>5 DEF Shown, TypeOK
  <2>5. \A j \in live' : revision'[j] <= cursor[c] => Shown(j)' \in replica[c]
    BY <2>2, <2>4 DEF Follows
  <2>6. ASSUME NEW p \in replica[c]
        PROVE  \/ p[1] \in live' /\ p = Shown(p[1])'
               \/ p[1] \in live' /\ revision'[p[1]] > cursor[c]
               \/ p[1] \notin live' /\ tombstone'[p[1]] > cursor[c]
    <3>1. p[1] \in Ids
      BY DEF ReplicaShape
    <3>2. CASE p[1] = i
      <4>1. stones[i] > cutoff /\ stones[i] > cursor[c]
        BY <1>2, <1>3, <2>1, <2>3
      <4> QED
        BY <3>2, <4>1, <1>4, <1>5
    <3>3. CASE p[1] # i /\ p[1] \in live
      BY <3>1, <3>3, <2>2, <2>4, <1>5 DEF Follows
    <3>4. CASE p[1] # i /\ p[1] \notin live
      <4>1. stones[p[1]] > cursor[c]
        BY <3>1, <3>4, <2>2, <1>3 DEF Follows
      <4>2. stones[p[1]] > cutoff
        BY <4>1, <3>1, <1>3, <2>1, <2>3
      <4> QED
        BY <3>1, <3>4, <4>1, <4>2, <1>4, <1>5
    <3> QED
      BY <3>2, <3>3, <3>4
  <2> QED
    BY <2>1, <2>5, <2>6 DEF Follows
<1>12. SnapshotFresh'
  BY <1>2 DEF SnapshotFresh
<1> QED
  BY <1>6, <1>7, <1>8, <1>9, <1>10, <1>11, <1>12

(* A step that leaves the items, the tombstones and the clients alone. *)
LEMMA UnchangedFollows ==
    ASSUME IInv, ~closed, ~closed',
           UNCHANGED <<live, item, revision, tombstone, seq, reset, clients>>
    PROVE  /\ Past' /\ Fresh' /\ FollowsAll' /\ DeltaConsistent' /\ ReplicaShape'
           /\ Picture' = Picture
<1>1. Past' /\ Fresh' /\ DeltaConsistent' /\ ReplicaShape'
  BY DEF IInv, Past, Fresh, DeltaConsistent, Tombstones, ReplicaShape, clients
<1>2. FollowsAll' /\ Picture' = Picture
  BY DEF IInv, FollowsAll, Follows, StartOver, Shown, Picture, clients
<1> QED
  BY <1>1, <1>2

(* remove, of a live or of an unknown id *)
LEMMA RemovePreserves ==
    ASSUME IInv, NEW i \in Ids, Remove(i)
    PROVE  IInv'
<1>1. CASE RemoveLive(i)
  BY <1>1, RemoveLivePreserves DEF Remove
<1>2. CASE RemoveUnknown(i)
  <2>1. ~closed /\ ~closed' /\ closed' = closed /\ dirty' = TRUE
        /\ UNCHANGED <<live, item, revision, tombstone, seq, reset, clients>>
    BY <1>2 DEF Remove, RemoveUnknown
  <2>2. TypeOK'
    BY <2>1 DEF IInv, TypeOK, clients
  <2>3. SnapshotFresh'
    BY <2>1 DEF SnapshotFresh
  <2> QED
    BY <2>1, <2>2, <2>3, UnchangedFollows DEF IInv
<1> QED
  BY <1>1, <1>2 DEF Remove

(* snapshot *)
LEMMA SnapshotPreserves ==
    ASSUME IInv, Snapshot
    PROVE  IInv'
<1>1. ~closed /\ ~closed'
      /\ UNCHANGED <<live, item, revision, tombstone, seq, reset, clients>>
  BY DEF Snapshot
<1>2. TypeOK'
  BY <1>1 DEF IInv, TypeOK, clients, Snapshot
<1>3. SnapshotFresh'
  BY <1>1, UnchangedFollows DEF SnapshotFresh, Snapshot
<1> QED
  BY <1>1, <1>2, <1>3, UnchangedFollows DEF IInv

(* shutdown *)
LEMMA ShutdownPreserves ==
    ASSUME IInv, Shutdown
    PROVE  IInv'
<1>1. TypeOK'
  BY BlankIsItem, LimitAssumption DEF IInv, TypeOK, Shutdown, clients
<1>2. DeltaConsistent' /\ ReplicaShape'
  BY DEF IInv, DeltaConsistent, ReplicaShape, Shutdown, clients
<1> QED
  BY <1>1, <1>2 DEF IInv, Shutdown

(* wait_delta: the client ends with exactly the registry's picture. *)
LEMMA ApplyDeltaPreserves ==
    ASSUME IInv, NEW c \in Clients, ApplyDelta(c)
    PROVE  IInv' /\ replica'[c] = Picture
<1> DEFINE since == cursor[c]
           new == DeltaItems(since)
           kept == {p \in replica[c] : /\ ~StartOver(since)
                                       /\ p[1] \notin new \cup DeltaRemoved(since)}
<1>1. /\ ~closed /\ closed' = closed
      /\ UNCHANGED <<live, item, revision, tombstone, seq, reset, dirty, cached>>
      /\ replica' = [replica EXCEPT ![c] = kept \cup {Shown(i) : i \in new}]
      /\ cursor' = [cursor EXCEPT ![c] = seq]
  BY DEF ApplyDelta
<1>2. live \subseteq Ids /\ \A i \in live : revision[i] \in Int /\ Shown(i) \in Ids \X Views
  BY DEF IInv, TypeOK, Shown, Views
<1>3. replica'[c] = kept \cup {Shown(i) : i \in new} /\ cursor'[c] = seq
  BY <1>1 DEF IInv, TypeOK, ReplicaShape
<1>4. replica'[c] = Picture
  <2>1. CASE StartOver(since)
    <3>1. new = live /\ kept = {}
      BY <2>1 DEF DeltaItems
    <3> QED
      BY <3>1, <1>3 DEF Picture
  <2>2. CASE ~StartOver(since)
    <3>1. Follows(c)
      BY <2>2, <1>1 DEF IInv, FollowsAll
    <3>2. since \in Int /\ since > 0
      BY <2>2 DEF IInv, TypeOK, StartOver
    <3>3. ASSUME NEW p \in kept PROVE p \in Picture
      <4>1. p \in replica[c] /\ p[1] \in Ids /\ p[1] \notin new /\ p[1] \notin DeltaRemoved(since)
        BY <3>3 DEF IInv, ReplicaShape
      <4>2. p[1] \notin live => ~(tombstone[p[1]] > since)
        BY <4>1, <2>2, <3>2 DEF DeltaRemoved, Tombstones, IInv, TypeOK
      <4>3. p[1] \in live => ~(revision[p[1]] > since)
        BY <4>1 DEF DeltaItems
      <4>4. p[1] \in live /\ p = Shown(p[1])
        BY <3>1, <4>1, <4>2, <4>3 DEF Follows
      <4> QED
        BY <4>4 DEF Picture
    <3>4. ASSUME NEW i \in live PROVE Shown(i) \in kept \cup {Shown(j) : j \in new}
      <4>1. CASE i \in new
        BY <4>1
      <4>2. CASE i \notin new
        <5>1. revision[i] <= since
          BY <4>2, <1>2, <3>2 DEF DeltaItems
        <5>2. Shown(i) \in replica[c]
          BY <5>1, <3>1 DEF Follows
        <5>3. i \notin DeltaRemoved(since)
          BY DEF DeltaRemoved, IInv, DeltaConsistent
        <5>4. Shown(i)[1] = i
          BY DEF Shown
        <5> QED
          BY <5>2, <5>3, <5>4, <4>2, <2>2
      <4> QED
        BY <4>1, <4>2
    <3>5. \A i \in new : i \in live
      BY DEF DeltaItems
    <3> HIDE DEF kept, new
    <3> QED
      BY <3>3, <3>4, <3>5, <1>3 DEF Picture
  <2> QED
    BY <2>1, <2>2
<1>5. Picture \subseteq Ids \X Views
  BY <1>2 DEF Picture
<1> HIDE DEF kept, new
<1>6. \A d \in Clients \ {c} : replica'[d] = replica[d] /\ cursor'[d] = cursor[d]
  BY <1>1 DEF IInv, TypeOK, ReplicaShape
<1>7. TypeOK'
  BY <1>1 DEF IInv, TypeOK
<1>8. ReplicaShape'
  <2>1. replica' = [replica EXCEPT ![c] = Picture]
    BY <1>1, <1>3, <1>4 DEF IInv, ReplicaShape
  <2> QED
    BY <2>1, <1>5 DEF IInv, ReplicaShape
<1>9. Past' /\ DeltaConsistent' /\ SnapshotFresh'
  <2>1. Picture' = Picture
    BY <1>1 DEF Picture, Shown
  <2>2. SnapshotFresh' /\ DeltaConsistent'
    BY <2>1, <1>1 DEF IInv, SnapshotFresh, DeltaConsistent, Tombstones
  <2>3. \A d \in Clients : cursor'[d] <= seq
    BY <1>1, <1>3, <1>6 DEF IInv, Past, TypeOK
  <2> QED
    BY <2>2, <2>3, <1>1 DEF IInv, Past
<1>10. Fresh'
  <2>1. seq > 0
    BY DEF ApplyDelta, IInv, TypeOK
  <2> QED
    BY <2>1, <1>1 DEF Fresh
<1>11. FollowsAll'
  <2> SUFFICES ASSUME NEW d \in Clients, ~StartOver(cursor[d])' PROVE Follows(d)'
    BY DEF FollowsAll
  <2>1. \A i \in live : Shown(i)' = Shown(i)
    BY <1>1 DEF Shown
  <2>2. CASE d = c
    <3>1. \A i \in live : Shown(i) \in replica'[c]
      BY <1>4 DEF Picture
    <3>2. \A p \in replica'[c] : p[1] \in live /\ p = Shown(p[1])
      BY <1>4 DEF Picture, Shown
    <3> QED
      BY <2>1, <2>2, <3>1, <3>2, <1>1 DEF Follows
  <2>3. CASE d # c
    <3>1. Follows(d)
      BY <2>3, <1>1, <1>6 DEF IInv, FollowsAll, StartOver
    <3> QED
      BY <3>1, <2>1, <2>3, <1>1, <1>6 DEF Follows
  <2> QED
    BY <2>2, <2>3
<1> QED
  BY <1>4, <1>7, <1>8, <1>9, <1>10, <1>11 DEF IInv

(* A client that reconnects has no usable cursor until its next answer. *)
LEMMA ReconnectPreserves ==
    ASSUME IInv, NEW c \in Clients, Reconnect(c)
    PROVE  IInv'
<1>1. /\ closed' = closed
      /\ UNCHANGED <<live, item, revision, tombstone, seq, reset, dirty, cached, replica>>
      /\ cursor' = [cursor EXCEPT ![c] = 0]
  BY DEF Reconnect
<1>2. TypeOK'
  BY <1>1, LimitAssumption DEF IInv, TypeOK
<1>3. DeltaConsistent' /\ ReplicaShape'
  BY <1>1 DEF IInv, DeltaConsistent, Tombstones, ReplicaShape
<1>4. ASSUME ~closed PROVE Past' /\ Fresh' /\ SnapshotFresh'
  <2>1. Past'
    BY <1>1, <1>4 DEF IInv, Past, TypeOK
  <2>2. Picture' = Picture
    BY <1>1 DEF Picture, Shown
  <2> QED
    BY <2>1, <2>2, <1>1, <1>4 DEF IInv, Fresh, SnapshotFresh
<1>5. ASSUME ~closed PROVE FollowsAll'
  <2> SUFFICES ASSUME NEW d \in Clients, ~StartOver(cursor[d])' PROVE Follows(d)'
    BY DEF FollowsAll
  <2>1. d # c /\ cursor'[d] = cursor[d]
    BY <1>1 DEF IInv, TypeOK, StartOver
  <2>2. Follows(d)
    BY <2>1, <1>1, <1>5 DEF IInv, FollowsAll, StartOver
  <2>3. \A i \in live : Shown(i)' = Shown(i)
    BY <1>1 DEF Shown
  <2> QED
    BY <2>1, <2>2, <2>3, <1>1 DEF Follows
<1> QED
  BY <1>1, <1>2, <1>3, <1>4, <1>5 DEF IInv

-----------------------------------------------------------------------------
(* Every update of an item yields an item. *)
LEMMA ReceivedIsItem ==
    ASSUME NEW x \in Items, NEW received \in Int
    PROVE  AsReceived(x, received) \in Items
<1> DEFINE progress == IF x.total > 0 THEN (received * Full) \div x.total ELSE x.progress
           y == [x EXCEPT !.received = received, !.progress = progress]
<1>1. received * Full \in Int
  BY UnitAssumption
<1>2. \A n \in Int : x.total > 0 => n \div x.total \in Int
  BY DEF Items
<1>3. progress \in Int
  BY <1>1, <1>2 DEF Items
<1> HIDE DEF progress
<1>4. y \in Items /\ MarkDownloading(y) \in Items
  BY <1>3 DEF Items, Statuses, MarkDownloading, Marked
<1>5. AsReceived(x, received) = IF received > 0 THEN MarkDownloading(y) ELSE y
  BY DEF AsReceived, progress
<1> QED
  BY <1>4, <1>5

(* The other updates. *)
LEMMA UpdatesAreItems ==
    ASSUME NEW x \in Items
    PROVE  /\ \A stage \in BOOLEAN : AsPreparing(stage) \in Items
           /\ MarkDownloading(x) \in Items
           /\ AsFinalizing(x) \in Items
           /\ AsCompleted(x) \in Items
           /\ \A r \in Reports : AsReport(x, r) \in Items
           /\ \A r \in Receipts : [x EXCEPT !.speed = r.speed] \in Items
<1>1. \A y \in Items, s \in Statuses, stage \in BOOLEAN, downloading \in BOOLEAN :
        Marked(y, s, stage, downloading) \in Items
  BY DEF Items, Marked
<1>2. \A y \in Items : MarkDownloading(y) \in Items
  BY <1>1 DEF Statuses, MarkDownloading
<1>3. \A stage \in BOOLEAN : AsPreparing(stage) \in Items
  BY <1>1, BlankIsItem DEF Statuses, AsPreparing
<1>4. AsFinalizing(x) \in Items /\ AsCompleted(x) \in Items
  <2>1. /\ Marked(x, "finalizing", FALSE, x.downloading) \in Items
        /\ Marked(x, "completed", FALSE, FALSE) \in Items
    BY <1>1 DEF Statuses, Items
  <2>2. \A y \in Items : [y EXCEPT !.progress = Full] \in Items
    BY UnitAssumption DEF Items
  <2> QED
    BY <2>1, <2>2 DEF AsFinalizing, AsCompleted
<1>5. \A r \in Receipts : [x EXCEPT !.speed = r.speed] \in Items
  BY InputAssumption DEF Items
<1>6. ASSUME NEW r \in Reports PROVE AsReport(x, r) \in Items
  <2> DEFINE hasBytes == r.received > 0 \/ r.total > 0
             done == r.progress >= Full
             progress == IF x.status # "preparing" \/ hasBytes \/ done
                         THEN r.progress ELSE 0
             received == IF r.received > 0 THEN r.received ELSE x.received
             total == IF r.total > 0 THEN r.total ELSE x.total
             y == [x EXCEPT !.progress = progress, !.received = received,
                            !.total = total]
  <2>1. progress \in Int /\ received \in Int /\ total \in Int
    BY InputAssumption DEF Items
  <2>2. AsReport(x, r) = IF hasBytes \/ done \/ y.status = "downloading"
                         THEN MarkDownloading(y) ELSE y
    BY DEF AsReport
  <2> HIDE DEF progress, received, total
  <2>3. y \in Items
    BY <2>1 DEF Items
  <2> HIDE DEF y
  <2> QED
    BY <2>2, <2>3, <1>2
<1> QED
  BY <1>1, <1>2, <1>3, <1>4, <1>5, <1>6

(* Every step of the registry or of a client preserves the invariant. *)
LEMMA NextPreserves ==
    ASSUME IInv, [Next]_vars
    PROVE  IInv'
<1>1. ASSUME NEW i \in Ids, Start(i) PROVE IInv'
  BY <1>1, StartPreserves
<1>2. \A i \in Ids : item[i] \in Items
  BY DEF IInv, TypeOK
<1>3. ASSUME NEW i \in Ids,
             Preparing(i) \/ Downloading(i) \/ Finalizing(i) \/ Complete(i)
      PROVE  IInv'
  BY <1>2, <1>3, UpdatesAreItems, UpdatePreserves
     DEF Preparing, Downloading, Finalizing, Complete
<1>4. ASSUME NEW i \in Ids, SetReceived(i) PROVE IInv'
  BY <1>2, <1>4, InputAssumption, ReceivedIsItem, UpdatePreserves DEF SetReceived
<1>5. ASSUME NEW i \in Ids, SetReceivedWithSpeed(i) PROVE IInv'
  <2>1. PICK r \in Receipts :
          Update(i, AsReceived([item[i] EXCEPT !.speed = r.speed], r.received))
    BY <1>5 DEF SetReceivedWithSpeed
  <2>2. r.received \in Int
    BY InputAssumption
  <2>3. [item[i] EXCEPT !.speed = r.speed] \in Items
    BY <1>2, UpdatesAreItems
  <2>4. AsReceived([item[i] EXCEPT !.speed = r.speed], r.received) \in Items
    BY <2>2, <2>3, ReceivedIsItem
  <2> QED
    BY <2>1, <2>4, UpdatePreserves
<1>6. ASSUME NEW i \in Ids, SetProgress(i) PROVE IInv'
  BY <1>2, <1>6, UpdatesAreItems, UpdatePreserves DEF SetProgress
<1>7. ASSUME NEW i \in Ids, Remove(i) PROVE IInv'
  BY <1>7, RemovePreserves
<1>8. CASE Snapshot
  BY <1>8, SnapshotPreserves
<1>9. CASE Shutdown
  BY <1>9, ShutdownPreserves
<1>10. ASSUME NEW c \in Clients, ApplyDelta(c) PROVE IInv'
  BY <1>10, ApplyDeltaPreserves
<1>11. ASSUME NEW c \in Clients, Reconnect(c) PROVE IInv'
  BY <1>11, ReconnectPreserves
<1>12. CASE UNCHANGED vars
  <2>1. TypeOK' /\ DeltaConsistent' /\ ReplicaShape' /\ closed' = closed
    BY <1>12 DEF IInv, TypeOK, DeltaConsistent, Tombstones, ReplicaShape, vars
  <2>2. ASSUME ~closed PROVE Past' /\ Fresh' /\ FollowsAll' /\ SnapshotFresh'
    BY <1>12, <2>2, UnchangedFollows DEF IInv, SnapshotFresh, vars, clients
  <2> QED
    BY <2>1, <2>2 DEF IInv
<1> QED
  BY <1>1, <1>3, <1>4, <1>5, <1>6, <1>7, <1>8, <1>9, <1>10, <1>11, <1>12 DEF Next

(* The inductive invariant holds of every reachable state. *)
THEOREM Invariance == Spec => []IInv
<1>1. Init => IInv
  <2> SUFFICES ASSUME Init PROVE IInv
    OBVIOUS
  <2>1. TypeOK
    <3>1. 0 \in 0..MaxSeq
      BY LimitAssumption
    <3> QED
      BY <3>1, BlankIsItem DEF Init, TypeOK
  <2>2. DeltaConsistent /\ ReplicaShape
    BY DEF Init, DeltaConsistent, ReplicaShape
  <2>3. Past /\ Fresh /\ SnapshotFresh
    BY DEF Init, Past, Fresh, SnapshotFresh
  <2>4. FollowsAll
    BY DEF Init, FollowsAll, StartOver
  <2> QED
    BY <2>1, <2>2, <2>3, <2>4 DEF IInv
<1> QED
  BY <1>1, NextPreserves, PTL DEF Spec

(* Every sequence number, revision, tombstone and cursor stays in range. *)
THEOREM TypeCorrect == Spec => []TypeOK
  BY Invariance, PTL DEF IInv

(* A client that has caught up shows exactly the registry, for any number  *)
(* of ids and any tombstone limit: pruning never loses a removal.          *)
THEOREM ReplicaIsExact == Spec => []ReplicaExact
<1>1. IInv => ReplicaExact
  <2> SUFFICES ASSUME IInv, ~closed, NEW c \in Clients, cursor[c] = seq
               PROVE  replica[c] = Picture
    BY DEF ReplicaExact
  <2>1. CASE seq = 0
    BY <2>1 DEF IInv, Fresh, Picture
  <2>2. CASE seq # 0
    <3>1. Follows(c)
      BY <2>2 DEF IInv, FollowsAll, StartOver, Past, TypeOK
    <3>2. \A i \in live : Shown(i) \in replica[c]
      BY <3>1 DEF Follows, IInv, Past, TypeOK
    <3>3. ASSUME NEW p \in replica[c] PROVE p[1] \in live /\ p = Shown(p[1])
      <4>1. p[1] \in Ids
        BY DEF IInv, ReplicaShape
      <4>2. ~(revision[p[1]] > seq) /\ ~(tombstone[p[1]] > seq)
        BY <4>1 DEF IInv, Past, TypeOK
      <4> QED
        BY <3>1, <4>2 DEF Follows
    <3> QED
      BY <3>2, <3>3 DEF Picture
  <2> QED
    BY <2>1, <2>2
<1> QED
  BY <1>1, Invariance, PTL

(* The snapshot a poller reads is current although silent updates do not   *)
(* mark the cache.                                                         *)
THEOREM SnapshotIsFresh == Spec => []SnapshotFresh
<1>1. IInv => SnapshotFresh
  BY DEF IInv, SnapshotFresh
<1> QED
  BY <1>1, Invariance, PTL

(* A delta never contradicts itself. *)
THEOREM DeltasAreConsistent == Spec => []DeltaConsistent
  BY Invariance, PTL DEF IInv

-----------------------------------------------------------------------------
(* A set of ids inside one within the limit is within the limit. *)
LEMMA FewerIds ==
    ASSUME NEW S \in SUBSET Ids, NEW T \in SUBSET S, NEW n \in Nat, Cardinality(S) <= n
    PROVE  Cardinality(T) <= n
<1>1. IsFiniteSet(S) /\ IsFiniteSet(T)
  BY IdsFinite, FS_Subset
<1>2. Cardinality(T) <= Cardinality(S) /\ Cardinality(T) \in Nat /\ Cardinality(S) \in Nat
  BY <1>1, FS_Subset, FS_CardinalityType
<1> QED
  BY <1>2

(* A removal adds one tombstone; when that is one too many, the cutoff's   *)
(* own tombstone is among those that go.                                   *)
LEMMA RemoveLiveBounded ==
    ASSUME TypeOK, TombstonesBounded, NEW i \in Ids, RemoveLive(i)
    PROVE  TombstonesBounded'
<1> DEFINE stones == [tombstone EXCEPT ![i] = seq + 1]
           buried == {j \in Ids : stones[j] > 0}
<1>1. stones \in [Ids -> Int] /\ stones[i] = seq + 1 /\ seq + 1 > 0
      /\ \A j \in Ids \ {i} : stones[j] = tombstone[j]
  BY DEF TypeOK
<1>2. buried = Tombstones \cup {i} /\ buried \in SUBSET Ids
  BY <1>1 DEF Tombstones
<1>3. IsFiniteSet(Tombstones) /\ IsFiniteSet(buried)
  BY <1>2, IdsFinite, FS_Subset DEF Tombstones
<1>4. /\ Cardinality(buried) <= Cardinality(Tombstones) + 1
      /\ Cardinality(buried) \in Nat /\ Cardinality(Tombstones) \in Nat
  BY <1>2, <1>3, FS_AddElement, FS_CardinalityType
<1>5. CASE Cardinality(buried) > TombstoneLimit
  <2>1. PICK k \in buried : tombstone' = Pruned(stones, stones[k])
    BY <1>5 DEF RemoveLive
  <2>2. stones[k] > 0 /\ stones[k] \in Int /\ k \in Ids
    BY <1>1, <2>1
  <2> HIDE DEF stones
  <2>3. Tombstones' \in SUBSET (buried \ {k})
    BY <1>1, <2>1, <2>2 DEF Tombstones, Pruned
  <2>4. Cardinality(buried \ {k}) = Cardinality(buried) - 1
    BY <1>3, <2>1, FS_RemoveElement
  <2>5. Cardinality(buried \ {k}) <= TombstoneLimit
    BY <2>4, <1>4, LimitAssumption DEF TombstonesBounded
  <2> QED
    BY <2>3, <2>5, <1>2, FewerIds, LimitAssumption DEF TombstonesBounded
<1>6. CASE ~(Cardinality(buried) > TombstoneLimit)
  <2>1. Tombstones' = buried
    BY <1>6 DEF RemoveLive, Tombstones
  <2> HIDE DEF buried
  <2> QED
    BY <2>1, <1>4, <1>6, LimitAssumption DEF TombstonesBounded
<1> QED
  BY <1>5, <1>6

(* The tombstones never exceed their limit (512 in the code). *)
THEOREM TombstonesStayBounded == Spec => []TombstonesBounded
<1>1. Init => TombstonesBounded
  <2> SUFFICES ASSUME Init PROVE TombstonesBounded
    OBVIOUS
  <2>1. Tombstones = {}
    BY DEF Init, Tombstones
  <2> QED
    BY <2>1, FS_EmptySet, LimitAssumption DEF TombstonesBounded
<1>2. ASSUME TypeOK, TombstonesBounded, [Next]_vars PROVE TombstonesBounded'
  <2>1. ASSUME NEW i \in Ids, Remove(i), RemoveLive(i) PROVE TombstonesBounded'
    BY <1>2, <2>1, RemoveLiveBounded
  <2>2. ASSUME Tombstones' \in SUBSET Tombstones PROVE TombstonesBounded'
    BY <1>2, <2>2, FewerIds, LimitAssumption DEF TombstonesBounded, Tombstones
  <2>3. ASSUME NEW i \in Ids, Start(i) PROVE Tombstones' \in SUBSET Tombstones
    BY <1>2, <2>3 DEF TypeOK, Start, Tombstones
  <2>4. CASE Shutdown
    BY <2>2, <2>4 DEF Shutdown, Tombstones
  <2>5. ASSUME UNCHANGED tombstone PROVE Tombstones' \in SUBSET Tombstones
    BY <2>5 DEF Tombstones
  <2> QED
    BY <1>2, <2>1, <2>2, <2>3, <2>4, <2>5 DEF Next, vars, Remove, RemoveUnknown,
       Preparing, Downloading, SetReceived, SetReceivedWithSpeed, SetProgress,
       Finalizing, Complete, Update, Snapshot, ApplyDelta, Reconnect
<1> QED
  BY <1>1, <1>2, TypeCorrect, PTL DEF Spec
-----------------------------------------------------------------------------
(***************************************************************************)
(* The cancellation registry, for any request ids, leases and bounds.  The *)
(* type invariant alone is not inductive: that a release finds a positive  *)
(* counter needs CountsHolders, and the two views of a cancellation agree  *)
(* because a held lease shares the flag of the current entry of its id,    *)
(* SharesFlag.                                                             *)
(***************************************************************************)

CountsHolders == ~shut => \A i \in Requests : references[i] = Cardinality(Holders(i))
HeldHasEntry == ~shut => \A i \in Requests : Holders(i) # {} => i \in entries
SharesFlag == ~shut => \A i \in Requests : \A l \in Holders(i) : flag[l] = generation[i]
ClosedIsEmpty == shut => entries = {}

CancelIInv ==
    /\ CancelTypeOK
    /\ CountsHolders
    /\ HeldHasEntry
    /\ SharesFlag
    /\ ClosedIsEmpty
    /\ IdleIsSentinel

-----------------------------------------------------------------------------
(* A set of leases can be counted; it is empty exactly when the count is 0. *)
LEMMA LeaseSetCount ==
    ASSUME NEW S \in SUBSET Leases
    PROVE  /\ IsFiniteSet(S)
           /\ Cardinality(S) \in Nat
           /\ Cardinality(S) = 0 <=> S = {}
<1>1. IsFiniteSet(S)
  BY FS_Subset, LeasesFinite
<1> QED
  BY <1>1, FS_CardinalityType, FS_EmptySet

(* The holders of an id can be counted, before and after a step. *)
LEMMA HoldersCount ==
    ASSUME NEW i \in Requests
    PROVE  /\ IsFiniteSet(Holders(i))
           /\ Cardinality(Holders(i)) \in Nat
           /\ Cardinality(Holders(i)) = 0 <=> Holders(i) = {}
<1>1. Holders(i) \in SUBSET Leases
  BY DEF Holders
<1> QED
  BY <1>1, LeaseSetCount

(* A step that leaves the leases alone changes no set of holders. *)
LEMMA HoldersUnchanged ==
    ASSUME UNCHANGED leases
    PROVE  \A i \in Requests : Holders(i)' = Holders(i)
  BY DEF leases, Holders

(* A step that leaves the registry and the leases alone (the waits and the *)
(* notifications) preserves everything but the types it touches.           *)
LEMMA WaitsPreserve ==
    ASSUME CancelIInv, CancelTypeOK',
           UNCHANGED registry, UNCHANGED leases
    PROVE  CancelIInv'
<1>1. \A i \in Requests : Holders(i)' = Holders(i)
  BY HoldersUnchanged
<1>2. UNCHANGED <<shut, entries, generation, references, cancelled, flag>>
  BY DEF registry, leases
<1>3. CountsHolders' /\ HeldHasEntry' /\ SharesFlag'
  BY <1>1, <1>2 DEF CancelIInv, CountsHolders, HeldHasEntry, SharesFlag
<1>4. ClosedIsEmpty' /\ IdleIsSentinel'
  BY <1>2 DEF CancelIInv, ClosedIsEmpty, IdleIsSentinel,
     RegistryCancelled
<1> QED
  BY <1>3, <1>4 DEF CancelIInv

(* acquire creates the entry or shares it, and counts the new holder. *)
LEMMA AcquireTrackedPreserves ==
    ASSUME CancelIInv, NEW l \in Leases, NEW i \in Requests,
           AcquireTracked(l, i)
    PROVE  CancelIInv'
<1> USE DEF CancelIInv
<1>1. CancelTypeOK'
  BY BoundsAssumption DEF CancelTypeOK, AcquireTracked,
     OrDefault, waits
<1>2. Holders(i)' = Holders(i) \cup {l} /\ l \notin Holders(i)
  BY DEF CancelTypeOK, AcquireTracked, Holders
<1>3. \A j \in Requests \ {i} : Holders(j)' = Holders(j)
  BY DEF CancelTypeOK, AcquireTracked, Holders
<1>4. Cardinality(Holders(i)') = Cardinality(Holders(i)) + 1
  BY <1>2, HoldersCount, FS_AddElement
<1>5. CountsHolders'
  BY <1>3, <1>4 DEF CancelTypeOK, AcquireTracked, CountsHolders
<1>6. HeldHasEntry'
  BY <1>3 DEF AcquireTracked, OrDefault, HeldHasEntry
<1>7. SharesFlag'
  <2> SUFFICES ASSUME NEW j \in Requests, NEW m \in Holders(j)'
               PROVE  flag'[m] = generation'[j]
    BY DEF SharesFlag
  <2>1. CASE j # i
    BY <2>1, <1>3 DEF CancelTypeOK, AcquireTracked, OrDefault,
       SharesFlag, Holders
  <2>2. CASE j = i /\ m = l
    BY <2>2 DEF CancelTypeOK, AcquireTracked
  <2>3. CASE j = i /\ m # l
    <3>1. m \in Holders(i)
      BY <2>3, <1>2
    <3>2. i \in entries
      BY <3>1 DEF HeldHasEntry, AcquireTracked
    <3> QED
      BY <3>1, <3>2, <2>3 DEF CancelTypeOK, AcquireTracked,
         OrDefault, SharesFlag, Holders
  <2> QED
    BY <2>1, <2>2, <2>3
<1>8. ClosedIsEmpty'
  BY DEF AcquireTracked, ClosedIsEmpty
<1>9. IdleIsSentinel'
  <2> SUFFICES ASSUME NEW j \in entries', references'[j] = 0
               PROVE  RegistryCancelled(j)'
    BY DEF IdleIsSentinel
  <2>1. j # i
    BY DEF CancelTypeOK, AcquireTracked
  <2>2. j \in entries /\ references[j] = 0 /\ generation'[j] = generation[j]
    BY <2>1 DEF CancelTypeOK, AcquireTracked, OrDefault
  <2> QED
    BY <2>2 DEF IdleIsSentinel, RegistryCancelled, AcquireTracked
<1> QED
  BY <1>1, <1>5, <1>6, <1>7, <1>8, <1>9

(* An untracked lease is no holder of any id. *)
LEMMA AcquireUntrackedPreserves ==
    ASSUME CancelIInv, NEW l \in Leases,
           AcquireUntracked(l)
    PROVE  CancelIInv'
<1> USE DEF CancelIInv
<1>1. CancelTypeOK'
  BY DEF CancelTypeOK, AcquireUntracked, registry, waits
<1>2. \A i \in Requests : Holders(i)' = Holders(i)
  BY NoIdAssumption DEF CancelTypeOK, AcquireUntracked, Holders
<1>3. UNCHANGED <<shut, entries, generation, references, cancelled, flag>>
  BY DEF AcquireUntracked, registry
<1>4. CountsHolders' /\ HeldHasEntry' /\ SharesFlag'
  BY <1>2, <1>3 DEF CountsHolders, HeldHasEntry, SharesFlag
<1>5. ClosedIsEmpty' /\ IdleIsSentinel'
  BY <1>3 DEF ClosedIsEmpty, IdleIsSentinel, RegistryCancelled
<1> QED
  BY <1>1, <1>4, <1>5

(* cancel_many sets the flag of every selected entry: a lease that shares  *)
(* it keeps sharing it, an id without entry gets a cancelled sentinel.     *)
LEMMA CancelManyPreserves ==
    ASSUME CancelIInv, NEW S \in SUBSET Requests,
           CancelMany(S)
    PROVE  CancelIInv'
<1> USE DEF CancelIInv
<1>1. CancelTypeOK'
  <2>1. entries' \in SUBSET Requests /\ generation' \in [Requests -> 0..MaxGeneration]
    BY BoundsAssumption DEF CancelTypeOK, CancelMany, OrDefault
  <2>2. \A i \in S : <<i, generation'[i]>> \in Requests \X (0..MaxGeneration)
    BY <2>1
  <2>3. cancelled' \in SUBSET (Requests \X (0..MaxGeneration))
    BY <2>2 DEF CancelTypeOK, CancelMany
  <2>4. notifying' \in 0..MaxNotifiers
    BY BoundsAssumption DEF CancelTypeOK, CancelMany, OweNotify
  <2> QED
    BY <2>1, <2>3, <2>4 DEF CancelTypeOK, CancelMany, leases,
       waits
<1>2. \A i \in Requests : Holders(i)' = Holders(i)
  BY HoldersUnchanged DEF CancelMany
<1>3. CountsHolders' /\ HeldHasEntry' /\ ClosedIsEmpty'
  BY <1>2 DEF CancelMany, OrDefault, CountsHolders, HeldHasEntry,
     ClosedIsEmpty
<1>4. SharesFlag'
  <2> SUFFICES ASSUME NEW i \in Requests, NEW l \in Holders(i)
               PROVE  flag'[l] = generation'[i]
    BY <1>2 DEF SharesFlag
  <2>1. i \in entries
    BY DEF HeldHasEntry, CancelMany
  <2> QED
    BY <2>1 DEF CancelTypeOK, CancelMany, OrDefault, SharesFlag,
       leases
<1>5. IdleIsSentinel'
  <2> SUFFICES ASSUME NEW i \in entries', references'[i] = 0
               PROVE  RegistryCancelled(i)'
    BY DEF IdleIsSentinel
  <2>1. CASE i \in S
    BY <2>1 DEF CancelMany, RegistryCancelled
  <2>2. CASE i \notin S
    BY <2>2 DEF CancelTypeOK, CancelMany, OrDefault,
       IdleIsSentinel, RegistryCancelled
  <2> QED
    BY <2>1, <2>2
<1> QED
  BY <1>1, <1>3, <1>4, <1>5

(* cancel_active only sets flags. *)
LEMMA CancelActivePreserves ==
    ASSUME CancelIInv, CancelActive
    PROVE  CancelIInv'
<1> USE DEF CancelIInv
<1>1. CancelTypeOK'
  BY BoundsAssumption DEF CancelTypeOK, CancelActive,
     OweNotify, leases, waits
<1>2. \A i \in Requests : Holders(i)' = Holders(i)
  BY HoldersUnchanged DEF CancelActive
<1>3. CountsHolders' /\ HeldHasEntry' /\ ClosedIsEmpty'
  BY <1>2 DEF CancelActive, CountsHolders, HeldHasEntry, ClosedIsEmpty
<1>4. SharesFlag'
  BY <1>2 DEF CancelActive, SharesFlag, leases
<1>5. IdleIsSentinel'
  BY DEF CancelActive, IdleIsSentinel, RegistryCancelled
<1> QED
  BY <1>1, <1>3, <1>4, <1>5

(* reset_many_if_idle removes only entries nobody holds. *)
LEMMA ResetPreserves ==
    ASSUME CancelIInv, NEW S \in SUBSET Requests,
           ResetManyIfIdle(S)
    PROVE  CancelIInv'
<1> USE DEF CancelIInv
<1>1. CancelTypeOK'
  BY DEF CancelTypeOK, ResetManyIfIdle, leases, waits
<1>2. \A i \in Requests : Holders(i)' = Holders(i)
  BY HoldersUnchanged DEF ResetManyIfIdle
<1>3. CountsHolders' /\ ClosedIsEmpty'
  BY <1>2 DEF ResetManyIfIdle, CountsHolders, ClosedIsEmpty
<1>4. HeldHasEntry'
  BY <1>2, HoldersCount DEF ResetManyIfIdle, HeldHasEntry, CountsHolders
<1>5. SharesFlag'
  BY <1>2 DEF ResetManyIfIdle, SharesFlag, leases
<1>6. IdleIsSentinel'
  BY DEF ResetManyIfIdle, IdleIsSentinel, RegistryCancelled
<1> QED
  BY <1>1, <1>3, <1>4, <1>5, <1>6

(* After shutdown the registry is empty and promises nothing to leases. *)
LEMMA CancelShutdownPreserves ==
    ASSUME CancelIInv, CancelShutdown
    PROVE  CancelIInv'
<1> USE DEF CancelIInv
<1>1. CancelTypeOK'
  BY BoundsAssumption DEF CancelTypeOK, CancelShutdown, OweNotify,
     leases, waits
<1>2. CountsHolders' /\ HeldHasEntry' /\ SharesFlag'
  BY DEF CancelShutdown, CountsHolders, HeldHasEntry, SharesFlag
<1>3. ClosedIsEmpty' /\ IdleIsSentinel'
  BY DEF CancelShutdown, ClosedIsEmpty, IdleIsSentinel
<1> QED
  BY <1>1, <1>2, <1>3

(* release: the counter it decrements counts at least the releasing lease, *)
(* and the entry goes exactly when it was the last holder.                 *)
LEMMA ReleasePreserves ==
    ASSUME CancelIInv, NEW l \in Leases, Release(l)
    PROVE  CancelIInv'
<1> USE DEF CancelIInv
<1> DEFINE r == request[l]
<1>1. r \in entries => r \in Requests /\ ~shut
  BY DEF CancelTypeOK, ClosedIsEmpty
<1>2. ASSUME r \in entries
      PROVE  /\ l \in Holders(r)
             /\ Holders(r)' = Holders(r) \ {l}
             /\ Cardinality(Holders(r)') = Cardinality(Holders(r)) - 1
             /\ references[r] = Cardinality(Holders(r))
             /\ references[r] \in Nat \ {0}
  <2>1. l \in Holders(r)
    BY DEF Release, Holders
  <2>2. Holders(r)' = Holders(r) \ {l}
    BY DEF CancelTypeOK, Release, Holders
  <2>3. Cardinality(Holders(r)') = Cardinality(Holders(r)) - 1
    BY <1>1, <1>2, <2>1, <2>2, HoldersCount, FS_RemoveElement
  <2>4. references[r] = Cardinality(Holders(r))
    BY <1>1, <1>2 DEF CountsHolders
  <2>5. references[r] \in Nat \ {0}
    BY <1>1, <1>2, <2>1, <2>4, HoldersCount
  <2> QED
    BY <2>1, <2>2, <2>3, <2>4, <2>5
<1>3. \A i \in Requests \ {r} : Holders(i)' = Holders(i)
  BY DEF CancelTypeOK, Release, Holders
<1>4. ~shut /\ r \notin entries => \A i \in Requests : Holders(i)' = Holders(i)
  <2> SUFFICES ASSUME ~shut, r \notin entries, r \in Requests PROVE FALSE
    BY <1>3
  <2>1. l \in Holders(r)
    BY DEF Release, Holders
  <2> QED
    BY <2>1 DEF HeldHasEntry
<1>5. UNCHANGED <<shut, generation, cancelled, flag>>
  BY DEF Release
<1>6. CancelTypeOK'
  <2>1. references' \in [Requests -> Nat]
    BY <1>1, <1>2 DEF CancelTypeOK, Release
  <2>2. entries' \in SUBSET Requests
    BY DEF CancelTypeOK, Release
  <2> QED
    BY <2>1, <2>2, BoundsAssumption DEF CancelTypeOK, Release,
       OweNotify, waits
<1>7. CountsHolders'
  <2> SUFFICES ASSUME ~shut, NEW i \in Requests
               PROVE  references'[i] = Cardinality(Holders(i)')
    BY <1>5 DEF CountsHolders
  <2>1. CASE r \notin entries
    BY <2>1, <1>4 DEF Release, CountsHolders
  <2>2. CASE r \in entries /\ i # r
    BY <2>2, <1>3 DEF CancelTypeOK, Release, CountsHolders
  <2>3. CASE r \in entries /\ i = r
    BY <2>3, <1>2 DEF CancelTypeOK, Release
  <2> QED
    BY <2>1, <2>2, <2>3
<1>8. HeldHasEntry'
  <2> SUFFICES ASSUME ~shut, NEW i \in Requests, Holders(i)' # {}
               PROVE  i \in entries'
    BY <1>5 DEF HeldHasEntry
  <2>1. i \in entries
    BY <1>2, <1>3, <1>4 DEF HeldHasEntry
  <2>2. CASE i # r
    BY <2>1, <2>2 DEF Release
  <2>3. CASE i = r
    <3>1. Cardinality(Holders(i)') # 0
      BY <2>1, <2>3, <1>2, LeaseSetCount DEF Holders
    <3>2. references'[i] # 0
      BY <3>1, <1>5, <1>7 DEF CountsHolders
    <3> QED
      BY <2>1, <2>3, <3>2 DEF Release
  <2> QED
    BY <2>2, <2>3
<1>9. SharesFlag'
  <2> SUFFICES ASSUME ~shut, NEW i \in Requests, NEW m \in Holders(i)'
               PROVE  flag[m] = generation[i]
    BY <1>5 DEF SharesFlag
  <2>1. m \in Holders(i)
    BY DEF CancelTypeOK, Release, Holders
  <2> QED
    BY <2>1 DEF SharesFlag
<1>10. ClosedIsEmpty'
  BY <1>5 DEF Release, ClosedIsEmpty
<1>11. IdleIsSentinel'
  <2> SUFFICES ASSUME NEW i \in entries', references'[i] = 0
               PROVE  RegistryCancelled(i)'
    BY DEF IdleIsSentinel
  <2>1. i \in entries /\ references[i] = 0
    BY DEF CancelTypeOK, Release
  <2> QED
    BY <2>1, <1>5 DEF IdleIsSentinel, RegistryCancelled
<1> QED
  BY <1>6, <1>7, <1>8, <1>9, <1>10, <1>11

-----------------------------------------------------------------------------
(* Every step of the registry preserves the inductive invariant. *)
LEMMA CancelNextPreserves ==
    ASSUME CancelIInv, [CancelNext]_(cancelVars)
    PROVE  CancelIInv'
<1>1. ASSUME NEW l \in Leases, NEW i \in Requests, AcquireTracked(l,
i) PROVE CancelIInv'
  BY <1>1, AcquireTrackedPreserves
<1>2. ASSUME NEW l \in Leases, AcquireUntracked(l) PROVE CancelIInv'
  BY <1>2, AcquireUntrackedPreserves
<1>3. ASSUME NEW S \in SUBSET Requests, CancelMany(S) PROVE CancelIInv'
  BY <1>3, CancelManyPreserves
<1>4. CASE CancelActive
  BY <1>4, CancelActivePreserves
<1>5. ASSUME NEW S \in SUBSET Requests,
ResetManyIfIdle(S) PROVE CancelIInv'
  BY <1>5, ResetPreserves
<1>6. CASE CancelShutdown
  BY <1>6, CancelShutdownPreserves
<1>7. ASSUME NEW l \in Leases, Release(l) PROVE CancelIInv'
  BY <1>7, ReleasePreserves
<1>8. CASE Notify
  <2>1. CancelTypeOK'
    BY <1>8, BoundsAssumption DEF CancelIInv, CancelTypeOK, WaitStates,
       Notify, registry, leases
  <2> QED
    BY <1>8, <2>1, WaitsPreserve DEF Notify
<1>9. ASSUME NEW l \in Leases, WaitCall(l) PROVE CancelIInv'
  <2>1. CancelTypeOK'
    BY <1>9 DEF CancelIInv, CancelTypeOK, WaitStates, WaitCall,
       registry, leases
  <2> QED
    BY <1>9, <2>1, WaitsPreserve DEF WaitCall
<1>10. ASSUME NEW l \in Leases, WaitStep(l) PROVE CancelIInv'
  <2>1. CancelTypeOK'
    BY <1>10 DEF CancelIInv, CancelTypeOK, WaitStates, Returned,
       WaitStep, WaitOutcome, registry, leases
  <2> QED
    BY <1>10, <2>1, WaitsPreserve DEF WaitStep
<1>11. ASSUME NEW l \in Leases, Deadline(l) PROVE CancelIInv'
  <2>1. CancelTypeOK'
    BY <1>11 DEF CancelIInv, CancelTypeOK, WaitStates, Deadline,
       registry, leases
  <2> QED
    BY <1>11, <2>1, WaitsPreserve DEF Deadline
<1>12. CASE UNCHANGED cancelVars
  <2>1. CancelTypeOK'
    BY <1>12 DEF CancelIInv, CancelTypeOK, cancelVars
  <2> QED
    BY <1>12, <2>1, WaitsPreserve DEF cancelVars, registry,
       leases
<1> QED
  BY <1>1, <1>2, <1>3, <1>4, <1>5, <1>6, <1>7, <1>8, <1>9, <1>10, <1>11, <1>12
     DEF CancelNext

(* The inductive invariant holds of every reachable state. *)
THEOREM CancelInvariance == CancelSpec => []CancelIInv
<1>1. CancelInit => CancelIInv
  <2> SUFFICES ASSUME CancelInit PROVE CancelIInv
    OBVIOUS
  <2>1. CancelTypeOK
    <3>1. 0 \in 0..MaxGeneration /\ 0 \in 0..MaxNotifiers
      BY BoundsAssumption, NoIdAssumption
    <3>2. /\ generation \in [Requests -> 0..MaxGeneration]
          /\ references \in [Requests -> Nat]
          /\ cancelled \in SUBSET (Requests \X (0..MaxGeneration))
      BY <3>1 DEF CancelInit
    <3>3. /\ status \in [Leases -> {"unused", "held", "released"}]
          /\ request \in [Leases -> Requests \cup {NoId}]
          /\ flag \in [Leases -> 0..MaxGeneration]
          /\ wait \in [Leases -> WaitStates]
      BY <3>1 DEF CancelInit, WaitStates
    <3> QED
      BY <3>1, <3>2, <3>3 DEF CancelInit, CancelTypeOK
  <2>2. \A i \in Requests : Holders(i) = {}
    BY DEF CancelInit, Holders
  <2>3. CountsHolders
    BY <2>2, FS_EmptySet DEF CancelInit, CountsHolders
  <2> QED
    BY <2>1, <2>2, <2>3 DEF CancelInit, CancelIInv, HeldHasEntry, SharesFlag,
       ClosedIsEmpty,
                           IdleIsSentinel
<1> QED
  BY <1>1, CancelNextPreserves, PTL DEF CancelSpec

(* Types, with every reference counter a natural number: the subtraction   *)
(* of release never underflows.                                            *)
THEOREM CancelTypeCorrect == CancelSpec => []CancelTypeOK
  BY CancelInvariance, PTL DEF CancelIInv

(* The reference counter is exact: the release of an old lease cannot      *)
(* remove the entry a later retry of the same id holds.                    *)
THEOREM ReferencesAreExact == CancelSpec => []ReferencesExact
<1>1. CancelIInv => ReferencesExact
  <2> SUFFICES ASSUME CancelIInv, ~shut, NEW i \in Requests
               PROVE  /\ references[i] = Cardinality(Holders(i))
                      /\ Holders(i) # {} => i \in entries
    BY DEF ReferencesExact
  <2> QED
    BY DEF CancelIInv, CountsHolders, HeldHasEntry
<1> QED
  BY <1>1, CancelInvariance, PTL

(* Asking the registry by id and asking a held lease give one answer. *)
THEOREM ViewsAlwaysAgree == CancelSpec => []ViewsAgree
<1>1. CancelIInv => ViewsAgree
  <2> SUFFICES ASSUME CancelIInv, ~shut, NEW i \in Requests,
  NEW l \in Holders(i)
               PROVE  LeaseCancelled(l) <=> RegistryCancelled(i)
    BY DEF ViewsAgree
  <2>1. i \in entries /\ flag[l] = generation[i] /\ request[l] = i
    BY DEF CancelIInv, HeldHasEntry, SharesFlag, Holders
  <2> QED
    BY <2>1 DEF LeaseCancelled, RegistryCancelled
<1> QED
  BY <1>1, CancelInvariance, PTL

(* Idle entries are cancelled sentinels. *)
THEOREM IdleEntriesAreSentinels == CancelSpec => []IdleIsSentinel
  BY CancelInvariance, PTL DEF CancelIInv

(* A cancellation sticks as long as the id stays held, whatever is reset,  *)
(* acquired or released meanwhile.                                         *)
THEOREM CancellationSticks == CancelSpec => CancelSticks
<1> DEFINE Sticks == \A i \in Requests :
         RegistryCancelled(i) /\ Holders(i) # {} /\ Holders(i)' # {} /\ ~shut'
           => RegistryCancelled(i)'
<1>1. ASSUME CancelIInv, CancelIInv',
[CancelNext]_(cancelVars) PROVE [Sticks]_(cancelVars)
  <2> SUFFICES ASSUME NEW i \in Requests, RegistryCancelled(i),
  Holders(i) # {},
                      Holders(i)' # {}, ~shut'
               PROVE  RegistryCancelled(i)'
    BY DEF Sticks
  <2>1. i \in entries'
    BY <1>1 DEF CancelIInv, HeldHasEntry
  <2>2. i \in entries /\ <<i, generation[i]>> \in cancelled
    BY DEF RegistryCancelled
  <2>3. generation'[i] = generation[i] /\ cancelled \subseteq cancelled'
    BY <1>1, <2>2 DEF CancelNext, cancelVars, CancelIInv, CancelTypeOK,
       AcquireTracked, AcquireUntracked,
       CancelMany, CancelActive, ResetManyIfIdle,
       CancelShutdown, Release, Notify,
       WaitCall, WaitStep, Deadline, OrDefault,
       registry
  <2> QED
    BY <2>1, <2>2, <2>3 DEF RegistryCancelled
<1> QED
  BY <1>1, CancelInvariance, PTL DEF CancelSpec, CancelSticks, Sticks
=============================================================================
