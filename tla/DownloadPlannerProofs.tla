------------------------ MODULE DownloadPlannerProofs ------------------------
(***************************************************************************)
(* The planner's invariants and its promise about old files, for any       *)
(* number of threads, items, paths, providers and requests.                *)
(*                                                                         *)
(* What the threads share is tied together by the output lock: a thread    *)
(* that downloads or publishes holds the lock of the path it will write,   *)
(* and nobody holds a lock anywhere else.  From that follow the attempt    *)
(* directory that nobody takes away and the file that nobody else writes.  *)
(***************************************************************************)
EXTENDS DownloadPlanner, NaturalsInduction, WellFoundedInduction, TLAPS

-----------------------------------------------------------------------------
(* Keep. *)

\* Every nonempty set of naturals has a least element; with it an induction is
\* the search for a least counterexample.
LEMMA LeastElement ==
    ASSUME NEW T, T \subseteq Nat, T # {}
    PROVE  \E m \in T : \A x \in T : m <= x
<1> DEFINE R == OpToRel(<, Nat)
<1>1. IsWellFoundedOn(R, Nat)
  BY NatLessThanWellFounded, Zenon
<1>2. \A x, y \in Nat : x < y => <<x, y>> \in R
  BY DEF OpToRel
<1> HIDE DEF R
<1>3. PICK m \in T : \A x \in T : ~(<<x, m>> \in R)
  BY <1>1, WFMin
<1>4. ASSUME NEW x \in T PROVE m <= x
  <2>1. ~(x < m) /\ x \in Nat /\ m \in Nat
    BY <1>2, <1>3
  <2> QED
    BY <2>1
<1> QED
  BY <1>4

\* F solves the recursion of Keep on the first n entries of the list.
Solves(F, S, list, n) ==
    \A i \in 0..n :
        F[i] = IF i = 0 THEN <<>>
               ELSE IF list[i] \in S THEN Append(F[i - 1], list[i])
               ELSE F[i - 1]

\* The recursion of Keep has a solution on every prefix of the list.
LEMMA KeepDefined ==
    ASSUME NEW S, NEW list \in Seq(Providers), NEW n \in Nat, n <= Len(list)
    PROVE  \E F \in [0..n -> Seq(Providers)] : Solves(F, S, list, n)
<1> DEFINE Open == {k \in 0..n : ~ \E F \in [0..k -> Seq(Providers)] :
                                      Solves(F, S, list, k)}
<1>1. SUFFICES ASSUME Open # {} PROVE FALSE
  <2>1. n \in 0..n
    OBVIOUS
  <2> QED
    BY <2>1
<1>2. PICK k \in Open : \A x \in Open : k <= x
  <2>1. Open \subseteq Nat
    OBVIOUS
  <2> HIDE DEF Open
  <2> QED
    BY <1>1, <2>1, LeastElement
<1>3. k \in 0..n /\ ~ \E F \in [0..k -> Seq(Providers)] : Solves(F, S, list, k)
  OBVIOUS
<1>4. CASE k = 0
  <2> DEFINE F == [i \in 0..0 |-> <<>>]
  <2>1. F \in [0..0 -> Seq(Providers)]
    OBVIOUS
  <2>2. Solves(F, S, list, 0)
    BY DEF Solves
  <2> QED
    BY <1>3, <1>4, <2>1, <2>2
<1>5. CASE k # 0
  <2>1. k - 1 \in 0..n /\ k - 1 \notin Open
    <3>1. k - 1 \in 0..n /\ ~(k <= k - 1)
      BY <1>3, <1>5
    <3> HIDE DEF Open
    <3> QED
      BY <1>2, <3>1
  <2>2. PICK F \in [0..(k - 1) -> Seq(Providers)] : Solves(F, S, list, k - 1)
    BY <2>1
  <2>3. list[k] \in Providers /\ F[k - 1] \in Seq(Providers)
    BY <1>3, <1>5
  <2> DEFINE last == IF list[k] \in S THEN Append(F[k - 1], list[k])
                     ELSE F[k - 1]
             G == [i \in 0..k |-> IF i = k THEN last ELSE F[i]]
  <2>4. last \in Seq(Providers)
    BY <2>3
  <2>5. \A i \in 0..k : i # k => i \in 0..(k - 1)
    BY <1>3
  <2> HIDE DEF last
  <2>6. G \in [0..k -> Seq(Providers)]
    BY <2>4, <2>5
  <2>7. Solves(G, S, list, k)
    <3> SUFFICES ASSUME NEW i \in 0..k
                 PROVE  G[i] = IF i = 0 THEN <<>>
                               ELSE IF list[i] \in S
                                    THEN Append(G[i - 1], list[i])
                               ELSE G[i - 1]
      BY DEF Solves
    <3>1. CASE i = k
      <4>1. G[i] = last /\ G[i - 1] = F[i - 1]
        BY <1>3, <1>5, <3>1
      <4> QED
        BY <1>5, <3>1, <4>1 DEF last
    <3>2. CASE i # k
      <4>1. i \in 0..(k - 1) /\ G[i] = F[i]
        BY <2>5, <3>2
      <4>2. i # 0 => G[i - 1] = F[i - 1]
        BY <1>3, <4>1
      <4> QED
        BY <2>2, <4>1, <4>2 DEF Solves
    <3> QED
      BY <3>1, <3>2
  <2> QED
    BY <1>3, <2>6, <2>7
<1> QED
  BY <1>4, <1>5

\* A part of a list of providers is a list of providers.
LEMMA KeepTyped ==
    ASSUME NEW S, NEW list \in Seq(Providers)
    PROVE  Keep(S)[list] \in Seq(Providers)
<1> DEFINE n == Len(list)
           Solution(F) ==
              F = [i \in 0..n |->
                     IF i = 0 THEN <<>>
                     ELSE IF list[i] \in S THEN Append(F[i - 1], list[i])
                     ELSE F[i - 1]]
           kept == CHOOSE F : Solution(F)
<1>1. n \in Nat /\ n <= Len(list)
  OBVIOUS
<1>2. \E F : Solution(F)
  <2>1. PICK F \in [0..n -> Seq(Providers)] : Solves(F, S, list, n)
    <3> HIDE DEF n
    <3> QED
      BY <1>1, KeepDefined
  <2>2. Solution(F)
    BY <2>1 DEF Solves
  <2> QED
    BY <2>2
<1>3. Solution(kept)
  BY <1>2
<1>4. Keep(S)[list] = kept[n]
  BY DEF Keep
<1> HIDE DEF kept
<1>5. Solves(kept, S, list, n)
  BY <1>3 DEF Solves
<1> HIDE DEF Solution
<1> DEFINE Bad == {i \in 0..n : kept[i] \notin Seq(Providers)}
<1>6. ASSUME Bad # {} PROVE FALSE
  <2>1. Bad \subseteq Nat
    OBVIOUS
  <2>2. PICK i \in Bad : \A x \in Bad : i <= x
    <3> HIDE DEF Bad
    <3> QED
      BY <1>6, <2>1, LeastElement
  <2>3. i \in 0..n /\ kept[i] \notin Seq(Providers)
    OBVIOUS
  <2>4. i # 0
    <3>1. 0 \in 0..n
      BY <1>1
    <3> HIDE DEF n, Bad
    <3>2. kept[0] = <<>>
      BY <1>5, <3>1 DEF Solves
    <3>3. <<>> \in Seq(Providers)
      OBVIOUS
    <3> QED
      BY <2>3, <3>2, <3>3, Zenon
  <2>5. i - 1 \in 0..n /\ kept[i - 1] \in Seq(Providers)
    BY <2>2, <2>3, <2>4
  <2>6. list[i] \in Providers
    BY <2>3, <2>4
  <2>7. kept[i] \in {Append(kept[i - 1], list[i]), kept[i - 1]}
    <3> HIDE DEF n, Bad
    <3> QED
      BY <1>5, <2>3, <2>4 DEF Solves
  <2>8. Append(kept[i - 1], list[i]) \in Seq(Providers)
    BY <2>5, <2>6
  <2> QED
    BY <2>3, <2>5, <2>7, <2>8
<1> QED
  BY <1>1, <1>4, <1>6

-----------------------------------------------------------------------------
(* The inductive invariant. *)

Attempting == {"asked", "lock", "download", "relock", "publish"}
Holding == {"download", "publish"}

\* A thread's own record: a request that is not idle is one of Requests, an
\* attempt has a provider, and only a file that moves elsewhere has moved.
Typed(t) ==
    /\ DOMAIN call[t] = DOMAIN Idle
    /\ call[t].at \in Places
    /\ call[t].at = "idle" => call[t] = Idle
    /\ call[t].at # "idle" => Req(t) \in Requests
    /\ call[t].held \in BOOLEAN
    /\ call[t].selected \in Providers \cup {None}
    /\ call[t].provider \in Providers \cup {None}
    /\ call[t].queue \in Seq(Providers)
    /\ call[t].at \in Attempting => call[t].provider \in Providers
    /\ call[t].moved \in BOOLEAN
    /\ call[t].moved => call[t].at \in {"relock", "publish"}
    /\ call[t].at = "relock" => call[t].moved

\* Once a loaded source has forbidden a replacement, the thread is about to try
\* the source directly, or does so and will stop there.
SourceBound(t) ==
    call[t].source # "none" /\ Req(t).source \in installed
        => \/ call[t].at = "next" /\ call[t].direct
           \/ /\ call[t].at \in {"lock", "download", "relock", "publish"}
              /\ call[t].mode = "direct" /\ call[t].stop
              /\ call[t].provider = Req(t).source

CallInv ==
    /\ call = [t \in Threads |-> call[t]]
    /\ \A t \in Threads : Typed(t) /\ SourceBound(t)

\* Requests that run have different numbers.
NumberInv ==
    /\ started \in 0..MaxRequests
    /\ \A t \in Threads :
          call[t].at # "idle" => call[t].number \in 1..started
    /\ \A t, u \in Threads :
          t # u /\ call[t].at # "idle" /\ call[u].at # "idle"
              => call[t].number # call[u].number

\* A thread holds the lock of its destination while it downloads or publishes,
\* and no other lock ever.
LockInv ==
    /\ lock \in [Paths -> Threads \cup {None}]
    /\ \A t \in Threads : call[t].at \in Holding => lock[Destination(t)] = t
    /\ \A p \in Paths, t \in Threads :
          lock[p] = t => call[t].at \in Holding /\ p = Destination(t)

\* A thread that is about to write its planned path still finds what Lock found
\* there.
LibraryInv ==
    /\ library \in [Paths -> Numbers]
    /\ \A t \in Threads :
          call[t].at \in Holding /\ ~call[t].moved /\ ~Req(t).variant
              => library[Req(t).path] = 0

\* DirectoryOwned, directory by directory.
Owned(t) ==
    /\ OwnDirectory(t) \in dirs
    /\ \A d \in dirs : d.path = Req(t).path /\ d.provider = call[t].provider
                          => d = OwnDirectory(t)

DirectoryInv ==
    /\ dirs \subseteq Directories
    /\ \A t \in Threads :
          call[t].at \in Holding /\ ~call[t].moved => Owned(t)

ProgressInv ==
    /\ progress \in [Items -> {"absent", "active", "completed"}]
    /\ NoGhostProgress

SettingsInv ==
    /\ prepared \in [Items -> Entries \cup {None}]
    /\ cancelled \subseteq Items
    /\ account \subseteq Providers /\ installed \subseteq Providers
    /\ events \in 0..MaxEvents

IInv == /\ CallInv /\ NumberInv /\ LockInv /\ LibraryInv
        /\ DirectoryInv /\ ProgressInv /\ SettingsInv

-----------------------------------------------------------------------------
(* How a thread moves. *)

\* What every step of a running request keeps: the other threads, its request,
\* its number, and the shape of its record.
Moves(t) ==
    /\ call' = [u \in Threads |-> call'[u]]
    /\ \A u \in Threads \ {t} : call'[u] = call[u]
    /\ call[t].at # "idle" /\ call'[t].at # "idle"
    /\ call'[t].req = call[t].req
    /\ call'[t].number = call[t].number
    /\ Typed(t)' /\ SourceBound(t)'

\* Set changes the fields that it names, and nothing else.
LEMMA SetGives ==
    ASSUME CallInv, NEW t \in Threads, NEW changes, Set(t, changes)
    PROVE  /\ call' = [u \in Threads |-> call'[u]]
           /\ \A u \in Threads \ {t} : call'[u] = call[u]
           /\ DOMAIN call'[t] = DOMAIN Idle
           /\ \A f \in DOMAIN Idle :
                 call'[t][f] = IF f \in DOMAIN changes THEN changes[f]
                               ELSE call[t][f]
  BY DEF CallInv, Set

\* The planner thread ends: the record is Idle's but for the request.
LEMMA AnswerMoves ==
    ASSUME CallInv, NEW t \in Threads, call[t].at # "idle",
           NEW good, Answer(t, good)
    PROVE  Moves(t) /\ call'[t].at = "answered"
<1>1. /\ call' = [u \in Threads |-> call'[u]]
      /\ \A u \in Threads \ {t} : call'[u] = call[u]
      /\ call'[t] = [Idle EXCEPT !.at = "answered", !.ok = good,
                        !.req = Req(t), !.number = call[t].number,
                        !.held = call[t].held]
  BY DEF CallInv, Answer
<1>2. /\ DOMAIN call'[t] = DOMAIN Idle
      /\ call'[t].at = "answered" /\ call'[t].req = call[t].req
      /\ call'[t].number = call[t].number /\ call'[t].held = call[t].held
      /\ call'[t].selected = None /\ call'[t].provider = None
      /\ call'[t].queue = <<>> /\ call'[t].moved = FALSE
      /\ call'[t].source = "none"
  BY <1>1 DEF Idle, Req
<1>3. Typed(t) /\ <<>> \in Seq(Providers)
  BY DEF CallInv
<1>4. Typed(t)'
  BY <1>2, <1>3 DEF Typed, Req, Places, Attempting
<1>5. SourceBound(t)'
  BY <1>2 DEF SourceBound
<1> QED
  BY <1>1, <1>2, <1>4, <1>5 DEF Moves

\* The fields of the record after Set, for changes that keep the request.
LEMMA SetFields ==
    ASSUME CallInv, NEW t \in Threads, NEW changes, Set(t, changes),
           "req" \notin DOMAIN changes, "number" \notin DOMAIN changes
    PROVE  /\ call' = [u \in Threads |-> call'[u]]
           /\ \A u \in Threads \ {t} : call'[u] = call[u]
           /\ DOMAIN call'[t] = DOMAIN Idle
           /\ call'[t].req = call[t].req
           /\ call'[t].number = call[t].number
           /\ \A f \in {"at", "held", "selected", "source", "direct", "queue",
                          "mode", "provider", "stop", "moved"} :
                 call'[t][f] = IF f \in DOMAIN changes THEN changes[f]
                               ELSE call[t][f]
  BY SetGives DEF Idle

\* A changed record is still a thread's record.
LEMMA SetMoves ==
    ASSUME CallInv, NEW t \in Threads, NEW changes, Set(t, changes),
           "req" \notin DOMAIN changes, "number" \notin DOMAIN changes,
           call[t].at # "idle", call'[t].at \in Places \ {"idle"},
           call'[t].held \in BOOLEAN,
           call'[t].selected \in Providers \cup {None},
           call'[t].provider \in Providers \cup {None},
           call'[t].at \in Attempting => call'[t].provider \in Providers,
           call'[t].queue \in Seq(Providers),
           call'[t].moved \in BOOLEAN,
           call'[t].moved => call'[t].at \in {"relock", "publish"},
           call'[t].at = "relock" => call'[t].moved,
           SourceBound(t)'
    PROVE  Moves(t)
<1>1. /\ call' = [u \in Threads |-> call'[u]]
      /\ \A u \in Threads \ {t} : call'[u] = call[u]
      /\ DOMAIN call'[t] = DOMAIN Idle
      /\ call'[t].req = call[t].req
      /\ call'[t].number = call[t].number
  BY SetFields
<1>2. Typed(t)
  BY DEF CallInv
<1>3. Typed(t)'
  BY <1>1, <1>2 DEF Typed, Req
<1> QED
  BY <1>1, <1>3 DEF Moves

\* The next provider: allowed only if no source has forbidden it.
LEMMA OnwardMoves ==
    ASSUME CallInv, NEW t \in Threads, Onward(t), UNCHANGED installed,
           call[t].at \in {"asked", "lock", "download"},
           call[t].source # "none" /\ Req(t).source \in installed => FALSE
    PROVE  Moves(t) /\ call'[t].at = "next"
<1> DEFINE changes == [at |-> "next", mode |-> "none", provider |-> None,
                       account |-> FALSE, stop |-> FALSE]
<1>1. Set(t, changes)
  BY DEF Onward
<1>2. /\ call' = [u \in Threads |-> call'[u]]
      /\ \A u \in Threads \ {t} : call'[u] = call[u]
      /\ DOMAIN call'[t] = DOMAIN Idle
      /\ \A f \in DOMAIN Idle :
            call'[t][f] = IF f \in DOMAIN changes THEN changes[f]
                          ELSE call[t][f]
  <2> HIDE DEF changes
  <2> QED
    BY <1>1, SetGives
<1>3. /\ call'[t].at = "next" /\ call'[t].req = call[t].req
      /\ call'[t].number = call[t].number /\ call'[t].held = call[t].held
      /\ call'[t].selected = call[t].selected /\ call'[t].provider = None
      /\ call'[t].queue = call[t].queue /\ call'[t].moved = call[t].moved
      /\ call'[t].source = call[t].source
  BY <1>2 DEF Idle
<1>4. Typed(t)
  BY DEF CallInv
<1>5. Typed(t)'
  BY <1>2, <1>3, <1>4 DEF Typed, Req, Places, Attempting
<1>6. SourceBound(t)'
  BY <1>3 DEF SourceBound, Req
<1> QED
  BY <1>2, <1>3, <1>5, <1>6 DEF Moves

\* The place alone changes.  A bound thread may only go on with its attempt.
LEMMA PlaceMoves ==
    ASSUME CallInv, NEW t \in Threads, UNCHANGED installed,
           call[t].at # "idle", NEW place \in Places \ {"idle", "relock"},
           Set(t, [at |-> place]),
           call[t].moved => place = "publish",
           place \in Attempting => call[t].provider \in Providers,
           call[t].source # "none" /\ Req(t).source \in installed =>
              /\ call[t].at # "next"
              /\ place \in {"lock", "download", "publish"}
    PROVE  /\ Moves(t) /\ call'[t].at = place
           /\ call'[t].moved = call[t].moved
           /\ call'[t].provider = call[t].provider
<1> DEFINE changes == [at |-> place]
<1>1. Set(t, changes) /\ Typed(t) /\ SourceBound(t)
  BY DEF CallInv
<1>2. "req" \notin DOMAIN changes /\ "number" \notin DOMAIN changes
  OBVIOUS
<1>3. /\ call'[t].req = call[t].req
      /\ \A f \in {"at", "held", "selected", "source", "direct", "queue",
                     "mode", "provider", "stop", "moved"} :
            call'[t][f] = IF f \in DOMAIN changes THEN changes[f]
                          ELSE call[t][f]
  <2> HIDE DEF changes
  <2> QED
    BY <1>1, <1>2, SetFields
<1>4. /\ call'[t].at = place /\ call'[t].held = call[t].held
      /\ call'[t].selected = call[t].selected
      /\ call'[t].source = call[t].source /\ call'[t].direct = call[t].direct
      /\ call'[t].queue = call[t].queue /\ call'[t].mode = call[t].mode
      /\ call'[t].provider = call[t].provider
      /\ call'[t].stop = call[t].stop /\ call'[t].moved = call[t].moved
  BY <1>3
<1>5. SourceBound(t)'
  BY <1>1, <1>3, <1>4 DEF SourceBound, Req
<1> HIDE DEF changes
<1> QED
  BY <1>1, <1>2, <1>4, <1>5, SetMoves DEF Typed

-----------------------------------------------------------------------------
(* Single changes of a record. *)

\* The caller lets go of the lease.
LEMMA GiveUpMoves ==
    ASSUME CallInv,
           NEW t \in Threads,
           UNCHANGED installed,
           call[t].at # "idle",
           Set(t, [held |-> FALSE])
    PROVE  Moves(t) /\ call'[t].at = call[t].at
           /\ call'[t].moved = call[t].moved
           /\ call'[t].provider = call[t].provider
<1> DEFINE changes == [held |-> FALSE]
<1>1. Set(t, changes) /\ Typed(t) /\ SourceBound(t)
  BY DEF CallInv
<1>2. "req" \notin DOMAIN changes /\ "number" \notin DOMAIN changes
  OBVIOUS
<1>3. /\ call'[t].req = call[t].req
      /\ \A f \in {"at", "held", "selected", "source", "direct", "queue",
                     "mode", "provider", "stop", "moved"} :
            call'[t][f] = IF f \in DOMAIN changes THEN changes[f]
                          ELSE call[t][f]
  <2> HIDE DEF changes
  <2> QED
    BY <1>1, <1>2, SetFields
<1>4. /\ call'[t].at = call[t].at /\ call'[t].held = FALSE
      /\ call'[t].selected = call[t].selected
      /\ call'[t].source = call[t].source /\ call'[t].direct = call[t].direct
      /\ call'[t].queue = call[t].queue /\ call'[t].mode = call[t].mode
      /\ call'[t].provider = call[t].provider /\ call'[t].stop = call[t].stop
      /\ call'[t].moved = call[t].moved
  BY <1>3
<1> HIDE DEF changes
<1>5. SourceBound(t)'
  BY <1>1, <1>3, <1>4 DEF SourceBound, Req
<1> QED
  BY <1>1, <1>2, <1>4, <1>5, SetMoves DEF Typed, Places, Attempting

\* The planner thread is joined.
LEMMA JoinMoves ==
    ASSUME CallInv,
           NEW t \in Threads,
           UNCHANGED installed,
           Join(t)
    PROVE  Moves(t) /\ call'[t].at = "reporting"
<1> DEFINE changes == [at |-> "reporting", ok |-> call[t].ok /\ Live(t)]
<1>1. Set(t, changes) /\ Typed(t) /\ SourceBound(t)
  BY DEF CallInv, Join
<1>2. "req" \notin DOMAIN changes /\ "number" \notin DOMAIN changes
  OBVIOUS
<1>3. /\ call'[t].req = call[t].req
      /\ \A f \in {"at", "held", "selected", "source", "direct", "queue",
                     "mode", "provider", "stop", "moved"} :
            call'[t][f] = IF f \in DOMAIN changes THEN changes[f]
                          ELSE call[t][f]
  <2> HIDE DEF changes
  <2> QED
    BY <1>1, <1>2, SetFields
<1>4. /\ call'[t].at = "reporting" /\ call'[t].held = call[t].held
      /\ call'[t].selected = call[t].selected
      /\ call'[t].source = call[t].source /\ call'[t].direct = call[t].direct
      /\ call'[t].queue = call[t].queue /\ call'[t].mode = call[t].mode
      /\ call'[t].provider = call[t].provider /\ call'[t].stop = call[t].stop
      /\ call'[t].moved = call[t].moved
  BY <1>3
<1> HIDE DEF changes
<1>5. SourceBound(t)'
  BY <1>1, <1>3, <1>4 DEF SourceBound, Req, Join
<1> QED
  BY <1>1, <1>2, <1>4, <1>5, SetMoves DEF Typed, Places, Attempting, Join

\* A provider is chosen while no source forbids it.
LEMMA AskMoves ==
    ASSUME CallInv,
           NEW t \in Threads,
           UNCHANGED installed,
           call[t].at \in {"retry", "source"},
           NEW place \in {"lock", "asked"},
           NEW mode,
           NEW id \in Providers,
           Set(t, [at |-> place, mode |-> mode, provider |-> id])
    PROVE  Moves(t) /\ call'[t].at = place
<1> DEFINE changes == [at |-> place, mode |-> mode, provider |-> id]
<1>1. Set(t, changes) /\ Typed(t) /\ SourceBound(t)
  BY DEF CallInv
<1>2. "req" \notin DOMAIN changes /\ "number" \notin DOMAIN changes
  OBVIOUS
<1>3. /\ call'[t].req = call[t].req
      /\ \A f \in {"at", "held", "selected", "source", "direct", "queue",
                     "mode", "provider", "stop", "moved"} :
            call'[t][f] = IF f \in DOMAIN changes THEN changes[f]
                          ELSE call[t][f]
  <2> HIDE DEF changes
  <2> QED
    BY <1>1, <1>2, SetFields
<1>4. /\ call'[t].at = place /\ call'[t].held = call[t].held
      /\ call'[t].selected = call[t].selected
      /\ call'[t].source = call[t].source /\ call'[t].direct = call[t].direct
      /\ call'[t].queue = call[t].queue /\ call'[t].mode = mode
      /\ call'[t].provider = id /\ call'[t].stop = call[t].stop
      /\ call'[t].moved = call[t].moved
  BY <1>3
<1> HIDE DEF changes
<1>5. SourceBound(t)'
  BY <1>1, <1>3, <1>4 DEF SourceBound, Req
<1> QED
  BY <1>1, <1>2, <1>4, <1>5, SetMoves DEF Typed, Places, Attempting

\* The source is not asked.
LEMMA SkipSourceMoves ==
    ASSUME CallInv,
           NEW t \in Threads,
           UNCHANGED installed,
           call[t].at = "source",
           NEW direct,
           Set(t, [at |-> "next", direct |-> direct])
    PROVE  Moves(t) /\ call'[t].at = "next"
<1> DEFINE changes == [at |-> "next", direct |-> direct]
<1>1. Set(t, changes) /\ Typed(t) /\ SourceBound(t)
  BY DEF CallInv
<1>2. "req" \notin DOMAIN changes /\ "number" \notin DOMAIN changes
  OBVIOUS
<1>3. /\ call'[t].req = call[t].req
      /\ \A f \in {"at", "held", "selected", "source", "direct", "queue",
                     "mode", "provider", "stop", "moved"} :
            call'[t][f] = IF f \in DOMAIN changes THEN changes[f]
                          ELSE call[t][f]
  <2> HIDE DEF changes
  <2> QED
    BY <1>1, <1>2, SetFields
<1>4. /\ call'[t].at = "next" /\ call'[t].held = call[t].held
      /\ call'[t].selected = call[t].selected
      /\ call'[t].source = call[t].source /\ call'[t].direct = direct
      /\ call'[t].queue = call[t].queue /\ call'[t].mode = call[t].mode
      /\ call'[t].provider = call[t].provider /\ call'[t].stop = call[t].stop
      /\ call'[t].moved = call[t].moved
  BY <1>3
<1> HIDE DEF changes
<1>5. SourceBound(t)'
  BY <1>1, <1>3, <1>4 DEF SourceBound, Req
<1> QED
  BY <1>1, <1>2, <1>4, <1>5, SetMoves DEF Typed, Places, Attempting

\* The queue of fallbacks is made, or gets shorter.
LEMMA ExpandMoves ==
    ASSUME CallInv,
           NEW t \in Threads,
           UNCHANGED installed,
           call[t].at = "next",
           ~call[t].direct,
           NEW expanded,
           NEW queue \in Seq(Providers),
           Set(t, [expanded |-> expanded, queue |-> queue])
    PROVE  Moves(t) /\ call'[t].at = "next"
<1> DEFINE changes == [expanded |-> expanded, queue |-> queue]
<1>1. Set(t, changes) /\ Typed(t) /\ SourceBound(t)
  BY DEF CallInv
<1>2. "req" \notin DOMAIN changes /\ "number" \notin DOMAIN changes
  OBVIOUS
<1>3. /\ call'[t].req = call[t].req
      /\ \A f \in {"at", "held", "selected", "source", "direct", "queue",
                     "mode", "provider", "stop", "moved"} :
            call'[t][f] = IF f \in DOMAIN changes THEN changes[f]
                          ELSE call[t][f]
  <2> HIDE DEF changes
  <2> QED
    BY <1>1, <1>2, SetFields
<1>4. /\ call'[t].at = call[t].at /\ call'[t].held = call[t].held
      /\ call'[t].selected = call[t].selected
      /\ call'[t].source = call[t].source /\ call'[t].direct = call[t].direct
      /\ call'[t].queue = queue /\ call'[t].mode = call[t].mode
      /\ call'[t].provider = call[t].provider /\ call'[t].stop = call[t].stop
      /\ call'[t].moved = call[t].moved
  BY <1>3
<1> HIDE DEF changes
<1>5. SourceBound(t)'
  BY <1>1, <1>3, <1>4 DEF SourceBound, Req
<1> QED
  BY <1>1, <1>2, <1>4, <1>5, SetMoves DEF Typed, Places, Attempting

\* A fallback is passed over.
LEMMA SkipMoves ==
    ASSUME CallInv,
           NEW t \in Threads,
           UNCHANGED installed,
           call[t].at = "next",
           ~call[t].direct,
           NEW queue \in Seq(Providers),
           Set(t, [queue |-> queue])
    PROVE  Moves(t) /\ call'[t].at = "next"
<1> DEFINE changes == [queue |-> queue]
<1>1. Set(t, changes) /\ Typed(t) /\ SourceBound(t)
  BY DEF CallInv
<1>2. "req" \notin DOMAIN changes /\ "number" \notin DOMAIN changes
  OBVIOUS
<1>3. /\ call'[t].req = call[t].req
      /\ \A f \in {"at", "held", "selected", "source", "direct", "queue",
                     "mode", "provider", "stop", "moved"} :
            call'[t][f] = IF f \in DOMAIN changes THEN changes[f]
                          ELSE call[t][f]
  <2> HIDE DEF changes
  <2> QED
    BY <1>1, <1>2, SetFields
<1>4. /\ call'[t].at = call[t].at /\ call'[t].held = call[t].held
      /\ call'[t].selected = call[t].selected
      /\ call'[t].source = call[t].source /\ call'[t].direct = call[t].direct
      /\ call'[t].queue = queue /\ call'[t].mode = call[t].mode
      /\ call'[t].provider = call[t].provider /\ call'[t].stop = call[t].stop
      /\ call'[t].moved = call[t].moved
  BY <1>3
<1> HIDE DEF changes
<1>5. SourceBound(t)'
  BY <1>1, <1>3, <1>4 DEF SourceBound, Req
<1> QED
  BY <1>1, <1>2, <1>4, <1>5, SetMoves DEF Typed, Places, Attempting

\* The source is not loaded any more.
LEMMA UnloadedMoves ==
    ASSUME CallInv,
           NEW t \in Threads,
           UNCHANGED installed,
           call[t].at = "next",
           Req(t).source \notin installed,
           Set(t, [direct |-> FALSE])
    PROVE  Moves(t) /\ call'[t].at = "next"
<1> DEFINE changes == [direct |-> FALSE]
<1>1. Set(t, changes) /\ Typed(t) /\ SourceBound(t)
  BY DEF CallInv
<1>2. "req" \notin DOMAIN changes /\ "number" \notin DOMAIN changes
  OBVIOUS
<1>3. /\ call'[t].req = call[t].req
      /\ \A f \in {"at", "held", "selected", "source", "direct", "queue",
                     "mode", "provider", "stop", "moved"} :
            call'[t][f] = IF f \in DOMAIN changes THEN changes[f]
                          ELSE call[t][f]
  <2> HIDE DEF changes
  <2> QED
    BY <1>1, <1>2, SetFields
<1>4. /\ call'[t].at = call[t].at /\ call'[t].held = call[t].held
      /\ call'[t].selected = call[t].selected
      /\ call'[t].source = call[t].source /\ call'[t].direct = FALSE
      /\ call'[t].queue = call[t].queue /\ call'[t].mode = call[t].mode
      /\ call'[t].provider = call[t].provider /\ call'[t].stop = call[t].stop
      /\ call'[t].moved = call[t].moved
  BY <1>3
<1> HIDE DEF changes
<1>5. SourceBound(t)'
  BY <1>1, <1>3, <1>4 DEF SourceBound, Req
<1> QED
  BY <1>1, <1>2, <1>4, <1>5, SetMoves DEF Typed, Places, Attempting

\* The source itself is tried, and nothing after it if it said so.
LEMMA DirectMoves ==
    ASSUME CallInv,
           NEW t \in Threads,
           UNCHANGED installed,
           call[t].at = "next",
           NEW account1,
           NEW stop \in BOOLEAN,
           Req(t).source \in Providers,
           call[t].source # "none" => stop,
           Set(t, [at |-> "lock", mode |-> "direct", direct |-> FALSE,
                   provider |-> Req(t).source, account |-> account1,
                   stop |-> stop])
    PROVE  Moves(t) /\ call'[t].at = "lock"
<1> DEFINE changes == [at |-> "lock", mode |-> "direct", direct |-> FALSE,
                       provider |-> Req(t).source, account |-> account1,
                       stop |-> stop]
<1>1. Set(t, changes) /\ Typed(t) /\ SourceBound(t)
  BY DEF CallInv
<1>2. "req" \notin DOMAIN changes /\ "number" \notin DOMAIN changes
  OBVIOUS
<1>3. /\ call'[t].req = call[t].req
      /\ \A f \in {"at", "held", "selected", "source", "direct", "queue",
                     "mode", "provider", "stop", "moved"} :
            call'[t][f] = IF f \in DOMAIN changes THEN changes[f]
                          ELSE call[t][f]
  <2> HIDE DEF changes
  <2> QED
    BY <1>1, <1>2, SetFields
<1>4. /\ call'[t].at = "lock" /\ call'[t].held = call[t].held
      /\ call'[t].selected = call[t].selected
      /\ call'[t].source = call[t].source /\ call'[t].direct = FALSE
      /\ call'[t].queue = call[t].queue /\ call'[t].mode = "direct"
      /\ call'[t].provider = Req(t).source /\ call'[t].stop = stop
      /\ call'[t].moved = call[t].moved
  BY <1>3
<1> HIDE DEF changes
<1>5. SourceBound(t)'
  BY <1>1, <1>3, <1>4 DEF SourceBound, Req
<1> QED
  BY <1>1, <1>2, <1>4, <1>5, SetMoves DEF Typed, Places, Attempting

\* A fallback is asked.
LEMMA FallbackMoves ==
    ASSUME CallInv,
           NEW t \in Threads,
           UNCHANGED installed,
           call[t].at = "next",
           ~call[t].direct,
           NEW queue \in Seq(Providers),
           NEW id \in Providers,
           NEW account1,
           Set(t, [at |-> "asked", mode |-> "fallback", queue |-> queue,
                   provider |-> id, account |-> account1])
    PROVE  Moves(t) /\ call'[t].at = "asked"
<1> DEFINE changes == [at |-> "asked", mode |-> "fallback", queue |-> queue,
                       provider |-> id, account |-> account1]
<1>1. Set(t, changes) /\ Typed(t) /\ SourceBound(t)
  BY DEF CallInv
<1>2. "req" \notin DOMAIN changes /\ "number" \notin DOMAIN changes
  OBVIOUS
<1>3. /\ call'[t].req = call[t].req
      /\ \A f \in {"at", "held", "selected", "source", "direct", "queue",
                     "mode", "provider", "stop", "moved"} :
            call'[t][f] = IF f \in DOMAIN changes THEN changes[f]
                          ELSE call[t][f]
  <2> HIDE DEF changes
  <2> QED
    BY <1>1, <1>2, SetFields
<1>4. /\ call'[t].at = "asked" /\ call'[t].held = call[t].held
      /\ call'[t].selected = call[t].selected
      /\ call'[t].source = call[t].source /\ call'[t].direct = call[t].direct
      /\ call'[t].queue = queue /\ call'[t].mode = "fallback"
      /\ call'[t].provider = id /\ call'[t].stop = call[t].stop
      /\ call'[t].moved = call[t].moved
  BY <1>3
<1> HIDE DEF changes
<1>5. SourceBound(t)'
  BY <1>1, <1>3, <1>4 DEF SourceBound, Req
<1> QED
  BY <1>1, <1>2, <1>4, <1>5, SetMoves DEF Typed, Places, Attempting

\* The source forbids a replacement.
LEMMA ForbidMoves ==
    ASSUME CallInv,
           NEW t \in Threads,
           UNCHANGED installed,
           call[t].at = "asked",
           NEW answer \in {"available", "unavailable"},
           Req(t).source \in Providers \cup {None},
           Set(t, [at |-> "next", direct |-> TRUE, mode |-> "none",
                   provider |-> None, selected |-> Req(t).source,
                   source |-> answer])
    PROVE  Moves(t) /\ call'[t].at = "next"
<1> DEFINE changes == [at |-> "next", direct |-> TRUE, mode |-> "none",
                       provider |-> None, selected |-> Req(t).source,
                       source |-> answer]
<1>1. Set(t, changes) /\ Typed(t) /\ SourceBound(t)
  BY DEF CallInv
<1>2. "req" \notin DOMAIN changes /\ "number" \notin DOMAIN changes
  OBVIOUS
<1>3. /\ call'[t].req = call[t].req
      /\ \A f \in {"at", "held", "selected", "source", "direct", "queue",
                     "mode", "provider", "stop", "moved"} :
            call'[t][f] = IF f \in DOMAIN changes THEN changes[f]
                          ELSE call[t][f]
  <2> HIDE DEF changes
  <2> QED
    BY <1>1, <1>2, SetFields
<1>4. /\ call'[t].at = "next" /\ call'[t].held = call[t].held
      /\ call'[t].selected = Req(t).source /\ call'[t].source = answer
      /\ call'[t].direct = TRUE /\ call'[t].queue = call[t].queue
      /\ call'[t].mode = "none" /\ call'[t].provider = None
      /\ call'[t].stop = call[t].stop /\ call'[t].moved = call[t].moved
  BY <1>3
<1> HIDE DEF changes
<1>5. SourceBound(t)'
  BY <1>1, <1>3, <1>4 DEF SourceBound, Req
<1> QED
  BY <1>1, <1>2, <1>4, <1>5, SetMoves DEF Typed, Places, Attempting

\* A fallback has the track.
LEMMA AvailableMoves ==
    ASSUME CallInv,
           NEW t \in Threads,
           UNCHANGED installed,
           call[t].at = "asked",
           NEW stop,
           Set(t, [at |-> "lock", stop |-> stop])
    PROVE  Moves(t) /\ call'[t].at = "lock"
<1> DEFINE changes == [at |-> "lock", stop |-> stop]
<1>1. Set(t, changes) /\ Typed(t) /\ SourceBound(t)
  BY DEF CallInv
<1>2. "req" \notin DOMAIN changes /\ "number" \notin DOMAIN changes
  OBVIOUS
<1>3. /\ call'[t].req = call[t].req
      /\ \A f \in {"at", "held", "selected", "source", "direct", "queue",
                     "mode", "provider", "stop", "moved"} :
            call'[t][f] = IF f \in DOMAIN changes THEN changes[f]
                          ELSE call[t][f]
  <2> HIDE DEF changes
  <2> QED
    BY <1>1, <1>2, SetFields
<1>4. /\ call'[t].at = "lock" /\ call'[t].held = call[t].held
      /\ call'[t].selected = call[t].selected
      /\ call'[t].source = call[t].source /\ call'[t].direct = call[t].direct
      /\ call'[t].queue = call[t].queue /\ call'[t].mode = call[t].mode
      /\ call'[t].provider = call[t].provider /\ call'[t].stop = stop
      /\ call'[t].moved = call[t].moved
  BY <1>3
<1> HIDE DEF changes
<1>5. SourceBound(t)'
  BY <1>1, <1>3, <1>4 DEF SourceBound, Req
<1> QED
  BY <1>1, <1>2, <1>4, <1>5, SetMoves DEF Typed, Places, Attempting

\* The file is delivered, for the planned path or another.
LEMMA DeliverMoves ==
    ASSUME CallInv,
           NEW t \in Threads,
           UNCHANGED installed,
           call[t].at = "download",
           NEW moved \in BOOLEAN,
           Set(t, [at |-> IF moved THEN "relock" ELSE "publish",
                   moved |-> moved])
    PROVE  Moves(t) /\ call'[t].at = (IF moved THEN "relock" ELSE "publish")
           /\ call'[t].moved = moved
           /\ call'[t].provider = call[t].provider
<1> DEFINE changes == [at |-> IF moved THEN "relock" ELSE "publish",
                       moved |-> moved]
<1>1. Set(t, changes) /\ Typed(t) /\ SourceBound(t)
  BY DEF CallInv
<1>2. "req" \notin DOMAIN changes /\ "number" \notin DOMAIN changes
  OBVIOUS
<1>3. /\ call'[t].req = call[t].req
      /\ \A f \in {"at", "held", "selected", "source", "direct", "queue",
                     "mode", "provider", "stop", "moved"} :
            call'[t][f] = IF f \in DOMAIN changes THEN changes[f]
                          ELSE call[t][f]
  <2> HIDE DEF changes
  <2> QED
    BY <1>1, <1>2, SetFields
<1>4. /\ call'[t].at = (IF moved THEN "relock" ELSE "publish")
      /\ call'[t].held = call[t].held /\ call'[t].selected = call[t].selected
      /\ call'[t].source = call[t].source /\ call'[t].direct = call[t].direct
      /\ call'[t].queue = call[t].queue /\ call'[t].mode = call[t].mode
      /\ call'[t].provider = call[t].provider /\ call'[t].stop = call[t].stop
      /\ call'[t].moved = moved
  BY <1>3
<1> HIDE DEF changes
<1>5. SourceBound(t)'
  BY <1>1, <1>3, <1>4 DEF SourceBound, Req
<1> QED
  BY <1>1, <1>2, <1>4, <1>5, SetMoves DEF Typed, Places, Attempting

-----------------------------------------------------------------------------
(* The steps of a running request. *)

\* What a request carries.
LEMMA RequestTyped ==
    ASSUME NEW q \in Requests
    PROVE  /\ q.item \in Items /\ q.path \in Paths
           /\ q.source \in Providers \cup {None}
           /\ q.service \in Providers \cup {None}
           /\ q.variant \in BOOLEAN /\ q.fallback \in BOOLEAN
           /\ Elsewhere[q.path] \in Paths /\ Elsewhere[q.path] # q.path
<1>1. q \in [item : Items, source : Providers \cup {None},
             service : Providers \cup {None}, fallback : BOOLEAN,
             path : Paths, variant : BOOLEAN]
  BY PlannerAssumption
<1>2. q.path \in Paths
  BY <1>1
<1>3. Elsewhere[q.path] \in Paths /\ Elsewhere[q.path] # q.path
  BY <1>2, PlannerAssumption
<1> QED
  BY <1>1, <1>3

\* The providers are tried in some order of providers.
LEMMA OrderTyped ==
    ASSUME NEW q \in Requests, NEW protected, NEW selected, NEW health
    PROVE  Healthy(Order(q), protected, selected, health) \in Seq(Providers)
<1>1. Order(q) \in Seq(Providers)
  <2>1. Priority \in Seq(Providers)
    BY PlannerAssumption
  <2>2. Keep(Providers \ {q.service})[Priority] \in Seq(Providers)
    BY <2>1, KeepTyped
  <2>3. q.service # None =>
          <<q.service>> \o Keep(Providers \ {q.service})[Priority]
              \in Seq(Providers)
    <3>1. q.service # None => <<q.service>> \in Seq(Providers)
      BY RequestTyped
    <3> QED
      BY <2>2, <3>1
  <2>4. SessionProvider(q) # None => <<SessionProvider(q)>> \in Seq(Providers)
    BY RequestTyped DEF SessionProvider
  <2> QED
    BY <2>1, <2>3, <2>4 DEF Order
<1> DEFINE list == Order(q)
<1> HIDE DEF list
<1>2. Healthy(list, protected, selected, health) \in Seq(Providers)
  <2>0. list \in Seq(Providers)
    BY <1>1 DEF list
  <2> DEFINE unasked(id) ==
                id = protected \/ id \notin Allowed \/ id \notin installed
             rank(id) == IF unasked(id) THEN "unknown" ELSE health[id]
             group(r) == Keep({id \in Providers : rank(id) = r})[list]
             ordered == group("online") \o group("degraded")
                            \o group("unknown")
  <2>1. \A r : group(r) \in Seq(Providers)
    <3> SUFFICES ASSUME NEW r PROVE group(r) \in Seq(Providers)
      OBVIOUS
    <3> DEFINE S == {id \in Providers : rank(id) = r}
    <3> HIDE DEF S
    <3>1. Keep(S)[list] \in Seq(Providers)
      BY <2>0, KeepTyped
    <3> QED
      BY <3>1 DEF S
  <2>2. ordered \in Seq(Providers)
    <3>1. /\ group("online") \in Seq(Providers)
          /\ group("degraded") \in Seq(Providers)
          /\ group("unknown") \in Seq(Providers)
      BY <2>1, Zenon
    <3> HIDE DEF group
    <3> QED
      BY <3>1
  <2> HIDE DEF ordered
  <2>3. /\ Keep({selected})[ordered] \in Seq(Providers)
        /\ Keep(Providers \ {selected})[ordered] \in Seq(Providers)
    BY <2>2, KeepTyped
  <2>4. Healthy(list, protected, selected, health)
            = Keep({selected})[ordered] \o Keep(Providers \ {selected})[ordered]
    BY Zenon DEF Healthy, ordered
  <2> QED
    BY <2>3, <2>4
<1> QED
  BY <1>2 DEF list

\* A failed attempt: the request ends, or goes on with the next provider.
LEMMA SettleMoves ==
    ASSUME CallInv, NEW t \in Threads, UNCHANGED installed, NEW kind,
           call[t].at \in {"lock", "download"}, Settle(t, kind)
    PROVE  Moves(t) /\ call'[t].at \in {"answered", "source", "next"}
<1>1. Typed(t) /\ SourceBound(t) /\ call[t].at # "idle"
  BY DEF CallInv
<1>2. CASE StopsHere(t, kind)
  BY <1>1, <1>2, AnswerMoves DEF Settle
<1>3. CASE ~StopsHere(t, kind)
  <2>1. ~(call[t].source # "none" /\ Req(t).source \in installed)
    BY <1>1, <1>3 DEF StopsHere, SourceBound
  <2>2. CASE call[t].mode = "retry"
    <3>1. Set(t, [at |-> "source"])
      BY <1>3, <2>2 DEF Settle
    <3>2. "source" \in Places \ {"idle", "relock"}
          /\ "source" \notin Attempting /\ ~call[t].moved
      BY <1>1 DEF Places, Attempting, Typed
    <3> QED
      BY <1>1, <2>1, <3>1, <3>2, PlaceMoves
  <2>3. CASE call[t].mode # "retry"
    <3>1. Onward(t)
      BY <1>3, <2>3 DEF Settle
    <3> QED
      BY <2>1, <3>1, OnwardMoves
  <2> QED
    BY <2>2, <2>3
<1> QED
  BY <1>2, <1>3

-----------------------------------------------------------------------------
(* The steps before an attempt: nothing is locked, nothing written. *)

PlanStep(t) ==
    \/ Join(t)
    \/ PreflightRefused(t) \/ Preflight(t) \/ VerifiedRetry(t) \/ AskSource(t)
    \/ Expand(t) \/ Exhausted(t) \/ Direct(t) \/ Fallback(t)
    \/ \E a \in Answers : \/ RetryAnswered(t, a) \/ SourceAnswered(t, a)
                          \/ FallbackAnswered(t, a)
    \/ \E verify \in BOOLEAN : AskingFails(t, verify)
    \/ NoQuality(t)

\* Each of them leaves a well-formed record, before the output lock.
LEMMA PlanMoves ==
    ASSUME CallInv, SettingsInv, NEW t \in Threads, PlanStep(t)
    PROVE  /\ Moves(t) /\ UNCHANGED files
           /\ call[t].at \notin Holding /\ call'[t].at \notin Holding
<1> USE DEF Holding
<1> DEFINE Goal == /\ Moves(t) /\ UNCHANGED files
                   /\ call[t].at \notin Holding /\ call'[t].at \notin Holding
<1>1. Typed(t) /\ SourceBound(t) /\ installed \subseteq Providers
  BY DEF CallInv, SettingsInv
<1>2. call[t].at # "idle" => Req(t) \in Requests
  BY <1>1 DEF Typed
<1>3. call[t].at \in {"preflight", "retry", "source", "asked"} =>
         ~(call[t].source # "none" /\ Req(t).source \in installed)
  BY <1>1 DEF SourceBound
<1>4. call[t].at \notin {"relock", "publish"} => ~call[t].moved
  BY <1>1 DEF Typed
<1>5. {"source", "retry", "lock", "reporting"} \subseteq
         Places \ {"idle", "relock"}
  BY DEF Places
<1>6. {"source", "retry"} \cap Attempting = {}
  BY DEF Attempting
<1>7. call[t].at = "asked" => call[t].provider \in Providers
  BY <1>1 DEF Typed, Attempting
<1>a. ASSUME Join(t) PROVE Goal
  BY <1>a, JoinMoves DEF Join, settings, files
<1>b. ASSUME PreflightRefused(t) PROVE Goal
  BY <1>b, AnswerMoves DEF PreflightRefused, At
<1>c. ASSUME Preflight(t) PROVE Goal
  <2> DEFINE place == IF Challenged(t) THEN "retry" ELSE "source"
  <2>1. /\ call[t].at = "preflight" /\ UNCHANGED <<files, installed>>
        /\ Set(t, [at |-> place])
    BY <1>c DEF Preflight, At, settings
  <2>2. place \in {"retry", "source"}
    OBVIOUS
  <2> HIDE DEF place
  <2>3. Moves(t) /\ call'[t].at = place
    BY <1>3, <1>4, <1>5, <1>6, <2>1, <2>2, PlaceMoves
  <2> QED
    BY <2>1, <2>2, <2>3
<1>d. ASSUME VerifiedRetry(t) PROVE Goal
  <2> DEFINE id == call[t].selected
             applies == /\ id \in installed
                        /\ Req(t).source \in {None, id}
                           \/ Req(t).source \notin installed
             place == IF Req(t).source = id THEN "lock" ELSE "asked"
  <2>1. /\ call[t].at = "retry" /\ UNCHANGED <<files, installed>>
        /\ IF ~applies THEN Set(t, [at |-> "source"])
           ELSE Set(t, [at |-> place, mode |-> "retry", provider |-> id])
    BY <1>d DEF VerifiedRetry, At, settings
  <2>2. place \in {"lock", "asked"} /\ (applies => id \in Providers)
    BY <1>1
  <2> HIDE DEF place, applies
  <2>3. CASE ~applies
    BY <1>3, <1>4, <1>5, <1>6, <2>1, <2>3, PlaceMoves
  <2>4. CASE applies
    BY <2>1, <2>2, <2>4, AskMoves
  <2> QED
    BY <2>3, <2>4
<1>e. ASSUME AskSource(t) PROVE Goal
  <2>1. call[t].at = "source" /\ UNCHANGED <<files, installed>>
    BY <1>e DEF AskSource, At, settings
  <2>2. CASE SourceAsked(t)
    <3>1. /\ Req(t).source \in Providers
          /\ Set(t, [at |-> "asked", mode |-> "source",
                     provider |-> Req(t).source])
      BY <1>1, <1>e, <2>2 DEF AskSource, SourceAsked
    <3>2. Moves(t) /\ call'[t].at = "asked"
      BY <2>1, <3>1, AskMoves
    <3> QED
      BY <2>1, <3>2
  <2>3. CASE ~SourceAsked(t)
    <3> DEFINE direct == Req(t).source # None
                         /\ call[t].selected = Req(t).source
    <3>1. Set(t, [at |-> "next", direct |-> direct])
      BY <1>e, <2>3 DEF AskSource
    <3> HIDE DEF direct
    <3> QED
      BY <2>1, <3>1, SkipSourceMoves
  <2> QED
    BY <2>2, <2>3
<1>f. ASSUME Expand(t) PROVE Goal
  <2>1. /\ call[t].at = "next" /\ ~call[t].direct
        /\ UNCHANGED <<files, installed>>
    BY <1>f DEF Expand, At, settings
  <2>2. PICK health \in [Providers -> {"online", "degraded", "offline"}] :
          Set(t, [expanded |-> TRUE,
                  queue |-> Healthy(Order(Req(t)),
                                    IF call[t].selected = None
                                    THEN Req(t).source ELSE call[t].selected,
                                    call[t].selected, health)])
    BY <1>f DEF Expand
  <2> DEFINE protected == IF call[t].selected = None
                          THEN Req(t).source ELSE call[t].selected
             queue == Healthy(Order(Req(t)), protected, call[t].selected,
                              health)
  <2>3. queue \in Seq(Providers)
    <3> HIDE DEF protected
    <3> QED
      BY <1>2, <2>1, OrderTyped
  <2>4. Set(t, [expanded |-> TRUE, queue |-> queue])
    BY <2>2
  <2> HIDE DEF queue
  <2> QED
    BY <2>1, <2>3, <2>4, ExpandMoves
<1>g. ASSUME Exhausted(t) PROVE Goal
  BY <1>g, AnswerMoves DEF Exhausted, At
<1>h. ASSUME Direct(t) PROVE Goal
  <2>1. call[t].at = "next" /\ UNCHANGED <<files, installed>>
    BY <1>h DEF Direct, At, settings
  <2>2. CASE Req(t).source \notin installed
    <3>1. Set(t, [direct |-> FALSE])
      BY <1>h, <2>2 DEF Direct
    <3> QED
      BY <2>1, <2>2, <3>1, UnloadedMoves
  <2>3. CASE Req(t).source \in installed /\ call[t].source = "unavailable"
    <3>1. Answer(t, FALSE)
      BY <1>h, <2>3 DEF Direct
    <3> QED
      BY <2>1, <3>1, AnswerMoves
  <2>4. CASE Req(t).source \in installed /\ call[t].source # "unavailable"
    <3> DEFINE account1 == Req(t).source \in account
               stop == call[t].source # "none" \/ Req(t).source \in account
    <3>1. Set(t, [at |-> "lock", mode |-> "direct", direct |-> FALSE,
                  provider |-> Req(t).source, account |-> account1,
                  stop |-> stop])
      BY <1>h, <2>4 DEF Direct
    <3>2. /\ stop \in BOOLEAN /\ (call[t].source # "none" => stop)
          /\ Req(t).source \in Providers
      BY <1>1, <2>4
    <3> HIDE DEF account1, stop
    <3>3. Moves(t) /\ call'[t].at = "lock"
      BY <2>1, <3>1, <3>2, DirectMoves
    <3> QED
      BY <2>1, <3>3
  <2> QED
    BY <2>2, <2>3, <2>4
<1>i. ASSUME Fallback(t) PROVE Goal
  <2> DEFINE id == Head(call[t].queue)
             rest == Tail(call[t].queue)
             account1 == id \in account
  <2>1. /\ call[t].at = "next" /\ ~call[t].direct
        /\ call[t].queue # <<>> /\ UNCHANGED <<files, installed>>
    BY <1>i DEF Fallback, At, settings
  <2>2. IF Skipped(t, id) THEN Set(t, [queue |-> rest])
        ELSE Set(t, [at |-> "asked", mode |-> "fallback", queue |-> rest,
                     provider |-> id, account |-> account1])
    BY <1>i DEF Fallback
  <2>3. call[t].queue \in Seq(Providers)
    BY <1>1 DEF Typed
  <2>4. id \in Providers /\ rest \in Seq(Providers)
    BY <2>1, <2>3
  <2> HIDE DEF id, rest, account1
  <2>5. CASE Skipped(t, id)
    BY <2>1, <2>2, <2>4, <2>5, SkipMoves
  <2>6. CASE ~Skipped(t, id)
    BY <2>1, <2>2, <2>4, <2>6, FallbackMoves
  <2> QED
    BY <2>5, <2>6
<1>j. ASSUME NEW a \in Answers, RetryAnswered(t, a) PROVE Goal
  <2>1. call[t].at = "asked" /\ UNCHANGED <<files, installed>>
    BY <1>j DEF RetryAnswered, At, settings
  <2>2. \/ Set(t, [at |-> "lock"]) \/ Answer(t, FALSE)
        \/ Set(t, [at |-> "source"])
    BY <1>j DEF RetryAnswered, Answers
  <2>3. ASSUME Set(t, [at |-> "lock"]) PROVE Goal
    BY <1>3, <1>4, <1>5, <1>7, <2>1, <2>3, PlaceMoves
  <2>4. ASSUME Answer(t, FALSE) PROVE Goal
    BY <2>1, <2>4, AnswerMoves
  <2>5. ASSUME Set(t, [at |-> "source"]) PROVE Goal
    BY <1>3, <1>4, <1>5, <1>6, <2>1, <2>5, PlaceMoves
  <2> QED
    BY <2>2, <2>3, <2>4, <2>5
<1>k. ASSUME NEW a \in Answers, SourceAnswered(t, a) PROVE Goal
  <2>1. call[t].at = "asked" /\ UNCHANGED <<files, installed>>
    BY <1>k DEF SourceAnswered, At, settings
  <2> DEFINE answer == IF a.available THEN "available" ELSE "unavailable"
  <2>2. \/ Set(t, [at |-> "next", direct |-> TRUE, mode |-> "none",
                   provider |-> None, selected |-> Req(t).source,
                   source |-> answer])
        \/ Onward(t)
    BY <1>k DEF SourceAnswered
  <2>3. ASSUME Onward(t) PROVE Goal
    BY <1>3, <2>1, <2>3, OnwardMoves
  <2>4. answer \in {"available", "unavailable"}
        /\ Req(t).source \in Providers \cup {None}
    BY <1>2, <2>1, RequestTyped
  <2> HIDE DEF answer
  <2>5. ASSUME Set(t, [at |-> "next", direct |-> TRUE, mode |-> "none",
                       provider |-> None, selected |-> Req(t).source,
                       source |-> answer])
        PROVE  Goal
    BY <2>1, <2>4, <2>5, ForbidMoves
  <2> QED
    BY <2>2, <2>3, <2>5
<1>l. ASSUME NEW a \in Answers, FallbackAnswered(t, a) PROVE Goal
  <2>1. call[t].at = "asked" /\ UNCHANGED <<files, installed>>
    BY <1>l DEF FallbackAnswered, At, settings
  <2> DEFINE stop == a.stop \/ call[t].account
  <2>2. \/ Set(t, [at |-> "lock", stop |-> stop]) \/ Answer(t, FALSE)
        \/ Onward(t)
    BY <1>l DEF FallbackAnswered, Answers
  <2> HIDE DEF stop
  <2>3. ASSUME Set(t, [at |-> "lock", stop |-> stop]) PROVE Goal
    <3>1. Moves(t) /\ call'[t].at = "lock"
      BY <2>1, <2>3, AvailableMoves
    <3> QED
      BY <2>1, <3>1
  <2>4. ASSUME Answer(t, FALSE) PROVE Goal
    BY <2>1, <2>4, AnswerMoves
  <2>5. ASSUME Onward(t) PROVE Goal
    BY <1>3, <2>1, <2>5, OnwardMoves
  <2> QED
    BY <2>2, <2>3, <2>4, <2>5
<1>m. ASSUME NEW verify \in BOOLEAN, AskingFails(t, verify) PROVE Goal
  <2>1. call[t].at = "asked" /\ UNCHANGED <<files, installed>>
    BY <1>m DEF AskingFails, At, settings
  <2>2. Onward(t) \/ Set(t, [at |-> "source"]) \/ Answer(t, FALSE)
    BY <1>m DEF AskingFails
  <2>3. ASSUME Onward(t) PROVE Goal
    BY <1>3, <2>1, <2>3, OnwardMoves
  <2>4. ASSUME Set(t, [at |-> "source"]) PROVE Goal
    BY <1>3, <1>4, <1>5, <1>6, <2>1, <2>4, PlaceMoves
  <2>5. ASSUME Answer(t, FALSE) PROVE Goal
    BY <2>1, <2>5, AnswerMoves
  <2> QED
    BY <2>2, <2>3, <2>4, <2>5
<1>n. ASSUME NoQuality(t) PROVE Goal
  BY <1>n, SettleMoves DEF NoQuality, At, settings
<1> QED
  BY <1>a, <1>b, <1>c, <1>d, <1>e, <1>f, <1>g, <1>h, <1>i, <1>j, <1>k,
     <1>l, <1>m, <1>n DEF PlanStep

-----------------------------------------------------------------------------
(* What a move does to the parts of the invariant. *)

\* The records stay well formed.
LEMMA MovesCall ==
    ASSUME CallInv, NEW t \in Threads, Moves(t), UNCHANGED installed
    PROVE  CallInv'
<1>1. ASSUME NEW u \in Threads PROVE (Typed(u) /\ SourceBound(u))'
  <2>1. CASE u = t
    BY <2>1 DEF Moves
  <2>2. CASE u # t
    <3>1. call'[u] = call[u]
      BY <2>2 DEF Moves
    <3> QED
      BY <3>1 DEF CallInv, Typed, SourceBound, Req
  <2> QED
    BY <2>1, <2>2
<1>2. call' = [u \in Threads |-> call'[u]]
  BY DEF Moves
<1> QED
  BY <1>1, <1>2 DEF CallInv

\* The numbers stay as they are.
LEMMA MovesNumber ==
    ASSUME NumberInv, NEW t \in Threads, Moves(t), UNCHANGED started
    PROVE  NumberInv'
<1>1. \A u \in Threads : /\ call'[u].number = call[u].number
                         /\ call'[u].at # "idle" <=> call[u].at # "idle"
  BY DEF Moves
<1> QED
  BY <1>1 DEF NumberInv

\* A running request may show its item as active.
LEMMA MovesProgress ==
    ASSUME ProgressInv, NEW t \in Threads, Moves(t),
           progress' \in [Items -> {"absent", "active", "completed"}],
           \A i \in Items : progress'[i] = "active"
              => progress[i] = "active" \/ i = Req(t).item
    PROVE  ProgressInv'
<1>1. \A u \in Threads : /\ call'[u].req = call[u].req
                         /\ call'[u].at # "idle" <=> call[u].at # "idle"
  BY DEF Moves
<1>2. call[t].at # "idle"
  BY DEF Moves
<1>3. ASSUME NEW i \in Items, progress'[i] = "active"
      PROVE  \E u \in Threads : call'[u].at # "idle" /\ call'[u].req.item = i
  <2>1. CASE progress[i] = "active"
    BY <1>1, <2>1 DEF ProgressInv, NoGhostProgress, Req
  <2>2. CASE i = Req(t).item
    BY <1>1, <1>2, <2>2 DEF Req
  <2> QED
    BY <1>3, <2>1, <2>2
<1> QED
  BY <1>3 DEF ProgressInv, NoGhostProgress, Req

FilesInv == LockInv /\ LibraryInv /\ DirectoryInv

\* The threads that do not move see their request as before.
LEMMA OthersKeep ==
    ASSUME NEW t \in Threads, Moves(t), NEW u \in Threads, u # t
    PROVE  /\ call'[u] = call[u]
           /\ Destination(u)' = Destination(u)
           /\ OwnDirectory(u)' = OwnDirectory(u)
           /\ Req(u)' = Req(u)
<1>1. call'[u] = call[u]
  BY DEF Moves
<1> QED
  BY <1>1 DEF Destination, OwnDirectory, Req

\* The path that a request writes is a path.
LEMMA TypedDestination ==
    ASSUME CallInv, NEW t \in Threads, call[t].at # "idle"
    PROVE  Destination(t) \in Paths /\ Req(t) \in Requests
<1>1. Req(t) \in Requests
  BY DEF CallInv, Typed
<1> QED
  BY <1>1, RequestTyped DEF Destination

\* A step beside the files.
LEMMA AsideFiles ==
    ASSUME FilesInv, NEW t \in Threads, Moves(t), UNCHANGED files,
           \/ call[t].at \notin Holding /\ call'[t].at \notin Holding
           \/ /\ call'[t].at = call[t].at /\ call'[t].moved = call[t].moved
              /\ call'[t].provider = call[t].provider
    PROVE  FilesInv'
<1>1. \A u \in Threads :
         \/ call[u].at \notin Holding /\ call'[u].at \notin Holding
         \/ /\ call'[u].at = call[u].at /\ call'[u].moved = call[u].moved
            /\ Destination(u)' = Destination(u)
            /\ OwnDirectory(u)' = OwnDirectory(u) /\ Req(u)' = Req(u)
            /\ call'[u].provider = call[u].provider
  <2>1. /\ call'[t].req = call[t].req /\ call'[t].number = call[t].number
        /\ \A u \in Threads : u # t => call'[u] = call[u]
    BY DEF Moves
  <2> QED
    BY <2>1 DEF Destination, OwnDirectory, Req
<1>2. library' = library /\ lock' = lock /\ dirs' = dirs
  BY DEF files
<1>3. LockInv'
  BY <1>1, <1>2 DEF FilesInv, LockInv
<1>4. LibraryInv'
  BY <1>1, <1>2 DEF FilesInv, LibraryInv
<1>5. DirectoryInv'
  BY <1>1, <1>2 DEF FilesInv, DirectoryInv, Owned
<1> QED
  BY <1>3, <1>4, <1>5 DEF FilesInv

\* An attempt ends: the lock and the directory are given back, and nobody
\* else's.
LEMMA LeaveLocks ==
    ASSUME CallInv, FilesInv, NumberInv, NEW t \in Threads, Moves(t),
           LeaveAttempt(t), call'[t].at \notin Holding
    PROVE  LockInv' /\ DirectoryInv'
<1>1. /\ lock \in [Paths -> Threads \cup {None}]
      /\ lock' = [p \in Paths |-> IF lock[p] = t THEN None ELSE lock[p]]
      /\ dirs' = dirs \ {OwnDirectory(t)} /\ None \notin Threads
  BY PlannerAssumption DEF FilesInv, LockInv, LeaveAttempt, Unlocked
<1>2. ASSUME NEW u \in Threads, u # t
      PROVE  /\ call'[u] = call[u] /\ Destination(u)' = Destination(u)
             /\ OwnDirectory(u)' = OwnDirectory(u) /\ Req(u)' = Req(u)
  BY <1>2, OthersKeep
<1>3. LockInv'
  <2>1. lock' \in [Paths -> Threads \cup {None}]
    BY <1>1
  <2>2. ASSUME NEW u \in Threads, call'[u].at \in Holding
        PROVE  (lock[Destination(u)])' = u
    <3>1. u # t
      BY <2>2
    <3>2. call[u].at \in Holding /\ Destination(u)' = Destination(u)
      BY <1>2, <2>2, <3>1
    <3>3. lock[Destination(u)] = u
      BY <3>2 DEF FilesInv, LockInv
    <3>4. call[u].at # "idle"
      BY <3>2 DEF Holding
    <3>5. Destination(u) \in Paths
      BY <3>4, TypedDestination
    <3> QED
      BY <1>1, <3>1, <3>2, <3>3, <3>5
  <2>3. ASSUME NEW p \in Paths, NEW u \in Threads, lock'[p] = u
        PROVE  call'[u].at \in Holding /\ p = Destination(u)'
    <3>1. lock[p] = u /\ u # t
      BY <1>1, <2>3
    <3> QED
      BY <1>2, <3>1 DEF FilesInv, LockInv
  <2> QED
    BY <2>1, <2>2, <2>3 DEF LockInv
<1>4. DirectoryInv'
  <2>1. ASSUME NEW u \in Threads, call'[u].at \in Holding, ~call'[u].moved
        PROVE  Owned(u)'
    <3>1. u # t /\ call[u].at \in Holding /\ ~call[u].moved
      BY <1>2, <2>1
    <3>2. Owned(u) /\ call[u].at # "idle" /\ call[t].at # "idle"
      BY <3>1 DEF FilesInv, DirectoryInv, Holding, Moves
    <3>3. call[u].number # call[t].number
      BY <3>1, <3>2 DEF NumberInv
    <3>4. OwnDirectory(u) # OwnDirectory(t)
      BY <3>3 DEF OwnDirectory
    <3> QED
      BY <1>1, <1>2, <3>1, <3>2, <3>4 DEF Owned
  <2> QED
    BY <1>1, <2>1 DEF FilesInv, DirectoryInv
<1> QED
  BY <1>3, <1>4

\* An attempt ends without a file.
LEMMA LeaveFiles ==
    ASSUME CallInv, FilesInv, NumberInv, NEW t \in Threads, Moves(t),
           LeaveAttempt(t), UNCHANGED library, call'[t].at \notin Holding
    PROVE  FilesInv'
<1>1. LockInv' /\ DirectoryInv'
  BY LeaveLocks
<1>2. LibraryInv'
  BY OthersKeep DEF FilesInv, LibraryInv
<1> QED
  BY <1>1, <1>2 DEF FilesInv

-----------------------------------------------------------------------------
(* The steps of an attempt: lock, download, move elsewhere, publish. *)

\* Whoever holds the lock of the planned path has its directory to itself:
\* the lock is free when the directories are reclaimed.
LEMMA LockStep ==
    ASSUME CallInv, FilesInv, NumberInv, NEW t \in Threads, Lock(t)
    PROVE  Moves(t) /\ FilesInv'
<1> DEFINE p == Req(t).path
<1>1. /\ call[t].at = "lock" /\ Typed(t) /\ SourceBound(t)
      /\ lock[p] = None /\ UNCHANGED <<library, installed>>
  BY DEF Lock, At, CallInv, settings
<1>2. /\ p \in Paths /\ call[t].provider \in Providers /\ ~call[t].moved
      /\ Req(t) \in Requests /\ None \notin Threads
  BY <1>1, RequestTyped, PlannerAssumption DEF Typed, Attempting
<1>3. ASSUME NEW u \in Threads, u # t, call[u].at \in Holding, ~call[u].moved
      PROVE  Req(u).path # p
  <2>1. lock[Destination(u)] = u /\ Destination(u) = Req(u).path
    BY <1>3 DEF FilesInv, LockInv, Destination
  <2> QED
    BY <1>1, <1>2, <2>1
<1>4. dirs \subseteq Directories
  BY DEF FilesInv, DirectoryInv
<1>5. CASE Exists(t)
  <2>1. /\ dirs' = Remains(t) /\ Answer(t, TRUE) /\ lock' = lock
    BY <1>5 DEF Lock
  <2>2. Moves(t) /\ call'[t].at = "answered"
    BY <1>1, <2>1, AnswerMoves
  <2>3. ASSUME NEW u \in Threads, u # t
        PROVE  /\ call'[u] = call[u] /\ Destination(u)' = Destination(u)
               /\ OwnDirectory(u)' = OwnDirectory(u) /\ Req(u)' = Req(u)
    BY <2>2, <2>3, OthersKeep
  <2>4. call[t].at \notin Holding /\ call'[t].at \notin Holding
    BY <1>1, <2>2 DEF Holding
  <2>5. LockInv'
    BY <1>2, <2>1, <2>3, <2>4 DEF FilesInv, LockInv
  <2>6. LibraryInv'
    BY <1>1, <2>3, <2>4 DEF FilesInv, LibraryInv
  <2>7. DirectoryInv'
    <3>1. ASSUME NEW u \in Threads, call'[u].at \in Holding, ~call'[u].moved
          PROVE  Owned(u)'
      <4>1. u # t /\ call[u].at \in Holding /\ ~call[u].moved
        BY <2>3, <2>4, <3>1
      <4>2. Owned(u) /\ Req(u).path # p
        BY <1>3, <4>1 DEF FilesInv, DirectoryInv
      <4>3. OwnDirectory(u) \in dirs'
        BY <2>1, <4>2 DEF Owned, Remains, OwnDirectory
      <4>4. dirs' \subseteq dirs
        BY <2>1 DEF Remains
      <4> QED
        BY <2>3, <4>1, <4>2, <4>3, <4>4 DEF Owned
    <3> QED
      BY <1>4, <2>1, <3>1 DEF DirectoryInv, Remains
  <2> QED
    BY <2>2, <2>5, <2>6, <2>7 DEF FilesInv
<1>6. CASE ~Exists(t)
  <2>1. /\ lock' = [lock EXCEPT ![p] = t]
        /\ dirs' = Remains(t) \cup {OwnDirectory(t)}
        /\ Set(t, [at |-> "download"])
    BY <1>6 DEF Lock
  <2>2. /\ Moves(t) /\ call'[t].at = "download" /\ call'[t].moved = call[t].moved
        /\ call'[t].provider = call[t].provider
    <3>1. "download" \in Places \ {"idle", "relock"}
      BY DEF Places
    <3> QED
      BY <1>1, <1>2, <2>1, <3>1, PlaceMoves
  <2>3. ASSUME NEW u \in Threads, u # t
        PROVE  /\ call'[u] = call[u] /\ Destination(u)' = Destination(u)
               /\ OwnDirectory(u)' = OwnDirectory(u) /\ Req(u)' = Req(u)
    BY <2>2, <2>3, OthersKeep
  <2>4. /\ Req(t)' = Req(t) /\ Destination(t)' = p
        /\ OwnDirectory(t)' = OwnDirectory(t) /\ ~call'[t].moved
    BY <1>2, <2>2 DEF Moves, Req, Destination, OwnDirectory
  <2>5. LockInv'
    <3>1. lock' \in [Paths -> Threads \cup {None}]
      BY <1>2, <2>1 DEF FilesInv, LockInv
    <3>2. ASSUME NEW u \in Threads, call'[u].at \in Holding
          PROVE  (lock[Destination(u)])' = u
      <4>1. CASE u = t
        BY <1>2, <2>1, <2>4, <4>1 DEF FilesInv, LockInv
      <4>2. CASE u # t
        <5>1. /\ lock[Destination(u)] = u /\ call[u].at # "idle"
              /\ Destination(u)' = Destination(u)
          BY <2>3, <3>2, <4>2 DEF FilesInv, LockInv, Holding
        <5>2. Destination(u) \in Paths /\ Destination(u) # p
          BY <1>1, <1>2, <5>1, TypedDestination
        <5> QED
          BY <2>1, <5>1, <5>2 DEF FilesInv, LockInv
      <4> QED
        BY <4>1, <4>2
    <3>3. ASSUME NEW r \in Paths, NEW u \in Threads, lock'[r] = u
          PROVE  call'[u].at \in Holding /\ r = Destination(u)'
      <4>1. CASE r = p
        BY <2>1, <2>2, <2>4, <3>3, <4>1 DEF FilesInv, LockInv, Holding
      <4>2. CASE r # p
        <5>1. lock[r] = u
          BY <2>1, <3>3, <4>2 DEF FilesInv, LockInv
        <5>2. call[u].at \in Holding /\ r = Destination(u)
          BY <5>1 DEF FilesInv, LockInv
        <5>3. u # t
          BY <1>1, <5>2 DEF Holding
        <5> QED
          BY <2>3, <5>2, <5>3
      <4> QED
        BY <4>1, <4>2
    <3> QED
      BY <3>1, <3>2, <3>3 DEF LockInv
  <2>6. LibraryInv'
    <3>1. library[p] = 0 \/ Req(t).variant
      BY <1>6 DEF Exists
    <3> QED
      BY <1>1, <2>3, <2>4, <3>1 DEF FilesInv, LibraryInv
  <2>7. DirectoryInv'
    <3>1. OwnDirectory(t) \in Directories
      <4>1. call[t].number \in Numbers
        BY <1>1, PlannerAssumption DEF NumberInv, Numbers
      <4> QED
        BY <1>2, <4>1 DEF OwnDirectory, Directories
    <3>2. OwnDirectory(t).path = p /\ OwnDirectory(t).provider = call[t].provider
      BY DEF OwnDirectory
    <3>3. Owned(t)'
      BY <2>1, <2>2, <2>4 DEF Owned, Remains
    <3>4. ASSUME NEW u \in Threads, u # t, call'[u].at \in Holding,
                 ~call'[u].moved
          PROVE  Owned(u)'
      <4>1. call[u].at \in Holding /\ ~call[u].moved
        BY <2>3, <3>4
      <4>2. Owned(u) /\ Req(u).path # p
        BY <1>3, <3>4, <4>1 DEF FilesInv, DirectoryInv
      <4>3. OwnDirectory(u) \in dirs'
        BY <2>1, <4>2 DEF Owned, Remains, OwnDirectory
      <4>4. \A d \in dirs' : d \in dirs \/ d = OwnDirectory(t)
        BY <2>1 DEF Remains
      <4> QED
        BY <2>3, <3>2, <3>4, <4>2, <4>3, <4>4 DEF Owned
    <3> QED
      BY <1>4, <2>1, <3>1, <3>3, <3>4 DEF DirectoryInv, Remains
  <2> QED
    BY <2>2, <2>5, <2>6, <2>7 DEF FilesInv
<1> QED
  BY <1>5, <1>6

\* The planned path keeps its lock; for another path it is given back first.
LEMMA DeliveredStep ==
    ASSUME CallInv, FilesInv, NEW t \in Threads, NEW moved \in BOOLEAN,
           Delivered(t, moved)
    PROVE  Moves(t) /\ FilesInv'
<1>1. /\ call[t].at = "download" /\ Typed(t)
      /\ UNCHANGED <<library, dirs, installed>>
      /\ Set(t, [at |-> IF moved THEN "relock" ELSE "publish",
                 moved |-> moved])
      /\ lock' = IF moved THEN Unlocked(t) ELSE lock
  BY DEF Delivered, At, CallInv, settings
<1>2. /\ Moves(t) /\ call'[t].at = (IF moved THEN "relock" ELSE "publish")
      /\ call'[t].moved = moved /\ call'[t].provider = call[t].provider
  BY <1>1, DeliverMoves
<1>3. ASSUME NEW u \in Threads, u # t
      PROVE  /\ call'[u] = call[u] /\ Destination(u)' = Destination(u)
             /\ OwnDirectory(u)' = OwnDirectory(u) /\ Req(u)' = Req(u)
  BY <1>2, <1>3, OthersKeep
<1>4. /\ Req(t)' = Req(t) /\ OwnDirectory(t)' = OwnDirectory(t)
      /\ ~call[t].moved /\ None \notin Threads
  BY <1>1, <1>2, PlannerAssumption DEF Moves, Req, OwnDirectory, Typed
<1>5. CASE moved
  <2>1. call'[t].at \notin Holding
        /\ lock' = [p \in Paths |-> IF lock[p] = t THEN None ELSE lock[p]]
    BY <1>1, <1>2, <1>5 DEF Holding, Unlocked
  <2>2. LockInv'
    <3>1. lock' \in [Paths -> Threads \cup {None}]
      BY <2>1 DEF FilesInv, LockInv
    <3>2. ASSUME NEW u \in Threads, call'[u].at \in Holding
          PROVE  (lock[Destination(u)])' = u
      <4>1. /\ u # t /\ lock[Destination(u)] = u /\ call[u].at # "idle"
            /\ Destination(u)' = Destination(u)
        BY <1>3, <2>1, <3>2 DEF FilesInv, LockInv, Holding
      <4>2. Destination(u) \in Paths
        BY <4>1, TypedDestination
      <4> QED
        BY <2>1, <4>1, <4>2
    <3>3. ASSUME NEW r \in Paths, NEW u \in Threads, lock'[r] = u
          PROVE  call'[u].at \in Holding /\ r = Destination(u)'
      <4>1. lock[r] = u /\ u # t
        BY <1>4, <2>1, <3>3
      <4> QED
        BY <1>3, <4>1 DEF FilesInv, LockInv
    <3> QED
      BY <3>1, <3>2, <3>3 DEF LockInv
  <2>3. LibraryInv'
    BY <1>1, <1>3, <2>1 DEF FilesInv, LibraryInv
  <2>4. DirectoryInv'
    BY <1>1, <1>3, <2>1 DEF FilesInv, DirectoryInv, Owned
  <2> QED
    BY <1>2, <2>2, <2>3, <2>4 DEF FilesInv
<1>6. CASE ~moved
  <2>1. call'[t].at \in Holding /\ call[t].at \in Holding /\ ~call'[t].moved
    BY <1>1, <1>2, <1>6 DEF Holding
  <2>2. Destination(t)' = Destination(t)
    BY <1>4, <2>1 DEF Destination
  <2>3. lock' = lock
    BY <1>1, <1>6
  <2>4. LockInv'
    BY <1>3, <2>1, <2>2, <2>3 DEF FilesInv, LockInv
  <2>5. LibraryInv'
    BY <1>1, <1>3, <1>4, <2>1 DEF FilesInv, LibraryInv
  <2>6. DirectoryInv'
    BY <1>1, <1>2, <1>3, <1>4, <2>1 DEF FilesInv, DirectoryInv, Owned
  <2> QED
    BY <1>2, <2>4, <2>5, <2>6 DEF FilesInv
<1> QED
  BY <1>5, <1>6

\* The other path is free, and nobody has written it.
LEMMA RelockStep ==
    ASSUME CallInv, FilesInv, NumberInv, NEW t \in Threads, Relock(t)
    PROVE  Moves(t) /\ FilesInv'
<1> DEFINE p == Destination(t)
<1>1. /\ call[t].at = "relock" /\ Typed(t) /\ SourceBound(t)
      /\ lock[p] = None /\ UNCHANGED <<library, installed>>
  BY DEF Relock, At, CallInv, settings
<1>2. CASE library[p] # 0
  <2>1. LeaveAttempt(t) /\ Answer(t, FALSE)
    BY <1>2 DEF Relock
  <2>2. Moves(t) /\ call'[t].at \notin Holding
    BY <1>1, <2>1, AnswerMoves DEF Holding
  <2> QED
    BY <1>1, <2>1, <2>2, LeaveFiles
<1>3. CASE library[p] = 0
  <2>1. /\ lock' = [lock EXCEPT ![p] = t]
        /\ Set(t, [at |-> "publish"]) /\ UNCHANGED dirs
    BY <1>3 DEF Relock
  <2>2. call[t].moved /\ p \in Paths /\ None \notin Threads
        /\ call[t].provider \in Providers
    BY <1>1, TypedDestination, PlannerAssumption DEF Typed, Attempting
  <2>3. /\ Moves(t) /\ call'[t].at = "publish" /\ call'[t].moved = call[t].moved
    <3>1. "publish" \in Places \ {"idle", "relock"}
      BY DEF Places
    <3> QED
      BY <1>1, <2>1, <2>2, <3>1, PlaceMoves
  <2>4. ASSUME NEW u \in Threads, u # t
        PROVE  /\ call'[u] = call[u] /\ Destination(u)' = Destination(u)
               /\ OwnDirectory(u)' = OwnDirectory(u) /\ Req(u)' = Req(u)
    BY <2>3, <2>4, OthersKeep
  <2>5. Destination(t)' = p /\ call'[t].moved /\ call'[t].at \in Holding
    BY <2>2, <2>3 DEF Moves, Destination, Req, Holding
  <2>6. LockInv'
    <3>1. lock' \in [Paths -> Threads \cup {None}]
      BY <2>1 DEF FilesInv, LockInv
    <3>2. ASSUME NEW u \in Threads, call'[u].at \in Holding
          PROVE  (lock[Destination(u)])' = u
      <4>1. CASE u = t
        BY <2>1, <2>2, <2>5, <4>1 DEF FilesInv, LockInv
      <4>2. CASE u # t
        <5>1. /\ lock[Destination(u)] = u /\ call[u].at # "idle"
              /\ Destination(u)' = Destination(u)
          BY <2>4, <3>2, <4>2 DEF FilesInv, LockInv, Holding
        <5>2. Destination(u) \in Paths /\ Destination(u) # p
          BY <1>1, <2>2, <5>1, TypedDestination
        <5> HIDE DEF p
        <5> QED
          BY <2>1, <5>1, <5>2 DEF FilesInv, LockInv
      <4> QED
        BY <4>1, <4>2
    <3>3. ASSUME NEW r \in Paths, NEW u \in Threads, lock'[r] = u
          PROVE  call'[u].at \in Holding /\ r = Destination(u)'
      <4>1. CASE r = p
        BY <2>1, <2>5, <3>3, <4>1 DEF FilesInv, LockInv
      <4>2. CASE r # p
        <5>1. lock[r] = u
          BY <2>1, <3>3, <4>2 DEF FilesInv, LockInv
        <5>2. call[u].at \in Holding /\ r = Destination(u)
          BY <5>1 DEF FilesInv, LockInv
        <5>3. u # t
          BY <1>1, <5>2 DEF Holding
        <5> QED
          BY <2>4, <5>2, <5>3
      <4> QED
        BY <4>1, <4>2
    <3> QED
      BY <3>1, <3>2, <3>3 DEF LockInv
  <2>7. LibraryInv'
    BY <1>1, <2>4, <2>5 DEF FilesInv, LibraryInv
  <2>8. DirectoryInv'
    BY <2>1, <2>4, <2>5 DEF FilesInv, DirectoryInv, Owned
  <2> QED
    BY <2>3, <2>6, <2>7, <2>8 DEF FilesInv
<1> QED
  BY <1>2, <1>3

-----------------------------------------------------------------------------
(* Publishing, and every step of a thread. *)

\* Only the holder of a path's lock writes the path, so what another thread
\* found at its own path when it took the lock is still so.
LEMMA PublishStep ==
    ASSUME CallInv, FilesInv, NumberInv, NEW t \in Threads, Publish(t)
    PROVE  /\ Moves(t) /\ FilesInv'
           /\ \A p \in Paths : library[p] # 0 /\ library'[p] # library[p]
                => /\ call[t].number = library'[p]
                   /\ Req(t).variant /\ Req(t).path = p
<1> DEFINE dest == Destination(t)
           writes == /\ OwnDirectory(t) \in dirs
                     /\ call[t].moved => library[dest] = 0
<1>1. call[t].at = "publish" /\ Typed(t) /\ LeaveAttempt(t)
  BY DEF Publish, At, CallInv
<1>2. \E good \in BOOLEAN : Answer(t, good)
  BY DEF Publish
<1>3. Moves(t) /\ call'[t].at \notin Holding
  BY <1>1, <1>2, AnswerMoves DEF Holding
<1>4. CASE ~writes
  <2>1. UNCHANGED library
    BY <1>4 DEF Publish
  <2> QED
    BY <1>1, <1>3, <2>1, LeaveFiles
<1>5. CASE writes
  <2>1. library' = [library EXCEPT ![dest] = call[t].number]
    BY <1>5 DEF Publish
  <2>2. /\ dest \in Paths /\ lock[dest] = t
        /\ library \in [Paths -> Numbers] /\ call[t].number \in Numbers
    BY <1>1, TypedDestination, PlannerAssumption
       DEF FilesInv, LockInv, LibraryInv, Holding, NumberInv, Numbers
  <2>3. LockInv' /\ DirectoryInv'
    BY <1>1, <1>3, LeaveLocks
  <2>4. LibraryInv'
    <3>1. library' \in [Paths -> Numbers]
      BY <2>1, <2>2
    <3>2. ASSUME NEW u \in Threads, call'[u].at \in Holding,
                 ~call'[u].moved, ~Req(u)'.variant
          PROVE  (library[Req(u).path])' = 0
      <4>1. u # t
        BY <1>3, <3>2
      <4>2. call'[u] = call[u] /\ Req(u)' = Req(u)
        BY <1>3, <4>1, OthersKeep
      <4>3. /\ library[Req(u).path] = 0 /\ lock[Req(u).path] = u
        BY <3>2, <4>2 DEF FilesInv, LibraryInv, LockInv, Destination
      <4>4. Req(u).path # dest
        BY <2>2, <4>1, <4>3
      <4>5. Req(u).path \in Paths
        <5>1. call[u].at # "idle"
          BY <3>2, <4>2 DEF Holding
        <5> QED
          BY <5>1, TypedDestination, RequestTyped
      <4> HIDE DEF dest
      <4> QED
        BY <2>1, <2>2, <4>2, <4>3, <4>4, <4>5
    <3> QED
      BY <3>1, <3>2 DEF LibraryInv
  <2>5. ASSUME NEW p \in Paths, library[p] # 0, library'[p] # library[p]
        PROVE  /\ call[t].number = library'[p]
               /\ Req(t).variant /\ Req(t).path = p
    <3>1. p = dest /\ library'[p] = call[t].number
      <4> HIDE DEF dest
      <4> QED
        BY <2>1, <2>2, <2>5
    <3>2. ~call[t].moved /\ Req(t).path = p
      BY <1>5, <2>5, <3>1 DEF Destination
    <3>3. Req(t).variant
      BY <1>1, <2>5, <3>2 DEF FilesInv, LibraryInv, Holding
    <3> QED
      BY <3>1, <3>2, <3>3
  <2> QED
    BY <1>3, <2>3, <2>4, <2>5 DEF FilesInv
<1> QED
  BY <1>4, <1>5

\* What a cached entry is.
LEMMA CacheTyped ==
    ASSUME CallInv, SettingsInv, NEW t \in Threads, call[t].at # "idle",
           NEW ready \in BOOLEAN, CachePrepared(t, ready)
    PROVE  prepared' \in [Items -> Entries \cup {None}]
<1>1. Req(t) \in Requests /\ Req(t).item \in Items
  BY TypedDestination, RequestTyped
<1> DEFINE e == [key |-> Key(Req(t)), ready |-> ready]
<1>2. e \in Entries
  BY <1>1 DEF Entries
<1>3. prepared' = [prepared EXCEPT ![Req(t).item] = e]
  BY DEF CachePrepared
<1> HIDE DEF e
<1> QED
  BY <1>2, <1>3 DEF SettingsInv

\* The steps of a thread between Begin and Report.
Inner(t) ==
    \/ PlanStep(t) \/ Abandon(t) \/ Lock(t)
    \/ \E kind \in {"verify", "storage", "other"} : DownloadFails(t, kind)
    \/ DownloadExists(t)
    \/ \E moved \in BOOLEAN : Delivered(t, moved)
    \/ Relock(t) \/ Publish(t) \/ AttemptErrs(t)

\* Each moves its thread, and leaves the files in order.
LEMMA InnerMoves ==
    ASSUME IInv, NEW t \in Threads, Inner(t)
    PROVE  Moves(t) /\ FilesInv'
<1>1. CallInv /\ FilesInv /\ NumberInv /\ SettingsInv
  BY DEF IInv, FilesInv
<1>a. ASSUME PlanStep(t) PROVE Moves(t) /\ FilesInv'
  BY <1>1, <1>a, PlanMoves, AsideFiles
<1>b. ASSUME Abandon(t) PROVE Moves(t) /\ FilesInv'
  <2>1. /\ call[t].at # "idle" /\ LeaveAttempt(t) /\ Answer(t, FALSE)
        /\ UNCHANGED library
    BY <1>b DEF Abandon
  <2>2. Moves(t) /\ call'[t].at \notin Holding
    BY <1>1, <2>1, AnswerMoves DEF Holding
  <2> QED
    BY <1>1, <2>1, <2>2, LeaveFiles
<1>c. ASSUME Lock(t) PROVE Moves(t) /\ FilesInv'
  BY <1>1, <1>c, LockStep
<1>d. ASSUME NEW kind, DownloadFails(t, kind) PROVE Moves(t) /\ FilesInv'
  <2>1. /\ call[t].at = "download" /\ LeaveAttempt(t) /\ Settle(t, kind)
        /\ UNCHANGED <<library, installed>>
    BY <1>d DEF DownloadFails, At, settings
  <2>2. Moves(t) /\ call'[t].at \notin Holding
    BY <1>1, <2>1, SettleMoves DEF Holding
  <2> QED
    BY <1>1, <2>1, <2>2, LeaveFiles
<1>e. ASSUME DownloadExists(t) PROVE Moves(t) /\ FilesInv'
  <2>1. /\ call[t].at # "idle" /\ LeaveAttempt(t) /\ Answer(t, TRUE)
        /\ UNCHANGED library
    BY <1>e DEF DownloadExists, At
  <2>2. Moves(t) /\ call'[t].at \notin Holding
    BY <1>1, <2>1, AnswerMoves DEF Holding
  <2> QED
    BY <1>1, <2>1, <2>2, LeaveFiles
<1>f. ASSUME NEW moved \in BOOLEAN, Delivered(t, moved)
      PROVE  Moves(t) /\ FilesInv'
  BY <1>1, <1>f, DeliveredStep
<1>g. ASSUME Relock(t) PROVE Moves(t) /\ FilesInv'
  BY <1>1, <1>g, RelockStep
<1>h. ASSUME Publish(t) PROVE Moves(t) /\ FilesInv'
  BY <1>1, <1>h, PublishStep
<1>i. ASSUME AttemptErrs(t) PROVE Moves(t) /\ FilesInv'
  <2>1. /\ call[t].at # "idle" /\ LeaveAttempt(t) /\ Answer(t, FALSE)
        /\ UNCHANGED library
    BY <1>i DEF AttemptErrs, At
  <2>2. Moves(t) /\ call'[t].at \notin Holding
    BY <1>1, <2>1, AnswerMoves DEF Holding
  <2> QED
    BY <1>1, <2>1, <2>2, LeaveFiles
<1> QED
  BY <1>a, <1>b, <1>c, <1>d, <1>e, <1>f, <1>g, <1>h, <1>i DEF Inner

\* And what they do to the shared registries.
LEMMA InnerShared ==
    ASSUME IInv, NEW t \in Threads, Inner(t)
    PROVE  /\ UNCHANGED <<cancelled, settings>>
           /\ UNCHANGED progress \/ Preparing(t)
           /\ prepared' \in [Items -> Entries \cup {None}]
<1>1. /\ CallInv /\ SettingsInv /\ prepared \in [Items -> Entries \cup {None}]
      /\ call[t].at # "idle" => Req(t) \in Requests
  BY DEF IInv, CallInv, Typed, SettingsInv
<1>2. UNCHANGED <<cancelled, settings>>
  BY DEF Inner, PlanStep, Join, PreflightRefused, Preflight, VerifiedRetry,
         AskSource, Expand, Exhausted, Direct, Fallback, RetryAnswered,
         SourceAnswered, FallbackAnswered, AskingFails, NoQuality, Abandon,
         Lock, DownloadFails, DownloadExists, Delivered, Relock, Publish,
         AttemptErrs
<1>3. UNCHANGED progress \/ Preparing(t)
  BY DEF Inner, PlanStep, Join, PreflightRefused, Preflight, VerifiedRetry,
         AskSource, Expand, Exhausted, Direct, Fallback, RetryAnswered,
         SourceAnswered, FallbackAnswered, AskingFails, NoQuality, Abandon,
         Lock, DownloadFails, DownloadExists, Delivered, Relock, Publish,
         AttemptErrs
<1>4. \/ UNCHANGED prepared
      \/ prepared' = [prepared EXCEPT ![Req(t).item] = None]
      \/ \E ready \in BOOLEAN : call[t].at # "idle" /\ CachePrepared(t, ready)
  <2>1. Moves(t)
    BY InnerMoves
  <2>2. call[t].at # "idle"
    BY <2>1 DEF Moves
  <2>3. \/ UNCHANGED prepared
        \/ prepared' = [prepared EXCEPT ![Req(t).item] = None]
        \/ CachePrepared(t, FALSE) \/ CachePrepared(t, TRUE)
    BY DEF Inner, PlanStep, Join, PreflightRefused, Preflight, VerifiedRetry,
           AskSource, Expand, Exhausted, Direct, Fallback, RetryAnswered,
           SourceAnswered, FallbackAnswered, AskingFails, NoQuality, Settle,
           Abandon, Lock, DownloadFails, DownloadExists, Delivered, Relock,
           Publish, AttemptErrs
  <2> QED
    BY <2>2, <2>3
<1>5. prepared' \in [Items -> Entries \cup {None}]
  <2>1. CASE \E ready \in BOOLEAN :
                call[t].at # "idle" /\ CachePrepared(t, ready)
    BY <1>1, <2>1, CacheTyped
  <2>2. CASE \/ UNCHANGED prepared
             \/ prepared' = [prepared EXCEPT ![Req(t).item] = None]
    BY <1>1, <2>2
  <2> QED
    BY <1>4, <2>1, <2>2
<1> QED
  BY <1>2, <1>3, <1>5

-----------------------------------------------------------------------------
(* The invariant. *)

\* A request that begins or ends holds no lock.
LEMMA IdleFiles ==
    ASSUME FilesInv, UNCHANGED files,
           \A u \in Threads : \/ call'[u] = call[u]
                              \/ /\ call[u].at \notin Holding
                                 /\ call'[u].at \notin Holding
    PROVE  FilesInv'
<1>1. \A u \in Threads :
         \/ call[u].at \notin Holding /\ call'[u].at \notin Holding
         \/ /\ call'[u] = call[u] /\ Destination(u)' = Destination(u)
            /\ OwnDirectory(u)' = OwnDirectory(u) /\ Req(u)' = Req(u)
  BY DEF Destination, OwnDirectory, Req
<1>2. library' = library /\ lock' = lock /\ dirs' = dirs
  BY DEF files
<1>3. LockInv'
  BY <1>1, <1>2 DEF FilesInv, LockInv
<1>4. LibraryInv'
  BY <1>1, <1>2 DEF FilesInv, LibraryInv
<1>5. DirectoryInv'
  BY <1>1, <1>2 DEF FilesInv, DirectoryInv, Owned
<1> QED
  BY <1>3, <1>4, <1>5 DEF FilesInv

\* Providers are unloaded and never come back: a bound thread stays bound.
LEMMA SameCalls ==
    ASSUME CallInv, UNCHANGED call, installed' \subseteq installed
    PROVE  CallInv'
  BY DEF CallInv, Typed, SourceBound, Req

\* A thread without a request.
LEMMA IdleTyped ==
    ASSUME NEW t \in Threads, call[t] = Idle
    PROVE  Typed(t) /\ SourceBound(t)
<1>1. <<>> \in Seq(Providers)
  OBVIOUS
<1>2. /\ call[t].at = "idle" /\ call[t].held = FALSE
      /\ call[t].selected = None /\ call[t].provider = None
      /\ call[t].queue = <<>> /\ call[t].moved = FALSE
      /\ call[t].source = "none"
  BY DEF Idle
<1>3. Typed(t)
  BY <1>1, <1>2 DEF Typed, Places, Attempting
<1> QED
  BY <1>2, <1>3 DEF SourceBound

LEMMA InitIInv == Init => IInv
<1> SUFFICES ASSUME Init PROVE IInv
  OBVIOUS
<1>1. \A t \in Threads : call[t] = Idle /\ call[t].at = "idle"
  BY DEF Init, Idle
<1>2. CallInv
  <2>1. \A t \in Threads : Typed(t) /\ SourceBound(t)
    BY <1>1, IdleTyped
  <2>2. call = [t \in Threads |-> call[t]]
    BY DEF Init
  <2> QED
    BY <2>1, <2>2 DEF CallInv
<1>3. NumberInv
  BY <1>1, PlannerAssumption DEF Init, NumberInv
<1>4. LockInv
  BY <1>1, PlannerAssumption DEF Init, LockInv, Holding
<1>5. LibraryInv
  <2>1. Old \in Numbers /\ 0 \in Numbers
    BY PlannerAssumption DEF Old, Numbers
  <2> QED
    BY <1>1, <2>1 DEF Init, LibraryInv, Holding
<1>6. DirectoryInv
  BY <1>1 DEF Init, DirectoryInv, Holding
<1>7. ProgressInv
  BY DEF Init, ProgressInv, NoGhostProgress
<1>8. SettingsInv
  BY PlannerAssumption DEF Init, SettingsInv
<1> QED
  BY <1>2, <1>3, <1>4, <1>5, <1>6, <1>7, <1>8 DEF IInv

\* A running request keeps the invariant.
LEMMA InnerIInv ==
    ASSUME IInv, NEW t \in Threads, Inner(t)
    PROVE  IInv'
<1>1. Moves(t) /\ FilesInv'
  BY InnerMoves
<1>2. /\ UNCHANGED <<cancelled, settings>>
      /\ UNCHANGED progress \/ Preparing(t)
      /\ prepared' \in [Items -> Entries \cup {None}]
  BY InnerShared
<1>3. CallInv' /\ NumberInv'
  BY <1>1, <1>2, MovesCall, MovesNumber DEF IInv, settings
<1>4. ProgressInv'
  <2>1. progress \in [Items -> {"absent", "active", "completed"}]
    BY DEF IInv, ProgressInv
  <2>2. /\ progress' \in [Items -> {"absent", "active", "completed"}]
        /\ \A i \in Items : progress'[i] = "active"
              => progress[i] = "active" \/ i = Req(t).item
    BY <1>2, <2>1 DEF Preparing
  <2> QED
    BY <1>1, <2>2, MovesProgress DEF IInv
<1>5. SettingsInv'
  BY <1>2 DEF IInv, SettingsInv, settings
<1> QED
  BY <1>1, <1>3, <1>4, <1>5 DEF IInv, FilesInv

\* A request begins.
LEMMA BeginIInv ==
    ASSUME IInv, NEW t \in Threads, NEW q \in Requests, Begin(t, q)
    PROVE  IInv'
<1>1. /\ CallInv /\ NumberInv /\ FilesInv /\ ProgressInv /\ SettingsInv
      /\ call[t] = Idle /\ call[t].at = "idle" /\ started < MaxRequests
      /\ started' = started + 1
      /\ UNCHANGED <<files, prepared, account, installed, events>>
  BY DEF IInv, FilesInv, Begin, CallInv, Typed
<1>2. started \in Nat /\ MaxRequests \in Nat /\ started' \in 0..MaxRequests
  BY <1>1, PlannerAssumption DEF NumberInv
<1>3. CASE q.item \in cancelled
  <2>1. UNCHANGED <<call, progress>> /\ cancelled' \subseteq cancelled
    BY <1>3 DEF Begin
  <2>2. CallInv'
    BY <1>1, <2>1, SameCalls
  <2>3. NumberInv'
    BY <1>1, <1>2, <2>1 DEF NumberInv
  <2>4. FilesInv'
    BY <1>1, <2>1, IdleFiles
  <2>5. ProgressInv'
    BY <1>1, <2>1 DEF ProgressInv, NoGhostProgress, Req
  <2>6. SettingsInv'
    BY <1>1, <2>1 DEF SettingsInv
  <2> QED
    BY <2>2, <2>3, <2>4, <2>5, <2>6 DEF IInv, FilesInv
<1>4. CASE q.item \notin cancelled
  <2> DEFINE selected == IF q.service = None /\ ~q.fallback
                         THEN q.source ELSE q.service
             changes == [at |-> "preflight", req |-> q, number |-> started',
                         held |-> TRUE, selected |-> selected]
  <2>1. /\ Set(t, changes) /\ UNCHANGED cancelled
        /\ progress' = [progress EXCEPT ![q.item] = "active"]
    BY <1>4 DEF Begin
  <2>2. /\ call' = [u \in Threads |-> call'[u]]
        /\ \A u \in Threads \ {t} : call'[u] = call[u]
        /\ DOMAIN call'[t] = DOMAIN Idle
        /\ \A f \in DOMAIN Idle :
              call'[t][f] = IF f \in DOMAIN changes THEN changes[f]
                            ELSE call[t][f]
    <3> HIDE DEF changes
    <3> QED
      BY <1>1, <2>1, SetGives
  <2>3. selected \in Providers \cup {None} /\ q.item \in Items
    BY RequestTyped
  <2> HIDE DEF selected
  <2>4. /\ call'[t].at = "preflight" /\ call'[t].req = q
        /\ call'[t].number = started' /\ call'[t].held = TRUE
        /\ call'[t].selected = selected /\ call'[t].provider = None
        /\ call'[t].queue = <<>> /\ call'[t].moved = FALSE
        /\ call'[t].source = "none"
    BY <1>1, <2>2 DEF Idle
  <2> HIDE DEF changes
  <2>5. CallInv'
    <3>1. <<>> \in Seq(Providers)
      OBVIOUS
    <3>2. Typed(t)'
      BY <2>2, <2>3, <2>4, <3>1 DEF Typed, Places, Attempting, Req
    <3>3. SourceBound(t)'
      BY <2>4 DEF SourceBound
    <3>4. ASSUME NEW u \in Threads, u # t PROVE (Typed(u) /\ SourceBound(u))'
      <4>1. call'[u] = call[u]
        BY <2>2, <3>4
      <4> QED
        BY <1>1, <4>1 DEF CallInv, Typed, SourceBound, Req
    <3> QED
      BY <2>2, <3>2, <3>3, <3>4 DEF CallInv
  <2>6. NumberInv'
    BY <1>1, <1>2, <2>2, <2>4 DEF NumberInv
  <2>7. FilesInv'
    BY <1>1, <2>2, <2>4, IdleFiles DEF Holding
  <2>8. ProgressInv'
    <3>1. progress' \in [Items -> {"absent", "active", "completed"}]
      BY <1>1, <2>1 DEF ProgressInv
    <3>2. ASSUME NEW i \in Items, progress'[i] = "active"
          PROVE  \E u \in Threads : call'[u].at # "idle" /\ call'[u].req.item = i
      <4>1. CASE i = q.item
        BY <2>4, <4>1
      <4>2. CASE i # q.item
        <5>1. progress[i] = "active"
          BY <1>1, <2>1, <3>2, <4>2 DEF ProgressInv
        <5>2. PICK u \in Threads : call[u].at # "idle" /\ Req(u).item = i
          BY <1>1, <5>1 DEF ProgressInv, NoGhostProgress
        <5>3. u # t
          BY <1>1, <5>2
        <5> QED
          BY <2>2, <5>2, <5>3 DEF Req
      <4> QED
        BY <4>1, <4>2
    <3> QED
      BY <3>1, <3>2 DEF ProgressInv, NoGhostProgress, Req
  <2>9. SettingsInv'
    BY <1>1, <2>1 DEF SettingsInv
  <2> QED
    BY <2>5, <2>6, <2>7, <2>8, <2>9 DEF IInv, FilesInv
<1> QED
  BY <1>3, <1>4

\* A request is reported, and its thread is free again.
LEMMA ReportIInv ==
    ASSUME IInv, NEW t \in Threads, Report(t)
    PROVE  IInv'
<1>1. /\ CallInv /\ NumberInv /\ FilesInv /\ ProgressInv /\ SettingsInv
      /\ call[t].at = "reporting"
      /\ progress' = [progress EXCEPT ![Req(t).item] = Reported(t)]
      /\ call' = [call EXCEPT ![t] = Idle] /\ cancelled' \subseteq cancelled
      /\ UNCHANGED <<files, prepared, settings>>
  BY DEF IInv, FilesInv, Report, ReleaseLease
<1>2. UNCHANGED <<account, installed, started, events>>
  BY <1>1 DEF settings
<1>3. /\ call' = [u \in Threads |-> call'[u]] /\ call'[t] = Idle
      /\ \A u \in Threads \ {t} : call'[u] = call[u]
  BY <1>1 DEF CallInv
<1>4. call'[t].at = "idle"
  BY <1>3 DEF Idle
<1>5. CallInv'
  <2>1. (Typed(t) /\ SourceBound(t))'
    <3>1. <<>> \in Seq(Providers)
      OBVIOUS
    <3>2. /\ call'[t].held = FALSE
          /\ call'[t].selected = None /\ call'[t].provider = None
          /\ call'[t].queue = <<>> /\ call'[t].moved = FALSE
          /\ call'[t].source = "none"
      BY <1>3 DEF Idle
    <3> QED
      BY <1>3, <1>4, <3>1, <3>2 DEF Typed, SourceBound, Places, Attempting
  <2>2. ASSUME NEW u \in Threads, u # t PROVE (Typed(u) /\ SourceBound(u))'
    <3>1. call'[u] = call[u]
      BY <1>3, <2>2
    <3> QED
      BY <1>1, <1>2, <3>1 DEF CallInv, Typed, SourceBound, Req
  <2> QED
    BY <1>3, <2>1, <2>2 DEF CallInv
<1>6. NumberInv'
  BY <1>1, <1>2, <1>3, <1>4 DEF NumberInv
<1>7. FilesInv'
  BY <1>1, <1>3, <1>4, IdleFiles DEF Holding
<1>8. ProgressInv'
  <2>1. Reported(t) \in {"absent", "completed"}
    BY DEF Reported
  <2>2. progress' \in [Items -> {"absent", "active", "completed"}]
    BY <1>1, <2>1 DEF ProgressInv
  <2>3. ASSUME NEW i \in Items, progress'[i] = "active"
        PROVE  \E u \in Threads : call'[u].at # "idle" /\ call'[u].req.item = i
    <3>1. i # Req(t).item /\ progress[i] = "active"
      BY <1>1, <2>1, <2>3 DEF ProgressInv
    <3>2. PICK u \in Threads : call[u].at # "idle" /\ Req(u).item = i
      BY <1>1, <3>1 DEF ProgressInv, NoGhostProgress
    <3>3. u # t
      BY <3>1, <3>2
    <3> QED
      BY <1>3, <3>2, <3>3 DEF Req
  <2> QED
    BY <2>2, <2>3 DEF ProgressInv, NoGhostProgress, Req
<1>9. SettingsInv'
  BY <1>1, <1>2 DEF SettingsInv
<1> QED
  BY <1>5, <1>6, <1>7, <1>8, <1>9 DEF IInv, FilesInv

\* The caller gives up while the planner thread goes on.
LEMMA GiveUpIInv ==
    ASSUME IInv, NEW t \in Threads, CallerGivesUp(t)
    PROVE  IInv'
<1>1. /\ CallInv /\ NumberInv /\ FilesInv /\ ProgressInv /\ SettingsInv
      /\ call[t].at # "idle" /\ Set(t, [held |-> FALSE])
      /\ cancelled' \subseteq cancelled
      /\ UNCHANGED <<files, prepared, progress, account, installed, started>>
      /\ events < MaxEvents /\ events' = events + 1
  BY DEF IInv, FilesInv, CallerGivesUp, ReleaseLease, Event
<1>2. /\ Moves(t) /\ call'[t].at = call[t].at
      /\ call'[t].moved = call[t].moved
      /\ call'[t].provider = call[t].provider
  BY <1>1, GiveUpMoves
<1>3. CallInv' /\ NumberInv' /\ FilesInv'
  BY <1>1, <1>2, MovesCall, MovesNumber, AsideFiles
<1>4. ProgressInv'
  <2>1. progress' \in [Items -> {"absent", "active", "completed"}]
    BY <1>1 DEF ProgressInv
  <2> QED
    BY <1>1, <1>2, <2>1, MovesProgress
<1>5. SettingsInv'
  BY <1>1, PlannerAssumption DEF SettingsInv
<1> QED
  BY <1>3, <1>4, <1>5 DEF IInv, FilesInv

\* The events from outside.
LEMMA OutsideIInv ==
    ASSUME IInv, Outside
    PROVE  IInv'
<1>1. /\ CallInv /\ NumberInv /\ FilesInv /\ ProgressInv /\ SettingsInv
      /\ MaxEvents \in Nat
  BY PlannerAssumption DEF IInv, FilesInv
<1>2. ASSUME UNCHANGED <<call, files, started>>, installed' \subseteq installed
      PROVE  CallInv' /\ NumberInv' /\ FilesInv'
  <2>1. CallInv'
    BY <1>1, <1>2, SameCalls
  <2>2. NumberInv'
    BY <1>1, <1>2 DEF NumberInv
  <2>3. FilesInv'
    BY <1>1, <1>2, IdleFiles
  <2> QED
    BY <2>1, <2>2, <2>3
<1>3. ASSUME UNCHANGED <<call, progress>> PROVE ProgressInv'
  BY <1>1, <1>3 DEF ProgressInv, NoGhostProgress, Req
<1>a. ASSUME NEW i \in Items, Cancel(i) PROVE IInv'
  <2>1. CallInv' /\ NumberInv' /\ FilesInv'
    BY <1>2, <1>a DEF Cancel
  <2>2. ProgressInv'
    BY <1>1, <1>a DEF Cancel, ProgressInv, NoGhostProgress, Req
  <2>3. SettingsInv'
    BY <1>1, <1>a DEF Cancel, Event, SettingsInv
  <2> QED
    BY <2>1, <2>2, <2>3 DEF IInv, FilesInv
<1>b. ASSUME NEW i \in Items, Reset(i) PROVE IInv'
  <2>1. CallInv' /\ NumberInv' /\ FilesInv'
    BY <1>2, <1>b DEF Reset, settings
  <2>2. ProgressInv'
    BY <1>3, <1>b DEF Reset
  <2>3. SettingsInv'
    BY <1>1, <1>b DEF Reset, SettingsInv, settings
  <2> QED
    BY <2>1, <2>2, <2>3 DEF IInv, FilesInv
<1>c. ASSUME NEW i \in Items, Expire(i) PROVE IInv'
  <2>1. CallInv' /\ NumberInv' /\ FilesInv'
    BY <1>2, <1>c DEF Expire, settings
  <2>2. ProgressInv'
    BY <1>3, <1>c DEF Expire
  <2>3. SettingsInv'
    BY <1>1, <1>c DEF Expire, SettingsInv, settings
  <2> QED
    BY <2>1, <2>2, <2>3 DEF IInv, FilesInv
<1>d. ASSUME NEW id \in Providers, AccountMode(id) PROVE IInv'
  <2>1. CallInv' /\ NumberInv' /\ FilesInv'
    BY <1>2, <1>d DEF AccountMode
  <2>2. ProgressInv'
    BY <1>3, <1>d DEF AccountMode
  <2>3. SettingsInv'
    BY <1>1, <1>d DEF AccountMode, Event, SettingsInv
  <2> QED
    BY <2>1, <2>2, <2>3 DEF IInv, FilesInv
<1>e. ASSUME NEW id \in Providers, Unload(id) PROVE IInv'
  <2>1. CallInv' /\ NumberInv' /\ FilesInv'
    BY <1>2, <1>e DEF Unload
  <2>2. ProgressInv'
    BY <1>3, <1>e DEF Unload
  <2>3. SettingsInv'
    BY <1>1, <1>e DEF Unload, Event, SettingsInv
  <2> QED
    BY <2>1, <2>2, <2>3 DEF IInv, FilesInv
<1>f. ASSUME Crash PROVE IInv'
  <2>1. \A t \in Threads : call'[t] = Idle /\ call'[t].at = "idle"
    BY <1>f DEF Crash, Idle
  <2>2. CallInv'
    <3>1. ASSUME NEW t \in Threads PROVE (Typed(t) /\ SourceBound(t))'
      <4>1. <<>> \in Seq(Providers)
        OBVIOUS
      <4>2. /\ call'[t].held = FALSE
            /\ call'[t].selected = None /\ call'[t].provider = None
            /\ call'[t].queue = <<>> /\ call'[t].moved = FALSE
            /\ call'[t].source = "none"
        BY <2>1 DEF Idle
      <4> QED
        BY <2>1, <4>1, <4>2 DEF Typed, SourceBound, Places, Attempting
    <3>2. call' = [t \in Threads |-> call'[t]]
      BY <1>f DEF Crash
    <3> QED
      BY <3>1, <3>2 DEF CallInv
  <2>3. NumberInv'
    BY <1>1, <1>f, <2>1 DEF Crash, NumberInv
  <2>4. LockInv'
    BY <1>f, <2>1, PlannerAssumption DEF Crash, LockInv, Holding
  <2>5. LibraryInv' /\ DirectoryInv'
    BY <1>1, <1>f, <2>1
       DEF Crash, FilesInv, LibraryInv, DirectoryInv, Holding
  <2>6. ProgressInv'
    BY <1>f DEF Crash, ProgressInv, NoGhostProgress
  <2>7. SettingsInv'
    BY <1>1, <1>f DEF Crash, Event, SettingsInv
  <2> QED
    BY <2>2, <2>3, <2>4, <2>5, <2>6, <2>7 DEF IInv
<1> QED
  BY <1>a, <1>b, <1>c, <1>d, <1>e, <1>f DEF Outside

-----------------------------------------------------------------------------
(* The theorems. *)

\* Every step keeps the invariant.
LEMMA NextIInv == IInv /\ [Next]_vars => IInv'
<1> SUFFICES ASSUME IInv, [Next]_vars PROVE IInv'
  OBVIOUS
<1>1. ASSUME NEW t \in Threads, Step(t) PROVE IInv'
  <2>1. Inner(t) \/ Report(t)
    BY <1>1 DEF Step, Inner, PlanStep
  <2> QED
    BY <2>1, InnerIInv, ReportIInv
<1>2. ASSUME NEW t \in Threads, CallerGivesUp(t) PROVE IInv'
  BY <1>2, GiveUpIInv
<1>3. ASSUME NEW t \in Threads, NEW q \in Requests, Begin(t, q) PROVE IInv'
  BY <1>3, BeginIInv
<1>4. ASSUME Outside PROVE IInv'
  BY <1>4, OutsideIInv
<1>5. ASSUME UNCHANGED vars PROVE IInv'
  <2>1. UNCHANGED <<call, files, prepared, progress, cancelled>>
        /\ UNCHANGED <<account, installed, started, events>>
    BY <1>5 DEF vars, settings
  <2>2. CallInv' /\ FilesInv'
    BY <2>1, SameCalls, IdleFiles DEF IInv, FilesInv
  <2>3. NumberInv' /\ ProgressInv' /\ SettingsInv'
    BY <2>1 DEF IInv, NumberInv, ProgressInv, NoGhostProgress, Req,
                SettingsInv
  <2> QED
    BY <2>2, <2>3 DEF IInv, FilesInv
<1> QED
  BY <1>1, <1>2, <1>3, <1>4, <1>5 DEF Next

LEMMA Invariance == Spec => []IInv
  BY InitIInv, NextIInv, PTL DEF Spec

\* The state is well typed, and a request that holds the lock of its planned
\* path owns its attempt directory (downloads.rs:682), for any number of
\* threads, paths and providers.
THEOREM LockOwnsDirectory == Spec => []PlannerInv
<1>1. IInv => PlannerInv
  <2> SUFFICES ASSUME IInv PROVE PlannerInv
    OBVIOUS
  <2>1. ASSUME NEW t \in Threads
        PROVE  /\ DOMAIN call[t] = DOMAIN Idle
               /\ call[t].at \in Places
               /\ call[t].at # "idle" => Req(t) \in Requests
               /\ call[t].number \in Numbers
               /\ call[t].held \in BOOLEAN
               /\ call[t].selected \in Providers \cup {None}
               /\ call[t].provider \in Providers \cup {None}
               /\ call[t].queue \in Seq(Providers)
               /\ call[t].at \in {"asked", "lock", "download", "relock",
                                  "publish"} => call[t].provider \in Providers
    <3>1. Typed(t)
      BY DEF IInv, CallInv
    <3>2. call[t].number \in Numbers
      <4>1. CASE call[t].at = "idle"
        <5>1. call[t].number = 0
          BY <3>1, <4>1 DEF Typed, Idle
        <5> QED
          BY <5>1, PlannerAssumption DEF Numbers
      <4>2. CASE call[t].at # "idle"
        <5>1. /\ call[t].number \in 1..started /\ started \in 0..MaxRequests
              /\ MaxRequests \in Nat
          BY <4>2, PlannerAssumption DEF IInv, NumberInv
        <5> QED
          BY <5>1 DEF Numbers
      <4> QED
        BY <4>1, <4>2
    <3> QED
      BY <3>1, <3>2 DEF Typed, Attempting
  <2>2. ASSUME NEW p \in Paths, lock[p] # None
        PROVE  call[lock[p]].at \in {"download", "publish"}
    BY <2>2 DEF IInv, LockInv, Holding
  <2>3. DirectoryOwned
    <3> SUFFICES ASSUME NEW t \in Threads,
                        call[t].at \in Holding, ~call[t].moved
                 PROVE  dirs \ Remains(t) = {OwnDirectory(t)}
      BY DEF DirectoryOwned, Holding
    <3>1. Owned(t)
      BY DEF IInv, DirectoryInv
    <3>2. /\ OwnDirectory(t).path = Req(t).path
          /\ OwnDirectory(t).provider = call[t].provider
      BY DEF OwnDirectory
    <3>3. \A d \in dirs : d \notin Remains(t) <=> d = OwnDirectory(t)
      BY <3>1, <3>2 DEF Owned, Remains
    <3>4. OwnDirectory(t) \in dirs
      BY <3>1 DEF Owned
    <3> HIDE DEF OwnDirectory, Remains
    <3> QED
      BY <3>3, <3>4
  <2> QED
    BY <2>1, <2>2, <2>3
       DEF PlannerInv, TypeOK, IInv, LibraryInv, LockInv, DirectoryInv,
           SettingsInv, ProgressInv, NumberInv
<1> QED
  BY <1>1, Invariance, PTL

\* No item is shown as running that nobody runs (core/src/progress.rs and the
\* end of download_request).
THEOREM NothingRunsAlone == Spec => []NoGhostProgress
<1>1. IInv => NoGhostProgress
  BY DEF IInv, ProgressInv
<1> QED
  BY <1>1, Invariance, PTL

\* A source that forbids replacing its recording is the only one that is asked
\* to download it (downloads.rs:242).
THEOREM SourceDecides == Spec => []SourceKept
<1>1. IInv => SourceKept
  <2> SUFFICES ASSUME IInv, NEW t \in Threads, call[t].source # "none",
                      Req(t).source \in installed,
                      call[t].at \in {"lock", "download", "relock", "publish"}
               PROVE  call[t].provider = Req(t).source
    BY DEF SourceKept
  <2>1. SourceBound(t)
    BY DEF IInv, CallInv
  <2> QED
    BY <2>1 DEF SourceBound
<1> QED
  BY <1>1, Invariance, PTL

\* A file of the library is replaced only by a request for a variant of that
\* very path (downloads.rs:726).
THEOREM NothingOverwritten == Spec => OldFilesKept
<1> DEFINE Kept == \A p \in Paths :
                      library[p] # 0 /\ library'[p] # library[p]
                          => \E t \in Threads :
                                /\ call[t].number = library'[p]
                                /\ Req(t).variant /\ Req(t).path = p
<1>1. IInv /\ [Next]_vars => [Kept]_vars
  <2> SUFFICES ASSUME IInv, Next PROVE Kept
    OBVIOUS
  <2>1. CASE \E t \in Threads : Publish(t)
    BY <2>1, PublishStep DEF IInv, FilesInv
  <2>2. CASE ~ \E t \in Threads : Publish(t)
    <3>1. UNCHANGED library
      BY <2>2 DEF Next, Step, Outside, Join, PreflightRefused, Preflight,
         VerifiedRetry, AskSource, Expand, Exhausted, Direct, Fallback,
         RetryAnswered, SourceAnswered, FallbackAnswered, AskingFails,
         NoQuality, Abandon, Lock, DownloadFails, DownloadExists, Delivered,
         Relock, AttemptErrs, Report, CallerGivesUp, Begin, Cancel, Reset,
         Expire, AccountMode, Unload, Crash, files
    <3> QED
      BY <3>1
  <2> QED
    BY <2>1, <2>2
<1>2. Spec => [][Kept]_vars
  BY <1>1, Invariance, PTL DEF Spec
<1> QED
  BY <1>2 DEF OldFilesKept
=============================================================================
