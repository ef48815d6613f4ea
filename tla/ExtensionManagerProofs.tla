----------------------- MODULE ExtensionManagerProofs -----------------------
(***************************************************************************)
(* The manager's invariants and its promise about removed data, for any    *)
(* number of users, versions, entries and runtimes.                        *)
(*                                                                         *)
(* Two things carry the argument.  A user that holds an engine lock, or    *)
(* that is about to return a runtime, belongs to the registered entry or   *)
(* to one whose teardown waits for it; so a removal that has torn its      *)
(* entry down is alone.  And every runtime has one place: the primary one  *)
(* of an entry, the idle one of its pool, or one borrower's.               *)
(***************************************************************************)
EXTENDS ExtensionManager, NaturalsInduction, WellFoundedInduction, TLAPS

-----------------------------------------------------------------------------
(* The inductive invariant, by the variables that its parts are about. *)

\* A user in one of these places holds the engine lock of its entry.
EnginePlaces == {"ready", "load", "loading", "init", "calling", "settings",
                 "pool", "isolate", "isolating", "push"}
\* A borrower: it knows the pool's generation; it has a runtime of the pool.
Pooled == {"isolate", "isolating", "push", "borrowed", "drop", "return"}
Lent == {"push", "borrowed", "drop", "return"}
UserPlaces == EnginePlaces \cup Pooled
              \cup {"idle", "engine", "account", "mode", "native"}
ReadyPlaces == {"ready", "load", "loading", "init"}

Installed == [version : Versions \cup {0}, enabled : BOOLEAN, error : BOOLEAN,
              primary : Vms \cup {0}, initialized : BOOLEAN,
              idle : Vms \cup {0}, generation : Nat,
              settings : Settings \cup {None}, active : SUBSET Vms]

\* Records of threads.
Typed(t) ==
    /\ th[t].at \in Places
    /\ th[t].vm \in Vms \cup {0} /\ th[t].e \in Entries \cup {0}
    /\ th[t].settings \in Settings /\ th[t].generation \in Nat
    /\ IF th[t].at = "idle" THEN th[t].e = 0 ELSE th[t].e \in Entries

UserTyped(t) ==
    /\ th[t].at \in UserPlaces
    /\ th[t].at # "idle" => th[t].op \in {"call", "download", "preflight"}
    /\ th[t].at \in Pooled \cup {"settings", "pool"} => th[t].op = "download"

\* The operations of Admin and where they pass.
AdminTyped ==
    /\ th[Admin].at \in Places \ (Pooled \cup {"calling", "settings", "pool",
                                               "native", "account", "mode"})
    /\ th[Admin].at \in ReadyPlaces
          => th[Admin].op \in {"enable", "configure", "upgrade"}
    /\ th[Admin].at \in {"engine", "persist", "initialize", "invalidate"}
          => th[Admin].op \in {"enable", "configure"}
    /\ th[Admin].at = "validate" => th[Admin].op \in {"load", "install", "upgrade"}
    /\ th[Admin].at \in {"insert"} => th[Admin].op = "load"
    /\ th[Admin].at \in {"activate", "enabled"} => th[Admin].op = "install"
    /\ th[Admin].at \in {"backup", "swap", "retire", "replace"}
          => th[Admin].op = "upgrade"
    /\ th[Admin].at \in {"unload", "source", "data"} => th[Admin].op = "remove"
    /\ th[Admin].at = "stop" => th[Admin].op = "disable"

ThreadInv ==
    /\ th = [t \in Threads |-> th[t]]
    /\ \A t \in Threads : Typed(t)
    /\ \A t \in Users : UserTyped(t)
    /\ AdminTyped

EntryInv ==
    /\ current \in Entries \cup {0}
    /\ entry \in [Entries -> Installed]
    /\ vm \in [Vms -> [entry : Entries \cup {0}, settings : Settings,
                       open : BOOLEAN]]
    /\ stale \subseteq Vms

\* Whom Admin works on: only Admin changes the registry, and a candidate is
\* known to nobody else.  A candidate has no runtime before it is loaded.
Working(kinds) == th[Admin].at # "idle" /\ th[Admin].op \in kinds
Candidate == Working({"load", "install", "upgrade"})
Unloaded == \/ Working({"load", "install"})
            \/ Working({"upgrade"}) /\ th[Admin].at \in {"ready", "load", "loading",
                                                        "validate"}

AdminInv ==
    /\ Working({"load", "install", "remove"}) => current = 0
    /\ Working({"upgrade"}) => current # 0 /\ th[Admin].old = current
    /\ Working({"enable", "disable", "configure"}) => th[Admin].e = current
    /\ Candidate => /\ th[Admin].e # current
                    /\ \A t \in Users : th[t].e # th[Admin].e
    /\ Unloaded => Runtimes(entry[th[Admin].e]) = {}
    /\ At(Admin, "initialize") => th[Admin].vm = entry[th[Admin].e].primary
    /\ \A t \in Threads : th[t].at \in {"load", "loading"}
                             => entry[th[t].e].primary = 0

EngineInv ==
    /\ engine \in [Entries -> Threads \cup {None}]
    /\ \A t \in Users : th[t].at \in EnginePlaces => engine[th[t].e] = t
    /\ \A e \in Entries, t \in Users :
          engine[e] = t => th[t].at \in EnginePlaces /\ th[t].e = e
    /\ th[Admin].at \in ReadyPlaces \cup {"persist", "initialize", "invalidate"}
          => engine[th[Admin].e] = Admin

PoolInv ==
    /\ pool \in [Entries -> Users \cup {None}]
    /\ \A t \in Users : th[t].at = "return" => pool[th[t].e] = t
    /\ \A e \in Entries, t \in Users :
          pool[e] = t => th[t].at = "return" /\ th[t].e = e

\* A user that may still load, lend or keep a runtime.
Busy(t) == th[t].at \in EnginePlaces \/ (th[t].at = "return" /\ th[t].good)

BusyInv ==
    \A t \in Users : Busy(t) =>
        \/ closed \/ th[t].e = current
        \/ At(Admin, "unload") /\ th[Admin].e = th[t].e

\* Every runtime has one place.
RoleInv ==
    /\ \A e \in Entries :
          /\ \A v \in Runtimes(entry[e]) : vm[v].entry = e
          /\ entry[e].primary # 0 => /\ entry[e].primary # entry[e].idle
                                     /\ entry[e].primary \notin entry[e].active
          /\ entry[e].idle \notin entry[e].active
    /\ \A t \in Users : th[t].at \in Lent =>
          /\ th[t].vm \in Vms /\ vm[th[t].vm].entry = th[t].e
          /\ th[t].vm # entry[th[t].e].primary
          /\ th[t].vm # entry[th[t].e].idle
          /\ th[t].at = "push" => th[t].vm \notin entry[th[t].e].active
    /\ \A t, u \in Users :
          t # u /\ th[t].at \in Lent /\ th[u].at \in Lent => th[t].vm # th[u].vm

\* A runtime of the pool has the pool's settings, a lent one its borrower's; a
\* borrower of the current generation has the pool's.
SettingsInv ==
    /\ \A e \in Entries : entry[e].idle # 0
          => vm[entry[e].idle].settings = entry[e].settings
    /\ \A t \in Users : th[t].at \in Lent
          => vm[th[t].vm].settings = th[t].settings
    /\ \A t \in Users : th[t].at \in Pooled =>
          /\ th[t].generation <= entry[th[t].e].generation
          /\ th[t].generation = entry[th[t].e].generation
                => entry[th[t].e].settings = th[t].settings

\* What was lent when memory ran short is of an older generation.
StaleInv ==
    /\ PressureHolds
    /\ \A t \in Users : th[t].at \in Lent /\ th[t].vm \in stale
          => th[t].generation < entry[th[t].e].generation

\* Where an open runtime may be.
OpenInv ==
    /\ \A v \in Vms : vm[v].open =>
          /\ vm[v].entry \in Entries /\ vm[v].entry \in {current, th[Admin].e}
          /\ \/ v \in Runtimes(entry[vm[v].entry])
             \/ \E t \in Users : At(t, "push") /\ th[t].vm = v
    /\ QuietRemoval
    /\ halt \in {"no", "manager", "flag", "runtimes", "idle", "down"}
    /\ halt \notin {"no", "manager"} => closed
    /\ halt \in {"runtimes", "idle", "down"} => \A v \in Vms : ~vm[v].open

\* Directories.
DiskInv ==
    /\ target \in Versions \cup {0} /\ backup \in Versions \cup {0}
    /\ leftover \subseteq Versions
    /\ data \in [here : BOOLEAN, settings : Settings, enabled : BOOLEAN]
    /\ SourceKept
    /\ backup # 0 <=> th[Admin].at \in {"swap", "retire", "replace"}
    /\ At(Admin, "swap") => target = 0
    /\ th[Admin].at \in {"retire", "replace"} => wanted = target
    /\ Working({"remove"}) => wanted = 0
    /\ At(Admin, "data") /\ th[Admin].good => target = 0
    /\ gone => At(Admin, "idle") /\ current = 0 /\ target = 0

IInv == /\ ThreadInv /\ EntryInv /\ AdminInv /\ EngineInv /\ PoolInv /\ BusyInv
        /\ RoleInv /\ SettingsInv /\ StaleInv /\ OpenInv /\ DiskInv

-----------------------------------------------------------------------------
(* Records and numbers. *)

\* The least of some numbers is one of them.
LEMMA LeastIn ==
    ASSUME NEW S, S \subseteq Nat, S # {}
    PROVE  Least(S) \in S
<1> DEFINE R == OpToRel(<, Nat)
<1>1. IsWellFoundedOn(R, Nat)
  BY NatLessThanWellFounded, Zenon
<1>2. \A x, y \in Nat : x < y => <<x, y>> \in R
  BY DEF OpToRel
<1> HIDE DEF R
<1>3. PICK m \in S : \A x \in S : ~(<<x, m>> \in R)
  BY <1>1, WFMin
<1>4. ASSUME NEW x \in S PROVE m <= x
  <2>1. ~(x < m) /\ x \in Nat /\ m \in Nat
    BY <1>2, <1>3
  <2> QED
    BY <2>1
<1> QED
  BY <1>4 DEF Least

Fields == {"at", "op", "e", "old", "vm", "generation", "settings", "good"}

\* Only the record of t changes.
Only(t) ==
    /\ th' = [u \in Threads |-> th'[u]]
    /\ \A u \in Threads : u # t => th'[u] = th[u]

LEMMA SetGives ==
    ASSUME ThreadInv, NEW t \in Threads, NEW changes, Set(t, changes)
    PROVE  /\ Only(t)
           /\ \A f \in Fields : th'[t][f] = IF f \in DOMAIN changes THEN changes[f]
                                             ELSE th[t][f]
  BY DEF Set, Changed, Rest, Fields, ThreadInv, Only

LEMMA DoneGives ==
    ASSUME ThreadInv, NEW t \in Threads, Done(t)
    PROVE  /\ Only(t) /\ th'[t] = Rest
           /\ th'[t].at = "idle" /\ th'[t].e = 0 /\ th'[t].vm = 0
  BY DEF Done, ThreadInv, Only, Rest

\* Go changes the place.
LEMMA GoGives ==
    ASSUME ThreadInv, NEW t \in Threads, NEW place, Go(t, place)
    PROVE  /\ Only(t)
           /\ th'[t].at = place /\ th'[t].op = th[t].op /\ th'[t].e = th[t].e
           /\ th'[t].old = th[t].old /\ th'[t].vm = th[t].vm
           /\ th'[t].generation = th[t].generation
           /\ th'[t].settings = th[t].settings /\ th'[t].good = th[t].good
<1>1. /\ Only(t)
      /\ \A f \in Fields : th'[t][f] = IF f \in DOMAIN [at |-> place]
                                        THEN [at |-> place][f] ELSE th[t][f]
  BY SetGives DEF Go
<1> QED
  BY <1>1 DEF Fields

\* What the operations on a value of Installed leave alone.
LEMMA ValuesGive ==
    ASSUME NEW x \in Installed
    PROVE  /\ Failed(x) \in Installed
           /\ Failed(x).primary = x.primary /\ Failed(x).idle = x.idle
           /\ Failed(x).active = x.active /\ Failed(x).settings = x.settings
           /\ Failed(x).generation = x.generation
           /\ Invalidated(x) \in Installed
           /\ Invalidated(x).primary = x.primary /\ Invalidated(x).idle = 0
           /\ Invalidated(x).active = x.active /\ Invalidated(x).settings = None
           /\ Invalidated(x).generation = x.generation + 1
           /\ TornDown(x) \in Installed /\ Runtimes(TornDown(x)) = {}
           /\ TornDown(x).primary = 0 /\ TornDown(x).idle = 0
           /\ TornDown(x).active = {} /\ TornDown(x).settings = None
           /\ TornDown(x).generation = x.generation + 1
<1>1. Failed(x) \in Installed
  BY DEF Failed, Installed
<1>2. x.generation + 1 \in Nat
  BY DEF Installed
<1>3. [x EXCEPT !.generation = x.generation + 1] \in Installed
  BY <1>2 DEF Installed
<1>4. Invalidated(x) \in Installed
  BY <1>3 DEF Invalidated, Installed
<1>5. TornDown(x) \in Installed
  BY <1>4 DEF TornDown, Installed
<1> QED
  BY <1>1, <1>4, <1>5 DEF Failed, Invalidated, TornDown, Installed, Runtimes

LEMMA PutGives ==
    ASSUME EntryInv, NEW e \in Entries, NEW x \in Installed,
           entry' = [entry EXCEPT ![e] = x]
    PROVE  /\ entry' \in [Entries -> Installed] /\ entry'[e] = x
           /\ \A d \in Entries : d # e => entry'[d] = entry[d]
  BY DEF EntryInv

\* One runtime is replaced.
LEMMA PutVmGives ==
    ASSUME EntryInv, NEW v \in Vms, vm' = [vm EXCEPT ![v] = vm'[v]],
           vm'[v] \in [entry : Entries \cup {0}, settings : Settings, open : BOOLEAN]
    PROVE  /\ vm' \in [Vms -> [entry : Entries \cup {0}, settings : Settings,
                               open : BOOLEAN]]
           /\ \A w \in Vms : w # v => vm'[w] = vm[w]
  BY DEF EntryInv

\* Shut closes some runtimes and changes nothing else.
LEMMA ShutGives ==
    ASSUME EntryInv, NEW S, Shut(S)
    PROVE  /\ vm' \in [Vms -> [entry : Entries \cup {0}, settings : Settings,
                               open : BOOLEAN]]
           /\ \A v \in Vms : /\ vm'[v].entry = vm[v].entry
                              /\ vm'[v].settings = vm[v].settings
                              /\ vm'[v].open <=> vm[v].open /\ v \notin S
<1>1. ASSUME NEW v \in Vms
      PROVE  /\ vm'[v] \in [entry : Entries \cup {0}, settings : Settings,
                             open : BOOLEAN]
             /\ vm'[v].entry = vm[v].entry
             /\ vm'[v].settings = vm[v].settings
             /\ vm'[v].open <=> vm[v].open /\ v \notin S
  BY DEF EntryInv, Shut
<1>2. vm' = [v \in Vms |-> vm'[v]]
  BY DEF Shut
<1> QED
  BY <1>1, <1>2

-----------------------------------------------------------------------------
(* Frames: what the parts of the invariant survive. *)

\* Nothing is added to entry e, ...
FewerRoles(e) ==
    /\ entry'[e].primary \in {0, entry[e].primary}
    /\ entry'[e].idle \in {0, entry[e].idle}
    /\ entry'[e].active \subseteq entry[e].active

\* ... and a pool that keeps its generation, or its idle runtime, keeps its
\* settings.
SamePool(e) ==
    /\ entry'[e].idle \in {0, entry[e].idle}
    /\ entry'[e].idle # 0 => entry'[e].settings = entry[e].settings
    /\ \/ \A u \in Users : th[u].e # e
       \/ /\ entry[e].generation <= entry'[e].generation
          /\ entry'[e].generation = entry[e].generation
                => entry'[e].settings = entry[e].settings

Shrunk(e) == FewerRoles(e) /\ SamePool(e)

\* Runtimes that are in use keep their entry, and only primary ones are given
\* other settings.
Undisturbed ==
    \A v \in Vms : v \in UsedVms =>
        /\ vm'[v].entry = vm[v].entry
        /\ \/ vm'[v].settings = vm[v].settings
           \/ \E e \in Entries : v = entry[e].primary

\* The same of all runtimes, and none is opened.
Calm ==
    \A v \in Vms :
        /\ vm'[v].entry = vm[v].entry
        /\ vm'[v].open => vm[v].open
        /\ \/ vm'[v].settings = vm[v].settings
           \/ \E e \in Entries : v = entry[e].primary

LEMMA CalmUndisturbed == Calm => Undisturbed
  BY DEF Calm, Undisturbed

\* User u borrows nothing that it had not borrowed before.
Follows(u) ==
    th'[u].at \in Pooled =>
        /\ th[u].at \in Pooled /\ th'[u].e = th[u].e /\ th'[u].vm = th[u].vm
        /\ th'[u].generation = th[u].generation
        /\ th'[u].settings = th[u].settings
        /\ th'[u].at \in Lent => th[u].at \in Lent
        /\ th'[u].at = "push" => th[u].at = "push"

\* What a user's borrowing must be like.
LentRole(u) ==
    th[u].at \in Lent =>
        /\ th[u].vm \in Vms /\ vm[th[u].vm].entry = th[u].e
        /\ th[u].vm # entry[th[u].e].primary
        /\ th[u].vm # entry[th[u].e].idle
        /\ th[u].at = "push" => th[u].vm \notin entry[th[u].e].active
        /\ \A w \in Users : w # u /\ th[w].at \in Lent => th[w].vm # th[u].vm
LentSettings(u) ==
    /\ th[u].at \in Lent => vm[th[u].vm].settings = th[u].settings
    /\ th[u].at \in Pooled =>
          /\ th[u].generation <= entry[th[u].e].generation
          /\ th[u].generation = entry[th[u].e].generation
                => entry[th[u].e].settings = th[u].settings
LentStale(u) ==
    th[u].at \in Lent /\ th[u].vm \in stale
        => th[u].generation < entry[th[u].e].generation

LEMMA UsedGives ==
    /\ \A e \in Entries : Runtimes(entry[e]) \subseteq UsedVms
    /\ \A t \in Threads : th[t].vm \in UsedVms
<1>1. \A e \in Entries :
          {entry[e].primary, entry[e].idle} \cup entry[e].active \subseteq UsedVms
  BY DEF UsedVms
<1> QED
  BY <1>1 DEF UsedVms, Runtimes

LEMMA RolesKept ==
    ASSUME ThreadInv, EntryInv, EntryInv', RoleInv,
           \A e \in Entries : FewerRoles(e), Undisturbed,
           \A u \in Users : Follows(u) \/ LentRole(u)'
    PROVE  RoleInv'
<1>1. ASSUME NEW e \in Entries
      PROVE  /\ \A v \in Runtimes(entry'[e]) : vm'[v].entry = e
             /\ entry'[e].primary # 0 => /\ entry'[e].primary # entry'[e].idle
                                         /\ entry'[e].primary \notin entry'[e].active
             /\ entry'[e].idle \notin entry'[e].active
  <2>1. FewerRoles(e) /\ entry[e] \in Installed /\ entry'[e] \in Installed
    BY DEF EntryInv
  <2>2. Runtimes(entry'[e]) \subseteq Runtimes(entry[e])
    BY <2>1 DEF FewerRoles, Runtimes
  <2>3. Runtimes(entry[e]) \subseteq Vms /\ Runtimes(entry[e]) \subseteq UsedVms
    BY <2>1, UsedGives DEF Installed, Runtimes
  <2>4. \A v \in Runtimes(entry'[e]) : vm'[v].entry = e
    BY <2>2, <2>3 DEF Undisturbed, RoleInv
  <2>5. 0 \notin entry'[e].active
    BY <2>1, ManagerAssumption DEF Installed
  <2> QED
    BY <2>1, <2>4, <2>5 DEF FewerRoles, RoleInv
<1>2. ASSUME NEW u \in Users, th'[u].at \in Lent
      PROVE  /\ th'[u].vm \in Vms /\ vm'[th'[u].vm].entry = th'[u].e
             /\ th'[u].vm # entry'[th'[u].e].primary
             /\ th'[u].vm # entry'[th'[u].e].idle
             /\ th'[u].at = "push" => th'[u].vm \notin entry'[th'[u].e].active
             /\ \/ th[u].at \in Lent /\ th'[u].vm = th[u].vm
                \/ LentRole(u)'
  <2>1. CASE LentRole(u)'
    BY <1>2, <2>1 DEF LentRole
  <2>2. CASE Follows(u)
    <3>1. /\ th[u].at \in Lent /\ th'[u].e = th[u].e /\ th'[u].vm = th[u].vm
          /\ th'[u].at = "push" => th[u].at = "push"
      BY <1>2, <2>2 DEF Follows, Pooled, Lent
    <3>2. th[u].e \in Entries /\ FewerRoles(th[u].e) /\ 0 \notin Vms
          /\ th[u].vm \in UsedVms
      BY <3>1, ManagerAssumption, UsedGives DEF ThreadInv, Threads, Typed, Lent
    <3> QED
      BY <3>1, <3>2 DEF RoleInv, FewerRoles, Undisturbed
  <2> QED
    BY <2>1, <2>2
<1>3. ASSUME NEW t \in Users, NEW u \in Users, t # u,
             th'[t].at \in Lent, th'[u].at \in Lent
      PROVE  th'[t].vm # th'[u].vm
  <2>1. CASE LentRole(u)' \/ LentRole(t)'
    BY <1>3, <2>1 DEF LentRole
  <2>2. CASE ~LentRole(u)' /\ ~LentRole(t)'
    BY <1>2, <1>3, <2>2 DEF RoleInv
  <2> QED
    BY <2>1, <2>2
<1> QED
  BY <1>1, <1>2, <1>3 DEF RoleInv

LEMMA SettingsFollow ==
    ASSUME ThreadInv, EntryInv, EntryInv', RoleInv, SettingsInv,
           \A e \in Entries : SamePool(e), Undisturbed,
           \A u \in Users : Follows(u) \/ LentSettings(u)'
    PROVE  SettingsInv'
<1>1. ASSUME NEW e \in Entries, entry'[e].idle # 0
      PROVE  vm'[entry'[e].idle].settings = entry'[e].settings
  <2> DEFINE v == entry[e].idle
  <2>1. /\ entry'[e].idle = v /\ v # 0 /\ entry'[e].settings = entry[e].settings
        /\ v \in Vms /\ vm[v].settings = entry[e].settings
        /\ v \in Runtimes(entry[e])
    BY <1>1 DEF SamePool, EntryInv, Installed, SettingsInv, Runtimes
  <2>2. \A d \in Entries : v # entry[d].primary
    <3>1. SUFFICES ASSUME NEW d \in Entries, v = entry[d].primary PROVE FALSE
      OBVIOUS
    <3>2. v \in Runtimes(entry[d])
      BY <2>1, <3>1 DEF Runtimes
    <3>3. d = e
      BY <2>1, <3>2 DEF RoleInv
    <3> QED
      BY <2>1, <3>1, <3>3 DEF RoleInv
  <2>3. v \in UsedVms
    BY <2>1, UsedGives
  <2> QED
    BY <2>1, <2>2, <2>3 DEF Undisturbed
<1>2. ASSUME NEW u \in Users, th'[u].at \in Lent
      PROVE  vm'[th'[u].vm].settings = th'[u].settings
  <2>0. CASE LentSettings(u)'
    BY <1>2, <2>0 DEF LentSettings
  <2>1. CASE Follows(u)
    <3> DEFINE v == th[u].vm
    <3>1. /\ th[u].at \in Lent /\ th'[u].e = th[u].e /\ th'[u].vm = v
          /\ th'[u].settings = th[u].settings
      BY <1>2, <2>1 DEF Follows, Pooled, Lent
    <3>2. v \in Vms /\ vm[v].settings = th[u].settings /\ vm[v].entry = th[u].e
          /\ v \in UsedVms
      BY <3>1, UsedGives DEF RoleInv, SettingsInv, Threads
    <3>3. \A d \in Entries : v # entry[d].primary
      <4>1. SUFFICES ASSUME NEW d \in Entries, v = entry[d].primary PROVE FALSE
        OBVIOUS
      <4>2. v \in Runtimes(entry[d])
        BY <3>2, <4>1, ManagerAssumption DEF Runtimes
      <4>3. d = th[u].e
        BY <3>2, <4>2 DEF RoleInv
      <4> QED
        BY <3>1, <4>1, <4>3 DEF RoleInv
    <3> QED
      BY <3>1, <3>2, <3>3 DEF Undisturbed
  <2> QED
    BY <2>0, <2>1
<1>3. ASSUME NEW u \in Users, th'[u].at \in Pooled
      PROVE  /\ th'[u].generation <= entry'[th'[u].e].generation
             /\ th'[u].generation = entry'[th'[u].e].generation
                   => entry'[th'[u].e].settings = th'[u].settings
  <2>0. CASE LentSettings(u)'
    BY <1>3, <2>0 DEF LentSettings
  <2>1. CASE Follows(u)
    <3>1. /\ th[u].at \in Pooled /\ th'[u].e = th[u].e
          /\ th'[u].settings = th[u].settings
          /\ th'[u].generation = th[u].generation
      BY <1>3, <2>1 DEF Follows
    <3>2. th[u].e \in Entries /\ SamePool(th[u].e) /\ th[u].generation \in Nat
      BY <3>1 DEF ThreadInv, Threads, Typed, Pooled
    <3>3. entry[th[u].e].generation \in Nat /\ entry'[th[u].e].generation \in Nat
      BY <3>2 DEF EntryInv, Installed
    <3> QED
      BY <3>1, <3>2, <3>3 DEF SamePool, SettingsInv
  <2> QED
    BY <2>0, <2>1
<1> QED
  BY <1>1, <1>2, <1>3 DEF SettingsInv

LEMMA StaleKept ==
    ASSUME ThreadInv, EntryInv, EntryInv', RoleInv, StaleInv, stale' \subseteq stale,
           \A e \in Entries : SamePool(e),
           \A u \in Users : Follows(u) \/ LentStale(u)'
    PROVE  StaleInv'
<1>1. 0 \notin stale'
  BY ManagerAssumption DEF EntryInv
<1>2. PressureHolds'
  BY <1>1 DEF StaleInv, PressureHolds, SamePool
<1>3. ASSUME NEW u \in Users, th'[u].at \in Lent, th'[u].vm \in stale'
      PROVE  th'[u].generation < entry'[th'[u].e].generation
  <2>0. CASE LentStale(u)'
    BY <1>3, <2>0 DEF LentStale
  <2>1. CASE Follows(u)
    <3>1. /\ th[u].at \in Lent /\ th'[u].e = th[u].e /\ th'[u].vm = th[u].vm
          /\ th'[u].generation = th[u].generation /\ th[u].vm \in stale
      BY <1>3, <2>1 DEF Follows, Pooled, Lent
    <3>2. th[u].e \in Entries /\ SamePool(th[u].e) /\ th[u].generation \in Nat
      BY <3>1 DEF ThreadInv, Threads, Typed, Lent
    <3>3. entry[th[u].e].generation \in Nat /\ entry'[th[u].e].generation \in Nat
      BY <3>2 DEF EntryInv, Installed
    <3> QED
      BY <3>1, <3>2, <3>3 DEF SamePool, StaleInv
  <2> QED
    BY <2>0, <2>1
<1> QED
  BY <1>2, <1>3 DEF StaleInv

-----------------------------------------------------------------------------
(* Steps of users: what is Admin's stays. *)

\* A runtime that stays open stays where it is.
Reachable ==
    /\ \A v \in Vms, e \in Entries :
          vm'[v].open /\ v \in Runtimes(entry[e]) => v \in Runtimes(entry'[e])
    /\ \A u \in Users :
          th[u].at = "push" => th'[u].at = "push" /\ th'[u].vm = th[u].vm

LEMMA OpenKept ==
    ASSUME EntryInv, OpenInv, Calm, Reachable, closed' = closed, halt' = halt,
           \A v \in Vms : vm'[v].open /\ vm[v].entry \in {current, th[Admin].e}
                              => vm[v].entry \in {current', th'[Admin].e},
           th'[Admin].at \in {"source", "data"}
              => /\ th[Admin].at \in {"source", "data"}
                 /\ th'[Admin].e = th[Admin].e
    PROVE  OpenInv'
<1>1. ASSUME NEW v \in Vms, vm'[v].open
      PROVE  /\ vm'[v].entry \in Entries /\ vm'[v].entry \in {current', th'[Admin].e}
             /\ \/ v \in Runtimes(entry'[vm'[v].entry])
                \/ \E u \in Users : th'[u].at = "push" /\ th'[u].vm = v
  <2>1. /\ vm[v].open /\ vm'[v].entry = vm[v].entry
        /\ vm[v].entry \in Entries /\ vm[v].entry \in {current, th[Admin].e}
        /\ \/ v \in Runtimes(entry[vm[v].entry])
           \/ \E u \in Users : th[u].at = "push" /\ th[u].vm = v
    BY <1>1 DEF Calm, OpenInv, At
  <2> QED
    BY <1>1, <2>1 DEF Reachable
<1>2. QuietRemoval'
  BY DEF QuietRemoval, OpenInv, Calm
<1>3. halt' \in {"runtimes", "idle", "down"} => \A v \in Vms : ~vm'[v].open
  BY DEF OpenInv, Calm
<1> QED
  BY <1>1, <1>2, <1>3 DEF OpenInv, At

\* What no step of a user changes.
Theirs == UNCHANGED <<current, target, backup, leftover, closed, halt, wanted,
                      gone>>

DataTyped == data \in [here : BOOLEAN, settings : Settings, enabled : BOOLEAN]

LEMMA UserDisk ==
    ASSUME DiskInv, NEW t \in Users, Only(t), Theirs, DataTyped'
    PROVE  DiskInv'
<1>1. th'[Admin] = th[Admin]
  BY ManagerAssumption DEF Only, Threads
<1> QED
  BY <1>1 DEF DiskInv, Theirs, SourceKept, At, Working, DataTyped

\* What t is about to load is not there yet.
Empties(t) == th'[t].at \in {"load", "loading"} => entry'[th'[t].e].primary = 0

LEMMA UserAdmin ==
    ASSUME ThreadInv, AdminInv, EngineInv, NEW t \in Users, Only(t), Theirs,
           th'[t].e \in {th[t].e, 0, current}, Empties(t),
           \A e \in Entries : e # th[t].e => entry'[e] = entry[e],
           \A e \in Entries : entry'[e].primary # entry[e].primary => engine[e] = t
    PROVE  AdminInv'
<1>1. th'[Admin] = th[Admin] /\ current' = current /\ Admin \in Threads
  BY ManagerAssumption DEF Only, Threads, Theirs
<1>2. th[Admin].at # "idle" => th[Admin].e \in Entries /\ th[Admin].e # 0
  BY <1>1, ManagerAssumption DEF ThreadInv, Typed
<1>3. Candidate => \A u \in Users : th'[u].e # th[Admin].e
  <2>1. SUFFICES ASSUME Candidate, NEW u \in Users PROVE th'[u].e # th[Admin].e
    OBVIOUS
  <2>2. th[Admin].e # 0 /\ th[Admin].e # current /\ th[u].e # th[Admin].e
        /\ th[t].e # th[Admin].e
    BY <1>2, <2>1 DEF AdminInv, Candidate, Working
  <2> QED
    BY <2>2 DEF Only, Threads
<1>4. Unloaded => Runtimes(entry'[th[Admin].e]) = {}
  <2>1. Unloaded => Candidate /\ th[Admin].e \in Entries
    BY <1>2 DEF Unloaded, Candidate, Working
  <2> QED
    BY <2>1 DEF AdminInv
<1>5. th[Admin].at = "initialize" => th[Admin].vm = entry'[th[Admin].e].primary
  <2>1. th[Admin].at = "initialize" => th[Admin].e \in Entries
                                       /\ engine[th[Admin].e] = Admin
    BY <1>2 DEF EngineInv
  <2>2. Admin # t
    BY ManagerAssumption
  <2> QED
    BY <2>1, <2>2 DEF AdminInv, At
<1>6. ASSUME NEW u \in Threads, th'[u].at \in {"load", "loading"}
      PROVE  entry'[th'[u].e].primary = 0
  <2>1. CASE u = t
    BY <1>6, <2>1 DEF Empties
  <2>2. CASE u # t
    <3>1. th'[u] = th[u] /\ th[u].e \in Entries
      BY <1>6, <2>2 DEF Only, ThreadInv, Typed
    <3>2. engine[th[u].e] = u
      BY <1>6, <3>1 DEF EngineInv, EnginePlaces, ReadyPlaces, Threads
    <3> QED
      BY <1>6, <2>2, <3>1, <3>2 DEF AdminInv
  <2> QED
    BY <2>1, <2>2
<1> QED
  BY <1>1, <1>3, <1>4, <1>5, <1>6 DEF AdminInv, Candidate, Unloaded, Working, At

LEMMA UserThread ==
    ASSUME ThreadInv, NEW t \in Users, Only(t), Typed(t)', UserTyped(t)'
    PROVE  ThreadInv'
<1>1. th'[Admin] = th[Admin] /\ Admin \in Threads /\ Users \subseteq Threads
  BY ManagerAssumption DEF Only, Threads
<1>2. \A u \in Threads : Typed(u)'
  BY DEF Only, Typed, ThreadInv
<1>3. \A u \in Users : UserTyped(u)'
  BY <1>1 DEF Only, UserTyped, ThreadInv
<1>4. AdminTyped'
  BY <1>1 DEF AdminTyped, ThreadInv
<1> QED
  BY <1>2, <1>3, <1>4 DEF ThreadInv, Only

\* The engine: t keeps what it holds, or gives it back.
LEMMA UserEngine ==
    ASSUME ThreadInv, EngineInv, NEW t \in Users, Only(t),
           \/ /\ engine' = engine
              /\ th[t].at \in EnginePlaces <=> th'[t].at \in EnginePlaces
              /\ th[t].at \in EnginePlaces => th'[t].e = th[t].e
           \/ Released(t) /\ th'[t].at \notin EnginePlaces
    PROVE  EngineInv'
<1>1. th'[Admin] = th[Admin] /\ Admin # t /\ None # t /\ None \notin Threads
  BY ManagerAssumption DEF Only, Threads
<1>2. /\ Users \subseteq Threads
      /\ th[Admin].at # "idle" => th[Admin].e \in Entries
      /\ \A u \in Users : th[u].at \in EnginePlaces => th[u].e \in Entries
  BY DEF Threads, ThreadInv, Typed, EnginePlaces
<1>3. CASE engine' = engine /\ (th[t].at \in EnginePlaces <=> th'[t].at \in EnginePlaces)
           /\ (th[t].at \in EnginePlaces => th'[t].e = th[t].e)
  BY <1>1, <1>2, <1>3 DEF EngineInv, Only
<1>4. CASE Released(t) /\ th'[t].at \notin EnginePlaces
  <2>1. \A e \in Entries : engine'[e] = IF engine[e] = t THEN None ELSE engine[e]
    BY <1>4 DEF Released
  <2>2. engine' \in [Entries -> Threads \cup {None}]
    BY <1>4 DEF Released, EngineInv
  <2> QED
    BY <1>1, <1>2, <1>4, <2>1, <2>2 DEF EngineInv, Only, ReadyPlaces
<1> QED
  BY <1>3, <1>4

LEMMA UserPool ==
    ASSUME PoolInv, NEW t \in Users, Only(t), pool' = pool,
           th[t].at # "return", th'[t].at # "return"
    PROVE  PoolInv'
  BY DEF PoolInv, Only, Threads

LEMMA UserBusy ==
    ASSUME BusyInv, NEW t \in Users, Only(t), Theirs,
           Busy(t)' => \/ Busy(t) /\ th'[t].e = th[t].e
                       \/ th'[t].e = current
    PROVE  BusyInv'
<1>1. th'[Admin] = th[Admin] /\ current' = current /\ closed' = closed
  BY ManagerAssumption DEF Only, Threads, Theirs
<1> QED
  BY <1>1 DEF BusyInv, Only, Threads, Busy, At

\* A user's step that borrows nothing new, but for the locks.
LEMMA PlainParts ==
    ASSUME IInv, NEW t \in Users, Only(t), Theirs, stale' = stale,
           Typed(t)', UserTyped(t)', DataTyped', EntryInv',
           th'[t].e \in {th[t].e, 0, current},
           Follows(t), Empties(t), th[t].at # "push",
           \A e \in Entries : e # th[t].e => entry'[e] = entry[e],
           \A e \in Entries : entry'[e].primary # entry[e].primary => engine[e] = t,
           \A e \in Entries : Shrunk(e), Calm,
           \A v \in Vms : vm'[v].open /\ v \in Runtimes(Entry(t))
                              => v \in Runtimes(entry'[th[t].e])
    PROVE  /\ ThreadInv' /\ AdminInv' /\ RoleInv' /\ SettingsInv' /\ StaleInv'
           /\ OpenInv' /\ DiskInv'
<1>1. \A u \in Users : u # t => th'[u] = th[u]
  BY DEF Only, Threads
<1>2. \A u \in Users : Follows(u)
  BY <1>1 DEF Follows
<1>3. Reachable
  BY <1>1 DEF Reachable, Entry
<1>4. th'[Admin] = th[Admin] /\ current' = current
  BY ManagerAssumption DEF Only, Threads, Theirs
<1>5. OpenInv'
  BY <1>3, <1>4, OpenKept DEF IInv, Theirs
<1>6. RoleInv' /\ SettingsInv' /\ StaleInv'
  <2>1. /\ Undisturbed /\ stale' \subseteq stale
        /\ \A e \in Entries : FewerRoles(e) /\ SamePool(e)
    BY CalmUndisturbed DEF Shrunk
  <2> QED
    BY <1>2, <2>1, RolesKept, SettingsFollow, StaleKept DEF IInv
<1>7. ThreadInv' /\ AdminInv' /\ DiskInv'
  BY UserThread, UserAdmin, UserDisk DEF IInv
<1> QED
  BY <1>5, <1>6, <1>7

LEMMA PlainStep ==
    ASSUME IInv, NEW t \in Users, Only(t), Theirs, stale' = stale, pool' = pool,
           Typed(t)', UserTyped(t)', DataTyped', EntryInv',
           th'[t].e \in {th[t].e, 0, current},
           th[t].at # "return", th'[t].at # "return",
           \/ /\ engine' = engine
              /\ th[t].at \in EnginePlaces <=> th'[t].at \in EnginePlaces
              /\ th[t].at \in EnginePlaces => th'[t].e = th[t].e
           \/ Released(t) /\ th'[t].at \notin EnginePlaces,
           Follows(t), Empties(t), th[t].at # "push",
           \A e \in Entries : e # th[t].e => entry'[e] = entry[e],
           \A e \in Entries : entry'[e].primary # entry[e].primary => engine[e] = t,
           \A e \in Entries : Shrunk(e), Calm,
           \A v \in Vms : vm'[v].open /\ v \in Runtimes(Entry(t))
                              => v \in Runtimes(entry'[th[t].e])
    PROVE  IInv'
<1>1. /\ ThreadInv' /\ AdminInv' /\ RoleInv' /\ SettingsInv' /\ StaleInv'
      /\ OpenInv' /\ DiskInv'
  BY PlainParts
<1>2. BusyInv'
  <2>1. Busy(t)' => Busy(t) /\ th'[t].e = th[t].e
    BY DEF Busy
  <2> QED
    BY <2>1, UserBusy DEF IInv
<1>3. EngineInv' /\ PoolInv'
  BY UserEngine, UserPool DEF IInv
<1> QED
  BY <1>1, <1>2, <1>3 DEF IInv

-----------------------------------------------------------------------------
(* Users: steps that borrow nothing new. *)

LEMMA SameEntries ==
    ASSUME EntryInv, entry' = entry, vm' = vm
    PROVE  /\ \A e \in Entries : Shrunk(e)
           /\ Calm
<1>1. \A e \in Entries : entry[e].generation <= entry[e].generation
  BY DEF EntryInv, Installed
<1> QED
  BY <1>1 DEF Shrunk, FewerRoles, SamePool, Calm

\* Closing runtimes is calm.
LEMMA ShutCalm ==
    ASSUME EntryInv, NEW S, Shut(S)
    PROVE  Calm
<1>1. ASSUME NEW v \in Vms
      PROVE  /\ vm'[v].entry = vm[v].entry
             /\ vm'[v].settings = vm[v].settings
             /\ vm'[v].open => vm[v].open
  BY DEF EntryInv, Shut
<1> QED
  BY <1>1 DEF Calm

\* Entries and the registry stay, and runtimes may be closed.
Steady == entry' = entry /\ Calm /\ EntryInv' /\ stale' = stale

LEMMA SteadyCases ==
    ASSUME IInv, current' = current, entry' = entry, stale' = stale, NEW S,
           vm' = vm \/ Shut(S)
    PROVE  Steady
<1>1. EntryInv
  BY DEF IInv
<1>2. CASE vm' = vm
  BY <1>1, <1>2, SameEntries DEF Steady, EntryInv
<1>3. CASE Shut(S)
  <2>1. Calm
    BY <1>1, <1>3, ShutCalm
  <2>2. vm' \in [Vms -> [entry : Entries \cup {0}, settings : Settings,
                        open : BOOLEAN]]
    BY <1>1, <1>3, ShutGives
  <2> QED
    BY <1>1, <2>1, <2>2 DEF Steady, EntryInv
<1> QED
  BY <1>2, <1>3

LEMMA QuietStep ==
    ASSUME IInv, NEW t \in Users, Only(t), Theirs, pool' = pool, Steady,
           Typed(t)', UserTyped(t)', DataTyped',
           th'[t].e \in {th[t].e, 0, current},
           th[t].at \notin {"push", "return"}, th'[t].at # "return",
           \/ /\ engine' = engine
              /\ th[t].at \in EnginePlaces <=> th'[t].at \in EnginePlaces
              /\ th[t].at \in EnginePlaces => th'[t].e = th[t].e
           \/ Released(t) /\ th'[t].at \notin EnginePlaces,
           Follows(t), Empties(t)
    PROVE  IInv'
<1>1. EntryInv' /\ Calm /\ entry' = entry /\ stale' = stale
  BY DEF Steady
<1>2. \A e \in Entries : Shrunk(e)
  <2>1. \A e \in Entries : entry[e].generation <= entry[e].generation
    BY DEF IInv, EntryInv, Installed
  <2> QED
    BY <1>1, <2>1 DEF Shrunk, FewerRoles, SamePool
<1>3. th'[t].at # "return" /\ th[t].at # "return" /\ th[t].at # "push"
  OBVIOUS
<1>4. /\ \A e \in Entries : e # th[t].e => entry'[e] = entry[e]
      /\ \A e \in Entries : entry'[e].primary # entry[e].primary => engine[e] = t
      /\ \A v \in Vms : vm'[v].open /\ v \in Runtimes(Entry(t))
                              => v \in Runtimes(entry'[th[t].e])
  BY <1>1 DEF Entry
<1> QED
  BY <1>1, <1>2, <1>3, <1>4, PlainStep

\* Rest is well typed.
LEMMA RestTyped ==
    ASSUME NEW t \in Users, th'[t] = Rest
    PROVE  /\ Typed(t)' /\ UserTyped(t)' /\ Follows(t) /\ Empties(t)
           /\ th'[t].at = "idle" /\ th'[t].e = 0
  BY ManagerAssumption DEF Typed, UserTyped, Rest, Places, UserPlaces, Follows,
                           Pooled, EnginePlaces, Empties

LEMMA TouchedTyped ==
    ASSUME DataTyped
    PROVE  /\ Touched \in [here : BOOLEAN, settings : Settings, enabled : BOOLEAN]
           /\ Touched.settings = data.settings
  BY DEF DataTyped, Touched

\* What is known of a user that is not idle.
LEMMA UserKnown ==
    ASSUME IInv, NEW t \in Users, th[t].at # "idle"
    PROVE  /\ t \in Threads /\ th[t].e \in Entries /\ Entry(t) \in Installed
           /\ th[t].op \in {"call", "download", "preflight"}
           /\ DataTyped /\ ThreadInv /\ EntryInv /\ th[t].vm \in Vms \cup {0}
           /\ th[t].generation \in Nat /\ th[t].settings \in Settings
  BY DEF IInv, ThreadInv, EntryInv, DiskInv, DataTyped, Typed, UserTyped, Threads,
         Entry

LEMMA BeginStep ==
    ASSUME IInv, NEW t \in Users, NEW op \in {"call", "download", "preflight"},
           Begin(t, op)
    PROVE  IInv'
<1> DEFINE place == IF op = "preflight" /\ AccountMode THEN "account" ELSE "engine"
<1>1. /\ ThreadInv /\ t \in Threads /\ DataTyped /\ th[t].at = "idle"
      /\ current \in Entries /\ Typed(t)
  BY DEF IInv, Begin, At, Threads, DiskInv, DataTyped, EntryInv, ThreadInv
<1>2. /\ Only(t)
      /\ \A f \in Fields : th'[t][f] =
            IF f \in DOMAIN [op |-> op, e |-> current, at |-> place]
            THEN [op |-> op, e |-> current, at |-> place][f] ELSE th[t][f]
  BY <1>1, SetGives DEF Begin
<1>3. /\ th'[t].at = place /\ th'[t].op = op /\ th'[t].e = current
      /\ th'[t].vm = th[t].vm /\ th'[t].generation = th[t].generation
      /\ th'[t].settings = th[t].settings
  BY <1>2 DEF Fields
<1>4. place \in {"account", "engine"}
  OBVIOUS
<1> HIDE DEF place
<1>5. Typed(t)' /\ UserTyped(t)' /\ Follows(t) /\ Empties(t) /\ th'[t].at # "return"
  BY <1>1, <1>3, <1>4 DEF Typed, UserTyped, Places, UserPlaces, Pooled, EnginePlaces,
                          Follows, Empties
<1>6. /\ Theirs /\ stale' = stale /\ pool' = pool /\ entry' = entry /\ vm' = vm
      /\ engine' = engine /\ DataTyped' /\ current' = current
  BY <1>1 DEF Begin, Theirs, disk, history, bounds, DataTyped
<1>9. Steady
  BY <1>6, SteadyCases
<1>7. th[t].at \notin EnginePlaces /\ th'[t].at \notin EnginePlaces
  BY <1>1, <1>3, <1>4 DEF EnginePlaces
<1>8. th[t].at \notin {"push", "return"} /\ th'[t].e \in {th[t].e, 0, current}
  BY <1>1, <1>3
<1> QED
  BY <1>2, <1>5, <1>6, <1>7, <1>8, <1>9, QuietStep

\* A user ends its operation and has nothing to give back but the engine.
LEMMA LeaveStep ==
    ASSUME IInv, NEW t \in Users, th[t].at \notin {"push", "return"}, Done(t),
           Theirs, pool' = pool, Steady, DataTyped',
           \/ engine' = engine /\ th[t].at \notin EnginePlaces
           \/ Released(t)
    PROVE  IInv'
<1>1. Only(t) /\ th'[t] = Rest
  BY DoneGives DEF IInv, Threads
<1>2. /\ Typed(t)' /\ UserTyped(t)' /\ Follows(t) /\ Empties(t)
      /\ th'[t].at = "idle" /\ th'[t].e = 0
  BY <1>1, RestTyped
<1>3. th'[t].at \notin EnginePlaces /\ th'[t].at # "return"
  BY <1>2 DEF EnginePlaces
<1>4. \/ engine' = engine /\ (th[t].at \in EnginePlaces <=> th'[t].at \in EnginePlaces)
         /\ (th[t].at \in EnginePlaces => th'[t].e = th[t].e)
      \/ Released(t) /\ th'[t].at \notin EnginePlaces
  BY <1>3
<1> QED
  BY <1>1, <1>2, <1>3, <1>4, QuietStep

\* A user goes on to another place; data may be touched.
LEMMA OnwardStep ==
    ASSUME IInv, NEW t \in Users, NEW place, Go(t, place),
           \/ th[t].at \in {"account", "mode"} /\ place \in {"mode", "engine"}
           \/ th[t].at \in EnginePlaces \ Pooled
              /\ place \in {"ready", "load", "loading", "init"}
           \/ th[t].at \in {"isolate"} /\ place = "isolating"
           \/ th[t].at \in {"borrowed"} /\ place = "drop",
           place \in {"load", "loading"} => Entry(t).primary = 0,
           Theirs, pool' = pool, Steady, engine' = engine, DataTyped'
    PROVE  IInv'
<1>1. /\ t \in Threads /\ ThreadInv /\ th[t].e \in Entries /\ Typed(t)
      /\ UserTyped(t) /\ th[t].at # "idle"
  BY DEF IInv, ThreadInv, Threads, Typed, EnginePlaces
<1>2. /\ Only(t)
      /\ th'[t].at = place /\ th'[t].op = th[t].op /\ th'[t].e = th[t].e
      /\ th'[t].vm = th[t].vm /\ th'[t].generation = th[t].generation
      /\ th'[t].settings = th[t].settings
  BY <1>1, GoGives
<1>3. Typed(t)' /\ UserTyped(t)'
  BY <1>1, <1>2 DEF Typed, UserTyped, Places, UserPlaces, Pooled, EnginePlaces
<1>4. Follows(t) /\ th'[t].at # "return" /\ th[t].at \notin {"push", "return"}
  BY <1>1, <1>2 DEF Follows, Pooled, Lent, EnginePlaces
<1>6. Empties(t)
  BY <1>2 DEF Empties, Entry, Steady
<1>5. th[t].at \in EnginePlaces <=> th'[t].at \in EnginePlaces
  BY <1>2 DEF EnginePlaces
<1> QED
  BY <1>2, <1>3, <1>4, <1>5, <1>6, QuietStep

\* The unchanged variables of a user's step that touches neither entries nor
\* the data directory.
LEMMA StillGives ==
    ASSUME IInv, UNCHANGED <<current, entry, pool, vm, disk, closed, halt, history>>
    PROVE  Theirs /\ pool' = pool /\ Steady /\ DataTyped'
<1>1. /\ Theirs /\ pool' = pool /\ current' = current /\ entry' = entry
      /\ stale' = stale /\ vm' = vm
  BY DEF Theirs, disk, history
<1>2. Steady
  BY <1>1, SteadyCases
<1>3. DataTyped'
  BY DEF IInv, DiskInv, DataTyped, disk
<1> QED
  BY <1>1, <1>2, <1>3

LEMMA AccountStep ==
    ASSUME IInv, NEW t \in Users, Account(t)
    PROVE  IInv'
<1>1. th[t].at = "account" /\ engine' = engine
  BY DEF Account, At
<1>2. Theirs /\ pool' = pool /\ Steady /\ DataTyped'
  BY StillGives DEF Account
<1>3. CASE Done(t)
  <2>1. th[t].at \notin {"push", "return"} /\ th[t].at \notin EnginePlaces
    BY <1>1 DEF EnginePlaces
  <2> QED
    BY <1>1, <1>2, <1>3, <2>1, LeaveStep
<1>4. CASE Go(t, "mode")
  <2>1. th[t].at \in {"account", "mode"} /\ "mode" \in {"mode", "engine"}
    BY <1>1
  <2> QED
    BY <1>1, <1>2, <1>4, <2>1, OnwardStep
<1> QED
  BY <1>3, <1>4 DEF Account

LEMMA AccountSettingsStep ==
    ASSUME IInv, NEW t \in Users, AccountSettings(t)
    PROVE  IInv'
<1>1. /\ th[t].at = "mode" /\ engine' = engine /\ current' = current
      /\ Theirs /\ pool' = pool /\ entry' = entry /\ vm' = vm /\ stale' = stale
  BY DEF AccountSettings, At, Theirs, history
<1>2. Steady
  BY <1>1, SteadyCases
<1>3. DataTyped'
  <2>1. DataTyped
    BY DEF IInv, DiskInv, DataTyped
  <2>2. data' = data \/ data' = Touched
    BY DEF AccountSettings
  <2> QED
    BY <2>1, <2>2, TouchedTyped DEF DataTyped
<1>4. CASE Done(t)
  <2>1. th[t].at \notin {"push", "return"} /\ th[t].at \notin EnginePlaces
    BY <1>1 DEF EnginePlaces
  <2> QED
    BY <1>1, <1>2, <1>3, <1>4, <2>1, LeaveStep
<1>5. CASE Go(t, "engine")
  <2>1. th[t].at \in {"account", "mode"} /\ "engine" \in {"mode", "engine"}
    BY <1>1
  <2> QED
    BY <1>1, <1>2, <1>3, <1>5, <2>1, OnwardStep
<1> QED
  BY <1>4, <1>5 DEF AccountSettings

LEMMA StopWaitingStep ==
    ASSUME IInv, NEW t \in Users, StopWaiting(t)
    PROVE  IInv'
<1>1. /\ th[t].at = "engine" /\ engine' = engine /\ Done(t)
      /\ th[t].at \notin EnginePlaces /\ th[t].at \notin {"push", "return"}
  BY DEF StopWaiting, At, EnginePlaces
<1>2. Theirs /\ pool' = pool /\ Steady /\ DataTyped'
  BY StillGives DEF StopWaiting
<1> QED
  BY <1>1, <1>2, LeaveStep

LEMMA NativeEndsStep ==
    ASSUME IInv, NEW t \in Users, NativeEnds(t)
    PROVE  IInv'
<1>1. /\ th[t].at = "native" /\ engine' = engine /\ Done(t)
      /\ th[t].at \notin EnginePlaces /\ th[t].at \notin {"push", "return"}
  BY DEF NativeEnds, At, EnginePlaces
<1>2. Theirs /\ pool' = pool /\ Steady /\ DataTyped'
  BY StillGives DEF NativeEnds
<1> QED
  BY <1>1, <1>2, LeaveStep

LEMMA CallEndsStep ==
    ASSUME IInv, NEW t \in Users, CallEnds(t)
    PROVE  IInv'
<1>1. /\ th[t].at \notin {"push", "return"} /\ Released(t) /\ Done(t)
      /\ Theirs /\ pool' = pool /\ current' = current /\ entry' = entry
      /\ stale' = stale
  BY DEF CallEnds, At, Theirs, disk, history
<1>2. DataTyped'
  BY DEF IInv, DiskInv, DataTyped, CallEnds, disk
<1>3. Steady
  <2>1. vm' = vm \/ Shut({th[t].vm})
    BY DEF CallEnds
  <2> QED
    BY <1>1, <2>1, SteadyCases
<1> QED
  BY <1>1, <1>2, <1>3, LeaveStep

-----------------------------------------------------------------------------
(* Users: steps of a thread that holds the engine lock. *)

\* An entry's value x is y with less in it.
Lower(x, y) ==
    /\ x.primary \in {0, y.primary} /\ x.idle \in {0, y.idle}
    /\ x.active \subseteq y.active
    /\ x.idle # 0 => x.settings = y.settings
    /\ y.generation <= x.generation
    /\ x.generation = y.generation => x.settings = y.settings

VmTyped == vm \in [Vms -> [entry : Entries \cup {0}, settings : Settings,
                           open : BOOLEAN]]

LEMMA HolderStep ==
    ASSUME IInv, NEW t \in Users, th[t].at \in EnginePlaces \ {"push"},
           Only(t), Theirs, stale' = stale, pool' = pool,
           Typed(t)', UserTyped(t)', DataTyped', Follows(t), Empties(t),
           th'[t].at # "return",
           \/ /\ engine' = engine /\ th'[t].at \in EnginePlaces
              /\ th'[t].e = th[t].e
           \/ Released(t) /\ th'[t].at \notin EnginePlaces,
           th'[t].e \in {th[t].e, 0},
           NEW x \in Installed, entry' = [entry EXCEPT ![th[t].e] = x],
           Lower(x, Entry(t)), Calm, VmTyped',
           \A v \in Vms : vm'[v].open /\ v \in Runtimes(Entry(t)) => v \in Runtimes(x)
    PROVE  IInv'
<1>1. /\ th[t].at # "idle" /\ th[t].at # "push" /\ th[t].at # "return"
      /\ th[t].at \in EnginePlaces
  BY DEF EnginePlaces
<1>2. th[t].e \in Entries /\ EntryInv /\ Entry(t) = entry[th[t].e]
  BY <1>1, UserKnown DEF Entry
<1>3. /\ entry' \in [Entries -> Installed] /\ entry'[th[t].e] = x
      /\ \A d \in Entries : d # th[t].e => entry'[d] = entry[d]
  BY <1>2, PutGives
<1>4. EntryInv'
  BY <1>2, <1>3 DEF EntryInv, Theirs, VmTyped
<1>5. \A e \in Entries : Shrunk(e)
  <2>1. \A e \in Entries : entry[e].generation <= entry[e].generation
    BY <1>2 DEF EntryInv, Installed
  <2>2. Shrunk(th[t].e)
    BY <1>2, <1>3 DEF Shrunk, FewerRoles, SamePool, Lower
  <2>3. ASSUME NEW e \in Entries, e # th[t].e PROVE Shrunk(e)
    BY <1>3, <2>1, <2>3 DEF Shrunk, FewerRoles, SamePool
  <2> QED
    BY <2>2, <2>3
<1>6. engine[th[t].e] = t
  BY <1>1 DEF IInv, EngineInv
<1>7. \A e \in Entries : entry'[e].primary # entry[e].primary => engine[e] = t
  BY <1>3, <1>6
<1>8. \/ /\ engine' = engine
         /\ th[t].at \in EnginePlaces <=> th'[t].at \in EnginePlaces
         /\ th[t].at \in EnginePlaces => th'[t].e = th[t].e
      \/ Released(t) /\ th'[t].at \notin EnginePlaces
  BY <1>1
<1>9. th'[t].e \in {th[t].e, 0, current}
  OBVIOUS
<1>10. \A v \in Vms : vm'[v].open /\ v \in Runtimes(Entry(t))
                          => v \in Runtimes(entry'[th[t].e])
  BY <1>3
<1> QED
  BY <1>1, <1>3, <1>4, <1>5, <1>7, <1>8, <1>9, <1>10, PlainStep

\* A user gives up: ready failed, or what comes after it.
LEMMA UserGivesUp ==
    ASSUME IInv, NEW t \in Users, th[t].at \in EnginePlaces \ {"push"},
           NEW x \in Installed, GiveUp(t, x), Theirs, stale' = stale, pool' = pool,
           Lower(x, Entry(t)), Calm, VmTyped',
           \A v \in Vms : vm'[v].open /\ v \in Runtimes(Entry(t)) => v \in Runtimes(x)
    PROVE  IInv'
<1>1. th[t].at # "idle"
  BY DEF EnginePlaces
<1>2. /\ t \in Threads /\ ThreadInv /\ DataTyped
      /\ th[t].op \in {"call", "download", "preflight"}
  BY <1>1, UserKnown
<1>3. Only(t) /\ th'[t] = Rest
  BY <1>2, DoneGives DEF GiveUp
<1>4. /\ Typed(t)' /\ UserTyped(t)' /\ Follows(t) /\ Empties(t)
      /\ th'[t].at = "idle" /\ th'[t].e = 0
  BY <1>3, RestTyped
<1>5. th'[t].at \notin EnginePlaces /\ th'[t].at # "return" /\ Released(t)
  BY <1>4 DEF EnginePlaces, GiveUp
<1>6. DataTyped'
  BY <1>2 DEF GiveUp, DataTyped
<1> DEFINE y == IF Marks(th[t].op) THEN Failed(x) ELSE x
<1>7. entry' = [entry EXCEPT ![th[t].e] = y]
  BY DEF GiveUp
<1>8. /\ y \in Installed /\ y.primary = x.primary /\ y.idle = x.idle
      /\ y.active = x.active /\ y.settings = x.settings
      /\ y.generation = x.generation
  BY ValuesGive
<1> HIDE DEF y
<1>9. Lower(y, Entry(t)) /\ Runtimes(y) = Runtimes(x)
  BY <1>8 DEF Lower, Runtimes
<1>10. th'[t].e \in {th[t].e, 0}
  BY <1>4
<1> QED
  BY <1>3, <1>4, <1>5, <1>6, <1>7, <1>8, <1>9, <1>10, HolderStep

LEMMA LowerSelf ==
    ASSUME NEW x \in Installed
    PROVE  Lower(x, x) /\ Lower(Failed(x), x) /\ Runtimes(Failed(x)) = Runtimes(x)
<1>1. /\ Failed(x).primary = x.primary /\ Failed(x).idle = x.idle
      /\ Failed(x).active = x.active /\ Failed(x).settings = x.settings
      /\ Failed(x).generation = x.generation
  BY ValuesGive
<1>2. x.generation <= x.generation
  BY DEF Installed
<1> QED
  BY <1>1, <1>2 DEF Lower, Runtimes

\* A user gives up and the runtimes stay as they are.
LEMMA UserGivesUpPlainly ==
    ASSUME IInv, NEW t \in Users, th[t].at \in EnginePlaces \ {"push"},
           GiveUp(t, Entry(t)) \/ GiveUp(t, Failed(Entry(t))),
           Theirs, stale' = stale, pool' = pool, vm' = vm
    PROVE  IInv'
<1>1. th[t].at # "idle"
  BY DEF EnginePlaces
<1>2. Entry(t) \in Installed /\ EntryInv
  BY <1>1, UserKnown
<1>3. Calm /\ VmTyped'
  BY <1>2 DEF Calm, VmTyped, EntryInv
<1>4. Lower(Entry(t), Entry(t)) /\ Lower(Failed(Entry(t)), Entry(t))
      /\ Runtimes(Failed(Entry(t))) = Runtimes(Entry(t))
      /\ Failed(Entry(t)) \in Installed
  BY <1>2, LowerSelf, ValuesGive
<1>5. CASE GiveUp(t, Entry(t))
  BY <1>2, <1>3, <1>4, <1>5, UserGivesUp
<1>6. CASE GiveUp(t, Failed(Entry(t)))
  BY <1>2, <1>3, <1>4, <1>6, UserGivesUp
<1> QED
  BY <1>5, <1>6

-----------------------------------------------------------------------------
(* Users: ready_with_lease and the borrowing that follows it. *)

\* A runtime that is dropped from an entry's value is closed.
LEMMA ForgottenGives ==
    ASSUME EntryInv, NEW x \in Installed, x.primary # 0 => ~vm[x.primary].open,
           Shut({x.idle})
    PROVE  LET y == [Invalidated(x) EXCEPT !.primary = 0, !.initialized = FALSE]
           IN /\ y \in Installed /\ Lower(y, x) /\ Calm /\ VmTyped'
              /\ \A v \in Vms : vm'[v].open /\ v \in Runtimes(x) => v \in Runtimes(y)
              /\ y.primary = 0 /\ y.active = x.active /\ y.idle = 0
              /\ Runtimes(y) \subseteq Runtimes(x)
<1> DEFINE y == [Invalidated(x) EXCEPT !.primary = 0, !.initialized = FALSE]
<1>1. /\ Invalidated(x) \in Installed
      /\ Invalidated(x).primary = x.primary /\ Invalidated(x).idle = 0
      /\ Invalidated(x).active = x.active /\ Invalidated(x).settings = None
      /\ Invalidated(x).generation = x.generation + 1
  BY ValuesGive
<1>2. y \in Installed
  BY ZenonT(40), <1>1 DEF Installed
<1>3. /\ y.primary = 0 /\ y.idle = 0 /\ y.active = x.active
      /\ y.generation = x.generation + 1
  BY <1>1 DEF Installed
<1>4. x.generation \in Nat /\ x.generation <= x.generation + 1
      /\ x.generation + 1 # x.generation
  BY DEF Installed
<1> HIDE DEF y
<1>5. Lower(y, x)
  BY <1>3, <1>4 DEF Lower
<1>6. VmTyped'
  BY ShutGives DEF VmTyped
<1>7. ASSUME NEW v \in Vms, vm'[v].open, v \in Runtimes(x) PROVE v \in Runtimes(y)
  <2>1. vm[v].open /\ v # x.idle
    BY <1>7 DEF Shut, EntryInv
  <2> QED
    BY <1>3, <1>7, <2>1 DEF Runtimes
<1>8. Calm
  BY ShutCalm
<1>9. Runtimes(y) \subseteq Runtimes(x)
  BY <1>3 DEF Runtimes
<1> QED
  BY <1>2, <1>3, <1>5, <1>6, <1>7, <1>8, <1>9 DEF y

LEMMA UserGates ==
    ASSUME IInv, NEW t \in Users, Gates(t)
    PROVE  IInv'
<1>1. /\ th[t].at = "ready" /\ Theirs /\ stale' = stale /\ pool' = pool
      /\ current' = current
  BY DEF Gates, At, Theirs, history
<1>2. /\ th[t].at \in EnginePlaces \ {"push"} /\ th[t].at \in EnginePlaces \ Pooled
      /\ th[t].at # "idle"
  BY <1>1 DEF EnginePlaces, Pooled
<1>3. /\ t \in Threads /\ th[t].e \in Entries /\ Entry(t) \in Installed
      /\ DataTyped /\ ThreadInv /\ EntryInv
  BY <1>2, UserKnown
<1>4. CASE (GiveUp(t, Failed(Entry(t))) \/ GiveUp(t, Entry(t))) /\ vm' = vm
  BY <1>1, <1>2, <1>4, UserGivesUpPlainly
<1>5. CASE /\ ~closed /\ Entry(t).primary # 0 /\ ~Open(Entry(t).primary)
           /\ entry' = [entry EXCEPT ![th[t].e] =
                  [Invalidated(@) EXCEPT !.primary = 0, !.initialized = FALSE]]
           /\ Shut({Entry(t).idle}) /\ Go(t, "load")
           /\ engine' = engine /\ data' = data
  <2> DEFINE y == [Invalidated(Entry(t)) EXCEPT !.primary = 0, !.initialized = FALSE]
  <2>1. Entry(t).primary # 0 => ~vm[Entry(t).primary].open
    BY <1>5 DEF Open
  <2>2. /\ y \in Installed /\ Lower(y, Entry(t)) /\ Calm /\ VmTyped' /\ y.primary = 0
        /\ \A v \in Vms : vm'[v].open /\ v \in Runtimes(Entry(t)) => v \in Runtimes(y)
    BY <1>3, <1>5, <2>1, ForgottenGives
  <2>3. entry' = [entry EXCEPT ![th[t].e] = y]
    BY <1>5 DEF Entry
  <2> HIDE DEF y
  <2>4. /\ Only(t)
        /\ th'[t].at = "load" /\ th'[t].op = th[t].op /\ th'[t].e = th[t].e
        /\ th'[t].vm = th[t].vm /\ th'[t].generation = th[t].generation
        /\ th'[t].settings = th[t].settings
    BY <1>3, <1>5, GoGives
  <2>5. Typed(t)' /\ UserTyped(t)' /\ Follows(t) /\ th'[t].at # "return"
        /\ th'[t].at \in EnginePlaces /\ DataTyped'
    BY <1>1, <1>3, <1>5, <2>4
       DEF ThreadInv, Typed, UserTyped, Places, UserPlaces, Pooled, EnginePlaces,
           Follows, DataTyped
  <2>6. th'[t].e \in {th[t].e, 0}
    BY <2>4
  <2>7. Empties(t)
    BY <1>3, <2>2, <2>3, <2>4 DEF Empties, EntryInv
  <2> QED
    BY <1>1, <1>2, <1>5, <2>2, <2>3, <2>4, <2>5, <2>6, <2>7, HolderStep
<1>6. CASE /\ \/ Go(t, "load") /\ Entry(t).primary = 0
              \/ Go(t, "init")
           /\ entry' = entry /\ vm' = vm /\ engine' = engine /\ data' = data
  <2>1. Steady
    BY <1>1, <1>6, SteadyCases
  <2>2. DataTyped'
    BY <1>3, <1>6 DEF DataTyped
  <2>3. "load" \in {"ready", "load", "loading", "init"}
        /\ "init" \in {"ready", "load", "loading", "init"}
    OBVIOUS
  <2> QED
    BY <1>1, <1>2, <1>6, <2>1, <2>2, <2>3, OnwardStep
<1> QED
  BY <1>4, <1>5, <1>6 DEF Gates

LEMMA UserLoad ==
    ASSUME IInv, NEW t \in Users, Load(t)
    PROVE  IInv'
<1>1. /\ th[t].at = "load" /\ Theirs /\ stale' = stale /\ pool' = pool
      /\ current' = current /\ vm' = vm
  BY DEF Load, At, Theirs, history
<1>2. /\ th[t].at \in EnginePlaces \ {"push"} /\ th[t].at \in EnginePlaces \ Pooled
      /\ th[t].at # "idle"
  BY <1>1 DEF EnginePlaces, Pooled
<1>3. CASE GiveUp(t, Entry(t))
  BY <1>1, <1>2, <1>3, UserGivesUpPlainly
<1>4. CASE /\ Go(t, "loading") /\ data' = Touched
           /\ UNCHANGED <<entry, engine>>
  <2>1. Steady
    BY <1>1, <1>4, SteadyCases
  <2>2. DataTyped'
    BY <1>2, <1>4, UserKnown, TouchedTyped DEF DataTyped
  <2>3. "loading" \in {"ready", "load", "loading", "init"} /\ Entry(t).primary = 0
    BY <1>1 DEF IInv, AdminInv, Entry, Threads
  <2> QED
    BY <1>1, <1>2, <1>4, <2>1, <2>2, <2>3, OnwardStep
<1> QED
  BY <1>3, <1>4 DEF Load

\* What init does with a runtime's settings is calm.
LEMMA GivenCalm ==
    ASSUME EntryInv, NEW e \in Entries, NEW s \in Settings,
           vm' = [vm EXCEPT ![entry[e].primary].settings = s]
    PROVE  Calm /\ VmTyped' /\ \A v \in Vms : vm'[v].open = vm[v].open
<1>1. \A v \in Vms : vm'[v].entry = vm[v].entry /\ vm'[v].open = vm[v].open
                     /\ (v # entry[e].primary => vm'[v].settings = vm[v].settings)
  BY DEF EntryInv
<1>2. VmTyped'
  BY DEF EntryInv, VmTyped
<1> QED
  BY <1>1, <1>2 DEF Calm

LEMMA UserInitialize ==
    ASSUME IInv, NEW t \in Users, Initialize(t)
    PROVE  IInv'
<1>1. /\ th[t].at = "init" /\ Theirs /\ stale' = stale /\ pool' = pool
      /\ current' = current
  BY DEF Initialize, At, Theirs, history
<1>2. /\ th[t].at \in EnginePlaces \ {"push"} /\ th[t].at # "idle"
  BY <1>1 DEF EnginePlaces, Pooled
<1>3. /\ t \in Threads /\ th[t].e \in Entries /\ Entry(t) \in Installed
      /\ DataTyped /\ ThreadInv /\ EntryInv /\ Entry(t) = entry[th[t].e]
      /\ th[t].op \in {"call", "download", "preflight"} /\ Typed(t)
      /\ Entry(t).primary \in Vms \cup {0}
  BY <1>2, UserKnown DEF Entry, ThreadInv, Installed
<1>4. ASSUME NEW x \in Installed, entry' = [entry EXCEPT ![th[t].e] = x],
             x.primary = Entry(t).primary, x.idle = Entry(t).idle,
             x.active = Entry(t).active, x.settings = Entry(t).settings,
             x.generation = Entry(t).generation,
             Calm, VmTyped', DataTyped',
             Set(t, [at |-> After(th[t].op), vm |-> Entry(t).primary]),
             IF th[t].op = "preflight" THEN Released(t) ELSE UNCHANGED engine
      PROVE  IInv'
  <2> DEFINE c == [at |-> After(th[t].op), vm |-> Entry(t).primary]
  <2>1. /\ Only(t)
        /\ \A f \in Fields : th'[t][f] = IF f \in DOMAIN c THEN c[f] ELSE th[t][f]
    BY <1>3, <1>4, SetGives
  <2>2. /\ th'[t].at = After(th[t].op) /\ th'[t].op = th[t].op /\ th'[t].e = th[t].e
        /\ th'[t].vm = Entry(t).primary /\ th'[t].generation = th[t].generation
        /\ th'[t].settings = th[t].settings
    BY <2>1 DEF Fields
  <2>3. /\ th[t].op = "call" => After(th[t].op) = "calling"
        /\ th[t].op = "download" => After(th[t].op) = "settings"
        /\ th[t].op = "preflight" => After(th[t].op) = "native"
    BY DEF After
  <2>4. Typed(t)' /\ UserTyped(t)' /\ Follows(t) /\ Empties(t) /\ th'[t].at # "return"
    BY <1>3, <2>2, <2>3 DEF Typed, UserTyped, Places, UserPlaces, Pooled,
                            EnginePlaces, Follows, Empties
  <2>5. \/ engine' = engine /\ th'[t].at \in EnginePlaces /\ th'[t].e = th[t].e
        \/ Released(t) /\ th'[t].at \notin EnginePlaces
    BY <1>3, <1>4, <2>2, <2>3 DEF EnginePlaces
  <2>6. Lower(x, Entry(t)) /\ Runtimes(x) = Runtimes(Entry(t))
    <3>1. x.generation <= x.generation
      BY DEF Installed
    <3> QED
      BY <1>4, <3>1 DEF Lower, Runtimes
  <2>7. th'[t].e \in {th[t].e, 0}
    BY <2>2
  <2>8. th[t].at \in EnginePlaces \ {"push"}
    BY <1>2
  <2> QED
    BY <1>1, <1>4, <2>1, <2>4, <2>5, <2>6, <2>7, <2>8, HolderStep
<1>5. CASE /\ entry' = [entry EXCEPT ![th[t].e].error = FALSE]
           /\ Set(t, [at |-> After(th[t].op), vm |-> Entry(t).primary])
           /\ IF th[t].op = "preflight" THEN Released(t) ELSE UNCHANGED engine
           /\ UNCHANGED <<vm, data>>
  <2> DEFINE x == [Entry(t) EXCEPT !.error = FALSE]
  <2>1. entry' = [entry EXCEPT ![th[t].e] = x]
    BY <1>3, <1>5
  <2>2. /\ x \in Installed
        /\ x.primary = Entry(t).primary /\ x.idle = Entry(t).idle
        /\ x.active = Entry(t).active /\ x.settings = Entry(t).settings
        /\ x.generation = Entry(t).generation
    BY <1>3 DEF Installed
  <2> HIDE DEF x
  <2>3. Calm /\ VmTyped' /\ DataTyped'
    BY <1>3, <1>5 DEF Calm, VmTyped, EntryInv, DataTyped
  <2> QED
    BY <1>4, <1>5, <2>1, <2>2, <2>3
<1>6. CASE /\ entry' = [entry EXCEPT ![th[t].e].error = FALSE,
                                     ![th[t].e].initialized = TRUE]
           /\ vm' = [vm EXCEPT ![Entry(t).primary].settings = data.settings]
           /\ data' = Touched
           /\ Set(t, [at |-> After(th[t].op), vm |-> Entry(t).primary])
           /\ IF th[t].op = "preflight" THEN Released(t) ELSE UNCHANGED engine
  <2> DEFINE x == [Entry(t) EXCEPT !.error = FALSE, !.initialized = TRUE]
  <2>1. entry' = [entry EXCEPT ![th[t].e] = x]
    BY <1>3, <1>6 DEF EntryInv
  <2>2. /\ x \in Installed
        /\ x.primary = Entry(t).primary /\ x.idle = Entry(t).idle
        /\ x.active = Entry(t).active /\ x.settings = Entry(t).settings
        /\ x.generation = Entry(t).generation
    BY <1>3 DEF Installed
  <2> HIDE DEF x
  <2>3. DataTyped' /\ data.settings \in Settings
    BY <1>3, <1>6, TouchedTyped DEF DataTyped
  <2>4. Calm /\ VmTyped'
    BY <1>3, <1>6, <2>3, GivenCalm
  <2> QED
    BY <1>4, <1>6, <2>1, <2>2, <2>3, <2>4
<1>7. CASE Shut(Runtimes(Entry(t))) /\ GiveUp(t, TornDown(Entry(t)))
  <2> DEFINE x == TornDown(Entry(t))
  <2>1. /\ x \in Installed /\ Runtimes(x) = {} /\ x.primary = 0 /\ x.idle = 0
        /\ x.active = {} /\ x.generation = Entry(t).generation + 1
    BY <1>3, ValuesGive
  <2> HIDE DEF x
  <2>2. Entry(t).generation \in Nat
    BY <1>3 DEF Installed
  <2>3. Lower(x, Entry(t))
    BY <2>1, <2>2 DEF Lower
  <2>4. Calm /\ VmTyped'
    BY <1>3, <1>7, ShutCalm, ShutGives DEF VmTyped
  <2>5. \A v \in Vms : vm'[v].open /\ v \in Runtimes(Entry(t)) => v \in Runtimes(x)
    BY <1>3, <1>7 DEF Shut, EntryInv
  <2>6. GiveUp(t, x)
    BY <1>7 DEF x
  <2> QED
    BY <1>1, <1>2, <2>1, <2>3, <2>4, <2>5, <2>6, UserGivesUp
<1>8. CASE Shut({Entry(t).primary}) /\ GiveUp(t, [Entry(t) EXCEPT !.primary = 0])
  <2> DEFINE x == [Entry(t) EXCEPT !.primary = 0]
  <2>1. /\ x \in Installed /\ x.primary = 0 /\ x.idle = Entry(t).idle
        /\ x.active = Entry(t).active /\ x.settings = Entry(t).settings
        /\ x.generation = Entry(t).generation
    BY <1>3 DEF Installed
  <2> HIDE DEF x
  <2>2. Entry(t).generation \in Nat
    BY <1>3 DEF Installed
  <2>3. Lower(x, Entry(t))
    BY <2>1, <2>2 DEF Lower
  <2>4. Calm /\ VmTyped'
    BY <1>3, <1>8, ShutCalm, ShutGives DEF VmTyped
  <2>5. \A v \in Vms : vm'[v].open /\ v \in Runtimes(Entry(t)) => v \in Runtimes(x)
    BY <1>3, <1>8, <2>1 DEF Shut, EntryInv, Runtimes
  <2>6. GiveUp(t, x)
    BY <1>8 DEF x
  <2> QED
    BY <1>1, <1>2, <2>1, <2>3, <2>4, <2>5, <2>6, UserGivesUp
<1> QED
  BY <1>5, <1>6, <1>7, <1>8 DEF Initialize

-----------------------------------------------------------------------------
(* Users: locks, and runtimes that change hands. *)

\* Entries and runtimes stay: everything but the locks.
LEMMA SteadyParts ==
    ASSUME IInv, NEW t \in Users, Only(t), Theirs, Steady,
           Typed(t)', UserTyped(t)', DataTyped', Follows(t), Empties(t),
           th'[t].e \in {th[t].e, 0, current}, th[t].at # "push"
    PROVE  /\ ThreadInv' /\ EntryInv' /\ AdminInv' /\ RoleInv' /\ SettingsInv'
           /\ StaleInv' /\ OpenInv' /\ DiskInv'
<1>1. EntryInv' /\ Calm /\ entry' = entry /\ stale' = stale
  BY DEF Steady
<1>2. \A e \in Entries : Shrunk(e)
  <2>1. \A e \in Entries : entry[e].generation <= entry[e].generation
    BY DEF IInv, EntryInv, Installed
  <2> QED
    BY <1>1, <2>1 DEF Shrunk, FewerRoles, SamePool
<1>3. /\ \A e \in Entries : e # th[t].e => entry'[e] = entry[e]
      /\ \A e \in Entries : entry'[e].primary # entry[e].primary => engine[e] = t
      /\ \A v \in Vms : vm'[v].open /\ v \in Runtimes(Entry(t))
                              => v \in Runtimes(entry'[th[t].e])
  BY <1>1 DEF Entry
<1> QED
  BY <1>1, <1>2, <1>3, PlainParts

LEMMA LockEngineStep ==
    ASSUME IInv, NEW t \in Users, LockEngine(t)
    PROVE  IInv'
<1>1. /\ th[t].at = "engine" /\ engine[th[t].e] = None
      /\ th[t].at \notin EnginePlaces /\ th[t].at \notin {"push", "return"}
  BY DEF LockEngine, At, EnginePlaces
<1>2. Theirs /\ pool' = pool /\ Steady /\ DataTyped'
  BY StillGives DEF LockEngine
<1>3. /\ t \in Threads /\ th[t].e \in Entries /\ ThreadInv
      /\ th[t].op \in {"call", "download", "preflight"} /\ Typed(t)
  BY <1>1, UserKnown DEF ThreadInv
<1>4. CASE Done(t) /\ UNCHANGED engine
  BY <1>1, <1>2, <1>4, LeaveStep
<1>5. CASE Usable(th[t].e) /\ Locked(t, th[t].e) /\ Go(t, "ready")
  <2>1. /\ Only(t)
        /\ th'[t].at = "ready" /\ th'[t].op = th[t].op /\ th'[t].e = th[t].e
        /\ th'[t].vm = th[t].vm /\ th'[t].generation = th[t].generation
        /\ th'[t].settings = th[t].settings
    BY <1>3, <1>5, GoGives
  <2>2. Typed(t)' /\ UserTyped(t)' /\ Follows(t) /\ Empties(t)
    BY <1>3, <2>1 DEF Typed, UserTyped, Places, UserPlaces, Pooled, EnginePlaces,
                      Follows, Empties
  <2>3. th'[t].e \in {th[t].e, 0, current} /\ th[t].at # "push"
    BY <1>1, <2>1
  <2>4. /\ ThreadInv' /\ EntryInv' /\ AdminInv' /\ RoleInv' /\ SettingsInv'
        /\ StaleInv' /\ OpenInv' /\ DiskInv'
    BY <1>2, <2>1, <2>2, <2>3, SteadyParts
  <2>5. PoolInv'
    BY <1>1, <1>2, <2>1, UserPool DEF IInv
  <2>6. BusyInv'
    <3>1. th'[t].e = current
      BY <1>5, <2>1 DEF Usable
    <3> QED
      BY <1>2, <2>1, <3>1, UserBusy DEF IInv
  <2>7. EngineInv'
    <3>1. EngineInv /\ Admin # t /\ None \notin Threads /\ th'[Admin] = th[Admin]
      BY <2>1, ManagerAssumption DEF IInv, Threads, Only
    <3>2. /\ engine' \in [Entries -> Threads \cup {None}]
          /\ \A e \in Entries : engine'[e] = IF e = th[t].e THEN t ELSE engine[e]
      BY <1>3, <1>5, <3>1 DEF Locked, EngineInv
    <3>3. \A u \in Users : th[u].at \in EnginePlaces => th[u].e \in Entries
      BY <1>3 DEF ThreadInv, Typed, EnginePlaces, Threads
    <3>4. th[Admin].at \in ReadyPlaces \cup {"persist", "initialize", "invalidate"}
             => th[Admin].e \in Entries
      BY <1>3 DEF ThreadInv, Typed, ReadyPlaces, Threads
    <3>5. \A u \in Users : u # t => th'[u] = th[u]
      BY <2>1 DEF Only, Threads
    <3>6. th'[t].at \in EnginePlaces /\ None \notin Users
      BY <2>1, <3>1 DEF EnginePlaces, Threads
    <3>7. \A u \in Users : th'[u].at \in EnginePlaces => engine'[th'[u].e] = u
      BY <1>1, <1>3, <2>1, <3>1, <3>2, <3>3, <3>5, <3>6 DEF EngineInv
    <3>8. \A e \in Entries, u \in Users :
             engine'[e] = u => th'[u].at \in EnginePlaces /\ th'[u].e = e
      BY <1>1, <1>3, <2>1, <3>1, <3>2, <3>5, <3>6 DEF EngineInv
    <3>9. th[Admin].at \in ReadyPlaces \cup {"persist", "initialize", "invalidate"}
             => engine'[th[Admin].e] = Admin
      BY <1>1, <3>1, <3>2, <3>4 DEF EngineInv, Threads
    <3> QED
      BY <3>1, <3>2, <3>7, <3>8, <3>9 DEF EngineInv
  <2> QED
    BY <2>4, <2>5, <2>6, <2>7 DEF IInv
<1> QED
  BY <1>4, <1>5 DEF LockEngine

LEMMA ReadSettingsStep ==
    ASSUME IInv, NEW t \in Users, ReadSettings(t)
    PROVE  IInv'
<1>1. /\ th[t].at = "settings" /\ Theirs /\ stale' = stale /\ pool' = pool
      /\ current' = current /\ vm' = vm
  BY DEF ReadSettings, At, Theirs, history
<1>2. /\ th[t].at \in EnginePlaces \ {"push"} /\ th[t].at # "idle"
      /\ th[t].at \notin {"push", "return"}
  BY <1>1 DEF EnginePlaces
<1>3. CASE GiveUp(t, Entry(t))
  BY <1>1, <1>2, <1>3, UserGivesUpPlainly
<1>4. CASE /\ Set(t, [at |-> "pool", settings |-> data.settings])
           /\ data' = Touched
           /\ UNCHANGED <<entry, engine>>
  <2> DEFINE c == [at |-> "pool", settings |-> data.settings]
  <2>1. /\ t \in Threads /\ ThreadInv /\ Typed(t) /\ UserTyped(t) /\ DataTyped
        /\ data.settings \in Settings
    BY <1>2, UserKnown DEF ThreadInv, DataTyped
  <2>2. /\ Only(t)
        /\ \A f \in Fields : th'[t][f] = IF f \in DOMAIN c THEN c[f] ELSE th[t][f]
    BY <1>4, <2>1, SetGives
  <2>3. /\ th'[t].at = "pool" /\ th'[t].op = th[t].op /\ th'[t].e = th[t].e
        /\ th'[t].vm = th[t].vm /\ th'[t].generation = th[t].generation
        /\ th'[t].settings = data.settings
    BY <2>2 DEF Fields
  <2>4. Typed(t)' /\ UserTyped(t)' /\ Follows(t) /\ Empties(t)
    BY <1>1, <2>1, <2>3 DEF Typed, UserTyped, Places, UserPlaces, Pooled,
                            EnginePlaces, Follows, Empties
  <2>5. Steady
    BY <1>1, <1>4, SteadyCases
  <2>6. DataTyped'
    BY <1>4, <2>1, TouchedTyped DEF DataTyped
  <2>7. /\ th'[t].e \in {th[t].e, 0, current} /\ th'[t].at # "return"
        /\ th[t].at \in EnginePlaces <=> th'[t].at \in EnginePlaces
    BY <1>1, <2>3 DEF EnginePlaces
  <2> QED
    BY <1>1, <1>2, <1>4, <2>2, <2>3, <2>4, <2>5, <2>6, <2>7, QuietStep
<1> QED
  BY <1>3, <1>4 DEF ReadSettings

LEMMA IsolateStep ==
    ASSUME IInv, NEW t \in Users, Isolate(t)
    PROVE  IInv'
<1>1. /\ th[t].at = "isolate" /\ Theirs /\ stale' = stale /\ pool' = pool
      /\ current' = current /\ vm' = vm
  BY DEF Isolate, At, Theirs, history
<1>2. /\ th[t].at \in EnginePlaces \ {"push"} /\ th[t].at # "idle"
      /\ th[t].at \in {"isolate"}
  BY <1>1 DEF EnginePlaces
<1>3. CASE GiveUp(t, Entry(t))
  BY <1>1, <1>2, <1>3, UserGivesUpPlainly
<1>4. CASE Go(t, "isolating") /\ data' = Touched /\ UNCHANGED <<entry, engine>>
  <2>1. Steady
    BY <1>1, <1>4, SteadyCases
  <2>2. DataTyped'
    BY <1>2, <1>4, UserKnown, TouchedTyped DEF DataTyped
  <2> QED
    BY <1>1, <1>2, <1>4, <2>1, <2>2, OnwardStep
<1> QED
  BY <1>3, <1>4 DEF Isolate

LEMMA DownloadEndsStep ==
    ASSUME IInv, NEW t \in Users, DownloadEnds(t)
    PROVE  IInv'
<1>1. /\ th[t].at = "borrowed" /\ Theirs /\ stale' = stale /\ pool' = pool
      /\ current' = current /\ entry' = entry /\ engine' = engine /\ data' = data
      /\ vm' = vm \/ Shut({th[t].vm})
      /\ Go(t, "drop") \/ Set(t, [at |-> "drop", good |-> TRUE])
  BY DEF DownloadEnds, At, Theirs, disk, history
<1>2. Steady
  BY <1>1, SteadyCases
<1>3. /\ t \in Threads /\ ThreadInv /\ DataTyped /\ Typed(t) /\ UserTyped(t)
  BY <1>1, UserKnown DEF ThreadInv
<1>4. DataTyped'
  BY <1>1, <1>3 DEF DataTyped
<1>5. CASE Go(t, "drop")
  <2>1. th[t].at \in {"borrowed"}
    BY <1>1
  <2> QED
    BY <1>1, <1>2, <1>4, <1>5, <2>1, OnwardStep
<1>6. CASE Set(t, [at |-> "drop", good |-> TRUE])
  <2> DEFINE c == [at |-> "drop", good |-> TRUE]
  <2>1. /\ Only(t)
        /\ \A f \in Fields : th'[t][f] = IF f \in DOMAIN c THEN c[f] ELSE th[t][f]
    BY <1>3, <1>6, SetGives
  <2>2. /\ th'[t].at = "drop" /\ th'[t].op = th[t].op /\ th'[t].e = th[t].e
        /\ th'[t].vm = th[t].vm /\ th'[t].generation = th[t].generation
        /\ th'[t].settings = th[t].settings
    BY <2>1 DEF Fields
  <2>3. Typed(t)' /\ UserTyped(t)' /\ Follows(t) /\ Empties(t)
    BY <1>1, <1>3, <2>2 DEF Typed, UserTyped, Places, UserPlaces, Pooled, Lent,
                            EnginePlaces, Follows, Empties
  <2>4. /\ th'[t].e \in {th[t].e, 0, current} /\ th'[t].at # "return"
        /\ th[t].at \notin EnginePlaces /\ th'[t].at \notin EnginePlaces
        /\ th[t].at \notin {"push", "return"}
    BY <1>1, <2>2 DEF EnginePlaces
  <2> QED
    BY <1>1, <1>2, <1>4, <2>1, <2>3, <2>4, QuietStep
<1> QED
  BY <1>1, <1>5, <1>6

LEMMA DropCheckStep ==
    ASSUME IInv, NEW t \in Users, DropCheck(t)
    PROVE  IInv'
<1> DEFINE good == th[t].good /\ Open(th[t].vm) /\ Usable(th[t].e)
           c == [at |-> "return", good |-> good]
<1>1. /\ th[t].at = "drop" /\ engine' = engine /\ pool[th[t].e] = None
      /\ pool' = [pool EXCEPT ![th[t].e] = t] /\ Set(t, c)
      /\ Theirs /\ stale' = stale /\ current' = current /\ entry' = entry
      /\ vm' = vm /\ data' = data
  BY DEF DropCheck, At, Theirs, disk, history
<1>2. Steady
  BY <1>1, SteadyCases
<1>3. /\ t \in Threads /\ ThreadInv /\ DataTyped /\ Typed(t) /\ UserTyped(t)
      /\ th[t].e \in Entries
  BY <1>1, UserKnown DEF ThreadInv
<1>4. DataTyped'
  BY <1>1, <1>3 DEF DataTyped
<1>5. /\ Only(t)
      /\ \A f \in Fields : th'[t][f] = IF f \in DOMAIN c THEN c[f] ELSE th[t][f]
  <2> HIDE DEF c
  <2> QED
    BY <1>1, <1>3, SetGives
<1>6. /\ th'[t].at = "return" /\ th'[t].op = th[t].op /\ th'[t].e = th[t].e
      /\ th'[t].vm = th[t].vm /\ th'[t].generation = th[t].generation
      /\ th'[t].settings = th[t].settings /\ th'[t].good = good
  <2> HIDE DEF good
  <2> QED
    BY <1>5 DEF Fields
<1>7. Typed(t)' /\ UserTyped(t)' /\ Follows(t) /\ Empties(t)
  BY <1>1, <1>3, <1>6 DEF Typed, UserTyped, Places, UserPlaces, Pooled, Lent,
                          EnginePlaces, Follows, Empties
<1>8. /\ th'[t].e \in {th[t].e, 0, current} /\ th[t].at # "push"
      /\ th[t].at \notin EnginePlaces /\ th'[t].at \notin EnginePlaces
  BY <1>1, <1>6 DEF EnginePlaces
<1>9. /\ ThreadInv' /\ EntryInv' /\ AdminInv' /\ RoleInv' /\ SettingsInv'
      /\ StaleInv' /\ OpenInv' /\ DiskInv'
  BY <1>1, <1>2, <1>4, <1>5, <1>7, <1>8, SteadyParts
<1>10. EngineInv'
  BY <1>1, <1>5, <1>8, UserEngine DEF IInv
<1>11. BusyInv'
  <2>1. Busy(t)' => th'[t].e = current
    BY <1>6, <1>8 DEF Busy, Usable
  <2> QED
    BY <1>1, <1>5, <2>1, UserBusy DEF IInv
<1>12. PoolInv'
  <2>1. /\ PoolInv /\ None \notin Users /\ \A u \in Users : u # t => th'[u] = th[u]
    BY <1>5, ManagerAssumption DEF IInv, Only, Threads
  <2>2. /\ pool' \in [Entries -> Users \cup {None}]
        /\ \A e \in Entries : pool'[e] = IF e = th[t].e THEN t ELSE pool[e]
    BY <1>1, <1>3, <2>1 DEF PoolInv
  <2>3. \A u \in Users : th[u].at = "return" => th[u].e \in Entries
    BY <1>3 DEF ThreadInv, Typed, Threads
  <2> QED
    BY <1>1, <1>3, <1>6, <2>1, <2>2, <2>3 DEF PoolInv
<1> QED
  BY <1>9, <1>10, <1>11, <1>12 DEF IInv

-----------------------------------------------------------------------------
(* Users: the pool. *)

\* The parts that do not speak of runtimes.
LEMMA ControlParts ==
    ASSUME IInv, NEW t \in Users, Only(t), Theirs, pool' = pool,
           Typed(t)', UserTyped(t)', DataTyped', Empties(t),
           th'[t].e \in {th[t].e, 0},
           th[t].at # "return", th'[t].at # "return",
           \/ /\ engine' = engine
              /\ th[t].at \in EnginePlaces <=> th'[t].at \in EnginePlaces
              /\ th[t].at \in EnginePlaces => th'[t].e = th[t].e
           \/ Released(t) /\ th'[t].at \notin EnginePlaces,
           \A e \in Entries : e # th[t].e => entry'[e] = entry[e],
           \A e \in Entries : entry'[e].primary # entry[e].primary => engine[e] = t
    PROVE  ThreadInv' /\ AdminInv' /\ EngineInv' /\ PoolInv' /\ BusyInv' /\ DiskInv'
<1>1. th'[t].e \in {th[t].e, 0, current}
  OBVIOUS
<1>2. Busy(t)' => Busy(t) /\ th'[t].e = th[t].e
  BY DEF Busy
<1>3. BusyInv'
  BY <1>2, UserBusy DEF IInv
<1> QED
  BY <1>1, <1>3, UserThread, UserAdmin, UserEngine, UserPool, UserDisk DEF IInv

\* Open runtimes stay where they are, but for w.
LEMMA UserOpen ==
    ASSUME EntryInv, OpenInv, NEW t \in Users, Only(t), Theirs, NEW w \in Vms,
           \A v \in Vms : v # w /\ vm'[v].open =>
               /\ vm[v].open /\ vm'[v].entry = vm[v].entry
               /\ \A e \in Entries : v \in Runtimes(entry[e])
                                        => v \in Runtimes(entry'[e])
               /\ ~(th[t].at = "push" /\ th[t].vm = v),
           vm'[w].open =>
               /\ vm'[w].entry \in Entries /\ vm'[w].entry \in {current, th[Admin].e}
               /\ \/ w \in Runtimes(entry'[vm'[w].entry])
                  \/ th'[t].at = "push" /\ th'[t].vm = w
               /\ ~(/\ th[Admin].at \in {"source", "data"}
                    /\ vm'[w].entry = th[Admin].e)
               /\ halt \notin {"runtimes", "idle", "down"}
    PROVE  OpenInv'
<1>1. th'[Admin] = th[Admin] /\ current' = current /\ closed' = closed /\ halt' = halt
  BY ManagerAssumption DEF Only, Threads, Theirs
<1>2. \A u \in Users : u # t => th'[u] = th[u]
  BY DEF Only, Threads
<1>3. ASSUME NEW v \in Vms, vm'[v].open
      PROVE  /\ vm'[v].entry \in Entries /\ vm'[v].entry \in {current, th[Admin].e}
             /\ \/ v \in Runtimes(entry'[vm'[v].entry])
                \/ \E u \in Users : th'[u].at = "push" /\ th'[u].vm = v
             /\ ~(th[Admin].at \in {"source", "data"} /\ vm'[v].entry = th[Admin].e)
             /\ halt \notin {"runtimes", "idle", "down"}
  <2>1. CASE v = w
    BY <1>3, <2>1
  <2>2. CASE v # w
    <3>1. /\ vm[v].open /\ vm'[v].entry = vm[v].entry
          /\ ~(th[t].at = "push" /\ th[t].vm = v)
          /\ vm[v].entry \in Entries /\ vm[v].entry \in {current, th[Admin].e}
          /\ \/ v \in Runtimes(entry[vm[v].entry])
             \/ \E u \in Users : th[u].at = "push" /\ th[u].vm = v
      BY <1>3, <2>2 DEF OpenInv, At
    <3>2. \/ v \in Runtimes(entry'[vm'[v].entry])
          \/ \E u \in Users : th'[u].at = "push" /\ th'[u].vm = v
      BY <1>2, <1>3, <2>2, <3>1
    <3> QED
      BY <3>1, <3>2 DEF OpenInv, QuietRemoval
  <2> QED
    BY <2>1, <2>2
<1> QED
  BY <1>1, <1>3 DEF OpenInv, QuietRemoval, At

\* Whoever opens a runtime belongs to an entry that is not being erased.
LEMMA BusyKnown ==
    ASSUME IInv, NEW t \in Users, Busy(t), ~closed
    PROVE  /\ th[t].e \in Entries /\ th[t].e \in {current, th[Admin].e}
           /\ ~(th[Admin].at \in {"source", "data"} /\ th[t].e = th[Admin].e)
           /\ halt \notin {"runtimes", "idle", "down"}
<1>1. th[t].e \in Entries /\ 0 \notin Entries
  BY ManagerAssumption DEF IInv, ThreadInv, Typed, Threads, Busy, EnginePlaces
<1>2. th[t].e = current \/ (th[Admin].at = "unload" /\ th[Admin].e = th[t].e)
  BY DEF IInv, BusyInv, At
<1>3. th[Admin].at \in {"source", "data"} => current = 0
  BY DEF IInv, ThreadInv, AdminTyped, AdminInv, Working
<1>4. halt \notin {"runtimes", "idle", "down"}
  BY DEF IInv, OpenInv
<1> QED
  BY <1>1, <1>2, <1>3, <1>4

\* A new runtime is nobody's.
LEMMA UnusedGives ==
    ASSUME NEW v \in Vms, v \notin UsedVms
    PROVE  /\ v # 0 /\ ~vm[v].open
           /\ \A e \in Entries : /\ v \notin Runtimes(entry[e])
                                 /\ v # entry[e].primary /\ v # entry[e].idle
                                 /\ v \notin entry[e].active
           /\ \A t \in Threads : th[t].vm # v
<1>1. v # 0
  BY ManagerAssumption
<1>2. ~vm[v].open /\ \A t \in Threads : th[t].vm # v
  BY DEF UsedVms
<1>3. \A e \in Entries : v \notin {entry[e].primary, entry[e].idle} \cup entry[e].active
  BY DEF UsedVms
<1> QED
  BY <1>1, <1>2, <1>3 DEF Runtimes

LEMMA FreshGives ==
    ASSUME FreeVms # {}
    PROVE  Least(FreeVms) \in Vms /\ Least(FreeVms) \notin UsedVms
<1>1. FreeVms \subseteq Nat
  BY ManagerAssumption DEF FreeVms
<1> QED
  BY <1>1, LeastIn DEF FreeVms

LEMMA TakeIdleStep ==
    ASSUME IInv, NEW t \in Users, TakeIdle(t)
    PROVE  IInv'
<1> DEFINE e == th[t].e
           x == Entry(t)
           other == x.settings # th[t].settings
           y == IF other THEN [Invalidated(x) EXCEPT !.settings = th[t].settings]
                ELSE x
           z == [y EXCEPT !.idle = 0]
           push == [at |-> "push", vm |-> y.idle, generation |-> y.generation]
           wait == [at |-> "isolate", vm |-> 0, generation |-> y.generation]
<1>1. /\ th[t].at = "pool" /\ Theirs /\ stale' = stale /\ pool' = pool
      /\ engine' = engine /\ data' = data /\ entry' = [entry EXCEPT ![e] = z]
      /\ IF Open(y.idle) THEN Set(t, push) ELSE Set(t, wait)
      /\ IF Open(y.idle) THEN UNCHANGED vm ELSE Shut({x.idle})
  BY DEF TakeIdle, At, Theirs, disk, history
<1>2. /\ t \in Threads /\ e \in Entries /\ x \in Installed /\ ThreadInv /\ EntryInv
      /\ DataTyped /\ Typed(t) /\ UserTyped(t) /\ x = entry[e]
      /\ th[t].settings \in Settings
  BY <1>1, UserKnown DEF ThreadInv, Entry
<1>3. /\ y \in Installed /\ y.primary = x.primary /\ y.active = x.active
      /\ y.idle = IF other THEN 0 ELSE x.idle
      /\ y.generation = IF other THEN x.generation + 1 ELSE x.generation
      /\ y.settings = th[t].settings
  <2>1. /\ Invalidated(x) \in Installed
        /\ Invalidated(x).primary = x.primary /\ Invalidated(x).idle = 0
        /\ Invalidated(x).active = x.active
        /\ Invalidated(x).generation = x.generation + 1
    BY <1>2, ValuesGive
  <2> QED
    BY <1>2, <2>1 DEF Installed
<1>4. /\ z \in Installed /\ z.primary = x.primary /\ z.active = x.active
      /\ z.idle = 0 /\ z.generation = y.generation /\ z.settings = th[t].settings
  <2> HIDE DEF y
  <2> QED
    BY <1>3 DEF Installed
<1>5. x.generation \in Nat /\ z.generation \in Nat /\ y.generation \in Nat
  BY <1>2, <1>3, <1>4 DEF Installed
<1>6. Lower(z, x)
  <2>1. /\ x.generation <= z.generation
        /\ z.generation = x.generation => ~other
    BY <1>3, <1>4, <1>5
  <2> HIDE DEF z, y
  <2> QED
    BY <1>4, <2>1 DEF Lower
<1> HIDE DEF y, z
<1>7. /\ entry' \in [Entries -> Installed] /\ entry'[e] = z
      /\ \A d \in Entries : d # e => entry'[d] = entry[d]
  BY <1>1, <1>2, <1>4, PutGives
<1>8. /\ Calm /\ VmTyped'
      /\ \A v \in Vms : vm'[v].open => vm[v].open /\ (v = x.idle => Open(y.idle))
  <2>1. CASE Open(y.idle)
    BY <1>1, <1>2, <2>1 DEF Calm, VmTyped, EntryInv
  <2>2. CASE ~Open(y.idle)
    <3>1. Shut({x.idle})
      BY <1>1, <2>2
    <3>2. \A v \in Vms : vm'[v].open => vm[v].open /\ v # x.idle
      BY <1>2, <3>1 DEF Shut, EntryInv
    <3> QED
      BY <1>2, <3>1, <3>2, ShutCalm, ShutGives DEF VmTyped
  <2> QED
    BY <2>1, <2>2
<1>9. EntryInv' /\ DataTyped'
  BY <1>1, <1>2, <1>7, <1>8 DEF EntryInv, Theirs, VmTyped, DataTyped
<1>10. \A d \in Entries : FewerRoles(d) /\ SamePool(d)
  <2>1. \A d \in Entries : entry[d].generation <= entry[d].generation
    BY <1>2 DEF EntryInv, Installed
  <2>2. FewerRoles(e) /\ SamePool(e)
    BY <1>2, <1>6, <1>7 DEF FewerRoles, SamePool, Lower
  <2>3. ASSUME NEW d \in Entries, d # e PROVE FewerRoles(d) /\ SamePool(d)
    BY <1>7, <2>1, <2>3 DEF FewerRoles, SamePool
  <2> QED
    BY <2>2, <2>3
<1>11. engine[e] = t /\ th[t].at \in EnginePlaces
  BY <1>1 DEF IInv, EngineInv, EnginePlaces
<1>12. ASSUME NEW p \in {"push", "isolate"}, Only(t), th'[t].at = p,
              th'[t].op = th[t].op, th'[t].e = th[t].e, th'[t].vm \in Vms \cup {0},
              th'[t].generation = y.generation, th'[t].settings = th[t].settings
       PROVE  ThreadInv' /\ AdminInv' /\ EngineInv' /\ PoolInv' /\ BusyInv' /\ DiskInv'
  <2>1. Typed(t)' /\ UserTyped(t)'
    BY <1>1, <1>2, <1>5, <1>12 DEF Typed, UserTyped, Places, UserPlaces, Pooled,
                                   EnginePlaces
  <2>2. /\ th[t].at # "return" /\ th'[t].at # "return"
        /\ th'[t].at \in EnginePlaces /\ th'[t].e \in {th[t].e, 0} /\ Empties(t)
    BY <1>1, <1>12 DEF EnginePlaces, Empties
  <2>3. \A d \in Entries : entry'[d].primary # entry[d].primary => engine[d] = t
    BY <1>7, <1>11
  <2> QED
    BY <1>1, <1>7, <1>9, <1>11, <1>12, <2>1, <2>2, <2>3, ControlParts
<1>13. CASE Open(y.idle)
  <2> DEFINE w == x.idle
  <2>1. /\ ~other /\ y.idle = w /\ w \in Vms /\ w # 0 /\ vm[w].open /\ ~closed
        /\ vm' = vm
    BY <1>1, <1>2, <1>3, <1>13 DEF Open, Installed
  <2>2. /\ Only(t)
        /\ \A f \in Fields : th'[t][f] = IF f \in DOMAIN push THEN push[f] ELSE th[t][f]
    <3>1. Set(t, push)
      BY <1>1, <1>13
    <3> HIDE DEF push
    <3> QED
      BY <1>2, <3>1, SetGives
  <2>3. /\ th'[t].at = "push" /\ th'[t].op = th[t].op /\ th'[t].e = th[t].e
        /\ th'[t].vm = w /\ th'[t].generation = y.generation
        /\ th'[t].settings = th[t].settings
    BY <2>1, <2>2 DEF Fields
  <2>4. ThreadInv' /\ AdminInv' /\ EngineInv' /\ PoolInv' /\ BusyInv' /\ DiskInv'
    BY <1>12, <2>1, <2>2, <2>3
  <2>5. \A u \in Users : u # t => th'[u] = th[u]
    BY <2>2 DEF Only, Threads
  <2>6. \A u \in Users : u # t => Follows(u)
    BY <2>5 DEF Follows
  <2>7. w \in Runtimes(entry[e]) /\ vm[w].entry = e /\ vm[w].settings = x.settings
    BY <1>2, <2>1 DEF Runtimes, IInv, RoleInv, SettingsInv
  <2>8. LentRole(t)'
    <3>1. /\ w # z.primary /\ w # z.idle /\ w \notin z.active
      <4>1. /\ entry[e].primary # 0 => entry[e].primary # entry[e].idle
            /\ entry[e].idle \notin entry[e].active
        BY <1>2 DEF IInv, RoleInv
      <4> QED
        BY <1>2, <1>4, <2>1, <4>1
    <3>2. ASSUME NEW u \in Users, u # t, th[u].at \in Lent PROVE th[u].vm # w
      BY <1>2, <2>7, <3>2 DEF IInv, RoleInv
    <3> QED
      BY <1>7, <2>1, <2>3, <2>5, <2>7, <3>1, <3>2 DEF LentRole
  <2>9. LentSettings(t)'
    <3>1. vm'[w].settings = th[t].settings
      BY <2>1, <2>7
    <3>2. y.generation <= z.generation /\ z.settings = th[t].settings
      BY <1>4, <1>5
    <3> QED
      BY <1>7, <2>3, <3>1, <3>2 DEF LentSettings
  <2>10. LentStale(t)'
    <3>1. w \notin stale'
      BY <1>1, <1>2 DEF IInv, StaleInv, PressureHolds
    <3> QED
      BY <2>3, <3>1 DEF LentStale
  <2>11. RoleInv' /\ SettingsInv' /\ StaleInv'
    <3>1. Undisturbed /\ stale' \subseteq stale
      BY <1>1, <1>8, CalmUndisturbed
    <3> QED
      BY <1>9, <1>10, <2>6, <2>8, <2>9, <2>10, <3>1, RolesKept, SettingsFollow,
         StaleKept DEF IInv
  <2>12. OpenInv'
    <3>1. /\ vm'[w].entry \in Entries /\ vm'[w].entry \in {current, th[Admin].e}
          /\ ~(th[Admin].at \in {"source", "data"} /\ vm'[w].entry = th[Admin].e)
          /\ halt \notin {"runtimes", "idle", "down"}
      BY <2>1 DEF IInv, OpenInv, QuietRemoval
    <3>2. ASSUME NEW v \in Vms, v # w, vm'[v].open
          PROVE  /\ vm[v].open /\ vm'[v].entry = vm[v].entry
                 /\ \A d \in Entries : v \in Runtimes(entry[d])
                                          => v \in Runtimes(entry'[d])
                 /\ ~(th[t].at = "push" /\ th[t].vm = v)
      BY <1>1, <1>2, <1>4, <1>7, <2>1, <3>2 DEF Runtimes
    <3>3. EntryInv /\ OpenInv /\ Theirs /\ Only(t) /\ w \in Vms
      BY <1>1, <2>1, <2>2 DEF IInv
    <3>4. /\ th'[t].at = "push" /\ th'[t].vm = w
          /\ ~(/\ th[Admin].at \in {"source", "data"}
               /\ vm'[w].entry = th[Admin].e)
      BY <2>3, <3>1
    <3> HIDE DEF w
    <3> QED
      BY <3>1, <3>2, <3>3, <3>4, UserOpen
  <2> QED
    BY <1>9, <2>4, <2>11, <2>12 DEF IInv
<1>14. CASE ~Open(y.idle)
  <2>1. /\ Only(t)
        /\ \A f \in Fields : th'[t][f] = IF f \in DOMAIN wait THEN wait[f] ELSE th[t][f]
    <3>1. Set(t, wait)
      BY <1>1, <1>14
    <3> HIDE DEF wait
    <3> QED
      BY <1>2, <3>1, SetGives
  <2>2. /\ th'[t].at = "isolate" /\ th'[t].op = th[t].op /\ th'[t].e = th[t].e
        /\ th'[t].vm = 0 /\ th'[t].generation = y.generation
        /\ th'[t].settings = th[t].settings
    BY <2>1 DEF Fields
  <2>3. ThreadInv' /\ AdminInv' /\ EngineInv' /\ PoolInv' /\ BusyInv' /\ DiskInv'
    BY <1>12, <2>1, <2>2
  <2>4. \A u \in Users : u # t => th'[u] = th[u]
    BY <2>1 DEF Only, Threads
  <2>5. \A u \in Users : u # t => Follows(u)
    BY <2>4 DEF Follows
  <2>6. LentRole(t)' /\ LentStale(t)'
    BY <2>2 DEF LentRole, LentStale, Lent
  <2>7. LentSettings(t)'
    <3>1. y.generation <= z.generation /\ z.settings = th[t].settings
      BY <1>4, <1>5
    <3> QED
      BY <1>7, <2>2, <3>1 DEF LentSettings, Lent
  <2>8. RoleInv' /\ SettingsInv' /\ StaleInv'
    <3>1. Undisturbed /\ stale' \subseteq stale
      BY <1>1, <1>8, CalmUndisturbed
    <3> QED
      BY <1>9, <1>10, <2>5, <2>6, <2>7, <3>1, RolesKept, SettingsFollow,
         StaleKept DEF IInv
  <2>9. OpenInv'
    <3>1. Reachable
      <4>1. ASSUME NEW v \in Vms, NEW d \in Entries, vm'[v].open,
                   v \in Runtimes(entry[d])
            PROVE  v \in Runtimes(entry'[d])
        <5>1. v # x.idle
          BY <1>8, <1>14, <4>1
        <5> QED
          BY <1>2, <1>4, <1>7, <4>1, <5>1 DEF Runtimes
      <4> QED
        BY <1>1, <2>4, <4>1 DEF Reachable
    <3>2. /\ th'[Admin] = th[Admin] /\ current' = current /\ closed' = closed
          /\ halt' = halt
      BY <1>1, <2>1, ManagerAssumption DEF Only, Threads, Theirs
    <3> QED
      BY <1>2, <1>8, <3>1, <3>2, OpenKept DEF IInv
  <2> QED
    BY <1>9, <2>3, <2>8, <2>9 DEF IInv
<1> QED
  BY <1>13, <1>14

-----------------------------------------------------------------------------
(* Users: new runtimes, lent and returned ones. *)

\* A new runtime v disturbs none.
LEMMA FreshUndisturbed ==
    ASSUME EntryInv, NEW v \in Vms, v \notin UsedVms,
           NEW r \in [entry : Entries \cup {0}, settings : Settings, open : BOOLEAN],
           vm' = [vm EXCEPT ![v] = r]
    PROVE  /\ Undisturbed /\ VmTyped' /\ vm'[v] = r
           /\ \A w \in Vms : w # v => vm'[w] = vm[w]
<1>1. /\ vm'[v] = r
      /\ \A w \in Vms : w # v => vm'[w] = vm[w]
  BY DEF EntryInv
<1>2. VmTyped'
  BY DEF EntryInv, VmTyped
<1> QED
  BY <1>1, <1>2 DEF Undisturbed

\* load_internal registers a runtime.
LEMMA LoadedGives ==
    ASSUME IInv, NEW t \in Threads, th[t].at = "loading", Go(t, "init"),
           NEW v \in Vms, v \notin UsedVms, vm'[v].entry = th[t].e, Undisturbed,
           \A w \in Vms : w # v => vm'[w] = vm[w], EntryInv',
           entry'[th[t].e].primary = v, entry'[th[t].e].idle = Entry(t).idle,
           entry'[th[t].e].active = Entry(t).active,
           entry'[th[t].e].settings = Entry(t).settings,
           entry'[th[t].e].generation = Entry(t).generation,
           \A d \in Entries : d # th[t].e => entry'[d] = entry[d], stale' = stale
    PROVE  /\ RoleInv' /\ SettingsInv' /\ StaleInv' /\ Only(t)
           /\ th'[t].at = "init" /\ th'[t].op = th[t].op /\ th'[t].e = th[t].e
           /\ th'[t].old = th[t].old
           /\ th'[t].vm = th[t].vm /\ th'[t].generation = th[t].generation
           /\ th'[t].settings = th[t].settings
           /\ v \in Runtimes(entry'[th[t].e])
           /\ \A d \in Entries, w \in Vms :
                  w \in Runtimes(entry[d]) => w \in Runtimes(entry'[d])
<1> DEFINE e == th[t].e
           x == Entry(t)
<1>1. /\ e \in Entries /\ x \in Installed /\ ThreadInv /\ EntryInv
      /\ Typed(t) /\ x = entry[e] /\ 0 \in Settings
  BY ManagerAssumption DEF IInv, ThreadInv, EntryInv, Typed, Entry
<1>2. x.primary = 0
  BY <1>1 DEF IInv, AdminInv
<1>3. /\ v \in Vms /\ v \notin UsedVms /\ v # 0 /\ ~vm[v].open
      /\ \A d \in Entries : /\ v \notin Runtimes(entry[d])
                            /\ v # entry[d].primary /\ v # entry[d].idle
                            /\ v \notin entry[d].active
      /\ \A u \in Threads : th[u].vm # v
  BY UnusedGives
<1> DEFINE z == entry'[e]
<1>5. /\ Undisturbed /\ vm'[v].entry = e
      /\ \A w \in Vms : w # v => vm'[w] = vm[w]
  OBVIOUS
<1>6. /\ z \in Installed /\ z.primary = v /\ z.idle = x.idle /\ z.active = x.active
      /\ z.settings = x.settings /\ z.generation = x.generation
  BY <1>1 DEF EntryInv
<1>8. /\ entry' \in [Entries -> Installed] /\ entry'[e] = z
      /\ \A d \in Entries : d # e => entry'[d] = entry[d]
  BY DEF EntryInv
<1> HIDE DEF z
<1>9. EntryInv'
  OBVIOUS
<1>10. /\ Only(t)
       /\ th'[t].at = "init" /\ th'[t].op = th[t].op /\ th'[t].e = th[t].e
       /\ th'[t].old = th[t].old
       /\ th'[t].vm = th[t].vm /\ th'[t].generation = th[t].generation
       /\ th'[t].settings = th[t].settings
  BY <1>1, GoGives
<1>12. \A u \in Users : u # t => th'[u] = th[u]
  BY <1>10 DEF Only, Threads
<1>13. \A u \in Users : Follows(u)
  BY <1>10, <1>12 DEF Follows, Pooled
<1>14. SettingsInv' /\ StaleInv'
  <2>1. \A d \in Entries : entry[d].generation <= entry[d].generation
    BY <1>1 DEF EntryInv, Installed
  <2>2. \A d \in Entries : SamePool(d)
    BY <1>1, <1>6, <1>8, <2>1 DEF SamePool
  <2>3. stale' \subseteq stale
    OBVIOUS
  <2> QED
    BY <1>5, <1>9, <1>13, <2>2, <2>3, SettingsFollow, StaleKept DEF IInv
<1>15. RoleInv'
  <2>1. ASSUME NEW d \in Entries
        PROVE  /\ \A w \in Runtimes(entry'[d]) : vm'[w].entry = d
               /\ entry'[d].primary # 0 =>
                      /\ entry'[d].primary # entry'[d].idle
                      /\ entry'[d].primary \notin entry'[d].active
               /\ entry'[d].idle \notin entry'[d].active
    <3>1. /\ Runtimes(entry[d]) \subseteq Vms
          /\ \A w \in Runtimes(entry[d]) : vm[w].entry = d
          /\ entry[d].idle \notin entry[d].active
      BY <1>1, ManagerAssumption DEF EntryInv, Installed, Runtimes, IInv, RoleInv
    <3>2. CASE d # e
      BY <1>3, <1>5, <1>8, <3>1, <3>2 DEF IInv, RoleInv
    <3>3. CASE d = e
      <4>1. Runtimes(z) \subseteq Runtimes(x) \cup {v}
        BY <1>6 DEF Runtimes
      <4>2. v # x.idle /\ v \notin x.active
        BY <1>1, <1>3
      <4>3. \A w \in Runtimes(z) : vm'[w].entry = e
        BY <1>1, <1>3, <1>5, <3>1, <3>3, <4>1
      <4> QED
        BY <1>1, <1>6, <1>8, <3>1, <3>3, <4>2, <4>3
    <3> QED
      BY <3>2, <3>3
  <2>2. ASSUME NEW u \in Users, th'[u].at \in Lent
        PROVE  /\ th[u].at \in Lent /\ th'[u].vm = th[u].vm
               /\ th'[u].vm \in Vms /\ vm'[th'[u].vm].entry = th'[u].e
               /\ th'[u].vm # entry'[th'[u].e].primary
               /\ th'[u].vm # entry'[th'[u].e].idle
               /\ th'[u].at = "push" => th'[u].vm \notin entry'[th'[u].e].active
    <3>1. u # t /\ th'[u] = th[u]
      BY <1>10, <1>12, <2>2 DEF Lent
    <3>2. th[u].vm # v /\ th[u].e \in Entries
      BY <1>1, <1>3, <2>2, <3>1 DEF Threads, ThreadInv, Typed, Lent
    <3>3. /\ th[u].vm \in Vms /\ vm[th[u].vm].entry = th[u].e
          /\ th[u].vm # entry[th[u].e].primary
          /\ th[u].vm # entry[th[u].e].idle
          /\ th[u].at = "push" => th[u].vm \notin entry[th[u].e].active
      BY <2>2, <3>1 DEF IInv, RoleInv
    <3> QED
      BY <1>1, <1>5, <1>6, <1>8, <2>2, <3>1, <3>2, <3>3
  <2>3. ASSUME NEW a \in Users, NEW u \in Users, a # u,
               th'[a].at \in Lent, th'[u].at \in Lent
        PROVE  th'[a].vm # th'[u].vm
    BY <2>2, <2>3 DEF IInv, RoleInv
  <2> QED
    BY <2>1, <2>2, <2>3 DEF RoleInv
<1>16. \A d \in Entries, w \in Vms :
           w \in Runtimes(entry[d]) => w \in Runtimes(entry'[d])
  BY <1>1, <1>2, <1>6, <1>8 DEF Runtimes
<1>17. v \in Runtimes(entry'[e])
  BY <1>3, <1>6, <1>8 DEF Runtimes
<1> QED
  BY <1>10, <1>14, <1>15, <1>16, <1>17

\* The runtime and the entry's new value.
LEMMA LoadedFrame ==
    ASSUME IInv, NEW t \in Threads, th[t].at = "loading", FreeVms # {},
           vm' = [vm EXCEPT ![Least(FreeVms)] =
                     [NoVm EXCEPT !.entry = th[t].e, !.open = TRUE]],
           entry' = [entry EXCEPT ![th[t].e].primary = Least(FreeVms)],
           current' = current, stale' = stale
    PROVE  \E v \in Vms :
             /\ v \notin UsedVms /\ vm'[v].entry = th[t].e /\ Undisturbed
             /\ \A w \in Vms : w # v => vm'[w] = vm[w]
             /\ EntryInv'
             /\ entry'[th[t].e].primary = v /\ entry'[th[t].e].idle = Entry(t).idle
             /\ entry'[th[t].e].active = Entry(t).active
             /\ entry'[th[t].e].settings = Entry(t).settings
             /\ entry'[th[t].e].generation = Entry(t).generation
             /\ \A d \in Entries : d # th[t].e => entry'[d] = entry[d]
<1> DEFINE e == th[t].e
           x == Entry(t)
           v == Least(FreeVms)
           z == [x EXCEPT !.primary = v]
           r == [NoVm EXCEPT !.entry = e, !.open = TRUE]
<1>1. /\ e \in Entries /\ x \in Installed /\ EntryInv /\ x = entry[e]
      /\ 0 \in Settings
  BY ManagerAssumption DEF IInv, ThreadInv, EntryInv, Typed, Entry
<1>2. v \in Vms /\ v \notin UsedVms
  BY FreshGives
<1>3. /\ r \in [entry : Entries \cup {0}, settings : Settings, open : BOOLEAN]
      /\ r.entry = e
  BY <1>1 DEF NoVm
<1>4. vm' = [vm EXCEPT ![v] = r] /\ entry' = [entry EXCEPT ![e].primary = v]
  OBVIOUS
<1> HIDE DEF v, r
<1>5. /\ Undisturbed /\ VmTyped' /\ vm'[v].entry = e
      /\ \A w \in Vms : w # v => vm'[w] = vm[w]
  <2>1. /\ vm'[v] = r /\ VmTyped'
        /\ \A w \in Vms : w # v => vm'[w] = vm[w]
    <3>1. vm \in [Vms -> [entry : Entries \cup {0}, settings : Settings,
                         open : BOOLEAN]]
      BY <1>1 DEF EntryInv
    <3>2. vm'[v] = r
      BY <1>2, <1>4, <3>1
    <3>3. vm' = [vm EXCEPT ![v] = vm'[v]]
      BY <1>4, <3>2
    <3> QED
      BY <1>1, <1>2, <1>3, <3>2, <3>3, PutVmGives DEF VmTyped
  <2> QED
    BY <1>2, <1>3, <2>1 DEF Undisturbed
<1>6. /\ z \in Installed /\ z.primary = v /\ z.idle = x.idle /\ z.active = x.active
      /\ z.settings = x.settings /\ z.generation = x.generation
  BY <1>1, <1>2 DEF Installed
<1>7. entry' = [entry EXCEPT ![e] = z]
  BY <1>1, <1>4 DEF EntryInv
<1> HIDE DEF z
<1>8. /\ entry' \in [Entries -> Installed] /\ entry'[e] = z
      /\ \A d \in Entries : d # e => entry'[d] = entry[d]
  BY <1>1, <1>6, <1>7 DEF EntryInv
<1>9. EntryInv'
  BY <1>1, <1>5, <1>8 DEF EntryInv, VmTyped
<1> HIDE DEF e, x
<1> QED
  BY <1>2, <1>5, <1>6, <1>8, <1>9 DEF e, x

LEMMA UserLoaded ==
    ASSUME IInv, NEW t \in Users, Loaded(t)
    PROVE  IInv'
<1> DEFINE e == th[t].e
           v == Least(FreeVms)
<1>1. /\ th[t].at = "loading" /\ Theirs /\ stale' = stale /\ pool' = pool
      /\ current' = current /\ th[t].at \in EnginePlaces \ {"push"}
  BY DEF Loaded, At, Theirs, history, EnginePlaces
<1>2. CASE GiveUp(t, Entry(t)) /\ UNCHANGED vm
  BY <1>1, <1>2, UserGivesUpPlainly
<1>3. CASE /\ ~closed /\ FreeVms # {} /\ Go(t, "init")
           /\ vm' = [vm EXCEPT ![v] = [NoVm EXCEPT !.entry = e, !.open = TRUE]]
           /\ entry' = [entry EXCEPT ![e].primary = v]
           /\ UNCHANGED <<engine, data>>
  <2>1. /\ t \in Threads /\ e \in Entries /\ ThreadInv /\ EntryInv
        /\ DataTyped /\ Typed(t) /\ UserTyped(t)
    BY <1>1, UserKnown DEF ThreadInv
  <2>5. PICK w \in Vms :
             /\ w \notin UsedVms /\ vm'[w].entry = th[t].e /\ Undisturbed
             /\ \A a \in Vms : a # w => vm'[a] = vm[a]
             /\ EntryInv'
             /\ entry'[th[t].e].primary = w /\ entry'[th[t].e].idle = Entry(t).idle
             /\ entry'[th[t].e].active = Entry(t).active
             /\ entry'[th[t].e].settings = Entry(t).settings
             /\ entry'[th[t].e].generation = Entry(t).generation
             /\ \A d \in Entries : d # th[t].e => entry'[d] = entry[d]
    BY <1>1, <1>3, <2>1, LoadedFrame
  <2>2. /\ EntryInv' /\ RoleInv' /\ SettingsInv' /\ StaleInv' /\ Only(t)
        /\ th'[t].at = "init" /\ th'[t].op = th[t].op /\ th'[t].e = th[t].e
        /\ th'[t].vm = th[t].vm /\ th'[t].generation = th[t].generation
        /\ th'[t].settings = th[t].settings
        /\ vm'[w].entry = e /\ w \in Runtimes(entry'[e])
        /\ \A a \in Vms : a # w => vm'[a] = vm[a]
        /\ \A d \in Entries : d # e => entry'[d] = entry[d]
        /\ \A d \in Entries, a \in Vms :
               a \in Runtimes(entry[d]) => a \in Runtimes(entry'[d])
    <3>1. Go(t, "init")
      BY <1>3
    <3> QED
      BY <1>1, <2>1, <2>5, <3>1, LoadedGives
  <2>3. ThreadInv' /\ AdminInv' /\ EngineInv' /\ PoolInv' /\ BusyInv' /\ DiskInv'
    <3>1. Typed(t)' /\ UserTyped(t)' /\ Empties(t)
      BY <1>1, <2>1, <2>2 DEF Typed, UserTyped, Places, UserPlaces, Pooled,
                              EnginePlaces, Empties
    <3>2. /\ th'[t].e \in {th[t].e, 0} /\ th[t].at # "return" /\ th'[t].at # "return"
          /\ th[t].at \in EnginePlaces /\ th'[t].at \in EnginePlaces
      BY <1>1, <2>2 DEF EnginePlaces
    <3>3. engine[e] = t
      BY <3>2 DEF IInv, EngineInv
    <3>4. \A d \in Entries : entry'[d].primary # entry[d].primary => engine[d] = t
      BY <2>2, <3>3
    <3>5. DataTyped'
      BY <1>3, <2>1 DEF DataTyped
    <3> QED
      BY <1>1, <1>3, <2>2, <3>1, <3>2, <3>4, <3>5, ControlParts
  <2>4. OpenInv'
    <3>1. Busy(t)
      BY <1>1 DEF Busy
    <3>2. /\ e \in {current, th[Admin].e}
          /\ ~(th[Admin].at \in {"source", "data"} /\ e = th[Admin].e)
          /\ halt \notin {"runtimes", "idle", "down"}
      BY <1>3, <3>1, BusyKnown
    <3>3. ASSUME NEW a \in Vms, a # w, vm'[a].open
          PROVE  /\ vm[a].open /\ vm'[a].entry = vm[a].entry
                 /\ \A d \in Entries : a \in Runtimes(entry[d])
                                          => a \in Runtimes(entry'[d])
                 /\ ~(th[t].at = "push" /\ th[t].vm = a)
      BY <1>1, <2>2, <3>3
    <3> QED
      BY <1>1, <2>1, <2>2, <3>2, <3>3, UserOpen DEF IInv
  <2> QED
    BY <2>2, <2>3, <2>4 DEF IInv
<1> QED
  BY <1>2, <1>3 DEF Loaded

LEMMA IsolatedStep ==
    ASSUME IInv, NEW t \in Users, Isolated(t)
    PROVE  IInv'
<1> DEFINE e == th[t].e
           v == Least(FreeVms)
           c == [at |-> "push", vm |-> v]
<1>1. /\ th[t].at = "isolating" /\ Theirs /\ pool' = pool
      /\ current' = current /\ th[t].at \in EnginePlaces \ {"push"}
  BY DEF Isolated, At, Theirs, EnginePlaces
<1>2. CASE GiveUp(t, Entry(t)) /\ UNCHANGED <<vm, stale>>
  BY <1>1, <1>2, UserGivesUpPlainly
<1>3. CASE /\ ~closed /\ FreeVms # {}
           /\ vm' = [vm EXCEPT ![v] = [entry |-> e, open |-> TRUE,
                                       settings |-> th[t].settings]]
           /\ Set(t, c) /\ stale' = stale \ {v}
           /\ UNCHANGED <<entry, engine, data>>
  <2>1. /\ t \in Threads /\ e \in Entries /\ ThreadInv /\ EntryInv
        /\ DataTyped /\ Typed(t) /\ UserTyped(t) /\ th[t].settings \in Settings
    BY <1>1, UserKnown DEF ThreadInv
  <2>2. /\ v \in Vms /\ v \notin UsedVms /\ v # 0 /\ ~vm[v].open
        /\ \A d \in Entries : /\ v \notin Runtimes(entry[d])
                              /\ v # entry[d].primary /\ v # entry[d].idle
                              /\ v \notin entry[d].active
        /\ \A u \in Threads : th[u].vm # v
    BY <1>3, FreshGives, UnusedGives
  <2> HIDE DEF v
  <2>3. /\ Undisturbed /\ VmTyped' /\ vm'[v].entry = e
        /\ vm'[v].settings = th[t].settings
        /\ \A w \in Vms : w # v => vm'[w] = vm[w]
    <3> DEFINE r == [entry |-> e, open |-> TRUE, settings |-> th[t].settings]
    <3>1. /\ r \in [entry : Entries \cup {0}, settings : Settings, open : BOOLEAN]
          /\ r.entry = e /\ r.settings = th[t].settings
      BY <2>1
    <3>2. vm' = [vm EXCEPT ![v] = r]
      BY <1>3
    <3> HIDE DEF r
    <3> QED
      BY ZenonT(40), <2>1, <2>2, <3>1, <3>2, FreshUndisturbed
  <2>4. EntryInv' /\ DataTyped'
    BY <1>1, <1>3, <2>1, <2>3 DEF EntryInv, VmTyped, DataTyped
  <2>5. /\ Only(t)
        /\ \A f \in Fields : th'[t][f] = IF f \in DOMAIN c THEN c[f] ELSE th[t][f]
    <3>1. Set(t, c)
      BY <1>3
    <3> HIDE DEF c
    <3> QED
      BY <2>1, <3>1, SetGives
  <2>6. /\ th'[t].at = "push" /\ th'[t].op = th[t].op /\ th'[t].e = th[t].e
        /\ th'[t].vm = v /\ th'[t].generation = th[t].generation
        /\ th'[t].settings = th[t].settings
    BY <2>5 DEF Fields
  <2>7. ThreadInv' /\ AdminInv' /\ EngineInv' /\ PoolInv' /\ BusyInv' /\ DiskInv'
    <3>1. Typed(t)' /\ UserTyped(t)' /\ Empties(t)
      BY <1>1, <2>1, <2>2, <2>6 DEF Typed, UserTyped, Places, UserPlaces, Pooled,
                               EnginePlaces, Empties
    <3>2. /\ th'[t].e \in {th[t].e, 0} /\ th[t].at # "return" /\ th'[t].at # "return"
          /\ th[t].at \in EnginePlaces /\ th'[t].at \in EnginePlaces
      BY <1>1, <2>6 DEF EnginePlaces
    <3>3. /\ \A d \in Entries : d # th[t].e => entry'[d] = entry[d]
          /\ \A d \in Entries : entry'[d].primary # entry[d].primary => engine[d] = t
      BY <1>3
    <3> QED
      BY <1>1, <1>3, <2>4, <2>5, <2>6, <3>1, <3>2, <3>3, ControlParts
  <2>8. \A u \in Users : u # t => th'[u] = th[u]
    BY <2>5 DEF Only, Threads
  <2>9. \A u \in Users : u # t => Follows(u)
    BY <2>8 DEF Follows
  <2>10. LentRole(t)'
    <3>1. \A u \in Users : th[u].vm # v
      BY <2>2 DEF Threads
    <3> QED
      BY <1>3, <2>1, <2>2, <2>3, <2>6, <2>8, <3>1 DEF LentRole
  <2>11. LentSettings(t)'
    <3>1. /\ th[t].generation <= entry[e].generation
          /\ th[t].generation = entry[e].generation
                => entry[e].settings = th[t].settings
      BY <1>1 DEF IInv, SettingsInv, Pooled
    <3> QED
      BY <1>3, <2>3, <2>6, <3>1 DEF LentSettings
  <2>12. LentStale(t)'
    BY <1>3, <2>6 DEF LentStale
  <2>13. RoleInv' /\ SettingsInv' /\ StaleInv'
    <3>1. \A d \in Entries : entry[d].generation <= entry[d].generation
      BY <2>1 DEF EntryInv, Installed
    <3>2. \A d \in Entries : FewerRoles(d) /\ SamePool(d)
      BY <1>3, <3>1 DEF SamePool, FewerRoles
    <3>3. stale' \subseteq stale
      BY <1>3
    <3> QED
      BY <2>3, <2>4, <2>9, <2>10, <2>11, <2>12, <3>2, <3>3, RolesKept,
         SettingsFollow, StaleKept DEF IInv
  <2>14. OpenInv'
    <3>1. Busy(t)
      BY <1>1 DEF Busy
    <3>2. /\ e \in {current, th[Admin].e}
          /\ ~(th[Admin].at \in {"source", "data"} /\ e = th[Admin].e)
          /\ halt \notin {"runtimes", "idle", "down"}
      BY <1>3, <3>1, BusyKnown
    <3>3. ASSUME NEW w \in Vms, w # v, vm'[w].open
          PROVE  /\ vm[w].open /\ vm'[w].entry = vm[w].entry
                 /\ \A d \in Entries : w \in Runtimes(entry[d])
                                          => w \in Runtimes(entry'[d])
                 /\ ~(th[t].at = "push" /\ th[t].vm = w)
      BY <1>1, <1>3, <2>3, <3>3
    <3> QED
      BY <1>1, <2>1, <2>2, <2>3, <2>5, <2>6, <3>2, <3>3, UserOpen DEF IInv
  <2> QED
    BY <2>4, <2>7, <2>13, <2>14 DEF IInv
<1> QED
  BY <1>2, <1>3 DEF Isolated

-----------------------------------------------------------------------------
(* Users: what is lent is listed, and given back. *)

LEMMA PushStep ==
    ASSUME IInv, NEW t \in Users, Push(t)
    PROVE  IInv'
<1> DEFINE e == th[t].e
           x == Entry(t)
           w == th[t].vm
           z == [x EXCEPT !.active = @ \cup {w}]
<1>1. /\ th[t].at = "push" /\ Theirs /\ stale' = stale /\ pool' = pool /\ vm' = vm
      /\ data' = data /\ Released(t) /\ Go(t, "borrowed")
      /\ entry' = [entry EXCEPT ![e].active = @ \cup {w}]
  BY DEF Push, At, Theirs, disk, history
<1>2. /\ t \in Threads /\ e \in Entries /\ x \in Installed /\ ThreadInv /\ EntryInv
      /\ DataTyped /\ Typed(t) /\ UserTyped(t) /\ x = entry[e]
  BY <1>1, UserKnown DEF ThreadInv, Entry
<1>3. /\ w \in Vms /\ vm[w].entry = e /\ w # x.primary /\ w # x.idle
      /\ \A u \in Users : u # t /\ th[u].at \in Lent => th[u].vm # w
  BY <1>1, <1>2 DEF IInv, RoleInv, Lent
<1>4. /\ z \in Installed /\ z.primary = x.primary /\ z.idle = x.idle
      /\ z.active = x.active \cup {w}
      /\ z.settings = x.settings /\ z.generation = x.generation
  BY <1>2, <1>3 DEF Installed
<1>5. entry' = [entry EXCEPT ![e] = z]
  BY <1>1, <1>2 DEF EntryInv
<1> HIDE DEF z
<1>6. /\ entry' \in [Entries -> Installed] /\ entry'[e] = z
      /\ \A d \in Entries : d # e => entry'[d] = entry[d]
  BY <1>2, <1>4, <1>5, PutGives
<1>7. EntryInv' /\ DataTyped'
  BY <1>1, <1>2, <1>6 DEF EntryInv, Theirs, DataTyped
<1>8. /\ Only(t)
      /\ th'[t].at = "borrowed" /\ th'[t].op = th[t].op /\ th'[t].e = e
      /\ th'[t].vm = w /\ th'[t].generation = th[t].generation
      /\ th'[t].settings = th[t].settings
  BY <1>1, <1>2, GoGives
<1>9. ThreadInv' /\ AdminInv' /\ EngineInv' /\ PoolInv' /\ BusyInv' /\ DiskInv'
  <2>1. Typed(t)' /\ UserTyped(t)' /\ Empties(t)
    BY <1>1, <1>2, <1>8 DEF Typed, UserTyped, Places, UserPlaces, Pooled,
                            EnginePlaces, Empties
  <2>2. /\ th'[t].e \in {th[t].e, 0} /\ th[t].at # "return" /\ th'[t].at # "return"
        /\ th'[t].at \notin EnginePlaces
    BY <1>1, <1>8 DEF EnginePlaces
  <2>3. \A d \in Entries : entry'[d].primary # entry[d].primary => engine[d] = t
    BY <1>2, <1>4, <1>6
  <2> QED
    BY <1>1, <1>6, <1>7, <1>8, <2>1, <2>2, <2>3, ControlParts
<1>10. \A u \in Users : u # t => th'[u] = th[u]
  BY <1>8 DEF Only, Threads
<1>11. \A u \in Users : Follows(u)
  BY <1>1, <1>8, <1>10 DEF Follows, Pooled, Lent
<1>12. SettingsInv' /\ StaleInv'
  <2>1. \A d \in Entries : entry[d].generation <= entry[d].generation
    BY <1>2 DEF EntryInv, Installed
  <2>2. \A d \in Entries : SamePool(d)
    BY <1>2, <1>4, <1>6, <2>1 DEF SamePool
  <2>3. Undisturbed /\ stale' \subseteq stale
    BY <1>1 DEF Undisturbed
  <2> QED
    BY <1>7, <1>11, <2>2, <2>3, SettingsFollow, StaleKept DEF IInv
<1>13. RoleInv'
  <2>1. ASSUME NEW d \in Entries
        PROVE  /\ \A v \in Runtimes(entry'[d]) : vm'[v].entry = d
               /\ entry'[d].primary # 0 => /\ entry'[d].primary # entry'[d].idle
                                           /\ entry'[d].primary \notin entry'[d].active
               /\ entry'[d].idle \notin entry'[d].active
    <3>1. CASE d # e
      BY <1>1, <1>6, <3>1 DEF IInv, RoleInv
    <3>2. CASE d = e
      <4>1. Runtimes(z) \subseteq Runtimes(x) \cup {w}
        BY <1>4 DEF Runtimes
      <4>2. /\ \A v \in Runtimes(x) : vm[v].entry = e
            /\ x.primary # 0 => x.primary # x.idle /\ x.primary \notin x.active
            /\ x.idle \notin x.active
        BY <1>2 DEF IInv, RoleInv
      <4> QED
        BY <1>1, <1>3, <1>4, <1>6, <3>2, <4>1, <4>2
    <3> QED
      BY <3>1, <3>2
  <2>2. ASSUME NEW u \in Users, th'[u].at \in Lent
        PROVE  /\ th[u].at \in Lent /\ th'[u].vm = th[u].vm
               /\ th'[u].vm \in Vms /\ vm'[th'[u].vm].entry = th'[u].e
               /\ th'[u].vm # entry'[th'[u].e].primary
               /\ th'[u].vm # entry'[th'[u].e].idle
               /\ th'[u].at = "push" => th'[u].vm \notin entry'[th'[u].e].active
    <3>1. CASE u = t
      BY <1>1, <1>2, <1>3, <1>4, <1>6, <1>8, <3>1 DEF Lent
    <3>2. CASE u # t
      <4>1. th'[u] = th[u] /\ th[u].vm # w /\ th[u].e \in Entries
        BY <1>2, <1>3, <1>10, <2>2, <3>2 DEF Threads, ThreadInv, Typed, Lent
      <4>2. /\ th[u].vm \in Vms /\ vm[th[u].vm].entry = th[u].e
            /\ th[u].vm # entry[th[u].e].primary
            /\ th[u].vm # entry[th[u].e].idle
            /\ th[u].at = "push" => th[u].vm \notin entry[th[u].e].active
        BY <2>2, <4>1 DEF IInv, RoleInv
      <4> QED
        BY <1>1, <1>2, <1>4, <1>6, <2>2, <4>1, <4>2
    <3> QED
      BY <3>1, <3>2
  <2>3. ASSUME NEW a \in Users, NEW u \in Users, a # u,
               th'[a].at \in Lent, th'[u].at \in Lent
        PROVE  th'[a].vm # th'[u].vm
    BY <2>2, <2>3 DEF IInv, RoleInv
  <2> QED
    BY <2>1, <2>2, <2>3 DEF RoleInv
<1>14. OpenInv'
  <2>1. vm'[w].open =>
          /\ vm'[w].entry \in Entries /\ vm'[w].entry \in {current, th[Admin].e}
          /\ ~(th[Admin].at \in {"source", "data"} /\ vm'[w].entry = th[Admin].e)
          /\ halt \notin {"runtimes", "idle", "down"}
    BY <1>1, <1>3 DEF IInv, OpenInv, QuietRemoval
  <2>2. w \in Runtimes(entry'[vm'[w].entry])
    BY <1>1, <1>3, <1>4, <1>6, ManagerAssumption DEF Runtimes
  <2>3. ASSUME NEW v \in Vms, v # w, vm'[v].open
        PROVE  /\ vm[v].open /\ vm'[v].entry = vm[v].entry
               /\ \A d \in Entries : v \in Runtimes(entry[d])
                                        => v \in Runtimes(entry'[d])
               /\ ~(th[t].at = "push" /\ th[t].vm = v)
    BY <1>1, <1>2, <1>4, <1>6, <2>3 DEF Runtimes
  <2> QED
    BY <1>1, <1>2, <1>3, <1>8, <2>1, <2>2, <2>3, UserOpen DEF IInv
<1> QED
  BY <1>7, <1>9, <1>12, <1>13, <1>14 DEF IInv

LEMMA DropReturnStep ==
    ASSUME IInv, NEW t \in Users, DropReturn(t)
    PROVE  IInv'
<1> DEFINE e == th[t].e
           x == Entry(t)
           w == th[t].vm
           keep == Matching(t) /\ x.generation = th[t].generation
           z == [x EXCEPT !.active = @ \ {w}, !.idle = IF keep THEN w ELSE @]
<1>1. /\ th[t].at = "return" /\ Theirs /\ stale' = stale /\ engine' = engine
      /\ pool' = [pool EXCEPT ![e] = None] /\ Done(t)
      /\ data' = (IF th[t].good /\ ~closed THEN Touched ELSE data)
      /\ entry' = [entry EXCEPT ![e].active = @ \ {w},
                                ![e].idle = IF keep THEN w ELSE @]
      /\ IF keep THEN UNCHANGED vm ELSE Shut({w})
  BY DEF DropReturn, Return, At, Theirs, history
<1>2. /\ t \in Threads /\ e \in Entries /\ x \in Installed /\ ThreadInv /\ EntryInv
      /\ DataTyped /\ Typed(t) /\ UserTyped(t) /\ x = entry[e]
  BY <1>1, UserKnown DEF ThreadInv, Entry
<1>3. /\ w \in Vms /\ vm[w].entry = e /\ w # x.primary /\ w # x.idle
      /\ \A u \in Users : u # t /\ th[u].at \in Lent => th[u].vm # w
  BY <1>1, <1>2 DEF IInv, RoleInv, Lent
<1>4. /\ keep => x.idle = 0 /\ x.settings = th[t].settings
                 /\ x.generation = th[t].generation /\ ~closed
  BY <1>1, <1>2 DEF Matching, IInv, SettingsInv, Pooled
<1> HIDE DEF keep
<1>5. /\ z \in Installed /\ z.primary = x.primary
      /\ z.idle = IF keep THEN w ELSE x.idle
      /\ z.active = x.active \ {w}
      /\ z.settings = x.settings /\ z.generation = x.generation
  BY <1>2, <1>3 DEF Installed
<1>6. entry' = [entry EXCEPT ![e] = z]
  BY <1>1, <1>2 DEF EntryInv
<1> HIDE DEF z
<1>7. /\ entry' \in [Entries -> Installed] /\ entry'[e] = z
      /\ \A d \in Entries : d # e => entry'[d] = entry[d]
  BY <1>2, <1>5, <1>6, PutGives
<1>8. /\ Calm /\ VmTyped'
      /\ \A v \in Vms : /\ vm'[v].entry = vm[v].entry
                        /\ vm'[v].settings = vm[v].settings
                        /\ vm'[v].open => vm[v].open /\ (v = w => keep)
  <2>1. CASE keep
    BY <1>1, <1>2, <2>1 DEF Calm, VmTyped, EntryInv
  <2>2. CASE ~keep
    <3>1. Shut({w})
      BY <1>1, <2>2
    <3>2. \A v \in Vms : /\ vm'[v].entry = vm[v].entry
                         /\ vm'[v].settings = vm[v].settings
                         /\ vm'[v].open => vm[v].open /\ v # w
      BY <1>2, <3>1 DEF Shut, EntryInv
    <3> QED
      BY <1>2, <3>1, <3>2, ShutCalm, ShutGives DEF VmTyped
  <2> QED
    BY <2>1, <2>2
<1>9. EntryInv' /\ DataTyped'
  <2>1. DataTyped'
    BY <1>1, <1>2, TouchedTyped DEF DataTyped
  <2> QED
    BY <1>1, <1>2, <1>7, <1>8, <2>1 DEF EntryInv, Theirs, VmTyped
<1>10. Only(t) /\ th'[t] = Rest
  BY <1>1, <1>2, DoneGives
<1>11. /\ Typed(t)' /\ UserTyped(t)' /\ Follows(t) /\ Empties(t)
       /\ th'[t].at = "idle" /\ th'[t].e = 0
  BY <1>10, RestTyped
<1>12. \A u \in Users : u # t => th'[u] = th[u]
  BY <1>10 DEF Only, Threads
<1>13. \A u \in Users : Follows(u)
  BY <1>11, <1>12 DEF Follows
<1>14. ThreadInv' /\ AdminInv' /\ EngineInv' /\ BusyInv' /\ DiskInv'
  <2>1. /\ th'[t].e \in {th[t].e, 0, current} /\ th[t].at \notin EnginePlaces
        /\ th'[t].at \notin EnginePlaces /\ ~Busy(t)'
    BY <1>1, <1>11 DEF EnginePlaces, Busy
  <2>2. \A d \in Entries : entry'[d].primary # entry[d].primary => engine[d] = t
    BY <1>2, <1>5, <1>7
  <2> QED
    BY <1>1, <1>7, <1>9, <1>10, <1>11, <2>1, <2>2, UserThread, UserAdmin, UserEngine,
       UserBusy, UserDisk DEF IInv
<1>15. PoolInv'
  <2>1. pool[e] = t /\ pool \in [Entries -> Users \cup {None}] /\ None \notin Users
    BY <1>1, ManagerAssumption DEF IInv, PoolInv
  <2>2. pool' \in [Entries -> Users \cup {None}]
    BY <1>1, <2>1
  <2>3. pool'[e] = None /\ \A d \in Entries : d # e => pool'[d] = pool[d]
    BY <1>1, <1>2, <2>1
  <2>4. ASSUME NEW u \in Users, th'[u].at = "return" PROVE pool'[th'[u].e] = u
    <3>1. u # t /\ th'[u] = th[u]
      BY <1>11, <1>12, <2>4
    <3>2. pool[th[u].e] = u /\ th[u].e \in Entries
      BY <1>2, <2>4, <3>1 DEF IInv, PoolInv, ThreadInv, Threads, Typed
    <3> QED
      BY <2>1, <2>3, <3>1, <3>2
  <2>5. ASSUME NEW d \in Entries, NEW u \in Users, pool'[d] = u
        PROVE  th'[u].at = "return" /\ th'[u].e = d
    <3>1. d # e /\ pool[d] = u
      BY <2>1, <2>3, <2>5
    <3>2. th[u].at = "return" /\ th[u].e = d
      BY <3>1 DEF IInv, PoolInv
    <3> QED
      BY <1>12, <3>1, <3>2
  <2> QED
    BY <2>2, <2>4, <2>5 DEF PoolInv
<1>16. \A d \in Entries : entry[d].generation <= entry[d].generation
  BY <1>2 DEF EntryInv, Installed
<1>17. OpenInv'
  <2>1. vm'[w].open =>
          /\ keep /\ vm'[w].entry = e
          /\ vm'[w].entry \in Entries /\ vm'[w].entry \in {current, th[Admin].e}
          /\ ~(th[Admin].at \in {"source", "data"} /\ vm'[w].entry = th[Admin].e)
          /\ halt \notin {"runtimes", "idle", "down"}
    BY <1>3, <1>8 DEF IInv, OpenInv, QuietRemoval
  <2>2. keep => w \in Runtimes(z)
    BY <1>3, <1>5, ManagerAssumption DEF Runtimes
  <2>3. ASSUME NEW v \in Vms, v # w, vm'[v].open
        PROVE  /\ vm[v].open /\ vm'[v].entry = vm[v].entry
               /\ \A d \in Entries : v \in Runtimes(entry[d])
                                        => v \in Runtimes(entry'[d])
               /\ ~(th[t].at = "push" /\ th[t].vm = v)
    <3>1. v \in Runtimes(x) => v \in Runtimes(z)
      BY <1>4, <1>5, <2>3 DEF Runtimes
    <3> QED
      BY <1>1, <1>2, <1>7, <1>8, <2>3, <3>1
  <2>4. /\ EntryInv /\ OpenInv /\ Only(t) /\ Theirs /\ w \in Vms
        /\ vm'[w].open => w \in Runtimes(entry'[vm'[w].entry])
    BY <1>1, <1>2, <1>3, <1>7, <1>10, <2>1, <2>2 DEF IInv
  <2> HIDE DEF w, e, x
  <2> QED
    BY <2>1, <2>3, <2>4, UserOpen
<1>18. CASE ~keep
  <2>1. \A d \in Entries : FewerRoles(d) /\ SamePool(d)
    BY <1>2, <1>5, <1>7, <1>16, <1>18 DEF SamePool, FewerRoles
  <2>2. Undisturbed /\ stale' \subseteq stale
    BY <1>1, <1>8, CalmUndisturbed
  <2>3. RoleInv' /\ SettingsInv' /\ StaleInv'
    BY <1>9, <1>13, <2>1, <2>2, RolesKept, SettingsFollow, StaleKept DEF IInv
  <2> QED
    BY <1>9, <1>14, <1>15, <1>17, <2>3 DEF IInv
<1>19. CASE keep
  <2>0. /\ z.idle = w /\ x.idle = 0 /\ w # 0
    BY <1>3, <1>4, <1>5, <1>19, ManagerAssumption
  <2>1. ASSUME NEW u \in Users, th'[u].at \in Pooled
        PROVE  /\ u # t /\ th'[u] = th[u] /\ th[u].e \in Entries
               /\ th[u].at \in Lent => th[u].vm # w
               /\ entry'[th[u].e].generation = entry[th[u].e].generation
               /\ entry'[th[u].e].settings = entry[th[u].e].settings
               /\ entry'[th[u].e].primary = entry[th[u].e].primary
               /\ entry'[th[u].e].active \subseteq entry[th[u].e].active
               /\ entry'[th[u].e].idle \in {w, entry[th[u].e].idle}
    <3>1. u # t /\ th'[u] = th[u]
      BY <1>11, <1>12, <2>1 DEF Pooled
    <3>2. th[u].e \in Entries /\ (th[u].at \in Lent => th[u].vm # w)
      BY <1>2, <1>3, <2>1, <3>1 DEF Threads, ThreadInv, Typed, Pooled
    <3> QED
      BY <1>2, <1>5, <1>7, <2>0, <3>1, <3>2
  <2>2. Lent \subseteq Pooled
    BY DEF Lent, Pooled
  <2>3. RoleInv'
    <3>1. ASSUME NEW d \in Entries
          PROVE  /\ \A v \in Runtimes(entry'[d]) : vm'[v].entry = d
                 /\ entry'[d].primary # 0 =>
                        /\ entry'[d].primary # entry'[d].idle
                        /\ entry'[d].primary \notin entry'[d].active
                 /\ entry'[d].idle \notin entry'[d].active
      <4>0. /\ \A v \in Runtimes(entry[d]) : v \in Vms /\ vm[v].entry = d
            /\ entry[d].primary # 0 =>
                  /\ entry[d].primary # entry[d].idle
                  /\ entry[d].primary \notin entry[d].active
            /\ entry[d].idle \notin entry[d].active
        BY <1>2 DEF IInv, RoleInv, EntryInv, Installed, Runtimes
      <4>1. CASE d # e
        BY <1>7, <1>8, <4>0, <4>1
      <4>2. CASE d = e
        <5>1. Runtimes(z) \subseteq Runtimes(x) \cup {w}
          BY <1>5 DEF Runtimes
        <5> QED
          BY <1>2, <1>3, <1>5, <1>7, <1>8, <2>0, <4>0, <4>2, <5>1
      <4> QED
        BY <4>1, <4>2
    <3>2. ASSUME NEW u \in Users, th'[u].at \in Lent
          PROVE  /\ th[u].at \in Lent /\ th'[u].vm = th[u].vm
                 /\ th'[u].vm \in Vms /\ vm'[th'[u].vm].entry = th'[u].e
                 /\ th'[u].vm # entry'[th'[u].e].primary
                 /\ th'[u].vm # entry'[th'[u].e].idle
                 /\ th'[u].at = "push" => th'[u].vm \notin entry'[th'[u].e].active
      <4>1. /\ th'[u] = th[u] /\ th[u].vm # w
            /\ entry'[th[u].e].primary = entry[th[u].e].primary
            /\ entry'[th[u].e].active \subseteq entry[th[u].e].active
            /\ entry'[th[u].e].idle \in {w, entry[th[u].e].idle}
        BY <2>1, <2>2, <3>2
      <4>2. /\ th[u].vm \in Vms /\ vm[th[u].vm].entry = th[u].e
            /\ th[u].vm # entry[th[u].e].primary
            /\ th[u].vm # entry[th[u].e].idle
            /\ th[u].at = "push" => th[u].vm \notin entry[th[u].e].active
        BY <3>2, <4>1 DEF IInv, RoleInv
      <4> QED
        BY <1>8, <3>2, <4>1, <4>2
    <3>3. ASSUME NEW a \in Users, NEW u \in Users, a # u,
                 th'[a].at \in Lent, th'[u].at \in Lent
          PROVE  th'[a].vm # th'[u].vm
      BY <3>2, <3>3 DEF IInv, RoleInv
    <3> QED
      BY <3>1, <3>2, <3>3 DEF RoleInv
  <2>4. SettingsInv'
    <3>1. ASSUME NEW d \in Entries, entry'[d].idle # 0
          PROVE  vm'[entry'[d].idle].settings = entry'[d].settings
      <4>1. CASE d = e
        <5>1. vm[w].settings = th[t].settings
          BY <1>1 DEF IInv, SettingsInv, Lent
        <5> QED
          BY <1>3, <1>4, <1>5, <1>7, <1>8, <1>19, <2>0, <4>1, <5>1
      <4>2. CASE d # e
        <5>1. entry[d].idle # 0 /\ entry[d].idle \in Vms
              /\ vm[entry[d].idle].settings = entry[d].settings
          BY <1>2, <1>7, <3>1, <4>2 DEF IInv, SettingsInv, EntryInv, Installed
        <5> QED
          BY <1>7, <1>8, <4>2, <5>1
      <4> QED
        BY <4>1, <4>2
    <3>2. ASSUME NEW u \in Users, th'[u].at \in Lent
          PROVE  vm'[th'[u].vm].settings = th'[u].settings
      <4>1. th'[u] = th[u]
        BY <2>1, <2>2, <3>2
      <4>2. th[u].vm \in Vms /\ vm[th[u].vm].settings = th[u].settings
        BY <3>2, <4>1 DEF IInv, RoleInv, SettingsInv
      <4> QED
        BY <1>8, <4>1, <4>2
    <3>3. ASSUME NEW u \in Users, th'[u].at \in Pooled
          PROVE  /\ th'[u].generation <= entry'[th'[u].e].generation
                 /\ th'[u].generation = entry'[th'[u].e].generation
                       => entry'[th'[u].e].settings = th'[u].settings
      <4>1. /\ th'[u] = th[u]
            /\ entry'[th[u].e].generation = entry[th[u].e].generation
            /\ entry'[th[u].e].settings = entry[th[u].e].settings
        BY <2>1, <3>3
      <4> QED
        BY <3>3, <4>1 DEF IInv, SettingsInv
    <3> QED
      BY <3>1, <3>2, <3>3 DEF SettingsInv
  <2>5. StaleInv'
    <3>1. w \notin stale
      <4>1. w \in stale => th[t].generation < x.generation
        BY <1>1, <1>2 DEF IInv, StaleInv, Lent
      <4>2. x.generation \in Nat /\ x.generation = th[t].generation
        BY <1>2, <1>4, <1>19 DEF Installed
      <4> QED
        BY <4>1, <4>2
    <3>2. PressureHolds'
      BY <1>1, <1>2, <1>7, <2>0, <3>1 DEF IInv, StaleInv, PressureHolds
    <3>3. ASSUME NEW u \in Users, th'[u].at \in Lent, th'[u].vm \in stale'
          PROVE  th'[u].generation < entry'[th'[u].e].generation
      <4>1. /\ th'[u] = th[u]
            /\ entry'[th[u].e].generation = entry[th[u].e].generation
        BY <2>1, <2>2, <3>3
      <4> QED
        BY <1>1, <3>3, <4>1 DEF IInv, StaleInv
    <3> QED
      BY <3>2, <3>3 DEF StaleInv
  <2> QED
    BY <1>9, <1>14, <1>15, <1>17, <2>3, <2>4, <2>5 DEF IInv
<1> QED
  BY <1>18, <1>19

\* All that a user does, but for ready.
LEMMA UserStep ==
    ASSUME IInv, NEW t \in Users, User(t)
    PROVE  IInv'
  BY AccountStep, AccountSettingsStep, StopWaitingStep, LockEngineStep, CallEndsStep,
     NativeEndsStep, ReadSettingsStep, TakeIdleStep, IsolateStep, IsolatedStep,
     PushStep, DownloadEndsStep, DropCheckStep, DropReturnStep DEF User

LEMMA UserReady ==
    ASSUME IInv, NEW t \in Users, Ready(t)
    PROVE  IInv'
  BY UserGates, UserLoad, UserLoaded, UserInitialize DEF Ready

-----------------------------------------------------------------------------
(* Memory pressure, and the frames of Admin's steps: users stay as they are. *)

LEMMA PutLower ==
    ASSUME EntryInv, NEW e \in Entries, NEW z \in Installed,
           entry' = [entry EXCEPT ![e] = z],
           \/ Lower(z, entry[e])
           \/ /\ z.primary = 0 /\ z.idle = 0 /\ z.active = {}
              /\ \A u \in Users : th[u].e # e
    PROVE  /\ entry' \in [Entries -> Installed] /\ entry'[e] = z
           /\ \A d \in Entries : d # e => entry'[d] = entry[d]
           /\ \A d \in Entries : Shrunk(d)
<1>1. /\ entry' \in [Entries -> Installed] /\ entry'[e] = z
      /\ \A d \in Entries : d # e => entry'[d] = entry[d]
  BY PutGives
<1>2. \A d \in Entries : entry[d].generation <= entry[d].generation
  BY DEF EntryInv, Installed
<1>3. Shrunk(e)
  BY <1>1 DEF Shrunk, FewerRoles, SamePool, Lower
<1>4. ASSUME NEW d \in Entries, d # e PROVE Shrunk(d)
  BY <1>1, <1>2, <1>4 DEF Shrunk, FewerRoles, SamePool
<1> QED
  BY <1>1, <1>3, <1>4

\* invalidate_download_pool.
LEMMA InvalidatedGives ==
    ASSUME EntryInv, NEW x \in Installed, Shut({x.idle})
    PROVE  LET y == Invalidated(x)
           IN /\ y \in Installed /\ Lower(y, x) /\ Calm /\ VmTyped'
              /\ \A v \in Vms : vm'[v].open /\ v \in Runtimes(x) => v \in Runtimes(y)
              /\ y.primary = x.primary /\ y.active = x.active /\ y.idle = 0
              /\ y.generation = x.generation + 1
              /\ Runtimes(y) \subseteq Runtimes(x)
<1> DEFINE y == Invalidated(x)
<1>1. /\ y \in Installed
      /\ y.primary = x.primary /\ y.idle = 0
      /\ y.active = x.active /\ y.settings = None
      /\ y.generation = x.generation + 1
  BY ValuesGive
<1>4. x.generation \in Nat /\ x.generation <= x.generation + 1
      /\ x.generation + 1 # x.generation
  BY DEF Installed
<1> HIDE DEF y
<1>5. Lower(y, x)
  BY <1>1, <1>4 DEF Lower
<1>6. VmTyped' /\ Calm
  BY ShutGives, ShutCalm DEF VmTyped
<1>7. ASSUME NEW v \in Vms, vm'[v].open, v \in Runtimes(x) PROVE v \in Runtimes(y)
  <2>1. v # x.idle
    BY <1>7 DEF Shut, EntryInv
  <2> QED
    BY <1>1, <1>7, <2>1 DEF Runtimes
<1>9. Runtimes(y) \subseteq Runtimes(x)
  BY <1>1 DEF Runtimes
<1> QED
  BY <1>1, <1>5, <1>6, <1>7, <1>9 DEF y

\* A step after which users are where they were and no runtime moves.
LEMMA BystandersKept ==
    ASSUME IInv, \A u \in Users : th'[u] = th[u], EntryInv',
           \A e \in Entries : Shrunk(e), Calm, pool' = pool,
           closed' = closed, halt' = halt,
           \A v \in Vms, e \in Entries :
               vm'[v].open /\ v \in Runtimes(entry[e]) => v \in Runtimes(entry'[e]),
           \A v \in Vms : vm'[v].open /\ vm[v].entry \in {current, th[Admin].e}
                              => vm[v].entry \in {current', th'[Admin].e},
           th'[Admin].at \in {"source", "data"}
              => /\ th[Admin].at \in {"source", "data"}
                 /\ th'[Admin].e = th[Admin].e
    PROVE  /\ RoleInv' /\ SettingsInv' /\ OpenInv' /\ PoolInv'
           /\ stale' \subseteq stale => StaleInv'
<1>1. \A u \in Users : Follows(u)
  BY DEF Follows
<1>2. Reachable
  BY DEF Reachable
<1>3. OpenInv'
  BY <1>2, OpenKept DEF IInv
<1>4. Undisturbed /\ \A e \in Entries : FewerRoles(e) /\ SamePool(e)
  BY CalmUndisturbed DEF Shrunk
<1>5. RoleInv' /\ SettingsInv'
  BY <1>1, <1>4, RolesKept, SettingsFollow DEF IInv
<1>6. stale' \subseteq stale => StaleInv'
  BY <1>1, <1>4, StaleKept DEF IInv
<1>7. PoolInv'
  BY DEF IInv, PoolInv
<1> QED
  BY <1>3, <1>5, <1>6, <1>7

LEMMA ReleaseIdleStep ==
    ASSUME IInv, ReleaseIdle
    PROVE  IInv'
<1> USE DEF Alive
<1>0. PICK c \in ({current} \ {0})
                \cup (IF At(Admin, "unload") THEN {th[Admin].e} ELSE {}) :
          /\ Shut({entry[c].idle})
          /\ entry' = [entry EXCEPT ![c] = Invalidated(@)]
          /\ stale' = {v \in stale : vm[v].open} \cup entry[c].active
                      \cup {th[t].vm : t \in {u \in Users : At(u, "push")
                                                            /\ th[u].e = c}}
  BY DEF ReleaseIdle
<1> DEFINE x == entry[c]
           z == Invalidated(x)
           pushing == {th[t].vm : t \in {u \in Users : At(u, "push") /\ th[u].e = c}}
<1>1. /\ ~closed /\ Shut({x.idle}) /\ entry' = [entry EXCEPT ![c] = z]
      /\ stale' = {v \in stale : vm[v].open} \cup x.active \cup pushing
      /\ c # current => th[Admin].at = "unload" /\ c = th[Admin].e
      /\ UNCHANGED <<current, engine, pool, th, target, backup, leftover, data,
                     closed, halt, wanted, gone>>
  BY <1>0 DEF ReleaseIdle, disk, At
<1>2. /\ EntryInv /\ ThreadInv /\ c \in Entries /\ x \in Installed
  <2>1. EntryInv /\ ThreadInv
    BY DEF IInv
  <2>2. c \in Entries
    <3>1. CASE c = current
      BY <1>0, <1>1, <2>1, <3>1, ManagerAssumption DEF EntryInv, ThreadInv, Typed, Threads, At
    <3>2. CASE c # current
      BY <1>1, <2>1, <3>2 DEF ThreadInv, Typed, Threads
    <3> QED
      BY <3>1, <3>2
  <2> QED
    BY <2>1, <2>2 DEF EntryInv
<1>3. /\ z \in Installed /\ Lower(z, x) /\ Calm /\ VmTyped'
      /\ \A v \in Vms : vm'[v].open /\ v \in Runtimes(x) => v \in Runtimes(z)
      /\ z.primary = x.primary /\ z.active = x.active /\ z.idle = 0
      /\ z.generation = x.generation + 1 /\ Runtimes(z) \subseteq Runtimes(x)
  BY <1>1, <1>2, InvalidatedGives
<1> HIDE DEF z
<1>4. /\ entry' \in [Entries -> Installed] /\ entry'[c] = z
      /\ \A d \in Entries : d # c => entry'[d] = entry[d]
      /\ \A d \in Entries : Shrunk(d)
  BY <1>1, <1>2, <1>3, PutLower
<1>5. \A v \in pushing : v \in Vms /\ \E u \in Users : /\ th[u].at = "push"
                                                       /\ th[u].vm = v
                                                       /\ th[u].e = c
  BY DEF IInv, RoleInv, Lent, At
<1> HIDE DEF pushing
<1>6. EntryInv'
  <2>1. stale' \subseteq Vms
    BY <1>1, <1>2, <1>5 DEF EntryInv, Installed
  <2> QED
    BY <1>1, <1>2, <1>3, <1>4, <2>1 DEF EntryInv, VmTyped
<1>7. RoleInv' /\ SettingsInv' /\ OpenInv' /\ PoolInv'
  <2>1. \A v \in Vms, e \in Entries :
            vm'[v].open /\ v \in Runtimes(entry[e]) => v \in Runtimes(entry'[e])
    BY <1>3, <1>4
  <2> QED
    BY <1>1, <1>3, <1>4, <1>6, <2>1, BystandersKept
<1>8. StaleInv'
  <2>1. ASSUME NEW e \in Entries PROVE entry'[e].idle \notin stale'
    <3>1. CASE e = c
      <4>1. 0 \notin stale'
        BY <1>6, ManagerAssumption DEF EntryInv
      <4> QED
        BY <1>3, <1>4, <3>1, <4>1
    <3>2. CASE e # c
      <4> DEFINE v == entry[e].idle
      <4>1. SUFFICES ASSUME v \in stale' PROVE FALSE
        BY <1>4, <3>2
      <4>2. v \in Vms /\ v # 0
        BY <1>6, <4>1, ManagerAssumption DEF EntryInv
      <4>3. v \in Runtimes(entry[e]) /\ vm[v].entry = e
        BY <4>2 DEF Runtimes, IInv, RoleInv
      <4>4. v \notin stale
        BY DEF IInv, StaleInv, PressureHolds
      <4>5. v \notin x.active
        <5>1. v \in x.active => v \in Runtimes(x)
          BY <4>2 DEF Runtimes
        <5>2. v \in Runtimes(x) => vm[v].entry = c
          BY <1>2 DEF IInv, RoleInv
        <5> QED
          BY <3>2, <4>3, <5>1, <5>2
      <4>6. v \notin pushing
        <5>1. SUFFICES ASSUME NEW u \in Users, th[u].at = "push", th[u].vm = v
                       PROVE  FALSE
          BY <1>5
        <5>2. vm[v].entry = th[u].e /\ v # entry[th[u].e].idle
          BY <5>1 DEF IInv, RoleInv, Lent
        <5> QED
          BY <4>3, <5>2
      <4> QED
        BY <1>1, <4>1, <4>4, <4>5, <4>6
    <3> QED
      BY <3>1, <3>2
  <2>2. ASSUME NEW u \in Users, th[u].at \in Lent, th[u].vm \in stale'
        PROVE  th[u].generation < entry'[th[u].e].generation
    <3>1. /\ th[u].e \in Entries /\ th[u].generation \in Nat
          /\ entry[th[u].e].generation \in Nat
          /\ th[u].generation <= entry[th[u].e].generation
          /\ vm[th[u].vm].entry = th[u].e /\ th[u].vm \in Vms
      BY <1>2, <2>2 DEF Threads, ThreadInv, Typed, Lent, Pooled, EntryInv, Installed,
                        IInv, SettingsInv, RoleInv
    <3>2. CASE th[u].e = c
      BY <1>3, <1>4, <3>1, <3>2
    <3>3. CASE th[u].e # c
      <4>1. th[u].vm \notin x.active
        <5>1. th[u].vm \in x.active => th[u].vm \in Runtimes(x)
          BY <3>1, ManagerAssumption DEF Runtimes
        <5>2. th[u].vm \in Runtimes(x) => vm[th[u].vm].entry = c
          BY <1>2 DEF IInv, RoleInv
        <5> QED
          BY <3>1, <3>3, <5>1, <5>2
      <4>2. th[u].vm \notin pushing
        <5>1. SUFFICES ASSUME NEW a \in Users, th[a].at = "push", th[a].e = c,
                              th[a].vm = th[u].vm
                       PROVE  FALSE
          BY <1>5
        <5>2. a = u
          BY <2>2, <5>1 DEF IInv, RoleInv, Lent
        <5> QED
          BY <3>3, <5>1, <5>2
      <4>3. th[u].vm \in stale
        BY <1>1, <2>2, <4>1, <4>2
      <4> QED
        BY <1>4, <2>2, <3>1, <3>3, <4>3 DEF IInv, StaleInv
    <3> QED
      BY <3>2, <3>3
  <2> QED
    BY <1>1, <2>1, <2>2 DEF StaleInv, PressureHolds
<1>9. AdminInv'
  <2>1. Unloaded => Runtimes(entry'[th[Admin].e]) = {}
    <3>1. Unloaded => /\ th[Admin].e # c /\ th[Admin].e \in Entries
                      /\ Runtimes(entry[th[Admin].e]) = {}
      <4>1. Unloaded => th[Admin].at # "unload"
        BY <1>2 DEF Unloaded, Working, ThreadInv, AdminTyped
      <4> QED
        BY <1>1, <1>2, <4>1 DEF IInv, AdminInv, Unloaded, Candidate, Working, ThreadInv, Typed, Threads
    <3> QED
      BY <1>4, <3>1
  <2>2. \A e \in Entries : entry'[e].primary = entry[e].primary
    BY <1>3, <1>4
  <2>3. \A t \in Threads : th[t].at # "idle" => th[t].e \in Entries
    BY <1>2 DEF ThreadInv, Typed
  <2>4. ASSUME NEW t \in Threads, th[t].at \in {"load", "loading"}
        PROVE  entry'[th[t].e].primary = 0
    BY <2>2, <2>3, <2>4 DEF IInv, AdminInv
  <2>5. At(Admin, "initialize") => th[Admin].vm = entry'[th[Admin].e].primary
    BY <2>2, <2>3 DEF IInv, AdminInv, Threads, At
  <2> QED
    BY <1>1, <2>1, <2>4, <2>5 DEF IInv, AdminInv, Candidate, Unloaded, Working, At
<1>10. ThreadInv' /\ EngineInv' /\ BusyInv' /\ DiskInv'
  <2>1. ThreadInv'
    BY <1>1 DEF IInv, ThreadInv, Typed, UserTyped, AdminTyped
  <2>2. EngineInv' /\ BusyInv'
    BY <1>1 DEF IInv, EngineInv, BusyInv, Busy, At
  <2>3. DiskInv'
    BY <1>1 DEF IInv, DiskInv, At, Working, SourceKept
  <2> QED
    BY <2>1, <2>2, <2>3
<1> QED
  BY <1>6, <1>7, <1>8, <1>9, <1>10 DEF IInv

\* A screen's read of the settings may make the directory, and nothing else.
LEMMA ShowSettingsStep ==
    ASSUME IInv, ShowSettings
    PROVE  IInv'
<1>1. /\ data' = Touched
      /\ UNCHANGED <<current, entry, engine, pool, vm, th, target, backup, leftover,
                     closed, halt, wanted, gone, stale>>
  BY DEF ShowSettings, history
<1>2. /\ EntryInv' /\ ThreadInv' /\ AdminInv' /\ EngineInv' /\ PoolInv' /\ BusyInv'
  <2>1. EntryInv'
    BY <1>1 DEF IInv, EntryInv
  <2>2. ThreadInv'
    BY <1>1 DEF IInv, ThreadInv, Typed, UserTyped, AdminTyped
  <2>3. EngineInv' /\ PoolInv'
    BY <1>1 DEF IInv, EngineInv, PoolInv, At
  <2>4. AdminInv'
    BY <1>1 DEF IInv, AdminInv, Unloaded, Candidate, Working, Runtimes, At
  <2>5. BusyInv'
    BY <1>1 DEF IInv, BusyInv, Busy, At
  <2> QED
    BY <2>1, <2>2, <2>3, <2>4, <2>5
<1>3. RoleInv' /\ SettingsInv' /\ StaleInv' /\ OpenInv'
  BY <1>1 DEF IInv, RoleInv, SettingsInv, StaleInv, PressureHolds, OpenInv,
              QuietRemoval, At
<1>4. DiskInv'
  BY <1>1 DEF IInv, DiskInv, SourceKept, Working, At, Touched
<1> QED
  BY <1>2, <1>3, <1>4 DEF IInv

LEMMA AdminThread ==
    ASSUME ThreadInv, Only(Admin), Typed(Admin)', AdminTyped'
    PROVE  ThreadInv' /\ \A u \in Users : th'[u] = th[u]
<1>1. \A u \in Users : u \in Threads /\ u # Admin /\ th'[u] = th[u]
  BY ManagerAssumption DEF Only, Threads
<1>2. \A u \in Threads : Typed(u)'
  BY DEF Only, Typed, ThreadInv
<1>3. \A u \in Users : UserTyped(u)'
  BY <1>1 DEF UserTyped, ThreadInv
<1> QED
  BY <1>1, <1>2, <1>3 DEF ThreadInv, Only

LEMMA AdminEngine ==
    ASSUME EngineInv, ThreadInv, \A u \in Users : th'[u] = th[u],
           \/ engine' = engine
           \/ Released(Admin)
           \/ \E e \in Entries : Locked(Admin, e) /\ engine[e] \notin Users,
           th'[Admin].at \in ReadyPlaces \cup {"persist", "initialize", "invalidate"}
              => engine'[th'[Admin].e] = Admin
    PROVE  EngineInv'
<1>1. Admin \notin Users /\ None \notin Users /\ Admin \in Threads
      /\ \A u \in Users : th[u].at \in EnginePlaces => th[u].e \in Entries
  BY ManagerAssumption DEF Threads, ThreadInv, Typed, EnginePlaces
<1>2. /\ engine' \in [Entries -> Threads \cup {None}]
      /\ \A d \in Entries, u \in Users : engine'[d] = u <=> engine[d] = u
  <2>1. CASE engine' = engine
    BY <2>1 DEF EngineInv
  <2>2. CASE Released(Admin)
    BY <1>1, <2>2 DEF Released, EngineInv
  <2>3. CASE \E e \in Entries : Locked(Admin, e) /\ engine[e] \notin Users
    <3>1. PICK e \in Entries : Locked(Admin, e) /\ engine[e] \notin Users
      BY <2>3
    <3> QED
      BY <1>1, <3>1 DEF Locked, EngineInv
  <2> QED
    BY <2>1, <2>2, <2>3
<1> QED
  BY <1>1, <1>2 DEF EngineInv

-----------------------------------------------------------------------------
(* Admin: frames for the end and for the course of an operation. *)

\* Whom an open runtime belongs to.
LEMMA OpenKnown ==
    ASSUME IInv, NEW v \in Vms, vm[v].open
    PROVE  /\ vm[v].entry \in Entries /\ vm[v].entry \in {current, th[Admin].e}
           /\ Candidate /\ vm[v].entry # current => v \in Runtimes(entry[th[Admin].e])
<1>1. /\ vm[v].entry \in Entries /\ vm[v].entry \in {current, th[Admin].e}
      /\ \/ v \in Runtimes(entry[vm[v].entry])
         \/ \E t \in Users : th[t].at = "push" /\ th[t].vm = v
  BY DEF IInv, OpenInv, At
<1>2. ASSUME Candidate, vm[v].entry = th[Admin].e, NEW t \in Users,
             th[t].at = "push", th[t].vm = v
      PROVE  FALSE
  BY <1>2 DEF IInv, RoleInv, AdminInv, Lent
<1> QED
  BY <1>1, <1>2

LEMMA AdminBusy ==
    ASSUME IInv, \A u \in Users : th'[u] = th[u], closed' = closed,
           th[Admin].at # "unload", current' = current \/ current = 0
    PROVE  BusyInv'
<1>1. \A u \in Users : Busy(u) => th[u].e # 0
  BY ManagerAssumption DEF Busy, EnginePlaces, IInv, ThreadInv, Typed, Threads
<1>2. \A u \in Users : Busy(u)' <=> Busy(u)
  BY DEF Busy
<1> QED
  BY <1>1, <1>2 DEF IInv, BusyInv, At

\* Places where the directories are not under Admin's hands.
LEMMA AdminDisk ==
    ASSUME DiskInv, th[Admin].at \notin {"idle", "swap", "retire", "replace"},
           th'[Admin].at \notin {"swap", "retire", "replace", "data"},
           th'[Admin].at # "idle" => th'[Admin].op = th[Admin].op,
           UNCHANGED <<target, backup, leftover, wanted, gone>>, DataTyped'
    PROVE  DiskInv'
  BY DEF DiskInv, SourceKept, At, Working, DataTyped

\* Where an entry's value is replaced by a lower one, ...
LowerEntries ==
    /\ EntryInv' /\ Calm /\ \A e \in Entries : Shrunk(e)
    /\ \A v \in Vms, e \in Entries :
           vm'[v].open /\ v \in Runtimes(entry[e]) => v \in Runtimes(entry'[e])
    /\ stale' = stale /\ pool' = pool /\ closed' = closed /\ halt' = halt

\* ... Admin may end its operation, ...
LEMMA AdminLeaves ==
    ASSUME IInv, Done(Admin), LowerEntries, engine' = engine \/ Released(Admin),
           \A v \in Vms : vm'[v].open => vm[v].entry = current',
           BusyInv', DiskInv'
    PROVE  IInv'
<1>1. Only(Admin) /\ th'[Admin] = Rest /\ ThreadInv
  BY DoneGives DEF IInv, Threads
<1>2. Typed(Admin)' /\ AdminTyped' /\ th'[Admin].at = "idle"
  BY <1>1, ManagerAssumption
     DEF Typed, AdminTyped, Rest, Places, Pooled, ReadyPlaces
<1>3. ThreadInv' /\ \A u \in Users : th'[u] = th[u]
  BY <1>1, <1>2, AdminThread
<1>4. EngineInv'
  BY <1>1, <1>2, <1>3, AdminEngine DEF IInv, ReadyPlaces
<1>5. RoleInv' /\ SettingsInv' /\ OpenInv' /\ PoolInv' /\ StaleInv' /\ EntryInv'
  BY <1>2, <1>3, BystandersKept DEF LowerEntries
<1>6. AdminInv'
  <2>1. ASSUME NEW t \in Threads, th'[t].at \in {"load", "loading"}
        PROVE  entry'[th'[t].e].primary = 0
    <3>1. t # Admin /\ th'[t] = th[t]
      BY <1>1, <1>2, <2>1 DEF Only
    <3>2. th[t].e \in Entries /\ entry[th[t].e].primary = 0
      BY <1>1, <2>1, <3>1 DEF ThreadInv, Typed, IInv, AdminInv
    <3> QED
      BY <3>1, <3>2 DEF LowerEntries, Shrunk, FewerRoles
  <2> QED
    BY <1>2, <2>1 DEF AdminInv, Working, Candidate, Unloaded, At
<1> QED
  BY <1>3, <1>4, <1>5, <1>6 DEF IInv

\* ... or go on with it.
LEMMA AdminMoves ==
    ASSUME IInv, Only(Admin), LowerEntries, current' = current,
           th[Admin].at \notin {"idle", "unload"}, th'[Admin].at # "idle",
           th'[Admin].e = th[Admin].e, th'[Admin].op = th[Admin].op,
           th'[Admin].old = th[Admin].old, Typed(Admin)', AdminTyped',
           th'[Admin].at \in {"source", "data"} => th[Admin].at \in {"source", "data"},
           \/ engine' = engine
           \/ Released(Admin)
           \/ Locked(Admin, th[Admin].e) /\ engine[th[Admin].e] \notin Users,
           th'[Admin].at \in ReadyPlaces \cup {"persist", "initialize", "invalidate"}
              => engine'[th[Admin].e] = Admin,
           Unloaded' => Unloaded,
           th'[Admin].at = "initialize"
              => th'[Admin].vm = entry'[th[Admin].e].primary,
           th'[Admin].at \in {"load", "loading"} => entry'[th[Admin].e].primary = 0,
           DiskInv'
    PROVE  IInv'
<1>1. ThreadInv' /\ \A u \in Users : th'[u] = th[u]
  BY AdminThread DEF IInv
<1>2. th[Admin].e \in Entries /\ ThreadInv
  BY DEF IInv, ThreadInv, Typed, Threads
<1>3. EngineInv'
  BY <1>1, <1>2, AdminEngine DEF IInv
<1>4. BusyInv'
  BY <1>1, AdminBusy DEF LowerEntries
<1>5. RoleInv' /\ SettingsInv' /\ OpenInv' /\ PoolInv' /\ StaleInv' /\ EntryInv'
  BY <1>1, BystandersKept DEF LowerEntries
<1>6. AdminInv'
  <2>1. ASSUME NEW t \in Threads, th'[t].at \in {"load", "loading"}
        PROVE  entry'[th'[t].e].primary = 0
    <3>1. CASE t = Admin
      BY <2>1, <3>1
    <3>2. CASE t # Admin
      <4>1. th'[t] = th[t]
        BY <3>2 DEF Only
      <4>2. th[t].e \in Entries /\ entry[th[t].e].primary = 0
        BY <1>2, <2>1, <4>1 DEF ThreadInv, Typed, IInv, AdminInv
      <4> QED
        BY <4>1, <4>2 DEF LowerEntries, Shrunk, FewerRoles
    <3> QED
      BY <3>1, <3>2
  <2>2. Unloaded' => Runtimes(entry'[th[Admin].e]) = {}
    <3>1. Unloaded => Runtimes(entry[th[Admin].e]) = {}
      BY DEF IInv, AdminInv
    <3>2. Runtimes(entry'[th[Admin].e]) \subseteq Runtimes(entry[th[Admin].e])
      BY <1>2 DEF LowerEntries, Shrunk, FewerRoles, Runtimes
    <3> QED
      BY <3>1, <3>2
  <2>3. /\ Working({"load", "install", "remove"})' => current = 0
        /\ Working({"upgrade"})' => current # 0 /\ th[Admin].old = current
        /\ Working({"enable", "disable", "configure"})' => th[Admin].e = current
        /\ Candidate' => /\ th[Admin].e # current
                         /\ \A t \in Users : th[t].e # th[Admin].e
    BY DEF IInv, AdminInv, Working, Candidate
  <2> QED
    BY <1>1, <2>1, <2>2, <2>3 DEF AdminInv, At
<1> QED
  BY <1>1, <1>3, <1>4, <1>5, <1>6 DEF IInv

\* The value of Admin's entry is replaced.
LEMMA LowerGives ==
    ASSUME IInv, NEW e \in Entries, NEW z \in Installed,
           entry' = [entry EXCEPT ![e] = z], Lower(z, entry[e]), Calm, VmTyped',
           current' \in Entries \cup {0},
           \A v \in Vms : vm'[v].open /\ v \in Runtimes(entry[e]) => v \in Runtimes(z),
           stale' = stale, pool' = pool, closed' = closed, halt' = halt
    PROVE  /\ LowerEntries /\ entry'[e] = z
           /\ \A d \in Entries : d # e => entry'[d] = entry[d]
<1>1. EntryInv
  BY DEF IInv
<1>2. /\ entry' \in [Entries -> Installed] /\ entry'[e] = z
      /\ \A d \in Entries : d # e => entry'[d] = entry[d]
      /\ \A d \in Entries : Shrunk(d)
  BY <1>1, PutLower
<1>3. EntryInv'
  BY <1>1, <1>2 DEF EntryInv, VmTyped
<1> QED
  BY <1>2, <1>3 DEF LowerEntries

\* Entries stay, and runtimes too.
LEMMA StillLower ==
    ASSUME IInv, entry' = entry, vm' = vm, current' \in Entries \cup {0},
           stale' = stale, pool' = pool, closed' = closed, halt' = halt
    PROVE  LowerEntries
<1>1. EntryInv' /\ EntryInv
  BY DEF IInv, EntryInv
<1>2. Calm /\ \A e \in Entries : Shrunk(e)
  BY <1>1, SameEntries
<1> QED
  BY <1>1, <1>2 DEF LowerEntries

\* What is known of Admin while it works.
LEMMA AdminKnown ==
    ASSUME IInv, th[Admin].at # "idle"
    PROVE  /\ Admin \in Threads /\ th[Admin].e \in Entries /\ Entry(Admin) \in Installed
           /\ DataTyped /\ ThreadInv /\ EntryInv /\ Typed(Admin) /\ AdminTyped
           /\ Entry(Admin) = entry[th[Admin].e] /\ current \in Entries \cup {0}
  BY DEF IInv, ThreadInv, EntryInv, DiskInv, DataTyped, Typed, Threads, Entry

LEMMA AdminGivesUp ==
    ASSUME IInv, th[Admin].at \in ReadyPlaces, NEW x \in Installed, GiveUp(Admin, x),
           UNCHANGED <<current, pool, target, backup, leftover, closed, halt,
                       wanted, gone, stale>>,
           Lower(x, Entry(Admin)), Calm, VmTyped',
           \A v \in Vms : vm'[v].open /\ v \in Runtimes(Entry(Admin))
                             => v \in Runtimes(x),
           Working({"upgrade"}) =>
              \A v \in Vms : vm'[v].open => v \notin Runtimes(Entry(Admin))
    PROVE  IInv'
<1>1. th[Admin].at \notin {"idle", "swap", "retire", "replace", "unload"}
  BY DEF ReadyPlaces
<1>2. /\ Admin \in Threads /\ th[Admin].e \in Entries /\ ThreadInv /\ DataTyped
      /\ Entry(Admin) = entry[th[Admin].e] /\ current \in Entries \cup {0}
      /\ th[Admin].op \in {"enable", "configure", "upgrade"}
  BY <1>1, AdminKnown DEF AdminTyped
<1>3. Only(Admin) /\ th'[Admin] = Rest /\ th'[Admin].at = "idle" /\ Done(Admin)
      /\ Released(Admin)
  BY <1>2, DoneGives DEF GiveUp
<1> DEFINE y == IF Marks(th[Admin].op) THEN Failed(x) ELSE x
<1>4. entry' = [entry EXCEPT ![th[Admin].e] = y]
  BY DEF GiveUp
<1>5. /\ y \in Installed /\ y.primary = x.primary /\ y.idle = x.idle
      /\ y.active = x.active /\ y.settings = x.settings
      /\ y.generation = x.generation
  BY ValuesGive
<1> HIDE DEF y
<1>6. Lower(y, entry[th[Admin].e]) /\ Runtimes(y) = Runtimes(x)
  BY <1>2, <1>5 DEF Lower, Runtimes
<1>7. LowerEntries
  BY <1>2, <1>4, <1>5, <1>6, LowerGives
<1>8. \A u \in Users : th'[u] = th[u]
  BY <1>3, ManagerAssumption DEF Only, Threads
<1>9. BusyInv'
  BY <1>1, <1>8, AdminBusy
<1>10. DiskInv'
  <2>1. DataTyped'
    <3>1. Touched \in [here : BOOLEAN, settings : Settings, enabled : BOOLEAN]
      BY <1>2, TouchedTyped
    <3> QED
      BY <1>2, <3>1 DEF GiveUp, DataTyped
  <2> QED
    BY <1>1, <1>3, <2>1, AdminDisk DEF IInv
<1>11. ASSUME NEW v \in Vms, vm'[v].open PROVE vm[v].entry = current'
  <2>1. vm[v].open
    BY <1>11 DEF Calm
  <2>2. CASE th[Admin].op = "upgrade"
    <3>1. Candidate /\ Working({"upgrade"})
      BY <1>1, <2>2 DEF Candidate, Working
    <3> QED
      BY <1>2, <1>11, <2>1, <3>1, OpenKnown
  <2>3. CASE th[Admin].op \in {"enable", "configure"}
    <3>1. th[Admin].e = current
      BY <1>1, <2>3 DEF IInv, AdminInv, Working
    <3> QED
      BY <2>1, <3>1, OpenKnown
  <2> QED
    BY <1>2, <2>2, <2>3
<1> QED
  BY <1>3, <1>7, <1>9, <1>10, <1>11, AdminLeaves

\* Admin gives up and the runtimes stay as they are; a candidate has none.
LEMMA AdminGivesUpPlainly ==
    ASSUME IInv, th[Admin].at \in {"ready", "load", "loading"},
           GiveUp(Admin, Entry(Admin)) \/ GiveUp(Admin, Failed(Entry(Admin))),
           UNCHANGED <<current, pool, target, backup, leftover, closed, halt,
                       wanted, gone, stale, vm>>
    PROVE  IInv'
<1>1. th[Admin].at # "idle" /\ th[Admin].at \in ReadyPlaces
  BY DEF ReadyPlaces
<1>2. Entry(Admin) \in Installed /\ EntryInv
  BY <1>1, AdminKnown
<1>3. Calm /\ VmTyped'
  BY <1>2 DEF Calm, VmTyped, EntryInv
<1>4. Lower(Entry(Admin), Entry(Admin)) /\ Lower(Failed(Entry(Admin)), Entry(Admin))
      /\ Runtimes(Failed(Entry(Admin))) = Runtimes(Entry(Admin))
      /\ Failed(Entry(Admin)) \in Installed
  BY <1>2, LowerSelf, ValuesGive
<1>5. Working({"upgrade"}) => Runtimes(Entry(Admin)) = {}
  BY DEF IInv, AdminInv, Unloaded, Working, Entry
<1>6. CASE GiveUp(Admin, Entry(Admin))
  BY <1>1, <1>2, <1>3, <1>4, <1>5, <1>6, AdminGivesUp
<1>7. CASE GiveUp(Admin, Failed(Entry(Admin)))
  BY <1>1, <1>2, <1>3, <1>4, <1>5, <1>7, AdminGivesUp
<1> QED
  BY <1>6, <1>7

-----------------------------------------------------------------------------
(* Admin: ready_with_lease. *)

LEMMA AdminReadyMoves ==
    ASSUME IInv, th[Admin].at \in {"ready", "load", "loading"},
           NEW place \in {"load", "loading", "init"}, Go(Admin, place), LowerEntries,
           UNCHANGED <<current, engine, target, backup, leftover, wanted, gone>>,
           place \in {"load", "loading"} => entry'[th[Admin].e].primary = 0,
           DataTyped'
    PROVE  IInv'
<1>1. th[Admin].at \notin {"idle", "unload", "swap", "retire", "replace"}
  OBVIOUS
<1>2. /\ Admin \in Threads /\ th[Admin].e \in Entries /\ ThreadInv /\ Typed(Admin)
      /\ th[Admin].op \in {"enable", "configure", "upgrade"}
  BY <1>1, AdminKnown DEF AdminTyped, ReadyPlaces
<1>3. /\ Only(Admin)
      /\ th'[Admin].at = place /\ th'[Admin].op = th[Admin].op
      /\ th'[Admin].e = th[Admin].e /\ th'[Admin].old = th[Admin].old
      /\ th'[Admin].vm = th[Admin].vm /\ th'[Admin].generation = th[Admin].generation
      /\ th'[Admin].settings = th[Admin].settings
  BY <1>2, GoGives
<1>4. Typed(Admin)' /\ AdminTyped'
  BY <1>1, <1>2, <1>3 DEF Typed, AdminTyped, Places, Pooled, ReadyPlaces
<1>5. engine[th[Admin].e] = Admin
  BY DEF IInv, EngineInv, ReadyPlaces
<1>6. Unloaded' => Unloaded
  BY <1>1, <1>2, <1>3 DEF Unloaded, Working
<1>7. th'[Admin].at \notin {"idle", "swap", "retire", "replace", "data", "source",
                           "initialize"}
  BY <1>3
<1>8. DiskInv'
  BY <1>1, <1>3, <1>7, AdminDisk DEF IInv
<1> QED
  BY <1>1, <1>3, <1>4, <1>5, <1>6, <1>7, <1>8, AdminMoves

LEMMA AdminGates ==
    ASSUME IInv, Gates(Admin)
    PROVE  IInv'
<1>1. /\ th[Admin].at = "ready"
      /\ UNCHANGED <<current, pool, target, backup, leftover, closed, halt, wanted,
                     gone, stale>>
  BY DEF Gates, At, history
<1>2. th[Admin].at \in {"ready", "load", "loading"} /\ th[Admin].at # "idle"
  BY <1>1
<1>3. /\ Admin \in Threads /\ th[Admin].e \in Entries /\ Entry(Admin) \in Installed
      /\ DataTyped /\ ThreadInv /\ EntryInv /\ Entry(Admin) = entry[th[Admin].e]
      /\ current \in Entries \cup {0}
  BY <1>2, AdminKnown
<1>4. CASE (GiveUp(Admin, Failed(Entry(Admin))) \/ GiveUp(Admin, Entry(Admin)))
           /\ vm' = vm
  BY <1>1, <1>2, <1>4, AdminGivesUpPlainly
<1>5. CASE /\ ~closed /\ Entry(Admin).primary # 0 /\ ~Open(Entry(Admin).primary)
           /\ entry' = [entry EXCEPT ![th[Admin].e] =
                  [Invalidated(@) EXCEPT !.primary = 0, !.initialized = FALSE]]
           /\ Shut({Entry(Admin).idle}) /\ Go(Admin, "load")
           /\ engine' = engine /\ data' = data
  <2> DEFINE y == [Invalidated(Entry(Admin)) EXCEPT !.primary = 0,
                                                    !.initialized = FALSE]
  <2>1. Entry(Admin).primary # 0 => ~vm[Entry(Admin).primary].open
    BY <1>5 DEF Open
  <2>2. /\ y \in Installed /\ Lower(y, Entry(Admin)) /\ Calm /\ VmTyped'
        /\ y.primary = 0
        /\ \A v \in Vms : vm'[v].open /\ v \in Runtimes(Entry(Admin))
                             => v \in Runtimes(y)
    BY <1>3, <1>5, <2>1, ForgottenGives
  <2>3. entry' = [entry EXCEPT ![th[Admin].e] = y]
    BY <1>3, <1>5
  <2> HIDE DEF y
  <2>4. LowerEntries /\ entry'[th[Admin].e] = y
    <3>1. /\ Lower(y, entry[th[Admin].e])
          /\ \A v \in Vms : vm'[v].open /\ v \in Runtimes(entry[th[Admin].e])
                               => v \in Runtimes(y)
          /\ current' \in Entries \cup {0}
      BY <1>1, <1>3, <2>2
    <3> QED
      BY ZenonT(40), <1>1, <1>3, <2>2, <2>3, <3>1, LowerGives
  <2>5. DataTyped' /\ "load" \in {"load", "loading", "init"}
    BY <1>3, <1>5 DEF DataTyped
  <2> QED
    BY <1>1, <1>2, <1>5, <2>2, <2>4, <2>5, AdminReadyMoves
<1>6. CASE /\ \/ Go(Admin, "load") /\ Entry(Admin).primary = 0
              \/ Go(Admin, "init")
           /\ entry' = entry /\ vm' = vm /\ engine' = engine /\ data' = data
  <2>1. LowerEntries
    BY <1>1, <1>3, <1>6, StillLower
  <2>2. DataTyped' /\ "load" \in {"load", "loading", "init"}
        /\ "init" \in {"load", "loading", "init"}
    BY <1>3, <1>6 DEF DataTyped
  <2>3. CASE Go(Admin, "load") /\ Entry(Admin).primary = 0
    BY <1>1, <1>2, <1>3, <1>6, <2>1, <2>2, <2>3, AdminReadyMoves
  <2>4. CASE Go(Admin, "init")
    BY <1>1, <1>2, <1>3, <1>6, <2>1, <2>2, <2>4, AdminReadyMoves
  <2> QED
    BY <1>6, <2>3, <2>4
<1> QED
  BY <1>4, <1>5, <1>6 DEF Gates

LEMMA AdminLoad ==
    ASSUME IInv, Load(Admin)
    PROVE  IInv'
<1>1. /\ th[Admin].at = "load"
      /\ UNCHANGED <<current, pool, target, backup, leftover, closed, halt, wanted,
                     gone, stale, vm>>
  BY DEF Load, At, history
<1>2. th[Admin].at \in {"ready", "load", "loading"} /\ th[Admin].at # "idle"
  BY <1>1
<1>3. CASE GiveUp(Admin, Entry(Admin))
  BY <1>1, <1>2, <1>3, AdminGivesUpPlainly
<1>4. CASE /\ Go(Admin, "loading") /\ data' = Touched
           /\ UNCHANGED <<entry, engine>>
  <2>1. /\ DataTyped /\ current \in Entries \cup {0} /\ th[Admin].e \in Entries
        /\ Admin \in Threads
    BY <1>2, AdminKnown
  <2>2. LowerEntries
    BY <1>1, <1>4, <2>1, StillLower
  <2>3. DataTyped' /\ "loading" \in {"load", "loading", "init"}
    BY <1>4, <2>1, TouchedTyped DEF DataTyped
  <2>4. entry'[th[Admin].e].primary = 0
    BY <1>1, <1>4, <2>1 DEF IInv, AdminInv
  <2> QED
    BY <1>1, <1>2, <1>4, <2>2, <2>3, <2>4, AdminReadyMoves
<1> QED
  BY <1>3, <1>4 DEF Load

LEMMA AdminLoaded ==
    ASSUME IInv, Loaded(Admin)
    PROVE  IInv'
<1> DEFINE e == th[Admin].e
           v == Least(FreeVms)
<1>1. /\ th[Admin].at = "loading"
      /\ UNCHANGED <<current, pool, target, backup, leftover, closed, halt, wanted,
                     gone, stale>>
  BY DEF Loaded, At, history
<1>2. th[Admin].at \in {"ready", "load", "loading"} /\ th[Admin].at # "idle"
  BY <1>1
<1>3. CASE GiveUp(Admin, Entry(Admin)) /\ UNCHANGED vm
  BY <1>1, <1>2, <1>3, AdminGivesUpPlainly
<1>4. CASE /\ ~closed /\ FreeVms # {} /\ Go(Admin, "init")
           /\ vm' = [vm EXCEPT ![v] = [NoVm EXCEPT !.entry = e, !.open = TRUE]]
           /\ entry' = [entry EXCEPT ![e].primary = v]
           /\ UNCHANGED <<engine, data>>
  <2>1. /\ Admin \in Threads /\ e \in Entries /\ ThreadInv /\ EntryInv
        /\ DataTyped /\ Typed(Admin) /\ AdminTyped
        /\ th[Admin].op \in {"enable", "configure", "upgrade"}
    BY <1>1, AdminKnown DEF AdminTyped, ReadyPlaces
  <2>2. PICK w \in Vms :
             /\ w \notin UsedVms /\ vm'[w].entry = th[Admin].e /\ Undisturbed
             /\ \A a \in Vms : a # w => vm'[a] = vm[a]
             /\ EntryInv'
             /\ entry'[th[Admin].e].primary = w
             /\ entry'[th[Admin].e].idle = Entry(Admin).idle
             /\ entry'[th[Admin].e].active = Entry(Admin).active
             /\ entry'[th[Admin].e].settings = Entry(Admin).settings
             /\ entry'[th[Admin].e].generation = Entry(Admin).generation
             /\ \A d \in Entries : d # th[Admin].e => entry'[d] = entry[d]
    BY <1>1, <1>4, <2>1, LoadedFrame
  <2>3. /\ EntryInv' /\ RoleInv' /\ SettingsInv' /\ StaleInv' /\ Only(Admin)
        /\ th'[Admin].at = "init" /\ th'[Admin].op = th[Admin].op /\ th'[Admin].e = e
        /\ th'[Admin].old = th[Admin].old
        /\ th'[Admin].vm = th[Admin].vm
        /\ th'[Admin].generation = th[Admin].generation
        /\ th'[Admin].settings = th[Admin].settings
        /\ vm'[w].entry = e /\ w \in Runtimes(entry'[e])
        /\ \A a \in Vms : a # w => vm'[a] = vm[a]
        /\ \A d \in Entries : d # e => entry'[d] = entry[d]
        /\ \A d \in Entries, a \in Vms :
               a \in Runtimes(entry[d]) => a \in Runtimes(entry'[d])
    <3>1. Go(Admin, "init")
      BY <1>4
    <3> QED
      BY <1>1, <2>1, <2>2, <3>1, LoadedGives
  <2>4. Typed(Admin)' /\ AdminTyped'
    BY <1>1, <2>1, <2>3 DEF Typed, AdminTyped, Places, Pooled, ReadyPlaces
  <2>5. ThreadInv' /\ \A u \in Users : th'[u] = th[u]
    BY <2>1, <2>3, <2>4, AdminThread
  <2>6. engine[e] = Admin
    BY <1>1 DEF IInv, EngineInv, ReadyPlaces
  <2>7. EngineInv'
    BY <1>4, <2>1, <2>3, <2>5, <2>6, AdminEngine DEF IInv
  <2>8. BusyInv' /\ PoolInv'
    BY <1>1, <2>5, AdminBusy DEF IInv, PoolInv
  <2>9. DiskInv'
    <3>1. DataTyped'
      BY <1>4, <2>1 DEF DataTyped
    <3> QED
      BY <1>1, <2>3, <3>1, AdminDisk DEF IInv
  <2>10. AdminInv'
    <3>1. ASSUME NEW t \in Threads, th'[t].at \in {"load", "loading"}
          PROVE  entry'[th'[t].e].primary = 0
      <4>1. t # Admin /\ th'[t] = th[t] /\ t \in Users
        BY <2>3, <3>1 DEF Only, Threads
      <4>2. th[t].e \in Entries /\ entry[th[t].e].primary = 0 /\ engine[th[t].e] = t
        <5>1. th[t].at \in {"load", "loading"} /\ th[t].at \in EnginePlaces
          BY <3>1, <4>1 DEF EnginePlaces
        <5>2. th[t].e \in Entries
          BY <2>1, <5>1 DEF ThreadInv, Typed
        <5>3. entry[th[t].e].primary = 0
          BY <5>1 DEF IInv, AdminInv
        <5>4. engine[th[t].e] = t
          BY <4>1, <5>1 DEF IInv, EngineInv
        <5> QED
          BY <5>2, <5>3, <5>4
      <4> QED
        BY <2>3, <2>6, <4>1, <4>2
    <3>2. ~Unloaded'
      BY <2>1, <2>3 DEF Unloaded, Working
    <3>3. /\ Working({"load", "install", "remove"})' => current = 0
          /\ Working({"upgrade"})' => current # 0 /\ th[Admin].old = current
          /\ Working({"enable", "disable", "configure"})' => th[Admin].e = current
          /\ Candidate' => /\ th[Admin].e # current
                           /\ \A t \in Users : th[t].e # th[Admin].e
      BY <1>1, <2>3 DEF IInv, AdminInv, Working, Candidate
    <3> QED
      BY <1>1, <2>3, <2>5, <3>1, <3>2, <3>3 DEF AdminInv, At
  <2>11. OpenInv'
    <3>1. ASSUME NEW a \in Vms, vm'[a].open
          PROVE  /\ vm'[a].entry \in Entries /\ vm'[a].entry \in {current', th'[Admin].e}
                 /\ \/ a \in Runtimes(entry'[vm'[a].entry])
                    \/ \E t \in Users : th'[t].at = "push" /\ th'[t].vm = a
      <4>1. CASE a = w
        BY <2>1, <2>3, <4>1
      <4>2. CASE a # w
        <5>1. /\ vm'[a] = vm[a] /\ vm[a].open
              /\ vm[a].entry \in Entries /\ vm[a].entry \in {current, th[Admin].e}
              /\ \/ a \in Runtimes(entry[vm[a].entry])
                 \/ \E t \in Users : th[t].at = "push" /\ th[t].vm = a
          BY <2>3, <3>1, <4>2 DEF IInv, OpenInv, At
        <5> QED
          BY <1>1, <2>3, <2>5, <5>1
      <4> QED
        BY <4>1, <4>2
    <3>2. halt \in {"no", "manager"} /\ halt' = halt /\ closed' = closed
      BY <1>1, <1>4 DEF IInv, OpenInv
    <3> QED
      BY <2>3, <3>1, <3>2 DEF OpenInv, QuietRemoval, At
  <2> QED
    BY <2>3, <2>5, <2>7, <2>8, <2>9, <2>10, <2>11 DEF IInv
<1> QED
  BY <1>3, <1>4 DEF Loaded

LEMMA AdminInitialize ==
    ASSUME IInv, Initialize(Admin)
    PROVE  IInv'
<1>1. /\ th[Admin].at = "init"
      /\ UNCHANGED <<current, pool, target, backup, leftover, closed, halt, wanted,
                     gone, stale>>
  BY DEF Initialize, At, history
<1>2. /\ Admin \in Threads /\ th[Admin].e \in Entries /\ Entry(Admin) \in Installed
      /\ DataTyped /\ ThreadInv /\ EntryInv /\ Entry(Admin) = entry[th[Admin].e]
      /\ th[Admin].op \in {"enable", "configure", "upgrade"} /\ Typed(Admin)
      /\ Entry(Admin).primary \in Vms \cup {0} /\ current \in Entries \cup {0}
  BY <1>1, AdminKnown DEF AdminTyped, ReadyPlaces, Installed
<1>3. engine[th[Admin].e] = Admin /\ th[Admin].at \in ReadyPlaces
  BY <1>1 DEF IInv, EngineInv, ReadyPlaces
<1>4. ASSUME NEW x \in Installed, entry' = [entry EXCEPT ![th[Admin].e] = x],
             x.primary = Entry(Admin).primary, x.idle = Entry(Admin).idle,
             x.active = Entry(Admin).active, x.settings = Entry(Admin).settings,
             x.generation = Entry(Admin).generation,
             Calm, VmTyped', DataTyped',
             Set(Admin, [at |-> After(th[Admin].op), vm |-> Entry(Admin).primary]),
             engine' = engine
      PROVE  IInv'
  <2> DEFINE c == [at |-> After(th[Admin].op), vm |-> Entry(Admin).primary]
  <2>1. /\ Only(Admin)
        /\ \A f \in Fields : th'[Admin][f] = IF f \in DOMAIN c THEN c[f]
                                              ELSE th[Admin][f]
    BY <1>2, <1>4, SetGives
  <2>2. /\ th'[Admin].at = After(th[Admin].op) /\ th'[Admin].op = th[Admin].op
        /\ th'[Admin].e = th[Admin].e /\ th'[Admin].vm = Entry(Admin).primary
        /\ th'[Admin].old = th[Admin].old
        /\ th'[Admin].generation = th[Admin].generation
        /\ th'[Admin].settings = th[Admin].settings
    BY <2>1 DEF Fields
  <2>3. /\ th[Admin].op = "enable" => After(th[Admin].op) = "persist"
        /\ th[Admin].op = "configure" => After(th[Admin].op) = "initialize"
        /\ th[Admin].op = "upgrade" => After(th[Admin].op) = "backup"
    BY DEF After
  <2>4. Typed(Admin)' /\ AdminTyped'
    BY <1>2, <2>2, <2>3 DEF Typed, AdminTyped, Places, Pooled, ReadyPlaces
  <2>5. Lower(x, entry[th[Admin].e]) /\ Runtimes(x) = Runtimes(entry[th[Admin].e])
    <3>1. x.generation <= x.generation
      BY DEF Installed
    <3> QED
      BY <1>2, <1>4, <3>1 DEF Lower, Runtimes
  <2>6. LowerEntries /\ entry'[th[Admin].e] = x
    BY <1>1, <1>2, <1>4, <2>5, LowerGives
  <2>7. /\ th'[Admin].at \in {"persist", "initialize", "backup"}
        /\ th'[Admin].at \notin {"idle", "source", "data", "load", "loading", "swap",
                                 "retire", "replace"}
        /\ th[Admin].at \notin {"idle", "unload", "swap", "retire", "replace"}
    BY <1>1, <1>2, <2>2, <2>3
  <2>8. DiskInv'
    BY <1>1, <1>4, <2>2, <2>7, AdminDisk DEF IInv
  <2>9. ~Unloaded'
    BY <1>2, <2>2, <2>3 DEF Unloaded, Working
  <2>10. th'[Admin].vm = entry'[th[Admin].e].primary
    BY <1>4, <2>2, <2>6
  <2> QED
    BY <1>1, <1>3, <1>4, <2>1, <2>2, <2>4, <2>6, <2>7, <2>8, <2>9, <2>10, AdminMoves
<1>5. CASE /\ entry' = [entry EXCEPT ![th[Admin].e].error = FALSE]
           /\ Set(Admin, [at |-> After(th[Admin].op), vm |-> Entry(Admin).primary])
           /\ engine' = engine
           /\ UNCHANGED <<vm, data>>
  <2> DEFINE x == [Entry(Admin) EXCEPT !.error = FALSE]
  <2>1. entry' = [entry EXCEPT ![th[Admin].e] = x]
    BY <1>2, <1>5
  <2>2. /\ x \in Installed
        /\ x.primary = Entry(Admin).primary /\ x.idle = Entry(Admin).idle
        /\ x.active = Entry(Admin).active /\ x.settings = Entry(Admin).settings
        /\ x.generation = Entry(Admin).generation
    BY <1>2 DEF Installed
  <2> HIDE DEF x
  <2>3. Calm /\ VmTyped' /\ DataTyped'
    BY <1>2, <1>5 DEF Calm, VmTyped, EntryInv, DataTyped
  <2> QED
    BY <1>4, <1>5, <2>1, <2>2, <2>3
<1>6. CASE /\ entry' = [entry EXCEPT ![th[Admin].e].error = FALSE,
                                     ![th[Admin].e].initialized = TRUE]
           /\ vm' = [vm EXCEPT ![Entry(Admin).primary].settings = data.settings]
           /\ data' = Touched
           /\ Set(Admin, [at |-> After(th[Admin].op), vm |-> Entry(Admin).primary])
           /\ engine' = engine
  <2> DEFINE x == [Entry(Admin) EXCEPT !.error = FALSE, !.initialized = TRUE]
  <2>1. entry' = [entry EXCEPT ![th[Admin].e] = x]
    BY <1>2, <1>6 DEF EntryInv
  <2>2. /\ x \in Installed
        /\ x.primary = Entry(Admin).primary /\ x.idle = Entry(Admin).idle
        /\ x.active = Entry(Admin).active /\ x.settings = Entry(Admin).settings
        /\ x.generation = Entry(Admin).generation
    BY <1>2 DEF Installed
  <2> HIDE DEF x
  <2>3. DataTyped' /\ data.settings \in Settings
    BY <1>2, <1>6, TouchedTyped DEF DataTyped
  <2>4. Calm /\ VmTyped'
    BY <1>2, <1>6, <2>3, GivenCalm
  <2> QED
    BY <1>4, <1>6, <2>1, <2>2, <2>3, <2>4
<1>7. CASE Shut(Runtimes(Entry(Admin))) /\ GiveUp(Admin, TornDown(Entry(Admin)))
  <2> DEFINE x == TornDown(Entry(Admin))
  <2>1. /\ x \in Installed /\ Runtimes(x) = {} /\ x.primary = 0 /\ x.idle = 0
        /\ x.active = {} /\ x.generation = Entry(Admin).generation + 1
    BY <1>2, ValuesGive
  <2> HIDE DEF x
  <2>2. Entry(Admin).generation \in Nat
    BY <1>2 DEF Installed
  <2>3. Lower(x, Entry(Admin))
    BY <2>1, <2>2 DEF Lower
  <2>4. Calm /\ VmTyped'
    BY <1>2, <1>7, ShutCalm, ShutGives DEF VmTyped
  <2>5. \A v \in Vms : vm'[v].open => v \notin Runtimes(Entry(Admin))
    BY <1>2, <1>7 DEF Shut, EntryInv
  <2>6. GiveUp(Admin, x)
    BY <1>7 DEF x
  <2> QED
    BY <1>1, <1>3, <2>1, <2>3, <2>4, <2>5, <2>6, AdminGivesUp
<1>8. ~Leased(Admin) /\ th[Admin].op # "preflight"
  BY <1>2 DEF Leased
<1> QED
  BY <1>5, <1>6, <1>7, <1>8 DEF Initialize

LEMMA AdminReady ==
    ASSUME IInv, Ready(Admin)
    PROVE  IInv'
  BY AdminGates, AdminLoad, AdminLoaded, AdminInitialize DEF Ready

-----------------------------------------------------------------------------
(* Admin: operations begin. *)

LEMMA FreeGives ==
    ASSUME FreeEntries # {}
    PROVE  /\ Least(FreeEntries) \in Entries /\ Least(FreeEntries) # current
           /\ \A t \in Threads : th[t].e # Least(FreeEntries)
<1> DEFINE e == Least(FreeEntries)
<1>1. FreeEntries \subseteq Nat
  BY ManagerAssumption DEF FreeEntries
<1>2. e \in FreeEntries
  BY <1>1, LeastIn
<1> HIDE DEF e
<1>3. e \in Entries /\ e \notin UsedEntries
  BY <1>2 DEF FreeEntries
<1>4. e # current /\ \A t \in Threads : th[t].e # e
  BY <1>3 DEF UsedEntries
<1> QED
  BY <1>3, <1>4 DEF e

\* A new candidate takes a number that nobody uses.
LEMMA CandidateGives ==
    ASSUME IInv, NEW e \in Entries, e # current, \A t \in Threads : th[t].e # e,
           NEW z \in Installed, z.primary = 0, z.idle = 0, z.active = {},
           entry' = [entry EXCEPT ![e] = z],
           UNCHANGED <<current, vm, stale, pool, closed, halt>>
    PROVE  /\ LowerEntries /\ Runtimes(entry'[e]) = {}
<1>1. EntryInv /\ Users \subseteq Threads /\ Admin \in Threads
  BY DEF IInv, Threads
<1>2. /\ entry' \in [Entries -> Installed] /\ entry'[e] = z
      /\ \A d \in Entries : d # e => entry'[d] = entry[d]
      /\ \A d \in Entries : Shrunk(d)
  BY <1>1, PutLower
<1>3. EntryInv'
  BY <1>1, <1>2 DEF EntryInv
<1>4. Calm
  BY DEF Calm
<1>5. ASSUME NEW v \in Vms, NEW d \in Entries, vm'[v].open, v \in Runtimes(entry[d])
      PROVE  v \in Runtimes(entry'[d])
  <2>1. vm[v].entry = d /\ d \in {current, th[Admin].e}
    BY <1>5, OpenKnown DEF IInv, RoleInv
  <2> QED
    BY <1>1, <1>2, <1>5, <2>1
<1>6. Runtimes(z) = {}
  BY DEF Runtimes
<1> QED
  BY <1>2, <1>3, <1>4, <1>5, <1>6 DEF LowerEntries

\* Whom Admin may be told to work on.
Assigned ==
    /\ Working({"load", "install", "remove"}) => current = 0
    /\ Working({"upgrade"}) => current # 0 /\ th[Admin].old = current
    /\ Working({"enable", "disable", "configure"}) => th[Admin].e = current
    /\ Candidate => /\ th[Admin].e # current
                    /\ \A t \in Users : th[t].e # th[Admin].e
    /\ Unloaded => Runtimes(entry[th[Admin].e]) = {}

LEMMA AdminStarts ==
    ASSUME IInv, th[Admin].at = "idle", Only(Admin), LowerEntries,
           Typed(Admin)', AdminTyped',
           th'[Admin].at \in {"validate", "ready", "unload", "engine", "stop"},
           \/ engine' = engine
           \/ Locked(Admin, th'[Admin].e) /\ th'[Admin].e \in Entries
              /\ engine[th'[Admin].e] \notin Users,
           th'[Admin].at = "ready" => engine'[th'[Admin].e] = Admin,
           current' = current \/ th'[Admin].e = current,
           BusyInv', DiskInv', Assigned'
    PROVE  IInv'
<1>1. ThreadInv' /\ ThreadInv /\ \A u \in Users : th'[u] = th[u]
  BY AdminThread DEF IInv
<1>2. EngineInv'
  BY <1>1, AdminEngine DEF IInv, ReadyPlaces
<1>3. ASSUME NEW v \in Vms, vm'[v].open PROVE vm[v].entry \in {current', th'[Admin].e}
  <2>1. vm[v].open
    BY <1>3 DEF LowerEntries, Calm
  <2>2. vm[v].entry \in Entries /\ vm[v].entry \in {current, th[Admin].e}
    BY <2>1, OpenKnown
  <2>3. th[Admin].e = 0 /\ 0 \notin Entries
    BY <1>1, ManagerAssumption DEF ThreadInv, Typed, Threads
  <2> QED
    BY <2>2, <2>3
<1>4. RoleInv' /\ SettingsInv' /\ OpenInv' /\ PoolInv' /\ StaleInv' /\ EntryInv'
  BY <1>1, <1>3, BystandersKept DEF LowerEntries
<1>5. AdminInv'
  <2>1. ASSUME NEW t \in Threads, th'[t].at \in {"load", "loading"}
        PROVE  entry'[th'[t].e].primary = 0
    <3>1. th'[t] = th[t]
      BY <2>1 DEF Only
    <3>2. th[t].e \in Entries /\ entry[th[t].e].primary = 0
      BY <1>1, <2>1, <3>1 DEF ThreadInv, Typed, IInv, AdminInv
    <3> QED
      BY <3>1, <3>2 DEF LowerEntries, Shrunk, FewerRoles
  <2> QED
    BY <2>1 DEF AdminInv, Assigned, At
<1> QED
  BY <1>1, <1>2, <1>4, <1>5 DEF IInv

LEMMA DiskStarts ==
    ASSUME DiskInv, th[Admin].at = "idle", ~gone', DataTyped',
           th'[Admin].at \in {"validate", "ready", "unload", "engine", "stop"},
           UNCHANGED <<target, backup, leftover>>,
           wanted' = 0 \/ (wanted' = wanted /\ th'[Admin].op # "remove")
    PROVE  DiskInv'
  BY DEF DiskInv, SourceKept, At, Working, DataTyped

\* What every beginning has in common; c are the changes of Admin's record.
LEMMA StartsGives ==
    ASSUME IInv, NEW c, Starts(c)
    PROVE  /\ th[Admin].at = "idle" /\ ~closed /\ halt = "no" /\ Only(Admin)
           /\ \A f \in Fields : th'[Admin][f] = IF f \in DOMAIN c THEN c[f]
                                                ELSE th[Admin][f]
           /\ ThreadInv /\ Typed(Admin) /\ DataTyped /\ Admin \in Threads
           /\ \A u \in Users : th'[u] = th[u]
<1>1. ThreadInv /\ Admin \in Threads /\ DataTyped
  BY DEF IInv, Threads, DiskInv, DataTyped
<1>2. /\ Only(Admin)
      /\ \A f \in Fields : th'[Admin][f] = IF f \in DOMAIN c THEN c[f]
                                            ELSE th[Admin][f]
  BY <1>1, SetGives DEF Starts
<1>3. \A u \in Users : th'[u] = th[u]
  BY <1>2, ManagerAssumption DEF Only, Threads
<1> QED
  BY <1>1, <1>2, <1>3 DEF Starts, Alive, At, ThreadInv

\* Typing of a record that Admin starts with.
LEMMA StartTyped ==
    ASSUME IInv, th'[Admin].vm = th[Admin].vm, th'[Admin].settings \in Settings,
           th'[Admin].generation = th[Admin].generation, th'[Admin].e \in Entries,
           \/ /\ th'[Admin].at = "validate"
              /\ th'[Admin].op \in {"load", "install", "upgrade"}
           \/ th'[Admin].at = "ready" /\ th'[Admin].op = "upgrade"
           \/ th'[Admin].at = "unload" /\ th'[Admin].op = "remove"
           \/ th'[Admin].at = "stop" /\ th'[Admin].op = "disable"
           \/ th'[Admin].at = "engine" /\ th'[Admin].op \in {"enable", "configure"}
    PROVE  /\ Typed(Admin)' /\ AdminTyped'
           /\ th'[Admin].at \in {"validate", "ready", "unload", "engine", "stop"}
<1>1. Typed(Admin)
  BY DEF IInv, ThreadInv, Threads
<1> QED
  BY <1>1 DEF Typed, AdminTyped, Places, Pooled, ReadyPlaces

LEMMA LoadAllStep ==
    ASSUME IInv, LoadAll
    PROVE  IInv'
<1> DEFINE e == Least(FreeEntries)
           c == [at |-> "validate", op |-> "load", e |-> e]
           z == [NoEntry EXCEPT !.version = target, !.enabled = data.enabled]
<1>1. /\ current = 0 /\ target # 0 /\ FreeEntries # {} /\ Starts(c)
      /\ entry' = [entry EXCEPT ![e] = z] /\ data' = Touched
      /\ UNCHANGED <<current, engine, pool, vm, target, backup, leftover, closed,
                     halt, wanted, gone, stale>>
  BY DEF LoadAll, history
<1>2. e \in Entries /\ e # current /\ \A t \in Threads : th[t].e # e
  BY <1>1, FreeGives
<1>3. /\ z \in Installed /\ z.primary = 0 /\ z.idle = 0 /\ z.active = {}
  BY ManagerAssumption DEF NoEntry, Installed, IInv, DiskInv
<1> HIDE DEF z, e
<1>4. LowerEntries /\ Runtimes(entry'[e]) = {}
  BY <1>1, <1>2, <1>3, CandidateGives
<1>5. /\ th[Admin].at = "idle" /\ Only(Admin) /\ DataTyped
      /\ \A f \in Fields : th'[Admin][f] = IF f \in DOMAIN c THEN c[f]
                                           ELSE th[Admin][f]
      /\ \A u \in Users : th'[u] = th[u]
  <2>1. Starts(c)
    BY <1>1
  <2> HIDE DEF c
  <2> QED
    BY <2>1, StartsGives
<1>6. /\ th'[Admin].at = "validate" /\ th'[Admin].op = "load" /\ th'[Admin].e = e
      /\ th'[Admin].vm = th[Admin].vm /\ th'[Admin].generation = th[Admin].generation
      /\ th'[Admin].settings = th[Admin].settings
  BY <1>5 DEF Fields
<1>7. th[Admin].settings \in Settings
  BY DEF IInv, ThreadInv, Threads, Typed
<1>8. /\ Typed(Admin)' /\ AdminTyped'
      /\ th'[Admin].at \in {"validate", "ready", "unload", "engine", "stop"}
  BY <1>2, <1>6, <1>7, StartTyped
<1>9. DiskInv'
  <2>1. ~gone' /\ DataTyped'
    BY <1>1, <1>5, TouchedTyped DEF IInv, DiskInv, DataTyped
  <2> QED
    BY <1>1, <1>5, <1>6, <1>8, <2>1, DiskStarts DEF IInv
<1>10. BusyInv'
  BY <1>1, <1>5, AdminBusy
<1>11. Assigned'
  BY <1>1, <1>2, <1>4, <1>5, <1>6 DEF Assigned, Working, Candidate, Unloaded, Threads
<1> QED
  BY <1>1, <1>4, <1>5, <1>6, <1>8, <1>9, <1>10, <1>11, AdminStarts

LEMMA InstallStep ==
    ASSUME IInv, NEW version \in Versions, Install(version)
    PROVE  IInv'
<1> DEFINE e == Least(FreeEntries)
           c == [at |-> "validate", op |-> "install", e |-> e]
           z == [NoEntry EXCEPT !.version = version, !.enabled = TRUE]
<1>1. /\ current = 0 /\ FreeEntries # {} /\ Starts(c)
      /\ entry' = [entry EXCEPT ![e] = z] /\ gone' = FALSE
      /\ UNCHANGED <<current, engine, pool, vm, target, backup, leftover, data, closed,
                     halt, wanted, stale>>
  BY DEF Install, disk
<1>2. e \in Entries /\ e # current /\ \A t \in Threads : th[t].e # e
  BY <1>1, FreeGives
<1>3. /\ z \in Installed /\ z.primary = 0 /\ z.idle = 0 /\ z.active = {}
  BY ManagerAssumption DEF NoEntry, Installed, IInv, DiskInv
<1> HIDE DEF z, e
<1>4. LowerEntries /\ Runtimes(entry'[e]) = {}
  BY <1>1, <1>2, <1>3, CandidateGives
<1>5. /\ th[Admin].at = "idle" /\ Only(Admin) /\ DataTyped
      /\ \A f \in Fields : th'[Admin][f] = IF f \in DOMAIN c THEN c[f]
                                           ELSE th[Admin][f]
      /\ \A u \in Users : th'[u] = th[u]
  <2>1. Starts(c)
    BY <1>1
  <2> HIDE DEF c
  <2> QED
    BY <2>1, StartsGives
<1>6. /\ th'[Admin].at = "validate" /\ th'[Admin].op = "install" /\ th'[Admin].e = e
      /\ th'[Admin].vm = th[Admin].vm /\ th'[Admin].generation = th[Admin].generation
      /\ th'[Admin].settings = th[Admin].settings
  BY <1>5 DEF Fields
<1>7. th[Admin].settings \in Settings
  BY DEF IInv, ThreadInv, Threads, Typed
<1>8. /\ Typed(Admin)' /\ AdminTyped'
      /\ th'[Admin].at \in {"validate", "ready", "unload", "engine", "stop"}
  BY <1>2, <1>6, <1>7, StartTyped
<1>9. DiskInv'
  <2>1. ~gone' /\ DataTyped'
    BY <1>1, <1>5 DEF DataTyped
  <2> QED
    BY <1>1, <1>5, <1>6, <1>8, <2>1, DiskStarts DEF IInv
<1>10. BusyInv'
  BY <1>1, <1>5, AdminBusy
<1>11. Assigned'
  BY <1>1, <1>2, <1>4, <1>5, <1>6 DEF Assigned, Working, Candidate, Unloaded, Threads
<1> QED
  BY <1>1, <1>4, <1>5, <1>6, <1>8, <1>9, <1>10, <1>11, AdminStarts

LEMMA UpgradeStep ==
    ASSUME IInv, NEW version \in Versions, Upgrade(version)
    PROVE  IInv'
<1> DEFINE e == Least(FreeEntries)
           on == entry[current].enabled
           place == IF on THEN "ready" ELSE "validate"
           c == [at |-> place, op |-> "upgrade", e |-> e, old |-> current]
           z == [NoEntry EXCEPT !.version = version, !.enabled = on]
<1>1. /\ current # 0 /\ FreeEntries # {} /\ Starts(c)
      /\ entry' = [entry EXCEPT ![e] = z]
      /\ IF on THEN Locked(Admin, e) ELSE UNCHANGED engine
      /\ UNCHANGED <<current, pool, vm, target, backup, leftover, data, closed,
                     halt, wanted, gone, stale>>
  BY DEF Upgrade, disk, history
<1>2. e \in Entries /\ e # current /\ \A t \in Threads : th[t].e # e
  BY <1>1, FreeGives
<1>3. /\ z \in Installed /\ z.primary = 0 /\ z.idle = 0 /\ z.active = {}
  <2>1. on \in BOOLEAN
    BY <1>1 DEF IInv, EntryInv, Installed
  <2> QED
    BY <2>1, ManagerAssumption DEF NoEntry, Installed
<1>12. (place = "ready" /\ on) \/ (place = "validate" /\ ~on)
  BY DEF place
<1> HIDE DEF z, e, on, place
<1>4. LowerEntries /\ Runtimes(entry'[e]) = {}
  BY <1>1, <1>2, <1>3, CandidateGives
<1>5. /\ th[Admin].at = "idle" /\ Only(Admin) /\ DataTyped
      /\ \A f \in Fields : th'[Admin][f] = IF f \in DOMAIN c THEN c[f]
                                           ELSE th[Admin][f]
      /\ \A u \in Users : th'[u] = th[u]
  <2>1. Starts(c)
    BY <1>1
  <2> HIDE DEF c
  <2> QED
    BY <2>1, StartsGives
<1>6. /\ th'[Admin].at = place /\ th'[Admin].op = "upgrade" /\ th'[Admin].e = e
      /\ th'[Admin].old = current
      /\ th'[Admin].vm = th[Admin].vm /\ th'[Admin].generation = th[Admin].generation
      /\ th'[Admin].settings = th[Admin].settings
  BY <1>5 DEF Fields
<1>7. th[Admin].settings \in Settings
  BY DEF IInv, ThreadInv, Threads, Typed
<1>8. /\ Typed(Admin)' /\ AdminTyped'
      /\ th'[Admin].at \in {"validate", "ready", "unload", "engine", "stop"}
  BY <1>2, <1>6, <1>7, <1>12, StartTyped
<1>9. DiskInv'
  <2>1. ~gone' /\ DataTyped'
    BY <1>1, <1>5 DEF IInv, DiskInv, DataTyped
  <2> QED
    BY <1>1, <1>5, <1>6, <1>8, <2>1, DiskStarts DEF IInv
<1>10. BusyInv'
  BY <1>1, <1>5, AdminBusy
<1>11. Assigned'
  BY <1>1, <1>2, <1>4, <1>5, <1>6 DEF Assigned, Working, Candidate, Unloaded, Threads
<1>13. engine[e] \notin Users /\ engine \in [Entries -> Threads \cup {None}]
  BY <1>2 DEF IInv, EngineInv, Threads
<1>14. /\ \/ engine' = engine
          \/ Locked(Admin, th'[Admin].e) /\ th'[Admin].e \in Entries
             /\ engine[th'[Admin].e] \notin Users
       /\ th'[Admin].at = "ready" => engine'[th'[Admin].e] = Admin
  BY <1>1, <1>2, <1>6, <1>12, <1>13 DEF Locked
<1> QED
  BY <1>1, <1>4, <1>5, <1>6, <1>8, <1>9, <1>10, <1>11, <1>14, AdminStarts

-----------------------------------------------------------------------------
(* Admin: removal, the status and the settings. *)

\* Only flags of an entry change.
LEMMA FlagsLower ==
    ASSUME NEW x \in Installed, NEW z \in Installed,
           z.primary = x.primary, z.idle = x.idle, z.active = x.active,
           z.settings = x.settings, z.generation = x.generation
    PROVE  Lower(z, x) /\ Runtimes(z) = Runtimes(x)
<1>1. x.generation <= x.generation
  BY DEF Installed
<1> QED
  BY <1>1 DEF Lower, Runtimes

LEMMA FlagsGive ==
    ASSUME IInv, NEW e \in Entries, NEW z \in Installed,
           entry' = [entry EXCEPT ![e] = z], z.primary = entry[e].primary,
           z.idle = entry[e].idle, z.active = entry[e].active,
           z.settings = entry[e].settings, z.generation = entry[e].generation,
           vm' = vm, current' \in Entries \cup {0},
           stale' = stale, pool' = pool, closed' = closed, halt' = halt
    PROVE  LowerEntries
<1>1. EntryInv /\ entry[e] \in Installed
  BY DEF IInv, EntryInv
<1>2. Lower(z, entry[e]) /\ Runtimes(z) = Runtimes(entry[e])
  BY <1>1, FlagsLower
<1>3. Calm /\ VmTyped'
  BY <1>1 DEF Calm, VmTyped, EntryInv
<1> QED
  BY <1>2, <1>3, LowerGives

LEMMA RemoveStep ==
    ASSUME IInv, Remove
    PROVE  IInv'
<1> DEFINE c == [at |-> "unload", op |-> "remove", e |-> current]
           x == entry[current]
           z == [x EXCEPT !.enabled = FALSE]
<1>1. /\ current # 0 /\ Starts(c) /\ current' = 0 /\ wanted' = 0
      /\ entry' = [entry EXCEPT ![current].enabled = FALSE]
      /\ UNCHANGED <<engine, pool, vm, target, backup, leftover, data, closed, halt,
                     gone, stale>>
  BY DEF Remove, disk
<1>2. current \in Entries /\ x \in Installed /\ EntryInv
  BY <1>1 DEF IInv, EntryInv
<1>3. /\ z \in Installed /\ z.primary = x.primary /\ z.idle = x.idle
      /\ z.active = x.active /\ z.settings = x.settings
      /\ z.generation = x.generation
  BY <1>2 DEF Installed
<1>4. entry' = [entry EXCEPT ![current] = z]
  BY <1>1, <1>2 DEF EntryInv
<1> HIDE DEF z
<1>5. LowerEntries
  <2>1. current' \in Entries \cup {0}
    BY <1>1
  <2> QED
    BY <1>1, <1>2, <1>3, <1>4, <2>1, FlagsGive
<1>6. /\ th[Admin].at = "idle" /\ Only(Admin) /\ DataTyped
      /\ \A f \in Fields : th'[Admin][f] = IF f \in DOMAIN c THEN c[f]
                                           ELSE th[Admin][f]
      /\ \A u \in Users : th'[u] = th[u]
  <2>1. Starts(c)
    BY <1>1
  <2> HIDE DEF c
  <2> QED
    BY <2>1, StartsGives
<1>7. /\ th'[Admin].at = "unload" /\ th'[Admin].op = "remove"
      /\ th'[Admin].e = current
      /\ th'[Admin].vm = th[Admin].vm /\ th'[Admin].generation = th[Admin].generation
      /\ th'[Admin].settings = th[Admin].settings
  BY <1>6 DEF Fields
<1>8. /\ Typed(Admin)' /\ AdminTyped'
      /\ th'[Admin].at \in {"validate", "ready", "unload", "engine", "stop"}
  <2>1. th[Admin].settings \in Settings
    BY DEF IInv, ThreadInv, Threads, Typed
  <2> QED
    BY <1>2, <1>7, <2>1, StartTyped
<1>9. DiskInv'
  <2>1. ~gone' /\ DataTyped'
    BY <1>1, <1>6 DEF IInv, DiskInv, DataTyped
  <2> QED
    BY <1>1, <1>6, <1>7, <1>8, <2>1, DiskStarts DEF IInv
<1>10. BusyInv'
  <2>1. \A u \in Users : Busy(u)' <=> Busy(u)
    BY <1>6 DEF Busy
  <2> QED
    BY <1>1, <1>6, <1>7, <2>1 DEF IInv, BusyInv, At
<1>11. Assigned'
  BY <1>1, <1>7 DEF Assigned, Working, Candidate, Unloaded
<1> QED
  BY <1>1, <1>5, <1>6, <1>7, <1>8, <1>9, <1>10, <1>11, AdminStarts

LEMMA SetEnabledStep ==
    ASSUME IInv, NEW on \in BOOLEAN, SetEnabled(on)
    PROVE  IInv'
<1> DEFINE place == IF on THEN "engine" ELSE "stop"
           op == IF on THEN "enable" ELSE "disable"
           c == [at |-> place, e |-> current, op |-> op]
           x == entry[current]
           z == [x EXCEPT !.enabled = on, !.error = @ /\ on]
<1>1. /\ current # 0 /\ Starts(c)
      /\ entry' = [entry EXCEPT ![current].enabled = on, ![current].error = @ /\ on]
      /\ UNCHANGED <<current, engine, pool, vm, target, backup, leftover, data, closed,
                     halt, wanted, gone, stale>>
  BY DEF SetEnabled, disk, history
<1>2. current \in Entries /\ x \in Installed /\ EntryInv
  BY <1>1 DEF IInv, EntryInv
<1>3. /\ z \in Installed /\ z.primary = x.primary /\ z.idle = x.idle
      /\ z.active = x.active /\ z.settings = x.settings
      /\ z.generation = x.generation
  <2>1. (x.error /\ on) \in BOOLEAN
    OBVIOUS
  <2> QED
    BY <1>2, <2>1 DEF Installed
<1>4. entry' = [entry EXCEPT ![current] = z]
  BY <1>1, <1>2 DEF EntryInv
<1>12. \/ place = "engine" /\ op = "enable"
       \/ place = "stop" /\ op = "disable"
  BY DEF place, op
<1> HIDE DEF z, place, op
<1>5. LowerEntries
  BY <1>1, <1>2, <1>3, <1>4, FlagsGive
<1>6. /\ th[Admin].at = "idle" /\ Only(Admin) /\ DataTyped
      /\ \A f \in Fields : th'[Admin][f] = IF f \in DOMAIN c THEN c[f]
                                           ELSE th[Admin][f]
      /\ \A u \in Users : th'[u] = th[u]
  <2>1. Starts(c)
    BY <1>1
  <2> HIDE DEF c
  <2> QED
    BY <2>1, StartsGives
<1>7. /\ th'[Admin].at = place /\ th'[Admin].op = op
      /\ th'[Admin].e = current
      /\ th'[Admin].vm = th[Admin].vm /\ th'[Admin].generation = th[Admin].generation
      /\ th'[Admin].settings = th[Admin].settings
  BY <1>6 DEF Fields
<1>8. /\ Typed(Admin)' /\ AdminTyped'
      /\ th'[Admin].at \in {"validate", "ready", "unload", "engine", "stop"}
  <2>1. th[Admin].settings \in Settings
    BY DEF IInv, ThreadInv, Threads, Typed
  <2> QED
    BY <1>2, <1>7, <1>12, <2>1, StartTyped
<1>9. DiskInv'
  <2>1. ~gone' /\ DataTyped'
    BY <1>1, <1>6 DEF IInv, DiskInv, DataTyped
  <2>2. th'[Admin].op # "remove"
    BY <1>7, <1>12
  <2> QED
    BY <1>1, <1>6, <1>7, <1>8, <2>1, <2>2, DiskStarts DEF IInv
<1>10. BusyInv'
  BY <1>1, <1>6, AdminBusy
<1>11. Assigned' /\ th'[Admin].at # "ready"
  BY <1>1, <1>7, <1>12 DEF Assigned, Working, Candidate, Unloaded
<1> QED
  BY <1>1, <1>5, <1>6, <1>7, <1>8, <1>9, <1>10, <1>11, AdminStarts

LEMMA ConfigureStep ==
    ASSUME IInv, NEW value \in Settings, NEW flag \in BOOLEAN, Configure(value, flag)
    PROVE  IInv'
<1> DEFINE c == [at |-> "engine", op |-> "configure", e |-> current,
                 settings |-> value]
<1>1. /\ current # 0 /\ Starts(c)
      /\ data' = [here |-> TRUE, settings |-> value, enabled |-> flag]
      /\ UNCHANGED <<current, entry, engine, pool, vm, target, backup, leftover, closed,
                     halt, wanted, gone, stale>>
  BY DEF Configure, history
<1>2. current \in Entries
  BY <1>1 DEF IInv, EntryInv
<1>5. LowerEntries
  BY <1>1, <1>2, StillLower
<1>6. /\ th[Admin].at = "idle" /\ Only(Admin)
      /\ \A f \in Fields : th'[Admin][f] = IF f \in DOMAIN c THEN c[f]
                                           ELSE th[Admin][f]
      /\ \A u \in Users : th'[u] = th[u]
  <2>1. Starts(c)
    BY <1>1
  <2> HIDE DEF c
  <2> QED
    BY <2>1, StartsGives
<1>7. /\ th'[Admin].at = "engine" /\ th'[Admin].op = "configure"
      /\ th'[Admin].e = current /\ th'[Admin].settings = value
      /\ th'[Admin].vm = th[Admin].vm /\ th'[Admin].generation = th[Admin].generation
  BY <1>6 DEF Fields
<1>8. /\ Typed(Admin)' /\ AdminTyped'
      /\ th'[Admin].at \in {"validate", "ready", "unload", "engine", "stop"}
  BY <1>2, <1>7, StartTyped
<1>9. DiskInv'
  <2>1. ~gone' /\ DataTyped'
    BY <1>1 DEF IInv, DiskInv, DataTyped
  <2> QED
    BY <1>1, <1>6, <1>7, <1>8, <2>1, DiskStarts DEF IInv
<1>10. BusyInv'
  BY <1>1, <1>6, AdminBusy
<1>11. Assigned' /\ th'[Admin].at # "ready"
  BY <1>1, <1>7 DEF Assigned, Working, Candidate, Unloaded
<1> QED
  BY <1>1, <1>5, <1>6, <1>7, <1>8, <1>9, <1>10, <1>11, AdminStarts

LEMMA AdminBeginsStep ==
    ASSUME IInv, AdminBegins
    PROVE  IInv'
  BY LoadAllStep, RemoveStep, InstallStep, UpgradeStep, SetEnabledStep, ConfigureStep
     DEF AdminBegins, Offered

-----------------------------------------------------------------------------
(* Admin: a candidate is validated and installed. *)

\* No open runtime belongs to a candidate that has none.
LEMMA UnloadedQuiet ==
    ASSUME IInv, Unloaded, NEW v \in Vms, vm[v].open
    PROVE  vm[v].entry = current
<1>1. Candidate /\ Runtimes(entry[th[Admin].e]) = {}
  BY DEF IInv, AdminInv, Candidate, Unloaded, Working
<1> QED
  BY <1>1, OpenKnown

\* Admin goes on to another place and keeps the engine as it is.
LEMMA AdminGoes ==
    ASSUME IInv, NEW place \in {"insert", "activate", "enabled", "backup", "retire",
                                "replace", "data"},
           Go(Admin, place), LowerEntries,
           current' = current, engine' = engine, DiskInv',
           \/ th[Admin].at = "validate" /\ th[Admin].op = "load" /\ place = "insert"
           \/ /\ th[Admin].at = "validate" /\ th[Admin].op = "install"
              /\ place = "activate"
           \/ th[Admin].at = "validate" /\ th[Admin].op = "upgrade" /\ place = "backup"
           \/ th[Admin].at = "activate" /\ place = "enabled"
           \/ th[Admin].at = "swap" /\ place = "retire"
           \/ th[Admin].at = "retire" /\ place = "replace"
           \/ th[Admin].at = "source" /\ place = "data"
    PROVE  IInv'
<1>1. th[Admin].at \notin {"idle", "unload"} /\ place # "idle"
  OBVIOUS
<1>2. /\ Admin \in Threads /\ th[Admin].e \in Entries /\ ThreadInv /\ Typed(Admin)
      /\ AdminTyped
  BY <1>1, AdminKnown
<1>3. /\ Only(Admin)
      /\ th'[Admin].at = place /\ th'[Admin].op = th[Admin].op
      /\ th'[Admin].e = th[Admin].e /\ th'[Admin].old = th[Admin].old
      /\ th'[Admin].vm = th[Admin].vm /\ th'[Admin].generation = th[Admin].generation
      /\ th'[Admin].settings = th[Admin].settings
  BY <1>2, GoGives
<1>4. Typed(Admin)' /\ AdminTyped'
  BY <1>2, <1>3 DEF Typed, AdminTyped, Places, Pooled, ReadyPlaces
<1>5. Unloaded' => Unloaded
  BY <1>1, <1>2, <1>3 DEF Unloaded, Working, AdminTyped
<1>6. /\ th'[Admin].at \notin {"idle", "source", "initialize", "load", "loading"}
      /\ th'[Admin].at \notin ReadyPlaces \cup {"persist", "initialize", "invalidate"}
      /\ th'[Admin].at \in {"source", "data"} => th[Admin].at \in {"source", "data"}
  BY <1>3 DEF ReadyPlaces
<1> QED
  BY <1>1, <1>3, <1>4, <1>5, <1>6, AdminMoves

LEMMA ValidateStep ==
    ASSUME IInv, Validate
    PROVE  IInv'
<1>1. /\ th[Admin].at = "validate"
      /\ data' = IF closed THEN data ELSE Touched
      /\ UNCHANGED <<current, engine, pool, vm, target, backup, leftover, closed,
                     halt, wanted, gone, stale>>
  BY DEF Validate, At, history
<1>2. PICK good \in BOOLEAN :
        /\ entry' = [entry EXCEPT ![th[Admin].e] = IF good THEN @ ELSE Failed(@)]
        /\ IF th[Admin].op = "upgrade"
           THEN IF good THEN Go(Admin, "backup") ELSE Done(Admin)
           ELSE Go(Admin, IF th[Admin].op = "load" THEN "insert" ELSE "activate")
  BY DEF Validate
<1>3. /\ Admin \in Threads /\ th[Admin].e \in Entries /\ ThreadInv /\ DataTyped
      /\ EntryInv /\ entry[th[Admin].e] \in Installed
      /\ current \in Entries \cup {0} /\ th[Admin].op \in {"load", "install", "upgrade"}
  BY <1>1, AdminKnown DEF AdminTyped, Entry
<1> DEFINE x == entry[th[Admin].e]
           z == IF good THEN x ELSE Failed(x)
<1>4. /\ z \in Installed /\ z.primary = x.primary /\ z.idle = x.idle
      /\ z.active = x.active /\ z.settings = x.settings
      /\ z.generation = x.generation
  BY <1>3, ValuesGive
<1>5. entry' = [entry EXCEPT ![th[Admin].e] = z]
  BY <1>2, <1>3 DEF EntryInv
<1> HIDE DEF z
<1>6. LowerEntries
  BY <1>1, <1>3, <1>4, <1>5, FlagsGive
<1>7. DataTyped'
  BY <1>1, <1>3, TouchedTyped DEF DataTyped
<1>8. ASSUME NEW place \in {"insert", "activate", "backup"}, Go(Admin, place),
             \/ th[Admin].op = "load" /\ place = "insert"
             \/ th[Admin].op = "install" /\ place = "activate"
             \/ th[Admin].op = "upgrade" /\ place = "backup"
      PROVE  IInv'
  <2>1. th'[Admin].at = place /\ th'[Admin].op = th[Admin].op
    BY <1>3, <1>8, GoGives
  <2>2. DiskInv'
    BY <1>1, <1>7, <2>1, AdminDisk DEF IInv
  <2> QED
    BY <1>1, <1>6, <1>8, <2>2, AdminGoes
<1>9. CASE Done(Admin) /\ th[Admin].op = "upgrade"
  <2>1. Only(Admin) /\ th'[Admin].at = "idle"
    BY <1>3, <1>9, DoneGives
  <2>2. DiskInv'
    BY <1>1, <1>7, <2>1, AdminDisk DEF IInv
  <2>3. \A u \in Users : th'[u] = th[u]
    BY <2>1, ManagerAssumption DEF Only, Threads
  <2>4. BusyInv'
    BY <1>1, <2>3, AdminBusy
  <2>5. Unloaded
    BY <1>1, <1>9 DEF Unloaded, Working
  <2>6. \A v \in Vms : vm'[v].open => vm[v].entry = current'
    BY <1>1, <2>5, UnloadedQuiet
  <2> QED
    BY <1>1, <1>6, <1>9, <2>2, <2>4, <2>6, AdminLeaves
<1> QED
  BY <1>2, <1>3, <1>8, <1>9

\* A registered candidate had no runtime.
LEMMA InsertStep ==
    ASSUME IInv, Insert
    PROVE  IInv'
<1>1. /\ th[Admin].at = "insert" /\ Done(Admin)
      /\ current' = IF Alive THEN th[Admin].e ELSE current
      /\ UNCHANGED <<entry, engine, pool, vm, target, backup, leftover, data, closed,
                     halt, wanted, gone, stale>>
  BY DEF Insert, At, disk, history
<1>2. /\ Admin \in Threads /\ th[Admin].e \in Entries /\ ThreadInv /\ DataTyped
      /\ current \in Entries \cup {0} /\ th[Admin].op = "load"
  BY <1>1, AdminKnown DEF AdminTyped
<1>3. LowerEntries
  <2>1. current' \in Entries \cup {0}
    BY <1>1, <1>2
  <2> QED
    BY <1>1, <2>1, StillLower
<1>4. Only(Admin) /\ th'[Admin].at = "idle"
  BY <1>1, <1>2, DoneGives
<1>5. DiskInv'
  <2>1. DataTyped'
    BY <1>1, <1>2 DEF DataTyped
  <2> QED
    BY <1>1, <1>4, <2>1, AdminDisk DEF IInv
<1>6. current = 0 /\ Unloaded
  BY <1>1, <1>2 DEF IInv, AdminInv, Working, Unloaded
<1>7. \A u \in Users : th'[u] = th[u]
  BY <1>4, ManagerAssumption DEF Only, Threads
<1>8. BusyInv'
  BY <1>1, <1>6, <1>7, AdminBusy
<1>9. \A v \in Vms : vm'[v].open => vm[v].entry = current'
  <2>1. SUFFICES ASSUME NEW v \in Vms, vm[v].open PROVE FALSE
    BY <1>1
  <2>2. vm[v].entry = 0 /\ vm[v].entry \in Entries
    BY <1>6, <2>1, UnloadedQuiet, OpenKnown
  <2> QED
    BY <2>2, ManagerAssumption
<1> QED
  BY <1>1, <1>3, <1>5, <1>8, <1>9, AdminLeaves

-----------------------------------------------------------------------------
(* Admin: the directories of an installation and of an upgrade. *)

\* Users stay when Admin is done, or goes on.
LEMMA UsersStay ==
    ASSUME Only(Admin)
    PROVE  \A u \in Users : th'[u] = th[u]
  BY ManagerAssumption DEF Only, Threads

LEMMA ActivateStep ==
    ASSUME IInv, Activate
    PROVE  IInv'
<1>1. /\ th[Admin].at = "activate"
      /\ UNCHANGED <<current, entry, engine, pool, vm, backup, leftover, data, closed,
                     halt, gone, stale>>
  BY DEF Activate, At
<1>2. /\ Admin \in Threads /\ th[Admin].e \in Entries /\ ThreadInv /\ DataTyped
      /\ current \in Entries \cup {0} /\ th[Admin].op = "install"
      /\ Entry(Admin) \in Installed
  BY <1>1, AdminKnown DEF AdminTyped
<1>3. LowerEntries
  BY <1>1, <1>2, StillLower
<1>4. CASE /\ target' = Entry(Admin).version /\ wanted' = Entry(Admin).version
           /\ Go(Admin, "enabled")
  <2>1. th'[Admin].at = "enabled" /\ th'[Admin].op = "install"
    BY <1>2, <1>4, GoGives
  <2>2. target' \in Versions \cup {0} /\ wanted' = target'
    BY <1>2, <1>4 DEF Installed
  <2>3. DiskInv'
    BY <1>1, <2>1, <2>2 DEF IInv, DiskInv, SourceKept, At, Working
  <2>4. "enabled" \in {"insert", "activate", "enabled", "backup", "retire",
                       "replace", "data"}
    OBVIOUS
  <2> QED
    BY <1>1, <1>3, <1>4, <2>3, <2>4, AdminGoes
<1>5. CASE Done(Admin) /\ UNCHANGED <<target, wanted>>
  <2>1. Only(Admin) /\ th'[Admin].at = "idle"
    BY <1>2, <1>5, DoneGives
  <2>2. DataTyped'
    BY <1>1, <1>2 DEF DataTyped
  <2>3. DiskInv'
    BY <1>1, <1>5, <2>1, <2>2, AdminDisk DEF IInv
  <2>4. BusyInv'
    BY <1>1, <2>1, UsersStay, AdminBusy
  <2>5. Unloaded
    BY <1>1, <1>2 DEF Unloaded, Working
  <2>6. \A v \in Vms : vm'[v].open => vm[v].entry = current'
    BY <1>1, <2>5, UnloadedQuiet
  <2> QED
    BY <1>1, <1>3, <1>5, <2>3, <2>4, <2>6, AdminLeaves
<1> QED
  BY <1>4, <1>5 DEF Activate

LEMMA PublishStep ==
    ASSUME IInv, Publish
    PROVE  IInv'
<1>1. /\ th[Admin].at = "enabled" /\ Done(Admin) /\ current' = th[Admin].e
      /\ UNCHANGED <<engine, pool, vm, target, backup, leftover, closed,
                     halt, wanted, gone, stale>>
  BY DEF Publish, At, history
<1>2. /\ Admin \in Threads /\ th[Admin].e \in Entries /\ ThreadInv /\ DataTyped
      /\ EntryInv /\ th[Admin].op = "install" /\ entry[th[Admin].e] \in Installed
      /\ current' \in Entries \cup {0}
  BY <1>1, AdminKnown DEF AdminTyped, Entry
<1>3. LowerEntries
  <2>1. CASE entry' = entry
    BY <1>1, <1>2, <2>1, StillLower
  <2>2. CASE entry' = [entry EXCEPT ![th[Admin].e] = Failed(@)]
    <3> DEFINE x == entry[th[Admin].e]
               z == Failed(x)
    <3>1. /\ z \in Installed /\ z.primary = x.primary /\ z.idle = x.idle
          /\ z.active = x.active /\ z.settings = x.settings
          /\ z.generation = x.generation
      BY <1>2, ValuesGive
    <3>2. entry' = [entry EXCEPT ![th[Admin].e] = z]
      BY <1>2, <2>2 DEF EntryInv
    <3> HIDE DEF z
    <3> QED
      BY <1>1, <1>2, <3>1, <3>2, FlagsGive
  <2> QED
    BY <2>1, <2>2 DEF Publish
<1>4. Only(Admin) /\ th'[Admin].at = "idle"
  BY <1>1, <1>2, DoneGives
<1>5. DiskInv'
  <2>1. Touched \in [here : BOOLEAN, settings : Settings, enabled : BOOLEAN]
        /\ Entry(Admin).enabled \in BOOLEAN
    BY <1>2, TouchedTyped DEF Entry, Installed
  <2>2. DataTyped'
    BY <1>2, <2>1 DEF Publish, DataTyped
  <2> QED
    BY <1>1, <1>4, <2>2, AdminDisk DEF IInv
<1>6. current = 0 /\ Unloaded
  BY <1>1, <1>2 DEF IInv, AdminInv, Working, Unloaded
<1>7. BusyInv'
  BY <1>1, <1>4, <1>6, UsersStay, AdminBusy
<1>8. \A v \in Vms : vm'[v].open => vm[v].entry = current'
  <2>1. SUFFICES ASSUME NEW v \in Vms, vm[v].open PROVE FALSE
    BY <1>1
  <2>2. vm[v].entry = 0 /\ vm[v].entry \in Entries
    BY <1>6, <2>1, UnloadedQuiet, OpenKnown
  <2> QED
    BY <2>2, ManagerAssumption
<1> QED
  BY <1>1, <1>3, <1>5, <1>7, <1>8, AdminLeaves

\* Only Admin knows the candidate of an upgrade.
LEMMA DropCandidateStep ==
    ASSUME IInv, DropCandidate, th[Admin].at \in {"backup", "swap"}, DiskInv',
           UNCHANGED <<current, pool, closed, halt, stale>>
    PROVE  IInv'
<1> DEFINE e == th[Admin].e
<1>1. th[Admin].at \notin {"idle", "unload"}
  OBVIOUS
<1>2. /\ Admin \in Threads /\ e \in Entries /\ ThreadInv /\ EntryInv
      /\ current \in Entries \cup {0} /\ th[Admin].op = "upgrade"
  BY <1>1, AdminKnown DEF AdminTyped
<1>3. Candidate /\ \A u \in Users : th[u].e # e
  BY <1>1, <1>2 DEF Candidate, Working, IInv, AdminInv
<1>4. /\ entry' = [entry EXCEPT ![e] = NoEntry] /\ Shut(Runtimes(entry[e]))
      /\ Released(Admin) /\ Done(Admin)
  BY DEF DropCandidate, Entry
<1>5. /\ NoEntry \in Installed /\ NoEntry.primary = 0 /\ NoEntry.idle = 0
      /\ NoEntry.active = {}
  BY ManagerAssumption DEF NoEntry, Installed
<1>6. /\ entry' \in [Entries -> Installed]
      /\ \A d \in Entries : d # e => entry'[d] = entry[d]
      /\ \A d \in Entries : Shrunk(d)
  BY <1>2, <1>3, <1>4, <1>5, PutLower
<1>7. /\ Calm /\ VmTyped'
      /\ \A v \in Vms : vm'[v].open => vm[v].open /\ v \notin Runtimes(entry[e])
  <2> DEFINE S == Runtimes(entry[e])
  <2>1. Shut(S)
    BY <1>4
  <2> HIDE DEF S
  <2>2. VmTyped' /\ Calm
    BY <1>2, <2>1, ShutCalm, ShutGives DEF VmTyped
  <2>3. \A v \in Vms : vm'[v].open => vm[v].open /\ v \notin S
    BY <1>2, <2>1 DEF Shut, EntryInv
  <2> QED
    BY <2>2, <2>3 DEF S
<1>8. EntryInv'
  BY <1>2, <1>6, <1>7 DEF EntryInv, VmTyped
<1>9. LowerEntries
  BY <1>6, <1>7, <1>8 DEF LowerEntries
<1>10. Only(Admin)
  BY <1>2, <1>4, DoneGives
<1>11. BusyInv'
  BY <1>1, <1>10, UsersStay, AdminBusy
<1>12. \A v \in Vms : vm'[v].open => vm[v].entry = current'
  BY <1>3, <1>7, OpenKnown
<1> QED
  BY <1>4, <1>9, <1>11, <1>12, AdminLeaves

LEMMA BackupStep ==
    ASSUME IInv, Backup
    PROVE  IInv'
<1>1. /\ th[Admin].at = "backup"
      /\ UNCHANGED <<current, pool, leftover, data, closed, halt, wanted, gone, stale>>
  BY DEF Backup, At, history
<1>2. /\ Admin \in Threads /\ th[Admin].e \in Entries /\ ThreadInv /\ Typed(Admin)
      /\ current \in Entries \cup {0} /\ th[Admin].op = "upgrade"
  BY <1>1, AdminKnown DEF AdminTyped
<1>3. CASE /\ target # 0 /\ backup' = target /\ target' = 0
           /\ Released(Admin) /\ Go(Admin, "swap") /\ UNCHANGED <<entry, vm>>
  <2>1. LowerEntries
    BY <1>1, <1>2, <1>3, StillLower
  <2>2. /\ Only(Admin)
        /\ th'[Admin].at = "swap" /\ th'[Admin].op = th[Admin].op
        /\ th'[Admin].e = th[Admin].e /\ th'[Admin].old = th[Admin].old
        /\ th'[Admin].vm = th[Admin].vm
        /\ th'[Admin].generation = th[Admin].generation
        /\ th'[Admin].settings = th[Admin].settings
    BY <1>2, <1>3, GoGives
  <2>3. Typed(Admin)' /\ AdminTyped'
    BY <1>2, <2>2 DEF Typed, AdminTyped, Places, Pooled, ReadyPlaces
  <2>4. ~Unloaded'
    BY <1>2, <2>2 DEF Unloaded, Working
  <2>5. DiskInv'
    BY <1>1, <1>2, <1>3, <2>2 DEF IInv, DiskInv, SourceKept, At, Working
  <2>6. /\ th'[Admin].at \notin {"idle", "source", "data", "initialize", "load",
                                 "loading"}
        /\ th'[Admin].at \notin ReadyPlaces \cup {"persist", "initialize", "invalidate"}
    BY <2>2 DEF ReadyPlaces
  <2> QED
    BY <1>1, <1>3, <2>1, <2>2, <2>3, <2>4, <2>5, <2>6, AdminMoves
<1>4. CASE DropCandidate /\ UNCHANGED <<target, backup>>
  <2>1. th'[Admin].at = "idle"
    BY <1>2, <1>4, DoneGives DEF DropCandidate
  <2>2. DataTyped'
    BY <1>1 DEF DataTyped, IInv, DiskInv
  <2>3. DiskInv'
    BY <1>1, <1>4, <2>1, <2>2, AdminDisk DEF IInv
  <2> QED
    BY <1>1, <1>4, <2>3, DropCandidateStep
<1> QED
  BY <1>3, <1>4 DEF Backup

LEMMA SwapStep ==
    ASSUME IInv, Swap
    PROVE  IInv'
<1>1. /\ th[Admin].at = "swap"
      /\ UNCHANGED <<current, pool, data, closed, halt, gone, stale>>
  BY DEF Swap, At
<1>2. /\ Admin \in Threads /\ th[Admin].e \in Entries /\ ThreadInv
      /\ current \in Entries \cup {0} /\ th[Admin].op = "upgrade"
      /\ Entry(Admin) \in Installed
  BY <1>1, AdminKnown DEF AdminTyped
<1>3. /\ backup # 0 /\ backup \in Versions /\ target = 0 /\ ~gone
      /\ leftover \subseteq Versions /\ SourceKept
  BY <1>1 DEF IInv, DiskInv, At
<1>4. CASE /\ target' = Entry(Admin).version /\ wanted' = Entry(Admin).version
           /\ Go(Admin, "retire")
           /\ UNCHANGED <<entry, engine, vm, backup, leftover>>
  <2>1. LowerEntries
    BY <1>1, <1>2, <1>4, StillLower
  <2>2. th'[Admin].at = "retire" /\ th'[Admin].op = "upgrade"
    BY <1>2, <1>4, GoGives
  <2>3. target' \in Versions \cup {0} /\ wanted' = target'
    BY <1>2, <1>4 DEF Installed
  <2>4. DiskInv'
    BY <1>1, <1>3, <1>4, <2>2, <2>3 DEF IInv, DiskInv, SourceKept, At, Working
  <2>5. "retire" \in {"insert", "activate", "enabled", "backup", "retire",
                      "replace", "data"}
    OBVIOUS
  <2> QED
    BY <1>1, <1>4, <2>1, <2>4, <2>5, AdminGoes
<1>5. CASE /\ DropCandidate /\ backup' = 0 /\ wanted' = wanted
           /\ \/ target' = backup /\ UNCHANGED leftover
              \/ leftover' = leftover \cup {backup} /\ UNCHANGED target
  <2>1. th'[Admin].at = "idle"
    BY <1>2, <1>5, DoneGives DEF DropCandidate
  <2>2. SourceKept'
    BY <1>3, <1>5 DEF SourceKept
  <2>3. DiskInv'
    BY <1>1, <1>3, <1>5, <2>1, <2>2 DEF IInv, DiskInv, At, Working
  <2> QED
    BY <1>1, <1>5, <2>3, DropCandidateStep
<1> QED
  BY <1>4, <1>5 DEF Swap

LEMMA RetireStep ==
    ASSUME IInv, Retire
    PROVE  IInv'
<1> DEFINE o == th[Admin].old
           x == entry[o]
           z == [x EXCEPT !.enabled = FALSE]
<1>1. /\ th[Admin].at = "retire" /\ Go(Admin, "replace")
      /\ entry' = [entry EXCEPT ![o].enabled = FALSE]
      /\ UNCHANGED <<current, engine, pool, vm, target, backup, leftover, data, closed,
                     halt, wanted, gone, stale>>
  BY DEF Retire, At, disk, history
<1>2. /\ Admin \in Threads /\ ThreadInv /\ EntryInv
      /\ current \in Entries \cup {0} /\ th[Admin].op = "upgrade"
  BY <1>1, AdminKnown DEF AdminTyped
<1>3. o = current /\ o \in Entries /\ x \in Installed
  BY <1>1, <1>2 DEF IInv, AdminInv, Working, EntryInv
<1>4. /\ z \in Installed /\ z.primary = x.primary /\ z.idle = x.idle
      /\ z.active = x.active /\ z.settings = x.settings
      /\ z.generation = x.generation
  BY <1>3 DEF Installed
<1>5. entry' = [entry EXCEPT ![o] = z]
  BY <1>1, <1>3 DEF EntryInv
<1>6. LowerEntries
  <2> HIDE DEF z, o
  <2> QED
    BY <1>1, <1>2, <1>3, <1>4, <1>5, FlagsGive
<1>7. th'[Admin].at = "replace" /\ th'[Admin].op = "upgrade"
  BY <1>1, <1>2, GoGives
<1>8. DiskInv'
  BY <1>1, <1>7 DEF IInv, DiskInv, SourceKept, At, Working
<1>9. "replace" \in {"insert", "activate", "enabled", "backup", "retire",
                     "replace", "data"}
  OBVIOUS
<1> QED
  BY <1>1, <1>6, <1>8, <1>9, AdminGoes

-----------------------------------------------------------------------------
(* Admin: teardown, and what it ends. *)

LEMMA DoomedKnown ==
    ASSUME IInv, th[Admin].at \in {"replace", "unload", "stop"}
    PROVE  /\ Doomed \in Entries /\ entry[Doomed] \in Installed
           /\ th[Admin].at = "replace" => Doomed = current
           /\ th[Admin].at # "replace" => Doomed = th[Admin].e
<1>1. /\ EntryInv /\ th[Admin].e \in Entries /\ current \in Entries \cup {0}
      /\ AdminTyped
  BY AdminKnown
<1>2. th[Admin].at = "replace" => th[Admin].old = current /\ current # 0
  BY <1>1 DEF AdminTyped, IInv, AdminInv, Working
<1> QED
  BY <1>1, <1>2 DEF Doomed, EntryInv, At

LEMMA TakeEngineStep ==
    ASSUME IInv, TakeEngine
    PROVE  IInv'
<1>1. /\ th[Admin].at \in {"replace", "unload", "stop"} /\ engine[Doomed] = None
      /\ Locked(Admin, Doomed)
      /\ UNCHANGED <<current, entry, pool, vm, th, target, backup, leftover, data,
                     closed, halt, wanted, gone, stale>>
  BY DEF TakeEngine, disk, history
<1>2. Doomed \in Entries
  BY <1>1, DoomedKnown
<1>3. LowerEntries
  <2>1. current' \in Entries \cup {0}
    BY <1>1 DEF IInv, EntryInv
  <2> QED
    BY <1>1, <2>1, StillLower
<1>4. RoleInv' /\ SettingsInv' /\ OpenInv' /\ PoolInv' /\ StaleInv' /\ EntryInv'
  BY <1>1, <1>3, BystandersKept DEF LowerEntries
<1>5. EngineInv'
  <2>1. engine[Doomed] \notin Users
    BY <1>1, ManagerAssumption
  <2>2. th'[Admin].at \notin ReadyPlaces \cup {"persist", "initialize", "invalidate"}
    BY <1>1 DEF ReadyPlaces
  <2> QED
    BY <1>1, <1>2, <2>1, <2>2, AdminEngine DEF IInv
<1>6. ThreadInv' /\ AdminInv'
  BY <1>1 DEF IInv, ThreadInv, Typed, UserTyped, AdminTyped, AdminInv, Unloaded,
              Candidate, Working, At
<1>7. BusyInv' /\ DiskInv'
  BY <1>1 DEF IInv, BusyInv, Busy, DiskInv, SourceKept, Working, At
<1> QED
  BY <1>4, <1>5, <1>6, <1>7 DEF IInv

\* Whoever has both locks of an entry leaves no open runtime of it, and no
\* user that could make one.
LEMMA TearDownGives ==
    ASSUME IInv, TearDown, th[Admin].at \in {"replace", "unload", "stop"},
           UNCHANGED <<pool, closed, halt, stale>>, current' \in Entries \cup {0}
    PROVE  /\ LowerEntries /\ Released(Admin)
           /\ \A v \in Vms : vm'[v].open => vm[v].open /\ vm[v].entry # Doomed
           /\ \A u \in Users : Busy(u) => th[u].e # Doomed
<1> DEFINE d == Doomed
           x == entry[d]
           z == TornDown(x)
<1>1. d \in Entries /\ x \in Installed /\ EntryInv
  BY DoomedKnown DEF IInv
<1>2. /\ engine[d] = Admin /\ pool[d] = None /\ Shut(Runtimes(x))
      /\ entry' = [entry EXCEPT ![d] = TornDown(@)] /\ Released(Admin)
  BY DEF TearDown
<1>3. entry' = [entry EXCEPT ![d] = z]
  BY <1>1, <1>2 DEF EntryInv
<1>4. /\ z \in Installed /\ z.primary = 0 /\ z.idle = 0 /\ z.active = {}
      /\ z.generation = x.generation + 1
  BY <1>1, ValuesGive
<1> HIDE DEF z, d
<1>5. x.generation \in Nat
  BY <1>1 DEF Installed
<1>6. Lower(z, entry[d])
  BY <1>4, <1>5 DEF Lower
<1>7. /\ Calm /\ VmTyped'
      /\ \A v \in Vms : vm'[v].open => vm[v].open /\ v \notin Runtimes(x)
  <2> DEFINE S == Runtimes(x)
  <2>1. Shut(S)
    BY <1>2
  <2> HIDE DEF S
  <2>2. VmTyped' /\ Calm
    BY <1>1, <2>1, ShutCalm, ShutGives DEF VmTyped
  <2>3. \A v \in Vms : vm'[v].open => vm[v].open /\ v \notin S
    BY <1>1, <2>1 DEF Shut, EntryInv
  <2> QED
    BY <2>2, <2>3 DEF S
<1>8. LowerEntries
  <2>1. \A v \in Vms : vm'[v].open /\ v \in Runtimes(entry[d]) => v \in Runtimes(z)
    BY <1>7
  <2> QED
    BY <1>1, <1>3, <1>4, <1>6, <1>7, <2>1, LowerGives
<1>9. Admin \notin Users /\ None \notin Users
  BY ManagerAssumption
<1>10. ASSUME NEW u \in Users, Busy(u) PROVE th[u].e # d
  BY <1>2, <1>9, <1>10 DEF IInv, EngineInv, PoolInv, Busy
<1>11. ASSUME NEW v \in Vms, vm'[v].open PROVE vm[v].open /\ vm[v].entry # d
  <2>1. vm[v].open /\ v \notin Runtimes(entry[d])
    BY <1>7, <1>11
  <2>2. ASSUME vm[v].entry = d PROVE FALSE
    <3>1. PICK u \in Users : th[u].at = "push" /\ th[u].vm = v
      BY <2>1, <2>2 DEF IInv, OpenInv, At
    <3>2. th[u].e = d /\ Busy(u)
      BY <2>2, <3>1 DEF IInv, RoleInv, Lent, Busy, EnginePlaces
    <3> QED
      BY <1>10, <3>2
  <2> QED
    BY <2>1, <2>2
<1> QED
  BY <1>2, <1>8, <1>10, <1>11 DEF d

LEMMA ReplaceStep ==
    ASSUME IInv, Replace
    PROVE  IInv'
<1>1. /\ th[Admin].at = "replace" /\ TearDown /\ current' = th[Admin].e
      /\ backup' = 0 /\ Done(Admin)
      /\ UNCHANGED <<pool, target, leftover, data, closed, halt, wanted, gone, stale>>
  BY DEF Replace, At, history
<1>2. /\ Admin \in Threads /\ th[Admin].e \in Entries /\ ThreadInv
      /\ current' \in Entries \cup {0} /\ Doomed = current
  BY <1>1, AdminKnown, DoomedKnown
<1>3. /\ LowerEntries /\ Released(Admin)
      /\ \A v \in Vms : vm'[v].open => vm[v].open /\ vm[v].entry # current
      /\ \A u \in Users : Busy(u) => th[u].e # current
  BY <1>1, <1>2, TearDownGives
<1>4. Only(Admin) /\ th'[Admin].at = "idle"
  BY <1>1, <1>2, DoneGives
<1>5. DiskInv'
  BY <1>1, <1>4 DEF IInv, DiskInv, SourceKept, At, Working
<1>6. BusyInv'
  <2>1. \A u \in Users : Busy(u)' <=> Busy(u)
    BY <1>4, UsersStay DEF Busy
  <2> QED
    BY <1>1, <1>3, <2>1 DEF IInv, BusyInv, At
<1>7. \A v \in Vms : vm'[v].open => vm[v].entry = current'
  BY <1>1, <1>3, OpenKnown
<1> QED
  BY <1>1, <1>3, <1>5, <1>6, <1>7, AdminLeaves

LEMMA DisableStep ==
    ASSUME IInv, Disable
    PROVE  IInv'
<1>1. /\ th[Admin].at = "stop" /\ TearDown /\ Done(Admin)
      /\ data' = IF closed THEN data ELSE [Touched EXCEPT !.enabled = FALSE]
      /\ UNCHANGED <<current, pool, target, backup, leftover, closed, halt, wanted,
                     gone, stale>>
  BY DEF Disable, At, history
<1>2. /\ Admin \in Threads /\ ThreadInv /\ DataTyped
      /\ current' \in Entries \cup {0} /\ th[Admin].op = "disable"
  BY <1>1, AdminKnown DEF AdminTyped
<1>3. LowerEntries /\ Released(Admin) /\ \A v \in Vms : vm'[v].open => vm[v].open
  BY <1>1, <1>2, TearDownGives
<1>4. Only(Admin) /\ th'[Admin].at = "idle"
  BY <1>1, <1>2, DoneGives
<1>5. DiskInv'
  <2>1. Touched \in [here : BOOLEAN, settings : Settings, enabled : BOOLEAN]
    BY <1>2, TouchedTyped
  <2>2. DataTyped'
    BY <1>1, <1>2, <2>1 DEF DataTyped
  <2> QED
    BY <1>1, <1>4, <2>2, AdminDisk DEF IInv
<1>6. BusyInv'
  BY <1>1, <1>4, UsersStay, AdminBusy
<1>7. th[Admin].e = current
  BY <1>1, <1>2 DEF IInv, AdminInv, Working
<1>8. \A v \in Vms : vm'[v].open => vm[v].entry = current'
  BY <1>1, <1>3, <1>7, OpenKnown
<1> QED
  BY <1>1, <1>3, <1>5, <1>6, <1>8, AdminLeaves

LEMMA UnloadStep ==
    ASSUME IInv, Unload
    PROVE  IInv'
<1> DEFINE c == [at |-> "source", good |-> TRUE]
<1>1. /\ th[Admin].at = "unload" /\ TearDown /\ Set(Admin, c)
      /\ UNCHANGED <<current, pool, target, backup, leftover, data, closed, halt,
                     wanted, gone, stale>>
  BY DEF Unload, At, disk, history
<1>2. /\ Admin \in Threads /\ th[Admin].e \in Entries /\ ThreadInv /\ DataTyped
      /\ current' \in Entries \cup {0} /\ Doomed = th[Admin].e /\ Typed(Admin)
      /\ th[Admin].op = "remove" /\ EntryInv
  BY <1>1, AdminKnown, DoomedKnown DEF AdminTyped
<1>3. /\ LowerEntries /\ Released(Admin)
      /\ \A v \in Vms : vm'[v].open => vm[v].open /\ vm[v].entry # th[Admin].e
      /\ \A u \in Users : Busy(u) => th[u].e # th[Admin].e
  BY <1>1, <1>2, TearDownGives
<1>4. /\ Only(Admin)
      /\ \A f \in Fields : th'[Admin][f] = IF f \in DOMAIN c THEN c[f]
                                           ELSE th[Admin][f]
  BY <1>1, <1>2, SetGives
<1>5. /\ th'[Admin].at = "source" /\ th'[Admin].op = "remove"
      /\ th'[Admin].e = th[Admin].e /\ th'[Admin].vm = th[Admin].vm
      /\ th'[Admin].generation = th[Admin].generation
      /\ th'[Admin].settings = th[Admin].settings
  BY <1>2, <1>4 DEF Fields
<1>6. Typed(Admin)' /\ AdminTyped'
  BY <1>2, <1>5 DEF Typed, AdminTyped, Places, Pooled, ReadyPlaces
<1>7. ThreadInv' /\ \A u \in Users : th'[u] = th[u]
  BY <1>2, <1>4, <1>6, AdminThread
<1>8. current = 0 /\ current' = 0 /\ 0 \notin Entries
  BY <1>1, <1>2, ManagerAssumption DEF IInv, AdminInv, Working
<1>9. \A v \in Vms : ~vm'[v].open
  BY <1>3, <1>8, OpenKnown
<1>10. EngineInv'
  BY <1>2, <1>3, <1>5, <1>7, AdminEngine DEF IInv, ReadyPlaces
<1>11. RoleInv' /\ SettingsInv' /\ StaleInv' /\ EntryInv' /\ PoolInv'
  <2>1. \A u \in Users : Follows(u)
    BY <1>7 DEF Follows
  <2>2. /\ EntryInv' /\ stale' \subseteq stale /\ Undisturbed /\ pool' = pool
        /\ \A e \in Entries : FewerRoles(e) /\ SamePool(e)
    BY <1>3, CalmUndisturbed DEF LowerEntries, Shrunk
  <2>3. RoleInv' /\ SettingsInv' /\ StaleInv'
    BY <1>2, <2>1, <2>2, RolesKept, SettingsFollow, StaleKept DEF IInv
  <2>4. PoolInv'
    BY <1>7, <2>2 DEF IInv, PoolInv
  <2> QED
    BY <2>2, <2>3, <2>4
<1>12. OpenInv'
  BY <1>1, <1>9 DEF IInv, OpenInv, QuietRemoval
<1>13. BusyInv'
  <2>1. \A u \in Users : Busy(u)' <=> Busy(u)
    BY <1>7 DEF Busy
  <2>2. \A u \in Users : Busy(u) => th[u].e # 0
    BY <1>2, <1>8 DEF Busy, EnginePlaces, ThreadInv, Typed, Threads
  <2> QED
    BY <1>1, <1>3, <1>8, <2>1, <2>2 DEF IInv, BusyInv, At
<1>14. AdminInv'
  <2>1. ASSUME NEW t \in Threads, th'[t].at \in {"load", "loading"}
        PROVE  entry'[th'[t].e].primary = 0
    <3>1. t # Admin /\ th'[t] = th[t]
      BY <1>4, <1>5, <2>1 DEF Only
    <3>2. th[t].e \in Entries /\ entry[th[t].e].primary = 0
      BY <1>2, <2>1, <3>1 DEF ThreadInv, Typed, IInv, AdminInv
    <3> QED
      BY <1>3, <3>1, <3>2 DEF LowerEntries, Shrunk, FewerRoles
  <2> QED
    BY <1>5, <1>8, <2>1 DEF AdminInv, Working, Candidate, Unloaded, At
<1>15. DiskInv'
  <2>1. DataTyped'
    BY <1>1, <1>2 DEF DataTyped
  <2> QED
    BY <1>1, <1>2, <1>5, <2>1, AdminDisk DEF IInv
<1> QED
  BY <1>7, <1>10, <1>11, <1>12, <1>13, <1>14, <1>15 DEF IInv

-----------------------------------------------------------------------------
(* Admin: the directories of a removal, the status and the settings. *)

LEMMA EraseSourceStep ==
    ASSUME IInv, EraseSource
    PROVE  IInv'
<1>1. /\ th[Admin].at = "source"
      /\ UNCHANGED <<current, entry, engine, pool, vm, backup, leftover, data, closed,
                     halt, wanted, gone, stale>>
  BY DEF EraseSource, At, history
<1>2. /\ Admin \in Threads /\ th[Admin].e \in Entries /\ ThreadInv /\ Typed(Admin)
      /\ current \in Entries \cup {0} /\ th[Admin].op = "remove"
  BY <1>1, AdminKnown DEF AdminTyped
<1>3. LowerEntries
  BY <1>1, <1>2, StillLower
<1>4. wanted = 0
  BY <1>1, <1>2 DEF IInv, DiskInv, Working
<1>5. CASE target' = 0 /\ Go(Admin, "data")
  <2>1. th'[Admin].at = "data" /\ th'[Admin].op = "remove"
    BY <1>2, <1>5, GoGives
  <2>2. DiskInv'
    BY <1>1, <1>4, <1>5, <2>1 DEF IInv, DiskInv, SourceKept, At, Working
  <2>3. "data" \in {"insert", "activate", "enabled", "backup", "retire",
                    "replace", "data"}
    OBVIOUS
  <2> QED
    BY <1>1, <1>3, <1>5, <2>2, <2>3, AdminGoes
<1>6. CASE Set(Admin, [at |-> "data", good |-> FALSE]) /\ UNCHANGED target
  <2> DEFINE c == [at |-> "data", good |-> FALSE]
  <2>1. /\ Only(Admin)
        /\ \A f \in Fields : th'[Admin][f] = IF f \in DOMAIN c THEN c[f]
                                             ELSE th[Admin][f]
    BY <1>2, <1>6, SetGives
  <2>2. /\ th'[Admin].at = "data" /\ th'[Admin].op = th[Admin].op
        /\ th'[Admin].e = th[Admin].e /\ th'[Admin].old = th[Admin].old
        /\ th'[Admin].vm = th[Admin].vm
        /\ th'[Admin].generation = th[Admin].generation
        /\ th'[Admin].settings = th[Admin].settings /\ th'[Admin].good = FALSE
    BY <2>1 DEF Fields
  <2>3. Typed(Admin)' /\ AdminTyped'
    BY <1>2, <2>2 DEF Typed, AdminTyped, Places, Pooled, ReadyPlaces
  <2>4. ~Unloaded'
    BY <1>2, <2>2 DEF Unloaded, Working
  <2>5. DiskInv'
    BY <1>1, <1>4, <1>6, <2>2 DEF IInv, DiskInv, SourceKept, At, Working
  <2>6. /\ th'[Admin].at \notin {"idle", "initialize", "load", "loading"}
        /\ th'[Admin].at \notin ReadyPlaces \cup {"persist", "initialize", "invalidate"}
        /\ th[Admin].at \notin {"idle", "unload"} /\ th[Admin].at \in {"source", "data"}
    BY <1>1, <2>2 DEF ReadyPlaces
  <2> QED
    BY <1>1, <1>3, <2>1, <2>2, <2>3, <2>4, <2>5, <2>6, AdminMoves
<1> QED
  BY <1>5, <1>6 DEF EraseSource

LEMMA EraseDataStep ==
    ASSUME IInv, EraseData
    PROVE  IInv'
<1> DEFINE e == th[Admin].e
           x == entry[e]
           z == Failed(x)
<1>1. /\ th[Admin].at = "data" /\ Done(Admin)
      /\ UNCHANGED <<engine, pool, vm, target, backup, leftover, closed, halt,
                     wanted, stale>>
  BY DEF EraseData, At
<1>2. PICK good \in BOOLEAN :
        /\ data' = IF good THEN NoData ELSE data
        /\ IF good /\ th[Admin].good
           THEN gone' = TRUE /\ UNCHANGED <<current, entry>>
           ELSE /\ entry' = [entry EXCEPT ![th[Admin].e] = Failed(@)]
                /\ current' = th[Admin].e
                /\ UNCHANGED gone
  BY DEF EraseData
<1>3. /\ Admin \in Threads /\ e \in Entries /\ ThreadInv /\ EntryInv /\ DataTyped
      /\ current \in Entries \cup {0} /\ th[Admin].op = "remove" /\ x \in Installed
  BY <1>1, AdminKnown DEF AdminTyped, Entry
<1>4. current = 0 /\ 0 \notin Entries /\ wanted = 0
  BY <1>1, <1>3, ManagerAssumption DEF IInv, AdminInv, DiskInv, Working
<1>5. LowerEntries
  <2>1. CASE UNCHANGED <<current, entry>>
    BY <1>1, <1>3, <2>1, StillLower
  <2>2. CASE entry' = [entry EXCEPT ![th[Admin].e] = Failed(@)] /\ current' = e
    <3>1. /\ z \in Installed /\ z.primary = x.primary /\ z.idle = x.idle
          /\ z.active = x.active /\ z.settings = x.settings
          /\ z.generation = x.generation
      BY <1>3, ValuesGive
    <3>2. entry' = [entry EXCEPT ![e] = z] /\ current' \in Entries \cup {0}
      BY <1>3, <2>2 DEF EntryInv
    <3> HIDE DEF z, e
    <3> QED
      BY <1>1, <1>3, <3>1, <3>2, FlagsGive
  <2> QED
    BY <1>2, <2>1, <2>2
<1>6. Only(Admin) /\ th'[Admin].at = "idle"
  BY <1>1, <1>3, DoneGives
<1>7. DiskInv'
  <2>1. DataTyped'
    BY <1>2, <1>3, ManagerAssumption DEF NoData, DataTyped
  <2>2. ~gone /\ backup = 0 /\ (th[Admin].good => target = 0)
    BY <1>1 DEF IInv, DiskInv, At
  <2>3. gone' => current' = 0 /\ target' = 0
    BY <1>1, <1>2, <1>4, <2>2
  <2> QED
    BY <1>1, <1>4, <1>6, <2>1, <2>2, <2>3
       DEF IInv, DiskInv, DataTyped, SourceKept, At, Working
<1>8. BusyInv'
  BY <1>1, <1>4, <1>6, UsersStay, AdminBusy
<1>9. \A v \in Vms : ~vm'[v].open
  <2>1. SUFFICES ASSUME NEW v \in Vms, vm[v].open PROVE FALSE
    BY <1>1
  <2>2. vm[v].entry = e
    BY <1>4, <2>1, OpenKnown
  <2> QED
    BY <1>1, <2>1, <2>2 DEF IInv, OpenInv, QuietRemoval
<1> QED
  BY <1>1, <1>5, <1>7, <1>8, <1>9, AdminLeaves

\* An operation on the registered entry ends.
LEMMA AdminFinishes ==
    ASSUME IInv, th[Admin].at \in {"engine", "persist", "initialize"}, Done(Admin),
           LowerEntries, engine' = engine \/ Released(Admin), DataTyped',
           UNCHANGED <<current, target, backup, leftover, wanted, gone>>
    PROVE  IInv'
<1>1. th[Admin].at \notin {"idle", "swap", "retire", "replace", "unload"}
  OBVIOUS
<1>2. /\ Admin \in Threads /\ ThreadInv /\ th[Admin].op \in {"enable", "configure"}
  BY <1>1, AdminKnown DEF AdminTyped
<1>3. Only(Admin) /\ th'[Admin].at = "idle"
  BY <1>2, DoneGives
<1>4. DiskInv'
  BY <1>1, <1>3, AdminDisk DEF IInv
<1>5. BusyInv'
  BY <1>1, <1>3, UsersStay, AdminBusy DEF LowerEntries
<1>6. th[Admin].e = current
  BY <1>1, <1>2 DEF IInv, AdminInv, Working
<1>7. \A v \in Vms : vm'[v].open => vm[v].open
  BY DEF LowerEntries, Calm
<1>8. \A v \in Vms : vm'[v].open => vm[v].entry = current'
  BY <1>6, <1>7, OpenKnown
<1> QED
  BY <1>4, <1>5, <1>8, AdminLeaves

LEMMA PersistStep ==
    ASSUME IInv, Persist
    PROVE  IInv'
<1>1. /\ th[Admin].at = "persist" /\ Released(Admin) /\ Done(Admin)
      /\ data' = IF closed THEN data ELSE [Touched EXCEPT !.enabled = TRUE]
      /\ UNCHANGED <<current, entry, pool, vm, target, backup, leftover, closed, halt,
                     wanted, gone, stale>>
  BY DEF Persist, At, history
<1>2. DataTyped /\ current \in Entries \cup {0}
  BY <1>1, AdminKnown
<1>3. Touched \in [here : BOOLEAN, settings : Settings, enabled : BOOLEAN]
  BY <1>2, TouchedTyped
<1>4. DataTyped'
  BY <1>1, <1>2, <1>3 DEF DataTyped
<1>5. LowerEntries
  BY <1>1, <1>2, StillLower
<1> QED
  BY <1>1, <1>4, <1>5, AdminFinishes

LEMMA ReconfiguredStep ==
    ASSUME IInv, Reconfigured
    PROVE  IInv'
<1> DEFINE e == th[Admin].e
           x == entry[e]
<1>1. /\ th[Admin].at = "initialize" /\ Released(Admin) /\ Done(Admin)
      /\ UNCHANGED <<current, pool, target, backup, leftover, data, closed, halt,
                     wanted, gone, stale>>
  BY DEF Reconfigured, At, disk, history
<1>2. /\ DataTyped /\ current \in Entries \cup {0} /\ e \in Entries /\ EntryInv
      /\ x \in Installed /\ th[Admin].settings \in Settings
  BY <1>1, AdminKnown DEF Entry, Typed
<1>3. DataTyped' /\ th[Admin].vm = x.primary
  BY <1>1, <1>2 DEF DataTyped, IInv, AdminInv, At
<1>4. CASE /\ vm' = [vm EXCEPT ![th[Admin].vm].settings = th[Admin].settings]
           /\ entry' = [entry EXCEPT ![th[Admin].e].initialized = TRUE]
  <2> DEFINE z == [x EXCEPT !.initialized = TRUE]
  <2>1. /\ z \in Installed /\ z.primary = x.primary /\ z.idle = x.idle
        /\ z.active = x.active /\ z.settings = x.settings
        /\ z.generation = x.generation
    BY <1>2 DEF Installed
  <2>2. entry' = [entry EXCEPT ![e] = z]
    BY <1>2, <1>4 DEF EntryInv
  <2>3. vm' = [vm EXCEPT ![entry[e].primary].settings = th[Admin].settings]
    BY <1>3, <1>4
  <2> HIDE DEF z, e
  <2>4. Lower(z, entry[e]) /\ Runtimes(z) = Runtimes(entry[e])
    BY <1>2, <2>1, FlagsLower
  <2>5. Calm /\ VmTyped'
    BY <1>2, <2>3, GivenCalm
  <2>6. LowerEntries
    BY <1>1, <1>2, <2>1, <2>2, <2>4, <2>5, LowerGives
  <2> QED
    BY <1>1, <1>3, <2>6, AdminFinishes
<1>5. CASE /\ entry' = [entry EXCEPT ![th[Admin].e] = Failed(@)]
           /\ UNCHANGED vm
  <2> DEFINE z == Failed(x)
  <2>1. /\ z \in Installed /\ z.primary = x.primary /\ z.idle = x.idle
        /\ z.active = x.active /\ z.settings = x.settings
        /\ z.generation = x.generation
    BY <1>2, ValuesGive
  <2>2. entry' = [entry EXCEPT ![e] = z]
    BY <1>2, <1>5 DEF EntryInv
  <2> HIDE DEF z, e
  <2>3. LowerEntries
    BY <1>1, <1>2, <1>5, <2>1, <2>2, FlagsGive
  <2> QED
    BY <1>1, <1>3, <2>3, AdminFinishes
<1> QED
  BY <1>4, <1>5 DEF Reconfigured

\* Admin takes the engine lock, or goes on under it.
LEMMA AdminEnters ==
    ASSUME IInv, NEW place \in {"ready", "invalidate"}, Go(Admin, place), LowerEntries,
           \/ /\ th[Admin].at = "engine" /\ engine[th[Admin].e] = None
              /\ Locked(Admin, th[Admin].e)
              /\ place = "invalidate" => th[Admin].op = "configure"
           \/ th[Admin].at = "invalidate" /\ engine' = engine,
           UNCHANGED <<current, target, backup, leftover, data, wanted, gone>>
    PROVE  IInv'
<1>1. /\ th[Admin].at \notin {"idle", "unload", "swap", "retire", "replace"}
      /\ th[Admin].at \in {"engine", "invalidate"}
  OBVIOUS
<1>2. /\ Admin \in Threads /\ th[Admin].e \in Entries /\ ThreadInv /\ Typed(Admin)
      /\ th[Admin].op \in {"enable", "configure"} /\ DataTyped
  BY <1>1, AdminKnown DEF AdminTyped
<1>3. /\ Only(Admin)
      /\ th'[Admin].at = place /\ th'[Admin].op = th[Admin].op
      /\ th'[Admin].e = th[Admin].e /\ th'[Admin].old = th[Admin].old
      /\ th'[Admin].vm = th[Admin].vm
      /\ th'[Admin].generation = th[Admin].generation
      /\ th'[Admin].settings = th[Admin].settings
  BY <1>2, GoGives
<1>4. Typed(Admin)' /\ AdminTyped'
  BY <1>2, <1>3 DEF Typed, AdminTyped, Places, Pooled, ReadyPlaces
<1>5. ~Unloaded'
  BY <1>2, <1>3 DEF Unloaded, Working
<1>6. DiskInv'
  <2>1. DataTyped'
    BY <1>2 DEF DataTyped
  <2>2. th'[Admin].at \notin {"swap", "retire", "replace", "data"}
    BY <1>3
  <2> QED
    BY <1>1, <1>3, <2>1, <2>2, AdminDisk DEF IInv
<1>7. /\ \/ engine' = engine
         \/ Released(Admin)
         \/ Locked(Admin, th[Admin].e) /\ engine[th[Admin].e] \notin Users
      /\ engine'[th[Admin].e] = Admin
  <2>1. None \notin Users /\ engine \in [Entries -> Threads \cup {None}]
    BY ManagerAssumption DEF IInv, EngineInv
  <2>2. th[Admin].at = "invalidate" => engine[th[Admin].e] = Admin
    BY DEF IInv, EngineInv
  <2> QED
    BY <1>2, <2>1, <2>2 DEF Locked
<1>8. th'[Admin].at \notin {"idle", "source", "data", "initialize", "load", "loading"}
  BY <1>3
<1> QED
  BY <1>1, <1>3, <1>4, <1>5, <1>6, <1>7, <1>8, AdminMoves

LEMMA AdminLockStep ==
    ASSUME IInv, AdminLock
    PROVE  IInv'
<1>1. /\ th[Admin].at = "engine" /\ engine[th[Admin].e] = None
      /\ UNCHANGED <<current, entry, pool, vm, target, backup, leftover, data, closed,
                     halt, wanted, gone, stale>>
  BY DEF AdminLock, At, disk, history
<1>2. /\ DataTyped /\ current \in Entries \cup {0}
      /\ th[Admin].op \in {"enable", "configure"}
  BY <1>1, AdminKnown DEF AdminTyped
<1>3. LowerEntries /\ DataTyped'
  BY <1>1, <1>2, StillLower DEF DataTyped
<1>4. CASE Done(Admin) /\ UNCHANGED engine
  BY <1>1, <1>3, <1>4, AdminFinishes
<1>5. CASE /\ Locked(Admin, th[Admin].e)
           /\ Go(Admin, IF th[Admin].op = "enable" THEN "ready" ELSE "invalidate")
  <2> DEFINE place == IF th[Admin].op = "enable" THEN "ready" ELSE "invalidate"
  <2>1. /\ place \in {"ready", "invalidate"} /\ Go(Admin, place)
        /\ place = "invalidate" => th[Admin].op = "configure"
    BY <1>2, <1>5
  <2> HIDE DEF place
  <2> QED
    BY <1>1, <1>3, <1>5, <2>1, AdminEnters
<1> QED
  BY <1>4, <1>5 DEF AdminLock

LEMMA InvalidateStep ==
    ASSUME IInv, Invalidate
    PROVE  IInv'
<1> DEFINE e == th[Admin].e
           x == entry[e]
           z == Invalidated(x)
<1>1. /\ th[Admin].at = "invalidate" /\ Shut({x.idle}) /\ Go(Admin, "ready")
      /\ entry' = [entry EXCEPT ![e] = Invalidated(@)]
      /\ UNCHANGED <<current, engine, pool, target, backup, leftover, data, closed,
                     halt, wanted, gone, stale>>
  BY DEF Invalidate, At, Entry, disk, history
<1>2. /\ current \in Entries \cup {0} /\ e \in Entries /\ EntryInv /\ x \in Installed
  BY <1>1, AdminKnown DEF Entry
<1>3. /\ z \in Installed /\ Lower(z, x) /\ Calm /\ VmTyped'
      /\ \A v \in Vms : vm'[v].open /\ v \in Runtimes(x) => v \in Runtimes(z)
  BY <1>1, <1>2, InvalidatedGives
<1>4. entry' = [entry EXCEPT ![e] = z]
  BY <1>1, <1>2 DEF EntryInv
<1> HIDE DEF z
<1>5. LowerEntries
  <2> HIDE DEF e
  <2> QED
    BY <1>1, <1>2, <1>3, <1>4, LowerGives
<1>6. "ready" \in {"ready", "invalidate"}
  OBVIOUS
<1> QED
  BY <1>1, <1>5, <1>6, AdminEnters

LEMMA AdminGoesOnStep ==
    ASSUME IInv, AdminGoesOn
    PROVE  IInv'
  BY ValidateStep, InsertStep, ActivateStep, PublishStep, BackupStep, SwapStep,
     RetireStep, ReplaceStep, UnloadStep, EraseSourceStep, EraseDataStep, DisableStep,
     PersistStep, TakeEngineStep, AdminLockStep, InvalidateStep, ReconfiguredStep
     DEF AdminGoesOn

-----------------------------------------------------------------------------
(* The end of the process, and its beginning. *)

\* Threads and entries stay; runtimes may be closed.
LEMMA ShutdownParts ==
    ASSUME IInv, Calm, EntryInv', UNCHANGED <<entry, engine, pool, th, stale>>
    PROVE  /\ ThreadInv' /\ EngineInv' /\ PoolInv' /\ RoleInv' /\ SettingsInv'
           /\ StaleInv'
<1>1. \A u \in Users : Follows(u)
  BY DEF Follows
<1>2. \A e \in Entries : FewerRoles(e) /\ SamePool(e)
  <2>1. \A e \in Entries : entry[e].generation <= entry[e].generation
    BY DEF IInv, EntryInv, Installed
  <2> QED
    BY <2>1 DEF FewerRoles, SamePool
<1>3. Undisturbed /\ ThreadInv /\ EntryInv
  BY CalmUndisturbed DEF IInv
<1>4. RoleInv' /\ SettingsInv' /\ StaleInv'
  BY <1>1, <1>2, <1>3, RolesKept, SettingsFollow, StaleKept DEF IInv
<1>5. ThreadInv'
  BY DEF IInv, ThreadInv, Typed, UserTyped, AdminTyped
<1>6. EngineInv' /\ PoolInv'
  BY DEF IInv, EngineInv, PoolInv
<1> QED
  BY <1>4, <1>5, <1>6

LEMMA ShutdownBeginStep ==
    ASSUME IInv, ShutdownBegin \/ ShutdownFlag
    PROVE  IInv'
<1>1. /\ halt \in {"no", "manager"}
      /\ \/ closed' = closed /\ halt' = "manager"
         \/ closed' = TRUE /\ halt' = "flag"
      /\ UNCHANGED <<current, entry, engine, pool, vm, th, target, backup, leftover,
                     data, wanted, gone, stale>>
  BY DEF ShutdownBegin, ShutdownFlag, disk, history
<1>2. Calm /\ EntryInv'
  BY <1>1 DEF Calm, IInv, EntryInv
<1>3. /\ ThreadInv' /\ EngineInv' /\ PoolInv' /\ RoleInv' /\ SettingsInv'
      /\ StaleInv'
  BY <1>1, <1>2, ShutdownParts
<1>4. AdminInv'
  BY <1>1 DEF IInv, AdminInv, Unloaded, Candidate, Working, Runtimes, At
<1>5. BusyInv'
  BY <1>1 DEF IInv, BusyInv, Busy, At
<1>6. DiskInv'
  BY <1>1 DEF IInv, DiskInv, SourceKept, Working, At
<1>7. OpenInv'
  BY <1>1 DEF IInv, OpenInv, QuietRemoval, Runtimes, At
<1> QED
  BY <1>2, <1>3, <1>4, <1>5, <1>6, <1>7 DEF IInv

LEMMA ShutdownStep ==
    ASSUME IInv, ShutdownRuntimes \/ ShutdownIdle \/ ShutdownClear
    PROVE  IInv'
<1>1. /\ halt \in {"flag", "runtimes", "idle"} /\ closed
      /\ halt' \in {"runtimes", "idle", "down"}
      /\ vm' = vm \/ Shut(Vms)
      /\ current' = current \/ (current' = 0 /\ th[Admin].at = "idle")
      /\ UNCHANGED <<closed, entry, engine, pool, th, target, backup, leftover,
                     data, wanted, gone, stale>>
  BY DEF ShutdownRuntimes, ShutdownIdle, ShutdownClear, disk, history, IInv, OpenInv,
         At
<1>2. EntryInv
  BY DEF IInv
<1>3. Calm /\ VmTyped'
  <2>1. CASE vm' = vm
    BY <1>2, <2>1 DEF Calm, VmTyped, EntryInv
  <2>2. CASE Shut(Vms)
    BY <1>2, <2>2, ShutCalm, ShutGives DEF VmTyped
  <2> QED
    BY <1>1, <2>1, <2>2
<1>4. EntryInv'
  BY <1>1, <1>2, <1>3 DEF EntryInv, VmTyped
<1>5. /\ ThreadInv' /\ EngineInv' /\ PoolInv' /\ RoleInv' /\ SettingsInv'
      /\ StaleInv'
  BY <1>1, <1>3, <1>4, ShutdownParts
<1>6. AdminInv'
  BY <1>1 DEF IInv, AdminInv, Unloaded, Candidate, Working, At
<1>7. BusyInv' /\ DiskInv'
  BY <1>1 DEF IInv, BusyInv, DiskInv, SourceKept, Working, At
<1>8. \A v \in Vms : ~vm'[v].open
  <2>1. CASE Shut(Vms)
    BY <1>2, <2>1 DEF Shut, EntryInv
  <2>2. CASE vm' = vm /\ halt \in {"runtimes", "idle", "down"}
    BY <2>2 DEF IInv, OpenInv
  <2> QED
    BY <2>1, <2>2
       DEF ShutdownRuntimes, ShutdownIdle, ShutdownClear
<1>9. OpenInv'
  BY <1>1, <1>8 DEF OpenInv, QuietRemoval
<1> QED
  BY <1>4, <1>5, <1>6, <1>7, <1>9 DEF IInv

\* A process that has just started, whatever it finds on the disk.
Started ==
    /\ current = 0 /\ closed = FALSE /\ halt = "no"
    /\ entry = [e \in Entries |-> NoEntry]
    /\ engine = [e \in Entries |-> None] /\ pool = [e \in Entries |-> None]
    /\ vm = [v \in Vms |-> NoVm]
    /\ th = [t \in Threads |-> Rest]
    /\ stale = {}
Found ==
    /\ target \in Versions \cup {0} /\ backup = 0 /\ leftover \subseteq Versions
    /\ DataTyped /\ SourceKept
    /\ gone => target = 0

LEMMA StartedInv == Started /\ Found => IInv
<1> SUFFICES ASSUME Started, Found
             PROVE  IInv
  OBVIOUS
<1>1. /\ Admin \in Threads /\ \A t \in Users : t \in Threads
      /\ \A t \in Threads : th[t] = Rest
      /\ \A e \in Entries : entry[e] = NoEntry /\ engine[e] = None /\ pool[e] = None
      /\ \A v \in Vms : vm[v] = NoVm
  BY DEF Started, Threads
<1>2. /\ Rest.at = "idle" /\ Rest.e = 0 /\ Rest.vm = 0 /\ Rest.generation = 0
      /\ Rest.settings = 0 /\ Rest.op = None
  BY DEF Rest
<1>3. NoEntry \in Installed /\ Runtimes(NoEntry) = {} /\ NoEntry.idle = 0
      /\ NoEntry.primary = 0 /\ NoEntry.active = {}
  BY ManagerAssumption DEF NoEntry, Installed, Runtimes
<1>4. NoVm \in [entry : Entries \cup {0}, settings : Settings, open : BOOLEAN]
      /\ NoVm.open = FALSE
  BY ManagerAssumption DEF NoVm
<1>5. ThreadInv
  <2>1. th = [t \in Threads |-> th[t]]
    BY DEF Started
  <2>2. \A t \in Threads : Typed(t)
    BY <1>1, <1>2, ManagerAssumption DEF Typed, Places
  <2>3. \A t \in Users : UserTyped(t)
    BY <1>1, <1>2 DEF UserTyped, UserPlaces, Pooled
  <2>4. AdminTyped
    BY <1>1, <1>2 DEF AdminTyped, Places, Pooled, ReadyPlaces
  <2> QED
    BY <2>1, <2>2, <2>3, <2>4 DEF ThreadInv
<1>6. EntryInv
  <2>1. entry \in [Entries -> Installed]
    BY <1>3 DEF Started
  <2>2. vm \in [Vms -> [entry : Entries \cup {0}, settings : Settings, open : BOOLEAN]]
    BY <1>4 DEF Started
  <2> QED
    BY <2>1, <2>2 DEF Started, EntryInv
<1>7. AdminInv
  BY <1>1, <1>2 DEF AdminInv, Working, Candidate, Unloaded, At
<1>8. EngineInv
  <2>1. engine \in [Entries -> Threads \cup {None}]
    BY DEF Started
  <2> QED
    BY <1>1, <1>2, <2>1, ManagerAssumption DEF EngineInv, EnginePlaces, ReadyPlaces
<1>9. PoolInv
  <2>1. pool \in [Entries -> Users \cup {None}]
    BY DEF Started
  <2> QED
    BY <1>1, <1>2, <2>1, ManagerAssumption DEF PoolInv
<1>10. BusyInv
  BY <1>1, <1>2 DEF BusyInv, Busy, EnginePlaces
<1>11. RoleInv /\ SettingsInv
  BY <1>1, <1>2, <1>3 DEF RoleInv, SettingsInv, Lent, Pooled
<1>12. StaleInv
  BY <1>1, <1>2 DEF Started, StaleInv, PressureHolds
<1>13. OpenInv
  BY <1>1, <1>4 DEF Started, OpenInv, QuietRemoval
<1>14. DiskInv
  BY <1>1, <1>2 DEF Started, Found, DiskInv, DataTyped, Working, At
<1> QED
  BY <1>5, <1>6, <1>7, <1>8, <1>9, <1>10, <1>11, <1>12, <1>13, <1>14 DEF IInv

LEMMA InitStep == Init => IInv
<1>1. Init => Started /\ Found
  BY ManagerAssumption DEF Init, Started, Found, DataTyped, NoData, SourceKept
<1> QED
  BY <1>1, StartedInv

LEMMA RestartFinds ==
    ASSUME IInv, Restart
    PROVE  Started' /\ Found'
<1>1. /\ leftover' = leftover \cup ({backup} \ {0}) /\ backup' = 0
      /\ UNCHANGED <<target, data, wanted, gone>>
  BY DEF Restart
<1>2. SourceKept' /\ leftover' \subseteq Versions
  BY <1>1 DEF IInv, DiskInv, SourceKept
<1> QED
  BY <1>1, <1>2 DEF Restart, Fresh, Started, Found, DataTyped, IInv, DiskInv

LEMMA RestartStep == IInv /\ Restart => IInv'
<1>1. IInv /\ Restart => Started' /\ Found'
  BY RestartFinds
<1>2. Started /\ Found => IInv
  BY StartedInv
<1> QED
  BY <1>1, <1>2, PTL

LEMMA StutterStep ==
    ASSUME IInv, UNCHANGED vars
    PROVE  IInv'
<1>1. UNCHANGED <<current, entry, engine, pool, vm, th, target, backup, leftover, data,
                  closed, halt, wanted, gone, stale>>
  BY DEF vars, disk, history
<1>2. Calm /\ EntryInv'
  BY <1>1 DEF Calm, IInv, EntryInv
<1>3. /\ ThreadInv' /\ EngineInv' /\ PoolInv' /\ RoleInv' /\ SettingsInv'
      /\ StaleInv'
  BY <1>1, <1>2, ShutdownParts
<1>4. AdminInv' /\ BusyInv' /\ DiskInv'
  BY <1>1 DEF IInv, AdminInv, Unloaded, Candidate, Working, BusyInv, Busy, DiskInv,
              SourceKept, At
<1>5. OpenInv'
  BY <1>1 DEF IInv, OpenInv, QuietRemoval, At
<1> QED
  BY <1>2, <1>3, <1>4, <1>5 DEF IInv

\* Every step keeps the invariant.
LEMMA NextStep == IInv /\ [Next]_vars => IInv'
<1> SUFFICES ASSUME IInv, [Next]_vars
             PROVE  IInv'
  OBVIOUS
<1>1. ASSUME NEW t \in Threads, Ready(t) PROVE IInv'
  BY <1>1, UserReady, AdminReady DEF Threads
<1>2. ASSUME NEW t \in Users, User(t) PROVE IInv'
  BY <1>2, UserStep
<1>3. ASSUME NEW t \in Users, NEW op \in {"call", "download", "preflight"},
             Begin(t, op)
      PROVE  IInv'
  BY <1>3, BeginStep
<1> QED
  BY <1>1, <1>2, <1>3, ReleaseIdleStep, ShowSettingsStep, AdminBeginsStep,
     AdminGoesOnStep, ShutdownBeginStep, ShutdownStep, RestartStep, StutterStep
     DEF Next, Shutdown

-----------------------------------------------------------------------------
(* What holds of every behaviour. *)

LEMMA InvKept == Spec => []IInv
<1>1. Init => IInv
  BY InitStep
<1>2. IInv /\ [Next]_vars => IInv'
  BY NextStep
<1> QED
  BY <1>1, <1>2, PTL DEF Spec

(* The manager's values keep their types, a pooled runtime is idle or lent   *)
(* and never both, and a download runs in a runtime that was initialised     *)
(* with the settings which its own borrow read, whatever update_settings,    *)
(* memory pressure and other borrowers do in the meantime.                   *)
THEOREM BorrowersGetTheirSettings == Spec => []ManagerInv
<1>1. IInv => TypeOK
  <2> SUFFICES ASSUME IInv
               PROVE  TypeOK
    OBVIOUS
  <2>1. ASSUME NEW e \in Entries
        PROVE  /\ entry[e].version \in Versions \cup {0}
               /\ entry[e].enabled \in BOOLEAN /\ entry[e].error \in BOOLEAN
               /\ entry[e].initialized \in BOOLEAN
               /\ entry[e].primary \in Vms \cup {0} /\ entry[e].idle \in Vms \cup {0}
               /\ entry[e].active \subseteq Vms /\ entry[e].idle \notin entry[e].active
               /\ entry[e].settings \in Settings \cup {None}
               /\ entry[e].generation \in Nat
    <3>1. entry[e] \in Installed /\ entry[e].idle \notin entry[e].active
      BY DEF IInv, EntryInv, RoleInv
    <3> QED
      BY <3>1 DEF Installed
  <2>2. current \in Entries \cup {0} /\ \A t \in Threads : th[t].at \in Places
    BY DEF IInv, EntryInv, ThreadInv, Typed
  <2>3. /\ engine \in [Entries -> Threads \cup {None}]
        /\ pool \in [Entries -> Users \cup {None}]
        /\ vm \in [Vms -> [entry : Entries \cup {0}, settings : Settings,
                           open : BOOLEAN]]
    BY DEF IInv, EngineInv, PoolInv, EntryInv
  <2>4. /\ {target, backup} \subseteq Versions \cup {0} /\ leftover \subseteq Versions
        /\ data \in [here : BOOLEAN, settings : Settings, enabled : BOOLEAN]
    BY DEF IInv, DiskInv
  <2> QED
    BY <2>1, <2>2, <2>3, <2>4 DEF TypeOK
<1>2. IInv => BorrowedFresh
  BY DEF IInv, SettingsInv, BorrowedFresh, Lent, At
<1>3. IInv => ManagerInv
  BY <1>1, <1>2 DEF ManagerInv
<1> QED
  BY <1>3, InvKept, PTL

(* While remove deletes the two directories no runtime of the extension is   *)
(* open: teardown has both locks of the entry and shuts the primary, the     *)
(* idle and every lent runtime.                                              *)
THEOREM RemovalIsAlone == Spec => []QuietRemoval
<1>1. IInv => QuietRemoval
  BY DEF IInv, OpenInv
<1> QED
  BY <1>1, InvKept, PTL

(* A runtime that was lent when memory ran short is never idle in the pool   *)
(* again: the generation of its borrow is behind the pool's for good.        *)
THEOREM PressureIsFinal == Spec => []PressureHolds
<1>1. IInv => PressureHolds
  BY DEF IInv, StaleInv
<1> QED
  BY <1>1, InvKept, PTL

(* A source that was installed and not removed is in some directory, through *)
(* failing renames and a process that dies between two of them.              *)
THEOREM SourceSurvives == Spec => []SourceKept
<1>1. IInv => SourceKept
  BY DEF IInv, DiskInv
<1> QED
  BY <1>1, InvKept, PTL

(* When shutdown clears the registry no runtime is open, not even one that   *)
(* was being loaded when the flag was raised.                                *)
THEOREM ShutdownLeavesNoRuntime == Spec => []ShutdownIsQuiet
<1>1. IInv => ShutdownIsQuiet
  BY DEF IInv, OpenInv, ShutdownIsQuiet
<1> QED
  BY <1>1, InvKept, PTL

\* After a removal, whoever could still use the extension has been closed.
LEMMA GoneAlone ==
    ASSUME IInv, gone
    PROVE  /\ th[Admin].at = "idle" /\ current = 0 /\ target = 0
           /\ \A t \in Users : Busy(t) => closed
<1>1. th[Admin].at = "idle" /\ current = 0 /\ target = 0
  BY DEF IInv, DiskInv, At
<1>2. \A t \in Users : Busy(t) => th[t].e # 0
  BY ManagerAssumption DEF Busy, EnginePlaces, IInv, ThreadInv, Typed, Threads
<1> QED
  BY <1>1, <1>2 DEF IInv, BusyInv, At

\* A user that gives up leaves the data alone.
LEMMA UserGiveUpKeeps ==
    ASSUME IInv, NEW t \in Users, th[t].at # "idle", NEW x, GiveUp(t, x)
    PROVE  data' = data
<1>1. th[t].op \in {"call", "download", "preflight"}
  BY UserKnown
<1> QED
  BY <1>1 DEF GiveUp

LEMMA GoneUser ==
    ASSUME IInv, gone, NEW t \in Users, User(t)
    PROVE  data' = data \/ (th[t].at = "mode" /\ th'[t] # th[t])
<1>1. \A u \in Users : Busy(u) => closed
  BY GoneAlone
<1>2. CASE AccountSettings(t)
  <2>1. th[t].at = "mode" /\ t \in Threads /\ ThreadInv
    BY <1>2 DEF AccountSettings, At, IInv, Threads
  <2>2. Done(t) \/ Go(t, "engine")
    BY <1>2 DEF AccountSettings
  <2>3. th'[t].at \in {"idle", "engine"}
    BY <2>1, <2>2, DoneGives, GoGives
  <2> QED
    BY <2>1, <2>3
<1>3. CASE ReadSettings(t) \/ Isolate(t)
  <2>1. th[t].at # "idle" /\ Busy(t)
    BY <1>3 DEF ReadSettings, Isolate, At, Busy, EnginePlaces
  <2>2. GiveUp(t, Entry(t))
    BY <1>1, <1>3, <2>1 DEF ReadSettings, Isolate
  <2> QED
    BY <2>1, <2>2, UserGiveUpKeeps
<1>4. CASE Isolated(t)
  <2>1. th[t].at # "idle" /\ (data' = data \/ GiveUp(t, Entry(t)))
    BY <1>4 DEF Isolated, At
  <2> QED
    BY <2>1, UserGiveUpKeeps
<1>5. CASE DropReturn(t)
  <2>1. /\ th[t].at = "return"
        /\ data' = IF th[t].good /\ ~closed THEN Touched ELSE data
    BY <1>5 DEF DropReturn, Return, At
  <2>2. th[t].good => closed
    BY <1>1, <2>1 DEF Busy
  <2> QED
    BY <2>1, <2>2
<1>6. CASE \/ Account(t) \/ StopWaiting(t) \/ LockEngine(t) \/ CallEnds(t)
           \/ NativeEnds(t) \/ TakeIdle(t) \/ Push(t) \/ DownloadEnds(t) \/ DropCheck(t)
  BY <1>6 DEF Account, StopWaiting, LockEngine, CallEnds, NativeEnds, TakeIdle, Push,
              DownloadEnds, DropCheck, disk
<1> QED
  BY <1>2, <1>3, <1>4, <1>5, <1>6 DEF User

LEMMA GoneReady ==
    ASSUME IInv, gone, NEW t \in Threads, Ready(t)
    PROVE  data' = data
<1>1. /\ th[Admin].at = "idle" /\ target = 0
      /\ \A u \in Users : Busy(u) => closed
  BY GoneAlone
<1>2. th[t].at \in ReadyPlaces
  BY DEF Ready, Gates, Load, Loaded, Initialize, At, ReadyPlaces
<1>3. t \in Users /\ th[t].at # "idle" /\ closed
  BY <1>1, <1>2 DEF Threads, ReadyPlaces, Busy, EnginePlaces
<1>4. data' = data \/ \E x : GiveUp(t, x)
  <2>1. CASE Gates(t)
    BY <2>1 DEF Gates
  <2>2. CASE Load(t)
    BY <1>3, <2>2 DEF Load
  <2>3. CASE Loaded(t)
    BY <1>3, <2>3 DEF Loaded
  <2>4. CASE Initialize(t)
    BY <1>3, <2>4 DEF Initialize
  <2> QED
    BY <2>1, <2>2, <2>3, <2>4 DEF Ready
<1> QED
  BY <1>3, <1>4, UserGiveUpKeeps

\* Admin makes no directory for a removed extension before it installs one.
LEMMA GoneAdmin ==
    ASSUME IInv, gone, gone', AdminBegins \/ AdminGoesOn
    PROVE  data' = data
<1>1. th[Admin].at = "idle" /\ current = 0 /\ target = 0
  BY GoneAlone
<1>2. ~AdminGoesOn
  BY <1>1 DEF AdminGoesOn, Validate, Insert, Activate, Publish, Backup, Swap, Retire,
              Replace, Unload, EraseSource, EraseData, Disable, Persist, TakeEngine,
              AdminLock, Invalidate, Reconfigured, At
<1>3. ~AdminBegins
  BY <1>1 DEF AdminBegins, LoadAll, Remove, Install, Upgrade, SetEnabled, Configure
<1> QED
  BY <1>2, <1>3

(* After a complete removal no operation of a thread of the manager, a       *)
(* borrower that returns late included, makes the data directory again       *)
(* before the next installation, but for the one that reads the account      *)
(* mode.  A screen that asks for the settings is no such operation.          *)
THEOREM LateBorrowersAreHarmless == Spec => BorrowersLeaveDataGone
<1>1. IInv /\ [Next]_vars
        => [gone /\ gone' /\ ~data.here /\ data'.here /\ th' # th
              => \E t \in Users : At(t, "mode") /\ th'[t] # th[t]]_vars
  <2> SUFFICES ASSUME IInv, Next, gone, gone', ~data.here, data'.here,
                      th' # th
               PROVE  \E t \in Users : At(t, "mode") /\ th'[t] # th[t]
    OBVIOUS
  <2>1. data' # data
    OBVIOUS
  <2>2. ASSUME NEW t \in Users, User(t)
        PROVE  \E u \in Users : At(u, "mode") /\ th'[u] # th[u]
    BY <2>1, <2>2, GoneUser DEF At
  <2>3. ASSUME NEW t \in Threads, Ready(t) PROVE FALSE
    BY <2>1, <2>3, GoneReady
  <2>4. ~(AdminBegins \/ AdminGoesOn)
    BY <2>1, GoneAdmin
  <2>5. ASSUME NEW t \in Users, NEW op, Begin(t, op) PROVE FALSE
    BY <2>1, <2>5 DEF Begin, disk
  <2>6. ~(ReleaseIdle \/ ShowSettings \/ ShutdownBegin \/ Shutdown \/ Restart)
    BY <2>1 DEF ReleaseIdle, ShowSettings, ShutdownBegin, Shutdown, ShutdownFlag,
                ShutdownRuntimes, ShutdownIdle, ShutdownClear, Restart, disk
  <2> QED
    BY <2>2, <2>3, <2>4, <2>5, <2>6 DEF Next
<1> QED
  BY <1>1, InvKept, PTL DEF Spec, BorrowersLeaveDataGone
=============================================================================
