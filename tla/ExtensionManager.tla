-------------------------- MODULE ExtensionManager --------------------------
(***************************************************************************)
(* Installation and life of one extension: extensions/src/manager.rs with  *)
(* manager/install.rs, lifecycle.rs, info.rs (load_all) and downloads.rs   *)
(* (the pool of download runtimes), over the environment's stores and      *)
(* runtimes (environment.rs).                                              *)
(*                                                                         *)
(* The mutation lock lets one thread at a time install, upgrade, remove,   *)
(* enable or configure: that thread is Admin.  The users call the          *)
(* extension, download with it or check its session, and meet Admin in the *)
(* registry, in the engine lock and the pool lock of an entry, and in the  *)
(* data directory.  A runtime is open or closed (ExtensionRuntime has the  *)
(* rest).  Scripts may fail, files may resist, the process may die.        *)
(***************************************************************************)
EXTENDS Naturals, FiniteSets

CONSTANTS
    Users, Admin,       \* threads
    None,
    Versions,           \* versions of the package, positive numbers
    Settings,           \* contents of the settings; 0 is the empty object
    Entries, Vms,       \* numbers of Installed values and of runtimes
    AccountMode,        \* the manifest has accountDownloadMode
    Screens,            \* does a screen ask for settings (getExtensionSettings)?
    MaxOps,             \* bound on the operations of Admin
    MaxEvents           \* bound on failures, pressure and crashes

ASSUME ManagerAssumption ==
    /\ Admin \notin Users /\ None \notin Users \cup {Admin}
    /\ Versions \subseteq Nat \ {0} /\ 0 \in Settings
    /\ Entries \subseteq Nat \ {0} /\ Vms \subseteq Nat \ {0}
    /\ AccountMode \in BOOLEAN /\ Screens \in BOOLEAN
    /\ MaxOps \in Nat /\ MaxEvents \in Nat

Threads == Users \cup {Admin}

VARIABLES
    current,    \* the registry's entry of the extension, or 0
    entry,      \* number -> Installed
    engine,     \* number -> the thread that holds the engine lock
    pool,       \* number -> the thread that holds the lock of the downloads
    vm,         \* number -> the runtime
    th,         \* thread -> its operation
    target,     \* version of the source directory, or 0
    backup,     \* version in the backup directory of an upgrade, or 0
    leftover,   \* versions in directories that nobody removes any more
    data,       \* the data directory and the settings in it
    closed,     \* the environment's flag
    halt,       \* where shutdown stands; the manager's flag is up unless "no"
    wanted,     \* history: the version that was installed and not removed
    gone,       \* history: removed, and not installed again
    stale,      \* history: runtimes that were lent when memory ran short
    ops, events

disk == <<target, backup, leftover, data>>
history == <<wanted, gone, stale>>
bounds == <<ops, events>>
vars == <<current, entry, engine, pool, vm, th, disk, closed, halt, history,
          bounds>>

NoEntry == [version |-> 0, enabled |-> FALSE, error |-> FALSE, primary |-> 0,
            initialized |-> FALSE, idle |-> 0, generation |-> 0,
            settings |-> None, active |-> {}]
NoVm == [entry |-> 0, settings |-> 0, open |-> FALSE]
NoData == [here |-> FALSE, settings |-> 0, enabled |-> FALSE]
Rest == [at |-> "idle", op |-> None, e |-> 0, old |-> 0, vm |-> 0,
         generation |-> 0, settings |-> 0, good |-> FALSE]

\* A process that has just started.
Fresh ==
    /\ current' = 0 /\ closed' = FALSE /\ halt' = "no"
    /\ entry' = [e \in Entries |-> NoEntry]
    /\ engine' = [e \in Entries |-> None] /\ pool' = [e \in Entries |-> None]
    /\ vm' = [v \in Vms |-> NoVm]
    /\ th' = [t \in Threads |-> Rest]
    /\ stale' = {}

Init ==
    /\ current = 0 /\ closed = FALSE /\ halt = "no"
    /\ entry = [e \in Entries |-> NoEntry]
    /\ engine = [e \in Entries |-> None] /\ pool = [e \in Entries |-> None]
    /\ vm = [v \in Vms |-> NoVm]
    /\ th = [t \in Threads |-> Rest]
    /\ target = 0 /\ backup = 0 /\ leftover = {} /\ data = NoData
    /\ wanted = 0 /\ gone = FALSE /\ stale = {}
    /\ ops = 0 /\ events = 0

-----------------------------------------------------------------------------
At(t, place) == th[t].at = place
Entry(t) == entry[th[t].e]
Changed(t, changes) ==
    [f \in DOMAIN Rest |-> IF f \in DOMAIN changes THEN changes[f] ELSE th[t][f]]
Set(t, changes) == th' = [th EXCEPT ![t] = Changed(t, changes)]
Go(t, place) == Set(t, [at |-> place])
Done(t) == th' = [th EXCEPT ![t] = Rest]

Locked(t, e) == engine' = [engine EXCEPT ![e] = t]
Released(t) == engine' = [e \in Entries |-> IF engine[e] = t THEN None ELSE engine[e]]

Event == events < MaxEvents /\ events' = events + 1
NoEvent == UNCHANGED events

\* Numbers that nothing refers to.
UsedVms == {th[t].vm : t \in Threads} \cup {v \in Vms : vm[v].open}
           \cup UNION {{entry[e].primary, entry[e].idle} \cup entry[e].active
                       : e \in Entries}
UsedEntries == {current} \cup {th[t].e : t \in Threads} \cup {th[t].old : t \in Threads}
Least(S) == CHOOSE n \in S : \A m \in S : n <= m
FreeVms == Vms \ UsedVms
FreeEntries == Entries \ UsedEntries

\* ExtensionManager::check: both flags.
Alive == halt = "no" /\ ~closed

\* ExtensionRuntime::is_closed, with the environment's flag.
Open(v) == v # 0 /\ vm[v].open /\ ~closed
\* ExtensionRuntime::shutdown of several runtimes: it waits for native calls.
Unused(S) == \A t \in Users : ~(At(t, "native") /\ th[t].vm \in S)
Shut(S) == vm' = [v \in Vms |-> IF v \in S THEN [vm[v] EXCEPT !.open = FALSE] ELSE vm[v]]

\* invalidate_download_pool on an entry's value; the idle runtime is shut.
Invalidated(x) ==
    [x EXCEPT !.generation = @ + 1, !.settings = None, !.idle = 0]

\* teardown: the pool, the lent runtimes and the primary one.
\* Mutant: lent runtimes go on.
RuntimesButActive(x) == {x.idle, x.primary} \ {0}

Runtimes(x) == ({x.idle, x.primary} \cup x.active) \ {0}
TornDown(x) ==
    [Invalidated(x) EXCEPT !.active = {}, !.primary = 0, !.initialized = FALSE]

\* ExtensionManager::failed.
Failed(x) == [x EXCEPT !.enabled = FALSE, !.error = TRUE]

\* ExtensionEnvironment::store makes the directory of a store that it opens.
Touched == [data EXCEPT !.here = TRUE]

-----------------------------------------------------------------------------
(* ready_with_lease, by the thread that holds the engine lock. *)

\* Operations that carry a lease.
Leased(t) == th[t].op \in {"download", "preflight"}
\* Which callers of ready mark the entry as failed when it fails.
Marks(op) == op \in {"call", "enable", "configure"}
\* What ready's caller does after a failure, given the entry's new value.
GiveUp(t, x) ==
    /\ entry' = [entry EXCEPT ![th[t].e] = IF Marks(th[t].op) THEN Failed(x) ELSE x]
    /\ data' = IF th[t].op = "enable" /\ ~closed
               THEN [Touched EXCEPT !.enabled = FALSE] ELSE data
    /\ Released(t) /\ Done(t)

\* Where the operation goes on.
After(op) == CASE op = "call" -> "calling" [] op = "download" -> "settings"
             [] op = "preflight" -> "native" [] op = "enable" -> "persist"
             [] op = "configure" -> "initialize" [] op = "upgrade" -> "backup"

\* Gates are checked even when a runtime exists; a closed one is forgotten.
Gates(t) ==
    /\ At(t, "ready")
    /\ \/ /\ Event
          /\ GiveUp(t, Failed(Entry(t)))
          /\ UNCHANGED vm
       \/ /\ closed /\ NoEvent
          /\ GiveUp(t, Entry(t))
          /\ UNCHANGED vm
       \/ /\ ~closed /\ NoEvent
          /\ IF Entry(t).primary # 0 /\ ~Open(Entry(t).primary)
             THEN /\ pool[th[t].e] = None
                  /\ entry' = [entry EXCEPT ![th[t].e] =
                        [Invalidated(@) EXCEPT !.primary = 0, !.initialized = FALSE]]
                  /\ Shut({Entry(t).idle})
                  /\ Go(t, "load")
             ELSE /\ Go(t, IF Entry(t).primary = 0 THEN "load" ELSE "init")
                  /\ UNCHANGED <<entry, vm>>
          /\ UNCHANGED <<engine, data>>
    /\ UNCHANGED <<current, pool, target, backup, leftover, closed, halt,
                   history, ops>>

\* prepare_with_lease: the source is read, load_internal entered.
Load(t) ==
    /\ At(t, "load")
    /\ IF closed \/ (th[t].op # "upgrade" /\ target = 0)
       THEN GiveUp(t, Entry(t))
       ELSE /\ Go(t, "loading") /\ data' = Touched
            /\ UNCHANGED <<entry, engine>>
    /\ UNCHANGED <<current, pool, vm, target, backup, leftover, closed, halt,
                   history, bounds>>

\* Mutant: the flag is not looked at again when the runtime is registered.
LoadedRegardless(t) ==
    /\ At(t, "loading") /\ NoEvent /\ FreeVms # {}
    /\ LET v == Least(FreeVms) IN
       /\ vm' = [vm EXCEPT ![v] = [NoVm EXCEPT !.entry = th[t].e, !.open = TRUE]]
       /\ entry' = [entry EXCEPT ![th[t].e].primary = v]
    /\ Go(t, "init")
    /\ UNCHANGED <<current, engine, pool, disk, closed, halt, history, ops>>

\* load_internal ends: the runtime is registered unless all is closed by now.
Loaded(t) ==
    /\ At(t, "loading")
    /\ \/ /\ ~closed /\ NoEvent /\ FreeVms # {}
          /\ LET v == Least(FreeVms) IN
             /\ vm' = [vm EXCEPT ![v] = [NoVm EXCEPT !.entry = th[t].e, !.open = TRUE]]
             /\ entry' = [entry EXCEPT ![th[t].e].primary = v]
          /\ Go(t, "init")
          /\ UNCHANGED <<engine, data>>
       \/ /\ closed /\ NoEvent
          /\ GiveUp(t, Entry(t)) /\ UNCHANGED vm
       \/ /\ ~closed /\ Event
          /\ GiveUp(t, Entry(t)) /\ UNCHANGED vm
    /\ UNCHANGED <<current, pool, target, backup, leftover, closed, halt,
                   history, ops>>

\* The settings are given to the script, once.
Initialize(t) ==
    /\ At(t, "init")
    /\ LET x == Entry(t) IN
       \/ /\ x.initialized \/ th[t].op = "configure"
          /\ entry' = [entry EXCEPT ![th[t].e].error = FALSE]
          /\ Set(t, [at |-> After(th[t].op), vm |-> x.primary])
          /\ IF th[t].op = "preflight" THEN Released(t) ELSE UNCHANGED engine
          /\ NoEvent /\ UNCHANGED <<vm, data>>
       \/ /\ ~x.initialized /\ th[t].op # "configure" /\ ~closed
          /\ entry' = [entry EXCEPT ![th[t].e].error = FALSE,
                                    ![th[t].e].initialized = TRUE]
          /\ vm' = [vm EXCEPT ![x.primary].settings = data.settings]
          /\ data' = Touched
          /\ Set(t, [at |-> After(th[t].op), vm |-> x.primary])
          /\ IF th[t].op = "preflight" THEN Released(t) ELSE UNCHANGED engine
          /\ NoEvent
       \/ /\ ~x.initialized /\ th[t].op # "configure"
          /\ IF closed THEN NoEvent ELSE data.settings # 0 /\ Event
          /\ pool[th[t].e] = None /\ Unused(Runtimes(x))
          /\ Shut(Runtimes(x))
          /\ GiveUp(t, TornDown(x))
       \/ \* the lease was cancelled: only this runtime ends
          /\ ~x.initialized /\ Leased(t) /\ ~closed /\ data.settings # 0 /\ Event
          /\ Unused({x.primary}) /\ Shut({x.primary})
          /\ GiveUp(t, [x EXCEPT !.primary = 0])
    /\ UNCHANGED <<current, pool, target, backup, leftover, closed, halt,
                   history, ops>>

Ready(t) == Gates(t) \/ Load(t) \/ Loaded(t) \/ Initialize(t)

-----------------------------------------------------------------------------
(* Users. *)

\* ExtensionManager::current, which looks at the manager's flag only.
Usable(e) == current = e /\ halt = "no" /\ entry[e].enabled

\* call, provider_operation_value, invoke_action, post_process_hook,
\* download_with_lease and preflight_session up to the engine lock.
Begin(t, op) ==
    /\ At(t, "idle") /\ current # 0 /\ Alive /\ Usable(current)
    /\ Set(t, [op |-> op, e |-> current,
               at |-> IF op = "preflight" /\ AccountMode THEN "account" ELSE "engine"])
    /\ UNCHANGED <<current, entry, engine, pool, vm, disk, closed, halt,
                   history, bounds>>

\* account_download_enabled: get(id), and then the settings.
Account(t) ==
    /\ At(t, "account")
    /\ IF current = 0 \/ ~Alive THEN Done(t) ELSE Go(t, "mode")
    /\ UNCHANGED <<current, entry, engine, pool, vm, disk, closed, halt,
                   history, bounds>>
AccountSettings(t) ==
    /\ At(t, "mode")
    /\ IF closed THEN Done(t) /\ UNCHANGED data
       ELSE /\ data' = Touched
            /\ \/ Go(t, "engine")
               \/ Done(t)
    /\ UNCHANGED <<current, entry, engine, pool, vm, target, backup, leftover,
                   closed, halt, history, bounds>>

\* download_engine polls the lock, the manager and the lease.
StopWaiting(t) ==
    /\ At(t, "engine") /\ Leased(t)
    /\ IF ~Alive THEN NoEvent ELSE Event
    /\ Done(t)
    /\ UNCHANGED <<current, entry, engine, pool, vm, disk, closed, halt,
                   history, ops>>

\* The engine lock, and whether the extension is still what it was.
LockEngine(t) ==
    /\ At(t, "engine") /\ t \in Users
    /\ IF Usable(th[t].e)
       THEN engine[th[t].e] = None /\ Locked(t, th[t].e) /\ Go(t, "ready")
       ELSE engine[th[t].e] = None /\ Done(t) /\ UNCHANGED engine
    /\ UNCHANGED <<current, entry, pool, vm, disk, closed, halt, history, bounds>>

\* A call on the primary runtime, with the engine lock; an interrupted one
\* retires it.
CallEnds(t) ==
    /\ At(t, "calling")
    /\ \/ UNCHANGED <<vm, events>>
       \/ Event /\ Shut({th[t].vm})
    /\ Released(t) /\ Done(t)
    /\ UNCHANGED <<current, entry, pool, disk, closed, halt, history, ops>>

\* preflight_signed_session, without a lock.
NativeEnds(t) ==
    /\ At(t, "native")
    /\ Done(t)
    /\ UNCHANGED <<current, entry, engine, pool, vm, disk, closed, halt,
                   history, bounds>>

\* borrow_download: the settings, ...
ReadSettings(t) ==
    /\ At(t, "settings")
    /\ IF closed THEN GiveUp(t, Entry(t))
       ELSE /\ Set(t, [at |-> "pool", settings |-> data.settings])
            /\ data' = Touched
            /\ UNCHANGED <<entry, engine>>
    /\ UNCHANGED <<current, pool, vm, target, backup, leftover, closed, halt,
                   history, bounds>>

\* Mutant: the idle runtime is taken whatever it was initialised with.
TakeIdleAnyway(t) ==
    /\ At(t, "pool") /\ pool[th[t].e] = None
    /\ Set(t, [at |-> IF Open(Entry(t).idle) THEN "push" ELSE "isolate",
               vm |-> IF Open(Entry(t).idle) THEN Entry(t).idle ELSE 0,
               generation |-> Entry(t).generation])
    /\ entry' = [entry EXCEPT ![th[t].e].idle = 0, ![th[t].e].settings = th[t].settings]
    /\ UNCHANGED <<current, engine, pool, vm, disk, closed, halt, history, bounds>>

\* ... the pool, invalidated when it has others, and its idle runtime, ...
TakeIdle(t) ==
    /\ At(t, "pool") /\ pool[th[t].e] = None
    /\ LET x == Entry(t)
           other == x.settings # th[t].settings
           y == IF other THEN [Invalidated(x) EXCEPT !.settings = th[t].settings] ELSE x
       IN /\ entry' = [entry EXCEPT ![th[t].e] = [y EXCEPT !.idle = 0]]
          /\ IF Open(y.idle)
             THEN Set(t, [at |-> "push", vm |-> y.idle, generation |-> y.generation])
             ELSE Set(t, [at |-> "isolate", vm |-> 0, generation |-> y.generation])
          /\ IF Open(y.idle) THEN UNCHANGED vm ELSE Shut({x.idle})
    /\ UNCHANGED <<current, engine, pool, disk, closed, halt, history, bounds>>

\* ... or a new isolated runtime, ...
Isolate(t) ==
    /\ At(t, "isolate")
    /\ IF closed THEN GiveUp(t, Entry(t))
       ELSE Go(t, "isolating") /\ data' = Touched /\ UNCHANGED <<entry, engine>>
    /\ UNCHANGED <<current, pool, vm, target, backup, leftover, closed, halt,
                   history, bounds>>
Isolated(t) ==
    /\ At(t, "isolating")
    /\ \/ /\ ~closed /\ NoEvent /\ FreeVms # {}
          /\ LET v == Least(FreeVms) IN
             /\ vm' = [vm EXCEPT ![v] = [entry |-> th[t].e, open |-> TRUE,
                                         settings |-> th[t].settings]]
             /\ Set(t, [at |-> "push", vm |-> v])
             /\ stale' = stale \ {v}
          /\ UNCHANGED <<entry, engine, data>>
       \/ /\ IF closed THEN NoEvent ELSE Event
          /\ GiveUp(t, Entry(t)) /\ UNCHANGED <<vm, stale>>
    /\ UNCHANGED <<current, pool, target, backup, leftover, closed, halt,
                   wanted, gone, ops>>

\* ... which is listed before the engine is free again.
Push(t) ==
    /\ At(t, "push") /\ pool[th[t].e] = None
    /\ entry' = [entry EXCEPT ![th[t].e].active = @ \cup {th[t].vm}]
    /\ Released(t) /\ Go(t, "borrowed")
    /\ UNCHANGED <<current, pool, vm, disk, closed, halt, history, bounds>>

\* The download ends: well, badly, or by an interruption.
DownloadEnds(t) ==
    /\ At(t, "borrowed")
    /\ \/ Open(th[t].vm) /\ Set(t, [at |-> "drop", good |-> TRUE]) /\ UNCHANGED vm
       \/ Go(t, "drop") /\ UNCHANGED vm
       \/ Go(t, "drop") /\ Shut({th[t].vm})
    /\ UNCHANGED <<current, entry, engine, pool, disk, closed, halt, history,
                   bounds>>

\* Mutant: the borrower does not look whether the extension is still there.
DropCheckless(t) ==
    /\ At(t, "drop") /\ pool[th[t].e] = None
    /\ pool' = [pool EXCEPT ![th[t].e] = t]
    /\ Set(t, [at |-> "return", good |-> th[t].good])
    /\ UNCHANGED <<current, entry, engine, vm, disk, closed, halt, history, bounds>>

\* Drop for Borrowed: the pool lock, and whether the runtime is reusable.
DropCheck(t) ==
    /\ At(t, "drop") /\ pool[th[t].e] = None
    /\ pool' = [pool EXCEPT ![th[t].e] = t]
    /\ Set(t, [at |-> "return",
               good |-> th[t].good /\ Open(th[t].vm) /\ Usable(th[t].e)])
    /\ UNCHANGED <<current, entry, engine, vm, disk, closed, halt, history, bounds>>

Return(t, keep) ==
    /\ At(t, "return")
    /\ entry' = [entry EXCEPT ![th[t].e].active = @ \ {th[t].vm},
                              ![th[t].e].idle = IF keep THEN th[t].vm ELSE @]
    /\ IF keep THEN UNCHANGED vm ELSE Shut({th[t].vm})
    /\ data' = IF th[t].good /\ ~closed THEN Touched ELSE data
    /\ pool' = [pool EXCEPT ![th[t].e] = None]
    /\ Done(t)
    /\ UNCHANGED <<current, engine, target, backup, leftover, closed, halt,
                   history, bounds>>
Matching(t) == th[t].good /\ ~closed /\ Entry(t).settings = data.settings
               /\ Entry(t).idle = 0

\* Mutant: an older generation returns to the pool.
DropReturnOld(t) == Return(t, Matching(t))

\* The rest of it: the settings are compared, the runtime kept or torn down.
DropReturn(t) ==
    Return(t, Matching(t) /\ Entry(t).generation = th[t].generation)

User(t) == \/ Account(t) \/ AccountSettings(t) \/ StopWaiting(t) \/ LockEngine(t)
           \/ CallEnds(t) \/ NativeEnds(t) \/ ReadSettings(t) \/ TakeIdle(t) \/ Isolate(t)
           \/ Isolated(t) \/ Push(t) \/ DownloadEnds(t) \/ DropCheck(t)
           \/ DropReturn(t)

\* release_idle_download_runtimes, when memory runs short.  The entries are
\* listed before their pools are locked, so the entry may be one that remove
\* has taken out of the registry since (once it is torn down, nobody can
\* borrow from it or return to it).
ReleaseIdle ==
    /\ Event /\ Alive
    /\ \E e \in ({current} \ {0})
                \cup (IF At(Admin, "unload") THEN {th[Admin].e} ELSE {}) :
        /\ pool[e] = None
        /\ Shut({entry[e].idle})
        /\ entry' = [entry EXCEPT ![e] = Invalidated(@)]
        /\ stale' = {v \in stale : vm[v].open} \cup entry[e].active
                    \cup {th[t].vm : t \in {u \in Users : At(u, "push")
                                                          /\ th[u].e = e}}
    /\ UNCHANGED <<current, engine, pool, th, disk, closed, halt, wanted, gone, ops>>

\* ExtensionEnvironment::settings for a screen, which asks neither the registry
\* nor for a lock, and makes the directory of a store that it opens.
ShowSettings ==
    /\ Screens /\ ~closed
    /\ data' = Touched
    /\ UNCHANGED <<current, entry, engine, pool, vm, th, target, backup, leftover,
                   closed, halt, history, bounds>>

-----------------------------------------------------------------------------
(* Admin: the operations under the mutation lock. *)

Starts(changes) ==
    /\ At(Admin, "idle") /\ Alive /\ ops < MaxOps
    /\ ops' = ops + 1
    /\ Set(Admin, changes)

\* load_all, load_directory.
LoadAll ==
    /\ current = 0 /\ target # 0 /\ FreeEntries # {}
    /\ LET e == Least(FreeEntries) IN
       /\ Starts([at |-> "validate", op |-> "load", e |-> e])
       /\ entry' = [entry EXCEPT ![e] = [NoEntry EXCEPT !.version = target,
                                                        !.enabled = data.enabled]]
    /\ data' = Touched
    /\ UNCHANGED <<current, engine, pool, vm, target, backup, leftover, closed,
                   halt, history, events>>

\* install: a staged copy, validated before it is activated.
Install(version) ==
    /\ current = 0 /\ target = 0 /\ FreeEntries # {}
    /\ LET e == Least(FreeEntries) IN
       /\ Starts([at |-> "validate", op |-> "install", e |-> e])
       /\ entry' = [entry EXCEPT ![e] = [NoEntry EXCEPT !.version = version,
                                                        !.enabled = TRUE]]
    /\ gone' = FALSE
    /\ UNCHANGED <<current, engine, pool, vm, disk, closed, halt, wanted, stale,
                   events>>

\* upgrade_package up to the validation of the candidate.
Upgrade(version) ==
    /\ current # 0 /\ FreeEntries # {}
    /\ version > entry[current].version
    /\ LET e == Least(FreeEntries)
           on == entry[current].enabled
       IN /\ Starts([at |-> IF on THEN "ready" ELSE "validate", op |-> "upgrade",
                     e |-> e, old |-> current])
          /\ entry' = [entry EXCEPT ![e] = [NoEntry EXCEPT !.version = version,
                                                           !.enabled = on]]
          /\ IF on THEN Locked(Admin, e) ELSE UNCHANGED engine
    /\ UNCHANGED <<current, pool, vm, disk, closed, halt, history, events>>

\* validate: a runtime that ends with its validation.
Validate ==
    /\ At(Admin, "validate")
    /\ data' = IF closed THEN data ELSE Touched
    /\ \E good \in BOOLEAN :
        /\ IF good THEN ~closed /\ NoEvent ELSE IF closed THEN NoEvent ELSE Event
        /\ entry' = [entry EXCEPT ![th[Admin].e] = IF good THEN @ ELSE Failed(@)]
        /\ IF th[Admin].op = "upgrade"
           THEN IF good THEN Go(Admin, "backup") ELSE Done(Admin)
           ELSE Go(Admin, IF th[Admin].op = "load" THEN "insert" ELSE "activate")
    /\ UNCHANGED <<current, engine, pool, vm, target, backup, leftover, closed,
                   halt, history, ops>>

\* load_directory, install_package: entries.insert.
Insert ==
    /\ At(Admin, "insert")
    /\ current' = IF Alive THEN th[Admin].e ELSE current
    /\ Done(Admin)
    /\ UNCHANGED <<entry, engine, pool, vm, disk, closed, halt, history, bounds>>

\* install_package: the rename of the stage, ...
Activate ==
    /\ At(Admin, "activate")
    /\ \/ /\ Alive /\ NoEvent
          /\ target' = Entry(Admin).version /\ wanted' = Entry(Admin).version
          /\ Go(Admin, "enabled")
       \/ /\ IF Alive THEN Event ELSE NoEvent
          /\ Done(Admin) /\ UNCHANGED <<target, wanted>>
    /\ UNCHANGED <<current, entry, engine, pool, vm, backup, leftover, data,
                   closed, halt, gone, stale, ops>>

\* ... the enabled flag on disk and the registry.
Publish ==
    /\ At(Admin, "enabled")
    /\ IF closed THEN entry' = [entry EXCEPT ![th[Admin].e] = Failed(@)] /\ UNCHANGED data
       ELSE /\ data' = [Touched EXCEPT !.enabled = Entry(Admin).enabled]
            /\ UNCHANGED entry
    /\ current' = th[Admin].e
    /\ Done(Admin)
    /\ UNCHANGED <<engine, pool, vm, target, backup, leftover, closed, halt,
                   history, bounds>>

\* The candidate is torn down: nobody else knows it.
DropCandidate ==
    /\ entry' = [entry EXCEPT ![th[Admin].e] = NoEntry]
    /\ Shut(Runtimes(Entry(Admin)))
    /\ Released(Admin) /\ Done(Admin)

\* upgrade_package: the current source is moved aside, ...
Backup ==
    /\ At(Admin, "backup")
    /\ \/ /\ Alive /\ NoEvent /\ target # 0
          /\ backup' = target /\ target' = 0
          /\ Released(Admin) /\ Go(Admin, "swap")
          /\ UNCHANGED <<entry, vm>>
       \/ /\ IF ~Alive \/ target = 0 THEN NoEvent ELSE Event
          /\ DropCandidate /\ UNCHANGED <<target, backup>>
    /\ UNCHANGED <<current, pool, leftover, data, closed, halt, history, ops>>

\* Mutant: the backup is removed although it could not be moved back.
SwapForgetful ==
    /\ At(Admin, "swap")
    /\ \/ /\ NoEvent
          /\ target' = Entry(Admin).version /\ wanted' = Entry(Admin).version
          /\ Go(Admin, "retire")
          /\ UNCHANGED <<entry, engine, vm, backup, leftover>>
       \/ /\ Event /\ DropCandidate
          /\ backup' = 0
          /\ UNCHANGED <<target, leftover, wanted>>
    /\ UNCHANGED <<current, pool, data, closed, halt, gone, stale, ops>>

\* ... the new one takes its place, or the old one comes back, or the backup
\* is kept when even that fails.
Swap ==
    /\ At(Admin, "swap")
    /\ \/ /\ NoEvent
          /\ target' = Entry(Admin).version /\ wanted' = Entry(Admin).version
          /\ Go(Admin, "retire")
          /\ UNCHANGED <<entry, engine, vm, backup, leftover>>
       \/ /\ Event /\ DropCandidate
          /\ backup' = 0
          /\ \/ target' = backup /\ UNCHANGED leftover
             \/ leftover' = leftover \cup {backup} /\ UNCHANGED target
          /\ UNCHANGED wanted
    /\ UNCHANGED <<current, pool, data, closed, halt, gone, stale, ops>>

\* The old entry is disabled, ...
Retire ==
    /\ At(Admin, "retire")
    /\ entry' = [entry EXCEPT ![th[Admin].old].enabled = FALSE]
    /\ Go(Admin, "replace")
    /\ UNCHANGED <<current, engine, pool, vm, disk, closed, halt, history, bounds>>

\* The engine lock of the entry that is to be torn down, and then, with the
\* lock of its pool too, its runtimes.
Doomed == IF At(Admin, "replace") THEN th[Admin].old ELSE th[Admin].e
TakeEngine ==
    /\ th[Admin].at \in {"replace", "unload", "stop"} /\ engine[Doomed] = None
    /\ Locked(Admin, Doomed)
    /\ UNCHANGED <<current, entry, pool, vm, th, disk, closed, halt, history, bounds>>
TearDown ==
    /\ engine[Doomed] = Admin /\ pool[Doomed] = None
    /\ Unused(Runtimes(entry[Doomed])) /\ Shut(Runtimes(entry[Doomed]))
    /\ entry' = [entry EXCEPT ![Doomed] = TornDown(@)]
    /\ Released(Admin)

\* ... torn down and replaced; the backup directory is dropped.
Replace ==
    /\ At(Admin, "replace")
    /\ TearDown
    /\ current' = th[Admin].e
    /\ backup' = 0
    /\ Done(Admin)
    /\ UNCHANGED <<pool, target, leftover, data, closed, halt, history,
                   bounds>>

\* remove: unload_locked takes the entry out of the registry, ...
Remove ==
    /\ current # 0
    /\ Starts([at |-> "unload", op |-> "remove", e |-> current])
    /\ entry' = [entry EXCEPT ![current].enabled = FALSE]
    /\ current' = 0
    /\ wanted' = 0
    /\ UNCHANGED <<engine, pool, vm, disk, closed, halt, gone, stale, events>>

\* ... tears it down, ...
Unload ==
    /\ At(Admin, "unload")
    /\ TearDown
    /\ Set(Admin, [at |-> "source", good |-> TRUE])
    /\ UNCHANGED <<current, pool, disk, closed, halt, history, bounds>>

\* ... and removes both directories, whatever happens to one of them.
EraseSource ==
    /\ At(Admin, "source")
    /\ \/ target' = 0 /\ Go(Admin, "data") /\ NoEvent
       \/ Set(Admin, [at |-> "data", good |-> FALSE]) /\ Event /\ UNCHANGED target
    /\ UNCHANGED <<current, entry, engine, pool, vm, backup, leftover, data,
                   closed, halt, history, ops>>
EraseData ==
    /\ At(Admin, "data")
    /\ \E good \in BOOLEAN :
        /\ IF good THEN ~closed /\ NoEvent ELSE IF closed THEN NoEvent ELSE Event
        /\ data' = IF good THEN NoData ELSE data
        /\ IF good /\ th[Admin].good
           THEN gone' = TRUE /\ UNCHANGED <<current, entry>>
           ELSE /\ entry' = [entry EXCEPT ![th[Admin].e] = Failed(@)]
                /\ current' = th[Admin].e
                /\ UNCHANGED gone
    /\ Done(Admin)
    /\ UNCHANGED <<engine, pool, vm, target, backup, leftover, closed, halt,
                   wanted, stale, ops>>

\* set_enabled: the status first, then the engine, then the disk.
SetEnabled(on) ==
    /\ current # 0
    /\ Starts([at |-> IF on THEN "engine" ELSE "stop", e |-> current,
               op |-> IF on THEN "enable" ELSE "disable"])
    /\ entry' = [entry EXCEPT ![current].enabled = on,
                              ![current].error = @ /\ on]
    /\ UNCHANGED <<current, engine, pool, vm, disk, closed, halt, history, events>>
Disable ==
    /\ At(Admin, "stop")
    /\ TearDown
    /\ data' = IF closed THEN data ELSE [Touched EXCEPT !.enabled = FALSE]
    /\ Done(Admin)
    /\ UNCHANGED <<current, pool, target, backup, leftover, closed,
                   halt, history, bounds>>
Persist ==
    /\ At(Admin, "persist")
    /\ data' = IF closed THEN data ELSE [Touched EXCEPT !.enabled = TRUE]
    /\ Released(Admin) /\ Done(Admin)
    /\ UNCHANGED <<current, entry, pool, vm, target, backup, leftover, closed,
                   halt, history, bounds>>

\* update_settings: what the caller sent replaces the settings on disk, the
\* enabled flag in them included, ...
Configure(value, flag) ==
    /\ current # 0
    /\ Starts([at |-> "engine", op |-> "configure", e |-> current,
               settings |-> value])
    /\ data' = [here |-> TRUE, settings |-> value, enabled |-> flag]
    /\ UNCHANGED <<current, entry, engine, pool, vm, target, backup, leftover,
                   closed, halt, history, events>>

\* ... the engine, ...
AdminLock ==
    /\ At(Admin, "engine") /\ engine[th[Admin].e] = None
    /\ IF th[Admin].op = "configure" /\ ~Alive
       THEN Done(Admin) /\ UNCHANGED engine
       ELSE /\ Locked(Admin, th[Admin].e)
            /\ Go(Admin, IF th[Admin].op = "enable" THEN "ready" ELSE "invalidate")
    /\ UNCHANGED <<current, entry, pool, vm, disk, closed, halt, history, bounds>>

\* ... the pool ...
Invalidate ==
    /\ At(Admin, "invalidate") /\ pool[th[Admin].e] = None
    /\ Shut({Entry(Admin).idle})
    /\ entry' = [entry EXCEPT ![th[Admin].e] = Invalidated(@)]
    /\ Go(Admin, "ready")
    /\ UNCHANGED <<current, engine, pool, disk, closed, halt, history, bounds>>

\* ... and the script.
Reconfigured ==
    /\ At(Admin, "initialize")
    /\ \/ /\ Open(th[Admin].vm) /\ NoEvent
          /\ vm' = [vm EXCEPT ![th[Admin].vm].settings = th[Admin].settings]
          /\ entry' = [entry EXCEPT ![th[Admin].e].initialized = TRUE]
       \/ /\ IF Open(th[Admin].vm) THEN Event ELSE NoEvent
          /\ entry' = [entry EXCEPT ![th[Admin].e] = Failed(@)]
          /\ UNCHANGED vm
    /\ Released(Admin) /\ Done(Admin)
    /\ UNCHANGED <<current, pool, disk, closed, halt, history, ops>>

\* Bound: releases come out one by one, so the first package is not the newest.
Offered == {version \in Versions : version <= ops + 1}

AdminBegins ==
    \/ LoadAll \/ Remove
    \/ \E version \in Offered : Install(version) \/ Upgrade(version)
    \/ \E on \in BOOLEAN : SetEnabled(on)
    \/ \E value \in Settings, flag \in BOOLEAN : Configure(value, flag)

AdminGoesOn ==
    \/ Validate \/ Insert \/ Activate \/ Publish \/ Backup \/ Swap \/ Retire
    \/ Replace \/ Unload \/ EraseSource \/ EraseData \/ Disable \/ Persist
    \/ TakeEngine \/ AdminLock \/ Invalidate \/ Reconfigured

-----------------------------------------------------------------------------
(* The end of the process. *)

\* shutdown: the manager's flag, ...
ShutdownBegin ==
    /\ halt = "no" /\ Event
    /\ halt' = "manager"
    /\ UNCHANGED <<current, entry, engine, pool, vm, th, disk, closed, history,
                   ops>>
\* ... the environment's, ...
ShutdownFlag ==
    /\ halt = "manager"
    /\ closed' = TRUE /\ halt' = "flag"
    /\ UNCHANGED <<current, entry, engine, pool, vm, th, disk, history, bounds>>
\* ... the registered runtimes, ...
ShutdownRuntimes ==
    /\ halt = "flag" /\ Unused(Vms)
    /\ Shut(Vms) /\ halt' = "runtimes"
    /\ UNCHANGED <<current, entry, engine, pool, th, disk, closed, history, bounds>>
\* ... operations of the environment that are still going on, ...
ShutdownIdle ==
    /\ halt = "runtimes"
    /\ \A t \in Threads : th[t].at \notin {"loading", "isolating"}
    /\ halt' = "idle"
    /\ UNCHANGED <<current, entry, engine, pool, vm, th, disk, closed, history,
                   bounds>>
\* ... the mutation lock and the registry.
ShutdownClear ==
    /\ halt = "idle" /\ At(Admin, "idle")
    /\ current' = 0 /\ halt' = "down"
    /\ UNCHANGED <<entry, engine, pool, vm, th, disk, closed, history, bounds>>
Shutdown == ShutdownFlag \/ ShutdownRuntimes \/ ShutdownIdle \/ ShutdownClear

\* The process dies, or ends after a shutdown, and is started again.
Restart ==
    /\ IF halt = "down" THEN NoEvent ELSE Event
    /\ Fresh
    /\ leftover' = leftover \cup ({backup} \ {0}) /\ backup' = 0
    /\ UNCHANGED <<target, data, wanted, gone, ops>>

-----------------------------------------------------------------------------
Next ==
    \/ \E t \in Users, op \in {"call", "download", "preflight"} : Begin(t, op)
    \/ \E t \in Users : User(t)
    \/ \E t \in Threads : Ready(t)
    \/ ReleaseIdle \/ ShowSettings \/ AdminBegins \/ AdminGoesOn
    \/ ShutdownBegin \/ Shutdown \/ Restart

Spec == Init /\ [][Next]_vars

(* Each thread goes on (scripts and sessions have deadlines, locks are given *)
(* back), and so does a shutdown.  A mutex may be won by others for ever     *)
(* unless waiting is strongly fair; std's mutexes queue their waiters.       *)
Fairness ==
    /\ \A t \in Users : SF_vars(User(t))
    /\ \A t \in Threads : WF_vars(Ready(t))
    /\ SF_vars(AdminGoesOn)
    /\ WF_vars(Shutdown)

FairSpec == Spec /\ Fairness

-----------------------------------------------------------------------------
Places == {"idle", "engine", "ready", "load", "loading", "init", "calling",
           "account", "mode", "native", "settings", "pool", "isolate",
           "isolating", "push", "borrowed", "drop", "return", "validate",
           "insert", "activate", "enabled", "backup", "swap", "retire",
           "replace", "unload", "source", "data", "stop", "persist",
           "initialize", "invalidate"}

(* Type invariant of Installed, Engine, Pool and the disk; a pooled runtime  *)
(* is idle or lent, never both.                                              *)
TypeOK ==
    /\ current \in Entries \cup {0}
    /\ \A e \in Entries :
        LET x == entry[e] IN
        /\ x.version \in Versions \cup {0}
        /\ x.enabled \in BOOLEAN /\ x.error \in BOOLEAN /\ x.initialized \in BOOLEAN
        /\ x.primary \in Vms \cup {0} /\ x.idle \in Vms \cup {0}
        /\ x.active \subseteq Vms /\ x.idle \notin x.active
        /\ x.settings \in Settings \cup {None} /\ x.generation \in Nat
    /\ engine \in [Entries -> Threads \cup {None}]
    /\ pool \in [Entries -> Users \cup {None}]
    /\ vm \in [Vms -> [entry : Entries \cup {0}, settings : Settings, open : BOOLEAN]]
    /\ \A t \in Threads : th[t].at \in Places
    /\ {target, backup} \subseteq Versions \cup {0} /\ leftover \subseteq Versions
    /\ data \in [here : BOOLEAN, settings : Settings, enabled : BOOLEAN]

(* While remove deletes the source and the data, no runtime of the extension *)
(* is open: teardown shuts the primary, the idle and every lent runtime, and *)
(* none is loaded, lent or kept after it (lifecycle.rs).                     *)
QuietRemoval ==
    th[Admin].at \in {"source", "data"} =>
        \A v \in Vms : vm[v].entry = th[Admin].e /\ vm[v].open => FALSE

(* "Join every native operation before source/data can be removed": no       *)
(* session check of the extension runs by then (teardown).  A check on a     *)
(* runtime that was interrupted, and forgotten by ready_with_lease, does.    *)
ChecksEndFirst ==
    th[Admin].at \in {"source", "data"} =>
        \A t \in Users : At(t, "native") => vm[th[t].vm].entry # th[Admin].e

(* A download runs in a runtime that was initialised with the settings its   *)
(* own borrow read: a pooled runtime never serves with older ones            *)
(* (borrow_download against update_settings and the idle slot).              *)
BorrowedFresh ==
    \A t \in Users : At(t, "borrowed") => vm[th[t].vm].settings = th[t].settings

(* The state is well typed and a lent runtime has its borrower's settings.   *)
ManagerInv == TypeOK /\ BorrowedFresh

(* "Borrowed workers may finish but cannot repopulate the pool created       *)
(* before this request": a runtime that was lent when memory ran short is    *)
(* never idle in the pool again, whoever borrowed in the meantime.           *)
PressureHolds == \A e \in Entries : entry[e].idle \notin stale

(* A source that was installed and not removed exists in some directory,     *)
(* through failing renames and a process that dies between two of them       *)
(* (upgrade_package and its backup).                                         *)
SourceKept == wanted # 0 => wanted \in {target, backup} \cup leftover

(* When shutdown clears the registry no runtime is open, not even one that   *)
(* was being loaded when the flag was raised (environment.rs, load_internal).*)
ShutdownIsQuiet ==
    halt \in {"idle", "down"} => \A v \in Vms : ~vm[v].open

(* "a late borrower cannot resurrect uninstalled data": after a complete     *)
(* removal the data directory stays away until the next installation.        *)
DataStaysGone == gone => ~data.here

(* What the code keeps of it: no operation of a thread of the manager, a     *)
(* borrower that returns late included, makes the directory of a removed     *)
(* extension again (Drop for Borrowed looks it up first), but for the one    *)
(* that reads the account mode (account_download_enabled: no lock between    *)
(* lookup and settings).  ShowSettings, which is no such operation, does.    *)
BorrowersLeaveDataGone ==
    [][gone /\ gone' /\ ~data.here /\ data'.here /\ th' # th
         => \E t \in Users : At(t, "mode") /\ th'[t] # th[t]]_vars

(* Every operation ends: the engine, pool and mutation locks are taken in    *)
(* one order.                                                                *)
OperationsEnd == \A t \in Threads : (th[t].at # "idle") ~> (th[t].at = "idle")
=============================================================================
