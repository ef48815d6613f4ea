-------------------------- MODULE ExtensionRuntime --------------------------
(***************************************************************************)
(* The virtual machine of one extension (extensions/src/runtime.rs,        *)
(* runtime/vm.rs, runtime/control.rs): one worker thread that owns the     *)
(* VM, a bounded queue of commands, callers that wait for their turn and   *)
(* then for their result, session checks that bypass the VM, and shutdown. *)
(*                                                                         *)
(* A caller hands its command over by a rendezvous: until then it watches  *)
(* its own deadline and lease and may leave, after it the worker answers.  *)
(* JavaScript, host calls and arguments are left out: a call succeeds,     *)
(* throws or is interrupted.                                               *)
(***************************************************************************)
EXTENDS Naturals, Sequences, FiniteSets

CONSTANTS
    Callers,
    Shutters,       \* threads that call shutdown (the last drop is one, too)
    Stop,           \* Command::Stop
    Capacity,       \* QUEUE_CAPACITY
    MaxCalls        \* bound on the calls

ASSUME RuntimeAssumption ==
    /\ Stop \notin Callers
    /\ Capacity \in Nat \ {0} /\ MaxCalls \in Nat

VARIABLES
    caller,     \* caller -> where its call stands
    result,     \* caller -> how its last call ended
    expired,    \* callers whose deadline passed or whose lease is cancelled
    queue,      \* the channel: commands, by their caller or Stop, and numbers
    worker,     \* the worker thread: [at, cmd]
    collect,    \* collect_at is set: the next receive has a timeout
    closed,     \* Control.closed
    parent,     \* Control.parent_closed: the environment is shut down
    native,     \* callers counted in native_calls
    shut,       \* shutter -> where its shutdown stands
    calls       \* number of calls made

vars == <<caller, result, expired, queue, worker, collect, closed, parent,
          native, shut, calls>>

\* A command carries the number of its call: the caller of an older call has
\* dropped the receiver of that call, whatever it waits for now.
NoCommand == [who |-> Stop, call |-> 0]
Busy == {"sending", "waiting", "running"}

Init ==
    /\ caller = [c \in Callers |-> [at |-> "idle", call |-> 0]]
    /\ result = [c \in Callers |-> "none"]
    /\ expired = {}
    /\ queue = <<>>
    /\ worker = [at |-> "receive", cmd |-> NoCommand]
    /\ collect = TRUE
    /\ closed = FALSE /\ parent = FALSE
    /\ native = {}
    /\ shut = [s \in Shutters |-> "none"]
    /\ calls = 0

IsClosed == closed \/ parent
\* Mutant: the interrupt handler does not look at the operation.
InterruptedByClose(c) == IsClosed

\* Control::check during the call of c.
Interrupted(c) == IsClosed \/ c \in expired
Works(at) == worker.at = at
Waits(cmd) == caller[cmd.who] = [at |-> "waiting", call |-> cmd.call]

-----------------------------------------------------------------------------
(* Callers. *)

Finish(c, how) ==
    /\ caller' = [caller EXCEPT ![c].at = "idle"]
    /\ result' = [result EXCEPT ![c] = how]
    /\ expired' = expired \ {c}

\* call_with_operation: the look at is_closed.
Call(c) ==
    /\ caller[c].at = "idle" /\ c \notin native /\ calls < MaxCalls
    /\ calls' = calls + 1
    /\ IF IsClosed
       THEN Finish(c, "closed")
       ELSE /\ caller' = [caller EXCEPT ![c] = [at |-> "sending", call |-> calls + 1]]
            /\ result' = [result EXCEPT ![c] = "none"]
            /\ UNCHANGED expired
    /\ UNCHANGED <<queue, worker, collect, closed, parent, native, shut>>

\* operation.check() fails before the command is made, or try_send: the runtime
\* may have been closed since Call.
Send(c) ==
    /\ caller[c].at = "sending"
    /\ \/ c \in expired /\ Finish(c, "expired") /\ UNCHANGED queue
       \/ Works("stopped") /\ Finish(c, "closed") /\ UNCHANGED queue
       \/ Len(queue) = Capacity /\ ~Works("stopped") /\ Finish(c, "busy") /\ UNCHANGED queue
       \/ /\ Len(queue) < Capacity /\ ~Works("stopped")
          /\ caller' = [caller EXCEPT ![c].at = "waiting"]
          /\ queue' = Append(queue, [who |-> c, call |-> caller[c].call])
          /\ UNCHANGED <<result, expired>>
    /\ UNCHANGED <<worker, collect, closed, parent, native, shut, calls>>

\* The deadline of the operation passes, or its lease is cancelled.
Expire(c) ==
    /\ caller[c].at \in Busy
    /\ expired' = expired \cup {c}
    /\ UNCHANGED <<caller, result, queue, worker, collect, closed, parent,
                   native, shut, calls>>

\* The loop around waiting.recv_timeout gives up.
LeaveQueue(c) ==
    /\ caller[c].at = "waiting"
    /\ Interrupted(c) \/ worker.at = "stopped"
    /\ Finish(c, IF c \in expired THEN "expired" ELSE "closed")
    /\ UNCHANGED <<queue, worker, collect, closed, parent, native, shut,
                   calls>>

\* Mutant: a session check begins whether or not the runtime is closed.
NativeBeginLate(c) ==
    /\ caller[c].at = "idle" /\ c \notin native /\ calls < MaxCalls
    /\ calls' = calls + 1
    /\ native' = native \cup {c}
    /\ UNCHANGED <<caller, result, expired, queue, worker, collect, closed,
                   parent, shut>>

\* preflight_signed_session: counted under the lock of native_calls.
NativeBegin(c) ==
    /\ caller[c].at = "idle" /\ c \notin native /\ calls < MaxCalls
    /\ calls' = calls + 1
    /\ native' = IF IsClosed THEN native ELSE native \cup {c}
    /\ UNCHANGED <<caller, result, expired, queue, worker, collect, closed,
                   parent, shut>>

\* Drop for NativeOperation.
NativeEnd(c) ==
    /\ c \in native
    /\ native' = native \ {c}
    /\ UNCHANGED <<caller, result, expired, queue, worker, collect, closed,
                   parent, shut, calls>>

-----------------------------------------------------------------------------
(* The worker: run_worker. *)

GoTo(at) ==
    worker' = [at |-> at,
               cmd |-> IF at \in {"receive", "leaving"} THEN NoCommand
                       ELSE worker.cmd]

\* recv and recv_timeout with a command in the channel.
Receive ==
    /\ Works("receive") /\ queue # <<>>
    /\ queue' = Tail(queue)
    /\ worker' = [at |-> IF Head(queue) = NoCommand THEN "leaving" ELSE "offer",
                  cmd |-> Head(queue)]
    /\ UNCHANGED <<caller, result, expired, collect, closed, parent, native,
                   shut, calls>>

\* recv_timeout ran out and the channel is empty: leave, or collect garbage.
Idle ==
    /\ Works("receive") /\ queue = <<>> /\ collect
    /\ IF IsClosed THEN GoTo("leaving") /\ UNCHANGED collect
       ELSE collect' = FALSE /\ UNCHANGED worker
    /\ UNCHANGED <<caller, result, expired, queue, closed, parent, native,
                   shut, calls>>

\* Mutant: the command runs although its caller has left.
OfferRegardless ==
    /\ Works("offer")
    /\ GoTo("execute")
    /\ caller' = IF Waits(worker.cmd)
                 THEN [caller EXCEPT ![worker.cmd.who].at = "running"] ELSE caller
    /\ UNCHANGED <<result, expired, queue, collect, closed, parent, native,
                   shut, calls>>

\* started.send: the rendezvous, or its failure because the caller has left.
Offer ==
    /\ Works("offer")
    /\ IF Waits(worker.cmd)
       THEN /\ GoTo("execute")
            /\ caller' = [caller EXCEPT ![worker.cmd.who].at = "running"]
       ELSE GoTo("receive") /\ UNCHANGED caller
    /\ UNCHANGED <<result, expired, queue, collect, closed, parent, native,
                   shut, calls>>

\* execute: the check before the VM is touched.
Execute ==
    /\ Works("execute")
    /\ GoTo(IF Interrupted(worker.cmd.who) THEN "unrun" ELSE "script")
    /\ UNCHANGED <<caller, result, expired, queue, collect, closed, parent,
                   native, shut, calls>>

\* Mutant: the VM is not retired before the reply.
ScriptInterruptedLate ==
    /\ Works("script") /\ Interrupted(worker.cmd.who)
    /\ GoTo("cut")
    /\ UNCHANGED <<caller, result, expired, queue, collect, closed, parent,
                   native, shut, calls>>

\* The interrupt handler ends the script, execute closes the runtime.
ScriptInterrupted ==
    /\ Works("script") /\ Interrupted(worker.cmd.who)
    /\ GoTo("cut")
    /\ closed' = TRUE
    /\ UNCHANGED <<caller, result, expired, queue, collect, parent, native,
                   shut, calls>>

ScriptEnds ==
    /\ Works("script") /\ ~Interrupted(worker.cmd.who)
    /\ GoTo("ran")
    /\ UNCHANGED <<caller, result, expired, queue, collect, closed, parent,
                   native, shut, calls>>

\* reply.send, and the look at Control.closed after it.
Reply ==
    /\ worker.at \in {"unrun", "cut", "ran"}
    /\ GoTo(IF closed THEN "leaving" ELSE "receive")
    /\ collect' = TRUE
    /\ Finish(worker.cmd.who, worker.at)
    /\ UNCHANGED <<queue, closed, parent, native, shut, calls>>

\* The receiver is dropped; worker_control.close().
Leave ==
    /\ Works("leaving")
    /\ GoTo("stopped")
    /\ queue' = <<>>
    /\ closed' = TRUE
    /\ UNCHANGED <<caller, result, expired, collect, parent, native, shut,
                   calls>>

Worker == Receive \/ Idle \/ Offer \/ Execute \/ ScriptInterrupted
          \/ Reply \/ Leave

-----------------------------------------------------------------------------
(* shutdown. *)

ShutClose(s) ==
    /\ shut[s] = "none"
    /\ shut' = [shut EXCEPT ![s] = "closed"]
    /\ closed' = TRUE
    /\ UNCHANGED <<caller, result, expired, queue, worker, collect, parent,
                   native, calls>>

\* try_send(Stop): its failure is ignored.
ShutStop(s) ==
    /\ shut[s] = "closed"
    /\ shut' = [shut EXCEPT ![s] = "join"]
    /\ queue' = IF Len(queue) < Capacity /\ ~Works("stopped")
                THEN Append(queue, NoCommand) ELSE queue
    /\ UNCHANGED <<caller, result, expired, worker, collect, closed, parent,
                   native, calls>>

\* worker.join(); a second shutdown waits for the lock that is held meanwhile.
ShutJoin(s) ==
    /\ shut[s] = "join" /\ Works("stopped")
    /\ shut' = [shut EXCEPT ![s] = "natives"]
    /\ UNCHANGED <<caller, result, expired, queue, worker, collect, closed,
                   parent, native, calls>>

ShutReturn(s) ==
    /\ shut[s] = "natives" /\ native = {}
    /\ shut' = [shut EXCEPT ![s] = "returned"]
    /\ UNCHANGED <<caller, result, expired, queue, worker, collect, closed,
                   parent, native, calls>>

Shutdown(s) == ShutStop(s) \/ ShutJoin(s) \/ ShutReturn(s)

\* ExtensionEnvironment::shutdown raises the flag before it shuts runtimes down.
ParentCloses ==
    /\ ~parent
    /\ parent' = TRUE
    /\ UNCHANGED <<caller, result, expired, queue, worker, collect, closed,
                   native, shut, calls>>

Next ==
    \/ \E c \in Callers : \/ Call(c) \/ Send(c) \/ Expire(c) \/ LeaveQueue(c)
                          \/ NativeBegin(c) \/ NativeEnd(c)
    \/ Worker \/ ScriptEnds
    \/ \E s \in Shutters : ShutClose(s) \/ Shutdown(s)
    \/ ParentCloses

Spec == Init /\ [][Next]_vars

(* Every thread goes on, and deadlines pass.  A script need not end by      *)
(* itself: the interrupt handler and the host calls look at the deadline.   *)
Fairness ==
    /\ WF_vars(Worker)
    /\ \A c \in Callers : /\ WF_vars(Expire(c) /\ expired' # expired)
                          /\ WF_vars(Send(c)) /\ WF_vars(LeaveQueue(c))
                          /\ WF_vars(NativeEnd(c))
    /\ \A s \in Shutters : WF_vars(Shutdown(s))

FairSpec == Spec /\ Fairness

-----------------------------------------------------------------------------
Commands == [who : Callers \cup {Stop}, call : 0..MaxCalls]

\* Type invariant of the runtime's state (ExtensionRuntime, Control).
TypeOK ==
    /\ caller \in [Callers -> [at : {"idle"} \cup Busy, call : 0..MaxCalls]]
    /\ result \in [Callers -> {"none", "closed", "busy", "expired", "unrun",
                               "cut", "ran"}]
    /\ expired \subseteq Callers /\ native \subseteq Callers
    /\ queue \in Seq(Commands) /\ Len(queue) <= Capacity
    /\ worker \in [at : {"receive", "offer", "execute", "unrun", "script",
                         "cut", "ran", "leaving", "stopped"}, cmd : Commands]
    /\ collect \in BOOLEAN /\ closed \in BOOLEAN /\ parent \in BOOLEAN
    /\ shut \in [Shutters -> {"none", "closed", "join", "natives", "returned"}]
    /\ calls \in 0..MaxCalls

(* A script runs only for a caller that waits for it: a command whose       *)
(* caller expired or was cancelled in the queue is never executed (the      *)
(* rendezvous of run_worker).                                               *)
NoAbandonedRun ==
    worker.at \in {"execute", "script"} =>
        caller[worker.cmd.who] = [at |-> "running", call |-> worker.cmd.call]

(* The state is well typed and no script runs for a caller that has left.   *)
RuntimeInv == TypeOK /\ NoAbandonedRun

(* Whoever is told of an interruption in the middle of a script already     *)
(* sees a closed runtime, so that it cannot use the VM with the jobs that   *)
(* the script left (execute closes before it replies).                      *)
RetiredBeforeReply == \A c \in Callers : result[c] = "cut" => closed

(* When a shutdown has returned, neither the worker nor a session check is  *)
(* at work: the manager may delete the extension's files.                   *)
ShutdownIsQuiet ==
    (\E s \in Shutters : shut[s] = "returned") => Works("stopped") /\ native = {}

(* Every call ends, with the worker's answer or without it: a full queue, a *)
(* worker that left and a shutdown leave nobody waiting.                    *)
CallsEnd == \A c \in Callers : (caller[c].at \in Busy) ~> (caller[c].at = "idle")

(* Shutdown interrupts queued work, too, and returns.                       *)
ShutdownReturns == \A s \in Shutters : (shut[s] # "none") ~> (shut[s] = "returned")
=============================================================================
