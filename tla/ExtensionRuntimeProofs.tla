----------------------- MODULE ExtensionRuntimeProofs -----------------------
(***************************************************************************)
(* Proofs about the runtime of an extension, for any number of callers and *)
(* of threads that shut it down, any capacity of the queue and any number  *)
(* of calls.                                                               *)
(*                                                                         *)
(* The properties are not inductive alone.  That a script runs only for a  *)
(* caller that waits for it rests on the rendezvous, which is kept until   *)
(* the reply (Served).  That the caller of an interrupted script finds the *)
(* runtime closed rests on what the worker knows before it replies         *)
(* (CutIsClosed).  That a shutdown which has returned leaves nothing at    *)
(* work rests on how far each shutdown has come (ShutdownOrder): a closed  *)
(* runtime takes no session check, and a stopped worker stays stopped.     *)
(***************************************************************************)
EXTENDS ExtensionRuntime, SequenceTheorems, TLAPS

\* What the channel carries: a Stop, or the command of a caller.
Valid == {NoCommand} \cup [who : Callers, call : 0..MaxCalls]
Serving == {"execute", "unrun", "script", "cut", "ran"}

QueueValid == queue \in Seq(Valid)
CommandValid == worker.at \in Serving \cup {"offer"} => worker.cmd.who \in Callers
Served ==
    worker.at \in Serving =>
        caller[worker.cmd.who] = [at |-> "running", call |-> worker.cmd.call]
CutIsClosed == worker.at = "cut" => closed
ShutdownOrder ==
    \A s \in Shutters :
        /\ shut[s] # "none" => closed
        /\ shut[s] \in {"natives", "returned"} => worker.at = "stopped"
        /\ shut[s] = "returned" => native = {}

IInv ==
    /\ TypeOK /\ QueueValid
    /\ CommandValid /\ Served
    /\ CutIsClosed /\ RetiredBeforeReply
    /\ ShutdownOrder

-----------------------------------------------------------------------------
(* A valid command is a command. *)
LEMMA ValidCommands == Valid \subseteq Commands
  BY RuntimeAssumption DEF Valid, Commands, NoCommand

(* Taking the first command out of the channel leaves valid ones. *)
LEMMA Dequeued ==
    ASSUME QueueValid, TypeOK, queue # <<>>
    PROVE  /\ Head(queue) \in Valid
           /\ Tail(queue) \in Seq(Valid) /\ Tail(queue) \in Seq(Commands)
           /\ Len(Tail(queue)) <= Capacity
<1>1. Head(queue) \in Valid /\ Tail(queue) \in Seq(Valid)
      /\ Len(Tail(queue)) = Len(queue) - 1
  BY HeadTailProperties DEF QueueValid
<1>2. Tail(queue) \in Seq(Commands)
  BY HeadTailProperties DEF TypeOK
<1> QED
  BY <1>1, <1>2, RuntimeAssumption DEF TypeOK

(* A command that fits into the channel keeps it valid. *)
LEMMA Enqueued ==
    ASSUME QueueValid, TypeOK, NEW cmd \in Valid, Len(queue) < Capacity
    PROVE  /\ Append(queue, cmd) \in Seq(Valid)
           /\ Append(queue, cmd) \in Seq(Commands)
           /\ Len(Append(queue, cmd)) <= Capacity
<1>1. cmd \in Commands
  BY ValidCommands
<1>2. Append(queue, cmd) \in Seq(Valid) /\ Len(Append(queue, cmd)) = Len(queue) + 1
  BY AppendProperties DEF QueueValid
<1>3. Append(queue, cmd) \in Seq(Commands)
  BY <1>1, AppendProperties DEF TypeOK
<1>4. Len(queue) \in Nat
  BY LenProperties DEF QueueValid
<1> QED
  BY <1>2, <1>3, <1>4, RuntimeAssumption

-----------------------------------------------------------------------------
(* A new runtime. *)
LEMMA InitEstablishes == Init => IInv
<1> SUFFICES ASSUME Init PROVE IInv
  OBVIOUS
<1>1. queue \in Seq(Valid) /\ queue \in Seq(Commands) /\ Len(queue) = 0
  BY EmptySeq DEF Init
<1>2. queue \in Seq(Commands) /\ Len(queue) <= Capacity
  BY <1>1, RuntimeAssumption
<1>3. NoCommand \in Commands
  BY RuntimeAssumption DEF NoCommand, Commands
<1>4. caller \in [Callers -> [at : {"idle"} \cup Busy, call : 0..MaxCalls]]
  BY RuntimeAssumption DEF Init
<1>5. worker.at = "receive" /\ worker.cmd = NoCommand
  BY DEF Init
<1>6. collect \in BOOLEAN /\ closed \in BOOLEAN /\ parent \in BOOLEAN
  BY DEF Init
<1>7. calls \in 0..MaxCalls
  BY RuntimeAssumption DEF Init
<1>8. shut \in [Shutters -> {"none", "closed", "join", "natives", "returned"}]
  BY DEF Init
<1>9. expired \subseteq Callers /\ native \subseteq Callers
  BY DEF Init
<1>10. result \in [Callers -> {"none", "closed", "busy", "expired", "unrun",
                               "cut", "ran"}]
  BY DEF Init
<1>11. worker \in [at : {"receive", "offer", "execute", "unrun", "script",
                         "cut", "ran", "leaving", "stopped"}, cmd : Commands]
  BY <1>3 DEF Init
<1>12. TypeOK
  BY <1>2, <1>4, <1>6, <1>7, <1>8, <1>9, <1>10, <1>11 DEF TypeOK
<1> QED
  BY <1>1, <1>5, <1>12 DEF Init, IInv, QueueValid, CommandValid, Served, Serving,
                    CutIsClosed, RetiredBeforeReply, ShutdownOrder

(* call_with_operation: a call begins, or a closed runtime ends it.         *)
LEMMA CallPreserves ==
    ASSUME IInv, NEW c \in Callers, Call(c)
    PROVE  IInv'
<1> USE DEF IInv
<1>1. calls' = calls + 1 /\ calls' \in 0..MaxCalls /\ caller[c].at = "idle"
      /\ UNCHANGED <<queue, worker, collect, closed, parent, native, shut>>
  BY RuntimeAssumption DEF TypeOK, Call
<1>2. \/ /\ caller' = [caller EXCEPT ![c].at = "idle"]
         /\ result' = [result EXCEPT ![c] = "closed"]
         /\ expired' = expired \ {c}
      \/ /\ caller' = [caller EXCEPT ![c] = [at |-> "sending", call |-> calls + 1]]
         /\ result' = [result EXCEPT ![c] = "none"]
         /\ UNCHANGED expired
  BY DEF Call, Finish
<1>3. TypeOK'
  <2>1. caller' \in [Callers -> [at : {"idle"} \cup Busy, call : 0..MaxCalls]]
    <3>1. [at |-> "sending", call |-> calls + 1] \in [at : {"idle"} \cup Busy, call : 0..MaxCalls]
      BY <1>1 DEF Busy
    <3>2. caller' = [caller EXCEPT ![c].at = "idle"]
          \/ caller' = [caller EXCEPT ![c] = [at |-> "sending", call |-> calls + 1]]
      BY <1>2
    <3>3. caller \in [Callers -> [at : {"idle"} \cup Busy, call : 0..MaxCalls]]
      BY DEF TypeOK
    <3>4. CASE caller' = [caller EXCEPT ![c].at = "idle"]
      BY <3>3, <3>4
    <3>5. CASE caller' = [caller EXCEPT ![c] = [at |-> "sending", call |-> calls + 1]]
      BY <3>1, <3>3, <3>5
    <3> QED
      BY <3>2, <3>4, <3>5
  <2>2. /\ result' \in [Callers -> {"none", "closed", "busy", "expired", "unrun",
                                     "cut", "ran"}]
        /\ expired' \subseteq Callers
    BY <1>2 DEF TypeOK
  <2> QED
    BY <1>1, <2>1, <2>2 DEF TypeOK
<1>4. Served'
  BY <1>1, <1>2 DEF TypeOK, CommandValid, Served, Serving
<1>5. QueueValid' /\ CommandValid' /\ CutIsClosed' /\ ShutdownOrder'
  BY <1>1 DEF QueueValid, CommandValid, CutIsClosed, ShutdownOrder
<1>6. RetiredBeforeReply'
  BY <1>1, <1>2 DEF TypeOK, RetiredBeforeReply
<1> QED
  BY <1>3, <1>4, <1>5, <1>6

(* Its command enters a channel that has room, or the call ends.            *)
LEMMA SendPreserves ==
    ASSUME IInv, NEW c \in Callers, Send(c)
    PROVE  IInv'
<1> USE DEF IInv
<1>1. caller[c].at = "sending"
      /\ UNCHANGED <<worker, collect, closed, parent, native, shut, calls>>
  BY DEF Send
<1>2. CASE queue' = queue
  <2>1. /\ UNCHANGED queue
        /\ caller' = [caller EXCEPT ![c].at = "idle"]
        /\ \E how \in {"closed", "busy", "expired"} : result' = [result EXCEPT ![c] = how]
        /\ expired' = expired \ {c}
    <3>1. Len(queue) < Capacity
          => Append(queue, [who |-> c, call |-> caller[c].call]) # queue
      BY AppendProperties, LenProperties DEF TypeOK
    <3> QED
      BY <1>2, <3>1 DEF Send, Finish
  <2>2. TypeOK'
    <3>1. caller' \in [Callers -> [at : {"idle"} \cup Busy, call : 0..MaxCalls]]
      BY <2>1 DEF TypeOK
    <3>2. /\ result' \in [Callers -> {"none", "closed", "busy", "expired", "unrun",
                                       "cut", "ran"}]
          /\ expired' \subseteq Callers
      BY <2>1 DEF TypeOK
    <3> QED
      BY <1>1, <2>1, <3>1, <3>2 DEF TypeOK
  <2>3. Served'
    BY <1>1, <2>1 DEF TypeOK, CommandValid, Served, Serving
  <2> QED
    BY <1>1, <2>1, <2>2, <2>3
       DEF TypeOK, QueueValid, CommandValid, CutIsClosed, RetiredBeforeReply, ShutdownOrder
<1>3. CASE queue' # queue
  <2> DEFINE cmd == [who |-> c, call |-> caller[c].call]
  <2>1. /\ queue' = Append(queue, cmd) /\ Len(queue) < Capacity
        /\ caller' = [caller EXCEPT ![c].at = "waiting"]
        /\ UNCHANGED <<result, expired>>
    BY <1>3 DEF Send
  <2>2. cmd \in Valid
    <3>1. caller[c].call \in 0..MaxCalls
      BY DEF TypeOK
    <3> QED
      BY <3>1 DEF Valid
  <2> HIDE DEF cmd
  <2>3. QueueValid' /\ queue' \in Seq(Commands) /\ Len(queue') <= Capacity
    BY <2>1, <2>2, Enqueued DEF QueueValid
  <2>4. caller' \in [Callers -> [at : {"idle"} \cup Busy, call : 0..MaxCalls]]
    BY <2>1 DEF TypeOK, Busy
  <2>5. TypeOK'
    BY <1>1, <2>1, <2>3, <2>4 DEF TypeOK
  <2>6. Served'
    BY <1>1, <2>1 DEF TypeOK, CommandValid, Served, Serving
  <2> QED
    BY <1>1, <2>1, <2>3, <2>5, <2>6
       DEF TypeOK, CommandValid, CutIsClosed, RetiredBeforeReply, ShutdownOrder
<1> QED
  BY <1>2, <1>3

(* A deadline, a caller that leaves the queue, and the session checks.      *)
LEMMA CallerStepsPreserve ==
    ASSUME IInv, NEW c \in Callers,
           Expire(c) \/ LeaveQueue(c) \/ NativeBegin(c) \/ NativeEnd(c)
    PROVE  IInv'
<1> USE DEF IInv
<1>1. TypeOK'
  <2>1. CASE Expire(c)
    BY <2>1 DEF TypeOK, Expire
  <2>2. CASE LeaveQueue(c)
    BY <2>2 DEF TypeOK, LeaveQueue, Finish
  <2>3. CASE NativeBegin(c)
    BY <2>3, RuntimeAssumption DEF TypeOK, NativeBegin
  <2>4. CASE NativeEnd(c)
    BY <2>4 DEF TypeOK, NativeEnd
  <2> QED
    BY <2>1, <2>2, <2>3, <2>4
<1>2. UNCHANGED <<queue, worker, closed, shut>>
  BY DEF Expire, LeaveQueue, NativeBegin, NativeEnd
<1>3. QueueValid' /\ CommandValid' /\ CutIsClosed'
  BY <1>2 DEF QueueValid, CommandValid, CutIsClosed
<1>4. Served'
  BY <1>2 DEF TypeOK, Expire, LeaveQueue, Finish, NativeBegin, NativeEnd, Served, CommandValid, Serving
<1>5. RetiredBeforeReply'
  BY <1>2 DEF TypeOK, Expire, LeaveQueue, Finish, NativeBegin, NativeEnd, RetiredBeforeReply
<1>6. ShutdownOrder'
  BY <1>2 DEF Expire, LeaveQueue, NativeBegin, NativeEnd, ShutdownOrder, IsClosed
<1> QED
  BY <1>1, <1>3, <1>4, <1>5, <1>6

(* The worker takes the next command.                                       *)
LEMMA ReceivePreserves ==
    ASSUME IInv, Receive
    PROVE  IInv'
<1> USE DEF IInv
<1>1. /\ Head(queue) \in Valid
      /\ Tail(queue) \in Seq(Valid) /\ Tail(queue) \in Seq(Commands)
      /\ Len(Tail(queue)) <= Capacity
  BY Dequeued DEF Receive
<1>2. Head(queue) \in Commands /\ (Head(queue) # NoCommand => Head(queue).who \in Callers)
  BY <1>1, ValidCommands DEF Valid
<1>3. /\ worker.at = "receive"
      /\ worker'.at = IF Head(queue) = NoCommand THEN "leaving" ELSE "offer"
      /\ worker'.cmd = Head(queue)
      /\ queue' = Tail(queue)
      /\ UNCHANGED <<caller, result, expired, collect, closed, parent, native, shut, calls>>
  BY DEF Receive, Works
<1>4. worker' \in [at : {"receive", "offer", "execute", "unrun", "script",
                         "cut", "ran", "leaving", "stopped"}, cmd : Commands]
  BY <1>2 DEF Receive
<1>5. TypeOK' /\ QueueValid'
  BY <1>1, <1>3, <1>4 DEF TypeOK, QueueValid
<1>6. CommandValid' /\ Served' /\ CutIsClosed'
  BY <1>2, <1>3 DEF CommandValid, Served, CutIsClosed, Serving
<1>7. RetiredBeforeReply' /\ ShutdownOrder'
  BY <1>3 DEF RetiredBeforeReply, ShutdownOrder
<1> QED
  BY <1>5, <1>6, <1>7

(* The rendezvous: from here on the caller waits for this command's answer. *)
LEMMA OfferPreserves ==
    ASSUME IInv, Offer
    PROVE  IInv'
<1> USE DEF IInv
<1>1. worker.at = "offer" /\ worker.cmd.who \in Callers
  BY DEF Offer, Works, CommandValid
<1>2. NoCommand \in Commands
  BY RuntimeAssumption DEF Commands, NoCommand
<1>3. UNCHANGED <<result, expired, queue, collect, closed, parent, native, shut, calls>>
  BY DEF Offer
<1>4. CASE Waits(worker.cmd)
  <2>1. /\ worker' = [at |-> "execute", cmd |-> worker.cmd]
        /\ caller' = [caller EXCEPT ![worker.cmd.who].at = "running"]
        /\ caller[worker.cmd.who] = [at |-> "waiting", call |-> worker.cmd.call]
    BY <1>4 DEF Offer, GoTo, Waits
  <2>2. TypeOK'
    BY <1>1, <1>3, <2>1 DEF TypeOK, Busy
  <2>3. Served' /\ CommandValid'
    BY <1>1, <2>1 DEF TypeOK, Served, CommandValid
  <2> QED
    BY <1>1, <1>3, <2>1, <2>2, <2>3
       DEF QueueValid, CutIsClosed, RetiredBeforeReply, ShutdownOrder
<1>5. CASE ~Waits(worker.cmd)
  <2>1. worker' = [at |-> "receive", cmd |-> NoCommand] /\ UNCHANGED caller
    BY <1>5 DEF Offer, GoTo
  <2>2. TypeOK'
    BY <1>2, <1>3, <2>1 DEF TypeOK
  <2> QED
    BY <1>1, <1>3, <2>1, <2>2
       DEF QueueValid, CommandValid, Served, Serving, CutIsClosed, RetiredBeforeReply,
           ShutdownOrder
<1> QED
  BY <1>4, <1>5

(* The steps between the rendezvous and the reply, which only the worker    *)
(* takes.                                                                   *)
LEMMA ScriptPreserves ==
    ASSUME IInv, Execute \/ ScriptInterrupted \/ ScriptEnds
    PROVE  IInv'
<1> USE DEF IInv
<1>1. worker.at \in Serving /\ worker'.at \in Serving /\ worker'.cmd = worker.cmd
      /\ worker'.at # "stopped" /\ worker.at # "stopped"
  BY DEF Execute, ScriptInterrupted, ScriptEnds, Works, GoTo, Serving
<1>2. UNCHANGED <<caller, result, expired, queue, collect, parent, native, shut, calls>>
      /\ (closed => closed') /\ closed' \in BOOLEAN
  BY DEF Execute, ScriptInterrupted, ScriptEnds, TypeOK
<1>3. TypeOK'
  BY <1>2 DEF TypeOK, Execute, ScriptInterrupted, ScriptEnds, GoTo
<1>4. CommandValid' /\ Served'
  BY <1>1, <1>2 DEF CommandValid, Served
<1>5. CutIsClosed'
  BY DEF Execute, ScriptInterrupted, ScriptEnds, GoTo, CutIsClosed
<1> QED
  BY <1>1, <1>2, <1>3, <1>4, <1>5 DEF QueueValid, RetiredBeforeReply, ShutdownOrder

(* The reply, and the end of the worker.                                    *)
LEMMA WorkerLeavesPreserves ==
    ASSUME IInv, Idle \/ Reply \/ Leave
    PROVE  IInv'
<1> USE DEF IInv
<1>1. NoCommand \in Commands
  BY RuntimeAssumption DEF Commands, NoCommand
<1>2. worker'.at \notin Serving \cup {"offer"} /\ worker.at # "stopped"
      /\ UNCHANGED <<parent, native, shut, calls>> /\ (closed => closed')
  BY DEF Idle, Reply, Leave, Works, GoTo, Serving
<1>3. TypeOK' /\ QueueValid'
  <2>1. CASE Idle
    <3>1. UNCHANGED <<caller, result, expired, queue, closed, parent, native, shut, calls>>
      BY <2>1 DEF Idle
    <3>2. worker' = worker \/ worker' = [at |-> "leaving", cmd |-> NoCommand]
      BY <2>1 DEF Idle, GoTo
    <3>3. collect' \in BOOLEAN
      BY <2>1 DEF Idle, TypeOK
    <3> QED
      BY <1>1, <3>1, <3>2, <3>3 DEF TypeOK, QueueValid
  <2>2. CASE Reply
    <3>1. worker.cmd.who \in Callers
      BY <2>2 DEF Reply, CommandValid, Serving
    <3> QED
      BY <2>2, <1>1, <3>1 DEF TypeOK, QueueValid, Reply, GoTo, Finish
  <2>3. CASE Leave
    <3>1. queue' \in Seq(Valid) /\ queue' \in Seq(Commands) /\ Len(queue') <= Capacity
      BY <2>3, EmptySeq, RuntimeAssumption DEF Leave
    <3> QED
      BY <2>3, <3>1 DEF TypeOK, QueueValid, Leave, GoTo
  <2> QED
    BY <2>1, <2>2, <2>3
<1>4. CommandValid' /\ Served' /\ CutIsClosed'
  BY <1>2 DEF CommandValid, Served, CutIsClosed, Serving
<1>5. RetiredBeforeReply'
  BY DEF TypeOK, Idle, Reply, Leave, Finish, RetiredBeforeReply, CutIsClosed
<1>6. ShutdownOrder'
  BY <1>2 DEF ShutdownOrder
<1> QED
  BY <1>3, <1>4, <1>5, <1>6

(* shutdown, and that of the environment.                                   *)
LEMMA ShutdownPreserves ==
    ASSUME IInv, NEW s \in Shutters, ShutClose(s) \/ Shutdown(s) \/ ParentCloses
    PROVE  IInv'
<1> USE DEF IInv
<1>1. UNCHANGED <<caller, result, expired, worker, collect, native, calls>>
      /\ (closed => closed')
  BY DEF ShutClose, Shutdown, ShutStop, ShutJoin, ShutReturn, ParentCloses
<1>2. QueueValid' /\ queue' \in Seq(Commands) /\ Len(queue') <= Capacity
  <2>1. CASE queue' = queue
    BY <2>1 DEF QueueValid, TypeOK
  <2>2. CASE queue' # queue
    <3>1. queue' = Append(queue, NoCommand) /\ Len(queue) < Capacity
      BY <2>2 DEF ShutClose, Shutdown, ShutStop, ShutJoin, ShutReturn, ParentCloses
    <3>2. NoCommand \in Valid
      BY DEF Valid
    <3> QED
      BY <3>1, <3>2, Enqueued DEF QueueValid
  <2> QED
    BY <2>1, <2>2
<1>3. closed' \in BOOLEAN /\ parent' \in BOOLEAN
  BY DEF TypeOK, ShutClose, Shutdown, ShutStop, ShutJoin, ShutReturn, ParentCloses
<1>4. shut' \in [Shutters -> {"none", "closed", "join", "natives", "returned"}]
  BY DEF TypeOK, ShutClose, Shutdown, ShutStop, ShutJoin, ShutReturn, ParentCloses
<1>5. TypeOK'
  BY <1>1, <1>2, <1>3, <1>4 DEF TypeOK
<1>6. CommandValid' /\ Served' /\ CutIsClosed' /\ RetiredBeforeReply'
  BY <1>1 DEF CommandValid, Served, CutIsClosed, RetiredBeforeReply
<1>7. ShutdownOrder'
  BY <1>1 DEF TypeOK, ShutdownOrder, ShutClose, Shutdown, ShutStop, ShutJoin, ShutReturn,
              ParentCloses, Works
<1> QED
  BY <1>2, <1>5, <1>6, <1>7

-----------------------------------------------------------------------------
(* The invariant is inductive: every step of every thread preserves it.     *)
LEMMA NextPreserves ==
    ASSUME IInv, [Next]_vars
    PROVE  IInv'
<1>1. ASSUME NEW c \in Callers, Call(c) \/ Send(c)
      PROVE  IInv'
  BY <1>1, CallPreserves, SendPreserves
<1>2. ASSUME NEW c \in Callers, Expire(c) \/ LeaveQueue(c) \/ NativeBegin(c) \/ NativeEnd(c)
      PROVE  IInv'
  BY <1>2, CallerStepsPreserve
<1>3. CASE Worker \/ ScriptEnds
  BY <1>3, ReceivePreserves, OfferPreserves, ScriptPreserves, WorkerLeavesPreserves DEF Worker
<1>4. ASSUME NEW s \in Shutters, ShutClose(s) \/ Shutdown(s)
      PROVE  IInv'
  BY <1>4, ShutdownPreserves
<1>5. CASE ParentCloses
  BY <1>5 DEF ParentCloses, IInv, TypeOK, QueueValid, CommandValid, Served, CutIsClosed,
              RetiredBeforeReply, ShutdownOrder
<1>6. CASE UNCHANGED vars
  BY <1>6 DEF vars, IInv, TypeOK, QueueValid, CommandValid, Served, CutIsClosed,
              RetiredBeforeReply, ShutdownOrder
<1> QED
  BY <1>1, <1>2, <1>3, <1>4, <1>5, <1>6 DEF Next

LEMMA Inductive == Spec => []IInv
  BY InitEstablishes, NextPreserves, PTL DEF Spec

(* The runtime's state is well typed (in particular the channel never       *)
(* exceeds its capacity), and run_worker executes no command whose caller   *)
(* has left: RuntimeInv, for any callers, capacity and number of calls.     *)
THEOREM NoScriptForNobody == Spec => []RuntimeInv
<1>1. IInv => RuntimeInv
  BY DEF IInv, RuntimeInv, NoAbandonedRun, Served, Serving
<1> QED
  BY <1>1, Inductive, PTL

(* execute closes the runtime before it replies: whoever hears that its     *)
(* script was interrupted finds the runtime closed.                         *)
THEOREM InterruptedMeansRetired == Spec => []RetiredBeforeReply
<1>1. IInv => RetiredBeforeReply
  BY DEF IInv
<1> QED
  BY <1>1, Inductive, PTL

(* A shutdown that has returned leaves neither the worker nor a session     *)
(* check at work, however many shutdowns and checks overlap.                *)
THEOREM ShutdownLeavesQuiet == Spec => []ShutdownIsQuiet
<1>1. IInv => ShutdownIsQuiet
  BY DEF IInv, ShutdownOrder, ShutdownIsQuiet, Works
<1> QED
  BY <1>1, Inductive, PTL
=============================================================================
