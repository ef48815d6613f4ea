---------------------------- MODULE MCTransfers ----------------------------
(***************************************************************************)
(* The two kinds of transfer on one output path, and the promise they both *)
(* keep.                                                                   *)
(***************************************************************************)
EXTENDS SegmentedTransfer, RangedTransfer

CONSTANTS l1, l2

\* An object that is replaced by a shorter one, and by a longer one.
Shrinking == <<3, 2>>
Growing == <<2, 3>>
MCCalls == [segments |-> 2, ranged |-> 3]
TwoLists == {[list |-> l1, keep |-> TRUE], [list |-> l1, keep |-> FALSE],
             [list |-> l2, keep |-> TRUE]}
OneList == {[list |-> l1, keep |-> TRUE]}
MCModes ==
    {[chunked |-> FALSE, resume |-> TRUE, persistent |-> TRUE],
     [chunked |-> FALSE, resume |-> FALSE, persistent |-> FALSE],
     [chunked |-> TRUE, resume |-> TRUE, persistent |-> TRUE]}

vars == <<segVars, rangedVars, fileVars>>

Init == FileInit /\ SegInit /\ RangedInit

Next ==
    \/ at = "idle" /\ SegStep /\ UNCHANGED rangedVars
    \/ pc = "idle" /\ RangedStep /\ UNCHANGED segVars

Spec == Init /\ [][Next]_vars /\ SegFairness /\ RangedFairness

TypeOK == FileTypeOK /\ SegTypeOK /\ RangedTypeOK

\* The state is well typed and the segment workers' slots bound what is on its
\* way in the two channels.
TransferInv == TypeOK /\ SlotsBounded

CallOf ==
    IF pc = "idle" /\ at = "idle" THEN "idle"
    ELSE IF pc = "clean" \/ at = "clean" THEN "delivered" ELSE "working"

Output == INSTANCE AtomicOutput WITH
              Complete <- WholeLists \cup WholeVersions,
              call <- CallOf

\* Both kinds of transfer implement AtomicOutput: under crashes, cancellation,
\* failing requests, objects replaced by the server and short appends, the
\* output is only ever replaced by one complete list of segments or one
\* complete version of the object, and every call ends.
OutputIsAtomic == Output!Spec
=============================================================================
