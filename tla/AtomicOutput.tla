---------------------------- MODULE AtomicOutput ----------------------------
(***************************************************************************)
(* What every transfer of the download engine promises about the file at   *)
(* its output path, whatever happens to the network, the disk or the       *)
(* process: the file is replaced at most once per call, in one step, by a  *)
(* complete content; a call that does not deliver leaves it alone; and     *)
(* every call ends.                                                        *)
(***************************************************************************)
CONSTANTS
    Complete,   \* the contents that are complete files
    Absent      \* no file at the output path

VARIABLES
    target,     \* the content at the output path
    call        \* "idle", "working" or "delivered"

vars == <<target, call>>

Init ==
    /\ target = Absent
    /\ call = "idle"

Begin ==
    /\ call = "idle"
    /\ call' = "working"
    /\ UNCHANGED target

Deliver ==
    /\ call = "working"
    /\ call' = "delivered"
    /\ target' \in Complete

\* A return, with or without a delivery, or the end of the process.
End ==
    /\ call \in {"working", "delivered"}
    /\ call' = "idle"
    /\ UNCHANGED target

Next == Begin \/ Deliver \/ End

Spec == Init /\ [][Next]_vars /\ WF_vars(End)
=============================================================================
