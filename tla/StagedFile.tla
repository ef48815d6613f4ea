----------------------------- MODULE StagedFile -----------------------------
(***************************************************************************)
(* What the transfers of one output path share: the lock of the path, the  *)
(* staging file `<target>.partial`, the output itself, the caller's        *)
(* cancellation, and the ways the process and the disk can fail.           *)
(*                                                                         *)
(* A file is a sequence of pieces.  `partial` is what the process reads    *)
(* back; `synced` is what the last sync_all made durable.  When the        *)
(* process dies the file stays.  When the machine does, the part the two   *)
(* agree on stays and then any number of the later pieces, written or      *)
(* junk, or the whole durable content.  Renames and removals take effect   *)
(* at once and in order.                                                   *)
(***************************************************************************)
EXTENDS Naturals, Sequences, FiniteSets

CONSTANTS
    Junk,        \* a piece whose blocks were never written
    Absent,      \* no file at the output path
    Mixing,      \* may calls of both kinds use one output path?
    PowerLoss,   \* kinds of transfer that may meet the end of the machine
    MaxCalls,    \* kind of transfer -> bound on the calls
    MaxCrashes   \* bound on the crashes

ASSUME FileAssumption == MaxCrashes \in Nat

VARIABLES
    partial,     \* content of the staging file
    synced,      \* its durable content
    target,      \* content at the output path
    kind,        \* kind of transfer the path is used for: "none" at first
    keep,        \* does this call keep its staging file and checkpoint?
    cancelled,   \* does the caller's check() fail?
    calls, crashes

diskVars == <<partial, synced, target>>
callVars == <<kind, keep, cancelled, calls>>
fileVars == <<diskVars, callVars, crashes>>

FileInit ==
    /\ partial = <<>> /\ synced = <<>> /\ target = Absent
    /\ kind = "none" /\ keep = FALSE /\ cancelled = FALSE
    /\ calls = 0 /\ crashes = 0

\* ExtensionFiles::lock admits one call at a time; the caller passes how it
\* knows that the path is free.
Enter(k, kept) ==
    /\ calls < MaxCalls[k]
    /\ Mixing \/ kind \in {"none", k}
    /\ kind' = k
    /\ keep' = kept
    /\ cancelled' = FALSE
    /\ calls' = calls + 1
    /\ UNCHANGED crashes

Leave ==
    /\ keep' = FALSE
    /\ cancelled' = FALSE
    /\ UNCHANGED <<kind, calls, crashes>>

Prefix(file, length) == SubSeq(file, 1, length)

Agreed ==
    CHOOSE n \in 0..Len(partial) :
        /\ n <= Len(synced)
        /\ Prefix(partial, n) = Prefix(synced, n)
        /\ \A m \in n + 1..Len(partial) :
               m <= Len(synced) => Prefix(partial, m) # Prefix(synced, m)

Junked(n) == [i \in 1..n |-> IF i <= Agreed THEN partial[i] ELSE Junk]

Surviving ==
    IF kind \notin PowerLoss THEN {partial}
    ELSE {Prefix(partial, n) : n \in Agreed..Len(partial)}
             \cup {Junked(n) : n \in Agreed..Len(partial)}
             \cup {synced}

\* The process dies, or the machine does.
CrashFile ==
    /\ crashes < MaxCrashes
    /\ crashes' = crashes + 1
    /\ \E content \in Surviving : partial' = content /\ synced' = content
    /\ keep' = FALSE
    /\ cancelled' = FALSE
    /\ UNCHANGED <<target, kind, calls>>

\* The item is cancelled, the caller gives up, or the engine shuts down.
CancelCall ==
    /\ ~cancelled
    /\ cancelled' = TRUE
    /\ UNCHANGED <<diskVars, kind, keep, calls, crashes>>

SyncAll == synced' = partial

\* Renaming the staging file over the output takes its content along.
Promote ==
    /\ target' = partial
    /\ partial' = <<>>
    /\ synced' = <<>>

FileTypeOK ==
    /\ kind \in {"none", "segments", "ranged"}
    /\ keep \in BOOLEAN /\ cancelled \in BOOLEAN
    /\ calls \in Nat /\ crashes \in 0..MaxCrashes
=============================================================================
