--------------------------- MODULE MCNativeWorker ---------------------------
(* Small instances of NativeWorker for TLC. *)
EXTENDS NativeWorker

CONSTANTS a, b

SingleRequest == {<<a>>}
PairRequest == {<<a, b>>}
OneProvider == [i \in Items |-> "provider"]
OneAtATime == [p \in {"provider"} |-> 1]
=============================================================================
