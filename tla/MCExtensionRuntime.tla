------------------------- MODULE MCExtensionRuntime -------------------------
(* Two callers and up to two threads that shut the runtime down. *)
EXTENDS ExtensionRuntime

CONSTANTS c1, c2, s1, s2
=============================================================================
