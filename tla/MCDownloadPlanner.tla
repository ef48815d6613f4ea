-------------------------- MODULE MCDownloadPlanner --------------------------
(* Two threads, two providers and two paths that lead to each other. *)
EXTENDS DownloadPlanner

CONSTANTS t1, t2, i1, x1, y1, p1, p2

Crossing == [path \in Paths |-> CHOOSE other \in Paths : other # path]
MCPriority == <<p1, p2>>
MCRequests ==
    { \* a service beside the source, with fallbacks
      [item |-> i1, source |-> p1, service |-> p2, fallback |-> TRUE,
       path |-> x1, variant |-> FALSE],
      \* the source itself first, and a variant of an old file
      [item |-> i1, source |-> p2, service |-> p2, fallback |-> TRUE,
       path |-> y1, variant |-> TRUE] }
=============================================================================
