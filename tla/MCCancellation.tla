--------------------------- MODULE MCCancellation ---------------------------
(* The cancellation registry on a small instance: two ids, so that an      *)
(* operation on one must leave the other alone, and two leases, each used  *)
(* again after its release, so that an old lease meets its retry.  No      *)
(* symmetry: the run checks liveness.                                      *)
EXTENDS Cancellation

CONSTANTS a, b, l1, l2

MCRequests == {a, b}
MCLeases == {l1, l2}
=============================================================================
