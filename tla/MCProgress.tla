----------------------------- MODULE MCProgress -----------------------------
(* The progress registry on a small instance: three ids and a limit of one *)
(* tombstone let a client miss pruned removals, and an id takes every kind *)
(* of report: within a byte bucket, across it, with and without a total,   *)
(* complete, and not a number.                                             *)
EXTENDS Progress, TLC

CONSTANTS a, b, c, u

MCIds == {a, b, c}
MCClients == {u}
Symmetry == Permutations(MCIds)

Report(p, r, t) == [progress |-> p, received |-> r, total |-> t]
Receipt(r, s) == [received |-> r, speed |-> s]

ManyReports == {Report(1, 0, 0), Report(0, 1, 0), Report(1, 1, 4),
                Report(4, 0, 0), Report(NaN, 0, 0), Report(NaN, 3, 4)}
ManyReceipts == {Receipt(0, 0), Receipt(1, 0), Receipt(3, 1)}
=============================================================================
