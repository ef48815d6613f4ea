------------------------- MODULE MCExtensionManager -------------------------
(* One extension, its mutating thread and one or two users of it. *)
EXTENDS ExtensionManager, TLC

CONSTANTS u1, u2, admin
Alike == Permutations(Users)
=============================================================================
