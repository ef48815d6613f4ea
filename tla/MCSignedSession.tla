--------------------------- MODULE MCSignedSession ---------------------------
EXTENDS SignedSession, TLC
CONSTANTS c1, c2
MCExtension == (c1 :> "e1") @@ (c2 :> "e2")
=============================================================================
