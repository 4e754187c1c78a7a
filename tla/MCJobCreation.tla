--------------------------- MODULE MCJobCreation ---------------------------
(* Four calls: three with one key, so that two may race or crash and the    *)
(* third come later, and one with another key.                              *)
EXTENDS JobCreation, TLC

CONSTANTS c1, c2, c3, c4, k1, k2

AllCalls == {c1, c2, c3, c4}
AllKeys == {k1, k2}
MCKeyOf == (c1 :> k1) @@ (c2 :> k1) @@ (c3 :> k1) @@ (c4 :> k2)
============================================================================
