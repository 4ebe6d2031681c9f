--------------------------- MODULE MCPolyManager ---------------------------
(***************************************************************************)
(* PolyManager for TLC.                                                    *)
(***************************************************************************)
EXTENDS PolyManager

CONSTANTS w1, w2, m1, d1, d2

\* The buckets as wait leaves them.
Clean == {[b \in 0 .. Buckets - 1 |-> NoUnit]}
=============================================================================
