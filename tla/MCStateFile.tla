---------------------------- MODULE MCStateFile ----------------------------
(***************************************************************************)
(* StateFile for TLC: an item of one byte, which is packed, and one of two *)
(* elements of two bytes each.  Files are cut inside the second item, or,  *)
(* if it is the only one, between its elements.                            *)
(***************************************************************************)
EXTENDS StateFile

CONSTANTS g1, g2

MCSize == [i \in {1, 2} |-> i]
MCCount == [i \in {1, 2} |-> i]
MCValues == [i \in {1, 2} |-> IF i = 1 THEN {<<1>>} ELSE {<<1, 2, 3, 4>>}]
=============================================================================
