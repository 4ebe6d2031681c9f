--------------------------- MODULE MCAddressSpace ---------------------------
(***************************************************************************)
(* An address space of four blocks of two words, each word with two lanes, *)
(* with three subtables where the code has 64 and three handlers where it  *)
(* has some thousands, so that they run out.                               *)
(***************************************************************************)
EXTENDS AddressSpace

Bank(start, stop, mirror, entry) ==
  [start |-> start, stop |-> stop, mirror |-> mirror, entry |-> entry]
Solid(start, stop, mirror, who, units) ==
  [start |-> start, stop |-> stop, mirror |-> mirror, who |-> who, units |-> units]
Lane(start, stop, mirror, who, lane) ==
  [start |-> start, stop |-> stop, mirror |-> mirror, who |-> who, lanes |-> {lane}]

\* Calls on whole and half blocks, with mirrors within a block, above and both, and two
\* that make subtables which are alike.
MCMaps == {Bank(0, 7, {0}, 1), Bank(1, 1, {0}, 2), Bank(5, 5, {0}, 2),
           Bank(2, 2, {0, 1, 4, 5}, UNMAP)}
MCPointed == {Bank(0, 7, {0}, 1)}
MCInstalls == {Solid(1, 1, {0, 4}, "x", FALSE), Solid(1, 2, {0, 4}, "y", TRUE)}
MCMasked == {Lane(0, 3, {0, 4}, "z", "even"), Lane(1, 2, {0, 4}, "x", "odd"),
             Lane(3, 4, {0}, "y", "odd")}
=============================================================================
