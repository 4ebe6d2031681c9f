------------------------------ MODULE MemoryMap ------------------------------
(***************************************************************************)
(* What an address space promises, whatever tables it keeps: an address is *)
(* served by whoever was installed there last, lane by lane where handlers *)
(* narrower than the bus were installed on some of its lanes.              *)
(***************************************************************************)
EXTENDS Integers

CONSTANTS Addresses, Lanes, Unmapped, INVALID, UNMAP,
  Maps,     \* ranges mapped to a bank, to nothing or to "unmapped"
  Installs, \* ranges installed for all the lanes
  Masked    \* ranges installed with a mask, for some of the lanes

VARIABLES
  map,  \* for each address its static entry, or who serves its lanes
  ended \* a fatal error has ended the emulation

vars == <<map, ended>>

\* An address with units is served lane by lane, one without as a word.
Static(e) == [static |-> e, units |-> FALSE, lane |-> [n \in Lanes |-> Unmapped]]
Dynamic(units, lane) == [static |-> INVALID, units |-> units, lane |-> lane]

Covered(c) == UNION {{a + m : a \in c.start .. c.stop} : m \in c.mirror}

Init == map = [a \in Addresses |-> Static(UNMAP)] /\ ended = FALSE

Replace(c, cell) ==
  LET covered == Covered(c)  before == map
  IN  map' = [a \in Addresses |-> IF a \in covered THEN cell ELSE before[a]]

Map(c) == Replace(c, Static(c.entry))

Install(c) == Replace(c, Dynamic(c.units, [n \in Lanes |-> c.who]))

\* Lanes with another mask keep their handlers, but a handler for the whole word does not.
With(cell, c) ==
  LET kept == IF cell.units THEN {n \in Lanes \ c.lanes : cell.lane[n] # Unmapped} ELSE {}
  IN  Dynamic(TRUE, [n \in Lanes |->
        IF n \in c.lanes THEN c.who ELSE IF n \in kept THEN cell.lane[n] ELSE Unmapped])

InstallMasked(c) ==
  LET covered == Covered(c)  before == map
  IN  map' = [a \in Addresses |-> IF a \in covered THEN With(before[a], c) ELSE before[a]]

\* Tables are of a fixed size: a call may be the one that ends the emulation.
Stop == ended' = TRUE /\ UNCHANGED map

Next ==
  /\ ~ended
  /\ \/ /\ \/ \E c \in Maps : Map(c)
           \/ \E c \in Installs : Install(c)
           \/ \E c \in Masked : InstallMasked(c)
        /\ UNCHANGED ended
     \/ Stop

Spec == Init /\ [][Next]_vars
=============================================================================
