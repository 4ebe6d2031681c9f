---------------------------- MODULE AddressSpace ----------------------------
(***************************************************************************)
(* The read side of an address space: ranges are mapped and installed into *)
(* its table while the machine is built and while it runs, and opcodes are *)
(* fetched through a window that skips the table as long as it stays in    *)
(* one bank.  Who serves an address and when the window must close is      *)
(* modelled; what a handler returns is not.                                *)
(***************************************************************************)
EXTENDS AddressTable

CONSTANTS
  Maps,      \* calls of install_bank_generic and unmap_generic
  Pointed,   \* those of them that may give the bank by a pointer
  Installs,  \* calls of install_read_handler for the whole bus
  Masked,    \* calls of install_read_handler with a unitmask
  Bases,     \* where a bank's data may be
  CallLimit, \* bound: how many such calls a behaviour has
  RangeLimit \* bound: how many ranges are cached at once

\* A range does not contain its mirrors.  Mirrors are sums of address lines, and those
\* are cleared in the range: no sum carries from the cell to the block.
IsRange(c) ==
  /\ c.start \in Addresses /\ c.stop \in Addresses /\ c.start <= c.stop
  /\ 0 \in c.mirror /\ c.mirror \subseteq Addresses
  /\ \A m \in c.mirror : c.start + m \in Addresses /\ c.stop + m \in Addresses
  /\ \A m, n \in c.mirror : m = n \/ c.stop + m < c.start + n \/ c.stop + n < c.start + m
  /\ c.mirror = {l + h : l \in LowMirrors(c.mirror), h \in HighMirrors(c.mirror)}
  /\ \A l \in LowMirrors(c.mirror) : {(c.start % BlockSize) + l, (c.stop % BlockSize) + l} \subseteq Cells

ASSUME AddressSpaceAssumption ==
  /\ \A c \in Maps \cup Installs \cup Masked : IsRange(c)
  /\ \A c \in Maps : c.entry \in Banks \cup {NOP, UNMAP}
  /\ Pointed \subseteq {c \in Maps : c.entry \in Banks}
  /\ \A c \in Installs \cup Masked : c.who \in Devices
  /\ \A c \in Installs : c.units \in BOOLEAN
  /\ \A c \in Masked : c.lanes \subseteq Lanes /\ c.lanes \notin {{}, Lanes}
  /\ {CallLimit, RangeLimit} \subseteq Nat

VARIABLES
  table,      \* m_map of the reading address_table, with its handlers
  base,       \* where each bank's data are: *m_baseptr
  referenced, \* the banks that have a reference to this space
  named,      \* history: the banks that were mapped here by their names
  window,     \* m_direct: m_entry, m_bytestart, m_byteend, m_ptr
  ranges,     \* m_rangelist: extents of entries, found earlier
  calls       \* bound: the calls so far

vars == <<table, base, referenced, named, window, ranges, calls>>

Closed(e) == [entry |-> e, start |-> 1, stop |-> 0, base |-> "none"]

Init ==
  /\ table = NewTable
  /\ base \in [Banks -> Bases]
  /\ referenced = {} /\ named = {}
  /\ window = Closed(UNMAP)
  /\ ranges = {}
  /\ calls = 0

----------------------------------------------------------------------------
(* Changing the map. *)

Live == window.start <= window.stop

\* The window is looked up again if it is on the entry just mapped.
ForceUpdate(e) == window' = IF window.entry = e THEN Closed(e) ELSE window

Intersects(r, c) == \E m \in c.mirror : c.start + m <= r.stop /\ c.stop + m >= r.start

\* Mutant: the mirrors are forgotten.
RemoveUnmirrored(c) == ranges' = {r \in ranges : ~Intersects(r, [c EXCEPT !.mirror = {0}])}

RemoveIntersecting(c) == ranges' = {r \in ranges : ~Intersects(r, c)}

\* Nothing looks at the tables any more once an error was fatal.
Become(t) == table' = IF t.fatal THEN [table EXCEPT !.fatal = TRUE] ELSE t

MapRange(t, c, e) ==
  /\ Become(PopulateMirrored(t, c, e))
  /\ RemoveIntersecting(c)
  /\ ForceUpdate(e)

\* Mutant: the bank does not learn of this space, as in MapBank.
AddNoReference(e) == UNCHANGED referenced

AddReference(e) == referenced' = referenced \cup ({e} \cap Banks)

Call == ~table.fatal /\ calls < CallLimit /\ calls' = calls + 1

\* A bank that is given by its name, or one of the handlers for nothing.
MapStatic(c) ==
  /\ Call
  /\ AddReference(c.entry) /\ named' = named \cup ({c.entry} \cap Banks)
  /\ MapRange(table, c, c.entry)
  /\ UNCHANGED base

\* A bank that is given by a pointer: it is mapped, and does not learn of this space.
MapBank(c) ==
  /\ Call
  /\ MapRange(table, c, c.entry)
  /\ UNCHANGED <<base, referenced, named>>

OutOfHandlers == table' = [table EXCEPT !.fatal = TRUE] /\ UNCHANGED <<window, ranges>>

Taken(t, conf) ==
  [t EXCEPT !.free = Tail(@), !.conf[Head(t.free)] = conf]

\* A handler for all the lanes: one as wide as the bus, or a narrower one on each.
Install(c) ==
  /\ Call
  /\ LET conf == [units |-> c.units, lane |-> [n \in Lanes |-> c.who], mirror |-> c.mirror]
     IN  IF table.free = <<>> THEN OutOfHandlers
         ELSE MapRange(Taken(table, conf), c, Head(table.free))
  /\ UNCHANGED <<base, referenced, named>>

\* The stretches of one entry between start and stop, as derive_range finds them.
Stretches(t, start, stop) ==
  LET starts == {a \in start .. stop : a = start \/ Lookup(t, a) # Lookup(t, a - 1)}
      End(a) == Max({b \in a .. stop : \A x \in a .. b : Lookup(t, x) = Lookup(t, a)})
  IN  {[start |-> a, stop |-> End(a), entry |-> Lookup(t, a)] : a \in starts}

AllStretches(t, c) == UNION {Stretches(t, c.start + m, c.stop + m) : m \in c.mirror}

Overridden(t, e, lanes) ==
  e \notin Handlers \/ {n \in Lanes : t.conf[e].units /\ t.conf[e].lane[n] # Unmapped} \subseteq lanes

\* One new handler, configured with "lane", takes the stretches in s.
Populate(t, c, lane, s) ==
  LET conf == [units |-> TRUE, lane |-> lane, mirror |-> c.mirror]
      h == Head(t.free)
      Cover(d, a) == PopulateRange(d, a, (CHOOSE p \in s : p.start = a).stop, h)
  IN  CASE t.fatal \/ s = {} -> t
        [] ~t.fatal /\ s # {} /\ t.free = <<>> -> [t EXCEPT !.fatal = TRUE]
        [] OTHER -> Ascend(Cover, Taken(t, conf), BlockCount * BlockSize, {p.start : p \in s})

\* A copy of handler e without the lanes of c, which then get the new delegate.  The
\* address masks, which the mirrors make, must be the same.
Divide(t, c, e, s) ==
  IF t.fatal \/ t.conf[e].mirror # c.mirror THEN [t EXCEPT !.fatal = TRUE]
  ELSE Populate(t, c, [n \in Lanes |-> IF n \in c.lanes THEN c.who ELSE t.conf[e].lane[n]], s)

\* What is overridden goes to one handler, the rest to a copy of each that it divides.
SetupRangeMasked(t, c) ==
  LET all == AllStretches(t, c)
      override == {p \in all : Overridden(t, p.entry, c.lanes)}
      partial == {p.entry : p \in all \ override}
      alone == [n \in Lanes |-> IF n \in c.lanes THEN c.who ELSE Unmapped]
  IN  Ascend(LAMBDA d, e : Divide(d, c, e, {p \in all : p.entry = e}),
             Populate(t, c, alone, override), SUBTABLE_BASE, partial)

\* A window on the new handlers has nothing to close: it is open on banks only.
InstallMasked(c) ==
  /\ Call
  /\ Become(SetupRangeMasked(table, c))
  /\ UNCHANGED <<base, referenced, named, window, ranges>>

----------------------------------------------------------------------------
(* Banks, and the window of the fetches. *)

\* set_base and set_entry: every space with a reference looks its window up again.
SetBank(b, p) ==
  /\ ~table.fatal
  /\ base[b] # p
  /\ base' = [base EXCEPT ![b] = p]
  /\ window' = IF b \in referenced THEN Closed(window.entry) ELSE window
  /\ UNCHANGED <<table, referenced, named, ranges, calls>>

\* The extent of the entry at a.  The code may stop earlier, at the boundary of a block
\* beyond the range the handler was last configured for.
Extent(a) ==
  LET e == Lookup(table, a)
      Same(x, y) == \A z \in x .. y : Lookup(table, z) = e
  IN  [entry |-> e, start |-> Min({x \in 0 .. a : Same(x, a)}),
       stop |-> Max({x \in a .. BlockCount * BlockSize - 1 : Same(a, x)})]

Cached(a) == {r \in ranges : r.entry = Lookup(table, a) /\ a \in r.start .. r.stop}

OpenOn(r) == [entry |-> r.entry, start |-> r.start, stop |-> r.stop, base |-> base[r.entry]]

\* address_is_valid at an address outside the window.
Fetch(a) ==
  /\ ~table.fatal
  /\ a \notin window.start .. window.stop
  /\ \E r \in IF Cached(a) = {} THEN {Extent(a)} ELSE Cached(a) :
       /\ ranges' = ranges \cup {r}
       /\ Cardinality(ranges') <= RangeLimit
       /\ window' = IF r.entry \in Banks THEN OpenOn(r) ELSE Closed(r.entry)
  /\ UNCHANGED <<table, base, referenced, named, calls>>

Next ==
  \/ \E c \in Maps : MapStatic(c)
  \/ \E c \in Pointed : MapBank(c)
  \/ \E c \in Installs : Install(c)
  \/ \E c \in Masked : InstallMasked(c)
  \/ \E b \in Banks, p \in Bases : SetBank(b, p)
  \/ \E a \in Addresses : Fetch(a)

Spec == Init /\ [][Next]_vars
----------------------------------------------------------------------------
(* Properties. *)

\* What verify_reference_counts would find, had its calls not been commented out: the
\* counts of handlers and subtables are those of the cells and blocks that hold them,
\* however blocks were shared, split and merged, and the free list has each handler that
\* nothing holds, once, with no subunits of its former life.
CountsAgree ==
  LET Held(h) == Cardinality({b \in Blocks : table.l1[b] = h})
        + Cardinality({p \in Subtables \X Cells : table.use[p[1]] # 0 /\ table.sub[p[1]][p[2]] = h})
      idle == {h \in Handlers : table.ref[h] = 0}
  IN  ~table.fatal =>
        /\ \A s \in Subtables : table.use[s] = Cardinality({b \in Blocks : table.l1[b] = s})
        /\ \A h \in Handlers : table.ref[h] = Held(h)
        /\ {table.free[i] : i \in DOMAIN table.free} = idle /\ Len(table.free) = Cardinality(idle)
        /\ \A h \in idle : ~table.conf[h].units

\* A range that set_direct_region finds in its cache still is one of that entry, unless
\* handlers that serve their lanes one by one have come in: a stale one would open a
\* window on addresses that were mapped to something else.
CachedRangesTrue ==
  ~table.fatal =>
    \A r \in ranges : \A a \in r.start .. r.stop :
      LET e == Lookup(table, a) IN e = r.entry \/ (e \in Handlers /\ table.conf[e].units)

\* Opcodes are read where the bank is now, not where it was when the window was opened,
\* whatever was mapped and switched in between, once the bank has been mapped here by
\* its name: also if it was first mapped by a pointer, which leaves the window behind.
WindowFollowsBank == Live /\ window.entry \in named => window.base = base[window.entry]

\* "Force updates on all referencing address spaces" (invalidate_references): a window
\* on a bank of any kind is where the bank is.
AllWindowsUpdated == Live => window.base = base[window.entry]

\* The handler as a reader of the address sees it.
Installed(e) ==
  IF e \in Handlers
  THEN [static |-> INVALID, units |-> table.conf[e].units, lane |-> table.conf[e].lane]
  ELSE [static |-> e, units |-> FALSE, lane |-> [n \in Lanes |-> Unmapped]]

Promise == INSTANCE MemoryMap WITH
  map <- [a \in Addresses |-> Installed(Lookup(table, a))], ended <- table.fatal

\* Every address is served by what was installed there last, in each lane: blocks that
\* share a subtable, a quick map of a mirror, a handler that is freed and taken again or
\* divided never change what another address reads.
MapsAsInstalled == Promise!Spec

\* "recompute any direct access on this space if it is a read modification"
\* (src/src/emu/memory.cpp:2742): the window of the fetches holds only addresses that
\* still read the bank it is on.
WindowReadsMap == Live => \A a \in window.start .. window.stop : Lookup(table, a) = window.entry
=============================================================================
