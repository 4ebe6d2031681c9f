---------------------------- MODULE AddressTable ----------------------------
(***************************************************************************)
(* The two-level table that takes an address to the handler that serves    *)
(* it.  An entry of the first level is a handler for a whole block, or a   *)
(* subtable with a handler for each cell.  Subtables are shared by blocks  *)
(* that look the same, for as long as they do, and handlers are counted:   *)
(* one that no cell refers to goes back to the list of free ones.          *)
(*                                                                         *)
(* An address stands for a word of the data bus.  A table is a record:     *)
(*   l1     m_table up to the subtables       use    m_usecount            *)
(*   sub    the cells of each subtable        ref    handler_refcount      *)
(*   free   the list from handler_free        fatal  the emulation has     *)
(*   conf   what the handlers are set up for         ended in fatalerror   *)
(***************************************************************************)
EXTENDS Integers, Sequences, FiniteSetsExt

CONSTANTS
  BlockCount,    \* 1 << LEVEL1_BITS
  BlockSize,     \* 1 << LEVEL2_BITS
  SubtableCount, \* SUBTABLE_COUNT
  HandlerCount,  \* SUBTABLE_BASE - STATIC_COUNT
  BankMax,       \* STATIC_BANKMAX
  Lanes,         \* the subunits of a word
  Devices        \* who can be installed as a handler

ASSUME AddressTableAssumption ==
  /\ {BlockCount, BlockSize, SubtableCount, HandlerCount, BankMax} \subseteq Nat \ {0}
  /\ Lanes # {}

INVALID == 0
Banks == 1 .. BankMax
NOP == BankMax + 1
UNMAP == BankMax + 2
STATIC_COUNT == BankMax + 3
SUBTABLE_BASE == STATIC_COUNT + HandlerCount
Handlers == STATIC_COUNT .. SUBTABLE_BASE - 1
Subtables == SUBTABLE_BASE .. SUBTABLE_BASE + SubtableCount - 1
Blocks == 0 .. BlockCount - 1
Cells == 0 .. BlockSize - 1
Addresses == 0 .. BlockCount * BlockSize - 1

\* A handler serves its lanes one by one, or the word as a whole.
Unmapped == "unmapped"
Deconfigured == [units |-> FALSE, lane |-> [n \in Lanes |-> Unmapped], mirror |-> {0}]

\* A loop: op for the members of S below n, in ascending order.
Ascend(op(_, _), t, n, S) ==
  LET f[i \in 0 .. n] ==
        IF i = 0 THEN t ELSE IF i - 1 \in S THEN op(f[i - 1], i - 1) ELSE f[i - 1]
  IN  f[n]

NewTable ==
  [l1 |-> [b \in Blocks |-> UNMAP],
   sub |-> [s \in Subtables |-> [c \in Cells |-> INVALID]],
   use |-> [s \in Subtables |-> 0],
   ref |-> [h \in Handlers |-> 0],
   free |-> [i \in 1 .. HandlerCount |-> STATIC_COUNT + i - 1],
   conf |-> [h \in Handlers |-> Deconfigured],
   fatal |-> FALSE]

Lookup(t, a) ==
  LET e == t.l1[a \div BlockSize]
  IN  IF e \in Subtables THEN t.sub[e][a % BlockSize] ELSE e

----------------------------------------------------------------------------
(* References and subtables. *)

Ref(t, e, n) == IF e \in Handlers THEN [t EXCEPT !.ref[e] = @ + n] ELSE t

Unref(t, e) ==
  CASE e \notin Handlers -> t
    [] e \in Handlers /\ t.ref[e] = 1 ->
         [t EXCEPT !.ref[e] = 0, !.free = <<e>> \o @, !.conf[e] = Deconfigured]
    [] OTHER -> [t EXCEPT !.ref[e] = @ - 1]

\* References of h in some cells.
Count(cells, h) == Cardinality({c \in Cells : cells[c] = h})

RefAll(t, cells) == [t EXCEPT !.ref = [h \in Handlers |-> @[h] + Count(cells, h)]]

UnrefAll(t, cells) == Ascend(LAMBDA d, c : Unref(d, cells[c]), t, BlockSize, Cells)

Realloc(t, s, n) == [t EXCEPT !.use[s] = @ + n]

\* n blocks let go of the subtable.
Release(t, s, n) ==
  LET d == [t EXCEPT !.use[s] = @ - n]
  IN  IF d.use[s] = 0 THEN UnrefAll(d, d.sub[s]) ELSE d

\* What the first level holds of block b is let go.
Drop(t, b) == IF t.l1[b] \in Subtables THEN Release(t, t.l1[b], 1) ELSE Unref(t, t.l1[b])

On(t, s) == {b \in Blocks : t.l1[b] = s}

\* The blocks of subtable q move to p.
Move(t, p, q) ==
  LET n == Cardinality(On(t, q))
  IN  [Realloc(Release(t, q, n), p, n) EXCEPT
         !.l1 = [b \in Blocks |-> IF t.l1[b] = q THEN p ELSE t.l1[b]]]

\* Mutant: subtables are merged whatever they hold, as by their checksums alone.
MergePairUnlike(t, p, q) == IF t.use[p] # 0 /\ t.use[q] # 0 THEN Move(t, p, q) ELSE t

MergePair(t, p, q) ==
  IF t.use[p] # 0 /\ t.use[q] # 0 /\ t.sub[p] = t.sub[q] THEN Move(t, p, q) ELSE t

\* Those after p that are like it.
MergeInto(t, p) ==
  Ascend(LAMBDA d, q : MergePair(d, p, q), t, SUBTABLE_BASE + SubtableCount,
         {q \in Subtables : p < q})

Merge(t) == Ascend(MergeInto, t, SUBTABLE_BASE + SubtableCount, Subtables)

Unused(t) == {s \in Subtables : t.use[s] = 0}

OrFatal(t) == IF Unused(t) = {} THEN [t EXCEPT !.fatal = TRUE] ELSE t

\* A table with an unused subtable, the least of which is taken next.
Alloc(t) == OrFatal(IF Unused(t) = {} THEN Merge(t) ELSE t)

Give(t, b, s, cells) == [t EXCEPT !.use[s] = 1, !.sub[s] = cells, !.l1[b] = s]

OpenHandler(t, b) ==
  IF t.fatal THEN t
  ELSE Give(Ref(t, t.l1[b], BlockSize - 1), b, Min(Unused(t)), [c \in Cells |-> t.l1[b]])

\* Mutant: the handlers of the copy are not counted.
OpenSharedUncounted(t, b) ==
  IF t.fatal THEN t
  ELSE Release(Give(t, b, Min(Unused(t)), t.sub[t.l1[b]]), t.l1[b], 1)

\* The handlers of the copy are counted, then the old subtable is let go.
OpenShared(t, b) ==
  LET s == t.l1[b]
  IN  IF t.fatal THEN t
      ELSE Release(Give(RefAll(t, t.sub[s]), b, Min(Unused(t)), t.sub[s]), s, 1)

\* Block b has a subtable of its own.  The allocation may have merged the one it shared
\* with others.
Open(t, b) ==
  CASE t.l1[b] \notin Subtables -> OpenHandler(Alloc(t), b)
    [] t.l1[b] \in Subtables /\ t.use[t.l1[b]] > 1 -> OpenShared(Alloc(t), b)
    [] OTHER -> t

----------------------------------------------------------------------------
(* Populating. *)

Fill(t, b, start, stop, e) ==
  LET SetCell(d, c) == [Unref(d, d.sub[d.l1[b]][c]) EXCEPT !.sub[d.l1[b]][c] = e]
  IN  IF t.fatal THEN t
      ELSE Ascend(SetCell, Ref(t, e, stop - start + 1), BlockSize, start .. stop)

SetCells(t, b, start, stop, e) == IF t.fatal THEN t ELSE Fill(Open(t, b), b, start, stop, e)

SetBlocks(t, first, last, e) ==
  LET SetBlock(d, b) == [Drop(d, b) EXCEPT !.l1[b] = e]
  IN  IF t.fatal \/ first > last THEN t
      ELSE Ascend(SetBlock, Ref(t, e, last - first + 1), BlockCount, first .. last)

\* The edges that are not on the boundary of a block, then the blocks between.
PopulateHead(t, start, stop, e) ==
  LET b == start \div BlockSize
      last == IF b = stop \div BlockSize THEN stop % BlockSize ELSE BlockSize - 1
  IN  IF start % BlockSize = 0 THEN t ELSE SetCells(t, b, start % BlockSize, last, e)

PopulateTail(t, first, stop, e) ==
  LET b == stop \div BlockSize
  IN  IF stop % BlockSize = BlockSize - 1 \/ first > b THEN t
      ELSE SetCells(t, b, 0, stop % BlockSize, e)

PopulateRange(t, start, stop, e) ==
  LET first == (start + BlockSize - 1) \div BlockSize
      last == (stop + 1) \div BlockSize - 1
  IN  SetBlocks(PopulateTail(PopulateHead(t, start, stop, e), first, stop, e), first, last, e)

\* The mirrors of a range are sums of a part within a block and a part above.
LowMirrors(mirror) == {(m % BlockSize) : m \in mirror}
HighMirrors(mirror) == {m - (m % BlockSize) : m \in mirror}

\* Block b is made what block "prev" has become: they were the same before.
QuickMap(t, b, prev) ==
  LET new == t.l1[prev]
      Take(d) == IF new \in Subtables THEN Realloc(d, new, 1) ELSE Ref(d, new, 1)
  IN  [Take(Drop(t, b)) EXCEPT !.l1[b] = new]

\* Mutant: a block is mapped like the one before whatever it was.
PopulateMirrorBlindly(acc, c, e, m) ==
  LET b == (c.start + m) \div BlockSize
      FillOne(t, l) == PopulateRange(t, c.start + m + l, c.stop + m + l, e)
      all == Ascend(FillOne, acc.table, BlockSize, LowMirrors(c.mirror))
  IN  IF m # 0 /\ b = (c.stop + m) \div BlockSize
      THEN [acc EXCEPT !.table = QuickMap(@, b, acc.block)]
      ELSE [table |-> all, entry |-> acc.table.l1[b], block |-> b]

\* One high mirror of the range c; acc has the table and the last block mapped, with
\* the entry it had before.
PopulateMirror(acc, c, e, m) ==
  LET b == (c.start + m) \div BlockSize
      within == b = (c.stop + m) \div BlockSize
      quick == within /\ m # 0 /\ acc.entry = acc.table.l1[b]
      FillOne(t, l) == PopulateRange(t, c.start + m + l, c.stop + m + l, e)
      all == Ascend(FillOne, acc.table, BlockSize, LowMirrors(c.mirror))
  IN  CASE quick -> [acc EXCEPT !.table = QuickMap(@, b, acc.block)]
        [] within /\ ~quick -> [table |-> all, entry |-> acc.table.l1[b], block |-> b]
        [] OTHER -> [acc EXCEPT !.table = all]

PopulateMirrored(t, c, e) ==
  Ascend(LAMBDA acc, m : IF acc.table.fatal THEN acc ELSE PopulateMirror(acc, c, e, m),
         [table |-> t, entry |-> INVALID, block |-> 0],
         BlockCount * BlockSize, HighMirrors(c.mirror)).table
=============================================================================
