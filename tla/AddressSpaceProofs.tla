------------------------- MODULE AddressSpaceProofs -------------------------
(***************************************************************************)
(* The tables of an address space are right, and do what is promised, for  *)
(* any number of blocks, cells, subtables and handlers and for any ranges, *)
(* mirrors and lanes.                                                      *)
(*                                                                         *)
(* The difficulty is the loops.  In the middle of populate_range a handler *)
(* has references that no entry holds yet, and an entry has given up what  *)
(* its handler still counts.  Sound(t, e, n) is what holds of the tables t *)
(* there: e, the handler that is being written, is owed n references, the  *)
(* number of turns that are left; every other count is what the blocks and *)
(* cells hold; and the free list has the handlers that nothing holds.      *)
(* Every turn takes Sound(t, e, n + 1) to Sound(u, e, n), whether it opens *)
(* a subtable, copies one, merges two, or lets go of the last reference to *)
(* another handler, and Written(t, u, e, S) says what the addresses have   *)
(* after it: e in S, and elsewhere what they had.  Lemma Loop puts the     *)
(* turns together.                                                         *)
(*                                                                         *)
(* A quick mirror copies the entry of a whole block.  That is right since  *)
(* two blocks that had the same entry had the same contents (Alike), which *)
(* the low mirrors have changed in the same way (Pattern).                 *)
(***************************************************************************)
EXTENDS AddressSpace, WellFoundedInduction, FiniteSetTheorems, TLAPS

----------------------------------------------------------------------------
(* Loops. *)

\* A set of numbers that is not empty has a least element.
LEMMA LeastNumber ==
  ASSUME NEW S \in SUBSET Nat, S # {}
  PROVE  Min(S) \in S /\ \A y \in S : Min(S) <= y
<1>. DEFINE R == {ss \in Nat \X Nat : ss[1] < ss[2]}
<1>1. IsWellFoundedOn(R, Nat)
  BY NatLessThanWellFounded DEF OpToRel
<1>2. PICK x \in S : \A y \in S : ~(<<y, x>> \in R)
  <2>. HIDE DEF R
  <2>. QED  BY <1>1, WFMin
<1>3. ASSUME NEW y \in S PROVE x <= y
  <2>1. <<y, x>> \in R <=> y < x
    OBVIOUS
  <2>2. ~(y < x) /\ x \in Nat /\ y \in Nat
    BY <1>2, <2>1
  <2>. QED  BY <2>2
<1>. QED  BY <1>3 DEF Min

\* What holds of 0 and, with a number, of the next, holds of all up to n.
LEMMA UpTo ==
  ASSUME NEW n \in Nat, NEW Q, 0 \in Q, \A i \in 0 .. n - 1 : i \in Q => i + 1 \in Q
  PROVE  \A i \in 0 .. n : i \in Q
<1>. DEFINE out == {i \in 0 .. n : i \notin Q}
<1>1. SUFFICES ASSUME out # {} PROVE FALSE
  OBVIOUS
<1>2. PICK m \in out : \A y \in out : m <= y
  <2>1. out \in SUBSET Nat
    OBVIOUS
  <2>. QED  BY <1>1, <2>1, LeastNumber
<1>3. m - 1 \in 0 .. n - 1 /\ m - 1 \notin out /\ (m - 1) + 1 = m
  BY <1>2
<1>. QED  BY <1>2, <1>3

\* Each step of a loop leads from a set of J to the next.
Stays(n, S, J, step) ==
  \A i \in 0 .. n - 1 : \A x \in J[i] :
    (i \in S => step[i][x] \in J[i + 1]) /\ (i \notin S => x \in J[i + 1])

\* f is what the loop computes.
Runs(f, n, S, from, step) ==
  f = [i \in 0 .. n |->
        IF i = 0 THEN from ELSE IF i - 1 \in S THEN step[i - 1][f[i - 1]] ELSE f[i - 1]]

\* A loop that stays in the sets of J computes something, and it is in the last of them.
LEMMA Loop ==
  ASSUME NEW n \in Nat, NEW S, NEW J, NEW step, NEW from \in J[0], Stays(n, S, J, step)
  PROVE  \E f : Runs(f, n, S, from, step) /\ \A i \in 0 .. n : f[i] \in J[i]
<1>. USE DEF Stays, Runs
<1>. DEFINE Up(f, m) ==
       /\ f = [i \in 0 .. m |-> IF i = 0 THEN from
                 ELSE IF i - 1 \in S THEN step[i - 1][f[i - 1]] ELSE f[i - 1]]
       /\ \A i \in 0 .. m : f[i] \in J[i]
     Q == {m \in 0 .. n : \E f : Up(f, m)}
<1>1. 0 \in Q
  <2>1. Up([i \in 0 .. 0 |-> from], 0)
    OBVIOUS
  <2>. HIDE DEF Up
  <2>. QED  BY <2>1
<1>2. ASSUME NEW m \in 0 .. n - 1, m \in Q PROVE m + 1 \in Q
  <2>1. PICK f : Up(f, m)
    BY <1>2
  <2>. DEFINE last == IF m \in S THEN step[m][f[m]] ELSE f[m]
              g == [i \in 0 .. m + 1 |-> IF i <= m THEN f[i] ELSE last]
  <2>2. f[m] \in J[m] /\ last \in J[m + 1]
    BY <2>1
  <2>3. ASSUME NEW i \in 0 .. m + 1
        PROVE  /\ g[i] \in J[i]
               /\ g[i] = IF i = 0 THEN from
                         ELSE IF i - 1 \in S THEN step[i - 1][g[i - 1]] ELSE g[i - 1]
    <3>1. CASE i <= m
      <4>1. i \in 0 .. m /\ g[i] = f[i] /\ (i # 0 => g[i - 1] = f[i - 1])
        BY <3>1
      <4>2. f[i] = IF i = 0 THEN from
                   ELSE IF i - 1 \in S THEN step[i - 1][f[i - 1]] ELSE f[i - 1]
        BY <2>1, <4>1
      <4>. QED  BY <2>1, <4>1, <4>2
    <3>2. CASE i = m + 1
      <4>1. g[i] = last /\ g[i - 1] = f[m] /\ i # 0 /\ i - 1 = m
        BY <3>2
      <4>. QED  BY <2>2, <3>2, <4>1
    <3>. QED  BY <3>1, <3>2
  <2>4. Up(g, m + 1)
    <3>1. DOMAIN g = 0 .. m + 1 /\ g = [i \in DOMAIN g |-> g[i]]
      OBVIOUS
    <3>. HIDE DEF g
    <3>. QED  BY <2>3, <3>1
  <2>. HIDE DEF Up, g
  <2>. QED  BY <2>4
<1>3. n \in Q
  <2>. HIDE DEF Q
  <2>. QED  BY <1>1, <1>2, UpTo
<1>. QED  BY <1>3

----------------------------------------------------------------------------
(* Tables. *)

\* What a cell can have.
Entries == 0 .. SUBTABLE_BASE - 1
\* What a block can have: an entry or a subtable.
Nodes == 0 .. SUBTABLE_BASE + SubtableCount - 1
\* How a handler can be configured.
Confs == [units : BOOLEAN, lane : [Lanes -> Devices \cup {Unmapped}], mirror : SUBSET Addresses]

\* Tables of the right shape.
Tables ==
  [l1 : [Blocks -> Nodes], sub : [Subtables -> [Cells -> Entries]], use : [Subtables -> Nat],
   ref : [Handlers -> Nat], free : Seq(Handlers), conf : [Handlers -> Confs], fatal : BOOLEAN]

\* The free list has the handlers without references, but for the one that is being
\* installed.
FreeOK(t, e) ==
  /\ \A i, j \in 1 .. Len(t.free) : t.free[i] = t.free[j] => i = j
  /\ \A h \in Handlers : (\E i \in 1 .. Len(t.free) : t.free[i] = h) <=> (h # e /\ t.ref[h] = 0)
  /\ \A h \in Handlers \ {e} : t.ref[h] = 0 => ~t.conf[h].units

\* No handler comes back, and those that stay are not changed.
Kept(t, u, e) ==
  \A h \in Handlers : /\ h # e /\ t.ref[h] = 0 => u.ref[h] = 0
                      /\ h = e \/ u.ref[h] > 0 => u.conf[h] = t.conf[h]

\* What is kept twice is kept.
LEMMA KeptTwice ==
  ASSUME NEW t \in Tables, NEW u \in Tables, NEW v \in Tables, NEW e, Kept(t, u, e), Kept(u, v, e)
  PROVE  Kept(t, v, e)
  BY DEF Kept, Tables

\* How the numbers of entries lie.
LEMMA Numbers ==
  /\ BlockCount \in Nat \ {0} /\ BlockSize \in Nat \ {0} /\ SubtableCount \in Nat \ {0}
  /\ HandlerCount \in Nat \ {0} /\ BankMax \in Nat \ {0}
  /\ STATIC_COUNT \in Nat /\ SUBTABLE_BASE \in Nat /\ STATIC_COUNT < SUBTABLE_BASE
  /\ 3 < STATIC_COUNT /\ SUBTABLE_BASE > 0
  /\ Handlers \subseteq Entries /\ Entries \subseteq Nodes /\ Subtables \subseteq Nodes
  /\ \A x \in Nodes : x \in Entries \/ x \in Subtables
  /\ \A x \in Subtables : x \notin Entries /\ x \notin Handlers
  /\ Handlers \subseteq Nat /\ Subtables \subseteq Nat /\ Nodes \subseteq Nat
  /\ 0 \in Cells /\ 0 \in Addresses
<1>1. /\ BlockCount \in Nat \ {0} /\ BlockSize \in Nat \ {0} /\ SubtableCount \in Nat \ {0}
      /\ HandlerCount \in Nat \ {0} /\ BankMax \in Nat \ {0}
  BY AddressTableAssumption DEF AddressTableAssumption
<1>2. BlockCount * BlockSize >= 1
  BY <1>1
<1>. QED
  BY <1>1, <1>2 DEF STATIC_COUNT, SUBTABLE_BASE, Handlers, Subtables, Entries, Nodes, Cells, Addresses

\* A handler that is not configured.
LEMMA DeconfiguredType == Deconfigured \in Confs /\ ~Deconfigured.units
  BY Numbers DEF Deconfigured, Confs

\* A reference is given up; the last one frees the handler.
LEMMA UnrefEffect ==
  ASSUME NEW t \in Tables, NEW e, FreeOK(t, e), NEW h \in Entries,
         h \in Handlers => t.ref[h] >= 1 /\ (h = e => t.ref[h] >= 2)
  PROVE  LET u == Unref(t, h)
         IN  /\ u \in Tables /\ FreeOK(u, e) /\ Kept(t, u, e)
             /\ u.l1 = t.l1 /\ u.sub = t.sub /\ u.use = t.use /\ u.fatal = t.fatal
             /\ u.ref = [k \in Handlers |-> IF k = h THEN t.ref[k] - 1 ELSE t.ref[k]]
<1>. DEFINE u == Unref(t, h)
<1>1. CASE h \notin Handlers
  <2>1. u = t
    BY <1>1 DEF Unref
  <2>2. t.ref = [k \in Handlers |-> IF k = h THEN t.ref[k] - 1 ELSE t.ref[k]]
    BY <1>1 DEF Tables
  <2>. QED  BY <2>1, <2>2 DEF Kept
<1>2. CASE h \in Handlers /\ t.ref[h] = 1
  <2>1. u = [t EXCEPT !.ref[h] = 0, !.free = <<h>> \o @, !.conf[h] = Deconfigured]
    BY <1>2 DEF Unref
  <2>2. /\ u.l1 = t.l1 /\ u.sub = t.sub /\ u.use = t.use /\ u.fatal = t.fatal
        /\ u.ref = [t.ref EXCEPT ![h] = 0] /\ u.free = <<h>> \o t.free
        /\ u.conf = [t.conf EXCEPT ![h] = Deconfigured]
        /\ u = [l1 |-> u.l1, sub |-> u.sub, use |-> u.use, ref |-> u.ref, free |-> u.free,
                conf |-> u.conf, fatal |-> u.fatal]
    BY <2>1 DEF Tables
  <2>3. t.free \in Seq(Handlers) /\ t.ref \in [Handlers -> Nat] /\ t.conf \in [Handlers -> Confs]
    BY DEF Tables
  <2>4. /\ u.free \in Seq(Handlers) /\ Len(u.free) = Len(t.free) + 1 /\ u.free[1] = h
        /\ \A i \in 1 .. Len(t.free) : u.free[i + 1] = t.free[i]
        /\ \A i \in 1 .. Len(u.free) : i = 1 \/ (i - 1 \in 1 .. Len(t.free) /\ u.free[i] = t.free[i - 1])
    <3>. DEFINE f == t.free
                g == <<h>> \o f
    <3>1. f \in Seq(Handlers) /\ u.free = g /\ h \in Handlers
      BY <1>2, <2>2, <2>3
    <3>. HIDE DEF f
    <3>2. g \in Seq(Handlers) /\ Len(g) = Len(f) + 1 /\ g[1] = h /\ Len(f) \in Nat
      BY <3>1
    <3>3. \A i \in 1 .. Len(f) : g[i + 1] = f[i]
      BY <3>1
    <3>. HIDE DEF g
    <3>4. \A i \in 1 .. Len(g) : i = 1 \/ (i - 1 \in 1 .. Len(f) /\ g[i] = f[i - 1])
      <4>. SUFFICES ASSUME NEW i \in 1 .. Len(g), i # 1
                    PROVE  i - 1 \in 1 .. Len(f) /\ g[i] = f[i - 1]
        OBVIOUS
      <4>1. i - 1 \in 1 .. Len(f) /\ (i - 1) + 1 = i
        BY <3>2
      <4>. QED  BY <3>3, <4>1
    <3>. QED  BY <3>1, <3>2, <3>3, <3>4 DEF f
  <2>5. u.ref \in [Handlers -> Nat] /\ u.conf \in [Handlers -> Confs]
    BY <1>2, <2>2, <2>3, DeconfiguredType
  <2>6. u \in Tables
    BY <2>2, <2>4, <2>5 DEF Tables
  <2>7. h # e
    BY <1>2
  <2>8. ASSUME NEW i \in 1 .. Len(u.free), i # 1
        PROVE  u.free[i] # h /\ i - 1 \in 1 .. Len(t.free) /\ u.free[i] = t.free[i - 1]
    <3>1. i - 1 \in 1 .. Len(t.free) /\ u.free[i] = t.free[i - 1]
      BY <2>4, <2>8
    <3>2. t.free[i - 1] # h
      BY <1>2, <2>3, <3>1 DEF FreeOK
    <3>. QED  BY <3>1, <3>2
  <2>9. FreeOK(u, e)
    <3>1. ASSUME NEW i \in 1 .. Len(u.free), NEW j \in 1 .. Len(u.free), u.free[i] = u.free[j]
          PROVE  i = j
      <4>1. CASE i = 1 \/ j = 1
        <5>1. CASE i = 1
          BY <2>4, <2>8, <3>1, <5>1
        <5>2. CASE j = 1
          BY <2>4, <2>8, <3>1, <5>2
        <5>. QED  BY <4>1, <5>1, <5>2
      <4>2. CASE i # 1 /\ j # 1
        <5>1. i - 1 = j - 1
          <6>1. \A a, b \in 1 .. Len(t.free) : t.free[a] = t.free[b] => a = b
            BY DEF FreeOK
          <6>2. t.free[i - 1] = t.free[j - 1] /\ {i - 1, j - 1} \subseteq 1 .. Len(t.free)
            BY <2>8, <3>1, <4>2
          <6>. QED  BY <6>1, <6>2
        <5>. QED  BY <5>1, <2>4
      <4>. QED  BY <4>1, <4>2
    <3>2. ASSUME NEW k \in Handlers
          PROVE  (\E i \in 1 .. Len(u.free) : u.free[i] = k) <=> (k # e /\ u.ref[k] = 0)
      <4>1. CASE k = h
        BY <2>2, <2>3, <2>4, <2>7, <4>1
      <4>2. CASE k # h
        <5>1. u.ref[k] = t.ref[k]
          BY <2>2, <2>3, <4>2
        <5>2. (\E i \in 1 .. Len(u.free) : u.free[i] = k) <=> (\E i \in 1 .. Len(t.free) : t.free[i] = k)
          <6>1. ASSUME NEW i \in 1 .. Len(u.free), u.free[i] = k
                PROVE  \E j \in 1 .. Len(t.free) : t.free[j] = k
            BY <2>4, <2>8, <4>2, <6>1
          <6>2. ASSUME NEW i \in 1 .. Len(t.free), t.free[i] = k
                PROVE  \E j \in 1 .. Len(u.free) : u.free[j] = k
            <7>1. i + 1 \in 1 .. Len(u.free) /\ u.free[i + 1] = k
              BY <2>4, <6>2
            <7>. QED  BY <7>1
          <6>. QED  BY <6>1, <6>2
        <5>. QED  BY <5>1, <5>2 DEF FreeOK
      <4>. QED  BY <4>1, <4>2
    <3>3. ASSUME NEW k \in Handlers \ {e}, u.ref[k] = 0 PROVE ~u.conf[k].units
      BY <1>2, <2>2, <2>3, <3>3, DeconfiguredType DEF FreeOK
    <3>. QED  BY <3>1, <3>2, <3>3 DEF FreeOK
  <2>10. u.ref = [k \in Handlers |-> IF k = h THEN t.ref[k] - 1 ELSE t.ref[k]]
    <3>1. \A k \in Handlers : u.ref[k] = IF k = h THEN t.ref[k] - 1 ELSE t.ref[k]
      BY <1>2, <2>2, <2>3
    <3>. QED  BY <2>5, <3>1
  <2>11. Kept(t, u, e)
    BY <2>2, <2>3, <2>7 DEF Kept
  <2>. QED  BY <2>2, <2>6, <2>9, <2>10, <2>11
<1>3. CASE h \in Handlers /\ t.ref[h] # 1
  <2>1. u = [t EXCEPT !.ref[h] = @ - 1]
    BY <1>3 DEF Unref
  <2>2. t.ref \in [Handlers -> Nat] /\ t.ref[h] >= 2
    BY <1>3 DEF Tables
  <2>3. /\ u.l1 = t.l1 /\ u.sub = t.sub /\ u.use = t.use /\ u.fatal = t.fatal
        /\ u.ref = [t.ref EXCEPT ![h] = t.ref[h] - 1] /\ u.free = t.free /\ u.conf = t.conf
        /\ u = [l1 |-> u.l1, sub |-> u.sub, use |-> u.use, ref |-> u.ref, free |-> u.free,
                conf |-> u.conf, fatal |-> u.fatal]
    BY <2>1 DEF Tables
  <2>4. u.ref = [k \in Handlers |-> IF k = h THEN t.ref[k] - 1 ELSE t.ref[k]]
    BY <2>2, <2>3
  <2>5. u.ref \in [Handlers -> Nat]
    BY <2>2, <2>4
  <2>6. u \in Tables
    BY <2>3, <2>5 DEF Tables
  <2>7. \A k \in Handlers : (u.ref[k] = 0 <=> t.ref[k] = 0)
    BY <1>3, <2>2, <2>4
  <2>8. FreeOK(u, e)
    BY <2>3, <2>7 DEF FreeOK
  <2>9. Kept(t, u, e)
    BY <2>3, <2>7 DEF Kept
  <2>. QED  BY <2>3, <2>4, <2>6, <2>8, <2>9
<1>. QED  BY <1>1, <1>2, <1>3

\* References of h in the first cells.
Upto(cells, i, h) == Cardinality({c \in Cells : c < i /\ cells[c] = h})

\* Sets of cells are finite.
LEMMA CellsFinite == IsFiniteSet(Cells) /\ \A S \in SUBSET Cells : IsFiniteSet(S) /\ Cardinality(S) \in Nat
<1>1. IsFiniteSet(0 .. BlockSize - 1)
  BY Numbers, FS_Interval
<1>. QED  BY <1>1, FS_Subset, FS_CardinalityType DEF Cells

\* The cells with an entry, counted one by one.
LEMMA UptoSteps ==
  ASSUME NEW cells, NEW h
  PROVE  /\ Upto(cells, 0, h) = 0 /\ Upto(cells, BlockSize, h) = Count(cells, h)
         /\ Count(cells, h) \in Nat
         /\ \A i \in Cells :
              /\ Upto(cells, i, h) \in Nat
              /\ Upto(cells, i + 1, h) = Upto(cells, i, h) + (IF cells[i] = h THEN 1 ELSE 0)
              /\ Upto(cells, i + 1, h) <= Count(cells, h)
<1>1. {c \in Cells : c < 0 /\ cells[c] = h} = {}
  BY Numbers DEF Cells
<1>2. {c \in Cells : c < BlockSize /\ cells[c] = h} = {c \in Cells : cells[c] = h}
  BY Numbers DEF Cells
<1>3. Upto(cells, 0, h) = 0 /\ Upto(cells, BlockSize, h) = Count(cells, h) /\ Count(cells, h) \in Nat
  BY <1>1, <1>2, CellsFinite, FS_EmptySet DEF Upto, Count
<1>4. ASSUME NEW i \in Cells
      PROVE  /\ Upto(cells, i, h) \in Nat
             /\ Upto(cells, i + 1, h) = Upto(cells, i, h) + (IF cells[i] = h THEN 1 ELSE 0)
             /\ Upto(cells, i + 1, h) <= Count(cells, h)
  <2>. DEFINE A == {c \in Cells : c < i /\ cells[c] = h}
              B == {c \in Cells : c < i + 1 /\ cells[c] = h}
              C == {c \in Cells : cells[c] = h}
  <2>1. A \in SUBSET Cells /\ B \in SUBSET Cells /\ C \in SUBSET Cells /\ B \in SUBSET C /\ i \notin A
    BY Numbers DEF Cells
  <2>2. B = IF cells[i] = h THEN A \cup {i} ELSE A
    BY Numbers DEF Cells
  <2>. HIDE DEF A, B, C
  <2>3. Cardinality(A) \in Nat /\ Cardinality(B) <= Cardinality(C)
    BY <2>1, CellsFinite, FS_Subset
  <2>4. Cardinality(B) = Cardinality(A) + (IF cells[i] = h THEN 1 ELSE 0)
    BY <2>1, <2>2, <2>3, CellsFinite, FS_AddElement
  <2>. QED  BY <2>3, <2>4 DEF Upto, Count, A, B, C
<1>. QED  BY <1>3, <1>4

\* Only the counts of references and what they free is changed.
SameCells(t, u) == u.l1 = t.l1 /\ u.sub = t.sub /\ u.use = t.use /\ u.fatal = t.fatal

\* All the references of some cells are given up.
LEMMA UnrefAllEffect ==
  ASSUME NEW t \in Tables, NEW e, FreeOK(t, e), NEW cells \in [Cells -> Entries],
         \A h \in Handlers : t.ref[h] >= Count(cells, h),
         e \in Handlers /\ Count(cells, e) > 0 => t.ref[e] > Count(cells, e)
  PROVE  LET u == UnrefAll(t, cells)
         IN  /\ u \in Tables /\ FreeOK(u, e) /\ Kept(t, u, e) /\ SameCells(t, u)
             /\ \A h \in Handlers : u.ref[h] = t.ref[h] - Count(cells, h)
<1>. DEFINE N == BlockSize
            op(d, c) == Unref(d, cells[c])
            step == [i \in 0 .. N - 1 |-> [d \in Tables |-> op(d, i)]]
            J == [i \in 0 .. N |->
                    {d \in Tables : /\ FreeOK(d, e) /\ Kept(t, d, e) /\ SameCells(t, d)
                                    /\ \A h \in Handlers : d.ref[h] = t.ref[h] - Upto(cells, i, h)}]
            Body(f) == [i \in 0 .. N |-> IF i = 0 THEN t
                          ELSE IF i - 1 \in Cells THEN op(f[i - 1], i - 1) ELSE f[i - 1]]
<1>0. N \in Nat /\ Cells = 0 .. N - 1
  BY Numbers DEF Cells
<1>1. t \in J[0]
  <2>1. \A h \in Handlers : t.ref[h] = t.ref[h] - Upto(cells, 0, h)
    BY UptoSteps DEF Tables
  <2>2. Kept(t, t, e)
    BY DEF Kept
  <2>. QED  BY <1>0, <2>1, <2>2 DEF SameCells
<1>2. ASSUME NEW i \in 0 .. N - 1, NEW d \in J[i]
      PROVE  op(d, i) \in J[i + 1]
  <2>1. /\ d \in Tables /\ FreeOK(d, e) /\ Kept(t, d, e) /\ SameCells(t, d) /\ i \in Cells
        /\ \A h \in Handlers : d.ref[h] = t.ref[h] - Upto(cells, i, h)
    BY <1>0, <1>2
  <2>2. cells[i] \in Entries
    BY <2>1
  <2>3. ASSUME cells[i] \in Handlers
        PROVE  d.ref[cells[i]] >= 1 /\ (cells[i] = e => d.ref[cells[i]] >= 2)
    <3>. DEFINE h == cells[i]
    <3>1. /\ Upto(cells, i + 1, h) = Upto(cells, i, h) + 1 /\ Upto(cells, i + 1, h) <= Count(cells, h)
          /\ Upto(cells, i, h) \in Nat /\ Count(cells, h) \in Nat /\ t.ref[h] \in Nat
      BY <2>1, <2>3, UptoSteps DEF Tables
    <3>2. t.ref[h] >= Count(cells, h) /\ (h = e => t.ref[h] > Count(cells, h))
      BY <2>3, <3>1
    <3>. QED  BY <2>1, <2>3, <3>1, <3>2
  <2>. DEFINE u == op(d, i)
  <2>4. /\ u \in Tables /\ FreeOK(u, e) /\ Kept(d, u, e)
        /\ u.l1 = d.l1 /\ u.sub = d.sub /\ u.use = d.use /\ u.fatal = d.fatal
        /\ u.ref = [k \in Handlers |-> IF k = cells[i] THEN d.ref[k] - 1 ELSE d.ref[k]]
    BY <2>1, <2>2, <2>3, UnrefEffect
  <2>. HIDE DEF u
  <2>5. Kept(t, u, e)
    BY <2>1, <2>4, KeptTwice
  <2>6. ASSUME NEW h \in Handlers PROVE u.ref[h] = t.ref[h] - Upto(cells, i + 1, h)
    <3>1. /\ Upto(cells, i + 1, h) = Upto(cells, i, h) + (IF cells[i] = h THEN 1 ELSE 0)
          /\ Upto(cells, i, h) \in Nat /\ t.ref[h] \in Nat
      BY <2>1, UptoSteps DEF Tables
    <3>. QED  BY <2>1, <2>4, <3>1
  <2>7. i + 1 \in 0 .. N
    BY <1>0
  <2>. QED  BY <2>1, <2>4, <2>5, <2>6, <2>7 DEF SameCells, u
<1>3. PICK f : Runs(f, N, Cells, t, step) /\ \A i \in 0 .. N : f[i] \in J[i]
  <2>1. ASSUME NEW i \in 0 .. N - 1, NEW d \in J[i] PROVE step[i][d] = op(d, i) /\ i \in Cells
    BY <1>0
  <2>2. Stays(N, Cells, J, step)
    <3>. HIDE DEF J, step, op
    <3>. QED  BY <1>2, <2>1 DEF Stays
  <2>. HIDE DEF J, step
  <2>. QED  BY <1>0, <1>1, <2>2, Loop
<1>4. f = Body(f)
  <2>1. ASSUME NEW i \in 0 .. N, i # 0 PROVE step[i - 1][f[i - 1]] = op(f[i - 1], i - 1)
    <3>1. i - 1 \in 0 .. N - 1 /\ f[i - 1] \in Tables
      BY <1>0, <1>3, <2>1
    <3>. QED  BY <3>1
  <2>. HIDE DEF step, J, op
  <2>. QED  BY <1>3, <2>1 DEF Runs
<1>5. UnrefAll(t, cells) = (CHOOSE g : g = Body(g))[N]
  BY DEF UnrefAll, Ascend
<1>. HIDE DEF Body
<1>6. PICK g : g = Body(g) /\ UnrefAll(t, cells) = g[N]
  BY <1>4, <1>5
<1>7. g[N] \in J[N]
  <2>. DEFINE Q == {i \in 0 .. N : g[i] \in J[i]}
  <2>1. 0 \in Q
    BY <1>0, <1>1, <1>6 DEF Body
  <2>2. ASSUME NEW i \in 0 .. N - 1, i \in Q PROVE i + 1 \in Q
    <3>1. g[i + 1] = op(g[i], i)
      BY <1>0, <1>6 DEF Body
    <3>. HIDE DEF op, J
    <3>. QED  BY <1>0, <1>2, <2>2, <3>1
  <2>. HIDE DEF Q
  <2>3. N \in Q
    BY <1>0, <2>1, <2>2, UpTo
  <2>. QED  BY <2>3 DEF Q
<1>8. \A h \in Handlers : Upto(cells, N, h) = Count(cells, h)
  BY UptoSteps
<1>. QED  BY <1>0, <1>6, <1>7, <1>8

----------------------------------------------------------------------------
(* Counting references. *)

\* The arguments of f that have the value x.
Places(D, f, x) == {d \in D : f[d] = x}

\* One value is another.
Changed(f, b, y) == [f EXCEPT ![b] = y]

\* What one change does to the number of places with a value.
LEMMA CountExcept ==
  ASSUME NEW D, IsFiniteSet(D), NEW f, NEW b \in D, NEW y, NEW x, DOMAIN f = D
  PROVE  /\ Cardinality(Places(D, f, x)) \in Nat
         /\ Cardinality(Places(D, Changed(f, b, y), x)) \in Nat
         /\ Cardinality(Places(D, Changed(f, b, y), x)) + (IF f[b] = x THEN 1 ELSE 0)
              = Cardinality(Places(D, f, x)) + (IF y = x THEN 1 ELSE 0)
<1>. DEFINE g == [f EXCEPT ![b] = y]
            A == {d \in D : f[d] = x}
            B == {d \in D : g[d] = x}
            C == {d \in D \ {b} : f[d] = x}
<1>0. \A d \in D : g[d] = IF d = b THEN y ELSE f[d]
  OBVIOUS
<1>1. IsFiniteSet(A) /\ IsFiniteSet(B) /\ IsFiniteSet(C) /\ b \notin C
  BY FS_Subset
<1>. HIDE DEF g
<1>2. A = IF f[b] = x THEN C \cup {b} ELSE C
  OBVIOUS
<1>3. B = IF y = x THEN C \cup {b} ELSE C
  BY <1>0
<1>. HIDE DEF A, B, C
<1>4. /\ Cardinality(A) \in Nat /\ Cardinality(B) \in Nat /\ Cardinality(C) \in Nat
      /\ Cardinality(C \cup {b}) = Cardinality(C) + 1
  BY <1>1, FS_CardinalityType, FS_AddElement
<1>5. /\ Cardinality(A) \in Nat /\ Cardinality(B) \in Nat
      /\ Cardinality(B) + (IF f[b] = x THEN 1 ELSE 0) = Cardinality(A) + (IF y = x THEN 1 ELSE 0)
  BY <1>2, <1>3, <1>4
<1>. QED  BY <1>5 DEF A, B, g, Places, Changed

\* Sets of blocks are finite.
LEMMA BlocksFinite ==
  /\ IsFiniteSet(Blocks)
  /\ \A S \in SUBSET Blocks : IsFiniteSet(S) /\ Cardinality(S) \in Nat
  /\ \A S \in SUBSET Blocks : Cardinality(S) = 0 <=> S = {}
  /\ \A S \in SUBSET Blocks : \A b \in S : Cardinality(S) >= 1
<1>1. IsFiniteSet(0 .. BlockCount - 1)
  BY Numbers, FS_Interval
<1>2. \A S \in SUBSET Blocks : IsFiniteSet(S) /\ Cardinality(S) \in Nat
  BY <1>1, FS_Subset, FS_CardinalityType DEF Blocks
<1>3. \A S \in SUBSET Blocks : Cardinality(S) = 0 <=> S = {}
  BY <1>2, FS_EmptySet
<1>4. ASSUME NEW S \in SUBSET Blocks, NEW b \in S PROVE Cardinality(S) >= 1
  BY <1>2, <1>3
<1>. QED  BY <1>1, <1>2, <1>3, <1>4 DEF Blocks

\* The cells of the subtables in use that refer to h.
CellsOn(t, h) ==
  {p \in Subtables \X Cells : t.use[p[1]] # 0 /\ t.sub[p[1]][p[2]] = h}

\* How often h is held.
Held(t, h) == Cardinality(On(t, h)) + Cardinality(CellsOn(t, h))

\* References are counted by natural numbers.
LEMMA HeldType ==
  ASSUME NEW t, NEW h
  PROVE  /\ IsFiniteSet(On(t, h)) /\ IsFiniteSet(CellsOn(t, h))
         /\ Cardinality(On(t, h)) \in Nat /\ Cardinality(CellsOn(t, h)) \in Nat
         /\ Held(t, h) \in Nat
<1>1. IsFiniteSet(On(t, h))
  BY BlocksFinite DEF On
<1>2. IsFiniteSet(Subtables)
  BY Numbers, FS_Interval DEF Subtables
<1>3. IsFiniteSet(Subtables \X Cells)
  BY <1>2, CellsFinite, FS_Product
<1>4. IsFiniteSet(CellsOn(t, h))
  BY <1>3, FS_Subset DEF CellsOn
<1>. QED  BY <1>1, <1>4, FS_CardinalityType DEF Held

\* What one block less, or more, does to the blocks that have an entry.
LEMMA OnExcept ==
  ASSUME NEW t \in Tables, NEW u, NEW b \in Blocks, NEW y, NEW x, u.l1 = [t.l1 EXCEPT ![b] = y]
  PROVE  Cardinality(On(u, x)) + (IF t.l1[b] = x THEN 1 ELSE 0)
           = Cardinality(On(t, x)) + (IF y = x THEN 1 ELSE 0)
<1>1. DOMAIN t.l1 = Blocks /\ IsFiniteSet(Blocks)
  BY BlocksFinite DEF Tables
<1>2. On(t, x) = Places(Blocks, t.l1, x) /\ On(u, x) = Places(Blocks, Changed(t.l1, b, y), x)
  BY DEF On, Places, Changed
<1>3. Cardinality(Places(Blocks, Changed(t.l1, b, y), x)) + (IF t.l1[b] = x THEN 1 ELSE 0)
           = Cardinality(Places(Blocks, t.l1, x)) + (IF y = x THEN 1 ELSE 0)
  BY <1>1, CountExcept
<1>. QED  BY <1>2, <1>3

\* The cells of the other subtables.
Others(t, s, h) == {p \in CellsOn(t, h) : p[1] # s}

\* The cells of one subtable and those of the others.
LEMMA CellsOnSplit ==
  ASSUME NEW t, NEW s \in Subtables, NEW h
  PROVE  /\ Cardinality(Others(t, s, h)) \in Nat
         /\ Cardinality(CellsOn(t, h)) =
              Cardinality(Others(t, s, h)) + (IF t.use[s] # 0 THEN Count(t.sub[s], h) ELSE 0)
<1>. DEFINE mine == {c \in Cells : t.sub[s][c] = h}
<1>1. IsFiniteSet(CellsOn(t, h)) /\ IsFiniteSet(Others(t, s, h))
  BY HeldType, FS_Subset DEF Others
<1>2. CASE t.use[s] = 0
  <2>1. CellsOn(t, h) = Others(t, s, h)
    BY <1>2 DEF CellsOn, Others
  <2>. QED  BY <1>1, <1>2, <2>1, FS_CardinalityType
<1>3. CASE t.use[s] # 0
  <2>1. CellsOn(t, h) = Others(t, s, h) \cup ({s} \X mine)
    BY <1>3 DEF CellsOn, Others
  <2>2. Others(t, s, h) \cap ({s} \X mine) = {}
    BY DEF Others
  <2>3. IsFiniteSet({s}) /\ Cardinality({s}) = 1 /\ IsFiniteSet(mine) /\ Cardinality(mine) \in Nat
    BY FS_Singleton, CellsFinite
  <2>. HIDE DEF mine
  <2>4. IsFiniteSet({s} \X mine) /\ Cardinality({s} \X mine) = Cardinality({s}) * Cardinality(mine)
    BY <2>3, FS_Product, Zenon
  <2>5. Cardinality({s} \X mine) = Cardinality(mine)
    BY <2>3, <2>4
  <2>6. Cardinality(Others(t, s, h) \cup ({s} \X mine)) =
          Cardinality(Others(t, s, h)) + Cardinality({s} \X mine) - Cardinality(Others(t, s, h) \cap ({s} \X mine))
    BY <1>1, <2>4, FS_Union, Zenon
  <2>7. Cardinality(Others(t, s, h)) \in Nat /\ Cardinality(Others(t, s, h) \cap ({s} \X mine)) = 0
    BY <1>1, <2>2, FS_EmptySet, FS_CardinalityType
  <2>8. Cardinality(CellsOn(t, h)) = Cardinality(Others(t, s, h)) + Cardinality(mine)
    BY <2>1, <2>3, <2>5, <2>6, <2>7
  <2>. QED  BY <1>3, <2>7, <2>8 DEF Count, mine
<1>. QED  BY <1>2, <1>3

\* Only subtable s is another in u.
LEMMA CellsOnChange ==
  ASSUME NEW t, NEW u, NEW s \in Subtables, NEW h,
         \A q \in Subtables : q # s => u.sub[q] = t.sub[q] /\ (u.use[q] = 0 <=> t.use[q] = 0)
  PROVE  Cardinality(CellsOn(u, h)) + (IF t.use[s] # 0 THEN Count(t.sub[s], h) ELSE 0) =
           Cardinality(CellsOn(t, h)) + (IF u.use[s] # 0 THEN Count(u.sub[s], h) ELSE 0)
<1>1. Others(t, s, h) = Others(u, s, h)
  BY DEF Others, CellsOn
<1>2. Count(t.sub[s], h) \in Nat /\ Count(u.sub[s], h) \in Nat
  BY UptoSteps
<1>. QED  BY <1>1, <1>2, CellsOnSplit

\* Only subtables in use count.
LEMMA CellsOnSame ==
  ASSUME NEW t, NEW u, u.sub = t.sub, \A q \in Subtables : u.use[q] = 0 <=> t.use[q] = 0
  PROVE  \A h : CellsOn(u, h) = CellsOn(t, h)
  BY DEF CellsOn

\* What is given up of h when n blocks let go of a subtable.
Fading(t, s, n, h) == IF t.use[s] = n THEN Count(t.sub[s], h) ELSE 0

\* subtable_release: the last block that lets go gives back what the cells held.
LEMMA ReleaseEffect ==
  ASSUME NEW t \in Tables, NEW e, FreeOK(t, e), NEW s \in Subtables, NEW n \in Nat, t.use[s] >= n,
         \A h \in Handlers : t.ref[h] >= Fading(t, s, n, h),
         e \in Handlers /\ Fading(t, s, n, e) > 0 => t.ref[e] > Fading(t, s, n, e)
  PROVE  LET u == Release(t, s, n)
         IN  /\ u \in Tables /\ FreeOK(u, e) /\ Kept(t, u, e)
             /\ u.l1 = t.l1 /\ u.sub = t.sub /\ u.fatal = t.fatal
             /\ u.use = [t.use EXCEPT ![s] = @ - n]
             /\ \A h \in Handlers : u.ref[h] = t.ref[h] - Fading(t, s, n, h)
<1>. DEFINE d == [t EXCEPT !.use[s] = @ - n]
            u == Release(t, s, n)
<1>1. t.use \in [Subtables -> Nat] /\ t.sub \in [Subtables -> [Cells -> Entries]]
      /\ t.ref \in [Handlers -> Nat]
  BY DEF Tables
<1>2. /\ d.l1 = t.l1 /\ d.sub = t.sub /\ d.fatal = t.fatal /\ d.ref = t.ref /\ d.free = t.free
      /\ d.conf = t.conf /\ d.use = [t.use EXCEPT ![s] = t.use[s] - n] /\ d.use[s] = t.use[s] - n
      /\ d \in Tables
  <2>. DEFINE use == [t.use EXCEPT ![s] = t.use[s] - n]
  <2>1. use \in [Subtables -> Nat] /\ use[s] = t.use[s] - n
    BY <1>1
  <2>2. d = [t EXCEPT !.use = use]
    OBVIOUS
  <2>. HIDE DEF d, use
  <2>3. d.use = use /\ d \in Tables
    BY <2>1, <2>2 DEF Tables
  <2>4. /\ d.l1 = t.l1 /\ d.sub = t.sub /\ d.fatal = t.fatal /\ d.ref = t.ref /\ d.free = t.free
        /\ d.conf = t.conf
    BY <2>2 DEF Tables
  <2>. QED  BY <2>1, <2>3, <2>4 DEF use
<1>5. FreeOK(d, e) /\ Kept(t, d, e)
  <2>. HIDE DEF d
  <2>. QED  BY <1>2 DEF FreeOK, Kept
<1>6. u = IF d.use[s] = 0 THEN UnrefAll(d, d.sub[s]) ELSE d
  BY DEF Release
<1>. HIDE DEF d, u
<1>7. CASE t.use[s] = n
  <2>1. u = UnrefAll(d, t.sub[s]) /\ t.sub[s] \in [Cells -> Entries]
    BY <1>1, <1>2, <1>6, <1>7
  <2>2. \A h \in Handlers : Fading(t, s, n, h) = Count(t.sub[s], h)
    BY <1>7 DEF Fading
  <2>3. \A h \in Handlers : d.ref[h] >= Count(t.sub[s], h)
    BY <1>2, <2>2
  <2>4. e \in Handlers /\ Count(t.sub[s], e) > 0 => d.ref[e] > Count(t.sub[s], e)
    BY <1>2, <2>2
  <2>5. /\ u \in Tables /\ FreeOK(u, e) /\ Kept(d, u, e) /\ SameCells(d, u)
        /\ \A h \in Handlers : u.ref[h] = d.ref[h] - Count(t.sub[s], h)
    BY <1>2, <1>5, <2>1, <2>3, <2>4, UnrefAllEffect
  <2>6. Kept(t, u, e)
    BY <1>2, <1>5, <2>5, KeptTwice
  <2>. QED  BY <1>2, <2>2, <2>5, <2>6 DEF SameCells, u
<1>8. CASE t.use[s] # n
  <2>1. u = d
    <3>1. t.use[s] - n # 0
      <4>1. t.use[s] \in Nat
        BY <1>1
      <4>2. \A i, j \in Nat : i # j => i - j # 0
        OBVIOUS
      <4>. QED  BY <1>8, <4>1, <4>2
    <3>2. d.use[s] # 0
      BY <1>2, <3>1
    <3>. QED  BY <1>6, <3>2
  <2>2. \A h \in Handlers : d.ref[h] = t.ref[h] - Fading(t, s, n, h)
    BY <1>1, <1>2, <1>8 DEF Fading
  <2>. QED  BY <1>2, <1>5, <2>1, <2>2 DEF u
<1>. QED  BY <1>7, <1>8

\* What is given up of h when block b is let go.
Gone(t, b, h) ==
  IF t.l1[b] \in Subtables THEN Fading(t, t.l1[b], 1, h) ELSE IF t.l1[b] = h THEN 1 ELSE 0

\* A block holds a number of references.
LEMMA GoneType ==
  ASSUME NEW t, NEW b, NEW h
  PROVE  Gone(t, b, h) \in Nat
  BY UptoSteps DEF Gone, Fading

\* What a block held is given back.
LEMMA DropEffect ==
  ASSUME NEW t \in Tables, NEW e, FreeOK(t, e), NEW b \in Blocks,
         t.l1[b] \in Subtables => t.use[t.l1[b]] >= 1,
         \A h \in Handlers : t.ref[h] >= Gone(t, b, h),
         e \in Handlers /\ Gone(t, b, e) > 0 => t.ref[e] > Gone(t, b, e)
  PROVE  LET u == Drop(t, b)
         IN  /\ u \in Tables /\ FreeOK(u, e) /\ Kept(t, u, e)
             /\ u.l1 = t.l1 /\ u.sub = t.sub /\ u.fatal = t.fatal
             /\ u.use = IF t.l1[b] \in Subtables THEN [t.use EXCEPT ![t.l1[b]] = @ - 1] ELSE t.use
             /\ \A h \in Handlers : u.ref[h] = t.ref[h] - Gone(t, b, h)
<1>. DEFINE u == Drop(t, b)
<1>1. t.l1[b] \in Nodes /\ t.ref \in [Handlers -> Nat]
  BY DEF Tables
<1>2. CASE t.l1[b] \in Subtables
  <2>1. u = Release(t, t.l1[b], 1)
    BY <1>2 DEF Drop
  <2>2. \A h : Gone(t, b, h) = Fading(t, t.l1[b], 1, h)
    BY <1>2 DEF Gone
  <2>3. /\ t.use[t.l1[b]] >= 1
        /\ \A h \in Handlers : t.ref[h] >= Fading(t, t.l1[b], 1, h)
        /\ e \in Handlers /\ Fading(t, t.l1[b], 1, e) > 0 => t.ref[e] > Fading(t, t.l1[b], 1, e)
    BY <1>2, <2>2
  <2>. HIDE DEF u
  <2>4. /\ u \in Tables /\ FreeOK(u, e) /\ Kept(t, u, e)
        /\ u.l1 = t.l1 /\ u.sub = t.sub /\ u.fatal = t.fatal
        /\ u.use = [t.use EXCEPT ![t.l1[b]] = @ - 1]
        /\ \A h \in Handlers : u.ref[h] = t.ref[h] - Fading(t, t.l1[b], 1, h)
    BY <1>2, <2>1, <2>3, ReleaseEffect
  <2>. QED  BY <1>2, <2>2, <2>4 DEF u
<1>3. CASE t.l1[b] \notin Subtables
  <2>1. u = Unref(t, t.l1[b]) /\ t.l1[b] \in Entries
    BY <1>1, <1>3, Numbers DEF Drop
  <2>2. \A h \in Handlers : Gone(t, b, h) = IF t.l1[b] = h THEN 1 ELSE 0
    BY <1>3 DEF Gone
  <2>3. t.l1[b] \in Handlers => t.ref[t.l1[b]] >= 1 /\ (t.l1[b] = e => t.ref[t.l1[b]] >= 2)
    BY <1>1, <2>2
  <2>. HIDE DEF u
  <2>4. /\ u \in Tables /\ FreeOK(u, e) /\ Kept(t, u, e) /\ SameCells(t, u)
        /\ u.ref = [k \in Handlers |-> IF k = t.l1[b] THEN t.ref[k] - 1 ELSE t.ref[k]]
    BY <2>1, <2>3, UnrefEffect DEF SameCells
  <2>5. \A h \in Handlers : u.ref[h] = t.ref[h] - Gone(t, b, h)
    BY <1>1, <2>2, <2>4
  <2>. QED  BY <1>3, <2>4, <2>5 DEF SameCells, u
<1>. QED  BY <1>2, <1>3

\* Subtables and handlers have been counted right, but for n references of e that are
\* still to come.
Counted(t) == \A s \in Subtables : t.use[s] = Cardinality(On(t, s))

\* References are counted by who holds them, and n more are owed to e.
Owes(t, e, n) == \A h \in Handlers : t.ref[h] = Held(t, h) + (IF h = e THEN n ELSE 0)

\* Tables in the middle of a loop that will still write e n times.
Sound(t, e, n) == t \in Tables /\ ~t.fatal /\ FreeOK(t, e) /\ Counted(t) /\ Owes(t, e, n)

\* The entry of a cell of a block.
At(t, b, c) == IF t.l1[b] \in Subtables THEN t.sub[t.l1[b]][c] ELSE t.l1[b]

\* Two blocks with an entry are two of those that have it.
LEMMA TwoOn ==
  ASSUME NEW t, NEW b \in Blocks, NEW d \in Blocks, b # d, t.l1[b] = t.l1[d]
  PROVE  Cardinality(On(t, t.l1[b])) >= 2
<1>. DEFINE rest == On(t, t.l1[b]) \ {b}
<1>1. rest \in SUBSET Blocks /\ d \in rest /\ b \notin rest /\ On(t, t.l1[b]) = rest \cup {b}
  BY DEF On
<1>. HIDE DEF rest
<1>2. IsFiniteSet(rest) /\ Cardinality(rest) \in Nat /\ Cardinality(rest) >= 1
  BY <1>1, BlocksFinite
<1>3. Cardinality(rest \cup {b}) = Cardinality(rest) + 1
  BY <1>1, <1>2, FS_AddElement
<1>. QED  BY <1>1, <1>2, <1>3

\* A block is one of those that have its entry.
LEMMA OneOn ==
  ASSUME NEW t, NEW b \in Blocks
  PROVE  Cardinality(On(t, t.l1[b])) >= 1
<1>1. b \in On(t, t.l1[b]) /\ On(t, t.l1[b]) \in SUBSET Blocks
  BY DEF On
<1>. QED  BY <1>1, BlocksFinite

\* A cell is one of those that have its entry.
LEMMA OneCell ==
  ASSUME NEW t, NEW s \in Subtables, NEW c \in Cells
  PROVE  Count(t.sub[s], t.sub[s][c]) >= 1
<1>. DEFINE S == {x \in Cells : t.sub[s][x] = t.sub[s][c]}
<1>1. S \in SUBSET Cells /\ c \in S
  OBVIOUS
<1>. HIDE DEF S
<1>2. IsFiniteSet(S) /\ Cardinality(S) \in Nat /\ S # {}
  BY <1>1, CellsFinite
<1>3. Cardinality(S) # 0
  BY <1>2, FS_EmptySet
<1>. QED  BY <1>2, <1>3 DEF Count, S

\* What a block refers to is held, ...
LEMMA GoneHeld ==
  ASSUME NEW t \in Tables, Counted(t), NEW b \in Blocks, NEW h
  PROVE  /\ Held(t, h) >= Gone(t, b, h) /\ Held(t, h) \in Nat /\ Gone(t, b, h) \in Nat
         /\ t.l1[b] \in Subtables => t.use[t.l1[b]] >= 1
<1>1. t.l1[b] \in Subtables => t.use[t.l1[b]] >= 1
  BY OneOn DEF Counted
<1>2. CASE t.l1[b] \in Subtables
  <2>1. /\ Cardinality(Others(t, t.l1[b], h)) \in Nat
        /\ Cardinality(CellsOn(t, h)) =
             Cardinality(Others(t, t.l1[b], h)) + (IF t.use[t.l1[b]] # 0 THEN Count(t.sub[t.l1[b]], h) ELSE 0)
    BY <1>2, CellsOnSplit
  <2>2. /\ Cardinality(On(t, h)) \in Nat /\ Held(t, h) \in Nat /\ Gone(t, b, h) \in Nat
        /\ Held(t, h) = Cardinality(On(t, h)) + Cardinality(CellsOn(t, h))
        /\ Count(t.sub[t.l1[b]], h) \in Nat
    BY HeldType, GoneType, UptoSteps DEF Held
  <2>3. Gone(t, b, h) = IF t.use[t.l1[b]] = 1 THEN Count(t.sub[t.l1[b]], h) ELSE 0
    BY <1>2 DEF Gone, Fading
  <2>4. t.use[t.l1[b]] # 0
    BY <1>1, <1>2
  <2>. QED  BY <1>1, <2>1, <2>2, <2>3, <2>4
<1>3. CASE t.l1[b] \notin Subtables
  <2>1. Gone(t, b, h) = IF t.l1[b] = h THEN 1 ELSE 0
    BY <1>3 DEF Gone
  <2>2. t.l1[b] = h => Cardinality(On(t, h)) >= 1
    BY OneOn
  <2>. QED  BY <1>1, <1>3, <2>1, <2>2, HeldType DEF Held
<1>. QED  BY <1>2, <1>3

\* ... and what another block refers to is held without it.
LEMMA HeldElsewhere ==
  ASSUME NEW t \in Tables, Counted(t), NEW b \in Blocks, NEW d \in Blocks, b # d, NEW c \in Cells
  PROVE  Held(t, At(t, d, c)) > Gone(t, b, At(t, d, c))
<1>. DEFINE h == At(t, d, c)
<1>1. /\ Cardinality(On(t, h)) \in Nat /\ Held(t, h) \in Nat /\ Gone(t, b, h) \in Nat
      /\ Cardinality(CellsOn(t, h)) \in Nat
      /\ Held(t, h) = Cardinality(On(t, h)) + Cardinality(CellsOn(t, h))
  BY HeldType, GoneType DEF Held
<1>2. \A s \in Subtables :
        /\ Cardinality(Others(t, s, h)) \in Nat /\ Count(t.sub[s], h) \in Nat
        /\ Cardinality(CellsOn(t, h)) =
             Cardinality(Others(t, s, h)) + (IF t.use[s] # 0 THEN Count(t.sub[s], h) ELSE 0)
  BY CellsOnSplit, UptoSteps
<1>3. (t.l1[b] \in Subtables => t.use[t.l1[b]] >= 1) /\ (t.l1[d] \in Subtables => t.use[t.l1[d]] >= 1)
  BY GoneHeld
<1>4. t.l1[b] = t.l1[d] => Cardinality(On(t, t.l1[b])) >= 2
  BY TwoOn
<1>. SUFFICES Held(t, h) > Gone(t, b, h)
  OBVIOUS
<1>. HIDE DEF h
<1>5. CASE t.l1[d] \notin Subtables
  <2>1. h = t.l1[d] /\ Cardinality(On(t, h)) >= 1
    BY <1>5, OneOn DEF h, At
  <2>2. CASE t.l1[b] \notin Subtables
    <3>1. Gone(t, b, h) = IF t.l1[b] = h THEN 1 ELSE 0
      BY <2>2 DEF Gone
    <3>. QED  BY <1>1, <1>4, <2>1, <3>1
  <2>3. CASE t.l1[b] \in Subtables
    <3>1. Gone(t, b, h) = IF t.use[t.l1[b]] = 1 THEN Count(t.sub[t.l1[b]], h) ELSE 0
      BY <2>3 DEF Gone, Fading
    <3>2. t.use[t.l1[b]] # 0
      BY <1>3, <2>3
    <3>. QED  BY <1>1, <1>2, <2>1, <2>3, <3>1, <3>2
  <2>. QED  BY <2>2, <2>3
<1>6. CASE t.l1[d] \in Subtables
  <2>. DEFINE p == t.l1[d]
  <2>1. h = t.sub[p][c] /\ Count(t.sub[p], h) >= 1 /\ t.use[p] # 0
    BY <1>3, <1>6, OneCell DEF h, At
  <2>2. CASE t.l1[b] \notin Subtables
    <3>1. Gone(t, b, h) = IF t.l1[b] = h THEN 1 ELSE 0
      BY <2>2 DEF Gone
    <3>2. t.l1[b] = h => Cardinality(On(t, h)) >= 1
      BY OneOn
    <3>3. Cardinality(CellsOn(t, h)) >= 1
      <4>. HIDE DEF p
      <4>1. p \in Subtables
        BY <1>6 DEF p
      <4>. QED  BY <1>2, <2>1, <4>1
    <3>. QED  BY <1>1, <3>1, <3>2, <3>3
  <2>3. CASE t.l1[b] = p
    <3>1. t.use[p] >= 2
      BY <1>4, <1>6, <2>3 DEF Counted
    <3>2. Gone(t, b, h) = 0
      BY <1>6, <2>3, <3>1 DEF Gone, Fading
    <3>3. Cardinality(CellsOn(t, h)) >= 1
      <4>. HIDE DEF p
      <4>1. p \in Subtables
        BY <1>6 DEF p
      <4>. QED  BY <1>2, <2>1, <4>1
    <3>. QED  BY <1>1, <3>2, <3>3
  <2>4. CASE t.l1[b] \in Subtables /\ t.l1[b] # p
    <3>. DEFINE s == t.l1[b]
    <3>1. Gone(t, b, h) = IF t.use[s] = 1 THEN Count(t.sub[s], h) ELSE 0
      BY <2>4 DEF Gone, Fading
    <3>2. <<p, c>> \in Others(t, s, h)
      BY <1>6, <2>1, <2>4 DEF Others, CellsOn
    <3>3. IsFiniteSet(Others(t, s, h))
      BY HeldType, FS_Subset DEF Others
    <3>4. Cardinality(Others(t, s, h)) >= 1
      <4>1. Cardinality(Others(t, s, h)) \in Nat /\ Cardinality(Others(t, s, h)) # 0
        BY <3>2, <3>3, FS_EmptySet, FS_CardinalityType
      <4>. QED  BY <4>1
    <3>5. t.use[s] # 0 /\ s \in Subtables
      BY <1>3, <2>4
    <3>. HIDE DEF s, p
    <3>. QED  BY <1>1, <1>2, <3>1, <3>4, <3>5
  <2>. QED  BY <2>2, <2>3, <2>4
<1>. QED  BY <1>5, <1>6

\* A table that differs from t in some fields.
LEMMA RefEffect ==
  ASSUME NEW t \in Tables, NEW e, FreeOK(t, e), NEW h, NEW n \in Nat,
         h \in Handlers => h = e \/ t.ref[h] > 0
  PROVE  LET u == Ref(t, h, n)
         IN  /\ u \in Tables /\ FreeOK(u, e) /\ Kept(t, u, e) /\ SameCells(t, u)
             /\ \A k \in Handlers : u.ref[k] = t.ref[k] + (IF k = h THEN n ELSE 0)
<1>. DEFINE u == Ref(t, h, n)
<1>1. t.ref \in [Handlers -> Nat]
  BY DEF Tables
<1>2. CASE h \notin Handlers
  <2>1. u = t
    BY <1>2 DEF Ref
  <2>. QED  BY <1>1, <1>2, <2>1 DEF Kept, SameCells
<1>3. CASE h \in Handlers
  <2>. DEFINE ref == [t.ref EXCEPT ![h] = t.ref[h] + n]
  <2>1. ref \in [Handlers -> Nat] /\ \A k \in Handlers : ref[k] = t.ref[k] + (IF k = h THEN n ELSE 0)
    BY <1>1, <1>3
  <2>2. u = [t EXCEPT !.ref = ref]
    BY <1>3 DEF Ref
  <2>. HIDE DEF u, ref
  <2>3. u.ref = ref /\ u \in Tables /\ u.free = t.free /\ u.conf = t.conf /\ SameCells(t, u)
    BY <2>1, <2>2 DEF Tables, SameCells
  <2>4. \A k \in Handlers : k # e => (ref[k] = 0 <=> t.ref[k] = 0)
    BY <1>1, <2>1
  <2>5. FreeOK(u, e)
    BY <2>3, <2>4 DEF FreeOK
  <2>6. Kept(t, u, e)
    BY <2>3, <2>4 DEF Kept
  <2>. QED  BY <2>1, <2>3, <2>5, <2>6 DEF u
<1>. QED  BY <1>2, <1>3

\* Block b of u refers to y, what it referred to in t is let go.
LEMMA PutCounted ==
  ASSUME NEW t \in Tables, Counted(t), NEW b \in Blocks, NEW y \in Nodes, NEW u,
         u.l1 = [t.l1 EXCEPT ![b] = y],
         \A q \in Subtables : u.use[q] = t.use[q] - (IF t.l1[b] = q THEN 1 ELSE 0) + (IF y = q THEN 1 ELSE 0)
  PROVE  Counted(u)
<1>. SUFFICES ASSUME NEW q \in Subtables PROVE u.use[q] = Cardinality(On(u, q))
  BY DEF Counted
<1>1. Cardinality(On(u, q)) + (IF t.l1[b] = q THEN 1 ELSE 0)
           = Cardinality(On(t, q)) + (IF y = q THEN 1 ELSE 0)
  BY OnExcept
<1>2. Cardinality(On(u, q)) \in Nat /\ Cardinality(On(t, q)) \in Nat
  BY HeldType
<1>3. t.use[q] = Cardinality(On(t, q))
  BY DEF Counted
<1>. QED  BY <1>1, <1>2, <1>3

\* What a block that gets another entry does to the references of every handler.
LEMMA PutHeld ==
  ASSUME NEW t \in Tables, Counted(t), NEW b \in Blocks, NEW y \in Nodes, NEW u, Counted(u),
         u.l1 = [t.l1 EXCEPT ![b] = y], u.sub = t.sub,
         y \in Subtables => \E d \in Blocks \ {b} : t.l1[d] = y, NEW h \in Handlers
  PROVE  Held(u, h) = Held(t, h) - Gone(t, b, h) + (IF y = h THEN 1 ELSE 0)
<1>1. Cardinality(On(u, h)) + (IF t.l1[b] = h THEN 1 ELSE 0)
           = Cardinality(On(t, h)) + (IF y = h THEN 1 ELSE 0)
  BY OnExcept
<1>2. /\ Cardinality(On(u, h)) \in Nat /\ Cardinality(On(t, h)) \in Nat
      /\ Cardinality(CellsOn(u, h)) \in Nat /\ Cardinality(CellsOn(t, h)) \in Nat
  BY HeldType
<1>3. ASSUME NEW q \in Subtables, q # t.l1[b] \/ t.use[q] # 1 PROVE u.use[q] = 0 <=> t.use[q] = 0
  <2>1. Cardinality(On(u, q)) + (IF t.l1[b] = q THEN 1 ELSE 0)
           = Cardinality(On(t, q)) + (IF y = q THEN 1 ELSE 0)
    BY OnExcept
  <2>2. Cardinality(On(u, q)) \in Nat /\ Cardinality(On(t, q)) \in Nat
    BY HeldType
  <2>3. t.use[q] = Cardinality(On(t, q)) /\ u.use[q] = Cardinality(On(u, q))
    BY DEF Counted
  <2>4. y = q => Cardinality(On(t, q)) >= 1
    BY OneOn
  <2>5. t.l1[b] = q => Cardinality(On(t, q)) >= 1
    BY OneOn
  <2>. QED  BY <1>3, <2>1, <2>2, <2>3, <2>4, <2>5
<1>4. Held(u, h) = Cardinality(On(u, h)) + Cardinality(CellsOn(u, h))
      /\ Held(t, h) = Cardinality(On(t, h)) + Cardinality(CellsOn(t, h))
  BY DEF Held
<1>5. CASE t.l1[b] \notin Subtables
  <2>1. CellsOn(u, h) = CellsOn(t, h)
    BY <1>3, <1>5, CellsOnSame
  <2>2. Gone(t, b, h) = IF t.l1[b] = h THEN 1 ELSE 0
    BY <1>5 DEF Gone
  <2>. QED  BY <1>1, <1>2, <1>4, <2>1, <2>2
<1>6. CASE t.l1[b] \in Subtables /\ t.use[t.l1[b]] # 1
  <2>1. CellsOn(u, h) = CellsOn(t, h)
    BY <1>3, <1>6, CellsOnSame
  <2>2. Gone(t, b, h) = 0 /\ t.l1[b] # h
    BY <1>6, Numbers DEF Gone, Fading
  <2>. QED  BY <1>1, <1>2, <1>4, <2>1, <2>2
<1>7. CASE t.l1[b] \in Subtables /\ t.use[t.l1[b]] = 1
  <2>. DEFINE s == t.l1[b]
  <2>1. Gone(t, b, h) = Count(t.sub[s], h) /\ s # h /\ Count(t.sub[s], h) \in Nat
    BY <1>7, Numbers, UptoSteps DEF Gone, Fading
  <2>2. y # s
    BY <1>7, TwoOn DEF Counted
  <2>3. u.use[s] = 0
    <3>1. Cardinality(On(u, s)) + 1 = Cardinality(On(t, s)) /\ Cardinality(On(u, s)) \in Nat
      BY <2>2, OnExcept, HeldType
    <3>. QED  BY <1>7, <3>1 DEF Counted
  <2>4. Cardinality(CellsOn(u, h)) + (IF t.use[s] # 0 THEN Count(t.sub[s], h) ELSE 0) =
           Cardinality(CellsOn(t, h)) + (IF u.use[s] # 0 THEN Count(u.sub[s], h) ELSE 0)
    <3>1. s \in Subtables
      BY <1>7
    <3>2. \A q \in Subtables : q # s => u.sub[q] = t.sub[q] /\ (u.use[q] = 0 <=> t.use[q] = 0)
      BY <1>3
    <3>. HIDE DEF s
    <3>. QED  BY ONLY <3>1, <3>2, CellsOnChange
  <2>. QED  BY <1>1, <1>2, <1>4, <1>7, <2>1, <2>3, <2>4
<1>. QED  BY <1>5, <1>6, <1>7

\* A whole block gets the new entry.
PutBlock(t, b, e) == [Drop(t, b) EXCEPT !.l1[b] = e]

\* A block of its own entry: the turn of the loop of populate_range over whole blocks.
LEMMA SetBlockEffect ==
  ASSUME NEW e \in Entries, NEW n \in Nat, NEW m, m = n + 1, NEW t, Sound(t, e, m), NEW b \in Blocks
  PROVE  LET v == PutBlock(t, b, e)
         IN  /\ Sound(v, e, n) /\ Kept(t, v, e)
             /\ v.l1 = Changed(t.l1, b, e) /\ v.sub = t.sub
<1>. DEFINE u == Drop(t, b)
            v == [u EXCEPT !.l1[b] = e]
<1>1. t \in Tables /\ ~t.fatal /\ FreeOK(t, e) /\ Counted(t) /\ Owes(t, e, n + 1)
  BY DEF Sound
<1>2. \A h \in Handlers : t.ref[h] = Held(t, h) + (IF h = e THEN n + 1 ELSE 0)
  BY <1>1 DEF Owes
<1>3. /\ \A h : Held(t, h) >= Gone(t, b, h) /\ Held(t, h) \in Nat /\ Gone(t, b, h) \in Nat
      /\ t.l1[b] \in Subtables => t.use[t.l1[b]] >= 1
  BY <1>1, GoneHeld
<1>4. /\ \A h \in Handlers : t.ref[h] >= Gone(t, b, h)
      /\ e \in Handlers /\ Gone(t, b, e) > 0 => t.ref[e] > Gone(t, b, e)
  <2>1. ASSUME NEW h \in Handlers PROVE t.ref[h] >= Gone(t, b, h) /\ (h = e => t.ref[h] > Gone(t, b, h))
    BY <1>2, <1>3
  <2>. QED  BY <2>1
<1>. HIDE DEF u
<1>5. /\ u \in Tables /\ FreeOK(u, e) /\ Kept(t, u, e)
      /\ u.l1 = t.l1 /\ u.sub = t.sub /\ u.fatal = t.fatal
      /\ u.use = IF t.l1[b] \in Subtables THEN [t.use EXCEPT ![t.l1[b]] = @ - 1] ELSE t.use
      /\ \A h \in Handlers : u.ref[h] = t.ref[h] - Gone(t, b, h)
  BY <1>1, <1>3, <1>4, DropEffect DEF u
<1>6. /\ v \in Tables /\ v.l1 = [t.l1 EXCEPT ![b] = e] /\ v.sub = t.sub /\ v.fatal = t.fatal
      /\ v.use = u.use /\ v.ref = u.ref /\ v.free = u.free /\ v.conf = u.conf
  BY <1>5, Numbers DEF Tables
<1>. HIDE DEF v
<1>7. \A q \in Subtables : v.use[q] = t.use[q] - (IF t.l1[b] = q THEN 1 ELSE 0) + (IF e = q THEN 1 ELSE 0)
  <2>1. t.use \in [Subtables -> Nat]
    BY <1>1 DEF Tables
  <2>2. \A q \in Subtables : e # q
    BY Numbers
  <2>. QED  BY <1>5, <1>6, <2>1, <2>2
<1>8. Counted(v)
  BY <1>1, <1>6, <1>7, Numbers, PutCounted
<1>9. \A h \in Handlers : Held(v, h) = Held(t, h) - Gone(t, b, h) + (IF e = h THEN 1 ELSE 0)
  <2>1. e \in Nodes /\ e \notin Subtables
    BY Numbers
  <2>. QED  BY <1>1, <1>6, <1>8, <2>1, PutHeld
<1>10. Owes(v, e, n)
  <2>. SUFFICES ASSUME NEW h \in Handlers PROVE v.ref[h] = Held(v, h) + (IF h = e THEN n ELSE 0)
    BY DEF Owes
  <2>1. v.ref[h] = t.ref[h] - Gone(t, b, h) /\ t.ref[h] = Held(t, h) + (IF h = e THEN n + 1 ELSE 0)
    BY <1>2, <1>5, <1>6
  <2>. QED  BY <1>3, <1>9, <2>1
<1>11. FreeOK(v, e) /\ Kept(t, v, e)
  BY <1>5, <1>6 DEF FreeOK, Kept
<1>. QED  BY <1>1, <1>6, <1>8, <1>10, <1>11 DEF Sound, v, u, Changed, PutBlock

\* subtable_realloc: more blocks have the subtable.
LEMMA ReallocEffect ==
  ASSUME NEW t \in Tables, NEW e, FreeOK(t, e), NEW s \in Subtables, NEW n \in Nat
  PROVE  LET u == Realloc(t, s, n)
         IN  /\ u \in Tables /\ FreeOK(u, e) /\ Kept(t, u, e)
             /\ u.l1 = t.l1 /\ u.sub = t.sub /\ u.ref = t.ref /\ u.fatal = t.fatal
             /\ u.use = [t.use EXCEPT ![s] = @ + n]
<1>. DEFINE u == Realloc(t, s, n)
            use == [t.use EXCEPT ![s] = t.use[s] + n]
<1>1. t.use \in [Subtables -> Nat] /\ use \in [Subtables -> Nat]
  BY DEF Tables
<1>2. u = [t EXCEPT !.use = use]
  BY DEF Realloc
<1>. HIDE DEF u, use
<1>3. /\ u.use = use /\ u \in Tables /\ u.free = t.free /\ u.conf = t.conf
      /\ u.l1 = t.l1 /\ u.sub = t.sub /\ u.ref = t.ref /\ u.fatal = t.fatal
  BY <1>1, <1>2 DEF Tables
<1>4. FreeOK(u, e) /\ Kept(t, u, e)
  BY <1>3 DEF FreeOK, Kept
<1>. QED  BY <1>3, <1>4 DEF u, use

\* A block gets what another one has.
LEMMA QuickMapEffect ==
  ASSUME NEW e, NEW t, Sound(t, e, 0), NEW b \in Blocks, NEW d \in Blocks, b # d,
         e \in Handlers => \E c \in Cells : At(t, d, c) = e
  PROVE  LET v == QuickMap(t, b, d)
         IN  /\ Sound(v, e, 0) /\ Kept(t, v, e)
             /\ v.l1 = Changed(t.l1, b, t.l1[d]) /\ v.sub = t.sub
<1>. DEFINE new == t.l1[d]
            u == Drop(t, b)
            w == IF new \in Subtables THEN Realloc(u, new, 1) ELSE Ref(u, new, 1)
            v == QuickMap(t, b, d)
<1>1. t \in Tables /\ ~t.fatal /\ FreeOK(t, e) /\ Counted(t) /\ Owes(t, e, 0)
  BY DEF Sound
<1>2. /\ t.l1 \in [Blocks -> Nodes] /\ t.use \in [Subtables -> Nat] /\ t.ref \in [Handlers -> Nat]
      /\ new \in Nodes
  BY <1>1 DEF Tables
<1>3. \A h \in Handlers : t.ref[h] = Held(t, h)
  BY <1>1, <1>2, HeldType DEF Owes
<1>4. /\ \A h : Held(t, h) >= Gone(t, b, h) /\ Held(t, h) \in Nat /\ Gone(t, b, h) \in Nat
      /\ t.l1[b] \in Subtables => t.use[t.l1[b]] >= 1
  BY <1>1, GoneHeld
<1>5. e \in Handlers => Held(t, e) > Gone(t, b, e)
  BY <1>1, HeldElsewhere
<1>6. new \notin Subtables => Held(t, new) > Gone(t, b, new)
  <2>1. new \notin Subtables => At(t, d, 0) = new
    BY DEF At
  <2>. QED  BY <1>1, <2>1, Numbers, HeldElsewhere
<1>. HIDE DEF new, u
<1>7. /\ u \in Tables /\ FreeOK(u, e) /\ Kept(t, u, e)
      /\ u.l1 = t.l1 /\ u.sub = t.sub /\ u.fatal = t.fatal
      /\ u.use = IF t.l1[b] \in Subtables THEN [t.use EXCEPT ![t.l1[b]] = @ - 1] ELSE t.use
      /\ \A h \in Handlers : u.ref[h] = t.ref[h] - Gone(t, b, h)
  <2>1. \A h \in Handlers : t.ref[h] >= Gone(t, b, h)
    BY <1>3, <1>4
  <2>2. e \in Handlers /\ Gone(t, b, e) > 0 => t.ref[e] > Gone(t, b, e)
    BY <1>3, <1>5
  <2>. QED  BY <1>1, <1>4, <2>1, <2>2, DropEffect DEF u
<1>8. /\ w \in Tables /\ FreeOK(w, e) /\ Kept(u, w, e)
      /\ w.l1 = t.l1 /\ w.sub = t.sub /\ w.fatal = t.fatal
      /\ \A q \in Subtables : w.use[q] = u.use[q] + (IF new = q THEN 1 ELSE 0)
      /\ \A h \in Handlers : w.ref[h] = u.ref[h] + (IF new = h THEN 1 ELSE 0)
  <2>0. u.use \in [Subtables -> Nat] /\ u.ref \in [Handlers -> Nat]
    BY <1>7 DEF Tables
  <2>1. CASE new \in Subtables
    <3>1. w = Realloc(u, new, 1)
      BY <2>1
    <3>. HIDE DEF w
    <3>2. /\ w \in Tables /\ FreeOK(w, e) /\ Kept(u, w, e)
          /\ w.l1 = u.l1 /\ w.sub = u.sub /\ w.ref = u.ref /\ w.fatal = u.fatal
          /\ w.use = [u.use EXCEPT ![new] = @ + 1]
      BY <1>7, <2>1, <3>1, ReallocEffect
    <3>3. \A h \in Handlers : new # h
      BY <2>1, Numbers
    <3>. QED  BY <1>7, <2>0, <2>1, <3>2, <3>3
  <2>2. CASE new \notin Subtables
    <3>1. w = Ref(u, new, 1)
      BY <2>2
    <3>. HIDE DEF w
    <3>2. new \in Handlers => u.ref[new] > 0
      BY <1>3, <1>4, <1>6, <1>7, <2>2
    <3>3. /\ w \in Tables /\ FreeOK(w, e) /\ Kept(u, w, e) /\ SameCells(u, w)
          /\ \A k \in Handlers : w.ref[k] = u.ref[k] + (IF k = new THEN 1 ELSE 0)
      BY <1>7, <3>1, <3>2, RefEffect
    <3>4. \A q \in Subtables : new # q
      BY <2>2
    <3>. QED  BY <1>7, <2>0, <3>3, <3>4 DEF SameCells
  <2>. QED  BY <2>1, <2>2
<1>. HIDE DEF w
<1>9. v = [w EXCEPT !.l1[b] = new]
  BY DEF QuickMap, w, u, new
<1>. HIDE DEF v
<1>10. /\ v \in Tables /\ v.l1 = [t.l1 EXCEPT ![b] = new] /\ v.sub = t.sub /\ v.fatal = t.fatal
       /\ v.use = w.use /\ v.ref = w.ref /\ v.free = w.free /\ v.conf = w.conf
  BY <1>2, <1>8, <1>9, <1>7 DEF Tables
<1>11. \A q \in Subtables : v.use[q] = t.use[q] - (IF t.l1[b] = q THEN 1 ELSE 0) + (IF new = q THEN 1 ELSE 0)
  <2>1. \A q \in Subtables : u.use[q] = t.use[q] - (IF t.l1[b] = q THEN 1 ELSE 0)
    BY <1>2, <1>7
  <2>. QED  BY <1>8, <1>10, <2>1
<1>12. Counted(v)
  BY <1>1, <1>2, <1>10, <1>11, PutCounted
<1>13. \A h \in Handlers : Held(v, h) = Held(t, h) - Gone(t, b, h) + (IF new = h THEN 1 ELSE 0)
  <2>1. new \in Subtables => \E x \in Blocks \ {b} : t.l1[x] = new
    BY DEF new
  <2>. QED  BY <1>1, <1>2, <1>10, <1>12, <2>1, PutHeld
<1>14. Owes(v, e, 0)
  <2>. SUFFICES ASSUME NEW h \in Handlers PROVE v.ref[h] = Held(v, h) + (IF h = e THEN 0 ELSE 0)
    BY DEF Owes
  <2>1. v.ref[h] = Held(t, h) - Gone(t, b, h) + (IF new = h THEN 1 ELSE 0)
    BY <1>3, <1>7, <1>8, <1>10
  <2>. QED  BY <1>4, <1>13, <2>1
<1>15. FreeOK(v, e) /\ Kept(t, v, e)
  <2>1. Kept(t, w, e)
    BY <1>1, <1>7, <1>8, KeptTwice
  <2>. QED  BY <1>8, <1>10, <2>1 DEF FreeOK, Kept
<1>. QED  BY <1>1, <1>10, <1>12, <1>14, <1>15 DEF Sound, v, new, Changed

----------------------------------------------------------------------------
(* Merging subtables, and allocating one. *)

\* The tables say the same, but some subtables may have become one.
Folded(t, u, e) ==
  /\ Sound(u, e, 0) /\ Kept(t, u, e) /\ u.sub = t.sub
  /\ \A b \in Blocks :
       /\ t.l1[b] \notin Subtables => u.l1[b] = t.l1[b]
       /\ t.l1[b] \in Subtables => u.l1[b] \in Subtables /\ u.sub[u.l1[b]] = t.sub[t.l1[b]]
       /\ \A d \in Blocks : t.l1[b] = t.l1[d] => u.l1[b] = u.l1[d]

\* Nothing has been merged.
LEMMA FoldedNot ==
  ASSUME NEW t, NEW e, Sound(t, e, 0)
  PROVE  Folded(t, t, e)
  BY DEF Folded, Kept

\* What is merged twice is merged.
LEMMA FoldedTwice ==
  ASSUME NEW t, NEW u, NEW v, NEW e, Sound(t, e, 0), Folded(t, u, e), Folded(u, v, e)
  PROVE  Folded(t, v, e)
<1>1. t \in Tables /\ u \in Tables /\ v \in Tables
  BY DEF Folded, Sound
<1>2. Kept(t, v, e)
  BY <1>1, KeptTwice DEF Folded
<1>. QED  BY <1>2 DEF Folded

\* Two subtables hold the references of both.
LEMMA TwoSubtables ==
  ASSUME NEW t \in Tables, NEW p \in Subtables, NEW q \in Subtables, p # q,
         t.use[p] # 0, t.use[q] # 0, NEW h
  PROVE  Cardinality(CellsOn(t, h)) >= Count(t.sub[p], h) + Count(t.sub[q], h)
<1>. DEFINE u == [t EXCEPT !.use = [t.use EXCEPT ![q] = 0]]
<1>1. u.sub = t.sub /\ u.use[q] = 0 /\ \A s \in Subtables : s # q => u.use[s] = t.use[s]
  BY DEF Tables
<1>. HIDE DEF u
<1>2. Cardinality(CellsOn(u, h)) + (IF t.use[q] # 0 THEN Count(t.sub[q], h) ELSE 0) =
           Cardinality(CellsOn(t, h)) + (IF u.use[q] # 0 THEN Count(u.sub[q], h) ELSE 0)
  BY <1>1, CellsOnChange
<1>3. /\ Cardinality(Others(u, p, h)) \in Nat
      /\ Cardinality(CellsOn(u, h)) =
              Cardinality(Others(u, p, h)) + (IF u.use[p] # 0 THEN Count(u.sub[p], h) ELSE 0)
  BY CellsOnSplit
<1>4. /\ Count(t.sub[p], h) \in Nat /\ Count(t.sub[q], h) \in Nat /\ Cardinality(CellsOn(t, h)) \in Nat
      /\ Cardinality(CellsOn(u, h)) \in Nat
  BY UptoSteps, HeldType
<1>5. u.use[p] # 0
  BY <1>1
<1>. QED  BY <1>1, <1>2, <1>3, <1>4, <1>5

\* The blocks of a subtable move to one that has the same cells.
LEMMA MoveEffect ==
  ASSUME NEW e, NEW t, Sound(t, e, 0), NEW p \in Subtables, NEW q \in Subtables, p # q,
         t.use[p] # 0, t.use[q] # 0, t.sub[p] = t.sub[q]
  PROVE  Folded(t, Move(t, p, q), e)
<1>. DEFINE n == Cardinality(On(t, q))
            u == Release(t, q, n)
            w == Realloc(u, p, n)
            v == Move(t, p, q)
<1>1. t \in Tables /\ ~t.fatal /\ FreeOK(t, e) /\ Counted(t) /\ Owes(t, e, 0)
  BY DEF Sound
<1>2. /\ t.l1 \in [Blocks -> Nodes] /\ t.use \in [Subtables -> Nat] /\ t.ref \in [Handlers -> Nat]
      /\ n \in Nat /\ t.use[q] = n
  BY <1>1, HeldType DEF Tables, Counted
<1>3. \A h \in Handlers : t.ref[h] = Held(t, h) /\ Held(t, h) = Cardinality(On(t, h)) + Cardinality(CellsOn(t, h))
  BY <1>1, <1>2, HeldType DEF Owes, Held
<1>4. \A h : /\ Cardinality(CellsOn(t, h)) >= Count(t.sub[p], h) + Count(t.sub[q], h)
             /\ Count(t.sub[p], h) \in Nat /\ Count(t.sub[q], h) = Count(t.sub[p], h)
             /\ Cardinality(On(t, h)) \in Nat /\ Cardinality(CellsOn(t, h)) \in Nat
  BY <1>1, TwoSubtables, UptoSteps, HeldType
<1>5. \A h : Fading(t, q, n, h) = Count(t.sub[q], h)
  BY <1>2 DEF Fading
<1>. HIDE DEF n, u
<1>6. /\ u \in Tables /\ FreeOK(u, e) /\ Kept(t, u, e)
      /\ u.l1 = t.l1 /\ u.sub = t.sub /\ u.fatal = t.fatal
      /\ u.use = [t.use EXCEPT ![q] = @ - n]
      /\ \A h \in Handlers : u.ref[h] = t.ref[h] - Count(t.sub[q], h)
  <2>1. ASSUME NEW h \in Handlers
        PROVE  /\ t.ref[h] >= Fading(t, q, n, h)
               /\ Fading(t, q, n, h) > 0 => t.ref[h] > Fading(t, q, n, h)
    <3>1. /\ t.ref[h] = Cardinality(On(t, h)) + Cardinality(CellsOn(t, h))
          /\ Fading(t, q, n, h) = Count(t.sub[p], h)
          /\ Cardinality(CellsOn(t, h)) >= Count(t.sub[p], h) + Count(t.sub[p], h)
      BY <1>3, <1>4, <1>5
    <3>. QED  BY <1>4, <3>1
  <2>2. t.use[q] >= n
    BY <1>2
  <2>3. /\ u \in Tables /\ FreeOK(u, e) /\ Kept(t, u, e)
        /\ u.l1 = t.l1 /\ u.sub = t.sub /\ u.fatal = t.fatal
        /\ u.use = [t.use EXCEPT ![q] = @ - n]
        /\ \A h \in Handlers : u.ref[h] = t.ref[h] - Fading(t, q, n, h)
    BY <1>1, <1>2, <2>1, <2>2, ReleaseEffect DEF u
  <2>. QED  BY <1>5, <2>3
<1>. HIDE DEF w
<1>7. /\ w \in Tables /\ FreeOK(w, e) /\ Kept(u, w, e)
      /\ w.l1 = t.l1 /\ w.sub = t.sub /\ w.fatal = t.fatal /\ w.ref = u.ref
      /\ w.use = [u.use EXCEPT ![p] = @ + n]
  <2>1. /\ w \in Tables /\ FreeOK(w, e) /\ Kept(u, w, e)
        /\ w.l1 = u.l1 /\ w.sub = u.sub /\ w.ref = u.ref /\ w.fatal = u.fatal
        /\ w.use = [u.use EXCEPT ![p] = @ + n]
    BY <1>2, <1>6, ReallocEffect DEF w
  <2>. QED  BY <1>6, <2>1
<1>8. w.use[q] = 0 /\ w.use[p] = t.use[p] + n /\ \A s \in Subtables \ {p, q} : w.use[s] = t.use[s]
  <2>1. u.use[q] = t.use[q] - n /\ \A s \in Subtables \ {q} : u.use[s] = t.use[s]
    BY <1>2, <1>6
  <2>2. w.use[p] = u.use[p] + n /\ \A s \in Subtables \ {p} : w.use[s] = u.use[s]
    BY <1>6, <1>7 DEF Tables
  <2>. QED  BY <1>2, <2>1, <2>2
<1>. DEFINE l1 == [b \in Blocks |-> IF t.l1[b] = q THEN p ELSE t.l1[b]]
<1>9. l1 \in [Blocks -> Nodes] /\ v = [w EXCEPT !.l1 = l1]
  <2>1. p \in Nodes
    BY Numbers
  <2>. QED  BY <1>2, <1>7, <2>1 DEF Move, n, u, w
<1>. HIDE DEF v
<1>10. /\ v \in Tables /\ v.l1 = l1 /\ v.sub = t.sub /\ ~v.fatal
       /\ v.use = w.use /\ v.ref = u.ref /\ v.free = w.free /\ v.conf = w.conf
  <2>. HIDE DEF l1
  <2>. QED  BY <1>1, <1>7, <1>9 DEF Tables
<1>11. \A b \in Blocks : v.l1[b] = IF t.l1[b] = q THEN p ELSE t.l1[b]
  BY <1>10
<1>. HIDE DEF l1
<1>12. Counted(v)
  <2>. SUFFICES ASSUME NEW s \in Subtables PROVE v.use[s] = Cardinality(On(v, s))
    BY DEF Counted
  <2>1. CASE s = q
    <3>1. On(v, s) = {}
      BY <1>11, <2>1 DEF On
    <3>. QED  BY <1>8, <1>10, <2>1, <3>1, FS_EmptySet
  <2>2. CASE s = p
    <3>1. On(v, s) = On(t, p) \cup On(t, q) /\ On(t, p) \cap On(t, q) = {}
      BY <1>11, <2>2 DEF On
    <3>2. IsFiniteSet(On(t, p)) /\ IsFiniteSet(On(t, q)) /\ Cardinality(On(t, p)) \in Nat
      BY HeldType
    <3>3. Cardinality(On(t, p) \cup On(t, q)) =
            Cardinality(On(t, p)) + Cardinality(On(t, q)) - Cardinality(On(t, p) \cap On(t, q))
      BY <3>2, FS_Union, Zenon
    <3>4. Cardinality(On(t, p) \cap On(t, q)) = 0
      BY <3>1, FS_EmptySet
    <3>5. t.use[p] = Cardinality(On(t, p)) /\ v.use[s] = t.use[p] + n
      BY <1>1, <1>8, <1>10, <2>2 DEF Counted
    <3>. QED  BY <1>2, <3>1, <3>2, <3>3, <3>4, <3>5 DEF n
  <2>3. CASE s # p /\ s # q
    <3>1. On(v, s) = On(t, s)
      BY <1>11, <2>3 DEF On
    <3>. QED  BY <1>1, <1>8, <1>10, <2>3, <3>1 DEF Counted
  <2>. QED  BY <2>1, <2>2, <2>3
<1>13. Owes(v, e, 0)
  <2>. SUFFICES ASSUME NEW h \in Handlers PROVE v.ref[h] = Held(v, h) + (IF h = e THEN 0 ELSE 0)
    BY DEF Owes
  <2>1. On(v, h) = On(t, h)
    BY <1>11, Numbers DEF On
  <2>2. Cardinality(CellsOn(v, h)) + (IF t.use[q] # 0 THEN Count(t.sub[q], h) ELSE 0) =
           Cardinality(CellsOn(t, h)) + (IF v.use[q] # 0 THEN Count(v.sub[q], h) ELSE 0)
    <3>1. ASSUME NEW s \in Subtables, s # q PROVE v.sub[s] = t.sub[s] /\ (v.use[s] = 0 <=> t.use[s] = 0)
      BY <1>2, <1>8, <1>10, <3>1
    <3>. QED  BY <3>1, CellsOnChange
  <2>3. v.use[q] = 0 /\ t.use[q] # 0
    BY <1>8, <1>10
  <2>4. Cardinality(CellsOn(v, h)) \in Nat /\ Held(v, h) = Cardinality(On(v, h)) + Cardinality(CellsOn(v, h))
    BY HeldType DEF Held
  <2>5. v.ref[h] = t.ref[h] - Count(t.sub[q], h)
    BY <1>6, <1>10
  <2>. QED  BY <1>3, <1>4, <2>1, <2>2, <2>3, <2>4, <2>5
<1>14. FreeOK(v, e) /\ Kept(t, v, e)
  <2>1. Kept(t, w, e)
    BY <1>1, <1>6, <1>7, KeptTwice
  <2>. QED  BY <1>7, <1>10, <2>1 DEF FreeOK, Kept
<1>15. Sound(v, e, 0)
  BY <1>10, <1>12, <1>13, <1>14 DEF Sound
<1>16. ASSUME NEW b \in Blocks
       PROVE  /\ t.l1[b] \notin Subtables => v.l1[b] = t.l1[b]
              /\ t.l1[b] \in Subtables => v.l1[b] \in Subtables /\ v.sub[v.l1[b]] = t.sub[t.l1[b]]
              /\ \A d \in Blocks : t.l1[b] = t.l1[d] => v.l1[b] = v.l1[d]
  BY <1>10, <1>11
<1>. QED  BY <1>10, <1>14, <1>15, <1>16 DEF Folded, v

\* Two subtables are compared.
LEMMA MergePairEffect ==
  ASSUME NEW e, NEW t, Sound(t, e, 0), NEW p \in Subtables, NEW q \in Subtables, p # q
  PROVE  Folded(t, MergePair(t, p, q), e)
<1>1. CASE t.use[p] # 0 /\ t.use[q] # 0 /\ t.sub[p] = t.sub[q]
  BY <1>1, MoveEffect DEF MergePair
<1>2. CASE ~(t.use[p] # 0 /\ t.use[q] # 0 /\ t.sub[p] = t.sub[q])
  BY <1>2, FoldedNot DEF MergePair
<1>. QED  BY <1>1, <1>2

\* One is compared with all the others.
LEMMA MergeIntoEffect ==
  ASSUME NEW e, NEW t, Sound(t, e, 0), NEW p \in Subtables
  PROVE  Folded(t, MergeInto(t, p), e)
<1>. DEFINE N == SUBTABLE_BASE + SubtableCount
            S == {q \in Subtables : p < q}
            op(d, q) == MergePair(d, p, q)
            step == [i \in 0 .. N - 1 |-> [d \in Tables |-> op(d, i)]]
            J == [i \in 0 .. N |-> {d \in Tables : Folded(t, d, e)}]
            Body(f) == [i \in 0 .. N |-> IF i = 0 THEN t
                          ELSE IF i - 1 \in S THEN op(f[i - 1], i - 1) ELSE f[i - 1]]
<1>0. N \in Nat /\ S \subseteq Subtables /\ S \subseteq 0 .. N - 1 /\ p \notin S
  BY Numbers DEF Subtables
<1>1. t \in J[0]
  BY <1>0, FoldedNot DEF Sound
<1>2. ASSUME NEW i \in 0 .. N - 1, NEW d \in J[i]
      PROVE  (i \in S => op(d, i) \in J[i + 1]) /\ (i \notin S => d \in J[i + 1])
  <2>1. d \in Tables /\ Folded(t, d, e) /\ Sound(d, e, 0) /\ i + 1 \in 0 .. N
    BY <1>0, <1>2 DEF Folded
  <2>2. ASSUME i \in S PROVE op(d, i) \in Tables /\ Folded(t, op(d, i), e)
    <3>1. Folded(d, op(d, i), e)
      BY <1>0, <2>1, <2>2, MergePairEffect
    <3>. HIDE DEF op
    <3>2. Folded(t, op(d, i), e)
      BY <2>1, <3>1, FoldedTwice
    <3>. QED  BY <3>2 DEF Folded, Sound
  <2>. HIDE DEF op
  <2>. QED  BY <2>1, <2>2
<1>3. PICK f : Runs(f, N, S, t, step) /\ \A i \in 0 .. N : f[i] \in J[i]
  <2>1. ASSUME NEW i \in 0 .. N - 1, NEW d \in J[i] PROVE step[i][d] = op(d, i)
    BY <1>0
  <2>2. Stays(N, S, J, step)
    <3>. HIDE DEF J, step, op
    <3>. QED  BY <1>2, <2>1 DEF Stays
  <2>. HIDE DEF J, step
  <2>. QED  BY <1>0, <1>1, <2>2, Loop
<1>4. f = Body(f)
  <2>1. ASSUME NEW i \in 0 .. N, i # 0 PROVE step[i - 1][f[i - 1]] = op(f[i - 1], i - 1)
    <3>1. i - 1 \in 0 .. N - 1 /\ f[i - 1] \in Tables
      BY <1>0, <1>3, <2>1
    <3>. QED  BY <3>1
  <2>. HIDE DEF step, J, op
  <2>. QED  BY <1>3, <2>1 DEF Runs
<1>5. MergeInto(t, p) = (CHOOSE g : g = Body(g))[N]
  BY DEF MergeInto, Ascend
<1>. HIDE DEF Body
<1>6. PICK g : g = Body(g) /\ MergeInto(t, p) = g[N]
  BY <1>4, <1>5
<1>7. g[N] \in J[N]
  <2>. DEFINE Q == {i \in 0 .. N : g[i] \in J[i]}
  <2>1. 0 \in Q
    BY <1>0, <1>1, <1>6 DEF Body
  <2>2. ASSUME NEW i \in 0 .. N - 1, i \in Q PROVE i + 1 \in Q
    <3>1. g[i + 1] = IF i \in S THEN op(g[i], i) ELSE g[i]
      BY <1>0, <1>6 DEF Body
    <3>. HIDE DEF op, J
    <3>. QED  BY <1>0, <1>2, <2>2, <3>1
  <2>. HIDE DEF Q
  <2>3. N \in Q
    BY <1>0, <2>1, <2>2, UpTo
  <2>. QED  BY <2>3 DEF Q
<1>. QED  BY <1>0, <1>6, <1>7

\* subtable_merge.
LEMMA MergeEffect ==
  ASSUME NEW e, NEW t, Sound(t, e, 0)
  PROVE  Folded(t, Merge(t), e)
<1>. DEFINE N == SUBTABLE_BASE + SubtableCount
            S == Subtables
            op(d, p) == MergeInto(d, p)
            step == [i \in 0 .. N - 1 |-> [d \in Tables |-> op(d, i)]]
            J == [i \in 0 .. N |-> {d \in Tables : Folded(t, d, e)}]
            Body(f) == [i \in 0 .. N |-> IF i = 0 THEN t
                          ELSE IF i - 1 \in S THEN op(f[i - 1], i - 1) ELSE f[i - 1]]
<1>0. N \in Nat /\ S \subseteq Subtables /\ S \subseteq 0 .. N - 1
  BY Numbers DEF Subtables
<1>1. t \in J[0]
  BY <1>0, FoldedNot DEF Sound
<1>2. ASSUME NEW i \in 0 .. N - 1, NEW d \in J[i]
      PROVE  (i \in S => op(d, i) \in J[i + 1]) /\ (i \notin S => d \in J[i + 1])
  <2>1. d \in Tables /\ Folded(t, d, e) /\ Sound(d, e, 0) /\ i + 1 \in 0 .. N
    BY <1>0, <1>2 DEF Folded
  <2>2. ASSUME i \in S PROVE op(d, i) \in Tables /\ Folded(t, op(d, i), e)
    <3>1. Folded(d, op(d, i), e)
      BY <1>0, <2>1, <2>2, MergeIntoEffect
    <3>. HIDE DEF op
    <3>2. Folded(t, op(d, i), e)
      BY <2>1, <3>1, FoldedTwice
    <3>. QED  BY <3>2 DEF Folded, Sound
  <2>. HIDE DEF op
  <2>. QED  BY <2>1, <2>2
<1>3. PICK f : Runs(f, N, S, t, step) /\ \A i \in 0 .. N : f[i] \in J[i]
  <2>1. ASSUME NEW i \in 0 .. N - 1, NEW d \in J[i] PROVE step[i][d] = op(d, i)
    BY <1>0
  <2>2. Stays(N, S, J, step)
    <3>. HIDE DEF J, step, op
    <3>. QED  BY <1>2, <2>1 DEF Stays
  <2>. HIDE DEF J, step
  <2>. QED  BY <1>0, <1>1, <2>2, Loop
<1>4. f = Body(f)
  <2>1. ASSUME NEW i \in 0 .. N, i # 0 PROVE step[i - 1][f[i - 1]] = op(f[i - 1], i - 1)
    <3>1. i - 1 \in 0 .. N - 1 /\ f[i - 1] \in Tables
      BY <1>0, <1>3, <2>1
    <3>. QED  BY <3>1
  <2>. HIDE DEF step, J, op
  <2>. QED  BY <1>3, <2>1 DEF Runs
<1>5. Merge(t) = (CHOOSE g : g = Body(g))[N]
  BY DEF Merge, Ascend
<1>. HIDE DEF Body
<1>6. PICK g : g = Body(g) /\ Merge(t) = g[N]
  BY <1>4, <1>5
<1>7. g[N] \in J[N]
  <2>. DEFINE Q == {i \in 0 .. N : g[i] \in J[i]}
  <2>1. 0 \in Q
    BY <1>0, <1>1, <1>6 DEF Body
  <2>2. ASSUME NEW i \in 0 .. N - 1, i \in Q PROVE i + 1 \in Q
    <3>1. g[i + 1] = IF i \in S THEN op(g[i], i) ELSE g[i]
      BY <1>0, <1>6 DEF Body
    <3>. HIDE DEF op, J
    <3>. QED  BY <1>0, <1>2, <2>2, <3>1
  <2>. HIDE DEF Q
  <2>3. N \in Q
    BY <1>0, <2>1, <2>2, UpTo
  <2>. QED  BY <2>3 DEF Q
<1>. QED  BY <1>0, <1>6, <1>7

\* subtable_alloc: it fails, or there is a free subtable after it.
LEMMA AllocEffect ==
  ASSUME NEW e, NEW t, Sound(t, e, 0)
  PROVE  LET u == Alloc(t)
         IN  u \in Tables /\ (u.fatal \/ (Folded(t, u, e) /\ Unused(u) # {}))
<1>. DEFINE d == IF Unused(t) = {} THEN Merge(t) ELSE t
<1>1. Folded(t, d, e)
  BY MergeEffect, FoldedNot
<1>2. Alloc(t) = IF Unused(d) = {} THEN [d EXCEPT !.fatal = TRUE] ELSE d
  BY DEF Alloc, OrFatal
<1>. HIDE DEF d
<1>3. d \in Tables
  BY <1>1 DEF Folded, Sound
<1>4. [d EXCEPT !.fatal = TRUE] \in Tables /\ [d EXCEPT !.fatal = TRUE].fatal
  BY <1>3 DEF Tables
<1>. QED  BY <1>1, <1>2, <1>3, <1>4

----------------------------------------------------------------------------
(* A subtable for one block. *)

\* Merging does not show.
LEMMA FoldedAt ==
  ASSUME NEW t, NEW u, NEW e, Folded(t, u, e), NEW b \in Blocks, NEW c
  PROVE  At(u, b, c) = At(t, b, c)
BY DEF Folded, At

\* Block b has a subtable of its own, and still says the same.
Opened(t, v, b, e) ==
  /\ Sound(v, e, 0) /\ Kept(t, v, e)
  /\ v.l1[b] \in Subtables /\ v.use[v.l1[b]] = 1
  /\ \A y \in Subtables : y # v.l1[b] => v.sub[y] = t.sub[y]
  /\ \A d \in Blocks, c \in Cells : At(v, d, c) = At(t, d, c)

\* A subtable is opened after a merge.
LEMMA FoldedOpened ==
  ASSUME NEW t, NEW u, NEW v, NEW b \in Blocks, NEW e, Sound(t, e, 0), Folded(t, u, e), Opened(u, v, b, e)
  PROVE  Opened(t, v, b, e)
<1>1. t \in Tables /\ u \in Tables /\ v \in Tables
  BY DEF Folded, Opened, Sound
<1>2. Kept(t, v, e)
  BY <1>1, KeptTwice DEF Folded, Opened
<1>3. \A d \in Blocks, c \in Cells : At(v, d, c) = At(t, d, c)
  BY FoldedAt DEF Opened
<1>. QED  BY <1>2, <1>3 DEF Opened, Folded

\* A block gets a subtable of its own.
LEMMA GiveEffect ==
  ASSUME NEW t \in Tables, NEW e, FreeOK(t, e), NEW b \in Blocks, NEW s \in Subtables,
         NEW cells \in [Cells -> Entries]
  PROVE  LET v == Give(t, b, s, cells)
         IN  /\ v \in Tables /\ FreeOK(v, e) /\ Kept(t, v, e)
             /\ v.l1 = [t.l1 EXCEPT ![b] = s] /\ v.sub = [t.sub EXCEPT ![s] = cells]
             /\ v.use = [t.use EXCEPT ![s] = 1] /\ v.ref = t.ref /\ v.fatal = t.fatal
<1>. DEFINE v == Give(t, b, s, cells)
            l1 == [t.l1 EXCEPT ![b] = s]
            sub == [t.sub EXCEPT ![s] = cells]
            use == [t.use EXCEPT ![s] = 1]
<1>1. l1 \in [Blocks -> Nodes] /\ sub \in [Subtables -> [Cells -> Entries]] /\ use \in [Subtables -> Nat]
  BY Numbers DEF Tables
<1>2. v = [t EXCEPT !.use = use, !.sub = sub, !.l1 = l1]
  BY DEF Give
<1>. HIDE DEF v, l1, sub, use
<1>3. /\ v.use = use /\ v.sub = sub /\ v.l1 = l1 /\ v.ref = t.ref /\ v.fatal = t.fatal
      /\ v.free = t.free /\ v.conf = t.conf /\ v \in Tables
  BY <1>1, <1>2 DEF Tables
<1>4. FreeOK(v, e) /\ Kept(t, v, e)
  BY <1>3 DEF FreeOK, Kept
<1>. QED  BY <1>3, <1>4 DEF v, l1, sub, use

\* The first free subtable.
LEMMA UnusedLeast ==
  ASSUME NEW t \in Tables, Unused(t) # {}
  PROVE  Min(Unused(t)) \in Subtables /\ t.use[Min(Unused(t))] = 0
<1>1. Unused(t) \in SUBSET Nat
  BY Numbers DEF Unused
<1>. QED  BY <1>1, LeastNumber DEF Unused

\* Cells that all have one entry.
LEMMA AllCells ==
  ASSUME NEW x, NEW h
  PROVE  Count([c \in Cells |-> x], h) = IF x = h THEN BlockSize ELSE 0
<1>. DEFINE cells == [c \in Cells |-> x]
            S == {c \in Cells : cells[c] = h}
<1>1. S = IF x = h THEN Cells ELSE {}
  OBVIOUS
<1>2. Cardinality(Cells) = BlockSize
  BY Numbers, FS_Interval DEF Cells
<1>. HIDE DEF S
<1>3. Cardinality(S) = IF x = h THEN BlockSize ELSE 0
  BY <1>1, <1>2, FS_EmptySet
<1>. QED  BY <1>3 DEF Count, S

\* subtable_open of a block that has a handler.
LEMMA OpenHandlerEffect ==
  ASSUME NEW e, NEW t, Sound(t, e, 0), Unused(t) # {}, NEW b \in Blocks, t.l1[b] \notin Subtables
  PROVE  Opened(t, OpenHandler(t, b), b, e)
<1>. DEFINE x == t.l1[b]
            s == Min(Unused(t))
            cells == [c \in Cells |-> x]
            w == Ref(t, x, BlockSize - 1)
            v == Give(w, b, s, cells)
<1>1. /\ t \in Tables /\ ~t.fatal /\ FreeOK(t, e) /\ Counted(t) /\ Owes(t, e, 0)
      /\ s \in Subtables /\ t.use[s] = 0 /\ x \in Entries
  BY UnusedLeast, Numbers DEF Sound, Tables
<1>2. /\ t.l1 \in [Blocks -> Nodes] /\ t.use \in [Subtables -> Nat] /\ t.ref \in [Handlers -> Nat]
      /\ t.sub \in [Subtables -> [Cells -> Entries]] /\ cells \in [Cells -> Entries]
  BY <1>1 DEF Tables
<1>3. \A h \in Handlers : t.ref[h] = Held(t, h) /\ Held(t, h) = Cardinality(On(t, h)) + Cardinality(CellsOn(t, h))
  BY <1>1, <1>2, HeldType DEF Owes, Held
<1>4. \A h : Cardinality(On(t, h)) \in Nat /\ Cardinality(CellsOn(t, h)) \in Nat
  BY HeldType
<1>5. OpenHandler(t, b) = v
  BY <1>1 DEF OpenHandler
<1>6. \A h : Count(cells, h) = IF x = h THEN BlockSize ELSE 0
  BY AllCells
<1>7. x \in Handlers => t.ref[x] > 0
  <2>1. Cardinality(On(t, x)) >= 1
    BY OneOn
  <2>. QED  BY <1>3, <1>4, <2>1
<1>. HIDE DEF x, s, cells, w
<1>8. /\ w \in Tables /\ FreeOK(w, e) /\ Kept(t, w, e) /\ SameCells(t, w)
      /\ \A k \in Handlers : w.ref[k] = t.ref[k] + (IF k = x THEN BlockSize - 1 ELSE 0)
  <2>1. BlockSize - 1 \in Nat
    BY Numbers
  <2>. QED  BY <1>1, <1>7, <2>1, RefEffect DEF w
<1>. HIDE DEF v
<1>9. /\ v \in Tables /\ FreeOK(v, e) /\ Kept(w, v, e)
      /\ v.l1 = [t.l1 EXCEPT ![b] = s] /\ v.sub = [t.sub EXCEPT ![s] = cells]
      /\ v.use = [t.use EXCEPT ![s] = 1] /\ v.ref = w.ref /\ ~v.fatal
  <2>1. /\ v \in Tables /\ FreeOK(v, e) /\ Kept(w, v, e)
        /\ v.l1 = [w.l1 EXCEPT ![b] = s] /\ v.sub = [w.sub EXCEPT ![s] = cells]
        /\ v.use = [w.use EXCEPT ![s] = 1] /\ v.ref = w.ref /\ v.fatal = w.fatal
    <3>1. w \in Tables /\ FreeOK(w, e) /\ s \in Subtables /\ cells \in [Cells -> Entries] /\ b \in Blocks
      BY <1>1, <1>2, <1>8
    <3>. QED  BY ONLY <3>1, GiveEffect DEF v
  <2>. QED  BY <1>1, <1>8, <2>1 DEF SameCells
<1>10. \A h : Cardinality(On(v, h)) + (IF x = h THEN 1 ELSE 0)
                 = Cardinality(On(t, h)) + (IF s = h THEN 1 ELSE 0)
  BY <1>1, <1>9, OnExcept DEF x
<1>11. /\ \A q \in Subtables : q # s => v.sub[q] = t.sub[q] /\ v.use[q] = t.use[q]
       /\ v.use[s] = 1 /\ v.sub[s] = cells /\ v.l1[b] = s
       /\ \A d \in Blocks : d # b => v.l1[d] = t.l1[d]
  BY <1>1, <1>2, <1>9
<1>12. Counted(v)
  <2>. SUFFICES ASSUME NEW q \in Subtables PROVE v.use[q] = Cardinality(On(v, q))
    BY DEF Counted
  <2>1. t.use[q] = Cardinality(On(t, q)) /\ Cardinality(On(v, q)) \in Nat /\ x # q
    BY <1>1, HeldType, Numbers DEF Counted
  <2>. QED  BY <1>1, <1>4, <1>10, <1>11, <2>1
<1>13. Owes(v, e, 0)
  <2>. SUFFICES ASSUME NEW h \in Handlers PROVE v.ref[h] = Held(v, h) + (IF h = e THEN 0 ELSE 0)
    BY DEF Owes
  <2>1. Cardinality(CellsOn(v, h)) + (IF t.use[s] # 0 THEN Count(t.sub[s], h) ELSE 0) =
           Cardinality(CellsOn(t, h)) + (IF v.use[s] # 0 THEN Count(v.sub[s], h) ELSE 0)
    <3>1. s \in Subtables /\ \A q \in Subtables : q # s => v.sub[q] = t.sub[q] /\ (v.use[q] = 0 <=> t.use[q] = 0)
      BY <1>1, <1>11
    <3>. QED  BY ONLY <3>1, CellsOnChange
  <2>2. Cardinality(CellsOn(v, h)) = Cardinality(CellsOn(t, h)) + (IF x = h THEN BlockSize ELSE 0)
    <3>1. Cardinality(CellsOn(v, h)) \in Nat
      BY HeldType
    <3>. QED  BY <1>1, <1>4, <1>6, <1>11, <2>1, <3>1
  <2>3. Cardinality(On(v, h)) + (IF x = h THEN 1 ELSE 0) = Cardinality(On(t, h))
    <3>1. s # h /\ Cardinality(On(v, h)) \in Nat
      BY <1>1, Numbers, HeldType
    <3>. QED  BY <1>4, <1>10, <3>1
  <2>4. Held(v, h) = Cardinality(On(v, h)) + Cardinality(CellsOn(v, h)) /\ Cardinality(On(v, h)) \in Nat
    BY HeldType DEF Held
  <2>5. v.ref[h] = t.ref[h] + (IF h = x THEN BlockSize - 1 ELSE 0)
    BY <1>8, <1>9
  <2>. QED  BY <1>3, <1>4, <2>2, <2>3, <2>4, <2>5, Numbers
<1>14. Kept(t, v, e)
  BY <1>1, <1>8, <1>9, KeptTwice
<1>15. ASSUME NEW d \in Blocks, NEW c \in Cells PROVE At(v, d, c) = At(t, d, c)
  <2>1. CASE d = b
    <3>1. At(v, d, c) = x
      BY <1>1, <1>11, <2>1 DEF At, cells
    <3>2. At(t, d, c) = x
      BY <2>1 DEF At, x
    <3>. QED  BY <3>1, <3>2
  <2>2. CASE d # b
    <3>1. v.l1[d] = t.l1[d]
      BY <1>11, <2>2
    <3>2. t.l1[d] # s
      <4>1. t.l1[d] \in Subtables => t.use[t.l1[d]] >= 1
        BY <1>1, GoneHeld
      <4>. QED  BY <1>1, <4>1
    <3>. QED  BY <1>11, <3>1, <3>2 DEF At
  <2>. QED  BY <2>1, <2>2
<1>. QED
  <2>1. Sound(v, e, 0)
    BY <1>9, <1>12, <1>13 DEF Sound
  <2>. QED  BY <1>1, <1>5, <1>11, <1>14, <1>15, <2>1 DEF Opened

\* The references of some cells are counted once more.
LEMMA RefAllEffect ==
  ASSUME NEW t \in Tables, NEW e, FreeOK(t, e), NEW cells,
         \A h \in Handlers : h # e /\ Count(cells, h) > 0 => t.ref[h] > 0
  PROVE  LET u == RefAll(t, cells)
         IN  /\ u \in Tables /\ FreeOK(u, e) /\ Kept(t, u, e) /\ SameCells(t, u)
             /\ \A h \in Handlers : u.ref[h] = t.ref[h] + Count(cells, h)
<1>. DEFINE u == RefAll(t, cells)
            ref == [h \in Handlers |-> t.ref[h] + Count(cells, h)]
<1>1. \A h \in Handlers : t.ref[h] \in Nat /\ Count(cells, h) \in Nat
  BY UptoSteps DEF Tables
<1>2. ref \in [Handlers -> Nat] /\ u = [t EXCEPT !.ref = ref]
  BY <1>1 DEF RefAll
<1>3. \A h \in Handlers : ref[h] = t.ref[h] + Count(cells, h)
  OBVIOUS
<1>. HIDE DEF u, ref
<1>4. u.ref = ref /\ u \in Tables /\ u.free = t.free /\ u.conf = t.conf /\ SameCells(t, u)
  BY <1>2 DEF Tables, SameCells
<1>5. \A h \in Handlers : h # e => (ref[h] = 0 <=> t.ref[h] = 0)
  BY <1>1, <1>3
<1>6. FreeOK(u, e)
  BY <1>4, <1>5 DEF FreeOK
<1>7. Kept(t, u, e)
  BY <1>4, <1>5 DEF Kept
<1>. QED  BY <1>3, <1>4, <1>6, <1>7 DEF u

\* subtable_open of a block that shares its subtable.
LEMMA OpenSharedEffect ==
  ASSUME NEW e, NEW t, Sound(t, e, 0), Unused(t) # {}, NEW b \in Blocks, t.l1[b] \in Subtables,
         t.use[t.l1[b]] > 1
  PROVE  Opened(t, OpenShared(t, b), b, e)
<1>. DEFINE s == t.l1[b]
            n == Min(Unused(t))
            cells == t.sub[s]
            w == RefAll(t, cells)
            g == Give(w, b, n, cells)
            v == Release(g, s, 1)
<1>1. /\ t \in Tables /\ ~t.fatal /\ FreeOK(t, e) /\ Counted(t) /\ Owes(t, e, 0)
      /\ n \in Subtables /\ t.use[n] = 0 /\ s \in Subtables /\ n # s
  BY UnusedLeast DEF Sound
<1>2. /\ t.l1 \in [Blocks -> Nodes] /\ t.use \in [Subtables -> Nat] /\ t.ref \in [Handlers -> Nat]
      /\ t.sub \in [Subtables -> [Cells -> Entries]] /\ cells \in [Cells -> Entries]
  BY <1>1 DEF Tables
<1>3. \A h \in Handlers : t.ref[h] = Held(t, h) /\ Held(t, h) = Cardinality(On(t, h)) + Cardinality(CellsOn(t, h))
  BY <1>1, <1>2, HeldType DEF Owes, Held
<1>4. \A h : Cardinality(On(t, h)) \in Nat /\ Cardinality(CellsOn(t, h)) \in Nat /\ Count(cells, h) \in Nat
  BY HeldType, UptoSteps
<1>5. OpenShared(t, b) = v
  BY <1>1 DEF OpenShared
<1>6. \A h \in Handlers : t.ref[h] >= Count(cells, h)
  <2>. TAKE h \in Handlers
  <2>1. /\ Cardinality(Others(t, s, h)) \in Nat
        /\ Cardinality(CellsOn(t, h)) =
              Cardinality(Others(t, s, h)) + (IF t.use[s] # 0 THEN Count(t.sub[s], h) ELSE 0)
    BY <1>1, CellsOnSplit
  <2>2. t.use[s] # 0
    BY <1>2
  <2>. QED  BY <1>3, <1>4, <2>1, <2>2
<1>. HIDE DEF s, n, cells, w
<1>7. /\ w \in Tables /\ FreeOK(w, e) /\ Kept(t, w, e) /\ SameCells(t, w)
      /\ \A h \in Handlers : w.ref[h] = t.ref[h] + Count(cells, h)
  <2>1. \A h \in Handlers : Count(cells, h) > 0 => t.ref[h] > 0
    BY <1>2, <1>4, <1>6
  <2>. QED  BY <1>1, <2>1, RefAllEffect DEF w
<1>. HIDE DEF g
<1>8. /\ g \in Tables /\ FreeOK(g, e) /\ Kept(w, g, e)
      /\ g.l1 = [t.l1 EXCEPT ![b] = n] /\ g.sub = [t.sub EXCEPT ![n] = cells]
      /\ g.use = [t.use EXCEPT ![n] = 1] /\ g.ref = w.ref /\ ~g.fatal
  <2>1. /\ g \in Tables /\ FreeOK(g, e) /\ Kept(w, g, e)
        /\ g.l1 = [w.l1 EXCEPT ![b] = n] /\ g.sub = [w.sub EXCEPT ![n] = cells]
        /\ g.use = [w.use EXCEPT ![n] = 1] /\ g.ref = w.ref /\ g.fatal = w.fatal
    <3>1. w \in Tables /\ FreeOK(w, e) /\ n \in Subtables /\ cells \in [Cells -> Entries] /\ b \in Blocks
      BY <1>1, <1>2, <1>7
    <3>. QED  BY ONLY <3>1, GiveEffect DEF g
  <2>. QED  BY <1>1, <1>7, <2>1 DEF SameCells
<1>9. g.use[s] = t.use[s] /\ t.use[s] > 1 /\ g.use[s] # 1 /\ t.l1[b] = s
  BY <1>1, <1>2, <1>8 DEF s
<1>. HIDE DEF v
<1>10. /\ v \in Tables /\ FreeOK(v, e) /\ Kept(g, v, e)
       /\ v.l1 = g.l1 /\ v.sub = g.sub /\ ~v.fatal
       /\ v.use = [g.use EXCEPT ![s] = @ - 1]
       /\ \A h \in Handlers : v.ref[h] = g.ref[h]
  <2>1. \A h : Fading(g, s, 1, h) = 0
    BY <1>9 DEF Fading
  <2>2. \A h \in Handlers : g.ref[h] \in Nat
    BY <1>8 DEF Tables
  <2>3. g.use[s] >= 1
    BY <1>2, <1>9, <1>1
  <2>4. /\ \A h \in Handlers : g.ref[h] >= Fading(g, s, 1, h)
        /\ e \in Handlers /\ Fading(g, s, 1, e) > 0 => g.ref[e] > Fading(g, s, 1, e)
    BY <2>1, <2>2
  <2>5. /\ v \in Tables /\ FreeOK(v, e) /\ Kept(g, v, e)
        /\ v.l1 = g.l1 /\ v.sub = g.sub /\ v.fatal = g.fatal
        /\ v.use = [g.use EXCEPT ![s] = @ - 1]
        /\ \A h \in Handlers : v.ref[h] = g.ref[h] - Fading(g, s, 1, h)
    <3>1. g \in Tables /\ FreeOK(g, e) /\ s \in Subtables
      BY <1>1, <1>8
    <3>. QED  BY ONLY <2>3, <2>4, <3>1, ReleaseEffect DEF v
  <2>. QED  BY <1>8, <2>1, <2>2, <2>5
<1>11. /\ \A q \in Subtables : q # n => v.sub[q] = t.sub[q]
       /\ \A q \in Subtables \ {n, s} : v.use[q] = t.use[q]
       /\ v.use[n] = 1 /\ v.use[s] = t.use[s] - 1 /\ v.sub[n] = cells /\ v.l1[b] = n
       /\ \A d \in Blocks : d # b => v.l1[d] = t.l1[d]
       /\ v.l1 = [t.l1 EXCEPT ![b] = n]
  <2>1. g.use[n] = 1 /\ g.sub[n] = cells /\ \A q \in Subtables : q # n => g.sub[q] = t.sub[q] /\ g.use[q] = t.use[q]
    BY <1>1, <1>2, <1>8
  <2>2. g.l1[b] = n /\ \A d \in Blocks : d # b => g.l1[d] = t.l1[d]
    BY <1>2, <1>8
  <2>3. v.use[s] = g.use[s] - 1 /\ \A q \in Subtables : q # s => v.use[q] = g.use[q]
    BY <1>1, <1>8, <1>10 DEF Tables
  <2>. QED  BY <1>1, <1>8, <1>9, <1>10, <2>1, <2>2, <2>3
<1>12. \A h : Cardinality(On(v, h)) + (IF s = h THEN 1 ELSE 0)
                 = Cardinality(On(t, h)) + (IF n = h THEN 1 ELSE 0)
  BY <1>1, <1>9, <1>11, OnExcept
<1>13. Counted(v)
  <2>. SUFFICES ASSUME NEW q \in Subtables PROVE v.use[q] = Cardinality(On(v, q))
    BY DEF Counted
  <2>1. t.use[q] = Cardinality(On(t, q)) /\ Cardinality(On(v, q)) \in Nat
    BY <1>1, HeldType DEF Counted
  <2>. QED  BY <1>1, <1>4, <1>12, <1>11, <2>1
<1>14. Owes(v, e, 0)
  <2>. SUFFICES ASSUME NEW h \in Handlers PROVE v.ref[h] = Held(v, h) + (IF h = e THEN 0 ELSE 0)
    BY DEF Owes
  <2>1. Cardinality(CellsOn(v, h)) + (IF t.use[n] # 0 THEN Count(t.sub[n], h) ELSE 0) =
           Cardinality(CellsOn(t, h)) + (IF v.use[n] # 0 THEN Count(v.sub[n], h) ELSE 0)
    <3>1. n \in Subtables /\ \A q \in Subtables : q # n => v.sub[q] = t.sub[q] /\ (v.use[q] = 0 <=> t.use[q] = 0)
      <4>1. v.use[s] # 0 /\ t.use[s] # 0
        BY <1>1, <1>2, <1>9, <1>11
      <4>. QED  BY <1>1, <1>11, <4>1
    <3>. QED  BY ONLY <3>1, CellsOnChange
  <2>2. Cardinality(CellsOn(v, h)) = Cardinality(CellsOn(t, h)) + Count(cells, h)
    <3>1. Cardinality(CellsOn(v, h)) \in Nat
      BY HeldType
    <3>. QED  BY <1>1, <1>4, <1>11, <2>1, <3>1
  <2>3. Cardinality(On(v, h)) = Cardinality(On(t, h))
    <3>1. s # h /\ n # h /\ Cardinality(On(v, h)) \in Nat
      BY <1>1, Numbers, HeldType
    <3>. QED  BY <1>4, <1>12, <3>1
  <2>4. Held(v, h) = Cardinality(On(v, h)) + Cardinality(CellsOn(v, h))
    BY DEF Held
  <2>5. v.ref[h] = t.ref[h] + Count(cells, h)
    BY <1>7, <1>8, <1>10
  <2>. QED  BY <1>3, <1>4, <2>2, <2>3, <2>4, <2>5
<1>15. Kept(t, v, e)
  <2>1. Kept(t, g, e)
    BY <1>1, <1>7, <1>8, KeptTwice
  <2>. QED  BY <1>1, <1>8, <1>10, <2>1, KeptTwice
<1>16. ASSUME NEW d \in Blocks, NEW c \in Cells PROVE At(v, d, c) = At(t, d, c)
  <2>1. CASE d = b
    <3>1. At(v, d, c) = cells[c]
      BY <1>1, <1>11, <2>1 DEF At
    <3>2. At(t, d, c) = cells[c]
      BY <1>1, <1>9, <2>1 DEF At, cells
    <3>. QED  BY <3>1, <3>2
  <2>2. CASE d # b
    <3>1. v.l1[d] = t.l1[d]
      BY <1>11, <2>2
    <3>2. t.l1[d] # n
      <4>1. t.l1[d] \in Subtables => t.use[t.l1[d]] >= 1
        BY <1>1, GoneHeld
      <4>. QED  BY <1>1, <4>1
    <3>. QED  BY <1>11, <3>1, <3>2 DEF At
  <2>. QED  BY <2>1, <2>2
<1>. QED
  <2>1. Sound(v, e, 0)
    BY <1>10, <1>13, <1>14 DEF Sound
  <2>. QED  BY <1>1, <1>5, <1>11, <1>15, <1>16, <2>1 DEF Opened

\* A block whose subtable nobody shares keeps it.
LEMMA OpenEffect ==
  ASSUME NEW e, NEW t, Sound(t, e, 0), NEW b \in Blocks
  PROVE  LET v == Open(t, b)
         IN  /\ v \in Tables
             /\ v.fatal \/ Opened(t, v, b, e)
             /\ t.l1[b] \in Subtables /\ t.use[t.l1[b]] = 1 => v = t
<1>. DEFINE u == Alloc(t)
<1>1. /\ t \in Tables /\ Counted(t) /\ (t.l1[b] \in Subtables => t.use[t.l1[b]] >= 1)
      /\ t.use \in [Subtables -> Nat]
  BY GoneHeld DEF Sound, Tables
<1>2. u \in Tables /\ (u.fatal \/ (Folded(t, u, e) /\ Unused(u) # {}))
  BY AllocEffect
<1>. HIDE DEF u
<1>3. CASE t.l1[b] \notin Subtables
  <2>1. Open(t, b) = OpenHandler(u, b)
    BY <1>3 DEF Open, u
  <2>2. CASE u.fatal
    <3>1. OpenHandler(u, b) = u
      BY <2>2 DEF OpenHandler
    <3>. QED  BY <1>2, <1>3, <2>1, <2>2, <3>1
  <2>3. CASE ~u.fatal
    <3>1. Folded(t, u, e) /\ Unused(u) # {} /\ Sound(u, e, 0) /\ u.l1[b] \notin Subtables
      BY <1>2, <1>3, <2>3 DEF Folded
    <3>2. Opened(u, OpenHandler(u, b), b, e)
      BY <3>1, OpenHandlerEffect
    <3>3. Opened(t, OpenHandler(u, b), b, e)
      BY <3>1, <3>2, FoldedOpened
    <3>4. OpenHandler(u, b) \in Tables
      BY <3>3 DEF Opened, Sound
    <3>. QED  BY <1>3, <2>1, <3>3, <3>4
  <2>. QED  BY <2>2, <2>3
<1>4. CASE t.l1[b] \in Subtables /\ t.use[t.l1[b]] > 1
  <2>1. Open(t, b) = OpenShared(u, b)
    BY <1>4 DEF Open, u
  <2>2. CASE u.fatal
    <3>1. OpenShared(u, b) = u
      BY <2>2 DEF OpenShared
    <3>. QED  BY <1>2, <1>4, <2>1, <2>2, <3>1
  <2>3. CASE ~u.fatal
    <3>1. Folded(t, u, e) /\ Unused(u) # {} /\ Sound(u, e, 0) /\ u.l1[b] \in Subtables
      BY <1>2, <1>4, <2>3 DEF Folded
    <3>2. u.use[u.l1[b]] > 1
      <4>1. Cardinality(On(t, t.l1[b])) > 1 /\ On(t, t.l1[b]) \subseteq On(u, u.l1[b])
        BY <1>1, <1>4, <3>1 DEF Counted, Folded, On
      <4>2. IsFiniteSet(On(u, u.l1[b]))
        BY HeldType
      <4>3. Cardinality(On(t, t.l1[b])) <= Cardinality(On(u, u.l1[b]))
        BY <4>1, <4>2, FS_Subset
      <4>4. Cardinality(On(t, t.l1[b])) \in Nat /\ Cardinality(On(u, u.l1[b])) \in Nat
        BY HeldType
      <4>. QED  BY <3>1, <4>1, <4>3, <4>4 DEF Sound, Counted
    <3>3. Opened(u, OpenShared(u, b), b, e)
      BY <3>1, <3>2, OpenSharedEffect
    <3>4. Opened(t, OpenShared(u, b), b, e)
      BY <3>1, <3>3, FoldedOpened
    <3>5. OpenShared(u, b) \in Tables
      BY <3>4 DEF Opened, Sound
    <3>. QED  BY <1>4, <2>1, <3>4, <3>5
  <2>. QED  BY <2>2, <2>3
<1>5. CASE t.l1[b] \in Subtables /\ ~(t.use[t.l1[b]] > 1)
  <2>1. Open(t, b) = t
    BY <1>5 DEF Open
  <2>2. t.use[t.l1[b]] = 1
    BY <1>1, <1>5
  <2>3. Opened(t, t, b, e)
    BY <1>5, <2>2 DEF Opened, Kept
  <2>. QED  BY <1>1, <2>1, <2>3
<1>. QED  BY <1>3, <1>4, <1>5

----------------------------------------------------------------------------
(* Filling cells and blocks. *)

\* One cell of a subtable gets the new entry.
Put(d, s, c, e) == [Unref(d, d.sub[s][c]) EXCEPT !.sub[s][c] = e]

\* A cell gets its entry: the turn of the loop over the cells of a block.
LEMMA SetCellEffect ==
  ASSUME NEW e \in Entries, NEW n \in Nat, NEW m, m = n + 1, NEW d, Sound(d, e, m), NEW s \in Subtables, d.use[s] # 0,
         NEW c \in Cells
  PROVE  LET v == Put(d, s, c, e)
         IN  /\ Sound(v, e, n) /\ Kept(d, v, e)
             /\ v.l1 = d.l1 /\ v.use = d.use
             /\ v.sub = Changed(d.sub, s, Changed(d.sub[s], c, e))
<1>. DEFINE h == d.sub[s][c]
            u == Unref(d, h)
            v == Put(d, s, c, e)
<1>1. d \in Tables /\ ~d.fatal /\ FreeOK(d, e) /\ Counted(d) /\ Owes(d, e, n + 1)
  BY DEF Sound
<1>2. /\ d.sub \in [Subtables -> [Cells -> Entries]] /\ d.ref \in [Handlers -> Nat]
      /\ d.sub[s] \in [Cells -> Entries] /\ h \in Entries /\ DOMAIN d.sub[s] = Cells
  BY <1>1 DEF Tables
<1>3. \A k : /\ Cardinality(On(d, k)) \in Nat /\ Cardinality(CellsOn(d, k)) \in Nat
             /\ Held(d, k) = Cardinality(On(d, k)) + Cardinality(CellsOn(d, k))
             /\ Count(d.sub[s], k) \in Nat
  BY HeldType, UptoSteps DEF Held
<1>4. \A k \in Handlers : d.ref[k] = Held(d, k) + (IF k = e THEN n + 1 ELSE 0)
  BY <1>1 DEF Owes
<1>5. Cardinality(CellsOn(d, h)) >= 1
  <2>1. /\ Cardinality(Others(d, s, h)) \in Nat
        /\ Cardinality(CellsOn(d, h)) =
              Cardinality(Others(d, s, h)) + (IF d.use[s] # 0 THEN Count(d.sub[s], h) ELSE 0)
    BY CellsOnSplit
  <2>2. Count(d.sub[s], h) >= 1
    BY OneCell
  <2>. QED  BY <1>3, <2>1, <2>2
<1>. HIDE DEF h, u
<1>6. h \in Handlers => d.ref[h] >= 1 /\ (h = e => d.ref[h] >= 2)
  BY <1>3, <1>4, <1>5
<1>7. /\ u \in Tables /\ FreeOK(u, e) /\ Kept(d, u, e)
      /\ u.l1 = d.l1 /\ u.sub = d.sub /\ u.use = d.use /\ ~u.fatal
      /\ \A k \in Handlers : u.ref[k] = IF k = h THEN d.ref[k] - 1 ELSE d.ref[k]
  <2>1. /\ u \in Tables /\ FreeOK(u, e) /\ Kept(d, u, e)
        /\ u.l1 = d.l1 /\ u.sub = d.sub /\ u.use = d.use /\ u.fatal = d.fatal
        /\ u.ref = [k \in Handlers |-> IF k = h THEN d.ref[k] - 1 ELSE d.ref[k]]
    BY <1>1, <1>2, <1>6, UnrefEffect DEF u
  <2>. QED  BY <1>1, <2>1
<1>. DEFINE row == [d.sub[s] EXCEPT ![c] = e]
            sub == [d.sub EXCEPT ![s] = row]
<1>8. row \in [Cells -> Entries] /\ sub \in [Subtables -> [Cells -> Entries]] /\ sub[s] = row
      /\ \A q \in Subtables : q # s => sub[q] = d.sub[q]
  BY <1>2
<1>9. v = [u EXCEPT !.sub = sub]
  BY <1>7 DEF Put, u, h
<1>10. \A k : Count(row, k) + (IF h = k THEN 1 ELSE 0) = Count(d.sub[s], k) + (IF e = k THEN 1 ELSE 0)
              /\ Count(row, k) \in Nat
  <2>. TAKE k
  <2>. DEFINE f == d.sub[s]
  <2>1. f[c] = h /\ DOMAIN f = Cells /\ IsFiniteSet(Cells)
    BY <1>2, CellsFinite DEF h
  <2>0. DOMAIN f = Cells /\ IsFiniteSet(Cells)
    BY <2>1
  <2>2. Count(row, k) = Cardinality(Places(Cells, Changed(f, c, e), k)) /\ Count(f, k) = Cardinality(Places(Cells, f, k))
    BY DEF Count, Places, Changed
  <2>. HIDE DEF f, row
  <2>3. Cardinality(Places(Cells, Changed(f, c, e), k)) + (IF f[c] = k THEN 1 ELSE 0)
          = Cardinality(Places(Cells, f, k)) + (IF e = k THEN 1 ELSE 0)
    BY ONLY <2>0, c \in Cells, CountExcept
  <2>4. Count(row, k) \in Nat
    BY UptoSteps
  <2>. QED  BY <2>1, <2>2, <2>3, <2>4 DEF f
<1>. HIDE DEF v, sub, row
<1>11. /\ v \in Tables /\ v.sub = sub /\ v.l1 = d.l1 /\ v.use = d.use /\ ~v.fatal
       /\ v.ref = u.ref /\ v.free = u.free /\ v.conf = u.conf
  BY <1>7, <1>8, <1>9 DEF Tables
<1>12. \A k : On(v, k) = On(d, k)
  BY <1>11 DEF On
<1>13. Counted(v)
  BY <1>1, <1>11, <1>12 DEF Counted
<1>14. Owes(v, e, n)
  <2>. SUFFICES ASSUME NEW k \in Handlers PROVE v.ref[k] = Held(v, k) + (IF k = e THEN n ELSE 0)
    BY DEF Owes
  <2>1. Cardinality(CellsOn(v, k)) + (IF d.use[s] # 0 THEN Count(d.sub[s], k) ELSE 0) =
           Cardinality(CellsOn(d, k)) + (IF v.use[s] # 0 THEN Count(v.sub[s], k) ELSE 0)
    <3>1. \A q \in Subtables : q # s => v.sub[q] = d.sub[q] /\ (v.use[q] = 0 <=> d.use[q] = 0)
      BY <1>8, <1>11
    <3>. QED  BY ONLY <3>1, s \in Subtables, CellsOnChange
  <2>2. Cardinality(CellsOn(v, k)) \in Nat
        /\ Held(v, k) = Cardinality(On(v, k)) + Cardinality(CellsOn(v, k))
    BY HeldType DEF Held
  <2>3. Cardinality(CellsOn(v, k)) + Count(d.sub[s], k) = Cardinality(CellsOn(d, k)) + Count(row, k)
    BY <1>8, <1>11, <2>1
  <2>4. Held(v, k) = Held(d, k) - (IF h = k THEN 1 ELSE 0) + (IF e = k THEN 1 ELSE 0)
    <3>1. Count(row, k) + (IF h = k THEN 1 ELSE 0) = Count(d.sub[s], k) + (IF e = k THEN 1 ELSE 0)
          /\ Count(row, k) \in Nat
      BY <1>10
    <3>. QED  BY <1>3, <1>12, <2>2, <2>3, <3>1
  <2>5. v.ref[k] = d.ref[k] - (IF h = k THEN 1 ELSE 0)
    BY <1>2, <1>7, <1>11
  <2>. QED  BY <1>3, <1>4, <2>4, <2>5
<1>15. FreeOK(v, e) /\ Kept(d, v, e)
  BY <1>7, <1>11 DEF FreeOK, Kept
<1>. QED  BY <1>11, <1>13, <1>14, <1>15 DEF Sound, v, u, h, sub, row, Changed

\* The cells from start to stop of the subtable of block b get the new entry.
LEMMA FillEffect ==
  ASSUME NEW e \in Entries, NEW t, Sound(t, e, 0), NEW b \in Blocks, t.l1[b] \in Subtables,
         NEW start \in Cells, NEW stop \in Cells, start <= stop
  PROVE  LET v == Fill(t, b, start, stop, e)
         IN  /\ Sound(v, e, 0) /\ Kept(t, v, e)
             /\ v.l1 = t.l1 /\ v.use = t.use
             /\ \A q \in Subtables : q # t.l1[b] => v.sub[q] = t.sub[q]
             /\ \A c \in Cells : v.sub[t.l1[b]][c] = IF c \in start .. stop THEN e ELSE t.sub[t.l1[b]][c]
<1>. DEFINE N == BlockSize
            S == start .. stop
            s == t.l1[b]
            from == Ref(t, e, stop - start + 1)
            Left(i) == IF i <= start THEN stop - start + 1 ELSE IF i > stop THEN 0 ELSE stop - i + 1
            op(d, c) == [Unref(d, d.sub[d.l1[b]][c]) EXCEPT !.sub[d.l1[b]][c] = e]
            step == [i \in 0 .. N - 1 |-> [d \in Tables |-> op(d, i)]]
            J == [i \in 0 .. N |->
                    {d \in Tables :
                       /\ Sound(d, e, Left(i)) /\ Kept(t, d, e) /\ d.l1 = t.l1 /\ d.use = t.use
                       /\ \A q \in Subtables : q # s => d.sub[q] = t.sub[q]
                       /\ \A c \in Cells : d.sub[s][c] = IF c \in S /\ c < i THEN e ELSE t.sub[s][c]}]
            Body(f) == [i \in 0 .. N |-> IF i = 0 THEN from
                          ELSE IF i - 1 \in S THEN op(f[i - 1], i - 1) ELSE f[i - 1]]
<1>0. /\ N \in Nat /\ Cells = 0 .. N - 1 /\ S \subseteq Cells /\ start \in Nat /\ stop \in Nat
      /\ t \in Tables /\ s \in Subtables
  BY Numbers DEF Cells, Sound
<1>1. from \in J[0]
  <2>1. t \in Tables /\ ~t.fatal /\ FreeOK(t, e) /\ Counted(t) /\ Owes(t, e, 0)
    BY DEF Sound
  <2>2. Left(0) = stop - start + 1 /\ Left(0) \in Nat
    BY <1>0
  <2>. HIDE DEF Left
  <2>3. /\ from \in Tables /\ FreeOK(from, e) /\ Kept(t, from, e) /\ SameCells(t, from)
        /\ \A k \in Handlers : from.ref[k] = t.ref[k] + (IF k = e THEN Left(0) ELSE 0)
    BY <2>1, <2>2, RefEffect
  <2>. HIDE DEF from
  <2>4. \A k : On(from, k) = On(t, k) /\ CellsOn(from, k) = CellsOn(t, k)
    BY <2>3 DEF On, CellsOn, SameCells
  <2>5. Counted(from)
    BY <2>1, <2>3, <2>4 DEF Counted, SameCells
  <2>6. Owes(from, e, Left(0))
    <3>. SUFFICES ASSUME NEW k \in Handlers PROVE from.ref[k] = Held(from, k) + (IF k = e THEN Left(0) ELSE 0)
      BY DEF Owes
    <3>1. Held(from, k) = Held(t, k) /\ Held(t, k) \in Nat
      BY <2>4, HeldType DEF Held
    <3>2. t.ref[k] = Held(t, k) + (IF k = e THEN 0 ELSE 0)
      BY <2>1 DEF Owes
    <3>. QED  BY <2>3, <3>1, <3>2
  <2>7. Sound(from, e, Left(0))
    BY <2>1, <2>3, <2>5, <2>6 DEF Sound, SameCells
  <2>8. \A c \in Cells : from.sub[s][c] = IF c \in S /\ c < 0 THEN e ELSE t.sub[s][c]
    BY <1>0, <2>3 DEF SameCells
  <2>. QED  BY <1>0, <2>3, <2>7, <2>8 DEF SameCells
<1>2. ASSUME NEW i \in 0 .. N - 1, NEW d \in J[i]
      PROVE  (i \in S => op(d, i) \in J[i + 1]) /\ (i \notin S => d \in J[i + 1])
  <2>1. /\ d \in Tables /\ Sound(d, e, Left(i)) /\ Kept(t, d, e) /\ d.l1 = t.l1 /\ d.use = t.use
        /\ \A q \in Subtables : q # s => d.sub[q] = t.sub[q]
        /\ \A c \in Cells : d.sub[s][c] = IF c \in S /\ c < i THEN e ELSE t.sub[s][c]
        /\ i + 1 \in 0 .. N /\ i \in Cells
    BY <1>0, <1>2
  <2>2. CASE i \in S
    <3>. DEFINE v == Put(d, s, i, e)
    <3>1. Left(i) = Left(i + 1) + 1 /\ Left(i + 1) \in Nat
      BY <1>0, <2>2
    <3>. HIDE DEF Left
    <3>2. d.use[s] # 0
      <4>1. t.use[s] >= 1
        BY <1>0, GoneHeld DEF Sound
      <4>. QED  BY <2>1, <4>1
    <3>3. v = op(d, i)
      BY <2>1 DEF Put
    <3>. HIDE DEF s, op
    <3>4. /\ Sound(v, e, Left(i + 1)) /\ Kept(d, v, e)
          /\ v.l1 = d.l1 /\ v.use = d.use
          /\ v.sub = [d.sub EXCEPT ![s] = [d.sub[s] EXCEPT ![i] = e]]
      <4>. DEFINE n == Left(i + 1) m == Left(i)
      <4>1. Sound(d, e, m) /\ i \in Cells /\ s \in Subtables /\ e \in Entries /\ n \in Nat /\ m = n + 1
        BY <1>0, <2>1, <3>1
      <4>. HIDE DEF n, m
      <4>2. /\ Sound(v, e, n) /\ Kept(d, v, e) /\ v.l1 = d.l1 /\ v.use = d.use
            /\ v.sub = Changed(d.sub, s, Changed(d.sub[s], i, e))
        BY ONLY <3>2, <4>1, SetCellEffect, SMTT(30)
      <4>. QED  BY <4>2 DEF n, Changed
    <3>. HIDE DEF v
    <3>5. v \in Tables /\ Kept(t, v, e)
      BY <1>0, <2>1, <3>4, KeptTwice DEF Sound
    <3>6. \A q \in Subtables : q # s => v.sub[q] = t.sub[q]
      BY <2>1, <3>4 DEF Tables
    <3>7. \A c \in Cells : v.sub[s][c] = IF c \in S /\ c < i + 1 THEN e ELSE t.sub[s][c]
      <4>1. d.sub \in [Subtables -> [Cells -> Entries]]
        BY <2>1 DEF Tables
      <4>2. \A c \in Cells : v.sub[s][c] = IF c = i THEN e ELSE d.sub[s][c]
        BY <1>0, <2>1, <3>4, <4>1
      <4>3. \A c \in Cells : c < i + 1 <=> (c = i \/ c < i)
        BY <1>0
      <4>. QED  BY <2>1, <2>2, <4>2, <4>3
    <3>8. v \in J[i + 1]
      BY <2>1, <3>4, <3>5, <3>6, <3>7
    <3>. QED  BY <2>2, <3>3, <3>8
  <2>3. CASE i \notin S
    <3>1. Left(i) = Left(i + 1)
      BY <1>0, <2>3
    <3>2. \A c \in Cells : (c \in S /\ c < i + 1) <=> (c \in S /\ c < i)
      BY <1>0, <2>3
    <3>. HIDE DEF Left, op
    <3>. QED  BY <2>1, <2>3, <3>1, <3>2
  <2>. QED  BY <2>2, <2>3
<1>3. PICK f : Runs(f, N, S, from, step) /\ \A i \in 0 .. N : f[i] \in J[i]
  <2>1. ASSUME NEW i \in 0 .. N - 1, NEW d \in J[i] PROVE step[i][d] = op(d, i)
    <3>. HIDE DEF op, Left
    <3>. QED  BY <1>0, <2>1
  <2>2. Stays(N, S, J, step)
    <3>. HIDE DEF J, step, op
    <3>. QED  BY <1>2, <2>1 DEF Stays
  <2>. HIDE DEF J, step, from
  <2>. QED  BY <1>0, <1>1, <2>2, Loop
<1>4. f = Body(f)
  <2>1. ASSUME NEW i \in 0 .. N, i # 0 PROVE step[i - 1][f[i - 1]] = op(f[i - 1], i - 1)
    <3>. HIDE DEF op, Left
    <3>1. i - 1 \in 0 .. N - 1 /\ i - 1 \in 0 .. N
      BY <1>0, <2>1
    <3>2. f[i - 1] \in J[i - 1]
      BY <1>3, <3>1
    <3>3. f[i - 1] \in Tables
      BY <3>1, <3>2
    <3>. QED  BY <3>1, <3>3
  <2>. HIDE DEF step, J, op, from
  <2>. QED  BY <1>3, <2>1 DEF Runs
<1>5. Fill(t, b, start, stop, e) = (CHOOSE g : g = Body(g))[N]
  BY DEF Fill, Ascend, Sound
<1>. HIDE DEF Body
<1>6. PICK g : g = Body(g) /\ Fill(t, b, start, stop, e) = g[N]
  BY <1>4, <1>5
<1>7. g[N] \in J[N]
  <2>. DEFINE Q == {i \in 0 .. N : g[i] \in J[i]}
  <2>1. 0 \in Q
    <3>1. g[0] = from
      <4>. HIDE DEF op, from, J
      <4>. QED  BY <1>0, <1>6 DEF Body
    <3>. HIDE DEF J, from
    <3>. QED  BY <1>0, <1>1, <3>1
  <2>2. ASSUME NEW i \in 0 .. N - 1, i \in Q PROVE i + 1 \in Q
    <3>. HIDE DEF op, J, from
    <3>1. g[i + 1] = IF i \in S THEN op(g[i], i) ELSE g[i]
      BY <1>0, <1>6 DEF Body
    <3>. QED  BY <1>0, <1>2, <2>2, <3>1
  <2>. HIDE DEF Q
  <2>3. N \in Q
    BY <1>0, <2>1, <2>2, UpTo
  <2>. QED  BY <2>3 DEF Q
<1>8. Left(N) = 0 /\ \A c \in Cells : (c \in S /\ c < N) <=> c \in S
  BY <1>0
<1>. HIDE DEF Left
<1>. QED  BY <1>0, <1>6, <1>7, <1>8

----------------------------------------------------------------------------
(* Blocks and cells of addresses. *)

\* Multiples of a number are that number apart.
LEMMA Multiple ==
  ASSUME NEW n \in Nat \ {0}, NEW a \in Nat, NEW b \in Nat, a < b
  PROVE  n * a + n <= n * b
<1>1. n * b = n * a + n * (b - a)
  OBVIOUS
<1>2. n * (b - a) >= n
  OBVIOUS
<1>. QED  BY <1>1, <1>2

\* Quotient and remainder,
LEMMA Division ==
  ASSUME NEW n \in Nat \ {0}, NEW a \in Nat
  PROVE  a \div n \in Nat /\ a % n \in Nat /\ a % n < n /\ a = n * (a \div n) + (a % n)
OBVIOUS

\* and no others.
LEMMA DivisionUnique ==
  ASSUME NEW n \in Nat \ {0}, NEW b \in Nat, NEW c \in 0 .. n - 1
  PROVE  (n * b + c) \div n = b /\ (n * b + c) % n = c
<1>. DEFINE a == n * b + c
<1>1. a \in Nat
  OBVIOUS
<1>2. a \div n \in Nat /\ a % n \in 0 .. n - 1 /\ a = n * (a \div n) + (a % n)
  BY <1>1, Division
<1>3. ~(a \div n < b)
  BY <1>2, Multiple
<1>4. ~(b < a \div n)
  BY <1>2, Multiple
<1>. QED  BY <1>2, <1>3, <1>4

\* The block of an address, its cell, and the address of both.
BlockOf(a) == a \div BlockSize
CellOf(a) == a % BlockSize
Place(b, c) == BlockSize * b + c

\* The block and the cell of an address that is put together.
LEMMA Placed ==
  ASSUME NEW b \in Nat, NEW c \in Cells
  PROVE  /\ BlockOf(Place(b, c)) = b /\ CellOf(Place(b, c)) = c /\ Place(b, c) \in Nat
         /\ b \in Blocks <=> Place(b, c) \in Addresses
<1>1. BlockSize \in Nat \ {0} /\ BlockCount \in Nat \ {0} /\ c \in 0 .. BlockSize - 1
  BY Numbers DEF Cells
<1>2. BlockOf(Place(b, c)) = b /\ CellOf(Place(b, c)) = c
  BY <1>1, DivisionUnique DEF BlockOf, CellOf, Place
<1>3. Place(b, c) \in Nat
  BY <1>1 DEF Place
<1>4. ASSUME b \in Blocks PROVE Place(b, c) \in Addresses
  <2>1. BlockSize * b + BlockSize <= BlockSize * BlockCount
    BY <1>1, <1>4, Multiple DEF Blocks
  <2>2. BlockSize * BlockCount = BlockCount * BlockSize
    BY <1>1
  <2>. QED  BY <1>1, <2>1, <2>2 DEF Place, Addresses
<1>5. ASSUME b \notin Blocks PROVE Place(b, c) \notin Addresses
  <2>1. b >= BlockCount
    BY <1>1, <1>5 DEF Blocks
  <2>2. BlockSize * b >= BlockCount * BlockSize
    <3>1. CASE b = BlockCount
      BY <1>1, <3>1
    <3>2. CASE BlockCount < b
      <4>1. BlockSize * BlockCount + BlockSize <= BlockSize * b
        BY <1>1, <3>2, Multiple
      <4>2. BlockSize * BlockCount = BlockCount * BlockSize
        BY <1>1
      <4>. QED  BY <1>1, <4>1, <4>2
    <3>. QED  BY <1>1, <2>1, <3>1, <3>2
  <2>. QED  BY <1>1, <2>2 DEF Place, Addresses
<1>. QED  BY <1>2, <1>3, <1>4, <1>5

\* An address is put together from its block and its cell.
LEMMA PlaceOf ==
  ASSUME NEW a \in Nat
  PROVE  /\ BlockOf(a) \in Nat /\ CellOf(a) \in Cells /\ a = Place(BlockOf(a), CellOf(a))
         /\ a \in Addresses <=> BlockOf(a) \in Blocks
<1>1. BlockSize \in Nat \ {0}
  BY Numbers
<1>2. BlockOf(a) \in Nat /\ CellOf(a) \in Cells /\ a = Place(BlockOf(a), CellOf(a))
  BY <1>1, Division DEF BlockOf, CellOf, Place, Cells
<1>3. a \in Addresses <=> BlockOf(a) \in Blocks
  BY <1>2, Placed
<1>. QED  BY <1>2, <1>3

\* Addresses are in the order of their blocks, then of their cells.
LEMMA PlaceOrder ==
  ASSUME NEW b \in Nat, NEW d \in Nat, NEW c \in Cells, NEW x \in Cells
  PROVE  Place(b, c) <= Place(d, x) <=> (b < d \/ (b = d /\ c <= x))
<1>1. BlockSize \in Nat \ {0} /\ c \in 0 .. BlockSize - 1 /\ x \in 0 .. BlockSize - 1
  BY Numbers DEF Cells
<1>2. CASE b < d
  <2>1. BlockSize * b + BlockSize <= BlockSize * d
    BY <1>1, <1>2, Multiple
  <2>. QED  BY <1>1, <1>2, <2>1 DEF Place
<1>3. CASE b = d
  BY <1>1, <1>3 DEF Place
<1>4. CASE d < b
  <2>1. BlockSize * d + BlockSize <= BlockSize * b
    BY <1>1, <1>4, Multiple
  <2>. QED  BY <1>1, <1>4, <2>1 DEF Place
<1>. QED  BY <1>2, <1>3, <1>4

\* The same of two addresses.
LEMMA AddressOrder ==
  ASSUME NEW a \in Nat, NEW z \in Nat
  PROVE  a <= z <=> (BlockOf(a) < BlockOf(z) \/ (BlockOf(a) = BlockOf(z) /\ CellOf(a) <= CellOf(z)))
BY PlaceOf, PlaceOrder

\* Addresses are numbers.
LEMMA AddressesNat == Addresses \subseteq Nat
  BY DEF Addresses

\* An address is looked up in its block and its cell,
LEMMA LookupAt ==
  ASSUME NEW t, NEW a
  PROVE  Lookup(t, a) = At(t, BlockOf(a), CellOf(a))
  BY DEF Lookup, At, BlockOf, CellOf

\* and the other way round.
LEMMA AtLookup ==
  ASSUME NEW t, NEW b \in Blocks, NEW c \in Cells
  PROVE  At(t, b, c) = Lookup(t, Place(b, c)) /\ Place(b, c) \in Addresses
<1>1. b \in Nat
  BY DEF Blocks
<1>. QED  BY <1>1, Placed, LookupAt

----------------------------------------------------------------------------
(* Populating a range. *)

\* In v the addresses of S have been given to e.
Written(t, v, e, S) ==
  /\ Sound(v, e, 0) /\ Kept(t, v, e)
  /\ \A a \in Addresses : Lookup(v, a) = IF a \in S THEN e ELSE Lookup(t, a)

\* Nothing has been written.
LEMMA WrittenNot ==
  ASSUME NEW t, NEW e, Sound(t, e, 0)
  PROVE  Written(t, t, e, {})
  BY DEF Written, Kept

\* What is written to two sets of addresses is written to both.
LEMMA WrittenTwice ==
  ASSUME NEW t, NEW u, NEW v, NEW e, NEW S, NEW R, NEW all, Sound(t, e, 0),
         Written(t, u, e, S), Written(u, v, e, R), \A a \in Addresses : a \in all <=> a \in S \/ a \in R
  PROVE  Written(t, v, e, all)
<1>1. t \in Tables /\ u \in Tables /\ v \in Tables
  BY DEF Written, Sound
<1>2. Kept(t, v, e)
  BY <1>1, KeptTwice DEF Written
<1>. QED  BY <1>2 DEF Written

\* Block b does not share its subtable, the others are as they were.
Own(t, b) == t.l1[b] \in Subtables /\ t.use[t.l1[b]] = 1

\* The other subtables are left alone.
Aside(t, v, b) == \A y \in Subtables : y # v.l1[b] => v.sub[y] = t.sub[y]

\* A part of a block.
CellsOf(b, start, stop) == {a \in Addresses : BlockOf(a) = b /\ CellOf(a) \in start .. stop}

\* No other block has the subtable.
LEMMA OwnAlone ==
  ASSUME NEW t, Counted(t), NEW b \in Blocks, Own(t, b), NEW d \in Blocks, d # b
  PROVE  t.l1[d] # t.l1[b]
<1>1. t.l1[d] = t.l1[b] => Cardinality(On(t, t.l1[b])) >= 2
  BY TwoOn
<1>. QED  BY <1>1 DEF Own, Counted

\* populate_range within one block.
LEMMA SetCellsEffect ==
  ASSUME NEW e \in Entries, NEW t, Sound(t, e, 0), NEW b \in Blocks,
         NEW start \in Cells, NEW stop \in Cells, start <= stop
  PROVE  LET v == SetCells(t, b, start, stop, e)
         IN  /\ v \in Tables
             /\ v.fatal \/ ( /\ Written(t, v, e, CellsOf(b, start, stop))
                             /\ Own(v, b) /\ Aside(t, v, b)
                             /\ Own(t, b) => v.l1[b] = t.l1[b] )
<1>. DEFINE u == Open(t, b)
            v == SetCells(t, b, start, stop, e)
<1>1. v = Fill(u, b, start, stop, e)
  BY DEF SetCells, Sound
<1>2. /\ u \in Tables
      /\ u.fatal \/ Opened(t, u, b, e)
      /\ t.l1[b] \in Subtables /\ t.use[t.l1[b]] = 1 => u = t
  BY OpenEffect
<1>. HIDE DEF u, v
<1>3. CASE u.fatal
  <2>1. v = u
    BY <1>1, <1>3 DEF Fill
  <2>. QED  BY <1>2, <1>3, <2>1 DEF v
<1>4. CASE ~u.fatal
  <2>1. /\ Sound(u, e, 0) /\ Kept(t, u, e) /\ u.l1[b] \in Subtables /\ u.use[u.l1[b]] = 1
        /\ \A y \in Subtables : y # u.l1[b] => u.sub[y] = t.sub[y]
        /\ \A d \in Blocks, c \in Cells : At(u, d, c) = At(t, d, c)
    BY <1>2, <1>4 DEF Opened
  <2>2. /\ Sound(v, e, 0) /\ Kept(u, v, e)
        /\ v.l1 = u.l1 /\ v.use = u.use
        /\ \A q \in Subtables : q # u.l1[b] => v.sub[q] = u.sub[q]
        /\ \A c \in Cells : v.sub[u.l1[b]][c] = IF c \in start .. stop THEN e ELSE u.sub[u.l1[b]][c]
    BY <1>1, <2>1, FillEffect
  <2>3. v \in Tables /\ Kept(t, v, e)
    BY <1>2, <2>1, <2>2, KeptTwice DEF Sound
  <2>4. Own(v, b) /\ Own(u, b) /\ Aside(t, v, b)
    BY <2>1, <2>2 DEF Own, Aside
  <2>5. Own(t, b) => v.l1[b] = t.l1[b]
    BY <1>2, <2>2 DEF Own
  <2>6. ASSUME NEW d \in Blocks, NEW c \in Cells
        PROVE  At(v, d, c) = IF d = b /\ c \in start .. stop THEN e ELSE At(t, d, c)
    <3>1. At(u, d, c) = At(t, d, c)
      BY <2>1
    <3>2. CASE d = b
      BY <2>1, <2>2, <3>1, <3>2 DEF At
    <3>3. CASE d # b
      <4>1. u.l1[d] # u.l1[b]
        BY <2>1, <2>4, <3>3, OwnAlone DEF Sound
      <4>. QED  BY <2>2, <3>1, <3>3, <4>1 DEF At
    <3>. QED  BY <3>2, <3>3
  <2>7. ASSUME NEW a \in Addresses
        PROVE  Lookup(v, a) = IF a \in CellsOf(b, start, stop) THEN e ELSE Lookup(t, a)
    <3>1. BlockOf(a) \in Blocks /\ CellOf(a) \in Cells
      BY AddressesNat, PlaceOf
    <3>. QED  BY <2>6, <3>1, LookupAt DEF CellsOf
  <2>. QED  BY <2>2, <2>3, <2>4, <2>5, <2>7 DEF Written, v
<1>. QED  BY <1>3, <1>4

\* Whole blocks.
BlocksOf(first, last) == {a \in Addresses : BlockOf(a) \in first .. last}

\* populate_range over whole blocks.
LEMMA SetBlocksEffect ==
  ASSUME NEW e \in Entries, NEW t, Sound(t, e, 0), NEW first \in Blocks, NEW last \in Blocks, first <= last
  PROVE  LET v == SetBlocks(t, first, last, e)
         IN  Written(t, v, e, BlocksOf(first, last)) /\ v.sub = t.sub
<1>. DEFINE N == BlockCount
            S == first .. last
            from == Ref(t, e, last - first + 1)
            Left(i) == IF i <= first THEN last - first + 1 ELSE IF i > last THEN 0 ELSE last - i + 1
            op(d, b) == [Drop(d, b) EXCEPT !.l1[b] = e]
            step == [i \in 0 .. N - 1 |-> [d \in Tables |-> op(d, i)]]
            J == [i \in 0 .. N |->
                    {d \in Tables :
                       /\ Sound(d, e, Left(i)) /\ Kept(t, d, e) /\ d.sub = t.sub
                       /\ \A b \in Blocks : d.l1[b] = IF b \in S /\ b < i THEN e ELSE t.l1[b]}]
            Body(f) == [i \in 0 .. N |-> IF i = 0 THEN from
                          ELSE IF i - 1 \in S THEN op(f[i - 1], i - 1) ELSE f[i - 1]]
<1>0. /\ N \in Nat /\ Blocks = 0 .. N - 1 /\ S \subseteq Blocks /\ first \in Nat /\ last \in Nat
      /\ t \in Tables
  BY Numbers DEF Blocks, Sound
<1>1. from \in J[0]
  <2>1. t \in Tables /\ ~t.fatal /\ FreeOK(t, e) /\ Counted(t) /\ Owes(t, e, 0)
    BY DEF Sound
  <2>2. Left(0) = last - first + 1 /\ Left(0) \in Nat
    BY <1>0
  <2>. HIDE DEF Left
  <2>3. /\ from \in Tables /\ FreeOK(from, e) /\ Kept(t, from, e) /\ SameCells(t, from)
        /\ \A k \in Handlers : from.ref[k] = t.ref[k] + (IF k = e THEN Left(0) ELSE 0)
    BY <2>1, <2>2, RefEffect
  <2>. HIDE DEF from
  <2>4. \A k : On(from, k) = On(t, k) /\ CellsOn(from, k) = CellsOn(t, k)
    BY <2>3 DEF On, CellsOn, SameCells
  <2>5. Counted(from)
    BY <2>1, <2>3, <2>4 DEF Counted, SameCells
  <2>6. Owes(from, e, Left(0))
    <3>. SUFFICES ASSUME NEW k \in Handlers PROVE from.ref[k] = Held(from, k) + (IF k = e THEN Left(0) ELSE 0)
      BY DEF Owes
    <3>1. Held(from, k) = Held(t, k) /\ Held(t, k) \in Nat
      BY <2>4, HeldType DEF Held
    <3>2. t.ref[k] = Held(t, k) + (IF k = e THEN 0 ELSE 0)
      BY <2>1 DEF Owes
    <3>. QED  BY <2>3, <3>1, <3>2
  <2>7. Sound(from, e, Left(0))
    BY <2>1, <2>3, <2>5, <2>6 DEF Sound, SameCells
  <2>8. \A b \in Blocks : from.l1[b] = IF b \in S /\ b < 0 THEN e ELSE t.l1[b]
    BY <1>0, <2>3 DEF SameCells
  <2>. QED  BY <1>0, <2>3, <2>7, <2>8 DEF SameCells
<1>2. ASSUME NEW i \in 0 .. N - 1, NEW d \in J[i]
      PROVE  (i \in S => op(d, i) \in J[i + 1]) /\ (i \notin S => d \in J[i + 1])
  <2>1. /\ d \in Tables /\ Sound(d, e, Left(i)) /\ Kept(t, d, e) /\ d.sub = t.sub
        /\ \A b \in Blocks : d.l1[b] = IF b \in S /\ b < i THEN e ELSE t.l1[b]
        /\ i + 1 \in 0 .. N /\ i \in Blocks
    <3>. HIDE DEF op, Left
    <3>. QED  BY <1>0, <1>2
  <2>2. CASE i \in S
    <3>. DEFINE v == PutBlock(d, i, e)
    <3>0. v = op(d, i)
      BY DEF PutBlock
    <3>1. Left(i) = Left(i + 1) + 1 /\ Left(i + 1) \in Nat
      BY <1>0, <2>2
    <3>. HIDE DEF Left
    <3>2. Sound(v, e, Left(i + 1)) /\ Kept(d, v, e) /\ v.l1 = Changed(d.l1, i, e) /\ v.sub = d.sub
      <4>. DEFINE n == Left(i + 1) m == Left(i)
      <4>1. Sound(d, e, m) /\ i \in Blocks /\ e \in Entries /\ n \in Nat /\ m = n + 1
        BY <1>0, <2>1, <3>1
      <4>. HIDE DEF n, m
      <4>2. Sound(v, e, n) /\ Kept(d, v, e) /\ v.l1 = Changed(d.l1, i, e) /\ v.sub = d.sub
        BY ONLY <4>1, SetBlockEffect, SMTT(30)
      <4>. QED  BY <4>2 DEF n
    <3>. HIDE DEF v
    <3>3. v \in Tables /\ Kept(t, v, e)
      BY <1>0, <2>1, <3>2, KeptTwice DEF Sound
    <3>4. \A b \in Blocks : v.l1[b] = IF b \in S /\ b < i + 1 THEN e ELSE t.l1[b]
      <4>1. DOMAIN d.l1 = Blocks
        BY <2>1 DEF Tables
      <4>2. \A b \in Blocks : v.l1[b] = IF b = i THEN e ELSE d.l1[b]
        BY <3>2, <4>1 DEF Changed
      <4>3. \A b \in Blocks : b < i + 1 <=> (b = i \/ b < i)
        BY <1>0
      <4>. QED  BY <2>1, <2>2, <4>2, <4>3
    <3>5. v \in J[i + 1]
      BY <2>1, <3>2, <3>3, <3>4
    <3>. HIDE DEF op, J
    <3>. QED  BY <2>2, <3>0, <3>5
  <2>3. CASE i \notin S
    <3>1. Left(i) = Left(i + 1)
      BY <1>0, <2>3
    <3>2. \A b \in Blocks : (b \in S /\ b < i + 1) <=> (b \in S /\ b < i)
      BY <1>0, <2>3
    <3>. HIDE DEF Left, op
    <3>. QED  BY <2>1, <2>3, <3>1, <3>2
  <2>. QED  BY <2>2, <2>3
<1>3. PICK f : Runs(f, N, S, from, step) /\ \A i \in 0 .. N : f[i] \in J[i]
  <2>1. ASSUME NEW i \in 0 .. N - 1, NEW d \in J[i] PROVE step[i][d] = op(d, i)
    <3>. HIDE DEF op, Left
    <3>. QED  BY <1>0, <2>1
  <2>2. Stays(N, S, J, step)
    <3>. HIDE DEF J, step, op
    <3>. QED  BY <1>2, <2>1 DEF Stays
  <2>. HIDE DEF J, step, from
  <2>. QED  BY <1>0, <1>1, <2>2, Loop
<1>4. f = Body(f)
  <2>1. ASSUME NEW i \in 0 .. N, i # 0 PROVE step[i - 1][f[i - 1]] = op(f[i - 1], i - 1)
    <3>. HIDE DEF op, Left
    <3>1. i - 1 \in 0 .. N - 1 /\ i - 1 \in 0 .. N
      BY <1>0, <2>1
    <3>2. f[i - 1] \in J[i - 1]
      BY <1>3, <3>1
    <3>3. f[i - 1] \in Tables
      BY <3>1, <3>2
    <3>. QED  BY <3>1, <3>3
  <2>. HIDE DEF step, J, op, from
  <2>. QED  BY <1>3, <2>1 DEF Runs
<1>5. SetBlocks(t, first, last, e) = (CHOOSE g : g = Body(g))[N]
  BY <1>0 DEF SetBlocks, Ascend, Sound
<1>. HIDE DEF Body
<1>6. PICK g : g = Body(g) /\ SetBlocks(t, first, last, e) = g[N]
  BY <1>4, <1>5
<1>7. g[N] \in J[N]
  <2>. DEFINE Q == {i \in 0 .. N : g[i] \in J[i]}
  <2>1. 0 \in Q
    <3>1. g[0] = from
      <4>. HIDE DEF op, from, J
      <4>. QED  BY <1>0, <1>6 DEF Body
    <3>. HIDE DEF J, from
    <3>. QED  BY <1>0, <1>1, <3>1
  <2>2. ASSUME NEW i \in 0 .. N - 1, i \in Q PROVE i + 1 \in Q
    <3>. HIDE DEF op, J, from
    <3>1. g[i + 1] = IF i \in S THEN op(g[i], i) ELSE g[i]
      BY <1>0, <1>6 DEF Body
    <3>. QED  BY <1>0, <1>2, <2>2, <3>1
  <2>. HIDE DEF Q
  <2>3. N \in Q
    BY <1>0, <2>1, <2>2, UpTo
  <2>. QED  BY <2>3 DEF Q
<1>8. Left(N) = 0 /\ \A b \in Blocks : (b \in S /\ b < N) <=> b \in S
  BY <1>0
<1>9. LET v == SetBlocks(t, first, last, e)
      IN  /\ Sound(v, e, 0) /\ Kept(t, v, e) /\ v.sub = t.sub
          /\ \A b \in Blocks : v.l1[b] = IF b \in S THEN e ELSE t.l1[b]
  <2>. HIDE DEF Left
  <2>. QED  BY <1>0, <1>6, <1>7, <1>8
<1>. DEFINE v == SetBlocks(t, first, last, e)
<1>. HIDE DEF v, from, op, J, step, Left
<1>10. ASSUME NEW a \in Addresses PROVE Lookup(v, a) = IF a \in BlocksOf(first, last) THEN e ELSE Lookup(t, a)
  <2>1. BlockOf(a) \in Blocks /\ CellOf(a) \in Cells
    BY AddressesNat, PlaceOf
  <2>2. e \notin Subtables
    BY Numbers
  <2>. QED  BY <1>9, <2>1, <2>2, LookupAt DEF BlocksOf, At, v
<1>. QED  BY <1>9, <1>10 DEF Written, v

\* The first whole block from an address.
LEMMA FirstBlock ==
  ASSUME NEW a \in Nat
  PROVE  (a + BlockSize - 1) \div BlockSize = IF CellOf(a) = 0 THEN BlockOf(a) ELSE BlockOf(a) + 1
<1>1. /\ BlockSize \in Nat \ {0} /\ BlockOf(a) \in Nat /\ CellOf(a) \in 0 .. BlockSize - 1
      /\ a = BlockSize * BlockOf(a) + CellOf(a)
  BY PlaceOf, Numbers DEF Place, Cells
<1>. DEFINE b == BlockOf(a) c == CellOf(a)
<1>. HIDE DEF b, c
<1>2. CASE c = 0
  <2>1. a + BlockSize - 1 = BlockSize * b + (BlockSize - 1) /\ BlockSize - 1 \in 0 .. BlockSize - 1
    BY <1>1, <1>2 DEF b, c
  <2>2. (BlockSize * b + (BlockSize - 1)) \div BlockSize = b
    BY <1>1, <2>1, DivisionUnique DEF b
  <2>. QED  BY <1>2, <2>1, <2>2 DEF b, c
<1>3. CASE c # 0
  <2>1. /\ a + BlockSize - 1 = BlockSize * (b + 1) + (c - 1) /\ c - 1 \in 0 .. BlockSize - 1
        /\ b + 1 \in Nat
    BY <1>1, <1>3 DEF b, c
  <2>2. (BlockSize * (b + 1) + (c - 1)) \div BlockSize = b + 1
    BY <1>1, <2>1, DivisionUnique
  <2>. QED  BY <1>3, <2>1, <2>2 DEF b, c
<1>. QED  BY <1>2, <1>3

\* The last whole block up to an address.
LEMMA LastBlock ==
  ASSUME NEW a \in Nat
  PROVE  (a + 1) \div BlockSize - 1 = IF CellOf(a) = BlockSize - 1 THEN BlockOf(a) ELSE BlockOf(a) - 1
<1>1. /\ BlockSize \in Nat \ {0} /\ BlockOf(a) \in Nat /\ CellOf(a) \in 0 .. BlockSize - 1
      /\ a = BlockSize * BlockOf(a) + CellOf(a)
  BY PlaceOf, Numbers DEF Place, Cells
<1>. DEFINE b == BlockOf(a) c == CellOf(a)
<1>. HIDE DEF b, c
<1>2. CASE c = BlockSize - 1
  <2>0. BlockSize * (b + 1) = BlockSize * b + BlockSize /\ b \in Nat
    BY <1>1 DEF b
  <2>1. a + 1 = BlockSize * (b + 1) + 0 /\ 0 \in 0 .. BlockSize - 1 /\ b + 1 \in Nat
    BY <1>1, <1>2, <2>0 DEF b, c
  <2>2. (BlockSize * (b + 1) + 0) \div BlockSize = b + 1
    BY <1>1, <2>1, DivisionUnique
  <2>. QED  BY <1>1, <1>2, <2>1, <2>2 DEF b, c
<1>3. CASE c # BlockSize - 1
  <2>1. a + 1 = BlockSize * b + (c + 1) /\ c + 1 \in 0 .. BlockSize - 1 /\ b \in Nat
    BY <1>1, <1>3 DEF b, c
  <2>2. (BlockSize * b + (c + 1)) \div BlockSize = b
    BY <1>1, <2>1, DivisionUnique
  <2>. QED  BY <1>3, <2>1, <2>2 DEF b, c
<1>. QED  BY <1>2, <1>3

\* What becomes of the subtables when cells of one block are populated: if it was the
\* whole block nothing, else those of other blocks stay.
Inside(t, v, b, whole) ==
  IF whole THEN v.sub = t.sub
  ELSE Own(v, b) /\ Aside(t, v, b) /\ (Own(t, b) => v.l1[b] = t.l1[b])

\* populate_range writes the range.
LEMMA PopulateRangeEffect ==
  ASSUME NEW e \in Entries, NEW t, Sound(t, e, 0),
         NEW start \in Addresses, NEW stop \in Addresses, start <= stop
  PROVE  LET v == PopulateRange(t, start, stop, e)
         IN  /\ v \in Tables
             /\ v.fatal \/ ( /\ Written(t, v, e, start .. stop)
                             /\ BlockOf(start) = BlockOf(stop) =>
                                  Inside(t, v, BlockOf(start), CellOf(start) = 0 /\ CellOf(stop) = BlockSize - 1) )
<1>. DEFINE b == BlockOf(start) c == CellOf(start)
            d == BlockOf(stop) x == CellOf(stop)
            first == IF c = 0 THEN b ELSE b + 1
            last == IF x = BlockSize - 1 THEN d ELSE d - 1
            end == IF b = d THEN x ELSE BlockSize - 1
            h == IF c = 0 THEN t ELSE SetCells(t, b, c, end, e)
            u == IF x = BlockSize - 1 \/ first > d THEN h ELSE SetCells(h, d, 0, x, e)
            v == SetBlocks(u, first, last, e)
<1>1. /\ start \in Nat /\ stop \in Nat /\ b \in Blocks /\ d \in Blocks /\ c \in Cells /\ x \in Cells
      /\ b \in Nat /\ d \in Nat /\ c \in 0 .. BlockSize - 1 /\ x \in 0 .. BlockSize - 1
      /\ BlockSize \in Nat \ {0} /\ Blocks = 0 .. BlockCount - 1 /\ BlockCount \in Nat
  BY AddressesNat, PlaceOf, Numbers DEF Cells, Blocks
<1>2. b < d \/ (b = d /\ c <= x)
  BY <1>1, AddressOrder
<1>3. PopulateRange(t, start, stop, e) = v
  <2>1. PopulateHead(t, start, stop, e) = h
    BY DEF PopulateHead, BlockOf, CellOf
  <2>2. (start + BlockSize - 1) \div BlockSize = first /\ (stop + 1) \div BlockSize - 1 = last
    BY <1>1, FirstBlock, LastBlock
  <2>. HIDE DEF h, first, last
  <2>3. PopulateTail(h, first, stop, e) = u
    BY DEF PopulateTail, BlockOf, CellOf
  <2>. HIDE DEF u
  <2>. QED  BY <2>1, <2>2, <2>3 DEF PopulateRange
<1>4. t \in Tables /\ ~t.fatal
  BY DEF Sound
<1>. DEFINE H == IF c = 0 THEN {} ELSE CellsOf(b, c, end)
            U == IF x = BlockSize - 1 \/ first > d THEN {} ELSE CellsOf(d, 0, x)
            V == IF first > last THEN {} ELSE BlocksOf(first, last)
<1>. HIDE DEF b, c, d, x, v
<1>5. /\ h \in Tables
      /\ h.fatal \/ ( /\ Written(t, h, e, H)
                      /\ c # 0 => /\ Own(h, b) /\ Aside(t, h, b)
                                  /\ Own(t, b) => h.l1[b] = t.l1[b]
                      /\ c = 0 => h = t )
  <2>1. CASE c = 0
    BY <1>4, <2>1, WrittenNot
  <2>2. CASE c # 0
    <3>1. h = SetCells(t, b, c, end, e) /\ H = CellsOf(b, c, end)
      BY <2>2
    <3>2. end \in Cells /\ c <= end
      BY <1>1, <1>2 DEF Cells
    <3>. HIDE DEF h, end, H
    <3>3. /\ h \in Tables
          /\ h.fatal \/ ( /\ Written(t, h, e, CellsOf(b, c, end))
                          /\ Own(h, b) /\ Aside(t, h, b)
                          /\ Own(t, b) => h.l1[b] = t.l1[b] )
      <4>1. Sound(t, e, 0) /\ e \in Entries /\ b \in Blocks /\ c \in Cells
        BY <1>1
      <4>. QED  BY ONLY <3>1, <3>2, <4>1, SetCellsEffect
    <3>. QED  BY <2>2, <3>1, <3>3
  <2>. QED  BY <2>1, <2>2
<1>. HIDE DEF h, H
<1>6. CASE h.fatal
  <2>1. SetCells(h, d, 0, x, e) = h
    BY <1>6 DEF SetCells
  <2>2. u = h
    BY <2>1
  <2>. HIDE DEF u
  <2>3. v = h
    BY <1>6, <2>2 DEF v, SetBlocks
  <2>. QED  BY <1>3, <1>5, <1>6, <2>3
<1>7. CASE ~h.fatal
  <2>0. Written(t, h, e, H) /\ Sound(h, e, 0)
    BY <1>5, <1>7 DEF Written
  <2>1. /\ u \in Tables
        /\ u.fatal \/ ( /\ Written(h, u, e, U)
                        /\ ~(x = BlockSize - 1 \/ first > d) =>
                              /\ Own(u, d) /\ Aside(h, u, d)
                              /\ Own(h, d) => u.l1[d] = h.l1[d]
                        /\ x = BlockSize - 1 \/ first > d => u = h )
    <3>1. CASE x = BlockSize - 1 \/ first > d
      <4>1. u = h /\ U = {}
        BY <3>1
      <4>. HIDE DEF u, U
      <4>. QED  BY <1>5, <2>0, <3>1, <4>1, WrittenNot
    <3>2. CASE ~(x = BlockSize - 1 \/ first > d)
      <4>1. u = SetCells(h, d, 0, x, e) /\ U = CellsOf(d, 0, x)
        BY <3>2
      <4>. HIDE DEF u, U, first
      <4>2. 0 \in Cells /\ 0 <= x
        BY <1>1, Numbers
      <4>3. /\ u \in Tables
            /\ u.fatal \/ ( /\ Written(h, u, e, CellsOf(d, 0, x))
                            /\ Own(u, d) /\ Aside(h, u, d)
                            /\ Own(h, d) => u.l1[d] = h.l1[d] )
        <5>1. Sound(h, e, 0) /\ e \in Entries /\ d \in Blocks /\ x \in Cells
          BY <1>1, <2>0
        <5>. QED  BY ONLY <4>1, <4>2, <5>1, SetCellsEffect
      <4>. QED  BY <3>2, <4>1, <4>3
    <3>. QED  BY <3>1, <3>2
  <2>. HIDE DEF u, U
  <2>2. CASE u.fatal
    <3>1. v = u
      BY <2>2 DEF v, SetBlocks
    <3>. QED  BY <1>3, <2>1, <2>2, <3>1
  <2>3. CASE ~u.fatal
    <3>0. Written(h, u, e, U) /\ Sound(u, e, 0)
      BY <2>1, <2>3 DEF Written
    <3>1. Written(u, v, e, V) /\ v.sub = u.sub /\ (first > last => v = u)
      <4>1. CASE first > last
        <5>1. v = u /\ V = {}
          BY <4>1 DEF v, SetBlocks
        <5>. HIDE DEF V
        <5>. QED  BY <3>0, <4>1, <5>1, WrittenNot
      <4>2. CASE ~(first > last)
        <5>1. first \in Blocks /\ last \in Blocks /\ first <= last /\ V = BlocksOf(first, last)
          BY <1>1, <4>2
        <5>. HIDE DEF V, first, last
        <5>2. Written(u, v, e, BlocksOf(first, last)) /\ v.sub = u.sub
          BY <3>0, <5>1, SetBlocksEffect DEF v
        <5>. QED  BY <4>2, <5>1, <5>2
      <4>. QED  BY <4>1, <4>2
    <3>2. ASSUME NEW a \in Addresses PROVE a \in start .. stop <=> (a \in H \/ a \in U) \/ a \in V
      <4>. DEFINE q == BlockOf(a) y == CellOf(a)
      <4>1. a \in Nat /\ q \in Blocks /\ q \in Nat /\ y \in 0 .. BlockSize - 1
        BY AddressesNat, PlaceOf DEF Cells, Blocks
      <4>2. a \in start .. stop <=> (b < q \/ (b = q /\ c <= y)) /\ (q < d \/ (q = d /\ y <= x))
        BY <1>1, <4>1, AddressOrder DEF b, c, d, x
      <4>. HIDE DEF q, y
      <4>3. a \in H <=> c # 0 /\ q = b /\ c <= y /\ (b = d => y <= x)
        BY <1>1, <4>1 DEF H, CellsOf, q, y
      <4>4. a \in U <=> ~(x = BlockSize - 1 \/ first > d) /\ q = d /\ y <= x
        BY <1>1, <4>1 DEF U, CellsOf, q, y
      <4>5. a \in V <=> first <= q /\ q <= last
        BY <1>1, <4>1 DEF V, BlocksOf, q
      <4>. HIDE DEF V
      <4>6. (b < q \/ (b = q /\ c <= y)) /\ (q < d \/ (q = d /\ y <= x)) <=>
              \/ c # 0 /\ q = b /\ c <= y /\ (b = d => y <= x)
              \/ ~(x = BlockSize - 1 \/ first > d) /\ q = d /\ y <= x
              \/ first <= q /\ q <= last
        BY <1>1, <1>2, <4>1
      <4>. QED  BY <4>2, <4>3, <4>4, <4>5, <4>6
    <3>. DEFINE HU == {a \in Addresses : a \in H \/ a \in U}
    <3>3. Written(t, u, e, HU)
      <4>1. \A a \in Addresses : a \in HU <=> a \in H \/ a \in U
        OBVIOUS
      <4>. HIDE DEF HU
      <4>. QED  BY <2>0, <3>0, <4>1, WrittenTwice
    <3>4. Written(t, v, e, start .. stop)
      <4>1. \A a \in Addresses : a \in start .. stop <=> a \in HU \/ a \in V
        BY <3>2
      <4>. HIDE DEF HU, V
      <4>. QED  BY <3>1, <3>3, <4>1, WrittenTwice
    <3>5. ASSUME b = d PROVE Inside(t, v, b, c = 0 /\ x = BlockSize - 1)
      <4>1. CASE c # 0
        <5>1. first > d /\ first > last
          BY <1>1, <3>5, <4>1
        <5>2. v = h
          BY <2>1, <2>3, <3>1, <5>1
        <5>. QED  BY <1>5, <1>7, <4>1, <5>2 DEF Inside
      <4>2. CASE c = 0 /\ x # BlockSize - 1
        <5>1. ~(first > d) /\ first > last
          BY <1>1, <3>5, <4>2
        <5>2. v = u /\ h = t
          BY <1>5, <1>7, <3>1, <4>2, <5>1
        <5>3. Own(u, d) /\ Aside(h, u, d) /\ (Own(h, d) => u.l1[d] = h.l1[d])
          BY <2>1, <2>3, <4>2, <5>1
        <5>. QED  BY <3>5, <4>2, <5>2, <5>3 DEF Inside
      <4>3. CASE c = 0 /\ x = BlockSize - 1
        <5>1. v.sub = t.sub
          BY <1>5, <1>7, <2>1, <2>3, <3>1, <4>3
        <5>. QED  BY <4>3, <5>1 DEF Inside
      <4>. QED  BY <4>1, <4>2, <4>3
    <3>6. v \in Tables
      BY <3>1 DEF Written, Sound
    <3>. QED  BY <1>3, <3>4, <3>5, <3>6 DEF b, c, d, x
  <2>. QED  BY <2>2, <2>3
<1>. QED  BY <1>6, <1>7

\* An error stops the populating.
LEMMA PopulateRangeFatal ==
  ASSUME NEW t, t.fatal, NEW start, NEW stop, NEW e
  PROVE  PopulateRange(t, start, stop, e) = t
<1>1. PopulateHead(t, start, stop, e) = t
  BY DEF PopulateHead, SetCells
<1>2. \A first : PopulateTail(t, first, stop, e) = t
  BY DEF PopulateTail, SetCells
<1>3. \A first, last : SetBlocks(t, first, last, e) = t
  BY DEF SetBlocks
<1>. QED  BY <1>1, <1>2, <1>3 DEF PopulateRange

----------------------------------------------------------------------------
(* Mirrors. *)

\* The mirrors of a range: within a block, and from block to block.
LEMMA MirrorFacts ==
  ASSUME NEW c, IsRange(c)
  PROVE  /\ LowMirrors(c.mirror) \subseteq Cells /\ 0 \in LowMirrors(c.mirror)
         /\ HighMirrors(c.mirror) \subseteq Addresses /\ 0 \in HighMirrors(c.mirror)
         /\ c.start \in Addresses /\ c.stop \in Addresses /\ c.start <= c.stop
         /\ \A h \in HighMirrors(c.mirror) : BlockOf(h) \in Nat /\ h = Place(BlockOf(h), 0)
         /\ \A m \in c.mirror : \E l \in LowMirrors(c.mirror), h \in HighMirrors(c.mirror) : m = l + h
         /\ \A l \in LowMirrors(c.mirror), h \in HighMirrors(c.mirror) :
              /\ l + h \in c.mirror /\ c.start + h + l \in Addresses /\ c.stop + h + l \in Addresses
              /\ BlockOf(c.start + h + l) = BlockOf(c.start) + BlockOf(h)
              /\ CellOf(c.start + h + l) = CellOf(c.start) + l /\ CellOf(c.start) + l \in Cells
              /\ BlockOf(c.stop + h + l) = BlockOf(c.stop) + BlockOf(h)
              /\ CellOf(c.stop + h + l) = CellOf(c.stop) + l /\ CellOf(c.stop) + l \in Cells
<1>. DEFINE Low == LowMirrors(c.mirror) High == HighMirrors(c.mirror)
<1>1. /\ c.start \in Addresses /\ c.stop \in Addresses /\ c.start <= c.stop
      /\ 0 \in c.mirror /\ c.mirror \subseteq Addresses
      /\ \A m \in c.mirror : c.start + m \in Addresses /\ c.stop + m \in Addresses
      /\ c.mirror = {l + h : l \in Low, h \in High}
      /\ \A l \in Low : CellOf(c.start) + l \in Cells /\ CellOf(c.stop) + l \in Cells
  BY DEF IsRange, CellOf
<1>2. Low = {CellOf(m) : m \in c.mirror} /\ High = {m - CellOf(m) : m \in c.mirror}
  BY DEF LowMirrors, HighMirrors, CellOf
<1>. HIDE DEF Low, High
<1>3. BlockSize \in Nat \ {0} /\ Cells = 0 .. BlockSize - 1 /\ c.start \in Nat /\ c.stop \in Nat
  BY <1>1, AddressesNat, Numbers DEF Cells
<1>4. \A m \in c.mirror : /\ m \in Nat /\ CellOf(m) \in Cells /\ BlockOf(m) \in Nat
                          /\ m = Place(BlockOf(m), CellOf(m))
  BY <1>1, AddressesNat, PlaceOf
<1>5. Low \subseteq Cells
  BY <1>2, <1>4
<1>6. ASSUME NEW h \in High
      PROVE  h \in Addresses /\ BlockOf(h) \in Nat /\ h = Place(BlockOf(h), 0)
  <2>1. PICK m \in c.mirror : h = m - CellOf(m)
    BY <1>2
  <2>2. h = Place(BlockOf(m), 0)
    BY <1>3, <1>4, <2>1 DEF Place
  <2>3. BlockOf(h) = BlockOf(m) /\ 0 \in Cells
    BY <1>4, <2>2, Placed, Numbers
  <2>4. m \in Nat /\ CellOf(m) \in Nat /\ m \in Addresses
    <3>1. Cells \subseteq Nat /\ c.mirror \subseteq Addresses
      BY <1>1, <1>3
    <3>. QED  BY <1>4, <2>1, <3>1
  <2>6. h \in Nat
    BY <1>4, <2>2, <2>3, Placed
  <2>7. h <= m
    BY <2>1, <2>4
  <2>5. h \in Addresses
    BY <2>4, <2>6, <2>7, Numbers DEF Addresses
  <2>. QED  BY <1>4, <2>2, <2>3, <2>5
<1>7. 0 \in Low /\ 0 \in High
  <2>1. CellOf(0) = 0
    <3>1. 0 = Place(0, 0) /\ 0 \in Cells /\ 0 \in Nat
      BY <1>3 DEF Place
    <3>2. CellOf(Place(0, 0)) = 0
      BY <3>1, Placed
    <3>. QED  BY <3>1, <3>2
  <2>2. 0 \in c.mirror /\ 0 - CellOf(0) = 0
    BY <1>1, <2>1
  <2>3. CellOf(0) \in Low /\ 0 - CellOf(0) \in High
    BY <1>2, <2>2
  <2>. QED  BY <2>1, <2>2, <2>3
<1>8. ASSUME NEW m \in c.mirror PROVE \E l \in Low, h \in High : m = l + h
  BY <1>1
<1>9. ASSUME NEW a \in {c.start, c.stop}, NEW l \in Low, NEW h \in High
      PROVE  /\ a + h + l \in Addresses
             /\ BlockOf(a + h + l) = BlockOf(a) + BlockOf(h)
             /\ CellOf(a + h + l) = CellOf(a) + l /\ CellOf(a) + l \in Cells
  <2>a. l + h \in c.mirror
    BY <1>1
  <2>b. a + (l + h) \in Addresses /\ CellOf(a) + l \in Cells
    BY <1>1, <2>a
  <2>c. h \in Nat
    BY <1>6, AddressesNat
  <2>d. a \in Nat /\ l \in Nat
    BY <1>3, <1>5
  <2>1. /\ a \in Nat /\ l \in Nat /\ h \in Nat /\ l + h \in c.mirror /\ a + (l + h) \in Addresses
        /\ CellOf(a) + l \in Cells
    BY <2>a, <2>b, <2>c, <2>d
  <2>2. a + h + l = a + (l + h)
    BY <2>1
  <2>3. /\ a = BlockSize * BlockOf(a) + CellOf(a) /\ BlockOf(a) \in Nat /\ CellOf(a) \in Nat
        /\ h = BlockSize * BlockOf(h) + 0 /\ BlockOf(h) \in Nat
    BY <1>3, <1>6, <2>1, PlaceOf DEF Place
  <2>4. BlockSize * (BlockOf(a) + BlockOf(h)) = BlockSize * BlockOf(a) + BlockSize * BlockOf(h)
    BY <1>3, <2>3
  <2>5. a + h + l = Place(BlockOf(a) + BlockOf(h), CellOf(a) + l)
    <3>. DEFINE x == BlockSize * BlockOf(a) y == BlockSize * BlockOf(h)
    <3>1. x \in Nat /\ y \in Nat /\ BlockSize * (BlockOf(a) + BlockOf(h)) = x + y
      BY <1>3, <2>3, <2>4
    <3>2. a = x + CellOf(a) /\ h = y
      <4>1. a = x + CellOf(a) /\ h = y + 0
        BY <2>3
      <4>. HIDE DEF x, y
      <4>. QED  BY <3>1, <4>1
    <3>. HIDE DEF x, y
    <3>3. a + h + l = (x + y) + (CellOf(a) + l)
      BY <2>1, <2>3, <3>1, <3>2
    <3>. QED  BY <3>1, <3>3 DEF Place
  <2>6. BlockOf(a) + BlockOf(h) \in Nat
    BY <2>3
  <2>. QED  BY <2>1, <2>2, <2>5, <2>6, Placed
<1>10. \A l \in Low, h \in High : l + h \in c.mirror
  BY <1>1
<1>. QED  BY <1>1, <1>5, <1>6, <1>7, <1>8, <1>9, <1>10 DEF Low, High

\* Other blocks have what they had.
Private(t, v, b) ==
  \A d \in Blocks : d # b /\ v.l1[d] \in Subtables => v.sub[v.l1[d]] = t.sub[v.l1[d]]

\* The copies of a range in the mirrors that share the upper part m.
Copies(c, m) == {a \in Addresses : \E l \in LowMirrors(c.mirror) : c.start + m + l <= a /\ a <= c.stop + m + l}

\* The copies of a range within the block of a mirror.
FillLow(t, c, m, e) ==
  Ascend(LAMBDA d, l : PopulateRange(d, c.start + m + l, c.stop + m + l, e), t, BlockSize, LowMirrors(c.mirror))

\* populate_range_mirrored: the copies within the block.
LEMMA FillLowEffect ==
  ASSUME NEW c, IsRange(c), NEW m \in HighMirrors(c.mirror), NEW e \in Entries, NEW t, Sound(t, e, 0)
  PROVE  LET v == FillLow(t, c, m, e)
         IN  /\ v \in Tables
             /\ v.fatal \/ ( /\ Written(t, v, e, Copies(c, m))
                             /\ BlockOf(c.start) = BlockOf(c.stop) => Private(t, v, BlockOf(c.start + m)) )
<1>. DEFINE N == BlockSize
            S == LowMirrors(c.mirror)
            b == BlockOf(c.start + m)
            within == BlockOf(c.start) = BlockOf(c.stop)
            whole == CellOf(c.start) = 0 /\ CellOf(c.stop) = BlockSize - 1
            Part(i) == {a \in Addresses : \E l \in S : l < i /\ c.start + m + l <= a /\ a <= c.stop + m + l}
            Apart(d) == IF whole THEN d.sub = t.sub
                        ELSE d.sub = t.sub \/ (Own(d, b) /\ Aside(t, d, b))
            op(d, l) == PopulateRange(d, c.start + m + l, c.stop + m + l, e)
            step == [i \in 0 .. N - 1 |-> [d \in Tables |-> op(d, i)]]
            J == [i \in 0 .. N |->
                    {d \in Tables : d.fatal \/ (Written(t, d, e, Part(i)) /\ (within => Apart(d)))}]
            Body(f) == [i \in 0 .. N |-> IF i = 0 THEN t
                          ELSE IF i - 1 \in S THEN op(f[i - 1], i - 1) ELSE f[i - 1]]
<1>. HIDE DEF Apart, within, whole
<1>0. /\ N \in Nat /\ S \subseteq 0 .. N - 1 /\ t \in Tables /\ ~t.fatal
      /\ c.start \in Nat /\ c.stop \in Nat /\ c.start <= c.stop /\ m \in Nat
  BY MirrorFacts, AddressesNat, Numbers DEF Cells, Sound
<1>r. ASSUME NEW l \in S
      PROVE  /\ l \in Nat /\ c.start + m + l \in Addresses /\ c.stop + m + l \in Addresses
             /\ c.start + m + l <= c.stop + m + l
             /\ BlockOf(c.start + m + l) = BlockOf(c.start) + BlockOf(m)
             /\ BlockOf(c.stop + m + l) = BlockOf(c.stop) + BlockOf(m)
             /\ CellOf(c.start + m + l) = CellOf(c.start) + l
             /\ CellOf(c.stop + m + l) = CellOf(c.stop) + l /\ CellOf(c.stop) + l \in Cells
  BY <1>0, MirrorFacts
<1>b. b = BlockOf(c.start) + BlockOf(m) /\ b \in Blocks
  <2>1. 0 \in S /\ c.start + m + 0 = c.start + m
    BY <1>0, MirrorFacts
  <2>2. c.start + m \in Addresses /\ BlockOf(c.start + m) = BlockOf(c.start) + BlockOf(m)
    BY <1>r, <2>1
  <2>. QED  BY <2>2, AddressesNat, PlaceOf
<1>1. t \in J[0]
  <2>1. Part(0) = {}
    BY <1>r
  <2>2. Apart(t)
    BY DEF Apart
  <2>. HIDE DEF Part
  <2>3. Written(t, t, e, Part(0))
    BY <2>1, WrittenNot
  <2>. QED  BY <1>0, <2>2, <2>3
<1>2. ASSUME NEW i \in 0 .. N - 1, NEW d \in J[i]
      PROVE  (i \in S => op(d, i) \in J[i + 1]) /\ (i \notin S => d \in J[i + 1])
  <2>. DEFINE v == op(d, i)
  <2>1. /\ d \in Tables /\ i + 1 \in 0 .. N
        /\ d.fatal \/ (Written(t, d, e, Part(i)) /\ (within => Apart(d)))
    <3>. HIDE DEF op, Part
    <3>. QED  BY <1>0, <1>2
  <2>2. CASE d.fatal
    <3>1. v = d
      BY <2>2, PopulateRangeFatal
    <3>. HIDE DEF op, Part
    <3>. QED  BY <2>1, <2>2, <3>1
  <2>3. CASE ~d.fatal /\ i \notin S
    <3>1. Part(i + 1) = Part(i)
      BY <1>r, <2>3, <1>0
    <3>. HIDE DEF op, Part
    <3>. QED  BY <2>1, <2>3, <3>1
  <2>4. CASE ~d.fatal /\ i \in S
    <3>0. Written(t, d, e, Part(i)) /\ (within => Apart(d)) /\ Sound(d, e, 0)
      BY <2>1, <2>4 DEF Written
    <3>. DEFINE start == c.start + m + i stop == c.stop + m + i
    <3>1. /\ start \in Addresses /\ stop \in Addresses /\ start <= stop
          /\ BlockOf(start) = b /\ BlockOf(stop) = BlockOf(c.stop) + BlockOf(m)
          /\ CellOf(start) = CellOf(c.start) + i /\ CellOf(stop) = CellOf(c.stop) + i
          /\ CellOf(c.stop) + i \in Cells /\ i \in Nat
      BY <1>r, <1>b, <2>4
    <3>. HIDE DEF Part, start, stop, b
    <3>2. v = PopulateRange(d, start, stop, e)
      BY DEF start, stop
    <3>. HIDE DEF v, op
    <3>3. /\ v \in Tables
          /\ v.fatal \/ ( /\ Written(d, v, e, start .. stop)
                          /\ BlockOf(start) = BlockOf(stop) =>
                               Inside(d, v, BlockOf(start), CellOf(start) = 0 /\ CellOf(stop) = BlockSize - 1) )
      BY <3>0, <3>1, <3>2, PopulateRangeEffect
    <3>4. ASSUME ~v.fatal PROVE Written(t, v, e, Part(i + 1))
      <4>1. \A a \in Addresses : a \in Part(i + 1) <=> a \in Part(i) \/ a \in start .. stop
        <5>. TAKE a \in Addresses
        <5>1. a \in Nat
          BY AddressesNat
        <5>2. a \in start .. stop <=> c.start + m + i <= a /\ a <= c.stop + m + i
          BY <1>0, <3>1, <5>1 DEF start, stop
        <5>3. \A l \in S : l < i + 1 <=> l < i \/ l = i
          BY <1>0
        <5>. QED  BY <2>4, <5>2, <5>3 DEF Part
      <4>2. Written(d, v, e, start .. stop)
        BY <3>3, <3>4
      <4>. DEFINE P == Part(i) Q == Part(i + 1) R == start .. stop
      <4>3. Written(t, d, e, P) /\ Written(d, v, e, R) /\ \A a \in Addresses : a \in Q <=> a \in P \/ a \in R
        BY <3>0, <4>1, <4>2
      <4>. HIDE DEF P, Q, R
      <4>4. Written(t, v, e, Q)
        BY ONLY Sound(t, e, 0), <4>3, WrittenTwice
      <4>. QED  BY <4>4 DEF Q
    <3>5. ASSUME ~v.fatal, within PROVE Apart(v)
      <4>1. BlockOf(start) = BlockOf(stop)
        BY <1>b, <3>1, <3>5 DEF within
      <4>2. Inside(d, v, b, CellOf(start) = 0 /\ CellOf(stop) = BlockSize - 1)
        BY <3>1, <3>3, <3>5, <4>1
      <4>3. CellOf(start) = 0 /\ CellOf(stop) = BlockSize - 1 <=> whole
        <5>1. CellOf(c.start) \in Cells /\ CellOf(c.stop) \in Cells
          BY <1>0, PlaceOf
        <5>2. CellOf(c.start) \in Nat /\ CellOf(c.stop) \in Nat /\ BlockSize \in Nat
          BY <1>0, <5>1 DEF Cells
        <5>3. CellOf(c.stop) <= BlockSize - 1 /\ CellOf(c.stop) + i <= BlockSize - 1
          BY <1>0, <3>1, <5>1 DEF Cells
        <5>. QED  BY <3>1, <5>2, <5>3 DEF whole
      <4>4. CASE whole
        <5>1. v.sub = d.sub
          BY <4>2, <4>3, <4>4 DEF Inside
        <5>. QED  BY <3>0, <3>5, <4>4, <5>1 DEF Apart
      <4>5. CASE ~whole
        <5>1. Own(v, b) /\ Aside(d, v, b) /\ (Own(d, b) => v.l1[b] = d.l1[b])
          BY <4>2, <4>3, <4>5 DEF Inside
        <5>2. d.sub = t.sub \/ (Own(d, b) /\ Aside(t, d, b))
          BY <3>0, <3>5, <4>5 DEF Apart
        <5>. QED  BY <4>5, <5>1, <5>2 DEF Apart, Aside
      <4>. QED  BY <4>4, <4>5
    <3>6. v \in J[i + 1]
      BY <2>1, <3>3, <3>4, <3>5
    <3>. QED  BY <2>4, <3>6 DEF v
  <2>. QED  BY <2>2, <2>3, <2>4
<1>. HIDE DEF Part
<1>3. PICK f : Runs(f, N, S, t, step) /\ \A i \in 0 .. N : f[i] \in J[i]
  <2>1. ASSUME NEW i \in 0 .. N - 1, NEW d \in J[i] PROVE step[i][d] = op(d, i)
    <3>. HIDE DEF op
    <3>. QED  BY <1>0, <2>1
  <2>2. Stays(N, S, J, step)
    <3>. HIDE DEF J, step, op
    <3>. QED  BY <1>2, <2>1 DEF Stays
  <2>. HIDE DEF J, step
  <2>. QED  BY <1>0, <1>1, <2>2, Loop
<1>4. f = Body(f)
  <2>1. ASSUME NEW i \in 0 .. N, i # 0 PROVE step[i - 1][f[i - 1]] = op(f[i - 1], i - 1)
    <3>. HIDE DEF op
    <3>1. i - 1 \in 0 .. N - 1 /\ i - 1 \in 0 .. N
      BY <1>0, <2>1
    <3>2. f[i - 1] \in J[i - 1]
      BY <1>3, <3>1
    <3>3. f[i - 1] \in Tables
      BY <3>1, <3>2
    <3>. QED  BY <3>1, <3>3
  <2>. HIDE DEF step, J, op
  <2>. QED  BY <1>3, <2>1 DEF Runs
<1>5. FillLow(t, c, m, e) = (CHOOSE g : g = Body(g))[N]
  BY DEF FillLow, Ascend
<1>. HIDE DEF Body
<1>6. PICK g : g = Body(g) /\ FillLow(t, c, m, e) = g[N]
  BY <1>4, <1>5
<1>7. g[N] \in J[N]
  <2>. DEFINE Q == {i \in 0 .. N : g[i] \in J[i]}
  <2>1. 0 \in Q
    <3>1. g[0] = t
      <4>. HIDE DEF op, J
      <4>. QED  BY <1>0, <1>6 DEF Body
    <3>. HIDE DEF J
    <3>. QED  BY <1>0, <1>1, <3>1
  <2>2. ASSUME NEW i \in 0 .. N - 1, i \in Q PROVE i + 1 \in Q
    <3>. HIDE DEF op, J
    <3>1. g[i + 1] = IF i \in S THEN op(g[i], i) ELSE g[i]
      BY <1>0, <1>6 DEF Body
    <3>. QED  BY <1>0, <1>2, <2>2, <3>1
  <2>. HIDE DEF Q
  <2>3. N \in Q
    BY <1>0, <2>1, <2>2, UpTo
  <2>. QED  BY <2>3 DEF Q
<1>. DEFINE v == FillLow(t, c, m, e)
<1>8. v \in Tables /\ (v.fatal \/ (Written(t, v, e, Part(N)) /\ (within => Apart(v))))
  <2>. HIDE DEF op
  <2>. QED  BY <1>0, <1>6, <1>7
<1>. HIDE DEF v, J, step, op
<1>9. Part(N) = Copies(c, m)
  BY <1>0 DEF Part, Copies
<1>10. ASSUME ~v.fatal, within PROVE Private(t, v, b)
  <2>1. Counted(v) /\ Apart(v)
    BY <1>8, <1>10 DEF Written, Sound
  <2>2. CASE v.sub = t.sub
    BY <2>2 DEF Private
  <2>3. CASE Own(v, b) /\ Aside(t, v, b)
    <3>1. \A d \in Blocks : d # b => v.l1[d] # v.l1[b]
      BY <1>b, <2>1, <2>3, OwnAlone
    <3>. QED  BY <2>3, <3>1 DEF Private, Aside
  <2>. QED  BY <2>1, <2>2, <2>3 DEF Apart
<1>. QED  BY <1>8, <1>9, <1>10 DEF within, v

\* The block where the mirror m of a range begins.
FirstOf(c, m) == BlockOf(c.start + m)

\* A range within a block.
Within(c) == BlockOf(c.start) = BlockOf(c.stop)

\* The cells of a block that a range within it and its lower mirrors cover.
Pattern(c, x) == \E l \in LowMirrors(c.mirror) : CellOf(c.start) + l <= x /\ x <= CellOf(c.stop) + l

\* The blocks of the upper mirrors.
LEMMA MirrorBlocks ==
  ASSUME NEW c, IsRange(c), NEW m \in HighMirrors(c.mirror)
  PROVE  /\ c.start + m \in Addresses /\ c.stop + m \in Addresses
         /\ FirstOf(c, m) \in Blocks
         /\ FirstOf(c, m) = BlockOf(c.stop + m) <=> Within(c)
         /\ \A p \in HighMirrors(c.mirror) : FirstOf(c, m) = FirstOf(c, p) => m = p
<1>. DEFINE High == HighMirrors(c.mirror)
<1>1. ASSUME NEW p \in High
      PROVE  /\ c.start + p \in Addresses /\ c.stop + p \in Addresses
             /\ BlockOf(c.start + p) = BlockOf(c.start) + BlockOf(p)
             /\ BlockOf(c.stop + p) = BlockOf(c.stop) + BlockOf(p)
             /\ p = Place(BlockOf(p), 0) /\ BlockOf(p) \in Nat
             /\ BlockOf(c.start) \in Nat /\ BlockOf(c.stop) \in Nat
  <2>1. /\ p \in Nat /\ c.start \in Nat /\ c.stop \in Nat /\ 0 \in LowMirrors(c.mirror)
        /\ p = Place(BlockOf(p), 0)
    BY MirrorFacts, AddressesNat
  <2>2. c.start + p + 0 = c.start + p /\ c.stop + p + 0 = c.stop + p
    BY <2>1
  <2>3. /\ c.start + p + 0 \in Addresses /\ c.stop + p + 0 \in Addresses
        /\ BlockOf(c.start + p + 0) = BlockOf(c.start) + BlockOf(p)
        /\ BlockOf(c.stop + p + 0) = BlockOf(c.stop) + BlockOf(p)
    BY <2>1, MirrorFacts
  <2>4. BlockOf(p) \in Nat /\ BlockOf(c.start) \in Nat /\ BlockOf(c.stop) \in Nat
    BY <2>1, PlaceOf
  <2>. QED  BY <2>1, <2>2, <2>3, <2>4
<1>2. FirstOf(c, m) \in Blocks
  BY <1>1, AddressesNat, PlaceOf DEF FirstOf
<1>3. FirstOf(c, m) = BlockOf(c.stop + m) <=> Within(c)
  BY <1>1 DEF FirstOf, Within
<1>4. ASSUME NEW p \in High, FirstOf(c, m) = FirstOf(c, p) PROVE m = p
  <2>1. BlockOf(m) = BlockOf(p)
    BY <1>1, <1>4 DEF FirstOf
  <2>. QED  BY <1>1, <2>1
<1>. QED  BY <1>1, <1>2, <1>3, <1>4

\* A range within a block has its copies in one block each, all at the same cells.
LEMMA CopiesPattern ==
  ASSUME NEW c, IsRange(c), Within(c), NEW m \in HighMirrors(c.mirror), NEW a \in Addresses
  PROVE  a \in Copies(c, m) <=> BlockOf(a) = FirstOf(c, m) /\ Pattern(c, CellOf(a))
<1>. DEFINE b == FirstOf(c, m)
<1>1. /\ a \in Nat /\ BlockOf(a) \in Nat /\ CellOf(a) \in Cells /\ b \in Nat
      /\ Cells \subseteq Nat
  BY AddressesNat, PlaceOf, MirrorBlocks DEF Blocks, Cells
<1>2. ASSUME NEW l \in LowMirrors(c.mirror)
      PROVE  c.start + m + l <= a /\ a <= c.stop + m + l <=>
               BlockOf(a) = b /\ CellOf(c.start) + l <= CellOf(a) /\ CellOf(a) <= CellOf(c.stop) + l
  <2>1. /\ c.start + m + l \in Addresses /\ c.stop + m + l \in Addresses
        /\ BlockOf(c.start + m + l) = BlockOf(c.start) + BlockOf(m)
        /\ CellOf(c.start + m + l) = CellOf(c.start) + l /\ CellOf(c.start) + l \in Cells
        /\ BlockOf(c.stop + m + l) = BlockOf(c.stop) + BlockOf(m)
        /\ CellOf(c.stop + m + l) = CellOf(c.stop) + l /\ CellOf(c.stop) + l \in Cells
    BY MirrorFacts
  <2>2. BlockOf(c.start + m + l) = b /\ BlockOf(c.stop + m + l) = b
    <3>a. c.start \in Nat /\ m \in Nat
      BY MirrorFacts, AddressesNat
    <3>1. 0 \in LowMirrors(c.mirror) /\ c.start \in Nat /\ m \in Nat /\ c.start + m + 0 = c.start + m
      BY <3>a, MirrorFacts
    <3>2. BlockOf(c.start + m + 0) = BlockOf(c.start) + BlockOf(m)
      BY <3>1, MirrorFacts
    <3>. QED  BY <2>1, <3>1, <3>2 DEF FirstOf, Within
  <2>. DEFINE first == c.start + m + l last == c.stop + m + l
  <2>3. first \in Nat /\ last \in Nat
    BY <2>1, AddressesNat
  <2>. HIDE DEF first, last, b
  <2>4. first <= a <=> (b < BlockOf(a) \/ (b = BlockOf(a) /\ CellOf(first) <= CellOf(a)))
    BY <1>1, <2>2, <2>3, AddressOrder DEF first
  <2>5. a <= last <=> (BlockOf(a) < b \/ (b = BlockOf(a) /\ CellOf(a) <= CellOf(last)))
    BY <1>1, <2>2, <2>3, AddressOrder DEF last
  <2>6. CellOf(first) = CellOf(c.start) + l /\ CellOf(last) = CellOf(c.stop) + l
    BY <2>1 DEF first, last
  <2>7. first <= a /\ a <= last <=> BlockOf(a) = b /\ CellOf(first) <= CellOf(a) /\ CellOf(a) <= CellOf(last)
    BY <1>1, <2>4, <2>5
  <2>. QED  BY <2>6, <2>7 DEF first, last
<1>. QED  BY <1>2 DEF Copies, Pattern

\* The blocks of the upper mirrors from i on.
Ahead(c, i) == {FirstOf(c, m) : m \in {p \in HighMirrors(c.mirror) : i <= p}}

\* A block still to come that looks like the last one did is now like it but for the range.
Alike(u, entry, block, c, e, i) ==
  /\ block \in Blocks \ Ahead(c, i)
  /\ \A d \in Ahead(c, i) : u.l1[d] = entry =>
       \A x \in Cells : At(u, block, x) = IF Pattern(c, x) THEN e ELSE At(u, d, x)

\* populate_range_mirrored: a block that has what the last one had gets what that one got.
LEMMA QuickMirrorEffect ==
  ASSUME NEW c, IsRange(c), Within(c), NEW m \in HighMirrors(c.mirror), NEW e \in Entries,
         NEW t, Sound(t, e, 0), NEW entry, NEW block, NEW i \in Nat, i = m, NEW k \in Nat, k = i + 1,
         Alike(t, entry, block, c, e, i), t.l1[FirstOf(c, m)] = entry
  PROVE  LET v == QuickMap(t, FirstOf(c, m), block)
         IN  Written(t, v, e, Copies(c, m)) /\ Alike(v, entry, block, c, e, k)
<1>. DEFINE b == FirstOf(c, m)
            v == QuickMap(t, b, block)
<1>1. /\ b \in Blocks /\ b \in Ahead(c, i) /\ Ahead(c, k) \subseteq Ahead(c, i) \ {b}
      /\ Ahead(c, i) \subseteq Blocks
  <2>1. HighMirrors(c.mirror) \subseteq Nat
    BY MirrorFacts, AddressesNat
  <2>2. \A p \in HighMirrors(c.mirror) : FirstOf(c, p) \in Blocks /\ (FirstOf(c, p) = b => p = m)
    BY MirrorBlocks
  <2>3. \A p \in HighMirrors(c.mirror) : k <= p => i <= p /\ p # m
    BY <2>1
  <2>4. m <= m
    BY <2>1
  <2>. QED  BY <2>2, <2>3, <2>4 DEF Ahead
<1>2. block \in Blocks /\ block # b /\ block \notin Ahead(c, k)
  BY <1>1 DEF Alike
<1>3. \A x \in Cells : At(t, block, x) = IF Pattern(c, x) THEN e ELSE At(t, b, x)
  BY <1>1 DEF Alike
<1>4. \E x \in Cells : At(t, block, x) = e
  <2>1. /\ 0 \in LowMirrors(c.mirror) /\ c.start \in Nat /\ c.stop \in Nat /\ c.start <= c.stop
    BY MirrorFacts, AddressesNat
  <2>2. CellOf(c.start) \in Cells /\ CellOf(c.stop) \in Cells /\ Cells \subseteq Nat
    BY <2>1, PlaceOf DEF Cells
  <2>3. BlockOf(c.start) \in Nat /\ BlockOf(c.start) = BlockOf(c.stop)
    BY <2>1, PlaceOf DEF Within
  <2>4. CellOf(c.start) <= CellOf(c.stop)
    BY <2>1, <2>3, AddressOrder
  <2>5. CellOf(c.start) + 0 <= CellOf(c.start) /\ CellOf(c.start) <= CellOf(c.stop) + 0
    <3>1. CellOf(c.start) \in Nat /\ CellOf(c.stop) \in Nat
      BY <2>2
    <3>. QED  BY <2>4, <3>1
  <2>6. Pattern(c, CellOf(c.start))
    BY <2>1, <2>5 DEF Pattern
  <2>. QED  BY <1>3, <2>2, <2>6
<1>5. /\ Sound(v, e, 0) /\ Kept(t, v, e)
      /\ v.l1 = Changed(t.l1, b, t.l1[block]) /\ v.sub = t.sub
  BY <1>1, <1>2, <1>4, QuickMapEffect
<1>. HIDE DEF v, b
<1>6. ASSUME NEW d \in Blocks
      PROVE  v.l1[d] = IF d = b THEN t.l1[block] ELSE t.l1[d]
  <2>1. DOMAIN t.l1 = Blocks
    BY DEF Sound, Tables
  <2>. QED  BY <1>5, <2>1 DEF Changed
<1>7. ASSUME NEW d \in Blocks, NEW x \in Cells
      PROVE  At(v, d, x) = IF d = b /\ Pattern(c, x) THEN e ELSE At(t, d, x)
  <2>1. CASE d = b
    BY <1>1, <1>3, <1>5, <1>6, <2>1 DEF At
  <2>2. CASE d # b
    BY <1>5, <1>6, <2>2 DEF At
  <2>. QED  BY <2>1, <2>2
<1>8. Written(t, v, e, Copies(c, m))
  <2>1. ASSUME NEW a \in Addresses
        PROVE  Lookup(v, a) = IF a \in Copies(c, m) THEN e ELSE Lookup(t, a)
    <3>1. BlockOf(a) \in Blocks /\ CellOf(a) \in Cells
      BY AddressesNat, PlaceOf
    <3>2. a \in Copies(c, m) <=> BlockOf(a) = b /\ Pattern(c, CellOf(a))
      BY CopiesPattern DEF b
    <3>. QED  BY <1>7, <3>1, <3>2, LookupAt
  <2>. QED  BY <1>5, <2>1 DEF Written
<1>9. Alike(v, entry, block, c, e, k)
  <2>1. ASSUME NEW d \in Ahead(c, k), v.l1[d] = entry, NEW x \in Cells
        PROVE  At(v, block, x) = IF Pattern(c, x) THEN e ELSE At(v, d, x)
    <3>1. d \in Blocks /\ d # b /\ d \in Ahead(c, i)
      BY <1>1
    <3>2. t.l1[d] = entry
      BY <1>6, <2>1, <3>1
    <3>3. At(t, block, x) = IF Pattern(c, x) THEN e ELSE At(t, d, x)
      BY <3>1, <3>2 DEF Alike
    <3>. QED  BY <1>2, <1>7, <3>1, <3>3
  <2>. QED  BY <1>2, <2>1 DEF Alike
<1>. QED  BY <1>8, <1>9 DEF v, b

\* After its range was filled, a block is what the blocks that looked like it will become.
LEMMA FilledAlike ==
  ASSUME NEW c, IsRange(c), Within(c), NEW m \in HighMirrors(c.mirror), NEW e \in Entries,
         NEW t, Sound(t, e, 0), NEW v, Written(t, v, e, Copies(c, m)), Private(t, v, FirstOf(c, m)),
         NEW i \in Nat, i = m, NEW k \in Nat, k = i + 1
  PROVE  Alike(v, t.l1[FirstOf(c, m)], FirstOf(c, m), c, e, k)
<1>. DEFINE b == FirstOf(c, m)
<1>1. b \in Blocks /\ Ahead(c, k) \subseteq Blocks \ {b}
  <2>1. HighMirrors(c.mirror) \subseteq Nat
    BY MirrorFacts, AddressesNat
  <2>2. \A p \in HighMirrors(c.mirror) : FirstOf(c, p) \in Blocks /\ (FirstOf(c, p) = b => p = m)
    BY MirrorBlocks
  <2>3. \A p \in HighMirrors(c.mirror) : k <= p => p # m
    BY <2>1
  <2>. QED  BY <2>2, <2>3 DEF Ahead
<1>2. ASSUME NEW d \in Ahead(c, k), v.l1[d] = t.l1[b], NEW x \in Cells
      PROVE  At(v, b, x) = IF Pattern(c, x) THEN e ELSE At(v, d, x)
  <2>. HIDE DEF b
  <2>1. d \in Blocks /\ d # b
    BY <1>1
  <2>2. At(v, d, x) = At(t, b, x)
    BY <1>2, <2>1 DEF Private, At, b
  <2>3. /\ At(v, b, x) = Lookup(v, Place(b, x)) /\ Place(b, x) \in Addresses
        /\ At(t, b, x) = Lookup(t, Place(b, x))
    BY <1>1, AtLookup
  <2>4. BlockOf(Place(b, x)) = b /\ CellOf(Place(b, x)) = x
    <3>1. b \in Nat
      BY <1>1 DEF Blocks
    <3>. QED  BY <3>1, Placed
  <2>5. Place(b, x) \in Copies(c, m) <=> Pattern(c, x)
    BY <2>3, <2>4, CopiesPattern DEF b
  <2>. QED  BY <2>2, <2>3, <2>5 DEF Written
<1>. QED  BY <1>1, <1>2 DEF Alike

\* The table, the last block mapped and the entry it had, after the mirrors below i.
Done(c, i) == {a \in Addresses : \E m \in HighMirrors(c.mirror) : m < i /\ a \in Copies(c, m)}

\* What that loop carries from mirror to mirror.
Accs == [table : Tables, entry : Nodes, block : Blocks]

\* What the loop over the mirrors has done before i.
Mirrored(t, acc, c, e, i) ==
  /\ acc \in Accs
  /\ acc.table.fatal \/ ( /\ Written(t, acc.table, e, Done(c, i))
                          /\ Within(c) /\ i # 0 => Alike(acc.table, acc.entry, acc.block, c, e, i) )

\* The turn of the loop over the mirrors.
LEMMA PopulateMirrorEffect ==
  ASSUME NEW c, IsRange(c), NEW m \in HighMirrors(c.mirror), NEW e \in Entries,
         NEW t, Sound(t, e, 0), NEW acc, NEW i \in Nat, i = m, NEW k \in Nat, k = i + 1,
         Mirrored(t, acc, c, e, i), ~acc.table.fatal
  PROVE  Mirrored(t, PopulateMirror(acc, c, e, m), c, e, k)
<1>. DEFINE u == acc.table
            b == FirstOf(c, m)
            quick == Within(c) /\ m # 0 /\ acc.entry = u.l1[b]
            w == PopulateMirror(acc, c, e, m)
            v == FillLow(u, c, m, e)
            q == QuickMap(u, b, acc.block)
<1>1. /\ acc \in Accs /\ Written(t, u, e, Done(c, i)) /\ Sound(u, e, 0) /\ u \in Tables
      /\ Within(c) /\ i # 0 => Alike(u, acc.entry, acc.block, c, e, i)
  BY DEF Mirrored, Written, Sound
<1>2. /\ b \in Blocks /\ (b = BlockOf(c.stop + m) <=> Within(c))
  BY MirrorBlocks
<1>3. w = CASE quick -> [acc EXCEPT !.table = q]
            [] Within(c) /\ ~quick -> [table |-> v, entry |-> u.l1[b], block |-> b]
            [] OTHER -> [acc EXCEPT !.table = v]
  <2>1. /\ (c.start + m) \div BlockSize = b /\ (c.stop + m) \div BlockSize = BlockOf(c.stop + m)
    BY DEF FirstOf, BlockOf
  <2>. HIDE DEF b
  <2>2. w = CASE b = BlockOf(c.stop + m) /\ m # 0 /\ acc.entry = acc.table.l1[b] -> [acc EXCEPT !.table = q]
              [] b = BlockOf(c.stop + m) /\ ~(b = BlockOf(c.stop + m) /\ m # 0 /\ acc.entry = acc.table.l1[b])
                   -> [table |-> v, entry |-> u.l1[b], block |-> b]
              [] OTHER -> [acc EXCEPT !.table = v]
    BY <2>1 DEF PopulateMirror, FillLow
  <2>. HIDE DEF v, q, w
  <2>. QED  BY <1>2, <2>2
<1>. HIDE DEF w
<1>4. \A a \in Addresses : a \in Done(c, k) <=> a \in Done(c, i) \/ a \in Copies(c, m)
  <2>1. \A p \in HighMirrors(c.mirror) : p < k <=> p < i \/ p = m
    <3>1. HighMirrors(c.mirror) \subseteq Nat
      BY MirrorFacts, AddressesNat
    <3>. QED  BY <3>1
  <2>. QED  BY <2>1 DEF Done
<1>5. CASE quick
  <2>1. w = [acc EXCEPT !.table = q]
    BY <1>3, <1>5
  <2>2. Written(u, q, e, Copies(c, m)) /\ Alike(q, acc.entry, acc.block, c, e, k)
    <3>. DEFINE entry == acc.entry block == acc.block
    <3>1. Alike(u, entry, block, c, e, i) /\ u.l1[b] = entry /\ Within(c)
      BY <1>1, <1>5
    <3>. HIDE DEF entry, block, u
    <3>2. LET z == QuickMap(u, FirstOf(c, m), block)
          IN  Written(u, z, e, Copies(c, m)) /\ Alike(z, entry, block, c, e, k)
      BY <1>1, <3>1, QuickMirrorEffect
    <3>. QED  BY <3>2 DEF entry, block
  <2>. HIDE DEF q, u, quick
  <2>3. q \in Tables
    BY <2>2 DEF Written, Sound
  <2>4. Written(t, q, e, Done(c, k))
    BY <1>1, <1>4, <2>2, WrittenTwice
  <2>5. w \in Accs /\ w.table = q /\ w.entry = acc.entry /\ w.block = acc.block
    BY <1>1, <2>1, <2>3 DEF Accs
  <2>6. Mirrored(t, w, c, e, k)
    BY <2>2, <2>4, <2>5 DEF Mirrored
  <2>. QED  BY <2>6 DEF w
<1>6. CASE ~quick
  <2>1. /\ v \in Tables
        /\ v.fatal \/ (Written(u, v, e, Copies(c, m)) /\ (Within(c) => Private(u, v, b)))
    <3>. HIDE DEF u
    <3>. QED  BY <1>1, FillLowEffect DEF Within, FirstOf
  <2>2. /\ w \in Accs /\ w.table = v
        /\ Within(c) => w.entry = u.l1[b] /\ w.block = b
    <3>. HIDE DEF v, quick, q
    <3>1. u.l1[b] \in Nodes
      BY <1>1, <1>2 DEF Tables
    <3>2. CASE Within(c)
      <4>1. w = [table |-> v, entry |-> u.l1[b], block |-> b]
        BY <1>3, <1>6, <3>2
      <4>. QED  BY <1>2, <2>1, <3>1, <4>1 DEF Accs
    <3>3. CASE ~Within(c)
      <4>1. w = [acc EXCEPT !.table = v]
        BY <1>3, <1>6, <3>3
      <4>. QED  BY <1>1, <2>1, <3>3, <4>1 DEF Accs
    <3>. QED  BY <3>2, <3>3
  <2>. HIDE DEF v, u, quick
  <2>3. CASE v.fatal
    <3>1. Mirrored(t, w, c, e, k)
      BY <2>2, <2>3 DEF Mirrored
    <3>. QED  BY <3>1 DEF w
  <2>4. CASE ~v.fatal
    <3>1. Written(u, v, e, Copies(c, m)) /\ (Within(c) => Private(u, v, b))
      BY <2>1, <2>4
    <3>2. Written(t, v, e, Done(c, k))
      BY <1>1, <1>4, <3>1, WrittenTwice
    <3>3. Within(c) => Alike(v, u.l1[b], b, c, e, k)
      BY <1>1, <3>1, FilledAlike
    <3>4. Mirrored(t, w, c, e, k)
      BY <2>2, <3>2, <3>3 DEF Mirrored
    <3>. QED  BY <3>4 DEF w
  <2>. QED  BY <2>3, <2>4
<1>. QED  BY <1>5, <1>6 DEF w

\* The addresses of a range and all its mirrors.
Covers(c) == {a \in Addresses : \E m \in c.mirror : c.start + m <= a /\ a <= c.stop + m}

\* populate_range_mirrored writes the range and all its mirrors.
LEMMA PopulateMirroredEffect ==
  ASSUME NEW c, IsRange(c), NEW e \in Entries, NEW t, Sound(t, e, 0)
  PROVE  LET v == PopulateMirrored(t, c, e)
         IN  v \in Tables /\ (v.fatal \/ Written(t, v, e, Covers(c)))
<1>. DEFINE N == BlockCount * BlockSize
            S == HighMirrors(c.mirror)
            from == [table |-> t, entry |-> INVALID, block |-> 0]
            op(acc, m) == IF acc.table.fatal THEN acc ELSE PopulateMirror(acc, c, e, m)
            step == [i \in 0 .. N - 1 |-> [d \in Accs |-> op(d, i)]]
            J == [i \in 0 .. N |-> {d \in Accs : Mirrored(t, d, c, e, i)}]
            Body(f) == [i \in 0 .. N |-> IF i = 0 THEN from
                          ELSE IF i - 1 \in S THEN op(f[i - 1], i - 1) ELSE f[i - 1]]
<1>0. /\ N \in Nat /\ S \subseteq 0 .. N - 1 /\ t \in Tables /\ ~t.fatal /\ Addresses = 0 .. N - 1
      /\ 0 \in S
  BY MirrorFacts, Numbers DEF Addresses, Sound
<1>. HIDE DEF N
<1>1. from \in J[0]
  <2>1. Done(c, 0) = {}
    BY <1>0 DEF Done
  <2>2. Written(t, t, e, Done(c, 0))
    BY <2>1, WrittenNot
  <2>3. INVALID \in Nodes /\ 0 \in Blocks
    BY Numbers DEF INVALID, Nodes, Blocks
  <2>4. Mirrored(t, from, c, e, 0)
    BY <1>0, <2>2, <2>3 DEF Mirrored, Accs
  <2>. QED  BY <1>0, <2>4 DEF Mirrored
<1>2. ASSUME NEW i \in 0 .. N - 1, NEW d \in J[i]
      PROVE  (i \in S => op(d, i) \in J[i + 1]) /\ (i \notin S => d \in J[i + 1])
  <2>1. /\ d \in Accs /\ Mirrored(t, d, c, e, i) /\ i + 1 \in 0 .. N /\ i \in Nat
        /\ i + 1 \in Nat /\ i + 1 # 0
    <3>. HIDE DEF op
    <3>. QED  BY <1>0, <1>2
  <2>. DEFINE k == i + 1
  <2>2. CASE d.table.fatal
    <3>1. op(d, i) = d
      BY <2>2
    <3>2. Mirrored(t, d, c, e, i + 1)
      BY <2>1, <2>2 DEF Mirrored
    <3>. HIDE DEF op
    <3>. QED  BY <2>1, <3>1, <3>2
  <2>3. CASE ~d.table.fatal /\ i \notin S
    <3>1. i # 0
      BY <1>0, <2>3
    <3>2. \A p \in S : (p < k <=> p < i) /\ (k <= p <=> i <= p)
      <4>1. S \subseteq Nat
        BY <1>0
      <4>. QED  BY <2>1, <2>3, <4>1
    <3>3. Done(c, k) = Done(c, i) /\ Ahead(c, k) = Ahead(c, i)
      <4>. HIDE DEF k
      <4>. QED  BY <3>2 DEF Done, Ahead
    <3>4. Mirrored(t, d, c, e, k)
      BY <2>1, <2>3, <3>1, <3>3 DEF Mirrored, Alike
    <3>. HIDE DEF op
    <3>. QED  BY <2>1, <2>3, <3>4
  <2>4. CASE ~d.table.fatal /\ i \in S
    <3>1. op(d, i) = PopulateMirror(d, c, e, i)
      BY <2>4
    <3>2. k \in Nat /\ k = i + 1
      BY <2>1
    <3>. HIDE DEF op, k
    <3>3. Mirrored(t, PopulateMirror(d, c, e, i), c, e, k)
      BY <2>1, <2>4, <3>2, PopulateMirrorEffect
    <3>4. op(d, i) \in J[i + 1]
      BY <2>1, <3>1, <3>2, <3>3 DEF Mirrored
    <3>. QED  BY <2>4, <3>4
  <2>. QED  BY <2>2, <2>3, <2>4
<1>3. PICK f : Runs(f, N, S, from, step) /\ \A i \in 0 .. N : f[i] \in J[i]
  <2>1. ASSUME NEW i \in 0 .. N - 1, NEW d \in J[i] PROVE step[i][d] = op(d, i)
    <3>. HIDE DEF op
    <3>. QED  BY <1>0, <2>1
  <2>2. Stays(N, S, J, step)
    <3>. HIDE DEF J, step, op
    <3>. QED  BY <1>2, <2>1 DEF Stays
  <2>. HIDE DEF J, step, from
  <2>. QED  BY <1>0, <1>1, <2>2, Loop
<1>4. f = Body(f)
  <2>1. ASSUME NEW i \in 0 .. N, i # 0 PROVE step[i - 1][f[i - 1]] = op(f[i - 1], i - 1)
    <3>. HIDE DEF op
    <3>1. i - 1 \in 0 .. N - 1 /\ i - 1 \in 0 .. N
      BY <1>0, <2>1
    <3>2. f[i - 1] \in J[i - 1]
      BY <1>3, <3>1
    <3>3. f[i - 1] \in Accs
      BY <3>1, <3>2
    <3>. QED  BY <3>1, <3>3
  <2>. HIDE DEF step, J, op, from
  <2>. QED  BY <1>3, <2>1 DEF Runs
<1>5. PopulateMirrored(t, c, e) = (CHOOSE g : g = Body(g))[N].table
  BY DEF PopulateMirrored, Ascend, N
<1>. HIDE DEF Body
<1>6. PICK g : g = Body(g) /\ PopulateMirrored(t, c, e) = g[N].table
  BY <1>4, <1>5
<1>7. g[N] \in J[N]
  <2>. DEFINE Q == {i \in 0 .. N : g[i] \in J[i]}
  <2>1. 0 \in Q
    <3>1. g[0] = from
      <4>. HIDE DEF op, J, from
      <4>. QED  BY <1>0, <1>6 DEF Body
    <3>. HIDE DEF J, from
    <3>. QED  BY <1>0, <1>1, <3>1
  <2>2. ASSUME NEW i \in 0 .. N - 1, i \in Q PROVE i + 1 \in Q
    <3>. HIDE DEF op, J, from
    <3>1. g[i + 1] = IF i \in S THEN op(g[i], i) ELSE g[i]
      BY <1>0, <1>6 DEF Body
    <3>. QED  BY <1>0, <1>2, <2>2, <3>1
  <2>. HIDE DEF Q
  <2>3. N \in Q
    BY <1>0, <2>1, <2>2, UpTo
  <2>. QED  BY <2>3 DEF Q
<1>8. Mirrored(t, g[N], c, e, N)
  <2>. HIDE DEF op
  <2>. QED  BY <1>0, <1>7
<1>9. \A a \in Addresses : a \in Done(c, N) <=> a \in Covers(c)
  <2>1. ASSUME NEW a \in Addresses, NEW m \in S, NEW l \in LowMirrors(c.mirror),
               c.start + m + l <= a, a <= c.stop + m + l
        PROVE  a \in Covers(c)
    <3>1. l + m \in c.mirror
      BY MirrorFacts
    <3>2. c.start \in Nat /\ c.stop \in Nat /\ l \in Nat /\ m \in Nat
      BY <1>0, MirrorFacts, AddressesNat, Numbers DEF Cells
    <3>3. c.start + m + l = c.start + (l + m) /\ c.stop + m + l = c.stop + (l + m)
      BY <3>2
    <3>. QED  BY <2>1, <3>1, <3>3 DEF Covers
  <2>2. ASSUME NEW a \in Addresses, a \in Covers(c) PROVE a \in Done(c, N)
    <3>1. PICK n \in c.mirror : c.start + n <= a /\ a <= c.stop + n
      BY <2>2 DEF Covers
    <3>2. PICK l \in LowMirrors(c.mirror), m \in S : n = l + m
      BY MirrorFacts
    <3>3. c.start \in Nat /\ c.stop \in Nat /\ l \in Nat /\ m \in Nat /\ m < N
      BY <1>0, MirrorFacts, AddressesNat, Numbers DEF Cells
    <3>4. c.start + m + l = c.start + (l + m) /\ c.stop + m + l = c.stop + (l + m)
      BY <3>3
    <3>5. a \in Copies(c, m)
      BY <3>1, <3>2, <3>4 DEF Copies
    <3>. QED  BY <3>3, <3>5 DEF Done
  <2>. QED  BY <2>1, <2>2 DEF Done, Copies
<1>10. CASE g[N].table.fatal
  BY <1>6, <1>8, <1>10 DEF Mirrored, Accs
<1>11. CASE ~g[N].table.fatal
  <2>. DEFINE v == g[N].table
  <2>1. Written(t, v, e, Done(c, N)) /\ v \in Tables
    BY <1>8, <1>11 DEF Mirrored, Accs
  <2>. HIDE DEF v
  <2>2. Written(t, v, e, Covers(c))
    BY <1>9, <2>1 DEF Written
  <2>. QED  BY <1>6, <2>1, <2>2 DEF v
<1>. QED  BY <1>10, <1>11

----------------------------------------------------------------------------
(* What is read. *)

\* A set of numbers with a bound has a greatest element.
LEMMA LargestNumber ==
  ASSUME NEW n \in Nat, NEW S \in SUBSET (0 .. n), S # {}
  PROVE  Max(S) \in S /\ \A y \in S : y <= Max(S)
<1>. DEFINE R == {n - y : y \in S}
<1>1. R \in SUBSET Nat /\ R # {}
  <2>1. \A y \in S : n - y \in Nat
    <3>. TAKE y \in S
    <3>1. y \in 0 .. n
      OBVIOUS
    <3>. QED  BY <3>1
  <2>. QED  BY <2>1
<1>. HIDE DEF R
<1>2. Min(R) \in R /\ \A z \in R : Min(R) <= z
  BY <1>1, LeastNumber
<1>3. PICK x \in S : Min(R) = n - x
  BY <1>2 DEF R
<1>4. ASSUME NEW y \in S PROVE y <= x
  <2>1. n - y \in R
    BY DEF R
  <2>2. n - x <= n - y /\ x \in 0 .. n /\ y \in 0 .. n
    BY <1>2, <1>3, <2>1
  <2>. QED  BY <2>2
<1>5. \A y \in S : x >= y
  <2>. TAKE y \in S
  <2>1. y <= x /\ x \in 0 .. n /\ y \in 0 .. n
    BY <1>4
  <2>. QED  BY <2>1
<1>6. Max(S) \in S /\ \A y \in S : Max(S) >= y
  BY <1>5 DEF Max
<1>7. ASSUME NEW y \in S PROVE y <= Max(S)
  <2>1. Max(S) >= y /\ Max(S) \in 0 .. n /\ y \in 0 .. n
    BY <1>6
  <2>. QED  BY <2>1
<1>. QED  BY <1>6, <1>7

\* Tables without a loop under way.
Settled(t) == Sound(t, INVALID, 0)

\* The handler of address a as its reader sees it.
Reading(t, a) ==
  IF Lookup(t, a) \in Handlers
  THEN [static |-> INVALID, units |-> t.conf[Lookup(t, a)].units, lane |-> t.conf[Lookup(t, a)].lane]
  ELSE [static |-> Lookup(t, a), units |-> FALSE, lane |-> [n \in Lanes |-> Unmapped]]

\* What is read is an entry.
LEMMA LookupType ==
  ASSUME NEW t \in Tables, NEW a \in Addresses
  PROVE  Lookup(t, a) \in Entries
<1>1. BlockOf(a) \in Blocks /\ CellOf(a) \in Cells
  BY AddressesNat, PlaceOf
<1>2. t.l1[BlockOf(a)] \in Nodes /\ t.sub \in [Subtables -> [Cells -> Entries]]
  BY <1>1 DEF Tables
<1>. QED  BY <1>1, <1>2, Numbers, LookupAt DEF At

\* A handler that is read is held.
LEMMA ReadHeld ==
  ASSUME NEW t \in Tables, Counted(t), NEW a \in Addresses
  PROVE  Held(t, Lookup(t, a)) >= 1
<1>. DEFINE b == BlockOf(a) c == CellOf(a) h == Lookup(t, a)
<1>1. b \in Blocks /\ c \in Cells
  BY AddressesNat, PlaceOf
<1>. HIDE DEF b, c
<1>2. h = At(t, b, c)
  BY LookupAt DEF b, c
<1>. HIDE DEF h
<1>3. /\ IsFiniteSet(On(t, h)) /\ IsFiniteSet(CellsOn(t, h))
      /\ Cardinality(On(t, h)) \in Nat /\ Cardinality(CellsOn(t, h)) \in Nat
  BY HeldType
<1>4. CASE t.l1[b] \in Subtables
  <2>1. t.use[t.l1[b]] \in Nat /\ t.use[t.l1[b]] >= 1
    BY <1>1, <1>4, OneOn DEF Counted, Tables
  <2>2. <<t.l1[b], c>> \in CellsOn(t, h)
    <3>1. h = t.sub[t.l1[b]][c]
      BY <1>2, <1>4 DEF At
    <3>2. t.use[t.l1[b]] # 0
      BY <2>1
    <3>. QED  BY <1>1, <1>4, <3>1, <3>2 DEF CellsOn
  <2>3. Cardinality(CellsOn(t, h)) # 0
    BY <1>3, <2>2, FS_EmptySet
  <2>. QED  BY <1>3, <2>3 DEF Held, h
<1>5. CASE t.l1[b] \notin Subtables
  <2>1. h = t.l1[b]
    BY <1>2, <1>5 DEF At
  <2>2. b \in On(t, h)
    BY <1>1, <2>1 DEF On
  <2>3. Cardinality(On(t, h)) # 0
    BY <1>3, <2>2, FS_EmptySet
  <2>. QED  BY <1>3, <2>3 DEF Held, h
<1>. QED  BY <1>4, <1>5

\* Who is read has a reference.
LEMMA ReadCounted ==
  ASSUME NEW t, NEW e, Sound(t, e, 0), NEW a \in Addresses, Lookup(t, a) \in Handlers
  PROVE  t.ref[Lookup(t, a)] > 0
<1>1. Held(t, Lookup(t, a)) >= 1 /\ Held(t, Lookup(t, a)) \in Nat
  BY ReadHeld, HeldType DEF Sound
<1>2. t.ref[Lookup(t, a)] = Held(t, Lookup(t, a)) + (IF Lookup(t, a) = e THEN 0 ELSE 0)
  BY DEF Sound, Owes
<1>. QED  BY <1>1, <1>2

\* Handlers of other addresses keep what they are set up for.
LEMMA ElsewhereSame ==
  ASSUME NEW t, NEW v, NEW e, NEW S, Written(t, v, e, S), NEW a \in Addresses, a \notin S
  PROVE  Lookup(v, a) = Lookup(t, a) /\ Reading(v, a) = Reading(t, a)
<1>1. Lookup(v, a) = Lookup(t, a) /\ Sound(v, e, 0) /\ Kept(t, v, e)
  BY DEF Written
<1>2. Lookup(v, a) \in Handlers => v.conf[Lookup(v, a)] = t.conf[Lookup(v, a)]
  BY <1>1, ReadCounted DEF Kept
<1>. QED  BY <1>1, <1>2 DEF Reading

\* Only handlers are counted: it does not matter which other entry is being mapped.
LEMMA SoundStatic ==
  ASSUME NEW t, NEW e, NEW d, e \notin Handlers, d \notin Handlers, Sound(t, e, 0)
  PROVE  Sound(t, d, 0)
<1>1. FreeOK(t, d)
  BY DEF Sound, FreeOK
<1>2. Owes(t, d, 0)
  <2>. SUFFICES ASSUME NEW h \in Handlers PROVE t.ref[h] = Held(t, h) + (IF h = d THEN 0 ELSE 0)
    BY DEF Owes
  <2>1. t.ref[h] = Held(t, h) + (IF h = e THEN 0 ELSE 0)
    BY DEF Sound, Owes
  <2>. QED  BY <2>1
<1>. QED  BY <1>1, <1>2 DEF Sound

\* The static entries are no handlers.
LEMMA InvalidStatic == INVALID \notin Handlers /\ NOP \notin Handlers /\ UNMAP \notin Handlers
                       /\ Banks \cap Handlers = {} /\ {INVALID, NOP, UNMAP} \cup Banks \subseteq Entries
<1>1. BankMax \in Nat /\ SUBTABLE_BASE \in Nat /\ STATIC_COUNT \in Nat /\ STATIC_COUNT < SUBTABLE_BASE
  BY Numbers
<1>2. STATIC_COUNT = BankMax + 3
  BY DEF STATIC_COUNT
<1>. QED  BY <1>1, <1>2 DEF INVALID, NOP, UNMAP, Banks, Handlers, Entries

\* A handler that is read is no longer only being installed.
LEMMA SettleEffect ==
  ASSUME NEW t, NEW h \in Handlers, Sound(t, h, 0), NEW a \in Addresses, Lookup(t, a) = h
  PROVE  Settled(t)
<1>1. t.ref[h] > 0 /\ t.ref[h] \in Nat
  BY ReadCounted DEF Sound, Tables
<1>2. FreeOK(t, INVALID)
  <2>1. FreeOK(t, h) /\ t.ref[h] # 0
    BY <1>1 DEF Sound
  <2>. QED  BY <2>1, InvalidStatic DEF FreeOK
<1>3. Owes(t, INVALID, 0)
  <2>. SUFFICES ASSUME NEW k \in Handlers PROVE t.ref[k] = Held(t, k) + (IF k = INVALID THEN 0 ELSE 0)
    BY DEF Owes
  <2>1. t.ref[k] = Held(t, k) + (IF k = h THEN 0 ELSE 0)
    BY DEF Sound, Owes
  <2>. QED  BY <2>1
<1>. QED  BY <1>2, <1>3 DEF Settled, Sound

\* The first handler of the free list is taken for what conf says.
LEMMA TakenEffect ==
  ASSUME NEW t, Settled(t), t.free # <<>>, NEW conf \in Confs
  PROVE  LET h == Head(t.free)
             u == Taken(t, conf)
         IN  /\ h \in Handlers /\ t.ref[h] = 0
             /\ Sound(u, h, 0)
             /\ u.l1 = t.l1 /\ u.sub = t.sub /\ u.ref = t.ref
             /\ u.conf[h] = conf /\ \A k \in Handlers : k # h => u.conf[k] = t.conf[k]
<1>. DEFINE h == Head(t.free)
            u == Taken(t, conf)
<1>1. t \in Tables /\ ~t.fatal /\ FreeOK(t, INVALID) /\ Counted(t) /\ Owes(t, INVALID, 0)
  BY DEF Settled, Sound
<1>2. t.free \in Seq(Handlers) /\ Len(t.free) \in Nat /\ Len(t.free) > 0
  BY <1>1 DEF Tables
<1>3. h \in Handlers /\ h = t.free[1] /\ 1 \in 1 .. Len(t.free)
  BY <1>2
<1>4. t.ref[h] = 0
  BY <1>1, <1>3 DEF FreeOK
<1>5. /\ Tail(t.free) \in Seq(Handlers) /\ Len(Tail(t.free)) = Len(t.free) - 1
      /\ \A i \in 1 .. Len(t.free) - 1 : Tail(t.free)[i] = t.free[i + 1]
  BY <1>2
<1>. HIDE DEF h
<1>6. u = [t EXCEPT !.free = Tail(t.free), !.conf[h] = conf]
  BY DEF Taken, h
<1>. HIDE DEF u
<1>7. /\ u \in Tables /\ ~u.fatal
      /\ u.l1 = t.l1 /\ u.sub = t.sub /\ u.ref = t.ref /\ u.use = t.use /\ u.free = Tail(t.free)
      /\ u.conf[h] = conf /\ \A k \in Handlers : k # h => u.conf[k] = t.conf[k]
  BY <1>1, <1>3, <1>5, <1>6 DEF Tables
<1>8. FreeOK(u, h)
  <2>. DEFINE n == Len(t.free)
  <2>1. \A i \in 1 .. n - 1 : i + 1 \in 1 .. n /\ i + 1 # 1
    BY <1>2
  <2>2. \A j \in 1 .. n : j # 1 => j - 1 \in 1 .. n - 1 /\ (j - 1) + 1 = j
    BY <1>2
  <2>3. /\ \A i, j \in 1 .. n : t.free[i] = t.free[j] => i = j
        /\ \A k \in Handlers : (\E i \in 1 .. n : t.free[i] = k) <=> t.ref[k] = 0
        /\ \A k \in Handlers : t.ref[k] = 0 => ~t.conf[k].units
    BY <1>1, InvalidStatic DEF FreeOK
  <2>4. Len(u.free) = n - 1 /\ \A i \in 1 .. n - 1 : u.free[i] = t.free[i + 1]
    BY <1>5, <1>7
  <2>. HIDE DEF n
  <2>5. ASSUME NEW i \in 1 .. n - 1, NEW j \in 1 .. n - 1, u.free[i] = u.free[j] PROVE i = j
    <3>1. i + 1 = j + 1
      BY <2>1, <2>3, <2>4, <2>5
    <3>. QED  BY <3>1
  <2>6. ASSUME NEW k \in Handlers
        PROVE  (\E i \in 1 .. n - 1 : u.free[i] = k) <=> (k # h /\ u.ref[k] = 0)
    <3>1. ASSUME NEW i \in 1 .. n - 1, u.free[i] = k PROVE k # h /\ u.ref[k] = 0
      <4>1. i + 1 \in 1 .. n /\ i + 1 # 1 /\ t.free[i + 1] = k
        BY <2>1, <2>4, <3>1
      <4>2. 1 \in 1 .. n /\ t.free[1] = h
        BY <1>3 DEF n
      <4>. QED  BY <1>7, <2>3, <4>1, <4>2
    <3>2. ASSUME k # h, u.ref[k] = 0 PROVE \E i \in 1 .. n - 1 : u.free[i] = k
      <4>1. PICK j \in 1 .. n : t.free[j] = k
        BY <1>7, <2>3, <3>2
      <4>2. j # 1
        BY <1>3, <3>2, <4>1
      <4>. QED  BY <2>2, <2>4, <4>1, <4>2
    <3>. QED  BY <3>1, <3>2
  <2>7. \A k \in Handlers \ {h} : u.ref[k] = 0 => ~u.conf[k].units
    BY <1>7, <2>3
  <2>. QED  BY <2>4, <2>5, <2>6, <2>7 DEF FreeOK
<1>9. \A k : On(u, k) = On(t, k) /\ CellsOn(u, k) = CellsOn(t, k)
  BY <1>7 DEF On, CellsOn
<1>10. Counted(u) /\ Owes(u, h, 0)
  <2>1. Counted(u)
    BY <1>1, <1>7, <1>9 DEF Counted
  <2>2. ASSUME NEW k \in Handlers PROVE u.ref[k] = Held(u, k) + (IF k = h THEN 0 ELSE 0)
    <3>1. Held(u, k) = Held(t, k) /\ Held(t, k) \in Nat
      BY <1>9, HeldType DEF Held
    <3>2. t.ref[k] = Held(t, k) + (IF k = INVALID THEN 0 ELSE 0)
      BY <1>1 DEF Owes
    <3>. QED  BY <1>7, <3>1, <3>2
  <2>. QED  BY <2>1, <2>2 DEF Owes
<1>. QED  BY <1>3, <1>4, <1>7, <1>8, <1>10 DEF Sound, h, u

\* The addresses that a new handler h was given read as conf says, the others as before.
NewlyRead(t, v, h, S, conf) ==
  /\ Settled(v) /\ h \in Handlers
  /\ \A a \in Addresses :
       IF a \in S
       THEN Lookup(v, a) = h /\ Reading(v, a) = [static |-> INVALID, units |-> conf.units, lane |-> conf.lane]
       ELSE Lookup(v, a) = Lookup(t, a) /\ Reading(v, a) = Reading(t, a)

\* A handler from the free list has been written.
LEMMA NewHandlerEffect ==
  ASSUME NEW t, Settled(t), t.free # <<>>, NEW conf \in Confs, NEW h, h = Head(t.free), NEW S, NEW v,
         Written(Taken(t, conf), v, h, S), NEW x \in Addresses, x \in S
  PROVE  NewlyRead(t, v, h, S, conf)
<1>. DEFINE u == Taken(t, conf)
<1>1. /\ h \in Handlers /\ t.ref[h] = 0 /\ Sound(u, h, 0)
      /\ u.l1 = t.l1 /\ u.sub = t.sub /\ u.ref = t.ref
      /\ u.conf[h] = conf /\ \A k \in Handlers : k # h => u.conf[k] = t.conf[k]
  BY TakenEffect
<1>2. Written(u, v, h, S)
  OBVIOUS
<1>. HIDE DEF u
<1>3. Settled(v)
  BY <1>1, <1>2, SettleEffect DEF Written
<1>4. ASSUME NEW a \in Addresses, a \in S
      PROVE  Lookup(v, a) = h /\ Reading(v, a) = [static |-> INVALID, units |-> conf.units, lane |-> conf.lane]
  <2>1. Lookup(v, a) = h /\ Kept(u, v, h)
    BY <1>2, <1>4 DEF Written
  <2>2. v.conf[h] = conf
    BY <1>1, <2>1 DEF Kept
  <2>. QED  BY <1>1, <2>1, <2>2 DEF Reading
<1>5. ASSUME NEW a \in Addresses, a \notin S
      PROVE  Lookup(v, a) = Lookup(t, a) /\ Reading(v, a) = Reading(t, a)
  <2>1. Lookup(v, a) = Lookup(u, a) /\ Reading(v, a) = Reading(u, a)
    BY <1>2, <1>5, ElsewhereSame
  <2>2. Lookup(u, a) = Lookup(t, a)
    BY <1>1 DEF Lookup
  <2>3. Lookup(t, a) \in Handlers => u.conf[Lookup(t, a)] = t.conf[Lookup(t, a)]
    <3>1. Lookup(t, a) \in Handlers => t.ref[Lookup(t, a)] > 0
      BY ReadCounted DEF Settled
    <3>. QED  BY <1>1, <3>1
  <2>. QED  BY <2>1, <2>2, <2>3 DEF Reading
<1>. QED  BY <1>1, <1>3, <1>4, <1>5 DEF NewlyRead

----------------------------------------------------------------------------
(* Stretches. *)

\* A stretch of one entry.
IsStretch(t, start, stop, p) ==
  /\ p.start \in Addresses /\ p.stop \in Addresses /\ p.start <= p.stop
  /\ start <= p.start /\ p.stop <= stop
  /\ \A x \in Addresses : p.start <= x /\ x <= p.stop => Lookup(t, x) = p.entry

\* How far the entry at a goes.
Last(t, a, stop) == Max({b \in a .. stop : \A x \in a .. b : Lookup(t, x) = Lookup(t, a)})

\* How far an entry goes from an address.
LEMMA LastEffect ==
  ASSUME NEW t, NEW a \in Addresses, NEW stop \in Addresses, a <= stop
  PROVE  /\ Last(t, a, stop) \in Addresses /\ a <= Last(t, a, stop) /\ Last(t, a, stop) <= stop
         /\ \A x \in Addresses : a <= x /\ x <= Last(t, a, stop) => Lookup(t, x) = Lookup(t, a)
         /\ \A z \in Addresses :
              a <= z /\ z <= stop /\ (\A x \in Addresses : a <= x /\ x <= z => Lookup(t, x) = Lookup(t, a))
                => z <= Last(t, a, stop)
<1>. DEFINE S == {b \in a .. stop : \A x \in a .. b : Lookup(t, x) = Lookup(t, a)}
            m == Max(S)
<1>1. a \in Nat /\ stop \in Nat
  BY AddressesNat
<1>2. \A z \in Nat : z <= stop => z \in Addresses
  BY <1>1, Numbers DEF Addresses
<1>3. a \in S
  <2>1. a \in a .. stop
    BY <1>1
  <2>2. \A x \in a .. a : x = a
    BY <1>1
  <2>. QED  BY <2>1, <2>2
<1>4. S \in SUBSET (0 .. stop) /\ S # {}
  <2>1. a .. stop \subseteq 0 .. stop
    BY <1>1
  <2>. QED  BY <1>3, <2>1
<1>5. m \in S /\ \A y \in S : y <= m
  <2>. HIDE DEF S
  <2>. QED  BY <1>1, <1>4, LargestNumber
<1>6. Last(t, a, stop) = m
  BY DEF Last
<1>. HIDE DEF m
<1>7. m \in a .. stop /\ m \in Nat /\ a <= m /\ m <= stop /\ \A x \in a .. m : Lookup(t, x) = Lookup(t, a)
  <2>1. m \in a .. stop /\ \A x \in a .. m : Lookup(t, x) = Lookup(t, a)
    BY <1>5
  <2>. QED  BY <1>1, <2>1
<1>8. ASSUME NEW x \in Addresses, a <= x, x <= m PROVE Lookup(t, x) = Lookup(t, a)
  <2>1. x \in a .. m
    BY <1>1, <1>7, <1>8, AddressesNat
  <2>. QED  BY <1>7, <2>1
<1>9. ASSUME NEW z \in Addresses, a <= z, z <= stop,
             \A x \in Addresses : a <= x /\ x <= z => Lookup(t, x) = Lookup(t, a)
      PROVE  z <= m
  <2>1. z \in Nat
    BY AddressesNat
  <2>2. \A x \in a .. z : x \in Addresses /\ a <= x /\ x <= z
    BY <1>1, <1>2, <1>9, <2>1
  <2>3. z \in S
    BY <1>1, <1>9, <2>1, <2>2
  <2>. QED  BY <1>5, <2>3
<1>. QED  BY <1>2, <1>6, <1>7, <1>8, <1>9

\* The stretches of a range: one after the other, and all of it.
LEMMA StretchesEffect ==
  ASSUME NEW t, NEW start \in Addresses, NEW stop \in Addresses, start <= stop
  PROVE  /\ \A p \in Stretches(t, start, stop) : IsStretch(t, start, stop, p)
         /\ \A p \in Stretches(t, start, stop), q \in Stretches(t, start, stop) : p.start = q.start => p = q
         /\ \A a \in Addresses : start <= a /\ a <= stop =>
              \E p \in Stretches(t, start, stop) : p.start <= a /\ a <= p.stop /\ p.entry = Lookup(t, a)
<1>. DEFINE P == Stretches(t, start, stop)
            starts == {a \in start .. stop : a = start \/ Lookup(t, a) # Lookup(t, a - 1)}
<1>1. P = {[start |-> a, stop |-> Last(t, a, stop), entry |-> Lookup(t, a)] : a \in starts}
  BY DEF Stretches, Last
<1>2. start \in Nat /\ stop \in Nat /\ \A z \in Nat : z <= stop => z \in Addresses
  BY AddressesNat, Numbers DEF Addresses
<1>. HIDE DEF P
<1>3. ASSUME NEW p \in P
      PROVE  IsStretch(t, start, stop, p) /\ p = [start |-> p.start, stop |-> Last(t, p.start, stop), entry |-> Lookup(t, p.start)]
  <2>1. PICK a \in starts : p = [start |-> a, stop |-> Last(t, a, stop), entry |-> Lookup(t, a)]
    BY <1>1
  <2>2. a \in Nat /\ start <= a /\ a <= stop /\ a \in Addresses
    <3>1. a \in start .. stop
      OBVIOUS
    <3>. QED  BY <1>2, <3>1
  <2>3. /\ Last(t, a, stop) \in Addresses /\ a <= Last(t, a, stop) /\ Last(t, a, stop) <= stop
        /\ \A x \in Addresses : a <= x /\ x <= Last(t, a, stop) => Lookup(t, x) = Lookup(t, a)
    BY <2>2, LastEffect
  <2>. QED  BY <2>1, <2>2, <2>3 DEF IsStretch
<1>4. ASSUME NEW a \in Addresses, start <= a, a <= stop
      PROVE  \E p \in P : p.start <= a /\ a <= p.stop /\ p.entry = Lookup(t, a)
  <2>. DEFINE R == {s \in start .. a : \A x \in s .. a : Lookup(t, x) = Lookup(t, a)}
              s == Min(R)
  <2>1. a \in Nat
    BY AddressesNat
  <2>2. a \in R
    <3>1. a \in start .. a /\ \A x \in a .. a : x = a
      BY <1>2, <1>4, <2>1
    <3>. QED  BY <3>1
  <2>3. R \in SUBSET Nat
    BY <1>2, <2>1
  <2>4. s \in R /\ \A y \in R : s <= y
    <3>. HIDE DEF R
    <3>. QED  BY <2>2, <2>3, LeastNumber
  <2>. HIDE DEF s
  <2>5. s \in Nat /\ start <= s /\ s <= a /\ \A x \in s .. a : Lookup(t, x) = Lookup(t, a)
    <3>1. s \in start .. a /\ \A x \in s .. a : Lookup(t, x) = Lookup(t, a)
      BY <2>4
    <3>. QED  BY <1>2, <2>1, <3>1
  <2>6. Lookup(t, s) = Lookup(t, a)
    <3>1. s \in s .. a
      BY <2>1, <2>5
    <3>. QED  BY <2>5, <3>1
  <2>7. s \in starts
    <3>1. s \in start .. stop
      BY <1>2, <1>4, <2>1, <2>5
    <3>2. SUFFICES ASSUME s # start, Lookup(t, s) = Lookup(t, s - 1) PROVE FALSE
      BY <3>1
    <3>3. s - 1 \in start .. a /\ ~(s <= s - 1)
      BY <1>2, <2>1, <2>5, <3>2
    <3>4. \A x \in s - 1 .. a : x = s - 1 \/ x \in s .. a
      BY <2>1, <2>5
    <3>5. \A x \in s - 1 .. a : Lookup(t, x) = Lookup(t, a)
      BY <2>5, <2>6, <3>2, <3>4
    <3>6. s - 1 \in R
      BY <3>3, <3>5
    <3>. QED  BY <2>4, <3>3, <3>6
  <2>8. s \in Addresses /\ s <= stop
    BY <1>2, <1>4, <2>1, <2>5
  <2>9. \A x \in Addresses : s <= x /\ x <= a => Lookup(t, x) = Lookup(t, s)
    <3>. SUFFICES ASSUME NEW x \in Addresses, s <= x, x <= a PROVE Lookup(t, x) = Lookup(t, s)
      OBVIOUS
    <3>1. x \in s .. a
      BY <2>1, <2>5, AddressesNat
    <3>. QED  BY <2>5, <2>6, <3>1
  <2>10. a <= Last(t, s, stop)
    BY <1>4, <2>5, <2>8, <2>9, LastEffect
  <2>. DEFINE p == [start |-> s, stop |-> Last(t, s, stop), entry |-> Lookup(t, s)]
  <2>11. p \in P
    BY <1>1, <2>7
  <2>12. p.start = s /\ p.stop = Last(t, s, stop) /\ p.entry = Lookup(t, s)
    OBVIOUS
  <2>. QED  BY <2>5, <2>6, <2>10, <2>11, <2>12
<1>5. \A p \in P, q \in P : p.start = q.start => p = q
  BY <1>3
<1>. QED  BY <1>3, <1>4, <1>5 DEF P

\* The stretches cover what the range and its mirrors do, each stretch starts where no
\* other does.
LEMMA AllStretchesEffect ==
  ASSUME NEW t, NEW c, IsRange(c)
  PROVE  /\ \A p \in AllStretches(t, c) :
              /\ p.start \in Addresses /\ p.stop \in Addresses /\ p.start <= p.stop
              /\ \A x \in Addresses : p.start <= x /\ x <= p.stop => x \in Covers(c) /\ Lookup(t, x) = p.entry
         /\ \A p \in AllStretches(t, c), q \in AllStretches(t, c) : p.start = q.start => p = q
         /\ \A a \in Covers(c) :
              \E p \in AllStretches(t, c) : p.start <= a /\ a <= p.stop /\ p.entry = Lookup(t, a)
<1>. DEFINE P(m) == Stretches(t, c.start + m, c.stop + m)
<1>1. ASSUME NEW m \in c.mirror
      PROVE  c.start + m \in Addresses /\ c.stop + m \in Addresses /\ c.start + m <= c.stop + m
  <2>1. /\ c.start + m \in Addresses /\ c.stop + m \in Addresses
        /\ c.start \in Addresses /\ c.stop \in Addresses /\ c.start <= c.stop /\ m \in Addresses
    BY DEF IsRange
  <2>2. c.start \in Nat /\ c.stop \in Nat /\ m \in Nat
    BY <2>1, AddressesNat
  <2>. QED  BY <2>1, <2>2
<1>2. \A p : p \in AllStretches(t, c) <=> \E m \in c.mirror : p \in P(m)
  BY DEF AllStretches
<1>3. ASSUME NEW m \in c.mirror
      PROVE  /\ \A p \in P(m) : IsStretch(t, c.start + m, c.stop + m, p)
             /\ \A p \in P(m), q \in P(m) : p.start = q.start => p = q
             /\ \A a \in Addresses : c.start + m <= a /\ a <= c.stop + m =>
                  \E p \in P(m) : p.start <= a /\ a <= p.stop /\ p.entry = Lookup(t, a)
  <2>. DEFINE start == c.start + m stop == c.stop + m
  <2>1. start \in Addresses /\ stop \in Addresses /\ start <= stop
    BY <1>1
  <2>. HIDE DEF start, stop
  <2>2. /\ \A p \in Stretches(t, start, stop) : IsStretch(t, start, stop, p)
        /\ \A p \in Stretches(t, start, stop), q \in Stretches(t, start, stop) : p.start = q.start => p = q
        /\ \A a \in Addresses : start <= a /\ a <= stop =>
             \E p \in Stretches(t, start, stop) : p.start <= a /\ a <= p.stop /\ p.entry = Lookup(t, a)
    BY <2>1, StretchesEffect
  <2>. QED  BY <2>2 DEF start, stop
<1>. HIDE DEF P
<1>4. ASSUME NEW p \in AllStretches(t, c)
      PROVE  /\ p.start \in Addresses /\ p.stop \in Addresses /\ p.start <= p.stop
             /\ \A x \in Addresses : p.start <= x /\ x <= p.stop => x \in Covers(c) /\ Lookup(t, x) = p.entry
  <2>1. PICK m \in c.mirror : p \in P(m)
    BY <1>2
  <2>2. IsStretch(t, c.start + m, c.stop + m, p)
    BY <1>3, <2>1
  <2>3. ASSUME NEW x \in Addresses, p.start <= x, x <= p.stop PROVE x \in Covers(c)
    <3>1. p.start \in Nat /\ p.stop \in Nat /\ x \in Nat /\ c.start + m \in Nat /\ c.stop + m \in Nat
      BY <1>1, <2>2, AddressesNat DEF IsStretch
    <3>2. c.start + m <= p.start /\ p.stop <= c.stop + m
      BY <2>2 DEF IsStretch
    <3>3. c.start + m <= x /\ x <= c.stop + m
      BY <2>3, <3>1, <3>2
    <3>. QED  BY <3>3 DEF Covers
  <2>. QED  BY <2>2, <2>3 DEF IsStretch
<1>5. ASSUME NEW p \in AllStretches(t, c), NEW q \in AllStretches(t, c), p.start = q.start PROVE p = q
  <2>1. PICK m \in c.mirror : p \in P(m)
    BY <1>2
  <2>2. PICK n \in c.mirror : q \in P(n)
    BY <1>2
  <2>3. IsStretch(t, c.start + m, c.stop + m, p) /\ IsStretch(t, c.start + n, c.stop + n, q)
    BY <1>3, <2>1, <2>2
  <2>4. /\ p.start \in Nat /\ p.stop \in Nat /\ q.stop \in Nat
        /\ c.start + m \in Nat /\ c.stop + m \in Nat /\ c.start + n \in Nat /\ c.stop + n \in Nat
    BY <1>1, <2>3, AddressesNat DEF IsStretch
  <2>5. /\ c.start + m <= p.start /\ p.start <= p.stop /\ p.stop <= c.stop + m
        /\ c.start + n <= p.start /\ p.start <= q.stop /\ q.stop <= c.stop + n
    BY <1>5, <2>3 DEF IsStretch
  <2>6. m = n \/ c.stop + m < c.start + n \/ c.stop + n < c.start + m
    BY DEF IsRange
  <2>7. m = n
    BY <2>4, <2>5, <2>6
  <2>. QED  BY <1>3, <1>5, <2>1, <2>2, <2>7
<1>6. ASSUME NEW a \in Covers(c)
      PROVE  \E p \in AllStretches(t, c) : p.start <= a /\ a <= p.stop /\ p.entry = Lookup(t, a)
  <2>1. PICK m \in c.mirror : c.start + m <= a /\ a <= c.stop + m /\ a \in Addresses
    BY DEF Covers
  <2>. QED  BY <1>2, <1>3, <2>1
<1>. QED  BY <1>4, <1>5, <1>6

\* The addresses of some stretches.
Area(s) == {a \in Addresses : \E p \in s : p.start <= a /\ a <= p.stop}

\* Stretches of the address space that do not overlap.
Stretched(s) ==
  /\ \A p \in s : p.start \in Addresses /\ p.stop \in Addresses /\ p.start <= p.stop
  /\ \A p \in s, q \in s : p.start = q.start => p = q

\* The loop of setup_range_masked over the stretches.
Covering(t, h, s) ==
  LET Cover(d, a) == PopulateRange(d, a, (CHOOSE p \in s : p.start = a).stop, h)
  IN  Ascend(Cover, t, BlockCount * BlockSize, {p.start : p \in s})

\* An entry is written over stretches.
LEMMA CoveringEffect ==
  ASSUME NEW h \in Entries, NEW t, Sound(t, h, 0), NEW s, Stretched(s)
  PROVE  LET v == Covering(t, h, s)
         IN  v \in Tables /\ (v.fatal \/ Written(t, v, h, Area(s)))
<1>. DEFINE N == BlockCount * BlockSize
            S == {p.start : p \in s}
            End(a) == (CHOOSE p \in s : p.start = a).stop
            Part(i) == {a \in Addresses : \E p \in s : p.start < i /\ p.start <= a /\ a <= p.stop}
            op(d, a) == PopulateRange(d, a, End(a), h)
            step == [i \in 0 .. N - 1 |-> [d \in Tables |-> op(d, i)]]
            J == [i \in 0 .. N |-> {d \in Tables : d.fatal \/ Written(t, d, h, Part(i))}]
            Body(f) == [i \in 0 .. N |-> IF i = 0 THEN t
                          ELSE IF i - 1 \in S THEN op(f[i - 1], i - 1) ELSE f[i - 1]]
<1>0. /\ N \in Nat /\ S \subseteq 0 .. N - 1 /\ t \in Tables /\ ~t.fatal /\ Addresses = 0 .. N - 1
  BY Numbers DEF Addresses, Sound, Stretched
<1>. HIDE DEF N
<1>a. ASSUME NEW p \in s PROVE End(p.start) = p.stop
  <2>1. (CHOOSE q \in s : q.start = p.start) = p
    BY DEF Stretched
  <2>. QED  BY <2>1
<1>. HIDE DEF End
<1>1. t \in J[0]
  <2>1. Part(0) = {}
    BY <1>0 DEF Stretched
  <2>. HIDE DEF Part
  <2>2. Written(t, t, h, Part(0))
    BY <2>1, WrittenNot
  <2>. QED  BY <1>0, <2>2
<1>2. ASSUME NEW i \in 0 .. N - 1, NEW d \in J[i]
      PROVE  (i \in S => op(d, i) \in J[i + 1]) /\ (i \notin S => d \in J[i + 1])
  <2>. DEFINE v == op(d, i)
  <2>1. /\ d \in Tables /\ i + 1 \in 0 .. N /\ i \in Nat
        /\ d.fatal \/ Written(t, d, h, Part(i))
    <3>. HIDE DEF op, Part
    <3>. QED  BY <1>0, <1>2
  <2>2. CASE d.fatal
    <3>1. v = d
      BY <2>2, PopulateRangeFatal
    <3>. HIDE DEF op, Part
    <3>. QED  BY <2>1, <2>2, <3>1
  <2>3. CASE ~d.fatal /\ i \notin S
    <3>1. \A p \in s : p.start < i + 1 <=> p.start < i
      <4>. TAKE p \in s
      <4>1. p.start \in Nat /\ p.start # i
        BY <2>3, AddressesNat DEF Stretched
      <4>. QED  BY <2>1, <4>1
    <3>2. Part(i + 1) = Part(i)
      BY <3>1
    <3>. HIDE DEF op, Part
    <3>. QED  BY <2>1, <2>3, <3>2
  <2>4. CASE ~d.fatal /\ i \in S
    <3>0. Written(t, d, h, Part(i)) /\ Sound(d, h, 0)
      BY <2>1, <2>4 DEF Written
    <3>1. PICK p \in s : p.start = i
      BY <2>4
    <3>2. i \in Addresses /\ p.stop \in Addresses /\ i <= p.stop /\ End(i) = p.stop
      BY <1>a, <3>1 DEF Stretched
    <3>. DEFINE stop == p.stop
    <3>3. v = PopulateRange(d, i, stop, h)
      BY <3>2
    <3>4. \A q \in s : q.start < i + 1 <=> q.start < i \/ q = p
      <4>. TAKE q \in s
      <4>1. q.start \in Nat /\ (q.start = i <=> q = p)
        BY <3>1, AddressesNat DEF Stretched
      <4>. QED  BY <2>1, <4>1
    <3>5. \A a \in Addresses : a \in Part(i + 1) <=> a \in Part(i) \/ a \in i .. stop
      <4>. TAKE a \in Addresses
      <4>1. a \in Nat /\ stop \in Nat
        BY <3>2, AddressesNat
      <4>2. a \in i .. stop <=> i <= a /\ a <= stop
        BY <2>1, <4>1
      <4>. QED  BY <3>1, <3>4, <4>2
    <3>. HIDE DEF v, op, stop
    <3>6. /\ v \in Tables
          /\ v.fatal \/ ( /\ Written(d, v, h, i .. stop)
                          /\ BlockOf(i) = BlockOf(stop) =>
                               Inside(d, v, BlockOf(i), CellOf(i) = 0 /\ CellOf(stop) = BlockSize - 1) )
      <4>1. stop \in Addresses /\ i <= stop
        BY <3>2 DEF stop
      <4>. QED  BY <3>0, <3>2, <3>3, <4>1, PopulateRangeEffect
    <3>7. ASSUME ~v.fatal PROVE Written(t, v, h, Part(i + 1))
      <4>. DEFINE P == Part(i) Q == Part(i + 1) R == i .. stop
      <4>3. Written(t, d, h, P) /\ Written(d, v, h, R) /\ \A a \in Addresses : a \in Q <=> a \in P \/ a \in R
        BY <3>0, <3>5, <3>6, <3>7
      <4>. HIDE DEF P, Q, R
      <4>4. Written(t, v, h, Q)
        BY ONLY Sound(t, h, 0), <4>3, WrittenTwice
      <4>. QED  BY <4>4 DEF Q
    <3>. HIDE DEF Part
    <3>8. v \in J[i + 1]
      BY <2>1, <3>6, <3>7
    <3>. QED  BY <2>4, <3>8 DEF v
  <2>. QED  BY <2>2, <2>3, <2>4
<1>. HIDE DEF Part
<1>3. PICK f : Runs(f, N, S, t, step) /\ \A i \in 0 .. N : f[i] \in J[i]
  <2>1. ASSUME NEW i \in 0 .. N - 1, NEW d \in J[i] PROVE step[i][d] = op(d, i)
    <3>. HIDE DEF op
    <3>. QED  BY <1>0, <2>1
  <2>2. Stays(N, S, J, step)
    <3>. HIDE DEF J, step, op
    <3>. QED  BY <1>2, <2>1 DEF Stays
  <2>. HIDE DEF J, step
  <2>. QED  BY <1>0, <1>1, <2>2, Loop
<1>4. f = Body(f)
  <2>1. ASSUME NEW i \in 0 .. N, i # 0 PROVE step[i - 1][f[i - 1]] = op(f[i - 1], i - 1)
    <3>. HIDE DEF op
    <3>1. i - 1 \in 0 .. N - 1 /\ i - 1 \in 0 .. N
      BY <1>0, <2>1
    <3>2. f[i - 1] \in J[i - 1]
      BY <1>3, <3>1
    <3>3. f[i - 1] \in Tables
      BY <3>1, <3>2
    <3>. QED  BY <3>1, <3>3
  <2>. HIDE DEF step, J, op
  <2>. QED  BY <1>3, <2>1 DEF Runs
<1>5. Covering(t, h, s) = (CHOOSE g : g = Body(g))[N]
  BY DEF Covering, Ascend, N, End
<1>. HIDE DEF Body
<1>6. PICK g : g = Body(g) /\ Covering(t, h, s) = g[N]
  BY <1>4, <1>5
<1>7. g[N] \in J[N]
  <2>. DEFINE Q == {i \in 0 .. N : g[i] \in J[i]}
  <2>1. 0 \in Q
    <3>1. g[0] = t
      <4>. HIDE DEF op, J
      <4>. QED  BY <1>0, <1>6 DEF Body
    <3>. HIDE DEF J
    <3>. QED  BY <1>0, <1>1, <3>1
  <2>2. ASSUME NEW i \in 0 .. N - 1, i \in Q PROVE i + 1 \in Q
    <3>. HIDE DEF op, J
    <3>1. g[i + 1] = IF i \in S THEN op(g[i], i) ELSE g[i]
      BY <1>0, <1>6 DEF Body
    <3>. QED  BY <1>0, <1>2, <2>2, <3>1
  <2>. HIDE DEF Q
  <2>3. \A i \in 0 .. N : i \in Q
    BY <1>0, <2>1, <2>2, UpTo
  <2>4. N \in Q
    BY <1>0, <2>3
  <2>. QED  BY <2>4 DEF Q
<1>. DEFINE v == Covering(t, h, s)
<1>8. v \in Tables /\ (v.fatal \/ Written(t, v, h, Part(N)))
  <2>. HIDE DEF op
  <2>. QED  BY <1>0, <1>6, <1>7
<1>. HIDE DEF v, J, step, op
<1>9. Part(N) = Area(s)
  <2>1. \A p \in s : p.start < N
    BY <1>0 DEF Stretched
  <2>. QED  BY <2>1 DEF Part, Area
<1>. QED  BY <1>8, <1>9 DEF v

\* What reads differently in v: the stretches s read as "cell", the rest as before.
Given(t, v, S, cell) ==
  /\ Settled(v)
  /\ \A a \in Addresses : IF a \in S THEN Reading(v, a) = cell
                          ELSE Lookup(v, a) = Lookup(t, a) /\ Reading(v, a) = Reading(t, a)

\* A handler of its own for the stretches.
LEMMA PopulateEffect ==
  ASSUME NEW t, Settled(t), NEW c, IsRange(c), NEW lane \in [Lanes -> Devices \cup {Unmapped}],
         NEW s, Stretched(s)
  PROVE  LET v == Populate(t, c, lane, s)
         IN  /\ v \in Tables
             /\ v.fatal \/ Given(t, v, Area(s), [static |-> INVALID, units |-> TRUE, lane |-> lane])
<1>. DEFINE v == Populate(t, c, lane, s)
            conf == [units |-> TRUE, lane |-> lane, mirror |-> c.mirror]
            h == Head(t.free)
            u == Taken(t, conf)
<1>1. t \in Tables /\ ~t.fatal
  BY DEF Settled, Sound
<1>2. v = IF s = {} THEN t ELSE IF t.free = <<>> THEN [t EXCEPT !.fatal = TRUE] ELSE Covering(u, h, s)
  <2>1. v = CASE t.fatal \/ s = {} -> t
              [] ~t.fatal /\ s # {} /\ t.free = <<>> -> [t EXCEPT !.fatal = TRUE]
              [] OTHER -> Covering(u, h, s)
    BY DEF Populate, Covering
  <2>. HIDE DEF v, u, h
  <2>. QED  BY <1>1, <2>1
<1>. HIDE DEF v
<1>3. CASE s = {}
  <2>1. v = t /\ Area(s) = {}
    BY <1>2, <1>3 DEF Area
  <2>. QED  BY <1>1, <2>1 DEF Given, v
<1>4. CASE s # {} /\ t.free = <<>>
  <2>1. v = [t EXCEPT !.fatal = TRUE]
    BY <1>2, <1>4
  <2>2. v \in Tables /\ v.fatal
    BY <1>1, <2>1 DEF Tables
  <2>. QED  BY <2>2 DEF v
<1>5. CASE s # {} /\ t.free # <<>>
  <2>1. conf \in Confs
    BY DEF IsRange, Confs
  <2>. HIDE DEF conf
  <2>2. h \in Handlers /\ Sound(u, h, 0)
    BY <1>5, <2>1, TakenEffect
  <2>. DEFINE g == h
  <2>3. v = Covering(u, g, s) /\ g \in Entries
    BY <1>2, <1>5, <2>2, Numbers
  <2>4. v \in Tables /\ (v.fatal \/ Written(u, v, g, Area(s)))
    <3>. HIDE DEF u, g, h
    <3>1. Sound(u, g, 0)
      BY <2>2 DEF g
    <3>. QED  BY <2>3, <3>1, CoveringEffect
  <2>5. PICK x \in Addresses : x \in Area(s)
    <3>1. PICK p \in s : TRUE
      BY <1>5
    <3>2. p.start \in Addresses /\ p.start <= p.stop
      BY DEF Stretched
    <3>3. p.start \in Nat
      BY <3>2, AddressesNat
    <3>4. p.start <= p.start
      BY <3>3
    <3>. QED  BY <3>2, <3>4 DEF Area
  <2>6. ASSUME ~v.fatal
        PROVE  Given(t, v, Area(s), [static |-> INVALID, units |-> TRUE, lane |-> lane])
    <3>. DEFINE S == Area(s)
    <3>1. Written(Taken(t, conf), v, g, S) /\ g = Head(t.free) /\ x \in S
      BY <2>4, <2>5, <2>6
    <3>. HIDE DEF S, g
    <3>2. NewlyRead(t, v, g, S, conf)
      <4>1. Settled(t) /\ t.free # <<>> /\ conf \in Confs /\ x \in Addresses
        BY <1>5, <2>1
      <4>. QED  BY ONLY <4>1, <3>1, NewHandlerEffect
    <3>3. conf.units = TRUE /\ conf.lane = lane
      BY DEF conf
    <3>. QED  BY <3>2, <3>3 DEF Given, NewlyRead, S
  <2>. QED  BY <2>4, <2>6 DEF v
<1>. QED  BY <1>3, <1>4, <1>5

\* What an address reads when c was installed for some lanes of what it read before.
Joined(cell, c) ==
  [static |-> INVALID, units |-> TRUE,
   lane |-> [n \in Lanes |-> IF n \in c.lanes THEN c.who ELSE IF cell.units THEN cell.lane[n] ELSE Unmapped]]

\* A range of some lanes.
IsMasked(c) == IsRange(c) /\ c.who \in Devices /\ c.lanes \subseteq Lanes

\* In d what is overridden and the entries below i have been joined.
Ongoing(t, d, c, i) ==
  /\ Settled(d)
  /\ \A a \in Addresses :
       IF a \in Covers(c) /\ (Overridden(t, Lookup(t, a), c.lanes) \/ Lookup(t, a) < i)
       THEN Reading(d, a) = Joined(Reading(t, a), c)
       ELSE Lookup(d, a) = Lookup(t, a) /\ Reading(d, a) = Reading(t, a)

\* setup_range_masked: the stretches of static entries and of handlers of the same lanes.
LEMMA OverrideEffect ==
  ASSUME NEW t, Settled(t), NEW c, IsMasked(c)
  PROVE  LET override == {p \in AllStretches(t, c) : Overridden(t, p.entry, c.lanes)}
             v == Populate(t, c, [n \in Lanes |-> IF n \in c.lanes THEN c.who ELSE Unmapped], override)
         IN  v \in Tables /\ (v.fatal \/ Ongoing(t, v, c, 0))
<1>. DEFINE override == {p \in AllStretches(t, c) : Overridden(t, p.entry, c.lanes)}
            alone == [n \in Lanes |-> IF n \in c.lanes THEN c.who ELSE Unmapped]
            v == Populate(t, c, alone, override)
            cell == [static |-> INVALID, units |-> TRUE, lane |-> alone]
<1>1. /\ \A p \in AllStretches(t, c) :
           /\ p.start \in Addresses /\ p.stop \in Addresses /\ p.start <= p.stop
           /\ \A x \in Addresses : p.start <= x /\ x <= p.stop => x \in Covers(c) /\ Lookup(t, x) = p.entry
      /\ \A p \in AllStretches(t, c), q \in AllStretches(t, c) : p.start = q.start => p = q
      /\ \A a \in Covers(c) :
           \E p \in AllStretches(t, c) : p.start <= a /\ a <= p.stop /\ p.entry = Lookup(t, a)
  BY AllStretchesEffect DEF IsMasked
<1>2. Stretched(override)
  BY <1>1 DEF Stretched
<1>3. \A a \in Addresses : a \in Area(override) <=> a \in Covers(c) /\ Overridden(t, Lookup(t, a), c.lanes)
  BY <1>1 DEF Area
<1>4. alone \in [Lanes -> Devices \cup {Unmapped}] /\ IsRange(c)
  BY DEF IsMasked
<1>5. v \in Tables /\ (v.fatal \/ Given(t, v, Area(override), cell))
  <2>. HIDE DEF alone, override
  <2>. QED  BY <1>2, <1>4, PopulateEffect
<1>6. ASSUME NEW a \in Addresses, Overridden(t, Lookup(t, a), c.lanes)
      PROVE  Joined(Reading(t, a), c) = cell
  <2>. DEFINE e == Lookup(t, a)
  <2>1. e \in Handlers => {n \in Lanes : t.conf[e].units /\ t.conf[e].lane[n] # Unmapped} \subseteq c.lanes
    BY <1>6 DEF Overridden
  <2>2. ASSUME NEW n \in Lanes, n \notin c.lanes
        PROVE  (IF Reading(t, a).units THEN Reading(t, a).lane[n] ELSE Unmapped) = Unmapped
    <3>. HIDE DEF e
    <3>1. Reading(t, a) = IF e \in Handlers
            THEN [static |-> INVALID, units |-> t.conf[e].units, lane |-> t.conf[e].lane]
            ELSE [static |-> e, units |-> FALSE, lane |-> [k \in Lanes |-> Unmapped]]
      BY DEF Reading, e
    <3>. QED  BY <2>1, <2>2, <3>1
  <2>. QED  BY <2>2 DEF Joined
<1>. HIDE DEF v, cell, override
<1>7. ASSUME ~v.fatal PROVE Ongoing(t, v, c, 0)
  <2>1. Settled(v) /\ \A a \in Addresses :
          IF a \in Area(override) THEN Reading(v, a) = cell
          ELSE Lookup(v, a) = Lookup(t, a) /\ Reading(v, a) = Reading(t, a)
    BY <1>5, <1>7 DEF Given
  <2>2. ASSUME NEW a \in Addresses PROVE ~(Lookup(t, a) < 0)
    <3>1. Lookup(t, a) \in Entries
      BY LookupType DEF Settled, Sound
    <3>. QED  BY <3>1, Numbers DEF Entries
  <2>. QED  BY <1>3, <1>6, <2>1, <2>2 DEF Ongoing
<1>. QED  BY <1>5, <1>7 DEF v, override

\* One handler's share of the range goes to a copy of it.
LEMMA DivideEffect ==
  ASSUME NEW t, Settled(t), NEW c, IsMasked(c), NEW e \in Entries, NEW k, k = e + 1,
         NEW d \in Tables, d.fatal \/ Ongoing(t, d, c, e),
         \E p \in AllStretches(t, c) : p.entry = e, ~Overridden(t, e, c.lanes)
  PROVE  LET v == Divide(d, c, e, {p \in AllStretches(t, c) : p.entry = e})
         IN  v \in Tables /\ (v.fatal \/ Ongoing(t, v, c, k))
<1>. DEFINE s == {p \in AllStretches(t, c) : p.entry = e}
            v == Divide(d, c, e, s)
            lane == [n \in Lanes |-> IF n \in c.lanes THEN c.who ELSE d.conf[e].lane[n]]
            cell == [static |-> INVALID, units |-> TRUE, lane |-> lane]
<1>1. /\ \A p \in AllStretches(t, c) :
           /\ p.start \in Addresses /\ p.stop \in Addresses /\ p.start <= p.stop
           /\ \A x \in Addresses : p.start <= x /\ x <= p.stop => x \in Covers(c) /\ Lookup(t, x) = p.entry
      /\ \A p \in AllStretches(t, c), q \in AllStretches(t, c) : p.start = q.start => p = q
      /\ \A a \in Covers(c) :
           \E p \in AllStretches(t, c) : p.start <= a /\ a <= p.stop /\ p.entry = Lookup(t, a)
  BY AllStretchesEffect DEF IsMasked
<1>2. Stretched(s)
  BY <1>1 DEF Stretched
<1>3. \A a \in Addresses : a \in Area(s) <=> a \in Covers(c) /\ Lookup(t, a) = e
  BY <1>1 DEF Area
<1>4. \E x \in Addresses : x \in Area(s)
  <2>1. PICK p \in s : TRUE
    OBVIOUS
  <2>2. p.start \in Addresses /\ p.start <= p.stop
    BY <1>1
  <2>3. p.start \in Nat
    BY <2>2, AddressesNat
  <2>4. p.start <= p.start
    BY <2>3
  <2>. QED  BY <2>1, <2>2, <2>4 DEF Area
<1>. HIDE DEF s
<1>5. e \in Handlers /\ t.conf[e].units # FALSE
  BY DEF Overridden
<1>6. v = IF d.fatal \/ d.conf[e].mirror # c.mirror THEN [d EXCEPT !.fatal = TRUE]
          ELSE Populate(d, c, lane, s)
  BY DEF Divide
<1>. HIDE DEF v, lane
<1>7. CASE d.fatal \/ d.conf[e].mirror # c.mirror
  <2>1. v \in Tables /\ v.fatal
    BY <1>6, <1>7 DEF Tables
  <2>. QED  BY <2>1 DEF v, s
<1>8. CASE ~(d.fatal \/ d.conf[e].mirror # c.mirror)
  <2>1. v = Populate(d, c, lane, s) /\ Ongoing(t, d, c, e) /\ Settled(d)
    BY <1>6, <1>8 DEF Ongoing
  <2>2. ASSUME NEW a \in Addresses, a \in Area(s)
        PROVE  Lookup(t, a) = e /\ Reading(d, a) = Reading(t, a) /\ Lookup(d, a) = e
    <3>1. Lookup(t, a) = e /\ ~Overridden(t, Lookup(t, a), c.lanes) /\ ~(Lookup(t, a) < e)
      <4>1. e \in Nat
        BY DEF Entries
      <4>2. Lookup(t, a) = e
        BY <1>3, <2>2
      <4>. QED  BY <4>1, <4>2
    <3>. QED  BY <2>1, <3>1 DEF Ongoing
  <2>3. t.conf[e].units = TRUE /\ d.conf[e].lane = t.conf[e].lane
    <3>1. PICK x \in Addresses : x \in Area(s)
      BY <1>4
    <3>2. Reading(d, x).lane = d.conf[e].lane /\ Reading(t, x).lane = t.conf[e].lane
      BY <1>5, <2>2, <3>1 DEF Reading
    <3>3. t.conf[e].units \in BOOLEAN
      BY <1>5 DEF Settled, Sound, Tables, Confs
    <3>. QED  BY <1>5, <2>2, <3>1, <3>2, <3>3
  <2>4. lane \in [Lanes -> Devices \cup {Unmapped}]
    <3>1. d.conf[e].lane \in [Lanes -> Devices \cup {Unmapped}]
      BY <1>5, <2>1 DEF Settled, Sound, Tables, Confs
    <3>. QED  BY <3>1 DEF lane, IsMasked
  <2>5. v \in Tables /\ (v.fatal \/ Given(d, v, Area(s), cell))
    <3>. HIDE DEF cell
    <3>1. IsRange(c)
      BY DEF IsMasked
    <3>. QED  BY <1>2, <2>1, <2>4, <3>1, PopulateEffect DEF cell
  <2>6. ASSUME NEW a \in Addresses, a \in Area(s) PROVE Joined(Reading(t, a), c) = cell
    <3>1. Reading(t, a).units = TRUE /\ Reading(t, a).lane = d.conf[e].lane
      BY <1>5, <2>2, <2>3, <2>6 DEF Reading
    <3>. QED  BY <3>1 DEF Joined, lane
  <2>. HIDE DEF cell
  <2>7. ASSUME ~v.fatal PROVE Ongoing(t, v, c, k)
    <3>1. Settled(v) /\ \A a \in Addresses :
            IF a \in Area(s) THEN Reading(v, a) = cell
            ELSE Lookup(v, a) = Lookup(d, a) /\ Reading(v, a) = Reading(d, a)
      BY <2>5, <2>7 DEF Given
    <3>2. ASSUME NEW a \in Addresses PROVE Lookup(t, a) < k <=> Lookup(t, a) < e \/ Lookup(t, a) = e
      <4>1. Lookup(t, a) \in Entries
        BY LookupType DEF Settled, Sound
      <4>2. Lookup(t, a) \in Nat /\ e \in Nat
        BY <4>1 DEF Entries
      <4>. QED  BY <4>2
    <3>3. ASSUME NEW a \in Addresses
          PROVE  IF a \in Covers(c) /\ (Overridden(t, Lookup(t, a), c.lanes) \/ Lookup(t, a) < k)
                 THEN Reading(v, a) = Joined(Reading(t, a), c)
                 ELSE Lookup(v, a) = Lookup(t, a) /\ Reading(v, a) = Reading(t, a)
      <4>1. CASE a \in Area(s)
        BY <1>3, <2>6, <3>1, <3>2, <4>1
      <4>2. CASE a \notin Area(s)
        <5>1. IF a \in Covers(c) /\ (Overridden(t, Lookup(t, a), c.lanes) \/ Lookup(t, a) < e)
              THEN Reading(d, a) = Joined(Reading(t, a), c)
              ELSE Lookup(d, a) = Lookup(t, a) /\ Reading(d, a) = Reading(t, a)
          BY <2>1 DEF Ongoing
        <5>2. Lookup(v, a) = Lookup(d, a) /\ Reading(v, a) = Reading(d, a)
          BY <3>1, <4>2
        <5>3. a \in Covers(c) => Lookup(t, a) # e
          BY <1>3, <4>2
        <5>. QED  BY <3>2, <5>1, <5>2, <5>3
      <4>. QED  BY <4>1, <4>2
    <3>. QED  BY <3>1, <3>3 DEF Ongoing
  <2>. QED  BY <2>5, <2>7 DEF v, s
<1>. QED  BY <1>7, <1>8

\* After a call with a mask every address of the range reads what it did in the other lanes.
LEMMA SetupRangeMaskedEffect ==
  ASSUME NEW t, Settled(t), NEW c, IsMasked(c)
  PROVE  LET v == SetupRangeMasked(t, c)
         IN  /\ v \in Tables
             /\ v.fatal \/ ( /\ Settled(v)
                             /\ \A a \in Addresses :
                                  IF a \in Covers(c) THEN Reading(v, a) = Joined(Reading(t, a), c)
                                  ELSE Lookup(v, a) = Lookup(t, a) /\ Reading(v, a) = Reading(t, a) )
<1>. DEFINE N == SUBTABLE_BASE
            all == AllStretches(t, c)
            override == {p \in all : Overridden(t, p.entry, c.lanes)}
            S == {p.entry : p \in all \ override}
            alone == [n \in Lanes |-> IF n \in c.lanes THEN c.who ELSE Unmapped]
            from == Populate(t, c, alone, override)
            op(d, e) == Divide(d, c, e, {p \in all : p.entry = e})
            step == [i \in 0 .. N - 1 |-> [d \in Tables |-> op(d, i)]]
            J == [i \in 0 .. N |-> {d \in Tables : d.fatal \/ Ongoing(t, d, c, i)}]
            Body(f) == [i \in 0 .. N |-> IF i = 0 THEN from
                          ELSE IF i - 1 \in S THEN op(f[i - 1], i - 1) ELSE f[i - 1]]
<1>a. /\ \A p \in all :
           /\ p.start \in Addresses /\ p.stop \in Addresses /\ p.start <= p.stop
           /\ \A x \in Addresses : p.start <= x /\ x <= p.stop => x \in Covers(c) /\ Lookup(t, x) = p.entry
      /\ \A a \in Covers(c) : \E p \in all : p.start <= a /\ a <= p.stop /\ p.entry = Lookup(t, a)
  BY AllStretchesEffect DEF IsMasked
<1>b. from \in Tables /\ (from.fatal \/ Ongoing(t, from, c, 0))
  BY OverrideEffect
<1>0. N \in Nat /\ Entries = 0 .. N - 1
  BY Numbers DEF Entries
<1>c. ASSUME NEW e \in S
      PROVE  (\E p \in all : p.entry = e) /\ ~Overridden(t, e, c.lanes)
  OBVIOUS
<1>d. ASSUME NEW a \in Covers(c), ~Overridden(t, Lookup(t, a), c.lanes) PROVE Lookup(t, a) \in S
  BY <1>a, <1>d
<1>. HIDE DEF N, from, S
<1>1. from \in J[0]
  BY <1>b, <1>0
<1>2. ASSUME NEW i \in 0 .. N - 1, NEW d \in J[i]
      PROVE  (i \in S => op(d, i) \in J[i + 1]) /\ (i \notin S => d \in J[i + 1])
  <2>. DEFINE k == i + 1
  <2>1. /\ d \in Tables /\ i + 1 \in 0 .. N /\ i \in Nat /\ k = i + 1
        /\ d.fatal \/ Ongoing(t, d, c, i)
    <3>. HIDE DEF op
    <3>. QED  BY <1>0, <1>2
  <2>2. CASE i \notin S
    <3>. HIDE DEF op
    <3>1. CASE d.fatal
      BY <2>1, <2>2, <3>1
    <3>2. CASE ~d.fatal
      <4>1. ASSUME NEW a \in Addresses, a \in Covers(c), ~Overridden(t, Lookup(t, a), c.lanes)
            PROVE  Lookup(t, a) < k <=> Lookup(t, a) < i
        <5>1. Lookup(t, a) \in Nat
          BY LookupType DEF Settled, Sound, Entries
        <5>2. Lookup(t, a) # i
          BY <1>d, <2>2, <4>1
        <5>. QED  BY <2>1, <5>1, <5>2
      <4>. HIDE DEF k
      <4>2. Ongoing(t, d, c, k)
        BY <2>1, <3>2, <4>1 DEF Ongoing
      <4>. QED  BY <2>1, <2>2, <4>2
    <3>. QED  BY <3>1, <3>2
  <2>3. CASE i \in S
    <3>1. /\ i \in Entries /\ (\E p \in AllStretches(t, c) : p.entry = i)
          /\ ~Overridden(t, i, c.lanes)
      BY <1>0, <1>c, <2>3
    <3>. DEFINE v == Divide(d, c, i, {p \in AllStretches(t, c) : p.entry = i})
    <3>2. op(d, i) = v
      OBVIOUS
    <3>. HIDE DEF op, k
    <3>3. v \in Tables /\ (v.fatal \/ Ongoing(t, v, c, k))
      BY <2>1, <3>1, DivideEffect
    <3>. HIDE DEF v
    <3>. QED  BY <2>1, <2>3, <3>2, <3>3
  <2>. QED  BY <2>2, <2>3
<1>3. PICK f : Runs(f, N, S, from, step) /\ \A i \in 0 .. N : f[i] \in J[i]
  <2>1. ASSUME NEW i \in 0 .. N - 1, NEW d \in J[i] PROVE step[i][d] = op(d, i)
    <3>. HIDE DEF op
    <3>. QED  BY <1>0, <2>1
  <2>2. Stays(N, S, J, step)
    <3>. HIDE DEF J, step, op
    <3>. QED  BY <1>2, <2>1 DEF Stays
  <2>. HIDE DEF J, step
  <2>. QED  BY <1>0, <1>1, <2>2, Loop
<1>4. f = Body(f)
  <2>1. ASSUME NEW i \in 0 .. N, i # 0 PROVE step[i - 1][f[i - 1]] = op(f[i - 1], i - 1)
    <3>. HIDE DEF op
    <3>1. i - 1 \in 0 .. N - 1 /\ i - 1 \in 0 .. N
      BY <1>0, <2>1
    <3>2. f[i - 1] \in J[i - 1]
      BY <1>3, <3>1
    <3>3. f[i - 1] \in Tables
      BY <3>1, <3>2
    <3>. QED  BY <3>1, <3>3
  <2>. HIDE DEF step, J, op
  <2>. QED  BY <1>3, <2>1 DEF Runs
<1>5. SetupRangeMasked(t, c) = (CHOOSE g : g = Body(g))[N]
  BY DEF SetupRangeMasked, Ascend, N, from, S
<1>. HIDE DEF Body
<1>6. PICK g : g = Body(g) /\ SetupRangeMasked(t, c) = g[N]
  BY <1>4, <1>5
<1>7. g[N] \in J[N]
  <2>. DEFINE Q == {i \in 0 .. N : g[i] \in J[i]}
  <2>1. 0 \in Q
    <3>1. g[0] = from
      <4>. HIDE DEF op, J
      <4>. QED  BY <1>0, <1>6 DEF Body
    <3>. HIDE DEF J
    <3>. QED  BY <1>0, <1>1, <3>1
  <2>2. ASSUME NEW i \in 0 .. N - 1, i \in Q PROVE i + 1 \in Q
    <3>. HIDE DEF op, J
    <3>1. g[i + 1] = IF i \in S THEN op(g[i], i) ELSE g[i]
      BY <1>0, <1>6 DEF Body
    <3>. QED  BY <1>0, <1>2, <2>2, <3>1
  <2>. HIDE DEF Q
  <2>3. N \in Q
    BY <1>0, <2>1, <2>2, UpTo
  <2>. QED  BY <2>3 DEF Q
<1>. DEFINE v == SetupRangeMasked(t, c)
<1>8. v \in Tables /\ (v.fatal \/ Ongoing(t, v, c, N))
  <2>. HIDE DEF op
  <2>. QED  BY <1>0, <1>6, <1>7
<1>. HIDE DEF v, J, step, op
<1>9. \A a \in Addresses : Lookup(t, a) < N
  <2>1. \A a \in Addresses : Lookup(t, a) \in 0 .. N - 1
    BY <1>0, LookupType DEF Settled, Sound
  <2>. QED  BY <1>0, <2>1
<1>. QED  BY <1>8, <1>9 DEF Ongoing, v

----------------------------------------------------------------------------
(* The calls. *)

\* A range covers its start.
LEMMA CoversStart ==
  ASSUME NEW c, IsRange(c)
  PROVE  c.start \in Addresses /\ c.start \in Covers(c)
<1>1. c.start \in Addresses /\ c.stop \in Addresses /\ c.start <= c.stop /\ 0 \in c.mirror
  BY DEF IsRange
<1>2. c.start \in Nat /\ c.stop \in Nat
  BY <1>1, AddressesNat
<1>3. c.start + 0 <= c.start /\ c.start <= c.stop + 0
  BY <1>1, <1>2
<1>. QED  BY <1>1, <1>3 DEF Covers

\* A range of a bank, or of nothing.
LEMMA StaticEffect ==
  ASSUME NEW t, Settled(t), NEW c, IsRange(c), NEW e \in Banks \cup {NOP, UNMAP}
  PROVE  LET v == PopulateMirrored(t, c, e)
         IN  /\ v \in Tables
             /\ v.fatal \/ ( /\ Settled(v)
                             /\ \A a \in Addresses :
                                  IF a \in Covers(c) THEN Lookup(v, a) = e
                                  ELSE Lookup(v, a) = Lookup(t, a) /\ Reading(v, a) = Reading(t, a) )
<1>. DEFINE v == PopulateMirrored(t, c, e)
<1>1. e \in Entries /\ e \notin Handlers
  BY InvalidStatic
<1>2. Sound(t, e, 0)
  BY <1>1, InvalidStatic, SoundStatic DEF Settled
<1>3. v \in Tables /\ (v.fatal \/ Written(t, v, e, Covers(c)))
  BY <1>1, <1>2, PopulateMirroredEffect
<1>. HIDE DEF v
<1>4. ASSUME ~v.fatal PROVE Settled(v)
  <2>1. Sound(v, e, 0)
    BY <1>3, <1>4 DEF Written
  <2>. QED  BY <1>1, <2>1, InvalidStatic, SoundStatic DEF Settled
<1>5. ASSUME ~v.fatal, NEW a \in Addresses
      PROVE  IF a \in Covers(c) THEN Lookup(v, a) = e
             ELSE Lookup(v, a) = Lookup(t, a) /\ Reading(v, a) = Reading(t, a)
  <2>1. Written(t, v, e, Covers(c))
    BY <1>3, <1>5
  <2>2. CASE a \in Covers(c)
    BY <2>1, <2>2 DEF Written
  <2>3. CASE a \notin Covers(c)
    BY <2>1, <2>3, ElsewhereSame
  <2>. QED  BY <2>2, <2>3
<1>. QED  BY <1>3, <1>4, <1>5 DEF v

\* A range of a new handler.
LEMMA InstallEffect ==
  ASSUME NEW t, Settled(t), t.free # <<>>, NEW c, IsRange(c), NEW conf \in Confs
  PROVE  LET h == Head(t.free)
             v == PopulateMirrored(Taken(t, conf), c, h)
         IN  /\ v \in Tables /\ h \in Handlers
             /\ v.fatal \/ NewlyRead(t, v, h, Covers(c), conf)
<1>. DEFINE h == Head(t.free)
            u == Taken(t, conf)
            v == PopulateMirrored(u, c, h)
            S == Covers(c)
<1>1. h \in Handlers /\ h \in Entries /\ Sound(u, h, 0)
  BY TakenEffect, Numbers
<1>2. v \in Tables /\ (v.fatal \/ Written(u, v, h, S))
  <2>. HIDE DEF u, h
  <2>. QED  BY <1>1, PopulateMirroredEffect
<1>3. PICK x \in Addresses : x \in S
  BY CoversStart
<1>4. ASSUME ~v.fatal PROVE NewlyRead(t, v, h, S, conf)
  <2>1. Written(Taken(t, conf), v, h, S) /\ h = Head(t.free)
    BY <1>2, <1>4
  <2>2. Settled(t) /\ t.free # <<>> /\ conf \in Confs /\ x \in Addresses /\ x \in S
    BY <1>3
  <2>. HIDE DEF v, h, u, S
  <2>. QED  BY ONLY <2>1, <2>2, NewHandlerEffect
<1>. QED  BY <1>1, <1>2, <1>4

\* What a fetch finds is of one entry.
LEMMA ExtentEffect ==
  ASSUME NEW a \in Addresses, table \in Tables
  PROVE  LET r == Extent(a)
         IN  /\ r \in [entry : Entries, start : Addresses, stop : Addresses]
             /\ r.entry = Lookup(table, a)
             /\ \A x \in r.start .. r.stop : Lookup(table, x) = r.entry
<1>. DEFINE e == Lookup(table, a)
            N == BlockCount * BlockSize
            A == {x \in 0 .. a : \A z \in x .. a : Lookup(table, z) = e}
            Z == {x \in a .. N - 1 : \A z \in a .. x : Lookup(table, z) = e}
<1>1. a \in Nat /\ N \in Nat /\ N - 1 \in Nat /\ a \in 0 .. N - 1 /\ Addresses = 0 .. N - 1
  BY AddressesNat, Numbers DEF Addresses
<1>. HIDE DEF N
<1>2. Extent(a) = [entry |-> e, start |-> Min(A), stop |-> Max(Z)]
  BY DEF Extent, N
<1>3. \A z \in a .. a : z = a
  BY <1>1
<1>4. A \in SUBSET Nat /\ A # {}
  <2>1. a \in A
    BY <1>1, <1>3
  <2>. QED  BY <1>1, <2>1
<1>5. Min(A) \in A
  <2>. HIDE DEF A
  <2>. QED  BY <1>4, LeastNumber
<1>6. Z \in SUBSET (0 .. N - 1) /\ Z # {}
  <2>1. a \in a .. N - 1 /\ \A x \in a .. N - 1 : x \in 0 .. N - 1
    BY <1>1
  <2>2. a \in Z
    BY <1>3, <2>1
  <2>. QED  BY <2>1, <2>2
<1>7. Max(Z) \in Z
  <2>. HIDE DEF Z
  <2>. QED  BY <1>1, <1>6, LargestNumber
<1>. DEFINE first == Min(A) last == Max(Z)
<1>. HIDE DEF first, last
<1>8. first \in 0 .. a /\ \A z \in first .. a : Lookup(table, z) = e
  BY <1>5 DEF first
<1>9. last \in a .. N - 1 /\ \A z \in a .. last : Lookup(table, z) = e
  BY <1>7 DEF last
<1>10. \A x \in first .. last : x \in first .. a \/ x \in a .. last
  BY <1>1, <1>8, <1>9
<1>11. first \in Addresses /\ last \in Addresses
  BY <1>1, <1>8, <1>9
<1>12. e \in Entries
  BY LookupType
<1>. QED  BY <1>2, <1>8, <1>9, <1>10, <1>11, <1>12 DEF first, last

----------------------------------------------------------------------------
(* The invariant. *)

\* Where a bank may be, or nowhere.
Pointers == Bases \cup {"none"}

\* The variables keep their types.
Types ==
  /\ table \in Tables
  /\ base \in [Banks -> Bases]
  /\ referenced \in SUBSET Banks /\ named \in SUBSET referenced
  /\ window \in [entry : Entries, start : Nat, stop : Nat, base : Pointers]
  /\ ranges \in SUBSET [entry : Entries, start : Addresses, stop : Addresses]
  /\ calls \in 0 .. CallLimit

\* Between two calls no loop is under way.
TableSettled == ~table.fatal => Settled(table)

\* The window is open on banks only; on one that was mapped by its name it is right.
WindowOnBank == Live => window.entry \in Banks /\ (window.entry \in named => window.base = base[window.entry])

\* The inductive invariant.
IInv == Types /\ TableSettled /\ CachedRangesTrue /\ WindowOnBank

\* The ranges that are mapped and installed.
LEMMA RangesKnown ==
  /\ \A c \in Maps : IsRange(c) /\ c.entry \in Banks \cup {NOP, UNMAP}
  /\ \A c \in Installs : IsRange(c) /\ [units |-> c.units, lane |-> [n \in Lanes |-> c.who], mirror |-> c.mirror] \in Confs
  /\ \A c \in Masked : IsMasked(c)
  /\ CallLimit \in Nat
<1>1. \A c \in Maps : IsRange(c) /\ c.entry \in Banks \cup {NOP, UNMAP}
  BY AddressSpaceAssumption DEF AddressSpaceAssumption
<1>2. ASSUME NEW c \in Installs
      PROVE  IsRange(c) /\ [units |-> c.units, lane |-> [n \in Lanes |-> c.who], mirror |-> c.mirror] \in Confs
  <2>1. IsRange(c) /\ c.who \in Devices /\ c.units \in BOOLEAN
    BY AddressSpaceAssumption DEF AddressSpaceAssumption
  <2>2. c.mirror \in SUBSET Addresses
    BY <2>1 DEF IsRange
  <2>. QED  BY <2>1, <2>2 DEF Confs
<1>3. \A c \in Masked : IsMasked(c)
  BY AddressSpaceAssumption DEF AddressSpaceAssumption, IsMasked
<1>4. CallLimit \in Nat
  BY AddressSpaceAssumption DEF AddressSpaceAssumption
<1>. QED  BY <1>1, <1>2, <1>3, <1>4

\* The tables of the constructor.
LEMMA NewTableSettled == NewTable \in Tables /\ Settled(NewTable) /\ \A a \in Addresses : Lookup(NewTable, a) = UNMAP
<1>. DEFINE t == NewTable
<1>1. /\ HandlerCount \in Nat \ {0} /\ STATIC_COUNT \in Nat /\ SUBTABLE_BASE = STATIC_COUNT + HandlerCount
      /\ Handlers = STATIC_COUNT .. SUBTABLE_BASE - 1
  BY Numbers DEF SUBTABLE_BASE, Handlers
<1>2. INVALID \in Entries /\ UNMAP \in Entries /\ UNMAP \in Nodes /\ UNMAP \notin Subtables /\ INVALID \notin Handlers /\ UNMAP \notin Handlers
  BY InvalidStatic, Numbers
<1>3. Deconfigured \in Confs /\ Deconfigured.units = FALSE
  BY Numbers DEF Deconfigured, Confs
<1>4. t.free = [i \in 1 .. HandlerCount |-> STATIC_COUNT + i - 1]
  BY DEF NewTable
<1>5. /\ t.free \in Seq(Handlers) /\ Len(t.free) = HandlerCount
      /\ \A i \in 1 .. HandlerCount : t.free[i] = STATIC_COUNT + i - 1
  <2>1. \A i \in 1 .. HandlerCount : STATIC_COUNT + i - 1 \in Handlers
    BY <1>1
  <2>2. t.free \in [1 .. HandlerCount -> Handlers]
    BY <1>4, <2>1
  <2>. QED  BY <1>1, <1>4, <2>2
<1>6. t \in Tables /\ ~t.fatal
  BY <1>2, <1>3, <1>5 DEF NewTable, Tables
<1>7. /\ t.l1 = [b \in Blocks |-> UNMAP] /\ t.sub = [s \in Subtables |-> [c \in Cells |-> INVALID]]
      /\ t.use = [s \in Subtables |-> 0] /\ t.ref = [h \in Handlers |-> 0]
      /\ t.conf = [h \in Handlers |-> Deconfigured]
  BY DEF NewTable
<1>. HIDE DEF t
<1>8. FreeOK(t, INVALID)
  <2>1. \A i, j \in 1 .. HandlerCount : t.free[i] = t.free[j] => i = j
    BY <1>1, <1>5
  <2>2. ASSUME NEW h \in Handlers PROVE \E i \in 1 .. HandlerCount : t.free[i] = h
    <3>1. h - STATIC_COUNT + 1 \in 1 .. HandlerCount /\ STATIC_COUNT + (h - STATIC_COUNT + 1) - 1 = h
      BY <1>1
    <3>. QED  BY <1>5, <3>1
  <2>. QED  BY <1>2, <1>3, <1>5, <1>7, <2>1, <2>2 DEF FreeOK
<1>9. ASSUME NEW k, k \in Handlers \/ k \in Subtables PROVE On(t, k) = {} /\ CellsOn(t, k) = {}
  <2>1. \A b \in Blocks : t.l1[b] # k
    BY <1>2, <1>7, <1>9
  <2>2. \A s \in Subtables : t.use[s] = 0
    BY <1>7
  <2>. QED  BY <2>1, <2>2 DEF On, CellsOn
<1>10. Counted(t)
  <2>1. \A s \in Subtables : Cardinality(On(t, s)) = 0
    BY <1>9, FS_EmptySet
  <2>. QED  BY <1>7, <2>1 DEF Counted
<1>11. Owes(t, INVALID, 0)
  <2>. SUFFICES ASSUME NEW h \in Handlers PROVE t.ref[h] = Held(t, h) + (IF h = INVALID THEN 0 ELSE 0)
    BY DEF Owes
  <2>1. Held(t, h) = 0
    BY <1>9, FS_EmptySet DEF Held
  <2>. QED  BY <1>7, <2>1
<1>12. ASSUME NEW a \in Addresses PROVE Lookup(t, a) = UNMAP
  <2>1. BlockOf(a) \in Blocks
    BY AddressesNat, PlaceOf
  <2>. QED  BY <1>2, <1>7, <2>1, LookupAt DEF At
<1>. QED  BY <1>6, <1>8, <1>10, <1>11, <1>12 DEF Settled, Sound, t

\* A window that is closed.
LEMMA ClosedFacts ==
  ASSUME NEW e \in Entries
  PROVE  /\ Closed(e) \in [entry : Entries, start : Nat, stop : Nat, base : Pointers]
         /\ Closed(e).start = 1 /\ Closed(e).stop = 0
BY DEF Closed, Pointers

\* The invariant holds at first.
LEMMA InitInv ==
  ASSUME Init
  PROVE  IInv
<1>1. /\ table = NewTable /\ base \in [Banks -> Bases] /\ referenced = {} /\ named = {} /\ window = Closed(UNMAP)
      /\ ranges = {} /\ calls = 0
  BY DEF Init
<1>2. /\ window \in [entry : Entries, start : Nat, stop : Nat, base : Pointers]
      /\ window.start = 1 /\ window.stop = 0
  BY <1>1, ClosedFacts, InvalidStatic
<1>3. Types
  BY <1>1, <1>2, NewTableSettled, RangesKnown DEF Types
<1>4. TableSettled
  BY <1>1, NewTableSettled DEF TableSettled
<1>5. CachedRangesTrue
  BY <1>1 DEF CachedRangesTrue
<1>6. WindowOnBank
  BY <1>2 DEF WindowOnBank, Live
<1>. QED  BY <1>3, <1>4, <1>5, <1>6 DEF IInv

\* A cached range that a call leaves alone is as true as before.
LEMMA CachedStays ==
  ASSUME IInv, ~table.fatal, ranges' \subseteq ranges,
         \A r \in ranges', a \in Addresses : a \in r.start .. r.stop =>
           \/ Lookup(table', a) = Lookup(table, a) /\ Reading(table', a) = Reading(table, a)
           \/ Lookup(table', a) \in Handlers /\ table'.conf[Lookup(table', a)].units
  PROVE  CachedRangesTrue'
<1>. SUFFICES ASSUME NEW r \in ranges', NEW a \in r.start .. r.stop
              PROVE  \/ Lookup(table', a) = r.entry
                     \/ Lookup(table', a) \in Handlers /\ table'.conf[Lookup(table', a)].units
  BY DEF CachedRangesTrue, Lookup
<1>1. r \in ranges /\ r \in [entry : Entries, start : Addresses, stop : Addresses]
  BY DEF IInv, Types
<1>2. a \in Addresses
  BY <1>1, Numbers DEF Addresses
<1>3. Lookup(table, a) = r.entry \/ (Lookup(table, a) \in Handlers /\ table.conf[Lookup(table, a)].units)
  BY <1>1 DEF IInv, CachedRangesTrue
<1>4. CASE Lookup(table', a) = Lookup(table, a) /\ Reading(table', a) = Reading(table, a)
  <2>1. CASE Lookup(table, a) = r.entry
    BY <1>4, <2>1
  <2>2. CASE Lookup(table, a) \in Handlers /\ table.conf[Lookup(table, a)].units
    <3>1. Reading(table, a).units = table.conf[Lookup(table, a)].units
      BY <2>2 DEF Reading
    <3>2. Reading(table', a).units = table'.conf[Lookup(table', a)].units
      BY <1>4, <2>2 DEF Reading
    <3>. QED  BY <1>4, <2>2, <3>1, <3>2
  <2>. QED  BY <1>3, <2>1, <2>2
<1>. QED  BY <1>2, <1>4

\* A range that does not intersect another has none of its addresses.
LEMMA RangeMissed ==
  ASSUME NEW r \in [entry : Entries, start : Addresses, stop : Addresses], NEW c, IsRange(c),
         ~Intersects(r, c), NEW a \in r.start .. r.stop
  PROVE  a \in Addresses /\ a \notin Covers(c)
<1>a. r.start \in Addresses /\ r.stop \in Addresses
  OBVIOUS
<1>b. r.start \in Nat /\ r.stop \in Nat
  BY <1>a, AddressesNat
<1>1. r.start \in Nat /\ r.stop \in Nat /\ a \in Nat /\ r.start <= a /\ a <= r.stop
  BY <1>b
<1>2. a \in Addresses
  BY <1>1, Numbers DEF Addresses
<1>3. ASSUME NEW m \in c.mirror, c.start + m <= a, a <= c.stop + m PROVE FALSE
  <2>1. c.start + m \in Nat /\ c.stop + m \in Nat
    BY AddressesNat DEF IsRange
  <2>2. c.start + m <= r.stop /\ c.stop + m >= r.start
    BY <1>1, <1>3, <2>1
  <2>. QED  BY <2>2 DEF Intersects
<1>. QED  BY <1>2, <1>3 DEF Covers

\* What a call makes of the table.
LEMMA BecomeEffect ==
  ASSUME table \in Tables, NEW v \in Tables, v.fatal \/ Settled(v), Become(v)
  PROVE  /\ table' \in Tables /\ TableSettled'
         /\ v.fatal => table'.fatal /\ table' = [table EXCEPT !.fatal = TRUE]
         /\ ~v.fatal => table' = v /\ ~table'.fatal
<1>1. table' = IF v.fatal THEN [table EXCEPT !.fatal = TRUE] ELSE v
  BY DEF Become
<1>2. CASE v.fatal
  <2>1. table' \in Tables /\ table'.fatal
    BY <1>1, <1>2 DEF Tables
  <2>. QED  BY <1>1, <1>2, <2>1 DEF TableSettled
<1>3. CASE ~v.fatal
  BY <1>1, <1>3 DEF TableSettled, Settled, Sound
<1>. QED  BY <1>2, <1>3

\* Closing the window on an entry leaves it true.
LEMMA ForceUpdateEffect ==
  ASSUME IInv, NEW e \in Entries, ForceUpdate(e), UNCHANGED base, named' \subseteq named \cup {e}
  PROVE  window' \in [entry : Entries, start : Nat, stop : Nat, base : Pointers] /\ WindowOnBank'
<1>1. window' = IF window.entry = e THEN Closed(e) ELSE window
  BY DEF ForceUpdate
<1>2. CASE window.entry = e
  <2>1. /\ window' \in [entry : Entries, start : Nat, stop : Nat, base : Pointers]
        /\ window'.start = 1 /\ window'.stop = 0
    BY <1>1, <1>2, ClosedFacts DEF IInv, Types
  <2>. QED  BY <2>1 DEF WindowOnBank, Live
<1>3. CASE window.entry # e
  BY <1>1, <1>3 DEF IInv, Types, WindowOnBank, Live
<1>. QED  BY <1>2, <1>3

\* It is kept by map_range, if a bank that is named gets its reference before the window
\* is looked up again,
LEMMA MapRangeInv ==
  ASSUME IInv, NEW c \in Maps, Call, MapRange(table, c, c.entry), base' = base,
         referenced' \in SUBSET Banks, named' \in SUBSET referenced',
         named' \subseteq named \cup {c.entry}
  PROVE  IInv'
<1>. DEFINE e == c.entry
            v == PopulateMirrored(table, c, e)
<1>1. /\ ~table.fatal /\ calls < CallLimit /\ calls' = calls + 1
      /\ named' \subseteq named \cup {e} /\ base' = base
      /\ Become(v) /\ RemoveIntersecting(c) /\ ForceUpdate(e)
  BY DEF Call, MapRange
<1>2. Settled(table) /\ table \in Tables /\ IsRange(c) /\ e \in Banks \cup {NOP, UNMAP}
  BY <1>1, RangesKnown DEF IInv, TableSettled, Types
<1>3. /\ v \in Tables
      /\ v.fatal \/ ( /\ Settled(v)
                      /\ \A a \in Addresses :
                           IF a \in Covers(c) THEN Lookup(v, a) = e
                           ELSE Lookup(v, a) = Lookup(table, a) /\ Reading(v, a) = Reading(table, a) )
  <2>. HIDE DEF e
  <2>. QED  BY <1>2, StaticEffect
<1>. HIDE DEF v, e
<1>4. /\ table' \in Tables /\ TableSettled' /\ (v.fatal => table'.fatal)
      /\ (~v.fatal => table' = v /\ ~table'.fatal)
  BY <1>1, <1>2, <1>3, BecomeEffect
<1>5. ranges' \subseteq ranges /\ \A r \in ranges' : ~Intersects(r, c)
  BY <1>1 DEF RemoveIntersecting
<1>6. CachedRangesTrue'
  <2>1. CASE v.fatal
    BY <1>4, <2>1 DEF CachedRangesTrue
  <2>2. CASE ~v.fatal
    <3>1. ASSUME NEW r \in ranges', NEW a \in Addresses, a \in r.start .. r.stop
          PROVE  Lookup(table', a) = Lookup(table, a) /\ Reading(table', a) = Reading(table, a)
      <4>1. r \in [entry : Entries, start : Addresses, stop : Addresses]
        BY <1>5 DEF IInv, Types
      <4>2. a \notin Covers(c)
        BY <1>2, <1>5, <3>1, <4>1, RangeMissed
      <4>. QED  BY <1>3, <1>4, <2>2, <4>2
    <3>. QED  BY <1>1, <1>5, <3>1, CachedStays
  <2>. QED  BY <2>1, <2>2
<1>7. e \in Entries
  BY <1>2, InvalidStatic
<1>8. window' \in [entry : Entries, start : Nat, stop : Nat, base : Pointers] /\ WindowOnBank'
  BY <1>1, <1>7, ForceUpdateEffect
<1>9. Types'
  <2>1. calls' \in 0 .. CallLimit
    BY <1>1, RangesKnown DEF IInv, Types
  <2>. QED  BY <1>1, <1>4, <1>5, <1>8, <2>1 DEF IInv, Types
<1>. QED  BY <1>4, <1>6, <1>8, <1>9 DEF IInv

\* so by install_bank_generic with names and by unmap_generic,
LEMMA MapStaticInv ==
  ASSUME IInv, NEW c \in Maps, MapStatic(c)
  PROVE  IInv'
<1>1. /\ Call /\ MapRange(table, c, c.entry) /\ base' = base
      /\ referenced' = referenced \cup ({c.entry} \cap Banks)
      /\ named' = named \cup ({c.entry} \cap Banks)
  BY DEF MapStatic, AddReference
<1>2. /\ referenced' \in SUBSET Banks /\ named' \in SUBSET referenced'
      /\ named' \subseteq named \cup {c.entry}
  BY <1>1 DEF IInv, Types
<1>. QED  BY <1>1, <1>2, MapRangeInv

\* and with pointers,
LEMMA MapBankInv ==
  ASSUME IInv, NEW c \in Pointed, MapBank(c)
  PROVE  IInv'
<1>1. /\ c \in Maps
      /\ Call /\ MapRange(table, c, c.entry) /\ base' = base
      /\ referenced' = referenced /\ named' = named
  BY AddressSpaceAssumption DEF MapBank, AddressSpaceAssumption
<1>2. /\ referenced' \in SUBSET Banks /\ named' \in SUBSET referenced'
      /\ named' \subseteq named \cup {c.entry}
  BY <1>1 DEF IInv, Types
<1>. QED  BY <1>1, <1>2, MapRangeInv

\* How the new handler is configured.
ConfOf(c) == [units |-> c.units, lane |-> [n \in Lanes |-> c.who], mirror |-> c.mirror]

\* A call that finds no handler left ends the emulation.
LEMMA OutOfHandlersInv ==
  ASSUME IInv, OutOfHandlers, Call, UNCHANGED <<base, referenced, named>>
  PROVE  IInv' /\ table'.fatal
<1>1. /\ table' = [table EXCEPT !.fatal = TRUE] /\ window' = window /\ ranges' = ranges
      /\ base' = base /\ referenced' = referenced /\ named' = named /\ calls < CallLimit /\ calls' = calls + 1
  BY DEF OutOfHandlers, Call
<1>2. table' \in Tables /\ table'.fatal
  BY <1>1 DEF IInv, Types, Tables
<1>3. Types'
  BY <1>1, <1>2, RangesKnown DEF IInv, Types
<1>4. TableSettled' /\ CachedRangesTrue'
  BY <1>2 DEF TableSettled, CachedRangesTrue
<1>5. WindowOnBank'
  BY <1>1 DEF IInv, WindowOnBank, Live
<1>. QED  BY <1>2, <1>3, <1>4, <1>5 DEF IInv

\* by install_read_handler and install_write_handler,
LEMMA InstallInv ==
  ASSUME IInv, NEW c \in Installs, Install(c)
  PROVE  IInv'
<1>. DEFINE h == Head(table.free)
            conf == ConfOf(c)
            v == PopulateMirrored(Taken(table, conf), c, h)
<1>1. /\ Call /\ base' = base /\ referenced' = referenced /\ named' = named
      /\ IF table.free = <<>> THEN OutOfHandlers
         ELSE Become(v) /\ RemoveIntersecting(c) /\ ForceUpdate(h)
  BY DEF Install, MapRange, ConfOf
<1>2. CASE table.free = <<>>
  BY <1>1, <1>2, OutOfHandlersInv
<1>3. CASE table.free # <<>>
  <2>1. /\ ~table.fatal /\ calls < CallLimit /\ calls' = calls + 1
        /\ Become(v) /\ RemoveIntersecting(c) /\ ForceUpdate(h)
    BY <1>1, <1>3 DEF Call
  <2>2. Settled(table) /\ table \in Tables /\ IsRange(c) /\ conf \in Confs
    BY <2>1, RangesKnown DEF IInv, TableSettled, Types, ConfOf
  <2>3. v \in Tables /\ h \in Handlers /\ (v.fatal \/ NewlyRead(table, v, h, Covers(c), conf))
    <3>. HIDE DEF conf
    <3>. QED  BY <1>3, <2>2, InstallEffect
  <2>. HIDE DEF v, h, conf
  <2>4. /\ table' \in Tables /\ TableSettled' /\ (v.fatal => table'.fatal)
        /\ (~v.fatal => table' = v /\ ~table'.fatal)
    BY <2>1, <2>2, <2>3, BecomeEffect DEF NewlyRead
  <2>5. ranges' \subseteq ranges /\ \A r \in ranges' : ~Intersects(r, c)
    BY <2>1 DEF RemoveIntersecting
  <2>6. CachedRangesTrue'
    <3>1. CASE v.fatal
      BY <2>4, <3>1 DEF CachedRangesTrue
    <3>2. CASE ~v.fatal
      <4>1. ASSUME NEW r \in ranges', NEW a \in Addresses, a \in r.start .. r.stop
            PROVE  Lookup(table', a) = Lookup(table, a) /\ Reading(table', a) = Reading(table, a)
        <5>1. r \in [entry : Entries, start : Addresses, stop : Addresses]
          BY <2>5 DEF IInv, Types
        <5>2. a \notin Covers(c)
          BY <2>2, <2>5, <4>1, <5>1, RangeMissed
        <5>. QED  BY <2>3, <2>4, <3>2, <5>2 DEF NewlyRead
      <4>. QED  BY <2>1, <2>5, <4>1, CachedStays
    <3>. QED  BY <3>1, <3>2
  <2>7. window' \in [entry : Entries, start : Nat, stop : Nat, base : Pointers] /\ WindowOnBank'
    <3>1. h \in Entries /\ named' \subseteq named \cup {h}
      BY <1>1, <2>3, Numbers
    <3>. QED  BY <1>1, <2>1, <3>1, ForceUpdateEffect
  <2>8. Types'
    <3>1. calls' \in 0 .. CallLimit
      BY <2>1, RangesKnown DEF IInv, Types
    <3>. QED  BY <1>1, <2>4, <2>5, <2>7, <3>1 DEF IInv, Types
  <2>. QED  BY <2>4, <2>6, <2>7, <2>8 DEF IInv
<1>. QED  BY <1>2, <1>3

\* by the same two with a mask,
LEMMA InstallMaskedInv ==
  ASSUME IInv, NEW c \in Masked, InstallMasked(c)
  PROVE  IInv'
<1>. DEFINE v == SetupRangeMasked(table, c)
<1>1. /\ ~table.fatal /\ calls < CallLimit /\ calls' = calls + 1 /\ Become(v)
      /\ base' = base /\ referenced' = referenced /\ named' = named /\ window' = window /\ ranges' = ranges
  BY DEF InstallMasked, Call
<1>2. Settled(table) /\ table \in Tables /\ IsMasked(c)
  BY <1>1, RangesKnown DEF IInv, TableSettled, Types
<1>3. /\ v \in Tables
      /\ v.fatal \/ ( /\ Settled(v)
                      /\ \A a \in Addresses :
                           IF a \in Covers(c) THEN Reading(v, a) = Joined(Reading(table, a), c)
                           ELSE Lookup(v, a) = Lookup(table, a) /\ Reading(v, a) = Reading(table, a) )
  BY <1>2, SetupRangeMaskedEffect
<1>. HIDE DEF v
<1>4. /\ table' \in Tables /\ TableSettled' /\ (v.fatal => table'.fatal)
      /\ (~v.fatal => table' = v /\ ~table'.fatal)
  BY <1>1, <1>2, <1>3, BecomeEffect
<1>5. ASSUME ~v.fatal, NEW a \in Addresses, a \in Covers(c)
      PROVE  Lookup(v, a) \in Handlers /\ v.conf[Lookup(v, a)].units
  <2>1. Reading(v, a).units = TRUE
    BY <1>3, <1>5 DEF Joined
  <2>. QED  BY <2>1 DEF Reading
<1>6. CachedRangesTrue'
  <2>1. CASE v.fatal
    BY <1>4, <2>1 DEF CachedRangesTrue
  <2>2. CASE ~v.fatal
    <3>1. ASSUME NEW a \in Addresses
          PROVE  \/ Lookup(table', a) = Lookup(table, a) /\ Reading(table', a) = Reading(table, a)
                 \/ Lookup(table', a) \in Handlers /\ table'.conf[Lookup(table', a)].units
      BY <1>3, <1>4, <1>5, <2>2
    <3>. QED  BY <1>1, <3>1, CachedStays
  <2>. QED  BY <2>1, <2>2
<1>7. WindowOnBank'
  BY <1>1 DEF IInv, WindowOnBank, Live
<1>8. Types'
  <2>1. calls' \in 0 .. CallLimit
    BY <1>1, RangesKnown DEF IInv, Types
  <2>. QED  BY <1>1, <1>4, <2>1 DEF IInv, Types
<1>. QED  BY <1>4, <1>6, <1>7, <1>8 DEF IInv

\* by set_base of a bank,
LEMMA SetBankInv ==
  ASSUME IInv, NEW b \in Banks, NEW p \in Bases, SetBank(b, p)
  PROVE  IInv'
<1>1. /\ base' = [base EXCEPT ![b] = p]
      /\ window' = IF b \in referenced THEN Closed(window.entry) ELSE window
      /\ table' = table /\ referenced' = referenced /\ named' = named /\ ranges' = ranges /\ calls' = calls
  BY DEF SetBank
<1>2. base' \in [Banks -> Bases] /\ \A d \in Banks : d # b => base'[d] = base[d]
  BY <1>1 DEF IInv, Types
<1>3. window' \in [entry : Entries, start : Nat, stop : Nat, base : Pointers] /\ WindowOnBank'
  <2>1. CASE b \in referenced
    <3>1. /\ window' \in [entry : Entries, start : Nat, stop : Nat, base : Pointers]
          /\ window'.start = 1 /\ window'.stop = 0
      BY <1>1, <2>1, ClosedFacts DEF IInv, Types
    <3>. QED  BY <3>1 DEF WindowOnBank, Live
  <2>2. CASE b \notin referenced
    BY <1>1, <1>2, <2>2 DEF IInv, Types, WindowOnBank, Live
  <2>. QED  BY <2>1, <2>2
<1>4. Types'
  BY <1>1, <1>2, <1>3 DEF IInv, Types
<1>5. TableSettled' /\ CachedRangesTrue'
  BY <1>1 DEF IInv, TableSettled, CachedRangesTrue
<1>. QED  BY <1>3, <1>4, <1>5 DEF IInv

\* and by a fetch.
LEMMA FetchInv ==
  ASSUME IInv, NEW a \in Addresses, Fetch(a)
  PROVE  IInv'
<1>1. PICK r \in IF Cached(a) = {} THEN {Extent(a)} ELSE Cached(a) :
        /\ ranges' = ranges \cup {r}
        /\ window' = IF r.entry \in Banks THEN OpenOn(r) ELSE Closed(r.entry)
  BY DEF Fetch
<1>2. /\ ~table.fatal /\ table' = table /\ base' = base /\ referenced' = referenced
      /\ named' = named /\ calls' = calls
  BY DEF Fetch
<1>3. /\ r \in [entry : Entries, start : Addresses, stop : Addresses]
      /\ r.entry = Lookup(table, a)
      /\ \A x \in r.start .. r.stop :
           LET e == Lookup(table, x) IN e = r.entry \/ (e \in Handlers /\ table.conf[e].units)
  <2>1. CASE Cached(a) = {}
    <3>1. r = Extent(a)
      BY <1>1, <2>1
    <3>. QED  BY <3>1, ExtentEffect DEF IInv, Types
  <2>2. CASE Cached(a) # {}
    <3>1. r \in ranges /\ r.entry = Lookup(table, a)
      BY <1>1, <2>2 DEF Cached
    <3>. QED  BY <1>2, <3>1 DEF IInv, Types, CachedRangesTrue
  <2>. QED  BY <2>1, <2>2
<1>4. CachedRangesTrue'
  BY <1>1, <1>2, <1>3 DEF IInv, CachedRangesTrue
<1>5. window' \in [entry : Entries, start : Nat, stop : Nat, base : Pointers] /\ WindowOnBank'
  <2>1. CASE r.entry \in Banks
    <3>1. window' = [entry |-> r.entry, start |-> r.start, stop |-> r.stop, base |-> base[r.entry]]
      BY <1>1, <2>1 DEF OpenOn
    <3>2. base[r.entry] \in Bases /\ r.start \in Nat /\ r.stop \in Nat
      BY <1>3, <2>1, AddressesNat DEF IInv, Types
    <3>. QED  BY <1>2, <1>3, <2>1, <3>1, <3>2 DEF WindowOnBank, Live, Pointers
  <2>2. CASE r.entry \notin Banks
    <3>1. /\ window' \in [entry : Entries, start : Nat, stop : Nat, base : Pointers]
          /\ window'.start = 1 /\ window'.stop = 0
      BY <1>1, <1>3, <2>2, ClosedFacts DEF IInv, Types
    <3>. QED  BY <3>1 DEF WindowOnBank, Live
  <2>. QED  BY <2>1, <2>2
<1>6. Types'
  BY <1>1, <1>2, <1>3, <1>5 DEF IInv, Types
<1>7. TableSettled'
  BY <1>2 DEF IInv, TableSettled
<1>. QED  BY <1>4, <1>5, <1>6, <1>7 DEF IInv

\* The invariant of the address space.
THEOREM AddressSpaceInvariant == Spec => []IInv
<1>1. Init => IInv
  BY InitInv
<1>2. IInv /\ [Next]_vars => IInv'
  <2>. SUFFICES ASSUME IInv, [Next]_vars PROVE IInv'
    OBVIOUS
  <2>1. ASSUME NEW c \in Maps, MapStatic(c) PROVE IInv'
    BY <2>1, MapStaticInv
  <2>2. ASSUME NEW c \in Installs, Install(c) PROVE IInv'
    BY <2>2, InstallInv
  <2>3. ASSUME NEW c \in Masked, InstallMasked(c) PROVE IInv'
    BY <2>3, InstallMaskedInv
  <2>4. ASSUME NEW b \in Banks, NEW p \in Bases, SetBank(b, p) PROVE IInv'
    BY <2>4, SetBankInv
  <2>5. ASSUME NEW a \in Addresses, Fetch(a) PROVE IInv'
    BY <2>5, FetchInv
  <2>6. CASE UNCHANGED vars
    BY <2>6 DEF vars, IInv, Types, TableSettled, CachedRangesTrue, WindowOnBank, Live
  <2>7. ASSUME NEW c \in Pointed, MapBank(c) PROVE IInv'
    BY <2>7, MapBankInv
  <2>. QED  BY <2>1, <2>2, <2>3, <2>4, <2>5, <2>6, <2>7 DEF Next
<1>. QED  BY <1>1, <1>2, PTL DEF Spec

\* Tables without a loop under way have the right counts.
LEMMA SettledCounts ==
  ASSUME ~table.fatal, Settled(table)
  PROVE  CountsAgree
<1>. DEFINE t == table
            n == Len(t.free)
            idle == {h \in Handlers : t.ref[h] = 0}
<1>1. t \in Tables /\ FreeOK(t, INVALID) /\ Counted(t) /\ Owes(t, INVALID, 0)
  BY DEF Settled, Sound
<1>2. t.free \in Seq(Handlers) /\ n \in Nat /\ DOMAIN t.free = 1 .. n
  BY <1>1 DEF Tables
<1>3. /\ \A i, j \in 1 .. n : t.free[i] = t.free[j] => i = j
      /\ \A h \in Handlers : (\E i \in 1 .. n : t.free[i] = h) <=> t.ref[h] = 0
      /\ \A h \in Handlers : t.ref[h] = 0 => ~t.conf[h].units
  BY <1>1, InvalidStatic DEF FreeOK
<1>4. \A s \in Subtables : t.use[s] = Cardinality({b \in Blocks : t.l1[b] = s})
  BY <1>1 DEF Counted, On
<1>5. ASSUME NEW h \in Handlers
      PROVE  t.ref[h] = Cardinality({b \in Blocks : t.l1[b] = h})
               + Cardinality({p \in Subtables \X Cells : t.use[p[1]] # 0 /\ t.sub[p[1]][p[2]] = h})
  <2>1. t.ref[h] = Held(t, h) + (IF h = INVALID THEN 0 ELSE 0)
    BY <1>1 DEF Owes
  <2>2. Held(t, h) \in Nat
    BY HeldType
  <2>3. t.ref[h] = Held(t, h)
    BY <2>1, <2>2
  <2>. QED  BY <2>3 DEF Held, On, CellsOn
<1>6. {t.free[i] : i \in DOMAIN t.free} = idle
  <2>1. \A i \in 1 .. n : t.free[i] \in Handlers
    BY <1>2
  <2>. QED  BY <1>2, <1>3, <2>1
<1>7. n = Cardinality(idle)
  <2>. DEFINE f == [i \in 1 .. n |-> t.free[i]]
  <2>1. f \in Bijection(1 .. n, idle)
    <3>1. \A i \in 1 .. n : f[i] = t.free[i] /\ f[i] \in idle
      BY <1>2, <1>6
    <3>2. f \in Injection(1 .. n, idle)
      BY <1>3, <3>1 DEF Injection, IsInjective
    <3>3. f \in Surjection(1 .. n, idle)
      BY <1>3, <3>1 DEF Surjection
    <3>. QED  BY <3>2, <3>3 DEF Bijection
  <2>2. IsFiniteSet(1 .. n) /\ Cardinality(1 .. n) = n
    BY <1>2, FS_Interval
  <2>. HIDE DEF f, idle
  <2>3. ExistsBijection(1 .. n, idle)
    BY <2>1 DEF ExistsBijection
  <2>. QED  BY <2>2, <2>3, FS_Bijection
<1>. QED  BY <1>3, <1>4, <1>5, <1>6, <1>7 DEF CountsAgree

\* The counts of handlers and subtables are those of the cells and blocks that hold them,
\* and the free list has each handler that nothing holds once: whatever is mapped,
\* mirrored, shared, merged, installed or divided.
THEOREM AddressSpaceCounts == Spec => []CountsAgree
<1>1. IInv => CountsAgree
  <2>1. CASE table.fatal
    BY <2>1 DEF CountsAgree
  <2>2. CASE ~table.fatal
    BY <2>2, SettledCounts DEF IInv, TableSettled
  <2>. QED  BY <2>1, <2>2
<1>. QED  BY <1>1, AddressSpaceInvariant, PTL

\* A range that a fetch finds in the cache is of one entry still, or of handlers that
\* serve their lanes one by one.
THEOREM AddressSpaceRanges == Spec => []CachedRangesTrue
<1>1. IInv => CachedRangesTrue
  BY DEF IInv
<1>. QED  BY <1>1, AddressSpaceInvariant, PTL

\* The window of the fetches shows the bank where it is now, if the bank was ever mapped
\* here by its name: who moves it closes the window, and who names it first closes a
\* window that is behind since the bank was mapped by a pointer.
THEOREM AddressSpaceWindow == Spec => []WindowFollowsBank
<1>1. IInv => WindowFollowsBank
  BY DEF IInv, WindowOnBank, WindowFollowsBank
<1>. QED  BY <1>1, AddressSpaceInvariant, PTL

----------------------------------------------------------------------------
(* The promise. *)

\* What every address is served by.
Seen == [a \in Addresses |-> Installed(Lookup(table, a))]

\* What the promise is about.
LEMMA SeenReading == Seen = [a \in Addresses |-> Reading(table, a)]
BY DEF Seen, Installed, Reading

\* The promise and the code mean the same addresses.
LEMMA CoveredCovers ==
  ASSUME NEW c, IsRange(c), NEW a \in Addresses
  PROVE  a \in Promise!Covered(c) <=> a \in Covers(c)
<1>1. a \in Nat /\ c.start \in Nat /\ c.stop \in Nat /\ \A m \in c.mirror : m \in Nat
  BY AddressesNat DEF IsRange
<1>2. ASSUME NEW m \in c.mirror
      PROVE  (\E x \in c.start .. c.stop : a = x + m) <=> c.start + m <= a /\ a <= c.stop + m
  <2>1. ASSUME c.start + m <= a, a <= c.stop + m PROVE a - m \in c.start .. c.stop /\ a = (a - m) + m
    BY <1>1, <2>1
  <2>2. ASSUME NEW x \in c.start .. c.stop, a = x + m PROVE c.start + m <= a /\ a <= c.stop + m
    BY <1>1, <2>2
  <2>. QED  BY <2>1, <2>2
<1>. QED  BY <1>2 DEF Promise!Covered, Covers

\* The promise and the code join lanes alike.
LEMMA JoinedWith ==
  ASSUME NEW c, IsMasked(c), NEW cell
  PROVE  Promise!With(cell, c) = Joined(cell, c)
<1>. DEFINE kept == IF cell.units THEN {n \in Lanes \ c.lanes : cell.lane[n] # Unmapped} ELSE {}
<1>1. ASSUME NEW n \in Lanes, n \notin c.lanes
      PROVE  (IF n \in kept THEN cell.lane[n] ELSE Unmapped) = (IF cell.units THEN cell.lane[n] ELSE Unmapped)
  BY <1>1
<1>. HIDE DEF kept
<1>2. Promise!With(cell, c) = [static |-> INVALID, units |-> TRUE, lane |-> [n \in Lanes |->
         IF n \in c.lanes THEN c.who ELSE IF n \in kept THEN cell.lane[n] ELSE Unmapped]]
  BY DEF Promise!With, Promise!Dynamic, kept
<1>. QED  BY <1>1, <1>2 DEF Joined

\* A fatal error.
LEMMA StopSeen ==
  ASSUME table' = [table EXCEPT !.fatal = TRUE], ~table.fatal, table \in Tables
  PROVE  Promise!Next
<1>1. table'.l1 = table.l1 /\ table'.sub = table.sub /\ table'.conf = table.conf /\ table'.fatal = TRUE
  BY DEF Tables
<1>2. Seen' = Seen
  <2>1. ASSUME NEW a \in Addresses
        PROVE  Installed(Lookup(table, a))' = Installed(Lookup(table, a))
    <3>1. Lookup(table, a)' = Lookup(table, a)
      BY <1>1 DEF Lookup
    <3>. QED  BY <1>1, <3>1 DEF Installed
  <2>. QED  BY <2>1 DEF Seen
<1>3. Promise!Stop
  BY <1>1, <1>2 DEF Promise!Stop, Seen
<1>. QED  BY <1>3 DEF Promise!Next

\* map_range does what is promised, for banks given by name or pointer and for nothing,
LEMMA MapSeen ==
  ASSUME IInv, NEW c \in Maps, MapStatic(c) \/ MapBank(c)
  PROVE  Promise!Next
<1>. DEFINE e == c.entry
            v == PopulateMirrored(table, c, e)
<1>1. ~table.fatal /\ Become(v)
  BY DEF MapStatic, MapBank, Call, MapRange
<1>2. Settled(table) /\ table \in Tables /\ IsRange(c) /\ e \in Banks \cup {NOP, UNMAP}
  BY <1>1, RangesKnown DEF IInv, TableSettled, Types
<1>3. /\ v \in Tables
      /\ v.fatal \/ ( /\ Settled(v)
                      /\ \A a \in Addresses :
                           IF a \in Covers(c) THEN Lookup(v, a) = e
                           ELSE Lookup(v, a) = Lookup(table, a) /\ Reading(v, a) = Reading(table, a) )
  <2>. HIDE DEF e
  <2>. QED  BY <1>2, StaticEffect
<1>. HIDE DEF v, e
<1>4. /\ v.fatal => table'.fatal /\ table' = [table EXCEPT !.fatal = TRUE]
      /\ ~v.fatal => table' = v /\ ~table'.fatal
  BY <1>1, <1>2, <1>3, BecomeEffect
<1>5. CASE v.fatal
  BY <1>1, <1>2, <1>4, <1>5, StopSeen
<1>6. CASE ~v.fatal
  <2>1. table' = v /\ table'.fatal = FALSE /\ table.fatal = FALSE
    BY <1>1, <1>2, <1>4, <1>6 DEF Settled, Sound, Tables
  <2>2. ASSUME NEW a \in Addresses
        PROVE  Reading(v, a) = IF a \in Promise!Covered(c) THEN Promise!Static(e) ELSE Seen[a]
    <3>1. a \in Promise!Covered(c) <=> a \in Covers(c)
      BY <1>2, CoveredCovers
    <3>2. Seen[a] = Reading(table, a)
      BY SeenReading
    <3>3. CASE a \in Covers(c)
      <4>1. Lookup(v, a) = e /\ e \notin Handlers
        BY <1>2, <1>3, <1>6, <3>3, InvalidStatic
      <4>. QED  BY <3>1, <3>3, <4>1 DEF Reading, Promise!Static
    <3>4. CASE a \notin Covers(c)
      BY <1>3, <1>6, <3>1, <3>2, <3>4
    <3>. QED  BY <3>3, <3>4
  <2>3. Seen' = [a \in Addresses |-> Reading(v, a)]
    BY <2>1 DEF Seen, Installed, Reading
  <2>4. Seen' = [a \in Addresses |-> IF a \in Promise!Covered(c) THEN Promise!Static(e) ELSE Seen[a]]
    BY <2>2, <2>3
  <2>5. Promise!Map(c)
    BY <2>4 DEF Promise!Map, Promise!Replace, Seen, e
  <2>. QED  BY <2>1, <2>5 DEF Promise!Next
<1>. QED  BY <1>5, <1>6

\* install_read_handler and install_write_handler do,
LEMMA InstallSeen ==
  ASSUME IInv, NEW c \in Installs, Install(c)
  PROVE  Promise!Next
<1>. DEFINE h == Head(table.free)
            conf == ConfOf(c)
            v == PopulateMirrored(Taken(table, conf), c, h)
<1>1. /\ Call /\ ~table.fatal
      /\ IF table.free = <<>> THEN OutOfHandlers ELSE Become(v)
  BY DEF Install, MapRange, ConfOf, Call
<1>2. Settled(table) /\ table \in Tables /\ IsRange(c) /\ conf \in Confs
  BY <1>1, RangesKnown DEF IInv, TableSettled, Types, ConfOf
<1>3. CASE table.free = <<>>
  BY <1>1, <1>2, <1>3, StopSeen DEF OutOfHandlers
<1>4. CASE table.free # <<>>
  <2>1. v \in Tables /\ h \in Handlers /\ (v.fatal \/ NewlyRead(table, v, h, Covers(c), conf))
    <3>. HIDE DEF conf
    <3>. QED  BY <1>2, <1>4, InstallEffect
  <2>. HIDE DEF v, h, conf
  <2>2. Become(v)
    BY <1>1, <1>4
  <2>3. /\ v.fatal => table'.fatal /\ table' = [table EXCEPT !.fatal = TRUE]
        /\ ~v.fatal => table' = v /\ ~table'.fatal
    BY <1>2, <2>1, <2>2, BecomeEffect DEF NewlyRead
  <2>4. CASE v.fatal
    BY <1>1, <1>2, <2>3, <2>4, StopSeen
  <2>5. CASE ~v.fatal
    <3>. DEFINE cell == Promise!Dynamic(c.units, [n \in Lanes |-> c.who])
    <3>1. table' = v /\ table'.fatal = FALSE /\ table.fatal = FALSE
      BY <1>1, <1>2, <2>1, <2>3, <2>5 DEF Settled, Sound, Tables
    <3>2. cell = [static |-> INVALID, units |-> conf.units, lane |-> conf.lane]
      BY DEF Promise!Dynamic, conf, ConfOf
    <3>. HIDE DEF cell
    <3>3. ASSUME NEW a \in Addresses
          PROVE  Reading(v, a) = IF a \in Promise!Covered(c) THEN cell ELSE Seen[a]
      <4>1. a \in Promise!Covered(c) <=> a \in Covers(c)
        BY <1>2, CoveredCovers
      <4>2. Seen[a] = Reading(table, a)
        BY SeenReading
      <4>. QED  BY <2>1, <2>5, <3>2, <4>1, <4>2 DEF NewlyRead
    <3>4. Seen' = [a \in Addresses |-> Reading(v, a)]
      BY <3>1 DEF Seen, Installed, Reading
    <3>5. Seen' = [a \in Addresses |-> IF a \in Promise!Covered(c) THEN cell ELSE Seen[a]]
      BY <3>3, <3>4
    <3>6. Promise!Install(c)
      BY <3>5 DEF Promise!Install, Promise!Replace, Seen, cell
    <3>. QED  BY <3>1, <3>6 DEF Promise!Next
  <2>. QED  BY <2>4, <2>5
<1>. QED  BY <1>3, <1>4

\* and so do the same two with a mask.
LEMMA InstallMaskedSeen ==
  ASSUME IInv, NEW c \in Masked, InstallMasked(c)
  PROVE  Promise!Next
<1>. DEFINE v == SetupRangeMasked(table, c)
<1>1. ~table.fatal /\ Become(v)
  BY DEF InstallMasked, Call
<1>2. Settled(table) /\ table \in Tables /\ IsMasked(c) /\ IsRange(c)
  BY <1>1, RangesKnown DEF IInv, TableSettled, Types, IsMasked
<1>3. /\ v \in Tables
      /\ v.fatal \/ ( /\ Settled(v)
                      /\ \A a \in Addresses :
                           IF a \in Covers(c) THEN Reading(v, a) = Joined(Reading(table, a), c)
                           ELSE Lookup(v, a) = Lookup(table, a) /\ Reading(v, a) = Reading(table, a) )
  BY <1>2, SetupRangeMaskedEffect
<1>. HIDE DEF v
<1>4. /\ v.fatal => table'.fatal /\ table' = [table EXCEPT !.fatal = TRUE]
      /\ ~v.fatal => table' = v /\ ~table'.fatal
  BY <1>1, <1>2, <1>3, BecomeEffect
<1>5. CASE v.fatal
  BY <1>1, <1>2, <1>4, <1>5, StopSeen
<1>6. CASE ~v.fatal
  <2>1. table' = v /\ table'.fatal = FALSE /\ table.fatal = FALSE
    BY <1>1, <1>2, <1>4, <1>6 DEF Settled, Sound, Tables
  <2>2. ASSUME NEW a \in Addresses
        PROVE  Reading(v, a) = IF a \in Promise!Covered(c) THEN Promise!With(Seen[a], c) ELSE Seen[a]
    <3>1. a \in Promise!Covered(c) <=> a \in Covers(c)
      BY <1>2, CoveredCovers
    <3>2. Seen[a] = Reading(table, a)
      BY SeenReading
    <3>3. Promise!With(Seen[a], c) = Joined(Seen[a], c)
      BY <1>2, JoinedWith
    <3>. QED  BY <1>3, <1>6, <3>1, <3>2, <3>3
  <2>3. Seen' = [a \in Addresses |-> Reading(v, a)]
    BY <2>1 DEF Seen, Installed, Reading
  <2>4. Seen' = [a \in Addresses |-> IF a \in Promise!Covered(c) THEN Promise!With(Seen[a], c) ELSE Seen[a]]
    BY <2>2, <2>3
  <2>5. Promise!InstallMasked(c)
    BY <2>4 DEF Promise!InstallMasked, Seen
  <2>. QED  BY <2>1, <2>5 DEF Promise!Next
<1>. QED  BY <1>5, <1>6

\* Every address is served by what was installed there last, lane by lane: the tables,
\* their shared subtables, quick mirrors and counted handlers never show.
THEOREM AddressSpacePromise == Spec => MapsAsInstalled
<1>1. Init => Promise!Init
  <2>. SUFFICES ASSUME Init PROVE Promise!Init
    OBVIOUS
  <2>1. table = NewTable /\ table.fatal = FALSE
    BY DEF Init, NewTable
  <2>2. \A a \in Addresses : Installed(Lookup(table, a)) = Promise!Static(UNMAP)
    BY <2>1, NewTableSettled, InvalidStatic DEF Installed, Promise!Static
  <2>. QED  BY <2>1, <2>2 DEF Promise!Init
<1>2. IInv /\ [Next]_vars => [Promise!Next]_Promise!vars
  <2>. SUFFICES ASSUME IInv, [Next]_vars PROVE [Promise!Next]_Promise!vars
    OBVIOUS
  <2>1. ASSUME NEW c \in Maps, MapStatic(c) \/ MapBank(c) PROVE Promise!Next
    BY <2>1, MapSeen
  <2>8. Pointed \subseteq Maps
    BY AddressSpaceAssumption DEF AddressSpaceAssumption
  <2>2. ASSUME NEW c \in Installs, Install(c) PROVE Promise!Next
    BY <2>2, InstallSeen
  <2>3. ASSUME NEW c \in Masked, InstallMasked(c) PROVE Promise!Next
    BY <2>3, InstallMaskedSeen
  <2>4. ASSUME table' = table PROVE UNCHANGED Promise!vars
    BY <2>4 DEF Promise!vars, Installed, Lookup
  <2>5. ASSUME NEW b \in Banks, NEW p \in Bases, SetBank(b, p) PROVE UNCHANGED Promise!vars
    BY <2>4, <2>5 DEF SetBank
  <2>6. ASSUME NEW a \in Addresses, Fetch(a) PROVE UNCHANGED Promise!vars
    BY <2>4, <2>6 DEF Fetch
  <2>7. CASE UNCHANGED vars
    BY <2>4, <2>7 DEF vars
  <2>. QED  BY <2>1, <2>2, <2>3, <2>5, <2>6, <2>7, <2>8 DEF Next
<1>. QED  BY <1>1, <1>2, AddressSpaceInvariant, PTL DEF Spec, MapsAsInstalled, Promise!Spec
=============================================================================
