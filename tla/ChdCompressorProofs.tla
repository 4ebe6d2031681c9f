------------------------- MODULE ChdCompressorProofs -------------------------
(***************************************************************************)
(* Theorems about ChdCompressor, for rings and images of every length and  *)
(* any number of workers: a hunk is queued in a slot that was set aside    *)
(* for it, and a slot keeps what was read into it until it is written, as  *)
(* long as the end of the parent's walk has not overtaken a read.          *)
(* From the hunk that is written next the ring holds, in this order, hunks *)
(* that are with the workers or done, places that are being read to, and   *)
(* free ones; one work item is out for each hunk that is not done.  Where  *)
(* the end of the walk sets the ring back while a read is being done, all  *)
(* of this is lost, and nothing is claimed of what follows.                *)
(***************************************************************************)
EXTENDS ChdCompressor, SequenceTheorems, TLAPS

----------------------------------------------------------------------------
\* Numbers: the places of a ring.

LEMMA Division ==
  ASSUME NEW m \in Nat \ {0}, NEW a \in Nat
  PROVE  \E p \in Nat, r \in 0 .. m - 1 : a = m * p + r /\ a % m = r
<1>1. /\ a = m * (a \div m) + (a % m)
      /\ a % m \in 0 .. m - 1 /\ a \div m \in Nat
  OBVIOUS
<1>. QED  BY <1>1

LEMMA Multiples ==
  ASSUME NEW m \in Nat \ {0}, NEW p \in Nat, NEW q \in Nat, p < q
  PROVE  m * p + m <= m * q
<1>1. PICK k \in Nat : q = p + 1 + k
  <2>1. q - p - 1 \in Nat
    OBVIOUS
  <2>. QED  BY <2>1
<1>2. m * q = m * p + m + m * k
  BY <1>1
<1>3. m * k \in Nat /\ m * p \in Nat
  BY <1>1
<1>. QED  BY <1>2, <1>3

LEMMA DivisionUnique ==
  ASSUME NEW m \in Nat \ {0}, NEW p \in Nat, NEW q \in Nat,
         NEW r \in 0 .. m - 1, NEW s \in 0 .. m - 1, m * p + r = m * q + s
  PROVE  r = s
<1>1. /\ m * p \in Nat /\ m * q \in Nat
      /\ r \in Nat /\ s \in Nat /\ r < m /\ s < m
  OBVIOUS
<1>2. CASE p < q
  <2>1. m * p + m <= m * q
    BY <1>2, Multiples
  <2>. QED  BY <1>1, <2>1
<1>3. CASE q < p
  <2>1. m * q + m <= m * p
    BY <1>3, Multiples
  <2>. QED  BY <1>1, <2>1
<1>4. CASE p = q
  BY <1>1, <1>4
<1>. QED  BY <1>2, <1>3, <1>4

LEMMA RingFacts ==
  Ring \in Nat \ {0} /\ Half \in Nat \ {0} /\ Ring = Half + Half
BY RingAssumption DEF Half

\* Going on by up to a ring's length, one comes round at most once.
LEMMA SlotPlus ==
  ASSUME NEW x \in Nat, NEW k \in 0..Ring
  PROVE  /\ SlotOf(x) \in 0..(Ring - 1)
         /\ SlotOf(x + k) = IF SlotOf(x) + k < Ring THEN SlotOf(x) + k ELSE SlotOf(x) + k - Ring
<1>1. Ring \in Nat \ {0}
  BY RingFacts
<1>2. PICK p \in Nat, r \in 0..(Ring - 1) : x = Ring * p + r /\ x % Ring = r
  BY <1>1, Division
<1>3. x + k \in Nat
  BY <1>1
<1>4. PICK q \in Nat, s \in 0..(Ring - 1) : x + k = Ring * q + s /\ (x + k) % Ring = s
  BY <1>1, <1>3, Division
<1>5. Ring * p \in Nat /\ Ring * q \in Nat /\ Ring * (p + 1) = Ring * p + Ring
  BY <1>1
<1>6. CASE r + k < Ring
  <2>1. r + k \in 0..(Ring - 1) /\ Ring * p + (r + k) = Ring * q + s
    BY <1>1, <1>2, <1>4, <1>5, <1>6
  <2>2. r + k = s
    BY <1>1, <2>1, DivisionUnique
  <2>. QED  BY <1>2, <1>4, <1>6, <2>2 DEF SlotOf
<1>7. CASE ~(r + k < Ring)
  <2>1. /\ r + k - Ring \in 0..(Ring - 1) /\ p + 1 \in Nat
        /\ Ring * (p + 1) + (r + k - Ring) = Ring * q + s
    BY <1>1, <1>2, <1>4, <1>5, <1>7
  <2>2. r + k - Ring = s
    BY <1>1, <2>1, DivisionUnique
  <2>. QED  BY <1>2, <1>4, <1>7, <2>2 DEF SlotOf
<1>. QED  BY <1>6, <1>7

LEMMA SlotZero == SlotOf(0) = 0
<1>1. Ring \in Nat \ {0}
  BY RingFacts
<1>2. PICK q \in Nat, s \in 0..(Ring - 1) : 0 = Ring * q + s /\ 0 % Ring = s
  BY <1>1, Division
<1>3. Ring * q \in Nat
  BY <1>1
<1>. QED  BY <1>2, <1>3 DEF SlotOf

LEMMA SlotRange ==
  ASSUME NEW x \in Nat
  PROVE  SlotOf(x) \in Slots /\ SlotOf(x) \in Nat /\ SlotOf(x) < Ring
<1>1. 0 \in 0..Ring /\ Ring \in Nat
  BY RingFacts
<1>2. SlotOf(x) \in 0..(Ring - 1)
  BY <1>1, SlotPlus
<1>. QED  BY <1>1, <1>2 DEF Slots

\* Hunks less than a ring apart have different slots.
LEMMA SlotsApart ==
  ASSUME NEW g \in Nat, NEW h \in Nat, g < h, h < g + Ring
  PROVE  SlotOf(g) # SlotOf(h)
<1>1. Ring \in Nat \ {0}
  BY RingFacts
<1>2. h - g \in 0..Ring /\ h - g > 0 /\ h - g < Ring /\ g + (h - g) = h
  BY <1>1
<1>3. /\ SlotOf(g) \in 0..(Ring - 1)
      /\ SlotOf(g + (h - g)) = IF SlotOf(g) + (h - g) < Ring THEN SlotOf(g) + (h - g)
                               ELSE SlotOf(g) + (h - g) - Ring
  BY <1>2, SlotPlus
<1>. HIDE DEF SlotOf
<1>. QED  BY <1>1, <1>2, <1>3

LEMMA SameSlot ==
  ASSUME NEW w \in Nat, NEW g \in w..(w + Ring - 1), NEW h \in w..(w + Ring - 1),
         SlotOf(g) = SlotOf(h)
  PROVE  g = h
<1>1. /\ g \in Nat /\ h \in Nat /\ Ring \in Nat \ {0} /\ g < h + Ring /\ h < g + Ring
  BY RingFacts
<1>2. ~(g < h)
  BY <1>1, SlotsApart
<1>3. ~(h < g)
  BY <1>1, SlotsApart
<1>. QED  BY <1>1, <1>2, <1>3

\* A ring further the slot is the same.
LEMMA NextRound ==
  ASSUME NEW x \in Nat
  PROVE  SlotOf(x + Ring) = SlotOf(x)
<1>1. Ring \in Nat \ {0} /\ Ring \in 0..Ring
  BY RingFacts
<1>2. /\ SlotOf(x) \in 0..(Ring - 1)
      /\ SlotOf(x + Ring) = IF SlotOf(x) + Ring < Ring THEN SlotOf(x) + Ring
                            ELSE SlotOf(x) + Ring - Ring
  BY <1>1, SlotPlus
<1>. HIDE DEF SlotOf
<1>. QED  BY <1>1, <1>2

\* Any ring's length of hunks uses every slot.
LEMMA SlotsUsed ==
  ASSUME NEW w \in Nat, NEW i \in Slots
  PROVE  \E h \in w..(w + Ring - 1) : SlotOf(h) = i
<1>1. Ring \in Nat \ {0} /\ i \in 0..(Ring - 1) /\ SlotOf(w) \in 0..(Ring - 1)
  BY RingFacts, SlotRange DEF Slots
<1>2. CASE SlotOf(w) <= i
  <2>1. i - SlotOf(w) \in 0..Ring /\ i - SlotOf(w) < Ring /\ SlotOf(w) + (i - SlotOf(w)) = i
    <3>. HIDE DEF SlotOf
    <3>. QED  BY <1>1, <1>2
  <2>2. SlotOf(w + (i - SlotOf(w))) = i
    <3>1. SlotOf(w + (i - SlotOf(w))) =
            IF SlotOf(w) + (i - SlotOf(w)) < Ring THEN SlotOf(w) + (i - SlotOf(w))
            ELSE SlotOf(w) + (i - SlotOf(w)) - Ring
      BY <2>1, SlotPlus
    <3>. QED  BY <1>1, <2>1, <3>1
  <2>3. w + (i - SlotOf(w)) \in w..(w + Ring - 1)
    <3>. HIDE DEF SlotOf
    <3>. QED  BY <1>1, <2>1
  <2>. QED  BY <2>2, <2>3
<1>3. CASE ~(SlotOf(w) <= i)
  <2>1. /\ i + Ring - SlotOf(w) \in 0..Ring /\ i + Ring - SlotOf(w) < Ring
        /\ ~(SlotOf(w) + (i + Ring - SlotOf(w)) < Ring)
        /\ SlotOf(w) + (i + Ring - SlotOf(w)) - Ring = i
    <3>. HIDE DEF SlotOf
    <3>. QED  BY <1>1, <1>3
  <2>2. SlotOf(w + (i + Ring - SlotOf(w))) = i
    <3>1. SlotOf(w + (i + Ring - SlotOf(w))) =
            IF SlotOf(w) + (i + Ring - SlotOf(w)) < Ring THEN SlotOf(w) + (i + Ring - SlotOf(w))
            ELSE SlotOf(w) + (i + Ring - SlotOf(w)) - Ring
      BY <2>1, SlotPlus
    <3>. QED  BY <2>1, <3>1
  <2>3. w + (i + Ring - SlotOf(w)) \in w..(w + Ring - 1)
    <3>. HIDE DEF SlotOf
    <3>. QED  BY <1>1, <2>1
  <2>. QED  BY <2>2, <2>3
<1>. QED  BY <1>2, <1>3

\* Halves of the ring: the next one, and the places in one.
LEMMA NextHalf ==
  ASSUME NEW x \in Nat
  PROVE  /\ SlotOf(x) \in {0, Half} => SlotOf(x + Half) \in {0, Half}
         /\ SlotOf(x + Half) \in {0, Half} => SlotOf(x) \in {0, Half}
         /\ SlotOf(x) \in {0, Half} =>
              \A k \in 0..(Half - 1) : SlotOf(x + k) = SlotOf(x) + k
<1>1. /\ Ring \in Nat \ {0} /\ Half \in Nat \ {0} /\ Ring = Half + Half
      /\ Half \in 0..Ring /\ \A k \in 0..(Half - 1) : k \in 0..Ring
  BY RingFacts
<1>2. /\ SlotOf(x) \in 0..(Ring - 1)
      /\ SlotOf(x + Half) = IF SlotOf(x) + Half < Ring THEN SlotOf(x) + Half
                            ELSE SlotOf(x) + Half - Ring
  BY <1>1, SlotPlus
<1>3. \A k \in 0..(Half - 1) :
        SlotOf(x + k) = IF SlotOf(x) + k < Ring THEN SlotOf(x) + k ELSE SlotOf(x) + k - Ring
  BY <1>1, SlotPlus
<1>. HIDE DEF SlotOf, Half
<1>. QED  BY <1>1, <1>2, <1>3

----------------------------------------------------------------------------
\* The inductive invariant.

\* How far hunks have been given to the workers, and how far they have been read.
Spawning ==
  CASE reader.pc = "spawn"  -> reader.next
    [] reader.pc = "assign" -> reader.next + 1
    [] reader.pc = "idle"   -> doneOffset
    [] OTHER                -> reader.to

Reading == IF reader.pc = "idle" THEN doneOffset ELSE reader.to

SlotFields == {"status", "hunk", "osd", "hash", "packed"}

Items == [slot : Slots, hunk : Nat, walk : BOOLEAN]

\* The shape of the variables.
Shape ==
  /\ job \in Sessions /\ walking \in BOOLEAN /\ (walking => HasParent)
  /\ readError \in BOOLEAN
  /\ readOffset \in Nat /\ doneOffset \in Nat /\ writeHunk \in Nat /\ tasks \in 0..2
  /\ DOMAIN slot = Slots /\ \A i \in Slots : DOMAIN slot[i] = SlotFields
  /\ DOMAIN data = 0..Ring /\ queue \in Seq(Items)
  /\ reader \in [pc : {"idle", "spawn", "assign", "sum", "advance"},
                 from : Nat, to : Nat, next : Nat]
  /\ DOMAIN worker = Workers /\ \A w \in Workers : DOMAIN worker[w] = {"pc", "item"}

\* The reads that are queued are those of the half rings from doneOffset to readOffset,
\* unless one has failed, after which no more are done.
ReadsQueuedUp ==
  /\ SlotOf(readOffset) \in {0, Half}
  /\ doneOffset <= readOffset /\ doneOffset <= Hunks
  /\ ~readError =>
       /\ tasks = 0 => doneOffset = readOffset \/ (doneOffset = Hunks /\ Hunks <= readOffset)
       /\ tasks = 1 => readOffset = doneOffset + Half /\ doneOffset < Hunks
       /\ tasks = 2 => readOffset = doneOffset + Ring /\ doneOffset + Half < Hunks
  /\ reader.pc # "idle" =>
       /\ ~readError /\ tasks > 0 /\ reader.from = doneOffset
       /\ reader.to = IF doneOffset + Half <= Hunks THEN doneOffset + Half ELSE Hunks
  /\ reader.pc \in {"spawn", "assign"} => reader.from <= reader.next /\ reader.next < reader.to

\* The ring from the hunk that is written next: hunks with the workers or done, places
\* that are being read to, and places that are free.
RingLayout ==
  /\ writeHunk <= Spawning /\ readOffset <= writeHunk + Ring
  /\ walking => readOffset < writeHunk + Ring
  /\ \A h \in writeHunk..(writeHunk + Ring - 1) :
       /\ h < Spawning => /\ slot[SlotOf(h)].status \in {"queued", "complete"}
                          /\ slot[SlotOf(h)].hunk = h
       /\ Spawning <= h /\ h < readOffset => slot[SlotOf(h)].status = "reading"
       /\ readOffset <= h => slot[SlotOf(h)].status = "ready"

\* A work item is out for a hunk that is queued, and no other is.
IsOut(it) ==
  /\ it.hunk \in writeHunk..(Spawning - 1) /\ it.slot = SlotOf(it.hunk)
  /\ slot[it.slot].status = "queued"

Packing(w) == worker[w].pc = "pack"

ItemsOut ==
  /\ \A k \in DOMAIN queue : IsOut(queue[k])
  /\ \A j, k \in DOMAIN queue : queue[j].hunk = queue[k].hunk => j = k
  /\ \A w \in Workers : Packing(w) =>
       /\ IsOut(worker[w].item)
       /\ \A k \in DOMAIN queue : queue[k].hunk # worker[w].item.hunk
       /\ \A v \in Workers : Packing(v) /\ worker[v].item.hunk = worker[w].item.hunk => v = w

Processing == pc = "process" => slot[SlotOf(writeHunk)].status = "complete"

LayoutInv == Shape /\ ReadsQueuedUp /\ RingLayout /\ ItemsOut /\ Processing

\* What has been read is in its place, and behind a hunk of the parent the next one,
\* as far as the parent has them.
DataRead ==
  \A h \in writeHunk..(Reading - 1) :
    IF walking
    THEN /\ h < Len(job.parent) => data[SlotOf(h)] = job.parent[h + 1]
         /\ h + 1 < Hunks /\ h + 1 < Len(job.parent) => data[SlotOf(h) + 1] = job.parent[h + 2]
    ELSE data[SlotOf(h)] = job.source[h + 1]

LEMMA SessionFacts ==
  ASSUME Shape
  PROVE  /\ Hunks \in Nat /\ HunkUnits \in Nat \ {0} /\ Ring \in Nat \ {0}
         /\ Half \in Nat \ {0} /\ Ring = Half + Half
         /\ job.source \in Seq([1..HunkUnits -> Nat]) /\ job.parent \in Seq([1..HunkUnits -> Nat])
<1>1. job \in Sessions
  BY DEF Shape
<1>2. /\ job.source \in Seq([1..HunkUnits -> Nat]) /\ job.parent \in Seq([1..HunkUnits -> Nat])
      /\ HunkUnits \in Nat \ {0}
  BY <1>1, SessionsAssumption
<1>3. Hunks \in Nat
  BY <1>2 DEF Hunks
<1>. QED  BY <1>2, <1>3, RingFacts

\* Hunks are read before they are given to the workers.
LEMMA SpawnFacts ==
  ASSUME Shape, ReadsQueuedUp
  PROVE  /\ Spawning \in Nat /\ Reading \in Nat /\ Hunks \in Nat
         /\ doneOffset <= Spawning /\ Spawning <= Reading
         /\ Reading <= readOffset /\ Reading <= Hunks
<1>1. /\ Hunks \in Nat /\ Half \in Nat \ {0} /\ Ring = Half + Half
      /\ doneOffset \in Nat /\ readOffset \in Nat /\ tasks \in 0..2
      /\ reader \in [pc : {"idle", "spawn", "assign", "sum", "advance"},
                     from : Nat, to : Nat, next : Nat]
      /\ doneOffset <= readOffset /\ doneOffset <= Hunks
  BY SessionFacts DEF Shape, ReadsQueuedUp
<1>. HIDE DEF Half, Hunks
<1>2. CASE reader.pc = "idle"
  BY <1>1, <1>2 DEF Spawning, Reading
<1>3. CASE reader.pc # "idle"
  <2>1. /\ tasks = 1 \/ tasks = 2
        /\ tasks = 1 => readOffset = doneOffset + Half /\ doneOffset < Hunks
        /\ tasks = 2 => readOffset = doneOffset + Ring /\ doneOffset + Half < Hunks
        /\ reader.from = doneOffset
        /\ reader.to = IF doneOffset + Half <= Hunks THEN doneOffset + Half ELSE Hunks
    BY <1>1, <1>3 DEF ReadsQueuedUp
  <2>2. reader.to <= readOffset /\ reader.to <= Hunks /\ doneOffset < reader.to
    BY <1>1, <2>1
  <2>3. Reading = reader.to
    BY <1>3 DEF Reading
  <2>4. CASE reader.pc \in {"spawn", "assign"}
    <3>1. reader.from <= reader.next /\ reader.next < reader.to
      BY <2>4 DEF ReadsQueuedUp
    <3>2. Spawning = reader.next \/ Spawning = reader.next + 1
      BY <2>4 DEF Spawning
    <3>. QED  BY <1>1, <2>1, <2>2, <2>3, <3>1, <3>2
  <2>5. CASE reader.pc \in {"sum", "advance"}
    <3>1. Spawning = reader.to
      BY <2>5 DEF Spawning
    <3>. QED  BY <1>1, <2>2, <2>3, <3>1
  <2>. QED  BY <1>1, <1>3, <2>4, <2>5
<1>. QED  BY <1>2, <1>3

\* The places of the ring in use lie in one round of it.
LEMMA InOneRound ==
  ASSUME LayoutInv
  PROVE  /\ writeHunk \in Nat /\ readOffset \in Nat /\ Spawning \in Nat /\ Ring \in Nat \ {0}
         /\ writeHunk <= Spawning /\ Spawning <= readOffset /\ readOffset <= writeHunk + Ring
         /\ \A g, h \in writeHunk..(writeHunk + Ring - 1) : SlotOf(g) = SlotOf(h) => g = h
<1>1. /\ Shape /\ ReadsQueuedUp /\ RingLayout
  BY DEF LayoutInv
<1>2. writeHunk \in Nat /\ readOffset \in Nat
  BY <1>1 DEF Shape
<1>3. writeHunk <= Spawning /\ readOffset <= writeHunk + Ring
  BY <1>1 DEF RingLayout
<1>4. Spawning \in Nat /\ Spawning <= readOffset
  <2>1. Spawning \in Nat /\ Spawning <= Reading /\ Reading <= readOffset /\ Reading \in Nat
    BY <1>1, SpawnFacts
  <2>. QED  BY <1>2, <2>1
<1>5. \A g, h \in writeHunk..(writeHunk + Ring - 1) : SlotOf(g) = SlotOf(h) => g = h
  BY <1>2, SameSlot
<1>. QED  BY <1>2, <1>3, <1>4, <1>5, RingFacts

\* The slot of the next hunk to be written, once its work is complete.
LEMMA CompleteIsSpawned ==
  ASSUME LayoutInv, slot[SlotOf(writeHunk)].status = "complete"
  PROVE  writeHunk < Spawning
<1>1. /\ writeHunk \in Nat /\ Spawning \in Nat /\ readOffset \in Nat /\ Ring \in Nat \ {0}
      /\ writeHunk <= Spawning
  BY InOneRound
<1>2. writeHunk \in writeHunk..(writeHunk + Ring - 1)
  BY <1>1
<1>3. /\ Spawning <= writeHunk /\ writeHunk < readOffset => slot[SlotOf(writeHunk)].status = "reading"
      /\ readOffset <= writeHunk => slot[SlotOf(writeHunk)].status = "ready"
  BY <1>2 DEF LayoutInv, RingLayout
<1>. QED  BY <1>1, <1>3

\* A step that keeps the slots' statuses and hunks, and how far everything has come.
LEMMA SameRing ==
  ASSUME LayoutInv, writeHunk' = writeHunk, readOffset' = readOffset, walking' = walking,
         Spawning' = Spawning,
         \A i \in Slots : slot'[i].status = slot[i].status /\ slot'[i].hunk = slot[i].hunk
  PROVE  /\ RingLayout'
         /\ \A it : IsOut(it) => IsOut(it)'
<1>1. writeHunk \in Nat /\ RingLayout /\ Ring \in Nat \ {0}
  BY RingFacts DEF LayoutInv, Shape
<1>2. \A h \in writeHunk..(writeHunk + Ring - 1) : h \in Nat /\ SlotOf(h) \in Slots
  BY <1>1, SlotRange
<1>3. RingLayout'
  <2>. HIDE DEF Spawning
  <2>. QED  BY <1>1, <1>2 DEF RingLayout
<1>4. ASSUME NEW it, IsOut(it) PROVE IsOut(it)'
  <2>1. /\ it.hunk \in writeHunk..(Spawning - 1) /\ it.slot = SlotOf(it.hunk)
        /\ slot[it.slot].status = "queued"
    BY <1>4 DEF IsOut
  <2>2. it.hunk \in Nat
    BY <1>1, <2>1
  <2>3. it.slot \in Slots
    BY <2>1, <2>2, SlotRange
  <2>4. slot'[it.slot].status = "queued"
    BY <2>1, <2>3
  <2>. QED  BY <2>1, <2>4 DEF IsOut
<1>. QED  BY <1>3, <1>4

LEMMA PcStep ==
  ASSUME LayoutInv, Processing',
         UNCHANGED <<job, walking, readVars, slot, data, threadVars, outVars>>
  PROVE  LayoutInv'
BY DEF LayoutInv, Shape, ReadsQueuedUp, RingLayout, ItemsOut, IsOut, Packing, Spawning,
       readVars, threadVars, outVars, HasParent, Hunks

----------------------------------------------------------------------------
\* The caller's steps keep the layout of the ring.

LEMMA QueueReadKeeps ==
  ASSUME LayoutInv, QueueRead
  PROVE  LayoutInv' /\ Spawning' = Spawning /\ Reading' = Reading
<1>1. /\ pc = "read" /\ CanRead /\ tasks' = tasks + 1 /\ readOffset' = readOffset + Half
      /\ slot' = [i \in Slots |-> IF \E k \in 0..(Half - 1) : i = SlotOf(readOffset + k)
                                  THEN [slot[i] EXCEPT !.status = "reading"] ELSE slot[i]]
      /\ UNCHANGED <<job, walking, doneOffset, readError, data, reader, queue, worker, outVars,
                     pc, outcome>>
  BY DEF QueueRead
<1>2. /\ Shape /\ ReadsQueuedUp /\ RingLayout /\ ItemsOut
  BY DEF LayoutInv
<1>3. /\ Hunks \in Nat /\ Half \in Nat \ {0} /\ Ring \in Nat /\ Ring = Half + Half
      /\ writeHunk \in Nat /\ readOffset \in Nat /\ Spawning \in Nat /\ doneOffset \in Nat
      /\ writeHunk <= Spawning /\ Spawning <= readOffset /\ readOffset <= writeHunk + Ring
      /\ \A g, h \in writeHunk..(writeHunk + Ring - 1) : SlotOf(g) = SlotOf(h) => g = h
  BY <1>2, SessionFacts, InOneRound DEF Shape
<1>4. Spawning' = Spawning /\ Reading' = Reading /\ writeHunk' = writeHunk /\ Hunks' = Hunks
  BY <1>1 DEF Spawning, Reading, outVars, Hunks
<1>. DEFINE New(i) == \E k \in 0..(Half - 1) : i = SlotOf(readOffset + k)
<1>. HIDE DEF Half, Hunks, Spawning, Reading
\* There is room for half a ring.
<1>5. /\ \A k \in 0..(Half - 1) : slot[SlotOf(readOffset + k)].status = "ready"
      /\ walking => slot[SlotOf(readOffset + Half)].status = "ready"
      /\ readOffset < Hunks /\ tasks < 2
  BY <1>1 DEF CanRead
<1>6. ASSUME NEW k \in 0..Half, slot[SlotOf(readOffset + k)].status = "ready"
      PROVE  readOffset + k # writeHunk + Ring
  <2>1. SUFFICES ASSUME readOffset + k = writeHunk + Ring PROVE FALSE
    OBVIOUS
  <2>2. slot[SlotOf(writeHunk)].status = "ready"
    BY <1>3, <1>6, <2>1, NextRound
  <2>3. writeHunk \in writeHunk..(writeHunk + Ring - 1)
    BY <1>3
  <2>4. /\ writeHunk < Spawning => slot[SlotOf(writeHunk)].status \in {"queued", "complete"}
        /\ Spawning <= writeHunk /\ writeHunk < readOffset
             => slot[SlotOf(writeHunk)].status = "reading"
    BY <1>2, <2>3 DEF RingLayout
  <2>5. readOffset = writeHunk
    BY <1>3, <2>2, <2>4
  <2>. QED  BY <1>3, <2>1, <2>5
<1>7. readOffset + Half <= writeHunk + Ring
  <2>1. SUFFICES ASSUME ~(readOffset + Half <= writeHunk + Ring) PROVE FALSE
    OBVIOUS
  <2>2. PICK k : k = writeHunk + Ring - readOffset
    OBVIOUS
  <2>3. k \in 0..(Half - 1) /\ k \in 0..Half /\ readOffset + k = writeHunk + Ring
    BY <1>3, <2>1, <2>2
  <2>. QED  BY <1>5, <1>6, <2>3
<1>8. walking => readOffset + Half < writeHunk + Ring
  BY <1>3, <1>5, <1>6, <1>7
\* The slots set aside.
<1>9. \A i \in Slots : /\ DOMAIN slot'[i] = SlotFields /\ slot'[i].hunk = slot[i].hunk
                       /\ slot'[i].status = IF New(i) THEN "reading" ELSE slot[i].status
  <2>1. \A i \in Slots : slot'[i] = IF New(i) THEN [slot[i] EXCEPT !.status = "reading"] ELSE slot[i]
    BY <1>1
  <2>. HIDE DEF New
  <2>. QED  BY <1>2, <2>1 DEF Shape, SlotFields
<1>10. ASSUME NEW h \in writeHunk..(writeHunk + Ring - 1)
       PROVE  /\ SlotOf(h) \in Slots
              /\ New(SlotOf(h)) <=> readOffset <= h /\ h < readOffset + Half
  <2>1. h \in Nat /\ SlotOf(h) \in Slots
    BY <1>3, SlotRange
  <2>2. ASSUME New(SlotOf(h)) PROVE readOffset <= h /\ h < readOffset + Half
    <3>1. PICK k \in 0..(Half - 1) : SlotOf(h) = SlotOf(readOffset + k)
      BY <2>2
    <3>2. readOffset + k \in writeHunk..(writeHunk + Ring - 1)
      BY <1>3, <1>7
    <3>3. h = readOffset + k
      BY <1>3, <3>1, <3>2
    <3>. QED  BY <1>3, <3>3
  <2>3. ASSUME readOffset <= h, h < readOffset + Half PROVE New(SlotOf(h))
    <3>1. h - readOffset \in 0..(Half - 1) /\ readOffset + (h - readOffset) = h
      BY <1>3, <2>1, <2>3
    <3>. QED  BY <3>1
  <2>. QED  BY <2>1, <2>2, <2>3
<1>. HIDE DEF New
<1>11. Shape'
  <2>1. tasks' \in 0..2 /\ readOffset' \in Nat
    <3>1. tasks \in 0..2
      BY <1>2 DEF Shape
    <3>. QED  BY <1>1, <1>3, <1>5, <3>1
  <2>2. DOMAIN slot' = Slots
    BY <1>1
  <2>. QED  BY <1>1, <1>2, <1>9, <2>1, <2>2 DEF Shape, outVars, HasParent
<1>12. ReadsQueuedUp'
  <2>1. SlotOf(readOffset') \in {0, Half}
    BY <1>1, <1>2, <1>3, NextHalf DEF ReadsQueuedUp
  <2>2. tasks \in 0..2 /\ tasks' = tasks + 1 /\ readOffset' = readOffset + Half
    BY <1>1, <1>2 DEF Shape
  <2>3. doneOffset <= readOffset'
    BY <1>2, <1>3, <2>2 DEF ReadsQueuedUp
  <2>4. ~readError =>
          /\ tasks' = 0 => doneOffset = readOffset' \/ (doneOffset = Hunks /\ Hunks <= readOffset')
          /\ tasks' = 1 => readOffset' = doneOffset + Half /\ doneOffset < Hunks
          /\ tasks' = 2 => readOffset' = doneOffset + Ring /\ doneOffset + Half < Hunks
    <3>1. SUFFICES ASSUME ~readError
                   PROVE  /\ tasks = 0 => readOffset' = doneOffset + Half /\ doneOffset < Hunks
                          /\ tasks = 1 => readOffset' = doneOffset + Ring /\ doneOffset + Half < Hunks
      BY <1>5, <2>2
    <3>2. tasks = 0 => doneOffset = readOffset
      BY <1>2, <1>3, <1>5, <3>1 DEF ReadsQueuedUp
    <3>3. tasks = 1 => readOffset = doneOffset + Half
      BY <1>2, <3>1 DEF ReadsQueuedUp
    <3>. QED  BY <1>3, <1>5, <2>2, <3>2, <3>3
  <2>5. /\ reader' = reader /\ readError' = readError /\ doneOffset' = doneOffset
        /\ (tasks > 0 => tasks' > 0)
    BY <1>1, <2>2
  <2>. QED  BY <1>2, <1>4, <2>1, <2>3, <2>4, <2>5 DEF ReadsQueuedUp
<1>13. RingLayout'
  <2>1. ASSUME NEW h \in writeHunk..(writeHunk + Ring - 1)
        PROVE  /\ h < Spawning => /\ slot'[SlotOf(h)].status \in {"queued", "complete"}
                                  /\ slot'[SlotOf(h)].hunk = h
               /\ Spawning <= h /\ h < readOffset' => slot'[SlotOf(h)].status = "reading"
               /\ readOffset' <= h => slot'[SlotOf(h)].status = "ready"
    <3>1. /\ h < Spawning => /\ slot[SlotOf(h)].status \in {"queued", "complete"}
                             /\ slot[SlotOf(h)].hunk = h
          /\ Spawning <= h /\ h < readOffset => slot[SlotOf(h)].status = "reading"
          /\ readOffset <= h => slot[SlotOf(h)].status = "ready"
      BY <1>2 DEF RingLayout
    <3>2. /\ slot'[SlotOf(h)].hunk = slot[SlotOf(h)].hunk
          /\ slot'[SlotOf(h)].status = IF readOffset <= h /\ h < readOffset + Half THEN "reading"
                                       ELSE slot[SlotOf(h)].status
      BY <1>9, <1>10
    <3>3. readOffset' = readOffset + Half /\ h \in Nat
      BY <1>1, <1>3
    <3>. QED  BY <1>3, <3>1, <3>2, <3>3
  <2>. QED  BY <1>1, <1>2, <1>4, <1>7, <1>8, <2>1 DEF RingLayout
<1>14. \A it : IsOut(it) => IsOut(it)'
  <2>1. SUFFICES ASSUME NEW it, IsOut(it) PROVE IsOut(it)'
    OBVIOUS
  <2>2. /\ it.hunk \in writeHunk..(Spawning - 1) /\ it.slot = SlotOf(it.hunk)
        /\ slot[it.slot].status = "queued"
    BY <2>1 DEF IsOut
  <2>3. it.hunk \in writeHunk..(writeHunk + Ring - 1) /\ ~(readOffset <= it.hunk)
    BY <1>3, <2>2
  <2>4. slot'[it.slot].status = "queued"
    BY <1>9, <1>10, <2>2, <2>3
  <2>. QED  BY <1>4, <2>2, <2>4 DEF IsOut
<1>15. ItemsOut'
  BY <1>1, <1>2, <1>14 DEF ItemsOut, Packing
<1>16. Processing'
  BY <1>1 DEF Processing
<1>. QED  BY <1>4, <1>11, <1>12, <1>13, <1>15, <1>16 DEF LayoutInv

\* When the last hunk of the parent is complete, nothing is under way.
LEMMA WalkEnds ==
  ASSUME LayoutInv, pc = "process", LastHunk, tasks = 0
  PROVE  reader.pc = "idle" /\ DOMAIN queue = {} /\ \A w \in Workers : ~Packing(w)
<1>1. reader.pc = "idle"
  BY DEF LayoutInv, ReadsQueuedUp
<1>2. /\ writeHunk \in Nat /\ Spawning \in Nat /\ Hunks \in Nat /\ Spawning <= Hunks
      /\ writeHunk + 1 = Hunks
  <2>1. /\ Spawning \in Nat /\ Reading \in Nat /\ Hunks \in Nat /\ Spawning <= Reading
        /\ Reading <= Hunks
    BY SpawnFacts DEF LayoutInv
  <2>2. writeHunk \in Nat /\ writeHunk + 1 = Hunks
    BY DEF LayoutInv, Shape, LastHunk
  <2>. QED  BY <2>1, <2>2
<1>3. slot[SlotOf(writeHunk)].status = "complete"
  BY DEF LayoutInv, Processing
<1>4. ASSUME NEW it, IsOut(it) PROVE FALSE
  <2>1. /\ it.hunk \in writeHunk..(Spawning - 1) /\ it.slot = SlotOf(it.hunk)
        /\ slot[it.slot].status = "queued"
    BY <1>4 DEF IsOut
  <2>2. it.hunk = writeHunk
    <3>. HIDE DEF Hunks, Spawning
    <3>. QED  BY <1>2, <2>1
  <2>. QED  BY <1>3, <2>1, <2>2
<1>. QED  BY <1>1, <1>4 DEF LayoutInv, ItemsOut

LEMMA RestartKeeps ==
  ASSUME LayoutInv, tasks = 0, ProcessHunk, LastHunk, walking
  PROVE  LayoutInv' /\ writeHunk' = 0 /\ Reading' = 0
<1>1. /\ pc = "process" /\ RestartRing
      /\ UNCHANGED <<job, readError, data, threadVars, sha, outcome>>
  BY DEF ProcessHunk
<1>2. /\ Shape /\ ReadsQueuedUp /\ RingLayout /\ ItemsOut /\ tasks = 0
      /\ Hunks \in Nat /\ Ring \in Nat \ {0}
  BY <1>1, SessionFacts DEF LayoutInv, RestartRing
<1>3. reader.pc = "idle" /\ DOMAIN queue = {} /\ \A w \in Workers : ~Packing(w)
  BY <1>1, <1>2, WalkEnds
<1>4. /\ walking' = FALSE /\ writeHunk' = 0 /\ readOffset' = 0 /\ doneOffset' = 0 /\ pc' = "flush"
      /\ reader' = reader /\ queue' = queue /\ worker' = worker /\ tasks' = 0 /\ job' = job
      /\ readError' = readError /\ data' = data
  BY <1>1, <1>2 DEF RestartRing, threadVars
<1>5. Spawning' = 0 /\ Reading' = 0
  BY <1>3, <1>4 DEF Spawning, Reading
<1>6. /\ DOMAIN slot' = Slots
      /\ \A i \in Slots : DOMAIN slot'[i] = SlotFields /\ slot'[i].status = "ready"
  <2>1. slot' = [i \in Slots |-> [slot[i] EXCEPT !.status = "ready"]]
    BY <1>1 DEF RestartRing
  <2>. QED  BY <1>2, <2>1 DEF Shape, SlotFields
<1>7. Shape'
  BY <1>2, <1>4, <1>6 DEF Shape
<1>8. ReadsQueuedUp'
  BY <1>2, <1>3, <1>4, SlotZero DEF ReadsQueuedUp, Hunks
<1>9. RingLayout'
  <2>1. \A h \in 0..(0 + Ring - 1) : slot'[SlotOf(h)].status = "ready" /\ 0 <= h /\ ~(h < 0)
    BY <1>2, <1>6, SlotRange
  <2>. HIDE DEF Spawning
  <2>. QED  BY <1>2, <1>4, <1>5, <2>1 DEF RingLayout
<1>10. ItemsOut' /\ Processing'
  BY <1>3, <1>4 DEF ItemsOut, Processing, Packing
<1>. QED  BY <1>4, <1>5, <1>7, <1>8, <1>9, <1>10 DEF LayoutInv

LEMMA ProcessKeeps ==
  ASSUME LayoutInv, ProcessHunk, ~(LastHunk /\ walking)
  PROVE  /\ LayoutInv' /\ writeHunk' = writeHunk + 1 /\ Reading' = Reading
         /\ data' = data /\ walking' = walking /\ job' = job
<1>1. /\ pc = "process"
      /\ slot' = [slot EXCEPT ![SlotOf(writeHunk)].status = "ready"]
      /\ writeHunk' = writeHunk + 1 /\ pc' \in {"finish", "flush"}
      /\ UNCHANGED <<walking, readOffset, doneOffset>>
      /\ UNCHANGED <<job, readError, data, threadVars, sha, outcome>>
  BY DEF ProcessHunk
<1>2. /\ Shape /\ ReadsQueuedUp /\ RingLayout /\ ItemsOut
      /\ slot[SlotOf(writeHunk)].status = "complete"
  BY <1>1 DEF LayoutInv, Processing
<1>3. /\ Ring \in Nat \ {0} /\ writeHunk < Spawning
      /\ writeHunk \in Nat /\ readOffset \in Nat /\ Spawning \in Nat
      /\ Spawning <= readOffset /\ readOffset <= writeHunk + Ring
  BY <1>2, InOneRound, CompleteIsSpawned
<1>4. /\ Spawning' = Spawning /\ Reading' = Reading
      /\ reader' = reader /\ queue' = queue /\ worker' = worker
  BY <1>1 DEF Spawning, Reading, threadVars
<1>. DEFINE c == SlotOf(writeHunk)
<1>. HIDE DEF Spawning, Reading
<1>5. c \in Slots
  BY <1>3, SlotRange
<1>6. PICK s \in Slots : s = c
  BY <1>5
<1>. HIDE DEF c
<1>7. /\ DOMAIN slot' = Slots /\ \A i \in Slots : DOMAIN slot'[i] = SlotFields
      /\ slot'[s].status = "ready" /\ \A i \in Slots : i # s => slot'[i] = slot[i]
  <2>1. slot' = [slot EXCEPT ![s].status = "ready"]
    BY <1>1, <1>6 DEF c
  <2>. QED  BY <1>2, <2>1 DEF Shape, SlotFields
<1>8. ASSUME NEW h \in (writeHunk + 1)..(writeHunk + 1 + Ring - 1)
      PROVE  /\ SlotOf(h) \in Slots /\ (SlotOf(h) = s <=> h = writeHunk + Ring)
             /\ h \in Nat /\ h <= writeHunk + Ring
  <2>1. h \in Nat /\ SlotOf(h) \in Slots /\ h <= writeHunk + Ring /\ writeHunk < h
    BY <1>3, SlotRange
  <2>2. CASE h = writeHunk + Ring
    BY <1>3, <1>6, <2>1, <2>2, NextRound DEF c
  <2>3. CASE h # writeHunk + Ring
    <3>1. h < writeHunk + Ring
      BY <1>3, <2>1, <2>3
    <3>. QED  BY <1>3, <1>6, <2>1, <2>3, <3>1, SlotsApart DEF c
  <2>. QED  BY <2>2, <2>3
<1>9. Shape'
  BY <1>1, <1>2, <1>3, <1>4, <1>7 DEF Shape, threadVars, HasParent
<1>10. ReadsQueuedUp'
  BY <1>1, <1>2, <1>4 DEF ReadsQueuedUp, threadVars, Hunks
<1>11. RingLayout'
  <2>1. ASSUME NEW h \in (writeHunk + 1)..(writeHunk + 1 + Ring - 1)
        PROVE  /\ h < Spawning => /\ slot'[SlotOf(h)].status \in {"queued", "complete"}
                                  /\ slot'[SlotOf(h)].hunk = h
               /\ Spawning <= h /\ h < readOffset => slot'[SlotOf(h)].status = "reading"
               /\ readOffset <= h => slot'[SlotOf(h)].status = "ready"
    <3>1. CASE h = writeHunk + Ring
      <4>1. slot'[SlotOf(h)].status = "ready" /\ readOffset <= h /\ Spawning <= h
        BY <1>3, <1>7, <1>8, <3>1
      <4>. QED  BY <1>3, <1>8, <4>1
    <3>2. CASE h # writeHunk + Ring
      <4>1. h \in writeHunk..(writeHunk + Ring - 1) /\ slot'[SlotOf(h)] = slot[SlotOf(h)]
        BY <1>3, <1>7, <1>8, <3>2
      <4>. QED  BY <1>2, <4>1 DEF RingLayout
    <3>. QED  BY <3>1, <3>2
  <2>2. /\ writeHunk + 1 <= Spawning /\ readOffset <= writeHunk + 1 + Ring
        /\ walking => readOffset < writeHunk + 1 + Ring
    BY <1>3
  <2>. QED  BY <1>1, <1>4, <2>1, <2>2 DEF RingLayout
<1>12. \A it : IsOut(it) => IsOut(it)'
  <2>1. SUFFICES ASSUME NEW it, IsOut(it) PROVE IsOut(it)'
    OBVIOUS
  <2>2. /\ it.hunk \in writeHunk..(Spawning - 1) /\ it.slot = SlotOf(it.hunk)
        /\ slot[it.slot].status = "queued"
    BY <2>1 DEF IsOut
  <2>3. it.hunk # writeHunk
    BY <1>2, <2>2
  <2>4. it.hunk \in (writeHunk + 1)..(Spawning - 1) /\ it.hunk # writeHunk + Ring
        /\ it.hunk \in (writeHunk + 1)..(writeHunk + 1 + Ring - 1)
    BY <1>3, <2>2, <2>3
  <2>5. slot'[it.slot] = slot[it.slot]
    BY <1>7, <1>8, <2>2, <2>4
  <2>. QED  BY <1>1, <1>4, <2>2, <2>4, <2>5 DEF IsOut
<1>13. ItemsOut' /\ Processing'
  BY <1>1, <1>2, <1>4, <1>12 DEF ItemsOut, Packing, Processing
<1>. QED  BY <1>1, <1>4, <1>9, <1>10, <1>11, <1>13 DEF LayoutInv

\* The caller's steps that go on to wait, to read or to end.
LEMMA CallerGoesOn ==
  ASSUME LayoutInv,
         ReadsQueued \/ Finish \/ Flushed \/ WaitOver \/ WaitAgain \/ Rest
  PROVE  /\ LayoutInv'
         /\ UNCHANGED <<job, walking, readVars, slot, data, threadVars, outVars>>
<1>1. UNCHANGED <<job, walking, readVars, slot, data, threadVars, outVars>>
  BY DEF ReadsQueued, Finish, Flushed, WaitOver, WaitAgain, Rest, vars
<1>2. Processing'
  <2>2. CASE ReadsQueued \/ Finish \/ Flushed \/ WaitOver
    BY <2>2 DEF ReadsQueued, Finish, Flushed, WaitOver, Processing
  <2>3. CASE WaitAgain \/ Rest
    BY <2>3 DEF WaitAgain, Rest, vars, outVars, LayoutInv, Processing
  <2>. QED  BY <2>2, <2>3
<1>. QED  BY <1>1, <1>2, PcStep

\* The item of a hunk that is done is released.
LEMMA ReleaseItemKeeps ==
  ASSUME LayoutInv, ReleaseItem
  PROVE  LayoutInv' /\ Reading' = Reading
<1>1. PICK s : s = SlotOf(writeHunk)
  OBVIOUS
<1>2. /\ slot[s].status = "complete" /\ slot' = [slot EXCEPT ![s].osd = NoItem]
      /\ UNCHANGED <<job, walking, readVars, data, threadVars, outVars, outcome>>
  BY <1>1 DEF ReleaseItem, Current
<1>3. Spawning' = Spawning /\ Reading' = Reading
  BY <1>2 DEF Spawning, Reading, readVars, threadVars
<1>4. /\ DOMAIN slot' = Slots
      /\ \A i \in Slots : /\ DOMAIN slot'[i] = SlotFields
                          /\ slot'[i].status = slot[i].status /\ slot'[i].hunk = slot[i].hunk
  <2>1. DOMAIN slot = Slots /\ \A i \in Slots : DOMAIN slot[i] = SlotFields
    BY DEF LayoutInv, Shape
  <2>. QED  BY <1>2, <2>1 DEF SlotFields
<1>. HIDE DEF Spawning, Reading
<1>5. Shape'
  BY <1>2, <1>4 DEF LayoutInv, Shape, readVars, threadVars, outVars, HasParent
<1>6. ReadsQueuedUp'
  BY <1>2 DEF LayoutInv, ReadsQueuedUp, readVars, threadVars, Hunks
<1>7. RingLayout' /\ \A e : IsOut(e) => IsOut(e)'
  BY <1>2, <1>3, <1>4, SameRing DEF readVars, outVars
<1>8. ItemsOut'
  BY <1>2, <1>7 DEF LayoutInv, ItemsOut, Packing, threadVars
<1>9. Processing'
  <2>1. SlotOf(writeHunk) \in Slots
    BY InOneRound, SlotRange
  <2>. QED  BY <1>1, <1>2, <1>4, <2>1 DEF Processing, outVars
<1>. QED  BY <1>3, <1>5, <1>6, <1>7, <1>8, <1>9 DEF LayoutInv

----------------------------------------------------------------------------
\* The reader's steps.

LEMMA SkipReadKeeps ==
  ASSUME LayoutInv, SkipRead
  PROVE  LayoutInv' /\ Reading' = Reading
<1>1. /\ reader.pc = "idle" /\ tasks > 0 /\ readError /\ tasks' = tasks - 1
      /\ UNCHANGED <<job, walking, readVars, slot, data, reader, queue, worker, outVars, pc,
                     outcome>>
  BY DEF SkipRead
<1>2. tasks' \in 0..2
  BY <1>1 DEF LayoutInv, Shape
<1>3. Shape'
  BY <1>1, <1>2 DEF LayoutInv, Shape, readVars, outVars, HasParent
<1>4. ReadsQueuedUp'
  BY <1>1 DEF LayoutInv, ReadsQueuedUp, readVars, Hunks
<1>5. RingLayout' /\ ItemsOut' /\ Processing' /\ Reading' = Reading
  BY <1>1 DEF LayoutInv, RingLayout, ItemsOut, IsOut, Packing, Processing, Spawning, Reading,
              readVars, outVars
<1>. QED  BY <1>3, <1>4, <1>5 DEF LayoutInv

LEMMA FailReadKeeps ==
  ASSUME LayoutInv, FailRead
  PROVE  LayoutInv' /\ Reading' = Reading
<1>1. /\ reader.pc = "idle" /\ tasks > 0 /\ tasks' = tasks - 1 /\ readError' = TRUE
      /\ UNCHANGED <<job, walking, readOffset, doneOffset, slot, data, reader, queue, worker,
                     outVars, pc, outcome>>
  BY DEF FailRead
<1>2. tasks' \in 0..2
  BY <1>1 DEF LayoutInv, Shape
<1>3. Shape'
  BY <1>1, <1>2 DEF LayoutInv, Shape, outVars, HasParent
<1>4. ReadsQueuedUp'
  BY <1>1 DEF LayoutInv, ReadsQueuedUp, Hunks
<1>5. RingLayout' /\ ItemsOut' /\ Processing' /\ Reading' = Reading
  BY <1>1 DEF LayoutInv, RingLayout, ItemsOut, IsOut, Packing, Processing, Spawning, Reading, outVars
<1>. QED  BY <1>3, <1>4, <1>5 DEF LayoutInv

\* What a read that is queued reads.
LEMMA RangeFacts ==
  ASSUME LayoutInv, reader.pc = "idle", tasks > 0, ~readError
  PROVE  /\ doneOffset \in Nat /\ ReadRange.to \in Nat /\ doneOffset < ReadRange.to
         /\ ReadRange.to = IF doneOffset + Half <= Hunks THEN doneOffset + Half ELSE Hunks
         /\ ReadRange = [pc |-> "spawn", from |-> doneOffset, to |-> ReadRange.to,
                         next |-> doneOffset]
         /\ Hunks \in Nat /\ Half \in Nat
<1>1. /\ Hunks \in Nat /\ Half \in Nat \ {0} /\ Ring = Half + Half /\ doneOffset \in Nat
      /\ tasks \in 0..2
  BY SessionFacts DEF LayoutInv, Shape
<1>. HIDE DEF Half, Hunks
<1>2. doneOffset < Hunks
  BY <1>1 DEF LayoutInv, ReadsQueuedUp
<1>3. PICK t \in Nat : t = IF doneOffset + Half <= Hunks THEN doneOffset + Half ELSE Hunks
  BY <1>1
<1>4. Min({doneOffset + Half, Hunks}) = t
  <2>1. t \in {doneOffset + Half, Hunks} /\ \A y \in {doneOffset + Half, Hunks} : t <= y
    BY <1>1, <1>3
  <2>2. \A x \in {doneOffset + Half, Hunks} :
          (\A y \in {doneOffset + Half, Hunks} : x <= y) => x = t
    BY <1>1, <1>3
  <2>. QED  BY <2>1, <2>2 DEF Min
<1>5. doneOffset < t
  BY <1>1, <1>2, <1>3
<1>6. ReadRange = [pc |-> "spawn", from |-> doneOffset, to |-> t, next |-> doneOffset]
  BY <1>4, <1>5 DEF ReadRange
<1>. QED  BY <1>1, <1>3, <1>5, <1>6

LEMMA ReadHunksKeeps ==
  ASSUME LayoutInv, ReadHunks
  PROVE  LayoutInv' /\ Reading' = ReadRange.to /\ Reading = doneOffset
<1>1. /\ reader.pc = "idle" /\ tasks > 0 /\ ~readError /\ reader' = ReadRange
      /\ DOMAIN data' = 0..Ring
      /\ UNCHANGED <<job, walking, readVars, slot, tasks, queue, worker, outVars, pc, outcome>>
  BY DEF ReadHunks, Filled
<1>2. PICK t : t = ReadRange.to
  OBVIOUS
<1>3. /\ doneOffset \in Nat /\ t \in Nat /\ doneOffset < t
      /\ t = IF doneOffset + Half <= Hunks THEN doneOffset + Half ELSE Hunks
      /\ reader' = [pc |-> "spawn", from |-> doneOffset, to |-> t, next |-> doneOffset]
  BY <1>1, <1>2, RangeFacts
<1>4. Spawning' = doneOffset /\ Spawning = doneOffset /\ Reading' = t /\ Reading = doneOffset
  BY <1>1, <1>3 DEF Spawning, Reading
<1>. HIDE DEF Spawning, Reading
<1>5. Shape'
  BY <1>1, <1>3 DEF LayoutInv, Shape, readVars, outVars, HasParent
<1>6. ReadsQueuedUp'
  <2>. HIDE DEF Half
  <2>. QED  BY <1>1, <1>3 DEF LayoutInv, ReadsQueuedUp, readVars, Hunks
<1>7. RingLayout'
  BY <1>1, <1>4 DEF LayoutInv, RingLayout, readVars, outVars
<1>8. ItemsOut' /\ Processing'
  BY <1>1, <1>4 DEF LayoutInv, ItemsOut, IsOut, Packing, Processing, readVars, outVars
<1>. QED  BY <1>2, <1>4, <1>5, <1>6, <1>7, <1>8 DEF LayoutInv

LEMMA SumHunksKeeps ==
  ASSUME LayoutInv, SumHunks
  PROVE  LayoutInv' /\ Reading' = Reading
<1>1. /\ reader.pc = "sum" /\ reader' = [reader EXCEPT !.pc = "advance"]
      /\ UNCHANGED <<job, walking, readVars, slot, data, tasks, queue, worker,
                     parentMap, selfMap, writeHunk, map, image, pc, outcome>>
  BY DEF SumHunks
<1>2. /\ reader \in [pc : {"idle", "spawn", "assign", "sum", "advance"},
                     from : Nat, to : Nat, next : Nat]
  BY DEF LayoutInv, Shape
<1>3. /\ reader'.pc = "advance" /\ reader'.from = reader.from /\ reader'.to = reader.to
      /\ reader' \in [pc : {"idle", "spawn", "assign", "sum", "advance"},
                      from : Nat, to : Nat, next : Nat]
  BY <1>1, <1>2
<1>4. Spawning' = Spawning /\ Reading' = Reading
  BY <1>1, <1>3 DEF Spawning, Reading
<1>. HIDE DEF Spawning, Reading
<1>5. Shape'
  BY <1>1, <1>3 DEF LayoutInv, Shape, readVars, HasParent
<1>6. ReadsQueuedUp'
  BY <1>1, <1>3 DEF LayoutInv, ReadsQueuedUp, readVars, Hunks
<1>7. RingLayout'
  BY <1>1, <1>4 DEF LayoutInv, RingLayout, readVars
<1>8. ItemsOut' /\ Processing'
  BY <1>1, <1>4 DEF LayoutInv, ItemsOut, IsOut, Packing, Processing, readVars
<1>. QED  BY <1>4, <1>5, <1>6, <1>7, <1>8 DEF LayoutInv

LEMMA AdvanceReadKeeps ==
  ASSUME LayoutInv, AdvanceRead
  PROVE  LayoutInv' /\ Reading' = Reading
<1>1. /\ reader.pc = "advance" /\ reader' = [reader EXCEPT !.pc = "idle"]
      /\ doneOffset' = doneOffset + (reader.to - reader.from)
      /\ tasks' = tasks - 1
      /\ UNCHANGED <<job, walking, readOffset, readError, slot, data, queue, worker, outVars,
                     pc, outcome>>
  BY DEF AdvanceRead
<1>2. /\ reader \in [pc : {"idle", "spawn", "assign", "sum", "advance"},
                     from : Nat, to : Nat, next : Nat]
      /\ Hunks \in Nat /\ Half \in Nat \ {0} /\ Ring = Half + Half /\ doneOffset \in Nat
      /\ readOffset \in Nat /\ tasks \in 0..2
  BY SessionFacts DEF LayoutInv, Shape
<1>3. /\ reader'.pc = "idle"
      /\ reader' \in [pc : {"idle", "spawn", "assign", "sum", "advance"},
                      from : Nat, to : Nat, next : Nat]
  BY <1>1, <1>2
<1>. HIDE DEF Half, Hunks
<1>4. /\ ~readError /\ tasks > 0 /\ reader.from = doneOffset
      /\ reader.to = IF doneOffset + Half <= Hunks THEN doneOffset + Half ELSE Hunks
      /\ tasks = 1 => readOffset = doneOffset + Half /\ doneOffset < Hunks
      /\ tasks = 2 => readOffset = doneOffset + Ring /\ doneOffset + Half < Hunks
      /\ doneOffset <= readOffset /\ doneOffset <= Hunks
  BY <1>1 DEF LayoutInv, ReadsQueuedUp
<1>5. doneOffset' = reader.to /\ tasks' \in 0..2 /\ Hunks' = Hunks
  BY <1>1, <1>2, <1>4 DEF Hunks
<1>6. Spawning' = Spawning /\ Reading' = Reading
  BY <1>1, <1>3, <1>5 DEF Spawning, Reading
<1>. HIDE DEF Spawning, Reading
<1>7. Shape'
  BY <1>1, <1>2, <1>3, <1>5 DEF LayoutInv, Shape, outVars, HasParent
<1>8. ReadsQueuedUp'
  <2>1. tasks = 1 \/ tasks = 2
    BY <1>2, <1>4
  <2>2. reader.to <= readOffset /\ reader.to <= Hunks
    BY <1>2, <1>4, <2>1
  <2>3. /\ tasks' = 0 => reader.to = readOffset \/ (reader.to = Hunks /\ Hunks <= readOffset)
        /\ tasks' = 1 => readOffset = reader.to + Half /\ reader.to < Hunks
        /\ tasks' # 2
    BY <1>1, <1>2, <1>4, <2>1
  <2>4. SlotOf(readOffset) \in {0, Half}
    BY DEF LayoutInv, ReadsQueuedUp
  <2>. QED  BY <1>1, <1>3, <1>5, <2>2, <2>3, <2>4 DEF ReadsQueuedUp
<1>9. RingLayout'
  BY <1>1, <1>6 DEF LayoutInv, RingLayout, outVars
<1>10. ItemsOut' /\ Processing'
  BY <1>1, <1>6 DEF LayoutInv, ItemsOut, IsOut, Packing, Processing, outVars
<1>. QED  BY <1>6, <1>7, <1>8, <1>9, <1>10 DEF LayoutInv

\* The next hunk that is given to the workers: its slot was set aside for it.
LEMMA NextToSpawn ==
  ASSUME LayoutInv, reader.pc = "spawn"
  PROVE  /\ reader.next \in Nat /\ Spawning = reader.next /\ writeHunk <= reader.next
         /\ reader.next < readOffset /\ reader.next \in writeHunk..(writeHunk + Ring - 1)
         /\ slot[SlotOf(reader.next)].status = "reading"
<1>1. Spawning = reader.next /\ reader.next \in Nat /\ reader.next < reader.to /\ reader.to \in Nat
      /\ Reading = reader.to
  BY DEF LayoutInv, Shape, ReadsQueuedUp, Spawning, Reading
<1>2. /\ writeHunk \in Nat /\ readOffset \in Nat /\ Ring \in Nat
      /\ writeHunk <= Spawning /\ readOffset <= writeHunk + Ring
  BY InOneRound
<1>3. Reading <= readOffset
  BY SpawnFacts DEF LayoutInv
<1>. HIDE DEF Spawning, Reading
<1>4. writeHunk <= reader.next /\ reader.next < readOffset
      /\ reader.next \in writeHunk..(writeHunk + Ring - 1)
  BY <1>1, <1>2, <1>3
<1>5. Spawning <= reader.next
  BY <1>1
<1>6. slot[SlotOf(reader.next)].status = "reading"
  BY <1>4, <1>5 DEF LayoutInv, RingLayout
<1>. QED  BY <1>1, <1>4, <1>6

Spawned == [reader EXCEPT !.next = @ + 1,
                          !.pc = IF reader.next + 1 < reader.to THEN "spawn" ELSE "sum"]

LEMMA SpawnedFacts ==
  ASSUME LayoutInv, reader.pc \in {"spawn", "assign"}
  PROVE  /\ Spawned \in [pc : {"spawn", "sum"}, from : Nat, to : Nat, next : Nat]
         /\ Spawned.from = reader.from /\ Spawned.to = reader.to /\ Spawned.next = reader.next + 1
         /\ Spawned.pc = IF reader.next + 1 < reader.to THEN "spawn" ELSE "sum"
         /\ reader.to <= reader.next + 1 => reader.to = reader.next + 1
<1>1. /\ reader \in [pc : {"idle", "spawn", "assign", "sum", "advance"},
                     from : Nat, to : Nat, next : Nat]
      /\ reader.next < reader.to
  BY DEF LayoutInv, Shape, ReadsQueuedUp
<1>2. PICK p, q : /\ p = IF reader.next + 1 < reader.to THEN "spawn" ELSE "sum"
                  /\ q = reader.next + 1
  OBVIOUS
<1>3. Spawned = [reader EXCEPT !.next = q, !.pc = p]
  BY <1>2 DEF Spawned
<1>4. p \in {"spawn", "sum"} /\ q \in Nat
  BY <1>1, <1>2
<1>5. Spawned = [pc |-> p, from |-> reader.from, to |-> reader.to, next |-> q]
  BY <1>1, <1>3, <1>4
<1>. QED  BY <1>1, <1>2, <1>4, <1>5

LEMMA SpawnHunkKeeps ==
  ASSUME LayoutInv, SpawnHunk
  PROVE  LayoutInv' /\ Reading' = Reading
<1>1. PICK n, s : n = reader.next /\ s = SlotOf(n)
  OBVIOUS
<1>2. /\ reader.pc = "spawn"
      /\ slot' = [slot EXCEPT ![s].status = "queued", ![s].hunk = n]
      /\ queue' = Append(queue, Item(n))
      /\ reader' = [reader EXCEPT !.pc = "assign"]
      /\ UNCHANGED <<job, walking, readVars, data, tasks, worker, outVars, pc, outcome>>
  BY <1>1 DEF SpawnHunk
<1>3. /\ n \in Nat /\ Spawning = n /\ writeHunk <= n /\ n < readOffset
      /\ n \in writeHunk..(writeHunk + Ring - 1) /\ slot[s].status = "reading"
      /\ s \in Slots
  BY <1>1, <1>2, NextToSpawn, SlotRange
<1>4. /\ writeHunk \in Nat /\ readOffset \in Nat /\ Ring \in Nat \ {0}
      /\ readOffset <= writeHunk + Ring
      /\ \A g, h \in writeHunk..(writeHunk + Ring - 1) : SlotOf(g) = SlotOf(h) => g = h
  BY InOneRound
\* How far everything has come.
<1>5. /\ reader \in [pc : {"idle", "spawn", "assign", "sum", "advance"},
                     from : Nat, to : Nat, next : Nat]
      /\ reader.from <= n /\ n < reader.to
  BY <1>1, <1>2 DEF LayoutInv, Shape, ReadsQueuedUp
<1>6. /\ reader' \in [pc : {"idle", "spawn", "assign", "sum", "advance"},
                      from : Nat, to : Nat, next : Nat]
      /\ reader'.pc # "idle" /\ reader'.from = reader.from /\ reader'.to = reader.to
      /\ reader'.pc \in {"spawn", "assign"} => reader.from <= reader'.next /\ reader'.next < reader.to
      /\ Spawning' = n + 1
  <2>1. Spawning' = n + 1
    BY <1>1, <1>2, <1>5 DEF Spawning
  <2>. QED  BY <1>1, <1>2, <1>5, <2>1
<1>7. Reading' = Reading
  BY <1>2, <1>6 DEF Reading
<1>. HIDE DEF Spawning, Reading
\* The slot that is given away.
<1>8. /\ DOMAIN slot' = Slots /\ \A i \in Slots : DOMAIN slot'[i] = SlotFields
      /\ slot'[s].status = "queued" /\ slot'[s].hunk = n
      /\ \A i \in Slots : i # s => slot'[i] = slot[i]
  <2>1. DOMAIN slot = Slots /\ \A i \in Slots : DOMAIN slot[i] = SlotFields
    BY DEF LayoutInv, Shape
  <2>. HIDE DEF Item
  <2>. QED  BY <1>2, <1>3, <2>1 DEF SlotFields
<1>9. \A h \in writeHunk..(writeHunk + Ring - 1) :
        SlotOf(h) \in Slots /\ h \in Nat /\ (h # n => SlotOf(h) # s)
  BY <1>1, <1>3, <1>4, SlotRange
<1>10. /\ queue \in Seq(Items) /\ Item(n) \in Items
       /\ Item(n).hunk = n /\ Item(n).slot = s
  <2>1. queue \in Seq(Items) /\ walking \in BOOLEAN
    BY DEF LayoutInv, Shape
  <2>. QED  BY <1>1, <1>3, <2>1 DEF Item, Items
<1>. HIDE DEF Item
<1>11. Shape'
  <2>1. queue' \in Seq(Items)
    BY <1>2, <1>10
  <2>. QED  BY <1>2, <1>6, <1>8, <2>1 DEF LayoutInv, Shape, readVars, outVars, HasParent
<1>12. ReadsQueuedUp'
  BY <1>2, <1>6 DEF LayoutInv, ReadsQueuedUp, readVars, Hunks
<1>13. RingLayout'
  <2>1. ASSUME NEW h \in writeHunk..(writeHunk + Ring - 1)
        PROVE  /\ h < n + 1 => /\ slot'[SlotOf(h)].status \in {"queued", "complete"}
                               /\ slot'[SlotOf(h)].hunk = h
               /\ n + 1 <= h /\ h < readOffset => slot'[SlotOf(h)].status = "reading"
               /\ readOffset <= h => slot'[SlotOf(h)].status = "ready"
    <3>1. CASE h = n
      BY <1>1, <1>3, <1>4, <1>8, <3>1
    <3>2. CASE h # n
      <4>1. slot'[SlotOf(h)] = slot[SlotOf(h)] /\ h \in Nat
        BY <1>8, <1>9, <3>2
      <4>2. /\ h < n => /\ slot[SlotOf(h)].status \in {"queued", "complete"}
                        /\ slot[SlotOf(h)].hunk = h
            /\ n <= h /\ h < readOffset => slot[SlotOf(h)].status = "reading"
            /\ readOffset <= h => slot[SlotOf(h)].status = "ready"
        BY <1>3 DEF LayoutInv, RingLayout
      <4>. QED  BY <1>3, <3>2, <4>1, <4>2
    <3>. QED  BY <3>1, <3>2
  <2>2. writeHunk <= n + 1 /\ readOffset <= writeHunk + Ring
    BY <1>3, <1>4
  <2>. QED  BY <1>2, <1>6, <2>1, <2>2 DEF LayoutInv, RingLayout, readVars, outVars
\* The items that are out, and the new one.
<1>14. ASSUME NEW it, IsOut(it) PROVE IsOut(it)' /\ it.hunk < n
  <2>1. /\ it.hunk \in writeHunk..(n - 1) /\ it.slot = SlotOf(it.hunk)
        /\ slot[it.slot].status = "queued"
    BY <1>3, <1>14 DEF IsOut
  <2>2. it.hunk \in writeHunk..(writeHunk + Ring - 1) /\ it.hunk # n /\ it.hunk < n
        /\ it.hunk \in writeHunk..(n + 1 - 1)
    BY <1>3, <1>4, <2>1
  <2>3. slot'[it.slot] = slot[it.slot]
    BY <1>8, <1>9, <2>1, <2>2
  <2>4. writeHunk' = writeHunk /\ Spawning' = n + 1
    BY <1>2, <1>6 DEF outVars
  <2>5. it.hunk \in writeHunk'..(Spawning' - 1) /\ slot'[it.slot].status = "queued"
    <3>1. n \in Nat /\ n + 1 - 1 = n /\ writeHunk \in Nat
      BY <1>3, <1>4
    <3>2. slot'[it.slot].status = "queued"
      BY <2>1, <2>3
    <3>3. it.hunk \in writeHunk'..(Spawning' - 1)
      BY <2>1, <2>4, <3>1
    <3>. QED  BY <3>2, <3>3
  <2>6. IsOut(it)'
    BY <2>1, <2>5 DEF IsOut
  <2>. QED  BY <2>2, <2>6
<1>15. IsOut(Item(n))'
  <2>1. PICK it \in Items : it = Item(n)
    BY <1>10
  <2>2. Item(n)' = it
    BY <1>2, <1>1, <2>1 DEF Item
  <2>3. /\ it.hunk \in writeHunk'..(Spawning' - 1) /\ it.slot = SlotOf(it.hunk)
        /\ slot'[it.slot].status = "queued"
    BY <1>1, <1>2, <1>3, <1>4, <1>6, <1>8, <1>10, <2>1 DEF outVars
  <2>. QED  BY <2>2, <2>3 DEF IsOut
<1>16. ItemsOut'
  <2>1. PICK it \in Items : it = Item(n) /\ it.hunk = n
    BY <1>10
  <2>2. IsOut(it)'
    <3>1. Item(n)' = it
      BY <1>1, <1>2, <2>1 DEF Item
    <3>. QED  BY <1>15, <3>1 DEF IsOut
  <2>3. /\ Len(queue') = Len(queue) + 1 /\ Len(queue) \in Nat
        /\ queue'[Len(queue) + 1] = it /\ \A k \in 1..Len(queue) : queue'[k] = queue[k]
        /\ DOMAIN queue' = 1..(Len(queue) + 1) /\ DOMAIN queue = 1..Len(queue)
    BY <1>2, <1>10, <2>1
  <2>4. PICK l \in Nat : l = Len(queue)
    BY <2>3
  <2>5. /\ DOMAIN queue' = 1..(l + 1) /\ DOMAIN queue = 1..l /\ queue'[l + 1] = it
        /\ \A k \in 1..l : queue'[k] = queue[k]
    BY <2>3, <2>4
  <2>6. /\ \A k \in 1..l : IsOut(queue[k])
        /\ \A j, k \in 1..l : queue[j].hunk = queue[k].hunk => j = k
        /\ \A w \in Workers : Packing(w) =>
             /\ IsOut(worker[w].item)
             /\ \A k \in 1..l : queue[k].hunk # worker[w].item.hunk
             /\ \A v \in Workers : Packing(v) /\ worker[v].item.hunk = worker[w].item.hunk => v = w
    BY <2>5 DEF LayoutInv, ItemsOut
  <2>7. /\ \A k \in 1..l : IsOut(queue[k])' /\ queue[k].hunk # n
        /\ \A w \in Workers : Packing(w) => IsOut(worker[w].item)' /\ worker[w].item.hunk # n
    <3>1. ASSUME NEW e, IsOut(e) PROVE IsOut(e)' /\ e.hunk # n
      <4>1. IsOut(e)' /\ e.hunk < n
        BY <3>1, <1>14
      <4>2. e.hunk \in writeHunk..(Spawning - 1)
        BY <3>1 DEF IsOut
      <4>. QED  BY <1>3, <1>4, <4>1, <4>2
    <3>2. ASSUME NEW k \in 1..l PROVE IsOut(queue[k])' /\ queue[k].hunk # n
      <4>1. PICK e : e = queue[k]
        OBVIOUS
      <4>2. IsOut(e)
        BY <2>6, <4>1
      <4>3. IsOut(e)' /\ e.hunk # n
        BY <3>1, <4>2
      <4>4. queue'[k] = e
        BY <2>5, <4>1
      <4>. QED  BY <4>1, <4>3, <4>4
    <3>3. ASSUME NEW w \in Workers, Packing(w)
          PROVE  IsOut(worker[w].item)' /\ worker[w].item.hunk # n
      <4>1. PICK e : e = worker[w].item
        OBVIOUS
      <4>2. IsOut(e)' /\ e.hunk # n
        BY <2>6, <3>1, <3>3, <4>1
      <4>3. worker'[w].item = e
        BY <1>2, <4>1
      <4>. QED  BY <4>1, <4>2, <4>3
    <3>. QED  BY <3>2, <3>3
  <2>. QED  BY <1>2, <2>1, <2>2, <2>5, <2>6, <2>7 DEF ItemsOut, Packing
<1>17. Processing'
  <2>1. SUFFICES ASSUME pc = "process" PROVE slot'[SlotOf(writeHunk)].status = "complete"
    BY <1>2 DEF Processing, outVars
  <2>2. slot[SlotOf(writeHunk)].status = "complete"
    BY <2>1 DEF LayoutInv, Processing
  <2>3. writeHunk # n
    BY <1>1, <1>3, <2>2
  <2>4. writeHunk \in writeHunk..(writeHunk + Ring - 1)
    BY <1>4
  <2>. QED  BY <1>8, <1>9, <2>2, <2>3, <2>4
<1>. QED  BY <1>7, <1>11, <1>12, <1>13, <1>16, <1>17 DEF LayoutInv

LEMMA NoteItemKeeps ==
  ASSUME LayoutInv, NoteItem
  PROVE  LayoutInv' /\ Reading' = Reading
<1>1. PICK n, s, it : n = reader.next /\ s = SlotOf(n) /\ it = Item(n)
  OBVIOUS
<1>2. /\ reader.pc = "assign" /\ slot' = [slot EXCEPT ![s].osd = it] /\ reader' = Spawned
      /\ UNCHANGED <<job, walking, readVars, data, tasks, queue, worker, outVars, pc, outcome>>
  BY <1>1 DEF NoteItem, Spawned
<1>3. /\ reader \in [pc : {"idle", "spawn", "assign", "sum", "advance"},
                     from : Nat, to : Nat, next : Nat]
      /\ reader.from <= n /\ n < reader.to /\ Spawning = n + 1
  BY <1>1, <1>2 DEF LayoutInv, Shape, ReadsQueuedUp, Spawning
<1>4. /\ reader' \in [pc : {"spawn", "sum"}, from : Nat, to : Nat, next : Nat]
      /\ reader'.from = reader.from /\ reader'.to = reader.to /\ reader'.next = n + 1
      /\ reader'.pc = IF n + 1 < reader.to THEN "spawn" ELSE "sum"
      /\ reader.to <= n + 1 => reader.to = n + 1
  BY <1>1, <1>2, SpawnedFacts
<1>5. Spawning' = Spawning /\ Reading' = Reading
  BY <1>2, <1>3, <1>4 DEF Spawning, Reading
<1>6. /\ DOMAIN slot' = Slots
      /\ \A i \in Slots : /\ DOMAIN slot'[i] = SlotFields
                          /\ slot'[i].status = slot[i].status /\ slot'[i].hunk = slot[i].hunk
  <2>1. DOMAIN slot = Slots /\ \A i \in Slots : DOMAIN slot[i] = SlotFields
    BY DEF LayoutInv, Shape
  <2>. QED  BY <1>2, <2>1 DEF SlotFields
<1>. HIDE DEF Spawning, Reading
<1>7. Shape'
  BY <1>2, <1>4, <1>6 DEF LayoutInv, Shape, readVars, outVars, HasParent
<1>8. ReadsQueuedUp'
  <2>1. /\ reader'.pc # "idle" /\ reader'.pc # "assign"
        /\ reader'.pc = "spawn" => reader'.from <= reader'.next /\ reader'.next < reader'.to
    <3>1. n \in Nat /\ reader.from \in Nat
      BY <1>1, <1>3
    <3>. QED  BY <1>3, <1>4, <3>1
  <2>. QED  BY <1>2, <1>4, <2>1 DEF LayoutInv, ReadsQueuedUp, readVars, Hunks
<1>9. RingLayout' /\ \A e : IsOut(e) => IsOut(e)'
  BY <1>2, <1>5, <1>6, SameRing DEF readVars, outVars
<1>10. ItemsOut'
  BY <1>2, <1>9 DEF LayoutInv, ItemsOut, Packing
<1>11. Processing'
  <2>1. SlotOf(writeHunk) \in Slots
    BY InOneRound, SlotRange
  <2>. QED  BY <1>2, <1>6, <2>1 DEF LayoutInv, Processing, outVars
<1>. QED  BY <1>5, <1>7, <1>8, <1>9, <1>10, <1>11 DEF LayoutInv

----------------------------------------------------------------------------
\* The workers' steps.

\* The item a worker takes is of a hunk that is queued, and no longer in the queue.
LEMMA HeadFacts ==
  ASSUME LayoutInv, queue # <<>>
  PROVE  /\ Len(queue) \in Nat \ {0} /\ DOMAIN queue = 1..Len(queue) /\ Head(queue) = queue[1]
         /\ Head(queue) \in Items /\ Tail(queue) \in Seq(Items)
         /\ DOMAIN Tail(queue) = 1..(Len(queue) - 1)
         /\ \A k \in 1..(Len(queue) - 1) : Tail(queue)[k] = queue[k + 1]
<1>1. queue \in Seq(Items)
  BY DEF LayoutInv, Shape
<1>. HIDE DEF Items
<1>2. Len(queue) \in Nat \ {0} /\ DOMAIN queue = 1..Len(queue) /\ Head(queue) = queue[1]
  BY <1>1
<1>3. Head(queue) \in Items /\ Tail(queue) \in Seq(Items) /\ Len(Tail(queue)) = Len(queue) - 1
  BY <1>1
<1>4. \A k \in 1..(Len(queue) - 1) : Tail(queue)[k] = queue[k + 1]
  BY <1>1, <1>2
<1>5. DOMAIN Tail(queue) = 1..(Len(queue) - 1)
  BY <1>3
<1>. QED  BY <1>2, <1>3, <1>4, <1>5

LEMMA HashHunkKeeps ==
  ASSUME LayoutInv, NEW w \in Workers, HashHunk(w)
  PROVE  LayoutInv' /\ Reading' = Reading
<1>1. PICK it : it = Head(queue)
  OBVIOUS
<1>2. /\ worker[w].pc = "idle" /\ queue # <<>> /\ queue' = Tail(queue)
      /\ worker' = [worker EXCEPT ![w] = [pc |-> "pack", item |-> it]]
      /\ \E hash : slot' = [slot EXCEPT ![it.slot].hash = hash]
      /\ UNCHANGED <<job, walking, readVars, data, tasks, reader, outVars, pc, outcome>>
  BY <1>1 DEF HashHunk
<1>3. PICK hash : slot' = [slot EXCEPT ![it.slot].hash = hash]
  BY <1>2
<1>4. PICK l \in Nat \ {0} : /\ l = Len(queue) /\ DOMAIN queue = 1..l /\ it = queue[1]
                             /\ it \in Items /\ DOMAIN queue' = 1..(l - 1)
                             /\ queue' \in Seq(Items)
                             /\ \A k \in 1..(l - 1) : queue'[k] = queue[k + 1]
  BY <1>1, <1>2, HeadFacts
<1>5. Spawning' = Spawning /\ Reading' = Reading
  BY <1>2 DEF Spawning, Reading, readVars
<1>. HIDE DEF Spawning, Reading, Items
<1>6. /\ DOMAIN slot' = Slots
      /\ \A i \in Slots : /\ DOMAIN slot'[i] = SlotFields
                          /\ slot'[i].status = slot[i].status /\ slot'[i].hunk = slot[i].hunk
  <2>1. DOMAIN slot = Slots /\ \A i \in Slots : DOMAIN slot[i] = SlotFields
    BY DEF LayoutInv, Shape
  <2>. QED  BY <1>3, <2>1 DEF SlotFields
<1>7. /\ DOMAIN worker' = Workers /\ worker'[w] = [pc |-> "pack", item |-> it]
      /\ \A v \in Workers : v # w => worker'[v] = worker[v]
  BY <1>2 DEF LayoutInv, Shape
<1>8. Shape'
  BY <1>2, <1>4, <1>6, <1>7 DEF LayoutInv, Shape, readVars, outVars, HasParent
<1>9. ReadsQueuedUp'
  BY <1>2 DEF LayoutInv, ReadsQueuedUp, readVars, Hunks
<1>10. RingLayout' /\ \A e : IsOut(e) => IsOut(e)'
  BY <1>2, <1>5, <1>6, SameRing DEF readVars, outVars
<1>11. /\ \A k \in 1..l : IsOut(queue[k])
       /\ \A j, k \in 1..l : queue[j].hunk = queue[k].hunk => j = k
       /\ \A v \in Workers : Packing(v) =>
            /\ IsOut(worker[v].item)
            /\ \A k \in 1..l : queue[k].hunk # worker[v].item.hunk
            /\ \A x \in Workers : Packing(x) /\ worker[x].item.hunk = worker[v].item.hunk => x = v
  BY <1>4 DEF LayoutInv, ItemsOut
<1>12. /\ \A k \in 1..(l - 1) : k + 1 \in 1..l /\ k + 1 # 1 /\ 1 \in 1..l
       /\ 1 \in 1..l
  BY <1>4
<1>13. /\ \A k \in DOMAIN queue' : IsOut(queue'[k]) /\ queue'[k].hunk # it.hunk
       /\ \A j, k \in DOMAIN queue' : queue'[j].hunk = queue'[k].hunk => j = k
  <2>1. ASSUME NEW k \in 1..(l - 1) PROVE IsOut(queue'[k]) /\ queue'[k].hunk # it.hunk
    BY <1>4, <1>11, <1>12
  <2>2. ASSUME NEW j \in 1..(l - 1), NEW k \in 1..(l - 1), queue'[j].hunk = queue'[k].hunk
        PROVE  j = k
    <3>1. j + 1 = k + 1
      BY <1>4, <1>11, <1>12, <2>2
    <3>. QED  BY <3>1
  <2>. QED  BY <1>4, <2>1, <2>2
<1>14. ItemsOut'
  <2>1. \A k \in DOMAIN queue' : IsOut(queue[k])'
    BY <1>10, <1>13
  <2>2. ASSUME NEW v \in Workers, Packing(v)'
        PROVE  /\ IsOut(worker[v].item)'
               /\ \A k \in DOMAIN queue' : queue'[k].hunk # worker'[v].item.hunk
               /\ \A x \in Workers : Packing(x)' /\ worker'[x].item.hunk = worker'[v].item.hunk
                    => x = v
    <3>1. CASE v = w
      <4>1. worker'[v].item = it /\ IsOut(it)
        BY <1>4, <1>7, <1>11, <1>12, <3>1
      <4>2. IsOut(worker[v].item)'
        BY <1>10, <4>1
      <4>3. \A x \in Workers : x # w /\ Packing(x)' => worker'[x].item.hunk # it.hunk
        BY <1>4, <1>7, <1>11, <1>12 DEF Packing
      <4>. QED  BY <1>13, <3>1, <4>1, <4>2, <4>3
    <3>2. CASE v # w
      <4>1. worker'[v] = worker[v] /\ Packing(v)
        BY <1>7, <2>2, <3>2 DEF Packing
      <4>2. IsOut(worker[v].item)'
        BY <1>10, <1>11, <4>1
      <4>3. \A k \in DOMAIN queue' : queue'[k].hunk # worker[v].item.hunk
        BY <1>4, <1>11, <1>12, <4>1
      <4>4. worker[v].item.hunk # it.hunk
        BY <1>4, <1>11, <1>12, <4>1
      <4>5. \A x \in Workers : Packing(x)' /\ worker'[x].item.hunk = worker[v].item.hunk => x = v
        BY <1>7, <1>11, <4>1, <4>4 DEF Packing
      <4>. QED  BY <4>1, <4>2, <4>3, <4>5
    <3>. QED  BY <3>1, <3>2
  <2>. QED  BY <1>13, <2>1, <2>2 DEF ItemsOut
<1>15. Processing'
  <2>1. SlotOf(writeHunk) \in Slots
    BY InOneRound, SlotRange
  <2>. QED  BY <1>2, <1>6, <2>1 DEF LayoutInv, Processing, outVars
<1>. QED  BY <1>5, <1>8, <1>9, <1>10, <1>14, <1>15 DEF LayoutInv

LEMMA PackHunkKeeps ==
  ASSUME LayoutInv, NEW w \in Workers, PackHunk(w)
  PROVE  LayoutInv' /\ Reading' = Reading
<1>1. PICK it : it = worker[w].item
  OBVIOUS
<1>2. /\ worker[w].pc = "pack" /\ worker' = [worker EXCEPT ![w].pc = "done"]
      /\ \E packed :
           slot' = [slot EXCEPT ![it.slot].status = "complete", ![it.slot].packed = packed]
      /\ UNCHANGED <<job, walking, readVars, data, tasks, reader, queue, outVars, pc, outcome>>
  BY <1>1 DEF PackHunk
<1>3. PICK packed :
        slot' = [slot EXCEPT ![it.slot].status = "complete", ![it.slot].packed = packed]
  BY <1>2
<1>4. Spawning' = Spawning /\ Reading' = Reading
  BY <1>2 DEF Spawning, Reading, readVars
<1>. HIDE DEF Spawning, Reading, Items
<1>5. PICK n, s : n = it.hunk /\ s = it.slot /\ s = SlotOf(n) /\ n \in writeHunk..(Spawning - 1)
                  /\ slot[s].status = "queued" /\ Packing(w)
  BY <1>1, <1>2 DEF LayoutInv, ItemsOut, IsOut, Packing
<1>6. /\ writeHunk \in Nat /\ Spawning \in Nat /\ readOffset \in Nat /\ Ring \in Nat \ {0}
      /\ Spawning <= readOffset /\ readOffset <= writeHunk + Ring
      /\ \A g, h \in writeHunk..(writeHunk + Ring - 1) : SlotOf(g) = SlotOf(h) => g = h
  BY InOneRound
<1>7. /\ n \in Nat /\ s \in Slots /\ n \in writeHunk..(writeHunk + Ring - 1) /\ n < Spawning
  BY <1>5, <1>6, SlotRange
<1>8. /\ DOMAIN slot' = Slots
      /\ \A i \in Slots : DOMAIN slot'[i] = SlotFields /\ slot'[i].hunk = slot[i].hunk
      /\ slot'[s].status = "complete" /\ \A i \in Slots : i # s => slot'[i] = slot[i]
  <2>1. DOMAIN slot = Slots /\ \A i \in Slots : DOMAIN slot[i] = SlotFields
    BY DEF LayoutInv, Shape
  <2>2. slot' = [slot EXCEPT ![s].status = "complete", ![s].packed = packed]
    BY <1>3, <1>5
  <2>. QED  BY <1>7, <2>1, <2>2 DEF SlotFields
<1>9. \A h \in writeHunk..(writeHunk + Ring - 1) :
        SlotOf(h) \in Slots /\ h \in Nat /\ (h # n => SlotOf(h) # s)
  BY <1>5, <1>6, <1>7, SlotRange
<1>10. /\ DOMAIN worker' = Workers /\ \A v \in Workers : DOMAIN worker'[v] = {"pc", "item"}
       /\ worker'[w].pc = "done"
       /\ \A v \in Workers : v # w => worker'[v] = worker[v]
  BY <1>2 DEF LayoutInv, Shape
<1>11. Shape'
  BY <1>2, <1>8, <1>10 DEF LayoutInv, Shape, readVars, outVars, HasParent
<1>12. ReadsQueuedUp'
  BY <1>2 DEF LayoutInv, ReadsQueuedUp, readVars, Hunks
<1>13. RingLayout'
  <2>1. ASSUME NEW h \in writeHunk..(writeHunk + Ring - 1)
        PROVE  /\ h < Spawning => /\ slot'[SlotOf(h)].status \in {"queued", "complete"}
                                  /\ slot'[SlotOf(h)].hunk = h
               /\ Spawning <= h /\ h < readOffset => slot'[SlotOf(h)].status = "reading"
               /\ readOffset <= h => slot'[SlotOf(h)].status = "ready"
    <3>1. /\ h < Spawning => /\ slot[SlotOf(h)].status \in {"queued", "complete"}
                             /\ slot[SlotOf(h)].hunk = h
          /\ Spawning <= h /\ h < readOffset => slot[SlotOf(h)].status = "reading"
          /\ readOffset <= h => slot[SlotOf(h)].status = "ready"
      BY DEF LayoutInv, RingLayout
    <3>2. CASE h = n
      <4>1. SlotOf(h) = s /\ slot'[s].status = "complete" /\ slot'[s].hunk = slot[s].hunk
        BY <1>5, <1>7, <1>8, <3>2
      <4>2. ~(Spawning <= h) /\ ~(readOffset <= h)
        BY <1>6, <1>7, <3>2
      <4>. QED  BY <3>1, <4>1, <4>2
    <3>3. CASE h # n
      BY <1>8, <1>9, <3>1, <3>3
    <3>. QED  BY <3>2, <3>3
  <2>. QED  BY <1>2, <1>4, <2>1 DEF LayoutInv, RingLayout, readVars, outVars
<1>14. ASSUME NEW e, IsOut(e), e.hunk # n PROVE IsOut(e)'
  <2>1. /\ e.hunk \in writeHunk..(Spawning - 1) /\ e.slot = SlotOf(e.hunk)
        /\ slot[e.slot].status = "queued"
    BY <1>14 DEF IsOut
  <2>2. e.hunk \in writeHunk..(writeHunk + Ring - 1)
    BY <1>6, <2>1
  <2>3. slot'[e.slot].status = "queued"
    BY <1>8, <1>9, <1>14, <2>1, <2>2
  <2>. QED  BY <1>2, <1>4, <2>1, <2>3 DEF IsOut, outVars
<1>15. ItemsOut'
  <2>1. /\ \A k \in DOMAIN queue : IsOut(queue[k]) /\ queue[k].hunk # n
        /\ \A j, k \in DOMAIN queue : queue[j].hunk = queue[k].hunk => j = k
        /\ \A v \in Workers : Packing(v) =>
             /\ IsOut(worker[v].item)
             /\ \A k \in DOMAIN queue : queue[k].hunk # worker[v].item.hunk
             /\ \A x \in Workers : Packing(x) /\ worker[x].item.hunk = worker[v].item.hunk => x = v
    BY <1>1, <1>5 DEF LayoutInv, ItemsOut
  <2>2. \A k \in DOMAIN queue : IsOut(queue[k])'
    <3>1. queue' = queue
      BY <1>2
    <3>. QED  BY <1>14, <2>1, <3>1
  <2>3. \A v \in Workers : Packing(v)' => v # w /\ worker'[v] = worker[v] /\ Packing(v)
    BY <1>10 DEF Packing
  <2>4. ASSUME NEW v \in Workers, Packing(v)' PROVE IsOut(worker[v].item)'
    <3>1. PICK e : e = worker[v].item
      OBVIOUS
    <3>2. IsOut(e) /\ e.hunk # n
      BY <1>1, <1>5, <2>1, <2>3, <2>4, <3>1
    <3>3. worker'[v].item = e
      BY <2>3, <2>4, <3>1
    <3>. QED  BY <1>14, <3>2, <3>3
  <2>. QED  BY <1>2, <2>1, <2>2, <2>3, <2>4 DEF ItemsOut
<1>16. Processing'
  <2>1. writeHunk \in writeHunk..(writeHunk + Ring - 1)
    BY <1>6
  <2>2. SlotOf(writeHunk) \in Slots
    BY <1>9, <2>1
  <2>. QED  BY <1>2, <1>8, <2>2 DEF LayoutInv, Processing, outVars
<1>. QED  BY <1>4, <1>11, <1>12, <1>13, <1>15, <1>16 DEF LayoutInv

LEMMA ItemDoneKeeps ==
  ASSUME LayoutInv, NEW w \in Workers, ItemDone(w)
  PROVE  LayoutInv' /\ Reading' = Reading
<1>1. /\ worker' = [worker EXCEPT ![w] = [pc |-> "idle", item |-> NoItem]]
      /\ UNCHANGED <<job, walking, readVars, slot, data, tasks, reader, queue, outVars, pc, outcome>>
  BY DEF ItemDone
<1>2. Spawning' = Spawning /\ Reading' = Reading
  BY <1>1 DEF Spawning, Reading, readVars
<1>. HIDE DEF Spawning, Reading, Items
<1>3. /\ DOMAIN worker' = Workers /\ \A v \in Workers : DOMAIN worker'[v] = {"pc", "item"}
      /\ \A v \in Workers : worker'[v].pc = "pack" => worker'[v] = worker[v]
  BY <1>1 DEF LayoutInv, Shape
<1>4. Shape' /\ ReadsQueuedUp'
  BY <1>1, <1>3 DEF LayoutInv, Shape, ReadsQueuedUp, readVars, outVars, HasParent, Hunks
<1>5. RingLayout' /\ Processing'
  BY <1>1, <1>2 DEF LayoutInv, RingLayout, Processing, readVars, outVars
<1>6. ItemsOut'
  BY <1>1, <1>2, <1>3 DEF LayoutInv, ItemsOut, IsOut, Packing, outVars
<1>. QED  BY <1>2, <1>4, <1>5, <1>6 DEF LayoutInv

----------------------------------------------------------------------------
\* The layout of the ring is kept.

LEMMA LayoutInit == Init => LayoutInv
<1>1. SUFFICES ASSUME Init PROVE LayoutInv
  OBVIOUS
<1>2. /\ job \in Sessions /\ walking = HasParent
      /\ readOffset = 0 /\ doneOffset = 0 /\ readError = FALSE
      /\ DOMAIN slot = Slots
      /\ \A i \in Slots : DOMAIN slot[i] = SlotFields /\ slot[i].status = "ready"
      /\ DOMAIN data = 0..Ring
      /\ tasks = 0 /\ reader = [pc |-> "idle", from |-> 0, to |-> 0, next |-> 0]
      /\ queue = <<>> /\ DOMAIN worker = Workers
      /\ \A w \in Workers : worker[w] = [pc |-> "idle", item |-> NoItem]
      /\ writeHunk = 0 /\ pc = "read"
  BY <1>1 DEF Init, SlotFields
<1>3. Shape
  <2>1. queue \in Seq(Items)
    BY <1>2
  <2>2. walking \in BOOLEAN /\ (walking => HasParent)
    BY <1>2 DEF HasParent
  <2>3. reader \in [pc : {"idle", "spawn", "assign", "sum", "advance"},
                    from : Nat, to : Nat, next : Nat]
    BY <1>2
  <2>4. \A w \in Workers : DOMAIN worker[w] = {"pc", "item"}
    BY <1>2
  <2>5. tasks \in 0..2 /\ readOffset \in Nat /\ doneOffset \in Nat /\ writeHunk \in Nat
    BY <1>2
  <2>. HIDE DEF Items
  <2>. QED  BY <1>2, <2>1, <2>2, <2>3, <2>4, <2>5 DEF Shape
<1>4. Hunks \in Nat /\ Ring \in Nat \ {0} /\ Half \in Nat \ {0} /\ Spawning = 0
  BY <1>2, <1>3, SessionFacts DEF Spawning
<1>5. ReadsQueuedUp
  BY <1>2, <1>4, SlotZero DEF ReadsQueuedUp
<1>6. RingLayout
  <2>1. \A h \in 0..(0 + Ring - 1) : slot[SlotOf(h)].status = "ready" /\ 0 <= h /\ ~(h < 0)
    BY <1>2, <1>4, SlotRange
  <2>. HIDE DEF Spawning
  <2>. QED  BY <1>2, <1>4, <2>1 DEF RingLayout
<1>7. ItemsOut /\ Processing
  BY <1>2 DEF ItemsOut, Processing, Packing
<1>. QED  BY <1>3, <1>5, <1>6, <1>7 DEF LayoutInv

\* The end of the parent's walk has overtaken a read.
Overtaken == "overtaken" \in slips

\* What has come too late stays so.
LEMMA SlipsStay == [Next]_vars => slips \subseteq slips'
BY DEF Next, CallerStep, ReaderStep, WorkerStep, vars, QueueRead, ReadsQueued, ReleaseItem,
       ProcessHunk, RestartRing, Finish, Flushed, WaitOver, WaitAgain, Rest, SkipRead, ReadHunks,
       FailRead, SpawnHunk, NoteItem, SumHunks, AdvanceRead, HashHunk, PackHunk, ItemDone

\* The end of the walk overtakes no read if there is none.
LEMMA NotOvertaken ==
  ASSUME LayoutInv, ProcessHunk, LastHunk, walking, ~Overtaken'
  PROVE  tasks = 0
<1>1. slips' = IF tasks > 0 THEN slips \cup {"overtaken"} ELSE slips
  BY DEF ProcessHunk, RestartRing
<1>2. tasks \in 0..2
  BY DEF LayoutInv, Shape
<1>. QED  BY <1>1, <1>2 DEF Overtaken

LEMMA LayoutStep ==
  ASSUME LayoutInv, [Next]_vars, ~Overtaken'
  PROVE  LayoutInv'
<1>1. CASE QueueRead
  BY <1>1, QueueReadKeeps
<1>2. CASE ReadsQueued \/ Finish \/ Flushed \/ WaitOver \/ WaitAgain \/ Rest
  BY <1>2, CallerGoesOn
<1>3. CASE ReleaseItem
  BY <1>3, ReleaseItemKeeps
<1>4. CASE ProcessHunk
  <2>1. CASE LastHunk /\ walking
    BY <1>4, <2>1, NotOvertaken, RestartKeeps
  <2>2. CASE ~(LastHunk /\ walking)
    BY <1>4, <2>2, ProcessKeeps
  <2>. QED  BY <2>1, <2>2
<1>5. CASE ReaderStep
  BY <1>5, SkipReadKeeps, ReadHunksKeeps, FailReadKeeps, SpawnHunkKeeps, NoteItemKeeps,
     SumHunksKeeps, AdvanceReadKeeps DEF ReaderStep
<1>6. CASE \E w \in Workers : WorkerStep(w)
  BY <1>6, HashHunkKeeps, PackHunkKeeps, ItemDoneKeeps DEF WorkerStep
<1>7. CASE UNCHANGED vars
  <2>1. UNCHANGED <<job, walking, readVars, slot, data, threadVars, outVars>> /\ pc' = pc
    BY <1>7 DEF vars
  <2>2. Processing'
    BY <2>1 DEF LayoutInv, Processing, outVars
  <2>. QED  BY <2>1, <2>2, PcStep
<1>. QED  BY <1>1, <1>2, <1>3, <1>4, <1>5, <1>6, <1>7 DEF Next, CallerStep

\* The input thread queues a hunk only in a slot that was set aside for it (the
\* assertion of async_read), in every compression, unless the end of the parent's
\* walk has set the ring back while a read was being done (compress_continue).
THEOREM QueuedWhereSetAside == Spec => [](ReadingWhenQueued \/ Overtaken)
<1>1. Init => LayoutInv \/ Overtaken
  BY LayoutInit
<1>2. (LayoutInv \/ Overtaken) /\ [Next]_vars => (LayoutInv \/ Overtaken)'
  BY LayoutStep, SlipsStay DEF Overtaken
<1>3. LayoutInv => ReadingWhenQueued
  BY NextToSpawn DEF ReadingWhenQueued
<1>. QED  BY <1>1, <1>2, <1>3, PTL DEF Spec

----------------------------------------------------------------------------
\* What is read is in its place.

\* Every place of the buffer holds a hunk.
PlacesFilled == \A i \in 0..Ring : data[i] \in [1..HunkUnits -> Nat]

LEMMA DivMod ==
  ASSUME NEW m \in Nat \ {0}, NEW p \in Nat, NEW r \in 0..(m - 1)
  PROVE  (m * p + r) \div m = p /\ (m * p + r) % m = r
<1>1. PICK a \in Nat : a = m * p + r
  <2>1. m * p \in Nat
    OBVIOUS
  <2>. QED  BY <2>1
<1>2. /\ a = m * (a \div m) + (a % m)
      /\ a % m \in 0..(m - 1) /\ a \div m \in Nat
  BY <1>1
<1>3. PICK q \in Nat, s \in 0..(m - 1) : q = a \div m /\ s = a % m /\ m * p + r = m * q + s
  BY <1>1, <1>2
<1>4. r = s
  BY <1>3, DivisionUnique
<1>5. m * p \in Nat /\ m * q \in Nat /\ m * p = m * q
  BY <1>3, <1>4
<1>6. ~(p < q)
  BY <1>5, Multiples
<1>7. ~(q < p)
  BY <1>5, Multiples
<1>8. p = q
  BY <1>6, <1>7
<1>. QED  BY <1>1, <1>3, <1>4, <1>8

\* Where a read begins, and how far it may go.
LEMMA ReadBegins ==
  ASSUME LayoutInv, reader.pc = "idle", tasks > 0, ~readError
  PROVE  /\ SlotOf(doneOffset) \in {0, Half} /\ doneOffset + Half <= readOffset
         /\ doneOffset \in Nat
<1>1. /\ Hunks \in Nat /\ Half \in Nat \ {0} /\ Ring = Half + Half /\ doneOffset \in Nat
      /\ tasks \in 0..2 /\ readOffset \in Nat
  BY SessionFacts DEF LayoutInv, Shape
<1>. HIDE DEF Half, Hunks
<1>2. /\ SlotOf(readOffset) \in {0, Half}
      /\ readOffset = doneOffset + Half \/ readOffset = doneOffset + Ring
  BY <1>1 DEF LayoutInv, ReadsQueuedUp
<1>3. CASE readOffset = doneOffset + Half
  BY <1>1, <1>2, <1>3, NextHalf
<1>4. CASE readOffset = doneOffset + Ring
  BY <1>1, <1>2, <1>4, NextRound
<1>. QED  BY <1>2, <1>3, <1>4

\* A read leaves the hunks that are in use where they are.
LEMMA ReadElsewhere ==
  ASSUME LayoutInv, reader.pc = "idle", tasks > 0, ~readError,
         NEW h \in writeHunk..(doneOffset - 1)
  PROVE  /\ \A k \in 0..(Half - 1) : SlotOf(h) # SlotOf(doneOffset) + k
         /\ walking => SlotOf(h) # SlotOf(doneOffset) + Half
<1>1. /\ SlotOf(doneOffset) \in {0, Half} /\ doneOffset + Half <= readOffset
      /\ doneOffset \in Nat
  BY ReadBegins
<1>2. /\ writeHunk \in Nat /\ readOffset \in Nat /\ readOffset <= writeHunk + Ring
      /\ Half \in Nat \ {0} /\ Ring = Half + Half
      /\ (walking => readOffset < writeHunk + Ring)
  BY InOneRound, RingFacts DEF LayoutInv, RingLayout
<1>. HIDE DEF Half, SlotOf
<1>3. h \in Nat /\ h < doneOffset /\ writeHunk <= h
  BY <1>1, <1>2
<1>4. ASSUME NEW k \in 0..(Half - 1) PROVE SlotOf(h) # SlotOf(doneOffset) + k
  <2>1. SlotOf(doneOffset + k) = SlotOf(doneOffset) + k
    BY <1>1, NextHalf
  <2>2. doneOffset + k \in Nat /\ h < doneOffset + k /\ doneOffset + k < h + Ring
    BY <1>1, <1>2, <1>3
  <2>. QED  BY <1>3, <2>1, <2>2, SlotsApart
<1>5. ASSUME walking PROVE SlotOf(h) # SlotOf(doneOffset) + Half
  <2>1. CASE SlotOf(doneOffset) = 0
    <3>1. Half \in 0..Ring
      BY <1>2
    <3>2. SlotOf(doneOffset + Half) = 0 + Half
      BY <1>1, <1>2, <2>1, <3>1, SlotPlus
    <3>3. doneOffset + Half \in Nat /\ h < doneOffset + Half /\ doneOffset + Half < h + Ring
      BY <1>1, <1>2, <1>3, <1>5
    <3>. QED  BY <1>2, <1>3, <2>1, <3>2, <3>3, SlotsApart
  <2>2. CASE SlotOf(doneOffset) = Half
    <3>1. SlotOf(h) \in Nat /\ SlotOf(h) < Ring
      BY <1>3, SlotRange
    <3>. QED  BY <1>2, <2>2, <3>1
  <2>. QED  BY <1>1, <2>1, <2>2
<1>. QED  BY <1>4, <1>5

\* What a read leaves in a place.
LEMMA FilledPlaces ==
  ASSUME Shape, PlacesFilled, NEW hunks \in Seq([1..HunkUnits -> Nat]),
         NEW from \in Nat, NEW to \in Int
  PROVE  \A i \in 0..Ring :
           LET h == from + (i - SlotOf(from))
           IN  /\ Filled(hunks, from, to)[i] =
                    IF i >= SlotOf(from) /\ h <= to /\ h < Len(hunks) THEN hunks[h + 1] ELSE data[i]
               /\ Filled(hunks, from, to)[i] \in [1..HunkUnits -> Nat]
<1>1. Ring \in Nat /\ SlotOf(from) \in Nat
  BY RingFacts, SlotRange
<1>. HIDE DEF SlotOf
<1>2. ASSUME NEW i \in 0..Ring
      PROVE  LET h == from + (i - SlotOf(from))
             IN  /\ Filled(hunks, from, to)[i] =
                      IF i >= SlotOf(from) /\ h <= to /\ h < Len(hunks) THEN hunks[h + 1] ELSE data[i]
                 /\ Filled(hunks, from, to)[i] \in [1..HunkUnits -> Nat]
  <2>1. PICK h : h = from + (i - SlotOf(from))
    OBVIOUS
  <2>2. Filled(hunks, from, to)[i] =
          IF i >= SlotOf(from) /\ h <= to /\ h < Len(hunks) THEN hunks[h + 1] ELSE data[i]
    BY <2>1 DEF Filled
  <2>3. data[i] \in [1..HunkUnits -> Nat]
    BY DEF PlacesFilled
  <2>4. i >= SlotOf(from) /\ h < Len(hunks) => hunks[h + 1] \in [1..HunkUnits -> Nat]
    <3>1. SUFFICES ASSUME i >= SlotOf(from), h < Len(hunks)
                   PROVE  hunks[h + 1] \in [1..HunkUnits -> Nat]
      OBVIOUS
    <3>2. h \in Nat /\ Len(hunks) \in Nat /\ h + 1 \in 1..Len(hunks)
      BY <1>1, <2>1, <3>1
    <3>. QED  BY <3>2
  <2>. QED  BY <2>1, <2>2, <2>3, <2>4
<1>. QED  BY <1>2

LEMMA ReadFills ==
  ASSUME LayoutInv, PlacesFilled, DataRead, ReadHunks
  PROVE  PlacesFilled' /\ DataRead'
<1>1. PICK t, d, b : t = ReadRange.to /\ d = doneOffset /\ b = SlotOf(d)
  OBVIOUS
<1>2. /\ reader.pc = "idle" /\ tasks > 0 /\ ~readError
      /\ data' = IF walking THEN Filled(job.parent, d, t) ELSE Filled(job.source, d, t - 1)
      /\ UNCHANGED <<job, walking, readVars, slot, tasks, queue, worker, outVars, pc, outcome>>
  BY <1>1 DEF ReadHunks
<1>3. /\ d \in Nat /\ t \in Nat /\ d < t /\ Hunks \in Nat /\ Half \in Nat \ {0}
      /\ t = IF d + Half <= Hunks THEN d + Half ELSE Hunks
  BY <1>1, <1>2, RangeFacts, RingFacts
<1>4. /\ b \in {0, Half} /\ Ring = Half + Half /\ writeHunk \in Nat
      /\ b \in Nat /\ Ring \in Nat
  BY <1>1, <1>2, <1>3, ReadBegins, RingFacts, InOneRound
<1>5. Reading' = t /\ Reading = d /\ writeHunk' = writeHunk /\ walking' = walking /\ job' = job
      /\ Hunks' = Hunks
  BY <1>1, <1>2, ReadHunksKeeps DEF outVars, Hunks
<1>6. /\ Shape /\ job.source \in Seq([1..HunkUnits -> Nat]) /\ Hunks = Len(job.source)
      /\ job.parent \in Seq([1..HunkUnits -> Nat])
  <2>1. Shape
    BY DEF LayoutInv
  <2>. QED  BY <2>1, SessionFacts DEF Hunks
<1>. HIDE DEF Half, Hunks, Reading, SlotOf, ReadRange
<1>7. t <= Hunks /\ t <= d + Half
  BY <1>3
<1>8. Len(job.parent) \in Nat
  BY <1>6
\* The hunks that are read now, and those that were.
<1>9. ASSUME NEW h \in d..(t - 1)
      PROVE  h \in Nat /\ SlotOf(h) = b + (h - d) /\ SlotOf(h) \in 0..(Ring - 1)
  <2>1. h - d \in 0..(Half - 1) /\ h \in Nat /\ d + (h - d) = h
    BY <1>3, <1>7
  <2>2. SlotOf(d + (h - d)) = SlotOf(d) + (h - d)
    BY <1>1, <1>3, <1>4, <2>1, NextHalf
  <2>3. SlotOf(h) \in 0..(Ring - 1)
    BY <2>1, SlotRange DEF Slots
  <2>. QED  BY <1>1, <2>1, <2>2, <2>3
<1>10. ASSUME NEW h \in writeHunk..(d - 1)
       PROVE  /\ h \in Nat /\ SlotOf(h) \in 0..(Ring - 1)
              /\ \A k \in 0..(Half - 1) : SlotOf(h) # b + k
              /\ walking => SlotOf(h) # b + Half
  <2>1. h \in Nat
    BY <1>3, <1>4
  <2>2. SlotOf(h) \in 0..(Ring - 1)
    BY <2>1, SlotRange DEF Slots
  <2>. QED  BY <1>1, <1>2, <2>1, <2>2, ReadElsewhere
\* The buffer of the source.
<1>11. CASE ~walking
  <2>1. \A i \in 0..Ring :
          LET h == d + (i - b)
          IN  /\ data'[i] = IF i >= b /\ h <= t - 1 /\ h < Hunks THEN job.source[h + 1] ELSE data[i]
              /\ data'[i] \in [1..HunkUnits -> Nat]
    <3>1. t - 1 \in Int
      BY <1>3
    <3>. QED  BY <1>1, <1>2, <1>3, <1>6, <1>11, <3>1, FilledPlaces
  <2>2. ASSUME NEW h \in writeHunk..(t - 1) PROVE data'[SlotOf(h)] = job.source[h + 1]
    <3>1. CASE d <= h
      <4>1. h \in d..(t - 1)
        BY <1>3, <1>4, <3>1
      <4>2. SlotOf(h) \in 0..Ring /\ SlotOf(h) >= b /\ d + (SlotOf(h) - b) = h
        BY <1>3, <1>4, <1>9, <4>1
      <4>3. h <= t - 1 /\ h < Hunks
        BY <1>3, <1>7, <4>1
      <4>. QED  BY <2>1, <4>2, <4>3
    <3>2. CASE ~(d <= h)
      <4>1. h \in writeHunk..(d - 1)
        BY <1>3, <1>4, <3>2
      <4>2. SlotOf(h) \in 0..Ring /\ SlotOf(h) \in Nat
        BY <1>3, <1>4, <1>10, <4>1
      <4>3. ~(SlotOf(h) >= b /\ d + (SlotOf(h) - b) <= t - 1)
        <5>1. SUFFICES ASSUME SlotOf(h) >= b, d + (SlotOf(h) - b) <= t - 1 PROVE FALSE
          OBVIOUS
        <5>2. SlotOf(h) - b \in 0..(Half - 1) /\ SlotOf(h) = b + (SlotOf(h) - b)
          BY <1>3, <1>4, <1>7, <4>2, <5>1
        <5>. QED  BY <1>10, <4>1, <5>2
      <4>4. data'[SlotOf(h)] = data[SlotOf(h)]
        BY <2>1, <4>2, <4>3
      <4>5. data[SlotOf(h)] = job.source[h + 1]
        BY <1>5, <1>11, <4>1 DEF DataRead
      <4>. QED  BY <4>4, <4>5
    <3>. QED  BY <3>1, <3>2
  <2>. QED  BY <1>5, <1>11, <2>1, <2>2 DEF DataRead, PlacesFilled
\* The buffer of the parent, one hunk further.
<1>12. CASE walking
  <2>1. \A i \in 0..Ring :
          /\ data'[i] = IF i >= b /\ d + (i - b) <= t /\ d + (i - b) < Len(job.parent)
                        THEN job.parent[d + (i - b) + 1] ELSE data[i]
          /\ data'[i] \in [1..HunkUnits -> Nat]
    <3>1. t \in Int /\ data' = Filled(job.parent, d, t)
      BY <1>2, <1>3, <1>12
    <3>. HIDE DEF Filled
    <3>2. \A i \in 0..Ring :
            LET h == d + (i - SlotOf(d))
            IN  /\ Filled(job.parent, d, t)[i] =
                     IF i >= SlotOf(d) /\ h <= t /\ h < Len(job.parent)
                     THEN job.parent[h + 1] ELSE data[i]
                /\ Filled(job.parent, d, t)[i] \in [1..HunkUnits -> Nat]
      BY <1>3, <1>6, <3>1, FilledPlaces
    <3>. QED  BY <1>1, <3>1, <3>2
  <2>2. ASSUME NEW h \in writeHunk..(t - 1), d <= h
        PROVE  /\ h < Len(job.parent) => data'[SlotOf(h)] = job.parent[h + 1]
               /\ h + 1 < Hunks /\ h + 1 < Len(job.parent)
                    => data'[SlotOf(h) + 1] = job.parent[h + 2]
    <3>1. h \in d..(t - 1)
      BY <1>3, <1>4, <2>2
    <3>2. /\ SlotOf(h) \in 0..Ring /\ SlotOf(h) >= b /\ d + (SlotOf(h) - b) = h
          /\ SlotOf(h) + 1 \in 0..Ring /\ SlotOf(h) + 1 >= b /\ d + ((SlotOf(h) + 1) - b) = h + 1
      BY <1>3, <1>4, <1>9, <3>1
    <3>3. h <= t /\ h + 1 <= t
      BY <1>3, <1>6, <1>7, <1>8, <1>12, <3>1
    <3>4. h < Len(job.parent) => data'[SlotOf(h)] = job.parent[h + 1]
      BY <2>1, <3>2, <3>3
    <3>5. ASSUME h + 1 < Hunks, h + 1 < Len(job.parent)
          PROVE  data'[SlotOf(h) + 1] = job.parent[h + 2]
      <4>1. h + 1 < Len(job.parent) /\ h + 1 + 1 = h + 2
        BY <1>3, <1>6, <1>8, <1>12, <3>1, <3>5
      <4>2. PICK i : i = SlotOf(h) + 1
        OBVIOUS
      <4>3. /\ i \in 0..Ring /\ i >= b /\ d + (i - b) <= t /\ d + (i - b) < Len(job.parent)
            /\ d + (i - b) + 1 = h + 2
        <5>1. i \in 0..Ring /\ i >= b
          BY <3>2, <4>2
        <5>2. d + (i - b) = h + 1
          BY <3>2, <4>2
        <5>. QED  BY <3>3, <4>1, <5>1, <5>2
      <4>4. data'[i] = job.parent[h + 2]
        BY <2>1, <4>3
      <4>. QED  BY <4>2, <4>4
    <3>. QED  BY <3>4, <3>5
  <2>3. ASSUME NEW h \in writeHunk..(t - 1), ~(d <= h)
        PROVE  /\ h < Len(job.parent) => data'[SlotOf(h)] = job.parent[h + 1]
               /\ h + 1 < Hunks /\ h + 1 < Len(job.parent)
                    => data'[SlotOf(h) + 1] = job.parent[h + 2]
    <3>1. h \in writeHunk..(d - 1) /\ h \in Nat /\ h < d
      BY <1>3, <1>4, <2>3
    <3>2. SlotOf(h) \in 0..Ring /\ SlotOf(h) \in Nat /\ SlotOf(h) + 1 \in 0..Ring
      BY <1>3, <1>4, <1>10, <3>1
    <3>3. /\ h < Len(job.parent) => data[SlotOf(h)] = job.parent[h + 1]
          /\ h + 1 < Hunks /\ h + 1 < Len(job.parent) => data[SlotOf(h) + 1] = job.parent[h + 2]
      BY <1>5, <1>12, <3>1 DEF DataRead
    <3>4. ~(SlotOf(h) >= b /\ d + (SlotOf(h) - b) <= t)
      <4>1. SUFFICES ASSUME SlotOf(h) >= b, d + (SlotOf(h) - b) <= t PROVE FALSE
        OBVIOUS
      <4>2. PICK k \in 0..Half : SlotOf(h) = b + k
        <5>1. SlotOf(h) - b \in 0..Half /\ SlotOf(h) = b + (SlotOf(h) - b)
          BY <1>3, <1>4, <1>7, <3>2, <4>1
        <5>. QED  BY <5>1
      <4>3. k \in 0..(Half - 1) \/ k = Half
        BY <1>3, <4>2
      <4>. QED  BY <1>10, <1>12, <3>1, <4>2, <4>3
    <3>5. data'[SlotOf(h)] = data[SlotOf(h)]
      BY <2>1, <3>2, <3>4
    \* The place behind the hunk is written with the hunk that is there.
    <3>6. ASSUME h + 1 < Hunks, h + 1 < Len(job.parent)
          PROVE  data'[SlotOf(h) + 1] = job.parent[h + 2]
      <4>1. PICK k : k = (SlotOf(h) + 1) - b
        OBVIOUS
      <4>2. k \in Int /\ SlotOf(h) + 1 = b + k /\ SlotOf(h) = b + (k - 1)
        BY <1>4, <3>2, <4>1
      <4>3. CASE k < 0 \/ d + k > t
        <5>1. ~(SlotOf(h) + 1 >= b /\ d + ((SlotOf(h) + 1) - b) <= t)
          BY <1>3, <1>4, <3>2, <4>1, <4>2, <4>3
        <5>2. PICK i \in 0..Ring : i = SlotOf(h) + 1
          BY <3>2
        <5>3. ~(i >= b /\ d + (i - b) <= t)
          BY <5>1, <5>2
        <5>5. data'[i] = data[i]
          BY <2>1, <5>3
        <5>4. data'[SlotOf(h) + 1] = data[SlotOf(h) + 1]
          BY <5>2, <5>5
        <5>. QED  BY <3>3, <3>6, <5>4
      <4>4. CASE k > 0 /\ d + k <= t
        <5>1. k - 1 \in 0..(Half - 1)
          BY <1>3, <1>7, <4>2, <4>4
        <5>. QED  BY <1>10, <3>1, <4>2, <5>1
      <4>5. CASE k = 0
        <5>1. SlotOf(h + 1) = SlotOf(d)
          <6>1. /\ 1 \in 0..Ring
                /\ SlotOf(h + 1) = IF SlotOf(h) + 1 < Ring THEN SlotOf(h) + 1 ELSE SlotOf(h) + 1 - Ring
            BY <1>3, <1>4, <3>1, SlotPlus
          <6>2. SlotOf(h) + 1 = b /\ b < Ring
            BY <1>3, <1>4, <3>2, <4>2, <4>5
          <6>. QED  BY <1>1, <3>2, <6>1, <6>2
        <5>2. h + 1 = d
          <6>1. /\ writeHunk <= h /\ doneOffset + Half <= readOffset /\ readOffset <= writeHunk + Ring
                /\ readOffset \in Nat
            BY <1>2, <1>3, <1>4, <3>1, ReadBegins, InOneRound
          <6>2. h + 1 \in Nat /\ h + 1 <= d /\ d < h + 1 + Ring
            BY <1>1, <1>3, <1>4, <3>1, <6>1
          <6>3. ~(h + 1 < d)
            BY <1>3, <5>1, <6>2, SlotsApart
          <6>. QED  BY <1>3, <6>2, <6>3
        <5>3. /\ SlotOf(h) + 1 >= b /\ d + ((SlotOf(h) + 1) - b) = d /\ d <= t
              /\ d < Len(job.parent) /\ d + 1 = h + 2
          BY <1>3, <1>4, <1>6, <1>7, <1>8, <1>12, <3>1, <3>2, <3>6, <4>2, <4>5, <5>2
        <5>4. PICK i \in 0..Ring : i = SlotOf(h) + 1
          BY <3>2
        <5>5. /\ i >= b /\ d + (i - b) <= t /\ d + (i - b) < Len(job.parent)
              /\ d + (i - b) + 1 = h + 2
          BY <1>3, <1>4, <3>1, <3>2, <5>3, <5>4
        <5>6. data'[i] = job.parent[h + 2]
          BY <2>1, <5>5
        <5>. QED  BY <5>4, <5>6
      <4>. QED  BY <1>3, <4>2, <4>3, <4>4, <4>5
    <3>. QED  BY <3>3, <3>5, <3>6
  <2>. QED  BY <1>5, <1>12, <2>1, <2>2, <2>3 DEF DataRead, PlacesFilled
<1>. QED  BY <1>11, <1>12

\* The hunks between what is written and what has been read stay where they are.
LEMMA DataStays ==
  ASSUME LayoutInv, PlacesFilled, DataRead, data' = data, job' = job, walking' = walking,
         Reading' = Reading, writeHunk' = writeHunk \/ writeHunk' = writeHunk + 1
  PROVE  PlacesFilled' /\ DataRead'
<1>1. PlacesFilled'
  BY DEF PlacesFilled
<1>2. writeHunk \in Nat /\ Reading \in Nat
  BY SpawnFacts DEF LayoutInv, Shape
<1>. HIDE DEF Reading
<1>3. \A h \in writeHunk'..(Reading - 1) : h \in writeHunk..(Reading - 1)
  BY <1>2
<1>4. Hunks' = Hunks
  BY DEF Hunks
<1>5. DataRead'
  BY <1>3, <1>4 DEF DataRead
<1>. QED  BY <1>1, <1>5

DataInv == LayoutInv /\ PlacesFilled /\ DataRead

LEMMA DataInit == Init => DataInv
<1>1. SUFFICES ASSUME Init PROVE DataInv
  OBVIOUS
<1>2. LayoutInv
  BY <1>1, LayoutInit
<1>3. PlacesFilled
  <2>1. Zero \in [1..HunkUnits -> Nat]
    BY DEF Zero
  <2>2. data = [i \in 0..Ring |-> Zero]
    BY <1>1 DEF Init
  <2>. QED  BY <2>1, <2>2 DEF PlacesFilled
<1>4. DataRead
  <2>1. writeHunk = 0 /\ Reading = 0
    BY <1>1 DEF Init, Reading
  <2>2. \A h \in 0..(0 - 1) : FALSE
    OBVIOUS
  <2>. QED  BY <2>1, <2>2 DEF DataRead
<1>. QED  BY <1>2, <1>3, <1>4 DEF DataInv

LEMMA DataStep ==
  ASSUME DataInv, [Next]_vars, ~Overtaken'
  PROVE  DataInv'
<1>1. LayoutInv /\ PlacesFilled /\ DataRead
  BY DEF DataInv
<1>2. LayoutInv'
  BY <1>1, LayoutStep
<1>. DEFINE Quiet == /\ data' = data /\ job' = job /\ walking' = walking /\ Reading' = Reading
                     /\ writeHunk' = writeHunk \/ writeHunk' = writeHunk + 1
<1>3. Quiet => PlacesFilled' /\ DataRead'
  BY <1>1, DataStays
<1>. SUFFICES PlacesFilled' /\ DataRead'
  BY <1>2 DEF DataInv
<1>4. CASE QueueRead
  <2>1. Reading' = Reading
    BY <1>1, <1>4, QueueReadKeeps
  <2>2. Quiet
    BY <1>4, <2>1 DEF QueueRead, outVars
  <2>. QED  BY <1>3, <2>2
<1>5. CASE ReadsQueued \/ Finish \/ Flushed \/ WaitOver \/ WaitAgain \/ Rest
  <2>1. UNCHANGED <<job, walking, readVars, slot, data, threadVars, outVars>>
    BY <1>1, <1>5, CallerGoesOn
  <2>2. Quiet
    BY <2>1 DEF Reading, readVars, threadVars, outVars
  <2>. QED  BY <1>3, <2>2
<1>11. CASE ReleaseItem
  <2>1. Reading' = Reading
    BY <1>1, <1>11, ReleaseItemKeeps
  <2>2. Quiet
    BY <1>11, <2>1 DEF ReleaseItem, outVars
  <2>. QED  BY <1>3, <2>2
<1>6. CASE ProcessHunk
  <2>1. CASE LastHunk /\ walking
    <3>1. writeHunk' = 0 /\ Reading' = 0 /\ data' = data
      BY <1>1, <1>6, <2>1, NotOvertaken, RestartKeeps DEF ProcessHunk
    <3>2. \A h \in 0..(0 - 1) : FALSE
      OBVIOUS
    <3>3. DataRead'
      BY <3>1, <3>2 DEF DataRead
    <3>. QED  BY <1>1, <3>1, <3>3 DEF PlacesFilled
  <2>2. CASE ~(LastHunk /\ walking)
    <3>1. Quiet
      BY <1>1, <1>6, <2>2, ProcessKeeps
    <3>. QED  BY <1>3, <3>1
  <2>. QED  BY <2>1, <2>2
<1>7. CASE ReadHunks
  BY <1>1, <1>7, ReadFills
<1>8. CASE SkipRead \/ FailRead \/ SpawnHunk \/ NoteItem \/ SumHunks \/ AdvanceRead
  <2>1. Reading' = Reading
    BY <1>1, <1>8, SkipReadKeeps, FailReadKeeps, SpawnHunkKeeps, NoteItemKeeps, SumHunksKeeps,
       AdvanceReadKeeps
  <2>2. Quiet
    BY <1>8, <2>1 DEF SkipRead, FailRead, SpawnHunk, NoteItem, SumHunks, AdvanceRead, outVars
  <2>. QED  BY <1>3, <2>2
<1>9. CASE \E w \in Workers : WorkerStep(w)
  <2>1. PICK w \in Workers : HashHunk(w) \/ PackHunk(w) \/ ItemDone(w)
    BY <1>9 DEF WorkerStep
  <2>2. Reading' = Reading
    BY <1>1, <2>1, HashHunkKeeps, PackHunkKeeps, ItemDoneKeeps
  <2>3. Quiet
    BY <2>1, <2>2 DEF HashHunk, PackHunk, ItemDone, outVars
  <2>. QED  BY <1>3, <2>3
<1>10. CASE UNCHANGED vars
  <2>1. Quiet
    BY <1>10 DEF vars, Reading, readVars, threadVars, outVars
  <2>. QED  BY <1>3, <2>1
<1>. QED  BY <1>4, <1>5, <1>6, <1>7, <1>8, <1>9, <1>10, <1>11 DEF Next, CallerStep, ReaderStep

\* Two sequences of the same length, one behind the other.
LEMMA Behind ==
  ASSUME NEW m \in Nat, NEW first \in [1..m -> Nat], NEW second \in [1..m -> Nat]
  PROVE  /\ first \o second \in Seq(Nat) /\ Len(first \o second) = m + m
         /\ \A n \in 1..m : (first \o second)[n] = first[n]
         /\ \A n \in 1..m : (first \o second)[m + n] = second[n]
<1>1. first \in Seq(Nat) /\ second \in Seq(Nat)
  OBVIOUS
<1>2. Len(first) = m /\ Len(second) = m
  OBVIOUS
<1>3. /\ first \o second \in Seq(Nat)
      /\ Len(first \o second) = Len(first) + Len(second)
      /\ \A i \in 1..(Len(first) + Len(second)) :
           (first \o second)[i] = IF i <= Len(first) THEN first[i] ELSE second[i - Len(first)]
  BY <1>1, ConcatProperties
<1>4. PICK both : both = first \o second
  OBVIOUS
<1>5. \A i \in 1..(m + m) : both[i] = IF i <= m THEN first[i] ELSE second[i - m]
  BY <1>2, <1>3, <1>4
<1>6. ASSUME NEW n \in 1..m PROVE both[n] = first[n] /\ both[m + n] = second[n]
  <2>1. n \in 1..(m + m) /\ n <= m
    OBVIOUS
  <2>2. m + n \in 1..(m + m) /\ ~(m + n <= m) /\ (m + n) - m = n
    OBVIOUS
  <2>. QED  BY <1>5, <2>1, <2>2
<1>. QED  BY <1>2, <1>3, <1>4, <1>6

LEMMA Part ==
  ASSUME NEW s \in Seq(Nat), NEW m \in Nat, NEW u \in Nat, u + m <= Len(s)
  PROVE  SubSeq(s, u + 1, u + m) = [n \in 1..m |-> s[u + n]]
<1>1. Len(s) \in Nat
  OBVIOUS
<1>2. \A i \in (u + 1)..(u + m) : i \in 1..Len(s)
  BY <1>1
<1>3. \A i \in (u + 1)..(u + m) : s[i] \in Nat
  BY <1>2
<1>4. PICK a \in Int, b \in Int : a = u + 1 /\ b = u + m
  OBVIOUS
<1>5. /\ SubSeq(s, a, b) \in Seq(Nat)
      /\ Len(SubSeq(s, a, b)) = IF a <= b THEN b - a + 1 ELSE 0
      /\ \A i \in 1..(b - a + 1) : SubSeq(s, a, b)[i] = s[a + i - 1]
  BY <1>3, <1>4, SubSeqProperties
<1>6. b - a + 1 = m /\ (~(a <= b) => m = 0)
  BY <1>4
<1>7. Len(SubSeq(s, a, b)) = m
  BY <1>5, <1>6
<1>8. \A n \in 1..m : a + n - 1 = u + n
  BY <1>4
<1>9. \A n \in 1..m : SubSeq(s, a, b)[n] = s[u + n]
  BY <1>5, <1>6, <1>8
<1>10. SubSeq(s, a, b) = [n \in 1..m |-> s[u + n]]
  <2>1. DOMAIN SubSeq(s, a, b) = 1..m
    BY <1>5, <1>7
  <2>2. PICK p \in Seq(Nat) : p = SubSeq(s, a, b)
    BY <1>5
  <2>3. p = [n \in DOMAIN p |-> p[n]]
    <3>1. PICK k \in Nat : p \in [1..k -> Nat]
      BY SeqDef
    <3>. QED  BY <3>1, Zenon
  <2>. QED  BY <1>9, <2>1, <2>2, <2>3
<1>. QED  BY <1>4, <1>10

\* The units of the parent, hunk after hunk.
LEMMA UnitsOfParent ==
  ASSUME Shape
  PROVE  /\ ParentUnits \in Seq(Nat) /\ Len(ParentUnits) = Len(job.parent) * HunkUnits
         /\ \A g \in 0..(Len(job.parent) - 1), r \in 1..HunkUnits :
              /\ g * HunkUnits + r \in 1..(Len(job.parent) * HunkUnits)
              /\ ParentUnits[g * HunkUnits + r] = job.parent[g + 1][r]
<1>1. PICK m \in Nat \ {0} : m = HunkUnits
  BY SessionFacts
<1>2. job.parent \in Seq([1..m -> Nat])
  BY <1>1, SessionFacts
<1>3. PICK l \in Nat : l = Len(job.parent)
  BY <1>2
<1>4. PICK z \in Nat : z = l * m
  OBVIOUS
<1>5. ParentUnits = [n \in 1..z |-> job.parent[((n - 1) \div m) + 1][((n - 1) % m) + 1]]
  BY <1>1, <1>3, <1>4 DEF ParentUnits
<1>6. ASSUME NEW n \in 1..z
      PROVE  job.parent[((n - 1) \div m) + 1][((n - 1) % m) + 1] \in Nat
  <2>1. n - 1 \in Nat
    OBVIOUS
  <2>2. PICK g \in Nat, r \in 0..(m - 1) :
          g = (n - 1) \div m /\ r = (n - 1) % m /\ n - 1 = m * g + r
    <3>1. PICK a \in Nat : a = n - 1
      BY <2>1
    <3>2. a = m * (a \div m) + (a % m) /\ a % m \in 0..(m - 1) /\ a \div m \in Nat
      OBVIOUS
    <3>. QED  BY <3>1, <3>2
  <2>3. g < l
    <3>1. SUFFICES ASSUME ~(g < l) PROVE FALSE
      OBVIOUS
    <3>2. g = l \/ l < g
      BY <3>1
    <3>3. m * l <= m * g
      <4>1. CASE g = l
        BY <4>1
      <4>2. CASE l < g
        <5>1. m * l + m <= m * g
          BY <4>2, Multiples
        <5>2. m * l \in Nat /\ m * g \in Nat
          OBVIOUS
        <5>. QED  BY <5>1, <5>2
      <4>. QED  BY <3>2, <4>1, <4>2
    <3>4. m * l = z /\ m * g \in Nat
      BY <1>4
    <3>. QED  BY <2>2, <3>3, <3>4
  <2>4. job.parent[g + 1] \in [1..m -> Nat]
    <3>1. g \in Nat /\ l \in Nat /\ g < l /\ l = Len(job.parent)
      BY <1>3, <2>3
    <3>2. g + 1 \in 1..l
      BY ONLY <3>1
    <3>. QED  BY <1>2, <3>1, <3>2
  <2>. QED  BY <2>2, <2>4
<1>7. ParentUnits \in [1..z -> Nat]
  BY <1>5, <1>6
<1>8. ParentUnits \in Seq(Nat) /\ Len(ParentUnits) = z
  BY <1>7
<1>9. ASSUME NEW g \in 0..(l - 1), NEW r \in 1..m
      PROVE  g * m + r \in 1..z /\ ParentUnits[g * m + r] = job.parent[g + 1][r]
  <2>1. g \in Nat /\ g < l /\ r - 1 \in 0..(m - 1)
    OBVIOUS
  <2>2. PICK y \in Nat : y = m * g /\ y = g * m
    BY <2>1
  <2>3. y + m <= z
    <3>1. m * g + m <= m * l
      BY <2>1, Multiples
    <3>2. m * l = z
      BY <1>4
    <3>. QED  BY <2>2, <3>1, <3>2
  <2>4. y + r \in 1..z /\ (y + r) - 1 = y + (r - 1)
    BY <2>3
  <2>5. (y + (r - 1)) \div m = g /\ (y + (r - 1)) % m = r - 1
    BY <2>1, <2>2, DivMod
  <2>6. ParentUnits[y + r] =
          job.parent[(((y + r) - 1) \div m) + 1][(((y + r) - 1) % m) + 1]
    BY <1>5, <2>4
  <2>7. ParentUnits[y + r] = job.parent[g + 1][(r - 1) + 1]
    BY <2>4, <2>5, <2>6
  <2>. QED  BY <2>2, <2>4, <2>7
<1>. QED  BY <1>1, <1>3, <1>4, <1>8, <1>9

\* A hunk's worth of two hunks that follow each other in the parent is a hunk's worth
\* of the parent.
LEMMA WindowOfParent ==
  ASSUME Shape, PlacesFilled, NEW h \in Nat, NEW i \in Slots, NEW u \in 0..(HunkUnits - 1),
         h < Len(job.parent), data[i] = job.parent[h + 1],
         u # 0 => h + 1 < Len(job.parent) /\ data[i + 1] = job.parent[h + 2]
  PROVE  Window(i, u) = ReadParent(h * HunkUnits + u)
<1>1. PICK m \in Nat \ {0} : m = HunkUnits
  BY SessionFacts
<1>2. /\ job.parent \in Seq([1..m -> Nat]) /\ Ring \in Nat /\ i \in 0..Ring /\ i + 1 \in 0..Ring
  <2>1. job.parent \in Seq([1..m -> Nat])
    BY <1>1, SessionFacts
  <2>2. Ring \in Nat /\ i \in 0..(Ring - 1)
    BY RingFacts DEF Slots
  <2>3. i \in 0..Ring /\ i + 1 \in 0..Ring
    BY <2>2
  <2>. QED  BY <2>1, <2>2, <2>3
<1>3. PICK l \in Nat : l = Len(job.parent)
  BY <1>2
<1>4. PICK first \in [1..m -> Nat], second \in [1..m -> Nat] :
        first = data[i] /\ second = data[i + 1]
  BY <1>1, <1>2 DEF PlacesFilled
<1>5. u \in Nat /\ u < m /\ h < l /\ (u # 0 => h + 1 < l)
  BY <1>1, <1>3
<1>6. PICK both \in Seq(Nat) :
        /\ both = first \o second /\ Len(both) = m + m
        /\ \A n \in 1..m : both[n] = first[n]
        /\ \A n \in 1..m : both[m + n] = second[n]
  <2>1. /\ first \o second \in Seq(Nat) /\ Len(first \o second) = m + m
        /\ \A n \in 1..m : (first \o second)[n] = first[n]
        /\ \A n \in 1..m : (first \o second)[m + n] = second[n]
    BY ONLY Behind, m \in Nat, first \in [1..m -> Nat], second \in [1..m -> Nat]
  <2>. QED  BY <2>1
<1>7. Window(i, u) = [n \in 1..m |-> both[u + n]]
  <2>1. Window(i, u) = SubSeq(both, u + 1, u + m)
    BY <1>1, <1>4, <1>6 DEF Window
  <2>2. u + m <= Len(both)
    BY <1>5, <1>6
  <2>. QED  BY <1>5, <2>1, <2>2, Part
<1>8. PICK units : units = ParentUnits
  OBVIOUS
<1>9. PICK z \in Nat : z = l * m
  OBVIOUS
<1>10. /\ units \in Seq(Nat) /\ Len(units) = z
       /\ \A g \in 0..(l - 1), r \in 1..m :
            g * m + r \in 1..z /\ units[g * m + r] = job.parent[g + 1][r]
  BY <1>1, <1>3, <1>8, <1>9, UnitsOfParent
<1>11. PICK y \in Nat : y = h * m
  OBVIOUS
<1>12. (h + 1) * m = y + m
  BY <1>11
<1>13. y + u + m <= z
  <2>1. CASE u = 0
    <3>1. h \in 0..(l - 1) /\ m \in 1..m
      BY <1>5
    <3>2. y + m \in 1..z
      BY <1>10, <1>11, <3>1
    <3>. QED  BY <2>1, <3>2
  <2>2. CASE u # 0
    <3>1. h + 1 \in 0..(l - 1) /\ m \in 1..m
      BY <1>5, <2>2
    <3>2. (h + 1) * m + m \in 1..z
      BY <1>10, <3>1
    <3>. QED  BY <1>5, <1>12, <3>2
  <2>. QED  BY <2>1, <2>2
<1>14. ReadParent(y + u) = [n \in 1..m |-> units[(y + u) + n]]
  <2>1. ReadParent(y + u) = SubSeq(units, (y + u) + 1, (y + u) + m)
    BY <1>1, <1>8, <1>10, <1>13 DEF ReadParent
  <2>2. y + u \in Nat /\ (y + u) + m <= Len(units)
    <3>1. /\ u \in Nat /\ y \in Nat /\ m \in Nat /\ z \in Nat
          /\ y + u + m <= z /\ Len(units) = z
      BY <1>5, <1>10, <1>13
    <3>. QED  BY ONLY <3>1
  <2>. QED  BY <1>10, <2>1, <2>2, Part
<1>15. ASSUME NEW n \in 1..m PROVE both[u + n] = units[(y + u) + n]
  <2>1. CASE u + n <= m
    <3>1. PICK r \in 1..m : r = u + n
      BY <1>5, <2>1
    <3>2. (y + u) + n = y + r /\ h \in 0..(l - 1)
      <4>1. /\ u \in Nat /\ h \in Nat /\ l \in Nat /\ y \in Nat /\ n \in Nat /\ r \in Nat
            /\ r = u + n /\ h < l
        BY <1>5, <3>1
      <4>. QED  BY ONLY <4>1
    <3>3. units[y + r] = job.parent[h + 1][r]
      BY <1>10, <1>11, <3>2
    <3>4. both[r] = job.parent[h + 1][r]
      BY <1>4, <1>6
    <3>. QED  BY <3>1, <3>2, <3>3, <3>4
  <2>2. CASE ~(u + n <= m)
    <3>1. PICK r \in 1..m : u + n = m + r
      <4>1. (u + n) - m \in 1..m /\ u + n = m + ((u + n) - m)
        BY <1>5, <2>2
      <4>. QED  BY <4>1
    <3>2. u # 0
      BY <1>5, <2>2
    <3>3. (y + u) + n = (y + m) + r /\ h + 1 \in 0..(l - 1) /\ (h + 1) + 1 = h + 2
      <4>1. u \in Nat /\ h \in Nat /\ l \in Nat /\ y \in Nat /\ m \in Nat /\ n \in Nat /\ r \in Nat
        BY <1>5, <3>1
      <4>2. u + n = m + r /\ h + 1 < l
        BY <1>5, <3>1, <3>2
      <4>3. (y + u) + n = (y + m) + r
        BY ONLY <4>1, <4>2
      <4>. QED  BY ONLY <4>1, <4>2, <4>3
    <3>4. units[(y + m) + r] = job.parent[h + 2][r]
      BY <1>10, <1>12, <3>3
    <3>5. both[m + r] = job.parent[h + 2][r]
      BY <1>4, <1>6, <3>2
    <3>. QED  BY <3>1, <3>3, <3>4, <3>5
  <2>. QED  BY <2>1, <2>2
<1>. QED  BY <1>1, <1>7, <1>11, <1>14, <1>15

LEMMA InvKeepsSlots ==
  ASSUME DataInv
  PROVE  SlotKept
<1>1. /\ LayoutInv /\ Shape /\ RingLayout /\ PlacesFilled /\ DataRead
  BY DEF DataInv, LayoutInv
<1>2. /\ writeHunk \in Nat /\ readOffset \in Nat /\ Spawning \in Nat /\ Reading \in Nat
      /\ Hunks \in Nat /\ Spawning <= Reading /\ Reading <= Hunks /\ Ring \in Nat
      /\ HunkUnits \in Nat \ {0}
  BY <1>1, InOneRound, SpawnFacts, SessionFacts DEF LayoutInv
<1>4. SUFFICES ASSUME NEW i \in Slots, slot[i].status \in {"queued", "complete"}
               PROVE  IF walking
                      THEN \A u \in UnitsHashed(slot[i].hunk) :
                             InParent(slot[i].hunk, u) =>
                               Window(i, u) = ReadParent(slot[i].hunk * HunkUnits + u)
                      ELSE data[i] = job.source[slot[i].hunk + 1]
  BY DEF SlotKept
<1>5. PICK h \in writeHunk..(writeHunk + Ring - 1) : SlotOf(h) = i
  BY <1>2, SlotsUsed
<1>. HIDE DEF Spawning, Reading, Hunks
<1>6. h \in Nat /\ h < Spawning /\ slot[i].hunk = h /\ h \in writeHunk..(Reading - 1)
  <2>1. /\ h < Spawning => slot[i].hunk = h
        /\ Spawning <= h /\ h < readOffset => slot[i].status = "reading"
        /\ readOffset <= h => slot[i].status = "ready"
    BY <1>1, <1>5 DEF RingLayout
  <2>2. h \in Nat
    BY <1>2
  <2>3. h < Spawning
    BY <1>2, <1>4, <2>1, <2>2
  <2>. QED  BY <1>2, <2>1, <2>2, <2>3
<1>7. CASE ~walking
  BY <1>1, <1>5, <1>6, <1>7 DEF DataRead
<1>8. CASE walking
  <2>1. /\ h < Len(job.parent) => data[i] = job.parent[h + 1]
        /\ h + 1 < Hunks /\ h + 1 < Len(job.parent) => data[i + 1] = job.parent[h + 2]
    BY <1>1, <1>5, <1>6, <1>8 DEF DataRead
  <2>3. ASSUME NEW u \in UnitsHashed(h), InParent(h, u)
        PROVE  Window(i, u) = ReadParent(h * HunkUnits + u)
    <3>1. u \in 0..(HunkUnits - 1) /\ (u # 0 => h # Hunks - 1)
      BY <1>2 DEF UnitsHashed
    <3>3. h < Len(job.parent) /\ (u # 0 => h + 1 < Len(job.parent))
      BY <2>3, <3>1 DEF InParent
    <3>2. u # 0 => h + 1 < Hunks
      BY <1>2, <1>6, <3>1
    <3>. QED  BY <1>1, <1>6, <2>1, <3>1, <3>2, <3>3, WindowOfParent
  <2>. QED  BY <1>6, <1>8, <2>3
<1>. QED  BY <1>7, <1>8

\* Nothing is read over a hunk, nor over the hunk behind it that its hashes reach into,
\* from when it is given to the workers until compress_continue has dealt with it, in
\* every compression in which the end of the walk has not overtaken a read.
THEOREM KeptUntilWritten == Spec => []SlotKept
<1>1. Init => DataInv \/ Overtaken
  BY DataInit
<1>2. (DataInv \/ Overtaken) /\ [Next]_vars => (DataInv \/ Overtaken)'
  BY DataStep, SlipsStay DEF Overtaken
<1>3. DataInv \/ Overtaken => SlotKept
  BY InvKeepsSlots DEF Overtaken, SlotKept
<1>. QED  BY <1>1, <1>2, <1>3, PTL DEF Spec
==============================================================================
