---------------------------- MODULE ChdCompressor ----------------------------
(***************************************************************************)
(* The compressor of images (chd_file_compressor).  The caller's thread    *)
(* runs compress_continue until it reports an end: it queues reads of half *)
(* a ring of hunks for the one input thread, and writes the hunks of the   *)
(* ring in order as they complete.  The input thread reads, and queues a   *)
(* work item for each hunk; worker threads hash and compress the hunks in  *)
(* any order.  With a parent the same ring is first run over the parent's  *)
(* hunks, to learn what may be copied from it.                             *)
(*                                                                         *)
(* Offsets count hunks, a hunk is the sequence of its units, and a hash is *)
(* the hunk it was made from (no two hunks have the same hashes).          *)
(***************************************************************************)
EXTENDS ChdMap, FiniteSets, Functions

CONSTANTS
  Ring,         \* WORK_BUFFER_HUNKS
  Workers,      \* the threads of m_work_queue
  Sessions,     \* what to compress: source, parent, compressed; and whether reads
                \* may fail
  Codec,        \* the codec find_best_compressor chooses for a hunk
  Packed,       \* the length it compresses the hunk to
  NoItem

Half == Ring \div 2

ASSUME RingAssumption == Ring \in Nat /\ Ring % 2 = 0 /\ Ring > 0

ASSUME SessionsAssumption ==
  /\ HunkUnits \in Nat \ {0}
  /\ \A s \in Sessions :
       /\ s.source \in Seq([1..HunkUnits -> Nat]) /\ s.parent \in Seq([1..HunkUnits -> Nat])
       /\ {s.compressed, s.fails} \subseteq BOOLEAN

Slots == 0..(Ring - 1)

VARIABLES
  job,          \* the session
  walking,      \* m_walking_parent
  readOffset,   \* m_read_queue_offset
  doneOffset,   \* m_read_done_offset
  readError,    \* m_read_error
  slot,         \* m_work_item: status, hunk, osd, hash, packed
  data,         \* m_work_buffer: a hunk for each slot and one more
  tasks,        \* reads that are queued or being done
  reader,       \* the input thread: pc, from, to, next
  queue,        \* work items that no worker has taken
  worker,       \* the workers: pc and item
  parentMap,    \* m_parent_map
  selfMap,      \* m_current_map
  writeHunk,    \* m_write_hunk
  map,          \* m_rawmap, as far as it has been written
  image,        \* what has been appended to the file
  sha,          \* what m_compsha1 has been given
  pc,           \* of the caller's thread
  outcome,      \* what compress_continue returned in the end, and the file's end
  slips         \* what has come too late: "overtaken", a read that the end of the
                \* parent's walk did not wait for; "noted late", a work item that was
                \* noted when its hunk had been dealt with

readVars == <<readOffset, doneOffset, readError>>
threadVars == <<tasks, reader, queue, worker>>
outVars == <<parentMap, selfMap, writeHunk, map, image, sha>>
vars == <<job, walking, readVars, slot, data, threadVars, outVars, pc, outcome, slips>>

Hunks == Len(job.source)
HasParent == job.parent # <<>>
Zero == [u \in 1..HunkUnits |-> 0]

SlotOf(h) == h % Ring
Item(h) == [slot |-> SlotOf(h), hunk |-> h, walk |-> walking]

\* The hunk's worth of units that starts at unit u of the hunk in slot i.
Window(i, u) == SubSeq(data[i] \o data[i + 1], u + 1, u + HunkUnits)

\* The units of a hunk of the parent that are hashed: those at which a whole hunk
\* may start.
UnitsHashed(h) ==
  IF h = Hunks - 1 \/ ~job.compressed THEN {0} ELSE 0..(HunkUnits - 1)

----------------------------------------------------------------------------
(* Initial state: compress_begin. *)

Init ==
  /\ job \in Sessions
  /\ walking = HasParent
  /\ readOffset = 0 /\ doneOffset = 0 /\ readError = FALSE
  /\ slot = [i \in Slots |-> [status |-> "ready", hunk |-> 0, osd |-> NoItem,
                              hash |-> <<>>, packed |-> <<>>]]
  /\ data = [i \in 0..Ring |-> Zero]
  /\ tasks = 0 /\ reader = [pc |-> "idle", from |-> 0, to |-> 0, next |-> 0]
  /\ queue = <<>> /\ worker = [w \in Workers |-> [pc |-> "idle", item |-> NoItem]]
  /\ parentMap = <<>> /\ selfMap = <<>>
  /\ writeHunk = 0 /\ map = <<>> /\ image = <<>> /\ sha = <<>>
  /\ pc = "read" /\ outcome = "running" /\ slips = {}

----------------------------------------------------------------------------
(* The caller's thread: compress_continue. *)

\* Mutant of CanRead: the slot the reader reads ahead is not asked for.
CanReadHalf ==
  /\ readOffset < Hunks /\ tasks < 2
  /\ \A k \in 0..(Half - 1) : slot[SlotOf(readOffset + k)].status = "ready"

\* Half of the ring is free, and one slot more when the reader reads one hunk more.
CanRead ==
  /\ readOffset < Hunks /\ tasks < 2
  /\ \A k \in 0..(Half - 1) : slot[SlotOf(readOffset + k)].status = "ready"
  /\ walking => slot[SlotOf(readOffset + Half)].status = "ready"

QueueRead ==
  /\ pc = "read" /\ CanRead
  /\ slot' = [i \in Slots |-> IF \E k \in 0..(Half - 1) : i = SlotOf(readOffset + k)
                              THEN [slot[i] EXCEPT !.status = "reading"] ELSE slot[i]]
  /\ tasks' = tasks + 1
  /\ readOffset' = readOffset + Half
  /\ UNCHANGED <<job, slips, walking, doneOffset, readError, data, reader, queue, worker,
                 outVars, pc, outcome>>

ReadsQueued ==
  /\ pc = "read" /\ ~CanRead
  /\ pc' = "flush"
  /\ UNCHANGED <<job, slips, walking, readVars, slot, data, threadVars, outVars, outcome>>

Current == slot[SlotOf(writeHunk)]

\* The item has been taken and its callback has returned.
Done(it) == it \notin ToSet(queue) /\ \A w \in Workers : worker[w].item # it

\* osd_work_item_release waits for the item.
ReleaseItem ==
  /\ pc = "flush" /\ Current.status = "complete"
  /\ Current.osd # NoItem => Done(Current.osd)
  /\ slot' = [slot EXCEPT ![SlotOf(writeHunk)].osd = NoItem]
  /\ pc' = "process"
  /\ UNCHANGED <<job, slips, walking, readVars, data, threadVars, outVars, outcome>>

\* The units of the parent's hunk that are new to the map; the first of equal ones.
LearnParent ==
  LET units == UnitsHashed(Current.hunk)
      found == {Current.hash[u + 1] : u \in units} \ DOMAIN parentMap
      first(c) == Min({u \in units : Current.hash[u + 1] = c})
  IN  /\ parentMap' = [c \in found |-> Current.hunk * HunkUnits + first(c)] @@ parentMap
      /\ UNCHANGED <<selfMap, map, image>>

\* In the map of an uncompressed file, a hunk that has no place in it.
Hole == -1

\* write_hunk to a file whose map is empty: a hunk of zeros takes no place.
WriteHunk ==
  /\ IF data[SlotOf(writeHunk)] = Zero
     THEN /\ map' = Append(map, Entry(Hole, 0, 0))
          /\ UNCHANGED image
     ELSE /\ map' = Append(map, Entry(NoCodec, HunkBytes, Len(image)))
          /\ image' = image \o <<data[SlotOf(writeHunk)]>>
  /\ UNCHANGED <<parentMap, selfMap>>

\* What a block of the file holds is found at its first byte.
Block(content, length) == <<content>> \o [n \in 1..(length - 1) |-> <<>>]

\* hunk_copy_from_self, hunk_copy_from_parent, hunk_write_compressed
WriteCompressed ==
  LET hash == Current.hash[1]
      p    == Current.packed
      type == Codec[p]
  IN  IF hash \in DOMAIN selfMap
      THEN /\ map' = Append(map, Entry(Self, 0, selfMap[hash]))
           /\ UNCHANGED <<selfMap, image, parentMap>>
      ELSE IF HasParent /\ hash \in DOMAIN parentMap
      THEN /\ map' = Append(map, Entry(Parent, 0, parentMap[hash]))
           /\ UNCHANGED <<selfMap, image, parentMap>>
      ELSE /\ map' = Append(map, Entry(type, Packed[p], Len(image)))
           /\ image' = image \o Block(p, Packed[p])
           /\ selfMap' = (hash :> Current.hunk) @@ selfMap
           /\ UNCHANGED parentMap

LastHunk == writeHunk + 1 = Hunks

\* Mutant of RestartRing: the source is not read from its start.
RestartNoReads ==
  /\ walking' = FALSE /\ writeHunk' = 0
  /\ doneOffset' = 0 /\ UNCHANGED readOffset
  /\ slot' = [i \in Slots |-> [slot[i] EXCEPT !.status = "ready"]]
  /\ slips' = IF tasks > 0 THEN slips \cup {"overtaken"} ELSE slips
  /\ pc' = "flush"

\* The end of the parent's walk: everything is set back for the compression, and the
\* reads of the parent are not waited for.
RestartRing ==
  /\ walking' = FALSE /\ writeHunk' = 0
  /\ readOffset' = 0 /\ doneOffset' = 0
  /\ slot' = [i \in Slots |-> [slot[i] EXCEPT !.status = "ready"]]
  /\ slips' = IF tasks > 0 THEN slips \cup {"overtaken"} ELSE slips
  /\ pc' = "flush"

\* The hunk is dealt with, in the order of the file, and its slot is free.
ProcessHunk ==
  /\ pc = "process"
  /\ CASE walking              -> LearnParent
       [] ~walking /\ ~job.compressed -> WriteHunk
       [] ~walking /\ job.compressed  -> WriteCompressed
  /\ IF LastHunk /\ walking THEN RestartRing
     ELSE /\ slot' = [slot EXCEPT ![SlotOf(writeHunk)].status = "ready"]
          /\ writeHunk' = writeHunk + 1
          /\ pc' = IF LastHunk THEN "finish" ELSE "flush"
          /\ UNCHANGED <<walking, readOffset, doneOffset, slips>>
  /\ UNCHANGED <<job, readError, data, threadVars, sha, outcome>>

\* Mutant of Finish: the reads are not waited for.
FinishNow ==
  /\ pc = "finish"
  /\ pc' = "ended" /\ outcome' = "none"
  /\ UNCHANGED <<job, slips, walking, readVars, slot, data, threadVars, outVars>>

\* All reads are waited for, then the hash and the map are written.
Finish ==
  /\ pc = "finish" /\ tasks = 0
  /\ pc' = "ended" /\ outcome' = "none"
  /\ UNCHANGED <<job, slips, walking, readVars, slot, data, threadVars, outVars>>

Flushed ==
  /\ pc = "flush" /\ Current.status # "complete"
  /\ pc' = "wait"
  /\ UNCHANGED <<job, slips, walking, readVars, slot, data, threadVars, outVars, outcome>>

\* The call returns, and the next one fails if a read has.
WaitOver ==
  /\ pc = "wait"
  /\ Current.status = "complete" \/ Current.osd = NoItem
  /\ pc' = IF readError THEN "ended" ELSE "read"
  /\ outcome' = IF readError THEN "read error" ELSE outcome
  /\ UNCHANGED <<job, slips, walking, readVars, slot, data, threadVars, outVars>>

\* The item that is waited for has been done, but not for this hunk.
WaitAgain ==
  /\ pc = "wait" /\ Current.status # "complete" /\ Current.osd # NoItem /\ Done(Current.osd)
  /\ UNCHANGED vars

\* The caller makes no more calls.
Rest == pc = "ended" /\ UNCHANGED vars

CallerStep ==
  \/ QueueRead \/ ReadsQueued \/ ReleaseItem \/ ProcessHunk
  \/ Finish \/ Flushed \/ WaitOver

----------------------------------------------------------------------------
(* The input thread: async_read. *)

ReadRange ==
  LET to == Min({doneOffset + Half, Hunks})
  IN  [pc |-> IF doneOffset < to THEN "spawn" ELSE "sum",
       from |-> doneOffset, to |-> to, next |-> doneOffset]

\* Hunks from on are read to consecutive places; one that is not there leaves the
\* place as it is.
Filled(hunks, from, to) ==
  [i \in 0..Ring |->
     LET h == from + (i - SlotOf(from))
     IN  IF i >= SlotOf(from) /\ h <= to /\ h < Len(hunks) THEN hunks[h + 1] ELSE data[i]]

\* After an error the reads that are still queued do nothing.
SkipRead ==
  /\ reader.pc = "idle" /\ tasks > 0 /\ readError
  /\ tasks' = tasks - 1
  /\ UNCHANGED <<job, slips, walking, readVars, slot, data, reader, queue, worker, outVars,
                 pc, outcome>>

\* From the parent one hunk more is read, and errors are not looked at.
ReadHunks ==
  /\ reader.pc = "idle" /\ tasks > 0 /\ ~readError
  /\ reader' = ReadRange
  /\ data' = IF walking THEN Filled(job.parent, doneOffset, ReadRange.to)
             ELSE Filled(job.source, doneOffset, ReadRange.to - 1)
  /\ UNCHANGED <<job, slips, walking, readVars, slot, tasks, queue, worker,
                 outVars, pc, outcome>>

FailRead ==
  /\ reader.pc = "idle" /\ tasks > 0 /\ ~readError
  /\ job.fails /\ ~walking
  /\ readError' = TRUE
  /\ tasks' = tasks - 1
  /\ UNCHANGED <<job, slips, walking, readOffset, doneOffset, slot, data, reader, queue,
                 worker, outVars, pc, outcome>>

\* The hunk is given to the workers ...
SpawnHunk ==
  LET i == SlotOf(reader.next)
  IN  /\ reader.pc = "spawn"
      /\ slot' = [slot EXCEPT ![i].status = "queued", ![i].hunk = reader.next]
      /\ queue' = Append(queue, Item(reader.next))
      /\ reader' = [reader EXCEPT !.pc = "assign"]
      /\ UNCHANGED <<job, slips, walking, readVars, data, tasks, worker,
                     outVars, pc, outcome>>

\* The caller has looked for the work item of hunk h already, to release it.
Released(h) == h < writeHunk \/ (h = writeHunk /\ pc = "process")

\* ... and only then its item is noted, however far the hunk has come.
NoteItem ==
  /\ reader.pc = "assign"
  /\ slot' = [slot EXCEPT ![SlotOf(reader.next)].osd = Item(reader.next)]
  /\ slips' = IF Released(reader.next) THEN slips \cup {"noted late"} ELSE slips
  /\ reader' = [reader EXCEPT !.next = @ + 1,
                              !.pc = IF reader.next + 1 < reader.to THEN "spawn" ELSE "sum"]
  /\ UNCHANGED <<job, walking, readVars, data, tasks, queue, worker,
                 outVars, pc, outcome>>

\* The running SHA-1 of the source is continued with what was read.
SumHunks ==
  /\ reader.pc = "sum"
  /\ sha' = IF walking \/ ~job.compressed THEN sha
            ELSE sha \o [k \in 1..(reader.to - reader.from) |->
                           data[SlotOf(reader.from) + k - 1]]
  /\ reader' = [reader EXCEPT !.pc = "advance"]
  /\ UNCHANGED <<job, slips, walking, readVars, slot, data, tasks, queue, worker,
                 parentMap, selfMap, writeHunk, map, image, pc, outcome>>

AdvanceRead ==
  /\ reader.pc = "advance"
  /\ doneOffset' = doneOffset + (reader.to - reader.from)
  /\ tasks' = tasks - 1
  /\ reader' = [reader EXCEPT !.pc = "idle"]
  /\ UNCHANGED <<job, slips, walking, readOffset, readError, slot, data, queue, worker,
                 outVars, pc, outcome>>

ReaderStep ==
  SkipRead \/ ReadHunks \/ FailRead \/ SpawnHunk \/ NoteItem \/ SumHunks \/ AdvanceRead

----------------------------------------------------------------------------
(* The workers: async_walk_parent, async_compress_hunk. *)

\* An item is taken and its hunk hashed; of the source as a whole, of the parent at
\* every unit, and there that is all.
HashHunk(w) ==
  LET it == Head(queue)
  IN  /\ worker[w].pc = "idle" /\ queue # <<>>
      /\ queue' = Tail(queue)
      /\ IF it.walk
         THEN slot' = [slot EXCEPT
                ![it.slot].hash = [n \in 1..HunkUnits |->
                    IF n - 1 \in UnitsHashed(it.hunk) THEN Window(it.slot, n - 1) ELSE <<>>]]
         ELSE slot' = [slot EXCEPT ![it.slot].hash = <<data[it.slot]>>]
      /\ worker' = [worker EXCEPT ![w] = [pc |-> "pack", item |-> it]]
      /\ UNCHANGED <<job, slips, walking, readVars, data, tasks, reader, outVars,
                     pc, outcome>>

\* Mutant of PackHunk: what was found before it was hashed is trusted.
PackHunkFirst(w) ==
  LET it   == worker[w].item
      s    == slot[it.slot]
  IN  /\ worker[w].pc = "pack"
      /\ slot' = [slot EXCEPT ![it.slot].status = "complete",
                   ![it.slot].packed = IF it.walk \/ s.packed # <<>> THEN @ ELSE data[it.slot]]
      /\ worker' = [worker EXCEPT ![w].pc = "done"]
      /\ UNCHANGED <<job, slips, walking, readVars, data, tasks, reader, queue, outVars,
                     pc, outcome>>

\* A hunk that neither map knows yet is compressed.  The caller may be adding to the
\* map of the file ("data race"): what is looked for there may be missed.
PackHunk(w) ==
  LET it    == worker[w].item
      s     == slot[it.slot]
      known == s.hash[1] \in DOMAIN selfMap \cup DOMAIN parentMap
      sure  == s.hash[1] \in DOMAIN parentMap
  IN  /\ worker[w].pc = "pack"
      /\ \E packed \in (IF it.walk \/ known THEN {s.packed} ELSE {})
                        \cup (IF it.walk \/ sure THEN {} ELSE {data[it.slot]}) :
           slot' = [slot EXCEPT ![it.slot].status = "complete", ![it.slot].packed = packed]
      /\ worker' = [worker EXCEPT ![w].pc = "done"]
      /\ UNCHANGED <<job, slips, walking, readVars, data, tasks, reader, queue,
                     outVars, pc, outcome>>

\* The queue marks the item as done.
ItemDone(w) ==
  /\ worker[w].pc = "done"
  /\ worker' = [worker EXCEPT ![w] = [pc |-> "idle", item |-> NoItem]]
  /\ UNCHANGED <<job, slips, walking, readVars, slot, data, tasks, reader, queue, outVars,
                 pc, outcome>>

WorkerStep(w) == HashHunk(w) \/ PackHunk(w) \/ ItemDone(w)

Next ==
  \/ CallerStep \/ WaitAgain \/ Rest
  \/ ReaderStep
  \/ \E w \in Workers : WorkerStep(w)

Spec == Init /\ [][Next]_vars

\* Threads that can go on do.
FairSpec ==
  /\ Spec
  /\ WF_vars(CallerStep) /\ WF_vars(ReaderStep)
  /\ \A w \in Workers : WF_vars(WorkerStep(w))

----------------------------------------------------------------------------
(* What the file says in the end: read_hunk. *)

ParentUnits ==
  [n \in 1..(Len(job.parent) * HunkUnits) |->
     job.parent[((n - 1) \div HunkUnits) + 1][((n - 1) % HunkUnits) + 1]]

ReadParent(unit) ==
  IF unit + HunkUnits <= Len(ParentUnits)
  THEN SubSeq(ParentUnits, unit + 1, unit + HunkUnits) ELSE <<"error">>

\* The map as it is read from the file; that of an uncompressed file is as it is.
ReadMap == IF job.compressed THEN DecompressedMap(CompressedMap(map), Hunks) ELSE map

Contents ==
  LET m == ReadMap
      hunk[h \in 0..(Hunks - 1)] ==
        LET e == m[h + 1]
        IN  CASE e.type = Hole /\ HasParent  -> ReadParent(h * HunkUnits)
              [] e.type = Hole /\ ~HasParent -> Zero
              [] e.type = Self                 -> hunk[e.offset]
              [] e.type = Parent               -> ReadParent(e.offset)
              [] OTHER                         -> image[e.offset + 1]
  IN  [h \in 1..Hunks |-> hunk[h - 1]]

----------------------------------------------------------------------------
(* Properties. *)

\* The input thread queues a hunk only in a slot that was set aside for it
\* (chd.cpp: "assert(item.m_status == WS_READING)").
ReadingWhenQueued ==
  reader.pc = "spawn" => slot[SlotOf(reader.next)].status = "reading"

\* The hunk of the parent that starts at unit u of hunk h is one the parent has.
InParent(h, u) == h < Len(job.parent) /\ (u > 0 => h + 1 < Len(job.parent))

\* A slot keeps what was read into it until it is written: nothing is read over a
\* hunk, or over the hunk after it that its hashes reach into, before it is flushed.
SlotKept ==
  "overtaken" \notin slips =>
    \A i \in Slots : slot[i].status \in {"queued", "complete"} =>
      IF walking
      THEN \A u \in UnitsHashed(slot[i].hunk) :
             InParent(slot[i].hunk, u) =>
               Window(i, u) = ReadParent(slot[i].hunk * HunkUnits + u)
      ELSE data[i] = job.source[slot[i].hunk + 1]

\* When compress_continue reports success the file reads back as the source, through
\* copies of its own hunks and of the parent's and through the map as it is encoded,
\* and the hash it carries is that of the source.  The parent is as long as the source,
\* or what is hashed behind its end is what the buffer happens to hold.
ReadsBack ==
  outcome = "none" /\ "overtaken" \notin slips /\ (HasParent => Hunks <= Len(job.parent)) =>
    /\ Contents = job.source
    /\ job.compressed => sha = job.source

\* The calls of compress_continue come to an end, with the file or with the error of
\* a read, unless the input thread has been overtaken at the end of the parent's walk
\* or has noted an item too late.
CompressionEnds == <>(outcome # "running" \/ slips # {})
=============================================================================
