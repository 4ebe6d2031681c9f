---------------------------- MODULE PolyManager ----------------------------
(***************************************************************************)
(* Polygons are cut into work units, one for each bucket of scanlines they *)
(* cross, which worker threads draw.  Units of one bucket overlap and are  *)
(* drawn in the order of their polygons: a worker that finds the previous  *)
(* unit of its bucket unfinished leaves its own to the worker that has it, *)
(* in the upper half of the word that counts the scanlines.                *)
(***************************************************************************)
EXTENDS Integers, Sequences

CONSTANTS
  Workers,     \* the threads of the work queue
  Main,        \* the thread that renders, which lends a hand while it waits
  Buckets,     \* TOTAL_BUCKETS
  UnitCount,   \* the size of the array of units
  MaxPolys,    \* _MaxPolys
  Data,        \* object data
  FirstBuckets \* what m_unit_bucket may hold before it is first written

NoUnit == 65535
AnyData == CHOOSE d \in Data : TRUE
Units == 0 .. UnitCount - 1
Threads == Workers \cup {Main}

ASSUME PolyManagerAssumption ==
  /\ Main \notin Workers /\ Data # {}
  /\ Buckets \in Nat \ {0} /\ UnitCount \in 3 .. 65535 /\ MaxPolys \in Nat \ {0, 1}
  /\ FirstBuckets \subseteq [0 .. Buckets - 1 -> Units \cup {NoUnit}] /\ FirstBuckets # {}

VARIABLES
  hasQueue, \* m_queue is there, for good: not with POLYFLAG_NO_WORK_QUEUE
  unit,     \* m_unit: count_next as count and next, previtem, bucket, m_object;
            \* history: the data supplied for it, how often it was drawn: 0, 1 or 2
  units,    \* m_unit.count()
  polygons, \* m_polygon.count()
  object,   \* m_object
  supplied, \* history: the object data the device has supplied last
  bucket,   \* m_unit_bucket
  queue,    \* the units in m_queue, as indices
  waiting,  \* the main thread is in wait
  pc, cur   \* of each thread: where it is in work_item_callback, on which unit or 0

vars == <<hasQueue, unit, units, polygons, object, supplied, bucket, queue, waiting, pc, cur>>

\* The array of units is cleared when it is allocated.
NoWork == [count |-> 0, next |-> 0, prev |-> NoUnit, bucket |-> 0, object |-> 1,
           data |-> AnyData, drawn |-> 1]

Init ==
  /\ hasQueue \in BOOLEAN
  /\ unit = [u \in Units |-> NoWork] /\ units = 0 /\ polygons = 0 /\ object = <<>>
  /\ supplied = AnyData
  /\ bucket \in FirstBuckets /\ queue = <<>> /\ waiting = FALSE
  /\ pc = [t \in Threads |-> "idle"] /\ cur = [t \in Threads |-> 0]

----------------------------------------------------------------------------
(* The main thread. *)

\* object_data_alloc, once there is space, and the caller's filling in.
ObjectDataAlloc(d) ==
  /\ ~waiting /\ Len(object) + 1 < MaxPolys + 1
  /\ object' = Append(object, d) /\ supplied' = d
  /\ UNCHANGED <<hasQueue, unit, units, polygons, bucket, queue, waiting, pc, cur>>

\* The space asked for: (maxy - miny) / SCANLINES_PER_BUCKET + 2, at the least.
Space(n) == IF n < 2 THEN 2 ELSE n

\* The units of a polygon that crosses n buckets; the bucket of one of them.
Made(n) == units .. units + n - 1
BucketNum(first, u) == (first + u - units) % Buckets

\* A unit, behind the last one of its bucket: of this polygon, if it is very tall.
NewUnit(first, u) ==
  [count |-> 1, next |-> 0, bucket |-> BucketNum(first, u),
   prev |-> IF u - Buckets >= units THEN u - Buckets
            ELSE bucket[BucketNum(first, u)],
   object |-> Len(object), data |-> supplied, drawn |-> 0]

\* Mutant: the units are made, and the bucket keeps its old last unit.
RenderUnlinked(first, n) ==
  /\ ~waiting /\ object # <<>> /\ polygons + 1 < MaxPolys /\ units + Space(n) < UnitCount
  /\ polygons' = polygons + 1 /\ units' = units + n
  /\ unit' = [u \in Units |-> IF u \in Made(n) THEN NewUnit(first, u) ELSE unit[u]]
  /\ queue' = IF hasQueue THEN queue \o [i \in 1 .. n |-> units + i - 1] ELSE queue
  /\ UNCHANGED <<hasQueue, object, supplied, bucket, waiting, pc, cur>>

\* polygon_alloc, once there is space, and the loop over n buckets from first on.
\* A polygon that is clipped away has no units.
Render(first, n) ==
  /\ ~waiting /\ object # <<>> /\ polygons + 1 < MaxPolys /\ units + Space(n) < UnitCount
  /\ polygons' = polygons + 1 /\ units' = units + n
  /\ unit' = [u \in Units |-> IF u \in Made(n) THEN NewUnit(first, u) ELSE unit[u]]
  /\ bucket' = [b \in DOMAIN bucket |->
                  LET made == {u \in Made(n) : BucketNum(first, u) = b}
                  IN  IF made = {} THEN bucket[b]
                      ELSE CHOOSE u \in made : \A v \in made : v <= u]
  /\ queue' = IF hasQueue THEN queue \o [i \in 1 .. n |-> units + i - 1] ELSE queue
  /\ UNCHANGED <<hasQueue, object, supplied, waiting, pc, cur>>

\* wait: called by the device, before a save, and by wait_for_space.  Without a
\* queue the units are run now, in their order.
Wait ==
  /\ ~waiting /\ waiting' = TRUE
  /\ queue' = IF hasQueue THEN queue ELSE [i \in 1 .. units |-> i - 1]
  /\ UNCHANGED <<hasQueue, unit, units, polygons, object, supplied, bucket, pc, cur>>

\* Every item of the queue is done.
Quiet == queue = <<>> /\ \A t \in Threads : pc[t] = "idle"

\* Mutant: the last object data go the way of the others.
WaitEndsBare ==
  /\ waiting /\ Quiet /\ waiting' = FALSE
  /\ units' = 0 /\ polygons' = 0 /\ bucket' = [b \in DOMAIN bucket |-> NoUnit]
  /\ object' = IF object = <<>> THEN <<>> ELSE <<object[1]>>
  /\ unit' = [u \in Units |-> NoWork] /\ UNCHANGED <<hasQueue, supplied, queue, pc, cur>>

\* The end of wait: the arrays are emptied, the last object data are kept.  What is
\* left of the units is not read again before they are made anew.
WaitEnds ==
  /\ waiting /\ Quiet /\ waiting' = FALSE
  /\ units' = 0 /\ polygons' = 0 /\ bucket' = [b \in DOMAIN bucket |-> NoUnit]
  /\ object' = IF object = <<>> THEN <<>> ELSE <<object[Len(object)]>>
  /\ unit' = [u \in Units |-> NoWork] /\ UNCHANGED <<hasQueue, supplied, queue, pc, cur>>

----------------------------------------------------------------------------
(* work_item_callback. *)

mainVars == <<hasQueue, units, polygons, object, supplied, bucket, waiting>>

\* A thread takes the first item of the queue.
Take(t) ==
  /\ pc[t] = "idle" /\ queue # <<>>
  /\ IF t = Main THEN waiting ELSE hasQueue
  /\ cur' = [cur EXCEPT ![t] = Head(queue)] /\ queue' = Tail(queue)
  /\ pc' = [pc EXCEPT ![t] = "look"]
  /\ UNCHANGED <<unit, mainVars>>

Previous(t) == unit[cur[t]].prev
Busy(u) == unit[u].count # 0 \/ unit[u].next # 0

\* Is the previous item of the bucket done?
Look(t) ==
  /\ pc[t] = "look"
  /\ pc' = [pc EXCEPT ![t] = IF Previous(t) # NoUnit /\ Busy(Previous(t)) THEN "link" ELSE "draw"]
  /\ UNCHANGED <<unit, mainVars, queue, cur>>

\* The bits of either number.
Powers == {1, 2, 4, 8, 16, 32, 64, 128, 256, 512, 1024, 2048, 4096, 8192, 16384, 32768}
HasBit(a, w) == (a \div w) % 2 = 1
Or(a, b) ==
  CHOOSE c \in 0 .. a + b : \A w \in Powers : HasBit(c, w) <=> HasBit(a, w) \/ HasBit(b, w)

\* Mutant: what the word was before it was exchanged is not looked at.
LinkAlways(t) ==
  /\ pc[t] = "link"
  /\ unit' = [unit EXCEPT ![Previous(t)].next = Or(@, cur[t])]
  /\ pc' = [pc EXCEPT ![t] = "idle"]
  /\ UNCHANGED <<mainVars, queue, cur>>

\* The unit is put behind the previous one, unless that is done by now.
Link(t) ==
  /\ pc[t] = "link"
  /\ unit' = [unit EXCEPT ![Previous(t)].next = Or(@, cur[t])]
  /\ IF Busy(Previous(t))
       THEN pc' = [pc EXCEPT ![t] = "idle"] /\ cur' = [cur EXCEPT ![t] = 0]
       ELSE pc' = [pc EXCEPT ![t] = "draw"] /\ UNCHANGED cur
  /\ UNCHANGED <<mainVars, queue>>

\* Mutant: 0 is taken for a unit.
FinishOn(t) ==
  /\ pc[t] = "draw"
  /\ unit' = [unit EXCEPT ![cur[t]].drawn = IF @ = 0 THEN 1 ELSE 2, ![cur[t]].count = 0, ![cur[t]].next = 0]
  /\ pc' = [pc EXCEPT ![t] = "look"] /\ cur' = [cur EXCEPT ![t] = unit[cur[t]].next]
  /\ UNCHANGED <<mainVars, queue>>

\* The scanlines have been drawn; the unit is done, and the next one follows.
Finish(t) ==
  /\ pc[t] = "draw"
  /\ unit' = [unit EXCEPT ![cur[t]].drawn = IF @ = 0 THEN 1 ELSE 2, ![cur[t]].count = 0, ![cur[t]].next = 0]
  /\ LET next == unit[cur[t]].next
     IN  IF next = 0 THEN pc' = [pc EXCEPT ![t] = "idle"] /\ cur' = [cur EXCEPT ![t] = 0]
         ELSE pc' = [pc EXCEPT ![t] = "look"] /\ cur' = [cur EXCEPT ![t] = next]
  /\ UNCHANGED <<mainVars, queue>>

Work(t) == Take(t) \/ Look(t) \/ Link(t) \/ Finish(t)

Next ==
  \/ \E d \in Data : ObjectDataAlloc(d)
  \/ \E first \in 0 .. Buckets - 1, n \in 0 .. UnitCount - 1 : Render(first, n)
  \/ Wait \/ WaitEnds
  \/ \E t \in Threads : Work(t)

Spec == Init /\ [][Next]_vars

\* The threads of the queue run, and the main thread while it waits.
FairSpec == Spec /\ WF_vars(WaitEnds) /\ \A t \in Threads : WF_vars(Work(t))

----------------------------------------------------------------------------
(* Properties. *)

\* The variables keep their types.
TypeOK ==
  /\ unit \in [Units -> [count : {0, 1}, next : Units, prev : Units \cup {NoUnit},
                         bucket : 0 .. Buckets - 1, object : 1 .. MaxPolys, data : Data,
                         drawn : 0 .. 2]]
  /\ hasQueue \in BOOLEAN
  /\ units \in 0 .. UnitCount - 1 /\ polygons \in 0 .. MaxPolys - 1
  /\ supplied \in Data /\ object \in Seq(Data) /\ Len(object) <= MaxPolys
  /\ bucket \in [0 .. Buckets - 1 -> Units \cup {NoUnit}]
  /\ queue \in Seq(Units) /\ waiting \in BOOLEAN
  /\ pc \in [Threads -> {"idle", "look", "link", "draw"}] /\ cur \in [Threads -> Units]

\* The units of a bucket are drawn one after the other, in the order of their
\* polygons, by whatever thread: what is rendered last is on top.
InOrder ==
  \A t \in Threads : pc[t] = "draw" =>
    \A u \in 0 .. cur[t] - 1 : unit[u].bucket = unit[cur[t]].bucket => unit[u].drawn = 1

\* "stall until all work is complete" (poly.h:443): when no item is left, every
\* unit has been drawn, and none twice.
AllDrawn ==
  /\ \A u \in 0 .. units - 1 : unit[u].drawn <= 1
  /\ (IF hasQueue THEN Quiet ELSE waiting /\ Quiet) =>
       \A u \in 0 .. units - 1 : unit[u].drawn = 1

\* A unit is drawn with the object data that its polygon was rendered with, also if
\* the rendering had to wait for space after the data had been supplied.
ObjectKept ==
  \A t \in Threads : pc[t] = "draw" =>
    /\ unit[cur[t]].object <= Len(object)
    /\ object[unit[cur[t]].object] = unit[cur[t]].data

\* Each unit is drawn exactly once, those of a bucket in order, with the data that belong
\* to it; and the variables keep their types, so that the word names a unit of the array.
DrawnAsRendered == TypeOK /\ InOrder /\ AllDrawn /\ ObjectKept

\* A wait comes to an end: no unit is handed on for ever.
WaitReturns == waiting ~> ~waiting
=============================================================================
