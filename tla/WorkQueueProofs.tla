-------------------------- MODULE WorkQueueProofs --------------------------
(***************************************************************************)
(* Theorems about WorkQueue, for any number of threads and items and any   *)
(* kind of queue: the variables keep their types, the items are counted,   *)
(* no wake-up is lost and the answers of the two waits are true.  Where    *)
(* nobody can queue an item again that is still in use, a free one is in   *)
(* nobody's hands.                                                         *)
(***************************************************************************)
EXTENDS WorkQueue, FiniteSetTheorems, TLAPS

\* The places where a worker is counted in livethreads, and the others.
Live == {"pull", "run", "finish", "flags", "signal", "after", "tell", "wait", "event",
         "check", "block", "push", "more", "deactivate", "retire"}
Apart == {"top", "look", "sleep", "woken", "activate", "live", "gone"}

\* Where a thread has an item in hand, and where the main thread queues some.
InHand == {"run", "finish", "flags", "signal", "wait", "event", "check", "block", "push"}
Queueing == {"alloc", "alloc_auto", "add", "live", "wake", "set_event"}

\* Where the main thread looks at the threads.
Waking == {"wake", "set_event"}

LiveSet == {w \in WorkerSet : pc[w] \in Live}
RunSet == {t \in Threads : pc[t] = "run"}
Started == ToSet(SubSeq(Workers, 1, threads))

\* Where the threads can be, and what they then hold; livethreads counts those that
\* are counted in.
Control ==
  /\ \A w \in WorkerSet : /\ pc[w] \in Live \cup Apart /\ caller[w] = "auto"
                          /\ pc[w] # "gone" => w \in Started
  /\ livethreads = Cardinality(LiveSet)
  /\ \A t \in Threads : pc[t] \in InHand => cur[t] \in Items
  /\ pc[Main] \in Queueing => numitems >= 1
  /\ pc[Main] \in Waking => threadnum <= threads

\* Without threads, what is in the list is being worked off by the main thread.
Drained ==
  threads = 0 /\ list # <<>> =>
    \/ pc[Main] \in {"add", "live", "pull", "run", "finish", "flags", "signal"}
    \/ caller[Main] = "auto" /\ pc[Main] \in {"wait", "event", "check", "block", "push"}

IInv == TypeOK /\ Control /\ Drained /\ ItemsCounted

----------------------------------------------------------------------------
(* Sets of threads. *)

LEMMA FiniteThreads ==
  ASSUME WorkQueueAssumption
  PROVE  /\ IsFiniteSet(Threads) /\ WorkerSet \subseteq Threads /\ Main \notin WorkerSet
         /\ \A q \in Queues : /\ q \in QueueRec /\ q.threads \in 0 .. Len(Workers)
         /\ Len(Workers) \in Nat /\ \A k \in 1 .. Len(Workers) : Workers[k] \in WorkerSet
<1>1. Len(Workers) \in Nat /\ DOMAIN Workers = 1 .. Len(Workers)
  BY DEF WorkQueueAssumption
<1>2. Workers \in Surjection(1 .. Len(Workers), WorkerSet)
  <2>1. Workers \in [1 .. Len(Workers) -> WorkerSet]
    BY DEF WorkQueueAssumption
  <2>2. \A w \in WorkerSet : \E k \in 1 .. Len(Workers) : Workers[k] = w
    BY <1>1 DEF WorkerSet, ToSet
  <2>. QED  BY <2>1, <2>2 DEF Surjection
<1>3. IsFiniteSet(WorkerSet)
  BY <1>1, <1>2, FS_Interval, FS_Surjection
<1>4. IsFiniteSet(Threads)
  BY <1>3, FS_AddElement DEF Threads
<1>. QED
  BY <1>1, <1>4 DEF WorkQueueAssumption, Threads, QueueRec

\* No more threads are counted in than the queue has.
LEMMA FewStarted ==
  ASSUME WorkQueueAssumption, NEW n \in 0 .. Len(Workers),
         NEW S \in SUBSET ToSet(SubSeq(Workers, 1, n))
  PROVE  Cardinality(S) \in 0 .. n
<1>. DEFINE s == SubSeq(Workers, 1, n)
<1>1. Len(Workers) \in Nat /\ n \in Nat
  BY FiniteThreads
<1>2. s \in Seq(WorkerSet) /\ Len(s) = n
  BY <1>1 DEF WorkQueueAssumption
<1>. HIDE DEF s
<1>3. DOMAIN s = 1 .. n /\ s \in [1 .. n -> ToSet(s)]
  BY <1>2 DEF ToSet
<1>4. s \in Surjection(1 .. n, ToSet(s))
  <2>1. \A w \in ToSet(s) : \E k \in 1 .. n : s[k] = w
    BY <1>3 DEF ToSet
  <2>. QED  BY <1>3, <2>1 DEF Surjection
<1>5. IsFiniteSet(1 .. n) /\ Cardinality(1 .. n) = n
  <2>1. 1 \in Int /\ n \in Int
    BY <1>1
  <2>2. IsFiniteSet(1 .. n) /\ Cardinality(1 .. n) = IF 1 > n THEN 0 ELSE n - 1 + 1
    BY <2>1, FS_Interval
  <2>. QED  BY <1>1, <2>2
<1>6. IsFiniteSet(ToSet(s)) /\ Cardinality(ToSet(s)) <= n
  BY <1>4, <1>5, FS_Surjection
<1>7. S \in SUBSET ToSet(s)
  BY DEF s
<1>8. IsFiniteSet(S) /\ Cardinality(S) <= Cardinality(ToSet(s))
  BY <1>6, <1>7, FS_Subset
<1>9. Cardinality(S) \in Nat /\ Cardinality(ToSet(s)) \in Nat
  BY <1>6, <1>8, FS_CardinalityType
<1>. QED
  BY <1>1, <1>6, <1>8, <1>9

\* How the two sets change when one thread moves.
LEMMA Moves ==
  ASSUME WorkQueueAssumption, DOMAIN pc = Threads,
         NEW t \in Threads, NEW place, pc' = [pc EXCEPT ![t] = place]
  PROVE  /\ DOMAIN pc' = Threads /\ pc'[t] = place
         /\ \A u \in Threads \ {t} : pc'[u] = pc[u]
         /\ Cardinality(LiveSet) \in Nat /\ Cardinality(RunSet) \in Nat
         /\ Cardinality(LiveSet') =
              CASE t # Main /\ pc[t] \notin Live /\ place \in Live -> Cardinality(LiveSet) + 1
                [] t # Main /\ pc[t] \in Live /\ place \notin Live -> Cardinality(LiveSet) - 1
                [] OTHER -> Cardinality(LiveSet)
         /\ Cardinality(RunSet') =
              CASE pc[t] # "run" /\ place = "run" -> Cardinality(RunSet) + 1
                [] pc[t] = "run" /\ place # "run" -> Cardinality(RunSet) - 1
                [] OTHER -> Cardinality(RunSet)
<1>1. DOMAIN pc' = Threads /\ pc'[t] = place /\ \A u \in Threads \ {t} : pc'[u] = pc[u]
  OBVIOUS
<1>2. IsFiniteSet(LiveSet) /\ IsFiniteSet(RunSet)
  BY FiniteThreads, FS_Subset DEF LiveSet, RunSet
<1>3. Cardinality(LiveSet) \in Nat /\ Cardinality(RunSet) \in Nat
  BY <1>2, FS_CardinalityType
<1>4. t # Main => t \in WorkerSet
  BY DEF Threads
<1>5. LiveSet' = IF t # Main /\ place \in Live THEN LiveSet \cup {t}
                 ELSE IF t # Main THEN LiveSet \ {t} ELSE LiveSet
  BY <1>1, <1>4, FiniteThreads DEF LiveSet
<1>6. RunSet' = IF place = "run" THEN RunSet \cup {t} ELSE RunSet \ {t}
  BY <1>1 DEF RunSet
<1>7. (t # Main => (t \in LiveSet <=> pc[t] \in Live)) /\ (t \in RunSet <=> pc[t] = "run")
  BY <1>4 DEF LiveSet, RunSet
<1>8. /\ Cardinality(LiveSet \cup {t}) = IF t \in LiveSet THEN Cardinality(LiveSet)
                                         ELSE Cardinality(LiveSet) + 1
      /\ Cardinality(LiveSet \ {t}) = IF t \in LiveSet THEN Cardinality(LiveSet) - 1
                                      ELSE Cardinality(LiveSet)
  BY <1>2, FS_AddElement, FS_RemoveElement
<1>9. /\ Cardinality(RunSet \cup {t}) = IF t \in RunSet THEN Cardinality(RunSet)
                                        ELSE Cardinality(RunSet) + 1
      /\ Cardinality(RunSet \ {t}) = IF t \in RunSet THEN Cardinality(RunSet) - 1
                                     ELSE Cardinality(RunSet)
  BY <1>2, FS_AddElement, FS_RemoveElement
<1>. QED
  BY <1>1, <1>3, <1>5, <1>6, <1>7, <1>8, <1>9

----------------------------------------------------------------------------
(* The types. *)

LEMMA ItemTypes ==
  \A r \in ItemRec : /\ [r EXCEPT !.done = TRUE] \in ItemRec
                     /\ [r EXCEPT !.event = "set"] \in ItemRec
                     /\ [r EXCEPT !.event = "reset"] \in ItemRec
  BY DEF ItemRec

LEMMA TypeNext ==
  ASSUME WorkQueueAssumption, TypeOK, Control, [Next]_vars, livethreads' \in 0 .. threads'
  PROVE  TypeOK'
<1>. USE DEF TypeOK, queueVars, threadVars, callVars, threads
<1>0. queue.threads \in Nat /\ Main \in Threads
  BY FiniteThreads DEF Threads
<1>1. CASE UNCHANGED vars
  BY <1>1 DEF vars
<1>2. ASSUME NEW n \in 1 .. MaxBatch, NEW auto \in BOOLEAN, QueueItems(n, auto) PROVE TypeOK'
  BY <1>2 DEF QueueItems, WorkQueueAssumption
<1>3. ASSUME NEW i \in Items, WaitForItem(i) PROVE TypeOK'
  BY <1>3 DEF WaitForItem
<1>4. ASSUME NEW i \in Items, ReleaseItem(i) PROVE TypeOK'
  BY <1>4 DEF ReleaseItem
<1>5. CASE AllocItem
  <2>1. PICK i \in Available :
          /\ free' = free \ {i} /\ made' = made \cup {i}
          /\ item' = [item EXCEPT ![i] = [auto |-> pc[Main] = "alloc_auto",
                                          done |-> FALSE, event |-> @.event]]
          /\ batch' = Append(batch, i)
          /\ owned' = IF pc[Main] = "alloc" THEN owned \cup {i} ELSE owned
    BY <1>5 DEF AllocItem
  <2>2. i \in Items
    BY <2>1 DEF Available
  <2>3. [auto |-> pc[Main] = "alloc_auto", done |-> FALSE, event |-> item[i].event] \in ItemRec
    BY <2>2 DEF ItemRec
  <2>4. item' \in [Items -> ItemRec]
    BY <2>1, <2>2, <2>3
  <2>5. batch' \in Seq(Items)
    BY <2>1, <2>2
  <2>. QED  BY <1>5, <2>1, <2>2, <2>4, <2>5 DEF AllocItem
<1>6. CASE Enqueue
  BY <1>6 DEF Enqueue, Goto
<1>7. CASE AddItems
  BY <1>7 DEF AddItems, Goto
<1>8. CASE LookForThreads
  BY <1>8, <1>0 DEF LookForThreads, Goto
<1>9. CASE LookAtThread \/ WakeThread
  <2>1. numitems >= 1 /\ threadnum \in 1 .. threads
    BY <1>9, <1>0 DEF LookAtThread, WakeThread, Control, Queueing, Waking
  <2>2. threadnum' \in 1 .. threads' + 1 /\ numitems' \in Nat
    <3>1. threadnum' \in {threadnum, threadnum + 1} /\ numitems' \in {numitems, numitems - 1}
      BY <1>9 DEF LookAtThread, WakeThread, NextThread
    <3>2. threads' = threads
      BY <1>9 DEF LookAtThread, WakeThread
    <3>. QED  BY <1>0, <2>1, <3>1, <3>2
  <2>3. wakeevent' \in [WorkerSet -> BOOLEAN]
    BY <1>9 DEF LookAtThread, WakeThread
  <2>4. UNCHANGED <<cur, caller>> /\ \E place : pc' = [pc EXCEPT ![Main] = place]
    BY <1>9 DEF LookAtThread, WakeThread, NextThread, Goto
  <2>. QED  BY <1>9, <2>2, <2>3, <2>4 DEF LookAtThread, WakeThread
<1>10. CASE Helped
  BY <1>10 DEF Helped, Goto
<1>11. CASE Spin
  BY <1>11 DEF Spin, QueueAnswer, Goto, waitVars
<1>12. CASE ResetDone
  BY <1>12 DEF ResetDone, Goto
<1>13. CASE Announce
  BY <1>13 DEF Announce, Goto
<1>14. CASE CheckItems
  BY <1>14 DEF CheckItems, Goto
<1>15. CASE BlockOnQueue
  BY <1>15 DEF BlockOnQueue, Goto
<1>16. CASE Unannounce
  BY <1>16 DEF Unannounce, Goto
<1>17. CASE Answer
  BY <1>17 DEF Answer, QueueAnswer, Goto, waitVars
<1>18. CASE WakeToExit
  <2>1. threadnum' \in 1 .. threads' + 1
    BY <1>18, <1>0 DEF WakeToExit
  <2>2. wakeevent' \in [WorkerSet -> BOOLEAN]
    BY <1>18 DEF WakeToExit
  <2>. QED  BY <1>18, <2>1, <2>2 DEF WakeToExit
<1>19. CASE FreeQueue
  BY <1>19 DEF FreeQueue, Goto
<1>20. CASE WaitForQueue
  BY <1>20 DEF WaitForQueue, Goto, waitVars
<1>21. CASE TellThreads
  BY <1>21, <1>0 DEF TellThreads, Goto
<1>22. ASSUME NEW t \in Threads, Pull(t) PROVE TypeOK'
  <2>1. CASE list = <<>>
    BY <1>22, <2>1 DEF Pull, Goto
  <2>2. CASE list # <<>>
    <3>1. Head(list) \in Items /\ Tail(list) \in Seq(Items)
      BY <2>2
    <3>. QED  BY <1>22, <2>2, <3>1 DEF Pull
  <2>. QED  BY <2>1, <2>2
<1>23. ASSUME NEW t \in Threads, Run(t) PROVE TypeOK'
  BY <1>23 DEF Run, Goto
<1>24. ASSUME NEW t \in Threads, Finish(t) PROVE TypeOK'
  <2>1. cur[t] \in Items => item[cur[t]] \in ItemRec
    OBVIOUS
  <2>2. item' \in [Items -> ItemRec]
    BY <1>24, <2>1, ItemTypes DEF Finish
  <2>. QED  BY <1>24, <2>2 DEF Finish, Goto
<1>25. ASSUME NEW t \in Threads, CheckFlags(t) PROVE TypeOK'
  BY <1>25 DEF CheckFlags
<1>26. ASSUME NEW t \in Threads, Signal(t) PROVE TypeOK'
  <2>1. cur[t] \in Items => item[cur[t]] \in ItemRec
    OBVIOUS
  <2>2. item' \in [Items -> ItemRec]
    BY <1>26, <2>1, ItemTypes DEF Signal
  <2>. QED  BY <1>26, <2>2 DEF Signal, Drop
<1>27. ASSUME NEW t \in Threads, CheckWaiting(t) PROVE TypeOK'
  BY <1>27 DEF CheckWaiting, Goto, Processed
<1>28. ASSUME NEW t \in Threads, TellWaiting(t) PROVE TypeOK'
  BY <1>28 DEF TellWaiting, Goto, Processed
<1>29. ASSUME NEW t \in Threads, CheckDone(t) PROVE TypeOK'
  BY <1>29 DEF CheckDone, WaitReturns, Drop, Goto
<1>30. ASSUME NEW t \in Threads, PrepareEvent(t) PROVE TypeOK'
  <2>1. cur[t] \in Items => item[cur[t]] \in ItemRec
    OBVIOUS
  <2>2. item' \in [Items -> ItemRec]
    BY <1>30, <2>1, ItemTypes DEF PrepareEvent
  <2>. QED  BY <1>30, <2>2 DEF PrepareEvent, Goto
<1>31. ASSUME NEW t \in Threads, CheckDoneAgain(t) PROVE TypeOK'
  BY <1>31 DEF CheckDoneAgain, WaitReturns, Drop, Goto
<1>32. ASSUME NEW t \in Threads, BlockOnItem(t) PROVE TypeOK'
  BY <1>32 DEF BlockOnItem, WaitReturns, Drop, Goto
<1>33. ASSUME NEW t \in Threads, PushFree(t) PROVE TypeOK'
  <2>1. cur[t] \in Items
    BY <1>33 DEF PushFree, Control, InHand
  <2>. QED  BY <1>33, <2>1 DEF PushFree, Drop
<1>34. ASSUME NEW w \in WorkerSet, EnterLoop(w) PROVE TypeOK'
  BY <1>34 DEF EnterLoop, WorkerTop, Goto
<1>35. ASSUME NEW w \in WorkerSet, LookForItems(w) PROVE TypeOK'
  BY <1>35 DEF LookForItems, Goto
<1>36. ASSUME NEW w \in WorkerSet, Sleep(w) PROVE TypeOK'
  BY <1>36 DEF Sleep, Goto
<1>37. ASSUME NEW w \in WorkerSet, Woken(w) PROVE TypeOK'
  BY <1>37 DEF Woken, WorkerTop, Goto
<1>38. ASSUME NEW w \in WorkerSet, Activate(w) PROVE TypeOK'
  BY <1>38 DEF Activate, Goto
<1>39. ASSUME NEW w \in WorkerSet, GoLive(w) PROVE TypeOK'
  BY <1>39 DEF GoLive, Goto
<1>40. ASSUME NEW w \in WorkerSet, LookForMore(w) PROVE TypeOK'
  BY <1>40 DEF LookForMore, Goto
<1>41. ASSUME NEW w \in WorkerSet, Deactivate(w) PROVE TypeOK'
  BY <1>41 DEF Deactivate, Goto
<1>42. ASSUME NEW w \in WorkerSet, Retire(w) PROVE TypeOK'
  BY <1>42 DEF Retire, Goto
<1>. QED
  BY <1>1, <1>2, <1>3, <1>4, <1>5, <1>6, <1>7, <1>8, <1>9, <1>10, <1>11, <1>12, <1>13,
     <1>14, <1>15, <1>16, <1>17, <1>18, <1>19, <1>20, <1>21, <1>22, <1>23, <1>24, <1>25,
     <1>26, <1>27, <1>28, <1>29, <1>30, <1>31, <1>32, <1>33, <1>34, <1>35, <1>36, <1>37,
     <1>38, <1>39, <1>40, <1>41, <1>42 DEF Next, UserStep, MainStep, WorkerStep,
     SharedStep, Threads

----------------------------------------------------------------------------
(* Where the threads are. *)

\* One thread moves, from a place and to a place where it may be.
LEMMA ControlMove ==
  ASSUME WorkQueueAssumption, TypeOK, Control,
         NEW t \in Threads, pc' = [pc EXCEPT ![t] = pc'[t]], queue' = queue,
         t # Main => pc'[t] \in Live \cup Apart /\ pc[t] # "gone",
         livethreads' = CASE t # Main /\ pc[t] \notin Live /\ pc'[t] \in Live -> livethreads + 1
                          [] t # Main /\ pc[t] \in Live /\ pc'[t] \notin Live -> livethreads - 1
                          [] OTHER -> livethreads,
         pc'[t] \in InHand => cur'[t] \in Items,
         \A u \in Threads \ {t} : cur'[u] = cur[u],
         \A w \in WorkerSet : caller'[w] = caller[w] \/ caller'[w] = "auto",
         pc'[Main] \in Queueing => numitems' >= 1,
         pc'[Main] \in Waking => threadnum' <= threads
  PROVE  Control'
<1>1. DOMAIN pc = Threads /\ threads' = threads /\ Started' = Started
  BY DEF TypeOK, threads, Started
<1>2. WorkerSet \subseteq Threads /\ Main \in Threads
  BY DEF Threads
<1>3. \A u \in Threads \ {t} : pc'[u] = pc[u]
  BY <1>1, Moves
<1>4. \A w \in WorkerSet : /\ pc'[w] \in Live \cup Apart /\ caller'[w] = "auto"
                           /\ pc'[w] # "gone" => w \in Started'
  BY <1>1, <1>2, <1>3, FiniteThreads DEF Control
<1>5. livethreads' = Cardinality(LiveSet')
  BY <1>1, Moves DEF Control
<1>6. \A u \in Threads : pc'[u] \in InHand => cur'[u] \in Items
  BY <1>3 DEF Control
<1>. QED
  BY <1>1, <1>4, <1>5, <1>6 DEF Control

LEMMA ControlStays ==
  ASSUME Control, UNCHANGED <<queue, livethreads, pc, cur, caller>>,
         pc[Main] \in Queueing => numitems' >= 1, pc[Main] \notin Waking
  PROVE  Control'
  BY DEF Control, LiveSet, Started, threads

LEMMA ControlNext ==
  ASSUME WorkQueueAssumption, TypeOK, Control, [Next]_vars
  PROVE  Control'
<1>. USE DEF queueVars, threadVars, callVars, Waking
<1>0. queue.threads \in Nat /\ Main \in Threads /\ WorkerSet \subseteq Threads
      /\ Main \notin WorkerSet
  BY FiniteThreads DEF Threads, TypeOK
<1>1. CASE UNCHANGED vars
  BY <1>1 DEF vars, Control, LiveSet, Started, threads
<1>2. ASSUME NEW n \in 1 .. MaxBatch, NEW auto \in BOOLEAN, QueueItems(n, auto) PROVE Control'
  <2>1. /\ pc' = [pc EXCEPT ![Main] = pc'[Main]] /\ pc'[Main] \in {"alloc", "alloc_auto"}
        /\ numitems' >= 1 /\ UNCHANGED <<queue, livethreads, cur, caller>>
    BY <1>2, <1>0 DEF QueueItems, TypeOK
  <2>. QED
    BY <1>0, <2>1, ControlMove DEF InHand
<1>3. ASSUME NEW i \in Items, WaitForItem(i) PROVE Control'
  <2>1. /\ pc' = [pc EXCEPT ![Main] = pc'[Main]] /\ pc'[Main] = "wait"
        /\ cur'[Main] \in Items /\ (\A u \in Threads \ {Main} : cur'[u] = cur[u])
        /\ (\A w \in WorkerSet : caller'[w] = caller[w])
        /\ UNCHANGED <<queue, livethreads>>
    BY <1>3, <1>0 DEF WaitForItem, TypeOK
  <2>. QED
    BY <1>0, <2>1, ControlMove DEF Queueing
<1>4. ASSUME NEW i \in Items, ReleaseItem(i) PROVE Control'
  <2>1. /\ pc' = [pc EXCEPT ![Main] = pc'[Main]] /\ pc'[Main] = "wait"
        /\ cur'[Main] \in Items /\ (\A u \in Threads \ {Main} : cur'[u] = cur[u])
        /\ (\A w \in WorkerSet : caller'[w] = caller[w])
        /\ UNCHANGED <<queue, livethreads>>
    BY <1>4, <1>0 DEF ReleaseItem, TypeOK
  <2>. QED
    BY <1>0, <2>1, ControlMove DEF Queueing
<1>5. CASE AllocItem
  BY <1>5, <1>0, ControlStays DEF AllocItem, Available, TypeOK, Control, Live, Apart,
     InHand, Queueing
<1>6. CASE Enqueue
  BY <1>6, <1>0, ControlMove DEF Enqueue, Goto, TypeOK, Control, Live, Apart, InHand,
     Queueing
<1>7. CASE AddItems
  BY <1>7, <1>0, ControlMove DEF AddItems, Goto, TypeOK, Control, Live, Apart, InHand,
     Queueing
<1>8. CASE LookForThreads
  <2>1. /\ pc' = [pc EXCEPT ![Main] = pc'[Main]] /\ pc'[Main] \in {"pull", "wake", "idle"}
        /\ UNCHANGED <<queue, livethreads, cur, caller, numitems>> /\ threadnum' = 1
    BY <1>8, <1>0 DEF LookForThreads, Goto, TypeOK
  <2>2. numitems >= 1 /\ (pc'[Main] \in Waking => 1 <= threads)
    BY <1>8, <1>0 DEF LookForThreads, Goto, Control, Queueing, Waking, TypeOK, threads
  <2>. QED
    BY <1>0, <2>1, <2>2, ControlMove DEF InHand
<1>9. CASE LookAtThread \/ WakeThread
  <2>0. pc[Main] \in Waking /\ pc[Main] \in Queueing /\ threadnum <= threads /\ numitems >= 1
    BY <1>9 DEF LookAtThread, WakeThread, Waking, Queueing, Control
  <2>1. /\ pc' = [pc EXCEPT ![Main] = pc'[Main]] /\ pc'[Main] \in Waking \cup {"idle"}
        /\ UNCHANGED <<queue, livethreads, cur, caller>>
    BY <1>9, <1>0 DEF LookAtThread, WakeThread, NextThread, Goto, TypeOK, Waking
  <2>2. pc'[Main] \in Waking => numitems' # 0 /\ threadnum' <= threads
    BY <1>9, <1>0, <2>0 DEF LookAtThread, WakeThread, NextThread, Goto, TypeOK, threads, Waking
  <2>3. numitems' \in Nat
    BY <1>9, <1>0, <2>0 DEF LookAtThread, WakeThread, TypeOK
  <2>. QED
    BY <1>0, <2>1, <2>2, <2>3, ControlMove DEF InHand, Queueing, Waking
<1>10. CASE Helped
  BY <1>10, <1>0, ControlMove DEF Helped, Goto, TypeOK, Control, Live, Apart, InHand,
     Queueing
<1>11. CASE Spin
  BY <1>11, <1>0, ControlMove DEF Spin, QueueAnswer, Goto, waitVars, TypeOK, Control,
     Live, Apart, InHand, Queueing
<1>12. CASE ResetDone
  BY <1>12, <1>0, ControlMove DEF ResetDone, Goto, TypeOK, Control, Live, Apart, InHand,
     Queueing
<1>13. CASE Announce
  BY <1>13, <1>0, ControlMove DEF Announce, Goto, TypeOK, Control, Live, Apart, InHand,
     Queueing
<1>14. CASE CheckItems
  BY <1>14, <1>0, ControlMove DEF CheckItems, Goto, TypeOK, Control, Live, Apart,
     InHand, Queueing
<1>15. CASE BlockOnQueue
  BY <1>15, <1>0, ControlMove DEF BlockOnQueue, Goto, TypeOK, Control, Live, Apart,
     InHand, Queueing
<1>16. CASE Unannounce
  BY <1>16, <1>0, ControlMove DEF Unannounce, Goto, TypeOK, Control, Live, Apart,
     InHand, Queueing
<1>17. CASE Answer
  BY <1>17, <1>0, ControlMove DEF Answer, QueueAnswer, Goto, waitVars, TypeOK, Control,
     Live, Apart, InHand, Queueing
<1>18. CASE WakeToExit
  BY <1>18, <1>0, ControlStays DEF WakeToExit, TypeOK, Control, Live, Apart, InHand,
     Queueing
<1>19. CASE FreeQueue
  BY <1>19, <1>0, ControlMove DEF FreeQueue, Goto, TypeOK, Control, Live, Apart, InHand,
     Queueing
<1>20. CASE WaitForQueue
  <2>1. /\ pc' = [pc EXCEPT ![Main] = pc'[Main]] /\ pc'[Main] \in {"pull", "reset", "idle"}
        /\ UNCHANGED <<queue, livethreads, cur, caller>>
    BY <1>20, <1>0 DEF WaitForQueue, Goto, TypeOK
  <2>. QED
    BY <1>0, <2>1, ControlMove DEF InHand, Queueing
<1>21. CASE TellThreads
  BY <1>21, <1>0, ControlMove DEF TellThreads, Goto, TypeOK, Control, Live, Apart,
     InHand, Queueing
<1>22. ASSUME NEW t \in Threads, Pull(t) PROVE Control'
  <2>1. /\ pc' = [pc EXCEPT ![t] = pc'[t]] /\ pc[t] = "pull"
        /\ pc'[t] \in {"after", "run"}
        /\ UNCHANGED <<queue, livethreads, numitems, threadnum, caller>>
        /\ \A u \in Threads \ {t} : cur'[u] = cur[u]
    BY <1>22, <1>0 DEF Pull, Goto, TypeOK
  <2>2. pc'[Main] \in Queueing => pc[Main] \in Queueing
    BY <1>0, <2>1 DEF Queueing, TypeOK
  <2>3. pc'[Main] \in Waking => pc[Main] \in Waking
    BY <1>0, <2>1 DEF TypeOK
  <2>4. t # Main => pc'[t] \in Live /\ pc[t] # "gone"
    BY <2>1 DEF Live
  <2>5. pc'[t] \in InHand => cur'[t] \in Items
    BY <1>22, <1>0, <2>1 DEF Pull, Goto, InHand, TypeOK
  <2>. QED
    BY <1>0, <2>1, <2>2, <2>3, <2>4, <2>5, ControlMove DEF Control, Live
<1>23. ASSUME NEW t \in Threads, Run(t) PROVE Control'
  BY <1>23, <1>0, ControlMove DEF Run, Goto, TypeOK, Control, Live, Apart, InHand,
     Queueing
<1>24. ASSUME NEW t \in Threads, Finish(t) PROVE Control'
  BY <1>24, <1>0, ControlMove DEF Finish, Goto, TypeOK, Control, Live, Apart, InHand,
     Queueing
<1>25. ASSUME NEW t \in Threads, CheckFlags(t) PROVE Control'
  <2>1. /\ pc' = [pc EXCEPT ![t] = pc'[t]] /\ pc[t] \in Live
        /\ pc'[t] \in {"wait", "signal"}
        /\ UNCHANGED <<queue, livethreads, numitems, threadnum>>
        /\ \A u \in Threads \ {t} : cur'[u] = cur[u]
        /\ \A w \in WorkerSet : caller'[w] = caller[w] \/ caller'[w] = "auto"
    BY <1>25, <1>0 DEF CheckFlags, TypeOK, Live
  <2>2. pc'[Main] \in Queueing => pc[Main] \in Queueing
    BY <1>0, <2>1 DEF Queueing, TypeOK
  <2>3. pc'[Main] \in Waking => pc[Main] \in Waking
    BY <1>0, <2>1 DEF TypeOK, Waking
  <2>4. t # Main => pc'[t] \in Live /\ pc[t] # "gone"
    BY <1>25, <1>0, <2>1 DEF CheckFlags, Live, Control, Threads, TypeOK
  <2>5. pc'[t] \in InHand => cur'[t] \in Items
    BY <1>25, <1>0, <2>1 DEF CheckFlags, InHand, Control, TypeOK
  <2>. QED
    BY <1>0, <2>1, <2>2, <2>3, <2>4, <2>5, ControlMove DEF Control
<1>26. ASSUME NEW t \in Threads, Signal(t) PROVE Control'
  BY <1>26, <1>0, ControlMove DEF Signal, Drop, TypeOK, Control, Live, Apart, InHand,
     Queueing
<1>27. ASSUME NEW t \in Threads, CheckWaiting(t) PROVE Control'
  <2>1. /\ pc' = [pc EXCEPT ![t] = pc'[t]] /\ pc[t] \in Live
        /\ pc'[t] \in {"tell", "more", "idle", "helped"}
        /\ UNCHANGED <<queue, livethreads, numitems, threadnum>>
        /\ \A u \in Threads \ {t} : cur'[u] = cur[u]
        /\ \A w \in WorkerSet : caller'[w] = caller[w] \/ caller'[w] = "auto"
    BY <1>27, <1>0 DEF CheckWaiting, Goto, Processed, TypeOK, Live
  <2>2. pc'[Main] \in Queueing => pc[Main] \in Queueing
    BY <1>0, <2>1 DEF Queueing, TypeOK
  <2>3. pc'[Main] \in Waking => pc[Main] \in Waking
    BY <1>0, <2>1 DEF TypeOK, Waking
  <2>4. t # Main => pc'[t] \in Live /\ pc[t] # "gone"
    BY <1>27, <1>0, <2>1 DEF CheckWaiting, Goto, Processed, Live, Control, Threads,
       TypeOK
  <2>5. pc'[t] \in InHand => cur'[t] \in Items
    BY <1>27, <1>0, <2>1 DEF CheckWaiting, Goto, Processed, InHand, Control, TypeOK
  <2>. QED
    BY <1>0, <2>1, <2>2, <2>3, <2>4, <2>5, ControlMove DEF Control
<1>28. ASSUME NEW t \in Threads, TellWaiting(t) PROVE Control'
  <2>1. /\ pc' = [pc EXCEPT ![t] = pc'[t]] /\ pc[t] \in Live
        /\ pc'[t] \in {"more", "idle", "helped"}
        /\ UNCHANGED <<queue, livethreads, numitems, threadnum>>
        /\ \A u \in Threads \ {t} : cur'[u] = cur[u]
        /\ \A w \in WorkerSet : caller'[w] = caller[w] \/ caller'[w] = "auto"
    BY <1>28, <1>0 DEF TellWaiting, Goto, Processed, TypeOK, Live
  <2>2. pc'[Main] \in Queueing => pc[Main] \in Queueing
    BY <1>0, <2>1 DEF Queueing, TypeOK
  <2>3. pc'[Main] \in Waking => pc[Main] \in Waking
    BY <1>0, <2>1 DEF TypeOK, Waking
  <2>4. t # Main => pc'[t] \in Live /\ pc[t] # "gone"
    BY <1>28, <1>0, <2>1 DEF TellWaiting, Goto, Processed, Live, Control, Threads,
       TypeOK
  <2>5. pc'[t] \in InHand => cur'[t] \in Items
    BY <1>28, <1>0, <2>1 DEF TellWaiting, Goto, Processed, InHand, Control, TypeOK
  <2>. QED
    BY <1>0, <2>1, <2>2, <2>3, <2>4, <2>5, ControlMove DEF Control
<1>29. ASSUME NEW t \in Threads, CheckDone(t) PROVE Control'
  <2>1. /\ pc' = [pc EXCEPT ![t] = pc'[t]] /\ pc[t] \in Live
        /\ pc'[t] \in {"idle", "push", "event"}
        /\ UNCHANGED <<queue, livethreads, numitems, threadnum>>
        /\ \A u \in Threads \ {t} : cur'[u] = cur[u]
        /\ \A w \in WorkerSet : caller'[w] = caller[w] \/ caller'[w] = "auto"
    BY <1>29, <1>0 DEF CheckDone, WaitReturns, Drop, Goto, TypeOK, Live
  <2>2. pc'[Main] \in Queueing => pc[Main] \in Queueing
    BY <1>0, <2>1 DEF Queueing, TypeOK
  <2>3. pc'[Main] \in Waking => pc[Main] \in Waking
    BY <1>0, <2>1 DEF TypeOK, Waking
  <2>4. t # Main => pc'[t] \in Live /\ pc[t] # "gone"
    BY <1>29, <1>0, <2>1 DEF CheckDone, WaitReturns, Drop, Goto, Live, Control, Threads,
       TypeOK
  <2>5. pc'[t] \in InHand => cur'[t] \in Items
    BY <1>29, <1>0, <2>1 DEF CheckDone, WaitReturns, Drop, Goto, InHand, Control, TypeOK
  <2>. QED
    BY <1>0, <2>1, <2>2, <2>3, <2>4, <2>5, ControlMove DEF Control
<1>30. ASSUME NEW t \in Threads, PrepareEvent(t) PROVE Control'
  BY <1>30, <1>0, ControlMove DEF PrepareEvent, Goto, TypeOK, Control, Live, Apart,
     InHand, Queueing
<1>31. ASSUME NEW t \in Threads, CheckDoneAgain(t) PROVE Control'
  <2>1. /\ pc' = [pc EXCEPT ![t] = pc'[t]] /\ pc[t] \in Live
        /\ pc'[t] \in {"idle", "push", "block"}
        /\ UNCHANGED <<queue, livethreads, numitems, threadnum>>
        /\ \A u \in Threads \ {t} : cur'[u] = cur[u]
        /\ \A w \in WorkerSet : caller'[w] = caller[w] \/ caller'[w] = "auto"
    BY <1>31, <1>0 DEF CheckDoneAgain, WaitReturns, Drop, Goto, TypeOK, Live
  <2>2. pc'[Main] \in Queueing => pc[Main] \in Queueing
    BY <1>0, <2>1 DEF Queueing, TypeOK
  <2>3. pc'[Main] \in Waking => pc[Main] \in Waking
    BY <1>0, <2>1 DEF TypeOK, Waking
  <2>4. t # Main => pc'[t] \in Live /\ pc[t] # "gone"
    BY <1>31, <1>0, <2>1 DEF CheckDoneAgain, WaitReturns, Drop, Goto, Live, Control,
       Threads, TypeOK
  <2>5. pc'[t] \in InHand => cur'[t] \in Items
    BY <1>31, <1>0, <2>1 DEF CheckDoneAgain, WaitReturns, Drop, Goto, InHand, Control,
       TypeOK
  <2>. QED
    BY <1>0, <2>1, <2>2, <2>3, <2>4, <2>5, ControlMove DEF Control
<1>32. ASSUME NEW t \in Threads, BlockOnItem(t) PROVE Control'
  <2>1. /\ pc' = [pc EXCEPT ![t] = pc'[t]] /\ pc[t] \in Live
        /\ pc'[t] \in {"idle", "push"}
        /\ UNCHANGED <<queue, livethreads, numitems, threadnum>>
        /\ \A u \in Threads \ {t} : cur'[u] = cur[u]
        /\ \A w \in WorkerSet : caller'[w] = caller[w] \/ caller'[w] = "auto"
    BY <1>32, <1>0 DEF BlockOnItem, WaitReturns, Drop, Goto, TypeOK, Live
  <2>2. pc'[Main] \in Queueing => pc[Main] \in Queueing
    BY <1>0, <2>1 DEF Queueing, TypeOK
  <2>3. pc'[Main] \in Waking => pc[Main] \in Waking
    BY <1>0, <2>1 DEF TypeOK, Waking
  <2>4. t # Main => pc'[t] \in Live /\ pc[t] # "gone"
    BY <1>32, <1>0, <2>1 DEF BlockOnItem, WaitReturns, Drop, Goto, Live, Control,
       Threads, TypeOK
  <2>5. pc'[t] \in InHand => cur'[t] \in Items
    BY <1>32, <1>0, <2>1 DEF BlockOnItem, WaitReturns, Drop, Goto, InHand, Control,
       TypeOK
  <2>. QED
    BY <1>0, <2>1, <2>2, <2>3, <2>4, <2>5, ControlMove DEF Control
<1>33. ASSUME NEW t \in Threads, PushFree(t) PROVE Control'
  <2>1. /\ pc' = [pc EXCEPT ![t] = pc'[t]] /\ pc[t] \in Live
        /\ pc'[t] \in {"idle", "pull"}
        /\ UNCHANGED <<queue, livethreads, numitems, threadnum>>
        /\ \A u \in Threads \ {t} : cur'[u] = cur[u]
        /\ \A w \in WorkerSet : caller'[w] = caller[w] \/ caller'[w] = "auto"
    BY <1>33, <1>0 DEF PushFree, Drop, TypeOK, Live
  <2>2. pc'[Main] \in Queueing => pc[Main] \in Queueing
    BY <1>0, <2>1 DEF Queueing, TypeOK
  <2>3. pc'[Main] \in Waking => pc[Main] \in Waking
    BY <1>0, <2>1 DEF TypeOK, Waking
  <2>4. t # Main => pc'[t] \in Live /\ pc[t] # "gone"
    BY <1>33, <1>0, <2>1 DEF PushFree, Drop, Live, Control, Threads, TypeOK
  <2>5. pc'[t] \in InHand => cur'[t] \in Items
    BY <1>33, <1>0, <2>1 DEF PushFree, Drop, InHand, Control, TypeOK
  <2>. QED
    BY <1>0, <2>1, <2>2, <2>3, <2>4, <2>5, ControlMove DEF Control
<1>34. ASSUME NEW w \in WorkerSet, EnterLoop(w) PROVE Control'
  BY <1>34, <1>0, ControlMove DEF EnterLoop, WorkerTop, Goto, TypeOK, Control, Live,
     Apart, InHand, Queueing
<1>35. ASSUME NEW w \in WorkerSet, LookForItems(w) PROVE Control'
  BY <1>35, <1>0, ControlMove DEF LookForItems, Goto, TypeOK, Control, Live, Apart,
     InHand, Queueing
<1>36. ASSUME NEW w \in WorkerSet, Sleep(w) PROVE Control'
  BY <1>36, <1>0, ControlMove DEF Sleep, Goto, TypeOK, Control, Live, Apart, InHand,
     Queueing
<1>37. ASSUME NEW w \in WorkerSet, Woken(w) PROVE Control'
  BY <1>37, <1>0, ControlMove DEF Woken, WorkerTop, Goto, TypeOK, Control, Live, Apart,
     InHand, Queueing
<1>38. ASSUME NEW w \in WorkerSet, Activate(w) PROVE Control'
  BY <1>38, <1>0, ControlMove DEF Activate, Goto, TypeOK, Control, Live, Apart, InHand,
     Queueing
<1>39. ASSUME NEW w \in WorkerSet, GoLive(w) PROVE Control'
  BY <1>39, <1>0, ControlMove DEF GoLive, Goto, TypeOK, Control, Live, Apart, InHand,
     Queueing
<1>40. ASSUME NEW w \in WorkerSet, LookForMore(w) PROVE Control'
  BY <1>40, <1>0, ControlMove DEF LookForMore, Goto, TypeOK, Control, Live, Apart,
     InHand, Queueing
<1>41. ASSUME NEW w \in WorkerSet, Deactivate(w) PROVE Control'
  BY <1>41, <1>0, ControlMove DEF Deactivate, Goto, TypeOK, Control, Live, Apart,
     InHand, Queueing
<1>42. ASSUME NEW w \in WorkerSet, Retire(w) PROVE Control'
  BY <1>42, <1>0, ControlMove DEF Retire, Goto, TypeOK, Control, Live, Apart, InHand,
     Queueing
<1>. QED
  BY <1>0, <1>1, <1>2, <1>3, <1>4, <1>5, <1>6, <1>7, <1>8, <1>9, <1>10, <1>11, <1>12,
     <1>13, <1>14, <1>15, <1>16, <1>17, <1>18, <1>19, <1>20, <1>21, <1>22, <1>23, <1>24,
     <1>25, <1>26, <1>27, <1>28, <1>29, <1>30, <1>31, <1>32, <1>33, <1>34, <1>35, <1>36,
     <1>37, <1>38, <1>39, <1>40, <1>41, <1>42 DEF Next, UserStep, MainStep, WorkerStep,
     SharedStep

----------------------------------------------------------------------------
(* The items are counted. *)

\* A thread moves, and neither it nor an item has to do with the count.
LEMMA CountSame ==
  ASSUME WorkQueueAssumption, TypeOK, ItemsCounted,
         NEW t \in Threads, pc' = [pc EXCEPT ![t] = pc'[t]],
         pc[t] \notin {"run", "add"}, pc'[t] \notin {"run", "add"},
         UNCHANGED <<items, list>>, pc[Main] = "add" => numitems' = numitems
  PROVE  ItemsCounted'
<1>1. DOMAIN pc = Threads /\ Main \in Threads
  BY DEF TypeOK, Threads
<1>2. Cardinality(RunSet') = Cardinality(RunSet) /\ (pc'[Main] = "add" <=> pc[Main] = "add")
  BY <1>1, Moves
<1>. QED
  BY <1>2 DEF TypeOK, ItemsCounted, RunSet

LEMMA CountedNext ==
  ASSUME WorkQueueAssumption, TypeOK, ItemsCounted, [Next]_vars
  PROVE  ItemsCounted'
<1>. USE DEF queueVars, threadVars, callVars
<1>0. /\ queue.threads \in Nat /\ Main \in Threads /\ WorkerSet \subseteq Threads
      /\ Main \notin WorkerSet /\ DOMAIN pc = Threads
  BY FiniteThreads DEF Threads, TypeOK
<1>1. CASE UNCHANGED vars
  BY <1>1 DEF vars, ItemsCounted
<1>2. ASSUME NEW n \in 1 .. MaxBatch, NEW auto \in BOOLEAN, QueueItems(n, auto) PROVE ItemsCounted'
  BY <1>2, <1>0, CountSame DEF QueueItems
<1>3. ASSUME NEW i \in Items, WaitForItem(i) PROVE ItemsCounted'
  BY <1>3, <1>0, CountSame DEF WaitForItem
<1>4. ASSUME NEW i \in Items, ReleaseItem(i) PROVE ItemsCounted'
  BY <1>4, <1>0, CountSame DEF ReleaseItem
<1>5. CASE AllocItem
  BY <1>5 DEF AllocItem, ItemsCounted
<1>6. CASE Enqueue
  <2>1. list \in Seq(Items) /\ batch \in Seq(Items) /\ items \in Int /\ numitems \in Int
    BY DEF TypeOK
  <2>2. list' = list \o batch /\ Len(batch) = numitems /\ numitems' = numitems
    BY <1>6 DEF Enqueue
  <2>3. Len(list \o batch) = Len(list) + Len(batch) /\ Len(list) \in Nat
    BY <2>1
  <2>4. pc' = [pc EXCEPT ![Main] = "add"] /\ pc[Main] \notin {"add", "run"} /\ items' = items
    BY <1>6 DEF Enqueue, Goto
  <2>5. /\ Cardinality(RunSet') = Cardinality(RunSet) /\ Cardinality(RunSet) \in Nat
        /\ pc'[Main] = "add"
    BY <2>4, <1>0, Moves
  <2>. QED
    BY <2>1, <2>2, <2>3, <2>4, <2>5 DEF ItemsCounted, RunSet
<1>7. CASE AddItems
  <2>1. items' = items + numitems /\ list' = list /\ items \in Int /\ numitems \in Int
    BY <1>7 DEF AddItems, TypeOK
  <2>2. pc' = [pc EXCEPT ![Main] = "live"] /\ pc[Main] = "add"
    BY <1>7 DEF AddItems, Goto
  <2>3. Cardinality(RunSet') = Cardinality(RunSet) /\ pc'[Main] = "live"
    BY <2>2, <1>0, Moves
  <2>4. Cardinality(RunSet) \in Nat
    BY <2>2, <1>0, Moves
  <2>. QED
    BY <2>1, <2>2, <2>3, <2>4 DEF TypeOK, ItemsCounted, RunSet
<1>8. CASE LookForThreads
  <2>1. pc' = [pc EXCEPT ![Main] = pc'[Main]] /\ pc'[Main] \in {"pull", "wake", "idle"}
        /\ pc[Main] = "live" /\ UNCHANGED <<items, list>>
    BY <1>8, <1>0 DEF LookForThreads, Goto
  <2>. QED
    BY <2>1, <1>0, CountSame
<1>9. CASE LookAtThread
  BY <1>9, <1>0, CountSame DEF LookAtThread, NextThread, Goto
<1>9a. CASE WakeThread
  BY <1>9a, <1>0, CountSame DEF WakeThread, NextThread, Goto
<1>10. CASE Helped
  BY <1>10, <1>0, CountSame DEF Helped, Goto
<1>11. CASE Spin
  BY <1>11, <1>0, CountSame DEF Spin, QueueAnswer, Goto, waitVars
<1>12. CASE ResetDone
  BY <1>12, <1>0, CountSame DEF ResetDone, Goto
<1>13. CASE Announce
  BY <1>13, <1>0, CountSame DEF Announce, Goto
<1>14. CASE CheckItems
  BY <1>14, <1>0, CountSame DEF CheckItems, Goto
<1>15. CASE BlockOnQueue
  BY <1>15, <1>0, CountSame DEF BlockOnQueue, Goto
<1>16. CASE Unannounce
  BY <1>16, <1>0, CountSame DEF Unannounce, Goto
<1>17. CASE Answer
  BY <1>17, <1>0, CountSame DEF Answer, QueueAnswer, Goto, waitVars
<1>18. CASE WakeToExit
  BY <1>18 DEF WakeToExit, ItemsCounted
<1>19. CASE FreeQueue
  BY <1>19, <1>0, CountSame DEF FreeQueue, Goto
<1>20. CASE WaitForQueue
  BY <1>20, <1>0, CountSame DEF WaitForQueue, Goto, waitVars
<1>21. CASE TellThreads
  BY <1>21, <1>0, CountSame DEF TellThreads, Goto
<1>22. ASSUME NEW t \in Threads, Pull(t) PROVE ItemsCounted'
  <2>1. CASE list = <<>>
    BY <1>22, <2>1, <1>0, CountSame DEF Pull, Goto
  <2>2. CASE list # <<>>
    <3>1. Len(list') = Len(list) - 1 /\ Len(list) \in Nat /\ UNCHANGED <<items, numitems>>
      BY <1>22, <2>2 DEF Pull, TypeOK
    <3>2. pc' = [pc EXCEPT ![t] = "run"] /\ pc[t] = "pull"
      BY <1>22, <2>2 DEF Pull
    <3>3. Cardinality(RunSet') = Cardinality(RunSet) + 1 /\ Cardinality(RunSet) \in Nat
      BY <3>2, <1>0, Moves
    <3>4. pc'[Main] = "add" <=> pc[Main] = "add"
      BY <3>2, <1>0
    <3>. QED
      BY <3>1, <3>3, <3>4 DEF TypeOK, ItemsCounted, RunSet
  <2>. QED  BY <2>1, <2>2
<1>23. ASSUME NEW t \in Threads, Run(t) PROVE ItemsCounted'
  <2>1. items' = items - 1 /\ UNCHANGED <<list, numitems>>
    BY <1>23 DEF Run
  <2>2. pc' = [pc EXCEPT ![t] = "finish"] /\ pc[t] = "run"
    BY <1>23 DEF Run, Goto
  <2>3. Cardinality(RunSet') = Cardinality(RunSet) - 1 /\ Cardinality(RunSet) \in Nat
    BY <2>2, <1>0, Moves
  <2>4. pc'[Main] = "add" <=> pc[Main] = "add"
    BY <2>2, <1>0
  <2>. QED
    BY <2>1, <2>2, <2>3, <2>4 DEF TypeOK, ItemsCounted, RunSet
<1>24. ASSUME NEW t \in Threads, Finish(t) PROVE ItemsCounted'
  BY <1>24, <1>0, CountSame DEF Finish, Goto
<1>25. ASSUME NEW t \in Threads, CheckFlags(t) PROVE ItemsCounted'
  BY <1>25, <1>0, CountSame DEF CheckFlags
<1>26. ASSUME NEW t \in Threads, Signal(t) PROVE ItemsCounted'
  BY <1>26, <1>0, CountSame DEF Signal, Drop
<1>27. ASSUME NEW t \in Threads, CheckWaiting(t) PROVE ItemsCounted'
  BY <1>27, <1>0, CountSame DEF CheckWaiting, Goto, Processed
<1>28. ASSUME NEW t \in Threads, TellWaiting(t) PROVE ItemsCounted'
  BY <1>28, <1>0, CountSame DEF TellWaiting, Goto, Processed
<1>29. ASSUME NEW t \in Threads, CheckDone(t) PROVE ItemsCounted'
  BY <1>29, <1>0, CountSame DEF CheckDone, WaitReturns, Drop, Goto
<1>30. ASSUME NEW t \in Threads, PrepareEvent(t) PROVE ItemsCounted'
  BY <1>30, <1>0, CountSame DEF PrepareEvent, Goto
<1>31. ASSUME NEW t \in Threads, CheckDoneAgain(t) PROVE ItemsCounted'
  BY <1>31, <1>0, CountSame DEF CheckDoneAgain, WaitReturns, Drop, Goto
<1>32. ASSUME NEW t \in Threads, BlockOnItem(t) PROVE ItemsCounted'
  BY <1>32, <1>0, CountSame DEF BlockOnItem, WaitReturns, Drop, Goto
<1>33. ASSUME NEW t \in Threads, PushFree(t) PROVE ItemsCounted'
  BY <1>33, <1>0, CountSame DEF PushFree, Drop
<1>34. ASSUME NEW w \in WorkerSet, EnterLoop(w) PROVE ItemsCounted'
  BY <1>34, <1>0, CountSame DEF EnterLoop, WorkerTop, Goto
<1>35. ASSUME NEW w \in WorkerSet, LookForItems(w) PROVE ItemsCounted'
  BY <1>35, <1>0, CountSame DEF LookForItems, Goto
<1>36. ASSUME NEW w \in WorkerSet, Sleep(w) PROVE ItemsCounted'
  BY <1>36, <1>0, CountSame DEF Sleep, Goto
<1>37. ASSUME NEW w \in WorkerSet, Woken(w) PROVE ItemsCounted'
  BY <1>37, <1>0, CountSame DEF Woken, WorkerTop, Goto
<1>38. ASSUME NEW w \in WorkerSet, Activate(w) PROVE ItemsCounted'
  BY <1>38, <1>0, CountSame DEF Activate, Goto
<1>39. ASSUME NEW w \in WorkerSet, GoLive(w) PROVE ItemsCounted'
  BY <1>39, <1>0, CountSame DEF GoLive, Goto
<1>40. ASSUME NEW w \in WorkerSet, LookForMore(w) PROVE ItemsCounted'
  BY <1>40, <1>0, CountSame DEF LookForMore, Goto
<1>41. ASSUME NEW w \in WorkerSet, Deactivate(w) PROVE ItemsCounted'
  BY <1>41, <1>0, CountSame DEF Deactivate, Goto
<1>42. ASSUME NEW w \in WorkerSet, Retire(w) PROVE ItemsCounted'
  BY <1>42, <1>0, CountSame DEF Retire, Goto
<1>. QED
  BY <1>0, <1>1, <1>2, <1>3, <1>4, <1>5, <1>6, <1>7, <1>8, <1>9, <1>9a, <1>10, <1>11, <1>12,
     <1>13, <1>14, <1>15, <1>16, <1>17, <1>18, <1>19, <1>20, <1>21, <1>22, <1>23, <1>24,
     <1>25, <1>26, <1>27, <1>28, <1>29, <1>30, <1>31, <1>32, <1>33, <1>34, <1>35, <1>36,
     <1>37, <1>38, <1>39, <1>40, <1>41, <1>42 DEF Next, UserStep, MainStep, WorkerStep,
     SharedStep

----------------------------------------------------------------------------
(* Without threads the main thread works off the list before it goes on. *)

\* What another thread does leaves the main thread where it is, and adds nothing.
LEMMA DrainedOther ==
  ASSUME WorkQueueAssumption, TypeOK, NEW w \in WorkerSet, WorkerStep(w)
  PROVE  /\ pc'[Main] = pc[Main] /\ caller'[Main] = caller[Main] /\ queue' = queue
         /\ list' = list \/ list # <<>>
<1>0. Main \in Threads /\ WorkerSet \subseteq Threads /\ w # Main /\ DOMAIN pc = Threads
      /\ DOMAIN caller = Threads
  BY FiniteThreads DEF Threads, TypeOK
<1>. USE <1>0 DEF queueVars, threadVars, callVars, Goto, Drop
<1>1. CASE SharedStep(w)
  <2>1. CASE Pull(w) \/ Run(w) \/ Finish(w) \/ CheckFlags(w) \/ Signal(w)
    BY <2>1 DEF Pull, Run, Finish, CheckFlags, Signal
  <2>2. CASE CheckWaiting(w) \/ TellWaiting(w) \/ PrepareEvent(w) \/ PushFree(w)
    BY <2>2 DEF CheckWaiting, TellWaiting, PrepareEvent, PushFree
  <2>3. CASE CheckDone(w) \/ CheckDoneAgain(w) \/ BlockOnItem(w)
    BY <2>3 DEF CheckDone, CheckDoneAgain, BlockOnItem, WaitReturns
  <2>. QED  BY <1>1, <2>1, <2>2, <2>3 DEF SharedStep
<1>2. CASE EnterLoop(w) \/ LookForItems(w) \/ Sleep(w) \/ Woken(w) \/ Activate(w)
  BY <1>2 DEF EnterLoop, LookForItems, Sleep, Woken, Activate, WorkerTop
<1>3. CASE GoLive(w) \/ LookForMore(w) \/ Deactivate(w) \/ Retire(w)
  BY <1>3 DEF GoLive, LookForMore, Deactivate, Retire
<1>. QED  BY <1>1, <1>2, <1>3 DEF WorkerStep

LEMMA DrainedNext ==
  ASSUME WorkQueueAssumption, TypeOK, Drained, [Next]_vars
  PROVE  Drained'
<1>. USE DEF queueVars, threadVars, callVars, threads
<1>0. Main \in Threads /\ DOMAIN pc = Threads /\ DOMAIN caller = Threads
      /\ list \in Seq(Items)
  BY DEF Threads, TypeOK
<1>1. CASE UNCHANGED vars
  BY <1>1 DEF vars, Drained
<1>2. ASSUME NEW n \in 1 .. MaxBatch, NEW auto \in BOOLEAN, QueueItems(n, auto) PROVE Drained'
  BY <1>2, <1>0 DEF QueueItems, Drained
<1>3. ASSUME NEW i \in Items, WaitForItem(i) PROVE Drained'
  BY <1>3, <1>0 DEF WaitForItem, Drained
<1>4. ASSUME NEW i \in Items, ReleaseItem(i) PROVE Drained'
  BY <1>4, <1>0 DEF ReleaseItem, Drained
<1>5. CASE AllocItem
  BY <1>5, <1>0 DEF AllocItem, Drained
<1>6. CASE Enqueue
  BY <1>6, <1>0 DEF Enqueue, Goto, Drained
<1>7. CASE AddItems
  BY <1>7, <1>0 DEF AddItems, Goto, Drained
<1>8. CASE LookForThreads
  <2>1. queue' = queue /\ list' = list /\ pc' = [pc EXCEPT ![Main] = pc'[Main]]
    BY <1>8, <1>0 DEF LookForThreads, Goto
  <2>2. queue.threads = 0 => ~(livethreads < queue.threads)
    BY DEF TypeOK
  <2>3. queue.threads = 0 => pc'[Main] = "pull"
    BY <1>8, <1>0, <2>2 DEF LookForThreads, Goto
  <2>. QED  BY <2>1, <2>3 DEF Drained
<1>9. CASE LookAtThread \/ WakeThread
  BY <1>9, <1>0 DEF LookAtThread, WakeThread, NextThread, Goto, Drained
<1>10. CASE Helped
  BY <1>10, <1>0 DEF Helped, Goto, Drained
<1>11. CASE Spin
  BY <1>11, <1>0 DEF Spin, QueueAnswer, Goto, waitVars, Drained
<1>12. CASE ResetDone
  BY <1>12, <1>0 DEF ResetDone, Goto, Drained
<1>13. CASE Announce
  BY <1>13, <1>0 DEF Announce, Goto, Drained
<1>14. CASE CheckItems
  BY <1>14, <1>0 DEF CheckItems, Goto, Drained
<1>15. CASE BlockOnQueue
  BY <1>15, <1>0 DEF BlockOnQueue, Goto, Drained
<1>16. CASE Unannounce
  BY <1>16, <1>0 DEF Unannounce, Goto, Drained
<1>17. CASE Answer
  BY <1>17, <1>0 DEF Answer, QueueAnswer, Goto, waitVars, Drained
<1>18. CASE WakeToExit
  BY <1>18, <1>0 DEF WakeToExit, Drained
<1>19. CASE FreeQueue
  BY <1>19, <1>0 DEF FreeQueue, Goto, Drained
<1>20. CASE WaitForQueue
  BY <1>20, <1>0 DEF WaitForQueue, Goto, waitVars, Drained
<1>21. CASE TellThreads
  BY <1>21, <1>0 DEF TellThreads, Goto, Drained
<1>22. CASE Pull(Main)
  BY <1>22, <1>0 DEF Pull, Goto, Drained
<1>23. CASE Run(Main)
  BY <1>23, <1>0 DEF Run, Goto, Drained
<1>24. CASE Finish(Main)
  BY <1>24, <1>0 DEF Finish, Goto, Drained
<1>25. CASE CheckFlags(Main)
  BY <1>25, <1>0 DEF CheckFlags, Drained
<1>26. CASE Signal(Main)
  BY <1>26, <1>0 DEF Signal, Drop, Drained
<1>27. CASE CheckWaiting(Main)
  BY <1>27, <1>0 DEF CheckWaiting, Goto, Processed, Drained
<1>28. CASE TellWaiting(Main)
  BY <1>28, <1>0 DEF TellWaiting, Goto, Processed, Drained
<1>29. CASE CheckDone(Main)
  BY <1>29, <1>0 DEF CheckDone, WaitReturns, Drop, Goto, Drained
<1>30. CASE PrepareEvent(Main)
  BY <1>30, <1>0 DEF PrepareEvent, Goto, Drained
<1>31. CASE CheckDoneAgain(Main)
  BY <1>31, <1>0 DEF CheckDoneAgain, WaitReturns, Drop, Goto, Drained
<1>32. CASE BlockOnItem(Main)
  BY <1>32, <1>0 DEF BlockOnItem, WaitReturns, Drop, Goto, Drained
<1>33. CASE PushFree(Main)
  BY <1>33, <1>0 DEF PushFree, Drop, Drained
<1>34. ASSUME NEW w \in WorkerSet, WorkerStep(w) PROVE Drained'
  BY <1>34, DrainedOther DEF Drained
<1>. QED
  BY <1>0, <1>1, <1>2, <1>3, <1>4, <1>5, <1>6, <1>7, <1>8, <1>9, <1>10, <1>11, <1>12,
     <1>13, <1>14, <1>15, <1>16, <1>17, <1>18, <1>19, <1>20, <1>21, <1>22, <1>23, <1>24,
     <1>25, <1>26, <1>27, <1>28, <1>29, <1>30, <1>31, <1>32, <1>33, <1>34 DEF Next,
     UserStep, MainStep, SharedStep

----------------------------------------------------------------------------
(* The theorems. *)

LEMMA InitInv ==
  ASSUME WorkQueueAssumption, Init
  PROVE  IInv
<1>. USE DEF Init
<1>0. /\ queue.threads \in 0 .. Len(Workers) /\ Len(Workers) \in Nat
      /\ Main \in Threads /\ WorkerSet \subseteq Threads /\ Main \notin WorkerSet
  BY FiniteThreads DEF Threads
<1>1. \A t \in Threads : pc[t] \in {"idle", "top", "gone"}
  OBVIOUS
<1>2. LiveSet = {} /\ {t \in Threads : pc[t] = "run"} = {}
  BY <1>0, <1>1 DEF LiveSet, Live
<1>3. TypeOK
  <2>1. item \in [Items -> ItemRec]
    BY DEF ItemRec
  <2>2. livethreads \in 0 .. threads /\ threadnum \in 1 .. threads + 1
    BY <1>0 DEF threads
  <2>3. list \in Seq(Items) /\ batch \in Seq(Items) /\ numitems \in Nat /\ items \in Int
    OBVIOUS
  <2>. QED  BY <2>1, <2>2, <2>3 DEF TypeOK
<1>4. Control
  <2>1. \A w \in WorkerSet : /\ pc[w] \in Live \cup Apart /\ caller[w] = "auto"
                             /\ pc[w] # "gone" => w \in Started
    BY <1>0 DEF Apart, Started, threads
  <2>2. livethreads = Cardinality(LiveSet)
    BY <1>2, FS_EmptySet
  <2>. QED  BY <1>0, <1>1, <2>1, <2>2 DEF Control, InHand, Queueing, Waking
<1>5. Drained
  BY DEF Drained
<1>6. ItemsCounted
  BY <1>0, <1>1, <1>2, FS_EmptySet DEF ItemsCounted
<1>. QED
  BY <1>3, <1>4, <1>5, <1>6 DEF IInv

LEMMA QueueStays ==
  ASSUME [Next]_vars
  PROVE  queue' = queue
<1>1. CASE UserStep
  BY <1>1 DEF UserStep, QueueItems, WaitForItem, ReleaseItem, WaitForQueue, TellThreads
<1>2. ASSUME NEW t, SharedStep(t) PROVE queue' = queue
  BY <1>2 DEF SharedStep, Pull, Run, Finish, CheckFlags, Signal, CheckWaiting,
  TellWaiting, CheckDone, PrepareEvent, CheckDoneAgain, BlockOnItem, PushFree
<1>3. CASE MainStep
  BY <1>2, <1>3 DEF MainStep, AllocItem, Enqueue, AddItems, LookForThreads, LookAtThread,
  WakeThread, Helped, Spin, ResetDone, Announce, CheckItems, BlockOnQueue, Unannounce, Answer,
  WakeToExit, FreeQueue
<1>4. ASSUME NEW w \in WorkerSet, WorkerStep(w) PROVE queue' = queue
  BY <1>2, <1>4 DEF WorkerStep, EnterLoop, LookForItems, Sleep, Woken, Activate,
  GoLive, LookForMore, Deactivate, Retire
<1>. QED
  BY <1>1, <1>3, <1>4 DEF Next, vars

LEMMA NextInv ==
  ASSUME WorkQueueAssumption, IInv, [Next]_vars
  PROVE  IInv'
<1>1. Control'
  BY ControlNext DEF IInv
<1>2. queue' \in Queues
  <2>1. queue' = queue
    BY QueueStays
  <2>. QED  BY <2>1 DEF IInv, TypeOK
<1>3. livethreads' \in 0 .. threads'
  <2>1. LiveSet' \subseteq Started'
    BY <1>1 DEF Control, LiveSet, Live
  <2>2. queue'.threads \in 0 .. Len(Workers)
    BY <1>2, FiniteThreads
  <2>3. Cardinality(LiveSet') \in 0 .. queue'.threads
    BY <2>1, <2>2, FewStarted DEF Started, threads
  <2>. QED  BY <1>1, <2>3 DEF Control, threads
<1>4. TypeOK'
  BY <1>3, TypeNext DEF IInv
<1>. QED
  BY <1>1, <1>4, DrainedNext, CountedNext DEF IInv

LEMMA Invariance ==
  ASSUME WorkQueueAssumption
  PROVE  Spec => []IInv
<1>1. Init => IInv
  BY InitInv, WorkQueueAssumption
<1>2. IInv /\ [Next]_vars => IInv'
  BY NextInv, WorkQueueAssumption
<1>. QED
  BY <1>1, <1>2, PTL DEF Spec

\* The variables keep their types, and livethreads stays between 0 and the number of
\* threads, whatever the threads do (worker_thread_entry, osd_work_queue_free).
THEOREM TypeCorrect ==
  ASSUME WorkQueueAssumption
  PROVE  Spec => []TypeOK
BY Invariance, PTL DEF IInv

\* queue->items counts what is in the list and in the hands of the threads, for any
\* number of threads (osd_work_item_queue_multiple, worker_thread_process).
THEOREM CountCorrect ==
  ASSUME WorkQueueAssumption
  PROVE  Spec => []ItemsCounted
BY Invariance, PTL DEF IInv

\* Nothing is left when the count is zero, except while items are being added.
LEMMA NothingLeft ==
  ASSUME WorkQueueAssumption, TypeOK, ItemsCounted, items = 0, pc[Main] # "add"
  PROVE  list = <<>> /\ \A t \in Threads : pc[t] # "run"
<1>. DEFINE R == {t \in Threads : pc[t] = "run"}
<1>1. IsFiniteSet(R) /\ Cardinality(R) \in Nat
  BY FiniteThreads, FS_Subset, FS_CardinalityType
<1>2. Len(list) + Cardinality(R) = 0
  BY DEF ItemsCounted
<1>3. Len(list) \in Nat /\ list \in Seq(Items)
  BY DEF TypeOK
<1>. HIDE DEF R
<1>4. Len(list) = 0 /\ Cardinality(R) = 0
  BY <1>1, <1>2, <1>3
<1>5. R = {}
  BY <1>1, <1>4, FS_EmptySet
<1>. QED
  BY <1>3, <1>4, <1>5 DEF R

\* What the main thread answers, when it answers that the queue is empty.
LEMMA SaysEmpty ==
  ASSUME [Next]_vars, answer' = "empty", answer # "empty"
  PROVE  \/ (Spin \/ Answer) /\ items = 0
         \/ WaitForQueue
<1>1. CASE UserStep
  BY <1>1 DEF UserStep, QueueItems, WaitForItem, ReleaseItem, TellThreads
<1>2. ASSUME NEW t, SharedStep(t) PROVE FALSE
  BY <1>2 DEF SharedStep, Pull, Run, Finish, CheckFlags, Signal, CheckWaiting,
  TellWaiting, CheckDone, PrepareEvent, CheckDoneAgain, BlockOnItem, PushFree,
  WaitReturns, callVars
<1>3. CASE MainStep
  BY <1>2, <1>3 DEF MainStep, AllocItem, Enqueue, AddItems, LookForThreads, LookAtThread,
  WakeThread, Helped, Spin, ResetDone, Announce, CheckItems, BlockOnQueue, Unannounce, Answer,
  WakeToExit, FreeQueue, QueueAnswer, callVars
<1>4. ASSUME NEW w \in WorkerSet, WorkerStep(w) PROVE FALSE
  BY <1>2, <1>4 DEF WorkerStep, EnterLoop, LookForItems, Sleep, Woken, Activate,
  GoLive, LookForMore, Deactivate, Retire, callVars
<1>. QED
  BY <1>1, <1>3, <1>4 DEF Next, vars, callVars

\* A wait for the queue that says that it is empty is right: nothing is in the list,
\* and no callback runs (osd_work_queue_wait).
THEOREM EmptyIsEmpty ==
  ASSUME WorkQueueAssumption
  PROVE  Spec => [][answer' = "empty" /\ answer # "empty" =>
                      list = <<>> /\ \A t \in Threads : pc[t] # "run"]_vars
<1>1. ASSUME IInv, [Next]_vars, answer' = "empty", answer # "empty"
      PROVE  list = <<>> /\ \A t \in Threads : pc[t] # "run"
  <2>1. CASE (Spin \/ Answer) /\ items = 0
    BY <1>1, <2>1, NothingLeft, WorkQueueAssumption DEF IInv, Spin, Answer
  <2>2. CASE WaitForQueue /\ threads = 0
    <3>1. pc[Main] = "idle"
      BY <2>2 DEF WaitForQueue
    <3>2. list = <<>>
      BY <1>1, <2>2, <3>1 DEF IInv, Drained
    <3>3. Started = {}
      <4>. DEFINE s == SubSeq(Workers, 1, threads)
      <4>1. s \in Seq(WorkerSet) /\ Len(s) = 0
        BY <2>2, WorkQueueAssumption DEF WorkQueueAssumption
      <4>. HIDE DEF s
      <4>2. DOMAIN s = 1 .. 0
        BY <4>1
      <4>3. ToSet(s) = {}
        BY <4>2 DEF ToSet
      <4>. QED  BY <4>3 DEF Started, s
    <3>4. \A w \in WorkerSet : pc[w] = "gone"
      BY <1>1, <3>3 DEF IInv, Control
    <3>. QED  BY <3>1, <3>2, <3>4 DEF Threads
  <2>3. CASE WaitForQueue /\ items = 0
    BY <1>1, <2>3, NothingLeft, WorkQueueAssumption DEF IInv, WaitForQueue
  <2>4. WaitForQueue => threads = 0 \/ items = 0
    BY <1>1 DEF WaitForQueue
  <2>. QED  BY <1>1, <2>1, <2>2, <2>3, <2>4, SaysEmpty
<1>2. Spec => []IInv
  BY Invariance, WorkQueueAssumption
<1>. QED
  BY <1>1, <1>2, PTL DEF Spec

----------------------------------------------------------------------------
(* No wake-up is lost. *)

\* Where the active threads are; and that some thread is or will be up, and has yet to
\* look at the list before it sleeps or leaves.
Actives == {"live"} \cup (Live \ {"retire"})
Awake == \E w \in WorkerSet : pc[w] # "gone" /\ (pc[w] = "sleep" => wakeevent[w])

\* Nobody leaves before it is told to; and when something is in the list some thread is
\* awake, or the main thread has yet to look for one, the first of all.
AwakeInv ==
  /\ \A w \in WorkerSet : active[w] => pc[w] \in Actives
  /\ ~exiting => \A w \in Started : pc[w] # "gone"
  /\ list # <<>> /\ ~exiting /\ threads # 0 =>
       \/ pc[Main] \in {"add", "live"}
       \/ pc[Main] \in Waking /\ threadnum = 1
       \/ Awake

LEMMA StartedAre ==
  ASSUME WorkQueueAssumption, TypeOK
  PROVE  /\ Started \subseteq WorkerSet
         /\ \A k \in 1 .. threads : Workers[k] \in Started
<1>1. Len(Workers) \in Nat /\ threads \in 0 .. Len(Workers)
  BY FiniteThreads DEF TypeOK, threads
<1>. DEFINE s == SubSeq(Workers, 1, threads)
<1>2. DOMAIN s = 1 .. threads /\ \A k \in 1 .. threads : s[k] = Workers[k]
  BY <1>1 DEF WorkQueueAssumption
<1>3. \A k \in 1 .. threads : Workers[k] \in WorkerSet
  BY <1>1, FiniteThreads
<1>. HIDE DEF s
<1>4. ToSet(s) \subseteq WorkerSet /\ \A k \in 1 .. threads : Workers[k] \in ToSet(s)
  BY <1>2, <1>3 DEF ToSet
<1>. QED
  BY <1>4 DEF Started, s

\* A worker moves: it sleeps only when the list is empty, and leaves only when told to.
LEMMA AwakeWorker ==
  ASSUME TypeOK, AwakeInv, Main \notin WorkerSet, Started \subseteq WorkerSet,
         NEW w \in WorkerSet, NEW place, pc' = [pc EXCEPT ![w] = place],
         UNCHANGED <<queue, exiting, threadnum>>,
         list' # <<>> => list # <<>> /\ place # "sleep",
         place = "gone" => exiting,
         active'[w] => place \in Actives,
         \A u \in WorkerSet \ {w} : active'[u] = active[u] /\ wakeevent'[u] = wakeevent[u]
  PROVE  AwakeInv'
<1>1. /\ pc'[w] = place /\ pc'[Main] = pc[Main]
      /\ \A u \in WorkerSet \ {w} : pc'[u] = pc[u]
  BY DEF TypeOK, Threads
<1>2. threads' = threads /\ Started' = Started
  BY DEF threads, Started
<1>3. \A u \in WorkerSet : active'[u] => pc'[u] \in Actives
  BY <1>1 DEF AwakeInv
<1>4. ~exiting' => \A u \in Started' : pc'[u] # "gone"
  BY <1>1, <1>2 DEF AwakeInv
<1>5. ASSUME list' # <<>>, ~exiting', Awake PROVE Awake'
  BY <1>1, <1>5 DEF Awake
<1>. QED
  BY <1>1, <1>2, <1>3, <1>4, <1>5 DEF AwakeInv

\* The main thread moves; a worker that is awake stays so.
LEMMA AwakeMain ==
  ASSUME AwakeInv, UNCHANGED <<queue, active>>,
         \A w \in WorkerSet : pc'[w] = pc[w] /\ (wakeevent[w] => wakeevent'[w]),
         Started \subseteq WorkerSet, exiting => exiting',
         list' # <<>> /\ ~exiting' /\ threads # 0 =>
           \/ pc'[Main] \in {"add", "live"}
           \/ pc'[Main] \in Waking /\ threadnum' = 1
           \/ Awake'
           \/ list # <<>> /\ pc[Main] \notin {"add", "live"} \cup Waking
  PROVE  AwakeInv'
<1>1. threads' = threads /\ Started' = Started
  BY DEF threads, Started
<1>2. Awake => Awake'
  BY DEF Awake
<1>. QED
  BY <1>1, <1>2 DEF AwakeInv

\* When all threads are live, some is: there is one.
LEMMA AwakeLook ==
  ASSUME WorkQueueAssumption, TypeOK, Control, AwakeInv, LookForThreads
  PROVE  AwakeInv'
<1>1. /\ Started \subseteq WorkerSet /\ threads \in Nat /\ Main \notin WorkerSet
      /\ DOMAIN pc = Threads /\ WorkerSet \subseteq Threads /\ Main \in Threads
  BY StartedAre, FiniteThreads DEF TypeOK, threads, Threads
<1>2. /\ threadnum' = 1 /\ UNCHANGED <<queue, list, active, exiting, wakeevent>>
      /\ pc' = [pc EXCEPT ![Main] = CASE threads = 0 -> "pull"
                  [] livethreads < threads -> "wake"
                  [] OTHER -> "idle"]
  BY DEF LookForThreads, Goto, queueVars, threadVars
<1>3. ASSUME threads # 0, ~(livethreads < threads) PROVE Awake'
  <2>1. livethreads # 0
    BY <1>1, <1>3 DEF TypeOK
  <2>2. PICK w \in LiveSet : TRUE
    BY <2>1, FS_EmptySet DEF Control
  <2>3. w \in WorkerSet /\ pc'[w] \in Live
    BY <1>1, <1>2 DEF LiveSet
  <2>. QED  BY <2>3 DEF Awake, Live
<1>4. \A w \in WorkerSet : pc'[w] = pc[w]
  BY <1>1, <1>2
<1>5. threads # 0 => pc'[Main] \in Waking \/ Awake'
  BY <1>1, <1>2, <1>3 DEF Waking
<1>. QED
  BY <1>1, <1>2, <1>4, <1>5, AwakeMain

\* The thread looked at: it has not been told to leave.
LEMMA AwakeThread ==
  ASSUME WorkQueueAssumption, TypeOK, Control, AwakeInv, pc[Main] \in Waking,
         \E place : pc' = [pc EXCEPT ![Main] = place]
  PROVE  /\ \A u \in WorkerSet : pc'[u] = pc[u]
         /\ Started \subseteq WorkerSet /\ Workers[threadnum] \in WorkerSet
         /\ ~exiting => pc[Workers[threadnum]] # "gone"
<1>1. /\ Started \subseteq WorkerSet /\ threads \in Nat /\ Main \notin WorkerSet
      /\ DOMAIN pc = Threads /\ WorkerSet \subseteq Threads /\ Main \in Threads
  BY StartedAre, FiniteThreads DEF TypeOK, threads, Threads
<1>2. threadnum \in 1 .. threads
  BY <1>1 DEF Control, TypeOK
<1>3. Workers[threadnum] \in Started
  BY <1>2, StartedAre
<1>. QED
  BY <1>1, <1>3 DEF AwakeInv

\* A thread that is active has yet to look at the list.
LEMMA AwakeLookAt ==
  ASSUME WorkQueueAssumption, TypeOK, Control, AwakeInv, LookAtThread
  PROVE  AwakeInv'
<1>. DEFINE w == Workers[threadnum]
<1>1. pc[Main] = "wake" /\ (\E place : pc' = [pc EXCEPT ![Main] = place])
  BY DEF LookAtThread, NextThread, Goto
<1>2. /\ \A u \in WorkerSet : pc'[u] = pc[u]
      /\ Started \subseteq WorkerSet /\ w \in WorkerSet
      /\ ~exiting => pc[w] # "gone"
  BY <1>1, AwakeThread DEF Waking
<1>3. UNCHANGED <<queue, list, active, exiting, wakeevent>>
  BY DEF LookAtThread, queueVars, threadVars
<1>4. CASE active[w]
  <2>1. ~exiting => Awake'
    BY <1>2, <1>3, <1>4 DEF AwakeInv, Awake, Actives, Live
  <2>. QED  BY <1>2, <1>3, <2>1, AwakeMain
<1>5. CASE ~active[w]
  <2>1. pc'[Main] = "set_event" /\ threadnum' = threadnum
    BY <1>5 DEF LookAtThread, Goto, w, TypeOK, Threads
  <2>2. Awake => Awake'
    BY <1>2, <1>3 DEF Awake
  <2>3. list' # <<>> /\ ~exiting' /\ threads # 0 =>
          (pc'[Main] \in Waking /\ threadnum' = 1) \/ Awake'
    BY <1>1, <1>3, <2>1, <2>2 DEF AwakeInv, Waking
  <2>. QED  BY <1>2, <1>3, <2>3, AwakeMain
<1>. QED
  BY <1>4, <1>5

\* A thread whose event is set is up.
LEMMA AwakeWake ==
  ASSUME WorkQueueAssumption, TypeOK, Control, AwakeInv, WakeThread
  PROVE  AwakeInv'
<1>. DEFINE w == Workers[threadnum]
<1>1. pc[Main] = "set_event" /\ (\E place : pc' = [pc EXCEPT ![Main] = place])
  BY DEF WakeThread, NextThread, Goto
<1>2. /\ \A u \in WorkerSet : pc'[u] = pc[u]
      /\ Started \subseteq WorkerSet /\ w \in WorkerSet
      /\ ~exiting => pc[w] # "gone"
  BY <1>1, AwakeThread DEF Waking
<1>3. UNCHANGED <<queue, list, active, exiting>>
  BY DEF WakeThread, queueVars
<1>4. wakeevent' = [wakeevent EXCEPT ![w] = TRUE]
  BY DEF WakeThread, w
<1>. HIDE DEF w
<1>5. wakeevent'[w] /\ \A u \in WorkerSet \ {w} : wakeevent'[u] = wakeevent[u]
  BY <1>2, <1>4 DEF TypeOK
<1>6. ~exiting => Awake'
  BY <1>2, <1>5 DEF Awake
<1>. QED
  BY <1>2, <1>3, <1>5, <1>6, AwakeMain

\* What a thread does in worker_thread_process and for an item: it stays live, and nothing
\* is added to the list.
LEMMA SharedMoves ==
  ASSUME TypeOK, Control, Main \notin WorkerSet, NEW t \in Threads, SharedStep(t)
  PROVE  \E place \in Live \cup {"idle", "helped"} :
           /\ pc' = [pc EXCEPT ![t] = place] /\ pc[t] \in Live
           /\ t # Main => place \in Live \ {"retire"}
           /\ list' # <<>> => list # <<>>
           /\ UNCHANGED <<queue, exiting, threadnum, active, wakeevent>>
<1>. USE DEF queueVars, threadVars, callVars, Live
<1>0. t # Main => t \in WorkerSet /\ caller[t] = "auto"
  BY DEF Threads, Control
<1>1. CASE Pull(t)
  BY <1>1 DEF Pull, Goto
<1>2. CASE Run(t) \/ Finish(t)
  BY <1>2 DEF Run, Finish, Goto
<1>3. CASE CheckFlags(t)
  BY <1>3 DEF CheckFlags
<1>4. CASE Signal(t)
  BY <1>4 DEF Signal, Drop
<1>5. CASE CheckWaiting(t)
  BY <1>5 DEF CheckWaiting, Goto, Processed
<1>6. CASE TellWaiting(t)
  BY <1>6 DEF TellWaiting, Goto, Processed
<1>7. CASE CheckDone(t)
  BY <1>0, <1>7 DEF CheckDone, WaitReturns, Drop, Goto
<1>8. CASE PrepareEvent(t)
  BY <1>8 DEF PrepareEvent, Goto
<1>9. CASE CheckDoneAgain(t)
  BY <1>0, <1>9 DEF CheckDoneAgain, WaitReturns, Drop, Goto
<1>10. CASE BlockOnItem(t)
  BY <1>0, <1>10 DEF BlockOnItem, WaitReturns, Drop, Goto
<1>11. CASE PushFree(t)
  BY <1>0, <1>11 DEF PushFree, Drop
<1>. QED
  BY <1>1, <1>2, <1>3, <1>4, <1>5, <1>6, <1>7, <1>8, <1>9, <1>10, <1>11 DEF SharedStep

LEMMA AwakeNext ==
  ASSUME WorkQueueAssumption, TypeOK, Control, AwakeInv, [Next]_vars
  PROVE  AwakeInv'
<1>. USE DEF queueVars, threadVars, callVars, Waking
<1>0. /\ Started \subseteq WorkerSet /\ Main \notin WorkerSet
      /\ DOMAIN pc = Threads /\ WorkerSet \subseteq Threads /\ Main \in Threads
  BY StartedAre, FiniteThreads DEF TypeOK, Threads
<1>1. CASE UNCHANGED vars
  BY <1>1 DEF vars, AwakeInv, Awake, Started, threads
<1>2. CASE LookForThreads \/ LookAtThread \/ WakeThread
  BY <1>2, AwakeLook, AwakeLookAt, AwakeWake
<1>3. CASE UserStep
  <2>1. /\ \E place : pc' = [pc EXCEPT ![Main] = place]
        /\ pc[Main] \notin {"add", "live"} \cup Waking
        /\ UNCHANGED <<queue, list, active, wakeevent>> /\ (exiting => exiting')
    BY <1>0, <1>3 DEF UserStep, QueueItems, WaitForItem, ReleaseItem, WaitForQueue, TellThreads,
       Goto
  <2>2. \A w \in WorkerSet : pc'[w] = pc[w]
    BY <1>0, <2>1
  <2>. QED  BY <1>0, <2>1, <2>2, AwakeMain
<1>4. CASE AllocItem \/ WakeToExit
  <2>1. /\ UNCHANGED <<queue, list, active, exiting, pc>> /\ pc[Main] \notin {"add", "live"} \cup Waking
        /\ \A w \in WorkerSet : wakeevent[w] => wakeevent'[w]
    BY <1>4 DEF AllocItem, WakeToExit, TypeOK
  <2>. QED  BY <1>0, <2>1, AwakeMain
<1>5. CASE Enqueue \/ AddItems
  <2>1. /\ \E place \in {"add", "live"} : pc' = [pc EXCEPT ![Main] = place]
        /\ UNCHANGED <<queue, active, exiting, wakeevent>>
    BY <1>5 DEF Enqueue, AddItems, Goto
  <2>2. \A w \in WorkerSet : pc'[w] = pc[w]
    BY <1>0, <2>1
  <2>3. pc'[Main] \in {"add", "live"}
    BY <1>0, <2>1
  <2>. QED  BY <1>0, <2>1, <2>2, <2>3, AwakeMain
<1>6. CASE \/ Helped \/ Spin \/ ResetDone \/ Announce \/ CheckItems \/ BlockOnQueue
           \/ Unannounce \/ Answer \/ FreeQueue
  <2>1. /\ \E place : pc' = [pc EXCEPT ![Main] = place]
        /\ UNCHANGED <<queue, list, active, exiting, wakeevent>>
        /\ pc[Main] \notin {"add", "live"} \cup Waking
    BY <1>6 DEF Helped, Spin, ResetDone, Announce, CheckItems, BlockOnQueue, Unannounce,
       Answer, FreeQueue, Goto
  <2>2. \A w \in WorkerSet : pc'[w] = pc[w]
    BY <1>0, <2>1
  <2>. QED  BY <1>0, <2>1, <2>2, AwakeMain
<1>7. CASE SharedStep(Main)
  <2>1. /\ \E place : pc' = [pc EXCEPT ![Main] = place]
        /\ UNCHANGED <<queue, active, exiting, wakeevent>>
        /\ pc[Main] \notin {"add", "live"} \cup Waking /\ (list' # <<>> => list # <<>>)
    BY <1>0, <1>7, SharedMoves DEF Live
  <2>2. \A w \in WorkerSet : pc'[w] = pc[w]
    BY <1>0, <2>1
  <2>. QED  BY <1>0, <2>1, <2>2, AwakeMain
<1>8. ASSUME NEW w \in WorkerSet, SharedStep(w) PROVE AwakeInv'
  <2>1. PICK place \in Live \ {"retire"} :
          /\ pc' = [pc EXCEPT ![w] = place] /\ (list' # <<>> => list # <<>>)
          /\ UNCHANGED <<queue, exiting, threadnum, active, wakeevent>>
    BY <1>0, <1>8, SharedMoves
  <2>. QED  BY <1>0, <2>1, AwakeWorker DEF Live, Actives
<1>9. ASSUME NEW w \in WorkerSet,
             \/ EnterLoop(w) \/ LookForItems(w) \/ Sleep(w) \/ Woken(w) \/ Activate(w)
             \/ GoLive(w) \/ LookForMore(w) \/ Deactivate(w) \/ Retire(w)
      PROVE  AwakeInv'
  <2>0. active[w] => pc[w] \in Actives
    BY DEF AwakeInv
  <2>1. CASE EnterLoop(w)
    BY <1>0, <2>0, <2>1, AwakeWorker DEF EnterLoop, WorkerTop, Goto, Actives, Live
  <2>2. CASE LookForItems(w)
    BY <1>0, <2>0, <2>2, AwakeWorker DEF LookForItems, Goto, Actives, Live
  <2>3. CASE Sleep(w)
    BY <1>0, <2>0, <2>3, AwakeWorker DEF Sleep, Goto, Actives, Live, TypeOK
  <2>4. CASE Woken(w)
    BY <1>0, <2>0, <2>4, AwakeWorker DEF Woken, WorkerTop, Goto, Actives, Live
  <2>5. CASE Activate(w)
    BY <1>0, <2>0, <2>5, AwakeWorker DEF Activate, Goto, Actives, Live, TypeOK
  <2>6. CASE GoLive(w)
    BY <1>0, <2>0, <2>6, AwakeWorker DEF GoLive, Goto, Actives, Live
  <2>7. CASE LookForMore(w)
    <3>1. PICK place \in {"deactivate", "pull"} : pc' = [pc EXCEPT ![w] = place]
      BY <2>7 DEF LookForMore, Goto
    <3>2. UNCHANGED <<queue, list, exiting, threadnum, active, wakeevent>>
      BY <2>7 DEF LookForMore
    <3>. QED  BY <1>0, <3>1, <3>2, AwakeWorker DEF Actives, Live
  <2>8. CASE Deactivate(w)
    BY <1>0, <2>0, <2>8, AwakeWorker DEF Deactivate, Goto, Actives, Live, TypeOK
  <2>9. CASE Retire(w)
    BY <1>0, <2>0, <2>9, AwakeWorker DEF Retire, Goto, Actives, Live
  <2>. QED
    BY <1>9, <2>1, <2>2, <2>3, <2>4, <2>5, <2>6, <2>7, <2>8, <2>9
<1>. QED
  BY <1>1, <1>2, <1>3, <1>4, <1>5, <1>6, <1>7, <1>8, <1>9 DEF Next, MainStep, WorkerStep

\* No wake-up is lost, for any number of threads: what the main thread has put into the
\* list finds a thread awake, with its event set or, without threads, the main thread at
\* work on it (osd_work_item_queue_multiple, worker_thread_entry).
THEOREM NoLostWakeUp ==
  ASSUME WorkQueueAssumption
  PROVE  Spec => []SomebodyIsAwake
<1>1. Init => AwakeInv
  <2>1. ASSUME Init PROVE AwakeInv
    <3>1. Started \subseteq WorkerSet /\ WorkerSet \subseteq Threads /\ Main \notin WorkerSet
      BY <2>1, InitInv, StartedAre, FiniteThreads DEF IInv
    <3>. QED  BY <2>1, <3>1 DEF Init, AwakeInv, Started, threads
  <2>. QED  BY <2>1
<1>2. IInv /\ AwakeInv /\ [Next]_vars => AwakeInv'
  BY AwakeNext, WorkQueueAssumption DEF IInv
<1>3. IInv /\ AwakeInv => SomebodyIsAwake
  BY DEF IInv, AwakeInv, Awake, Drained, SomebodyIsAwake, Waking
<1>. QED
  BY <1>1, <1>2, <1>3, Invariance, WorkQueueAssumption, PTL DEF Spec

----------------------------------------------------------------------------
(* Where every item is, and what its flags then say: for queues whose items  *)
(* are all released automatically, and for queues whose waits do not end     *)
(* early and whose user queues nothing more once items have been released.   *)

Careful(q) == q.auto \subseteq {TRUE} \/ ~(q.early \/ q.reuse)

\* The threads that run an item or release it for its user; and whether the main thread
\* waits for an item of its own or releases it.
Releasing == {"wait", "event", "check", "block", "push"}
Held == {t \in Threads : \/ pc[t] \in {"run", "finish", "flags", "signal"}
                         \/ pc[t] \in Releasing /\ caller[t] = "auto"}
Asked == pc[Main] \in Releasing /\ caller[Main] # "auto"

\* An item is in one list or held by one thread at a time.  When the main thread has
\* released it, the thread that ran it may still hold it, to look at its flags.
OnePlace ==
  /\ IsInjective(list) /\ IsInjective(batch) /\ ToSet(list) \cap ToSet(batch) = {}
  /\ free \cup ToSet(list) \cup ToSet(batch) \cup owned \subseteq made
  /\ free \cap (ToSet(list) \cup ToSet(batch) \cup owned) = {}
  /\ \A t \in Held :
       /\ cur[t] \in made /\ cur[t] \notin ToSet(list) \cup ToSet(batch)
       /\ cur[t] \in free => pc[t] \in {"flags", "signal"} /\ ~item[cur[t]].auto
  /\ \A t, u \in Held : cur[t] = cur[u] => t = u
  /\ Asked => /\ cur[Main] \in made /\ cur[Main] \notin free
              /\ caller[Main] = "wait" <=> cur[Main] \in owned

\* Only items that their user releases are its own, and only others are released for it.
\* While items are filled in, the free ones are those released by the threads.
Flags ==
  /\ \A i \in owned : ~item[i].auto
  /\ Asked => ~item[cur[Main]].auto
  /\ \A t \in Held : pc[t] \in Releasing => item[cur[t]].auto /\ pc[t] \in {"wait", "push"}
  /\ queue.auto \subseteq {TRUE} => pc[Main] # "alloc" /\ \A i \in made : item[i].auto
  /\ pc[Main] \in {"alloc", "alloc_auto"} => \A i \in free : item[i].auto

\* What waits to be run is not done, what has been run is.
DoneOnce ==
  /\ \A i \in ToSet(list) \cup ToSet(batch) : ~item[i].done
  /\ \A t \in Held : item[cur[t]].done <=> pc[t] \notin {"run", "finish"}
  /\ Asked /\ pc[Main] = "push" => caller[Main] = "release" /\ item[cur[Main]].done

\* Only items that their user releases have events, which tell that they are done.
Events ==
  \A i \in Items : /\ item[i].auto \/ i \notin made => item[i].event = "none"
                   /\ item[i].event = "set" => item[i].done

Separate == OnePlace /\ Flags /\ DoneOnce /\ Events
KeptInv == TypeOK /\ Control /\ Careful(queue) /\ Separate

LEMMA AppendOnce ==
  ASSUME NEW S, NEW s \in Seq(S), NEW x \in S, IsInjective(s), x \notin ToSet(s)
  PROVE  IsInjective(Append(s, x)) /\ ToSet(Append(s, x)) = ToSet(s) \cup {x}
<1>. DEFINE j == Append(s, x)
<1>1. /\ Len(s) \in Nat /\ DOMAIN s = 1 .. Len(s) /\ DOMAIN j = 1 .. Len(s) + 1
      /\ \A k \in 1 .. Len(s) : j[k] = s[k]
      /\ j[Len(s) + 1] = x
  OBVIOUS
<1>. HIDE DEF j
<1>2. /\ DOMAIN j = DOMAIN s \cup {Len(s) + 1} /\ Len(s) + 1 \notin DOMAIN s
      /\ \A k \in DOMAIN s : j[k] = s[k]
  BY <1>1
<1>3. IsInjective(j) /\ ToSet(j) = ToSet(s) \cup {x}
  BY <1>1, <1>2 DEF IsInjective, ToSet
<1>. QED  BY <1>3 DEF j

LEMMA TailOnce ==
  ASSUME NEW S, NEW s \in Seq(S), IsInjective(s), s # <<>>
  PROVE  /\ IsInjective(Tail(s)) /\ ToSet(Tail(s)) \subseteq ToSet(s)
         /\ Head(s) \in ToSet(s) /\ Head(s) \notin ToSet(Tail(s))
<1>1. Len(s) \in Nat /\ Len(s) >= 1 /\ DOMAIN s = 1 .. Len(s) /\ Head(s) = s[1]
  OBVIOUS
<1>2. DOMAIN Tail(s) = 1 .. Len(s) - 1 /\ \A k \in 1 .. Len(s) - 1 : Tail(s)[k] = s[k + 1]
  OBVIOUS
<1>. QED  BY <1>1, <1>2 DEF IsInjective, ToSet

LEMMA JoinOnce ==
  ASSUME NEW S, NEW s \in Seq(S), NEW r \in Seq(S), IsInjective(s), IsInjective(r),
         ToSet(s) \cap ToSet(r) = {}
  PROVE  IsInjective(s \o r) /\ ToSet(s \o r) = ToSet(s) \cup ToSet(r)
<1>. DEFINE j == s \o r
<1>1. /\ Len(s) \in Nat /\ Len(r) \in Nat /\ DOMAIN j = 1 .. Len(s) + Len(r)
      /\ DOMAIN s = 1 .. Len(s) /\ DOMAIN r = 1 .. Len(r)
      /\ \A k \in 1 .. Len(s) : j[k] = s[k]
      /\ \A k \in 1 .. Len(r) : j[Len(s) + k] = r[k]
  OBVIOUS
<1>. HIDE DEF j
<1>2. \A k \in DOMAIN j : \/ k \in DOMAIN s /\ j[k] = s[k]
                          \/ k - Len(s) \in DOMAIN r /\ j[k] = r[k - Len(s)]
  <2>1. SUFFICES ASSUME NEW k \in DOMAIN j, k \notin DOMAIN s
                 PROVE  k - Len(s) \in DOMAIN r /\ j[k] = r[k - Len(s)]
    BY <1>1
  <2>2. k - Len(s) \in 1 .. Len(r) /\ Len(s) + (k - Len(s)) = k
    BY <1>1, <2>1
  <2>. QED  BY <1>1, <2>2
<1>3. ToSet(j) \subseteq ToSet(s) \cup ToSet(r)
  BY <1>2 DEF ToSet
<1>4. ToSet(s) \cup ToSet(r) \subseteq ToSet(j)
  <2>1. \A k \in DOMAIN r : Len(s) + k \in DOMAIN j
    BY <1>1
  <2>. QED  BY <1>1, <2>1 DEF ToSet
<1>5. ASSUME NEW a \in DOMAIN j, NEW b \in DOMAIN j, j[a] = j[b] PROVE a = b
  <2>1. CASE a \in DOMAIN s /\ j[a] = s[a] /\ b \in DOMAIN s /\ j[b] = s[b]
    BY <1>5, <2>1 DEF IsInjective
  <2>2. CASE /\ a - Len(s) \in DOMAIN r /\ j[a] = r[a - Len(s)]
             /\ b - Len(s) \in DOMAIN r /\ j[b] = r[b - Len(s)]
    <3>1. a - Len(s) = b - Len(s)
      BY <1>5, <2>2 DEF IsInjective
    <3>2. a \in Nat /\ b \in Nat
      BY <1>1
    <3>. QED  BY <1>1, <3>1, <3>2
  <2>3. CASE \/ /\ a \in DOMAIN s /\ j[a] = s[a]
                /\ b - Len(s) \in DOMAIN r /\ j[b] = r[b - Len(s)]
             \/ /\ b \in DOMAIN s /\ j[b] = s[b]
                /\ a - Len(s) \in DOMAIN r /\ j[a] = r[a - Len(s)]
    BY <1>5, <2>3 DEF ToSet
  <2>. QED  BY <1>2, <2>1, <2>2, <2>3
<1>. QED  BY <1>3, <1>4, <1>5 DEF IsInjective, j

\* A thread moves on with its item, or puts it down; the main thread takes one up to wait
\* for it.
LEMMA MoveKeeps ==
  ASSUME KeptInv, UNCHANGED <<queue, list, batch, free, made, item, owned>>,
         NEW t \in Threads,
         \A u \in Threads \ {t} : /\ pc'[u] = pc[u] /\ cur'[u] = cur[u]
                                  /\ caller'[u] = caller[u],
         pc'[t] \notin {"alloc", "alloc_auto"},
         \/ pc'[t] \notin InHand
         \/ /\ t \in Held /\ cur'[t] = cur[t]
            /\ pc'[t] \in {"run", "finish", "flags", "signal", "wait", "push"}
            /\ pc[t] \in {"run", "finish"} <=> pc'[t] \in {"run", "finish"}
            /\ pc'[t] \in Releasing => caller'[t] = "auto" /\ item[cur[t]].auto
         \/ /\ t = Main /\ pc'[t] \in Releasing /\ caller'[t] # "auto"
            /\ cur'[t] \in made /\ cur'[t] \notin free /\ ~item[cur'[t]].auto
            /\ caller'[t] = "wait" <=> cur'[t] \in owned
            /\ pc'[t] = "push" => caller'[t] = "release" /\ item[cur'[t]].done
  PROVE  Separate'
<1>1. Held' \subseteq Held /\ \A u \in Held' : cur'[u] = cur[u]
  BY DEF Held, InHand, Releasing
<1>2. \A u \in Held' : u = t =>
        /\ t \in Held /\ (pc[t] \in {"run", "finish"} <=> pc'[t] \in {"run", "finish"})
        /\ \/ pc'[t] \in {"run", "finish", "flags", "signal"}
           \/ caller'[t] = "auto" /\ item[cur[t]].auto
  BY DEF Held, InHand, Releasing
<1>3. /\ Asked' /\ t # Main => /\ Asked /\ pc'[Main] = pc[Main] /\ cur'[Main] = cur[Main]
                               /\ caller'[Main] = caller[Main]
      /\ pc'[Main] \in {"alloc", "alloc_auto"} => pc[Main] = pc'[Main]
  BY DEF Asked, Threads
<1>4. Asked' /\ t = Main =>
        /\ cur'[Main] \in made /\ cur'[Main] \notin free /\ ~item[cur'[Main]].auto
        /\ caller'[Main] = "wait" <=> cur'[Main] \in owned
        /\ pc'[Main] = "push" => caller'[Main] = "release" /\ item[cur'[Main]].done
  BY DEF Asked, InHand, Releasing
<1>5. OnePlace'
  <2>1. \A u \in Held' : cur'[u] \in free => pc'[u] \in {"flags", "signal"} /\ ~item[cur[u]].auto
    BY <1>1, <1>2 DEF KeptInv, Separate, OnePlace, Held
  <2>2. Asked' => /\ cur'[Main] \in made /\ cur'[Main] \notin free
                  /\ caller'[Main] = "wait" <=> cur'[Main] \in owned
    BY <1>3, <1>4 DEF KeptInv, Separate, OnePlace
  <2>. QED  BY <1>1, <2>1, <2>2 DEF KeptInv, Separate, OnePlace
<1>6. Flags'
  <2>1. \A u \in Held' : pc'[u] \in Releasing => item[cur[u]].auto /\ pc'[u] \in {"wait", "push"}
    BY <1>1, <1>2 DEF KeptInv, Separate, Flags, InHand, Releasing, Held
  <2>2. Asked' => ~item[cur'[Main]].auto
    BY <1>3, <1>4 DEF KeptInv, Separate, Flags
  <2>. QED  BY <1>1, <1>3, <2>1, <2>2 DEF KeptInv, Separate, Flags
<1>7. DoneOnce'
  <2>1. \A u \in Held' : pc'[u] \in {"run", "finish"} <=> pc[u] \in {"run", "finish"}
    BY <1>1 DEF Held, InHand, Releasing
  <2>2. Asked' /\ pc'[Main] = "push" => caller'[Main] = "release" /\ item[cur'[Main]].done
    BY <1>3, <1>4 DEF KeptInv, Separate, DoneOnce
  <2>. QED  BY <1>1, <2>1, <2>2 DEF KeptInv, Separate, DoneOnce
<1>8. Events'
  BY DEF KeptInv, Separate, Events
<1>. QED  BY <1>5, <1>6, <1>7, <1>8 DEF Separate

\* The next item of the list is taken.
LEMMA PullKeeps ==
  ASSUME KeptInv, NEW t \in Threads, Pull(t)
  PROVE  Separate'
<1>1. CASE list = <<>>
  <2>1. /\ UNCHANGED <<queue, list, batch, free, made, item, owned, cur, caller>>
        /\ \A u \in Threads : pc'[u] = IF u = t THEN "after" ELSE pc[u]
    BY <1>1 DEF Pull, Goto, callVars, KeptInv, TypeOK
  <2>. QED  BY <2>1, MoveKeeps DEF InHand
<1>2. CASE list # <<>>
  <2>1. /\ UNCHANGED <<queue, batch, free, made, item, owned, caller>>
        /\ pc[t] = "pull" /\ list' = Tail(list)
        /\ \A u \in Threads : /\ pc'[u] = IF u = t THEN "run" ELSE pc[u]
                              /\ cur'[u] = IF u = t THEN Head(list) ELSE cur[u]
    BY <1>2 DEF Pull, callVars, KeptInv, TypeOK
  <2>2. /\ IsInjective(list') /\ ToSet(list') \subseteq ToSet(list)
        /\ Head(list) \in ToSet(list) /\ Head(list) \notin ToSet(list')
    BY <1>2, <2>1, TailOnce DEF KeptInv, TypeOK, Separate, OnePlace
  <2>3. Held' = Held \cup {t} /\ t \notin Held /\ Held \subseteq Threads
    BY <2>1 DEF Held, Releasing
  <2>. DEFINE h == Head(list)
  <2>9. /\ h \in made /\ h \notin free /\ h \notin ToSet(list') \cup ToSet(batch)
        /\ ~item[h].done /\ \A u \in Held : cur[u] # h
    BY <2>1, <2>2 DEF KeptInv, Separate, OnePlace, DoneOnce
  <2>10. cur'[t] = h /\ pc'[t] = "run" /\ \A u \in Held : pc'[u] = pc[u] /\ cur'[u] = cur[u]
    BY <2>1, <2>3
  <2>. HIDE DEF h
  <2>4. /\ Asked' <=> Asked
        /\ Asked => cur'[Main] = cur[Main] /\ pc'[Main] = pc[Main]
        /\ pc'[Main] \in {"alloc", "alloc_auto"} => pc[Main] = pc'[Main]
    BY <2>1 DEF Asked, Releasing, Threads
  <2>5. OnePlace'
    <3>1. \A u \in Held' : /\ cur'[u] \in made /\ cur'[u] \notin ToSet(list') \cup ToSet(batch)
                           /\ cur'[u] \in free => pc'[u] \in {"flags", "signal"} /\ ~item[cur'[u]].auto
      BY <2>1, <2>2, <2>3, <2>9, <2>10 DEF KeptInv, Separate, OnePlace
    <3>2. \A u, v \in Held' : cur'[u] = cur'[v] => u = v
      BY <2>3, <2>9, <2>10 DEF KeptInv, Separate, OnePlace
    <3>. QED  BY <2>1, <2>2, <2>4, <3>1, <3>2 DEF KeptInv, Separate, OnePlace
  <2>6. Flags'
    BY <2>1, <2>3, <2>4, <2>9, <2>10 DEF KeptInv, Separate, Flags, Releasing
  <2>7. DoneOnce'
    BY <2>1, <2>2, <2>3, <2>4, <2>9, <2>10 DEF KeptInv, Separate, DoneOnce
  <2>8. Events'
    BY <2>1 DEF KeptInv, Separate, Events
  <2>. QED  BY <2>5, <2>6, <2>7, <2>8 DEF Separate
<1>. QED  BY <1>1, <1>2

\* A thread changes what an item says while it holds it, and goes on or puts it down.
LEMMA MarkKeeps ==
  ASSUME KeptInv, NEW t \in Threads, Finish(t) \/ Signal(t) \/ PrepareEvent(t)
  PROVE  Separate'
<1>1. /\ UNCHANGED <<queue, list, batch, free, made, owned, caller>>
      /\ pc[t] \in {"finish", "signal", "event"}
      /\ \A u \in Threads \ {t} : pc'[u] = pc[u] /\ cur'[u] = cur[u]
      /\ pc'[t] \in {"flags", "pull", "check"}
  BY DEF Finish, Signal, PrepareEvent, Goto, Drop, callVars, KeptInv, TypeOK
<1>2. cur[t] \in Items /\ cur[t] \in made
  BY <1>1 DEF KeptInv, Control, InHand, Separate, OnePlace, Held, Asked, Releasing, Threads
<1>3. /\ pc[t] = "finish" => item' = [item EXCEPT ![cur[t]].done = TRUE]
      /\ pc[t] = "signal" => \/ item' = item
                             \/ ~item[cur[t]].auto /\ item' = [item EXCEPT ![cur[t]].event = "set"]
      /\ pc[t] = "event" => item' = [item EXCEPT ![cur[t]].event = "reset"]
  BY <1>1, <1>2 DEF Finish, Signal, PrepareEvent, KeptInv, Separate, Events
<1>4. /\ \A i \in Items : item'[i].auto = item[i].auto
      /\ \A i \in Items : i # cur[t] => item'[i] = item[i]
  BY <1>1, <1>2, <1>3 DEF KeptInv, TypeOK, ItemRec
<1>5. /\ pc[t] = "finish" => item'[cur[t]].done /\ item'[cur[t]].event = item[cur[t]].event
      /\ pc[t] # "finish" => item'[cur[t]].done = item[cur[t]].done
      /\ item'[cur[t]].event = "set" => item[cur[t]].event = "set" \/ pc[t] = "signal"
      /\ item'[cur[t]].event # item[cur[t]].event => pc[t] = "event" \/ ~item[cur[t]].auto
  BY <1>1, <1>2, <1>3 DEF KeptInv, TypeOK, ItemRec
<1>6. /\ pc[t] = "finish" => pc'[t] = "flags" /\ cur' = cur
      /\ pc[t] = "signal" => pc'[t] = "pull"
      /\ pc[t] = "event" => pc'[t] = "check" /\ cur' = cur /\ t \notin Held /\ t = Main /\ Asked
  BY <1>1 DEF Finish, Signal, PrepareEvent, Goto, Drop, KeptInv, TypeOK, Separate, Flags, Held,
     Asked, Releasing, Control, Threads
<1>7. /\ Held' \subseteq Held /\ \A u \in Held' : cur'[u] = cur[u]
      /\ \A u \in Held' : u # t => pc'[u] = pc[u]
  BY <1>1, <1>6 DEF Held, Releasing
<1>8. /\ Asked' <=> Asked
      /\ Asked => cur'[Main] = cur[Main] /\ (pc'[Main] = "push" => pc[Main] = "push")
      /\ pc'[Main] \in {"alloc", "alloc_auto"} => pc[Main] = pc'[Main]
  BY <1>1, <1>6 DEF Asked, Releasing, Threads
<1>9. made \subseteq Items /\ owned \subseteq Items /\ free \subseteq Items
       /\ ToSet(list) \cup ToSet(batch) \subseteq Items
  BY DEF KeptInv, TypeOK, Separate, OnePlace
<1>10. OnePlace'
  <2>1. \A u \in Held' : cur'[u] \in free => pc'[u] \in {"flags", "signal"} /\ ~item'[cur'[u]].auto
    <3>1. \A u \in Held' : cur[u] \in made /\ item'[cur[u]].auto = item[cur[u]].auto
      BY <1>4, <1>7, <1>9 DEF KeptInv, Separate, OnePlace
    <3>2. ASSUME NEW u \in Held', cur[u] \in free PROVE pc'[u] \in {"flags", "signal"}
      <4>1. pc[u] \in {"flags", "signal"} /\ u \in Held
        BY <1>7, <3>2 DEF KeptInv, Separate, OnePlace
      <4>. QED  BY <1>1, <1>6, <1>7, <4>1 DEF Held, Releasing
    <3>. QED  BY <1>7, <3>1, <3>2 DEF KeptInv, Separate, OnePlace
  <2>. QED  BY <1>1, <1>7, <1>8, <2>1 DEF KeptInv, Separate, OnePlace
<1>11. Flags'
  <2>1. \A u \in Held' : pc'[u] \in Releasing => item'[cur'[u]].auto /\ pc'[u] \in {"wait", "push"}
    BY <1>1, <1>4, <1>6, <1>7, <1>9 DEF KeptInv, Separate, Flags, OnePlace, Releasing
  <2>2. Asked' => ~item'[cur'[Main]].auto
    BY <1>4, <1>8, <1>9 DEF KeptInv, Separate, Flags, OnePlace
  <2>3. queue'.auto \subseteq {TRUE} => pc'[Main] # "alloc" /\ \A i \in made : item'[i].auto
    BY <1>1, <1>4, <1>8, <1>9 DEF KeptInv, Separate, Flags
  <2>. QED  BY <1>1, <1>4, <1>8, <1>9, <2>1, <2>2, <2>3 DEF KeptInv, Separate, Flags
<1>12. DoneOnce'
  <2>1. \A i \in ToSet(list) \cup ToSet(batch) : ~item'[i].done
    <3>1. pc[t] = "finish" => cur[t] \notin ToSet(list) \cup ToSet(batch)
      BY DEF KeptInv, Separate, OnePlace, Held
    <3>. QED  BY <1>1, <1>4, <1>5, <1>9, <3>1 DEF KeptInv, Separate, DoneOnce
  <2>2. \A u \in Held' : item'[cur'[u]].done <=> pc'[u] \notin {"run", "finish"}
    <3>1. ASSUME NEW u \in Held', u # t, cur[u] = cur[t] PROVE pc[t] # "finish"
      BY <1>7, <3>1 DEF KeptInv, Separate, OnePlace, Held
    <3>2. \A u \in Held' : u = t => pc[t] = "finish"
      BY <1>1, <1>6 DEF Held, Releasing
    <3>. QED  BY <1>1, <1>4, <1>5, <1>6, <1>7, <1>9, <3>1, <3>2
              DEF KeptInv, Separate, DoneOnce, OnePlace
  <2>3. Asked' /\ pc'[Main] = "push" => caller'[Main] = "release" /\ item'[cur'[Main]].done
    BY <1>1, <1>4, <1>5, <1>8, <1>9 DEF KeptInv, Separate, DoneOnce, OnePlace
  <2>. QED  BY <1>1, <2>1, <2>2, <2>3 DEF DoneOnce
<1>13. Events'
  <2>1. pc[t] = "event" => ~item[cur[t]].auto
    BY <1>6 DEF KeptInv, Separate, Flags
  <2>2. item'[cur[t]].event = "set" => item'[cur[t]].done
    <3>1. pc[t] = "signal" => item[cur[t]].done
      BY DEF KeptInv, Separate, DoneOnce, Held
    <3>. QED  BY <1>2, <1>5, <3>1 DEF KeptInv, Separate, Events
  <2>. QED  BY <1>1, <1>2, <1>4, <1>5, <2>1, <2>2 DEF KeptInv, Separate, Events
<1>. QED  BY <1>10, <1>11, <1>12, <1>13 DEF Separate

\* The main thread takes an item back, or a thread for it: nobody else holds it who would
\* look at more than its flags.
LEMMA PushKeeps ==
  ASSUME KeptInv, NEW t \in Threads, PushFree(t)
  PROVE  Separate'
<1>1. /\ UNCHANGED <<queue, list, batch, made, item, owned, caller>> /\ pc[t] = "push"
      /\ free' = free \cup {cur[t]}
      /\ \A u \in Threads \ {t} : pc'[u] = pc[u] /\ cur'[u] = cur[u]
      /\ pc'[t] \in {"pull", "idle"}
  BY DEF PushFree, Drop, callVars, KeptInv, TypeOK
<1>2. /\ Held' = Held \ {t} /\ \A u \in Held' : cur'[u] = cur[u] /\ pc'[u] = pc[u]
      /\ t \in Held <=> caller[t] = "auto"
      /\ t \notin Held => t = Main /\ Asked
  BY <1>1 DEF Held, Asked, Releasing, Threads, KeptInv, Control
<1>3. /\ Asked' => Asked /\ t \in Held
      /\ Asked' => cur'[Main] = cur[Main] /\ pc'[Main] = pc[Main]
      /\ pc'[Main] \in {"alloc", "alloc_auto"} => pc[Main] = pc'[Main] /\ t \in Held
  BY <1>1, <1>2 DEF Asked, Releasing, Threads
<1>4. /\ cur[t] \in made /\ cur[t] \notin ToSet(list) \cup ToSet(batch)
      /\ cur[t] \notin owned
  <2>1. CASE t \in Held
    BY <1>1, <2>1 DEF KeptInv, Separate, OnePlace, Flags, Releasing
  <2>2. CASE t \notin Held
    <3>1. item[cur[t]].done /\ cur[t] \in made
      BY <1>1, <1>2, <2>2 DEF KeptInv, Separate, OnePlace, DoneOnce
    <3>2. cur[t] \notin owned
      BY <1>1, <1>2, <2>2 DEF KeptInv, Separate, OnePlace, DoneOnce
    <3>. QED  BY <3>1, <3>2 DEF KeptInv, Separate, DoneOnce
  <2>. QED  BY <2>1, <2>2
<1>5. OnePlace'
  <2>1. \A u \in Held' : cur[u] = cur[t] => pc[u] \in {"flags", "signal"} /\ ~item[cur[u]].auto
    <3>1. SUFFICES ASSUME NEW u \in Held', cur[u] = cur[t]
                   PROVE  pc[u] \in {"flags", "signal"} /\ ~item[cur[u]].auto
      OBVIOUS
    <3>2. u \in Held /\ u # t
      BY <1>2
    <3>3. t \notin Held
      BY <3>1, <3>2 DEF KeptInv, Separate, OnePlace
    <3>4. ~item[cur[t]].auto /\ item[cur[t]].done
      BY <1>1, <1>2, <3>3 DEF KeptInv, Separate, Flags, DoneOnce
    <3>. QED  BY <3>1, <3>2, <3>4 DEF KeptInv, Separate, Flags, DoneOnce, Held
  <2>2. Asked' => cur[Main] # cur[t]
    BY <1>1, <1>3 DEF KeptInv, Separate, Flags, Releasing
  <2>. QED  BY <1>1, <1>2, <1>3, <1>4, <2>1, <2>2 DEF KeptInv, Separate, OnePlace
<1>6. Flags'
  <2>1. t \in Held => item[cur[t]].auto
    BY <1>1 DEF KeptInv, Separate, Flags, Releasing
  <2>. QED  BY <1>1, <1>2, <1>3, <2>1 DEF KeptInv, Separate, Flags
<1>7. DoneOnce'
  BY <1>1, <1>2, <1>3 DEF KeptInv, Separate, DoneOnce
<1>8. Events'
  BY <1>1 DEF KeptInv, Separate, Events
<1>. QED  BY <1>5, <1>6, <1>7, <1>8 DEF Separate

LEMMA SharedKeeps ==
  ASSUME KeptInv, NEW t \in Threads, SharedStep(t)
  PROVE  Separate'
<1>0. /\ caller[t] \in {"auto", "wait", "release"} /\ (caller[t] # "auto" => t = Main)
      /\ pc[t] \in Releasing => \/ /\ t \in Held /\ caller[t] = "auto" /\ item[cur[t]].auto
                                   /\ pc[t] \in {"wait", "push"}
                                \/ t = Main /\ Asked
      /\ t \in Held => (item[cur[t]].done <=> pc[t] \notin {"run", "finish"})
  BY DEF KeptInv, TypeOK, Control, Threads, Separate, Flags, DoneOnce, Held, Asked
<1>1. Asked => /\ cur[Main] \in made /\ cur[Main] \notin free /\ ~item[cur[Main]].auto
               /\ caller[Main] = "wait" <=> cur[Main] \in owned
  BY DEF KeptInv, Separate, OnePlace, Flags
<1>2. CASE Pull(t)
  BY <1>2, PullKeeps
<1>3. CASE Finish(t) \/ Signal(t) \/ PrepareEvent(t)
  BY <1>3, MarkKeeps
<1>4. CASE PushFree(t)
  BY <1>4, PushKeeps
<1>5. CASE Run(t)
  <2>1. /\ UNCHANGED <<queue, list, batch, free, made, item, owned, cur, caller>>
        /\ pc[t] = "run" /\ t \in Held /\ \A u \in Threads : pc'[u] = IF u = t THEN "finish" ELSE pc[u]
    BY <1>5 DEF Run, Goto, callVars, KeptInv, TypeOK, Held
  <2>. QED  BY <2>1, MoveKeeps DEF Releasing
<1>6. CASE CheckFlags(t)
  <2>1. /\ UNCHANGED <<queue, list, batch, free, made, item, owned, cur>>
        /\ pc[t] = "flags" /\ t \in Held
        /\ \A u \in Threads \ {t} : pc'[u] = pc[u] /\ caller'[u] = caller[u]
        /\ pc'[t] = IF item[cur[t]].auto THEN "wait" ELSE "signal"
        /\ item[cur[t]].auto => caller'[t] = "auto"
    BY <1>6 DEF CheckFlags, queueVars, callVars, KeptInv, TypeOK, Held
  <2>. QED  BY <2>1, MoveKeeps DEF Releasing
<1>7. CASE CheckWaiting(t) \/ TellWaiting(t)
  <2>1. PICK place \in {"tell", "more", "idle", "helped"} :
          /\ pc' = [pc EXCEPT ![t] = place]
          /\ UNCHANGED <<queue, list, batch, free, made, item, owned, cur, caller>>
    BY <1>7 DEF CheckWaiting, TellWaiting, Processed, Goto, queueVars, callVars
  <2>. QED  BY <2>1, MoveKeeps DEF InHand, KeptInv, TypeOK
<1>8. CASE CheckDone(t) \/ CheckDoneAgain(t) \/ BlockOnItem(t)
  <2>1. /\ UNCHANGED <<queue, list, batch, free, made, item, owned, caller>>
        /\ \A u \in Threads \ {t} : pc'[u] = pc[u] /\ cur'[u] = cur[u]
        /\ pc[t] \in {"wait", "check", "block"}
        /\ pc'[t] \in {"event", "block", "push", "idle"}
        /\ pc'[t] # "idle" => cur'[t] = cur[t]
    BY <1>8 DEF CheckDone, CheckDoneAgain, BlockOnItem, WaitReturns, Drop, Goto, queueVars,
       KeptInv, TypeOK
  <2>2. pc'[t] = "push" => caller[t] # "wait"
    BY <1>8 DEF CheckDone, CheckDoneAgain, BlockOnItem, WaitReturns, Drop, Goto, KeptInv, TypeOK
  <2>3. t \in Held => pc'[t] = "push"
    BY <1>0, <1>8, <2>1 DEF CheckDone, CheckDoneAgain, BlockOnItem, WaitReturns, Goto, KeptInv,
       TypeOK, Releasing, Held
  <2>4. pc'[t] \in {"push", "idle"} => item[cur[t]].done
    <3>1. pc[t] = "block" => Careful(queue) /\ ~(queue.early \/ queue.reuse)
      BY <1>0 DEF KeptInv, Careful, Separate, Flags, OnePlace, Asked, Releasing
    <3>2. item[cur[t]].event = "set" => item[cur[t]].done
      BY <2>1 DEF KeptInv, Control, InHand, Separate, Events
    <3>. QED  BY <1>8, <3>1, <3>2 DEF CheckDone, CheckDoneAgain, BlockOnItem, Goto, KeptInv, TypeOK
  <2>5. CASE pc'[t] = "idle"
    BY <2>1, <2>5, MoveKeeps DEF InHand
  <2>6. CASE t \in Held
    <3>1. pc'[t] = "push" /\ cur'[t] = cur[t] /\ pc[t] \notin {"run", "finish"}
          /\ caller[t] = "auto" /\ item[cur[t]].auto
      BY <1>0, <2>1, <2>3, <2>6 DEF Releasing, Held, Asked
    <3>. QED  BY <2>1, <2>6, <3>1, MoveKeeps
  <2>7. CASE pc'[t] # "idle" /\ t \notin Held
    <3>1. t = Main /\ Asked /\ cur'[t] = cur[t]
      BY <1>0, <2>1, <2>7 DEF Releasing
    <3>2. caller'[t] # "auto" /\ (caller'[t] = "wait" <=> cur'[t] \in owned)
          /\ (pc'[t] = "push" => caller'[t] = "release" /\ item[cur'[t]].done)
      BY <1>0, <1>1, <2>1, <2>2, <2>4, <3>1 DEF Asked
    <3>. QED  BY <1>1, <2>1, <2>7, <3>1, <3>2, MoveKeeps DEF Releasing
  <2>. QED  BY <2>5, <2>6, <2>7
<1>. QED
  BY <1>2, <1>3, <1>4, <1>5, <1>6, <1>7, <1>8 DEF SharedStep

\* The next item is filled in: one that nobody holds.
LEMMA AllocKeeps ==
  ASSUME WorkQueueAssumption, KeptInv, AllocItem
  PROVE  Separate'
<1>1. PICK i \in Available :
        /\ free' = free \ {i} /\ made' = made \cup {i} /\ batch' = Append(batch, i)
        /\ item' = [item EXCEPT ![i] = [auto |-> pc[Main] = "alloc_auto",
                                        done |-> FALSE, event |-> @.event]]
        /\ owned' = IF pc[Main] = "alloc" THEN owned \cup {i} ELSE owned
  BY DEF AllocItem
<1>2. UNCHANGED <<queue, list, pc, cur, caller>> /\ pc[Main] \in {"alloc", "alloc_auto"}
  BY DEF AllocItem
<1>3. i \in Items /\ (i \in free \/ i \notin made)
  BY <1>1 DEF Available, KeptInv, TypeOK
<1>4. i \in free => item[i].auto
  BY <1>2 DEF KeptInv, Separate, Flags
<1>5. /\ i \notin ToSet(list) \cup ToSet(batch) \cup owned /\ item[i].event = "none"
      /\ \A t \in Held : cur[t] # i
  BY <1>3, <1>4 DEF KeptInv, Separate, OnePlace, Events
<1>6. IsInjective(batch') /\ ToSet(batch') = ToSet(batch) \cup {i}
  BY <1>1, <1>3, <1>5, AppendOnce DEF KeptInv, Separate, OnePlace, TypeOK
<1>7. Held' = Held /\ ~Asked' /\ ~Asked
  BY <1>2 DEF Held, Asked, Releasing
<1>8. /\ item'[i].auto = (pc[Main] = "alloc_auto") /\ ~item'[i].done /\ item'[i].event = "none"
      /\ \A k \in Items : k # i => item'[k] = item[k]
  BY <1>1, <1>3, <1>5 DEF KeptInv, TypeOK
<1>9. made \subseteq Items /\ owned \subseteq Items /\ free \subseteq Items
      /\ ToSet(list) \cup ToSet(batch) \subseteq Items /\ \A t \in Held : cur[t] \in Items
  BY DEF KeptInv, TypeOK, Separate, OnePlace
<1>10. OnePlace'
  BY <1>1, <1>2, <1>3, <1>5, <1>6, <1>7, <1>8, <1>9 DEF KeptInv, Separate, OnePlace
<1>11. Flags'
  <2>1. \A k \in owned' : ~item'[k].auto
    BY <1>1, <1>2, <1>5, <1>8, <1>9 DEF KeptInv, Separate, Flags
  <2>2. \A t \in Held : pc[t] \in Releasing => item'[cur[t]].auto /\ pc[t] \in {"wait", "push"}
    BY <1>5, <1>8, <1>9 DEF KeptInv, Separate, Flags
  <2>3. queue.auto \subseteq {TRUE} => pc[Main] # "alloc" /\ \A k \in made' : item'[k].auto
    BY <1>1, <1>2, <1>8, <1>9 DEF KeptInv, Separate, Flags
  <2>4. \A k \in free' : item'[k].auto
    BY <1>1, <1>2, <1>8, <1>9 DEF KeptInv, Separate, Flags
  <2>. QED  BY <1>2, <1>7, <2>1, <2>2, <2>3, <2>4 DEF Flags
<1>12. DoneOnce'
  BY <1>1, <1>2, <1>3, <1>5, <1>6, <1>7, <1>8, <1>9 DEF KeptInv, Separate, DoneOnce
<1>13. Events'
  BY <1>1, <1>3, <1>8, <1>9 DEF KeptInv, Separate, Events
<1>. QED  BY <1>10, <1>11, <1>12, <1>13 DEF Separate

LEMMA SeparateNext ==
  ASSUME WorkQueueAssumption, KeptInv, [Next]_vars
  PROVE  Separate'
<1>0. Main \in Threads /\ WorkerSet \subseteq Threads /\ Main \notin WorkerSet
  BY FiniteThreads DEF Threads
<1>1. CASE \E n \in 1 .. MaxBatch, auto \in BOOLEAN : QueueItems(n, auto)
  <2>1. PICK n \in 1 .. MaxBatch, auto \in BOOLEAN : QueueItems(n, auto)
    BY <1>1
  <2>2. /\ \A u \in Threads : pc'[u] = IF u = Main THEN (IF auto THEN "alloc_auto" ELSE "alloc")
                                                   ELSE pc[u]
        /\ batch' = <<>> /\ auto \in queue.auto /\ (queue.reuse \/ free = {})
        /\ UNCHANGED <<queue, list, free, made, item, owned, caller, cur>> /\ pc[Main] = "idle"
    BY <2>1 DEF QueueItems, queueVars, KeptInv, TypeOK
  <2>3. Held' = Held /\ (\A u \in Held : pc'[u] = pc[u]) /\ ~Asked' /\ ~Asked
    BY <1>0, <2>2 DEF Held, Asked, Releasing
  <2>4. IsInjective(batch') /\ ToSet(batch') = {}
    BY <2>2 DEF IsInjective, ToSet
  <2>5. OnePlace'
    BY <2>2, <2>3, <2>4 DEF KeptInv, Separate, OnePlace
  <2>6. Flags'
    <3>1. \A i \in free : item[i].auto
      BY <2>2 DEF KeptInv, Careful, Separate, OnePlace, Flags
    <3>2. queue.auto \subseteq {TRUE} => auto
      BY <2>2
    <3>. QED  BY <1>0, <2>2, <2>3, <3>1, <3>2 DEF KeptInv, Separate, Flags
  <2>7. DoneOnce'
    BY <2>2, <2>3, <2>4 DEF KeptInv, Separate, DoneOnce
  <2>8. Events'
    BY <2>2 DEF KeptInv, Separate, Events
  <2>. QED  BY <2>5, <2>6, <2>7, <2>8 DEF Separate
<1>2. ASSUME NEW i \in Items, WaitForItem(i) PROVE Separate'
  <2>1. /\ UNCHANGED <<queue, list, batch, free, made, item, owned>>
        /\ \A u \in Threads \ {Main} : pc'[u] = pc[u] /\ cur'[u] = cur[u] /\ caller'[u] = caller[u]
        /\ pc'[Main] = "wait" /\ cur'[Main] = i /\ caller'[Main] = "wait" /\ i \in owned
    BY <1>0, <1>2 DEF WaitForItem, queueVars, KeptInv, TypeOK
  <2>2. i \in made /\ i \notin free /\ ~item[i].auto
    BY <2>1 DEF KeptInv, Separate, OnePlace, Flags
  <2>. QED  BY <1>0, <2>1, <2>2, MoveKeeps DEF Releasing
<1>3. ASSUME NEW i \in Items, ReleaseItem(i) PROVE Separate'
  <2>1. /\ UNCHANGED <<queue, list, batch, free, made, item>> /\ owned' = owned \ {i}
        /\ \A u \in Threads \ {Main} : pc'[u] = pc[u] /\ cur'[u] = cur[u] /\ caller'[u] = caller[u]
        /\ pc'[Main] = "wait" /\ cur'[Main] = i /\ caller'[Main] = "release" /\ i \in owned
        /\ pc[Main] = "idle"
    BY <1>0, <1>3 DEF ReleaseItem, queueVars, KeptInv, TypeOK
  <2>2. i \in made /\ i \notin free /\ ~item[i].auto
    BY <2>1 DEF KeptInv, Separate, OnePlace, Flags
  <2>3. Held' = Held /\ \A u \in Held : pc'[u] = pc[u] /\ cur'[u] = cur[u]
    BY <1>0, <2>1 DEF Held, Releasing
  <2>4. OnePlace'
    BY <2>1, <2>2, <2>3 DEF KeptInv, Separate, OnePlace
  <2>5. Flags'
    BY <2>1, <2>2, <2>3 DEF KeptInv, Separate, Flags
  <2>6. DoneOnce'
    BY <2>1, <2>3 DEF KeptInv, Separate, DoneOnce
  <2>7. Events'
    BY <2>1 DEF KeptInv, Separate, Events
  <2>. QED  BY <2>4, <2>5, <2>6, <2>7 DEF Separate
<1>4. CASE AllocItem
  BY <1>4, AllocKeeps
<1>5. CASE Enqueue
  <2>1. /\ list' = list \o batch /\ batch' = <<>> /\ pc[Main] \in {"alloc", "alloc_auto"}
        /\ \A u \in Threads : pc'[u] = IF u = Main THEN "add" ELSE pc[u]
        /\ UNCHANGED <<queue, free, made, item, owned, caller, cur>>
    BY <1>5 DEF Enqueue, Goto, KeptInv, TypeOK
  <2>2. IsInjective(list') /\ ToSet(list') = ToSet(list) \cup ToSet(batch)
    BY <2>1, JoinOnce DEF KeptInv, Separate, OnePlace, TypeOK
  <2>3. IsInjective(batch') /\ ToSet(batch') = {}
    BY <2>1 DEF IsInjective, ToSet
  <2>4. Held' = Held /\ (\A u \in Held : pc'[u] = pc[u]) /\ ~Asked' /\ ~Asked
    BY <1>0, <2>1 DEF Held, Asked, Releasing
  <2>5. OnePlace'
    BY <2>1, <2>2, <2>3, <2>4 DEF KeptInv, Separate, OnePlace
  <2>6. Flags'
    BY <1>0, <2>1, <2>4 DEF KeptInv, Separate, Flags
  <2>7. DoneOnce'
    BY <2>1, <2>2, <2>3, <2>4 DEF KeptInv, Separate, DoneOnce
  <2>8. Events'
    BY <2>1 DEF KeptInv, Separate, Events
  <2>. QED  BY <2>5, <2>6, <2>7, <2>8 DEF Separate
<1>6. CASE \/ AddItems \/ LookForThreads \/ LookAtThread \/ WakeThread \/ Helped \/ Spin \/ ResetDone
           \/ Announce \/ CheckItems \/ BlockOnQueue \/ Unannounce \/ Answer \/ FreeQueue
           \/ WaitForQueue \/ TellThreads
  <2>1. PICK place \in {"live", "pull", "wake", "set_event", "idle", "spin", "reset", "announce", "check_items",
                        "unannounce", "sleep", "answer", "freed", "tell_exit"} : Goto(Main, place)
    BY <1>6 DEF AddItems, LookForThreads, LookAtThread,
       WakeThread, NextThread, Helped, Spin, ResetDone, Announce,
       CheckItems, BlockOnQueue, Unannounce, Answer, FreeQueue, WaitForQueue, TellThreads
  <2>2. UNCHANGED <<queue, list, batch, free, made, item, owned>>
    BY <1>6 DEF AddItems, LookForThreads, LookAtThread,
       WakeThread, NextThread, Helped, Spin, ResetDone, Announce,
       CheckItems, BlockOnQueue, Unannounce, Answer, FreeQueue, WaitForQueue, TellThreads,
       queueVars, callVars, waitVars
  <2>. QED  BY <1>0, <2>1, <2>2, MoveKeeps DEF Goto, InHand, KeptInv, TypeOK
<1>7. CASE WakeToExit \/ UNCHANGED vars
  <2>1. UNCHANGED <<queue, list, batch, free, made, item, owned, caller, cur, pc>>
    BY <1>7 DEF WakeToExit, vars, queueVars, callVars
  <2>. QED  BY <2>1 DEF KeptInv, Separate, OnePlace, Flags, DoneOnce, Events, Held, Asked
<1>8. ASSUME NEW t \in Threads, SharedStep(t) PROVE Separate'
  BY <1>8, SharedKeeps
<1>9. ASSUME NEW w \in WorkerSet,
             \/ EnterLoop(w) \/ LookForItems(w) \/ Sleep(w) \/ Woken(w) \/ Activate(w)
             \/ GoLive(w) \/ LookForMore(w) \/ Deactivate(w) \/ Retire(w)
      PROVE  Separate'
  <2>1. PICK place \in (Live \cup Apart) \ InHand : Goto(w, place)
    BY <1>9 DEF EnterLoop, LookForItems, Sleep, Woken, Activate, GoLive, LookForMore,
       Deactivate, Retire, WorkerTop, Live, Apart, InHand
  <2>2. UNCHANGED <<queue, list, batch, free, made, item, owned>>
    BY <1>9 DEF EnterLoop, LookForItems, Sleep, Woken, Activate, GoLive, LookForMore,
       Deactivate, Retire, queueVars, callVars
  <2>. QED  BY <1>0, <2>1, <2>2, MoveKeeps DEF Goto, InHand, Live, Apart, KeptInv, TypeOK
<1>. QED
  BY <1>0, <1>1, <1>2, <1>3, <1>4, <1>5, <1>6, <1>7, <1>8, <1>9
     DEF Next, UserStep, MainStep, WorkerStep

LEMMA SeparateInit ==
  ASSUME WorkQueueAssumption, Init
  PROVE  Separate
<1>1. \A t \in Threads : pc[t] \in {"idle", "top", "gone"}
  BY DEF Init
<1>2. Held = {} /\ ~Asked /\ pc[Main] = "idle"
  <2>1. Main \in Threads /\ Main \notin Started
    BY InitInv, StartedAre, FiniteThreads DEF IInv, Threads
  <2>2. pc[Main] = "idle"
    BY <2>1 DEF Init, Started
  <2>. QED  BY <1>1, <2>2 DEF Held, Asked, Releasing
<1>3. ToSet(list) = {} /\ ToSet(batch) = {} /\ IsInjective(list) /\ IsInjective(batch)
  BY DEF Init, ToSet, IsInjective
<1>. QED
  BY <1>2, <1>3 DEF Init, Separate, OnePlace, Flags, DoneOnce, Events

LEMMA Separation ==
  ASSUME WorkQueueAssumption
  PROVE  Spec => [](Careful(queue) => Separate)
<1>1. IInv /\ (Careful(queue) => Separate) /\ [Next]_vars => (Careful(queue) => Separate)'
  <2>1. SUFFICES ASSUME IInv, Careful(queue) => Separate, [Next]_vars, Careful(queue')
                 PROVE  Separate'
    OBVIOUS
  <2>2. queue' = queue
    BY <2>1, QueueStays
  <2>. QED  BY <2>1, <2>2, SeparateNext, WorkQueueAssumption DEF KeptInv, IInv
<1>. QED
  BY <1>1, SeparateInit, Invariance, WorkQueueAssumption, PTL DEF Spec

\* An item in the free list is nobody's, for any number of threads, if all items are
\* released automatically, or if no wait ends early and nothing is queued once items have
\* been released (osd_work_item_release, osd_work_item_queue_multiple).
THEOREM FreeIsNobodys ==
  ASSUME WorkQueueAssumption, \A q \in Queues : Careful(q)
  PROVE  Spec => []FreeIsIdle
<1>1. IInv /\ (Careful(queue) => Separate) => FreeIsIdle
  <2>1. SUFFICES ASSUME IInv, Separate PROVE FreeIsIdle
    BY DEF IInv, TypeOK
  <2>2. \A t \in Threads : pc[t] \in {"run", "finish", "push"} => cur[t] \notin free
    BY <2>1 DEF Separate, OnePlace, Held, Asked, Releasing, Threads, IInv, Control
  <2>. QED  BY <2>1, <2>2 DEF Separate, OnePlace, FreeIsIdle
<1>. QED
  BY <1>1, Separation, Invariance, WorkQueueAssumption, PTL

\* Of such queues a thread releases for the user only what is done: the flags it reads
\* late are those of the same use (worker_thread_process).
THEOREM DoneBeforeRelease ==
  ASSUME WorkQueueAssumption, \A q \in Queues : Careful(q)
  PROVE  Spec => []AutoReleaseOfDone
<1>1. IInv /\ (Careful(queue) => Separate) => AutoReleaseOfDone
  BY DEF IInv, TypeOK, Separate, DoneOnce, AutoReleaseOfDone, Held, Releasing
<1>. QED
  BY <1>1, Separation, Invariance, WorkQueueAssumption, PTL

\* Who says that an item is not done: a wait that has blocked.
LEMMA SaysNotDone ==
  ASSUME WorkQueueAssumption, TypeOK, Control, [Next]_vars,
         answer' = "item_not_done", answer # "item_not_done"
  PROVE  BlockOnItem(Main) /\ ~item[cur[Main]].done
<1>1. CASE UserStep
  BY <1>1 DEF UserStep, QueueItems, WaitForItem, ReleaseItem, WaitForQueue, TellThreads
<1>2. ASSUME NEW t \in Threads, SharedStep(t)
      PROVE  BlockOnItem(t) /\ caller[t] = "wait" /\ ~item[cur[t]].done
  <2>1. CheckDone(t) \/ CheckDoneAgain(t) \/ BlockOnItem(t)
    BY <1>2 DEF SharedStep, Pull, Run, Finish, CheckFlags, Signal, CheckWaiting, TellWaiting,
       PrepareEvent, PushFree, callVars
  <2>2. WaitReturns(t)
    BY <2>1 DEF CheckDone, CheckDoneAgain, BlockOnItem
  <2>3. caller[t] = "wait" /\ ~item[cur[t]].done
    BY <2>2 DEF WaitReturns
  <2>. QED  BY <2>1, <2>3 DEF CheckDone, CheckDoneAgain, WaitReturns
<1>3. CASE MainStep
  <2>1. SharedStep(Main)
    BY <1>3 DEF MainStep, AllocItem, Enqueue, AddItems, LookForThreads, LookAtThread,
       WakeThread, Helped, Spin, ResetDone, Announce, CheckItems, BlockOnQueue, Unannounce, Answer,
       WakeToExit, FreeQueue, QueueAnswer, callVars
  <2>. QED  BY <1>2, <2>1 DEF Threads
<1>4. ASSUME NEW w \in WorkerSet, WorkerStep(w) PROVE FALSE
  <2>1. SharedStep(w) \/ answer' = answer
    BY <1>4 DEF WorkerStep, EnterLoop, LookForItems, Sleep, Woken, Activate, GoLive,
       LookForMore, Deactivate, Retire, callVars
  <2>. QED  BY <1>2, <2>1 DEF Threads, Control
<1>. QED
  BY <1>1, <1>3, <1>4 DEF Next, vars, callVars

\* Both waits tell the truth, for any number of threads and items: the queue is empty when
\* it is said to be, and an item that is said not to be done was waited for with a timeout
\* or may have been used again (osd_work_queue_wait, osd_work_item_wait).
THEOREM WaitsTellTheTruth ==
  ASSUME WorkQueueAssumption
  PROVE  Spec => AnswersTrue
<1>. DEFINE Excused == answer = "item_not_done" => queue.early \/ queue.reuse
            Inv == IInv /\ (Careful(queue) => Separate)
            SaidEmpty == answer' = "empty" /\ answer # "empty" =>
                           list = <<>> /\ \A t \in Threads : pc[t] # "run"
            NotDone == answer' = "item_not_done" => queue.early \/ queue.reuse
<1>1. Inv /\ Excused /\ [Next]_vars => NotDone
  <2>1. SUFFICES ASSUME Inv, Excused, [Next]_vars, answer' = "item_not_done",
                        answer # "item_not_done", ~(queue.early \/ queue.reuse)
                 PROVE  FALSE
    OBVIOUS
  <2>2. BlockOnItem(Main) /\ ~item[cur[Main]].done
    BY <2>1, SaysNotDone, WorkQueueAssumption DEF IInv
  <2>3. cur[Main] \in Items
    BY <2>1, <2>2 DEF BlockOnItem, IInv, Control, InHand, Threads
  <2>4. item[cur[Main]].event = "set"
    BY <2>1, <2>2 DEF BlockOnItem
  <2>. QED  BY <2>1, <2>2, <2>3, <2>4 DEF Careful, Separate, Events
<1>2. Inv /\ Excused /\ [Next]_vars => Excused'
  BY <1>1, QueueStays
<1>3. Init => Excused
  BY DEF Init
<1>4. Spec => []Inv
  BY Separation, Invariance, WorkQueueAssumption, PTL
<1>5. Spec => [][SaidEmpty]_vars
  BY EmptyIsEmpty, WorkQueueAssumption
<1>6. SaidEmpty /\ NotDone =>
        /\ answer' = "empty" /\ answer # "empty" => list = <<>> /\ \A t \in Threads : pc[t] # "run"
        /\ answer' = "item_not_done" => queue.early \/ queue.reuse
  OBVIOUS
<1>. HIDE DEF Excused, Inv, SaidEmpty, NotDone
<1>. QED
  BY <1>1, <1>2, <1>3, <1>4, <1>5, <1>6, PTL DEF Spec, AnswersTrue
=============================================================================
