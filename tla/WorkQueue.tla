----------------------------- MODULE WorkQueue -----------------------------
(***************************************************************************)
(* The work queue of the OS layer (osd/modules/sync/work_osd.cpp): a main  *)
(* thread queues items, waits for them and releases them; worker threads   *)
(* take them from the list, run their callbacks and release those that     *)
(* nobody will.                                                            *)
(*                                                                         *)
(* A step is what a thread does under the lock of the queue or with one    *)
(* access to a shared field.  What a callback does is left out; that it    *)
(* takes time is not.  Events are those of sync_tc.cpp: a wait ends when   *)
(* the event is set or, if waits end early, for no reason or by timeout.    *)
(***************************************************************************)
EXTENDS Integers, SequencesExt

CONSTANTS
  Workers,      \* the threads of a queue, in the order of queue->thread
  Main,         \* the thread that uses the queue
  Items,        \* the items
  NoItem,
  Queues,       \* the queues to look at, of QueueRec
  MaxBatch      \* bound: items queued at once

WorkerSet == ToSet(Workers)
Threads == WorkerSet \cup {Main}

\* queue->threads; WORK_QUEUE_FLAG_MULTI and _HIGH_FREQ; the values of
\* WORK_ITEM_FLAG_AUTO_RELEASE that its user passes; whether waits may end without
\* their event.  Bounds: the items allocated; whether it is used once items have been
\* released.
QueueRec == [threads : 0 .. Len(Workers), multi : BOOLEAN, high : BOOLEAN,
             auto : SUBSET BOOLEAN, early : BOOLEAN, items : Nat, reuse : BOOLEAN]

ASSUME WorkQueueAssumption ==
  /\ Workers \in Seq(WorkerSet) /\ IsInjective(Workers)
  /\ Main \notin WorkerSet /\ NoItem \notin Items
  /\ MaxBatch \in Nat \ {0} /\ Queues \subseteq QueueRec

VARIABLES
  queue,        \* the queue
  list,         \* queue->list, up to where tailptr points
  free,         \* queue->free
  made,         \* the items allocated so far
  item,         \* their flags, done and event
  items,        \* queue->items
  livethreads,  \* queue->livethreads
  active,       \* thread->active
  wakeevent,    \* whether thread->wakeevent is set
  waiting,      \* queue->waiting
  doneevent,    \* whether queue->doneevent is set
  exiting,      \* queue->exiting
  pc,           \* where each thread is
  cur,          \* the item each thread has in hand
  caller,       \* who called osd_work_item_wait in each thread
  batch,        \* itemlist in osd_work_item_queue_multiple
  numitems,     \* its numitems
  threadnum,    \* and its threadnum
  owned,        \* the items the main thread has to release
  answer        \* what the last wait of the main thread returned

queueVars == <<list, free, made, item, items>>
threadVars == <<livethreads, active, wakeevent, waiting, doneevent, exiting>>
callVars == <<batch, numitems, threadnum, owned, answer>>
vars == <<queue, queueVars, threadVars, pc, cur, caller, callVars>>

ItemRec == [auto : BOOLEAN, done : BOOLEAN, event : {"none", "reset", "set"}]

threads == queue.threads

\* Thread t moves on, with what it had in hand.
Goto(t, place) == pc' = [pc EXCEPT ![t] = place] /\ UNCHANGED <<cur, caller>>

\* Thread t moves on and puts its item down.
Drop(t, place) ==
  /\ pc' = [pc EXCEPT ![t] = place]
  /\ cur' = [cur EXCEPT ![t] = NoItem]
  /\ UNCHANGED caller

----------------------------------------------------------------------------
\* osd_work_item_queue_multiple.

QueueItems(n, auto) ==
  /\ pc[Main] = "idle"
  /\ n <= queue.items - Cardinality(made \ free)
  /\ auto \in queue.auto /\ (queue.reuse \/ free = {})
  /\ auto \/ n = 1       \* only the last item is returned, to be released
  /\ pc' = [pc EXCEPT ![Main] = IF auto THEN "alloc_auto" ELSE "alloc"]
  /\ numitems' = n /\ batch' = <<>>
  /\ answer' = "none"
  /\ UNCHANGED <<queue, queueVars, threadVars, cur, caller, threadnum, owned>>

\* The free list or, when it is empty, a new item.
Available == IF free # {} THEN free
             ELSE {i \in Items \ made : i = CHOOSE j \in Items : j \notin made}

\* Mutant of AllocItem: the item stays in the free list.
AllocItemTwice ==
  /\ pc[Main] \in {"alloc", "alloc_auto"} /\ Len(batch) < numitems
  /\ \E i \in Available :
       /\ made' = made \cup {i}
       /\ item' = [item EXCEPT ![i] = [auto |-> pc[Main] = "alloc_auto",
                                       done |-> FALSE, event |-> @.event]]
       /\ batch' = Append(batch, i)
       /\ owned' = IF pc[Main] = "alloc" THEN owned \cup {i} ELSE owned
  /\ UNCHANGED <<queue, list, free, items, threadVars, pc, cur, caller, numitems,
                 threadnum, answer>>

\* The next item is filled in.
AllocItem ==
  /\ pc[Main] \in {"alloc", "alloc_auto"} /\ Len(batch) < numitems
  /\ \E i \in Available :
       /\ free' = free \ {i}
       /\ made' = made \cup {i}
       /\ item' = [item EXCEPT ![i] = [auto |-> pc[Main] = "alloc_auto",
                                       done |-> FALSE, event |-> @.event]]
       /\ batch' = Append(batch, i)
       /\ owned' = IF pc[Main] = "alloc" THEN owned \cup {i} ELSE owned
  /\ UNCHANGED <<queue, list, items, threadVars, pc, cur, caller, numitems, threadnum,
                 answer>>

Enqueue ==
  /\ pc[Main] \in {"alloc", "alloc_auto"} /\ Len(batch) = numitems
  /\ list' = list \o batch
  /\ batch' = <<>>
  /\ Goto(Main, "add")
  /\ UNCHANGED <<queue, free, made, item, items, threadVars, numitems, threadnum, owned,
                 answer>>

AddItems ==
  /\ pc[Main] = "add"
  /\ items' = items + numitems
  /\ Goto(Main, "live")
  /\ UNCHANGED <<queue, list, free, made, item, threadVars, callVars>>

\* Without threads the main thread works off the list at once.
LookForThreads ==
  /\ pc[Main] = "live"
  /\ Goto(Main, CASE threads = 0 -> "pull"
                  [] livethreads < threads -> "wake"
                  [] OTHER -> "idle")
  /\ threadnum' = 1
  /\ UNCHANGED <<queue, queueVars, threadVars, batch, numitems, owned, answer>>

\* The loop over the threads is left when each item has woken one.
NextThread ==
  /\ threadnum' = threadnum + 1
  /\ Goto(Main, IF numitems' = 0 \/ threadnum' > threads THEN "idle" ELSE "wake")

\* Only threads that are not active are woken.
LookAtThread ==
  /\ pc[Main] = "wake"
  /\ UNCHANGED numitems
  /\ IF active[Workers[threadnum]] THEN NextThread
     ELSE Goto(Main, "set_event") /\ UNCHANGED threadnum
  /\ UNCHANGED <<queue, queueVars, threadVars, batch, owned, answer>>

\* By now it may be active.
WakeThread ==
  /\ pc[Main] = "set_event"
  /\ wakeevent' = [wakeevent EXCEPT ![Workers[threadnum]] = TRUE]
  /\ numitems' = numitems - 1
  /\ NextThread
  /\ UNCHANGED <<queue, queueVars, livethreads, active, waiting, doneevent, exiting,
                 batch, owned, answer>>

----------------------------------------------------------------------------
\* worker_thread_process, by a worker, by the main thread while it waits, or by
\* the main thread of a queue without threads.

\* The next item is taken from the list.
Pull(t) ==
  /\ pc[t] = "pull"
  /\ IF list = <<>>
     THEN Goto(t, "after") /\ UNCHANGED list
     ELSE /\ cur' = [cur EXCEPT ![t] = Head(list)]
          /\ list' = Tail(list)
          /\ pc' = [pc EXCEPT ![t] = "run"]
          /\ UNCHANGED caller
  /\ UNCHANGED <<queue, free, made, item, items, threadVars, callVars>>

\* Mutant of Run: an item that releases itself is not counted.
RunUncounted(t) ==
  /\ pc[t] = "run"
  /\ items' = IF item[cur[t]].auto THEN items ELSE items - 1
  /\ Goto(t, "finish")
  /\ UNCHANGED <<queue, list, free, made, item, threadVars, callVars>>

\* The callback has returned and the item is counted.
Run(t) ==
  /\ pc[t] = "run"
  /\ items' = items - 1
  /\ Goto(t, "finish")
  /\ UNCHANGED <<queue, list, free, made, item, threadVars, callVars>>

\* Mutant of Finish: the event is set before the item is done.
FinishSignalled(t) ==
  /\ pc[t] = "finish"
  /\ IF item[cur[t]].event = "reset"
     THEN /\ item' = [item EXCEPT ![cur[t]].event = "set"]
          /\ UNCHANGED <<pc, cur, caller>>
     ELSE /\ item' = [item EXCEPT ![cur[t]].done = TRUE]
          /\ Goto(t, "flags")
  /\ UNCHANGED <<queue, list, free, made, items, threadVars, callVars>>

Finish(t) ==
  /\ pc[t] = "finish"
  /\ item' = [item EXCEPT ![cur[t]].done = TRUE]
  /\ Goto(t, "flags")
  /\ UNCHANGED <<queue, list, free, made, items, threadVars, callVars>>

\* Mutant of CheckFlags: every item is released.
CheckNoFlags(t) ==
  /\ pc[t] = "flags"
  /\ pc' = [pc EXCEPT ![t] = "wait"]
  /\ caller' = [caller EXCEPT ![t] = "auto"]
  /\ UNCHANGED <<queue, queueVars, threadVars, cur, callVars>>

\* Only now is the flag read that says whether to release the item.
CheckFlags(t) ==
  /\ pc[t] = "flags"
  /\ IF item[cur[t]].auto
     THEN /\ pc' = [pc EXCEPT ![t] = "wait"]
          /\ caller' = [caller EXCEPT ![t] = "auto"]
     ELSE /\ pc' = [pc EXCEPT ![t] = "signal"]
          /\ UNCHANGED caller
  /\ UNCHANGED <<queue, queueVars, threadVars, cur, callVars>>

\* Set the event of an item if somebody has made one.
Signal(t) ==
  /\ pc[t] = "signal"
  /\ item' = IF item[cur[t]].event = "none" THEN item
             ELSE [item EXCEPT ![cur[t]].event = "set"]
  /\ Drop(t, "pull")
  /\ UNCHANGED <<queue, list, free, made, items, threadVars, callVars>>

Processed(t) ==
  CASE t # Main -> "more"
    [] t = Main /\ threads = 0 -> "idle"
    [] t = Main /\ threads # 0 -> "helped"

\* Mutant of CheckWaiting: multi queues are left out, for they spin.
CheckWaitingUnlessMulti(t) ==
  /\ pc[t] = "after"
  /\ Goto(t, IF waiting /\ ~queue.multi THEN "tell" ELSE Processed(t))
  /\ UNCHANGED <<queue, queueVars, threadVars, callVars>>

CheckWaiting(t) ==
  /\ pc[t] = "after"
  /\ Goto(t, IF waiting THEN "tell" ELSE Processed(t))
  /\ UNCHANGED <<queue, queueVars, threadVars, callVars>>

TellWaiting(t) ==
  /\ pc[t] = "tell"
  /\ doneevent' = TRUE
  /\ Goto(t, Processed(t))
  /\ UNCHANGED <<queue, queueVars, livethreads, active, wakeevent, waiting, exiting,
                 callVars>>

----------------------------------------------------------------------------
\* osd_work_item_wait and osd_work_item_release: by the main thread for an item
\* of its own, by any thread for one that releases itself.

WaitForItem(i) ==
  /\ pc[Main] = "idle" /\ i \in owned
  /\ pc' = [pc EXCEPT ![Main] = "wait"]
  /\ cur' = [cur EXCEPT ![Main] = i]
  /\ caller' = [caller EXCEPT ![Main] = "wait"]
  /\ answer' = "none"
  /\ UNCHANGED <<queue, queueVars, threadVars, batch, numitems, threadnum, owned>>

ReleaseItem(i) ==
  /\ pc[Main] = "idle" /\ i \in owned
  /\ owned' = owned \ {i}
  /\ pc' = [pc EXCEPT ![Main] = "wait"]
  /\ cur' = [cur EXCEPT ![Main] = i]
  /\ caller' = [caller EXCEPT ![Main] = "release"]
  /\ answer' = "none"
  /\ UNCHANGED <<queue, queueVars, threadVars, batch, numitems, threadnum>>

\* osd_work_item_wait returns, to the user of the queue or to the release.
WaitReturns(t) ==
  IF caller[t] = "wait"
  THEN /\ Drop(t, "idle")
       /\ answer' = IF item[cur[t]].done THEN "item_done" ELSE "item_not_done"
  ELSE Goto(t, "push") /\ UNCHANGED answer

CheckDone(t) ==
  /\ pc[t] = "wait"
  /\ IF item[cur[t]].done THEN WaitReturns(t)
                          ELSE Goto(t, "event") /\ UNCHANGED answer
  /\ UNCHANGED <<queue, queueVars, threadVars, batch, numitems, threadnum, owned>>

\* The event of the item is made or reset.
PrepareEvent(t) ==
  /\ pc[t] = "event"
  /\ item' = [item EXCEPT ![cur[t]].event = "reset"]
  /\ Goto(t, "check")
  /\ UNCHANGED <<queue, list, free, made, items, threadVars, callVars>>

\* Mutant of CheckDoneAgain: wait without a second look.
CheckDoneOnce(t) ==
  /\ pc[t] = "check"
  /\ Goto(t, "block") /\ UNCHANGED answer
  /\ UNCHANGED <<queue, queueVars, threadVars, batch, numitems, threadnum, owned>>

CheckDoneAgain(t) ==
  /\ pc[t] = "check"
  /\ IF item[cur[t]].done THEN WaitReturns(t)
                          ELSE Goto(t, "block") /\ UNCHANGED answer
  /\ UNCHANGED <<queue, queueVars, threadVars, batch, numitems, threadnum, owned>>

BlockOnItem(t) ==
  /\ pc[t] = "block"
  /\ queue.early \/ item[cur[t]].event = "set"
  /\ WaitReturns(t)
  /\ UNCHANGED <<queue, queueVars, threadVars, batch, numitems, threadnum, owned>>

PushFree(t) ==
  /\ pc[t] = "push"
  /\ free' = free \cup {cur[t]}
  /\ Drop(t, IF caller[t] = "auto" THEN "pull" ELSE "idle")
  /\ UNCHANGED <<queue, list, made, item, items, threadVars, callVars>>

----------------------------------------------------------------------------
\* worker_thread_entry.

\* The worker leaves if it is told to.
WorkerTop(w, next) ==
  Goto(w, IF exiting THEN "gone" ELSE next)

EnterLoop(w) ==
  /\ pc[w] = "top"
  /\ WorkerTop(w, "look")
  /\ UNCHANGED <<queue, queueVars, threadVars, callVars>>

\* Mutant of LookForItems: sleep without a look at the list.
LookForNothing(w) ==
  /\ pc[w] = "look"
  /\ Goto(w, "sleep")
  /\ UNCHANGED <<queue, queueVars, threadVars, callVars>>

\* Only an empty list lets it sleep.
LookForItems(w) ==
  /\ pc[w] = "look"
  /\ Goto(w, IF list = <<>> THEN "sleep" ELSE "woken")
  /\ UNCHANGED <<queue, queueVars, threadVars, callVars>>

Sleep(w) ==
  /\ pc[w] = "sleep"
  /\ queue.early \/ wakeevent[w]
  /\ wakeevent' = [wakeevent EXCEPT ![w] = FALSE]
  /\ Goto(w, "woken")
  /\ UNCHANGED <<queue, queueVars, livethreads, active, waiting, doneevent, exiting,
                 callVars>>

Woken(w) ==
  /\ pc[w] = "woken"
  /\ WorkerTop(w, "activate")
  /\ UNCHANGED <<queue, queueVars, threadVars, callVars>>

Activate(w) ==
  /\ pc[w] = "activate"
  /\ active' = [active EXCEPT ![w] = TRUE]
  /\ Goto(w, "live")
  /\ UNCHANGED <<queue, queueVars, livethreads, wakeevent, waiting, doneevent, exiting,
                 callVars>>

GoLive(w) ==
  /\ pc[w] = "live"
  /\ livethreads' = livethreads + 1
  /\ Goto(w, "pull")
  /\ UNCHANGED <<queue, queueVars, active, wakeevent, waiting, doneevent, exiting,
                 callVars>>

\* Done with the list, it looks once more (a high frequency queue spins here).
LookForMore(w) ==
  /\ pc[w] = "more"
  /\ Goto(w, IF list = <<>> THEN "deactivate" ELSE "pull")
  /\ UNCHANGED <<queue, queueVars, threadVars, callVars>>

Deactivate(w) ==
  /\ pc[w] = "deactivate"
  /\ active' = [active EXCEPT ![w] = FALSE]
  /\ Goto(w, "retire")
  /\ UNCHANGED <<queue, queueVars, livethreads, wakeevent, waiting, doneevent, exiting,
                 callVars>>

Retire(w) ==
  /\ pc[w] = "retire"
  /\ livethreads' = livethreads - 1
  /\ Goto(w, "top")
  /\ UNCHANGED <<queue, queueVars, active, wakeevent, waiting, doneevent, exiting,
                 callVars>>

----------------------------------------------------------------------------
\* osd_work_queue_wait.

waitVars == <<batch, numitems, threadnum, owned>>
QueueAnswer == IF items = 0 THEN "empty" ELSE "not_empty"

WaitForQueue ==
  /\ pc[Main] = "idle"
  /\ IF threads = 0 \/ items = 0
     THEN answer' = "empty" /\ Goto(Main, "idle")
     ELSE answer' = "none" /\ Goto(Main, IF queue.multi THEN "pull" ELSE "reset")
  /\ UNCHANGED <<queue, queueVars, threadVars, waitVars>>

\* It has helped; a high frequency queue then spins.
Helped ==
  /\ pc[Main] = "helped"
  /\ Goto(Main, IF queue.high /\ items # 0 THEN "spin" ELSE "reset")
  /\ UNCHANGED <<queue, queueVars, threadVars, callVars>>

\* Mutant of Spin: that it ended is taken for success.
SpinTrusting ==
  /\ pc[Main] = "spin"
  /\ queue.early \/ items = 0
  /\ Goto(Main, "idle") /\ answer' = "empty"
  /\ UNCHANGED <<queue, queueVars, threadVars, waitVars>>

Spin ==
  /\ pc[Main] = "spin"
  /\ queue.early \/ items = 0
  /\ Goto(Main, "idle") /\ answer' = QueueAnswer
  /\ UNCHANGED <<queue, queueVars, threadVars, waitVars>>

ResetDone ==
  /\ pc[Main] = "reset"
  /\ doneevent' = FALSE
  /\ Goto(Main, "announce")
  /\ UNCHANGED <<queue, queueVars, livethreads, active, wakeevent, waiting, exiting,
                 callVars>>

Announce ==
  /\ pc[Main] = "announce"
  /\ waiting' = TRUE
  /\ Goto(Main, "check_items")
  /\ UNCHANGED <<queue, queueVars, livethreads, active, wakeevent, doneevent, exiting,
                 callVars>>

CheckItems ==
  /\ pc[Main] = "check_items"
  /\ Goto(Main, IF items = 0 THEN "unannounce" ELSE "sleep")
  /\ UNCHANGED <<queue, queueVars, threadVars, callVars>>

BlockOnQueue ==
  /\ pc[Main] = "sleep"
  /\ queue.early \/ doneevent
  /\ Goto(Main, "unannounce")
  /\ UNCHANGED <<queue, queueVars, threadVars, callVars>>

Unannounce ==
  /\ pc[Main] = "unannounce"
  /\ waiting' = FALSE
  /\ Goto(Main, "answer")
  /\ UNCHANGED <<queue, queueVars, livethreads, active, wakeevent, doneevent, exiting,
                 callVars>>

Answer ==
  /\ pc[Main] = "answer"
  /\ Goto(Main, "idle") /\ answer' = QueueAnswer
  /\ UNCHANGED <<queue, queueVars, threadVars, waitVars>>

----------------------------------------------------------------------------
\* osd_work_queue_free: the threads are told to leave, and joined; then what is
\* left in the lists is freed.

TellThreads ==
  /\ pc[Main] = "idle"
  /\ exiting' = TRUE
  /\ threadnum' = 1
  /\ answer' = "none"
  /\ Goto(Main, "tell_exit")
  /\ UNCHANGED <<queue, queueVars, livethreads, active, wakeevent, waiting, doneevent,
                 batch, numitems, owned>>

\* Mutant of WakeToExit: only threads that are active are told.
WakeActiveToExit ==
  /\ pc[Main] = "tell_exit" /\ threadnum <= threads
  /\ wakeevent' = [wakeevent EXCEPT ![Workers[threadnum]] =
                     @ \/ active[Workers[threadnum]]]
  /\ threadnum' = threadnum + 1
  /\ UNCHANGED <<queue, queueVars, livethreads, active, waiting, doneevent, exiting, pc,
                 cur, caller, batch, numitems, owned, answer>>

WakeToExit ==
  /\ pc[Main] = "tell_exit" /\ threadnum <= threads
  /\ wakeevent' = [wakeevent EXCEPT ![Workers[threadnum]] = TRUE]
  /\ threadnum' = threadnum + 1
  /\ UNCHANGED <<queue, queueVars, livethreads, active, waiting, doneevent, exiting, pc,
                 cur, caller, batch, numitems, owned, answer>>

FreeQueue ==
  /\ pc[Main] = "tell_exit" /\ threadnum > threads
  /\ \A w \in WorkerSet : pc[w] = "gone"
  /\ Goto(Main, "freed")
  /\ UNCHANGED <<queue, queueVars, threadVars, callVars>>

----------------------------------------------------------------------------
\* osd_work_queue_alloc.
Init ==
  /\ queue \in Queues
  /\ list = <<>> /\ free = {} /\ made = {}
  /\ item = [i \in Items |-> [auto |-> FALSE, done |-> FALSE, event |-> "none"]]
  /\ items = 0 /\ livethreads = 0
  /\ active = [w \in WorkerSet |-> FALSE]
  /\ wakeevent = [w \in WorkerSet |-> FALSE]
  /\ waiting = FALSE /\ doneevent = TRUE /\ exiting = FALSE
  /\ pc = [t \in Threads |-> CASE t = Main -> "idle"
                              [] t \in ToSet(SubSeq(Workers, 1, threads)) -> "top"
                              [] OTHER -> "gone"]
  /\ cur = [t \in Threads |-> NoItem]
  /\ caller = [t \in Threads |-> "auto"]
  /\ batch = <<>> /\ numitems = 0 /\ threadnum = 1
  /\ owned = {} /\ answer = "none"

\* What the user of the queue decides to do, and what follows by itself.
UserStep ==
  \/ \E n \in 1 .. MaxBatch, auto \in BOOLEAN : QueueItems(n, auto)
  \/ \E i \in Items : WaitForItem(i) \/ ReleaseItem(i)
  \/ WaitForQueue \/ TellThreads

SharedStep(t) ==
  \/ Pull(t) \/ Run(t) \/ Finish(t) \/ CheckFlags(t) \/ Signal(t)
  \/ CheckWaiting(t) \/ TellWaiting(t)
  \/ CheckDone(t) \/ PrepareEvent(t) \/ CheckDoneAgain(t) \/ BlockOnItem(t)
  \/ PushFree(t)

WorkerStep(w) ==
  \/ EnterLoop(w) \/ LookForItems(w) \/ Sleep(w) \/ Woken(w) \/ Activate(w)
  \/ GoLive(w) \/ LookForMore(w) \/ Deactivate(w) \/ Retire(w) \/ SharedStep(w)

MainStep ==
  \/ AllocItem \/ Enqueue \/ AddItems \/ LookForThreads \/ LookAtThread
  \/ WakeThread \/ Helped \/ Spin \/ ResetDone \/ Announce \/ CheckItems \/ BlockOnQueue
  \/ Unannounce \/ Answer
  \/ WakeToExit \/ FreeQueue \/ SharedStep(Main)

Next == UserStep \/ MainStep \/ (\E w \in WorkerSet : WorkerStep(w))

Spec == Init /\ [][Next]_vars

\* Every thread that can go on does, and callbacks end; the user of the queue
\* may do nothing more at any time.
FairSpec ==
  Spec /\ WF_vars(MainStep) /\ \A w \in WorkerSet : WF_vars(WorkerStep(w))

----------------------------------------------------------------------------
\* Every variable has its type; livethreads counts some of the threads.
TypeOK ==
  /\ queue \in Queues
  /\ list \in Seq(Items) /\ free \subseteq Items /\ made \subseteq Items
  /\ item \in [Items -> ItemRec]
  /\ items \in Int /\ livethreads \in 0 .. threads
  /\ active \in [WorkerSet -> BOOLEAN] /\ wakeevent \in [WorkerSet -> BOOLEAN]
  /\ waiting \in BOOLEAN /\ doneevent \in BOOLEAN /\ exiting \in BOOLEAN
  /\ DOMAIN pc = Threads
  /\ cur \in [Threads -> Items \cup {NoItem}]
  /\ caller \in [Threads -> {"auto", "wait", "release"}]
  /\ batch \in Seq(Items) /\ numitems \in Nat /\ threadnum \in 1 .. threads + 1
  /\ owned \subseteq Items
  /\ answer \in {"none", "item_done", "item_not_done", "empty", "not_empty"}

\* queue->items is the number of items that have been queued and whose callback
\* has not returned: those in the list and in the hands of a thread.  Only
\* between linking the items and counting them is it behind (or below zero).
ItemsCounted ==
  items + (IF pc[Main] = "add" THEN numitems ELSE 0)
    = Len(list) + Cardinality({t \in Threads : pc[t] = "run"})

\* An item in the free list is nobody's: it is not in the list, no callback runs
\* for it, the main thread is not filling it in and does not have it to release,
\* and no thread is about to put it there a second time
\* ("It is the queuer's responsibility to release any work items it has queued").
FreeIsIdle ==
  free \cap (ToSet(list) \cup ToSet(batch) \cup owned
             \cup {cur[t] : t \in {u \in Threads : pc[u] \in {"run", "finish", "push"}}}) = {}

\* No wake-up is lost: when the main thread has queued its items and gone on, some
\* thread that has not left is awake to run them, or has its event set, unless the
\* threads have been told to leave; without threads it has run them itself before it
\* goes on.
SomebodyIsAwake ==
  list # <<>> /\ ~exiting /\ pc[Main] \notin {"add", "live", "wake", "set_event"} =>
    \/ \E w \in WorkerSet : pc[w] # "gone" /\ (pc[w] = "sleep" => wakeevent[w])
    \/ threads = 0 /\ pc[Main] # "idle"

\* Items that are queued run, unless the queue is freed with them in its list: that
\* it can be, FreeCompletes is about.
QueuedRuns ==
  \A i \in Items : (i \in ToSet(list)) ~> (i \notin ToSet(list) \/ pc[Main] = "freed")

\* "free a work queue, waiting for all items to complete" (osdcore.h, of
\* osd_work_queue_free): when it has joined the threads, nothing is left to run.
FreeCompletes == pc[Main] = "freed" => list = <<>>

\* Every call of the main thread returns without its timeout, whatever the threads
\* do meanwhile: a wait for the queue or for an item, a release, and the freeing
\* of the queue, which waits for the threads to leave.
CallsReturn == (pc[Main] # "idle") ~> (pc[Main] \in {"idle", "freed"})

\* "automatically freed when it is complete" (osdcore.h, of
\* WORK_ITEM_FLAG_AUTO_RELEASE): a thread releases for its user only what is done.
AutoReleaseOfDone ==
  \A t \in Threads : caller[t] = "auto" /\ pc[t] = "wait" => item[cur[t]].done

\* The answers of the two waits are true.  osd_work_queue_wait returns TRUE only if
\* every item that was queued has run; and a wait for an item says that it is not
\* done ("FALSE if the wait timed out before the item completed", osdcore.h) only
\* where waits may end early or an item may be used again.
AnswersTrue ==
  [][/\ answer' = "empty" /\ answer # "empty"
          => list = <<>> /\ \A t \in Threads : pc[t] # "run"
     /\ answer' = "item_not_done" => queue.early \/ queue.reuse]_vars

=============================================================================
