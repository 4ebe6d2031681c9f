---------------------------- MODULE MCWorkQueue ----------------------------
(***************************************************************************)
(* Instances of WorkQueue for TLC: queues of no, one and two threads, as   *)
(* osd_work_queue_alloc makes them for one, two and three processors.      *)
(***************************************************************************)
EXTENDS WorkQueue

CONSTANTS w1, w2

MCWorkers == <<w1, w2>>

Queue(n, multi, high, auto, early, most, reuse) ==
  [threads |-> n, multi |-> multi, high |-> high, auto |-> auto, early |-> early,
   items |-> most, reuse |-> reuse]

\* Of two threads; of one, with and without timeouts; of one whose user waits for
\* its items; and of none.
MCQueues == {
  Queue(2, TRUE, TRUE, {TRUE}, TRUE, 1, TRUE),
  Queue(1, TRUE, TRUE, {TRUE}, TRUE, 2, TRUE),
  Queue(1, TRUE, FALSE, {TRUE}, FALSE, 2, TRUE),
  Queue(1, FALSE, FALSE, {TRUE, FALSE}, FALSE, 2, FALSE),
  Queue(0, TRUE, FALSE, {TRUE, FALSE}, TRUE, 2, TRUE)}
MCReleased == {Queue(1, FALSE, FALSE, {TRUE, FALSE}, FALSE, 2, TRUE)}
MCFreed == {Queue(1, TRUE, FALSE, {TRUE}, FALSE, 1, FALSE)}
=============================================================================
