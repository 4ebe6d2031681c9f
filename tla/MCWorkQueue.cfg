CONSTANTS
  w1 = w1
  w2 = w2
  Main = Main
  NoItem = NoItem
  Workers <- MCWorkers
  Items = {i1, i2}
  Queues <- MCQueues
  MaxBatch = 2
SPECIFICATION FairSpec
INVARIANTS ItemsCounted FreeIsIdle SomebodyIsAwake
PROPERTIES AnswersTrue QueuedRuns CallsReturn
CHECK_DEADLOCK FALSE
