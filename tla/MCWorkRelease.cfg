CONSTANTS
  w1 = w1
  w2 = w2
  Main = Main
  NoItem = NoItem
  Workers <- MCWorkers
  Items = {i1, i2}
  Queues <- MCReleased
  MaxBatch = 1
SPECIFICATION Spec
INVARIANTS AutoReleaseOfDone
CHECK_DEADLOCK FALSE
