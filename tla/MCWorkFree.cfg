CONSTANTS
  w1 = w1
  w2 = w2
  Main = Main
  NoItem = NoItem
  Workers <- MCWorkers
  Items = {i1, i2}
  Queues <- MCFreed
  MaxBatch = 1
SPECIFICATION Spec
INVARIANTS FreeCompletes
CHECK_DEADLOCK FALSE
