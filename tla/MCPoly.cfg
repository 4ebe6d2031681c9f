CONSTANTS
  w1 = w1
  w2 = w2
  m1 = m1
  d1 = d1
  d2 = d2
  Workers = {w1, w2}
  Main = m1
  Buckets = 2
  UnitCount = 5
  MaxPolys = 3
  Data = {d1, d2}
  FirstBuckets <- Clean

SPECIFICATION FairSpec

INVARIANTS DrawnAsRendered
PROPERTIES WaitReturns
