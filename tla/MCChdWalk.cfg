CONSTANTS
  w1 = w1
  w2 = w2
  Workers = {w1, w2}
  NoItem = NoItem
  HunkBytes = 2
  HunkUnits = 2
  Radix = 2
  Ring = 4
  Codec <- MCCodec
  Packed <- MCPacked
  Sessions <- MCWalks

SPECIFICATION Spec

INVARIANT ReadingWhenQueued
