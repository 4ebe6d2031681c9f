CONSTANTS
  w1 = w1
  w2 = w2
  w3 = w3
  w4 = w4
  s1 = s1
  Workers = {w1, w2}
  NoItem = NoItem
  HunkBytes = 2
  HunkUnits = 2
  Radix = 2
  Ring = 4
  Codec <- MCCodec
  Packed <- MCPacked
  Sessions <- MCSessions


  Threads = {w1, w2, w3, w4, s1}
  Setters = {w4, s1}
  Resetters = {s1}
  Waiters = {w1, w2, w3, w4}
  Timeouts = TRUE
  Spurious = TRUE
SPECIFICATION ChdEventSpec

INVARIANTS SlotKept ReadsBack NoLostWake
PROPERTIES CompressionEnds SetReleases AsDescribed
