CONSTANTS
  Lines = {"IRQ", "RESET", "HALT"}
  Vectors = {0, 1}
  DefaultVector = 0
  UseStored = UseStored
  QueueSize = 2
  Devices <- MCDevices
  MaxPending = 3
  MaxTimers = 2
SPECIFICATION FairSpec
INVARIANTS QueueHasTimer SettledAsAsked
PROPERTIES InterruptWakes
