CONSTANTS
  BlockCount = 4
  BlockSize = 2
  SubtableCount = 3
  HandlerCount = 3
  BankMax = 2
  Lanes = {"even", "odd"}
  Devices = {"x", "y", "z"}
  Maps <- MCMaps
  Pointed <- MCPointed
  Installs <- MCInstalls
  Masked <- MCMasked
  Bases = {"p", "q"}
  CallLimit = 4
  RangeLimit = 1
SPECIFICATION Spec
CHECK_DEADLOCK FALSE
INVARIANTS AllWindowsUpdated
