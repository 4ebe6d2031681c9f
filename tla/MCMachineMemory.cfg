CONSTANTS
  auto = auto
  slot = slot
  Files = {auto, slot}
  AutoFile = auto
  None = None
  Empty = empty
  Game = game
  Options <- MCOptions
  Scripts = TRUE
  Debugger = TRUE
  CanFail = TRUE
  PatientUser = TRUE
  Second = 1
  MaxAsks = 3

  BlockCount = 4
  BlockSize = 2
  SubtableCount = 3
  HandlerCount = 3
  BankMax = 2
  Lanes = {"even", "odd"}
  Devices = {"x", "y", "z"}
  Maps <- MCMaps
  Pointed <- MCPointed
  Installs <- MCInstalls
  Masked <- MCMasked
  Bases = {"p", "q"}
  CallLimit = 4
  RangeLimit = 1
SPECIFICATION MachineMemorySpec
CHECK_DEADLOCK FALSE

INVARIANTS RequestKept CountsAgree CachedRangesTrue WindowFollowsBank
PROPERTIES RequestsEnd MapsAsInstalled
