CONSTANTS
  None = None
  Never = Never
  a = a
  b = b
  DeviceOrder <- MCOrder
  Machines <- MCMachines
  Periods = {0, 1, 3}
  Second = 6
  Boosts <- MCBoosts
  Triggers = {t1}
  Durations = {1}
  TimeTriggers = 2

  g1 = g1
  g2 = g2
  Games = {g1, g2}
  HostOrders = {TRUE, FALSE}
  Items = {1, 2}
  Packed = 1
  TypeSize <- MCSize
  TypeCount <- MCCount
  Values <- MCValues
  Supporting = {g1}
  CanFail = TRUE
  Cuts = {2}
SPECIFICATION SchedulerFilesSpec

INVARIANTS TypeOK PendingWhenDiffer SuspendedLast SpinHasAlarm
PROPERTIES YieldLastsOnePass BaseKeepsPace QuantaAgree TimeAdvances LoadsWhatWasSaved OnlyForeignRefused
