CONSTANTS
  Never = 4
  Dummy = Dummy
  Permanent = {p1, p2}
  Temporary = {t1}
  Periods <- MCPeriods
  Quanta = {1, 2}
  Overrun = 1
  Sessions <- MCSessions
SPECIFICATION Spec
SYMMETRY Symmetry
INVARIANTS Sorted LinkedOnce IdleOutOfTheWay
PROPERTIES NothingDueLeft SliceStopsAtTimer KeepsAppointments
