SPECIFICATION Spec
CONSTANTS
  Timer = {t1, t2, t3, t4, t5}
  NULL = NULL
  MaxTime = 4
SYMMETRY Addresses
INVARIANT
  WellLinked
PROPERTIES
  AdjustKeepsSorted
  AddKeepsSorted
  TickExpiresAll
  ImplementsTimerSet
CHECK_DEADLOCK FALSE
