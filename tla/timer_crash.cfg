SPECIFICATION Spec
CONSTANTS
  Timer = {t1, t2}
  NULL = NULL
  MaxTime = 3
SYMMETRY Addresses
INVARIANT
  AddNeverCrashes
CHECK_DEADLOCK FALSE
