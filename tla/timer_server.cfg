SPECIFICATION Spec
CONSTANTS
  Timer = {t1, t2}
  NULL = NULL
  MaxFd = 2
  TIMESLOT = 2
  PipeSize = 2
  MaxNow = 7
  MaxTime = 13
  MaxConn = 3
  MaxSend = 1
  MaxBack = 1
  MaxTerm = 1
SYMMETRY Addresses
INVARIANTS
  TypeOK
  TimersMatchConnections
  EventsAreOfOpenFds
  AlarmGoesOn
  InactiveIsClosed
PROPERTY
  ImplementsLeases
CHECK_DEADLOCK FALSE
