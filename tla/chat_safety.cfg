SPECIFICATION Spec
CONSTANTS
  Pid = {p1, p2}
  NoPid = NoPid
  USER_LIMIT = 2
  RecvMax = 1
  PipeCap = 1
  SigPipeCap = 2
  MaxConn = 3
  MaxMsg = 2
  MaxTerm = 0
  MaxFail = 0
SYMMETRY Pids
INVARIANTS
  TypeOK
  SlotBelowIdx
  PrivateSegments
PROPERTIES
  RelaysNothingOlder
  ImplementsUserTable
CHECK_DEADLOCK FALSE
