SPECIFICATION FairSpec
CONSTANTS
  Pid = {p1, p2}
  NoPid = NoPid
  USER_LIMIT = 2
  RecvMax = 1
  PipeCap = 1
  SigPipeCap = 2
  MaxConn = 2
  MaxMsg = 0
  MaxTerm = 1
  MaxFail = 1
INVARIANT
  DeathReported
PROPERTIES
  DeadChildReaped
  DrainedServerStops
  OrphansExit
CHECK_DEADLOCK FALSE
