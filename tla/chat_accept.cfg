SPECIFICATION FairSpec
CONSTANTS
  Pid = {p1, p2}
  NoPid = NoPid
  USER_LIMIT = 2
  RecvMax = 1
  PipeCap = 1
  SigPipeCap = 2
  MaxConn = 2
  MaxMsg = 0
  MaxTerm = 0
  MaxFail = 0
PROPERTY
  ConnectionsAccepted
CHECK_DEADLOCK FALSE
