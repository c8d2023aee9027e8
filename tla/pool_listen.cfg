SPECIFICATION FairSpec
CONSTANTS
  m_process_number = 2
  Listening = FALSE
  PipeSize = 2
  MaxConn = 1
  MaxTerm = 0
  MaxCrash = 0
PROPERTY
  PoolAccepts
CHECK_DEADLOCK FALSE
