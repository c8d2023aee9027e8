SPECIFICATION FairSpec
CONSTANTS
  m_process_number = 3
  Listening = TRUE
  PipeSize = 2
  MaxConn = 2
  MaxTerm = 1
  MaxCrash = 1
INVARIANTS
  TypeOK
  DeathsKnown
  StopsLast
PROPERTY
  TermStopsPool
CHECK_DEADLOCK FALSE
