SPECIFICATION Spec
CONSTANTS
  Pid = {p1, p2, p3, p4}
  NoPid = NoPid
  USER_LIMIT = 3
INVARIANTS
  TypeOK
  TableOK
  CountsChildren
PROPERTIES
  SlotsOnlyMoveDown
  ImplementsSessions
CHECK_DEADLOCK FALSE
