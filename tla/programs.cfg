SPECIFICATION ProgramsSpec
CONSTANTS
  Input <- MCInput
  MaxText = 5
  MaxLine = 5
  Caller = {c1, c2}
  MaxCalls = 5
  MaxChange = 2
  PipeSize = 2
  MaxSignals = 4
  MaxClients = 2
INVARIANTS
  ProgramsTypeOK
  LinesOfText
  AcceptsRequestLines
  EndsSeriallyOrCrossed
  OneUnit
  SendsOnlyItsBuffer
PROPERTIES
  ChildEnds
  WaitersGetIn
  MessageTaken
  WokenReturn
  TermStops
CHECK_DEADLOCK FALSE
