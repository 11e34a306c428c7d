SPECIFICATION FairSpec
CONSTANTS
  FrameUnits = 2
  InputUnits = 4
  ResponseUnits = 4
  ReadUnits = 3
  SocketUnits = 3
  MaxUnits = 8
  MaxFaults = 1
CHECK_DEADLOCK FALSE
INVARIANTS
  ResponsesInOrder
  AnsweredBeforeClose
  ClosedForCause
PROPERTIES
  RequestAnswered
  SessionEnds
