SPECIFICATION FairSpec
CONSTANTS
  FrameUnits = 3
  InputUnits = 4
  ResponseUnits = 4
  ReadUnits = 3
  SocketUnits = 2
  MaxFaults = 2
  MaxWords = 5
CHECK_DEADLOCK FALSE
INVARIANTS
  AcceptedSucceeds
  ReadsCommandLine
PROPERTIES
  IsRemoteCall
  BothEndsFinish
