SPECIFICATION Spec
CONSTANTS
  c1 = c1
  c2 = c2
  Conns = {c1, c2}
  NoConn = NoConn
  Fds = {5, 6}
  MaxClients = 2
  MaxQueued = 2
  FrameUnits = 2
  InputUnits = 3
  ResponseUnits = 2
  ReadUnits = 3
  SocketUnits = 1
  MaxUnits = 4
  MaxFaults = 1
  Readers = {}
SYMMETRY ConnSymmetry
CHECK_DEADLOCK FALSE
INVARIANTS
  ResponsesInOrder
  SleepsOnlyWhenBlocked
  QueuedForSender
  DescriptorsOwned
  CleanShutdown
PROPERTIES
  ClosedForCause
