SPECIFICATION FairSpec
CONSTANTS
  c1 = c1
  c2 = c2
  Conns = {c1, c2}
  NoConn = NoConn
  Fds = {5, 6}
  MaxClients = 2
  MaxQueued = 2
  FrameUnits = 1
  InputUnits = 2
  ResponseUnits = 2
  ReadUnits = 2
  SocketUnits = 1
  MaxUnits = 2
  MaxFaults = 0
  Readers = {c1}
PROPERTIES
  RequestAnswered
CHECK_DEADLOCK FALSE
