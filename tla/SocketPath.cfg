CONSTANTS
  Server = {s1, s2, s3}
  NoSocket = NoSocket
  MaxStarts = 2
  MaxFailures = 1
SPECIFICATION PathSpec
INVARIANTS
  PathHasOwner
  AloneIsReachable
CHECK_DEADLOCK FALSE
