CONSTANTS
  Radix = 3
  MaxBytes = 9
  Requests <- MCRequests
  Responses <- MCResponses
  OutputLimit = 16
  MaxMessages = 3
  MaxFaults = 1
SPECIFICATION Spec
CHECK_DEADLOCK FALSE
INVARIANTS
  StreamDelivered
  FullBufferDecides
  OnlyEncodings
PROPERTIES
  DecisionsStable
