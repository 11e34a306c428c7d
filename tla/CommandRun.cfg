SPECIFICATION FairSpec
CONSTANTS
  SIZE_MAX = 19
  MaxPath = 3
  MaxArgument = 5
  max_result_size = 4
  ReadSize = 3
  PipeSize = 2
  MaxOutput = 10
  MaxFaults = 2
CHECK_DEADLOCK FALSE
INVARIANTS
  ArgumentQuoted
  OutputWhole
  NothingLeaks
PROPERTIES
  RunReturns
