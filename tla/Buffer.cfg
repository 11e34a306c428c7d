CONSTANTS
  Byte = {0, 1}
  SizeMax = 7
  InitialCapacity = 2
  Limits <- MCLimits
  Chunks <- MCChunks
SPECIFICATION FairBufferSpec
PROPERTIES
  GrowsWithinLimits
  IsByteFifo
