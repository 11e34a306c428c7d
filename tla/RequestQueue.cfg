CONSTANTS
  Node = {n1, n2, n3, n4}
  NULL = NULL
  Client = {c1, c2}
  Body = {b1, b2}
SPECIFICATION FairSpec
INVARIANTS
  PointersSound
PROPERTIES
  LoopsEnd
  IsFifo
