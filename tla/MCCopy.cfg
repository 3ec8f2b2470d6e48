CONSTANTS
  Byte = {1, 2, 3}
  Cap = 2
  MaxCall = 2
  MaxTotal = 3
  InTotal = 2
  max_copy_length = 65536
  Room = 1
SPECIFICATION FairCopy
INVARIANT NoByteDropped
INVARIANT CopyThrowsOnlyIf
PROPERTY CopiesBothWays
PROPERTY CopyEnds
CHECK_DEADLOCK FALSE
