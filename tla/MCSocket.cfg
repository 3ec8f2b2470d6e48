CONSTANTS
  InCap = 2
  OutCap = 1
  PipeCap = 1
  Datagrams <- SomeDatagrams
  Adapters <- SomeAdapters
SPECIFICATION FairSocketSpec
INVARIANTS OnePeer HandsOver ThrowsOnlyIf
PROPERTIES ThreadEnds
CHECK_DEADLOCK FALSE
