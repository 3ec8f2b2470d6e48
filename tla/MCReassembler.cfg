CONSTANTS
  StreamLength = 7
  Capacity = 3
  EmptyInside = FALSE
SPECIFICATION ReassemblerSpec
INVARIANTS Integrity CountedOnce WritesContiguous
CHECK_DEADLOCK FALSE
