CONSTANTS
  A = "A"
  B = "B"
  Byte = {"a", "b", "c", "d", "e"}
  StreamOf <- Streams50
  IsnOf <- Isns
  Openings = {{"A"}}
  Cap = 3
  RecvCap <- Caps33
  Rto = 1
  N = 32
  MAX_PAYLOAD_SIZE = 3
  MAX_RETX_ATTEMPTS = 1
  LingerFactor = 1
  WinModulus = 65536
  Reorder = TRUE
  Prompt = TRUE
  MaxNet = 3
  MaxLoss = 0
  MaxDup = 1
  MaxAbort = 0
  MaxFaults = 1
SPECIFICATION Spec
INVARIANT EndIsHonest
CHECK_DEADLOCK FALSE
