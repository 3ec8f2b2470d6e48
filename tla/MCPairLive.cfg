CONSTANTS
  A = "A"
  B = "B"
  Byte = {"a", "b", "c"}
  StreamOf <- Streams21
  IsnOf <- Isns
  Openings = {{"A"}, {"A", "B"}}
  Cap = 2
  RecvCap <- Caps32
  Rto = 1
  N = 16
  MAX_PAYLOAD_SIZE = 1
  MAX_RETX_ATTEMPTS = 3
  LingerFactor = 4
  WinModulus = 3
  Reorder = FALSE
  Prompt = TRUE
  MaxNet = 6
  MaxLoss = 1
  MaxDup = 0
  MaxAbort = 0
  MaxFaults = 1
SPECIFICATION FairSpec
PROPERTIES ImplementsPipes  KeepsContract StateAdvances
CHECK_DEADLOCK FALSE
