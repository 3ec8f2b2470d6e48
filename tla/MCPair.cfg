CONSTANTS
  A = "A"
  B = "B"
  Byte = {"a"}
  StreamOf <- Streams10
  IsnOf <- Isns
  Openings = {{"A"}}
  Cap = 2
  RecvCap <- Caps22
  Rto = 1
  N = 16
  MAX_PAYLOAD_SIZE = 1
  MAX_RETX_ATTEMPTS = 1
  LingerFactor = 1
  WinModulus = 65536
  Reorder = TRUE
  Prompt = FALSE
  MaxNet = 2
  MaxLoss = 0
  MaxDup = 1
  MaxAbort = 1
  MaxFaults = 1
SPECIFICATION Spec
INVARIANTS AcksAgree CleanMeansDelivered OneLingers
PROPERTY KeepsContract
CHECK_DEADLOCK FALSE
