CONSTANTS
  Byte = {"a", "b", "c", "d"}
  Stream <- Stream4
  Cap = 3
  MAX_PAYLOAD_SIZE = 2
  Rto = 2
  N = 16
  Isn = 13
  MaxWin = 3
  MaxFail = 2
SPECIFICATION FairSpec
INVARIANTS KeepsUnacked WithinWindow TimerRuns LoopsAgree
PROPERTIES RetransmitsOldest EventuallyAllAcked
