CONSTANTS
  MAPPING_EXPIRE_TIME_MS = 3
  DST_IP_EXPIRE_TIME_MS = 2
  AddressBits = 5
  LengthModulus = 8
  Host = {"client", "server"}
  Gateway <- Gateways
  RouterName = {"R1", "R2"}
  Tables <- BothTables
  Segment <- Segments
  IpOf <- Ip
  Traffic <- BothWays
  Ttls = {0, 3}
  MaxDgrams = 2
SPECIFICATION FairSpec
INVARIANTS TakesAMatch CrossingsBounded OneCopy
PROPERTY ArrivesAsRouted
CHECK_DEADLOCK FALSE
