CONSTANTS
  a = a
  b = b
  c = c
  Host = {a, b, c}
  IpOf <- Ip
  EthOf <- Eth
  Traffic <- BothWays
  MAPPING_EXPIRE_TIME_MS = 2
  DST_IP_EXPIRE_TIME_MS = 2
  MaxDgrams = 2
  MaxTime = 2
SPECIFICATION FairSpec
INVARIANTS MappingsExact DeliveredOnce NoneWaitsForKnown RequestsSpaced
PROPERTY LatestArrives
CHECK_DEADLOCK FALSE
