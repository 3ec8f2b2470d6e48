CONSTANTS
  Length = 16
  Cap = 6
  N = 14
  Isn = 9
SPECIFICATION FairSpec
INVARIANTS AckExact Decodes StoresAtMostCapacity
PROPERTIES NeverReneges EventuallyEof
