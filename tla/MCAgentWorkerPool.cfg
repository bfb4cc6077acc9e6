SPECIFICATION FairSpec
CONSTANTS
  s1 = s1  s2 = s2
  k1 = k1  k2 = k2  k3 = k3
  Store <- TwoStores
  Call <- ThreeCalls
  StoreOf <- Shared
  Close = Close
  None = None
  maxWorkers = 1
  MaxSpawns = 3
INVARIANTS
  PoolIsSound
  HousekeepingSpares
  PoolBounded
PROPERTY CallsEnd
CHECK_DEADLOCK FALSE
