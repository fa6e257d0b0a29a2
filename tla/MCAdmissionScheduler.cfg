SPECIFICATION FairSpec
CONSTANTS
  b1 = b1
  b2 = b2
  m1 = m1
  f1 = f1
  Requests <- MCRequests
  Weight <- MCWeight
  FastlaneTokens = 10
  QueueMax = 2
  InitLimit = 2
  MaxCeiling = 3
INVARIANTS
  SlotAccounting
  NoLostWakeup
  CountersExact
PROPERTIES
  PoolSpec
  EveryWaiterServed
