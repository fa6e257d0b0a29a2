SPECIFICATION FairSpec
CONSTANTS
  A = A
  B = B
  a1 = a1
  a2 = a2
  c1 = c1
  Requests <- MCRequests
  BackendOf <- ThreeBackendOf
  Backends <- OneBackend
  Capacity <- OneCapacity
  ProbeAfter = 1
  GateSize = 2
  MaxErrors = 2
CHECK_DEADLOCK FALSE
INVARIANTS
  DebtCovered
PROPERTIES
  BreakerHeals
