SPECIFICATION FairSpec
CONSTANTS
  A = A
  B = B
  a1 = a1
  a2 = a2
  c1 = c1
  Requests <- MCRequests
  BackendOf <- MCBackendOf
  Backends <- MCBackends
  Capacity <- MCCapacity
  ProbeAfter = 1
  GateSize = 1
  MaxErrors = 2
CHECK_DEADLOCK FALSE
INVARIANTS
  OneSamplePerStream
PROPERTIES
  EveryChatEnds
