SPECIFICATION FairSpec
CONSTANTS
  c1 = c1
  c2 = c2
  Clients = {c1, c2}
  Pollers = {c2}
  MaxDay = 2
  MaxMsgs = 2
  MaxHandles = 1
  MaxFaults = 1
CHECK_DEADLOCK FALSE
INVARIANTS
  TypeOK
  UniqueIds
  NothingSkipped
  NoSleepThrough
  EndedStays
PROPERTIES
  WaitReturns
