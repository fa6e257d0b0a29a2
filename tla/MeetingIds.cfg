SPECIFICATION Spec
CONSTANTS
  c1 = c1
  c2 = c2
  Clients = {c1}
  Pollers = {}
  MaxDay = 1
  MaxMsgs = 2
  MaxHandles = 1
  MaxFaults = 1
CHECK_DEADLOCK FALSE
INVARIANTS
  IdUnique
