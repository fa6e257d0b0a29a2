SPECIFICATION FairSpec
CONSTANTS
  small = small
  mid = mid
  Procs <- MCProcs
  Footprint <- MCFootprint
  Other <- MCOther
  Growth <- MCGrowth
  Extra <- MCExtra
  Prio <- MCPrio
  Budget = 5
  MinFree = 1
  Avail <- MCAvail
  Pressure <- MCPressure
  LostTickets = 1
  Moves <- MCMoves
CHECK_DEADLOCK FALSE
INVARIANTS
  TypeOK
  NoOvercommit
  ReservedBeforeServed
PROPERTIES
  NoOvertaking
  EveryLoadSettles
