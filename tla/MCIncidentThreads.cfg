SPECIFICATION Spec
CONSTANTS
  o1 = o1
  o2 = o2
  Owners = {o1, o2}
  None = None
  MaxOps = 4
  MaxFaults = 1
SYMMETRY OwnerSymmetry
INVARIANTS
  TypeOK
  RebuildExact
  CountsMatchLog
  LossCostsOneChange
