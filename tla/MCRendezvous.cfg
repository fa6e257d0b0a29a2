SPECIFICATION FairSpec
CONSTANTS
  m1 = m1
  m2 = m2
  l1 = l1
  f1 = f1
  Launches = {l1}
  Finders = {f1}
  Stoppers = {}
  Models = {m1, m2}
  Want <- MCWant
  JobModel = m1
  MaxDaemons = 2
  MaxFaults = 1
CHECK_DEADLOCK FALSE
INVARIANTS
  TypeOK
  RecordKept
PROPERTIES
  Failover
  SearchEnds
