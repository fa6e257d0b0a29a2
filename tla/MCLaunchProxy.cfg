SPECIFICATION FairSpec
CONSTANTS
  r1 = r1
  r2 = r2
  r3 = r3
  a = a
  b = b
  plain = plain
  streamed = streamed
  Requests = {r1, r2, r3}
  ProxyOf <- TheProxyOf
  Prompt <- ThePrompt
  Killers = {plain, streamed}
  Streamed = {streamed}
  Slots = 2
  MaxTries = 2
  PoisonMax = 2
  MaxKills = 1
CHECK_DEADLOCK FALSE
INVARIANTS
  TypeOK
  RetrySerialized
  BlameNeedsBreak
  DamageBounded
PROPERTIES
  EveryRequestSettles
