SPECIFICATION Spec
CONSTANTS
  r1 = r1
  r2 = r2
  r3 = r3
  a = a
  b = b
  plain = plain
  streamed = streamed
  Requests = {r1, r2, r3}
  ProxyOf <- TheProxyOf
  Prompt <- ThePrompt
  Killers = {streamed}
  Streamed = {streamed}
  Slots = 2
  MaxTries = 3
  PoisonMax = 2
  MaxKills = 1
CHECK_DEADLOCK FALSE
INVARIANTS
  AmbiguousStaysLocal
