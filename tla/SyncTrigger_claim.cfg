SPECIFICATION Spec
CONSTANTS
  orders = orders  inventory = inventory  a1 = a1  a2 = a2  None = None
  MaxTriggers = 2
  Module = {orders, inventory}
  Diagnosed = {inventory}
  Agent = {a1, a2}
  PollLimit = 2
  MaxTroubles = 1
  Timed <- MCTimed
  MaxTimerRuns = 1
CHECK_DEADLOCK FALSE
INVARIANT ClaimIsExclusive
