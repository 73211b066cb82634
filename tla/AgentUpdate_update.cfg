SPECIFICATION FairSpec
CONSTANTS
  Release = {1, 2}
  Sick = {2}
  MaxRequests = 2
  MaxTroubles = 1
CHECK_DEADLOCK FALSE
INVARIANT ServiceWhole
INVARIANT VerdictInstalled
PROPERTY VerdictFinal
 
