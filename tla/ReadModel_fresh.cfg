SPECIFICATION FairSpec
CONSTANTS
  monthly = monthly  daily = daily  t1 = t1  t2 = t2  timer = timer
  Tenant = {t1, t2}
  View <- MCView
  Scope <- MCScope
  Asked <- MCAsked
  MaxRuns = 2
  MaxTroubles = 2
INVARIANT CustomersFresh
PROPERTY EventuallyFresh
