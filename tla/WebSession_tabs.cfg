SPECIFICATION FairSpec
CONSTANTS
  t1 = t1  t2 = t2  home = home  other = other
  Tab = {t1, t2}
  Reading = {t1}
  Company = {home, other}
  MaxEvents = 2
  MaxTroubles = 1
INVARIANT CompanyShown
PROPERTY SessionEndsForCause
PROPERTY CallsEnd
CHECK_DEADLOCK FALSE
