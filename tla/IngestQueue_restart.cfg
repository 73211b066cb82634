SPECIFICATION FairSpec
CONSTANTS
  b1 = b1  b2 = b2  b3 = b3  t1 = t1  t2 = t2  r1 = r1  r2 = r2
  d1 = d1  d2 = d2  h1 = h1  h2 = h2  w1 = w1  w2 = w2
  None = None
  Batch = {b1, b2}
  Tenant = {t1}
  Run = {r1}
  TenantOf <- MCTenantOf
  RunOf <- MCRunOf
  LastBatch = {b2}
  Unsafe = {}
  Handler = {h1}
  Drain = {d1, d2}
  Worker = {w1}
  MaxDepth = 1
  ScanLimit = 1
  MaxAttempts = 1
  MaxPosts = 3
  MaxRestarts = 1
CHECK_DEADLOCK FALSE
INVARIANT NoLostWakeup
INVARIANT PromiseKept
INVARIANT DepthBounded
PROPERTY EventuallySettled
