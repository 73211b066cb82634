SPECIFICATION Spec
CONSTANTS
  b1 = b1  b2 = b2  b3 = b3  t1 = t1  t2 = t2  r1 = r1  r2 = r2
  d1 = d1  d2 = d2  h1 = h1  h2 = h2  w1 = w1  w2 = w2
  None = None
  Batch = {b1, b2, b3}
  Tenant = {t1, t2}
  Run = {r1, r2}
  TenantOf <- MCTenantOf
  RunOf <- MCRunOf
  LastBatch = {b2, b3}
  Unsafe = {b3}
  Handler = {h1, h2}
  Drain = {d1, d2}
  Worker = {w1, w2}
  MaxDepth = 3
  ScanLimit = 2
  MaxAttempts = 2
  MaxPosts = 3
  MaxRestarts = 0
SYMMETRY MCSymmetry
CHECK_DEADLOCK FALSE
INVARIANT TenantExclusive
INVARIANT SingleDrain
INVARIANT CommittedOnce
PROPERTY RunStaysEnded
PROPERTY TenantFifo
