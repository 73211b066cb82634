SPECIFICATION Spec
CONSTANTS
  ItemCount = 1
  Kind = {"orders"}
  Cancelled <- MCCancelled
  ZeroAllowed = FALSE
  BatchSize = 1
  MinBatchSize = 1
  MaxAttempts = 1
  Sources <- MCSources1
  Windows = {}
  MaxRuns = 1
  MaxTroubles = 1
CHECK_DEADLOCK FALSE
INVARIANT StatsFailureIsHarmless
