SPECIFICATION FairSpec
CONSTANTS
  ItemCount = 3
  Kind = {"orders", "products", "inventory"}
  Cancelled <- MCCancelled
  ZeroAllowed = FALSE
  BatchSize = 2
  MinBatchSize = 1
  MaxAttempts = 2
  Sources <- MCSources
  Windows <- MCWindows
  MaxRuns = 2
  MaxTroubles = 2
CHECK_DEADLOCK FALSE
INVARIANT TypeOK
INVARIANT StockIsSnapshot
INVARIANT ProductsMatch
INVARIANT OkMeansStored
INVARIANT StockIsGenuine
INVARIANT FiguresSettle
PROPERTY NewestWins
PROPERTY RunEnds
