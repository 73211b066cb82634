SPECIFICATION FairSpec
CONSTANTS
  RowCount = 2
  products = products  orders = orders  inventory = inventory
  Module = {products, orders, inventory}
  Windowed <- MCWindowed
  Lookback <- MCLookback
  BatchSize = 2
  MinBatchSize = 1
  MaxTime = 3
  MaxEdits = 1
  MaxFaults = 1
  MaxCancels = 1
  MaxCrashes = 1
  MaxFulls = 1
  MaxResets = 1
INVARIANT TypeOK
INVARIANT LossHasCause
PROPERTY CatchesUp
