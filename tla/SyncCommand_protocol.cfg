SPECIFICATION FairSpec
CONSTANTS
  Command = {c1}
  Slot = {s1, s2}
  None = None
  MaxFaults = 2
  MaxCancels = 1
  MaxCrashes = 1
INVARIANT ExecutedOnce
INVARIANT HistoryIsFinal
INVARIANT CurrentIsLive
PROPERTY VerdictKept
PROPERTY KeepsPromise
PROPERTY ClaimedEnds
PROPERTY BackOnline
