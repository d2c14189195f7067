SPECIFICATION FairSpec
CONSTANTS
  Bikes <- MCBikes
  Records <- MCRecords
  MaxEvents = 2
INVARIANT UnlockIsSaved
CHECK_DEADLOCK FALSE
