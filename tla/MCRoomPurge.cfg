SPECIFICATION FairSpec
CONSTANTS
  Rooms = {r1}
  Depth = 1
  LiveMax = 1
  PageSize = 2
  TargetDepths = {0, 1}
  CountCap = 1
  ParkAfter = 1
  RetryBase = 1
  RetryMax = 1
  ParkFor = 1
  PurgeOnLeave = TRUE
  PurgeBatch = 1
  StoreErrors = {"purge"}
INVARIANTS
  RejoinKept
  PurgeComplete
PROPERTIES
  HistorySettles
