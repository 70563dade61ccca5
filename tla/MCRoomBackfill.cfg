SPECIFICATION Spec
CONSTANTS
  Rooms = {r1}
  Depth = 3
  LiveMax = 1
  PageSize = 2
  TargetDepths = {0, 2}
  CountCap = 2
  ParkAfter = 3
  RetryBase = 1
  RetryMax = 1
  ParkFor = 1
  PurgeOnLeave = FALSE
  PurgeBatch = 1
  StoreErrors = {"list", "save", "record", "clear", "member"}
INVARIANTS
  NoGap
  NoStaleBackoff
PROPERTIES
  ProgressKept
