SPECIFICATION Spec
CONSTANTS
  Uploads = {u1, u2}
  Previews = {u2}
  Senders = {s1, s2}
  None = None
  MaxPreviews = 1
  MaxWriters = 2
  MaxFaults = 1
  MaxDrops = 1
  MaxCrashes = 1
  MaxSends = 2
  AccountLeaves = TRUE
INVARIANT UploadsAreKept
PROPERTY ImplementsOffers
CHECK_DEADLOCK FALSE
