SPECIFICATION Spec
CONSTANTS
  Scenes = {"absence", "panels", "asking", "leaving", "sweeping", "telling", "merging", "pruning", "hinting", "showing", "unmatched", "rejoining", "purged", "inviting", "backup", "twice", "restarting"}
  r1 = r1
  r2 = r2
  s1 = s1
  c1 = c1
  e1 = e1
  e2 = e2
  a = a
  b = b
  absence = absence
  t1 = t1
  t2 = t2
  k1 = k1
  k2 = k2
INVARIANTS
  TypesOK
  DetailsAreCurrent
  CountsAreCurrent
  RedactionsReach
  UnreadIsBacked
  RowsAreRetried
PROPERTIES
  NothingIsUndone
SYMMETRY Symmetry
CHECK_DEADLOCK FALSE
