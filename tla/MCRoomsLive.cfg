SPECIFICATION FairSpec
CONSTANTS
  Scenes = {"fetching", "counting", "projecting", "redacting", "settling", "draining", "disowned", "listing", "decrypting"}
  r1 = r1
  r2 = r2
  s1 = s1
  c1 = c1
  e1 = e1
  e2 = e2
  a = a
  b = b
  absence = absence
  t1 = t1
  t2 = t2
  k1 = k1
  k2 = k2
PROPERTIES
  RoomsConverge
CHECK_DEADLOCK FALSE
