SPECIFICATION FairSpec
CONSTANTS
  Scenes = {"starting", "reaping", "busy", "revoked", "serving", "pruning", "gate", "search"}
  r1 = r1
  r2 = r2
  a1 = a1
  NoRoom = NoRoom
  ap = ap
  fc = fc
  t1 = t1
  t2 = t2
  x1 = x1
  x2 = x2
  x3 = x3
  s1 = s1
  s2 = s2
  z1 = z1
  A = A
  B = B
  k1 = k1
  k2 = k2
  k3 = k3
  c1 = c1
  d1 = d1
  d2 = d2
  None = None
  NoDraft = NoDraft
  b1 = b1
  b2 = b2
  p1 = p1
  i1 = i1
PROPERTIES
  DeliveryCatchesUp
CHECK_DEADLOCK FALSE
