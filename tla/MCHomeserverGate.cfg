SPECIFICATION Spec
CONSTANTS
  Background = {b1, b2, b3}
  Polls = {p1, p2}
  Interactive = {i1}
  InitialLimit = 2
  MaxLimit = 2
  GrowAfter = 2
  TimeoutHold = 2
  Cooldown = 1
  CooldownMax = 2
  ReopenCap = 1
SYMMETRY Symmetry
INVARIANTS
  TypeOK
  ActiveCountsPermits
  ProbeInFlight
  LoadBound
  NoLostWakeup
