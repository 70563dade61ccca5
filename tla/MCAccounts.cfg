SPECIFICATION Spec
CONSTANTS
  Scenes = {"verbs", "store", "gone", "verified", "waiting", "resuming", "acquiring", "browsers", "full", "granting", "secrets", "capacity", "comparing", "tearing", "macs", "requesting", "minting", "guard", "replay", "rotation"}
  atBoot = atBoot
  NoOne = NoOne
  q1 = q1
  q2 = q2
  n1 = n1
  i1 = i1
  i2 = i2
  f1 = f1
  f2 = f2
  u1 = u1
  v1 = v1
  v2 = v2
  a1 = a1
  a2 = a2
  c1 = c1
  c2 = c2
  r1 = r1
  r2 = r2
  e1 = e1
  e2 = e2
  h1 = h1
  h2 = h2
  None = None
  Old = Old
INVARIANTS
  TypesOK
  AccountIsWhole
  SignInIsSettled
  GrantsAreOwned
  VerificationIsSound
  RequestsAreHandledOnce
  CredentialsAreSafe
PROPERTIES
  EffectsAreCurrent
SYMMETRY Symmetry
CHECK_DEADLOCK FALSE
