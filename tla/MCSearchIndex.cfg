SPECIFICATION Spec
CONSTANTS
  a1 = a1
  a2 = a2
  Docs = {1, 2}
  Accounts = {a1, a2}
  Owner <- Apart
  Texts = 1
  MaxSeq = 4
  BatchSize = 2
  Faults = {"read", "commit", "cursor", "prune", "marker"}
INVARIANTS
  NothingForgotten
  FlushedIsGone
