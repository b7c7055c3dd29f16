\* No deadlock check: workers may wait for ever, and the client may end.
SPECIFICATION Spec
CONSTANTS
  Workers = {w1, w2}
  Pieces = {k1, k2}
  Seed = k0
INVARIANTS
  TypeOK
  PiecesInOnePlace
  NobodyLeavesWork
PROPERTIES
  QueueDrains
CHECK_DEADLOCK FALSE
