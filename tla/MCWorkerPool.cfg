SPECIFICATION Spec
CONSTANTS
  Workers = {w1, w2}
  r1 = r1
  r2 = r2
  p1 = p1
  s1 = s1
  s2 = s2
  Conns <- MCConns
  Kind <- MCKind
  MaxFds = 4
  MaxBad = 1
INVARIANTS
  TypeOK
  NothingLostOrServedTwice
  WakeupsCoverQueue
PROPERTIES
  RequestsAnswered
\* The system stops when the process dies.
CHECK_DEADLOCK FALSE
