SPECIFICATION Spec
CONSTANTS
  c1 = c1
  c2 = c2
  u1 = u1
  u2 = u2
  t1 = t1
  t2 = t2
  Clients = {c1, c2}
  Users = {u1, u2}
  TrackerInfo <- TwoTrackers
  UsersOf <- OwnClient
  Mortal = {t1}
  Hasty = {c2}
  Threads = 1
  MaxOrphans = 1
  NoCall = NoCall
INVARIANTS
  TypeOK
  BelievedSessionIsReal
PROPERTIES
  LogoutWorks
