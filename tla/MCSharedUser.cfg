SPECIFICATION Spec
CONSTANTS
  c1 = c1
  c2 = c2
  u1 = u1
  u2 = u2
  t1 = t1
  t2 = t2
  Clients = {c1, c2}
  Users = {u1, u2}
  TrackerInfo <- OneTracker
  UsersOf <- AnyClient
  Mortal = {}
  Hasty = {}
  Threads = 1
  MaxOrphans = 1
  NoCall = NoCall
PROPERTIES
  LogoutWorks
\* A client that waits on a tracker without a free thread waits for ever.
CHECK_DEADLOCK FALSE
