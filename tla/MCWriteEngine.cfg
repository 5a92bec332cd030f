CONSTANTS
  Bare = Bare
  Rejected = Rejected
  a = a
  b = b
  t1 = t1
  Tags = {t1}
  Clients = {c1, c2}
  Fds = {1, 2}
  InitContent <- MCInitContent
  MaxSessions = 2
  MaxLen = 3
  MaxTime = 1
  MaxLog = 1
  MaxLocks = 2
SPECIFICATION Spec
SYMMETRY Perms
VIEW GhostAndTimeFreeView
INVARIANT TypeOK
CHECK_DEADLOCK FALSE
