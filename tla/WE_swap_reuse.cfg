CONSTANTS
  Bare = Bare
  Rejected = Rejected
  a = a
  b = b
  t1 = t1
  Tags = {t1}
  Clients = {c1, c2}
  Fds = {1, 2}
  MaxSessions = 2
  MaxLen = 3
  MaxLog = 2
  MaxLocks = 2
  InitContent <- MCInitContent
  MaxTime = 0
SPECIFICATION Spec
SYMMETRY Perms
CHECK_DEADLOCK FALSE
INVARIANT NoInheritedSwap
