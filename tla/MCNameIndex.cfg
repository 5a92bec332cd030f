CONSTANTS
  NoSrv = NoSrv
  NoRec = NoRec
  NoOwner = NoOwner
  Absent = Absent
  Clients = {c1, c2}
  Files = {f1}
  Servers = {s1, s2}
  NSlots = 2
  CacheSize = 1
  MaxTime = 1
  MaxCrashes = 1
SPECIFICATION StartedSpec
SYMMETRY Perms
VIEW TimeFreeView
INVARIANT TypeOK
INVARIANT RoundRobinSpread
CHECK_DEADLOCK FALSE
