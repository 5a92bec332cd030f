CONSTANTS
  NoSrv = NoSrv
  NoRec = NoRec
  NoOwner = NoOwner
  Absent = Absent
  Clients = {c1, c2}
  Files = {f1}
  Servers = {s1, s2}
  NSlots = 2
  CacheSize = 1
  MaxTime = 0
  MaxCrashes = 1
SPECIFICATION Spec
SYMMETRY Perms
INVARIANT IndexPointsToHolder
CHECK_DEADLOCK FALSE
