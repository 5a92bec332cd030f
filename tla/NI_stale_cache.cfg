CONSTANTS
  NoSrv = NoSrv
  NoRec = NoRec
  NoOwner = NoOwner
  Absent = Absent
  Clients = {c1, c2}
  Files = {f1}
  Servers = {s1}
  NSlots = 1
  CacheSize = 1
  MaxTime = 0
  MaxCrashes = 0
SPECIFICATION Spec
SYMMETRY Perms
INVARIANT DeletedNotFound
CHECK_DEADLOCK FALSE
