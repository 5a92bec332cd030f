CONSTANTS
  Dir = Dir
  NoFolder = NoFolder
  NoRec = NoRec
  Absent = Absent
  NoOwner = NoOwner
  NoSess = NoSess
  NoAns = NoAns
  Failed = Failed
  alice = alice
  bob = bob
  a1 = a1
  a2 = a2
  b1 = b1
  Sessions = {a1, b1}
  Users = {alice, bob}
  UserOf <- MCUserOf
  Files = {f1}
  MaxCrashes = 1
  Requesters = {bob}
  ReqPerms = {"read", "write"}
SPECIFICATION ServingSpec
CHECK_DEADLOCK FALSE
PROPERTY ImplementsContract
