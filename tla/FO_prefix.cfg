CONSTANTS
  NoMove = NoMove
  alice = alice
  bob = bob
  f1 = f1
  f2 = f2
  Users = {alice, bob}
  Files = {f1, f2}
  FileOwner <- MCFileOwner
  Chars = {"a", "b", "/"}
  MaxName = 2
  MaxFolders = 2
SPECIFICATION Spec
CONSTRAINT PathBound
CHECK_DEADLOCK FALSE
PROPERTY MoveFolderAsSpecified
