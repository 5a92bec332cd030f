CONSTANTS
  alice = alice
  bob = bob
  carol = carol
  c1 = c1
  c2 = c2
  c3 = c3
  Conns = {c1, c2, c3}
  Names = {alice, bob, carol}
  MaxActive = 2
SPECIFICATION Spec
INVARIANT ConnectedAreListed
