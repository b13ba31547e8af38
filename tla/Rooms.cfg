SPECIFICATION MeshSpec
CONSTANTS
  alice = alice
  bob = bob
  carol = carol
  a1 = a1
  a2 = a2
  b1 = b1
  c1 = c1
  Users = {alice, bob}
  Conns = {a1, a2, b1}
  First = {a1, b1}
  Owner <- TabOwner
  Joins = {j1, j2}
  Leaves = {l1}
  MaxLosses = 1
  Nobody = Nobody
  NoConn = NoConn
INVARIANTS
  RosterInv
  MeshInv
  
  TilesAreTrue
CHECK_DEADLOCK FALSE
