SPECIFICATION Spec
CONSTANTS
  alice = alice
  bob = bob
  eve = eve
  Users = {alice, bob, eve}
  Members = {alice, bob}
  Cmids = {c1}
  Ids = {i1, i2}
  Handlers = {h1, h2}
  MaxFrames = 2
  MaxDrops = 1
  MaxFaults = 1
  NoKey = NoKey
  NoRow = NoRow
  NoUser = NoUser
INVARIANTS
  PipelineInv
  ReportsNameStoredRows
  NobodyIsSkipped
PROPERTIES
  ImplementsMessageStore
SYMMETRY Symmetry
CHECK_DEADLOCK FALSE
