SPECIFICATION FairSpec
CONSTANTS
  alice = alice
  bob = bob
  carol = carol
  eve = eve
  Users = {alice, bob, carol, eve}
  Members = {alice, bob, carol}
  Handlers = {h1, h2}
  MaxMessages = 2
  MaxReceipts = 2
  MaxFailures = 1
  MaxLost = 1
  NoReceipt = NoReceipt
INVARIANTS
  ReceiptsInv
  TicksAreBacked
PROPERTIES
  
  ReadReachesTheAuthor
CHECK_DEADLOCK FALSE
