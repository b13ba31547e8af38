SPECIFICATION FairSpec
CONSTANTS
  Conns = {c1, c2}
  Instances = {i1, i2}
  Routings <- MCRoutings
  MaxFaults = 1
INVARIANTS
  PresenceInv
  ShownIsTrue
PROPERTIES
  KeyHeals
CHECK_DEADLOCK FALSE
