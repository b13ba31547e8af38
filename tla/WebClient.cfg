SPECIFICATION TabSpec
CONSTANTS
  Own = {m1}
  Theirs = {p1}
  PageSize = 2
  MaxSkew = 1
  MaxDrops = 1
  MaxFailures = 1
INVARIANTS
  TabInv
PROPERTIES
  StatusNeverFalls
CHECK_DEADLOCK FALSE
