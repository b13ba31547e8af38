SPECIFICATION UsedSpec
CONSTANTS
  Own = {}
  Theirs = {p1, p2}
  PageSize = 2
  MaxSkew = 0
  MaxDrops = 1
  MaxFailures = 0
PROPERTIES
  MissedArrives
  ComesBack
CHECK_DEADLOCK FALSE
