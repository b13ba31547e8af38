SPECIFICATION RefreshingSpec
CONSTANTS
  Mine = {}
  Theirs = {p1, p2, p3, p4}
  Syncs = {s1}
  PageSize = 2
  Grain = 2
  MaxOpen = 1
  MaxLosses = 0
  SocketOpens = FALSE

  
PROPERTIES
  PullCatchesUp
CHECK_DEADLOCK FALSE
