SPECIFICATION Spec
CONSTANTS
  Mine = {m1}
  Theirs = {p1}
  Syncs = {s1}
  PageSize = 2
  Grain = 1
  MaxOpen = 1
  MaxLosses = 1
  SocketOpens = TRUE
INVARIANTS
  PhoneInv
  AckedIsDurable
  SentIsStored
PROPERTIES
  NothingGoesBack
CHECK_DEADLOCK FALSE
