SPECIFICATION FairSpec
CONSTANTS
  Users = {alice, bob}
  Calls = {p1, p2, p3}
  MaxPhones = 1
  MaxFaults = 1
  NoUser = NoUser
  NoConv = NoConv
  Unanswered = Unanswered
  Missing = Missing
INVARIANTS
  ThreadsInv
PROPERTIES
  OnlyHalfMadeThreadsMislead
  ThreadsAreCompleted
CHECK_DEADLOCK FALSE
