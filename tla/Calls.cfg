SPECIFICATION Spec
CONSTANTS
  alice = alice
  bob = bob
  a = a
  b1 = b1
  b2 = b2
  Flaky = {a}
  Users = {alice, bob}
  Tabs = {a, b1, b2}
  Owner <- TabOwner
  MaxCalls = 2
  MaxManagers = 3
  MaxFaults = 1
SYMMETRY Symmetry
INVARIANTS
  CallsInv
  AnswerIsForThisCall
  
  RingsMatchCalls
  NoCallerAlone
CHECK_DEADLOCK FALSE
