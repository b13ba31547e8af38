SPECIFICATION SessionSpec
CONSTANTS
  t1 = t1
  t2 = t2
  c1 = c1
  c2 = c2
  c3 = c3
  Tabs = {t1, t2}
  Calls = {c1, c2, c3}
  TabOf <- TabOfCall
  Refreshes = {r1, r2, r3, r4}
  MaxMishaps = 1
  Login = Login
  Nil = Nil
INVARIANTS
  SessionInv
  NoLogoutUndisturbed
  
CHECK_DEADLOCK FALSE
