SPECIFICATION FairSpec
CONSTANTS
  Forms = {page, phone}
  Keeping = {page}
  Requests = {r1, r2, r3}
  MaxHits = 1
  MaxAttempts = 1
  MaxFaults = 2
  None = None
INVARIANTS
  OtpInv
  OneLoginPerCode
  AttemptsAreTrue
PROPERTIES
  WindowReopens
CHECK_DEADLOCK FALSE
