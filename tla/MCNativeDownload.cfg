CONSTANTS
  proxy = proxy
  mirror = mirror
  direct = direct
  r1 = r1
  r2 = r2
  Order <- LastSuccessFirst
  Direct = direct
  Ranges = {r1, r2}
  Retries = 1
  MaxCalls = 3
SPECIFICATION FairSpec
INVARIANTS Returned
PROPERTY DownloadEnds
CHECK_DEADLOCK FALSE
