CONSTANTS
  proxy = proxy
  mirror = mirror
  direct = direct
  r1 = r1
  r2 = r2
  Order <- LastSuccessFirst
  Direct = direct
  Ranges = {r1, r2}
  Retries = 1
  MaxCalls = 4
SPECIFICATION FairSpec
INVARIANTS Returned SwitchKeepsDownload
PROPERTIES InterruptAnswered DownloadEnds
CHECK_DEADLOCK FALSE
