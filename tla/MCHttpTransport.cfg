CONSTANTS
  Requests = {r1, r2}
  Endless = {r1}
  Aborters = {t1, t2}
  None = None
SPECIFICATION FairSpec
INVARIANTS ClosedOnce NoLeak AbortReaches
PROPERTY AbortedEnds
CHECK_DEADLOCK FALSE
