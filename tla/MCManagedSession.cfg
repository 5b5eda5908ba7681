CONSTANTS
  c1 = c1
  c2 = c2
  Callers = {c1,c2}
  MaxRuns = 2
  MaxCalls = 3
  MaxReports = 1
SPECIFICATION FairSession
INVARIANTS NoOrphan PausedAgrees LastShown QuietAfterDispose
PROPERTIES InOrder CancelEnds
CHECK_DEADLOCK FALSE
