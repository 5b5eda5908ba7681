CONSTANTS
  Launches = {l1, l2}
  Directories = {d1, d2}
  None = None
  MaxFailures = 2
SPECIFICATION Spec
INVARIANTS Delivered NothingLeft
CHECK_DEADLOCK FALSE
