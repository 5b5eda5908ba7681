CONSTANTS
  Calls = {c1, c2, c3}
  Directories = {d1, d2}
  None = None
  MaxFailures = 1
SPECIFICATION Spec
SYMMETRY Symmetry
INVARIANTS OneStub Delivered Emptied
CHECK_DEADLOCK FALSE
