CONSTANTS
  t1 = t1
  t2 = t2
  Txns = {t1, t2}
  App = App
  Prior = Prior
  NoFile = NoFile
  Overlap = TRUE
SPECIFICATION Spec
SYMMETRY Symmetry
INVARIANTS PriorKept
