CONSTANTS
  t1 = t1
  t2 = t2
  Txns = {t1, t2}
  Installed = Installed
  NoFile = NoFile
  Torn = Torn
  Unhashed = {t2}
  Overlap = FALSE
SPECIFICATION FairSpec
INVARIANTS TypeOK NoLoss VerifiedOnly TrueCodes
PROPERTIES PromiseSpec MarkerLeadsToCommit
