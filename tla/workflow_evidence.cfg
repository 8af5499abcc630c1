SPECIFICATION Spec
CONSTANTS
  RunID = RunID
  Tasks = {t1}
  CommandIDs = {c1}
  Fresh = Fresh
  Artifacts = {a1}
  Commits = {k1, k2}
  LeaseIDs = {l1}
  Times = {0, 1}
  MaxAttempts = 2
  MaxRevision = 4
  StaleReads = 1
  Nil = Nil
SYMMETRY Symmetry
CHECK_DEADLOCK FALSE
INVARIANTS
  LedgerExact
  EvidenceBound
