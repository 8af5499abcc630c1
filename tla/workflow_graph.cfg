SPECIFICATION Spec
CONSTANTS
  RunID = RunID
  Tasks = {t1, t2, t3}
  CommandIDs = {}
  Fresh = Fresh
  Artifacts = {a1}
  Commits = {k1}
  LeaseIDs = {l1}
  Times = {0, 1}
  MaxAttempts = 1
  MaxRevision = 4
  StaleReads = 0
  Nil = Nil
SYMMETRY Symmetry
CHECK_DEADLOCK FALSE
INVARIANTS
  DependenciesHonoured
  NoStarvedGraph
  RunAndTasksAgree
PROPERTIES
  SettledIsFinal
