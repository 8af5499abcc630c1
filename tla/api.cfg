SPECIFICATION FairAPISpec
CONSTANTS
  RunID = r
  T = t1
  Tasks <- MCTasks
  CommandIDs <- MCCommandIDs
  Fresh = Fresh
  Artifacts <- MCArtifacts
  Commits <- MCCommits
  LeaseIDs <- MCTasks
  Times = {0, 1}
  MaxAttempts = 2
  MaxRevision = 9
  StaleReads = 0
  Nil = Nil
  Keys = {k1, k2}
  Handlers = {h1, h2}
  Uses <- MCUses
  Elevated = TRUE
  Starts = {"draft", "specified", "planned"}
  MaxFaults = 1
CHECK_DEADLOCK FALSE
INVARIANTS
  ApprovedOnTaskEvidence
  DecisionsRecordedWhole
PROPERTIES
  DecidedOnce
  
