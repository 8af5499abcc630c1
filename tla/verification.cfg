SPECIFICATION FairVerifSpec
CONSTANTS
  RunID = r
  T = t1
  Tasks <- MCTasks
  CommandIDs <- MCCommandIDs
  Fresh = Fresh
  Artifacts <- MCArtifacts
  Commits = {"candidate"}
  Candidate = "candidate"
  Report = report
  LeaseIDs = {l1}
  Times = {0, 1}
  Expiry = 1
  MaxAttempts = 1
  MaxRevision = 6
  StaleReads = 0
  Nil = Nil
  Criteria = {"c1", "c2"}
  Catalog = {"k1", "k2"}
  Requests <- MCRequests
  Workers = {w1, w2}
  MaxConcurrent = 1
  MaxCollections = 2
  MaxFaults = 1
CHECK_DEADLOCK FALSE
INVARIANTS
  PassedMeansEveryCriterion
PROPERTIES
  VerificationSettles
  VerifiedOnce
