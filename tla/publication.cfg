SPECIFICATION PubSpec
CONSTANTS
  RunID = "r"
  Tasks = {t1}
  CommandIDs = {"k1", "k2"}
  Fresh = Fresh
  Artifacts = {"spec"}
  Commits = {"candidate"}
  LeaseIDs = {l1}
  Times = {0, 1}
  MaxAttempts = 1
  MaxRevision = 12
  StaleReads = 0
  Nil = Nil
  Keys = {"k1", "k2"}
  Callers = {w1, w2}
  Serves <- MCServes
  Base = "base"
  Candidate = "candidate"
  Foreign = "foreign"
  Bodies <- MCBodies
  MaxFaults = 1
  MaxOthers = 1
CHECK_DEADLOCK FALSE
INVARIANTS
  PublishedWasApproved
PROPERTIES
  LedgerLeads
  ForeignWorkSurvives
  SubmissionRecorded
