SPECIFICATION FairExecSpec
CONSTANTS
  RunID = r
  Tasks = {t1}
  CommandIDs <- MCCommandIDs
  Fresh = Fresh
  Artifacts <- MCArtifacts
  Commits = {p1, p2}
  LeaseIDs = {t1}
  Times = {0, 1, 2}
  MaxAttempts = 1
  MaxRevision = 6
  StaleReads = 0
  Nil = Nil
  Proposals = {p1, p2}
  w1 = w1
  w2 = w2
  q1 = q1
  q2 = q2
  Workers = {w1, w2}
  Processes = {q1, q2}
  Home <- HomeApart
  MaxConcurrent = 1
  MaxWorktrees = 1
  Expiry = 2
  MaxFaults = 2
CHECK_DEADLOCK FALSE
INVARIANTS
  SlotsAccounted
  CandidateOfAcceptedProposal
PROPERTIES
  ExecutionSettles
  ExecutedOnce
