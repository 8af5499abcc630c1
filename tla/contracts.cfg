SPECIFICATION ReasoningSpec
CONSTANTS
  Digests <- MCDigests
  Criteria = {"k1", "k2", "k3"}
  CheckIDs = {"h1", "h2"}
  TaskIDs = {"t1", "t2", "t3"}
  Commits = {"c1", "c2"}
  EvidenceIDs = {"v1", "v2", "v3"}
  FileOperations = {"create", "update", "delete"}
  Resources = {"db"}
  Stages <- MCStages
  BaseRequest <- MCBaseRequest
  BaseProposal <- MCBaseProposal
  RequestDefects <- MCRequestDefects
  ProposalDefects <- MCProposalDefects
  ChangeDefects <- MCChangeDefects
  Requests <- MCRequests
  Graphs <- MCGraphs
  Now = 2
  MaxDefects = 3
  Nil = Nil
CHECK_DEADLOCK FALSE
INVARIANTS
  FirstRejection
  AcceptedChangesInScope
  AcceptedReviewIsGrounded
  AcceptedPlanIsSound
