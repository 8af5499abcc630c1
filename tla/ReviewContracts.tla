--------------------------- MODULE ReviewContracts ---------------------------
(***************************************************************************)
(* The review contract of the reasoning stages:                            *)
(*   go/internal/reasoning/contracts/review.go                             *)
(* over the messages and defects of Contracts: request and proposal are a  *)
(* ReviewRequest and a ReviewProposal here.                                *)
(***************************************************************************)
EXTENDS Contracts

CONSTANTS EvidenceIDs, FileOperations

isSequence(s) == s \in Seq(elements(s))

listsOf(value) ==
  /\ \A f \in {"diff", "criteria", "coverage"} \cap DOMAIN value :
       isSequence(value[f])
  /\ "report" \in DOMAIN value /\ value["report"] # Nil =>
       /\ isSequence(value["report"].authorized)
       /\ isSequence(value["report"].unexpected)

(* Every repeated field of a message is a sequence.                        *)
ASSUME ListsAssumption ==
  \A s \in Stages :
    /\ listsOf(BaseRequest[s])
    /\ \A d \in RequestDefects[s] : listsOf(d.damage)

distinct(s) == \A i, j \in DOMAIN s : s[i] = s[j] => i = j

-----------------------------------------------------------------------------
(* Review requests.                                                        *)

validateReviewRequestShape(r) ==
  /\ r.envelope /\ r.candidate # Nil
  /\ r.created # Nil /\ r.expires # Nil /\ r.budget # Nil
  /\ r.report # Nil /\ r.policy # Nil /\ r.diff # <<>>

validateReviewCandidate(c) ==
  /\ digestPattern(c.specification) /\ digestPattern(c.task)
  /\ c.base \in Commits /\ c.commit \in Commits
  /\ digestPattern(c.proposal)
  /\ c.base # c.commit

validateReviewRequestBindings(r, now) ==
  /\ mapEnvelopeTimes(r)
  /\ r.id # "" /\ r.run # "" /\ r.task # Nil /\ r.attempt # 0
  /\ unexpired(r, now)
  /\ validateReviewCandidate(r.candidate) /\ digestPattern(r.manifest)
  /\ mapArtifacts(r)

mapActualDiff(r) ==
  /\ \A i \in DOMAIN r.diff :
       /\ validRepoPath(r.diff[i].path) /\ r.diff[i].op \in FileOperations
       /\ digestPattern(r.diff[i].before) /\ digestPattern(r.diff[i].after)
  /\ distinct([i \in DOMAIN r.diff |-> r.diff[i].path])

actualPaths(r) == {r.diff[i].path : i \in DOMAIN r.diff}

(* Mutant: a path that is reported twice is not noticed.                   *)
validateScopeReport_Duplicates(r) ==
  /\ Len(r.report.authorized) + Len(r.report.unexpected) =
       Cardinality(actualPaths(r))
  /\ \A i \in DOMAIN r.report.authorized :
       /\ r.report.authorized[i] \in actualPaths(r)
       /\ pathWithin(r.report.authorized[i], r.writable)
  /\ elements(r.report.unexpected) \subseteq actualPaths(r)

(* As many paths as were changed, each one changed, none twice.            *)
validateScopeReport(r) ==
  /\ Len(r.report.authorized) + Len(r.report.unexpected) =
       Cardinality(actualPaths(r))
  /\ \A i \in DOMAIN r.report.authorized :
       /\ r.report.authorized[i] \in actualPaths(r)
       /\ pathWithin(r.report.authorized[i], r.writable)
  /\ elements(r.report.unexpected) \subseteq actualPaths(r)
  /\ distinct(r.report.authorized \o r.report.unexpected)

validateReviewRequestScope(r) ==
  /\ r.writable # {}
  /\ \A p \in r.writable : validRepoPath(p)
  /\ mapActualDiff(r)
  /\ validateScopeReport(r)

mapIndependentEvidence(r) ==
  /\ \A i \in DOMAIN r.evidence :
       /\ r.evidence[i].id \in EvidenceIDs /\ r.evidence[i].check \in CheckIDs
       /\ r.evidence[i].commit = r.candidate.commit
       /\ digestPattern(r.evidence[i].sha256)
       /\ r.evidence[i].uri = <<"artifact", r.evidence[i].sha256>>
       /\ r.evidence[i].started # Nil /\ r.evidence[i].completed # Nil
       /\ r.evidence[i].completed > r.evidence[i].started
  /\ distinct([i \in DOMAIN r.evidence |-> r.evidence[i].id])

(* Mutant: evidence counts whatever its exit code is.                      *)
passingEvidence_Any(r) == {r.evidence[i].id : i \in DOMAIN r.evidence}

passingEvidence(r) ==
  {r.evidence[i].id : i \in {j \in DOMAIN r.evidence : r.evidence[j].exit = 0}}

(* Mutant: a criterion may be listed twice.                                *)
mapAcceptanceCoverage_Twice(r) ==
  /\ \A i \in DOMAIN r.coverage :
       /\ r.coverage[i].criterion \in Criteria
       /\ r.coverage[i].criterion \in elements(r.criteria)
       /\ r.coverage[i].evidence # {}
       /\ r.coverage[i].evidence \subseteq passingEvidence(r)
  /\ Len(r.coverage) = Len(r.criteria)

(* As many distinct criteria as were approved.                             *)
mapAcceptanceCoverage(r) ==
  /\ \A i \in DOMAIN r.coverage :
       /\ r.coverage[i].criterion \in Criteria
       /\ r.coverage[i].criterion \in elements(r.criteria)
       /\ r.coverage[i].evidence # {}
       /\ r.coverage[i].evidence \subseteq passingEvidence(r)
  /\ distinct([i \in DOMAIN r.coverage |-> r.coverage[i].criterion])
  /\ Len(r.coverage) = Len(r.criteria)

validateReviewRequestCoverage(r) ==
  /\ r.criteria # <<>> /\ validCriteria(r.criteria)
  /\ r.evidence # <<>> /\ mapIndependentEvidence(r)
  /\ r.coverage # <<>> /\ mapAcceptanceCoverage(r)

mapReviewPolicy(r) ==
  "UNSPECIFIED" \notin r.policy.blocking /\ "CRITICAL" \in r.policy.blocking

validateReviewRequestPolicy(r) ==
  /\ r.version = "1" /\ r.stage = "review"
  /\ validateEnvelopeBudget(r)
  /\ mapReviewPolicy(r)

convertReviewRequest(r) ==
  /\ r.candidate # Nil
  /\ MapEnvelope(r, "review")
  /\ validateReviewCandidate(r.candidate)
  /\ mapActualDiff(r) /\ validateScopeReport(r)
  /\ mapIndependentEvidence(r) /\ mapAcceptanceCoverage(r)
  /\ mapReviewPolicy(r)

MapReviewRequestAt(r, now) ==
  IF ~validateReviewRequestShape(r) THEN "SCHEMA_INVALID" ELSE
  IF ~validateReviewRequestBindings(r, now) THEN "REQUEST_MISMATCH" ELSE
  IF ~validateAuthority(r) THEN "AUTHORITY_VIOLATION" ELSE
  IF ~validateReviewRequestScope(r) THEN "SCOPE_VIOLATION" ELSE
  IF ~validateReviewRequestCoverage(r) THEN "REQUIRED_COVERAGE_MISSING" ELSE
  IF ~validateReviewRequestPolicy(r) THEN "SCHEMA_INVALID" ELSE
  IF ~convertReviewRequest(r) THEN "error" ELSE "ok"

-----------------------------------------------------------------------------
(* Review proposals.                                                       *)

mapReviewRecommendation(p) ==
  p.recommendation \in {"rework_required", "advisory_accept"}

wellFormedFinding(f) ==
  /\ f.id # "" /\ f.severity # "UNSPECIFIED" /\ f.category # "UNSPECIFIED"
  /\ f.summary # "" /\ f.references # {}

collectReviewEvidenceIDs(r) == {r.evidence[i].id : i \in DOMAIN r.evidence}

(* The findings are checked in their order: the first that fails decides.  *)
findingCode(p, r, i) ==
  IF \/ ~wellFormedFinding(p.findings[i])
     \/ \E j \in 1..i - 1 : p.findings[j].id = p.findings[i].id
  THEN "SCHEMA_INVALID"
  ELSE IF ~(p.findings[i].references \subseteq collectReviewEvidenceIDs(r))
  THEN "REQUEST_MISMATCH" ELSE "ok"

mapReviewFindings(p, r) ==
  LET failing == {i \in DOMAIN p.findings : findingCode(p, r, i) # "ok"}
  IN  IF failing = {} THEN "ok"
      ELSE findingCode(p, r, CHOOSE i \in failing : \A j \in failing : i <= j)

hasBlockingFinding(p, r) ==
  \E i \in DOMAIN p.findings : p.findings[i].severity \in r.policy.blocking

mapRequiredActions(p) ==
  \A a \in p.actions :
    /\ a.id # "" /\ a.description # ""
    /\ \E i \in DOMAIN p.findings : p.findings[i].id = a.finding

mapResidualRisks(p) ==
  \A k \in p.risks : k.id # "" /\ k.description # "" /\
                     k.severity # "UNSPECIFIED"

(* Mutant: only critical findings are held against the recommendation.     *)
MapReviewProposal_Critical(p, r) ==
  IF ~p.identity THEN "SCHEMA_INVALID" ELSE
  IF ~validateProposalIdentity(p, r, "review") THEN "REQUEST_MISMATCH" ELSE
  IF ~mapReviewRecommendation(p) THEN "SCHEMA_INVALID" ELSE
  IF mapReviewFindings(p, r) # "ok" THEN mapReviewFindings(p, r) ELSE
  IF /\ \E i \in DOMAIN p.findings : p.findings[i].severity = "CRITICAL"
     /\ p.recommendation # "rework_required"
  THEN "AUTHORITY_VIOLATION" ELSE
  IF ~mapRequiredActions(p) THEN "REQUIRED_COVERAGE_MISSING" ELSE
  IF ~mapResidualRisks(p) THEN "SCHEMA_INVALID" ELSE "ok"

MapReviewProposal(p, r) ==
  IF ~p.identity THEN "SCHEMA_INVALID" ELSE
  IF ~validateProposalIdentity(p, r, "review") THEN "REQUEST_MISMATCH" ELSE
  IF ~mapReviewRecommendation(p) THEN "SCHEMA_INVALID" ELSE
  IF mapReviewFindings(p, r) # "ok" THEN mapReviewFindings(p, r) ELSE
  IF hasBlockingFinding(p, r) /\ p.recommendation # "rework_required"
  THEN "AUTHORITY_VIOLATION" ELSE
  IF ~mapRequiredActions(p) THEN "REQUIRED_COVERAGE_MISSING" ELSE
  IF ~mapResidualRisks(p) THEN "SCHEMA_INVALID" ELSE "ok"

-----------------------------------------------------------------------------
(* Properties.                                                             *)

requestAccepted ==
  stage = "review" /\ MapReviewRequestAt(request, Now) = "ok"

(* Reviews keep the documented order but for two fields of the envelope,   *)
(* which no check of the schema looks at: the version is a matter of the   *)
(* policy, and a missing authority one of the authority.                   *)
lookedAtLate(r, broken) ==
  LET others == broken \ {"schema"}
  IN  IF r.version # "1" THEN others \cup {"policy"}
      ELSE IF r.authority = Nil THEN others \cup {"authority"} ELSE broken

(* A review request gets the code of the earliest phase that has a defect, *)
(* in the documented order but for these two fields, and never an error    *)
(* without a code (MapReviewRequestAt).                                    *)
FirstRejectionOfReview ==
  stage = "review" =>
    MapReviewRequestAt(request, Now) =
      expected(lookedAtLate(request, kinds.request))

(* The schema of a review proposal is looked at in pieces, the risks last  *)
(* of all.  So the code is that of the documented order with or without    *)
(* the schema; it is never that of a later phase (MapReviewProposal).      *)
FirstRejectionOfReviewProposal ==
  stage = "review" /\ kinds.request = {} =>
    LET code == MapReviewProposal(proposal, request)
    IN  IF kinds.proposal = {} THEN code = "ok"
        ELSE code \in {expected(kinds.proposal),
                       expected(kinds.proposal \ {"schema"})} \ {"ok"}

(* The lengths and the tests on duplicates together force a partition: the *)
(* report of an accepted request names every changed path once, and every  *)
(* path changed outside the writable scope as unexpected.                  *)
ReportIsPartition ==
  requestAccepted =>
    LET authorized == elements(request.report.authorized)
        unexpected == elements(request.report.unexpected)
    IN  /\ authorized \cup unexpected = actualPaths(request)
        /\ authorized \cap unexpected = {}
        /\ \A p \in actualPaths(request) :
             ~pathWithin(p, request.writable) => p \in unexpected

(* Every approved criterion of an accepted request rests on evidence that  *)
(* passed, and that was made on the candidate under review.                *)
EveryCriterionHasPassingEvidence ==
  requestAccepted =>
    \A c \in elements(request.criteria) : \E i \in DOMAIN request.evidence :
      /\ request.evidence[i].exit = 0
      /\ request.evidence[i].commit = request.candidate.commit
      /\ \E j \in DOMAIN request.coverage :
           /\ request.coverage[j].criterion = c
           /\ request.evidence[i].id \in request.coverage[j].evidence

(* An accepted review that has a finding of a severity that blocks asks    *)
(* for rework, whatever the provider recommends, and so has every accepted *)
(* review with a critical finding.                                         *)
BlockingFindingsAskForRework ==
  ( /\ requestAccepted
    /\ MapReviewProposal(proposal, request) = "ok"
    /\ proposal.recommendation # "rework_required" ) =>
  \A i \in DOMAIN proposal.findings :
    proposal.findings[i].severity
      \notin request.policy.blocking \cup {"CRITICAL"}

(* Implementations and reviews, requests and proposals, are refused for    *)
(* the first of their defects: in the documented order, but for what the   *)
(* review contract is said above to look at late.                          *)
FirstRejection ==
  /\ FirstRejectionOfRequest /\ FirstRejectionOfProposal
  /\ FirstRejectionOfReview /\ FirstRejectionOfReviewProposal

(* A review is accepted only on complete evidence: a report that accounts  *)
(* for every changed path, a passing check for every criterion, and rework *)
(* for every finding that blocks.                                          *)
AcceptedReviewIsGrounded ==
  /\ ReportIsPartition
  /\ EveryCriterionHasPassingEvidence
  /\ BlockingFindingsAskForRework

=============================================================================
