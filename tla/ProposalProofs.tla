--------------------------- MODULE ProposalProofs ----------------------------
(***************************************************************************)
(* What a proposal may be, and how it is applied.                          *)
(*                                                                         *)
(* Contracts.  Path scopes, for every set of paths: nesting is transitive, *)
(* two roots of one path are nested, and so the scopes of a request bound  *)
(* what an accepted proposal, or a planned task, may write.  Reviews, for  *)
(* every request: what lengths and tests on duplicates force.  And which   *)
(* checks can still fail once the typed ones have passed.                  *)
(*                                                                         *)
(* Candidate.  For all trees, proposals and workers on one worktree path:  *)
(* what a candidate commit and its diff are, and that what was accepted    *)
(* can be applied.                                                         *)
(***************************************************************************)
EXTENDS ReviewContracts, Candidate, TLAPS

(* Most leaves are first-order steps, which Zenon proves; a leaf that      *)
(* needs arithmetic or the fields of records names SMT.                    *)
USE Zenon

(* What is under a path that is under a root is under the root             *)
(* (pathWithin applied twice).                                             *)
LEMMA UnderTransitive ==
  ASSUME NEW p \in RepoPaths, NEW q \in RepoPaths, NEW r \in RepoPaths,
         under(p, q), under(q, r)
  PROVE  under(p, r)
  BY SMT DEF under, RepoPaths

(* Of two roots of one path, one is under the other: the two-sided test of *)
(* validatePathScopes leaves no other way to overlap.                      *)
LEMMA RootsAreNested ==
  ASSUME NEW p \in RepoPaths, NEW q \in RepoPaths, NEW r \in RepoPaths,
         under(p, q), under(p, r)
  PROVE  under(q, r) \/ under(r, q)
<1>1. Len(q) \in Nat /\ Len(r) \in Nat
  BY SMT DEF RepoPaths
<1>2. CASE Len(r) <= Len(q)
  BY <1>1, <1>2, SMT DEF under, RepoPaths
<1>3. CASE Len(q) <= Len(r)
  BY <1>1, <1>3, SMT DEF under, RepoPaths
<1>4. QED
  BY <1>1, <1>2, <1>3, SMT

(* A task that is planned within the writable scope of a valid request     *)
(* (mapPlannedTask) can write nothing that the request prohibits, although *)
(* planning never compares the task with the prohibited paths.             *)
THEOREM WritableMeetsNoProhibited ==
  ASSUME NEW readable \in SUBSET RepoPaths, NEW writable \in SUBSET RepoPaths,
         NEW prohibited \in SUBSET RepoPaths, NEW tasks \in SUBSET RepoPaths,
         validatePathScopes(readable, writable, prohibited),
         pathsWithin(tasks, writable),
         NEW p \in RepoPaths, pathWithin(p, tasks)
  PROVE  ~pathIsProhibited(p, prohibited) /\ pathWithin(p, readable)
<1>1. PICK t \in tasks : under(p, t)
  BY DEF pathWithin
<1>2. PICK w \in writable : under(t, w)
  BY <1>1 DEF pathsWithin, pathWithin
<1>3. under(p, w)
  BY <1>1, <1>2, UnderTransitive
<1>4. PICK r \in readable : under(w, r)
  BY <1>2 DEF validatePathScopes, pathsWithin, pathWithin
<1>5. under(p, r)
  BY <1>3, <1>4, UnderTransitive
<1>6. ASSUME NEW q \in prohibited, under(p, q)
      PROVE  FALSE
  <2>1. under(w, q) \/ under(q, w)
    BY <1>3, <1>6, RootsAreNested
  <2>2. overlap(w, q)
    BY <2>1 DEF overlap, pathWithin
  <2>3. QED
    BY <2>2 DEF validatePathScopes
<1>7. ~pathIsProhibited(p, prohibited)
  BY <1>6 DEF pathIsProhibited, pathWithin
<1>8. pathWithin(p, readable)
  BY <1>5 DEF pathWithin
<1>9. QED
  BY <1>7, <1>8

-----------------------------------------------------------------------------
(* The messages of the implementation stage, which have these fields.      *)
ImplementationMessages ==
  /\ scopes \subseteq DOMAIN BaseRequest["implementation"]
  /\ "changes" \in DOMAIN BaseProposal["implementation"]

(* Damaged or not, a message has paths for paths.                          *)
MessagePaths ==
  /\ stage \in Stages
  /\ stage = "implementation" =>
       /\ scopes \subseteq DOMAIN request
       /\ "changes" \in DOMAIN proposal
       /\ \A f \in scopes : request[f] \subseteq RepoPaths
       /\ \A c \in proposal["changes"] : c.path \in RepoPaths

(* Paths stay paths, whatever defects a message has.                       *)
LEMMA MessagePathsInvariant ==
  ASSUME ImplementationMessages
  PROVE  ContractsSpec => []MessagePaths
<1>1. ContractsInit => MessagePaths
  BY PathsAssumption DEF ImplementationMessages, ContractsInit, MessagePaths,
                         pathsOf, changesOf
<1>2. MessagePaths /\ [ContractsNext]_messageVars => MessagePaths'
  <2> SUFFICES ASSUME MessagePaths, [ContractsNext]_messageVars
               PROVE  MessagePaths'
    OBVIOUS
  <2>1. ASSUME NEW d \in RequestDefects[stage], DamageRequest(d)
        PROVE  MessagePaths'
    <3>1. pathsOf(d.damage)
      BY PathsAssumption DEF MessagePaths
    <3>2. /\ request' = overwrite(request, d.damage)
          /\ proposal' = proposal /\ stage' = stage
      BY <2>1 DEF DamageRequest
    <3> QED
      BY <3>1, <3>2 DEF MessagePaths, pathsOf, overwrite
  <2>2. ASSUME NEW d \in ProposalDefects[stage], DamageProposal(d)
        PROVE  MessagePaths'
    <3>1. changesOf(d.damage)
      BY PathsAssumption DEF MessagePaths
    <3>2. /\ proposal' = overwrite(proposal, d.damage)
          /\ request' = request /\ stage' = stage
      BY <2>2 DEF DamageProposal
    <3> QED
      BY <3>1, <3>2 DEF MessagePaths, changesOf, overwrite
  <2>3. ASSUME NEW d \in ChangeDefects[stage], AddChange(d)
        PROVE  MessagePaths'
    <3>1. d.change.path \in RepoPaths
      BY PathsAssumption DEF MessagePaths
    <3>2. /\ proposal' = [proposal EXCEPT !["changes"] = @ \cup {d.change}]
          /\ request' = request /\ stage' = stage
      BY <2>3 DEF AddChange
    <3> QED
      BY <3>1, <3>2 DEF MessagePaths
  <2>4. CASE UNCHANGED messageVars
    BY <2>4 DEF MessagePaths, messageVars
  <2>5. QED
    BY <2>1, <2>2, <2>3, <2>4 DEF ContractsNext
<1>3. QED
  BY <1>1, <1>2, PTL DEF ContractsSpec

(* What MapImplementationProposal accepts, for a request that              *)
(* MapImplementationRequestAt accepts, changes readable paths that lie     *)
(* neither below nor above a prohibited one: for every request, proposal   *)
(* and set of defects.                                                     *)
THEOREM ChangesInScope ==
  ASSUME ImplementationMessages
  PROVE  ContractsSpec => []AcceptedChangesInScope
<1>1. MessagePaths => AcceptedChangesInScope
  <2> SUFFICES ASSUME MessagePaths, accepted, NEW c \in proposal.changes
               PROVE  /\ pathWithin(c.path, request.readable)
                      /\ \A q \in request.prohibited :
                           ~under(c.path, q) /\ ~under(q, c.path)
    BY DEF AcceptedChangesInScope
  <2>1. validatePathScopes(request.readable, request.writable,
                           request.prohibited)
    BY DEF accepted, MapImplementationRequestAt,
           validateImplementationRequest, validateImplementationRequestScope
  <2>2. inScope(c, request)
    BY DEF accepted, MapImplementationProposal,
           validateImplementationProposal, validateImplementationProposalScope
  <2>3. /\ c.path \in RepoPaths /\ request.writable \subseteq RepoPaths
        /\ request.readable \subseteq RepoPaths
        /\ request.prohibited \subseteq RepoPaths
    BY DEF MessagePaths, accepted, scopes
  <2>4. PICK w \in request.writable : under(c.path, w)
    BY <2>2 DEF inScope, pathWithin
  <2>5. PICK r \in request.readable : under(w, r)
    BY <2>1, <2>4 DEF validatePathScopes, pathsWithin, pathWithin
  <2>6. under(c.path, r)
    BY <2>3, <2>4, <2>5, UnderTransitive
  <2>7. \A q \in request.prohibited : ~under(c.path, q)
    BY <2>2 DEF inScope, pathIsProhibited, pathWithin
  <2>8. ASSUME NEW q \in request.prohibited, under(q, c.path)
        PROVE  FALSE
    <3>1. under(q, w)
      BY <2>3, <2>4, <2>8, UnderTransitive
    <3>2. overlap(w, q)
      BY <3>1 DEF overlap, pathWithin
    <3>3. QED
      BY <2>1, <2>4, <3>2 DEF validatePathScopes
  <2>9. QED
    BY <2>6, <2>7, <2>8 DEF pathWithin
<1>2. QED
  BY <1>1, MessagePathsInvariant, PTL

(* The typed checks of a review request leave nothing for its conversion   *)
(* to refuse: whatever the request, MapReviewRequestAt answers with a code *)
(* or accepts, and never with an error that has no code.                   *)
THEOREM ReviewRequestsGetCodes ==
  ASSUME NEW r, NEW now PROVE MapReviewRequestAt(r, now) # "error"
<1> SUFFICES ASSUME validateReviewRequestShape(r),
                    validateReviewRequestBindings(r, now),
                    validateAuthority(r), validateReviewRequestScope(r),
                    validateReviewRequestCoverage(r),
                    validateReviewRequestPolicy(r)
             PROVE  convertReviewRequest(r)
  BY DEF MapReviewRequestAt
<1>1. QED
  BY DEF validateReviewRequestShape, validateReviewRequestBindings,
         validateReviewRequestScope, validateReviewRequestCoverage,
         validateReviewRequestPolicy, convertReviewRequest, MapEnvelope,
         validateEnvelopeHeader

(* The same for implementation requests, but for one kind of request: the  *)
(* one that names no check passes the typed checks and is refused by       *)
(* validateImplementationRequestFields, without a code.                    *)
THEOREM ImplementationRequestsGetCodes ==
  ASSUME NEW r, NEW now, MapImplementationRequestAt(r, now) = "error"
  PROVE  r.checks = {}
<1>1. validateImplementationRequest(r, now) = "ok"
  BY DEF MapImplementationRequestAt, validateImplementationRequest
<1>2. /\ validateImplementationRequestSchema(r)
      /\ validateImplementationRequestIdentity(r, now)
      /\ validateImplementationRequestBindings(r)
      /\ validateAuthority(r) /\ validateImplementationRequestScope(r)
      /\ validCriteria(r.criteria) /\ validateImplementationRequestPolicy(r)
  BY <1>1 DEF validateImplementationRequest
<1>3. ~convertImplementationRequest(r)
  BY <1>1 DEF MapImplementationRequestAt
<1>4. MapEnvelope(r, "implementation")
  BY <1>2 DEF validateImplementationRequestSchema,
     validateImplementationRequestIdentity,
     validateImplementationRequestBindings,
     validateImplementationRequestPolicy, MapEnvelope, validateEnvelopeHeader
<1>5. ~validateImplementationRequestFields(r)
  BY <1>2, <1>3, <1>4 DEF convertImplementationRequest,
     mapRepositoryContextFile, validateImplementationRequestScope,
     validateImplementationRequestBindings,
     validateImplementationRequestPolicy
<1>6. QED
  BY <1>2, <1>5 DEF validateImplementationRequestFields,
     validateImplementationRequestIdentity,
     validateImplementationRequestBindings,
     validateImplementationRequestPolicy

(* The answers of a provider are accepted or refused with a code, whatever *)
(* the request (MapImplementationProposal).                                *)
THEOREM ImplementationProposalsGetCodes ==
  ASSUME NEW p, NEW r PROVE MapImplementationProposal(p, r) # "error"
<1> SUFFICES ASSUME validateImplementationProposalSchema(p),
                    validateImplementationProposalIdentity(p, r),
                    validateImplementationProposalBindings(p, r),
                    validateImplementationProposalScope(p, r),
                    validateImplementationCoverage(p, r),
                    validateImplementationProposalPolicy(p)
             PROVE  convertImplementationProposal(p, r)
  BY DEF MapImplementationProposal, validateImplementationProposal
<1>1. validateProposalIdentity(p, r, "implementation") /\ sameTask(p, r)
  BY DEF validateImplementationProposalIdentity,
         validateImplementationProposalBindings,
         validateImplementationProposalPolicy, validateProposalIdentity
<1>2. QED
  BY <1>1 DEF validateImplementationProposalSchema,
              validateImplementationProposalScope,
              validateImplementationProposalPolicy,
              convertImplementationProposal, mapFileChange

-----------------------------------------------------------------------------
(* Reviews.  Three facts of counting, which are shown at the end: a        *)
(* sequence without duplicates that has as many entries as a finite set    *)
(* has members, all of them members, has every member; the values of a     *)
(* function on 1..n are at most n; they are n when no two are the same.    *)
Counting ==
  /\ \A S : \A n \in Nat : \A f \in [1..n -> S] :
       IsFiniteSet(S) /\ Cardinality(S) <= n /\ distinct(f)
         => \A x \in S : \E i \in 1..n : f[i] = x
  /\ \A S : \A n \in Nat : \A f \in [1..n -> S] :
       S = {f[i] : i \in 1..n} => IsFiniteSet(S) /\ Cardinality(S) <= n
  /\ \A S : \A n \in Nat : \A f \in [1..n -> S] :
       S = {f[i] : i \in 1..n} /\ distinct(f) => Cardinality(S) = n

(* What a report of a valid scope accounts for.                            *)
LEMMA ReportPartitions ==
  ASSUME Counting, NEW r, isSequence(r.diff), isSequence(r.report.authorized),
         isSequence(r.report.unexpected), validateScopeReport(r)
  PROVE  /\ elements(r.report.authorized) \cup elements(r.report.unexpected)
              = actualPaths(r)
         /\ elements(r.report.authorized) \cap elements(r.report.unexpected)
              = {}
         /\ \A p \in actualPaths(r) : ~pathWithin(p, r.writable) =>
              p \in elements(r.report.unexpected)
<1>1. PICK a, u, P, m : /\ a = r.report.authorized /\ u = r.report.unexpected
                        /\ P = actualPaths(r) /\ m = Len(r.diff)
  OBVIOUS
<1>2. /\ a \in Seq(elements(a)) /\ u \in Seq(elements(u))
      /\ r.diff \in Seq(elements(r.diff))
  BY <1>1 DEF isSequence
<1>3. /\ Len(a) \in Nat /\ Len(u) \in Nat /\ m \in Nat
      /\ DOMAIN a = 1..Len(a) /\ DOMAIN u = 1..Len(u)
      /\ DOMAIN r.diff = 1..m
  BY <1>1, <1>2, SMT
<1>4. /\ Len(a) + Len(u) = Cardinality(P) /\ distinct(a \o u)
      /\ \A i \in DOMAIN a : a[i] \in P /\ pathWithin(a[i], r.writable)
      /\ \A i \in DOMAIN u : u[i] \in P
  BY <1>1 DEF validateScopeReport, elements
<1>5. IsFiniteSet(P)
  <2>1. PICK f : f = [i \in 1..m |-> r.diff[i].path]
    OBVIOUS
  <2>2. P = {f[i] : i \in 1..m}
    BY <1>1, <1>3, <2>1 DEF actualPaths
  <2>3. DOMAIN f = 1..m /\ f \in [1..m -> P]
    BY <2>1, <2>2
  <2>4. QED
    BY <1>3, <2>2, <2>3 DEF Counting
<1>6. PICK n, s : n = Len(a) + Len(u) /\ s = a \o u
  OBVIOUS
<1>7. a \in Seq(P) /\ u \in Seq(P)
  <2>1. a \in [1..Len(a) -> P]
    BY <1>2, <1>3, <1>4, SMT
  <2>2. u \in [1..Len(u) -> P]
    BY <1>2, <1>3, <1>4, SMT
  <2>3. QED
    BY <1>3, <2>1, <2>2, SMT
<1>8. /\ s \in [1..n -> P] /\ n \in Nat
      /\ \A i \in 1..Len(a) : s[i] = a[i]
      /\ \A i \in 1..Len(u) : s[Len(a) + i] = u[i]
  <2>1. s \in Seq(P) /\ Len(s) = n /\ n \in Nat
    BY <1>3, <1>6, <1>7, SMT
  <2>2. s \in [1..n -> P]
    BY <2>1, SMT
  <2>3. \A i \in 1..Len(a) : s[i] = a[i]
    BY <1>3, <1>6, <1>7, SMT
  <2>4. \A i \in 1..Len(u) : s[Len(a) + i] = u[i]
    BY <1>3, <1>6, <1>7, SMT
  <2>5. QED
    BY <2>1, <2>2, <2>3, <2>4
<1>9. \A p \in P : \E i \in 1..n : s[i] = p
  <2>1. Cardinality(P) <= n /\ distinct(s)
    BY <1>4, <1>6, <1>8, SMT
  <2>2. QED
    BY <1>5, <1>8, <2>1, SMT DEF Counting
<1>10. ASSUME NEW p \in P PROVE p \in elements(a) \cup elements(u)
  <2>1. PICK i \in 1..n : s[i] = p
    BY <1>9
  <2>2. CASE i <= Len(a)
    BY <1>3, <1>8, <2>1, <2>2, SMT DEF elements
  <2>3. CASE i > Len(a)
    <3>1. PICK j : j = i - Len(a)
      OBVIOUS
    <3>2. j \in 1..Len(u) /\ i = Len(a) + j
      BY <1>3, <1>6, <2>3, <3>1, SMT
    <3>3. QED
      BY <1>3, <1>8, <2>1, <3>2 DEF elements
  <2>4. QED
    BY <1>3, <1>6, <2>2, <2>3, SMT
<1>11. elements(a) \cup elements(u) = P
  BY <1>4, <1>10 DEF elements
<1>12. ASSUME NEW i \in DOMAIN a, NEW j \in DOMAIN u, a[i] = u[j]
       PROVE  FALSE
  <2>1. /\ i \in 1..n /\ Len(a) + j \in 1..n /\ i # Len(a) + j
    BY <1>3, <1>6, SMT
  <2>2. s[i] = s[Len(a) + j]
    BY <1>3, <1>8, <1>12
  <2>3. DOMAIN s = 1..n /\ distinct(s)
    BY <1>4, <1>6, <1>8
  <2>4. QED
    BY <2>1, <2>2, <2>3 DEF distinct
<1>13. elements(a) \cap elements(u) = {}
  BY <1>12 DEF elements
<1>14. \A p \in P : ~pathWithin(p, r.writable) => p \in elements(u)
  BY <1>4, <1>10 DEF elements
<1>15. QED
  BY <1>1, <1>11, <1>13, <1>14

(* What the coverage of a valid request rests on.                          *)
LEMMA CoverageRests ==
  ASSUME Counting, NEW r, isSequence(r.criteria), isSequence(r.coverage),
         validateReviewRequestCoverage(r), NEW c \in elements(r.criteria)
  PROVE  \E i \in DOMAIN r.evidence :
           /\ r.evidence[i].exit = 0
           /\ r.evidence[i].commit = r.candidate.commit
           /\ \E j \in DOMAIN r.coverage :
                /\ r.coverage[j].criterion = c
                /\ r.evidence[i].id \in r.coverage[j].evidence
<1>1. PICK n, S : n = Len(r.criteria) /\ S = elements(r.criteria)
  OBVIOUS
<1>2. /\ r.criteria \in Seq(S) /\ r.coverage \in Seq(elements(r.coverage))
      /\ Len(r.coverage) = n
  BY <1>1 DEF isSequence, validateReviewRequestCoverage, mapAcceptanceCoverage
<1>3. /\ n \in Nat /\ DOMAIN r.criteria = 1..n /\ DOMAIN r.coverage = 1..n
      /\ r.criteria \in [1..n -> S]
  BY <1>1, <1>2, SMT
<1>4. IsFiniteSet(S) /\ Cardinality(S) <= n
  <2>1. PICK s : s = r.criteria
    OBVIOUS
  <2>2. s \in [1..n -> S] /\ S = {s[i] : i \in 1..n}
    BY <1>1, <1>3, <2>1 DEF elements
  <2>3. QED
    BY <1>3, <2>2 DEF Counting
<1>5. PICK f : f = [i \in DOMAIN r.coverage |-> r.coverage[i].criterion]
  OBVIOUS
<1>6. f \in [1..n -> S] /\ distinct(f)
  BY <1>1, <1>3, <1>5 DEF validateReviewRequestCoverage,
                          mapAcceptanceCoverage
<1>7. PICK j \in DOMAIN r.coverage : r.coverage[j].criterion = c
  <2>1. \A x \in S : \E i \in 1..n : f[i] = x
    BY <1>3, <1>4, <1>6, SMT DEF Counting
  <2>2. QED
    BY <1>1, <1>3, <1>5, <2>1
<1>8. PICK e \in r.coverage[j].evidence : e \in passingEvidence(r)
  BY DEF validateReviewRequestCoverage, mapAcceptanceCoverage
<1>9. PICK i \in DOMAIN r.evidence :
        r.evidence[i].exit = 0 /\ r.evidence[i].id = e
  BY <1>8 DEF passingEvidence
<1>10. r.evidence[i].commit = r.candidate.commit
  BY DEF validateReviewRequestCoverage, mapIndependentEvidence
<1>11. QED
  BY <1>7, <1>8, <1>9, <1>10

(* The messages of the review stage, which have these fields.              *)
ReviewMessages ==
  {"diff", "criteria", "coverage", "report"} \subseteq DOMAIN
    BaseRequest["review"]

(* Damaged or not, a review request has sequences for lists.               *)
ReviewLists ==
  /\ stage \in Stages
  /\ stage = "review" =>
       /\ {"diff", "criteria", "coverage", "report"} \subseteq DOMAIN request
       /\ listsOf(request)

LEMMA ReviewListsInvariant ==
  ASSUME ReviewMessages
  PROVE  ContractsSpec => []ReviewLists
<1>1. ContractsInit => ReviewLists
  BY ListsAssumption DEF ReviewMessages, ContractsInit, ReviewLists
<1>2. ReviewLists /\ [ContractsNext]_messageVars => ReviewLists'
  <2> SUFFICES ASSUME ReviewLists, [ContractsNext]_messageVars
               PROVE  ReviewLists'
    OBVIOUS
  <2>1. ASSUME NEW d \in RequestDefects[stage], DamageRequest(d)
        PROVE  ReviewLists'
    <3>1. listsOf(d.damage)
      BY ListsAssumption DEF ReviewLists
    <3>2. request' = overwrite(request, d.damage) /\ stage' = stage
      BY <2>1 DEF DamageRequest
    <3>3. PICK q, v : q = request /\ v = overwrite(q, d.damage)
      OBVIOUS
    <3>4. /\ DOMAIN v = DOMAIN q
          /\ \A f \in DOMAIN q :
               v[f] = IF f \in DOMAIN d.damage THEN d.damage[f] ELSE q[f]
      BY <3>3 DEF overwrite
    <3>5. listsOf(q) => listsOf(v)
      BY <3>1, <3>4 DEF listsOf
    <3>6. QED
      BY <3>2, <3>3, <3>4, <3>5 DEF ReviewLists
  <2>2. CASE UNCHANGED <<stage, request>>
    BY <2>2 DEF ReviewLists
  <2>3. QED
    BY <2>1, <2>2 DEF ContractsNext, DamageProposal, AddChange, messageVars
<1>3. QED
  BY <1>1, <1>2, PTL DEF ContractsSpec

(* Its lists make every accepted review grounded.                          *)
LEMMA ListsGround ==
  ASSUME Counting PROVE ReviewLists => AcceptedReviewIsGrounded
<1>1. ASSUME ReviewLists, requestAccepted
      PROVE  /\ isSequence(request.diff) /\ isSequence(request.criteria)
             /\ isSequence(request.coverage)
             /\ isSequence(request.report.authorized)
             /\ isSequence(request.report.unexpected)
             /\ validateScopeReport(request)
             /\ validateReviewRequestCoverage(request)
             /\ "CRITICAL" \in request.policy.blocking
  <2>1. /\ request.report # Nil /\ validateReviewRequestScope(request)
        /\ validateReviewRequestCoverage(request)
        /\ validateReviewRequestPolicy(request)
    BY <1>1 DEF requestAccepted, MapReviewRequestAt,
                validateReviewRequestShape
  <2>2. listsOf(request)
        /\ {"diff", "criteria", "coverage", "report"} \subseteq DOMAIN request
    BY <1>1 DEF ReviewLists, requestAccepted
  <2>3. QED
    BY <2>1, <2>2 DEF listsOf, validateReviewRequestScope,
                      validateReviewRequestPolicy, mapReviewPolicy
<1>2. ReviewLists => ReportIsPartition
  BY <1>1, ReportPartitions DEF ReportIsPartition
<1>3. ReviewLists => EveryCriterionHasPassingEvidence
  BY <1>1, CoverageRests DEF EveryCriterionHasPassingEvidence
<1>4. ReviewLists => BlockingFindingsAskForRework
  <2> SUFFICES ASSUME ReviewLists, requestAccepted,
                      MapReviewProposal(proposal, request) = "ok",
                      proposal.recommendation # "rework_required",
                      NEW i \in DOMAIN proposal.findings
               PROVE  proposal.findings[i].severity
                        \notin request.policy.blocking \cup {"CRITICAL"}
    BY DEF BlockingFindingsAskForRework
  <2>1. ~hasBlockingFinding(proposal, request)
    BY DEF MapReviewProposal
  <2>2. QED
    BY <1>1, <2>1 DEF hasBlockingFinding
<1>5. QED
  BY <1>2, <1>3, <1>4 DEF AcceptedReviewIsGrounded

-----------------------------------------------------------------------------
(* Candidate: the state, and what each action does to it.                  *)

Change ==
  [op : {"create", "update", "delete"}, path : Paths,
   old : Bodies \cup {"none"}, new : Bodies \cup {"none"}]

Entry ==
  [mode : {"644", "755", "link", "commit", "none"},
   body : Bodies \cup {"none"}]

(* The phases of a call after the limits were checked.                     *)
Past ==
  {"worktree", "validate", "open", "prepare", "apply", "index", "build",
   "verify", "built", "done"}

(* Every phase, the entries of a diff, a worktree, the memory of a worker.  *)
PCs == Past \cup {"preflight", "clean", "failed"}

DiffEntries ==
  [path : Paths, op : {"create", "update", "delete"},
   before : Bodies \cup {"none"}, after : Bodies \cup {"none"}]

TreeType == [id : Nat, files : [Paths -> Entry], dirs : SUBSET Paths]

Memory ==
  [pc : PCs, next : Nat, dir : Nat, accepted : BOOLEAN,
   index : [Paths -> Entry], diff : SUBSET DiffEntries]

TypeInv ==
  /\ base \in Trees
  /\ changes \in Proposals
  /\ tree \in TreeType
  /\ made \in Nat /\ faults \in Nat
  /\ worker \in [Workers -> Memory]
  /\ \A w \in Workers : worker[w].next \in 1..Len(changes)

(* No two changes have one path.                                           *)
Distinct ==
  \A i, j \in DOMAIN changes : changes[i].path = changes[j].path => i = j

Touched == {c.path : c \in Changes}

(* What a commit has at a path.                                            *)
LEMMA BaseType ==
  ASSUME base \in Trees, NEW p \in Paths
  PROVE  /\ base[p] \in Entry
         /\ base[p].mode = "none" <=> base[p] = Absent
         /\ base[p] # Absent => base[p].body \in Bodies
<1>1. base[p] \in BaseEntries \cup {Absent}
  BY DEF Trees
<1>2. CASE base[p] \in BaseEntries
  <2>1. base[p] \in [mode : {"644", "755", "link", "commit"}, body : Bodies]
    BY <1>2, EntryAssumption
  <2>2. QED
    BY <2>1, SMT DEF Entry, Absent
<1>3. CASE base[p] = Absent
  BY <1>3, SMT DEF Entry, Absent
<1>4. QED
  BY <1>1, <1>2, <1>3

(* A proposal is a nonempty sequence of changes.                           *)
LEMMA ChangesType ==
  ASSUME changes \in Proposals
  PROVE  /\ Len(changes) \in Nat /\ Len(changes) # 0
         /\ DOMAIN changes = 1..Len(changes)
         /\ \A i \in 1..Len(changes) : changes[i] \in Change
         /\ Changes \subseteq Change
<1>1. changes \in Seq(Change) /\ changes # <<>>
  BY ProposalAssumption DEF Change
<1>2. /\ Len(changes) \in Nat /\ DOMAIN changes = 1..Len(changes)
      /\ \A i \in 1..Len(changes) : changes[i] \in Change
  BY <1>1, SMT
<1>3. Len(changes) # 0
  BY <1>1, SMT
<1>4. QED
  BY <1>2, <1>3 DEF Changes

(* What the proposal describes, path by path.                              *)
LEMMA PatchedAt ==
  ASSUME changes \in Proposals, Distinct, NEW c \in Changes
  PROVE  /\ c \in Change
         /\ c.op = "delete" => Patched[c.path] = Absent
         /\ c.op = "create" =>
              Patched[c.path] = [mode |-> "644", body |-> c.new]
         /\ c.op = "update" =>
              Patched[c.path] = [base[c.path] EXCEPT !.body = c.new]
<1>1. c \in Change /\ c.path \in Paths
  BY ChangesType, SMT DEF Change
<1>2. \A d \in Changes : d.path = c.path => d = c
  BY DEF Distinct, Changes
<1>3. (CHOOSE d \in Changes : d.path = c.path) = c
  BY <1>2
<1>4. Patched[c.path] =
        CASE c.op = "delete" -> Absent
          [] c.op = "create" -> [mode |-> "644", body |-> c.new]
          [] c.op = "update" -> [base[c.path] EXCEPT !.body = c.new]
  BY <1>1, <1>3 DEF Patched
<1>5. QED
  BY <1>1, <1>4, SMT

(* A path that no change names stays as it is.                             *)
LEMMA PatchedElsewhere ==
  ASSUME NEW p \in Paths, p \notin Touched
  PROVE  Patched[p] = base[p]
BY DEF Patched, Touched

(* The tree that a proposal describes is a tree.                           *)
LEMMA PatchedType ==
  ASSUME base \in Trees, changes \in Proposals, Distinct
  PROVE  Patched \in [Paths -> Entry]
<1>1. ASSUME NEW p \in Paths PROVE Patched[p] \in Entry
  <2>1. CASE p \notin Touched
    BY <2>1, PatchedElsewhere, BaseType
  <2>2. CASE p \in Touched
    <3>1. PICK c \in Changes : c.path = p
      BY <2>2 DEF Touched
    <3>2. c \in Change /\ base[p] \in Entry
      BY ChangesType, BaseType
    <3>3. /\ c.op = "delete" => Patched[p] = Absent
          /\ c.op = "create" => Patched[p] = [mode |-> "644", body |-> c.new]
          /\ c.op = "update" => Patched[p] = [base[p] EXCEPT !.body = c.new]
      BY <3>1, PatchedAt
    <3>4. QED
      BY <3>2, <3>3, SMT DEF Change, Entry, Absent
  <2>3. QED
    BY <2>1, <2>2
<1>2. QED
  BY <1>1 DEF Patched

(* Base and proposal stay, and with them all that depends on them alone.   *)
LEMMA Fixed ==
  ASSUME base' = base, changes' = changes
  PROVE  /\ Changes' = Changes /\ Touched' = Touched /\ Patched' = Patched
         /\ Distinct' = Distinct
<1>1. Changes' = Changes
  BY DEF Changes
<1>2. Touched' = Touched
  BY <1>1 DEF Touched
<1>3. Patched' = Patched
  BY <1>1, SMT DEF Patched
<1>4. QED
  BY <1>1, <1>2, <1>3 DEF Distinct

(* The memory q of a worker, field by field.                               *)
Is(q, pc, n, d, a, x, f) ==
  /\ q \in Memory /\ q.pc = pc /\ q.next = n /\ q.dir = d
  /\ q.accepted = a /\ q.index = x /\ q.diff = f

(* A step of worker w leaves the memory of the others alone.               *)
Others(w) == \A v \in Workers \ {w} : worker'[v] = worker[v]

Becomes(w, pc, n, d, a, x, f) ==
  /\ worker' \in [Workers -> Memory]
  /\ Is(worker'[w], pc, n, d, a, x, f)
  /\ Others(w)

(* Worker w goes to a phase and a change; the rest of its memory stays.    *)
Moves(w, pc, n) ==
  Becomes(w, pc, n, worker[w].dir, worker[w].accepted, worker[w].index,
          worker[w].diff)

(* What an assignment to fields of a record leaves there, one lemma for    *)
(* each form that an action has.                                           *)
LEMMA GotoMemory ==
  ASSUME NEW r \in Memory, NEW pc \in PCs, NEW n \in Nat
  PROVE  Is([r EXCEPT !.pc = pc, !.next = n],
            pc, n, r.dir, r.accepted, r.index, r.diff)
BY DEF Memory, Is

LEMMA PcMemory ==
  ASSUME NEW r \in Memory, NEW pc \in PCs
  PROVE  Is([r EXCEPT !.pc = pc],
            pc, r.next, r.dir, r.accepted, r.index, r.diff)
BY DEF Memory, Is

LEMMA NextMemory ==
  ASSUME NEW r \in Memory, NEW n \in Nat
  PROVE  Is([r EXCEPT !.next = n],
            r.pc, n, r.dir, r.accepted, r.index, r.diff)
BY DEF Memory, Is

LEMMA AcceptMemory ==
  ASSUME NEW r \in Memory, NEW pc \in PCs, NEW a \in BOOLEAN
  PROVE  Is([r EXCEPT !.pc = pc, !.accepted = a],
            pc, r.next, r.dir, a, r.index, r.diff)
BY DEF Memory, Is

LEMMA OpenMemory ==
  ASSUME NEW r \in Memory, NEW pc \in PCs, NEW d \in Nat
  PROVE  Is([r EXCEPT !.pc = pc, !.dir = d],
            pc, r.next, d, r.accepted, r.index, r.diff)
BY DEF Memory, Is

LEMMA IndexMemory ==
  ASSUME NEW r \in Memory, NEW pc \in PCs, NEW x \in [Paths -> Entry]
  PROVE  Is([r EXCEPT !.pc = pc, !.index = x],
            pc, r.next, r.dir, r.accepted, x, r.diff)
BY DEF Memory, Is

LEMMA DiffMemory ==
  ASSUME NEW r \in Memory, NEW pc \in PCs, NEW f \in SUBSET DiffEntries
  PROVE  Is([r EXCEPT !.pc = pc, !.diff = f],
            pc, r.next, r.dir, r.accepted, r.index, f)
BY DEF Memory, Is

LEMMA BuildMemory ==
  ASSUME NEW r \in Memory, NEW pc \in PCs, NEW n \in Nat,
         NEW x \in [Paths -> Entry]
  PROVE  Is([r EXCEPT !.index = x, !.pc = pc, !.next = n],
            pc, n, r.dir, r.accepted, x, r.diff)
BY DEF Memory, Is

(* The memory of all workers, from that of one.                            *)
LEMMA BecomesIntro ==
  ASSUME TypeInv, NEW w \in Workers, NEW pc, NEW n, NEW d, NEW a, NEW x, NEW f,
         worker' = [v \in Workers |-> worker'[v]], Others(w),
         Is(worker'[w], pc, n, d, a, x, f)
  PROVE  Becomes(w, pc, n, d, a, x, f)
<1>1. \A v \in Workers : worker'[v] \in Memory
  BY DEF TypeInv, Others, Is
<1>2. worker' \in [Workers -> Memory]
  BY <1>1
<1>3. QED
  BY <1>2 DEF Becomes

(* What the assignments of the actions do to the memory of a worker.       *)
LEMMA GotoMoves ==
  ASSUME TypeInv, NEW w \in Workers, NEW pc \in PCs, NEW n \in Nat,
         worker' = [worker EXCEPT ![w].pc = pc, ![w].next = n]
  PROVE  Moves(w, pc, n)
<1>1. worker'[w] = [worker[w] EXCEPT !.pc = pc, !.next = n] /\ Others(w)
  BY SMT DEF TypeInv, Others
<1>2. worker' = [v \in Workers |-> worker'[v]]
  BY DEF TypeInv
<1>3. worker[w] \in Memory
  BY SMT DEF TypeInv, Memory, PCs
<1>4. Is(worker'[w], pc, n, worker[w].dir, worker[w].accepted,
         worker[w].index, worker[w].diff)
  BY <1>1, <1>3, GotoMemory
<1>5. QED
  BY <1>1, <1>2, <1>4, BecomesIntro DEF Moves

LEMMA PcMoves ==
  ASSUME TypeInv, NEW w \in Workers, NEW pc \in PCs,
         worker' = [worker EXCEPT ![w].pc = pc]
  PROVE  Moves(w, pc, worker[w].next)
<1>1. worker'[w] = [worker[w] EXCEPT !.pc = pc] /\ Others(w)
  BY SMT DEF TypeInv, Others
<1>2. worker' = [v \in Workers |-> worker'[v]]
  BY DEF TypeInv
<1>3. worker[w] \in Memory /\ 0 \in Nat
  BY SMT DEF TypeInv, Memory, PCs
<1>4. Is(worker'[w], pc, worker[w].next, worker[w].dir, worker[w].accepted,
         worker[w].index, worker[w].diff)
  BY <1>1, <1>3, PcMemory
<1>5. QED
  BY <1>1, <1>2, <1>4, BecomesIntro DEF Moves

LEMMA NextMoves ==
  ASSUME TypeInv, NEW w \in Workers,
         worker' = [worker EXCEPT ![w].next = worker[w].next + 1]
  PROVE  Moves(w, worker[w].pc, worker[w].next + 1)
<1>1. worker'[w] = [worker[w] EXCEPT !.next = worker[w].next + 1] /\ Others(w)
  BY SMT DEF TypeInv, Others
<1>2. worker' = [v \in Workers |-> worker'[v]]
  BY DEF TypeInv
<1>3. worker[w] \in Memory
      /\ worker[w].next + 1 \in Nat /\ worker[w].pc \in PCs
  BY SMT DEF TypeInv, Memory, PCs
<1>4. Is(worker'[w], worker[w].pc, worker[w].next + 1, worker[w].dir,
         worker[w].accepted, worker[w].index, worker[w].diff)
  BY <1>1, <1>3, NextMemory
<1>5. QED
  BY <1>1, <1>2, <1>4, BecomesIntro DEF Moves

LEMMA AdvanceMoves ==
  ASSUME TypeInv, NEW w \in Workers, NEW pc \in PCs, advance(w, pc)
  PROVE  \/ worker[w].next = Len(changes) /\ Moves(w, pc, 1)
         \/ /\ worker[w].next + 1 \in 1..Len(changes)
            /\ Moves(w, worker[w].pc, worker[w].next + 1)
<1>1. CASE worker[w].next = Len(changes)
  BY <1>1, GotoMoves, SMT DEF advance, goto
<1>2. CASE worker[w].next # Len(changes)
  <2>1. worker[w].next + 1 \in 1..Len(changes)
    BY <1>2, ChangesType, SMT DEF TypeInv
  <2>2. QED
    BY <1>2, <2>1, NextMoves DEF advance
<1>3. QED
  BY <1>1, <1>2
LEMMA AcceptBecomes ==
  ASSUME TypeInv, NEW w \in Workers, NEW pc \in PCs,
         worker' = [worker EXCEPT ![w].pc = pc, ![w].accepted = TRUE]
  PROVE  Becomes(w, pc, worker[w].next, worker[w].dir, TRUE,
                 worker[w].index, worker[w].diff)
<1>1. worker'[w] = [worker[w] EXCEPT !.pc = pc, !.accepted = TRUE] /\ Others(w)
  BY SMT DEF TypeInv, Others
<1>2. worker' = [v \in Workers |-> worker'[v]]
  BY DEF TypeInv
<1>3. worker[w] \in Memory
  BY DEF TypeInv
<1>4. Is(worker'[w], pc, worker[w].next, worker[w].dir, TRUE,
         worker[w].index, worker[w].diff)
  BY <1>1, <1>3, AcceptMemory
<1>5. QED
  BY <1>1, <1>2, <1>4, BecomesIntro

LEMMA OpenBecomes ==
  ASSUME TypeInv, NEW w \in Workers, NEW pc \in PCs, NEW n \in Nat,
         worker' = [worker EXCEPT ![w].pc = pc, ![w].dir = n]
  PROVE  Becomes(w, pc, worker[w].next, n, worker[w].accepted,
                 worker[w].index, worker[w].diff)
<1>1. worker'[w] = [worker[w] EXCEPT !.pc = pc, !.dir = n] /\ Others(w)
  BY SMT DEF TypeInv, Others
<1>2. worker' = [v \in Workers |-> worker'[v]]
  BY DEF TypeInv
<1>3. worker[w] \in Memory
  BY DEF TypeInv
<1>4. Is(worker'[w], pc, worker[w].next, n, worker[w].accepted,
         worker[w].index, worker[w].diff)
  BY <1>1, <1>3, OpenMemory
<1>5. QED
  BY <1>1, <1>2, <1>4, BecomesIntro

LEMMA IndexBecomes ==
  ASSUME TypeInv, NEW w \in Workers, NEW pc \in PCs,
         NEW x \in [Paths -> Entry],
         worker' = [worker EXCEPT ![w].pc = pc, ![w].index = x]
  PROVE  Becomes(w, pc, worker[w].next, worker[w].dir, worker[w].accepted,
                 x, worker[w].diff)
<1>1. worker'[w] = [worker[w] EXCEPT !.pc = pc, !.index = x] /\ Others(w)
  BY SMT DEF TypeInv, Others
<1>2. worker' = [v \in Workers |-> worker'[v]]
  BY DEF TypeInv
<1>3. worker[w] \in Memory
  BY DEF TypeInv
<1>4. Is(worker'[w], pc, worker[w].next, worker[w].dir, worker[w].accepted,
         x, worker[w].diff)
  <2>1. Is([worker[w] EXCEPT !.pc = pc, !.index = x], pc, worker[w].next,
           worker[w].dir, worker[w].accepted, x, worker[w].diff)
    BY <1>3, IndexMemory
  <2>2. QED
    BY <1>1, <2>1
<1>5. QED
  BY <1>1, <1>2, <1>4, BecomesIntro

LEMMA DiffBecomes ==
  ASSUME TypeInv, NEW w \in Workers, NEW pc \in PCs,
         NEW f \in SUBSET DiffEntries,
         worker' = [worker EXCEPT ![w].pc = pc, ![w].diff = f]
  PROVE  Becomes(w, pc, worker[w].next, worker[w].dir, worker[w].accepted,
                 worker[w].index, f)
<1>1. worker'[w] = [worker[w] EXCEPT !.pc = pc, !.diff = f] /\ Others(w)
  BY SMT DEF TypeInv, Others
<1>2. worker' = [v \in Workers |-> worker'[v]]
  BY DEF TypeInv
<1>3. worker[w] \in Memory
  BY DEF TypeInv
<1>4. Is(worker'[w], pc, worker[w].next, worker[w].dir, worker[w].accepted,
         worker[w].index, f)
  <2>1. Is([worker[w] EXCEPT !.pc = pc, !.diff = f], pc, worker[w].next,
           worker[w].dir, worker[w].accepted, worker[w].index, f)
    BY <1>3, DiffMemory
  <2>2. QED
    BY <1>1, <2>1
<1>5. QED
  BY <1>1, <1>2, <1>4, BecomesIntro

-----------------------------------------------------------------------------
(* What each action does.                                                  *)

Same == base' = base /\ changes' = changes

(* An error ends a call.                                                   *)
LEMMA FailMoves ==
  ASSUME TypeInv, NEW w \in Workers
  PROVE  /\ fail(w) => Moves(w, "clean", worker[w].next)
         /\ reject(w) => Moves(w, "failed", worker[w].next)
<1>1. "clean" \in PCs /\ "failed" \in PCs
  BY DEF PCs
<1>2. QED
  BY <1>1, PcMoves DEF fail, reject

(* Preflight keeps a proposal within the limits, or ends the call.         *)
LEMMA PreflightStep ==
  ASSUME TypeInv, NEW w \in Workers, Preflight(w)
  PROVE  /\ Same /\ tree' = tree /\ made' = made /\ faults' = faults
         /\ worker[w].pc = "preflight"
         /\ \/ preflightChanges(changes) /\ Moves(w, "worktree", 1)
            \/ Moves(w, "failed", worker[w].next)
<1>1. "worktree" \in PCs /\ 1 \in Nat
  BY SMT DEF PCs, Past
<1>2. goto(w, "worktree") => Moves(w, "worktree", 1)
  BY <1>1, GotoMoves DEF goto
<1>3. QED
  BY <1>2, FailMoves DEF Preflight, at, Same

(* A worktree is made from the base commit.                                *)
LEMMA CreateStep ==
  ASSUME TypeInv, NEW w \in Workers, CreateWorktree(w)
  PROVE  /\ Same /\ made' = made + 1 /\ faults' = faults
         /\ worker[w].pc = "worktree"
         /\ \/ /\ tree' = [id |-> made + 1, files |-> base,
                           dirs |-> directories(base)]
               /\ Moves(w, "validate", 1)
            \/ tree' = NoWorktree /\ Moves(w, "failed", worker[w].next)
<1>1. "validate" \in PCs /\ 1 \in Nat
  BY SMT DEF PCs, Past
<1>2. goto(w, "validate") => Moves(w, "validate", 1)
  BY <1>1, GotoMoves DEF goto
<1>3. QED
  BY <1>2, FailMoves DEF CreateWorktree, at, Same

(* A proposal is accepted when every target is as it expects.              *)
LEMMA ValidateStep ==
  ASSUME TypeInv, NEW w \in Workers, ValidateTargets(w)
  PROVE  /\ Same /\ tree' = tree /\ made' = made /\ faults' = faults
         /\ worker[w].pc = "validate"
         /\ \/ /\ \A c \in Changes : validateTarget(tree, c)
               /\ Becomes(w, "open", worker[w].next, worker[w].dir, TRUE,
                          worker[w].index, worker[w].diff)
            \/ /\ ~\A c \in Changes : validateTarget(tree, c)
               /\ Moves(w, "clean", worker[w].next)
<1>1. "open" \in PCs
  BY DEF PCs, Past
<1>2. worker' = [worker EXCEPT ![w].pc = "open", ![w].accepted = TRUE] =>
        Becomes(w, "open", worker[w].next, worker[w].dir, TRUE,
                worker[w].index, worker[w].diff)
  BY <1>1, AcceptBecomes
<1>3. QED
  BY <1>2, FailMoves DEF ValidateTargets, at, Same

(* The applicator opens the directory that is there.                       *)
LEMMA OpenStep ==
  ASSUME TypeInv, NEW w \in Workers, OpenWorkspace(w)
  PROVE  /\ Same /\ tree' = tree /\ made' = made /\ faults' = faults
         /\ worker[w].pc = "open"
         /\ \/ Becomes(w, "prepare", worker[w].next, tree.id,
                       worker[w].accepted, worker[w].index, worker[w].diff)
            \/ /\ ~(tree.id # 0 /\ withinLimits(changes))
               /\ Moves(w, "clean", worker[w].next)
<1>1. "prepare" \in PCs /\ tree.id \in Nat
  BY SMT DEF PCs, Past, TypeInv, TreeType
<1>2. worker' = [worker EXCEPT ![w].pc = "prepare", ![w].dir = tree.id] =>
        Becomes(w, "prepare", worker[w].next, tree.id, worker[w].accepted,
                worker[w].index, worker[w].diff)
  BY <1>1, OpenBecomes
<1>3. QED
  BY <1>2, FailMoves DEF OpenWorkspace, at, Same

(* Every change is prepared before one is applied.                         *)
LEMMA PrepareStep ==
  ASSUME TypeInv, NEW w \in Workers, Prepare(w)
  PROVE  /\ Same /\ tree' = tree /\ made' = made /\ faults' = faults
         /\ worker[w].pc = "prepare"
         /\ \/ worker[w].next = Len(changes) /\ Moves(w, "apply", 1)
            \/ /\ worker[w].next + 1 \in 1..Len(changes)
               /\ Moves(w, "prepare", worker[w].next + 1)
            \/ ~prepare(w) /\ Moves(w, "clean", worker[w].next)
<1>1. "apply" \in PCs
  BY DEF PCs, Past
<1>2. QED
  BY <1>1, AdvanceMoves, FailMoves DEF Prepare, at, Same

(* The index starts as the base commit.                                    *)
LEMMA ReadTreeStep ==
  ASSUME TypeInv, NEW w \in Workers, ReadTree(w)
  PROVE  /\ Same /\ tree' = tree /\ made' = made /\ faults' = faults
         /\ worker[w].pc = "index"
         /\ Becomes(w, "build", worker[w].next, worker[w].dir,
                    worker[w].accepted, base, worker[w].diff)
<1>1. "build" \in PCs
  BY DEF PCs, Past
<1>2. base \in [Paths -> Entry]
  <2>1. \A p \in Paths : base[p] \in Entry
    BY BaseType DEF TypeInv
  <2>2. QED
    BY <2>1 DEF TypeInv, Trees
<1>3. QED
  BY <1>1, <1>2, IndexBecomes DEF ReadTree, at, Same

(* What a change leaves at its path.                                       *)
Applied(c, e) ==
  IF c.op = "delete" THEN Absent
  ELSE [mode |-> IF c.op = "create" THEN "644" ELSE e.mode, body |-> c.new]

(* The change a worker is at is one of the proposal.                       *)
LEMMA ChangeType ==
  ASSUME TypeInv, NEW w \in Workers
  PROVE  /\ change(w) \in Changes /\ change(w) \in Change
         /\ change(w).path \in Paths
<1>1. worker[w].next \in DOMAIN changes
  BY ChangesType DEF TypeInv
<1>2. change(w) \in Changes
  BY <1>1 DEF change, Changes
<1>3. change(w) \in Change
  BY <1>2, ChangesType DEF TypeInv
<1>4. QED
  BY <1>2, <1>3, SMT DEF Change

(* A file gets the entry of its change, or the call ends.                  *)
LEMMA ApplyStep ==
  ASSUME TypeInv, NEW w \in Workers, Apply(w)
  PROVE  /\ Same /\ made' = made /\ faults' = faults
         /\ worker[w].pc = "apply"
         /\ \/ /\ tree.id = worker[w].dir
               /\ tree' \in TreeType
               /\ tree'.id = tree.id /\ tree'.dirs = tree.dirs
               /\ tree'.files = [tree.files EXCEPT ![change(w).path] =
                     Applied(change(w), tree.files[change(w).path])]
               /\ \/ worker[w].next = Len(changes) /\ Moves(w, "index", 1)
                  \/ /\ worker[w].next + 1 \in 1..Len(changes)
                     /\ Moves(w, "apply", worker[w].next + 1)
            \/ /\ tree' = tree
               /\ ~ /\ tree.id = worker[w].dir
                    /\ change(w).op # "create" =>
                         isFile(tree.files[change(w).path])
                    /\ change(w).op # "delete" =>
                         temporaryFree(tree, change(w).path)
               /\ Moves(w, "clean", worker[w].next)
<1>1. PICK c, p, o : c = change(w) /\ p = c.path /\ o = tree.files[p]
  OBVIOUS
<1>2. /\ c \in Change /\ p \in Paths /\ tree \in TreeType
  BY <1>1, ChangeType DEF TypeInv, TreeType
<1>3. "index" \in PCs
  BY DEF PCs, Past
<1>4. /\ Same /\ made' = made /\ faults' = faults /\ worker[w].pc = "apply"
      /\ \/ /\ tree.id = worker[w].dir
            /\ \E e \in apply(c, o) : tree' = [tree EXCEPT !.files[p] = e]
            /\ advance(w, "index")
         \/ /\ ~ /\ tree.id = worker[w].dir
                 /\ c.op # "create" => isFile(o)
                 /\ c.op # "delete" => temporaryFree(tree, p)
            /\ fail(w) /\ tree' = tree
  BY <1>1 DEF Apply, at, Same
<1>5. CASE /\ tree.id = worker[w].dir
           /\ \E e \in apply(c, o) : tree' = [tree EXCEPT !.files[p] = e]
           /\ advance(w, "index")
  <2>1. \A e \in apply(c, o) : e = Applied(c, o)
    BY DEF apply, written, Applied
  <2>2. PICK e : e = Applied(c, o) /\ tree' = [tree EXCEPT !.files[p] = e]
    BY <1>5, <2>1
  <2>3. o \in Entry
    BY <1>1, <1>2, SMT DEF TreeType
  <2>4. e \in Entry
    BY <1>2, <2>2, <2>3, SMT DEF Applied, Entry, Change, Absent
  <2>5. /\ tree'.id = tree.id /\ tree'.dirs = tree.dirs
        /\ tree'.files = [tree.files EXCEPT ![p] = e]
    BY <1>2, <2>2 DEF TreeType
  <2>6. tree' \in TreeType
    BY <1>2, <2>2, <2>4, SMT DEF TreeType
  <2>7. \/ worker[w].next = Len(changes) /\ Moves(w, "index", 1)
        \/ /\ worker[w].next + 1 \in 1..Len(changes)
           /\ Moves(w, "apply", worker[w].next + 1)
    BY <1>3, <1>4, <1>5, AdvanceMoves
  <2>8. QED
    BY <1>1, <1>4, <1>5, <2>2, <2>5, <2>6, <2>7
<1>6. QED
  BY <1>1, <1>4, <1>5, FailMoves

(* The entry of a change enters the index.                                 *)
Builds(w, pc, n, e) ==
  /\ \/ worker[w].next = Len(changes) /\ pc = "verify" /\ n = 1
     \/ /\ worker[w].next + 1 \in 1..Len(changes)
        /\ pc = "build" /\ n = worker[w].next + 1
  /\ e = IF change(w).op = "delete" THEN Absent
         ELSE [mode |-> candidateMode(change(w)),
               body |-> tree.files[change(w).path].body]
  /\ Becomes(w, pc, n, worker[w].dir, worker[w].accepted,
             [worker[w].index EXCEPT ![change(w).path] = e], worker[w].diff)

(* A change enters the index when the worktree has its content.            *)
LEMMA BuildStep ==
  ASSUME TypeInv, NEW w \in Workers, BuildIndex(w)
  PROVE  /\ Same /\ tree' = tree /\ made' = made /\ faults' = faults
         /\ worker[w].pc = "build"
         /\ \/ /\ appliedContent(w)
               /\ \E pc, n, e : Builds(w, pc, n, e)
            \/ /\ ~(appliedContent(w) /\ indexable(change(w)))
               /\ Moves(w, "clean", worker[w].next)
<1>1. PICK c, p, e, pc, n :
        /\ c = change(w) /\ p = c.path
        /\ e = IF c.op = "delete" THEN Absent
               ELSE [mode |-> candidateMode(c), body |-> tree.files[p].body]
        /\ pc = IF worker[w].next < Len(changes) THEN "build" ELSE "verify"
        /\ n = IF worker[w].next < Len(changes) THEN worker[w].next + 1 ELSE 1
  OBVIOUS
<1>2. c \in Change /\ p \in Paths
  BY <1>1, ChangeType
<1>3. /\ Same /\ tree' = tree /\ made' = made /\ faults' = faults
      /\ worker[w].pc = "build"
      /\ \/ /\ appliedContent(w)
            /\ worker' = [worker EXCEPT ![w].index[p] = e, ![w].pc = pc,
                                        ![w].next = n]
         \/ ~(appliedContent(w) /\ indexable(change(w))) /\ fail(w)
  BY <1>1, SMT DEF BuildIndex, at, Same
<1>4. CASE worker' = [worker EXCEPT ![w].index[p] = e, ![w].pc = pc,
                                    ![w].next = n]
  <2>1. PICK x : x = [worker[w].index EXCEPT ![p] = e]
    OBVIOUS
  <2>2. worker[w] \in Memory /\ worker[w].index \in [Paths -> Entry]
    BY SMT DEF TypeInv, Memory
  <2>3. e \in Entry
    <3>1. base[p] \in Entry /\ tree.files[p] \in Entry
      BY <1>2, BaseType, SMT DEF TypeInv, TreeType
    <3>2. QED
      BY <1>1, <3>1, SMT DEF Entry, Absent, candidateMode
  <2>4. x \in [Paths -> Entry]
    BY <2>1, <2>2, <2>3
  <2>5. worker'[w] = [worker[w] EXCEPT !.index = x, !.pc = pc, !.next = n]
        /\ Others(w)
    BY <1>4, <2>1, SMT DEF TypeInv, Others
  <2>6. worker' = [v \in Workers |-> worker'[v]]
    BY <1>4 DEF TypeInv
  <2>7. /\ pc \in PCs /\ n \in Nat
        /\ \/ worker[w].next = Len(changes) /\ pc = "verify" /\ n = 1
           \/ /\ worker[w].next + 1 \in 1..Len(changes)
              /\ pc = "build" /\ n = worker[w].next + 1
    BY <1>1, ChangesType, SMT DEF TypeInv, PCs, Past
  <2>8. Is([worker[w] EXCEPT !.index = x, !.pc = pc, !.next = n], pc, n,
           worker[w].dir, worker[w].accepted, x, worker[w].diff)
    BY <2>2, <2>4, <2>7, BuildMemory
  <2>9. Becomes(w, pc, n, worker[w].dir, worker[w].accepted, x,
                worker[w].diff)
    BY <2>5, <2>6, <2>8, BecomesIntro
  <2>10. Builds(w, pc, n, e)
    BY <1>1, <2>1, <2>7, <2>9 DEF Builds
  <2>11. QED
    BY <1>3, <2>10, FailMoves
<1>5. QED
  BY <1>3, <1>4, FailMoves

(* A candidate is reported when its diff is the proposal.                  *)
LEMMA VerifyStep ==
  ASSUME TypeInv, NEW w \in Workers, VerifyCandidate(w)
  PROVE  /\ Same /\ tree' = tree /\ made' = made /\ faults' = faults
         /\ worker[w].pc = "verify"
         /\ \/ /\ verifyCandidateDiff(w)
               /\ Becomes(w, "built", worker[w].next, worker[w].dir,
                          worker[w].accepted, worker[w].index,
                          {entry(c) : c \in Changes})
            \/ ~verifyCandidateDiff(w) /\ Moves(w, "clean", worker[w].next)
<1>1. "built" \in PCs
  BY DEF PCs, Past
<1>2. ASSUME NEW c \in Changes PROVE entry(c) \in DiffEntries
  <2>1. c \in Change
    BY ChangesType DEF TypeInv
  <2>2. QED
    BY <2>1, SMT DEF entry, DiffEntries, Change
<1>3. PICK f : f = {entry(c) : c \in Changes}
  OBVIOUS
<1>4. f \in SUBSET DiffEntries
  BY <1>2, <1>3
<1>5. worker' = [worker EXCEPT ![w].pc = "built", ![w].diff = f] =>
        Becomes(w, "built", worker[w].next, worker[w].dir,
                worker[w].accepted, worker[w].index, f)
  BY <1>1, <1>4, DiffBecomes
<1>6. QED
  BY <1>3, <1>5, FailMoves DEF VerifyCandidate, at, Same

(* The worktree is gone at the end of a call.                              *)
LEMMA RemoveStep ==
  ASSUME TypeInv, NEW w \in Workers, RemoveWorktree(w)
  PROVE  /\ Same /\ tree' = NoWorktree /\ made' = made /\ faults' = faults
         /\ \/ worker[w].pc = "built" /\ Moves(w, "done", worker[w].next)
            \/ worker[w].pc = "clean" /\ Moves(w, "failed", worker[w].next)
<1>1. PICK pc : pc = IF worker[w].pc = "built" THEN "done" ELSE "failed"
  OBVIOUS
<1>2. pc \in PCs
  BY <1>1 DEF PCs, Past
<1>3. /\ worker' = [worker EXCEPT ![w].pc = pc]
      /\ worker[w].pc \in {"clean", "built"} /\ Same /\ tree' = NoWorktree
      /\ made' = made /\ faults' = faults
  BY <1>1 DEF RemoveWorktree, Same
<1>4. Moves(w, pc, worker[w].next)
  BY <1>2, <1>3, PcMoves
<1>5. QED
  BY <1>1, <1>3, <1>4

(* A worker that stops, or fails.                                          *)
LEMMA StopStep ==
  ASSUME TypeInv, NEW w \in Workers, Stop(w)
  PROVE  /\ Same /\ tree' = tree /\ made' = made /\ faults' = faults + 1
         /\ \/ Moves(w, "clean", worker[w].next)
            \/ Moves(w, "failed", worker[w].next)
BY FailMoves DEF Stop, Same

(* Every step is the step of one worker, or changes nothing.               *)
LEMMA StepIsOf ==
  ASSUME [Next]_vars
  PROVE  \/ \E w \in Workers :
              \/ Preflight(w) \/ CreateWorktree(w) \/ ValidateTargets(w)
              \/ OpenWorkspace(w) \/ Prepare(w) \/ Apply(w)
              \/ ReadTree(w) \/ BuildIndex(w) \/ VerifyCandidate(w)
              \/ RemoveWorktree(w) \/ Stop(w)
         \/ UNCHANGED vars
BY DEF Next

(* A step of one worker keeps the types.                                   *)
LEMMA TypeStep ==
  ASSUME TypeInv, Same, tree' \in TreeType, made' \in Nat, faults' \in Nat,
         NEW w \in Workers, NEW pc, NEW n \in 1..Len(changes), NEW d, NEW a,
         NEW x, NEW f, Becomes(w, pc, n, d, a, x, f)
  PROVE  TypeInv'
<1>1. \A v \in Workers : worker'[v].next \in 1..Len(changes)
  BY DEF Becomes, Is, Others, TypeInv
<1>2. Len(changes') = Len(changes)
  BY DEF Same
<1>3. QED
  BY <1>1, <1>2 DEF TypeInv, Same, Becomes, TreeType

(* No worktree is a worktree too.                                          *)
LEMMA NoTreeType == NoWorktree \in TreeType /\ NoWorktree.id = 0
<1>1. Absent \in Entry
  BY SMT DEF Absent, Entry
<1>2. [p \in Paths |-> Absent] \in [Paths -> Entry]
  BY <1>1
<1>3. QED
  BY <1>2, SMT DEF NoWorktree, TreeType

(* So is the base commit.                                                  *)
LEMMA BaseTree ==
  ASSUME TypeInv, NEW i \in Nat
  PROVE  [id |-> i, files |-> base, dirs |-> directories(base)] \in TreeType
<1>1. base \in [Paths -> Entry]
  <2>1. \A p \in Paths : base[p] \in Entry
    BY BaseType DEF TypeInv
  <2>2. QED
    BY <2>1 DEF TypeInv, Trees
<1>2. directories(base) \subseteq Paths
  BY ParentAssumption DEF directories
<1>3. QED
  BY <1>1, <1>2, SMT DEF TreeType

(* The types are kept.                                                     *)
LEMMA TypeKept == TypeInv /\ [Next]_vars => TypeInv'
<1> SUFFICES ASSUME TypeInv, [Next]_vars PROVE TypeInv'
  OBVIOUS
<1>1. /\ tree \in TreeType /\ made \in Nat /\ made + 1 \in Nat
      /\ faults \in Nat /\ faults + 1 \in Nat /\ 1 \in 1..Len(changes)
      /\ \A w \in Workers : worker[w].next \in 1..Len(changes)
  BY ChangesType, SMT DEF TypeInv, TreeType
<1>2. CASE UNCHANGED vars
  BY <1>2 DEF TypeInv, vars
<1> SUFFICES ASSUME NEW w \in Workers,
                    \/ Preflight(w) \/ CreateWorktree(w) \/ ValidateTargets(w)
                    \/ OpenWorkspace(w) \/ Prepare(w) \/ Apply(w)
                    \/ ReadTree(w) \/ BuildIndex(w) \/ VerifyCandidate(w)
                    \/ RemoveWorktree(w) \/ Stop(w)
             PROVE  TypeInv'
  BY <1>2, StepIsOf
<1>3. CASE Preflight(w)
  BY <1>1, <1>3, PreflightStep, TypeStep DEF Moves
<1>4. CASE CreateWorktree(w)
  <2>1. tree' \in TreeType
    BY <1>1, <1>4, CreateStep, NoTreeType, BaseTree
  <2>2. QED
    BY <1>1, <1>4, <2>1, CreateStep, TypeStep DEF Moves
<1>5. CASE ValidateTargets(w)
  BY <1>1, <1>5, ValidateStep, TypeStep DEF Moves
<1>6. CASE OpenWorkspace(w)
  BY <1>1, <1>6, OpenStep, TypeStep DEF Moves
<1>7. CASE Prepare(w)
  BY <1>1, <1>7, PrepareStep, TypeStep DEF Moves
<1>8. CASE Apply(w)
  BY <1>1, <1>8, ApplyStep, TypeStep DEF Moves
<1>9. CASE ReadTree(w)
  BY <1>1, <1>9, ReadTreeStep, TypeStep
<1>10. CASE BuildIndex(w)
  BY <1>1, <1>10, BuildStep, TypeStep DEF Moves, Builds
<1>11. CASE VerifyCandidate(w)
  BY <1>1, <1>11, VerifyStep, TypeStep DEF Moves
<1>12. CASE RemoveWorktree(w)
  BY <1>1, <1>12, RemoveStep, TypeStep, NoTreeType DEF Moves
<1>13. CASE Stop(w)
  BY <1>1, <1>13, StopStep, TypeStep DEF Moves
<1>14. QED
  BY <1>3, <1>4, <1>5, <1>6, <1>7, <1>8, <1>9, <1>10, <1>11, <1>12, <1>13
-----------------------------------------------------------------------------
(* Exactness: the invariant behind AppliedExactly.                         *)

(* The difference between a commit b and a commit x, at a path and as a    *)
(* whole.                                                                  *)
DifferenceAt(b, x, p) ==
  [path |-> p,
   op |-> CASE b[p] = Absent -> "create"
            [] x[p] = Absent -> "delete"
            [] OTHER -> "update",
   before |-> b[p].body, after |-> x[p].body]

Difference(b, x) == {DifferenceAt(b, x, p) : p \in {q \in Paths : b[q] # x[q]}}

(* What a worker with this phase, index and diff has established.          *)
Exact(pc, x, f) ==
  /\ pc \in Past => preflightChanges(changes)
  /\ pc \in {"build", "verify"} => \A p \in Paths \ Touched : x[p] = base[p]
  /\ pc \in {"built", "done"} => x = Patched /\ f = Difference(base, x)

ExactOf(w) == Exact(worker[w].pc, worker[w].index, worker[w].diff)

ExactInv ==
  /\ \A w \in Workers : ExactOf(w)
  /\ tree.id # 0 => preflightChanges(changes)
  /\ WorktreeBetween

(* A step of one worker keeps what all have established.                   *)
LEMMA ExactStep ==
  ASSUME TypeInv, Same,
         \A v \in Workers : ExactOf(v),
         NEW w \in Workers, NEW pc, NEW n, NEW d, NEW a, NEW x, NEW f,
         Becomes(w, pc, n, d, a, x, f), Exact(pc, x, f)
  PROVE  (\A v \in Workers : ExactOf(v))'
<1>1. \A v \in Workers :
        Exact(worker'[v].pc, worker'[v].index, worker'[v].diff)
  BY DEF Becomes, Is, Others, ExactOf
<1>2. /\ Touched' = Touched /\ Patched' = Patched /\ base' = base
      /\ changes' = changes
  BY Fixed DEF Same
<1>3. QED
  BY <1>1, <1>2 DEF Exact, ExactOf

(* A worktree that stays, or goes, has no torn file.                       *)
LEMMA BetweenKept ==
  ASSUME TypeInv, Same, tree.id # 0 => preflightChanges(changes),
         WorktreeBetween, tree' = tree \/ tree'.id = 0
  PROVE  (tree.id # 0 => preflightChanges(changes))' /\ WorktreeBetween'
<1>1. Patched' = Patched /\ base' = base /\ changes' = changes
  BY Fixed DEF Same
<1>2. QED
  BY <1>1 DEF WorktreeBetween

(* A file that is written is as the proposal says.                         *)
LEMMA ApplyBetween ==
  ASSUME TypeInv, ExactInv, NEW w \in Workers, tree.id # 0,
         tree'.id = tree.id, Same,
         tree'.files = [tree.files EXCEPT ![change(w).path] =
                          Applied(change(w), tree.files[change(w).path])]
  PROVE  (tree.id # 0 => preflightChanges(changes))' /\ WorktreeBetween'
<1>1. Patched' = Patched /\ base' = base /\ changes' = changes
  BY Fixed DEF Same
<1>2. preflightChanges(changes) /\ Distinct
  BY DEF ExactInv, preflightChanges, Distinct
<1>3. \A p \in Paths : tree.files[p] \in {base[p], Patched[p]}
  BY DEF ExactInv, WorktreeBetween
<1>4. PICK c, p, o : c = change(w) /\ p = c.path /\ o = tree.files[p]
  OBVIOUS
<1>5. c \in Changes /\ c \in Change /\ p \in Paths
  BY <1>4, ChangeType
<1>6. /\ c.op = "delete" => Patched[p] = Absent
      /\ c.op = "create" => Patched[p] = [mode |-> "644", body |-> c.new]
      /\ c.op = "update" => Patched[p] = [base[p] EXCEPT !.body = c.new]
  BY <1>2, <1>4, <1>5, PatchedAt DEF TypeInv
<1>7. base[p] \in Entry /\ o \in {base[p], Patched[p]}
  BY <1>3, <1>4, <1>5, BaseType DEF TypeInv
<1>8. Applied(c, o) = Patched[p]
  <2>1. c.op \in {"create", "update", "delete"}
    BY <1>5, SMT DEF Change
  <2>2. CASE c.op = "update"
    <3>1. o.mode = base[p].mode
      BY <1>6, <1>7, <2>2, SMT DEF Entry
    <3>2. [base[p] EXCEPT !.body = c.new]
            = [mode |-> base[p].mode, body |-> c.new]
      BY <1>7, SMT DEF Entry
    <3>3. QED
      BY <1>6, <2>2, <3>1, <3>2 DEF Applied
  <2>3. QED
    BY <1>6, <2>1, <2>2 DEF Applied
<1>9. \A q \in Paths : tree'.files[q] \in {base[q], Patched[q]}
  <2>1. tree.files \in [Paths -> Entry]
    BY SMT DEF TypeInv, TreeType
  <2>2. tree'.files = [tree.files EXCEPT ![p] = Patched[p]]
    BY <1>4, <1>8
  <2>3. QED
    BY <1>3, <1>5, <2>1, <2>2
<1>10. QED
  BY <1>1, <1>2, <1>9 DEF WorktreeBetween

(* The diff that is verified shows that the candidate is exact.            *)
LEMMA VerifiedExact ==
  ASSUME TypeInv, NEW w \in Workers, preflightChanges(changes),
         \A p \in Paths \ Touched : worker[w].index[p] = base[p],
         verifyCandidateDiff(w)
  PROVE  /\ worker[w].index = Patched
         /\ {entry(c) : c \in Changes} = Difference(base, worker[w].index)
<1>1. PICK x : x = worker[w].index
  OBVIOUS
<1>2. x \in [Paths -> Entry] /\ Distinct
  BY <1>1, SMT DEF TypeInv, Memory, preflightChanges, Distinct
<1>3. ASSUME NEW c \in Changes
      PROVE  /\ c.path \in Paths /\ base[c.path] # x[c.path]
             /\ x[c.path] = Patched[c.path]
             /\ entry(c) = DifferenceAt(base, x, c.path)
  <2>1. PICK p, b, e : p = c.path /\ b = base[p] /\ e = x[p]
    OBVIOUS
  <2>2. c \in Change /\ p \in Paths /\ b \in Entry /\ e \in Entry
    <3>1. c \in Change
      BY ChangesType DEF TypeInv
    <3>2. p \in Paths
      BY <2>1, <3>1, SMT DEF Change
    <3>3. QED
      BY <1>2, <2>1, <3>1, <3>2, BaseType DEF TypeInv
  <2>3. /\ b # e
        /\ c.op = CASE b = Absent -> "create"
                    [] e = Absent -> "delete"
                    [] OTHER -> "update"
        /\ c.op # "create" => b.body = c.old
        /\ c.op # "delete" => e.body = c.new /\ e.mode = candidateMode(c)
    BY <1>1, <2>1 DEF verifyCandidateDiff, candidatePathStatuses, status
  <2>4. /\ c.op = "delete" => Patched[p] = Absent
        /\ c.op = "create" => Patched[p] = [mode |-> "644", body |-> c.new]
        /\ c.op = "update" => Patched[p] = [b EXCEPT !.body = c.new]
    BY <1>2, <2>1, PatchedAt DEF TypeInv
  <2>5. c.op \in {"create", "update", "delete"}
    BY <2>2, SMT DEF Change
  <2>6. /\ c.op = "create" => b = Absent
        /\ c.op = "delete" => e = Absent
        /\ b = Absent => c.op = "create"
        /\ e = Absent => c.op = "delete"
    BY <2>3, <2>5, SMT
  <2>7. e = Patched[p]
    BY <2>1, <2>2, <2>3, <2>4, <2>5, <2>6, SMT DEF Entry, candidateMode
  <2>8. entry(c) =
          [path |-> p, op |-> c.op, before |-> b.body, after |-> e.body]
    <3>1. b.body = IF c.op = "create" THEN "none" ELSE c.old
      BY <2>3, <2>5, <2>6, SMT DEF Absent
    <3>2. e.body = IF c.op = "delete" THEN "none" ELSE c.new
      BY <2>3, <2>5, <2>6, SMT DEF Absent
    <3>3. QED
      BY <2>1, <3>1, <3>2 DEF entry
  <2>9. QED
    BY <2>1, <2>2, <2>3, <2>7, <2>8 DEF DifferenceAt
<1>4. x = Patched
  <2>1. \A p \in Paths : x[p] = Patched[p]
    <3>1. ASSUME NEW p \in Paths, p \in Touched PROVE x[p] = Patched[p]
      BY <1>3, <3>1 DEF Touched
    <3>2. ASSUME NEW p \in Paths, p \notin Touched PROVE x[p] = Patched[p]
      BY <1>1, <3>2, PatchedElsewhere
    <3>3. QED
      BY <3>1, <3>2
  <2>2. DOMAIN Patched = Paths /\ Patched \in [Paths -> Entry]
    BY <1>2, PatchedType DEF TypeInv
  <2>3. QED
    BY <1>2, <2>1, <2>2, SMT
<1>5. \A p \in Paths : base[p] # x[p] => \E c \in Changes : c.path = p
  BY <1>1 DEF Touched
<1>6. {entry(c) : c \in Changes} = Difference(base, x)
  <2>1. \A c \in Changes : entry(c) \in Difference(base, x)
    BY <1>3 DEF Difference
  <2>2. \A p \in Paths : base[p] # x[p] =>
          \E c \in Changes : DifferenceAt(base, x, p) = entry(c)
    <3> SUFFICES ASSUME NEW p \in Paths, base[p] # x[p]
                 PROVE  \E c \in Changes : DifferenceAt(base, x, p) = entry(c)
      OBVIOUS
    <3>1. PICK c \in Changes : c.path = p
      BY <1>5
    <3>2. entry(c) = DifferenceAt(base, x, p)
      BY <1>3, <3>1
    <3>3. QED
      BY <3>2
  <2>3. \A y \in Difference(base, x) : \E c \in Changes : y = entry(c)
    BY <2>2 DEF Difference
  <2>4. QED
    BY <2>1, <2>3
<1>7. QED
  BY <1>1, <1>4, <1>6

(* Every step keeps the worktree and the candidates exact.                 *)
LEMMA ExactKept == TypeInv /\ ExactInv /\ [Next]_vars => ExactInv'
<1> SUFFICES ASSUME TypeInv, ExactInv, [Next]_vars PROVE ExactInv'
  OBVIOUS
<1>1. /\ \A v \in Workers : ExactOf(v)
      /\ tree.id # 0 => preflightChanges(changes)
      /\ WorktreeBetween
  BY DEF ExactInv
<1>2. CASE UNCHANGED vars
  <2>1. /\ base' = base /\ changes' = changes /\ worker' = worker
        /\ tree' = tree
    BY <1>2 DEF vars
  <2>2. Patched' = Patched /\ Touched' = Touched
    BY <2>1, Fixed
  <2>3. QED
    BY <1>1, <2>1, <2>2 DEF ExactInv, ExactOf, Exact, WorktreeBetween
<1> SUFFICES ASSUME NEW w \in Workers,
                    \/ Preflight(w) \/ CreateWorktree(w) \/ ValidateTargets(w)
                    \/ OpenWorkspace(w) \/ Prepare(w) \/ Apply(w)
                    \/ ReadTree(w) \/ BuildIndex(w) \/ VerifyCandidate(w)
                    \/ RemoveWorktree(w) \/ Stop(w)
             PROVE  ExactInv'
  BY <1>2, StepIsOf
<1>3. \A x, f : Exact("clean", x, f) /\ Exact("failed", x, f)
  BY DEF Exact, Past
<1>4. worker[w].pc \in Past => preflightChanges(changes)
  BY <1>1 DEF Exact, ExactOf
<1>5. preflightChanges(changes) =>
        \A x, f : \A pc \in {"worktree", "validate", "open", "prepare",
                             "apply", "index"} : Exact(pc, x, f)
  BY DEF Exact
<1>6. CASE Preflight(w)
  BY <1>1, <1>3, <1>5, <1>6, PreflightStep, ExactStep, BetweenKept
  DEF Moves, ExactInv
<1>7. CASE CreateWorktree(w)
  <2>1. Same /\ worker[w].pc = "worktree" /\ "worktree" \in Past
    BY <1>7, CreateStep DEF Past
  <2>2. preflightChanges(changes)
    BY <1>4, <2>1
  <2>3. Patched' = Patched /\ base' = base /\ changes' = changes
    BY <2>1, Fixed DEF Same
  <2>4. (tree.id # 0 => preflightChanges(changes))'
    BY <2>2, <2>3
  <2>5. WorktreeBetween'
    <3>0. \/ tree' = [id |-> made + 1, files |-> base,
                    dirs |-> directories(base)]
          \/ tree' = NoWorktree
      BY <1>7, CreateStep
    <3>1. tree'.files = base \/ tree'.id = 0
      BY <3>0, NoTreeType, SMT
    <3>2. QED
      BY <2>3, <3>1 DEF WorktreeBetween
  <2>6. QED
    BY <1>1, <1>3, <1>5, <1>7, <2>2, <2>4, <2>5, CreateStep, ExactStep
    DEF Moves, ExactInv
<1>8. CASE ValidateTargets(w)
  <2>1. worker[w].pc \in Past
    BY <1>8, ValidateStep DEF Past
  <2>2. QED
    BY <1>1, <1>3, <1>4, <1>5, <1>8, <2>1, ValidateStep, ExactStep, BetweenKept
    DEF Moves, ExactInv
<1>9. CASE OpenWorkspace(w)
  <2>1. worker[w].pc \in Past
    BY <1>9, OpenStep DEF Past
  <2>2. QED
    BY <1>1, <1>3, <1>4, <1>5, <1>9, <2>1, OpenStep, ExactStep, BetweenKept
    DEF Moves, ExactInv
<1>10. CASE Prepare(w)
  <2>1. worker[w].pc \in Past
    BY <1>10, PrepareStep DEF Past
  <2>2. QED
    BY <1>1, <1>3, <1>4, <1>5, <1>10, <2>1, PrepareStep, ExactStep, BetweenKept
    DEF Moves, ExactInv
<1>11. CASE Apply(w)
  <2>1. worker[w].pc \in Past
    BY <1>11, ApplyStep DEF Past
  <2>2. (tree.id # 0 => preflightChanges(changes))' /\ WorktreeBetween'
    <3>1. CASE tree' = tree \/ tree'.id = 0
      BY <1>1, <1>11, <3>1, ApplyStep, BetweenKept
    <3>2. CASE ~(tree' = tree \/ tree'.id = 0)
      BY <1>11, <3>2, ApplyStep, ApplyBetween
    <3>3. QED
      BY <3>1, <3>2
  <2>3. QED
    <3>1. \/ Moves(w, "index", 1) \/ Moves(w, "apply", worker[w].next + 1)
          \/ Moves(w, "clean", worker[w].next)
      BY <1>11, ApplyStep
    <3>2. Same
      BY <1>11, ApplyStep
    <3>3. QED
      BY <1>1, <1>3, <1>4, <1>5, <2>1, <2>2, <3>1, <3>2, ExactStep
      DEF Moves, ExactInv
<1>12. CASE ReadTree(w)
  <2>1. worker[w].pc \in Past
    BY <1>12, ReadTreeStep DEF Past
  <2>2. \A f : Exact("build", base, f)
    BY <1>4, <2>1 DEF Exact
  <2>3. QED
    BY <1>1, <1>12, <2>2, ReadTreeStep, ExactStep, BetweenKept DEF ExactInv
<1>13. CASE BuildIndex(w)
  <2>1. worker[w].pc = "build"
    BY <1>13, BuildStep
  <2>2. /\ \A p \in Paths \ Touched : worker[w].index[p] = base[p]
        /\ preflightChanges(changes)
        /\ worker[w].index \in [Paths -> Entry]
    BY <1>1, <2>1, SMT DEF Exact, ExactOf, Past, TypeInv, Memory
  <2>3. change(w).path \in Touched
    BY ChangeType DEF Touched
  <2>4. \A e, f : \A pc \in {"build", "verify"} :
          Exact(pc, [worker[w].index EXCEPT ![change(w).path] = e], f)
    BY <2>2, <2>3 DEF Exact
  <2>5. QED
    <3>1. Same /\ tree' = tree
      BY <1>13, BuildStep
    <3>2. CASE Moves(w, "clean", worker[w].next)
      BY <1>1, <1>3, <3>1, <3>2, ExactStep, BetweenKept DEF Moves, ExactInv
    <3>3. CASE ~Moves(w, "clean", worker[w].next)
      <4>0. PICK pc, n, e : Builds(w, pc, n, e)
        BY <1>13, <3>3, BuildStep
      <4>1. /\ pc \in {"build", "verify"}
            /\ Becomes(w, pc, n, worker[w].dir, worker[w].accepted,
                       [worker[w].index EXCEPT ![change(w).path] = e],
                       worker[w].diff)
        BY <4>0 DEF Builds
      <4>2. Exact(pc, [worker[w].index EXCEPT ![change(w).path] = e],
                  worker[w].diff)
        BY <2>4, <4>1
      <4>3. QED
        BY <1>1, <3>1, <4>1, <4>2, ExactStep, BetweenKept DEF ExactInv
    <3>4. QED
      BY <3>2, <3>3
<1>14. CASE VerifyCandidate(w)
  <2>1. worker[w].pc = "verify"
    BY <1>14, VerifyStep
  <2>2. /\ \A p \in Paths \ Touched : worker[w].index[p] = base[p]
        /\ preflightChanges(changes)
    BY <1>1, <2>1 DEF Exact, ExactOf, Past
  <2>3. verifyCandidateDiff(w) =>
          Exact("built", worker[w].index, {entry(c) : c \in Changes})
    BY <2>2, VerifiedExact DEF Exact
  <2>4. QED
    BY <1>1, <1>3, <1>14, <2>3, VerifyStep, ExactStep, BetweenKept
    DEF Moves, ExactInv
<1>15. CASE RemoveWorktree(w)
  <2>1. worker[w].pc = "built" =>
          Exact("done", worker[w].index, worker[w].diff)
    BY <1>1 DEF Exact, ExactOf, Past
  <2>2. QED
    BY <1>1, <1>3, <1>15, <2>1, RemoveStep, ExactStep, BetweenKept, NoTreeType
    DEF Moves, ExactInv
<1>16. CASE Stop(w)
  BY <1>1, <1>3, <1>16, StopStep, ExactStep, BetweenKept DEF Moves, ExactInv
<1>17. QED
  BY <1>6, <1>7, <1>8, <1>9, <1>10, <1>11, <1>12, <1>13, <1>14, <1>15, <1>16

(* Nothing is made at first.                                               *)
LEMMA InitExact == Init => TypeInv /\ ExactInv
<1> SUFFICES ASSUME Init PROVE TypeInv /\ ExactInv
  OBVIOUS
<1>1. Absent \in Entry
  BY SMT DEF Absent, Entry
<1>2. [p \in Paths |-> Absent] \in [Paths -> Entry]
  BY <1>1
<1>3. Start \in Memory /\ Start.pc = "preflight" /\ Start.next = 1
  BY <1>2, SMT DEF Start, Memory, PCs
<1>4. \A w \in Workers : worker[w] = Start
  BY DEF Init
<1>5. TypeInv
  <2>1. 1 \in 1..Len(changes)
    BY ChangesType, SMT DEF Init
  <2>2. tree \in TreeType /\ made \in Nat /\ faults \in Nat
    BY NoTreeType, SMT DEF Init
  <2>3. worker \in [Workers -> Memory]
    BY <1>3 DEF Init
  <2>4. QED
    BY <1>3, <1>4, <2>1, <2>2, <2>3, BasesAssumption
    DEF TypeInv, TreeType, Init
<1>6. ExactInv
  BY <1>3, <1>4, NoTreeType
  DEF ExactInv, ExactOf, Exact, Past, WorktreeBetween, Init
<1>7. QED
  BY <1>5, <1>6

(* For any trees, proposals, limits and number of workers that share the   *)
(* path of a worktree and stop anywhere: no file is torn, a candidate is   *)
(* the base commit with the proposed changes and nothing else, and the     *)
(* reported diff is the difference between the two (applyCandidateChange,  *)
(* verifyCandidateDiff, the rename of the applicator).                     *)
THEOREM ProposalsApplyExactly == Spec => []AppliedExactly
<1>1. TypeInv /\ ExactInv => AppliedExactly
  <2> SUFFICES ASSUME TypeInv, ExactInv PROVE AppliedExactly
    OBVIOUS
  <2>1. \A w \in Workers : Finished(w) =>
          /\ worker[w].index = Patched
          /\ worker[w].diff = Difference(base, worker[w].index)
    BY DEF ExactInv, ExactOf, Exact, Finished
  <2>2. \A w \in Workers : Difference(base, worker[w].index) =
          {[path |-> p, op |-> status(w, p), before |-> base[p].body,
            after |-> worker[w].index[p].body] :
             p \in candidatePathStatuses(w)}
    BY DEF Difference, DifferenceAt, status, candidatePathStatuses
  <2>3. CandidateExact /\ DiffExact
    BY <2>1, <2>2 DEF CandidateExact, DiffExact
  <2>4. QED
    BY <2>3 DEF ExactInv, AppliedExactly
<1>2. QED
  BY <1>1, InitExact, TypeKept, ExactKept, PTL DEF Spec
-----------------------------------------------------------------------------
(* A lone worker.                                                          *)

(* The worktree as it is made.                                             *)
Fresh == [id |-> 1, files |-> base, dirs |-> directories(base)]

Applicable ==
  /\ preflightChanges(changes)
  /\ \A c \in Changes : validateTarget(Fresh, c)
  /\ ~Unsuitable

(* Where the one worker that made a worktree is, with this memory.         *)
Alone(t, pc, n, d, a, x) ==
  \/ pc \in {"clean", "failed"} /\ a = FALSE
  \/ pc = "validate" /\ a = FALSE /\ t = Fresh
  \/ Unsuitable
  \/ /\ Applicable
     /\ \/ pc = "open" /\ t = Fresh
        \/ pc = "prepare" /\ t = Fresh /\ d = 1
        \/ /\ pc = "apply" /\ t.id = 1 /\ d = 1 /\ t.files = Partly[n]
           /\ t.dirs = directories(base)
        \/ pc = "index" /\ t.files = Patched /\ n = 1
        \/ pc = "build" /\ t.files = Patched /\ x = Partly[n]
        \/ pc = "verify" /\ x = Patched
        \/ pc \in {"built", "done"}

(* A worker that has made no worktree.                                     *)
Outside(w) ==
  /\ worker[w].pc \in {"preflight", "worktree", "failed"}
  /\ worker[w].accepted = FALSE

AloneInv ==
  faults = 0 =>
    /\ made = 0 => \A w \in Workers : Outside(w)
    /\ made = 1 => \E v \in Workers :
         /\ \A w \in Workers \ {v} : Outside(w)
         /\ Alone(tree, worker[v].pc, worker[v].next, worker[v].dir,
                  worker[v].accepted, worker[v].index)

(* The invariant implies the property.                                     *)
LEMMA AloneApplies == AloneInv => AcceptedApplies
<1> SUFFICES ASSUME AloneInv, NEW w \in Workers, worker[w].accepted,
                    worker[w].pc \in {"clean", "failed"}, made = 1, faults = 0
             PROVE  Unsuitable
  BY DEF AcceptedApplies
<1>1. PICK v \in Workers :
        /\ \A u \in Workers \ {v} : Outside(u)
        /\ Alone(tree, worker[v].pc, worker[v].next, worker[v].dir,
                 worker[v].accepted, worker[v].index)
  BY DEF AloneInv
<1>2. w = v
  BY <1>1 DEF Outside
<1>3. QED
  BY <1>1, <1>2 DEF Alone

(* The changes before the first are none, and those before the last and    *)
(* the last are all.                                                       *)
LEMMA PartlyFirst ==
  ASSUME TypeInv PROVE Partly[1] = base
<1>1. ~(\E i \in 1..(1 - 1) : TRUE) /\ 1 \in 1..Len(changes)
  BY ChangesType, SMT DEF TypeInv
<1>2. Partly[1] = [p \in Paths |-> base[p]]
  BY <1>1 DEF Partly
<1>3. QED
  BY <1>2 DEF TypeInv, Trees

(* One change more.                                                        *)
LEMMA PartlyNext ==
  ASSUME TypeInv, Distinct, NEW n \in 1..Len(changes)
  PROVE  /\ Partly[n][changes[n].path] = base[changes[n].path]
         /\ n + 1 \in 1..Len(changes) =>
              [Partly[n] EXCEPT ![changes[n].path] = Patched[changes[n].path]]
                = Partly[n + 1]
         /\ n = Len(changes) =>
              [Partly[n] EXCEPT ![changes[n].path] = Patched[changes[n].path]]
                = Patched
<1> DEFINE c == changes[n]
<1> HIDE DEF c
<1>1. /\ Len(changes) \in Nat /\ DOMAIN changes = 1..Len(changes)
      /\ \A i \in 1..Len(changes) : changes[i] \in Change
  BY ChangesType DEF TypeInv
<1>2. c \in Change /\ c.path \in Paths
  <2>1. c \in Change
    BY <1>1 DEF c
  <2>2. QED
    BY <2>1, SMT DEF Change
<1>3. /\ \A i \in 1..(n - 1) : i \in 1..Len(changes) /\ i # n
      /\ \A i : i \in 1..((n + 1) - 1) <=> i \in 1..(n - 1) \/ i = n
      /\ n = Len(changes) => \A i \in 1..Len(changes) :
           i \in 1..(n - 1) \/ i = n
  <2>1. n \in Int /\ n >= 1 /\ n <= Len(changes)
    BY <1>1, SMT
  <2>2. /\ (n + 1) - 1 = n /\ n \in 1..n
        /\ \A i \in 1..(n - 1) : i \in 1..Len(changes) /\ i # n /\ i \in 1..n
        /\ \A i \in 1..n : i \in 1..(n - 1) \/ i = n
    BY <1>1, <2>1, SMT
  <2>3. QED
    BY <2>2
<1>4. ~\E i \in 1..(n - 1) : changes[i].path = c.path
  BY <1>1, <1>3 DEF Distinct, c
<1>5. Partly[n][c.path] = base[c.path]
  BY <1>2, <1>4 DEF Partly
<1>6. PICK g : g = [Partly[n] EXCEPT ![c.path] = Patched[c.path]]
  OBVIOUS
<1>7. g = [p \in Paths |-> IF p = c.path THEN Patched[p] ELSE Partly[n][p]]
  BY <1>6 DEF Partly
<1>8. ASSUME n + 1 \in 1..Len(changes), NEW p \in Paths
      PROVE  g[p] = Partly[n + 1][p]
  BY <1>3, <1>7, <1>8 DEF Partly, c
<1>9. n + 1 \in 1..Len(changes) => g = Partly[n + 1]
  <2> SUFFICES ASSUME n + 1 \in 1..Len(changes) PROVE g = Partly[n + 1]
    OBVIOUS
  <2>1. Partly[n + 1] = [p \in Paths |-> Partly[n + 1][p]]
    BY DEF Partly
  <2>2. QED
    BY <1>7, <1>8, <2>1
<1>10. ASSUME n = Len(changes), NEW p \in Paths PROVE g[p] = Patched[p]
  <2>1. CASE p \notin Touched
    BY <1>1, <1>7, <2>1, PatchedElsewhere DEF Partly
  <2>2. CASE p \in Touched
    <3>1. PICK i \in 1..Len(changes) : changes[i].path = p
      BY <1>1, <2>2 DEF Touched, Changes
    <3>2. i \in 1..(n - 1) \/ i = n
      BY <1>3, <1>10
    <3>3. QED
      BY <1>7, <3>1, <3>2 DEF Partly, c
  <2>3. QED
    BY <2>1, <2>2
<1>11. n = Len(changes) => g = Patched
  BY <1>7, <1>10 DEF Patched
<1>12. QED
  BY <1>5, <1>6, <1>9, <1>11 DEF c

(* What can be said of a change that is applicable.                        *)
LEMMA ApplicableChange ==
  ASSUME TypeInv, Applicable, NEW c \in Changes
  PROVE  /\ c \in Change /\ c.path \in Paths
         /\ Parent[c.path] \in Fresh.dirs \cup {Root}
         /\ c.path \notin Fresh.dirs
         /\ c.op = "create" =>
              /\ base[c.path] = Absent
              /\ Patched[c.path] = [mode |-> "644", body |-> c.new]
         /\ c.op # "create" =>
              /\ isFile(base[c.path]) /\ base[c.path].body = c.old
              /\ Size[base[c.path].body] <= MaxFileBytes
         /\ c.op = "delete" => Patched[c.path] = Absent
         /\ c.op = "update" =>
              /\ Patched[c.path] = [mode |-> base[c.path].mode, body |-> c.new]
              /\ c.new # c.old
<1>1. c \in Change /\ c.path \in Paths
  <2>1. c \in Change
    BY ChangesType DEF TypeInv
  <2>2. QED
    BY <2>1, SMT DEF Change
<1>2. Fresh.files = base /\ Fresh.dirs = directories(base)
  BY DEF Fresh
<1>3. /\ Parent[c.path] \in Fresh.dirs \cup {Root}
      /\ c.path \notin Fresh.dirs
      /\ c.op = "create" => base[c.path] = Absent
      /\ c.op # "create" =>
           isFile(base[c.path]) /\ base[c.path].body = c.old
  BY <1>2 DEF Applicable, validateTarget
<1>4. c.op # "create" => Size[base[c.path].body] <= MaxFileBytes
  <2> SUFFICES ASSUME c.op # "create"
               PROVE  Size[base[c.path].body] <= MaxFileBytes
    OBVIOUS
  <2>1. base[c.path] # Absent
    BY <1>3, SMT DEF isFile, Absent
  <2>2. base[c.path].body \in Bodies
    BY <1>1, <2>1, BaseType DEF TypeInv
  <2>3. ~(Size[c.old] > MaxFileBytes)
    BY DEF Applicable, Unsuitable, Oversized
  <2>4. Size[c.old] \in Nat
    BY <1>3, <2>2, SizeAssumption
  <2>5. QED
    BY <1>3, <2>3, <2>4, LimitAssumption, SMT
<1>5. Distinct
  BY DEF Applicable, preflightChanges, Distinct
<1>6. /\ c.op = "delete" => Patched[c.path] = Absent
      /\ c.op = "create" => Patched[c.path] = [mode |-> "644", body |-> c.new]
      /\ c.op = "update" =>
           Patched[c.path] = [base[c.path] EXCEPT !.body = c.new]
  BY <1>5, PatchedAt DEF TypeInv
<1>7. [base[c.path] EXCEPT !.body = c.new]
        = [mode |-> base[c.path].mode, body |-> c.new]
  <2>1. base[c.path] \in Entry
    BY <1>1, BaseType DEF TypeInv
  <2>2. QED
    BY <2>1, SMT DEF Entry
<1>8. c.op = "update" => c.new # c.old
  BY DEF Applicable, Unsuitable, Idempotent
<1>9. QED
  BY <1>1, <1>3, <1>4, <1>6, <1>7, <1>8

(* The proposal stays, and with it whether it can be applied.              *)
LEMMA AloneFixed ==
  ASSUME Same
  PROVE  /\ Fresh' = Fresh /\ Partly' = Partly /\ Patched' = Patched
         /\ Applicable' = Applicable
         /\ Unsuitable' = Unsuitable
         /\ directories(base)' = directories(base)
<1>1. /\ Changes' = Changes /\ Patched' = Patched
      /\ base' = base /\ changes' = changes
  BY Fixed DEF Same
<1>2. Fresh' = Fresh
  BY <1>1 DEF Fresh
<1>3. Partly' = Partly
  BY <1>1, SMT DEF Partly
<1>4. Unsuitable' = Unsuitable
  <2>1. Oversized' = Oversized /\ Idempotent' = Idempotent
    BY <1>1 DEF Oversized, Idempotent
  <2>2. Occupied' = Occupied
    BY <1>1, <1>3 DEF Occupied, temporaryFree, replaced
  <2>3. Reserved' = Reserved
    BY <1>1 DEF Reserved, indexable
  <2>4. QED
    BY <2>1, <2>2, <2>3 DEF Unsuitable
<1>5. Applicable' = Applicable
  BY <1>1, <1>2, <1>4 DEF Applicable
<1>6. directories(base)' = directories(base)
  BY <1>1 DEF directories
<1>7. QED
  BY <1>1, <1>2, <1>3, <1>4, <1>5, <1>6

(* A step of the one worker with a worktree.                               *)
LEMMA LoneStep ==
  ASSUME TypeInv, Same, made' = 1, NEW v \in Workers,
         \A w \in Workers \ {v} : Outside(w),
         NEW pc, NEW n, NEW d, NEW a, NEW x, NEW f,
         Becomes(v, pc, n, d, a, x, f), Alone(tree', pc, n, d, a, x)
  PROVE  AloneInv'
<1>1. \A w \in Workers \ {v} : Outside(w)'
  BY DEF Becomes, Others, Outside
<1>2. Alone(tree', worker'[v].pc, worker'[v].next, worker'[v].dir,
            worker'[v].accepted, worker'[v].index)
  BY DEF Becomes, Is
<1>3. Alone(tree, worker[v].pc, worker[v].next, worker[v].dir,
            worker[v].accepted, worker[v].index)'
  BY <1>2, AloneFixed DEF Alone
<1>4. made' # 0
  BY SMT
<1>5. QED
  BY <1>1, <1>3, <1>4 DEF AloneInv

(* A step of a worker without one.                                         *)
LEMMA OutsideStep ==
  ASSUME TypeInv, AloneInv, Same, faults = 0, tree' = tree, made' = made,
         NEW w \in Workers, Outside(w), worker[w].pc = "preflight",
         NEW pc \in {"worktree", "failed"}, NEW n, Moves(w, pc, n),
         made = 1 => ~Unsuitable
  PROVE  AloneInv'
<1>1. Outside(w)'
  BY DEF Moves, Becomes, Is, Outside
<1>2. \A v \in Workers \ {w} : worker'[v] = worker[v]
  BY DEF Moves, Becomes, Others
<1>3. \A v \in Workers : Outside(v) => Outside(v)'
  BY <1>1, <1>2 DEF Outside
<1>4. CASE made = 0
  <2>1. \A v \in Workers : Outside(v)'
    BY <1>3, <1>4 DEF AloneInv
  <2>2. made' # 1
    BY <1>4, SMT
  <2>3. QED
    BY <2>1, <2>2 DEF AloneInv
<1>5. CASE made = 1
  <2>1. PICK v \in Workers :
          /\ \A u \in Workers \ {v} : Outside(u)
          /\ Alone(tree, worker[v].pc, worker[v].next, worker[v].dir,
                   worker[v].accepted, worker[v].index)
    BY <1>5 DEF AloneInv
  <2>2. v # w
    BY <1>5, <2>1 DEF Alone
  <2>3. Alone(tree, worker[v].pc, worker[v].next, worker[v].dir,
              worker[v].accepted, worker[v].index)'
    BY <1>2, <2>1, <2>2, AloneFixed DEF Alone
  <2>4. made' # 0
    BY <1>5, SMT
  <2>5. QED
    BY <1>3, <2>1, <2>3, <2>4 DEF AloneInv
<1>6. CASE made # 0 /\ made # 1
  BY <1>6 DEF AloneInv
<1>7. QED
  BY <1>4, <1>5, <1>6

(* Where the proposal is unsuitable nothing is left to show.               *)
LEMMA UnsuitableStep ==
  ASSUME TypeInv, Same, made' = 1, NEW v \in Workers, NEW w \in Workers,
         \A u \in Workers \ {v} : Outside(u), Unsuitable,
         \A u \in Workers \ {w} : worker'[u] = worker[u],
         w # v => Outside(w)'
  PROVE  AloneInv'
<1>1. \A u \in Workers \ {v} : Outside(u)'
  BY DEF Outside
<1>2. Alone(tree, worker[v].pc, worker[v].next, worker[v].dir,
            worker[v].accepted, worker[v].index)'
  BY AloneFixed DEF Alone
<1>3. made' # 0
  BY SMT
<1>4. QED
  BY <1>1, <1>2, <1>3 DEF AloneInv

(* The checks a lone worker makes of a suitable proposal all hold.         *)
LEMMA AlonePrepares ==
  ASSUME TypeInv, Applicable, NEW w \in Workers, tree = Fresh,
         worker[w].dir = 1
  PROVE  prepare(w)
<1>1. change(w) \in Changes
  BY ChangeType
<1>2. mounted(w) = Fresh /\ Fresh.files = base
  BY DEF mounted, Fresh
<1>3. QED
  BY <1>1, <1>2, ApplicableChange DEF prepare

(* The temporary name of a change is free when its turn has come.          *)
LEMMA AloneFree ==
  ASSUME TypeInv, Applicable, NEW n \in 1..Len(changes),
         changes[n].op # "delete", NEW t, t.files = Partly[n],
         t.dirs = directories(base)
  PROVE  temporaryFree(t, changes[n].path)
<1>1. n \in replaced(changes)
  BY ChangesType DEF replaced, TypeInv
<1>2. PICK u : u = [files |-> Partly[n], dirs |-> directories(base)]
  OBVIOUS
<1>3. temporaryFree(u, changes[n].path)
  BY <1>1, <1>2 DEF Applicable, Unsuitable, Occupied
<1>4. u.files = t.files /\ u.dirs = t.dirs
  BY <1>2
<1>5. QED
  BY <1>3, <1>4 DEF temporaryFree

(* A change leaves what the proposal describes.                            *)
LEMMA AloneApplied ==
  ASSUME TypeInv, Applicable, NEW c \in Changes
  PROVE  /\ Applied(c, base[c.path]) = Patched[c.path]
         /\ c.op # "create" => isFile(base[c.path])
<1>1. c \in Change
  BY ApplicableChange
<1>2. c.op \in {"create", "update", "delete"}
  BY <1>1, SMT DEF Change
<1>3. QED
  BY <1>2, ApplicableChange DEF Applied

(* The entry of a change is the one the proposal describes.                *)
LEMMA AloneBuilds ==
  ASSUME TypeInv, Applicable, NEW w \in Workers, tree.files = Patched,
         NEW e, e = IF change(w).op = "delete" THEN Absent
                    ELSE [mode |-> candidateMode(change(w)),
                          body |-> tree.files[change(w).path].body]
  PROVE  appliedContent(w) /\ e = Patched[change(w).path]
<1>1. PICK c, b, q : /\ c = change(w) /\ b = base[c.path]
                     /\ q = Patched[c.path]
  OBVIOUS
<1>2. c \in Changes /\ c \in Change
  BY <1>1, ChangeType
<1>3. /\ c.op = "create" => q = [mode |-> "644", body |-> c.new]
      /\ c.op = "delete" => q = Absent
      /\ c.op = "update" => q = [mode |-> b.mode, body |-> c.new]
      /\ c.op # "create" => b.mode \in {"644", "755"}
  BY <1>1, <1>2, ApplicableChange DEF isFile
<1>4. /\ c.op \in {"create", "update", "delete"}
      /\ candidateMode(c) = IF c.op = "create" THEN "644" ELSE b.mode
      /\ e = IF c.op = "delete" THEN Absent
             ELSE [mode |-> candidateMode(c), body |-> q.body]
  <2>1. c.op \in {"create", "update", "delete"}
    BY <1>2, SMT DEF Change
  <2>2. QED
    BY <1>1, <2>1 DEF candidateMode
<1>5. /\ c.op # "delete" => q.mode \in {"644", "755"} /\ q.body = c.new
      /\ e = q
  BY <1>3, <1>4, SMT
<1>6. appliedContent(w)
  BY <1>1, <1>5 DEF appliedContent, isFile
<1>7. QED
  BY <1>1, <1>5, <1>6

(* As many paths are touched as there are changes.                         *)
LEMMA TouchedCount ==
  ASSUME Counting, TypeInv, Distinct
  PROVE  Cardinality(Touched) = Len(changes)
<1>1. /\ Len(changes) \in Nat /\ DOMAIN changes = 1..Len(changes)
  BY ChangesType DEF TypeInv
<1>2. PICK g : g = [i \in 1..Len(changes) |-> changes[i].path]
  OBVIOUS
<1>3. g \in [1..Len(changes) -> Touched]
  BY <1>1, <1>2 DEF Touched, Changes
<1>4. distinct(g)
  BY <1>1, <1>2 DEF Distinct, distinct
<1>5. Touched = {g[i] : i \in 1..Len(changes)}
  BY <1>1, <1>2 DEF Touched, Changes
<1>6. QED
  BY <1>1, <1>3, <1>4, <1>5 DEF Counting

(* The candidate of a suitable proposal has the proposed diff.             *)
LEMMA AloneVerifies ==
  ASSUME TypeInv, Counting, Applicable, NEW w \in Workers,
         worker[w].index = Patched
  PROVE  verifyCandidateDiff(w)
<1>1. Distinct
  BY DEF Applicable, preflightChanges, Distinct
<1>2. ASSUME NEW c \in Changes
      PROVE  /\ c.path \in Paths /\ base[c.path] # Patched[c.path]
             /\ c.op = CASE base[c.path] = Absent -> "create"
                         [] Patched[c.path] = Absent -> "delete"
                         [] OTHER -> "update"
             /\ c.op # "create" => base[c.path].body = c.old
             /\ c.op # "delete" => /\ Patched[c.path].body = c.new
                                   /\ Patched[c.path].mode = candidateMode(c)
  <2>1. PICK b, q : b = base[c.path] /\ q = Patched[c.path]
    OBVIOUS
  <2>2. /\ c \in Change /\ c.path \in Paths
        /\ c.op = "create" =>
             b = Absent /\ q = [mode |-> "644", body |-> c.new]
        /\ c.op = "delete" => q = Absent
        /\ c.op = "update" =>
             q = [mode |-> b.mode, body |-> c.new] /\ c.new # c.old
        /\ c.op # "create" => b.mode \in {"644", "755"} /\ b.body = c.old
    BY <2>1, ApplicableChange DEF isFile
  <2>3. c.op \in {"create", "update", "delete"}
    BY <2>2, SMT DEF Change
  <2>4. candidateMode(c) = IF c.op = "create" THEN "644" ELSE b.mode
    BY <2>1 DEF candidateMode
  <2>5. /\ b # q
        /\ c.op = CASE b = Absent -> "create"
                    [] q = Absent -> "delete"
                    [] OTHER -> "update"
        /\ c.op # "delete" => q.body = c.new /\ q.mode = candidateMode(c)
    BY <2>2, <2>3, <2>4, SMT DEF Absent
  <2>6. QED
    BY <2>1, <2>2, <2>5
<1>3. candidatePathStatuses(w) = Touched
  <2>1. \A p \in Paths : base[p] # Patched[p] => p \in Touched
    BY PatchedElsewhere
  <2>2. \A p \in Touched : p \in Paths /\ base[p] # Patched[p]
    BY <1>2 DEF Touched
  <2>3. QED
    BY <2>1, <2>2 DEF candidatePathStatuses
<1>4. Cardinality(candidatePathStatuses(w)) = Len(changes)
  BY <1>1, <1>3, TouchedCount
<1>5. \A c \in Changes : c.path \in candidatePathStatuses(w)
  BY <1>3 DEF Touched
<1>6. QED
  BY <1>2, <1>4, <1>5 DEF verifyCandidateDiff, status

(* The one worker that has a worktree, phase by phase.                     *)
LEMMA LoneKept ==
  ASSUME TypeInv, Counting, ExactInv, NEW w \in Workers, made = 1,
         \A u \in Workers \ {w} : Outside(u),
         Alone(tree, worker[w].pc, worker[w].next, worker[w].dir,
               worker[w].accepted, worker[w].index),
         ~Unsuitable, faults' = 0, faults = 0,
         \/ Preflight(w) \/ CreateWorktree(w) \/ ValidateTargets(w)
         \/ OpenWorkspace(w) \/ Prepare(w) \/ Apply(w)
         \/ ReadTree(w) \/ BuildIndex(w) \/ VerifyCandidate(w)
         \/ RemoveWorktree(w) \/ Stop(w)
  PROVE  AloneInv'
<1>1. /\ Fresh.id = 1 /\ Fresh.files = base /\ Distinct \in BOOLEAN
      /\ Fresh.dirs = directories(base)
  BY DEF Fresh, Distinct
<1>2. Applicable => withinLimits(changes) /\ Distinct
  BY DEF Applicable, preflightChanges, Distinct
<1>3. worker[w].next \in 1..Len(changes)
  BY DEF TypeInv
<1>4. ~Preflight(w) /\ ~CreateWorktree(w)
  BY PreflightStep, CreateStep DEF Alone
<1>5. CASE ValidateTargets(w)
  <2>1. /\ worker[w].accepted = FALSE /\ tree = Fresh /\ tree' = tree
        /\ Same /\ made' = 1 /\ worker[w].pc = "validate"
    BY <1>5, ValidateStep DEF Alone
  <2>2. preflightChanges(changes)
    BY <2>1 DEF ExactInv, ExactOf, Exact, Past
  <2>3. CASE Moves(w, "clean", worker[w].next)
    BY <2>1, <2>3, LoneStep DEF Moves, Alone
  <2>4. CASE ~Moves(w, "clean", worker[w].next)
    <3>1. /\ \A c \in Changes : validateTarget(tree, c)
          /\ Becomes(w, "open", worker[w].next, worker[w].dir, TRUE,
                     worker[w].index, worker[w].diff)
      BY <1>5, <2>4, ValidateStep
    <3>2. Applicable
      BY <2>1, <2>2, <3>1 DEF Applicable
    <3>3. Alone(tree', "open", worker[w].next, worker[w].dir, TRUE,
                worker[w].index)
      BY <2>1, <3>2 DEF Alone
    <3>4. QED
      BY <2>1, <3>1, <3>3, LoneStep
  <2>5. QED
    BY <2>3, <2>4
<1>6. CASE OpenWorkspace(w)
  <2>1. /\ Applicable /\ tree = Fresh /\ tree' = tree /\ Same /\ made' = 1
    BY <1>6, OpenStep DEF Alone
  <2>2. tree.id # 0 /\ tree.id = 1
    BY <1>1, <2>1, SMT
  <2>3. Becomes(w, "prepare", worker[w].next, 1, worker[w].accepted,
                worker[w].index, worker[w].diff)
    BY <1>2, <1>6, <2>1, <2>2, OpenStep
  <2>4. Alone(tree', "prepare", worker[w].next, 1, worker[w].accepted,
              worker[w].index)
    BY <2>1 DEF Alone
  <2>5. QED
    BY <2>1, <2>3, <2>4, LoneStep
<1>7. CASE Prepare(w)
  <2>1. /\ Applicable /\ tree = Fresh /\ tree' = tree /\ Same /\ made' = 1
        /\ worker[w].dir = 1
    BY <1>7, PrepareStep DEF Alone
  <2>2. \/ Moves(w, "apply", 1)
        \/ Moves(w, "prepare", worker[w].next + 1)
    BY <1>7, <2>1, PrepareStep, AlonePrepares
  <2>3. /\ Alone(tree', "apply", 1, worker[w].dir, worker[w].accepted,
                 worker[w].index)
        /\ Alone(tree', "prepare", worker[w].next + 1, worker[w].dir,
                 worker[w].accepted, worker[w].index)
    BY <1>1, <2>1, PartlyFirst DEF Alone
  <2>4. QED
    BY <2>1, <2>2, <2>3, LoneStep DEF Moves
<1>8. CASE Apply(w)
  <2>1. PICK c : c = change(w)
    OBVIOUS
  <2>2. /\ c \in Changes /\ c = changes[worker[w].next]
    BY <2>1, ChangeType DEF change
  <2>3. /\ Applicable /\ tree.id = 1 /\ worker[w].dir = 1
        /\ tree.files = Partly[worker[w].next] /\ Same /\ made' = 1
        /\ tree.dirs = directories(base)
    BY <1>8, ApplyStep DEF Alone
  <2>4. tree.files[c.path] = base[c.path]
    BY <1>2, <1>3, <2>2, <2>3, PartlyNext
  <2>5. /\ Applied(c, base[c.path]) = Patched[c.path]
        /\ c.op # "create" => isFile(base[c.path])
    BY <2>2, <2>3, AloneApplied
  <2>6. /\ tree'.id = 1 /\ tree'.dirs = directories(base)
        /\ tree'.files = [tree.files EXCEPT ![c.path] = Patched[c.path]]
        /\ \/ worker[w].next = Len(changes) /\ Moves(w, "index", 1)
           \/ /\ worker[w].next + 1 \in 1..Len(changes)
              /\ Moves(w, "apply", worker[w].next + 1)
    <3>0. c.op # "delete" => temporaryFree(tree, c.path)
      BY <1>3, <2>2, <2>3, AloneFree
    <3>1. /\ tree.id = worker[w].dir
          /\ c.op # "create" => isFile(tree.files[c.path])
          /\ c.op # "delete" => temporaryFree(tree, c.path)
      BY <2>3, <2>4, <2>5, <3>0
    <3>2. /\ tree'.id = tree.id /\ tree'.dirs = tree.dirs
          /\ tree'.files = [tree.files EXCEPT ![c.path] =
                              Applied(c, tree.files[c.path])]
          /\ \/ worker[w].next = Len(changes) /\ Moves(w, "index", 1)
             \/ /\ worker[w].next + 1 \in 1..Len(changes)
                /\ Moves(w, "apply", worker[w].next + 1)
      BY <1>8, <2>1, <3>1, ApplyStep
    <3>3. QED
      BY <2>3, <2>4, <2>5, <3>2
  <2>7. /\ worker[w].next = Len(changes) => tree'.files = Patched
        /\ worker[w].next + 1 \in 1..Len(changes) =>
             tree'.files = Partly[worker[w].next + 1]
    BY <1>2, <1>3, <2>2, <2>3, <2>6, PartlyNext
  <2>8. CASE worker[w].next = Len(changes) /\ Moves(w, "index", 1)
    <3>1. Alone(tree', "index", 1, worker[w].dir, worker[w].accepted,
                worker[w].index)
      BY <2>3, <2>7, <2>8 DEF Alone
    <3>2. QED
      BY <2>3, <2>8, <3>1, LoneStep DEF Moves
  <2>9. CASE /\ worker[w].next + 1 \in 1..Len(changes)
             /\ Moves(w, "apply", worker[w].next + 1)
    <3>1. Alone(tree', "apply", worker[w].next + 1, worker[w].dir,
                worker[w].accepted, worker[w].index)
      BY <2>3, <2>6, <2>7, <2>9 DEF Alone
    <3>2. QED
      BY <2>3, <2>9, <3>1, LoneStep DEF Moves
  <2>10. QED
    BY <2>6, <2>8, <2>9
<1>9. CASE ReadTree(w)
  <2>1. /\ Applicable /\ tree.files = Patched /\ tree' = tree /\ Same
        /\ made' = 1 /\ worker[w].next = 1
        /\ Becomes(w, "build", worker[w].next, worker[w].dir,
                   worker[w].accepted, base, worker[w].diff)
    BY <1>9, ReadTreeStep DEF Alone
  <2>2. Alone(tree', "build", worker[w].next, worker[w].dir,
              worker[w].accepted, base)
    BY <2>1, PartlyFirst DEF Alone
  <2>3. QED
    BY <2>1, <2>2, LoneStep
<1>10. CASE BuildIndex(w)
  <2>1. /\ Applicable /\ tree.files = Patched /\ tree' = tree /\ Same
        /\ made' = 1 /\ worker[w].index = Partly[worker[w].next]
    BY <1>10, BuildStep DEF Alone
  <2>2. appliedContent(w) /\ indexable(change(w))
    BY <2>1, AloneBuilds, ChangeType DEF Applicable, Unsuitable, Reserved
  <2>3. PICK pc, n, e : Builds(w, pc, n, e)
    BY <1>10, <2>2, BuildStep
  <2>4. PICK c, x : /\ c = change(w)
                    /\ x = [worker[w].index EXCEPT ![c.path] = e]
    OBVIOUS
  <2>5. /\ \/ worker[w].next = Len(changes) /\ pc = "verify" /\ n = 1
           \/ /\ worker[w].next + 1 \in 1..Len(changes)
              /\ pc = "build" /\ n = worker[w].next + 1
        /\ e = IF change(w).op = "delete" THEN Absent
               ELSE [mode |-> candidateMode(change(w)),
                     body |-> tree.files[change(w).path].body]
        /\ Becomes(w, pc, n, worker[w].dir, worker[w].accepted, x,
                   worker[w].diff)
    BY <2>3, <2>4 DEF Builds
  <2>6. e = Patched[c.path]
    BY <2>1, <2>4, <2>5, AloneBuilds
  <2>7. c = changes[worker[w].next]
    BY <2>4 DEF change
  <2>8. /\ worker[w].next = Len(changes) => x = Patched
        /\ worker[w].next + 1 \in 1..Len(changes) =>
             x = Partly[worker[w].next + 1]
    BY <1>2, <1>3, <2>1, <2>4, <2>6, <2>7, PartlyNext
  <2>9. Alone(tree', pc, n, worker[w].dir, worker[w].accepted, x)
    BY <2>1, <2>5, <2>8 DEF Alone
  <2>10. QED
    BY <2>1, <2>5, <2>9, LoneStep
<1>11. CASE VerifyCandidate(w)
  <2>1. /\ Applicable /\ worker[w].index = Patched /\ Same /\ made' = 1
    BY <1>11, VerifyStep DEF Alone
  <2>2. Becomes(w, "built", worker[w].next, worker[w].dir,
                worker[w].accepted, worker[w].index,
                {entry(c) : c \in Changes})
    BY <1>11, <2>1, VerifyStep, AloneVerifies
  <2>3. Alone(tree', "built", worker[w].next, worker[w].dir,
              worker[w].accepted, worker[w].index)
    BY <2>1 DEF Alone
  <2>4. QED
    BY <2>1, <2>2, <2>3, LoneStep
<1>12. CASE RemoveWorktree(w)
  <2>1. Same /\ made' = 1
    BY <1>12, RemoveStep
  <2>2. CASE worker[w].pc = "built" /\ Moves(w, "done", worker[w].next)
    <3>1. Alone(tree', "done", worker[w].next, worker[w].dir,
                worker[w].accepted, worker[w].index)
      BY <2>2 DEF Alone
    <3>2. QED
      BY <2>1, <2>2, <3>1, LoneStep DEF Moves
  <2>3. CASE worker[w].pc = "clean" /\ Moves(w, "failed", worker[w].next)
    <3>1. Alone(tree', "failed", worker[w].next, worker[w].dir,
                worker[w].accepted, worker[w].index)
      BY <2>3 DEF Alone
    <3>2. QED
      BY <2>1, <2>3, <3>1, LoneStep DEF Moves
  <2>4. QED
    BY <1>12, <2>2, <2>3, RemoveStep
<1>13. CASE Stop(w)
  BY <1>13, StopStep, SMT
<1>14. QED
  BY <1>4, <1>5, <1>6, <1>7, <1>8, <1>9, <1>10, <1>11, <1>12, <1>13

(* A step of any worker keeps the invariant.                               *)
LEMMA AloneKept ==
  TypeInv /\ Counting /\ ExactInv /\ AloneInv /\ [Next]_vars => AloneInv'
<1> SUFFICES ASSUME TypeInv, Counting, ExactInv, AloneInv, [Next]_vars
             PROVE  AloneInv'
  OBVIOUS
<1>1. CASE UNCHANGED vars
  <2>1. /\ Same /\ worker' = worker /\ tree' = tree /\ made' = made
        /\ faults' = faults
    BY <1>1 DEF vars, Same
  <2>2. QED
    BY <2>1, AloneFixed DEF AloneInv, Alone, Outside
<1>2. CASE faults' # 0
  BY <1>2 DEF AloneInv
<1> SUFFICES ASSUME faults' = 0, NEW w \in Workers,
                    \/ Preflight(w) \/ CreateWorktree(w) \/ ValidateTargets(w)
                    \/ OpenWorkspace(w) \/ Prepare(w) \/ Apply(w)
                    \/ ReadTree(w) \/ BuildIndex(w) \/ VerifyCandidate(w)
                    \/ RemoveWorktree(w) \/ Stop(w)
             PROVE  AloneInv'
  BY <1>1, <1>2, StepIsOf
<1>3. ~Stop(w)
  <2>1. faults' # faults + 1
    BY SMT DEF TypeInv
  <2>2. QED
    BY <2>1, StopStep
<1>4. /\ faults = 0 /\ Same
      /\ made' = IF CreateWorktree(w) THEN made + 1 ELSE made
  <2>1. CASE CreateWorktree(w)
    BY <2>1, CreateStep
  <2>2. CASE ~CreateWorktree(w)
    BY <1>3, <2>2, PreflightStep, ValidateStep, OpenStep, PrepareStep,
       ApplyStep, ReadTreeStep, BuildStep, VerifyStep, RemoveStep
  <2>3. QED
    BY <2>1, <2>2
(* A worker without a worktree checks the limits, or makes a worktree.     *)
<1>5. Outside(w) => Preflight(w) \/ CreateWorktree(w)
  BY <1>3, ValidateStep, OpenStep, PrepareStep, ApplyStep, ReadTreeStep,
     BuildStep, VerifyStep, RemoveStep DEF Outside
<1>6. CASE CreateWorktree(w)
  <2>1. CASE made = 0
    <3>1. made' = 1 /\ made + 1 = 1
      BY <1>4, <1>6, <2>1, SMT
    <3>2. /\ \A u \in Workers \ {w} : Outside(u)
          /\ worker[w].accepted = FALSE
      BY <1>4, <2>1 DEF AloneInv, Outside
    <3>3. CASE Moves(w, "failed", worker[w].next)
      <4>1. Alone(tree', "failed", worker[w].next, worker[w].dir,
                  worker[w].accepted, worker[w].index)
        BY <3>2 DEF Alone
      <4>2. QED
        BY <1>4, <3>1, <3>2, <3>3, <4>1, LoneStep DEF Moves
    <3>4. CASE tree' = Fresh /\ Moves(w, "validate", 1)
      <4>1. Alone(tree', "validate", 1, worker[w].dir, worker[w].accepted,
                  worker[w].index)
        BY <3>2, <3>4 DEF Alone
      <4>2. QED
        BY <1>4, <3>1, <3>2, <3>4, <4>1, LoneStep DEF Moves
    <3>5. QED
      BY <1>6, <3>1, <3>3, <3>4, CreateStep DEF Fresh
  <2>2. CASE made # 0
    <3>1. made' # 0 /\ made' # 1
      BY <1>4, <1>6, <2>2, SMT DEF TypeInv
    <3>2. QED
      BY <3>1 DEF AloneInv
  <2>3. QED
    BY <2>1, <2>2
<1>7. CASE made = 0 /\ ~CreateWorktree(w)
  <2>1. Outside(w) /\ Preflight(w)
    BY <1>4, <1>5, <1>7 DEF AloneInv
  <2>2. made # 1
    BY <1>7, SMT
  <2>3. QED
    BY <1>4, <2>1, <2>2, PreflightStep, OutsideStep
<1>8. CASE made = 1 /\ ~CreateWorktree(w)
  <2>1. PICK v \in Workers :
          /\ \A u \in Workers \ {v} : Outside(u)
          /\ Alone(tree, worker[v].pc, worker[v].next, worker[v].dir,
                   worker[v].accepted, worker[v].index)
    BY <1>4, <1>8 DEF AloneInv
  <2>2. made' = 1
    BY <1>4, <1>8
  <2>3. CASE Unsuitable
    <3>1. \A u \in Workers \ {w} : worker'[u] = worker[u]
      BY <1>3, <1>8, PreflightStep, ValidateStep, OpenStep, PrepareStep,
         ApplyStep, ReadTreeStep, BuildStep, VerifyStep, RemoveStep
      DEF Moves, Builds, Becomes, Others
    <3>2. w # v => Outside(w)'
      <4> SUFFICES ASSUME w # v PROVE Outside(w)'
        OBVIOUS
      <4>1. Outside(w) /\ Preflight(w)
        BY <1>5, <1>8, <2>1
      <4>2. QED
        BY <4>1, PreflightStep DEF Moves, Becomes, Is, Outside
    <3>3. QED
      BY <1>4, <2>1, <2>2, <2>3, <3>1, <3>2, UnsuitableStep
  <2>4. CASE ~Unsuitable /\ w # v
    <3>1. Outside(w) /\ Preflight(w)
      BY <1>5, <1>8, <2>1, <2>4
    <3>2. QED
      BY <1>4, <2>4, <3>1, PreflightStep, OutsideStep
  <2>5. CASE ~Unsuitable /\ w = v
    BY <1>4, <1>8, <2>1, <2>5, LoneKept
  <2>6. QED
    BY <2>3, <2>4, <2>5
<1>9. CASE made # 0 /\ made # 1 /\ ~CreateWorktree(w)
  BY <1>4, <1>9 DEF AloneInv
<1>10. QED
  BY <1>6, <1>7, <1>8, <1>9

-----------------------------------------------------------------------------
(* Counting, and the theorems that rest on it.                             *)

INSTANCE FiniteSetTheorems

(* The facts of counting hold.                                             *)
LEMMA CountingHolds == Counting
<1>1. ASSUME NEW n \in Nat
      PROVE  IsFiniteSet(1..n) /\ Cardinality(1..n) = n
  <2>1. 1 \in Int /\ n \in Int
    BY SMT
  <2>2. /\ IsFiniteSet(1..n)
        /\ Cardinality(1..n) = IF 1 > n THEN 0 ELSE n - 1 + 1
    BY <2>1, FS_Interval
  <2>3. QED
    BY <2>2, SMT
<1>2. \A S : \A n \in Nat : \A f \in [1..n -> S] :
        IsFiniteSet(S) /\ Cardinality(S) <= n /\ distinct(f)
          => \A x \in S : \E i \in 1..n : f[i] = x
  <2> TAKE S
  <2> TAKE n \in Nat
  <2> TAKE f \in [1..n -> S]
  <2> HAVE IsFiniteSet(S) /\ Cardinality(S) <= n /\ distinct(f)
  <2>1. f \in Injection(1..n, S)
    BY DEF distinct, Injection, IsInjective
  <2>2. Cardinality(1..n) <= Cardinality(S) /\ Cardinality(S) \in Nat
    BY <2>1, FS_Injection, FS_CardinalityType
  <2>3. Cardinality(1..n) = Cardinality(S)
    BY <1>1, <2>2, SMTT(30)
  <2>4. f \in Surjection(1..n, S)
    BY <2>1, <2>3, FS_Injection
  <2>5. QED
    BY <2>4 DEF Surjection
<1>3. ASSUME NEW S, NEW n \in Nat, NEW f \in [1..n -> S],
             S = {f[i] : i \in 1..n}
      PROVE  f \in Surjection(1..n, S)
  BY <1>3 DEF Surjection
<1>4. ASSUME NEW S, NEW n \in Nat, NEW f \in [1..n -> S],
             S = {f[i] : i \in 1..n}
      PROVE  IsFiniteSet(S) /\ Cardinality(S) <= n
  <2>1. f \in Surjection(1..n, S) /\ IsFiniteSet(1..n)
    BY <1>1, <1>3, <1>4
  <2>2. IsFiniteSet(S) /\ Cardinality(S) <= Cardinality(1..n)
    BY <2>1, FS_Surjection
  <2>3. QED
    BY <1>1, <2>2
<1>5. ASSUME NEW S, NEW n \in Nat, NEW f \in [1..n -> S],
             S = {f[i] : i \in 1..n}, distinct(f)
      PROVE  Cardinality(S) = n
  <2>1. f \in Bijection(1..n, S)
    BY <1>3, <1>5 DEF Bijection, Injection, IsInjective, distinct
  <2>2. ExistsBijection(1..n, S)
    BY <2>1 DEF ExistsBijection
  <2>3. QED
    BY <1>1, <2>2, FS_Bijection
<1>6. \A S : \A n \in Nat : \A f \in [1..n -> S] :
        S = {f[i] : i \in 1..n} => IsFiniteSet(S) /\ Cardinality(S) <= n
  BY <1>4
<1>7. \A S : \A n \in Nat : \A f \in [1..n -> S] :
        S = {f[i] : i \in 1..n} /\ distinct(f) => Cardinality(S) = n
  BY <1>5
<1>8. QED
  BY <1>2, <1>6, <1>7 DEF Counting

(* For any trees, proposals and limits: a proposal that passed preflight   *)
(* and the target checks of Service.Run is applied and committed by a      *)
(* worker that is alone and meets no error, except where an original is    *)
(* above max_file_bytes (only the applicator looks), an update changes     *)
(* nothing (only verifyCandidateDiff sees it), the applicator's temporary  *)
(* name is too long or taken when its turn comes, or Git refuses a name.   *)
THEOREM AcceptedProposalsApply == Spec => []AcceptedApplies
<1>1. Init => AloneInv
  <2> SUFFICES ASSUME Init PROVE AloneInv
    OBVIOUS
  <2>1. \A w \in Workers : Outside(w)
    BY DEF Init, Start, Outside
  <2>2. made # 1
    BY SMT DEF Init
  <2>3. QED
    BY <2>1, <2>2 DEF AloneInv
<1>2. QED
  BY <1>1, CountingHolds, InitExact, TypeKept, ExactKept, AloneKept,
     AloneApplies, PTL DEF Spec

(* What MapReviewRequestAt accepts has a report that partitions the        *)
(* changed paths and a passing check of the candidate for every criterion, *)
(* although only lengths, duplicates and membership are tested; and what   *)
(* MapReviewProposal accepts asks for rework when a finding blocks: for    *)
(* every request, proposal and set of defects.                             *)
THEOREM ReviewsAreGrounded ==
  ASSUME ReviewMessages
  PROVE  ContractsSpec => []AcceptedReviewIsGrounded
  BY CountingHolds, ListsGround, ReviewListsInvariant, PTL
=============================================================================
