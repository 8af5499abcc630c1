------------------------------ MODULE Contracts ------------------------------
(***************************************************************************)
(* The implementation contract of the reasoning stages:                    *)
(*   go/internal/reasoning/contracts/common.go          (the envelope)     *)
(*   go/internal/reasoning/contracts/implementation.go  (requests and      *)
(*                                                       proposals)        *)
(* A message is validated by a chain of typed checks, whose first failure  *)
(* is the rejection code, and then converted by a second chain of checks   *)
(* whose failures have no code.  A message is one flat record; a missing   *)
(* field is Nil; a digest, identifier or commit is well-formed when it is  *)
(* in the set of its kind.  A behaviour is about the messages of one       *)
(* reasoning stage; a step damages a valid message in one respect, so a    *)
(* state is a message with some defects.                                   *)
(***************************************************************************)
EXTENDS Scopes, Integers, FiniteSets

CONSTANTS
  Digests, Criteria, CheckIDs, TaskIDs, Commits,  \* the well-formed ones
  Stages,                           \* the stages whose messages are damaged
  BaseRequest, BaseProposal,        \* of each, a valid request and an answer
  RequestDefects, ProposalDefects,  \* of each, a set of [kind, damage]
  ChangeDefects,                    \* of each, a set of [kind, change]
  Now,                              \* time of the validation
  MaxDefects,                       \* bound
  Nil

RepoPaths == Seq(STRING)

scopes == {"readable", "writable", "prohibited"}

pathsOf(value) ==
  \A f \in scopes \cap DOMAIN value : value[f] \subseteq RepoPaths

changesOf(value) ==
  "changes" \in DOMAIN value => \A c \in value["changes"] : c.path \in RepoPaths

(* Every path that a message has is a sequence of segments.                *)
ASSUME PathsAssumption ==
  \A s \in Stages :
    /\ pathsOf(BaseRequest[s]) /\ changesOf(BaseProposal[s])
    /\ \A d \in RequestDefects[s] : pathsOf(d.damage)
    /\ \A d \in ProposalDefects[s] : changesOf(d.damage)
    /\ \A d \in ChangeDefects[s] : d.change.path \in RepoPaths

VARIABLES
  stage,
  request, proposal,
  kinds       \* the kinds of the defects of each

messageVars == <<stage, request, proposal, kinds>>

ContractsInit ==
  /\ stage \in Stages
  /\ request = BaseRequest[stage]
  /\ proposal = BaseProposal[stage]
  /\ kinds = [request |-> {}, proposal |-> {}]

mayDamage == Cardinality(kinds.request) + Cardinality(kinds.proposal)
               < MaxDefects

(* A field is damaged once, so that no defect repairs another.             *)
undamaged(value, base, d) ==
  \A f \in DOMAIN d.damage : value[f] = base[f]

overwrite(value, damage) ==
  [f \in DOMAIN value |-> IF f \in DOMAIN damage THEN damage[f] ELSE value[f]]

DamageRequest(d) ==
  /\ mayDamage /\ d.kind \notin kinds.request
  /\ undamaged(request, BaseRequest[stage], d)
  /\ request' = overwrite(request, d.damage)
  /\ kinds' = [kinds EXCEPT !.request = @ \cup {d.kind}]
  /\ UNCHANGED <<stage, proposal>>

DamageProposal(d) ==
  /\ mayDamage /\ d.kind \notin kinds.proposal
  /\ undamaged(proposal, BaseProposal[stage], d)
  /\ proposal' = overwrite(proposal, d.damage)
  /\ kinds' = [kinds EXCEPT !.proposal = @ \cup {d.kind}]
  /\ UNCHANGED <<stage, request>>

(* The provider proposes one more change.                                  *)
AddChange(d) ==
  /\ mayDamage /\ d.kind \notin kinds.proposal
  /\ proposal.changes # {}
  /\ proposal' = [proposal EXCEPT !.changes = @ \cup {d.change}]
  /\ kinds' = [kinds EXCEPT !.proposal = @ \cup {d.kind}]
  /\ UNCHANGED <<stage, request>>

ContractsNext ==
  \/ \E d \in RequestDefects[stage] : DamageRequest(d)
  \/ \E d \in ProposalDefects[stage] : DamageProposal(d)
  \/ \E d \in ChangeDefects[stage] : AddChange(d)

ContractsSpec == ContractsInit /\ [][ContractsNext]_messageVars

-----------------------------------------------------------------------------
(* The envelope.                                                           *)

digestPattern(d) == d \in Digests

mapEnvelopeTimes(r) ==
  /\ r.attempt # 0 /\ r.created # Nil /\ r.expires # Nil
  /\ r.expires > r.created

validateEnvelopeBudget(r) ==
  /\ r.budget # Nil
  /\ r.budget.input > 0 /\ r.budget.output > 0 /\ r.budget.requests > 0

mapArtifacts(r) ==
  \A i \in DOMAIN r.artifacts :
    /\ digestPattern(r.artifacts[i].sha256)
    /\ r.artifacts[i].uri = <<"artifact", r.artifacts[i].sha256>>

(* proposal_only, and no capability.                                       *)
validateAuthority(r) ==
  /\ r.authority # Nil
  /\ r.authority.mode = "proposal_only" /\ r.authority.may = {}

validateEnvelopeHeader(r, s) ==
  /\ r.stage = s
  /\ validateAuthority(r)
  /\ r.version = "1" /\ r.id # "" /\ r.run # ""

MapEnvelope(r, s) ==
  /\ r.envelope
  /\ validateEnvelopeHeader(r, s)
  /\ mapEnvelopeTimes(r)
  /\ validateEnvelopeBudget(r)
  /\ digestPattern(r.manifest)
  /\ mapArtifacts(r)

(* The answer is bound to the request, artifact by artifact.               *)
validateProposalIdentity(p, r, s) ==
  /\ p.stage = s /\ p.version = r.version
  /\ p.id = r.id /\ p.run = r.run /\ p.task = r.task
  /\ p.attempt = r.attempt /\ p.manifest = r.manifest
  /\ Len(p.inputs) = Len(r.artifacts)
  /\ \A i \in DOMAIN r.artifacts : p.inputs[i] = r.artifacts[i].sha256

validCriteria(cs) ==
  /\ \A i \in DOMAIN cs : cs[i] \in Criteria
  /\ \A i, j \in DOMAIN cs : cs[i] = cs[j] => i = j

elements(s) == {s[i] : i \in DOMAIN s}

-----------------------------------------------------------------------------
(* Implementation requests, typed.                                         *)

validateImplementationRequestSchema(r) ==
  /\ r.envelope /\ r.version = "1"
  /\ r.created # Nil /\ r.expires # Nil
  /\ r.authority # Nil /\ r.budget # Nil
  /\ \A f \in r.context : f.content # ""

(* Now = 0 stands for a validation without a time (a replay).              *)
unexpired(r, now) == now # 0 => r.expires > now

validateImplementationRequestIdentity(r, now) ==
  /\ mapEnvelopeTimes(r)
  /\ r.id # "" /\ r.run # "" /\ r.task # Nil /\ r.attempt # 0
  /\ r.approvedTask \in TaskIDs /\ r.task = r.approvedTask
  /\ r.specification # ""
  /\ unexpired(r, now)

artifactContainsDigest(r, d) ==
  \E i \in DOMAIN r.artifacts : r.artifacts[i].sha256 = d

boundFile(r, f) ==
  /\ digestPattern(f.sha256)
  /\ f.sha256 = <<"sha256", f.content>>
  /\ artifactContainsDigest(r, f.sha256)

validateImplementationRequestBindings(r) ==
  /\ digestPattern(r.manifest)
  /\ digestPattern(r.taskDigest) /\ digestPattern(r.specificationDigest)
  /\ mapArtifacts(r)
  /\ \A f \in r.context : boundFile(r, f)

readableFile(r, f) == validRepoPath(f.path) /\ pathWithin(f.path, r.readable)

validateImplementationRequestScope(r) ==
  /\ validatePathScopes(r.readable, r.writable, r.prohibited)
  /\ \A f \in r.context : readableFile(r, f)

validateImplementationRequestPolicy(r) ==
  /\ r.stage = "implementation"
  /\ validateEnvelopeBudget(r)
  /\ r.commit \in Commits
  /\ r.checks \subseteq CheckIDs

(* Mutant: the scope is looked at before the authority.                    *)
validateImplementationRequest_Order(r, now) ==
  IF ~validateImplementationRequestSchema(r) THEN "SCHEMA_INVALID" ELSE
  IF ~validateImplementationRequestIdentity(r, now) THEN "REQUEST_MISMATCH"
  ELSE
  IF ~validateImplementationRequestBindings(r) THEN "REQUEST_MISMATCH" ELSE
  IF ~validateImplementationRequestScope(r) THEN "SCOPE_VIOLATION" ELSE
  IF ~validateAuthority(r) THEN "AUTHORITY_VIOLATION" ELSE
  IF ~validCriteria(r.criteria) THEN "REQUIRED_COVERAGE_MISSING" ELSE
  IF ~validateImplementationRequestPolicy(r) THEN "SCHEMA_INVALID" ELSE "ok"

validateImplementationRequest(r, now) ==
  IF ~validateImplementationRequestSchema(r) THEN "SCHEMA_INVALID" ELSE
  IF ~validateImplementationRequestIdentity(r, now) THEN "REQUEST_MISMATCH"
  ELSE
  IF ~validateImplementationRequestBindings(r) THEN "REQUEST_MISMATCH" ELSE
  IF ~validateAuthority(r) THEN "AUTHORITY_VIOLATION" ELSE
  IF ~validateImplementationRequestScope(r) THEN "SCOPE_VIOLATION" ELSE
  IF ~validCriteria(r.criteria) THEN "REQUIRED_COVERAGE_MISSING" ELSE
  IF ~validateImplementationRequestPolicy(r) THEN "SCHEMA_INVALID" ELSE "ok"

-----------------------------------------------------------------------------
(* Implementation requests, converted.                                     *)

validateImplementationRequestFields(r) ==
  /\ r.approvedTask \in TaskIDs /\ digestPattern(r.taskDigest)
  /\ r.specification # "" /\ digestPattern(r.specificationDigest)
  /\ r.commit \in Commits
  /\ validCriteria(r.criteria)
  /\ r.checks # {}

mapRepositoryContextFile(r, f) == readableFile(r, f) /\ boundFile(r, f)

convertImplementationRequest(r) ==
  /\ MapEnvelope(r, "implementation")
  /\ validateImplementationRequestFields(r)
  /\ validatePathScopes(r.readable, r.writable, r.prohibited)
  /\ r.checks \subseteq CheckIDs
  /\ \A f \in r.context : mapRepositoryContextFile(r, f)

(* "ok", a rejection code, or "error" for a failure without a code.        *)
MapImplementationRequestAt(r, now) ==
  IF validateImplementationRequest(r, now) # "ok"
  THEN validateImplementationRequest(r, now)
  ELSE IF convertImplementationRequest(r) THEN "ok" ELSE "error"

-----------------------------------------------------------------------------
(* Implementation proposals.                                               *)

mapScopeChangeRequest(s) ==
  s # Nil =>
    /\ s.summary # ""
    /\ \A p \in s.readable \cup s.writable : validRepoPath(p)
    /\ s.criteria # <<>> => validCriteria(s.criteria)
    /\ s.checks \subseteq CheckIDs

complete(c) == c.rationale # "" /\ c.criteria # {}

validateImplementationProposalSchema(p) ==
  /\ p.identity /\ p.summary # "" /\ p.changes # {}
  /\ mapScopeChangeRequest(p.scopeChange)
  /\ \A c \in p.changes : c.path # <<>> /\ complete(c)

sameTask(p, r) ==
  /\ p.approvedTask = r.approvedTask
  /\ p.taskDigest = r.taskDigest
  /\ p.specificationDigest = r.specificationDigest

(* Mutant: the attempt is not compared.                                    *)
validateImplementationProposalIdentity_Attempt(p, r) ==
  /\ p.version = r.version /\ p.id = r.id /\ p.run = r.run
  /\ p.task = r.task /\ sameTask(p, r)

validateImplementationProposalIdentity(p, r) ==
  /\ p.version = r.version /\ p.id = r.id /\ p.run = r.run
  /\ p.attempt = r.attempt /\ p.task = r.task /\ sameTask(p, r)

validateImplementationProposalBindings(p, r) ==
  /\ p.manifest = r.manifest
  /\ Len(p.inputs) = Len(r.artifacts)
  /\ \A i \in DOMAIN r.artifacts : p.inputs[i] = r.artifacts[i].sha256

validateRequestedChecks(p, r) == p.requested \subseteq r.checks

inScope(c, r) ==
  /\ validRepoPath(c.path)
  /\ pathWithin(c.path, r.writable)
  /\ ~pathIsProhibited(c.path, r.prohibited)

validateImplementationProposalScope(p, r) ==
  /\ validateRequestedChecks(p, r)
  /\ \A c \in p.changes :
       inScope(c, r) /\ c.criteria \subseteq elements(r.criteria)

validateImplementationCoverage(p, r) ==
  elements(r.criteria) \subseteq UNION {c.criteria : c \in p.changes}

emptySHA256 == <<"sha256", "">>

validateFileOperation(c) ==
  \/ c.op = "create" /\ c.expected = emptySHA256 /\ c.content # Nil
  \/ c.op = "update" /\ digestPattern(c.expected) /\ c.content # Nil
  \/ c.op = "delete" /\ digestPattern(c.expected) /\ c.content = Nil

validateImplementationProposalPolicy(p) ==
  /\ p.stage = "implementation"
  /\ \A c \in p.changes : validateFileOperation(c)

validateImplementationProposal(p, r) ==
  IF ~validateImplementationProposalSchema(p) THEN "SCHEMA_INVALID" ELSE
  IF ~validateImplementationProposalIdentity(p, r) THEN "REQUEST_MISMATCH"
  ELSE
  IF ~validateImplementationProposalBindings(p, r) THEN "REQUEST_MISMATCH"
  ELSE
  IF ~validateImplementationProposalScope(p, r) THEN "SCOPE_VIOLATION" ELSE
  IF ~validateImplementationCoverage(p, r) THEN "REQUIRED_COVERAGE_MISSING"
  ELSE
  IF ~validateImplementationProposalPolicy(p) THEN "SCHEMA_INVALID" ELSE "ok"

mapFileChange(c, r) ==
  /\ inScope(c, r) /\ complete(c)
  /\ validateFileOperation(c)
  /\ c.criteria \subseteq elements(r.criteria)

convertImplementationProposal(p, r) ==
  /\ p.identity
  /\ validateProposalIdentity(p, r, "implementation")
  /\ sameTask(p, r)
  /\ p.summary # "" /\ p.changes # {}
  /\ validateRequestedChecks(p, r)
  /\ \A c \in p.changes : mapFileChange(c, r)
  /\ validateImplementationCoverage(p, r)
  /\ mapScopeChangeRequest(p.scopeChange)

MapImplementationProposal(p, r) ==
  IF validateImplementationProposal(p, r) # "ok"
  THEN validateImplementationProposal(p, r)
  ELSE IF convertImplementationProposal(p, r) THEN "ok" ELSE "error"

-----------------------------------------------------------------------------
(* Properties.                                                             *)

(* The documented order of the checks, and the conversion behind them,     *)
(* whose failures have no code.                                            *)
Phases ==
  <<"schema", "identity", "binding", "authority", "scope", "coverage",
    "policy", "conversion">>

codeOf ==
  [schema |-> "SCHEMA_INVALID", identity |-> "REQUEST_MISMATCH",
   binding |-> "REQUEST_MISMATCH", authority |-> "AUTHORITY_VIOLATION",
   scope |-> "SCOPE_VIOLATION", coverage |-> "REQUIRED_COVERAGE_MISSING",
   policy |-> "SCHEMA_INVALID", conversion |-> "error"]

(* What the first phase that has a defect answers.                         *)
expected(broken) ==
  IF broken = {} THEN "ok"
  ELSE codeOf[Phases[CHOOSE i \in DOMAIN Phases :
    Phases[i] \in broken /\ \A j \in 1..i - 1 : Phases[j] \notin broken]]

(* A request with defects in several phases gets the code of the earliest  *)
(* one in the documented order (MapImplementationRequestAt).  The kind of  *)
(* a defect says which phase the documents give it, for implementations    *)
(* and reviews alike, and the conversion refuses only what has no checks.  *)
FirstRejectionOfRequest ==
  stage = "implementation" =>
    MapImplementationRequestAt(request, Now) = expected(kinds.request)

(* The same of an answer to a valid request (MapImplementationProposal).   *)
FirstRejectionOfProposal ==
  stage = "implementation" /\ kinds.request = {} =>
    MapImplementationProposal(proposal, request) = expected(kinds.proposal)

accepted ==
  /\ stage = "implementation"
  /\ MapImplementationRequestAt(request, Now) = "ok"
  /\ MapImplementationProposal(proposal, request) = "ok"

(* What an accepted proposal changes is readable by the task and meets no  *)
(* prohibited path, neither above it nor below it: that no prohibited path *)
(* lies below a change is tested nowhere, and follows from the test of the *)
(* proposal and the two-sided test of its request together.                *)
AcceptedChangesInScope ==
  accepted => \A c \in proposal.changes :
    /\ pathWithin(c.path, request.readable)
    /\ \A q \in request.prohibited : ~under(c.path, q) /\ ~under(q, c.path)

=============================================================================
