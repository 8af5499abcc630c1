---------------------------- MODULE Verification ----------------------------
(***************************************************************************)
(* The verification service over the workflow kernel:                      *)
(*   go/internal/verification/service.go     (Verify)                      *)
(*   go/internal/verification/catalog.go     (Resolve, CalculateCoverage)  *)
(*   go/internal/verification/repository.go  (reservation ledger)          *)
(*   go/cmd/verification-worker/main.go      (one check)                   *)
(*   go/internal/stage/handlers.go           (verify: how it is called)    *)
(*                                                                         *)
(* One attempt of one task waits for its verification.  Checks are run in  *)
(* a workspace of their own and may give another outcome each time, so the *)
(* evidence that was saved first is the one that counts.  Callers overlap  *)
(* when a reservation expires, and share its owner once evidence is saved. *)
(***************************************************************************)
EXTENDS Workflow, Sequences

CONSTANTS
  T,               \* the task that is verified
  Candidate,       \* its candidate commit
  Report,          \* and the artifact of its execution report
  Criteria,        \* acceptance criteria of the task
  Catalog,         \* the checks that the service knows
  Requests,        \* what callers may ask for
  Expiry,          \* when the implementation request, and its lease, expires
  Workers,         \* concurrent calls of Verify
  MaxConcurrent,   \* capacity: evidence collected at a time
  MaxCollections,  \* bound: how often evidence is collected
  MaxFaults        \* bound: deaths, errors and slow owners

VARIABLES
  ledger,      \* the row of verification_ledger
  worker,      \* the memory of each worker
  slots,       \* free places of the two semaphores
  measured,    \* history: what the checks of each report gave
  returned,    \* results that callers were given
  clock,
  faults

verifVars == <<ledger, worker, slots, measured, returned, clock, faults>>
allVars == <<vars, verifVars>>

-----------------------------------------------------------------------------
NoRow ==
  [state |-> "NONE", digest |-> Nil, owner |-> Nil, expired |-> FALSE,
   evidence |-> Nil, final |-> Nil, result |-> Nil]

Idle ==
  [pc |-> "idle", request |-> Nil, rev |-> 0, owner |-> Nil, seen |-> <<>>,
   evidence |-> Nil]

ReportRef(n) == <<"verification", n>>

(* What a verification saves: its report, and whether it passed.           *)
Evidence ==
  [report : {ReportRef(n) : n \in 1..MaxCollections}, passed : BOOLEAN]

(* The task, its candidate and the reports are ones the workflow knows; an *)
(* absent time or evidence differs from every present one.                 *)
ASSUME VerificationAssumption ==
  /\ T \in Tasks /\ Candidate \in Commits /\ Report \in Artifacts
  /\ \A n \in 1..MaxCollections : ReportRef(n) \in Artifacts
  /\ Nil \notin Times /\ 0 \in Times /\ Nil \notin Evidence
  /\ IsFiniteSet(Workers)
  /\ MaxConcurrent \in Nat /\ MaxCollections \in Nat

(* The task was executed in its first attempt and waits for verification.  *)
VerifInit ==
  /\ run = [NoRun EXCEPT !.state = "EXECUTING", !.rev = 6]
  /\ task = [t \in Tasks |->
       [NoTask EXCEPT !.state = "VERIFYING", !.rev = 5, !.max = 1,
                      !.attempt = 1, !.cand = Candidate,
                      !.exec = [ref |-> Report, attempt |-> 1,
                                commit |-> Candidate, passed |-> TRUE]]]
  /\ deps = {}
  /\ log = [a \in Aggregates |->
       {[rev |-> n, cmd |-> Fresh] : n \in 1..Revision(a)}]
  /\ commands = [i \in {} |-> Nil]
  /\ ledger = NoRow
  /\ worker = [w \in Workers |-> Idle]
  /\ slots = [executions |-> MaxConcurrent, workspaces |-> MaxConcurrent]
  /\ measured = <<>>
  /\ returned = {}
  /\ clock = 0
  /\ faults = 0

Fault == faults < MaxFaults /\ faults' = faults + 1
at(w, pc) == worker[w].pc = pc
goto(w, pc) == worker' = [worker EXCEPT ![w].pc = pc]
stop(w) == worker' = [worker EXCEPT ![w] = Idle]

-----------------------------------------------------------------------------
(* The request.                                                            *)

verificationExpectedRevision ==
  CASE task[T].state = "VERIFYING" -> task[T].rev
    [] task[T].state = "REVIEWING" -> task[T].rev - 1
    [] OTHER -> 0

(* Each criterion once, with checks that the task declares and that the    *)
(* catalog knows; a criterion may have none.                               *)
resolvable(r) ==
  /\ DOMAIN r.requirements = Criteria
  /\ \A c \in Criteria : r.requirements[c] \subseteq r.available \cap Catalog

(* MapImplementationRequestAt, on every call, also one that would resume.  *)
unexpired == Expiry > clock

executionReportMatches(r) == r.report = Report /\ r.candidate = Candidate

Call(w, r) ==
  /\ worker[w] = Idle
  /\ verificationExpectedRevision # 0
  /\ unexpired
  /\ resolvable(r)
  /\ executionReportMatches(r)
  /\ worker' = [worker EXCEPT ![w] =
       [Idle EXCEPT !.pc = "begin", !.request = r,
                    !.rev = verificationExpectedRevision]]
  /\ UNCHANGED <<vars, ledger, slots, measured, returned, clock, faults>>

(* ResolvedPlan.Checks.                                                    *)
checksOf(r) == UNION {r.requirements[c] : c \in DOMAIN r.requirements}

verificationRequestDigest(w) == <<worker[w].request, worker[w].rev>>

mine(w) == ledger.digest = verificationRequestDigest(w)

-----------------------------------------------------------------------------
(* Begin.                                                                  *)

(* Mutant: a reservation is recovered after its evidence was saved.        *)
mayReserve_Late(w) ==
  \/ ledger.state = "NONE"
  \/ ledger.state # "completed" /\ ledger.expired /\ mine(w)

(* Mutant: an expired reservation is not recovered.                        *)
mayReserve_First(w) == ledger.state = "NONE"

(* INSERT, or recoverReservation.                                          *)
mayReserve(w) ==
  \/ ledger.state = "NONE"
  \/ ledger.state = "reserved" /\ ledger.expired /\ mine(w)

Reserve(w) ==
  /\ at(w, "begin")
  /\ mayReserve(w)
  /\ ledger' = [ledger EXCEPT
       !.state = "reserved", !.digest = verificationRequestDigest(w),
       !.owner = w, !.expired = FALSE]
  /\ worker' = [worker EXCEPT ![w].pc = "executions", ![w].owner = w]
  /\ UNCHANGED <<vars, slots, measured, returned, clock, faults>>

(* Saved evidence is taken up under the owner that saved it.               *)
Resume(w) ==
  /\ at(w, "begin")
  /\ ledger.state = "evidence_ready" /\ mine(w)
  /\ worker' = [worker EXCEPT ![w].pc = "final-time",
                              ![w].owner = ledger.owner,
                              ![w].evidence = ledger.evidence]
  /\ UNCHANGED <<vars, ledger, slots, measured, returned, clock, faults>>

(* Mutant: saved evidence answers a caller before the workflow has it.     *)
replayable_Evidence == {"evidence_ready", "completed"}

replayable == {"completed"}

Replay(w) ==
  /\ worker[w].pc \in {"begin", "replay"}
  /\ ledger.state \in replayable /\ mine(w)
  /\ returned' = returned \cup {<<T, ledger.result>>}
  /\ stop(w)
  /\ UNCHANGED <<vars, ledger, slots, measured, clock, faults>>

(* ErrVerificationConflict, or the caller's time is up while it waits.     *)
BeginRefused(w) ==
  /\ at(w, "begin")
  /\ \/ ledger.state # "NONE" /\ ~mine(w)
     \/ ledger.state = "reserved" /\ ~ledger.expired
  /\ stop(w)
  /\ UNCHANGED <<vars, ledger, slots, measured, returned, clock, faults>>

-----------------------------------------------------------------------------
(* Capacity and checks.                                                    *)

Acquire(w, kind, pc, next) ==
  /\ at(w, pc)
  /\ slots[kind] > 0
  /\ slots' = [slots EXCEPT ![kind] = @ - 1]
  /\ goto(w, next)
  /\ UNCHANGED <<vars, ledger, measured, returned, clock, faults>>

released(kinds) ==
  [k \in DOMAIN slots |-> IF k \in kinds THEN slots[k] + 1 ELSE slots[k]]

(* Mutant: the first semaphore is not given back.                          *)
AcquireCancelled_Leaks(w) ==
  /\ worker[w].pc \in {"executions", "workspaces"}
  /\ Fault
  /\ stop(w)
  /\ UNCHANGED <<vars, ledger, slots, measured, returned, clock>>

AcquireCancelled(w) ==
  /\ worker[w].pc \in {"executions", "workspaces"}
  /\ Fault
  /\ slots' = IF at(w, "executions") THEN slots ELSE released({"executions"})
  /\ stop(w)
  /\ UNCHANGED <<vars, ledger, measured, returned, clock>>

(* What a check gives: the verification worker reports the exit code, the  *)
(* time limit and a full output buffer.                                    *)
Outcomes == {"zero", "nonzero", "timed-out", "truncated"}

passed(outcome) == outcome = "zero"

(* A check that has not run yet runs on the candidate.                     *)
RunCheck(w) ==
  LET left == checksOf(worker[w].request) \ DOMAIN worker[w].seen IN
  /\ at(w, "checks")
  /\ left # {}
  /\ \E c \in {CHOOSE c \in left : TRUE}, o \in Outcomes :
       worker' = [worker EXCEPT ![w].seen =
         [k \in DOMAIN @ \cup {c} |-> IF k = c THEN o ELSE @[k]]]
  /\ UNCHANGED <<vars, ledger, slots, measured, returned, clock, faults>>

(* Mutant: a criterion without checks counts as passed.                    *)
CalculateCoverage_Vacuous(requirements, seen) ==
  \A c \in DOMAIN requirements :
    \A k \in requirements[c] : k \in DOMAIN seen /\ passed(seen[k])

CalculateCoverage(requirements, seen) ==
  \A c \in DOMAIN requirements :
    /\ requirements[c] # {}
    /\ \A k \in requirements[c] : k \in DOMAIN seen /\ passed(seen[k])

(* The report is stored and capacity is released.                          *)
StoreReport(w) ==
  LET r == worker[w].request
      n == Len(measured) + 1
  IN  /\ at(w, "checks")
      /\ checksOf(r) = DOMAIN worker[w].seen
      /\ n <= MaxCollections
      /\ measured' = Append(measured, worker[w].seen)
      /\ slots' = released({"executions", "workspaces"})
      /\ worker' = [worker EXCEPT
           ![w].pc = "save", ![w].seen = <<>>,
           ![w].evidence =
             [report |-> ReportRef(n),
              passed |-> CalculateCoverage(r.requirements, worker[w].seen)]]
      /\ UNCHANGED <<vars, ledger, returned, clock, faults>>

(* The workspace, a check, its output or the clean-up fails.               *)
CollectError(w) ==
  /\ at(w, "checks")
  /\ Fault
  /\ slots' = released({"executions", "workspaces"})
  /\ stop(w)
  /\ UNCHANGED <<vars, ledger, measured, returned, clock>>

(* Mutant: evidence is saved by whoever comes, also a second time.         *)
saves_Anyone(w) == ledger.state # "completed"

(* Only the owner saves, and only once.                                    *)
saves(w) == ledger.state = "reserved" /\ ledger.owner = worker[w].owner

SaveEvidence(w) ==
  /\ at(w, "save")
  /\ IF saves(w)
     THEN /\ ledger' = [ledger EXCEPT !.state = "evidence_ready",
                                      !.evidence = worker[w].evidence]
          /\ goto(w, "final-time")
     ELSE stop(w) /\ UNCHANGED ledger
  /\ UNCHANGED <<vars, slots, measured, returned, clock, faults>>

-----------------------------------------------------------------------------
(* recordWorkflow.                                                         *)

owns(w) ==
  /\ ledger.state = "evidence_ready"
  /\ ledger.owner = worker[w].owner

finalTime == IF ledger.final = Nil THEN clock ELSE ledger.final

(* A conflict means that another worker has completed: its result is read. *)
FinalTransitionTime(w) ==
  /\ at(w, "final-time")
  /\ IF owns(w)
     THEN ledger' = [ledger EXCEPT !.final = finalTime] /\ goto(w, "record")
     ELSE goto(w, "replay") /\ UNCHANGED ledger
  /\ UNCHANGED <<vars, slots, measured, returned, clock, faults>>

commandEnvelope(w) ==
  [id |-> "record", actor |-> "VERIFICATION_SERVICE", rev |-> worker[w].rev,
   at |-> ledger.final]

recordApplies(w) ==
  recordTaskVerification(commandEnvelope(w), T, worker[w].evidence.report,
    worker[w].request.candidate, worker[w].evidence.passed)

digestOf(w) ==
  <<"RecordTaskVerification", commandEnvelope(w), T,
    worker[w].evidence.report, worker[w].request.candidate,
    worker[w].evidence.passed>>

(* The command is refused: the revision moved on, or the run was cancelled. *)
recordRefused(w) == ~ENABLED recordApplies(w)

Record(w) ==
  /\ at(w, "record")
  /\ \/ recordApplies(w) /\ goto(w, "complete")
     \/ /\ loadCommandResult(commandEnvelope(w), digestOf(w)) = "replay"
        /\ goto(w, "complete")
        /\ UNCHANGED vars
     \/ /\ loadCommandResult(commandEnvelope(w), digestOf(w)) # "replay"
        /\ recordRefused(w)
        /\ stop(w)
        /\ UNCHANGED vars
  /\ UNCHANGED <<ledger, slots, measured, returned, clock, faults>>

Complete(w) ==
  /\ at(w, "complete")
  /\ IF owns(w)
     THEN /\ ledger' = [ledger EXCEPT !.state = "completed",
                                      !.result = worker[w].evidence]
          /\ goto(w, "answer")
     ELSE goto(w, "replay") /\ UNCHANGED ledger
  /\ UNCHANGED <<vars, slots, measured, returned, clock, faults>>

Answer(w) ==
  /\ at(w, "answer")
  /\ returned' = returned \cup {<<T, worker[w].evidence>>}
  /\ stop(w)
  /\ UNCHANGED <<vars, ledger, slots, measured, clock, faults>>

-----------------------------------------------------------------------------
(* Faults and the world around the service.                                *)

(* A call of the database or the workflow fails, or its answer is lost.    *)
StepError(w) ==
  /\ worker[w].pc \in {"begin", "save", "final-time", "record", "complete",
                       "replay"}
  /\ Fault
  /\ \/ at(w, "record") /\ recordApplies(w)
     \/ UNCHANGED vars
  /\ stop(w)
  /\ UNCHANGED <<ledger, slots, measured, returned, clock>>

(* The process dies and comes back.                                        *)
Crash ==
  /\ \E w \in Workers : worker[w] # Idle
  /\ Fault
  /\ worker' = [w \in Workers |-> Idle]
  /\ slots' = [executions |-> MaxConcurrent, workspaces |-> MaxConcurrent]
  /\ UNCHANGED <<vars, ledger, measured, returned, clock>>

(* A reservation runs out when nobody works on it, and, at the price of a  *)
(* fault, while its owner is slow.                                         *)
Expire ==
  /\ ledger.state = "reserved" /\ ~ledger.expired
  /\ ledger' = [ledger EXCEPT !.expired = TRUE]
  /\ IF worker[ledger.owner].pc \in {"idle", "begin"}
     THEN UNCHANGED faults ELSE Fault
  /\ UNCHANGED <<vars, worker, slots, measured, returned, clock>>

Tick ==
  /\ clock + 1 \in Times
  /\ clock' = clock + 1
  /\ UNCHANGED <<vars, ledger, worker, slots, measured, returned, faults>>

Cancel ==
  /\ cancelRun([id |-> Fresh, actor |-> "HUMAN", rev |-> run.rev, at |-> 0])
  /\ UNCHANGED verifVars

AcquireExecutions(w) == Acquire(w, "executions", "executions", "workspaces")
AcquireWorkspaces(w) == Acquire(w, "workspaces", "workspaces", "checks")

Step(w) ==
  \/ Reserve(w) \/ Resume(w) \/ Replay(w) \/ BeginRefused(w)
  \/ AcquireExecutions(w) \/ AcquireWorkspaces(w)
  \/ RunCheck(w) \/ StoreReport(w) \/ SaveEvidence(w)
  \/ FinalTransitionTime(w) \/ Record(w) \/ Complete(w) \/ Answer(w)

VerifNext ==
  \/ \E w \in Workers :
       \/ \E r \in Requests : Call(w, r)
       \/ Step(w)
       \/ AcquireCancelled(w) \/ CollectError(w) \/ StepError(w)
  \/ Crash \/ Expire \/ Tick \/ Cancel

VerifSpec == VerifInit /\ [][VerifNext]_allVars

(* The stage is run again: it asks for what it asked for.                  *)
CallAgain ==
  \E w \in Workers, r \in Requests :
    /\ ledger.state # "NONE" => ledger.digest[1] = r
    /\ Call(w, r)

(* Workers go on, abandoned reservations run out, and the stage is run     *)
(* until its job is done.                                                  *)
FairVerifSpec ==
  /\ VerifSpec
  /\ \A w \in Workers : WF_allVars(Step(w))
  /\ WF_allVars(Expire /\ UNCHANGED faults) /\ SF_allVars(CallAgain)

-----------------------------------------------------------------------------
(* Properties.                                                             *)

(* The ledger row fits its state: evidence from the checkpoint on, a       *)
(* result and the time of the transition when it is completed.             *)
VerifTypeOK ==
  /\ task \in [Tasks -> TaskRow]
  /\ ledger.state \in {"NONE", "reserved", "evidence_ready", "completed"}
  /\ ledger.evidence # Nil <=> ledger.state \in {"evidence_ready", "completed"}
  /\ ledger.result # Nil <=> ledger.state = "completed"
  /\ ledger.final \in Times \cup {Nil}
  /\ ledger.final # Nil => ledger.evidence # Nil
  /\ slots \in [{"executions", "workspaces"} -> 0..MaxConcurrent]

(* A task passes verification only if one and the same collection ran a    *)
(* check for every acceptance criterion, and each of them ended with exit  *)
(* code zero, in time, with its output complete.                           *)
PassedMeansEveryCriterion ==
  task[T].state = "REVIEWING" =>
    \E n \in DOMAIN measured :
      /\ task[T].verif.ref = ReportRef(n)
      /\ \A c \in Criteria :
           LET checks == ledger.digest[1].requirements[c] IN
           /\ checks # {}
           /\ \A k \in checks : measured[n][k] = "zero"

(* What the workflow records is the evidence that was saved first, however *)
(* many workers collected some and whatever theirs said.                   *)
RecordedEvidenceIsSaved ==
  task[T].verif # Nil =>
    /\ ledger.evidence # Nil
    /\ task[T].verif.ref = ledger.evidence.report
    /\ task[T].state \in {"REVIEWING", "REWORK_REQUIRED"} =>
         (task[T].state = "REVIEWING" <=> ledger.evidence.passed)

(* A verification ID has one result, and every caller is given it.         *)
Outcome ==
  INSTANCE WriteOnce WITH
    Keys <- {T}, Results <- Evidence, None <- Nil,
    result <- [t \in {T} |-> ledger.result], returned <- returned

VerificationsImplementWriteOnce == Outcome!Spec

(* A verification is recorded once, and what is recorded is the evidence   *)
(* that was saved first.                                                   *)
VerifiedOnce ==
  [](VerifTypeOK /\ RecordedEvidenceIsSaved) /\ VerificationsImplementWriteOnce

(* The request has expired, and every call that came in time has returned. *)
TimeIsUp == ~unexpired /\ \A w \in Workers : worker[w] = Idle

(* A verification ends: its result is stored, its task was sent back for   *)
(* rework, or the run was cancelled.  The one other end is the expiry of   *)
(* the implementation request: from then on Verify refuses to take up even *)
(* the evidence that it saved, and the task keeps waiting.                 *)
VerificationSettles ==
  <>(\/ ledger.state = "completed"
     \/ task[T].state \in {"REWORK_REQUIRED", "CANCELLED"}
     \/ TimeIsUp)

=============================================================================
