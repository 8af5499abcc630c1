------------------------------ MODULE Workflow ------------------------------
(***************************************************************************)
(* The workflow kernel of the agent harness: one run, its task graph, the  *)
(* append-only event log and the command ledger, as the Go packages        *)
(*   go/internal/workflow/run.go, run_completion.go, task.go   (decisions) *)
(*   go/internal/workflow/store.go                          (transactions) *)
(* implement them.                                                         *)
(*                                                                         *)
(* Every command runs in one serializable transaction that locks the run's *)
(* row, so one command is one atomic step.  Any client may submit any      *)
(* command at any time, with a stale expected revision, a stale lease or a *)
(* command ID that was used before: this covers lost, repeated, delayed    *)
(* and reordered deliveries.  A command that is refused, and an exact      *)
(* replay, change no state and are stuttering steps.                       *)
(***************************************************************************)
EXTENDS Integers, FiniteSets

CONSTANTS
  RunID,        \* the aggregate ID of the run
  Tasks,        \* task IDs a plan may name
  CommandIDs,   \* command IDs that clients may use more than once
  Fresh,        \* stands for every command ID that is used only once
  Artifacts,    \* artifact references (URI and digest)
  Commits,      \* candidate commits
  LeaseIDs,     \* lease identities (lease ID and owner)
  Times,        \* timestamps of commands and lease expiries
  MaxAttempts,  \* bound: largest attempt budget in a task definition
  MaxRevision,  \* bound: no proposal is made at this run revision or later
  StaleReads,   \* bound: how many revisions an author's read may lag behind
  Nil           \* an absent binding (SQL NULL, Go nil)

ASSUME RunIDAssumption == RunID \notin Tasks
ASSUME FiniteAssumption == IsFiniteSet(Tasks)
ASSUME FreshAssumption == Fresh \notin CommandIDs
ASSUME NilAssumption == Nil \notin Artifacts /\ Nil \notin Commits
ASSUME BoundsAssumption ==
  MaxAttempts \in Nat /\ MaxRevision \in Nat /\ StaleReads \in Nat
ASSUME TimesAssumption == Times \subseteq Nat

VARIABLES
  run,       \* the row of workflow_runs
  task,      \* the rows of workflow_tasks
  deps,      \* the rows <<task_id, depends_on_task_id>> of the dependencies
  log,       \* the rows of workflow_events of each aggregate
  commands   \* the rows of workflow_commands, by command ID

vars == <<run, task, deps, log, commands>>

-----------------------------------------------------------------------------
(* States, actors, rows.                                                   *)

RunStates ==
  {"DRAFT", "SPECIFICATION_REVIEW", "TASK_PLANNING", "TASK_PLAN_REVIEW",
   "READY", "EXECUTING", "VERIFYING", "REVIEWING", "AWAITING_APPROVAL",
   "MERGE_READY", "MERGED", "REJECTED", "FAILED", "CANCELLED"}

TerminalRunStates == {"MERGED", "REJECTED", "FAILED", "CANCELLED"}

TaskStates ==
  {"PENDING", "READY", "LEASED", "REASONING", "PROPOSAL_REJECTED",
   "EXECUTING", "VERIFYING", "REVIEWING", "REWORK_REQUIRED",
   "AWAITING_APPROVAL", "ACCEPTED", "FAILED", "CANCELLED"}

TerminalTaskStates == {"ACCEPTED", "FAILED", "CANCELLED"}

ActorKinds ==
  {"HUMAN", "WORKFLOW_SERVICE", "REASONING_SERVICE", "EXECUTION_SERVICE",
   "VERIFICATION_SERVICE", "REVIEW_SERVICE", "PUBLICATION_SERVICE",
   "MERGE_SERVICE", "PYTHON", "MODEL"}

trustedOperationalActor ==
  {"WORKFLOW_SERVICE", "REASONING_SERVICE", "EXECUTION_SERVICE",
   "VERIFICATION_SERVICE", "REVIEW_SERVICE"}

Aggregates == {RunID} \cup Tasks

LeaseRef == [id : LeaseIDs, fence : 1..MaxAttempts, expires : Times]

(* A binding of a task to an artifact.  Only ref is stored by the code; the *)
(* attempt, the candidate commit and the verdict under which the binding    *)
(* was made are history, and no guard reads them.                           *)
Binding ==
  [ref : Artifacts, attempt : Nat, commit : Commits \cup {Nil},
   passed : BOOLEAN]

ASSUME BindingAssumption == Nil \notin Binding /\ Nil \notin LeaseRef

OptArtifact == Artifacts \cup {Nil}
OptCommit   == Commits \cup {Nil}
OptBinding  == Binding \cup {Nil}

RunRow ==
  [state : RunStates \cup {"NONE"}, rev : Nat, spec : OptArtifact,
   graph : OptArtifact, exec : OptArtifact, cand : OptCommit,
   verif : OptArtifact, review : OptArtifact, approval : OptArtifact,
   pub : OptArtifact, merge : OptArtifact]

TaskRow ==
  [state : TaskStates \cup {"NONE"}, rev : Nat, max : Nat, attempt : Nat,
   lease : LeaseRef \cup {Nil}, proposal : OptBinding, exec : OptBinding,
   cand : OptCommit, verif : OptBinding, review : OptBinding,
   approval : OptBinding]

EventRow == [rev : Nat, cmd : CommandIDs \cup {Fresh}]

(* No row: the aggregate does not exist.                                   *)
NoRun ==
  [state |-> "NONE", rev |-> 0, spec |-> Nil, graph |-> Nil, exec |-> Nil,
   cand |-> Nil, verif |-> Nil, review |-> Nil, approval |-> Nil,
   pub |-> Nil, merge |-> Nil]

NoTask ==
  [state |-> "NONE", rev |-> 0, max |-> 0, attempt |-> 0, lease |-> Nil,
   proposal |-> Nil, exec |-> Nil, cand |-> Nil, verif |-> Nil,
   review |-> Nil, approval |-> Nil]

Init ==
  /\ run = NoRun
  /\ task = [t \in Tasks |-> NoTask]
  /\ deps = {}
  /\ log = [a \in Aggregates |-> {}]
  /\ commands = [i \in {} |-> Nil]

(* The tasks of the run: the rows of workflow_tasks.                       *)
Planned == {t \in Tasks : task[t].state # "NONE"}

Revision(a) == IF a = RunID THEN run.rev ELSE task[a].rev

-----------------------------------------------------------------------------
(* The transaction around every command.                                   *)

(* The envelopes of commands whose author read revision `current` or one   *)
(* of the StaleReads revisions before it.                                  *)
CommandEnvelope(current) ==
  [id : CommandIDs \cup {Fresh}, actor : ActorKinds,
   rev : {n \in 0..current : n >= current - StaleReads}, at : Times]

(* Mutant: a reused command ID with different content counts as new.       *)
loadCommandResult_ByDigest(m, digest) ==
  IF m.id \notin DOMAIN commands THEN "new"
  ELSE IF commands[m.id].digest = digest THEN "replay" ELSE "new"

(* What the command ledger says about a command: "new", an exact "replay", *)
(* or a "conflict" (the ID was used with different content).               *)
loadCommandResult(m, digest) ==
  IF m.id \notin DOMAIN commands THEN "new"
  ELSE IF commands[m.id].digest = digest THEN "replay" ELSE "conflict"

(* reserveCommand and the result recorded in the same transaction; the row *)
(* of an ID that is never used again is not kept.                          *)
recordCommandResult(m, digest, a, rev) ==
  IF m.id = Fresh THEN commands
  ELSE [i \in DOMAIN commands \cup {m.id} |->
          IF i = m.id THEN [digest |-> digest, on |-> a, rev |-> rev]
                      ELSE commands[i]]

(* insertEvent for each aggregate in the domain of revs.                   *)
insertEvents(m, revs) ==
  [a \in Aggregates |->
     IF a \in DOMAIN revs THEN log[a] \cup {[rev |-> revs[a], cmd |-> m.id]}
                          ELSE log[a]]

finishRunTransition(next) == [next EXCEPT !.rev = @ + 1]

finishTaskTransition(next) == [next EXCEPT !.rev = @ + 1]

(* A run command that touches only the run's own row.                      *)
persistRunTransition(m, digest, next) ==
  /\ loadCommandResult(m, digest) = "new"
  /\ run' = finishRunTransition(next)
  /\ log' = insertEvents(m, [a \in {RunID} |-> run.rev + 1])
  /\ commands' = recordCommandResult(m, digest, RunID, run.rev + 1)
  /\ UNCHANGED <<task, deps>>

(* Mutant: every dependent is made ready, met prerequisites or not.        *)
makeDependentsReady_Unchecked(t) ==
  {d \in Tasks : <<d, t>> \in deps /\ task[d].state = "PENDING"}

(* Mutant: prerequisites are counted before the acceptance is written.     *)
makeDependentsReady_Before(t) ==
  {d \in Tasks :
     /\ <<d, t>> \in deps
     /\ task[d].state = "PENDING"
     /\ \A p \in Tasks : <<d, p>> \in deps => task[p].state = "ACCEPTED"}

(* Dependents of an accepted task that have no other unmet prerequisite.   *)
(* The query sees the accepted row of this transaction.                    *)
makeDependentsReady(t) ==
  {d \in Tasks :
     /\ <<d, t>> \in deps
     /\ task[d].state = "PENDING"
     /\ \A p \in Tasks : <<d, p>> \in deps =>
          p = t \/ task[p].state = "ACCEPTED"}

(* A task command: the row, and the dependents an acceptance makes ready.  *)
persistTaskTransition(m, digest, t, next) ==
  LET ready == IF next.state = "ACCEPTED" THEN makeDependentsReady(t) ELSE {}
  IN  /\ loadCommandResult(m, digest) = "new"
      /\ task' = [u \in Tasks |->
                    IF u = t THEN finishTaskTransition(next)
                    ELSE IF u \in ready
                         THEN [task[u] EXCEPT !.state = "READY", !.rev = @ + 1]
                         ELSE task[u]]
      /\ log' = insertEvents(m, [u \in {t} \cup ready |-> task[u].rev + 1])
      /\ commands' = recordCommandResult(m, digest, t, task[t].rev + 1)
      /\ UNCHANGED <<run, deps>>

-----------------------------------------------------------------------------
(* Guards shared by the commands.                                          *)

validateRunCommand(m) ==
  /\ m.rev = run.rev
  /\ run.state \notin TerminalRunStates

(* Mutant: the expected revision is not compared.                          *)
validateTaskCommand_AnyRevision(m, t) ==
  task[t].state \notin TerminalTaskStates

(* Mutant: terminal tasks still take commands.                             *)
validateTaskCommand_Terminal(m, t) == m.rev = task[t].rev

validateTaskCommand(m, t) ==
  /\ m.rev = task[t].rev
  /\ task[t].state \notin TerminalTaskStates

(* Mutant: only a cancelled run closes its tasks.                          *)
validateTaskRunGate_Open == run.state \notin {"READY", "CANCELLED"}

(* Every task command but CancelTask needs the owning run in EXECUTING.    *)
validateTaskRunGate == run.state = "EXECUTING"

(* CancelTask asks for a cancelled run and a nonterminal task.  No         *)
(* reachable state has both (CancelLeavesNoTaskBehind), so the command is  *)
(* always refused and is not an action.                                    *)
CancelTaskApplies(t) ==
  /\ run.state = "CANCELLED"
  /\ task[t].state \in TaskStates \ TerminalTaskStates

(* validateRunTaskGate, for StartRun and for the commands that finish.     *)
RunnableGate ==
  /\ Planned # {}
  /\ \A t \in Planned : task[t].state \notin {"FAILED", "CANCELLED"}

(* Mutant: finished tasks are counted as accepted ones.                    *)
AcceptedGate_Terminal ==
  /\ Planned # {}
  /\ \A t \in Planned : task[t].state \in TerminalTaskStates

AcceptedGate ==
  /\ Planned # {}
  /\ \A t \in Planned : task[t].state = "ACCEPTED"

validateLease(t, lease) == task[t].lease # Nil /\ task[t].lease = lease

validateActiveLease(t, lease, now) ==
  /\ validateLease(t, lease)
  /\ now < task[t].lease.expires

(* Mutant: one attempt too many.                                           *)
attemptsLeft_OffByOne(t) == task[t].attempt <= task[t].max

attemptsLeft(t) == task[t].attempt < task[t].max

(* Mutant: the token is the number of attempts made, but at least one.     *)
nextFence_Reused(t) == IF task[t].attempt = 0 THEN 1 ELSE task[t].attempt

(* The fencing token under which the next lease must be issued.            *)
nextFence(t) == task[t].attempt + 1

(* Mutant: the commit that a verdict names is not compared.                *)
sameCandidate_Any(t, commit) == commit \in Commits

(* Evidence and verdicts name the candidate commit that they are about.    *)
sameCandidate(t, commit) == commit = task[t].cand

(* validateHumanReview of a task: the exact candidate and review.          *)
validateHumanReview(m, t, commit, review) ==
  /\ m.actor = "HUMAN"
  /\ sameCandidate(t, commit)
  /\ task[t].review # Nil
  /\ task[t].review.ref = review

(* The same for the run.                                                   *)
validateRunReview(m, commit, review) ==
  /\ m.actor = "HUMAN"
  /\ commit = run.cand
  /\ run.review = review

-----------------------------------------------------------------------------
(* Run commands: planning.  A command with its envelope and arguments is   *)
(* named as the method that decides it; the action of the same name lets   *)
(* any client submit it with any arguments (and repeats the state, so that *)
(* TLC does not enumerate envelopes in vain).                              *)

createRun(m) ==
  /\ run = NoRun
  /\ m.rev = 0
  /\ m.actor \in {"HUMAN", "WORKFLOW_SERVICE"}
  /\ persistRunTransition(m, <<"CreateRun", m>>,
                          [NoRun EXCEPT !.state = "DRAFT"])

CreateRun ==
  \E m \in CommandEnvelope(0) :
    createRun(m)

proposeSpecification(m, spec) ==
  /\ run.state = "DRAFT"
  /\ validateRunCommand(m)
  /\ m.actor = "WORKFLOW_SERVICE"
  /\ persistRunTransition(m, <<"ProposeSpecification", m, spec>>,
       [run EXCEPT !.state = "SPECIFICATION_REVIEW", !.spec = spec])

ProposeSpecification ==
  /\ run.state = "DRAFT"
  /\ run.rev < MaxRevision
  /\ \E m \in CommandEnvelope(run.rev), spec \in Artifacts :
       proposeSpecification(m, spec)

validateSpecificationReview(m, spec) ==
  /\ m.actor = "HUMAN"
  /\ run.spec # Nil
  /\ run.spec = spec

(* Rejection returns the run to DRAFT, or ends it when it is terminal.  The *)
(* rejected specification stays bound until another one is proposed.       *)
rejectSpecification(m, spec, terminal) ==
  /\ run.state = "SPECIFICATION_REVIEW"
  /\ validateRunCommand(m)
  /\ validateSpecificationReview(m, spec)
  /\ persistRunTransition(m, <<"RejectSpecification", m, spec, terminal>>,
       [run EXCEPT !.state = IF terminal THEN "REJECTED" ELSE "DRAFT"])

RejectSpecification ==
  /\ run.state = "SPECIFICATION_REVIEW"
  /\ \E m \in CommandEnvelope(run.rev), spec \in Artifacts,
        terminal \in BOOLEAN :
       rejectSpecification(m, spec, terminal)

approveSpecification(m, spec) ==
  /\ run.state = "SPECIFICATION_REVIEW"
  /\ validateRunCommand(m)
  /\ validateSpecificationReview(m, spec)
  /\ persistRunTransition(m, <<"ApproveSpecification", m, spec>>,
       [run EXCEPT !.state = "TASK_PLANNING"])

ApproveSpecification ==
  /\ run.state = "SPECIFICATION_REVIEW"
  /\ \E m \in CommandEnvelope(run.rev), spec \in Artifacts :
       approveSpecification(m, spec)

proposeTaskGraph(m, graph) ==
  /\ run.state = "TASK_PLANNING"
  /\ validateRunCommand(m)
  /\ m.actor = "WORKFLOW_SERVICE"
  /\ persistRunTransition(m, <<"ProposeTaskGraph", m, graph>>,
       [run EXCEPT !.state = "TASK_PLAN_REVIEW", !.graph = graph])

ProposeTaskGraph ==
  /\ run.state = "TASK_PLANNING"
  /\ run.rev < MaxRevision
  /\ \E m \in CommandEnvelope(run.rev), graph \in Artifacts :
       proposeTaskGraph(m, graph)

rejectTaskGraph(m, graph, terminal) ==
  /\ run.state = "TASK_PLAN_REVIEW"
  /\ validateRunCommand(m)
  /\ m.actor = "HUMAN"
  /\ run.graph = graph
  /\ persistRunTransition(m, <<"RejectTaskGraph", m, graph, terminal>>,
       [run EXCEPT !.state =
          IF terminal THEN "REJECTED" ELSE "TASK_PLANNING"])

RejectTaskGraph ==
  /\ run.state = "TASK_PLAN_REVIEW"
  /\ \E m \in CommandEnvelope(run.rev), graph \in Artifacts,
        terminal \in BOOLEAN :
       rejectTaskGraph(m, graph, terminal)

(* NewPlannedTasks: the plan names at least one task, every attempt budget *)
(* is positive, dependencies join two different planned tasks, and the     *)
(* graph has no cycle.                                                     *)
plannedTaskIDs(max) == DOMAIN max # {} /\ \A t \in DOMAIN max : max[t] # 0

plannedTaskGraph(ids, edges) ==
  \A e \in edges : e[1] \in ids /\ e[2] \in ids /\ e[1] # e[2]

(* Mutant: cycles are not looked for.                                      *)
taskGraphAcyclic_Skipped(ids, edges) == TRUE

(* Kahn's algorithm, one round of dequeues at a time.                      *)
taskGraphAcyclic(ids, edges) ==
  LET Visited[n \in 0..Cardinality(ids)] ==
        IF n = 0 THEN {}
        ELSE {t \in ids : \A e \in edges : e[1] = t => e[2] \in Visited[n - 1]}
  IN  Visited[Cardinality(ids)] = ids

buildPlannedTasks(max, edges) ==
  [t \in Tasks |->
     IF t \in DOMAIN max
     THEN [NoTask EXCEPT
             !.state = IF \E e \in edges : e[1] = t THEN "PENDING" ELSE "READY",
             !.rev = 1,
             !.max = max[t]]
     ELSE task[t]]

(* One transaction moves the run to READY and creates the whole plan.      *)
approveTaskGraph(m, graph, max, edges) ==
  LET ids == DOMAIN max
      digest == <<"ApproveTaskGraph", m, graph, max, edges>>
  IN  /\ run.state = "TASK_PLAN_REVIEW"
      /\ m.rev = run.rev
      /\ m.actor = "HUMAN"
      /\ run.graph = graph
      /\ plannedTaskIDs(max)
      /\ plannedTaskGraph(ids, edges)
      /\ taskGraphAcyclic(ids, edges)
      /\ loadCommandResult(m, digest) = "new"
      /\ run' = finishRunTransition([run EXCEPT !.state = "READY"])
      /\ task' = buildPlannedTasks(max, edges)
      /\ deps' = edges
      /\ log' = insertEvents(m, [a \in {RunID} \cup ids |->
                                   IF a = RunID THEN run.rev + 1 ELSE 1])
      /\ commands' = recordCommandResult(m, digest, RunID, run.rev + 1)

ApproveTaskGraph ==
  /\ run.state = "TASK_PLAN_REVIEW"
  /\ \E m \in CommandEnvelope(run.rev), graph \in Artifacts,
        ids \in SUBSET Tasks :
     \E max \in [ids -> 0..MaxAttempts], edges \in SUBSET (Tasks \X Tasks) :
       approveTaskGraph(m, graph, max, edges)

-----------------------------------------------------------------------------
(* Run commands: completion.                                               *)

startRun(m) ==
  /\ run.state = "READY"
  /\ RunnableGate
  /\ validateRunCommand(m)
  /\ m.actor = "WORKFLOW_SERVICE"
  /\ persistRunTransition(m, <<"StartRun", m>>,
       [run EXCEPT !.state = "EXECUTING"])

StartRun ==
  /\ run.state = "READY"
  /\ \E m \in CommandEnvelope(run.rev) :
       startRun(m)

recordRunExecution(m, ref, commit) ==
  /\ run.state = "EXECUTING"
  /\ AcceptedGate
  /\ validateRunCommand(m)
  /\ m.actor = "EXECUTION_SERVICE"
  /\ persistRunTransition(m, <<"RecordRunExecution", m, ref, commit>>,
       [run EXCEPT !.state = "VERIFYING", !.exec = ref, !.cand = commit])

RecordRunExecution ==
  /\ run.state = "EXECUTING"
  /\ \E m \in CommandEnvelope(run.rev), ref \in Artifacts, commit \in Commits :
       recordRunExecution(m, ref, commit)

recordRunVerification(m, ref, commit) ==
  /\ run.state = "VERIFYING"
  /\ AcceptedGate
  /\ validateRunCommand(m)
  /\ m.actor = "VERIFICATION_SERVICE"
  /\ commit = run.cand
  /\ persistRunTransition(m, <<"RecordRunVerification", m, ref, commit>>,
       [run EXCEPT !.state = "REVIEWING", !.verif = ref])

RecordRunVerification ==
  /\ run.state = "VERIFYING"
  /\ \E m \in CommandEnvelope(run.rev), ref \in Artifacts, commit \in Commits :
       recordRunVerification(m, ref, commit)

recordRunReview(m, ref, commit) ==
  /\ run.state = "REVIEWING"
  /\ AcceptedGate
  /\ validateRunCommand(m)
  /\ m.actor = "REVIEW_SERVICE"
  /\ commit = run.cand
  /\ persistRunTransition(m, <<"RecordRunReview", m, ref, commit>>,
       [run EXCEPT !.state = "AWAITING_APPROVAL", !.review = ref])

RecordRunReview ==
  /\ run.state = "REVIEWING"
  /\ \E m \in CommandEnvelope(run.rev), ref \in Artifacts, commit \in Commits :
       recordRunReview(m, ref, commit)

approveRun(m, review, approval, commit) ==
  /\ run.state = "AWAITING_APPROVAL"
  /\ AcceptedGate
  /\ validateRunCommand(m)
  /\ validateRunReview(m, commit, review)
  /\ persistRunTransition(m, <<"ApproveRun", m, commit, review, approval>>,
       [run EXCEPT !.state = "MERGE_READY", !.approval = approval])

ApproveRun ==
  /\ run.state = "AWAITING_APPROVAL"
  /\ \E m \in CommandEnvelope(run.rev), review \in Artifacts,
        approval \in Artifacts, commit \in Commits :
       approveRun(m, review, approval, commit)

rejectRun(m, review, commit) ==
  /\ run.state = "AWAITING_APPROVAL"
  /\ AcceptedGate
  /\ validateRunCommand(m)
  /\ validateRunReview(m, commit, review)
  /\ persistRunTransition(m, <<"RejectRun", m, commit, review>>,
       [run EXCEPT !.state = "REJECTED"])

RejectRun ==
  /\ run.state = "AWAITING_APPROVAL"
  /\ \E m \in CommandEnvelope(run.rev), review \in Artifacts,
        commit \in Commits :
       rejectRun(m, review, commit)

(* The draft pull request is recorded once; the run stays MERGE_READY.     *)
recordDraftPullRequest(m, approval, ref, commit) ==
  /\ run.state = "MERGE_READY"
  /\ run.pub = Nil
  /\ AcceptedGate
  /\ validateRunCommand(m)
  /\ m.actor = "PUBLICATION_SERVICE"
  /\ commit = run.cand
  /\ run.approval = approval
  /\ persistRunTransition(m,
       <<"RecordDraftPullRequest", m, commit, approval, ref>>,
       [run EXCEPT !.pub = ref])

RecordDraftPullRequest ==
  /\ run.state = "MERGE_READY"
  /\ \E m \in CommandEnvelope(run.rev), approval \in Artifacts,
        ref \in Artifacts, commit \in Commits :
       recordDraftPullRequest(m, approval, ref, commit)

recordMerge(m, approval, ref, commit) ==
  /\ run.state = "MERGE_READY"
  /\ AcceptedGate
  /\ validateRunCommand(m)
  /\ m.actor = "MERGE_SERVICE"
  /\ commit = run.cand
  /\ run.approval = approval
  /\ persistRunTransition(m, <<"RecordMerge", m, commit, approval, ref>>,
       [run EXCEPT !.state = "MERGED", !.merge = ref])

RecordMerge ==
  /\ run.state = "MERGE_READY"
  /\ \E m \in CommandEnvelope(run.rev), approval \in Artifacts,
        ref \in Artifacts, commit \in Commits :
       recordMerge(m, approval, ref, commit)

(* FailRun leaves the tasks as they are: the run gate freezes them.        *)
failRun(m, ref) ==
  /\ run.state \in RunStates
  /\ validateRunCommand(m)
  /\ m.actor \in trustedOperationalActor
  /\ persistRunTransition(m, <<"FailRun", m, ref>>,
       [run EXCEPT !.state = "FAILED"])

FailRun ==
  \E m \in CommandEnvelope(run.rev), ref \in Artifacts :
    failRun(m, ref)

(* Mutant: tasks under way are left to finish.                             *)
Cancellable_NotStarted == {t \in Planned : task[t].state \in {"PENDING", "READY"}}

(* The tasks that cancelRunTasks locks.                                    *)
Cancellable == {t \in Planned : task[t].state \notin TerminalTaskStates}

(* Mutant: the revision of a cancelled task is not advanced.               *)
cancelRunTasks_SameRevision ==
  [t \in Tasks |->
     IF t \in Cancellable THEN [task[t] EXCEPT !.state = "CANCELLED"] ELSE task[t]]

cancelRunTasks ==
  [t \in Tasks |->
     IF t \in Cancellable
     THEN [task[t] EXCEPT !.state = "CANCELLED", !.rev = @ + 1]
     ELSE task[t]]

(* CancelRun cancels the run and every nonterminal task in one transaction. *)
cancelRun(m) ==
  LET digest == <<"CancelRun", m>> IN
  /\ run.state \in RunStates
  /\ validateRunCommand(m)
  /\ m.actor = "HUMAN"
  /\ loadCommandResult(m, digest) = "new"
  /\ run' = finishRunTransition([run EXCEPT !.state = "CANCELLED"])
  /\ task' = cancelRunTasks
  /\ log' = insertEvents(m, [a \in {RunID} \cup Cancellable |->
                               Revision(a) + 1])
  /\ commands' = recordCommandResult(m, digest, RunID, run.rev + 1)
  /\ UNCHANGED deps

CancelRun == \E m \in CommandEnvelope(run.rev) : cancelRun(m)

-----------------------------------------------------------------------------
(* Task commands.                                                          *)

bound(t, ref, commit, passed) ==
  [ref |-> ref, attempt |-> task[t].attempt, commit |-> commit,
   passed |-> passed]

(* A lease is issued under the next fencing token and uses up an attempt.  *)
leaseTask(m, t, lease) ==
  /\ validateTaskRunGate
  /\ task[t].state = "READY"
  /\ attemptsLeft(t)
  /\ validateTaskCommand(m, t)
  /\ m.actor = "WORKFLOW_SERVICE"
  /\ lease.fence = nextFence(t)
  /\ persistTaskTransition(m, <<"LeaseTask", m, t, lease>>, t,
       [task[t] EXCEPT !.state = "LEASED", !.lease = lease,
                       !.attempt = @ + 1])

LeaseTask(t) ==
  /\ task[t].state = "READY"
  /\ \E m \in CommandEnvelope(task[t].rev), lease \in LeaseRef :
       leaseTask(m, t, lease)

(* The attempt of a released lease is not given back.                      *)
releaseTaskLease(m, t, lease) ==
  /\ validateTaskRunGate
  /\ task[t].state = "LEASED"
  /\ validateTaskCommand(m, t)
  /\ m.actor = "WORKFLOW_SERVICE"
  /\ validateLease(t, lease)
  /\ persistTaskTransition(m, <<"ReleaseTaskLease", m, t, lease>>, t,
       [task[t] EXCEPT !.state = "READY", !.lease = Nil])

ReleaseTaskLease(t) ==
  /\ task[t].state = "LEASED"
  /\ \E m \in CommandEnvelope(task[t].rev), lease \in LeaseRef :
       releaseTaskLease(m, t, lease)

startReasoning(m, t, lease) ==
  /\ validateTaskRunGate
  /\ task[t].state = "LEASED"
  /\ validateTaskCommand(m, t)
  /\ m.actor = "REASONING_SERVICE"
  /\ validateLease(t, lease)
  /\ persistTaskTransition(m, <<"StartReasoning", m, t, lease>>, t,
       [task[t] EXCEPT !.state = "REASONING"])

StartReasoning(t) ==
  /\ task[t].state = "LEASED"
  /\ \E m \in CommandEnvelope(task[t].rev), lease \in LeaseRef :
       startReasoning(m, t, lease)

rejectTaskProposal(m, t, proposal) ==
  /\ validateTaskRunGate
  /\ task[t].state = "REASONING"
  /\ validateTaskCommand(m, t)
  /\ m.actor \in {"HUMAN", "REASONING_SERVICE"}
  /\ persistTaskTransition(m, <<"RejectTaskProposal", m, t, proposal>>, t,
       [task[t] EXCEPT !.state = "PROPOSAL_REJECTED",
                       !.proposal = bound(t, proposal, Nil, FALSE)])

RejectTaskProposal(t) ==
  /\ task[t].state = "REASONING"
  /\ \E m \in CommandEnvelope(task[t].rev), proposal \in Artifacts :
       rejectTaskProposal(m, t, proposal)

acceptTaskProposal(m, t, lease, proposal) ==
  /\ validateTaskRunGate
  /\ task[t].state = "REASONING"
  /\ validateTaskCommand(m, t)
  /\ m.actor = "EXECUTION_SERVICE"
  /\ validateActiveLease(t, lease, m.at)
  /\ persistTaskTransition(m,
       <<"AcceptTaskProposal", m, t, lease, proposal>>, t,
       [task[t] EXCEPT !.state = "EXECUTING",
                       !.proposal = bound(t, proposal, Nil, TRUE)])

AcceptTaskProposal(t) ==
  /\ task[t].state = "REASONING"
  /\ \E m \in CommandEnvelope(task[t].rev), lease \in LeaseRef,
        proposal \in Artifacts :
       acceptTaskProposal(m, t, lease, proposal)

recordTaskExecution(m, t, lease, proposal, ref, commit) ==
  /\ validateTaskRunGate
  /\ task[t].state = "EXECUTING"
  /\ validateTaskCommand(m, t)
  /\ m.actor = "EXECUTION_SERVICE"
  /\ validateActiveLease(t, lease, m.at)
  /\ task[t].proposal # Nil /\ task[t].proposal.ref = proposal
  /\ persistTaskTransition(m,
       <<"RecordTaskExecution", m, t, lease, proposal, ref, commit>>, t,
       [task[t] EXCEPT !.state = "VERIFYING", !.cand = commit,
                       !.exec = bound(t, ref, commit, TRUE)])

RecordTaskExecution(t) ==
  /\ task[t].state = "EXECUTING"
  /\ \E m \in CommandEnvelope(task[t].rev), lease \in LeaseRef,
        proposal \in Artifacts, ref \in Artifacts, commit \in Commits :
       recordTaskExecution(m, t, lease, proposal, ref, commit)

recordTaskVerification(m, t, ref, commit, passed) ==
  /\ validateTaskRunGate
  /\ task[t].state = "VERIFYING"
  /\ validateTaskCommand(m, t)
  /\ m.actor = "VERIFICATION_SERVICE"
  /\ sameCandidate(t, commit)
  /\ persistTaskTransition(m,
       <<"RecordTaskVerification", m, t, ref, commit, passed>>, t,
       [task[t] EXCEPT
          !.state = IF passed THEN "REVIEWING" ELSE "REWORK_REQUIRED",
          !.verif = bound(t, ref, commit, passed)])

RecordTaskVerification(t) ==
  /\ task[t].state = "VERIFYING"
  /\ \E m \in CommandEnvelope(task[t].rev), ref \in Artifacts,
        commit \in Commits, passed \in BOOLEAN :
       recordTaskVerification(m, t, ref, commit, passed)

recordTaskReview(m, t, ref, commit, passed) ==
  /\ validateTaskRunGate
  /\ task[t].state = "REVIEWING"
  /\ validateTaskCommand(m, t)
  /\ m.actor = "REVIEW_SERVICE"
  /\ sameCandidate(t, commit)
  /\ persistTaskTransition(m,
       <<"RecordTaskReview", m, t, ref, commit, passed>>, t,
       [task[t] EXCEPT
          !.state = IF passed THEN "AWAITING_APPROVAL"
                              ELSE "REWORK_REQUIRED",
          !.review = bound(t, ref, commit, passed)])

RecordTaskReview(t) ==
  /\ task[t].state = "REVIEWING"
  /\ \E m \in CommandEnvelope(task[t].rev), ref \in Artifacts,
        commit \in Commits, passed \in BOOLEAN :
       recordTaskReview(m, t, ref, commit, passed)

approveTask(m, t, review, ref, commit) ==
  /\ validateTaskRunGate
  /\ task[t].state = "AWAITING_APPROVAL"
  /\ validateTaskCommand(m, t)
  /\ validateHumanReview(m, t, commit, review)
  /\ persistTaskTransition(m,
       <<"ApproveTask", m, t, commit, review, ref>>, t,
       [task[t] EXCEPT !.state = "ACCEPTED",
                       !.approval = bound(t, ref, commit, TRUE)])

ApproveTask(t) ==
  /\ task[t].state = "AWAITING_APPROVAL"
  /\ \E m \in CommandEnvelope(task[t].rev), review \in Artifacts,
        ref \in Artifacts, commit \in Commits :
       approveTask(m, t, review, ref, commit)

requireTaskRework(m, t, review, commit) ==
  /\ validateTaskRunGate
  /\ task[t].state = "AWAITING_APPROVAL"
  /\ validateTaskCommand(m, t)
  /\ validateHumanReview(m, t, commit, review)
  /\ persistTaskTransition(m,
       <<"RequireTaskRework", m, t, commit, review>>, t,
       [task[t] EXCEPT !.state = "REWORK_REQUIRED"])

RequireTaskRework(t) ==
  /\ task[t].state = "AWAITING_APPROVAL"
  /\ \E m \in CommandEnvelope(task[t].rev), review \in Artifacts,
        commit \in Commits :
       requireTaskRework(m, t, review, commit)

(* Mutant: the verdicts of the failed attempt stay bound.                  *)
retried_KeepsVerdicts(t) ==
  [task[t] EXCEPT
     !.state = IF attemptsLeft(t) THEN "READY" ELSE "FAILED",
     !.lease = Nil, !.proposal = Nil, !.exec = Nil, !.cand = Nil]

(* A retry forgets everything the failed attempt produced.                 *)
retried(t) ==
  [task[t] EXCEPT
     !.state = IF attemptsLeft(t) THEN "READY" ELSE "FAILED",
     !.lease = Nil, !.proposal = Nil, !.exec = Nil, !.cand = Nil,
     !.verif = Nil, !.review = Nil, !.approval = Nil]

retryTask(m, t) ==
  /\ validateTaskRunGate
  /\ task[t].state \in {"PROPOSAL_REJECTED", "REWORK_REQUIRED"}
  /\ validateTaskCommand(m, t)
  /\ m.actor = "WORKFLOW_SERVICE"
  /\ persistTaskTransition(m, <<"RetryTask", m, t>>, t, retried(t))

RetryTask(t) ==
  /\ task[t].state \in {"PROPOSAL_REJECTED", "REWORK_REQUIRED"}
  /\ \E m \in CommandEnvelope(task[t].rev) :
       retryTask(m, t)

failTask(m, t, ref) ==
  /\ validateTaskRunGate
  /\ task[t].state \in TaskStates
  /\ validateTaskCommand(m, t)
  /\ m.actor \in trustedOperationalActor
  /\ persistTaskTransition(m, <<"FailTask", m, t, ref>>, t,
       [task[t] EXCEPT !.state = "FAILED"])

FailTask(t) ==
  \E m \in CommandEnvelope(task[t].rev), ref \in Artifacts :
    failTask(m, t, ref)

-----------------------------------------------------------------------------
RunNext ==
  \/ CreateRun \/ ProposeSpecification \/ RejectSpecification
  \/ ApproveSpecification \/ ProposeTaskGraph \/ RejectTaskGraph
  \/ ApproveTaskGraph \/ StartRun \/ RecordRunExecution
  \/ RecordRunVerification \/ RecordRunReview \/ ApproveRun \/ RejectRun
  \/ RecordDraftPullRequest \/ RecordMerge \/ FailRun \/ CancelRun

TaskNext(t) ==
  \/ LeaseTask(t) \/ ReleaseTaskLease(t) \/ StartReasoning(t)
  \/ RejectTaskProposal(t) \/ AcceptTaskProposal(t) \/ RecordTaskExecution(t)
  \/ RecordTaskVerification(t) \/ RecordTaskReview(t) \/ ApproveTask(t)
  \/ RequireTaskRework(t) \/ RetryTask(t) \/ FailTask(t)

Next == RunNext \/ \E t \in Tasks : TaskNext(t)

Spec == Init /\ [][Next]_vars

-----------------------------------------------------------------------------
(* Properties.                                                             *)

(* Every row has its columns' types, and no task has used more attempts    *)
(* than its budget (Task.Validate and the CHECK on current_attempt).       *)
TypeOK ==
  /\ run \in RunRow
  /\ task \in [Tasks -> TaskRow]
  /\ \A t \in Tasks : task[t].attempt <= task[t].max
  /\ deps \subseteq Tasks \X Tasks
  /\ log \in [Aggregates -> SUBSET EventRow]
  /\ DOMAIN commands \subseteq CommandIDs
  /\ \A i \in DOMAIN commands :
       commands[i].on \in Aggregates /\ commands[i].rev \in Nat

(* The event log of every aggregate holds exactly one event for each       *)
(* revision from 1 to the revision of its snapshot, also where one command *)
(* writes several aggregates (plan creation, readiness, cancellation).     *)
(* Hence insertEvent never meets UNIQUE(aggregate, revision).              *)
GaplessLog ==
  \A a \in Aggregates :
    /\ \A e \in log[a] : e.rev \in 1..Revision(a)
    /\ \A n \in 1..Revision(a) : \E e \in log[a] : e.rev = n
    /\ \A e, f \in log[a] : e.rev = f.rev => e = f

(* However often and with whatever content a command ID is submitted, it   *)
(* changes each aggregate at most once, and the revision that the command  *)
(* ledger replays is the one that the command produced.                    *)
CommandOnce ==
  \A i \in CommandIDs :
    /\ \A a \in Aggregates : \A e, f \in log[a] :
         e.cmd = i /\ f.cmd = i => e = f
    /\ (\E a \in Aggregates : \E e \in log[a] : e.cmd = i)
         => i \in DOMAIN commands
    /\ i \in DOMAIN commands =>
         [rev |-> commands[i].rev, cmd |-> i] \in log[commands[i].on]

(* No lost update: a recorded command was applied to the very revision     *)
(* that its author had read.                                               *)
AppliedToRevisionRead ==
  \A i \in DOMAIN commands :
    commands[i].rev = commands[i].digest[2].rev + 1

(* Everything bound to a task was produced in its current attempt: no      *)
(* proposal, execution, verdict or approval survives a retry or a lease.   *)
EvidenceOfThisAttempt ==
  \A t \in Tasks :
    \A b \in {task[t].proposal, task[t].exec, task[t].verif,
              task[t].review, task[t].approval} :
      b # Nil => b.attempt = task[t].attempt

(* A task is accepted only with an execution, a passed verification, a     *)
(* passed review and an approval that are all about the candidate commit   *)
(* the task holds, under an accepted proposal.                             *)
AcceptedOnEvidence ==
  \A t \in Tasks :
    task[t].state = "ACCEPTED" =>
      /\ task[t].proposal # Nil /\ task[t].proposal.passed
      /\ \A b \in {task[t].exec, task[t].verif, task[t].review,
                    task[t].approval} :
           b # Nil /\ b.passed /\ b.commit = task[t].cand

(* The lease a task holds carries the number of the current attempt as its *)
(* fencing token (DEC-012), so the lease of an earlier attempt never       *)
(* matches it.                                                             *)
FenceNamesAttempt ==
  \A t \in Tasks :
    task[t].lease # Nil => task[t].lease.fence = task[t].attempt

(* A task leaves PENDING for work only when all its prerequisites are      *)
(* accepted, and they stay accepted.                                       *)
NoEarlyStart ==
  \A d, p \in Tasks :
    <<d, p>> \in deps /\ task[d].state \notin {"PENDING", "FAILED", "CANCELLED"}
      => task[p].state = "ACCEPTED"

(* No lost wake-up: a task that is still PENDING waits for a prerequisite  *)
(* that is not accepted yet.                                               *)
NoLostWakeUp ==
  \A d \in Tasks :
    task[d].state = "PENDING" =>
      \E p \in Tasks : <<d, p>> \in deps /\ task[p].state # "ACCEPTED"

(* A started plan never stalls on its own graph: unless all tasks are      *)
(* accepted or one of them has failed, some task is out of PENDING and not *)
(* finished.                                                               *)
NoStarvedGraph ==
  run.state \in {"READY", "EXECUTING"} =>
    \/ \A t \in Planned : task[t].state = "ACCEPTED"
    \/ \E t \in Planned : task[t].state = "FAILED"
    \/ \E t \in Planned : task[t].state \notin TerminalTaskStates \cup {"PENDING"}

(* Tasks exist exactly from the approval of the plan on, and a run is past *)
(* EXECUTING only with every task accepted.                                *)
RunPhase ==
  /\ run.state \in {"NONE", "DRAFT", "SPECIFICATION_REVIEW", "TASK_PLANNING",
                    "TASK_PLAN_REVIEW"} => Planned = {}
  /\ run.state \in {"VERIFYING", "REVIEWING", "AWAITING_APPROVAL",
                    "MERGE_READY", "MERGED"} =>
       Planned # {} /\ \A t \in Planned : task[t].state = "ACCEPTED"

(* Cancelling a run leaves no task behind that CancelTask, the only        *)
(* command its gate lets through, could still be applied to.               *)
CancelLeavesNoTaskBehind == \A t \in Tasks : ~CancelTaskApplies(t)

(* Once a run is terminal, nothing about it changes any more: neither the  *)
(* run nor a task that FailRun left in the middle of an attempt.           *)
TerminalFrozen ==
  [][run.state \in TerminalRunStates => UNCHANGED <<run, task, deps, log>>]_vars

(* What a human has approved stays as approved: the specification, the     *)
(* task graph with its tasks, budgets and edges, and an accepted task.     *)
ApprovalsAreFinal ==
  [][/\ run.state \notin {"NONE", "DRAFT", "SPECIFICATION_REVIEW"} =>
          run'.spec = run.spec
     /\ Planned # {} =>
          /\ run'.graph = run.graph
          /\ deps' = deps
          /\ \A t \in Tasks :
               task'[t].max = task[t].max
               /\ (task[t].state = "ACCEPTED" => task'[t] = task[t])]_vars

(* The ledger is exact: rows are valid, logs are gapless, a command ID     *)
(* takes effect once, and on the revision its author read.                 *)
LedgerExact ==
  TypeOK /\ GaplessLog /\ CommandOnce /\ AppliedToRevisionRead

(* A task is accepted on evidence of its current attempt alone, under the  *)
(* fencing token of that attempt.                                          *)
EvidenceBound ==
  EvidenceOfThisAttempt /\ AcceptedOnEvidence /\ FenceNamesAttempt

(* A task starts after all its prerequisites, and as soon as the last of   *)
(* them is accepted it is no longer PENDING (makeDependentsReady).         *)
DependenciesHonoured == NoEarlyStart /\ NoLostWakeUp

(* The phase of a run and the states of its tasks agree, from the plan to  *)
(* the merge and after a cancellation.                                     *)
RunAndTasksAgree == RunPhase /\ CancelLeavesNoTaskBehind

(* No sequence of commands changes a terminal run or what was approved.    *)
SettledIsFinal == TerminalFrozen /\ ApprovalsAreFinal

=============================================================================
