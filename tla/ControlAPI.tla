----------------------------- MODULE ControlAPI -----------------------------
(***************************************************************************)
(* The mutation routes of the control API over the workflow kernel:        *)
(*   go/internal/controlapi/server.go      (applyMutation, approveRun ...) *)
(*   go/internal/controlapi/task_graph.go  (task graph approval)           *)
(*   go/internal/runtime/bindings.go       (write-once checkpoints)        *)
(*   go/internal/approval/service.go, repository.go  (human decisions)     *)
(*                                                                         *)
(* A request is fixed by its idempotency key.  Handlers of any API process *)
(* serve it, several of them at a time when a reservation expires, until   *)
(* an answer is recorded; the ledger of answers is the write-once register *)
(* that Idempotency implements.  A handler reads and writes the stores in  *)
(* separate steps and may die between any two of them.  The stages that    *)
(* take the task to its review are the environment: one workflow command   *)
(* at a time, with command IDs of their own.                               *)
(***************************************************************************)
EXTENDS Workflow

CONSTANTS
  T,           \* the one task of a plan (the first slice accepts one)
  Keys,        \* idempotency keys
  Handlers,    \* concurrent request handlers of all API processes
  Uses,        \* the routes that clients use, each with a caller's role
  Elevated,    \* whether the candidate touches a protected path or label
  Starts,      \* how far the run has come when a behaviour starts
  MaxFaults    \* bound: process deaths and storage errors

ASSUME TaskAssumption == Tasks = {T}
ASSUME UsesAssumption ==
  \A k \in Keys : \A use \in Uses[k] :
    use[2] \in {"OPERATOR", "APPROVER", "ELEVATED"}
ASSUME StartsAssumption == Starts \subseteq {"draft", "specified", "planned"}

VARIABLES
  request,    \* what each key was sent with
  answer,     \* the answer recorded for each key
  handler,    \* the memory of each handler
  binding,    \* the rows of runtime_run_bindings and runtime_task_bindings
  jobs,       \* the start job of each attempt
  approvals,  \* the rows of task_approvals, by the key they are derived from
  retryState, \* the state in the stored result of a key's RetryTask
  granted,    \* <<key, artifact>>: the approvals that callers were given
  faults

apiVars ==
  <<request, answer, handler, binding, jobs, approvals, retryState, granted,
    faults>>
allVars == <<vars, apiVars>>

-----------------------------------------------------------------------------
Ref(kind) == <<kind, Nil>>

(* The evidence of attempt n; the candidate commit of an attempt is its    *)
(* number.                                                                 *)
RefOf(kind, n) == <<kind, n>>

NoApproval == [state |-> "NONE", digest |-> Nil, artifact |-> Nil]

Idle ==
  [pc |-> "idle", key |-> Nil, run |-> Nil, task |-> Nil, artifact |-> Nil,
   owner |-> FALSE]

Attempts == 1..(MaxAttempts + 1)

(* The steps that stableStepID names.                                      *)
Steps ==
  {"specification", "approve-specification", "reject-specification",
   "task-graph", "approve-task-graph", "reject-task-graph", "reject-run",
   "cancel-run", "retry-task", "apply", "aggregate-execution",
   "aggregate-verification", "aggregate-review", "approve-run"}

ASSUME NamesAssumption ==
  /\ Keys \X Steps \subseteq CommandIDs
  /\ {Ref("spec"), Ref("graph"), Ref("task")} \subseteq Artifacts
  /\ {"spec", "graph", "approval"} \X Keys \subseteq Artifacts
  /\ {"proposal", "execution", "evidence", "review"} \X (1..MaxAttempts)
       \subseteq Artifacts
  /\ 1..MaxAttempts \subseteq Commits
  /\ T \in LeaseIDs /\ {0, 1} \subseteq Times
  /\ Nil \notin {"ok", "READY"}

InitAPI ==
  /\ request = [k \in Keys |-> Nil]
  /\ answer = [k \in Keys |-> Nil]
  /\ handler = [h \in Handlers |-> Idle]
  /\ approvals = [k \in Keys |-> NoApproval]
  /\ retryState = [k \in Keys |-> Nil]
  /\ granted = {}
  /\ faults = 0

(* A run that was just created, one whose specification was just approved, *)
(* and one whose plan was.                                                 *)
InitDraft ==
  /\ run = [NoRun EXCEPT !.state = "DRAFT", !.rev = 1]
  /\ task = [t \in Tasks |-> NoTask]
  /\ binding = [spec |-> Nil, graph |-> Nil, task |-> Nil, approval |-> Nil]
  /\ jobs = [n \in Attempts |-> "NONE"]

InitSpecified ==
  /\ run = [NoRun EXCEPT !.state = "TASK_PLANNING", !.rev = 3,
                         !.spec = Ref("spec")]
  /\ task = [t \in Tasks |-> NoTask]
  /\ binding = [spec |-> Ref("spec"), graph |-> Nil, task |-> Nil,
                approval |-> Nil]
  /\ jobs = [n \in Attempts |-> "NONE"]

InitPlanned ==
  /\ run = [NoRun EXCEPT !.state = "READY", !.rev = 5, !.spec = Ref("spec"),
                         !.graph = Ref("graph")]
  /\ task = [t \in Tasks |->
               [NoTask EXCEPT !.state = "READY", !.rev = 1,
                              !.max = MaxAttempts]]
  /\ binding = [spec |-> Ref("spec"), graph |-> Ref("graph"),
                task |-> Ref("task"), approval |-> Nil]
  /\ jobs = [n \in Attempts |-> IF n = 1 THEN "QUEUED" ELSE "NONE"]

APIInit ==
  /\ InitAPI
  /\ \/ "draft" \in Starts /\ InitDraft
     \/ "specified" \in Starts /\ InitSpecified
     \/ "planned" \in Starts /\ InitPlanned
  /\ deps = {}
  /\ log = [a \in Aggregates |->
       {[rev |-> n, cmd |-> Fresh] : n \in 1..Revision(a)}]
  /\ commands = [i \in {} |-> Nil]

Fault == faults < MaxFaults /\ faults' = faults + 1

keyOf(h) == handler[h].key

req(h) == request[keyOf(h)]

goto(h, pc) == handler' = [handler EXCEPT ![h].pc = pc]


(* The handler is done with an answer, which is recorded unless one is     *)
(* recorded already.                                                       *)
respond(h, a) ==
  /\ answer' = [answer EXCEPT ![keyOf(h)] = IF @ = Nil THEN a ELSE @]
  /\ handler' = [handler EXCEPT ![h] = Idle]

(* The handler is done with an error that domainError does not know, the   *)
(* errors of the approval service among them: a 500, for which the key is  *)
(* abandoned and no answer is recorded.                                    *)
abandonMutation(h) ==
  /\ handler' = [handler EXCEPT ![h] = Idle]
  /\ UNCHANGED answer

-----------------------------------------------------------------------------
(* The client and the entry of a handler.                                  *)

PlanRejections == {"reject-specification", "reject-task-graph"}

PlanningRoutes ==
  {"specification", "approve-specification", "task-graph",
   "approve-task-graph"} \cup PlanRejections

PlanningStates ==
  {"DRAFT", "SPECIFICATION_REVIEW", "TASK_PLANNING", "TASK_PLAN_REVIEW"}

(* Bound: clients send a request in the part of a run's life that it is    *)
(* meant for, planning or execution, and ask for an approval once there is *)
(* a candidate; it may be served in another part.                          *)
timely(route) ==
  /\ route \in PlanningRoutes <=> run.state \in PlanningStates
  /\ route = "approval" => task[T].cand # Nil

(* A client names the revision that it has just read; its request may be   *)
(* served any time later.  The rejection of a specification or a plan may  *)
(* end the run.                                                            *)
Send(k) ==
  /\ request[k] = Nil
  /\ \E use \in {u \in Uses[k] : timely(u[1])} :
     \E terminal \in IF use[1] \in PlanRejections THEN BOOLEAN ELSE {FALSE} :
       request' = [request EXCEPT ![k] =
         [route |-> use[1], role |-> use[2], terminal |-> terminal,
          rev |-> IF use[1] = "retry" THEN task[T].rev ELSE run.rev]]
  /\ UNCHANGED <<vars, answer, handler, binding, jobs, approvals, retryState,
                 granted, faults>>

Serve(h) ==
  /\ handler[h] = Idle
  /\ \E k \in Keys :
       /\ request[k] # Nil
       /\ answer[k] = Nil
       /\ handler' = [handler EXCEPT ![h] =
            [Idle EXCEPT !.pc = "apply", !.key = k]]
  /\ UNCHANGED <<vars, request, answer, binding, jobs, approvals, retryState,
                 granted, faults>>

(* hasRole and hasApprovalRole, per route.                                 *)
mayUse(route, role) ==
  IF route \in {"specification", "task-graph", "cancel", "retry"}
  THEN role = "OPERATOR"
  ELSE role \in {"APPROVER", "ELEVATED"}

(* The documents a decision is about are there.                            *)
bound_(route) ==
  CASE route \in {"approve-specification", "reject-specification"} ->
         run.spec # Nil
    [] route \in {"approve-task-graph", "reject-task-graph"} ->
         run.graph # Nil
    [] route = "reject" -> run.review # Nil
    [] OTHER -> TRUE

(* Mutant: the precondition of the request is not compared.                *)
ifMatch_Ignored(h) == TRUE

(* If-Match names the revision that the handler reads.                     *)
ifMatch(h) == req(h).route = "retry" \/ req(h).rev = run.rev

(* applyMutation: the run is read once, and every command of the request   *)
(* but the last ones of an approval names the revision read here.          *)
Apply(h) ==
  /\ handler[h].pc = "apply"
  /\ IF /\ ifMatch(h)
        /\ mayUse(req(h).route, req(h).role)
        /\ bound_(req(h).route)
     THEN /\ handler' = [handler EXCEPT
               ![h].pc = IF req(h).route = "approval" THEN "evidence"
                                                      ELSE "command",
               ![h].run = run]
          /\ UNCHANGED answer
     ELSE respond(h, "refused")
  /\ UNCHANGED <<vars, request, binding, jobs, approvals, retryState, granted,
                 faults>>

-----------------------------------------------------------------------------
(* Workflow commands of a handler.                                         *)

(* envelope and stableStepID: the command ID is derived from the key.      *)
envelope(h, step, actor, rev) ==
  [id |-> <<keyOf(h), step>>, actor |-> actor, rev |-> rev, at |-> 0]

(* The command A does not apply.                                           *)
refused(A) == ~ENABLED A

(* Mutant: the error of a refused command is dropped.                      *)
execute_Continues(h, m, digest, A, next) ==
  \/ /\ A
     /\ goto(h, next)
     /\ UNCHANGED answer
  \/ /\ refused(A)
     /\ goto(h, next)
     /\ UNCHANGED <<vars, answer>>

(* ExecuteRun and ExecuteTask, for the command A with envelope m: it is    *)
(* applied, or was applied before, and the handler goes on; or it is       *)
(* refused, and so is the request.                                         *)
execute(h, m, digest, A, next) ==
  \/ /\ A
     /\ goto(h, next)
     /\ UNCHANGED answer
  \/ /\ loadCommandResult(m, digest) = "replay"
     /\ goto(h, next)
     /\ UNCHANGED <<vars, answer>>
  \/ /\ loadCommandResult(m, digest) # "replay"
     /\ refused(A)
     /\ respond(h, "refused")
     /\ UNCHANGED vars

serviceMeta(h, step) ==
  envelope(h, step, "WORKFLOW_SERVICE", handler[h].run.rev)

humanMeta(h, step) == envelope(h, step, "HUMAN", handler[h].run.rev)

SpecificationRoutes(h) ==
  LET p == serviceMeta(h, "specification")
      a == humanMeta(h, "approve-specification")
      r == humanMeta(h, "reject-specification")
      spec == handler[h].run.spec
      proposed == RefOf("spec", keyOf(h))
  IN  \/ /\ req(h).route = "specification"
         /\ execute(h, p, <<"ProposeSpecification", p, proposed>>,
                    proposeSpecification(p, proposed), "respond")
      \/ /\ req(h).route = "approve-specification"
         /\ execute(h, a, <<"ApproveSpecification", a, spec>>, 
                    approveSpecification(a, spec), "checkpoint-specification")
      \/ /\ req(h).route = "reject-specification"
         /\ execute(h, r, <<"RejectSpecification", r, spec, req(h).terminal>>, 
                    rejectSpecification(r, spec, req(h).terminal), "respond")

TaskGraphRoutes(h) ==
  LET p == serviceMeta(h, "task-graph")
      r == humanMeta(h, "reject-task-graph")
      graph == handler[h].run.graph
  IN  \/ /\ req(h).route = "task-graph"
         /\ execute(h, p, <<"ProposeTaskGraph", p, RefOf("graph", keyOf(h))>>, 
                    proposeTaskGraph(p, RefOf("graph", keyOf(h))), "respond")
      \/ /\ req(h).route = "reject-task-graph"
         /\ execute(h, r,
                    <<"RejectTaskGraph", r, graph, req(h).terminal>>,
                    rejectTaskGraph(r, graph, req(h).terminal), "respond")

RejectRoute(h) ==
  LET m == humanMeta(h, "reject-run")
      read == handler[h].run
  IN  /\ req(h).route = "reject"
      /\ execute(h, m, <<"RejectRun", m, read.cand, read.review>>, 
                 rejectRun(m, read.review, read.cand), "respond")

(* The route sends CancelRun as the workflow service, so the command is    *)
(* refused in every state and what the route does after it, the            *)
(* cancellation of the run's stage jobs, is not reached.                   *)
CancelRoute(h) ==
  LET m == serviceMeta(h, "cancel-run")
  IN  /\ req(h).route = "cancel"
      /\ execute(h, m, <<"CancelRun", m>>, cancelRun(m), "respond")

RunCommand(h) ==
  /\ handler[h].pc = "command"
  /\ SpecificationRoutes(h) \/ TaskGraphRoutes(h) \/ RejectRoute(h)
     \/ CancelRoute(h)
  /\ UNCHANGED <<request, binding, jobs, approvals, retryState, granted,
                 faults>>

-----------------------------------------------------------------------------
(* Checkpoints of bindings and jobs.                                       *)

(* checkpointRun: a column is written once; the same value again is        *)
(* accepted, another one is ErrConflict.                                   *)
checkpointRun(h, column, ref, next) ==
  IF binding[column] \in {Nil, ref}
  THEN /\ binding' = [binding EXCEPT ![column] = ref]
       /\ goto(h, next)
       /\ UNCHANGED answer
  ELSE /\ respond(h, "refused")
       /\ UNCHANGED binding

CheckpointSpecification(h) ==
  /\ handler[h].pc = "checkpoint-specification"
  /\ checkpointRun(h, "spec", handler[h].run.spec, "respond")
  /\ UNCHANGED <<vars, request, jobs, approvals, retryState, granted, faults>>

(* Mutant: the start job is left to a transaction of its own.              *)
approveOnce_NoJob(h) ==
  /\ binding' = [binding EXCEPT !.graph = handler[h].run.graph,
                                !.task = Ref("task")]
  /\ UNCHANGED jobs

(* approveOnce: graph and task bindings and the start job, in the          *)
(* transaction of the command.                                             *)
approveOnce(h) ==
  /\ binding.graph \in {Nil, handler[h].run.graph}
  /\ binding' = [binding EXCEPT !.graph = handler[h].run.graph,
                                !.task = Ref("task")]
  /\ jobs' = [jobs EXCEPT ![1] = IF @ = "NONE" THEN "QUEUED" ELSE @]

ApproveTaskGraphRoute(h) ==
  LET m == humanMeta(h, "approve-task-graph")
      plan == [t \in {T} |-> MaxAttempts]
      digest == <<"ApproveTaskGraph", m, handler[h].run.graph, plan, {}>>
  IN  /\ handler[h].pc = "command"
      /\ req(h).route = "approve-task-graph"
      /\ \/ /\ approveTaskGraph(m, handler[h].run.graph, plan, {})
            /\ approveOnce(h)
            /\ goto(h, "respond")
            /\ UNCHANGED answer
         \/ /\ loadCommandResult(m, digest) = "replay"
            /\ approveOnce(h)
            /\ goto(h, "respond")
            /\ UNCHANGED <<vars, answer>>
         \/ /\ loadCommandResult(m, digest) # "replay"
            /\ refused(approveTaskGraph(m, handler[h].run.graph, plan, {}))
            /\ respond(h, "refused")
            /\ UNCHANGED <<vars, binding, jobs>>
      /\ UNCHANGED <<request, approvals, retryState, granted, faults>>

(* retryTask: the revision named by the client is the task's.              *)
RetryTaskRoute(h) ==
  LET m == envelope(h, "retry-task", "WORKFLOW_SERVICE", req(h).rev)
  IN  /\ handler[h].pc = "command"
      /\ req(h).route = "retry"
      /\ execute(h, m, <<"RetryTask", m, T>>, retryTask(m, T), "retried")
      /\ retryState' = [retryState EXCEPT ![keyOf(h)] =
           IF task'[T] # task[T] THEN task'[T].state ELSE @]
      /\ UNCHANGED <<request, binding, jobs, approvals, granted, faults>>

(* The stored result decides; the attempt of the new job is read from the  *)
(* task as it is now.                                                      *)
RetryRead(h) ==
  /\ handler[h].pc = "retried"
  /\ IF retryState[keyOf(h)] = "READY"
     THEN /\ handler' = [handler EXCEPT ![h].pc = "enqueue",
                                        ![h].task = task[T]]
          /\ UNCHANGED answer
     ELSE respond(h, "refused")
  /\ UNCHANGED <<vars, request, binding, jobs, approvals, retryState, granted,
                 faults>>

(* Enqueue of a job that exists changes nothing.                           *)
EnqueueRetry(h) ==
  LET n == handler[h].task.attempt + 1 IN
  /\ handler[h].pc = "enqueue"
  /\ jobs' = [jobs EXCEPT ![n] = IF @ = "NONE" THEN "QUEUED" ELSE @]
  /\ goto(h, "respond")
  /\ UNCHANGED <<vars, request, answer, binding, approvals, retryState,
                 granted, faults>>

Respond(h) ==
  /\ handler[h].pc = "respond"
  /\ respond(h, "ok")
  /\ UNCHANGED <<vars, request, binding, jobs, approvals, retryState, granted,
                 faults>>

-----------------------------------------------------------------------------
(* approveRun and the approval service.                                    *)

(* The task with its evidence is read; without a complete chain and the    *)
(* approved specification there is nothing to approve.                     *)
ReadEvidence(h) ==
  /\ handler[h].pc = "evidence"
  /\ IF /\ Nil \notin {task[T].proposal, task[T].exec, task[T].verif,
                       task[T].review, task[T].cand}
        /\ Nil \notin {handler[h].run.spec, handler[h].run.graph}
        /\ binding.spec # Nil /\ binding.task # Nil
     THEN /\ handler' = [handler EXCEPT ![h].pc = "begin", ![h].task = task[T]]
          /\ UNCHANGED answer
     ELSE respond(h, "refused")
  /\ UNCHANGED <<vars, request, binding, jobs, approvals, retryState, granted,
                 faults>>

(* A failed ListTasks becomes ErrInvalid, a 422: the refusal is recorded.  *)
ListTasksFails(h) ==
  /\ handler[h].pc = "evidence"
  /\ Fault
  /\ respond(h, "refused")
  /\ UNCHANGED <<vars, request, binding, jobs, approvals, retryState, granted>>

(* The digest of the request: everything the task row said when it was     *)
(* read, its revision included.                                            *)
approvalRequestDigest(h) == handler[h].task

row(h) == approvals[keyOf(h)]

(* Begin reserves the approval, resumes a checkpointed decision, replays a *)
(* completed one, or fails on another request under the same ID.  While a  *)
(* reservation of another handler stands, it polls.                        *)
ApprovalBegin(h) ==
  /\ handler[h].pc = "begin"
  /\ \/ /\ row(h).state = "NONE"
        /\ approvals' = [approvals EXCEPT ![keyOf(h)] =
             [NoApproval EXCEPT !.state = "reserved",
                                !.digest = approvalRequestDigest(h)]]
        /\ handler' = [handler EXCEPT ![h].pc = "decide", ![h].owner = TRUE]
        /\ UNCHANGED answer
     \/ /\ row(h).state \in {"decision_ready", "completed"}
        /\ row(h).digest = approvalRequestDigest(h)
        /\ handler' = [handler EXCEPT
             ![h].pc = IF row(h).state = "completed" THEN "checkpoint-approval"
                                                     ELSE "apply-decision",
             ![h].artifact = row(h).artifact]
        /\ UNCHANGED <<answer, approvals>>
     \/ /\ row(h).state # "NONE"
        /\ row(h).digest # approvalRequestDigest(h)
        /\ abandonMutation(h)
        /\ UNCHANGED approvals
  /\ UNCHANGED <<vars, request, binding, jobs, retryState, granted, faults>>

(* The two-minute limit of a detached operation ends the polling.          *)
PollTimeout(h) ==
  /\ handler[h].pc = "begin"
  /\ row(h).state = "reserved"
  /\ row(h).digest = approvalRequestDigest(h)
  /\ abandonMutation(h)
  /\ UNCHANGED <<vars, request, binding, jobs, approvals, retryState, granted,
                 faults>>

(* Mutant: the role is checked against the request only.                   *)
authorize_AnyApprover(h) == TRUE

(* authorize: a candidate of elevated risk needs the elevated role.        *)
authorize(h) == Elevated => req(h).role = "ELEVATED"

(* reviewReportMatches: a passed review of exactly this evidence.          *)
reviewReportMatches(h) ==
  LET t == handler[h].task IN
  t.review.passed /\ t.review.commit = t.cand

(* Mutant: the reservation is not given up with the decision.              *)
SaveDecision_KeepsReservation(h) ==
  /\ handler[h].pc = "decide"
  /\ reviewReportMatches(h) /\ authorize(h)
  /\ approvals' = [approvals EXCEPT
       ![keyOf(h)].state = "decision_ready",
       ![keyOf(h)].artifact = RefOf("approval", keyOf(h))]
  /\ handler' = [handler EXCEPT ![h].pc = "apply-decision",
                                ![h].artifact = RefOf("approval", keyOf(h))]
  /\ UNCHANGED <<vars, request, answer, binding, jobs, retryState, granted,
                 faults>>

(* Mutant: the checkpoint leaves the artifact out.                         *)
SaveDecision_NoArtifact(h) ==
  /\ handler[h].pc = "decide"
  /\ approvals' = [approvals EXCEPT ![keyOf(h)].state = "decision_ready"]
  /\ handler' = [handler EXCEPT ![h].pc = "apply-decision",
                                ![h].owner = FALSE]
  /\ UNCHANGED <<vars, request, answer, binding, jobs, retryState, granted,
                 faults>>

(* The decision is validated, written to an artifact that names the        *)
(* approval and its evidence, and checkpointed; or the reservation is      *)
(* rolled back.                                                            *)
SaveDecision(h) ==
  /\ handler[h].pc = "decide"
  /\ IF reviewReportMatches(h) /\ authorize(h)
     THEN /\ approvals' = [approvals EXCEPT
               ![keyOf(h)].state = "decision_ready",
               ![keyOf(h)].artifact = RefOf("approval", keyOf(h))]
          /\ handler' = [handler EXCEPT
               ![h].pc = "apply-decision", ![h].owner = FALSE,
               ![h].artifact = RefOf("approval", keyOf(h))]
          /\ UNCHANGED answer
     ELSE /\ approvals' = [approvals EXCEPT ![keyOf(h)] = NoApproval]
          /\ abandonMutation(h)
  /\ UNCHANGED <<vars, request, binding, jobs, retryState, granted, faults>>

(* applyCheckpoint: ApproveTask under the ID and revision of the request.  *)
ApplyDecision(h) ==
  LET t == handler[h].task
      m == envelope(h, "apply", "HUMAN", t.rev)
  IN  /\ handler[h].pc = "apply-decision"
      /\ execute(h, m, <<"ApproveTask", m, T, t.cand, t.review.ref,
                         handler[h].artifact>>,
                 approveTask(m, T, t.review.ref, handler[h].artifact, t.cand),
                 "complete-approval")
      /\ UNCHANGED <<request, binding, jobs, approvals, retryState, granted,
                     faults>>

CompleteApproval(h) ==
  /\ handler[h].pc = "complete-approval"
  /\ approvals' = [approvals EXCEPT ![keyOf(h)].state = "completed"]
  /\ goto(h, "checkpoint-approval")
  /\ UNCHANGED <<vars, request, answer, binding, jobs, retryState, granted,
                 faults>>

CheckpointApproval(h) ==
  /\ handler[h].pc = "checkpoint-approval"
  /\ checkpointRun(h, "approval", handler[h].artifact, "read-run")
  /\ granted' = granted \cup {<<keyOf(h), handler[h].artifact>>}
  /\ UNCHANGED <<vars, request, jobs, approvals, retryState, faults>>

(* The run is read again before each of the aggregate commands.            *)
ReadRun(h) ==
  /\ handler[h].pc = "read-run"
  /\ handler' = [handler EXCEPT ![h].pc = "aggregate", ![h].run = run]
  /\ UNCHANGED <<vars, request, answer, binding, jobs, approvals, retryState,
                 granted, faults>>

(* The evidence of the task is recorded on the run, in the order of the    *)
(* run's states, and the run is approved.                                  *)
Aggregate(h) ==
  LET t == handler[h].task
      rev == handler[h].run.rev
      e == envelope(h, "aggregate-execution", "EXECUTION_SERVICE", rev)
      v == envelope(h, "aggregate-verification", "VERIFICATION_SERVICE", rev)
      r == envelope(h, "aggregate-review", "REVIEW_SERVICE", rev)
      a == envelope(h, "approve-run", "HUMAN", rev)
      state == handler[h].run.state
  IN  /\ handler[h].pc = "aggregate"
      /\ \/ /\ state = "EXECUTING"
            /\ execute(h, e, <<"RecordRunExecution", e, t.exec.ref, t.cand>>,
                       recordRunExecution(e, t.exec.ref, t.cand), "read-run")
         \/ /\ state = "VERIFYING"
            /\ execute(h, v,
                       <<"RecordRunVerification", v, t.verif.ref, t.cand>>,
                       recordRunVerification(v, t.verif.ref, t.cand),
                       "read-run")
         \/ /\ state = "REVIEWING"
            /\ execute(h, r, <<"RecordRunReview", r, t.review.ref, t.cand>>,
                       recordRunReview(r, t.review.ref, t.cand), "read-run")
         \/ /\ state = "AWAITING_APPROVAL"
            /\ execute(h, a, <<"ApproveRun", a, t.cand, handler[h].run.review,
                               handler[h].artifact>>,
                       approveRun(a, handler[h].run.review,
                                  handler[h].artifact, t.cand),
                       "respond")
         \/ /\ state \notin {"EXECUTING", "VERIFYING", "REVIEWING",
                             "AWAITING_APPROVAL"}
            /\ respond(h, "refused")
            /\ UNCHANGED vars
      /\ UNCHANGED <<request, binding, jobs, approvals, retryState, granted,
                     faults>>

-----------------------------------------------------------------------------
(* The start stage and the stages after it.                                *)

(* The commands of the stages carry IDs of their own and name the revision *)
(* that they find.                                                         *)
stageMeta(actor, rev) == [id |-> Fresh, actor |-> actor, rev |-> rev, at |-> 0]

leaseOf(n) == [id |-> T, fence |-> n, expires |-> 1]

StartRunStage(n) ==
  /\ jobs[n] = "QUEUED"
  /\ startRun(stageMeta("WORKFLOW_SERVICE", run.rev))
  /\ UNCHANGED apiVars

(* leaseTaskIfReady: the lease carries the attempt of the job.  It is not  *)
(* refused: the job of an attempt is done before the task gets READY for   *)
(* the next one, and a run that has left EXECUTING has no READY task.      *)
LeaseStage(n) ==
  /\ jobs[n] = "QUEUED"
  /\ run.state # "READY"
  /\ leaseTask(stageMeta("WORKFLOW_SERVICE", task[T].rev), T, leaseOf(n))
  /\ UNCHANGED apiVars

(* A task that is not READY needs no lease, and the stage is done.         *)
StartStageDone(n) ==
  /\ jobs[n] = "QUEUED"
  /\ run.state # "READY"
  /\ task[T].state # "READY"
  /\ jobs' = [jobs EXCEPT ![n] = "DONE"]
  /\ UNCHANGED <<vars, request, answer, handler, binding, approvals,
                 retryState, granted, faults>>

(* The later stages, for an attempt whose start stage is done.             *)
LaterStages ==
  LET n == task[T].attempt
      meta(actor) == stageMeta(actor, task[T].rev)
      proposal == RefOf("proposal", n)
  IN  /\ n > 0
      /\ jobs[n] = "DONE"
      /\ binding.spec # Nil
      /\ \/ startReasoning(meta("REASONING_SERVICE"), T, leaseOf(n))
         \/ rejectTaskProposal(meta("REASONING_SERVICE"), T, proposal)
         \/ acceptTaskProposal(meta("EXECUTION_SERVICE"), T, leaseOf(n),
                               proposal)
         \/ recordTaskExecution(meta("EXECUTION_SERVICE"), T, leaseOf(n),
                                proposal, RefOf("execution", n), n)
         \/ \E passed \in BOOLEAN :
              \/ recordTaskVerification(meta("VERIFICATION_SERVICE"), T,
                                        RefOf("evidence", n), n, passed)
              \/ recordTaskReview(meta("REVIEW_SERVICE"), T,
                                  RefOf("review", n), n, passed)
      /\ UNCHANGED apiVars

-----------------------------------------------------------------------------
(* A handler dies in any state; its reservations stay.                     *)
Crash(h) ==
  /\ handler[h] # Idle
  /\ Fault
  /\ handler' = [handler EXCEPT ![h] = Idle]
  /\ UNCHANGED <<vars, request, answer, binding, jobs, approvals, retryState,
                 granted>>

(* A storage error is a 5xx: no answer is recorded, and an approval that   *)
(* is only reserved is rolled back.                                        *)
ServerError(h) ==
  /\ handler[h] # Idle
  /\ Fault
  /\ handler' = [handler EXCEPT ![h] = Idle]
  /\ approvals' = IF handler[h].owner
                  THEN [approvals EXCEPT ![keyOf(h)] = NoApproval]
                  ELSE approvals
  /\ UNCHANGED <<vars, request, answer, binding, jobs, retryState, granted>>

ApprovalStep(h) ==
  \/ ReadEvidence(h) \/ ApprovalBegin(h) \/ PollTimeout(h) \/ SaveDecision(h)
  \/ ApplyDecision(h) \/ CompleteApproval(h) \/ CheckpointApproval(h)
  \/ ReadRun(h) \/ Aggregate(h)

HandlerStep(h) ==
  \/ Apply(h) \/ RunCommand(h) \/ CheckpointSpecification(h)
  \/ ApproveTaskGraphRoute(h) \/ RetryTaskRoute(h)
  \/ RetryRead(h) \/ EnqueueRetry(h) \/ Respond(h) \/ ApprovalStep(h)

Stages ==
  \/ \E n \in Attempts : StartRunStage(n) \/ LeaseStage(n)
                         \/ StartStageDone(n)
  \/ LaterStages

APINext ==
  \/ \E k \in Keys : Send(k)
  \/ \E h \in Handlers :
       Serve(h) \/ HandlerStep(h) \/ ListTasksFails(h) \/ Crash(h)
       \/ ServerError(h)
  \/ Stages

APISpec == APIInit /\ [][APINext]_allVars

(* Handlers run on, and every client repeats what is not answered until a  *)
(* handler takes it, also while the requests of others are repeated.       *)
FairAPISpec ==
  /\ APISpec
  /\ \A h \in Handlers : WF_allVars(HandlerStep(h))
  /\ \A k \in Keys :
       SF_allVars(\E h \in Handlers : Serve(h) /\ handler'[h].key = k)

-----------------------------------------------------------------------------
(* Properties.                                                             *)

(* Requests, answers, handlers' places, bindings and approvals have their  *)
(* types, a queued start job of a READY task leases its next attempt, an   *)
(* approval has its artifact from its decision on, and a reservation has   *)
(* at most one owner.                                                      *)
APITypeOK ==
  /\ run \in RunRow
  /\ task \in [Tasks -> TaskRow]
  /\ answer \in [Keys -> {Nil, "ok", "refused"}]
  /\ \A c \in DOMAIN binding : binding[c] \in OptArtifact
  /\ jobs \in [Attempts -> {"NONE", "QUEUED", "DONE"}]
  /\ \A n \in Attempts :
       jobs[n] = "QUEUED" /\ task[T].state = "READY" /\ run.state # "READY" =>
         n = nextFence(T) /\ validateTaskRunGate
  /\ \A k \in Keys :
       approvals[k].artifact # Nil <=>
         approvals[k].state \in {"decision_ready", "completed"}
  /\ \A g, h \in Handlers :
       handler[g].owner /\ handler[h].owner /\ keyOf(g) = keyOf(h) => g = h

(* A run is MERGE_READY only on the evidence of its accepted task: the     *)
(* same execution, candidate, verification and review, and one approval    *)
(* that the run, the task, the runtime binding and a completed approval    *)
(* agree on, however many approvers and handlers approve at a time.        *)
ApprovedOnTaskEvidence ==
  run.state = "MERGE_READY" =>
    LET t == task[T] IN
    /\ t.state = "ACCEPTED"
    /\ run.exec = t.exec.ref /\ run.verif = t.verif.ref
    /\ run.review = t.review.ref /\ run.cand = t.cand
    /\ run.approval = t.approval.ref /\ run.approval = binding.approval
    /\ t.review.passed /\ t.verif.passed
    /\ \E k \in Keys :
         /\ approvals[k].state = "completed"
         /\ approvals[k].artifact = run.approval
         /\ Elevated => request[k].role = "ELEVATED"

(* The runtime bindings say what the workflow decided: the approved        *)
(* specification and graph, and the approval of the accepted task, also    *)
(* when the checkpoint is late or repeated.                                *)
BindingsFollowDecisions ==
  /\ binding.spec # Nil =>
       /\ binding.spec = run.spec
       /\ run.state \notin {"DRAFT", "SPECIFICATION_REVIEW"}
  /\ binding.graph # Nil => binding.graph = run.graph
  /\ binding.approval # Nil =>
       /\ task[T].state = "ACCEPTED"
       /\ binding.approval = task[T].approval.ref

(* What the request of key k decided is in the bindings and in the queue.  *)
Recorded(k) ==
  CASE request[k].route = "approve-specification" -> binding.spec # Nil
    [] request[k].route = "approve-task-graph" ->
         /\ task[T].state # "NONE"
         /\ binding.graph # Nil /\ binding.task # Nil /\ jobs[1] # "NONE"
    [] request[k].route = "approval" ->
         /\ run.state = "MERGE_READY" /\ task[T].state = "ACCEPTED"
         /\ binding.approval = run.approval
    [] OTHER -> TRUE

(* The specification is approved but its checkpoint is missing.            *)
SpecificationUnbound ==
  /\ run.state \notin {"DRAFT", "SPECIFICATION_REVIEW", "REJECTED"}
  /\ binding.spec = Nil

(* A plan without its bindings or its start job.                           *)
PlanUnbound ==
  /\ task[T].state # "NONE"
  /\ Nil \in {binding.graph, binding.task} \/ jobs[1] = "NONE"

(* The answer of a request that names a revision is "ok" only when the     *)
(* command it stands for was applied to that revision: of two clients that *)
(* decided on the same reading, one is refused.                            *)
DecidedOnRevisionRead ==
  \A k, l \in Keys :
    /\ k # l
    /\ answer[k] = "ok" /\ answer[l] = "ok"
    /\ request[k].route # "retry" /\ request[l].route # "retry"
    => request[k].rev # request[l].rev

(* Every approval has one decision, and whoever is granted the approval is *)
(* granted that decision: the ledger implements the write-once register.   *)
Decisions ==
  INSTANCE WriteOnce WITH
    Results <- {RefOf("approval", k) : k \in Keys}, None <- Nil,
    result <- [k \in Keys |-> approvals[k].artifact],
    returned <- granted

ApprovalsImplementWriteOnce == Decisions!Spec

(* What was decided is recorded whole: bindings follow decisions; whoever  *)
(* is told "ok" finds the bindings, jobs and rows of the decision; and a   *)
(* decision lacks them only between the two commits of the approval of a   *)
(* specification.  There a death or an error leaves the specification      *)
(* without its binding for good, because the revision that a repeated      *)
(* request names has passed; the approval of a plan leaves no such gap.    *)
DecisionsRecordedWhole ==
  /\ BindingsFollowDecisions
  /\ \A k \in Keys : answer[k] = "ok" => Recorded(k)
  /\ SpecificationUnbound =>
       faults > 0 \/ \E h \in Handlers :
                       handler[h].pc = "checkpoint-specification"
  /\ ~PlanUnbound

(* A decision is taken once: on the revision its author read, under an     *)
(* approval with one owner, one artifact and one outcome.                  *)
DecidedOnce ==
  [](APITypeOK /\ DecidedOnRevisionRead) /\ ApprovalsImplementWriteOnce

(* The approval service cannot decide the request of key k: its reviewed   *)
(* candidate needs a higher role, the review did not pass, or the task has *)
(* moved on since the approval was reserved.  None of its errors is known  *)
(* to domainError, so that the client is told 500 every time.              *)
DecisionRefused(k) ==
  /\ request[k].route = "approval"
  /\ \/ Elevated /\ request[k].role # "ELEVATED"
     \/ task[T].review # Nil /\ ~task[T].review.passed
     \/ approvals[k].state # "NONE" /\ approvals[k].digest # task[T]

(* The approval of key k is reserved by a handler that died, or that was   *)
(* not told of its reservation.                                            *)
ReservationOrphaned(k) ==
  /\ approvals[k].state = "reserved"
  /\ ~\E h \in Handlers : handler[h].owner /\ keyOf(h) = k


=============================================================================
