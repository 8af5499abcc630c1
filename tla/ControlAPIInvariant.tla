------------------------- MODULE ControlAPIInvariant ------------------------
(***************************************************************************)
(* The inductive invariant of ControlAPI, for any number of keys,          *)
(* handlers, faults and attempts, and the first half of its proof.         *)
(*                                                                         *)
(* APIInv says what a handler at each place of its program knows of the    *)
(* rows it has read (Fits), what a command of a handler in the ledger      *)
(* tells about run and task (LedgerFits), and how run, task, bindings,     *)
(* jobs and approvals agree.  Rows only change in ways that keep the       *)
(* memories of the other handlers fitting (Advances, Grows), so each       *)
(* action is left to account for its own handler.                          *)
(*                                                                         *)
(* Shown here: initial states satisfy APIInv; under APIInv a step of the   *)
(* control API is one of the write-once register; and the routes that give *)
(* commands to the workflow preserve APIInv, except the approval of a      *)
(* plan.  ControlAPIProofs has the other actions and the theorems.         *)
(***************************************************************************)
EXTENDS ControlAPI, TLAPS

(* Most leaves are first-order steps, which Zenon proves; a leaf that      *)
(* needs arithmetic or the fields of records names SMT.                    *)
USE Zenon

-----------------------------------------------------------------------------
(* The control API: what its programs know at each place.                  *)

Undecided == {"DRAFT", "SPECIFICATION_REVIEW"}

(* The specification x is approved, and the plan g, and the task with the  *)
(* approval a.                                                             *)
Specified(x) == x # Nil /\ run.spec = x /\ run.state \notin Undecided

PlannedOn(g) == g # Nil /\ run.graph = g /\ task[T].state # "NONE"

AcceptedBy(a) == task[T].state = "ACCEPTED" /\ task[T].approval.ref = a

(* The row r has the evidence that the task has now.                       *)
SameEvidence(r) ==
  /\ r.exec = task[T].exec /\ r.verif = task[T].verif
  /\ r.review = task[T].review /\ r.cand = task[T].cand

(* The task's row was r once, and the task is accepted on the next one     *)
(* only with the evidence of r.                                            *)
Seen(r) ==
  /\ r \in TaskRow /\ r.rev <= task[T].rev
  /\ r.rev = task[T].rev => r = task[T]
  /\ task[T].state = "ACCEPTED" /\ task[T].rev = r.rev + 1 => SameEvidence(r)

(* What the command ledger says about a handler's command.                 *)
RunSteps == PlanningRoutes \cup {"reject-run"}

LedgerFits(i) ==
  LET d == commands[i].digest IN
  /\ i[2] \in RunSteps => d[2].rev \in Nat /\ d[2].rev < run.rev
  /\ i[2] = "approve-specification" => Specified(d[3])
  /\ i[2] = "approve-task-graph" => PlannedOn(d[3])
  /\ i[2] = "apply" => AcceptedBy(d[6]) /\ task[T].rev = d[2].rev + 1
  /\ i[2] = "reject-run" => run.state = "REJECTED"
  /\ i[2] = "approve-run" => run.state = "MERGE_READY"
  /\ i[2] # "cancel-run"

(* No two commands were applied to one revision of the run, and one        *)
(* approved the task.                                                      *)
Apart(i, j) ==
  /\ i[2] \in RunSteps /\ j[2] \in RunSteps
     /\ commands[i].digest[2].rev = commands[j].digest[2].rev => i = j
  /\ i[2] = "apply" /\ j[2] = "apply" => i = j

LedgersFit ==
  \A i \in DOMAIN commands :
    LedgerFits(i) /\ \A j \in DOMAIN commands : Apart(i, j)

Done(k, step) == <<k, step>> \in DOMAIN commands

StepOf(route) == IF route = "reject" THEN "reject-run"
                 ELSE IF route = "cancel" THEN "cancel-run" ELSE route

(* The request of key k was carried out, if it names a revision: on the    *)
(* revision that it names, or for an approval by its own decision.         *)
Served(k) ==
  LET q == request[k] IN
  q.route # "retry" =>
    IF q.route = "approval" THEN Done(k, "apply") /\ Done(k, "approve-run")
    ELSE /\ q.route \in PlanningRoutes \cup {"reject", "cancel"}
         /\ Done(k, StepOf(q.route))
         /\ commands[<<k, StepOf(q.route)>>].digest[2].rev = q.rev

(* The places of a handler after each step of an approval.                 *)
Bound == {"read-run", "aggregate"}
Completed == {"checkpoint-approval"} \cup Bound
Applied == {"complete-approval"} \cup Completed
Decided == {"apply-decision"} \cup Applied
Approving == {"begin", "decide"} \cup Decided

HandlerPlaces ==
  {"idle", "apply", "command", "checkpoint-specification", "retried",
   "enqueue", "respond", "evidence"} \cup Approving

HandlerMemory ==
  [pc : HandlerPlaces, key : Keys \cup {Nil}, run : RunRow \cup {Nil},
   task : TaskRow \cup {Nil}, artifact : OptArtifact, owner : BOOLEAN]

RouteFits(pc, route) ==
  /\ pc \in {"evidence"} \cup Approving => route = "approval"
  /\ pc \in {"retried", "enqueue"} => route = "retry"
  /\ pc = "command" => route # "approval"

(* The row r of a task has a complete chain of evidence.                   *)
Complete(r) ==
  r.proposal # Nil /\ r.exec # Nil /\ r.verif # Nil /\ r.review # Nil
  /\ r.cand # Nil

(* What a handler knows that is at place pc in serving the request of key  *)
(* k, with the run x, the task t and the artifact a in hand.               *)
Fits(pc, k, x, t, a) ==
  /\ pc # "idle" => /\ k \in Keys /\ request[k] # Nil
                    /\ RouteFits(pc, request[k].route)
  /\ pc \in {"command", "evidence", "aggregate"} => x \in RunRow
  /\ pc = "command" /\ request[k].route # "retry" => x.rev = request[k].rev
  /\ pc = "checkpoint-specification" => Specified(x.spec)
  /\ pc \in {"checkpoint-specification", "respond"} => Served(k)
  /\ pc = "enqueue" => /\ task[T].state # "NONE" /\ t \in TaskRow
                       /\ t.attempt <= task[T].attempt
  /\ pc \in Approving => Seen(t) /\ Complete(t)
  /\ pc = "decide" => /\ approvals[k].state = "reserved"
                      /\ approvals[k].digest = t
  /\ pc \in Decided =>
       /\ approvals[k].state \in {"decision_ready", "completed"}
       /\ approvals[k].digest = t /\ approvals[k].artifact = a /\ a # Nil
  /\ pc \in Applied => AcceptedBy(a) /\ SameEvidence(t) /\ Done(k, "apply")
  /\ pc \in Completed => approvals[k].state = "completed"
  /\ pc \in Bound => binding.approval = a

HandlerFits(h) ==
  /\ Fits(handler[h].pc, handler[h].key, handler[h].run, handler[h].task,
          handler[h].artifact)
  /\ handler[h].owner <=> handler[h].pc = "decide"

HandlersFit ==
  /\ handler \in [Handlers -> HandlerMemory]
  /\ \A h \in Handlers : HandlerFits(h)

OneOwner ==
  \A g, h \in Handlers :
    handler[g].owner /\ handler[h].owner /\ keyOf(g) = keyOf(h) => g = h

(* An approval row.                                                        *)
ApprovalFits(k) ==
  LET a == approvals[k] IN
  /\ a.state \in {"NONE", "reserved", "decision_ready", "completed"}
  /\ a.state \in {"NONE", "reserved"} => a.artifact = Nil
  /\ a.state \in {"decision_ready", "completed"} =>
       /\ a.artifact = RefOf("approval", k)
       /\ request[k] # Nil /\ (Elevated => request[k].role = "ELEVATED")
  /\ a.state = "completed" => /\ AcceptedBy(a.artifact)
                              /\ SameEvidence(a.digest)
                              /\ Done(k, "apply")

ApprovalsFit ==
  /\ approvals \in [Keys -> [state : {"NONE", "reserved", "decision_ready",
                                      "completed"},
                             digest : TaskRow \cup {Nil},
                             artifact : OptArtifact]]
  /\ \A k \in Keys : ApprovalFits(k)

(* The run: its documents and the evidence that it repeats.                *)
RunFits ==
  /\ run \in RunRow
  /\ run.state \in RunStates \ {"MERGED", "FAILED", "CANCELLED"}
  /\ run.state = "TASK_PLAN_REVIEW" => run.graph # Nil
  /\ run.state \in PlanningStates => task[T].state = "NONE"
  /\ run.state = "REJECTED" => task[T].state \in {"NONE", "ACCEPTED"}
  /\ run.state \in {"VERIFYING", "REVIEWING", "AWAITING_APPROVAL",
                    "MERGE_READY"} =>
       /\ task[T].state = "ACCEPTED"
       /\ run.exec = task[T].exec.ref /\ run.cand = task[T].cand
  /\ run.state \in {"REVIEWING", "AWAITING_APPROVAL", "MERGE_READY"} =>
       run.verif = task[T].verif.ref
  /\ run.state \in {"AWAITING_APPROVAL", "MERGE_READY"} =>
       run.review = task[T].review.ref

(* The row of the task: its budget, and the verdicts it has passed.        *)
TaskFits(r) ==
  /\ r \in TaskRow /\ r.attempt <= r.max /\ r.max <= MaxAttempts
  /\ r.state = "NONE" => r.rev = 0 /\ r.attempt = 0
  /\ r.state \in {"REVIEWING", "AWAITING_APPROVAL", "ACCEPTED"} =>
       r.verif # Nil /\ r.verif.passed
  /\ r.state \in {"AWAITING_APPROVAL", "ACCEPTED"} =>
       r.review # Nil /\ r.review.passed

TasksFit == task \in [Tasks -> TaskRow] /\ TaskFits(task[T])

(* A run that is MERGE_READY was approved by a completed approval.         *)
MergeFits ==
  run.state = "MERGE_READY" =>
       /\ run.approval = task[T].approval.ref
       /\ run.approval = binding.approval
       /\ \E k \in Keys : /\ approvals[k].state = "completed"
                          /\ approvals[k].artifact = run.approval

BindingsFit ==
  /\ binding \in [spec : OptArtifact, graph : OptArtifact,
                  task : OptArtifact, approval : OptArtifact]
  /\ binding.spec # Nil => Specified(binding.spec)
  /\ binding.graph # Nil => binding.graph = run.graph
  /\ binding.approval # Nil => AcceptedBy(binding.approval)
  /\ task[T].state # "NONE" <=> binding.graph # Nil
  /\ task[T].state # "NONE" <=> binding.task # Nil
  /\ task[T].state # "NONE" <=> jobs[1] # "NONE"

JobsFit ==
  /\ jobs \in [Attempts -> {"NONE", "QUEUED", "DONE"}]
  /\ \A n \in Attempts : jobs[n] = "QUEUED" =>
       \/ n = task[T].attempt + 1
       \/ n = task[T].attempt /\ task[T].state = "LEASED"
  /\ \A n \in Attempts : n <= task[T].attempt => jobs[n] # "NONE"
  /\ task[T].state = "NONE" => \A n \in Attempts : jobs[n] = "NONE"

RetriesFit ==
  /\ retryState \in [Keys -> {Nil, "READY", "FAILED"}]
  /\ \A k \in Keys : retryState[k] # Nil => task[T].state # "NONE"

(* Requests name revisions of the part of the run's life they belong to.   *)
ForPlan(k) == request[k] # Nil /\ request[k].route \in PlanningRoutes
ForRun(k) == /\ request[k] # Nil /\ request[k].route \notin PlanningRoutes
             /\ request[k].route # "retry"

RequestsFit ==
  /\ DOMAIN request = Keys
  /\ answer \in [Keys -> {Nil, "ok", "refused"}]
  /\ \A k \in Keys : request[k] # Nil => request[k].rev \in Nat
  /\ \A k \in Keys : ForPlan(k) =>
       /\ request[k].rev <= run.rev
       /\ run.state \notin PlanningStates => request[k].rev < run.rev
  /\ \A k \in Keys : ForRun(k) => run.state \notin PlanningStates
  /\ \A k, l \in Keys :
       ForPlan(k) /\ ForRun(l) => request[k].rev < request[l].rev
  /\ \A k \in Keys : answer[k] = "ok" => request[k] # Nil /\ Served(k)

APIInv ==
  /\ TasksFit /\ RunFits /\ MergeFits /\ LedgersFit /\ BindingsFit
  /\ JobsFit /\ RetriesFit /\ HandlersFit /\ OneOwner
  /\ ApprovalsFit /\ RequestsFit

(* Commands of the handlers and the stages are commands of the workflow.   *)

(* A command is recorded under its ID, if the ID is one of a handler.      *)
Ran(m, digest, a) ==
  /\ m.id \notin DOMAIN commands
  /\ DOMAIN commands' = DOMAIN commands \cup ({m.id} \cap CommandIDs)
  /\ \A i \in DOMAIN commands : commands'[i] = commands[i]
  /\ m.id \in CommandIDs =>
       commands'[m.id].on = a /\ commands'[m.id].digest = digest

(* The row of the run after a command.                                     *)
Turns(s, spec, graph, exec, cand, verif, review, approval) ==
  /\ run' \in RunRow /\ run'.rev = run.rev + 1 /\ run'.state = s
  /\ run'.spec = spec /\ run'.graph = graph /\ run'.exec = exec
  /\ run'.cand = cand /\ run'.verif = verif /\ run'.review = review
  /\ run'.approval = approval
  /\ task' = task

NextRow(next, s, spec, graph, exec, cand, verif, review, approval) ==
  /\ next \in RunRow /\ next.rev = run.rev /\ next.state = s
  /\ next.spec = spec /\ next.graph = graph /\ next.exec = exec
  /\ next.cand = cand /\ next.verif = verif /\ next.review = review
  /\ next.approval = approval

(* Steps of the workflow.                                                  *)

(* What no step of the workflow takes back.                                *)
Advances ==
  /\ run' = run \/ run'.rev = run.rev + 1
  /\ run.state \notin Undecided =>
       run'.state \notin Undecided /\ run'.spec = run.spec
  /\ run.state \notin PlanningStates => run'.state \notin PlanningStates
  /\ run.state \in {"REJECTED", "MERGE_READY"} => run' = run
  /\ task[T].state # "NONE" =>
       run'.graph = run.graph /\ task'[T].state # "NONE"
  /\ task[T].state = "ACCEPTED" => task'[T] = task[T]
  /\ \/ task'[T] = task[T]
     \/ /\ task'[T].rev = task[T].rev + 1
        /\ task[T].attempt <= task'[T].attempt
        /\ task'[T].state = "ACCEPTED" =>
             /\ task'[T].exec = task[T].exec /\ task'[T].cand = task[T].cand
             /\ task'[T].verif = task[T].verif
             /\ task'[T].review = task[T].review

(* A command of the run.                                                   *)
RunStep == task' = task /\ run'.rev = run.rev + 1 /\ Advances /\ RunFits'

(* A command of the task.                                                  *)
TaskStep ==
  /\ run' = run /\ run.state = "EXECUTING" /\ task[T].state # "NONE"
  /\ Advances /\ TasksFit'

(* The row that a task command computes, and the one that it writes.       *)
NextTask(next, s, n, exec, cand, verif, review, approval) ==
  /\ next \in TaskRow /\ next.rev = task[T].rev /\ next.max = task[T].max
  /\ next.state = s /\ next.attempt = n /\ next.exec = exec
  /\ next.cand = cand /\ next.verif = verif /\ next.review = review
  /\ next.approval = approval

TaskTurns(s, n, exec, cand, verif, review, approval) ==
  /\ task' \in [Tasks -> TaskRow]
  /\ task'[T].rev = task[T].rev + 1 /\ task'[T].max = task[T].max
  /\ task'[T].state = s /\ task'[T].attempt = n /\ task'[T].exec = exec
  /\ task'[T].cand = cand /\ task'[T].verif = verif
  /\ task'[T].review = review /\ task'[T].approval = approval
  /\ run' = run

(* What is known stays known.                                              *)

Grown ==
  \A i \in DOMAIN commands :
    i \in DOMAIN commands' /\ commands'[i] = commands[i]

Decision == {"decision_ready", "completed"}

Grows ==
  /\ Advances /\ Grown
  /\ \A k \in Keys : request[k] # Nil => request'[k] = request[k]
  /\ \A k \in Keys : approvals[k].state \in Decision =>
       /\ approvals'[k].digest = approvals[k].digest
       /\ approvals'[k].artifact = approvals[k].artifact
       /\ approvals'[k].state \in Decision
       /\ approvals[k].state = "completed" => approvals'[k].state = "completed"
  /\ binding.approval # Nil => binding'.approval = binding.approval

(* What a handler holds, and what it becomes.                              *)
Holds(h, k, x, t, a) ==
  /\ handler[h].key = k /\ handler[h].run = x /\ handler[h].task = t
  /\ handler[h].artifact = a

Becomes(h, pc, k, x, t, a) ==
  /\ handler' \in [Handlers -> HandlerMemory]
  /\ \A g \in Handlers : g # h => handler'[g] = handler[g]
  /\ handler'[h].pc = pc /\ handler'[h].key = k /\ handler'[h].run = x
  /\ handler'[h].task = t /\ handler'[h].artifact = a
  /\ handler'[h].owner <=> pc = "decide"

(* Reservations of handlers that do not move stand.                        *)
Reserved(g) == handler[g].pc = "decide" =>
                 approvals'[handler[g].key] = approvals[handler[g].key]

(* Answers: a new one is "ok" only when the request was carried out.       *)
Replies ==
  /\ answer' \in [Keys -> {Nil, "ok", "refused"}]
  /\ \A k \in Keys : answer'[k] = "ok" =>
       answer[k] = "ok" \/ (request[k] # Nil /\ Served(k)')

(* The row of the approval l becomes r, which takes no decision back.      *)
Writes(l, r) ==
  /\ r \in [state : {"NONE", "reserved", "decision_ready", "completed"},
            digest : TaskRow \cup {Nil}, artifact : OptArtifact]
  /\ approvals' = [approvals EXCEPT ![l] = r]
  /\ approvals[l].state \in Decision =>
       /\ r.digest = approvals[l].digest /\ r.artifact = approvals[l].artifact
       /\ r.state \in Decision
       /\ approvals[l].state = "completed" => r.state = "completed"
  /\ UNCHANGED <<vars, request, binding, jobs, retryState>>

(* Route and step of a request with a command on the run.                  *)
Commands(k, step) ==
  \/ request[k].route = step /\ step \in PlanningRoutes
  \/ request[k].route = "reject" /\ step = "reject-run"

(* What a handler knows that carries the task's evidence to the run.       *)
Carries(k, t, a) ==
  /\ k \in Keys /\ request[k] # Nil /\ request[k].route = "approval"
  /\ task[T].state = "ACCEPTED" /\ task[T].approval.ref = a
  /\ a \in Artifacts /\ approvals[k].state = "completed"
  /\ approvals[k].artifact = a /\ binding.approval = a
  /\ Done(k, "apply")
  /\ t.exec.ref = task[T].exec.ref /\ t.verif.ref = task[T].verif.ref
  /\ t.review.ref = task[T].review.ref /\ t.cand = task[T].cand
  /\ t.exec.ref \in Artifacts /\ t.verif.ref \in Artifacts
  /\ t.review.ref \in Artifacts /\ t.cand \in Commits

EvidenceSteps ==
  {"aggregate-execution", "aggregate-verification", "aggregate-review"}

-----------------------------------------------------------------------------
(* The initial states.                                                     *)

(* The one task.                                                           *)
LEMMA TheTask == T \in Tasks /\ \A t \in Tasks : t = T
BY TaskAssumption

(* Every initial state satisfies the invariant.                            *)
LEMMA InitAPIInv == APIInit => APIInv
(* Rows and ledgers,                                                       *)
<1>InitRows.
  ASSUME APIInit
  PROVE  /\ \A k \in Keys : request[k] = Nil /\ answer[k] = Nil
         /\ commands = [i \in {} |-> Nil]
         /\ LedgersFit /\ RetriesFit /\ RequestsFit /\ ApprovalsFit
  <2> USE <1>InitRows
  <2>1. InitAPI /\ commands = [i \in {} |-> Nil]
    BY DEF APIInit
  <2>2. \A k \in Keys : request[k] = Nil /\ answer[k] = Nil
                        /\ retryState[k] = Nil
    BY <2>1 DEF InitAPI
  <2>3. DOMAIN commands = {}
    BY <2>1
  <2>4. LedgersFit
    BY <2>3 DEF LedgersFit
  <2>5. RetriesFit
    BY <2>1, <2>2 DEF InitAPI, RetriesFit
  <2>6. RequestsFit
    <3>1. \A k \in Keys : answer[k] # "ok"
      BY <2>2, NamesAssumption
    <3>2. QED
      BY <2>1, <2>2, <3>1 DEF InitAPI, RequestsFit, ForPlan, ForRun
  <2>7. ApprovalsFit
    <3>1. /\ NoApproval.state = "NONE" /\ NoApproval.artifact = Nil
          /\ NoApproval.digest = Nil
      BY DEF NoApproval
    <3>2. NoApproval \in [state : {"NONE", "reserved", "decision_ready",
                                   "completed"},
                          digest : TaskRow \cup {Nil}, artifact : OptArtifact]
      BY DEF NoApproval, OptArtifact
    <3>3. approvals \in [Keys -> [state : {"NONE", "reserved",
                                           "decision_ready", "completed"},
                                  digest : TaskRow \cup {Nil},
                                  artifact : OptArtifact]]
      BY <2>1, <3>2 DEF InitAPI
    <3>4. \A k \in Keys : approvals[k] = NoApproval
      BY <2>1 DEF InitAPI
    <3>5. \A k \in Keys : ApprovalFits(k)
      BY <3>1, <3>4 DEF ApprovalFits
    <3>6. QED
      BY <3>3, <3>5 DEF ApprovalsFit
  <2>8. QED
    BY <2>1, <2>2, <2>4, <2>5, <2>6, <2>7
(* the handlers,                                                           *)
<1>InitHandlers.
  ASSUME APIInit
  PROVE  HandlersFit /\ OneOwner
  <2> USE <1>InitHandlers
  <2>1. handler = [h \in Handlers |-> Idle]
    BY DEF APIInit, InitAPI
  <2>2. /\ Idle.pc = "idle" /\ Idle.key = Nil /\ Idle.run = Nil
        /\ Idle.task = Nil /\ Idle.artifact = Nil /\ ~Idle.owner
    BY DEF Idle
  <2>3. "idle" \in HandlerPlaces /\ Nil \in OptArtifact
    BY DEF HandlerPlaces, OptArtifact
  <2>4. Idle \in HandlerMemory
    BY <2>3 DEF Idle, HandlerMemory
  <2>5. Fits("idle", Nil, Nil, Nil, Nil)
    BY DEF Fits, Approving, Decided, Applied, Completed, Bound
  <2>6. \A h \in Handlers : handler[h] = Idle
    BY <2>1
  <2>7. \A h \in Handlers : HandlerFits(h)
    BY <2>2, <2>5, <2>6 DEF HandlerFits
  <2>8. QED
    BY <2>1, <2>2, <2>4, <2>6, <2>7 DEF HandlersFit, OneOwner
(* the names of an initial run's documents,                                *)
<1>InitNames.
  /\ Ref("spec") \in Artifacts /\ Ref("graph") \in Artifacts
  /\ Ref("task") \in Artifacts /\ Ref("spec") # Nil /\ Ref("graph") # Nil
  /\ Ref("task") # Nil
  BY NamesAssumption, NilAssumption
(* the run at the start of a behaviour,                                    *)
<1>InitRun.
  ASSUME NEW s \in RunStates, NEW n \in Nat, NEW x \in OptArtifact,
         NEW g \in OptArtifact
  PROVE  /\ [NoRun EXCEPT !.state = s, !.rev = n] \in RunRow
         /\ [NoRun EXCEPT !.state = s, !.rev = n, !.spec = x] \in RunRow
         /\ [NoRun EXCEPT !.state = s, !.rev = n, !.spec = x, !.graph = g]
              \in RunRow
  <2> USE <1>InitRun
  <2>1. PICK r : r = NoRun
    OBVIOUS
  <2>2. NoRun \in RunRow
    BY SMT DEF NoRun, RunRow, OptArtifact, OptCommit
  <2>3. r \in RunRow
    BY <2>1, <2>2
  <2>4. [r EXCEPT !.state = s, !.rev = n] \in RunRow
    BY <2>3 DEF RunRow
  <2>5. [r EXCEPT !.state = s, !.rev = n, !.spec = x] \in RunRow
    BY <2>3 DEF RunRow
  <2>6. [r EXCEPT !.state = s, !.rev = n, !.spec = x, !.graph = g] \in RunRow
    BY <2>3 DEF RunRow
  <2>7. QED
    BY <2>1, <2>4, <2>5, <2>6
(* the bindings,                                                           *)
<1>InitBindings.
  ASSUME NEW x \in OptArtifact, NEW g \in OptArtifact, NEW r \in OptArtifact,
         binding = [spec |-> x, graph |-> g, task |-> r, approval |-> Nil]
  PROVE  /\ binding \in [spec : OptArtifact, graph : OptArtifact,
                         task : OptArtifact, approval : OptArtifact]
         /\ binding.spec = x /\ binding.graph = g /\ binding.task = r
         /\ binding.approval = Nil
  BY <1>InitBindings DEF OptArtifact
(* a run without tasks                                                     *)
<1>InitNoTask.
  ASSUME task = [t \in Tasks |-> NoTask]
  PROVE  TasksFit /\ task[T].state = "NONE" /\ task[T].attempt = 0
  <2> USE <1>InitNoTask
  <2>1. NoTask \in TaskRow
    BY SMTT(20) DEF NoTask, TaskRow, OptBinding, OptCommit
  <2>2. NoTask.state = "NONE" /\ NoTask.rev = 0 /\ NoTask.attempt = 0
        /\ NoTask.max = 0
    BY DEF NoTask
  <2>3. 0 <= 0 /\ 0 <= MaxAttempts
    BY SMTT(20), BoundsAssumption
  <2>4. task[T] = NoTask
    BY TheTask
  <2>5. QED
    BY <2>1, <2>2, <2>3, <2>4 DEF TasksFit, TaskFits
(* and without jobs,                                                       *)
<1>InitNoJobs.
  ASSUME jobs = [n \in Attempts |-> "NONE"], task[T].state = "NONE",
         task[T].attempt = 0
  PROVE  JobsFit /\ jobs[1] = "NONE"
  <2> USE <1>InitNoJobs
  <2>1. \A n \in Attempts : ~(n <= 0)
    BY SMTT(20), BoundsAssumption DEF Attempts
  <2>2. 1 \in Attempts
    BY SMTT(20), BoundsAssumption DEF Attempts
  <2>3. QED
    BY <2>1, <2>2 DEF JobsFit
(* a run before its plan,                                                  *)
<1>InitUnplanned.
  ASSUME NEW s \in {"DRAFT", "TASK_PLANNING"}, NEW n \in Nat,
         NEW x \in OptArtifact, s = "TASK_PLANNING" <=> x # Nil,
         run \in RunRow, run.state = s, run.spec = x,
         task = [t \in Tasks |-> NoTask],
         binding = [spec |-> x, graph |-> Nil, task |-> Nil, approval |-> Nil],
         jobs = [i \in Attempts |-> "NONE"]
  PROVE  TasksFit /\ RunFits /\ MergeFits /\ BindingsFit /\ JobsFit
  <2> USE <1>InitUnplanned
  <2>1. Nil \in OptArtifact
    BY DEF OptArtifact
  <2>2. TasksFit /\ task[T].state = "NONE" /\ task[T].attempt = 0
    BY <1>InitNoTask
  <2>3. JobsFit /\ jobs[1] = "NONE"
    BY <2>2, <1>InitNoJobs
  <2>4. /\ binding \in [spec : OptArtifact, graph : OptArtifact,
                        task : OptArtifact, approval : OptArtifact]
        /\ binding.spec = x /\ binding.graph = Nil /\ binding.task = Nil
        /\ binding.approval = Nil
    BY <2>1, <1>InitBindings
  <2>5. RunFits /\ MergeFits
    BY <2>2 DEF RunFits, MergeFits, RunStates, PlanningStates
  <2>6. BindingsFit
    BY <2>2, <2>3, <2>4 DEF BindingsFit, Specified, Undecided
  <2>7. QED
    BY <2>2, <2>3, <2>5, <2>6
(* and a planned one.                                                      *)
<1>InitPlannedFits.
  ASSUME InitPlanned
  PROVE  TasksFit /\ RunFits /\ MergeFits /\ BindingsFit /\ JobsFit
  <2> USE <1>InitPlannedFits
  <2>1. /\ run = [NoRun EXCEPT !.state = "READY", !.rev = 5,
                               !.spec = Ref("spec"), !.graph = Ref("graph")]
        /\ task = [t \in Tasks |-> [NoTask EXCEPT !.state = "READY", !.rev = 1,
                                                  !.max = MaxAttempts]]
        /\ binding = [spec |-> Ref("spec"), graph |-> Ref("graph"),
                      task |-> Ref("task"), approval |-> Nil]
        /\ jobs = [n \in Attempts |-> IF n = 1 THEN "QUEUED" ELSE "NONE"]
    BY DEF InitPlanned
  <2>2. /\ Ref("spec") \in OptArtifact /\ Ref("graph") \in OptArtifact
        /\ Ref("task") \in OptArtifact /\ "READY" \in RunStates
        /\ Ref("spec") # Nil /\ Ref("graph") # Nil /\ Ref("task") # Nil
    BY <1>InitNames DEF OptArtifact, RunStates
  <2>3. run \in RunRow /\ run.state = "READY" /\ run.spec = Ref("spec")
        /\ run.graph = Ref("graph")
    <3>1. 5 \in Nat
      BY SMT
    <3>2. run \in RunRow
      BY <2>1, <2>2, <3>1, <1>InitRun
    <3>3. QED
      BY <2>1, <3>2 DEF NoRun
  <2>4. /\ binding \in [spec : OptArtifact, graph : OptArtifact,
                        task : OptArtifact, approval : OptArtifact]
        /\ binding.spec = Ref("spec") /\ binding.graph = Ref("graph")
        /\ binding.task = Ref("task") /\ binding.approval = Nil
    BY <2>1, <2>2, <1>InitBindings
  <2>5. PICK r : r = [NoTask EXCEPT !.state = "READY", !.rev = 1,
                                    !.max = MaxAttempts]
    OBVIOUS
  <2>6. r \in TaskRow /\ r.state = "READY" /\ r.attempt = 0
        /\ r.max = MaxAttempts
    <3>1. r.state = "READY" /\ r.attempt = 0 /\ r.max = MaxAttempts
      BY <2>5 DEF NoTask
    <3>2. PICK q : q = NoTask
      OBVIOUS
    <3>3. q \in TaskRow
      <4>1. NoTask \in TaskRow
        BY SMT DEF NoTask, TaskRow, OptBinding, OptCommit
      <4>2. QED
        BY <3>2, <4>1
    <3>4. "READY" \in TaskStates /\ 1 \in Nat /\ MaxAttempts \in Nat
      BY SMTT(20), BoundsAssumption DEF TaskStates
    <3>5. [q EXCEPT !.state = "READY", !.rev = 1, !.max = MaxAttempts]
            \in TaskRow
      BY <3>3, <3>4 DEF TaskRow
    <3>6. QED
      BY <2>5, <3>1, <3>2, <3>5
  <2>7. task \in [Tasks -> TaskRow] /\ task[T] = r
    BY <2>1, <2>5, <2>6, TheTask
  <2>8. 0 <= MaxAttempts /\ MaxAttempts <= MaxAttempts
    BY SMTT(20), BoundsAssumption
  <2>9. TasksFit
    BY <2>6, <2>7, <2>8 DEF TasksFit, TaskFits
  <2>10. RunFits /\ MergeFits
    BY <2>3 DEF RunFits, MergeFits, RunStates, PlanningStates
  <2>11. 1 \in Attempts /\ \A n \in Attempts : ~(n <= 0)
    BY SMTT(20), BoundsAssumption DEF Attempts
  <2>12. jobs[1] = "QUEUED" /\ \A n \in Attempts : jobs[n] = "QUEUED" => n = 1
    BY <2>1, <2>11
  <2>13. jobs \in [Attempts -> {"NONE", "QUEUED", "DONE"}]
    BY <2>1
  <2>14. JobsFit
    <3>1. \A n \in Attempts : jobs[n] = "QUEUED" => n = 0 + 1
      BY SMTT(20), <2>12
    <3>2. QED
      BY <2>6, <2>7, <2>11, <2>13, <3>1 DEF JobsFit
  <2>15. BindingsFit
    BY <2>2, <2>3, <2>4, <2>6, <2>7, <2>12 DEF BindingsFit, Specified,
       Undecided
  <2>16. QED
    BY <2>9, <2>10, <2>14, <2>15
<1> SUFFICES ASSUME APIInit PROVE APIInv
  OBVIOUS
<1>1. LedgersFit /\ RetriesFit /\ RequestsFit /\ ApprovalsFit
  BY <1>InitRows
<1>2. HandlersFit /\ OneOwner
  BY <1>InitHandlers
<1>3. /\ 1 \in Nat /\ 3 \in Nat /\ Nil \in OptArtifact
      /\ "DRAFT" \in RunStates /\ "TASK_PLANNING" \in RunStates
  BY SMT DEF OptArtifact, RunStates
<1>4. ASSUME InitDraft
      PROVE  TasksFit /\ RunFits /\ MergeFits /\ BindingsFit /\ JobsFit
  <2>1. run = [NoRun EXCEPT !.state = "DRAFT", !.rev = 1]
    BY <1>4 DEF InitDraft
  <2>2. run \in RunRow
    BY <1>3, <2>1, <1>InitRun
  <2>3. run.state = "DRAFT" /\ run.spec = Nil
    BY <2>1 DEF NoRun
  <2>4. QED
    BY <1>3, <1>4, <2>2, <2>3, <1>InitUnplanned DEF InitDraft
<1>5. ASSUME InitSpecified
      PROVE  TasksFit /\ RunFits /\ MergeFits /\ BindingsFit /\ JobsFit
  <2>1. PICK x : x = Ref("spec")
    OBVIOUS
  <2>2. x \in OptArtifact /\ x # Nil
    BY <2>1, <1>InitNames DEF OptArtifact
  <2>3. run = [NoRun EXCEPT !.state = "TASK_PLANNING", !.rev = 3, !.spec = x]
    BY <1>5, <2>1 DEF InitSpecified
  <2>4. run \in RunRow
    BY <1>3, <2>2, <2>3, <1>InitRun
  <2>5. run.state = "TASK_PLANNING" /\ run.spec = x
    BY <2>3 DEF NoRun
  <2>6. QED
    BY <1>3, <1>5, <2>1, <2>2, <2>4, <2>5, <1>InitUnplanned DEF InitSpecified
<1>6. TasksFit /\ RunFits /\ MergeFits /\ BindingsFit /\ JobsFit
  BY <1>4, <1>5, <1>InitPlannedFits DEF APIInit
<1>7. QED
  BY <1>1, <1>2, <1>6 DEF APIInv

-----------------------------------------------------------------------------
(* What the invariant says of handlers, requests and decisions.            *)

(* A handler that is at work serves a request.                             *)
LEMMA AtWork ==
  ASSUME APIInv, NEW h \in Handlers, handler[h].pc # "idle"
  PROVE  /\ keyOf(h) \in Keys /\ request[keyOf(h)] # Nil
         /\ RouteFits(handler[h].pc, req(h).route)
BY DEF APIInv, HandlersFit, HandlerFits, Fits, keyOf, req

(* The owner of a reservation has it alone.                                *)
LEMMA OwnsAlone ==
  ASSUME APIInv, NEW h \in Handlers, NEW k, handler[h].pc = "decide",
         handler[h].key = k
  PROVE  /\ k \in Keys /\ handler[h].owner
         /\ approvals[k].state = "reserved"
         /\ \A g \in Handlers :
              g # h /\ handler[g].pc = "decide" => handler[g].key # k
<1>1. \A g \in Handlers : handler[g].pc = "decide" => handler[g].owner
  BY DEF APIInv, HandlersFit, HandlerFits
<1>2. k \in Keys /\ approvals[k].state = "reserved"
  BY DEF APIInv, HandlersFit, HandlerFits, Fits
<1>3. QED
  BY <1>1, <1>2 DEF APIInv, OneOwner, keyOf

(* What a handler knows where it is.                                       *)
LEMMA Knows ==
  ASSUME APIInv, NEW h \in Handlers, NEW k, NEW x, NEW t, NEW a,
         Holds(h, k, x, t, a)
  PROVE  Fits(handler[h].pc, k, x, t, a)
BY DEF APIInv, HandlersFit, HandlerFits, Holds

(* A decided approval has its artifact.                                    *)
LEMMA DecidedArtifact ==
  ASSUME APIInv, NEW k \in Keys, approvals[k].state \in Decision
  PROVE  /\ approvals[k].artifact \in Artifacts /\ approvals[k].artifact # Nil
         /\ approvals[k].artifact = RefOf("approval", k)
<1>1. approvals[k].artifact = RefOf("approval", k)
  BY DEF APIInv, ApprovalsFit, ApprovalFits, Decision
<1>2. RefOf("approval", k) \in Artifacts
  BY NamesAssumption DEF RefOf
<1>3. QED
  BY <1>1, <1>2, NilAssumption

(* The invariant implies APITypeOK.                                        *)
LEMMA InvTypeOK ==
  ASSUME APIInv
  PROVE  APITypeOK
<1>1. run \in RunRow /\ task \in [Tasks -> TaskRow]
  BY DEF APIInv, RunFits, TasksFit
<1>2. answer \in [Keys -> {Nil, "ok", "refused"}]
  BY DEF APIInv, RequestsFit
<1>3. \A c \in DOMAIN binding : binding[c] \in OptArtifact
  <2>1. binding \in [spec : OptArtifact, graph : OptArtifact,
                     task : OptArtifact, approval : OptArtifact]
    BY DEF APIInv, BindingsFit
  <2>2. QED
    BY SMTT(20), <2>1
<1>4. jobs \in [Attempts -> {"NONE", "QUEUED", "DONE"}]
  BY DEF APIInv, JobsFit
<1>5. ASSUME NEW n \in Attempts, jobs[n] = "QUEUED", task[T].state = "READY",
             run.state # "READY"
      PROVE  n = nextFence(T) /\ validateTaskRunGate
  <2>1. n = task[T].attempt + 1
    BY <1>5 DEF APIInv, JobsFit
  <2>2. run.state = "EXECUTING"
    BY <1>5 DEF APIInv, RunFits, RunStates, PlanningStates
  <2>3. QED
    BY <2>1, <2>2 DEF nextFence, validateTaskRunGate
<1>6. ASSUME NEW k \in Keys
      PROVE  approvals[k].artifact # Nil <=>
               approvals[k].state \in {"decision_ready", "completed"}
  <2>1. ApprovalFits(k)
    BY <1>6 DEF APIInv, ApprovalsFit
  <2>2. approvals[k].state \in {"NONE", "reserved"} =>
          approvals[k].artifact = Nil
    BY <2>1 DEF ApprovalFits
  <2>3. approvals[k].state \in {"decision_ready", "completed"} =>
          approvals[k].artifact # Nil
    BY <1>6, DecidedArtifact DEF Decision
  <2>4. approvals[k].state \in {"NONE", "reserved"} \cup
          {"decision_ready", "completed"}
    BY <2>1 DEF ApprovalFits
  <2>5. QED
    BY <2>2, <2>3, <2>4
<1>7. OneOwner
  BY DEF APIInv
<1>8. QED
  BY <1>1, <1>2, <1>3, <1>4, <1>5, <1>6, <1>7 DEF APITypeOK, OneOwner

(* Two requests that were served on one revision are one.                  *)
LEMMA ServedApart ==
  ASSUME APIInv, NEW k \in Keys, NEW l \in Keys, request[k] # Nil,
         request[l] # Nil, request[k].route # "retry",
         request[l].route # "retry", Served(k), Served(l),
         request[k].rev = request[l].rev
  PROVE  k = l
<1>1. \A i, j \in DOMAIN commands : LedgerFits(i) /\ Apart(i, j)
  BY DEF APIInv, LedgersFit
<1>2. \A c : <<k, c>>[2] = c /\ <<l, c>>[2] = c /\ <<k, c>>[1] = k
             /\ <<l, c>>[1] = l
  BY SMT
<1>3. \A i \in Keys : Served(i) /\ request[i].route \notin {"retry",
"approval"}
        => /\ StepOf(request[i].route) \in RunSteps
           /\ <<i, StepOf(request[i].route)>> \in DOMAIN commands
           /\ commands[<<i, StepOf(request[i].route)>>].digest[2].rev
                = request[i].rev
           /\ \/ request[i].route \in PlanningRoutes
              \/ request[i].route = "reject"
  <2> TAKE i \in Keys
  <2> HAVE Served(i) /\ request[i].route \notin {"retry", "approval"}
  <2>1. PICK r : r = request[i].route
    OBVIOUS
  <2>2. /\ r \in PlanningRoutes \cup {"reject", "cancel"}
        /\ <<i, StepOf(r)>> \in DOMAIN commands
        /\ commands[<<i, StepOf(r)>>].digest[2].rev = request[i].rev
    BY <2>1 DEF Served, Done
  <2>3. <<i, "cancel-run">>[2] = "cancel-run"
    BY SMTT(20)
  <2>4. r # "cancel"
    BY <1>1, <2>2, <2>3 DEF StepOf, LedgerFits
  <2>5. StepOf(r) \in RunSteps
    BY <2>2, <2>4 DEF StepOf, RunSteps
  <2>6. QED
    BY <2>1, <2>2, <2>4, <2>5
<1>4. \A i, j \in Keys : request[i].route = "approval" /\ Served(i)
        /\ Served(j) /\ request[i] # Nil /\ request[j] # Nil
        /\ request[j].route \notin {"retry", "approval"}
        => request[i].rev # request[j].rev
  <2> TAKE i \in Keys, j \in Keys
  <2> HAVE request[i].route = "approval" /\ Served(i)
           /\ Served(j) /\ request[i] # Nil /\ request[j] # Nil
           /\ request[j].route \notin {"retry", "approval"}
  <2>1. CASE request[j].route \in PlanningRoutes
    <3>1. ForPlan(j) /\ ForRun(i)
      BY <2>1 DEF ForPlan, ForRun, PlanningRoutes, PlanRejections
    <3>2. request[j].rev < request[i].rev /\ request[i].rev \in Nat
      BY <3>1 DEF APIInv, RequestsFit
    <3>3. QED
      BY SMTT(20), <3>2
  <2>2. CASE request[j].route = "reject"
    <3>1. <<i, "approve-run">> \in DOMAIN commands
          /\ <<j, "reject-run">> \in DOMAIN commands
      BY <1>3, <2>2 DEF Served, Done, StepOf
    <3>2. /\ <<i, "approve-run">>[2] = "approve-run"
          /\ <<j, "reject-run">>[2] = "reject-run"
      BY SMT
    <3>3. run.state = "MERGE_READY" /\ run.state = "REJECTED"
      BY <1>1, <3>1, <3>2 DEF LedgerFits
    <3>4. QED
      BY <3>3
  <2>3. QED
    BY <1>3, <2>1, <2>2
<1>5. CASE request[k].route = "approval" /\ request[l].route = "approval"
  <2>1. /\ <<k, "apply">> \in DOMAIN commands
        /\ <<l, "apply">> \in DOMAIN commands
    BY <1>5 DEF Served, Done
  <2>2. Apart(<<k, "apply">>, <<l, "apply">>)
    BY <1>1, <2>1
  <2>3. <<k, "apply">> = <<l, "apply">>
    BY <1>2, <2>2 DEF Apart
  <2>4. QED
    BY <1>2, <2>3
<1>6. CASE request[k].route # "approval" /\ request[l].route # "approval"
  <2>1. PICK i : i = <<k, StepOf(request[k].route)>>
    OBVIOUS
  <2>2. PICK j : j = <<l, StepOf(request[l].route)>>
    OBVIOUS
  <2>3. /\ i \in DOMAIN commands /\ j \in DOMAIN commands
        /\ commands[i].digest[2].rev = commands[j].digest[2].rev
        /\ i[2] \in RunSteps /\ j[2] \in RunSteps
        /\ i[1] = k /\ j[1] = l
    BY <1>2, <1>3, <1>6, <2>1, <2>2
  <2>4. i = j
    BY <1>1, <2>3 DEF Apart
  <2>5. QED
    BY <2>3, <2>4
<1>7. QED
  BY <1>4, <1>5, <1>6

(* No approval is decided at first.                                        *)
LEMMA DecisionsInit == APIInit => Decisions!Init
<1> SUFFICES ASSUME APIInit PROVE Decisions!Init
  OBVIOUS
<1>1. approvals = [k \in Keys |-> NoApproval] /\ granted = {}
  BY DEF APIInit, InitAPI
<1>2. NoApproval.artifact = Nil
  BY DEF NoApproval
<1>3. [k \in Keys |-> approvals[k].artifact] = [k \in Keys |-> Nil]
  BY <1>1, <1>2
<1>4. QED
  BY <1>1, <1>3 DEF Decisions!Init

(* Every step is one of the write-once register, or leaves it alone.       *)
LEMMA DecisionsStep ==
  APIInv /\ [APINext]_allVars => [Decisions!Next]_(Decisions!vars)
(* Nothing happens to the register while the artifacts stay.               *)
<1>DecisionsStay.
  ASSUME \A k \in Keys : approvals'[k].artifact = approvals[k].artifact,
         granted' = granted
  PROVE  UNCHANGED Decisions!vars
  <2> USE <1>DecisionsStay
  <2>1. [k \in Keys |-> approvals'[k].artifact]
          = [k \in Keys |-> approvals[k].artifact]
    OBVIOUS
  <2>2. QED
    BY <2>1 DEF Decisions!vars
(* One row is written: it keeps its artifact, or gets its first one.       *)
<1>DecisionsRow.
  ASSUME APIInv, NEW k \in Keys, NEW r,
         approvals' = [approvals EXCEPT ![k] = r], granted' = granted,
         \/ r.artifact = approvals[k].artifact
         \/ approvals[k].artifact = Nil /\ r.artifact = RefOf("approval", k)
  PROVE  Decisions!Next \/ UNCHANGED Decisions!vars
  <2> USE <1>DecisionsRow
  <2>1. DOMAIN approvals = Keys
    BY DEF APIInv, ApprovalsFit
  <2>2. /\ approvals'[k] = r
        /\ \A l \in Keys : l # k => approvals'[l] = approvals[l]
    BY <2>1
  <2>3. CASE r.artifact = approvals[k].artifact
    BY <2>2, <2>3, <1>DecisionsStay
  <2>4. CASE approvals[k].artifact = Nil /\ r.artifact = RefOf("approval", k)
    <3>1. [l \in Keys |-> approvals'[l].artifact] =
            [[l \in Keys |-> approvals[l].artifact] EXCEPT ![k] = r.artifact]
      <4>1. approvals'[k].artifact = r.artifact
        BY <2>2
      <4>2. \A l \in Keys :
              l # k => approvals'[l].artifact = approvals[l].artifact
        BY <2>2
      <4>3. \A l \in Keys : approvals'[l].artifact =
              IF l = k THEN r.artifact ELSE approvals[l].artifact
        BY <4>1, <4>2
      <4>4. QED
        BY <4>3
    <3>2. Decisions!Record(k, r.artifact)
      BY <2>4, <3>1 DEF Decisions!Record
    <3>3. QED
      BY <2>4, <3>2 DEF Decisions!Next
  <2>5. QED
    BY <2>3, <2>4
(* The decision of a row that is only reserved is open.                    *)
<1>NoArtifact.
  ASSUME APIInv, NEW k \in Keys, approvals[k].state \in {"NONE", "reserved"}
  PROVE  approvals[k].artifact = Nil
  BY <1>NoArtifact DEF APIInv, ApprovalsFit, ApprovalFits
(* A reservation decides nothing.                                          *)
<1>BeginStep.
  ASSUME APIInv, NEW h \in Handlers, ApprovalBegin(h)
  PROVE  Decisions!Next \/ UNCHANGED Decisions!vars
  <2> USE <1>BeginStep
  <2>1. handler[h].pc = "begin" /\ granted' = granted
    BY DEF ApprovalBegin
  <2>2. PICK k \in Keys : k = keyOf(h)
    BY <2>1, AtWork
  <2>3. CASE approvals' = approvals
    BY <2>1, <2>3, <1>DecisionsStay
  <2>4. CASE /\ row(h).state = "NONE"
             /\ approvals' = [approvals EXCEPT ![keyOf(h)] =
                  [NoApproval EXCEPT !.state = "reserved",
                                     !.digest = approvalRequestDigest(h)]]
    <3>1. PICK r : r = [NoApproval EXCEPT !.state = "reserved",
                                          !.digest = approvalRequestDigest(h)]
      OBVIOUS
    <3>2. r.artifact = Nil
      BY <3>1 DEF NoApproval
    <3>3. approvals[k].artifact = Nil
      BY <2>2, <2>4, <1>NoArtifact DEF row
    <3>4. approvals' = [approvals EXCEPT ![k] = r]
      BY <2>2, <2>4, <3>1
    <3>5. QED
      BY <2>1, <3>2, <3>3, <3>4, <1>DecisionsRow
  <2>5. QED
    BY <2>3, <2>4 DEF ApprovalBegin
(* A reservation that is rolled back had decided nothing.                  *)
<1>RollbackStep.
  ASSUME APIInv, NEW h \in Handlers, handler[h].pc = "decide",
         approvals' = [approvals EXCEPT ![keyOf(h)] = NoApproval],
         granted' = granted
  PROVE  Decisions!Next \/ UNCHANGED Decisions!vars
  <2> USE <1>RollbackStep
  <2>1. PICK k : k = keyOf(h)
    OBVIOUS
  <2>2. k \in Keys /\ approvals[k].state = "reserved"
    BY <2>1, OwnsAlone DEF keyOf
  <2>3. approvals[k].artifact = Nil
    BY <2>2, <1>NoArtifact
  <2>4. NoApproval.artifact = Nil
    BY DEF NoApproval
  <2>5. QED
    BY <2>1, <2>2, <2>3, <2>4, <1>DecisionsRow
(* Saving the decision records it, once.                                   *)
<1>SaveStep.
  ASSUME APIInv, NEW h \in Handlers, SaveDecision(h)
  PROVE  Decisions!Next \/ UNCHANGED Decisions!vars
  <2> USE <1>SaveStep
  <2>1. handler[h].pc = "decide" /\ granted' = granted
    BY DEF SaveDecision
  <2>2. PICK k : k = keyOf(h)
    OBVIOUS
  <2>3. k \in Keys /\ approvals[k].state = "reserved"
    BY <2>1, <2>2, OwnsAlone DEF keyOf
  <2>4. CASE approvals' = [approvals EXCEPT
               ![keyOf(h)].state = "decision_ready",
               ![keyOf(h)].artifact = RefOf("approval", keyOf(h))]
    <3>1. PICK r : r = [approvals[k] EXCEPT !.state = "decision_ready",
                                            !.artifact = RefOf("approval", k)]
      OBVIOUS
    <3>2. approvals[k] \in [state : {"NONE", "reserved", "decision_ready",
                                     "completed"},
                            digest : TaskRow \cup {Nil},
                            artifact : OptArtifact]
      BY <2>3 DEF APIInv, ApprovalsFit
    <3>3. r.artifact = RefOf("approval", k)
      BY <3>1, <3>2
    <3>4. approvals' = [approvals EXCEPT ![k] = r]
      <4>1. approvals' = [approvals EXCEPT
              ![k].state = "decision_ready",
              ![k].artifact = RefOf("approval", k)]
        BY <2>2, <2>4
      <4>2. approvals' = [approvals EXCEPT
              ![k] = [approvals[k] EXCEPT !.state = "decision_ready",
                                          !.artifact = RefOf("approval", k)]]
        BY <2>3, <4>1 DEF APIInv, ApprovalsFit
      <4>3. QED
        BY <3>1, <4>2
    <3>5. QED
      BY <2>1, <2>3, <3>3, <3>4, <1>NoArtifact, <1>DecisionsRow
  <2>5. CASE approvals' = [approvals EXCEPT ![keyOf(h)] = NoApproval]
    BY <2>1, <2>5, <1>RollbackStep
  <2>6. QED
    BY <2>4, <2>5 DEF SaveDecision
(* Completing an approval keeps its artifact.                              *)
<1>CompleteStep.
  ASSUME APIInv, NEW h \in Handlers, CompleteApproval(h)
  PROVE  Decisions!Next \/ UNCHANGED Decisions!vars
  <2> USE <1>CompleteStep
  <2>1. handler[h].pc = "complete-approval" /\ granted' = granted
    BY DEF CompleteApproval
  <2>2. PICK k \in Keys : k = keyOf(h)
    BY <2>1, AtWork
  <2>3. PICK r : r = [approvals[k] EXCEPT !.state = "completed"]
    OBVIOUS
  <2>4. approvals' = [approvals EXCEPT ![k] = r]
    <3>1. approvals' = [approvals EXCEPT ![k].state = "completed"]
      BY <2>2 DEF CompleteApproval
    <3>2. approvals' = [approvals EXCEPT
            ![k] = [approvals[k] EXCEPT !.state = "completed"]]
      BY <3>1
    <3>3. QED
      BY <2>3, <3>2
  <2>5. approvals[k] \in [state : {"NONE", "reserved", "decision_ready",
                                   "completed"},
                          digest : TaskRow \cup {Nil}, artifact : OptArtifact]
    BY <2>2 DEF APIInv, ApprovalsFit
  <2>6. r.artifact = approvals[k].artifact
    BY <2>3, <2>5
  <2>7. QED
    BY <2>1, <2>4, <2>6, <1>DecisionsRow
(* Whoever is granted an approval is granted the one that is recorded.     *)
<1>CheckpointStep.
  ASSUME APIInv, NEW h \in Handlers, NEW k, NEW x, NEW t, NEW a,
         Holds(h, k, x, t, a), CheckpointApproval(h)
  PROVE  Decisions!Next
  <2> USE <1>CheckpointStep
  <2>1. /\ handler[h].pc = "checkpoint-approval" /\ approvals' = approvals
        /\ granted' = granted \cup {<<k, a>>}
    BY DEF CheckpointApproval, Holds, keyOf
  <2>2. Fits("checkpoint-approval", k, x, t, a)
    BY <2>1, Knows
  <2>3. k \in Keys /\ approvals[k].artifact = a /\ a # Nil
    BY <2>2 DEF Fits, Decided, Applied, Completed
  <2>4. [l \in Keys |-> approvals'[l].artifact]
          = [l \in Keys |-> approvals[l].artifact]
    BY <2>1
  <2>5. [l \in Keys |-> approvals[l].artifact][k] = a
    BY <2>3
  <2>6. Decisions!Return(k)
    BY <2>1, <2>3, <2>4, <2>5 DEF Decisions!Return
  <2>7. QED
    BY <2>3, <2>6 DEF Decisions!Next
(* A server error takes back no decision.                                  *)
<1>ServerErrorStep.
  ASSUME APIInv, NEW h \in Handlers, ServerError(h)
  PROVE  Decisions!Next \/ UNCHANGED Decisions!vars
  <2> USE <1>ServerErrorStep
  <2>1. granted' = granted
    BY DEF ServerError
  <2>2. CASE handler[h].owner
    <3>1. handler[h].pc = "decide"
      BY <2>2 DEF APIInv, HandlersFit, HandlerFits
    <3>2. approvals' = [approvals EXCEPT ![keyOf(h)] = NoApproval]
      BY <2>2 DEF ServerError
    <3>3. QED
      BY <2>1, <3>1, <3>2, <1>RollbackStep
  <2>3. CASE ~handler[h].owner
    <3>1. approvals' = approvals
      BY <2>3 DEF ServerError
    <3>2. QED
      BY <2>1, <3>1, <1>DecisionsStay
  <2>4. QED
    BY <2>2, <2>3
(* The other steps leave the approval ledger alone.                        *)
<1>LedgerAlone.
  ASSUME NEW h
  PROVE  /\ Serve(h) \/ Apply(h) \/ RunCommand(h)
            \/ CheckpointSpecification(h) => UNCHANGED <<approvals, granted>>
         /\ ApproveTaskGraphRoute(h) \/ RetryTaskRoute(h) \/ RetryRead(h)
            \/ EnqueueRetry(h) \/ Respond(h)
              => UNCHANGED <<approvals, granted>>
         /\ ReadEvidence(h) \/ PollTimeout(h) \/ ApplyDecision(h)
            \/ ReadRun(h) \/ Aggregate(h) \/ Crash(h) \/ ListTasksFails(h)
              => UNCHANGED <<approvals, granted>>
  <2> USE <1>LedgerAlone
  <2>1. Serve(h) \/ Apply(h) \/ RunCommand(h) \/ CheckpointSpecification(h)
          => UNCHANGED <<approvals, granted>>
    BY DEF Serve, Apply, RunCommand, CheckpointSpecification
  <2>2. ApproveTaskGraphRoute(h) \/ RetryTaskRoute(h) \/ RetryRead(h)
          \/ EnqueueRetry(h) \/ Respond(h) => UNCHANGED <<approvals, granted>>
    BY DEF ApproveTaskGraphRoute, RetryTaskRoute, RetryRead, EnqueueRetry,
           Respond
  <2>3. ReadEvidence(h) \/ PollTimeout(h) \/ ApplyDecision(h)
          \/ ReadRun(h) \/ Aggregate(h) \/ Crash(h) \/ ListTasksFails(h)
          => UNCHANGED <<approvals, granted>>
    BY DEF ReadEvidence, PollTimeout, ApplyDecision, ReadRun, Aggregate, Crash,
           ListTasksFails
  <2>4. QED
    BY <2>1, <2>2, <2>3
(* Nor do clients and stages write it.                                     *)
<1>StagesAlone.
  (\E k \in Keys : Send(k)) \/ Stages \/ UNCHANGED allVars
    => UNCHANGED <<approvals, granted>>
  <2>1. (\E k \in Keys : Send(k)) => UNCHANGED <<approvals, granted>>
    BY DEF Send
  <2>2. Stages => UNCHANGED <<approvals, granted>>
    BY DEF Stages, StartRunStage, LeaseStage, StartStageDone, LaterStages,
           apiVars
  <2>3. UNCHANGED allVars => UNCHANGED <<approvals, granted>>
    BY DEF allVars, apiVars
  <2>4. QED
    BY <2>1, <2>2, <2>3
<1> SUFFICES ASSUME APIInv, [APINext]_allVars
             PROVE  Decisions!Next \/ UNCHANGED Decisions!vars
  OBVIOUS
<1>1. CASE UNCHANGED <<approvals, granted>>
  BY <1>1, <1>DecisionsStay
<1>2. ASSUME NEW h \in Handlers, HandlerStep(h)
      PROVE  Decisions!Next \/ UNCHANGED Decisions!vars
  <2>1. PICK k, x, t, a : Holds(h, k, x, t, a)
    BY DEF Holds
  <2>2. ApprovalStep(h) => Decisions!Next \/ UNCHANGED Decisions!vars
    BY <1>1, <1>2, <2>1, <1>LedgerAlone, <1>BeginStep, <1>SaveStep,
       <1>CompleteStep,
       <1>CheckpointStep DEF ApprovalStep
  <2>3. QED
    BY <1>1, <1>2, <2>2, <1>LedgerAlone DEF HandlerStep
<1>3. ASSUME NEW h \in Handlers,
             Serve(h) \/ ListTasksFails(h) \/ Crash(h) \/ ServerError(h)
      PROVE  Decisions!Next \/ UNCHANGED Decisions!vars
  BY <1>1, <1>3, <1>LedgerAlone, <1>ServerErrorStep
<1>4. QED
  BY <1>1, <1>2, <1>3, <1>StagesAlone DEF APINext

-----------------------------------------------------------------------------
(* Commands of the run.                                                    *)

(* An update of the run's state keeps the type of its row.                 *)
LEMMA RunRowUpdate ==
  ASSUME NEW r \in RunRow, NEW s \in RunStates
  PROVE  /\ [r EXCEPT !.state = s] \in RunRow
         /\ [r EXCEPT !.state = s].state = s
         /\ [r EXCEPT !.state = s].rev = r.rev
         /\ [r EXCEPT !.state = s].spec = r.spec
         /\ [r EXCEPT !.state = s].graph = r.graph
BY DEF RunRow

(* Updates of the run's row that bind one artifact keep its type.          *)
LEMMA RunRowBinding ==
  ASSUME NEW r \in RunRow, NEW s \in RunStates, NEW x \in Artifacts
  PROVE  /\ [r EXCEPT !.state = s, !.spec = x] \in RunRow
         /\ [r EXCEPT !.state = s, !.graph = x] \in RunRow
         /\ [r EXCEPT !.state = s, !.verif = x] \in RunRow
         /\ [r EXCEPT !.state = s, !.review = x] \in RunRow
         /\ [r EXCEPT !.state = s, !.approval = x] \in RunRow
         /\ [r EXCEPT !.state = s, !.merge = x] \in RunRow
         /\ [r EXCEPT !.pub = x] \in RunRow
<1>1. [r EXCEPT !.state = s, !.spec = x] \in RunRow
  BY DEF RunRow, OptArtifact
<1>2. [r EXCEPT !.state = s, !.graph = x] \in RunRow
  BY DEF RunRow, OptArtifact
<1>3. [r EXCEPT !.state = s, !.verif = x] \in RunRow
  BY DEF RunRow, OptArtifact
<1>4. [r EXCEPT !.state = s, !.review = x] \in RunRow
  BY DEF RunRow, OptArtifact
<1>5. [r EXCEPT !.state = s, !.approval = x] \in RunRow
  BY DEF RunRow, OptArtifact
<1>6. [r EXCEPT !.state = s, !.merge = x] \in RunRow
  BY DEF RunRow, OptArtifact
<1>7. [r EXCEPT !.pub = x] \in RunRow
  BY DEF RunRow, OptArtifact
<1>8. QED
  BY <1>1, <1>2, <1>3, <1>4, <1>5, <1>6, <1>7

(* A command that is new is recorded with its digest.                      *)
LEMMA RanIntro ==
  ASSUME NEW m, NEW digest, NEW a, NEW n, m.id \in CommandIDs \cup {Fresh},
         loadCommandResult(m, digest) = "new",
         commands' = recordCommandResult(m, digest, a, n)
  PROVE  Ran(m, digest, a)
<1>1. m.id \notin DOMAIN commands
  BY DEF loadCommandResult
<1>2. CASE m.id = Fresh
  BY <1>1, <1>2, FreshAssumption DEF Ran, recordCommandResult
<1>3. CASE m.id # Fresh
  BY <1>1, <1>3 DEF Ran, recordCommandResult
<1>4. QED
  BY <1>2, <1>3

(* The row that a command computes which binds nothing.                    *)
LEMMA NextState ==
  ASSUME run \in RunRow, NEW s \in RunStates
  PROVE  NextRow([run EXCEPT !.state = s], s, run.spec, run.graph, run.exec,
                 run.cand, run.verif, run.review, run.approval)
BY RunRowUpdate DEF NextRow, RunRow

(* A run command records itself and its row.                               *)
LEMMA RunTurns ==
  ASSUME run \in RunRow, NEW m, m.id \in CommandIDs \cup {Fresh}, NEW digest,
         NEW next, persistRunTransition(m, digest, next),
         NEW s, NEW spec, NEW graph, NEW exec, NEW cand, NEW verif,
         NEW review, NEW approval,
         NextRow(next, s, spec, graph, exec, cand, verif, review, approval)
  PROVE  /\ Ran(m, digest, RunID)
         /\ Turns(s, spec, graph, exec, cand, verif, review, approval)
<1>1. Ran(m, digest, RunID)
  BY RanIntro DEF persistRunTransition
<1>2. run' = [next EXCEPT !.rev = next.rev + 1] /\ task' = task
  BY DEF persistRunTransition, finishRunTransition
<1>3. next.rev = run.rev /\ next.rev + 1 \in Nat /\ next \in RunRow
  BY SMT DEF NextRow, RunRow
<1> DEFINE n == next.rev + 1
<1>4. n \in Nat /\ run' = [next EXCEPT !.rev = n] /\ n = run.rev + 1
  BY <1>2, <1>3
<1> HIDE DEF n
<1>5. run' \in RunRow
  BY <1>3, <1>4 DEF RunRow
<1>6. /\ run'.rev = n /\ run'.state = next.state /\ run'.spec = next.spec
      /\ run'.graph = next.graph /\ run'.exec = next.exec
      /\ run'.cand = next.cand /\ run'.verif = next.verif
      /\ run'.review = next.review /\ run'.approval = next.approval
  BY <1>3, <1>4 DEF RunRow
<1>7. QED
  BY <1>1, <1>2, <1>4, <1>5, <1>6 DEF Turns, NextRow

-----------------------------------------------------------------------------
(* Commands of the task.                                                   *)

(* A task command records itself and its row.                              *)
LEMMA TaskWrites ==
  ASSUME TasksFit, NEW m, m.id \in CommandIDs \cup {Fresh}, NEW digest,
         NEW next, persistTaskTransition(m, digest, T, next),
         NEW s, NEW n, NEW exec, NEW cand, NEW verif, NEW review,
         NEW approval,
         NextTask(next, s, n, exec, cand, verif, review, approval)
  PROVE  /\ Ran(m, digest, T)
         /\ TaskTurns(s, n, exec, cand, verif, review, approval)
<1>1. Ran(m, digest, T) /\ run' = run
  BY RanIntro DEF persistTaskTransition
<1>2. /\ DOMAIN task' = Tasks /\ task' = [u \in Tasks |-> task'[u]]
      /\ task'[T] = [next EXCEPT !.rev = next.rev + 1]
  BY TheTask DEF persistTaskTransition, finishTaskTransition
<1>3. /\ next.rev = task[T].rev /\ next.rev + 1 \in Nat /\ next \in TaskRow
  BY SMT DEF NextTask, TaskRow
<1> DEFINE i == next.rev + 1
<1>4. i \in Nat /\ task'[T] = [next EXCEPT !.rev = i] /\ i = task[T].rev + 1
  BY <1>2, <1>3
<1> HIDE DEF i
<1>5. task'[T] \in TaskRow
  BY <1>3, <1>4 DEF TaskRow
<1>6. /\ task'[T].rev = i /\ task'[T].state = next.state
      /\ task'[T].max = next.max /\ task'[T].attempt = next.attempt
      /\ task'[T].exec = next.exec /\ task'[T].cand = next.cand
      /\ task'[T].verif = next.verif /\ task'[T].review = next.review
      /\ task'[T].approval = next.approval
  BY <1>3, <1>4 DEF TaskRow
<1>7. task' \in [Tasks -> TaskRow]
  BY <1>2, <1>5, TheTask
<1>8. QED
  BY <1>1, <1>4, <1>6, <1>7 DEF TaskTurns, NextTask

(* What is bound to the task is a binding.                                 *)
LEMMA BoundBinding ==
  ASSUME TasksFit, NEW x \in Artifacts, NEW c \in OptCommit,
         NEW passed \in BOOLEAN
  PROVE  /\ bound(T, x, c, passed) \in Binding
         /\ bound(T, x, c, passed) # Nil
         /\ passed => bound(T, x, c, passed).passed
         /\ bound(T, x, c, passed).ref = x
<1>1. task[T].attempt \in Nat
  BY DEF TasksFit, TaskFits, TaskRow
<1>2. /\ bound(T, x, c, passed) \in Binding
      /\ bound(T, x, c, passed).ref = x
  BY <1>1 DEF bound, Binding, OptCommit
<1>3. passed => bound(T, x, c, passed).passed
  BY DEF bound
<1>4. QED
  BY <1>2, <1>3, BindingAssumption

(* A row with its verdicts fits.                                           *)
LEMMA TaskAfter ==
  ASSUME TasksFit, NEW s, NEW n, NEW exec, NEW cand, NEW verif, NEW review,
         NEW approval,
         TaskTurns(s, n, exec, cand, verif, review, approval),
         n <= task[T].max, s # "NONE",
         s \in {"REVIEWING", "AWAITING_APPROVAL", "ACCEPTED"} =>
           verif # Nil /\ verif.passed,
         s \in {"AWAITING_APPROVAL", "ACCEPTED"} =>
           review # Nil /\ review.passed
  PROVE  TasksFit'
<1>1. task'[T] \in TaskRow
  BY TheTask DEF TaskTurns
<1>2. task'[T].attempt <= task'[T].max /\ task'[T].max <= MaxAttempts
  BY DEF TaskTurns, TasksFit, TaskFits
<1>3. QED
  BY <1>1, <1>2 DEF TaskTurns, TasksFit, TaskFits

-----------------------------------------------------------------------------
(* What is known stays known as the rows grow.                             *)

(* What a handler knows of the run and the task stays true as they         *)
(* advance: the approved specification,                                    *)
LEMMA SpecifiedKept ==
  ASSUME NEW x, Specified(x), Advances
  PROVE  Specified(x)'
BY DEF Specified, Advances

(* the approved plan,                                                      *)
LEMMA PlannedKept ==
  ASSUME NEW g, PlannedOn(g), Advances
  PROVE  PlannedOn(g)'
BY DEF PlannedOn, Advances

(* the acceptance of the task,                                             *)
LEMMA AcceptedKept ==
  ASSUME NEW a, AcceptedBy(a), Advances
  PROVE  AcceptedBy(a)'
BY DEF AcceptedBy, Advances

(* and the evidence it was accepted on.                                    *)
LEMMA EvidenceKept ==
  ASSUME NEW t, SameEvidence(t), task[T].state = "ACCEPTED", Advances
  PROVE  SameEvidence(t)'
BY DEF SameEvidence, Advances

(* A row that was read may have been the one that is accepted now, and is  *)
(* then accepted as it was read.                                           *)
LEMMA SeenKept ==
  ASSUME NEW t, Seen(t), Advances, TasksFit
  PROVE  Seen(t)'
<1>1. /\ t \in TaskRow /\ t.rev \in Nat /\ task[T].rev \in Nat
      /\ t.rev <= task[T].rev
  BY DEF Seen, TaskRow, TasksFit, TaskFits
<1>2. CASE task'[T] = task[T]
  BY <1>2 DEF Seen, SameEvidence
<1>3. CASE task'[T] # task[T]
  <2>1. /\ task'[T].rev = task[T].rev + 1
        /\ task'[T].state = "ACCEPTED" =>
             /\ task'[T].exec = task[T].exec /\ task'[T].cand = task[T].cand
             /\ task'[T].verif = task[T].verif
             /\ task'[T].review = task[T].review
    BY <1>3 DEF Advances
  <2>2. t.rev <= task'[T].rev /\ t.rev # task'[T].rev
    BY <1>1, <2>1, SMT
  <2>3. task'[T].rev = t.rev + 1 => t.rev = task[T].rev
    BY <1>1, <2>1, SMT
  <2>4. t.rev = task[T].rev => t = task[T]
    BY DEF Seen
  <2>5. QED
    BY <1>1, <2>1, <2>2, <2>3, <2>4 DEF Seen, SameEvidence
<1>4. QED
  BY <1>2, <1>3

(* A request that was carried out stays so.                                *)
LEMMA ServedKept ==
  ASSUME NEW k, Served(k), Grown, request'[k] = request[k]
  PROVE  Served(k)'
<1>1. \A s : Done(k, s) => /\ Done(k, s)'
                           /\ commands'[<<k, s>>] = commands[<<k, s>>]
  BY DEF Done, Grown
<1>2. QED
  BY <1>1 DEF Served

(* What a handler knows in its place stays true.                           *)
LEMMA FitsKept ==
  ASSUME NEW pc, NEW k, NEW x, NEW t, NEW a, Fits(pc, k, x, t, a), Grows,
         TasksFit, TasksFit', pc = "decide" => approvals'[k] = approvals[k]
  PROVE  Fits(pc, k, x, t, a)'
<1>1. CASE pc = "idle"
  BY <1>1 DEF Fits, Approving, Decided, Applied, Completed, Bound
<1>2. CASE pc # "idle"
  <2>1. k \in Keys /\ request[k] # Nil /\ RouteFits(pc, request[k].route)
    BY <1>2 DEF Fits
  <2>2. request'[k] = request[k] /\ Advances /\ Grown
    BY <2>1 DEF Grows
  <2>3. pc = "checkpoint-specification" => Specified(x.spec)'
    BY <2>2, SpecifiedKept DEF Fits
  <2>4. pc \in {"checkpoint-specification", "respond"} => Served(k)'
    BY <2>2, ServedKept DEF Fits
  <2>5. pc = "enqueue" => /\ task'[T].state # "NONE" /\ t \in TaskRow
                          /\ t.attempt <= task'[T].attempt
    <3> SUFFICES ASSUME pc = "enqueue"
                 PROVE  /\ task'[T].state # "NONE" /\ t \in TaskRow
                        /\ t.attempt <= task'[T].attempt
      OBVIOUS
    <3>1. /\ task[T].state # "NONE" /\ t \in TaskRow
          /\ t.attempt <= task[T].attempt
      BY DEF Fits
    <3>2. /\ t.attempt \in Nat /\ task[T].attempt \in Nat
          /\ task'[T].attempt \in Nat
      BY <3>1 DEF TaskRow, TasksFit, TaskFits
    <3>3. /\ task'[T].state # "NONE"
          /\ task'[T] = task[T] \/ task[T].attempt <= task'[T].attempt
      BY <2>2, <3>1 DEF Advances
    <3>4. QED
      BY <3>1, <3>2, <3>3, SMT
  <2>6. pc \in Approving => Seen(t)' /\ Complete(t)
    BY <2>2, SeenKept DEF Fits
  <2>7. pc = "decide" => /\ approvals'[k].state = "reserved"
                         /\ approvals'[k].digest = t
    BY DEF Fits
  <2>8. pc \in Decided =>
          /\ approvals'[k].state \in {"decision_ready", "completed"}
          /\ approvals'[k].digest = t /\ approvals'[k].artifact = a
          /\ a # Nil
    BY <2>1 DEF Fits, Grows, Decision
  <2>9. pc \in Applied =>
          AcceptedBy(a)' /\ SameEvidence(t)' /\ Done(k, "apply")'
    <3>1. pc \in Applied => AcceptedBy(a)'
      BY <2>2, AcceptedKept DEF Fits
    <3>2. pc \in Applied => SameEvidence(t)'
      BY <2>2, EvidenceKept DEF Fits, AcceptedBy
    <3>3. pc \in Applied => Done(k, "apply")'
      BY <2>2 DEF Fits, Done, Grown
    <3>4. QED
      BY <3>1, <3>2, <3>3
  <2>10. pc \in Completed => approvals'[k].state = "completed"
    BY <2>1 DEF Fits, Grows, Decision
  <2>11. pc \in Bound => binding'.approval = a
    <3>1. pc \in Bound => pc \in Decided
      BY DEF Bound, Decided, Applied, Completed
    <3>2. QED
      BY <3>1 DEF Fits, Grows
  <2>12. QED
    BY <2>1, <2>2, <2>3, <2>4, <2>5, <2>6, <2>7, <2>8, <2>9, <2>10, <2>11
    DEF Fits
<1>3. QED
  BY <1>1, <1>2

(* So does what a handler knows that stays where it is.                    *)
LEMMA HandlerStays ==
  ASSUME APIInv, Grows, TasksFit', NEW g \in Handlers, Reserved(g),
         handler'[g] = handler[g]
  PROVE  HandlerFits(g)'
<1>1. PICK pc, k, x, t, a : /\ handler[g].pc = pc /\ handler[g].key = k
                            /\ handler[g].run = x /\ handler[g].task = t
                            /\ handler[g].artifact = a
  OBVIOUS
<1>2. Fits(pc, k, x, t, a) /\ (handler[g].owner <=> pc = "decide")
  BY <1>1 DEF APIInv, HandlersFit, HandlerFits
<1>3. Fits(pc, k, x, t, a)'
  BY <1>1, <1>2, FitsKept DEF APIInv, Reserved
<1>4. QED
  BY <1>1, <1>2, <1>3 DEF HandlerFits

(* A handler moves, and the others stay.                                   *)
LEMMA HandlersStep ==
  ASSUME APIInv, Grows, TasksFit', NEW h \in Handlers, NEW pc, NEW k, NEW x,
         NEW t, NEW a, Becomes(h, pc, k, x, t, a), Fits(pc, k, x, t, a)',
         \A g \in Handlers : g # h => Reserved(g),
         pc = "decide" => approvals[k].state # "reserved"
  PROVE  HandlersFit' /\ OneOwner'
<1>1. HandlerFits(h)'
  BY DEF Becomes, HandlerFits
<1>2. \A g \in Handlers : g # h => HandlerFits(g)'
  BY HandlerStays DEF Becomes
<1>3. HandlersFit'
  BY <1>1, <1>2 DEF HandlersFit, Becomes
<1>4. ASSUME NEW g \in Handlers, g # h, handler'[g].owner, handler'[h].owner,
             handler'[g].key = handler'[h].key
      PROVE  FALSE
  <2>1. pc = "decide" /\ handler[g].key = k /\ handler[g].owner
    BY <1>4 DEF Becomes
  <2>2. approvals[k].state = "reserved"
    BY <2>1 DEF APIInv, HandlersFit, HandlerFits, Fits
  <2>3. QED
    BY <2>1, <2>2
<1>5. OneOwner'
  BY <1>4 DEF APIInv, OneOwner, keyOf, Becomes
<1>6. QED
  BY <1>3, <1>5

(* What a row of the command ledger says stays true.                       *)
LEMMA LedgerKept ==
  ASSUME RunFits, RunFits', Advances, NEW i \in DOMAIN commands,
         LedgerFits(i), commands'[i] = commands[i]
  PROVE  LedgerFits(i)'
<1>1. PICK d : d = commands[i].digest
  OBVIOUS
<1>2. /\ i[2] \in RunSteps => d[2].rev \in Nat /\ d[2].rev < run.rev
      /\ i[2] = "approve-specification" => Specified(d[3])
      /\ i[2] = "approve-task-graph" => PlannedOn(d[3])
      /\ i[2] = "apply" => AcceptedBy(d[6]) /\ task[T].rev = d[2].rev + 1
      /\ i[2] = "reject-run" => run.state = "REJECTED"
      /\ i[2] = "approve-run" => run.state = "MERGE_READY"
      /\ i[2] # "cancel-run"
  BY <1>1 DEF LedgerFits
<1>3. i[2] \in RunSteps => d[2].rev < run'.rev
  <2>1. run.rev \in Nat /\ run'.rev \in Nat
    BY DEF RunFits, RunRow
  <2>2. run'.rev = run.rev \/ run'.rev = run.rev + 1
    BY DEF Advances
  <2>3. QED
    BY <1>2, <2>1, <2>2, SMT
<1>4. /\ i[2] = "approve-specification" => Specified(d[3])'
      /\ i[2] = "approve-task-graph" => PlannedOn(d[3])'
      /\ i[2] = "apply" => AcceptedBy(d[6])' /\ task'[T].rev = d[2].rev + 1
  <2>1. i[2] = "approve-specification" => Specified(d[3])'
    BY <1>2, SpecifiedKept
  <2>2. i[2] = "approve-task-graph" => PlannedOn(d[3])'
    BY <1>2, PlannedKept
  <2>3. i[2] = "apply" => AcceptedBy(d[6])'
    BY <1>2, AcceptedKept
  <2>4. i[2] = "apply" => task'[T].rev = d[2].rev + 1
    BY <1>2 DEF AcceptedBy, Advances
  <2>5. QED
    BY <2>1, <2>2, <2>3, <2>4
<1>5. /\ i[2] = "reject-run" => run'.state = "REJECTED"
      /\ i[2] = "approve-run" => run'.state = "MERGE_READY"
  BY <1>2 DEF Advances
<1>6. commands'[i].digest = d
  BY <1>1
<1>7. QED
  BY <1>2, <1>3, <1>4, <1>5, <1>6 DEF LedgerFits

(* A step that records no command keeps what the ledger says.              *)
LEMMA LedgersKept ==
  ASSUME LedgersFit, RunFits, RunFits', Advances,
         DOMAIN commands' = DOMAIN commands,
         \A i \in DOMAIN commands : commands'[i] = commands[i]
  PROVE  LedgersFit' /\ Grown
<1>1. \A i \in DOMAIN commands : LedgerFits(i)'
  BY LedgerKept DEF LedgersFit
<1>2. \A i, j \in DOMAIN commands : Apart(i, j)'
  BY DEF LedgersFit, Apart
<1>3. QED
  BY <1>1, <1>2 DEF LedgersFit, Grown

(* A new command on the revision that is current fits with the others.     *)
LEMMA LedgersGrow ==
  ASSUME LedgersFit, RunFits, RunFits', Advances, NEW m, NEW d, NEW o,
         Ran(m, d, o), m.id \in CommandIDs, LedgerFits(m.id)',
         m.id[2] \in RunSteps => d[2].rev = run.rev,
         m.id[2] = "apply" => task[T].state # "ACCEPTED"
  PROVE  LedgersFit' /\ Grown
<1>1. /\ m.id \notin DOMAIN commands /\ commands'[m.id].digest = d
      /\ DOMAIN commands' = DOMAIN commands \cup {m.id}
      /\ \A i \in DOMAIN commands : commands'[i] = commands[i]
  BY DEF Ran
<1>2. \A i \in DOMAIN commands : LedgerFits(i)'
  BY <1>1, LedgerKept DEF LedgersFit
<1>3. \A i, j \in DOMAIN commands : Apart(i, j)'
  BY <1>1 DEF LedgersFit, Apart
<1>4. ASSUME NEW i \in DOMAIN commands
      PROVE  Apart(i, m.id)' /\ Apart(m.id, i)'
  <2>1. i[2] \in RunSteps => /\ commands[i].digest[2].rev \in Nat
                             /\ commands[i].digest[2].rev < run.rev
    BY DEF LedgersFit, LedgerFits
  <2>2. i[2] \in RunSteps => commands[i].digest[2].rev # run.rev
    BY <2>1, SMT DEF RunFits, RunRow
  <2>3. i[2] = "apply" => task[T].state = "ACCEPTED"
    BY DEF LedgersFit, LedgerFits, AcceptedBy
  <2>4. QED
    BY <1>1, <2>2, <2>3 DEF Apart
<1>5. Apart(m.id, m.id)'
  BY DEF Apart
<1>6. QED
  BY <1>1, <1>2, <1>3, <1>4, <1>5 DEF LedgersFit, Grown

(* Bindings that no one writes still fit.                                  *)
LEMMA BindingsKept ==
  ASSUME BindingsFit, Advances, binding' = binding, jobs' = jobs,
         task[T].state = "NONE" => task'[T].state = "NONE"
  PROVE  BindingsFit'
<1>1. binding.spec # Nil => Specified(binding.spec)'
  <2>1. PICK x : x = binding.spec
    OBVIOUS
  <2>2. x # Nil => Specified(x)'
    BY <2>1, SpecifiedKept DEF BindingsFit
  <2>3. QED
    BY <2>1, <2>2
<1>2. binding.approval # Nil => AcceptedBy(binding.approval)'
  <2>1. PICK a : a = binding.approval
    OBVIOUS
  <2>2. a # Nil => AcceptedBy(a)'
    BY <2>1, AcceptedKept DEF BindingsFit
  <2>3. QED
    BY <2>1, <2>2
<1>3. task[T].state # "NONE" => /\ task'[T].state # "NONE"
                                /\ run'.graph = run.graph
  BY DEF Advances
<1>4. QED
  BY <1>1, <1>2, <1>3 DEF BindingsFit

(* A step of the task that keeps its attempt keeps the jobs fitting, if it *)
(* ends a lease only with its job.                                         *)
LEMMA JobsKept ==
  ASSUME JobsFit, jobs' = jobs, task'[T].attempt = task[T].attempt,
         task[T].state = "LEASED" =>
           \/ task'[T].state = "LEASED"
           \/ \A n \in Attempts : n = task[T].attempt => jobs[n] = "DONE",
         task'[T].state = "NONE" => task[T].state = "NONE"
  PROVE  JobsFit'
BY DEF JobsFit, Attempts

(* Recorded retries stay those of an existing task.                        *)
LEMMA RetriesKept ==
  ASSUME RetriesFit, Advances, retryState' = retryState
  PROVE  RetriesFit'
BY DEF RetriesFit, Advances

(* A step of the workflow alone lets the rows grow.                        *)
LEMMA GrowsSame ==
  ASSUME Advances, Grown, UNCHANGED <<request, approvals, binding>>
  PROVE  Grows /\ \A g \in Handlers : Reserved(g)
BY DEF Grows, Reserved, Decision

(* An approval that no one writes.                                         *)
LEMMA ApprovalKept ==
  ASSUME APIInv, Grows, NEW k \in Keys, approvals'[k] = approvals[k]
  PROVE  ApprovalFits(k)'
<1>1. PICK r : r = approvals[k]
  OBVIOUS
<1>2. /\ r.state \in {"NONE", "reserved", "decision_ready", "completed"}
      /\ r.state \in {"NONE", "reserved"} => r.artifact = Nil
      /\ r.state \in {"decision_ready", "completed"} =>
           /\ r.artifact = RefOf("approval", k)
           /\ request[k] # Nil /\ (Elevated => request[k].role = "ELEVATED")
      /\ r.state = "completed" => /\ AcceptedBy(r.artifact)
                                  /\ SameEvidence(r.digest)
                                  /\ Done(k, "apply")
  BY <1>1 DEF APIInv, ApprovalsFit, ApprovalFits
<1>3. Advances /\ Grown /\ (request[k] # Nil => request'[k] = request[k])
  BY DEF Grows
<1>4. r.state = "completed" => AcceptedBy(r.artifact)'
  BY <1>2, <1>3, AcceptedKept
<1>5. r.state = "completed" => SameEvidence(r.digest)'
  BY <1>2, <1>3, EvidenceKept DEF AcceptedBy
<1>6. r.state = "completed" => Done(k, "apply")'
  BY <1>2, <1>3 DEF Done, Grown
<1>7. approvals'[k] = r
  BY <1>1
<1>8. QED
  BY <1>2, <1>3, <1>4, <1>5, <1>6, <1>7 DEF ApprovalFits, RefOf

(* Approval rows that are left alone still fit.                            *)
LEMMA ApprovalsKept ==
  ASSUME APIInv, Grows, approvals' = approvals
  PROVE  ApprovalsFit'
BY ApprovalKept DEF APIInv, ApprovalsFit

(* So do requests, if replies are given only to requests that were carried *)
(* out.                                                                    *)
LEMMA RequestsKept ==
  ASSUME APIInv, Advances, Grown, RunFits', request' = request, Replies
  PROVE  RequestsFit'
<1>1. /\ DOMAIN request' = Keys
      /\ \A k \in Keys : request'[k] # Nil => request'[k].rev \in Nat
      /\ \A k \in Keys : ForRun(k)' => run'.state \notin PlanningStates
      /\ \A k, l \in Keys :
           ForPlan(k)' /\ ForRun(l)' => request'[k].rev < request'[l].rev
  BY DEF APIInv, RequestsFit, ForRun, ForPlan, Advances
<1>2. ASSUME NEW k \in Keys, ForPlan(k)'
      PROVE  /\ request'[k].rev <= run'.rev
             /\ run'.state \notin PlanningStates => request'[k].rev < run'.rev
  <2>1. /\ request[k].rev \in Nat /\ run.rev \in Nat /\ run'.rev \in Nat
        /\ request[k].rev <= run.rev
        /\ run.state \notin PlanningStates => request[k].rev < run.rev
    BY <1>2 DEF APIInv, RequestsFit, ForPlan, RunFits, RunRow
  <2>2. CASE run' = run
    BY <2>1, <2>2
  <2>3. CASE run'.rev = run.rev + 1
    <3>1. request[k].rev < run'.rev /\ request[k].rev <= run'.rev
      BY <2>1, <2>3, SMT
    <3>2. QED
      BY <3>1
  <2>4. QED
    BY <2>2, <2>3 DEF Advances
<1>3. ASSUME NEW k \in Keys, answer'[k] = "ok"
      PROVE  request'[k] # Nil /\ Served(k)'
  <2>1. CASE answer[k] = "ok"
    BY <2>1, ServedKept DEF APIInv, RequestsFit
  <2>2. CASE answer[k] # "ok"
    BY <1>3, <2>2 DEF Replies
  <2>3. QED
    BY <2>1, <2>2
<1>4. answer' \in [Keys -> {Nil, "ok", "refused"}]
  BY DEF Replies
<1>5. QED
  BY <1>1, <1>2, <1>3, <1>4 DEF RequestsFit

(* A step that approves no run keeps the approval of an approved one.      *)
LEMMA MergeKept ==
  ASSUME APIInv, Grows, RunFits,
         run'.state = "MERGE_READY" => run.state = "MERGE_READY"
  PROVE  MergeFits'
<1> SUFFICES ASSUME run'.state = "MERGE_READY"
             PROVE  /\ run'.approval = task'[T].approval.ref
                    /\ run'.approval = binding'.approval
                    /\ \E k \in Keys :
                         /\ approvals'[k].state = "completed"
                         /\ approvals'[k].artifact = run'.approval
  BY DEF MergeFits
<1>1. /\ run.state = "MERGE_READY" /\ run.approval = task[T].approval.ref
      /\ run.approval = binding.approval /\ task[T].state = "ACCEPTED"
  BY DEF APIInv, MergeFits, RunFits
<1>2. PICK k \in Keys : /\ approvals[k].state = "completed"
                        /\ approvals[k].artifact = run.approval
  BY <1>1 DEF APIInv, MergeFits
<1>3. run' = run /\ task'[T] = task[T]
  BY <1>1 DEF Grows, Advances
<1>4. approvals[k].artifact # Nil
  <2>1. approvals[k].artifact = RefOf("approval", k)
    BY <1>2 DEF APIInv, ApprovalsFit, ApprovalFits
  <2>2. RefOf("approval", k) \in Artifacts
    BY NamesAssumption DEF RefOf
  <2>3. QED
    BY <2>1, <2>2, NilAssumption
<1>5. binding'.approval = binding.approval
  BY <1>1, <1>2, <1>4 DEF Grows
<1>6. /\ approvals'[k].state = "completed"
      /\ approvals'[k].artifact = approvals[k].artifact
  BY <1>2 DEF Grows, Decision
<1>7. QED
  BY <1>1, <1>2, <1>3, <1>5, <1>6

(* A step that leaves the workflow alone is one of its advances.           *)
LEMMA StillAdvances ==
  ASSUME APIInv, UNCHANGED vars
  PROVE  /\ Advances /\ Grown /\ TasksFit' /\ RunFits' /\ LedgersFit'
         /\ (task'[T].state = "NONE" <=> task[T].state = "NONE")
         /\ run' = run /\ task' = task
<1>1. run' = run /\ task' = task /\ commands' = commands
  BY DEF vars
<1>2. Advances
  BY <1>1 DEF Advances
<1>3. TasksFit' /\ RunFits'
  BY <1>1 DEF APIInv, TasksFit, TaskFits, RunFits
<1>4. QED
  BY <1>1, <1>2, <1>3, LedgersKept DEF APIInv

-----------------------------------------------------------------------------
(* A handler moves.                                                        *)

(* A move that changes only the place of a handler keeps what it holds.    *)
LEMMA GotoBecomes ==
  ASSUME APIInv, NEW h \in Handlers, NEW pc \in HandlerPlaces \ {"decide"},
         NEW k, NEW x, NEW t, NEW a, Holds(h, k, x, t, a),
         handler[h].pc # "decide", goto(h, pc)
  PROVE  Becomes(h, pc, k, x, t, a)
<1>1. handler[h] \in HandlerMemory /\ ~handler[h].owner
  BY DEF APIInv, HandlersFit, HandlerFits
<1>2. handler' = [handler EXCEPT ![h] = [handler[h] EXCEPT !.pc = pc]]
  BY DEF goto
<1>3. [handler[h] EXCEPT !.pc = pc] \in HandlerMemory
  BY <1>1 DEF HandlerMemory
<1>4. /\ handler'[h] = [handler[h] EXCEPT !.pc = pc]
      /\ handler' \in [Handlers -> HandlerMemory]
      /\ \A g \in Handlers : g # h => handler'[g] = handler[g]
  BY <1>2, <1>3 DEF APIInv, HandlersFit
<1>5. QED
  BY <1>1, <1>4 DEF Becomes, Holds, HandlerMemory

(* A handler that ends its request holds nothing.                          *)
LEMMA IdleBecomes ==
  ASSUME APIInv, NEW h \in Handlers, handler' = [handler EXCEPT ![h] = Idle]
  PROVE  Becomes(h, "idle", Nil, Nil, Nil, Nil)
         /\ Fits("idle", Nil, Nil, Nil, Nil)'
<1>1. Idle \in HandlerMemory
  BY DEF Idle, HandlerMemory, HandlerPlaces, OptArtifact
<1>2. /\ handler'[h] = Idle /\ handler' \in [Handlers -> HandlerMemory]
      /\ \A g \in Handlers : g # h => handler'[g] = handler[g]
  BY <1>1 DEF APIInv, HandlersFit
<1>3. Becomes(h, "idle", Nil, Nil, Nil, Nil)
  BY <1>2 DEF Becomes, Idle
<1>4. Fits("idle", Nil, Nil, Nil, Nil)'
  BY DEF Fits, Approving, Decided, Applied, Completed, Bound
<1>5. QED
  BY <1>3, <1>4

(* Giving no answer is always a fitting reply.                             *)
LEMMA NoReply ==
  ASSUME APIInv, answer' = answer
  PROVE  Replies
BY DEF Replies, APIInv, RequestsFit

(* A refusal is always a fitting reply.                                    *)
LEMMA RefusalReplies ==
  ASSUME APIInv, NEW h \in Handlers, respond(h, "refused"), keyOf(h) \in Keys
  PROVE  Replies
<1>1. answer \in [Keys -> {Nil, "ok", "refused"}]
  BY DEF APIInv, RequestsFit
<1>2. PICK b \in {Nil, "ok", "refused"} :
        /\ answer' = [answer EXCEPT ![keyOf(h)] = b]
        /\ b = "ok" => answer[keyOf(h)] = "ok"
  BY <1>1 DEF respond
<1>3. QED
  BY <1>1, <1>2 DEF Replies

(* A step in which the workflow, the approvals and the bindings rest.      *)
LEMMA QuietStep ==
  ASSUME APIInv,
         UNCHANGED <<vars, request, binding, jobs, approvals, retryState>>,
         NEW h \in Handlers, NEW pc, NEW k, NEW x, NEW t, NEW a,
         Becomes(h, pc, k, x, t, a), Fits(pc, k, x, t, a)', pc # "decide",
         Replies
  PROVE  APIInv'
<1>1. /\ Advances /\ Grown /\ TasksFit' /\ RunFits' /\ LedgersFit'
      /\ (task'[T].state = "NONE" <=> task[T].state = "NONE")
      /\ run' = run /\ task' = task
  BY StillAdvances
<1>2. Grows /\ \A g \in Handlers : Reserved(g)
  BY <1>1, GrowsSame
<1>3. HandlersFit' /\ OneOwner'
  BY <1>1, <1>2, HandlersStep
<1>4. BindingsFit'
  BY <1>1, BindingsKept DEF APIInv
<1>5. JobsFit'
  BY <1>1, JobsKept DEF APIInv
<1>6. RetriesFit'
  BY <1>1, RetriesKept DEF APIInv
<1>7. ApprovalsFit'
  BY <1>2, ApprovalsKept
<1>8. RequestsFit'
  BY <1>1, RequestsKept
<1>9. MergeFits'
  BY <1>1, <1>2, MergeKept DEF APIInv
<1>10. QED
  BY <1>1, <1>3, <1>4, <1>5, <1>6, <1>7, <1>8, <1>9 DEF APIInv

(* A handler may refuse its request at any place without harm.             *)
LEMMA GivesUp ==
  ASSUME APIInv,
         UNCHANGED <<vars, request, binding, jobs, approvals, retryState>>,
         NEW h \in Handlers, handler[h].pc # "idle", respond(h, "refused")
  PROVE  APIInv'
<1>1. handler' = [handler EXCEPT ![h] = Idle]
  BY DEF respond
<1>2. Replies
  BY AtWork, RefusalReplies
<1>3. QED
  BY <1>1, <1>2, IdleBecomes, QuietStep

(* A handler goes on without writing anything.                             *)
LEMMA GoesOn ==
  ASSUME APIInv,
         UNCHANGED <<vars, request, answer, binding, jobs, approvals,
                     retryState>>,
         NEW h \in Handlers, handler[h].pc # "decide",
         NEW pc \in HandlerPlaces \ {"decide"},
         NEW k, NEW x, NEW t, NEW a, Holds(h, k, x, t, a),
         goto(h, pc), Fits(pc, k, x, t, a)'
  PROVE  APIInv'
BY GotoBecomes, NoReply, QuietStep

(* What the handler knows before a step that leaves the stores alone, it   *)
(* knows after it.                                                         *)
LEMMA KnowsStill ==
  ASSUME APIInv, UNCHANGED <<vars, request, binding, approvals>>,
         NEW h \in Handlers, NEW pc, NEW k, NEW x, NEW t, NEW a,
         handler[h].pc = pc, Holds(h, k, x, t, a)
  PROVE  Fits(pc, k, x, t, a) /\ Fits(pc, k, x, t, a)'
<1>1. Fits(pc, k, x, t, a)
  BY DEF APIInv, HandlersFit, HandlerFits, Holds
<1>2. /\ Advances /\ Grown /\ TasksFit'
  BY StillAdvances
<1>3. Grows
  BY <1>2, GrowsSame
<1>4. QED
  BY <1>1, <1>2, <1>3, FitsKept DEF APIInv

(* The places of a handler, one by one.                                    *)
LEMMA Places ==
  /\ {"apply", "evidence", "command", "checkpoint-specification", "retried",
      "enqueue", "respond", "begin", "apply-decision", "complete-approval",
      "checkpoint-approval", "read-run", "aggregate"}
       \subseteq HandlerPlaces \ {"decide"}
  /\ "decide" \in HandlerPlaces
BY DEF HandlerPlaces, Approving, Decided, Applied, Completed, Bound

(* The handler still knows what it knew after a step that grows the stores. *)
LEMMA KnowsAfter ==
  ASSUME APIInv, Grows, TasksFit', NEW h \in Handlers, NEW pc, NEW k, NEW x,
         NEW t, NEW a, handler[h].pc = pc, pc # "decide", Holds(h, k, x, t, a)
  PROVE  Fits(pc, k, x, t, a) /\ Fits(pc, k, x, t, a)'
<1>1. Fits(pc, k, x, t, a)
  BY DEF APIInv, HandlersFit, HandlerFits, Holds
<1>2. QED
  BY <1>1, FitsKept DEF APIInv

-----------------------------------------------------------------------------
(* The routes that give commands.                                          *)

(* A command of the run keeps the invariant if the handlers and the ledger *)
(* still fit.                                                              *)
LEMMA RunCommandKeeps ==
  ASSUME APIInv, RunStep, Grown, LedgersFit', MergeFits', HandlersFit',
         OneOwner', Replies,
         UNCHANGED <<request, binding, jobs, approvals, retryState>>
  PROVE  APIInv'
<1>1. Advances /\ RunFits' /\ task' = task
  BY DEF RunStep
<1>2. Grows
  BY <1>1, GrowsSame
<1>3. TasksFit'
  BY <1>1 DEF APIInv, TasksFit, TaskFits
<1>4. BindingsFit' /\ JobsFit' /\ RetriesFit'
  BY <1>1, BindingsKept, JobsKept, RetriesKept DEF APIInv
<1>5. ApprovalsFit' /\ RequestsFit'
  BY <1>1, <1>2, ApprovalsKept, RequestsKept
<1>6. QED
  BY <1>1, <1>3, <1>4, <1>5 DEF APIInv

(* A command of the task keeps the invariant if the handlers and the       *)
(* ledger still fit.                                                       *)
LEMMA TaskCommandKeeps ==
  ASSUME APIInv, TaskStep, Grown, LedgersFit', JobsFit', RetriesFit',
         HandlersFit', OneOwner', Replies,
         UNCHANGED <<request, binding, jobs, approvals>>
  PROVE  APIInv'
<1>1. /\ Advances /\ TasksFit' /\ run' = run /\ run.state = "EXECUTING"
      /\ task[T].state # "NONE" /\ task'[T].state # "NONE"
  BY DEF TaskStep, Advances
<1>2. Grows
  BY <1>1, GrowsSame
<1>3. RunFits'
  BY <1>1 DEF APIInv, RunFits, PlanningStates
<1>4. BindingsFit'
  BY <1>1, BindingsKept DEF APIInv
<1>5. ApprovalsFit' /\ RequestsFit'
  BY <1>1, <1>2, <1>3, ApprovalsKept, RequestsKept
<1>6. MergeFits'
  BY <1>1, <1>2, MergeKept DEF APIInv
<1>7. QED
  BY <1>1, <1>3, <1>4, <1>5, <1>6 DEF APIInv

(* What a handler knows when it gives its command.                         *)
LEMMA AtCommand ==
  ASSUME APIInv, NEW h \in Handlers, NEW k, NEW x, NEW t, NEW a,
         Holds(h, k, x, t, a), handler[h].pc = "command"
  PROVE  /\ k \in Keys /\ request[k] # Nil /\ request[k].rev \in Nat
         /\ request[k].route # "approval"
         /\ request[k].route # "retry" => x.rev = request[k].rev
<1>1. Fits("command", k, x, t, a)
  BY Knows
<1>2. /\ k \in Keys /\ request[k] # Nil
      /\ RouteFits("command", request[k].route)
      /\ request[k].route # "retry" => x.rev = request[k].rev
  BY <1>1 DEF Fits
<1>3. QED
  BY <1>2 DEF RouteFits, APIInv, RequestsFit

(* Where the last step of a route leads.                                   *)
LEMMA RouteFitsNext ==
  ASSUME NEW pc \in {"respond", "checkpoint-specification"}, NEW k \in Keys,
         NEW x, NEW t, NEW a, request'[k] # Nil, Served(k)',
         pc = "checkpoint-specification" => Specified(x.spec)'
  PROVE  Fits(pc, k, x, t, a)'
BY DEF Fits, RouteFits, Approving, Decided, Applied, Completed, Bound

(* The steps of the planning routes are told apart from the others.        *)
LEMMA RouteNames ==
  /\ RunSteps \subseteq Steps
  /\ RunSteps \cap {"apply", "approve-run", "cancel-run", "retry", "approval",
                    "cancel", "reject"} = {}
BY DEF RunSteps, Steps, PlanningRoutes, PlanRejections

(* The step that a route gives its command.                                *)
LEMMA CommandsStep ==
  ASSUME NEW k, NEW step, Commands(k, step)
  PROVE  /\ StepOf(request[k].route) = step
         /\ request[k].route \in PlanningRoutes \cup {"reject", "cancel"}
         /\ request[k].route \notin {"retry", "approval"}
         /\ step \in RunSteps
<1>1. CASE request[k].route = "reject" /\ step = "reject-run"
  BY <1>1 DEF StepOf, RunSteps
<1>2. CASE request[k].route = step /\ step \in PlanningRoutes
  BY <1>2, RouteNames DEF StepOf, RunSteps
<1>3. QED
  BY <1>1, <1>2 DEF Commands

(* The request was carried out by the command with ID i and digest d.      *)
LEMMA CommandServes ==
  ASSUME NEW k, NEW step, Commands(k, step), request'[k] = request[k],
         Done(k, step)', NEW d, commands'[<<k, step>>].digest = d,
         d[2].rev = request[k].rev
  PROVE  Served(k)'
<1>1. PICK r : r = request[k].route
  OBVIOUS
<1>2. /\ StepOf(r) = step /\ r \in PlanningRoutes \cup {"reject", "cancel"}
      /\ r # "approval" /\ request'[k].route = r
  BY <1>1, CommandsStep
<1>3. commands'[<<k, StepOf(r)>>].digest[2].rev = request'[k].rev
  BY <1>2
<1>4. QED
  BY <1>2, <1>3 DEF Served

(* All routes that give one command of the run.                            *)
LEMMA RunRoutesKeep ==
  ASSUME APIInv, NEW h \in Handlers, NEW k, NEW x, NEW t, NEW a,
         Holds(h, k, x, t, a), RunCommand(h)
  PROVE  APIInv'
(* The rows that the commands compute: with the specification,             *)
<1>NextSpec.
  ASSUME run \in RunRow, NEW s \in RunStates, NEW y \in Artifacts
  PROVE  NextRow([run EXCEPT !.state = s, !.spec = y], s, y, run.graph,
                 run.exec, run.cand, run.verif, run.review, run.approval)
  BY <1>NextSpec, RunRowBinding DEF NextRow, RunRow
(* and with the graph.                                                     *)
<1>NextGraph.
  ASSUME run \in RunRow, NEW s \in RunStates, NEW y \in Artifacts
  PROVE  NextRow([run EXCEPT !.state = s, !.graph = y], s, run.spec, y,
                 run.exec, run.cand, run.verif, run.review, run.approval)
  BY <1>NextGraph, RunRowBinding DEF NextRow, RunRow
(* A proposed specification is bound.                                      *)
<1>ProposesSpecification.
  ASSUME RunFits, NEW m, m.id \in CommandIDs \cup {Fresh},
         NEW y \in Artifacts, proposeSpecification(m, y)
  PROVE  /\ Ran(m, <<"ProposeSpecification", m, y>>, RunID) /\ m.rev = run.rev
         /\ RunStep
         /\ run.state = "DRAFT"
  <2> USE <1>ProposesSpecification
  <2>0. run \in RunRow
    BY DEF RunFits
  <2> DEFINE next == [run EXCEPT !.state = "SPECIFICATION_REVIEW", !.spec = y]
  <2>1. NextRow(next, "SPECIFICATION_REVIEW", y, run.graph, run.exec,
                run.cand, run.verif, run.review, run.approval)
    BY <2>0, <1>NextSpec DEF RunStates
  <2>2. /\ run.state = "DRAFT" /\ m.rev = run.rev
        /\ persistRunTransition(m, <<"ProposeSpecification", m, y>>, next)
    BY DEF proposeSpecification, validateRunCommand
  <2> HIDE DEF next
  <2>3. /\ Ran(m, <<"ProposeSpecification", m, y>>, RunID)
        /\ Turns("SPECIFICATION_REVIEW", y, run.graph, run.exec,
                 run.cand, run.verif, run.review, run.approval)
    BY <2>0, <2>1, <2>2, RunTurns
  <2>4. RunFits'
    BY <2>2, <2>3 DEF RunFits, Turns, RunStates, PlanningStates
  <2>5. Advances
    BY <2>2, <2>3 DEF Advances, RunFits, Turns, Undecided, PlanningStates
  <2>6. QED
    BY <2>2, <2>3, <2>4, <2>5 DEF RunStep, Turns
(* It is approved as it is bound.                                          *)
<1>ApprovesSpecification.
  ASSUME RunFits, NEW m, m.id \in CommandIDs \cup {Fresh}, NEW y,
         approveSpecification(m, y)
  PROVE  /\ Ran(m, <<"ApproveSpecification", m, y>>, RunID) /\ m.rev = run.rev
         /\ RunStep
         /\ run.state = "SPECIFICATION_REVIEW"
         /\ y # Nil /\ run'.spec = y /\ run'.state = "TASK_PLANNING"
  <2> USE <1>ApprovesSpecification
  <2>0. run \in RunRow
    BY DEF RunFits
  <2> DEFINE next == [run EXCEPT !.state = "TASK_PLANNING"]
  <2>1. NextRow(next, "TASK_PLANNING", run.spec, run.graph, run.exec,
                run.cand, run.verif, run.review, run.approval)
    BY <2>0, NextState DEF RunStates
  <2>2. /\ run.state = "SPECIFICATION_REVIEW" /\ m.rev = run.rev
        /\ run.spec = y /\ y # Nil
        /\ persistRunTransition(m, <<"ApproveSpecification", m, y>>, next)
    BY DEF approveSpecification, validateRunCommand,
       validateSpecificationReview
  <2> HIDE DEF next
  <2>3. /\ Ran(m, <<"ApproveSpecification", m, y>>, RunID)
        /\ Turns("TASK_PLANNING", run.spec, run.graph, run.exec,
                 run.cand, run.verif, run.review, run.approval)
    BY <2>0, <2>1, <2>2, RunTurns
  <2>4. RunFits'
    BY <2>2, <2>3 DEF RunFits, Turns, RunStates, PlanningStates
  <2>5. Advances
    BY <2>2, <2>3 DEF Advances, RunFits, Turns, Undecided, PlanningStates
  <2>6. QED
    BY <2>2, <2>3, <2>4, <2>5 DEF RunStep, Turns
(* Or it is rejected, which may end the run.                               *)
<1>RejectsSpecification.
  ASSUME RunFits, NEW m, m.id \in CommandIDs \cup {Fresh}, NEW y, NEW end,
         rejectSpecification(m, y, end)
  PROVE  /\ Ran(m, <<"RejectSpecification", m, y, end>>, RunID)
         /\ m.rev = run.rev /\ RunStep
         /\ run.state = "SPECIFICATION_REVIEW"
  <2> USE <1>RejectsSpecification
  <2>0. run \in RunRow
    BY DEF RunFits
  <2> DEFINE s == IF end THEN "REJECTED" ELSE "DRAFT"
  <2>s. s \in RunStates /\ s \in {"REJECTED", "DRAFT"}
    BY DEF RunStates
  <2> HIDE DEF s
  <2> DEFINE next == [run EXCEPT !.state = s]
  <2>1. NextRow(next, s, run.spec, run.graph, run.exec, run.cand,
                run.verif, run.review, run.approval)
    BY <2>0, <2>s, NextState DEF RunStates
  <2>2. /\ run.state = "SPECIFICATION_REVIEW" /\ m.rev = run.rev
        /\ persistRunTransition(m, <<"RejectSpecification", m, y, end>>, next)
    BY DEF rejectSpecification, validateRunCommand, s
  <2> HIDE DEF next
  <2>3. /\ Ran(m, <<"RejectSpecification", m, y, end>>, RunID)
        /\ Turns(s, run.spec, run.graph, run.exec, run.cand, run.verif,
                 run.review, run.approval)
    BY <2>0, <2>1, <2>2, RunTurns
  <2>4. RunFits'
    BY <2>2, <2>3, <2>s DEF RunFits, Turns, RunStates, PlanningStates
  <2>5. Advances
    BY <2>2, <2>3, <2>s DEF Advances, RunFits, Turns, Undecided, PlanningStates
  <2>6. QED
    BY <2>2, <2>3, <2>4, <2>5 DEF RunStep, Turns, s
(* The same for task graphs.                                               *)
<1>ProposesTaskGraph.
  ASSUME RunFits, NEW m, m.id \in CommandIDs \cup {Fresh},
         NEW y \in Artifacts, proposeTaskGraph(m, y)
  PROVE  /\ Ran(m, <<"ProposeTaskGraph", m, y>>, RunID) /\ m.rev = run.rev
         /\ RunStep
         /\ run.state = "TASK_PLANNING"
  <2> USE <1>ProposesTaskGraph
  <2>0. run \in RunRow
    BY DEF RunFits
  <2> DEFINE next == [run EXCEPT !.state = "TASK_PLAN_REVIEW", !.graph = y]
  <2>1. NextRow(next, "TASK_PLAN_REVIEW", run.spec, y, run.exec,
                run.cand, run.verif, run.review, run.approval)
    BY <2>0, <1>NextGraph DEF RunStates
  <2>2. /\ run.state = "TASK_PLANNING" /\ m.rev = run.rev /\ y # Nil
        /\ persistRunTransition(m, <<"ProposeTaskGraph", m, y>>, next)
    BY NilAssumption DEF proposeTaskGraph, validateRunCommand
  <2> HIDE DEF next
  <2>3. /\ Ran(m, <<"ProposeTaskGraph", m, y>>, RunID)
        /\ Turns("TASK_PLAN_REVIEW", run.spec, y, run.exec, run.cand,
                 run.verif, run.review, run.approval)
    BY <2>0, <2>1, <2>2, RunTurns
  <2>4. RunFits'
    BY <2>2, <2>3 DEF RunFits, Turns, RunStates, PlanningStates
  <2>5. Advances
    BY <2>2, <2>3 DEF Advances, RunFits, Turns, Undecided, PlanningStates
  <2>6. QED
    BY <2>2, <2>3, <2>4, <2>5 DEF RunStep, Turns
(* A rejected graph may end the run too.                                   *)
<1>RejectsTaskGraph.
  ASSUME RunFits, NEW m, m.id \in CommandIDs \cup {Fresh}, NEW y, NEW end,
         rejectTaskGraph(m, y, end)
  PROVE  /\ Ran(m, <<"RejectTaskGraph", m, y, end>>, RunID) /\ m.rev = run.rev
         /\ RunStep
         /\ run.state = "TASK_PLAN_REVIEW"
  <2> USE <1>RejectsTaskGraph
  <2>0. run \in RunRow
    BY DEF RunFits
  <2> DEFINE s == IF end THEN "REJECTED" ELSE "TASK_PLANNING"
  <2>s. s \in RunStates /\ s \in {"REJECTED", "TASK_PLANNING"}
    BY DEF RunStates
  <2> HIDE DEF s
  <2> DEFINE next == [run EXCEPT !.state = s]
  <2>1. NextRow(next, s, run.spec, run.graph, run.exec, run.cand,
                run.verif, run.review, run.approval)
    BY <2>0, <2>s, NextState DEF RunStates
  <2>2. /\ run.state = "TASK_PLAN_REVIEW" /\ m.rev = run.rev
        /\ persistRunTransition(m, <<"RejectTaskGraph", m, y, end>>, next)
    BY DEF rejectTaskGraph, validateRunCommand, s
  <2> HIDE DEF next
  <2>3. /\ Ran(m, <<"RejectTaskGraph", m, y, end>>, RunID)
        /\ Turns(s, run.spec, run.graph, run.exec, run.cand, run.verif,
                 run.review, run.approval)
    BY <2>0, <2>1, <2>2, RunTurns
  <2>4. RunFits'
    BY <2>2, <2>3, <2>s DEF RunFits, Turns, RunStates, PlanningStates
  <2>5. Advances
    BY <2>2, <2>3, <2>s DEF Advances, RunFits, Turns, Undecided, PlanningStates
  <2>6. QED
    BY <2>2, <2>3, <2>4, <2>5 DEF RunStep, Turns, s
(* The run is rejected.                                                    *)
<1>RejectsRun.
  ASSUME RunFits, NEW m, m.id \in CommandIDs \cup {Fresh}, NEW r, NEW c,
         rejectRun(m, r, c)
  PROVE  /\ Ran(m, <<"RejectRun", m, c, r>>, RunID) /\ m.rev = run.rev
         /\ RunStep
         /\ run.state = "AWAITING_APPROVAL"
         /\ run'.state = "REJECTED"
  <2> USE <1>RejectsRun
  <2>0. run \in RunRow
    BY DEF RunFits
  <2> DEFINE next == [run EXCEPT !.state = "REJECTED"]
  <2>1. NextRow(next, "REJECTED", run.spec, run.graph, run.exec,
                run.cand, run.verif, run.review, run.approval)
    BY <2>0, NextState DEF RunStates
  <2>2. /\ run.state = "AWAITING_APPROVAL" /\ m.rev = run.rev
        /\ persistRunTransition(m, <<"RejectRun", m, c, r>>, next)
    BY DEF rejectRun, validateRunCommand
  <2> HIDE DEF next
  <2>3. /\ Ran(m, <<"RejectRun", m, c, r>>, RunID)
        /\ Turns("REJECTED", run.spec, run.graph, run.exec, run.cand,
                 run.verif, run.review, run.approval)
    BY <2>0, <2>1, <2>2, RunTurns
  <2>4. RunFits'
    BY <2>2, <2>3 DEF RunFits, Turns, RunStates, PlanningStates
  <2>5. Advances
    BY <2>2, <2>3 DEF Advances, RunFits, Turns, Undecided, PlanningStates
  <2>6. QED
    BY <2>2, <2>3, <2>4, <2>5 DEF RunStep, Turns
(* A command that is new: it is recorded, and the request is served.       *)
<1>RouteNew.
  ASSUME handler[h].pc = "command", NEW step, Commands(k, step),
         step # "approve-task-graph", NEW m, m.id = <<k, step>>,
         m.rev = x.rev, NEW d, d[2] = m, Ran(m, d, RunID), m.rev = run.rev,
         RunStep, step = "approve-specification" => Specified(d[3])',
         step = "reject-run" => run'.state = "REJECTED",
         run.state \in PlanningStates \/ run'.state = "REJECTED",
         NEW pc \in {"respond", "checkpoint-specification"},
         pc = "checkpoint-specification" => Specified(x.spec)', goto(h, pc),
         UNCHANGED <<request, answer, binding, jobs, approvals, retryState>>
  PROVE  APIInv'
  <2> USE <1>RouteNew
  <2>1. /\ k \in Keys /\ request[k] # Nil /\ x.rev = request[k].rev
        /\ StepOf(request[k].route) = step /\ step \in RunSteps
    BY AtCommand, CommandsStep
  <2>2. /\ Advances /\ RunFits' /\ task' = task /\ run'.rev = run.rev + 1
        /\ RunFits /\ LedgersFit /\ TasksFit
    BY DEF RunStep, APIInv
  <2>3. m.id \in CommandIDs /\ m.id[2] = step
    <3>1. Keys \X Steps \subseteq CommandIDs
      BY NamesAssumption
    <3>2. step \in Steps
      BY <2>1, RouteNames
    <3>3. <<k, step>> \in CommandIDs
      BY <2>1, <3>1, <3>2
    <3>4. <<k, step>>[2] = step
      BY SMT
    <3>5. QED
      BY <3>3, <3>4
  <2>4. /\ m.id \in DOMAIN commands' /\ commands'[m.id].digest = d
        /\ \A i \in DOMAIN commands : commands'[i] = commands[i]
    BY <2>3 DEF Ran
  <2>5. run.rev \in Nat
    BY <2>2 DEF RunFits, RunRow
  <2>6. run.rev < run'.rev
    BY SMTT(20), <2>2, <2>5
  <2>7. LedgerFits(m.id)'
    <3>1. step \notin {"apply", "approve-run", "cancel-run"}
      BY <2>1, RouteNames
    <3>2. commands'[m.id].digest[2].rev \in Nat
          /\ commands'[m.id].digest[2].rev < run'.rev
      BY <2>4, <2>5, <2>6
    <3>3. step = "approve-specification" =>
            Specified(commands[m.id].digest[3])'
      BY <2>4 DEF Specified
    <3>4. QED
      BY <2>3, <3>1, <3>2, <3>3 DEF LedgerFits
  <2>8. LedgersFit' /\ Grown
    BY <2>1, <2>2, <2>3, <2>7, RouteNames, LedgersGrow
  <2>9. Grows /\ \A g \in Handlers : Reserved(g)
    BY <2>2, <2>8, GrowsSame
  <2>10. TasksFit'
    BY <2>2 DEF TasksFit, TaskFits
  <2>11. Done(k, step)'
    BY <2>4 DEF Done
  <2>12. Served(k)'
    <3>1. /\ commands'[<<k, step>>].digest = d /\ d[2].rev = request[k].rev
          /\ request'[k] = request[k]
      BY <2>1, <2>4
    <3>2. QED
      BY <2>11, <3>1, CommandServes
  <2>13. Fits(pc, k, x, t, a)'
    BY <2>1, <2>12, RouteFitsNext
  <2>14. Becomes(h, pc, k, x, t, a) /\ pc # "decide"
    BY GotoBecomes, Places
  <2>15. HandlersFit' /\ OneOwner'
    BY <2>9, <2>10, <2>13, <2>14, HandlersStep
  <2>16. MergeFits'
    <3>1. run'.state = "MERGE_READY" => task'[T].state = "ACCEPTED"
      BY <2>2 DEF RunFits
    <3>2. run.state \in PlanningStates => task[T].state = "NONE"
      BY <2>2 DEF RunFits
    <3>3. run'.state # "MERGE_READY"
      BY <2>2, <3>1, <3>2
    <3>4. QED
      BY <2>2, <2>9, <3>3, MergeKept
  <2>17. QED
    BY <2>8, <2>15, <2>16, NoReply, RunCommandKeeps
(* A command that was applied before: the request is served as well.       *)
<1>RouteReplay.
  ASSUME handler[h].pc = "command", NEW step, Commands(k, step), NEW m,
         m.id = <<k, step>>, m.rev = x.rev, NEW d, d[2] = m,
         loadCommandResult(m, d) = "replay",
         NEW pc \in {"respond", "checkpoint-specification"},
         pc = "checkpoint-specification" =>
           step = "approve-specification" /\ d[3] = x.spec,
         goto(h, pc),
         UNCHANGED <<vars, request, answer, binding, jobs, approvals,
                     retryState>>
  PROVE  APIInv'
  <2> USE <1>RouteReplay
  <2>1. /\ k \in Keys /\ request[k] # Nil /\ x.rev = request[k].rev
        /\ step \in RunSteps
    BY AtCommand, CommandsStep
  <2>2. m.id \in DOMAIN commands /\ commands[m.id].digest = d
    BY DEF loadCommandResult
  <2>3. commands' = commands /\ Advances
    BY StillAdvances DEF vars
  <2>4. <<k, step>>[2] = step
    BY SMT
  <2>5. LedgerFits(m.id)
    BY <2>2 DEF APIInv, LedgersFit
  <2>6. pc = "checkpoint-specification" => Specified(x.spec)
    BY <2>2, <2>4, <2>5 DEF LedgerFits
  <2>7. Done(k, step)'
    BY <2>2, <2>3 DEF Done
  <2>8. /\ commands'[<<k, step>>].digest = d /\ d[2].rev = request[k].rev
        /\ request'[k] = request[k]
    BY <2>1, <2>2, <2>3
  <2>9. Served(k)'
    BY <2>7, <2>8, CommandServes
  <2>10. pc = "checkpoint-specification" => Specified(x.spec)'
    BY <2>3, <2>6, SpecifiedKept
  <2>11. Fits(pc, k, x, t, a)'
    BY <2>1, <2>8, <2>9, <2>10, RouteFitsNext
  <2>12. pc \in HandlerPlaces \ {"decide"}
    BY Places
  <2>13. QED
    BY <2>11, <2>12, GoesOn
(* The second element of a digest.                                         *)
<1>DigestOf.
  ASSUME NEW c, NEW m, NEW z, NEW y
  PROVE  /\ <<c, m, z>>[2] = m /\ <<c, m, z>>[3] = z
         /\ <<c, m, z, y>>[2] = m /\ <<c, m, z, y>>[3] = z
  BY <1>DigestOf, SMT
(* POST /specification.                                                    *)
<1>SpecificationKeeps.
  ASSUME handler[h].pc = "command", request[k].route = "specification", NEW m,
         m = serviceMeta(h, "specification"), NEW d,
         d = <<"ProposeSpecification", m, RefOf("spec", k)>>,
         execute(h, m, d, proposeSpecification(m, RefOf("spec", k)),
                 "respond"),
         UNCHANGED <<request, binding, jobs, approvals, retryState>>
  PROVE  APIInv'
  <2> USE <1>SpecificationKeeps
  <2>1. m.id = <<k, "specification">> /\ m.rev = x.rev
    BY DEF serviceMeta, envelope, Holds, keyOf
  <2>2. d[2] = m /\ Commands(k, "specification")
    BY <1>DigestOf DEF Commands, PlanningRoutes
  <2>3. k \in Keys
    BY AtCommand
  <2>4. m.id \in CommandIDs /\ RefOf("spec", k) \in Artifacts
    BY <2>1, <2>3, NamesAssumption DEF Steps, RefOf
  <2>5. CASE proposeSpecification(m, RefOf("spec", k)) /\ goto(h, "respond")
             /\ UNCHANGED answer
    <3>1. /\ Ran(m, d, RunID) /\ m.rev = run.rev /\ RunStep
          /\ run.state = "DRAFT"
      BY <2>4, <2>5, <1>ProposesSpecification DEF APIInv
    <3>2. QED
      BY <2>1, <2>2, <2>5, <3>1, <1>RouteNew DEF PlanningStates
  <2>6. CASE loadCommandResult(m, d) = "replay" /\ goto(h, "respond")
             /\ UNCHANGED <<vars, answer>>
    BY <2>1, <2>2, <2>6, <1>RouteReplay
  <2>7. CASE respond(h, "refused") /\ UNCHANGED vars
    BY <2>7, GivesUp
  <2>8. QED
    BY <2>5, <2>6, <2>7 DEF execute
(* POST /approve-specification.                                            *)
<1>ApproveSpecificationKeeps.
  ASSUME handler[h].pc = "command",
         request[k].route = "approve-specification", NEW m,
         m = humanMeta(h, "approve-specification"), NEW d,
         d = <<"ApproveSpecification", m, x.spec>>,
         execute(h, m, d, approveSpecification(m, x.spec),
                 "checkpoint-specification"),
         UNCHANGED <<request, binding, jobs, approvals, retryState>>
  PROVE  APIInv'
  <2> USE <1>ApproveSpecificationKeeps
  <2>1. m.id = <<k, "approve-specification">> /\ m.rev = x.rev
    BY DEF humanMeta, envelope, Holds, keyOf
  <2>2. d[2] = m /\ d[3] = x.spec /\ Commands(k, "approve-specification")
    BY <1>DigestOf DEF Commands, PlanningRoutes, PlanRejections
  <2>3. k \in Keys
    BY AtCommand
  <2>4. m.id \in CommandIDs
    BY <2>1, <2>3, NamesAssumption DEF Steps, RefOf
  <2>5. CASE approveSpecification(m, x.spec)
             /\ goto(h, "checkpoint-specification") /\ UNCHANGED answer
    <3>1. /\ Ran(m, d, RunID) /\ m.rev = run.rev /\ RunStep
          /\ run.state = "SPECIFICATION_REVIEW"
          /\ x.spec # Nil /\ run'.spec = x.spec
          /\ run'.state = "TASK_PLANNING"
      BY <2>4, <2>5, <1>ApprovesSpecification DEF APIInv
    <3>2. Specified(x.spec)'
      BY <3>1 DEF Specified, Undecided
    <3>3. QED
      BY <2>1, <2>2, <2>5, <3>1, <3>2, <1>RouteNew DEF PlanningStates
  <2>6. CASE /\ loadCommandResult(m, d) = "replay"
             /\ goto(h, "checkpoint-specification")
             /\ UNCHANGED <<vars, answer>>
    BY <2>1, <2>2, <2>6, <1>RouteReplay
  <2>7. CASE respond(h, "refused") /\ UNCHANGED vars
    BY <2>7, GivesUp
  <2>8. QED
    BY <2>5, <2>6, <2>7 DEF execute
(* POST /reject-specification.                                             *)
<1>RejectSpecificationKeeps.
  ASSUME handler[h].pc = "command", request[k].route = "reject-specification",
         NEW m, m = humanMeta(h, "reject-specification"), NEW end, NEW d,
         d = <<"RejectSpecification", m, x.spec, end>>,
         execute(h, m, d, rejectSpecification(m, x.spec, end), "respond"),
         UNCHANGED <<request, binding, jobs, approvals, retryState>>
  PROVE  APIInv'
  <2> USE <1>RejectSpecificationKeeps
  <2>1. m.id = <<k, "reject-specification">> /\ m.rev = x.rev
    BY DEF humanMeta, envelope, Holds, keyOf
  <2>2. d[2] = m /\ Commands(k, "reject-specification")
    BY <1>DigestOf DEF Commands, PlanningRoutes, PlanRejections
  <2>3. k \in Keys
    BY AtCommand
  <2>4. m.id \in CommandIDs
    BY <2>1, <2>3, NamesAssumption DEF Steps, RefOf
  <2>5. CASE rejectSpecification(m, x.spec, end)
             /\ goto(h, "respond") /\ UNCHANGED answer
    <3>1. /\ Ran(m, d, RunID) /\ m.rev = run.rev /\ RunStep
          /\ run.state = "SPECIFICATION_REVIEW"
      BY <2>4, <2>5, <1>RejectsSpecification DEF APIInv
    <3>3. QED
      BY <2>1, <2>2, <2>5, <3>1, <1>RouteNew DEF PlanningStates
  <2>6. CASE loadCommandResult(m, d) = "replay" /\ goto(h, "respond")
             /\ UNCHANGED <<vars, answer>>
    BY <2>1, <2>2, <2>6, <1>RouteReplay
  <2>7. CASE respond(h, "refused") /\ UNCHANGED vars
    BY <2>7, GivesUp
  <2>8. QED
    BY <2>5, <2>6, <2>7 DEF execute
(* POST /task-graph.                                                       *)
<1>TaskGraphKeeps.
  ASSUME handler[h].pc = "command", request[k].route = "task-graph", NEW m,
         m = serviceMeta(h, "task-graph"), NEW d,
         d = <<"ProposeTaskGraph", m, RefOf("graph", k)>>,
         execute(h, m, d, proposeTaskGraph(m, RefOf("graph", k)), "respond"),
         UNCHANGED <<request, binding, jobs, approvals, retryState>>
  PROVE  APIInv'
  <2> USE <1>TaskGraphKeeps
  <2>1. m.id = <<k, "task-graph">> /\ m.rev = x.rev
    BY DEF serviceMeta, envelope, Holds, keyOf
  <2>2. d[2] = m /\ Commands(k, "task-graph")
    BY <1>DigestOf DEF Commands, PlanningRoutes, PlanRejections
  <2>3. k \in Keys
    BY AtCommand
  <2>4. m.id \in CommandIDs /\ RefOf("graph", k) \in Artifacts
    BY <2>1, <2>3, NamesAssumption DEF Steps, RefOf
  <2>5. CASE proposeTaskGraph(m, RefOf("graph", k))
             /\ goto(h, "respond") /\ UNCHANGED answer
    <3>1. /\ Ran(m, d, RunID) /\ m.rev = run.rev /\ RunStep
          /\ run.state = "TASK_PLANNING"
      BY <2>4, <2>5, <1>ProposesTaskGraph DEF APIInv
    <3>3. QED
      BY <2>1, <2>2, <2>5, <3>1, <1>RouteNew DEF PlanningStates
  <2>6. CASE loadCommandResult(m, d) = "replay" /\ goto(h, "respond")
             /\ UNCHANGED <<vars, answer>>
    BY <2>1, <2>2, <2>6, <1>RouteReplay
  <2>7. CASE respond(h, "refused") /\ UNCHANGED vars
    BY <2>7, GivesUp
  <2>8. QED
    BY <2>5, <2>6, <2>7 DEF execute
(* POST /reject-task-graph.                                                *)
<1>RejectTaskGraphKeeps.
  ASSUME handler[h].pc = "command", request[k].route = "reject-task-graph",
         NEW m, m = humanMeta(h, "reject-task-graph"), NEW end, NEW d,
         d = <<"RejectTaskGraph", m, x.graph, end>>,
         execute(h, m, d, rejectTaskGraph(m, x.graph, end), "respond"),
         UNCHANGED <<request, binding, jobs, approvals, retryState>>
  PROVE  APIInv'
  <2> USE <1>RejectTaskGraphKeeps
  <2>1. m.id = <<k, "reject-task-graph">> /\ m.rev = x.rev
    BY DEF humanMeta, envelope, Holds, keyOf
  <2>2. d[2] = m /\ Commands(k, "reject-task-graph")
    BY <1>DigestOf DEF Commands, PlanningRoutes, PlanRejections
  <2>3. k \in Keys
    BY AtCommand
  <2>4. m.id \in CommandIDs
    BY <2>1, <2>3, NamesAssumption DEF Steps, RefOf
  <2>5. CASE rejectTaskGraph(m, x.graph, end)
             /\ goto(h, "respond") /\ UNCHANGED answer
    <3>1. /\ Ran(m, d, RunID) /\ m.rev = run.rev /\ RunStep
          /\ run.state = "TASK_PLAN_REVIEW"
      BY <2>4, <2>5, <1>RejectsTaskGraph DEF APIInv
    <3>3. QED
      BY <2>1, <2>2, <2>5, <3>1, <1>RouteNew DEF PlanningStates
  <2>6. CASE loadCommandResult(m, d) = "replay" /\ goto(h, "respond")
             /\ UNCHANGED <<vars, answer>>
    BY <2>1, <2>2, <2>6, <1>RouteReplay
  <2>7. CASE respond(h, "refused") /\ UNCHANGED vars
    BY <2>7, GivesUp
  <2>8. QED
    BY <2>5, <2>6, <2>7 DEF execute
(* POST /reject.                                                           *)
<1>RejectRunKeeps.
  ASSUME handler[h].pc = "command", request[k].route = "reject", NEW m,
         m = humanMeta(h, "reject-run"), NEW d,
         d = <<"RejectRun", m, x.cand, x.review>>,
         execute(h, m, d, rejectRun(m, x.review, x.cand), "respond"),
         UNCHANGED <<request, binding, jobs, approvals, retryState>>
  PROVE  APIInv'
  <2> USE <1>RejectRunKeeps
  <2>1. m.id = <<k, "reject-run">> /\ m.rev = x.rev
    BY DEF humanMeta, envelope, Holds, keyOf
  <2>2. d[2] = m /\ Commands(k, "reject-run")
    BY <1>DigestOf DEF Commands, PlanningRoutes, PlanRejections
  <2>3. k \in Keys
    BY AtCommand
  <2>4. m.id \in CommandIDs
    BY <2>1, <2>3, NamesAssumption DEF Steps, RefOf
  <2>5. CASE rejectRun(m, x.review, x.cand)
             /\ goto(h, "respond") /\ UNCHANGED answer
    <3>1. /\ Ran(m, d, RunID) /\ m.rev = run.rev /\ RunStep
          /\ run'.state = "REJECTED"
      BY <2>4, <2>5, <1>RejectsRun DEF APIInv
    <3>2. /\ "reject-run" # "approve-task-graph"
          /\ "reject-run" # "approve-specification"
          /\ "respond" # "checkpoint-specification"
          /\ "respond" \in {"respond", "checkpoint-specification"}
          /\ UNCHANGED <<request, answer, binding, jobs, approvals,
                         retryState>>
          /\ run.state \in PlanningStates \/ run'.state = "REJECTED"
      BY <2>5, <3>1
    <3>3. QED
      BY <2>1, <2>2, <2>5, <3>1, <3>2, <1>RouteNew
  <2>6. CASE loadCommandResult(m, d) = "replay" /\ goto(h, "respond")
             /\ UNCHANGED <<vars, answer>>
    BY <2>1, <2>2, <2>6, <1>RouteReplay
  <2>7. CASE respond(h, "refused") /\ UNCHANGED vars
    BY <2>7, GivesUp
  <2>8. QED
    BY <2>5, <2>6, <2>7 DEF execute
(* The workflow service may not cancel a run.                              *)
<1>CancelRunKeeps.
  ASSUME handler[h].pc = "command", NEW m, m = serviceMeta(h, "cancel-run"),
         NEW d, execute(h, m, d, cancelRun(m), "respond"),
         UNCHANGED <<request, binding, jobs, approvals, retryState>>
  PROVE  APIInv'
  <2> USE <1>CancelRunKeeps
  <2>1. m.id = <<k, "cancel-run">> /\ m.actor = "WORKFLOW_SERVICE"
    BY DEF serviceMeta, envelope, Holds, keyOf
  <2>2. ~cancelRun(m)
    BY <2>1 DEF cancelRun
  <2>3. loadCommandResult(m, d) # "replay"
    <3>1. <<k, "cancel-run">>[2] = "cancel-run"
      BY SMT
    <3>2. m.id \in DOMAIN commands => LedgerFits(m.id)
      BY DEF APIInv, LedgersFit
    <3>3. m.id \notin DOMAIN commands
      BY <2>1, <3>1, <3>2 DEF LedgerFits
    <3>4. QED
      BY <3>3 DEF loadCommandResult
  <2>4. respond(h, "refused") /\ UNCHANGED vars
    BY <2>2, <2>3 DEF execute
  <2>5. QED
    BY <2>4, GivesUp
<1>1. /\ handler[h].pc = "command"
      /\ UNCHANGED <<request, binding, jobs, approvals, retryState>>
  BY DEF RunCommand
<1>2. /\ keyOf(h) = k /\ handler[h].run = x
      /\ req(h) = request[k]
  BY DEF Holds, keyOf, req
<1>3. PICK p : p = serviceMeta(h, "specification")
  OBVIOUS
<1>4. CASE /\ request[k].route = "specification"
           /\ execute(h, p, <<"ProposeSpecification", p, RefOf("spec", k)>>,
                      proposeSpecification(p, RefOf("spec", k)), "respond")
  BY <1>1, <1>3, <1>4, <1>SpecificationKeeps
<1>5. PICK s : s = humanMeta(h, "approve-specification")
  OBVIOUS
<1>6. CASE /\ request[k].route = "approve-specification"
           /\ execute(h, s, <<"ApproveSpecification", s, x.spec>>,
                      approveSpecification(s, x.spec),
                      "checkpoint-specification")
  BY <1>1, <1>5, <1>6, <1>ApproveSpecificationKeeps
<1>7. PICK r : r = humanMeta(h, "reject-specification")
  OBVIOUS
<1>8. PICK end : end = request[k].terminal
  OBVIOUS
<1>9. CASE /\ request[k].route = "reject-specification"
           /\ execute(h, r, <<"RejectSpecification", r, x.spec, end>>,
                      rejectSpecification(r, x.spec, end), "respond")
  BY <1>1, <1>7, <1>9, <1>RejectSpecificationKeeps
<1>10. SpecificationRoutes(h) => APIInv'
  BY <1>2, <1>3, <1>4, <1>5, <1>6, <1>7, <1>8, <1>9 DEF SpecificationRoutes
<1>11. PICK g : g = serviceMeta(h, "task-graph")
  OBVIOUS
<1>12. CASE /\ request[k].route = "task-graph"
            /\ execute(h, g, <<"ProposeTaskGraph", g, RefOf("graph", k)>>,
                       proposeTaskGraph(g, RefOf("graph", k)), "respond")
  BY <1>1, <1>11, <1>12, <1>TaskGraphKeeps
<1>13. PICK j : j = humanMeta(h, "reject-task-graph")
  OBVIOUS
<1>14. CASE /\ request[k].route = "reject-task-graph"
            /\ execute(h, j, <<"RejectTaskGraph", j, x.graph, end>>,
                       rejectTaskGraph(j, x.graph, end), "respond")
  BY <1>1, <1>13, <1>14, <1>RejectTaskGraphKeeps
<1>15. TaskGraphRoutes(h) => APIInv'
  BY <1>2, <1>8, <1>11, <1>12, <1>13, <1>14 DEF TaskGraphRoutes
<1>16. PICK m : m = humanMeta(h, "reject-run")
  OBVIOUS
<1>17. CASE /\ request[k].route = "reject"
            /\ execute(h, m, <<"RejectRun", m, x.cand, x.review>>,
                       rejectRun(m, x.review, x.cand), "respond")
  BY <1>1, <1>16, <1>17, <1>RejectRunKeeps
<1>18. RejectRoute(h) => APIInv'
  BY <1>2, <1>16, <1>17 DEF RejectRoute
<1>19. PICK c : c = serviceMeta(h, "cancel-run")
  OBVIOUS
<1>20. CASE execute(h, c, <<"CancelRun", c>>, cancelRun(c), "respond")
  BY <1>1, <1>19, <1>20, <1>CancelRunKeeps
<1>21. CancelRoute(h) => APIInv'
  BY <1>19, <1>20 DEF CancelRoute
<1>22. QED
  BY <1>10, <1>15, <1>18, <1>21 DEF RunCommand

(* POST /retry.                                                            *)
LEMMA RetryTaskRouteKeeps ==
  ASSUME APIInv, NEW h \in Handlers, NEW k, NEW x, NEW t, NEW a,
         Holds(h, k, x, t, a), RetryTaskRoute(h)
  PROVE  APIInv'
(* A retry keeps the attempt and forgets what it produced.                 *)
<1>NextTaskRetried.
  ASSUME task[T] \in TaskRow, NEW s \in TaskStates
  PROVE  NextTask([task[T] EXCEPT
                     !.state = s, !.lease = Nil, !.proposal = Nil,
                     !.exec = Nil, !.cand = Nil, !.verif = Nil,
                     !.review = Nil, !.approval = Nil],
                  s, task[T].attempt, Nil, Nil, Nil, Nil, Nil)
  BY <1>NextTaskRetried DEF NextTask, TaskRow, OptBinding, OptCommit
(* RetryTask keeps the attempt, and never touches a task that is leased or *)
(* accepted.                                                               *)
<1>RetriesTask.
  ASSUME TasksFit, NEW m, m.id \in CommandIDs \cup {Fresh}, retryTask(m, T)
  PROVE  /\ Ran(m, <<"RetryTask", m, T>>, T) /\ TaskStep
         /\ task'[T].attempt = task[T].attempt
         /\ task[T].state \notin {"LEASED", "ACCEPTED"}
         /\ task'[T].state \in {"READY", "FAILED"}
  <2> USE <1>RetriesTask
  <2>0. /\ task[T] \in TaskRow /\ task[T].attempt \in Nat
        /\ task[T].attempt <= task[T].max
    BY DEF TasksFit, TaskFits, TaskRow
  <2> DEFINE s == IF attemptsLeft(T) THEN "READY" ELSE "FAILED"
  <2>1. s \in {"READY", "FAILED"} /\ s \in TaskStates
    BY DEF TaskStates
  <2> DEFINE next == retried(T)
  <2>2. next = [task[T] EXCEPT
                  !.state = s, !.lease = Nil, !.proposal = Nil, !.exec = Nil,
                  !.cand = Nil, !.verif = Nil, !.review = Nil,
                  !.approval = Nil]
    BY DEF retried
  <2>3. /\ run.state = "EXECUTING"
        /\ task[T].state \in {"PROPOSAL_REJECTED", "REWORK_REQUIRED"}
        /\ persistTaskTransition(m, <<"RetryTask", m, T>>, T, next)
    BY DEF retryTask, validateTaskRunGate
  <2> HIDE DEF s, next
  <2>4. NextTask(next, s, task[T].attempt, Nil, Nil, Nil, Nil, Nil)
    BY <2>0, <2>1, <2>2, <1>NextTaskRetried
  <2>5. /\ Ran(m, <<"RetryTask", m, T>>, T)
        /\ TaskTurns(s, task[T].attempt, Nil, Nil, Nil, Nil, Nil)
    BY <2>3, <2>4, TaskWrites
  <2>6. TasksFit'
    BY <2>0, <2>1, <2>5, TaskAfter
  <2>7. task[T].attempt <= task[T].attempt
    BY <2>0, SMT
  <2>8. Advances
    BY <2>1, <2>3, <2>5, <2>7 DEF Advances, TaskTurns
  <2>9. QED
    BY <2>1, <2>3, <2>5, <2>6, <2>8 DEF TaskStep, TaskTurns
(* The task is retried.                                                    *)
<1>RetryNewKeeps.
  ASSUME handler[h].pc = "command", request[k].route = "retry", NEW m,
         m.id = <<k, "retry-task">>, retryTask(m, T), goto(h, "retried"),
         retryState' = [retryState EXCEPT ![k] =
                          IF task'[T] # task[T] THEN task'[T].state ELSE @],
         UNCHANGED <<answer, request, binding, jobs, approvals>>
  PROVE  APIInv'
  <2> USE <1>RetryNewKeeps
  <2>1. k \in Keys /\ request[k] # Nil
    BY AtCommand
  <2>2. <<k, "retry-task">>[2] = "retry-task"
    BY SMT
  <2>3. m.id \in CommandIDs /\ "retry-task" \notin RunSteps
    BY <2>1, NamesAssumption DEF Steps, RunSteps, PlanningRoutes,
       PlanRejections
  <2>4. TasksFit /\ RunFits /\ LedgersFit /\ RetriesFit /\ JobsFit
    BY DEF APIInv
  <2>5. PICK d : d = <<"RetryTask", m, T>>
    OBVIOUS
  <2>6. /\ Ran(m, d, T) /\ TaskStep /\ task'[T].attempt = task[T].attempt
        /\ task[T].state \notin {"LEASED", "ACCEPTED"}
        /\ task'[T].state \in {"READY", "FAILED"}
    BY <2>3, <2>4, <2>5, <1>RetriesTask
  <2>7. /\ Advances /\ TasksFit' /\ run' = run /\ run.state = "EXECUTING"
    BY <2>6 DEF TaskStep
  <2>8. RunFits'
    BY <2>4, <2>7 DEF RunFits, PlanningStates
  <2>9. LedgerFits(m.id)'
    BY <2>2, <2>3 DEF LedgerFits
  <2>10. LedgersFit' /\ Grown
    BY <2>2, <2>3, <2>4, <2>6, <2>7, <2>8, <2>9, LedgersGrow
  <2>11. JobsFit'
    BY <2>4, <2>6, JobsKept
  <2>12. RetriesFit'
    <3>1. retryState' \in [Keys -> {Nil, "READY", "FAILED"}]
      BY <2>1, <2>4, <2>6 DEF RetriesFit
    <3>2. QED
      BY <2>6, <3>1 DEF RetriesFit
  <2>13. Grows /\ \A g \in Handlers : Reserved(g)
    BY <2>7, <2>10, GrowsSame
  <2>14. Fits("retried", k, x, t, a)'
    BY <2>1 DEF Fits, RouteFits, Approving, Decided, Applied, Completed, Bound
  <2>15. Becomes(h, "retried", k, x, t, a)
    BY GotoBecomes, Places
  <2>16. HandlersFit' /\ OneOwner'
    BY <2>7, <2>13, <2>14, <2>15, HandlersStep
  <2>17. QED
    BY <2>6, <2>10, <2>11, <2>12, <2>16, NoReply, TaskCommandKeeps
<1>1. /\ keyOf(h) = k /\ req(h) = request[k]
  BY DEF Holds, keyOf, req
<1>2. PICK m : m = envelope(h, "retry-task", "WORKFLOW_SERVICE",
                            request[k].rev)
  OBVIOUS
<1>3. m.id = <<k, "retry-task">>
  BY <1>1, <1>2 DEF envelope
<1>4. /\ handler[h].pc = "command" /\ request[k].route = "retry"
      /\ execute(h, m, <<"RetryTask", m, T>>, retryTask(m, T), "retried")
      /\ retryState' = [retryState EXCEPT ![k] =
           IF task'[T] # task[T] THEN task'[T].state ELSE @]
      /\ UNCHANGED <<request, binding, jobs, approvals>>
  BY <1>1, <1>2 DEF RetryTaskRoute
<1>5. k \in Keys /\ request[k] # Nil
  BY <1>4, AtCommand
<1>6. ASSUME UNCHANGED vars
      PROVE  retryState' = retryState
  <2>1. task' = task
    BY <1>6 DEF vars
  <2>2. retryState \in [Keys -> {Nil, "READY", "FAILED"}]
    BY DEF APIInv, RetriesFit
  <2>3. retryState' = [retryState EXCEPT ![k] = retryState[k]]
    BY <1>4, <2>1
  <2>4. QED
    BY SMTT(20), <1>5, <2>2, <2>3
<1>7. CASE retryTask(m, T) /\ goto(h, "retried") /\ UNCHANGED answer
  BY <1>3, <1>4, <1>7, <1>RetryNewKeeps
<1>8. CASE goto(h, "retried") /\ UNCHANGED <<vars, answer>>
  <2>1. Fits("retried", k, x, t, a)'
    BY <1>4, <1>5 DEF Fits, RouteFits, Approving, Decided, Applied, Completed,
                      Bound
  <2>2. "retried" \in HandlerPlaces \ {"decide"}
    BY Places
  <2>3. UNCHANGED vars
    BY <1>8
  <2>4. QED
    BY <1>4, <1>6, <1>8, <2>1, <2>2, <2>3, GoesOn
<1>9. CASE respond(h, "refused") /\ UNCHANGED vars
  BY <1>4, <1>6, <1>9, GivesUp
<1>10. QED
  BY <1>4, <1>7, <1>8, <1>9 DEF execute

(* A decision is applied to the task, was applied before, or is refused.   *)
LEMMA ApplyDecisionKeeps ==
  ASSUME APIInv, NEW h \in Handlers, NEW k, NEW x, NEW t, NEW a,
         Holds(h, k, x, t, a), ApplyDecision(h)
  PROVE  APIInv'
(* The row of the task with its approval.                                  *)
<1>NextTaskApproval.
  ASSUME task[T] \in TaskRow, NEW s \in TaskStates, NEW b \in Binding
  PROVE  NextTask([task[T] EXCEPT !.state = s, !.approval = b], s,
                  task[T].attempt, task[T].exec, task[T].cand, task[T].verif,
                  task[T].review, b)
  BY <1>NextTaskApproval DEF NextTask, TaskRow, OptBinding
(* The task is accepted with its evidence as it is.                        *)
<1>ApprovesTask.
  ASSUME TasksFit, NEW m, m.id \in CommandIDs \cup {Fresh}, NEW r,
         NEW y \in Artifacts, NEW c \in Commits, approveTask(m, T, r, y, c)
  PROVE  /\ Ran(m, <<"ApproveTask", m, T, c, r, y>>, T) /\ m.rev = task[T].rev
         /\ TaskStep
         /\ task[T].state = "AWAITING_APPROVAL"
         /\ task'[T].state = "ACCEPTED" /\ task'[T].approval.ref = y
         /\ task'[T].rev = task[T].rev + 1
         /\ task'[T].attempt = task[T].attempt
         /\ task'[T].exec = task[T].exec /\ task'[T].cand = task[T].cand
         /\ task'[T].verif = task[T].verif /\ task'[T].review = task[T].review
  <2> USE <1>ApprovesTask
  <2>0. task[T] \in TaskRow /\ task[T].attempt \in Nat
    BY DEF TasksFit, TaskFits, TaskRow
  <2> DEFINE b == bound(T, y, c, TRUE)
  <2>b. b \in Binding /\ b # Nil /\ (TRUE => b.passed) /\ b.ref = y
    BY BoundBinding DEF OptCommit
  <2> HIDE DEF b
  <2> DEFINE next == [task[T] EXCEPT !.state = "ACCEPTED", !.approval = b]
  <2>1. NextTask(next, "ACCEPTED", task[T].attempt, task[T].exec,
                task[T].cand, task[T].verif, task[T].review, b)
    BY <2>0, <2>b, <1>NextTaskApproval DEF TaskStates
  <2>2. /\ run.state = "EXECUTING" /\ task[T].state = "AWAITING_APPROVAL"
        /\ m.rev = task[T].rev
        /\ persistTaskTransition(m, <<"ApproveTask", m, T, c, r, y>>, T, next)
    BY DEF approveTask, validateTaskCommand, validateTaskRunGate, b
  <2> HIDE DEF next
  <2>3. /\ Ran(m, <<"ApproveTask", m, T, c, r, y>>, T)
        /\ TaskTurns("ACCEPTED", task[T].attempt, task[T].exec,
                 task[T].cand, task[T].verif, task[T].review, b)
    BY <2>1, <2>2, TaskWrites
  <2>4. TasksFit'
    BY ZenonT(30), <2>2, <2>3, <2>b, TaskAfter DEF TasksFit, TaskFits
  <2>5. Advances
    BY <2>0, <2>2, <2>3, SMTT(30) DEF Advances, TaskTurns
  <2>6. QED
    BY <2>b, <2>2, <2>3, <2>4, <2>5 DEF TaskStep, TaskTurns
(* The digest of the task's approval.                                      *)
<1>ApplyDigest.
  ASSUME NEW c, NEW m, NEW o, NEW y, NEW r, NEW b
  PROVE  <<c, m, o, y, r, b>>[2] = m /\ <<c, m, o, y, r, b>>[6] = b
  BY <1>ApplyDigest, SMT
(* Where a decision that was applied leads.                                *)
<1>AppliedFits.
  ASSUME NEW l, NEW y, NEW u, NEW b, Fits("apply-decision", l, y, u, b)',
         AcceptedBy(b)', SameEvidence(u)', Done(l, "apply")'
  PROVE  Fits("complete-approval", l, y, u, b)'
  <2> USE <1>AppliedFits
  <2>1. /\ l \in Keys /\ request'[l] # Nil
        /\ RouteFits("apply-decision", request'[l].route)
        /\ Seen(u)' /\ Complete(u)
        /\ approvals'[l].state \in {"decision_ready", "completed"}
        /\ approvals'[l].digest = u /\ approvals'[l].artifact = b /\ b # Nil
    BY DEF Fits, Approving, Decided
  <2>2. RouteFits("complete-approval", request'[l].route)
    BY <2>1 DEF RouteFits, Approving, Decided, Applied
  <2>3. QED
    BY <2>1, <2>2 DEF Fits, Approving, Decided, Applied, Completed, Bound
(* What a handler knows when it applies the decision.                      *)
<1>AtDecision.
  ASSUME handler[h].pc = "apply-decision"
  PROVE  /\ k \in Keys /\ Seen(t) /\ a \in Artifacts /\ t.cand \in Commits
  <2> USE <1>AtDecision
  <2>1. Fits("apply-decision", k, x, t, a)
    BY Knows
  <2>2. /\ k \in Keys /\ Seen(t) /\ Complete(t)
        /\ approvals[k].state \in Decision /\ approvals[k].artifact = a
    BY <2>1 DEF Fits, Approving, Decided, Decision
  <2>3. a \in Artifacts
    BY <2>2, DecidedArtifact
  <2>4. t.cand \in Commits
    BY <2>2 DEF Seen, Complete, TaskRow, OptCommit
  <2>5. QED
    BY <2>2, <2>3, <2>4
(* The decision is applied to the task.                                    *)
<1>ApplyNewKeeps.
  ASSUME handler[h].pc = "apply-decision", NEW m, m.id = <<k, "apply">>,
         m.rev = t.rev, approveTask(m, T, t.review.ref, a, t.cand),
         goto(h, "complete-approval"),
         UNCHANGED <<answer, request, binding, jobs, approvals, retryState>>
  PROVE  APIInv'
  <2> USE <1>ApplyNewKeeps
  <2>1. k \in Keys /\ Seen(t) /\ a \in Artifacts /\ t.cand \in Commits
    BY <1>AtDecision
  <2>2. <<k, "apply">>[2] = "apply"
    BY SMT
  <2>3. m.id \in CommandIDs /\ "apply" \notin RunSteps
    BY <2>1, NamesAssumption, RouteNames DEF Steps
  <2>4. TasksFit /\ RunFits /\ LedgersFit /\ RetriesFit /\ JobsFit
    BY DEF APIInv
  <2>5. PICK d : d = <<"ApproveTask", m, T, t.cand, t.review.ref, a>>
    OBVIOUS
  <2>6. d[2] = m /\ d[6] = a
    BY <2>5, <1>ApplyDigest
  <2>7. /\ Ran(m, d, T) /\ m.rev = task[T].rev /\ TaskStep
        /\ task[T].state = "AWAITING_APPROVAL"
        /\ task'[T].state = "ACCEPTED" /\ task'[T].approval.ref = a
        /\ task'[T].rev = task[T].rev + 1
        /\ task'[T].attempt = task[T].attempt
        /\ task'[T].exec = task[T].exec /\ task'[T].cand = task[T].cand
        /\ task'[T].verif = task[T].verif /\ task'[T].review = task[T].review
    BY <2>1, <2>3, <2>4, <2>5, <1>ApprovesTask
  <2>8. /\ Advances /\ TasksFit' /\ run' = run /\ run.state = "EXECUTING"
    BY <2>7 DEF TaskStep
  <2>9. RunFits'
    BY <2>4, <2>8 DEF RunFits, PlanningStates
  <2>10. /\ m.id \in DOMAIN commands' /\ commands'[m.id].digest = d
    BY <2>3, <2>7 DEF Ran
  <2>11. AcceptedBy(a)' /\ SameEvidence(t)' /\ Done(k, "apply")'
    <3>1. t = task[T]
      BY <2>1, <2>7 DEF Seen
    <3>2. QED
      BY <2>7, <2>10, <3>1 DEF AcceptedBy, SameEvidence, Done
  <2>12. LedgerFits(m.id)'
    <3>1. AcceptedBy(commands[m.id].digest[6])'
      BY <2>6, <2>7, <2>10 DEF AcceptedBy
    <3>2. task'[T].rev = commands'[m.id].digest[2].rev + 1
      BY <2>6, <2>7, <2>10
    <3>3. QED
      BY <2>2, <2>3, <3>1, <3>2 DEF LedgerFits
  <2>13. LedgersFit' /\ Grown
    BY <2>2, <2>3, <2>4, <2>7, <2>8, <2>9, <2>12, LedgersGrow
  <2>14. JobsFit' /\ RetriesFit'
    BY <2>4, <2>7, <2>8, JobsKept, RetriesKept
  <2>15. Grows /\ \A g \in Handlers : Reserved(g)
    BY <2>8, <2>13, GrowsSame
  <2>16. Fits("apply-decision", k, x, t, a)'
    BY <2>8, <2>15, KnowsAfter
  <2>17. Fits("complete-approval", k, x, t, a)'
    BY <2>11, <2>16, <1>AppliedFits
  <2>18. Becomes(h, "complete-approval", k, x, t, a)
    BY GotoBecomes, Places
  <2>19. HandlersFit' /\ OneOwner'
    BY <2>8, <2>15, <2>17, <2>18, HandlersStep
  <2>20. QED
    BY <2>7, <2>13, <2>14, <2>19, NoReply, TaskCommandKeeps
<1>1. PICK m : m = envelope(h, "apply", "HUMAN", t.rev)
  OBVIOUS
<1>2. m.id = <<k, "apply">> /\ m.rev = t.rev
  BY <1>1 DEF envelope, Holds, keyOf
<1>3. PICK d : d = <<"ApproveTask", m, T, t.cand, t.review.ref, a>>
  OBVIOUS
<1>4. d[2] = m /\ d[6] = a /\ <<k, "apply">>[2] = "apply"
  BY SMTT(20), <1>3
<1>5. handler[h].task = t /\ handler[h].artifact = a
  BY DEF Holds
<1>6. /\ handler[h].pc = "apply-decision"
      /\ execute(h, m, d, approveTask(m, T, t.review.ref, a, t.cand),
                 "complete-approval")
      /\ UNCHANGED <<request, binding, jobs, approvals, retryState>>
  BY <1>1, <1>3, <1>5 DEF ApplyDecision
<1>7. CASE /\ approveTask(m, T, t.review.ref, a, t.cand)
           /\ goto(h, "complete-approval") /\ UNCHANGED answer
  BY <1>2, <1>6, <1>7, <1>ApplyNewKeeps
<1>8. CASE /\ loadCommandResult(m, d) = "replay"
           /\ goto(h, "complete-approval") /\ UNCHANGED <<vars, answer>>
  <2>1. m.id \in DOMAIN commands /\ commands[m.id].digest = d
    BY <1>8 DEF loadCommandResult
  <2>2. LedgerFits(m.id)
    BY <2>1 DEF APIInv, LedgersFit
  <2>3. AcceptedBy(a) /\ task[T].rev = t.rev + 1
    BY <1>2, <1>4, <2>1, <2>2 DEF LedgerFits
  <2>4. Seen(t)
    BY <1>6, <1>AtDecision
  <2>5. SameEvidence(t) /\ Done(k, "apply")
    BY <1>2, <2>1, <2>3, <2>4 DEF Seen, AcceptedBy, Done
  <2>6. AcceptedBy(a)' /\ SameEvidence(t)' /\ Done(k, "apply")'
    BY <1>8, <2>3, <2>5 DEF vars, AcceptedBy, SameEvidence, Done
  <2>7. Fits("apply-decision", k, x, t, a)'
    BY <1>6, <1>8, KnowsStill
  <2>8. Fits("complete-approval", k, x, t, a)'
    BY <2>6, <2>7, <1>AppliedFits
  <2>9. "complete-approval" \in HandlerPlaces \ {"decide"}
    BY Places
  <2>10. QED
    BY <1>6, <1>8, <2>8, <2>9, GoesOn
<1>9. CASE respond(h, "refused") /\ UNCHANGED vars
  BY <1>6, <1>9, GivesUp
<1>10. QED
  BY <1>6, <1>7, <1>8, <1>9 DEF execute

(* The commands that repeat the task's evidence for the run and approve    *)
(* it, and their refusals.                                                 *)
LEMMA AggregateKeeps ==
  ASSUME APIInv, NEW h \in Handlers, NEW k, NEW x, NEW t, NEW a,
         Holds(h, k, x, t, a), Aggregate(h)
  PROVE  APIInv'
(* The row of the run with the candidate bound has its type.               *)
<1>RunRowCandidate.
  ASSUME NEW r \in RunRow, NEW s \in RunStates, NEW y \in Artifacts,
         NEW c \in Commits
  PROVE  [r EXCEPT !.state = s, !.exec = y, !.cand = c] \in RunRow
  BY <1>RunRowCandidate DEF RunRow, OptArtifact, OptCommit
(* The rows that the commands compute: with the execution and its          *)
(* candidate,                                                              *)
<1>NextExec.
  ASSUME run \in RunRow, NEW s \in RunStates, NEW y \in Artifacts,
         NEW c \in Commits
  PROVE  NextRow([run EXCEPT !.state = s, !.exec = y, !.cand = c], s,
                 run.spec, run.graph, y, c, run.verif, run.review,
                 run.approval)
  BY <1>NextExec, <1>RunRowCandidate DEF NextRow, RunRow
(* with the verification,                                                  *)
<1>NextVerif.
  ASSUME run \in RunRow, NEW s \in RunStates, NEW y \in Artifacts
  PROVE  NextRow([run EXCEPT !.state = s, !.verif = y], s, run.spec,
                 run.graph, run.exec, run.cand, y, run.review, run.approval)
  BY <1>NextVerif, RunRowBinding DEF NextRow, RunRow
(* with the review,                                                        *)
<1>NextReview.
  ASSUME run \in RunRow, NEW s \in RunStates, NEW y \in Artifacts
  PROVE  NextRow([run EXCEPT !.state = s, !.review = y], s, run.spec,
                 run.graph, run.exec, run.cand, run.verif, y, run.approval)
  BY <1>NextReview, RunRowBinding DEF NextRow, RunRow
(* and with the approval.                                                  *)
<1>NextApproval.
  ASSUME run \in RunRow, NEW s \in RunStates, NEW y \in Artifacts
  PROVE  NextRow([run EXCEPT !.state = s, !.approval = y], s, run.spec,
                 run.graph, run.exec, run.cand, run.verif, run.review, y)
  BY <1>NextApproval, RunRowBinding DEF NextRow, RunRow
(* The run gets the execution of its accepted task.                        *)
<1>RecordsRunExecution.
  ASSUME RunFits, NEW m, m.id \in CommandIDs \cup {Fresh},
         NEW y \in Artifacts, NEW c \in Commits, task[T].state = "ACCEPTED",
         y = task[T].exec.ref, c = task[T].cand, recordRunExecution(m, y, c)
  PROVE  /\ Ran(m, <<"RecordRunExecution", m, y, c>>, RunID)
         /\ m.rev = run.rev /\ RunStep
         /\ run.state = "EXECUTING"
         /\ run'.state = "VERIFYING"
  <2> USE <1>RecordsRunExecution
  <2>0. run \in RunRow
    BY DEF RunFits
  <2> DEFINE next == [run EXCEPT !.state = "VERIFYING", !.exec = y, !.cand = c]
  <2>1. NextRow(next, "VERIFYING", run.spec, run.graph, y, c,
                run.verif, run.review, run.approval)
    BY <2>0, <1>NextExec DEF RunStates
  <2>2. /\ run.state = "EXECUTING" /\ m.rev = run.rev
        /\ persistRunTransition(m, <<"RecordRunExecution", m, y, c>>, next)
    BY DEF recordRunExecution, validateRunCommand
  <2> HIDE DEF next
  <2>3. /\ Ran(m, <<"RecordRunExecution", m, y, c>>, RunID)
        /\ Turns("VERIFYING", run.spec, run.graph, y, c, run.verif,
                 run.review, run.approval)
    BY <2>0, <2>1, <2>2, RunTurns
  <2>4. RunFits'
    BY <2>2, <2>3 DEF RunFits, Turns, RunStates, PlanningStates
  <2>5. Advances
    BY <2>2, <2>3 DEF Advances, RunFits, Turns, Undecided, PlanningStates
  <2>6. QED
    BY <2>2, <2>3, <2>4, <2>5 DEF RunStep, Turns
(* Its verification.                                                       *)
<1>RecordsRunVerification.
  ASSUME RunFits, NEW m, m.id \in CommandIDs \cup {Fresh},
         NEW y \in Artifacts, NEW c, task[T].state = "ACCEPTED",
         y = task[T].verif.ref, recordRunVerification(m, y, c)
  PROVE  /\ Ran(m, <<"RecordRunVerification", m, y, c>>, RunID)
         /\ m.rev = run.rev /\ RunStep
         /\ run.state = "VERIFYING"
         /\ run'.state = "REVIEWING"
  <2> USE <1>RecordsRunVerification
  <2>0. run \in RunRow
    BY DEF RunFits
  <2> DEFINE next == [run EXCEPT !.state = "REVIEWING", !.verif = y]
  <2>1. NextRow(next, "REVIEWING", run.spec, run.graph, run.exec,
                run.cand, y, run.review, run.approval)
    BY <2>0, <1>NextVerif DEF RunStates
  <2>2. /\ run.state = "VERIFYING" /\ m.rev = run.rev
        /\ persistRunTransition(m, <<"RecordRunVerification", m, y, c>>, next)
    BY DEF recordRunVerification, validateRunCommand
  <2> HIDE DEF next
  <2>3. /\ Ran(m, <<"RecordRunVerification", m, y, c>>, RunID)
        /\ Turns("REVIEWING", run.spec, run.graph, run.exec, run.cand, y,
                 run.review, run.approval)
    BY <2>0, <2>1, <2>2, RunTurns
  <2>4. RunFits'
    BY <2>2, <2>3 DEF RunFits, Turns, RunStates, PlanningStates
  <2>5. Advances
    BY <2>2, <2>3 DEF Advances, RunFits, Turns, Undecided, PlanningStates
  <2>6. QED
    BY <2>2, <2>3, <2>4, <2>5 DEF RunStep, Turns
(* Its review.                                                             *)
<1>RecordsRunReview.
  ASSUME RunFits, NEW m, m.id \in CommandIDs \cup {Fresh},
         NEW y \in Artifacts, NEW c, task[T].state = "ACCEPTED",
         y = task[T].review.ref, recordRunReview(m, y, c)
  PROVE  /\ Ran(m, <<"RecordRunReview", m, y, c>>, RunID) /\ m.rev = run.rev
         /\ RunStep
         /\ run.state = "REVIEWING"
         /\ run'.state = "AWAITING_APPROVAL"
  <2> USE <1>RecordsRunReview
  <2>0. run \in RunRow
    BY DEF RunFits
  <2> DEFINE next == [run EXCEPT !.state = "AWAITING_APPROVAL", !.review = y]
  <2>1. NextRow(next, "AWAITING_APPROVAL", run.spec, run.graph,
                run.exec, run.cand, run.verif, y, run.approval)
    BY <2>0, <1>NextReview DEF RunStates
  <2>2. /\ run.state = "REVIEWING" /\ m.rev = run.rev
        /\ persistRunTransition(m, <<"RecordRunReview", m, y, c>>, next)
    BY DEF recordRunReview, validateRunCommand
  <2> HIDE DEF next
  <2>3. /\ Ran(m, <<"RecordRunReview", m, y, c>>, RunID)
        /\ Turns("AWAITING_APPROVAL", run.spec, run.graph, run.exec,
                 run.cand, run.verif, y, run.approval)
    BY <2>0, <2>1, <2>2, RunTurns
  <2>4. RunFits'
    BY <2>2, <2>3 DEF RunFits, Turns, RunStates, PlanningStates
  <2>5. Advances
    BY <2>2, <2>3 DEF Advances, RunFits, Turns, Undecided, PlanningStates
  <2>6. QED
    BY <2>2, <2>3, <2>4, <2>5 DEF RunStep, Turns
(* And its approval.                                                       *)
<1>ApprovesRun.
  ASSUME RunFits, NEW m, m.id \in CommandIDs \cup {Fresh}, NEW r,
         NEW y \in Artifacts, NEW c, task[T].state = "ACCEPTED",
         approveRun(m, r, y, c)
  PROVE  /\ Ran(m, <<"ApproveRun", m, c, r, y>>, RunID) /\ m.rev = run.rev
         /\ RunStep
         /\ run.state = "AWAITING_APPROVAL"
         /\ run'.state = "MERGE_READY" /\ run'.approval = y
  <2> USE <1>ApprovesRun
  <2>0. run \in RunRow
    BY DEF RunFits
  <2> DEFINE next == [run EXCEPT !.state = "MERGE_READY", !.approval = y]
  <2>1. NextRow(next, "MERGE_READY", run.spec, run.graph, run.exec,
                run.cand, run.verif, run.review, y)
    BY <2>0, <1>NextApproval DEF RunStates
  <2>2. /\ run.state = "AWAITING_APPROVAL" /\ m.rev = run.rev
        /\ persistRunTransition(m, <<"ApproveRun", m, c, r, y>>, next)
    BY DEF approveRun, validateRunCommand
  <2> HIDE DEF next
  <2>3. /\ Ran(m, <<"ApproveRun", m, c, r, y>>, RunID)
        /\ Turns("MERGE_READY", run.spec, run.graph, run.exec, run.cand,
                 run.verif, run.review, y)
    BY <2>0, <2>1, <2>2, RunTurns
  <2>4. RunFits'
    BY <2>2, <2>3 DEF RunFits, Turns, RunStates, PlanningStates
  <2>5. Advances
    BY <2>2, <2>3 DEF Advances, RunFits, Turns, Undecided, PlanningStates
  <2>6. QED
    BY <2>2, <2>3, <2>4, <2>5 DEF RunStep, Turns
(* What a handler knows when it repeats the evidence for the run.          *)
<1>AtAggregate.
  ASSUME handler[h].pc = "aggregate"
  PROVE  Carries(k, t, a)
  <2> USE <1>AtAggregate
  <2>1. Fits("aggregate", k, x, t, a)
    BY Knows
  <2>2. /\ k \in Keys /\ request[k] # Nil
        /\ RouteFits("aggregate", request[k].route)
    BY <2>1 DEF Fits
  <2>3. Seen(t) /\ Complete(t)
    BY <2>1 DEF Fits, Approving, Decided, Applied, Completed, Bound
  <2>4. /\ approvals[k].artifact = a /\ binding.approval = a
        /\ approvals[k].state = "completed"
        /\ AcceptedBy(a) /\ SameEvidence(t) /\ Done(k, "apply")
    BY <2>1 DEF Fits, Decided, Applied, Completed, Bound
  <2>5. request[k].route = "approval"
    BY <2>2 DEF RouteFits, Approving, Decided, Applied, Completed, Bound
  <2>6. a \in Artifacts
    BY <2>2, <2>4, DecidedArtifact DEF Decision
  <2>7. /\ t.exec.ref \in Artifacts /\ t.verif.ref \in Artifacts
        /\ t.review.ref \in Artifacts /\ t.cand \in Commits
    <3>1. /\ t.exec \in Binding /\ t.verif \in Binding /\ t.review \in Binding
          /\ t.cand \in Commits
      BY <2>3 DEF Seen, Complete, TaskRow, OptBinding, OptCommit
    <3>2. QED
      BY <3>1 DEF Binding
  <2>8. QED
    BY <2>2, <2>4, <2>5, <2>6, <2>7 DEF AcceptedBy, SameEvidence, Carries
(* After evidence was recorded the run is read again.                      *)
<1>AggregatedFits.
  ASSUME NEW l, NEW y, NEW u, NEW b, Fits("aggregate", l, y, u, b)'
  PROVE  Fits("read-run", l, y, u, b)'
  <2> USE <1>AggregatedFits
  <2>1. /\ l \in Keys /\ request'[l] # Nil
        /\ RouteFits("aggregate", request'[l].route)
    BY DEF Fits
  <2>2. Seen(u)' /\ Complete(u)
    BY DEF Fits, Approving, Decided, Applied, Completed, Bound
  <2>3. /\ approvals'[l].state \in {"decision_ready", "completed"}
        /\ approvals'[l].digest = u /\ approvals'[l].artifact = b /\ b # Nil
        /\ AcceptedBy(b)' /\ SameEvidence(u)' /\ Done(l, "apply")'
        /\ approvals'[l].state = "completed" /\ binding'.approval = b
    BY DEF Fits, Decided, Applied, Completed, Bound
  <2>4. RouteFits("read-run", request'[l].route)
    BY <2>1 DEF RouteFits, Approving, Decided, Applied, Completed, Bound
  <2>5. QED
    BY <2>1, <2>2, <2>3, <2>4 DEF Fits
(* One aggregate command records evidence of the task in the run.          *)
<1>AggregateNew.
  ASSUME handler[h].pc = "aggregate", NEW step \in EvidenceSteps, NEW m,
         m.id = <<k, step>>, NEW d, Ran(m, d, RunID), RunStep,
         run'.state # "MERGE_READY", goto(h, "read-run"),
         UNCHANGED <<answer, request, binding, jobs, approvals, retryState>>
  PROVE  APIInv'
  <2> USE <1>AggregateNew
  <2>1. k \in Keys
    BY <1>AtAggregate DEF Carries
  <2>2. <<k, step>>[2] = step
    BY SMT
  <2>3. m.id \in CommandIDs
    <3>1. Keys \X Steps \subseteq CommandIDs /\ step \in Steps
      BY NamesAssumption DEF Steps, EvidenceSteps
    <3>2. QED
      BY <2>1, <3>1
  <2>4. step \notin RunSteps
    BY DEF EvidenceSteps, RunSteps, PlanningRoutes, PlanRejections
  <2>5. /\ Advances /\ RunFits' /\ task' = task
        /\ RunFits /\ LedgersFit /\ TasksFit
    BY DEF RunStep, APIInv
  <2>6. LedgerFits(m.id)'
    BY <2>2, <2>4 DEF LedgerFits, EvidenceSteps, RunSteps, PlanningRoutes
  <2>7. LedgersFit' /\ Grown
    <3>1. m.id[2] \notin RunSteps /\ m.id[2] # "apply"
      BY <2>2, <2>4 DEF EvidenceSteps
    <3>2. QED
      BY <2>3, <2>5, <2>6, <3>1, LedgersGrow
  <2>8. Grows /\ \A g \in Handlers : Reserved(g)
    BY <2>5, <2>7, GrowsSame
  <2>9. TasksFit'
    BY <2>5 DEF TasksFit, TaskFits
  <2>10. Fits("aggregate", k, x, t, a)'
    BY <2>8, <2>9, KnowsAfter
  <2>11. Fits("read-run", k, x, t, a)'
    BY <2>10, <1>AggregatedFits
  <2>12. Becomes(h, "read-run", k, x, t, a)
    BY GotoBecomes, Places
  <2>13. HandlersFit' /\ OneOwner'
    BY <2>8, <2>9, <2>11, <2>12, HandlersStep
  <2>14. MergeFits'
    BY <2>5, <2>8, MergeKept
  <2>15. QED
    BY <2>7, <2>13, <2>14, NoReply, RunCommandKeeps
(* It was recorded before.                                                 *)
<1>AggregateReplay.
  ASSUME handler[h].pc = "aggregate", goto(h, "read-run"),
         UNCHANGED <<vars, answer, request, binding, jobs, approvals,
                     retryState>>
  PROVE  APIInv'
  <2> USE <1>AggregateReplay
  <2>1. Fits("aggregate", k, x, t, a)'
    BY KnowsStill
  <2>2. Fits("read-run", k, x, t, a)'
    BY <2>1, <1>AggregatedFits
  <2>3. "read-run" \in HandlerPlaces \ {"decide"}
    BY Places
  <2>4. QED
    BY <2>2, <2>3, GoesOn
(* The answer to an approval that approved the run.                        *)
<1>ApprovedFits.
  ASSUME NEW l \in Keys, NEW y, NEW u, NEW b, request'[l] # Nil,
         request'[l].route = "approval", Done(l, "apply")',
         Done(l, "approve-run")'
  PROVE  Fits("respond", l, y, u, b)'
  <2> USE <1>ApprovedFits
  <2>1. Served(l)'
    BY DEF Served
  <2>2. QED
    BY <2>1, RouteFitsNext
(* The run is approved.                                                    *)
<1>ApproveRunNew.
  ASSUME handler[h].pc = "aggregate", NEW m, m.id = <<k, "approve-run">>,
         NEW r, NEW c, approveRun(m, r, a, c), goto(h, "respond"),
         UNCHANGED <<answer, request, binding, jobs, approvals, retryState>>
  PROVE  APIInv'
  <2> USE <1>ApproveRunNew
  <2>1. /\ k \in Keys /\ request[k] # Nil /\ request[k].route = "approval"
        /\ task[T].state = "ACCEPTED" /\ task[T].approval.ref = a
        /\ a \in Artifacts /\ approvals[k].state = "completed"
        /\ approvals[k].artifact = a /\ binding.approval = a
        /\ Done(k, "apply")
    <3>1. Carries(k, t, a)
      BY <1>AtAggregate
    <3>2. QED
      BY <3>1 DEF Carries
  <2>2. <<k, "approve-run">>[2] = "approve-run"
    BY SMT
  <2>3. m.id \in CommandIDs /\ "approve-run" \notin RunSteps
    BY <2>1, NamesAssumption, RouteNames DEF Steps
  <2>4. RunFits /\ LedgersFit /\ TasksFit
    BY DEF APIInv
  <2>5. PICK d : d = <<"ApproveRun", m, c, r, a>>
    OBVIOUS
  <2>6. /\ Ran(m, d, RunID) /\ RunStep
        /\ run'.state = "MERGE_READY" /\ run'.approval = a
    BY <2>1, <2>3, <2>4, <2>5, <1>ApprovesRun
  <2>7. Advances /\ RunFits' /\ task' = task
    BY <2>6 DEF RunStep
  <2>8. LedgerFits(m.id)'
    BY <2>2, <2>3, <2>6 DEF LedgerFits
  <2>9. LedgersFit' /\ Grown
    BY <2>2, <2>3, <2>4, <2>6, <2>7, <2>8, LedgersGrow
  <2>10. Grows /\ \A g \in Handlers : Reserved(g)
    BY <2>7, <2>9, GrowsSame
  <2>11. TasksFit'
    BY <2>4, <2>7 DEF TasksFit, TaskFits
  <2>12. Done(k, "apply")' /\ Done(k, "approve-run")'
    BY <2>1, <2>3, <2>6 DEF Ran, Done
  <2>13. Fits("respond", k, x, t, a)'
    BY <2>1, <2>12, <1>ApprovedFits
  <2>14. Becomes(h, "respond", k, x, t, a)
    BY GotoBecomes, Places
  <2>15. HandlersFit' /\ OneOwner'
    BY <2>10, <2>11, <2>13, <2>14, HandlersStep
  <2>16. MergeFits'
    BY <2>1, <2>6, <2>7 DEF MergeFits
  <2>17. QED
    BY <2>6, <2>9, <2>15, <2>16, NoReply, RunCommandKeeps
(* It was approved by this request before.                                 *)
<1>ApproveRunReplay.
  ASSUME handler[h].pc = "aggregate", NEW m, m.id = <<k, "approve-run">>,
         NEW d, loadCommandResult(m, d) = "replay", goto(h, "respond"),
         UNCHANGED <<vars, answer, request, binding, jobs, approvals,
                     retryState>>
  PROVE  APIInv'
  <2> USE <1>ApproveRunReplay
  <2>1. /\ k \in Keys /\ request[k] # Nil /\ request[k].route = "approval"
        /\ Done(k, "apply")
    <3>1. Carries(k, t, a)
      BY <1>AtAggregate
    <3>2. QED
      BY <3>1 DEF Carries
  <2>2. Done(k, "apply")' /\ Done(k, "approve-run")'
    BY <2>1 DEF vars, Done, loadCommandResult
  <2>3. Fits("respond", k, x, t, a)'
    BY <2>1, <2>2, <1>ApprovedFits
  <2>4. "respond" \in HandlerPlaces \ {"decide"}
    BY Places
  <2>5. QED
    BY <2>3, <2>4, GoesOn
(* The commands that record evidence.                                      *)
<1>EvidenceRecordedKeeps.
  ASSUME handler[h].pc = "aggregate", NEW step \in EvidenceSteps, NEW m,
         m.id = <<k, step>>,
         \/ recordRunExecution(m, t.exec.ref, t.cand)
         \/ recordRunVerification(m, t.verif.ref, t.cand)
         \/ recordRunReview(m, t.review.ref, t.cand),
         goto(h, "read-run"),
         UNCHANGED <<answer, request, binding, jobs, approvals, retryState>>
  PROVE  APIInv'
  <2> USE <1>EvidenceRecordedKeeps
  <2>1. /\ k \in Keys /\ task[T].state = "ACCEPTED"
        /\ t.exec.ref = task[T].exec.ref /\ t.verif.ref = task[T].verif.ref
        /\ t.review.ref = task[T].review.ref /\ t.cand = task[T].cand
        /\ t.exec.ref \in Artifacts /\ t.verif.ref \in Artifacts
        /\ t.review.ref \in Artifacts /\ t.cand \in Commits
    <3>1. Carries(k, t, a)
      BY <1>AtAggregate
    <3>2. QED
      BY <3>1 DEF Carries
  <2>2. m.id \in CommandIDs
    <3>1. Keys \X Steps \subseteq CommandIDs /\ step \in Steps
      BY NamesAssumption DEF Steps, EvidenceSteps
    <3>2. QED
      BY <2>1, <3>1
  <2>3. RunFits
    BY DEF APIInv
  <2>4. CASE recordRunExecution(m, t.exec.ref, t.cand)
    <3>1. /\ Ran(m, <<"RecordRunExecution", m, t.exec.ref, t.cand>>, RunID)
          /\ RunStep /\ run'.state = "VERIFYING"
      BY <2>1, <2>2, <2>3, <2>4, <1>RecordsRunExecution
    <3>2. QED
      BY <3>1, <1>AggregateNew
  <2>5. CASE recordRunVerification(m, t.verif.ref, t.cand)
    <3>1. /\ Ran(m, <<"RecordRunVerification", m, t.verif.ref, t.cand>>, RunID)
          /\ RunStep /\ run'.state = "REVIEWING"
      BY <2>1, <2>2, <2>3, <2>5, <1>RecordsRunVerification
    <3>2. QED
      BY <3>1, <1>AggregateNew
  <2>6. CASE recordRunReview(m, t.review.ref, t.cand)
    <3>1. /\ Ran(m, <<"RecordRunReview", m, t.review.ref, t.cand>>, RunID)
          /\ RunStep /\ run'.state = "AWAITING_APPROVAL"
      BY <2>1, <2>2, <2>3, <2>6, <1>RecordsRunReview
    <3>2. QED
      BY <3>1, <1>AggregateNew
  <2>7. QED
    BY <2>4, <2>5, <2>6
<1>1. handler[h].task = t /\ handler[h].artifact = a /\ handler[h].run = x
      /\ keyOf(h) = k
  BY DEF Holds, keyOf
<1>2. /\ handler[h].pc = "aggregate"
      /\ UNCHANGED <<request, binding, jobs, approvals, retryState>>
  BY DEF Aggregate
<1>3. PICK e : e = envelope(h, "aggregate-execution", "EXECUTION_SERVICE",
                            x.rev)
  OBVIOUS
<1>4. PICK v : v = envelope(h, "aggregate-verification",
                            "VERIFICATION_SERVICE", x.rev)
  OBVIOUS
<1>5. PICK r : r = envelope(h, "aggregate-review", "REVIEW_SERVICE", x.rev)
  OBVIOUS
<1>6. PICK m : m = envelope(h, "approve-run", "HUMAN", x.rev)
  OBVIOUS
<1>7. /\ e.id = <<k, "aggregate-execution">>
      /\ v.id = <<k, "aggregate-verification">>
      /\ r.id = <<k, "aggregate-review">> /\ m.id = <<k, "approve-run">>
  BY <1>1, <1>3, <1>4, <1>5, <1>6 DEF envelope
<1>8. "aggregate-execution" \in EvidenceSteps
      /\ "aggregate-verification" \in EvidenceSteps
      /\ "aggregate-review" \in EvidenceSteps
  BY DEF EvidenceSteps
<1>9. CASE respond(h, "refused") /\ UNCHANGED vars
  BY <1>2, <1>9, GivesUp
<1>10. CASE goto(h, "read-run") /\ UNCHANGED <<vars, answer>>
  BY <1>2, <1>10, <1>AggregateReplay
<1>11. CASE execute(h, e, <<"RecordRunExecution", e, t.exec.ref, t.cand>>,
                    recordRunExecution(e, t.exec.ref, t.cand), "read-run")
  <2>1. CASE /\ recordRunExecution(e, t.exec.ref, t.cand)
             /\ goto(h, "read-run") /\ UNCHANGED answer
    BY <1>2, <1>7, <1>8, <2>1, <1>EvidenceRecordedKeeps
  <2>2. QED
    BY <1>9, <1>10, <1>11, <2>1 DEF execute
<1>12. CASE execute(h, v, <<"RecordRunVerification", v, t.verif.ref, t.cand>>,
                    recordRunVerification(v, t.verif.ref, t.cand), "read-run")
  <2>1. CASE /\ recordRunVerification(v, t.verif.ref, t.cand)
             /\ goto(h, "read-run") /\ UNCHANGED answer
    BY <1>2, <1>7, <1>8, <2>1, <1>EvidenceRecordedKeeps
  <2>2. QED
    BY <1>9, <1>10, <1>12, <2>1 DEF execute
<1>13. CASE execute(h, r, <<"RecordRunReview", r, t.review.ref, t.cand>>,
                    recordRunReview(r, t.review.ref, t.cand), "read-run")
  <2>1. CASE /\ recordRunReview(r, t.review.ref, t.cand)
             /\ goto(h, "read-run") /\ UNCHANGED answer
    BY <1>2, <1>7, <1>8, <2>1, <1>EvidenceRecordedKeeps
  <2>2. QED
    BY <1>9, <1>10, <1>13, <2>1 DEF execute
<1>14. CASE execute(h, m, <<"ApproveRun", m, t.cand, x.review, a>>,
                    approveRun(m, x.review, a, t.cand), "respond")
  <2>1. CASE /\ approveRun(m, x.review, a, t.cand)
             /\ goto(h, "respond") /\ UNCHANGED answer
    BY <1>2, <1>7, <2>1, <1>ApproveRunNew
  <2>2. CASE /\ loadCommandResult(m, <<"ApproveRun", m, t.cand, x.review, a>>)
                  = "replay"
             /\ goto(h, "respond") /\ UNCHANGED <<vars, answer>>
    BY <1>2, <1>7, <2>2, <1>ApproveRunReplay
  <2>3. QED
    BY <1>9, <1>14, <2>1, <2>2 DEF execute
<1>15. QED
  BY <1>1, <1>3, <1>4, <1>5, <1>6, <1>9, <1>11, <1>12, <1>13, <1>14
     DEF Aggregate

=============================================================================
