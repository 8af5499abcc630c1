-------------------------- MODULE ControlAPIProofs --------------------------
(***************************************************************************)
(* The second half of the proof that APIInv is an invariant of ControlAPI, *)
(* and the properties that follow from it: approved runs rest on their     *)
(* task's evidence, decisions are recorded whole, and they are taken once. *)
(***************************************************************************)
EXTENDS ControlAPIInvariant

(* Most leaves are first-order steps, which Zenon proves; a leaf that      *)
(* needs arithmetic or the fields of records names SMT.                    *)
USE Zenon

-----------------------------------------------------------------------------
(* Steps that only move handlers.                                          *)

(* A step that moves no handler keeps their memories fitting, if the rows  *)
(* only grow.                                                              *)
LEMMA HandlersStay ==
  ASSUME APIInv, Grows, TasksFit', \A g \in Handlers : Reserved(g),
         handler' = handler
  PROVE  HandlersFit' /\ OneOwner'
<1>1. HandlersFit'
  BY HandlerStays DEF APIInv, HandlersFit
<1>2. OneOwner'
  BY DEF APIInv, OneOwner, keyOf
<1>3. QED
  BY <1>1, <1>2

(* A handler may end its request at any place without harm.                *)
LEMMA Ends ==
  ASSUME APIInv,
         UNCHANGED <<vars, request, answer, binding, jobs, approvals,
                     retryState>>,
         NEW h \in Handlers, handler' = [handler EXCEPT ![h] = Idle]
  PROVE  APIInv'
BY NoReply, IdleBecomes, QuietStep

(* A handler that is given a memory holds that memory.                     *)
LEMMA SetBecomes ==
  ASSUME APIInv, NEW h \in Handlers, NEW w \in HandlerMemory,
         handler' = [handler EXCEPT ![h] = w], w.owner <=> w.pc = "decide"
  PROVE  Becomes(h, w.pc, w.key, w.run, w.task, w.artifact)
<1>1. /\ handler'[h] = w /\ handler' \in [Handlers -> HandlerMemory]
      /\ \A g \in Handlers : g # h => handler'[g] = handler[g]
  BY DEF APIInv, HandlersFit
<1>2. QED
  BY <1>1 DEF Becomes

(* What a handler that owns no reservation holds has its type.             *)
LEMMA HeldMemory ==
  ASSUME APIInv, NEW h \in Handlers, handler[h].pc # "decide",
         NEW k, NEW x, NEW t, NEW a, Holds(h, k, x, t, a)
  PROVE  /\ handler[h] \in HandlerMemory /\ ~handler[h].owner
         /\ k \in Keys \cup {Nil} /\ x \in RunRow \cup {Nil}
         /\ t \in TaskRow \cup {Nil} /\ a \in OptArtifact
BY DEF APIInv, HandlersFit, HandlerFits, HandlerMemory, Holds

(* A handler that reads the run holds the row it read.                     *)
LEMMA RunBecomes ==
  ASSUME APIInv, NEW h \in Handlers, NEW k, NEW x, NEW t, NEW a,
         Holds(h, k, x, t, a), handler[h].pc # "decide",
         NEW pc \in HandlerPlaces, pc # "decide", NEW y \in RunRow,
         handler' = [handler EXCEPT ![h].pc = pc, ![h].run = y]
  PROVE  Becomes(h, pc, k, y, t, a)
<1>1. PICK v : v = handler[h] /\ v \in HandlerMemory /\ ~v.owner
  BY HeldMemory
<1> DEFINE w == [v EXCEPT !.pc = pc, !.run = y]
<1>2. w \in HandlerMemory
  BY <1>1 DEF HandlerMemory
<1>3. /\ w.pc = pc /\ w.key = v.key /\ w.run = y
      /\ w.task = v.task /\ w.artifact = v.artifact /\ ~w.owner
  BY <1>1 DEF HandlerMemory
<1>4. handler' = [handler EXCEPT ![h] = w]
  BY <1>1
<1> HIDE DEF w
<1>5. QED
  BY <1>1, <1>2, <1>3, <1>4, SetBecomes DEF Holds

(* A handler that reads the task holds the row it read.                    *)
LEMMA TaskBecomes ==
  ASSUME APIInv, NEW h \in Handlers, NEW k, NEW x, NEW t, NEW a,
         Holds(h, k, x, t, a), handler[h].pc # "decide",
         NEW pc \in HandlerPlaces, pc # "decide", NEW y \in TaskRow,
         handler' = [handler EXCEPT ![h].pc = pc, ![h].task = y]
  PROVE  Becomes(h, pc, k, x, y, a)
<1>1. PICK v : v = handler[h] /\ v \in HandlerMemory /\ ~v.owner
  BY HeldMemory
<1> DEFINE w == [v EXCEPT !.pc = pc, !.task = y]
<1>2. w \in HandlerMemory
  BY <1>1 DEF HandlerMemory
<1>3. /\ w.pc = pc /\ w.key = v.key /\ w.run = v.run
      /\ w.task = y /\ w.artifact = v.artifact /\ ~w.owner
  BY <1>1 DEF HandlerMemory
<1>4. handler' = [handler EXCEPT ![h] = w]
  BY <1>1
<1> HIDE DEF w
<1>5. QED
  BY <1>1, <1>2, <1>3, <1>4, SetBecomes DEF Holds

(* A handler takes up a request.                                           *)
LEMMA ServeKeeps ==
  ASSUME APIInv, NEW h \in Handlers, Serve(h)
  PROVE  APIInv'
<1>1. PICK k \in Keys :
        /\ request[k] # Nil
        /\ handler' = [handler EXCEPT ![h] =
             [Idle EXCEPT !.pc = "apply", !.key = k]]
  BY DEF Serve
<1> DEFINE w == [Idle EXCEPT !.pc = "apply", !.key = k]
<1>2. /\ w \in HandlerMemory /\ w.pc = "apply" /\ w.key = k /\ w.run = Nil
      /\ w.task = Nil /\ w.artifact = Nil /\ ~w.owner
  BY DEF Idle, HandlerMemory, HandlerPlaces, OptArtifact
<1> HIDE DEF w
<1>3. Becomes(h, "apply", k, Nil, Nil, Nil)
  <2>1. handler' = [handler EXCEPT ![h] = w]
    BY <1>1 DEF w
  <2>2. QED
    BY <1>2, <2>1, SetBecomes
<1>4. /\ UNCHANGED <<vars, request, binding, jobs, approvals, retryState>>
      /\ answer' = answer
  BY DEF Serve
<1>5. Fits("apply", k, Nil, Nil, Nil)'
  BY <1>1, <1>4
  DEF Fits, RouteFits, Approving, Decided, Applied, Completed, Bound
<1>6. QED
  BY <1>3, <1>4, <1>5, NoReply, QuietStep

(* It reads the run and compares the revision.                             *)
LEMMA ApplyKeeps ==
  ASSUME APIInv, NEW h \in Handlers, NEW k, NEW x, NEW t, NEW a,
         Holds(h, k, x, t, a), Apply(h)
  PROVE  APIInv'
<1>1. /\ handler[h].pc = "apply"
      /\ UNCHANGED <<vars, request, binding, jobs, approvals, retryState>>
  BY DEF Apply
<1>2. CASE respond(h, "refused")
  BY <1>1, <1>2, GivesUp
<1>3. CASE ~respond(h, "refused")
  <2> DEFINE pc == IF req(h).route = "approval" THEN "evidence" ELSE "command"
  <2>1. /\ ifMatch(h) /\ answer' = answer
        /\ handler' = [handler EXCEPT ![h].pc = pc, ![h].run = run]
    BY <1>3 DEF Apply
  <2>2. PICK q, y : q = request[k].route /\ y = run /\ y \in RunRow
    BY DEF APIInv, RunFits
  <2>3. req(h).route = q /\ keyOf(h) = k
    BY <2>2 DEF Holds, req, keyOf
  <2>4. pc \in {"evidence", "command"} /\ pc \in HandlerPlaces
        /\ (pc = "evidence" <=> q = "approval")
    BY <2>3 DEF HandlerPlaces
  <2>5. PICK p : p = pc
    OBVIOUS
  <2> HIDE DEF pc
  <2>6. Becomes(h, p, k, y, t, a)
    BY <1>1, <2>1, <2>2, <2>4, <2>5, RunBecomes
  <2>9. Fits("apply", k, x, t, a)
    BY <1>1, KnowsStill
  <2>10. k \in Keys /\ request[k] # Nil /\ request' = request
    BY <1>1, <2>9 DEF Fits
  <2>11. p = "command" /\ q # "retry" => y.rev = request[k].rev
    BY <2>1, <2>2, <2>3 DEF ifMatch, req, keyOf
  <2>12. Fits(p, k, y, t, a)'
    BY <2>2, <2>4, <2>5, <2>10, <2>11
    DEF Fits, RouteFits, Approving, Decided, Applied, Completed, Bound
  <2>13. QED
    BY <1>1, <2>1, <2>4, <2>5, <2>6, <2>12, NoReply, QuietStep
<1>4. QED
  BY <1>2, <1>3

(* After a retry it reads the task again.                                  *)
LEMMA RetryReadKeeps ==
  ASSUME APIInv, NEW h \in Handlers, NEW k, NEW x, NEW t, NEW a,
         Holds(h, k, x, t, a), RetryRead(h)
  PROVE  APIInv'
<1>1. /\ handler[h].pc = "retried"
      /\ UNCHANGED <<vars, request, binding, jobs, approvals, retryState>>
  BY DEF RetryRead
<1>2. CASE respond(h, "refused")
  BY <1>1, <1>2, GivesUp
<1>3. CASE ~respond(h, "refused")
  <2>1. /\ retryState[keyOf(h)] = "READY" /\ answer' = answer
        /\ handler' = [handler EXCEPT ![h].pc = "enqueue",
                                      ![h].task = task[T]]
    BY <1>3 DEF RetryRead
  <2>2. PICK y : y = task[T] /\ y \in TaskRow
    BY DEF APIInv, TasksFit, TaskFits
  <2>3. "enqueue" \in HandlerPlaces
    BY Places
  <2>5. Becomes(h, "enqueue", k, x, y, a)
    BY <1>1, <2>1, <2>2, <2>3, TaskBecomes
  <2>6. Fits("retried", k, x, t, a)
    BY <1>1, KnowsStill
  <2>7. /\ k \in Keys /\ request[k] # Nil /\ request' = request
        /\ request[k].route = "retry" /\ task' = task
    BY <1>1, <2>6 DEF Fits, RouteFits, vars
  <2>8. task[T].state # "NONE"
    BY <2>1, <2>7, NamesAssumption DEF APIInv, RetriesFit, Holds, keyOf
  <2>9. y.attempt <= task'[T].attempt
    BY <2>2, <2>7, SMT DEF TaskRow
  <2>10. Fits("enqueue", k, x, y, a)'
    BY <2>2, <2>7, <2>8, <2>9
    DEF Fits, RouteFits, Approving, Decided, Applied, Completed, Bound
  <2>11. QED
    BY <1>1, <2>1, <2>5, <2>10, NoReply, QuietStep
<1>4. QED
  BY <1>2, <1>3

(* It reads the task whose evidence is to be approved.                     *)
LEMMA ReadEvidenceKeeps ==
  ASSUME APIInv, NEW h \in Handlers, NEW k, NEW x, NEW t, NEW a,
         Holds(h, k, x, t, a), ReadEvidence(h)
  PROVE  APIInv'
<1>1. /\ handler[h].pc = "evidence"
      /\ UNCHANGED <<vars, request, binding, jobs, approvals, retryState>>
  BY DEF ReadEvidence
<1>2. CASE respond(h, "refused")
  BY <1>1, <1>2, GivesUp
<1>3. CASE ~respond(h, "refused")
  <2>1. /\ Complete(task[T]) /\ answer' = answer
        /\ handler' = [handler EXCEPT ![h].pc = "begin", ![h].task = task[T]]
    BY <1>3 DEF ReadEvidence, Complete
  <2>2. PICK y : y = task[T] /\ y \in TaskRow
    BY DEF APIInv, TasksFit, TaskFits
  <2>3. "begin" \in HandlerPlaces
    BY Places
  <2>5. Becomes(h, "begin", k, x, y, a)
    BY <1>1, <2>1, <2>2, <2>3, TaskBecomes
  <2>6. Fits("evidence", k, x, t, a)
    BY <1>1, KnowsStill
  <2>7. /\ k \in Keys /\ request[k] # Nil /\ request' = request
        /\ request[k].route = "approval" /\ task' = task
    BY <1>1, <2>6 DEF Fits, RouteFits, vars
  <2>8. y.rev <= y.rev /\ y.rev # y.rev + 1
    BY <2>2, SMT DEF TaskRow
  <2>9. Seen(y)'
    BY <2>2, <2>7, <2>8 DEF Seen
  <2>10. Fits("begin", k, x, y, a)'
    BY <2>1, <2>2, <2>7, <2>9
    DEF Fits, RouteFits, Approving, Decided, Applied, Completed, Bound
  <2>11. QED
    BY <1>1, <2>1, <2>5, <2>10, NoReply, QuietStep
<1>4. QED
  BY <1>2, <1>3

(* It reads the run again before each aggregate command.                   *)
LEMMA ReadRunKeeps ==
  ASSUME APIInv, NEW h \in Handlers, NEW k, NEW x, NEW t, NEW a,
         Holds(h, k, x, t, a), ReadRun(h)
  PROVE  APIInv'
<1>1. /\ handler[h].pc = "read-run" /\ answer' = answer
      /\ UNCHANGED <<vars, request, binding, jobs, approvals, retryState>>
      /\ handler' = [handler EXCEPT ![h].pc = "aggregate", ![h].run = run]
  BY DEF ReadRun
<1>2. PICK y : y = run /\ y \in RunRow
  BY DEF APIInv, RunFits
<1>3. "aggregate" \in HandlerPlaces
  BY Places
<1>5. Becomes(h, "aggregate", k, y, t, a)
  BY <1>1, <1>2, <1>3, RunBecomes
<1>6. Fits("read-run", k, x, t, a)'
  BY <1>1, KnowsStill
<1>7. Fits("aggregate", k, y, t, a)'
  BY <1>2, <1>6
  DEF Fits, RouteFits, Approving, Decided, Applied, Completed, Bound
<1>8. QED
  BY <1>1, <1>5, <1>7, NoReply, QuietStep

(* It answers with success.                                                *)
LEMMA RespondKeeps ==
  ASSUME APIInv, NEW h \in Handlers, NEW k, NEW x, NEW t, NEW a,
         Holds(h, k, x, t, a), Respond(h)
  PROVE  APIInv'
<1>1. /\ handler[h].pc = "respond" /\ respond(h, "ok")
      /\ UNCHANGED <<vars, request, binding, jobs, approvals, retryState>>
  BY DEF Respond
<1>2. Fits("respond", k, x, t, a) /\ Fits("respond", k, x, t, a)'
  BY <1>1, KnowsStill
<1>3. k \in Keys /\ request[k] # Nil /\ Served(k)'
  BY <1>2 DEF Fits
<1>4. answer \in [Keys -> {Nil, "ok", "refused"}]
  BY DEF APIInv, RequestsFit
<1>5. PICK b \in {Nil, "ok", "refused"} : answer' = [answer EXCEPT ![k] = b]
  BY <1>1, <1>3, <1>4 DEF respond, keyOf, Holds
<1>6. Replies
  BY <1>3, <1>4, <1>5 DEF Replies
<1>7. handler' = [handler EXCEPT ![h] = Idle]
  BY <1>1 DEF respond
<1>8. QED
  BY <1>1, <1>6, <1>7, IdleBecomes, QuietStep

-----------------------------------------------------------------------------
(* The approval ledger.                                                    *)

(* A write of one approval row that keeps a decision lets the rows grow.   *)
LEMMA WritesGrows ==
  ASSUME APIInv, NEW l \in Keys, NEW r, Writes(l, r)
  PROVE  /\ Grows /\ approvals'[l] = r
         /\ \A k \in Keys : k # l => approvals'[k] = approvals[k]
         /\ approvals' \in [Keys -> [state : {"NONE", "reserved",
                                              "decision_ready", "completed"},
                                     digest : TaskRow \cup {Nil},
                                     artifact : OptArtifact]]
<1>1. /\ approvals'[l] = r
      /\ \A k \in Keys : k # l => approvals'[k] = approvals[k]
      /\ approvals' \in [Keys -> [state : {"NONE", "reserved",
                                           "decision_ready", "completed"},
                                  digest : TaskRow \cup {Nil},
                                  artifact : OptArtifact]]
  BY DEF Writes, APIInv, ApprovalsFit
<1>2. Advances /\ Grown
  BY StillAdvances DEF Writes
<1>3. \A k \in Keys : approvals[k].state \in Decision =>
        /\ approvals'[k].digest = approvals[k].digest
        /\ approvals'[k].artifact = approvals[k].artifact
        /\ approvals'[k].state \in Decision
        /\ approvals[k].state = "completed" =>
             approvals'[k].state = "completed"
  BY <1>1 DEF Writes
<1>4. QED
  BY <1>1, <1>2, <1>3 DEF Grows, Writes

(* A step that writes one approval row and moves one handler keeps the     *)
(* invariant.                                                              *)
LEMMA ApprovalStepKeeps ==
  ASSUME APIInv, NEW l \in Keys, NEW r, Writes(l, r), ApprovalFits(l)',
         NEW h \in Handlers, NEW pc, NEW k, NEW x, NEW t, NEW a,
         Becomes(h, pc, k, x, t, a), Fits(pc, k, x, t, a)', Replies,
         pc = "decide" => approvals[k].state # "reserved",
         \A g \in Handlers :
           g # h /\ handler[g].pc = "decide" => handler[g].key # l
  PROVE  APIInv'
<1>0. UNCHANGED <<vars, request, binding, jobs, retryState>>
  BY DEF Writes
<1>1. /\ Advances /\ Grown /\ TasksFit' /\ RunFits' /\ LedgersFit'
      /\ (task'[T].state = "NONE" <=> task[T].state = "NONE")
      /\ run' = run /\ task' = task
  BY <1>0, StillAdvances
<1>2. /\ Grows /\ \A i \in Keys : i # l => approvals'[i] = approvals[i]
      /\ approvals' \in [Keys -> [state : {"NONE", "reserved",
                                           "decision_ready", "completed"},
                                  digest : TaskRow \cup {Nil},
                                  artifact : OptArtifact]]
  BY WritesGrows
<1>3. \A g \in Handlers : g # h => Reserved(g)
  <2>1. \A g \in Handlers : handler[g].pc = "decide" => handler[g].key \in Keys
    BY DEF APIInv, HandlersFit, HandlerFits, Fits
  <2>2. QED
    BY <1>2, <2>1 DEF Reserved
<1>4. HandlersFit' /\ OneOwner'
  BY <1>1, <1>2, <1>3, HandlersStep
<1>5. BindingsFit'
  BY <1>0, <1>1, BindingsKept DEF APIInv
<1>6. JobsFit'
  BY <1>0, <1>1, JobsKept DEF APIInv
<1>7. RetriesFit'
  BY <1>0, <1>1, RetriesKept DEF APIInv
<1>8. ApprovalsFit'
  <2>1. \A i \in Keys : ApprovalFits(i)'
    BY <1>2, ApprovalKept
  <2>2. QED
    BY <1>2, <2>1 DEF ApprovalsFit
<1>9. RequestsFit'
  BY <1>0, <1>1, RequestsKept
<1>10. MergeFits'
  BY <1>1, <1>2, MergeKept DEF APIInv
<1>11. QED
  BY <1>1, <1>4, <1>5, <1>6, <1>7, <1>8, <1>9, <1>10 DEF APIInv

(* Reservation of the approval, or joining or replaying it.                *)
LEMMA ApprovalBeginKeeps ==
  ASSUME APIInv, NEW h \in Handlers, NEW k, NEW x, NEW t, NEW a,
         Holds(h, k, x, t, a), ApprovalBegin(h)
  PROVE  APIInv'
(* A handler that is given an artifact holds it.                           *)
<1>ArtifactBecomes.
  ASSUME handler[h].pc # "decide", NEW pc \in HandlerPlaces, pc # "decide",
         NEW y \in OptArtifact,
         handler' = [handler EXCEPT ![h].pc = pc, ![h].artifact = y]
  PROVE  Becomes(h, pc, k, x, t, y)
  <2> USE <1>ArtifactBecomes
  <2>1. PICK v : v = handler[h] /\ v \in HandlerMemory /\ ~v.owner
    BY HeldMemory
  <2> DEFINE w == [v EXCEPT !.pc = pc, !.artifact = y]
  <2>2. w \in HandlerMemory
    BY <2>1 DEF HandlerMemory
  <2>3. /\ w.pc = pc /\ w.key = v.key /\ w.run = v.run
        /\ w.task = v.task /\ w.artifact = y /\ ~w.owner
    BY <2>1 DEF HandlerMemory
  <2>4. handler' = [handler EXCEPT ![h] = w]
    BY <2>1
  <2> HIDE DEF w
  <2>5. QED
    BY <2>1, <2>2, <2>3, <2>4, SetBecomes DEF Holds
(* Begin reserves.                                                         *)
<1>ReserveKeeps.
  ASSUME handler[h].pc = "begin", approvals[k].state = "NONE",
         approvals' = [approvals EXCEPT ![k] =
                         [NoApproval EXCEPT !.state = "reserved",
                                            !.digest = t]],
         handler' = [handler EXCEPT ![h].pc = "decide", ![h].owner = TRUE],
         UNCHANGED <<vars, request, answer, binding, jobs, retryState>>
  PROVE  APIInv'
  <2> USE <1>ReserveKeeps
  <2> DEFINE r == [NoApproval EXCEPT !.state = "reserved", !.digest = t]
  <2>1. k \in Keys /\ t \in TaskRow
    BY DEF APIInv, HandlersFit, HandlerFits, Fits, Holds, Approving, Seen
  <2>2. /\ r \in [state : {"NONE", "reserved", "decision_ready", "completed"},
                  digest : TaskRow \cup {Nil}, artifact : OptArtifact]
        /\ r.state = "reserved" /\ r.digest = t /\ r.artifact = Nil
    BY <2>1 DEF NoApproval, OptArtifact
  <2>3. Writes(k, r)
    BY <2>2 DEF Writes, Decision
  <2> HIDE DEF r
  <2>4. Grows /\ approvals'[k] = r
    BY <2>1, <2>3, WritesGrows
  <2>5. TasksFit'
    BY StillAdvances
  <2>6. Fits("begin", k, x, t, a)'
    BY <2>4, <2>5, KnowsAfter
  <2>7. Fits("decide", k, x, t, a)'
    BY <2>2, <2>4, <2>6
    DEF Fits, RouteFits, Approving, Decided, Applied, Completed, Bound
  <2>8. Becomes(h, "decide", k, x, t, a)
    <3>1. PICK v : v = handler[h] /\ v \in HandlerMemory
      BY HeldMemory
    <3> DEFINE w == [v EXCEPT !.pc = "decide", !.owner = TRUE]
    <3>2. "decide" \in HandlerPlaces
      BY Places
    <3>3. w \in HandlerMemory
      BY <3>1, <3>2 DEF HandlerMemory
    <3>4. /\ w.pc = "decide" /\ w.key = v.key /\ w.run = v.run
          /\ w.task = v.task /\ w.artifact = v.artifact /\ w.owner
      BY <3>1 DEF HandlerMemory
    <3>5. handler' = [handler EXCEPT ![h] = w]
      BY <3>1
    <3> HIDE DEF w
    <3>6. QED
      BY <3>1, <3>3, <3>4, <3>5, SetBecomes DEF Holds
  <2>9. ApprovalFits(k)'
    BY <2>2, <2>4 DEF ApprovalFits
  <2>10. \A g \in Handlers :
           g # h /\ handler[g].pc = "decide" => handler[g].key # k
    BY DEF APIInv, HandlersFit, HandlerFits, Fits
  <2>11. QED
    BY <2>1, <2>3, <2>7, <2>8, <2>9, <2>10, NoReply, ApprovalStepKeeps
(* Begin resumes a decision or replays a completed approval.               *)
<1>ResumeKeeps.
  ASSUME handler[h].pc = "begin", approvals[k].state \in Decision,
         approvals[k].digest = t, NEW pc,
         pc = (IF approvals[k].state = "completed"
               THEN "checkpoint-approval" ELSE "apply-decision"),
         handler' = [handler EXCEPT ![h].pc = pc,
                                    ![h].artifact = approvals[k].artifact],
         UNCHANGED <<vars, request, answer, binding, jobs, approvals,
                     retryState>>
  PROVE  APIInv'
  <2> USE <1>ResumeKeeps
  <2>1. PICK y : y = approvals[k].artifact
    OBVIOUS
  <2>2. Fits("begin", k, x, t, a)'
    BY KnowsStill
  <2>3. k \in Keys /\ request'[k].route = "approval" /\ request'[k] # Nil
        /\ Seen(t)' /\ Complete(t)
    BY <2>2 DEF Fits, RouteFits, Approving
  <2>4. y \in OptArtifact /\ y # Nil
    BY <2>1, <2>3, DecidedArtifact DEF OptArtifact
  <2>5. /\ pc \in HandlerPlaces /\ pc # "decide"
        /\ pc \in {"checkpoint-approval", "apply-decision"}
        /\ pc = "checkpoint-approval" => approvals[k].state = "completed"
    BY Places
  <2>6. Becomes(h, pc, k, x, t, y)
    BY <2>1, <2>4, <2>5, <1>ArtifactBecomes
  <2>7. pc = "checkpoint-approval" =>
          AcceptedBy(y)' /\ SameEvidence(t)' /\ Done(k, "apply")'
    <3>1. ApprovalFits(k)'
      <4>1. Advances /\ Grown
        BY StillAdvances
      <4>2. Grows
        BY <4>1, GrowsSame
      <4>3. QED
        BY <2>3, <4>2, ApprovalKept
    <3>2. QED
      BY <2>1, <2>5, <3>1 DEF ApprovalFits
  <2>8. Fits(pc, k, x, t, y)'
    BY <2>1, <2>3, <2>4, <2>5, <2>7
    DEF Fits, RouteFits, Approving, Decided, Applied, Completed, Bound,
    Decision
  <2>9. QED
    BY <2>5, <2>6, <2>8, NoReply, QuietStep
<1>1. /\ handler[h].pc = "begin" /\ keyOf(h) = k /\ row(h) = approvals[k]
      /\ approvalRequestDigest(h) = t
      /\ UNCHANGED <<vars, request, binding, jobs, retryState>>
  BY DEF ApprovalBegin, Holds, keyOf, row, approvalRequestDigest
<1>2. CASE approvals[k].state = "NONE"
  BY <1>1, <1>2, <1>ReserveKeeps DEF ApprovalBegin
<1>3. CASE /\ approvals[k].state \in Decision /\ approvals[k].digest = t
  <2>1. PICK pc : pc = IF approvals[k].state = "completed"
                       THEN "checkpoint-approval" ELSE "apply-decision"
    OBVIOUS
  <2>2. /\ handler' = [handler EXCEPT ![h].pc = pc,
                                      ![h].artifact = approvals[k].artifact]
        /\ UNCHANGED <<answer, approvals>>
    BY <1>1, <1>3, <2>1 DEF ApprovalBegin, Decision
  <2>3. QED
    BY <1>1, <1>3, <2>1, <2>2, <1>ResumeKeeps
<1>4. CASE approvals[k].state # "NONE" /\ approvals[k].digest # t
  <2>1. abandonMutation(h) /\ approvals' = approvals
    BY <1>1, <1>4 DEF ApprovalBegin
  <2>2. QED
    BY <1>1, <2>1, Ends DEF abandonMutation
<1>5. QED
  BY <1>1, <1>2, <1>3, <1>4 DEF ApprovalBegin, Decision

(* The owner rolls its reservation back.                                   *)
LEMMA RollbackKeeps ==
  ASSUME APIInv, NEW h \in Handlers, NEW k, handler[h].pc = "decide",
         handler[h].key = k,
         approvals' = [approvals EXCEPT ![k] = NoApproval],
         handler' = [handler EXCEPT ![h] = Idle], Replies,
         UNCHANGED <<vars, request, binding, jobs, retryState>>
  PROVE  APIInv'
<1>1. k \in Keys /\ approvals[k].state = "reserved"
  BY OwnsAlone
<1>2. NoApproval \in
        [state : {"NONE", "reserved", "decision_ready", "completed"},
         digest : TaskRow \cup {Nil}, artifact : OptArtifact]
  BY DEF NoApproval, OptArtifact
<1>3. Writes(k, NoApproval)
  BY <1>1, <1>2 DEF Writes, Decision
<1>4. approvals'[k] = NoApproval
  BY <1>1, <1>3, WritesGrows
<1>5. ApprovalFits(k)'
  <2>1. NoApproval.state = "NONE" /\ NoApproval.artifact = Nil
    BY DEF NoApproval
  <2>2. approvals'[k].state = "NONE" /\ approvals'[k].artifact = Nil
    BY <1>4, <2>1
  <2>3. QED
    BY <2>2 DEF ApprovalFits
<1>6. Becomes(h, "idle", Nil, Nil, Nil, Nil)
      /\ Fits("idle", Nil, Nil, Nil, Nil)'
  BY IdleBecomes
<1>7. \A g \in Handlers :
        g # h /\ handler[g].pc = "decide" => handler[g].key # k
  BY OwnsAlone
<1>8. QED
  BY ZenonT(30), <1>1, <1>3, <1>5, <1>6, <1>7, ApprovalStepKeeps


(* The owner saves its decision.                                           *)
LEMMA SaveDecisionKeeps ==
  ASSUME APIInv, NEW h \in Handlers, NEW k, NEW x, NEW t, NEW a,
         Holds(h, k, x, t, a), SaveDecision(h)
  PROVE  APIInv'
<1>1. /\ handler[h].pc = "decide" /\ handler[h].key = k /\ keyOf(h) = k
      /\ UNCHANGED <<vars, request, binding, jobs, retryState>>
  BY DEF SaveDecision, Holds, keyOf
<1>2. k \in Keys /\ approvals[k].state = "reserved"
  BY <1>1, OwnsAlone
<1>3. CASE ~(reviewReportMatches(h) /\ authorize(h))
  <2>1. /\ approvals' = [approvals EXCEPT ![k] = NoApproval]
        /\ abandonMutation(h)
    BY <1>1, <1>3 DEF SaveDecision
  <2>2. Replies /\ handler' = [handler EXCEPT ![h] = Idle]
    BY <1>1, <2>1, NoReply DEF abandonMutation
  <2>3. QED
    BY <1>1, <2>1, <2>2, RollbackKeeps
<1>4. CASE reviewReportMatches(h) /\ authorize(h)
  <2> DEFINE y == RefOf("approval", k)
             r == [approvals[k] EXCEPT !.state = "decision_ready",
                                       !.artifact = y]
  <2>1. /\ approvals' = [approvals EXCEPT ![k].state = "decision_ready",
                                          ![k].artifact = y]
        /\ handler' = [handler EXCEPT ![h].pc = "apply-decision",
                                      ![h].owner = FALSE, ![h].artifact = y]
        /\ answer' = answer /\ (Elevated => request[k].role = "ELEVATED")
    BY <1>1, <1>4 DEF SaveDecision, authorize, req
  <2>2. y \in Artifacts /\ y # Nil /\ y \in OptArtifact
    BY <1>2, NamesAssumption, NilAssumption DEF RefOf, OptArtifact
  <2>3. approvals' = [approvals EXCEPT ![k] = r]
    BY <2>1
  <2>4. approvals[k] \in
          [state : {"NONE", "reserved", "decision_ready", "completed"},
           digest : TaskRow \cup {Nil}, artifact : OptArtifact]
    BY <1>2 DEF APIInv, ApprovalsFit
  <2>5. Fits("decide", k, x, t, a)
    BY <1>1 DEF APIInv, HandlersFit, HandlerFits, Holds
  <2>6. /\ request[k] # Nil /\ request[k].route = "approval" /\ Seen(t)
        /\ Complete(t) /\ approvals[k].digest = t
    BY <2>5 DEF Fits, RouteFits, Approving
  <2> HIDE DEF y
  <2>7. /\ r \in [state : {"NONE", "reserved", "decision_ready", "completed"},
                  digest : TaskRow \cup {Nil}, artifact : OptArtifact]
        /\ r.state = "decision_ready" /\ r.digest = t /\ r.artifact = y
    BY <2>2, <2>4, <2>6
  <2> HIDE DEF r
  <2>8. Writes(k, r)
    BY <1>1, <1>2, <2>3, <2>7 DEF Writes, Decision
  <2>9. approvals'[k] = r
    BY <1>2, <2>8, WritesGrows
  <2>10. ApprovalFits(k)'
    BY <1>1, <2>1, <2>6, <2>7, <2>9 DEF ApprovalFits, y
  <2>11. Seen(t)'
    BY <1>1, <2>6, StillAdvances, SeenKept DEF APIInv
  <2>12. Fits("apply-decision", k, x, t, y)'
    BY <1>1, <1>2, <2>2, <2>6, <2>7, <2>9, <2>11
    DEF Fits, RouteFits, Approving, Decided, Applied, Completed, Bound
  <2>13. Becomes(h, "apply-decision", k, x, t, y)
    <3>1. PICK v : v = handler[h] /\ v \in HandlerMemory
      BY DEF APIInv, HandlersFit
    <3> DEFINE w == [v EXCEPT !.pc = "apply-decision", !.owner = FALSE,
                              !.artifact = y]
    <3>2. "apply-decision" \in HandlerPlaces
      BY Places
    <3>3. w \in HandlerMemory
      BY <2>2, <3>1, <3>2 DEF HandlerMemory
    <3>4. /\ w.pc = "apply-decision" /\ w.key = v.key /\ w.run = v.run
          /\ w.task = v.task /\ w.artifact = y /\ ~w.owner
      BY <3>1 DEF HandlerMemory
    <3>5. handler' = [handler EXCEPT ![h] = w]
      BY <2>1, <3>1
    <3> HIDE DEF w
    <3>6. QED
      BY <3>1, <3>3, <3>4, <3>5, SetBecomes DEF Holds
  <2>14. \A g \in Handlers :
           g # h /\ handler[g].pc = "decide" => handler[g].key # k
    BY <1>1, OwnsAlone
  <2>15. QED
    BY <1>2, <2>1, <2>8, <2>10, <2>12, <2>13, <2>14, NoReply,
       ApprovalStepKeeps
<1>5. QED
  BY <1>3, <1>4

(* The approval is marked completed.                                       *)
LEMMA CompleteApprovalKeeps ==
  ASSUME APIInv, NEW h \in Handlers, NEW k, NEW x, NEW t, NEW a,
         Holds(h, k, x, t, a), CompleteApproval(h)
  PROVE  APIInv'
<1> DEFINE r == [approvals[k] EXCEPT !.state = "completed"]
<1>1. /\ handler[h].pc = "complete-approval" /\ keyOf(h) = k
      /\ UNCHANGED <<vars, request, answer, binding, jobs, retryState>>
      /\ goto(h, "checkpoint-approval")
      /\ approvals' = [approvals EXCEPT ![k].state = "completed"]
  BY DEF CompleteApproval, Holds, keyOf
<1>2. Fits("complete-approval", k, x, t, a)
  BY <1>1 DEF APIInv, HandlersFit, HandlerFits, Holds
<1>3. /\ k \in Keys /\ approvals[k].state \in Decision
      /\ approvals[k].digest = t /\ approvals[k].artifact = a
  BY <1>2 DEF Fits, Decided, Applied, Decision
<1>4. approvals[k] \in
        [state : {"NONE", "reserved", "decision_ready", "completed"},
         digest : TaskRow \cup {Nil}, artifact : OptArtifact]
  BY <1>3 DEF APIInv, ApprovalsFit
<1>5. /\ r \in [state : {"NONE", "reserved", "decision_ready", "completed"},
                digest : TaskRow \cup {Nil}, artifact : OptArtifact]
      /\ r.state = "completed" /\ r.digest = t /\ r.artifact = a
  BY <1>3, <1>4
<1>6. approvals' = [approvals EXCEPT ![k] = r]
  BY <1>1
<1> HIDE DEF r
<1>7. Writes(k, r)
  BY <1>1, <1>3, <1>5, <1>6 DEF Writes, Decision
<1>8. Grows /\ approvals'[k] = r
  BY <1>3, <1>7, WritesGrows
<1>9. TasksFit'
  BY <1>1, StillAdvances
<1>10. Fits("complete-approval", k, x, t, a)'
  BY <1>1, <1>8, <1>9, KnowsAfter
<1>11. Fits("checkpoint-approval", k, x, t, a)'
  BY <1>5, <1>8, <1>10
  DEF Fits, RouteFits, Approving, Decided, Applied, Completed, Bound
<1>12. Becomes(h, "checkpoint-approval", k, x, t, a)
  BY <1>1, Places, GotoBecomes
<1>13. ApprovalFits(k)'
  <2>1. /\ a = RefOf("approval", k) /\ request'[k] # Nil
        /\ Elevated => request'[k].role = "ELEVATED"
    BY <1>1, <1>3 DEF APIInv, ApprovalsFit, ApprovalFits, Decision
  <2>2. AcceptedBy(a)' /\ SameEvidence(t)' /\ Done(k, "apply")'
    BY <1>10 DEF Fits, Applied
  <2>3. QED
    BY <1>5, <1>8, <2>1, <2>2 DEF ApprovalFits, RefOf
<1>14. \A g \in Handlers :
         g # h /\ handler[g].pc = "decide" => handler[g].key # k
  <2>1. approvals[k].state # "reserved"
    BY <1>3 DEF Decision
  <2>2. QED
    BY <2>1 DEF APIInv, HandlersFit, HandlerFits, Fits
<1>15. QED
  BY ZenonT(30), <1>1, <1>3, <1>7, <1>11, <1>12, <1>13, <1>14, NoReply,
     ApprovalStepKeeps

(* A server error, which rolls back a reservation of its own.              *)
LEMMA ServerErrorKeeps ==
  ASSUME APIInv, NEW h \in Handlers, ServerError(h)
  PROVE  APIInv'
<1>1. /\ handler' = [handler EXCEPT ![h] = Idle]
      /\ UNCHANGED <<vars, request, answer, binding, jobs, retryState>>
  BY DEF ServerError
<1>2. CASE handler[h].owner
  <2>1. PICK k : k = handler[h].key
    OBVIOUS
  <2>2. handler[h].pc = "decide"
    BY <1>2 DEF APIInv, HandlersFit, HandlerFits
  <2>3. approvals' = [approvals EXCEPT ![k] = NoApproval]
    BY <1>2, <2>1 DEF ServerError, keyOf
  <2>4. QED
    BY <1>1, <2>1, <2>2, <2>3, NoReply, RollbackKeeps
<1>3. CASE ~handler[h].owner
  <2>1. approvals' = approvals
    BY <1>3 DEF ServerError
  <2>2. QED
    BY <1>1, <2>1, Ends
<1>4. QED
  BY <1>2, <1>3

-----------------------------------------------------------------------------
(* Checkpoints, jobs and clients.                                          *)

(* A step that leaves the workflow and the approvals alone lets the rows   *)
(* grow.                                                                   *)
LEMMA StoresGrow ==
  ASSUME APIInv, UNCHANGED <<vars, request, approvals>>,
         binding.approval # Nil => binding'.approval = binding.approval
  PROVE  /\ Grows /\ TasksFit' /\ \A g \in Handlers : Reserved(g)
<1>1. Advances /\ Grown /\ TasksFit'
  BY StillAdvances
<1>2. QED
  BY <1>1 DEF Grows, Reserved, Decision

(* Such a step keeps the invariant, if the bindings and jobs still fit.    *)
LEMMA StoreStepKeeps ==
  ASSUME APIInv, UNCHANGED <<vars, request, approvals, retryState>>,
         binding.approval # Nil => binding'.approval = binding.approval,
         BindingsFit', JobsFit', HandlersFit', OneOwner', Replies
  PROVE  APIInv'
<1>1. /\ Advances /\ Grown /\ TasksFit' /\ RunFits' /\ LedgersFit'
      /\ run' = run
  BY StillAdvances
<1>2. Grows
  BY StoresGrow
<1>3. RetriesFit'
  BY <1>1, RetriesKept DEF APIInv
<1>4. ApprovalsFit'
  BY <1>2, ApprovalsKept
<1>5. RequestsFit'
  BY <1>1, RequestsKept
<1>6. MergeFits'
  BY <1>1, <1>2, MergeKept DEF APIInv
<1>7. QED
  BY <1>1, <1>3, <1>4, <1>5, <1>6 DEF APIInv

(* The checkpoint of the approved specification, however late.             *)
LEMMA CheckpointSpecificationKeeps ==
  ASSUME APIInv, NEW h \in Handlers, NEW k, NEW x, NEW t, NEW a,
         Holds(h, k, x, t, a), CheckpointSpecification(h)
  PROVE  APIInv'
<1>1. /\ handler[h].pc = "checkpoint-specification"
      /\ UNCHANGED <<vars, request, jobs, approvals, retryState>>
      /\ checkpointRun(h, "spec", x.spec, "respond")
  BY DEF CheckpointSpecification, Holds
<1>2. CASE binding.spec \notin {Nil, x.spec}
  <2>1. respond(h, "refused") /\ binding' = binding
    BY <1>1, <1>2 DEF checkpointRun
  <2>2. QED
    BY <1>1, <2>1, GivesUp
<1>3. CASE binding.spec \in {Nil, x.spec}
  <2>1. /\ binding' = [binding EXCEPT !.spec = x.spec] /\ goto(h, "respond")
        /\ answer' = answer
    BY <1>1, <1>3 DEF checkpointRun
  <2>2. PICK y : y = x.spec
    OBVIOUS
  <2>3. binding \in [spec : OptArtifact, graph : OptArtifact,
                     task : OptArtifact, approval : OptArtifact]
    BY DEF APIInv, BindingsFit
  <2>4. Fits("checkpoint-specification", k, x, t, a)
    BY <1>1 DEF APIInv, HandlersFit, HandlerFits, Holds
  <2>5. Specified(y)
    BY <2>2, <2>4 DEF Fits
  <2>6. y \in OptArtifact
    BY <2>5 DEF Specified, APIInv, RunFits, RunRow
  <2>7. /\ binding' \in [spec : OptArtifact, graph : OptArtifact,
                         task : OptArtifact, approval : OptArtifact]
        /\ binding'.spec = y /\ binding'.graph = binding.graph
        /\ binding'.task = binding.task
        /\ binding'.approval = binding.approval
    BY <2>1, <2>2, <2>3, <2>6
  <2>8. run' = run /\ task' = task
    BY <1>1 DEF vars
  <2>9. Specified(y)'
    BY <2>5, <2>8 DEF Specified
  <2>10. BindingsFit'
    BY <1>1, <2>7, <2>8, <2>9 DEF APIInv, BindingsFit, AcceptedBy
  <2>11. JobsFit'
    BY <1>1, <2>8, JobsKept DEF APIInv
  <2>12. Grows /\ TasksFit' /\ \A g \in Handlers : Reserved(g)
    BY <1>1, <2>7, StoresGrow
  <2>13. Fits("checkpoint-specification", k, x, t, a)'
    BY <1>1, <2>12, KnowsAfter
  <2>14. Fits("respond", k, x, t, a)'
    BY <2>13
    DEF Fits, RouteFits, Approving, Decided, Applied, Completed, Bound
  <2>15. Becomes(h, "respond", k, x, t, a)
    BY <1>1, <2>1, Places, GotoBecomes
  <2>16. HandlersFit' /\ OneOwner'
    BY <2>12, <2>14, <2>15, HandlersStep
  <2>17. QED
    BY <1>1, <2>1, <2>7, <2>10, <2>11, <2>16, NoReply, StoreStepKeeps
<1>4. QED
  BY <1>2, <1>3

(* The checkpoint of the approval, which also grants it.                   *)
LEMMA CheckpointApprovalKeeps ==
  ASSUME APIInv, NEW h \in Handlers, NEW k, NEW x, NEW t, NEW a,
         Holds(h, k, x, t, a), CheckpointApproval(h)
  PROVE  APIInv'
<1>1. /\ handler[h].pc = "checkpoint-approval"
      /\ UNCHANGED <<vars, request, jobs, approvals, retryState>>
      /\ checkpointRun(h, "approval", a, "read-run")
  BY DEF CheckpointApproval, Holds
<1>2. CASE binding.approval \notin {Nil, a}
  <2>1. respond(h, "refused") /\ binding' = binding
    BY <1>1, <1>2 DEF checkpointRun
  <2>2. QED
    BY <1>1, <2>1, GivesUp
<1>3. CASE binding.approval \in {Nil, a}
  <2>1. /\ binding' = [binding EXCEPT !.approval = a] /\ goto(h, "read-run")
        /\ answer' = answer
    BY <1>1, <1>3 DEF checkpointRun
  <2>2. binding \in [spec : OptArtifact, graph : OptArtifact,
                     task : OptArtifact, approval : OptArtifact]
    BY DEF APIInv, BindingsFit
  <2>3. Fits("checkpoint-approval", k, x, t, a)
    BY <1>1 DEF APIInv, HandlersFit, HandlerFits, Holds
  <2>4. AcceptedBy(a) /\ a \in OptArtifact
    BY <1>1, <2>3, HeldMemory DEF Fits, Applied, Completed
  <2>5. /\ binding' \in [spec : OptArtifact, graph : OptArtifact,
                         task : OptArtifact, approval : OptArtifact]
        /\ binding'.spec = binding.spec /\ binding'.graph = binding.graph
        /\ binding'.task = binding.task /\ binding'.approval = a
    BY <2>1, <2>2, <2>4
  <2>6. run' = run /\ task' = task
    BY <1>1 DEF vars
  <2>7. AcceptedBy(a)'
    BY <2>4, <2>6 DEF AcceptedBy
  <2>8. BindingsFit'
    BY <1>1, <2>5, <2>6, <2>7 DEF APIInv, BindingsFit, Specified
  <2>9. JobsFit'
    BY <1>1, <2>6, JobsKept DEF APIInv
  <2>10. binding.approval # Nil => binding'.approval = binding.approval
    BY <1>3, <2>5
  <2>11. Grows /\ TasksFit' /\ \A g \in Handlers : Reserved(g)
    BY <1>1, <2>10, StoresGrow
  <2>12. Fits("checkpoint-approval", k, x, t, a)'
    BY <1>1, <2>11, KnowsAfter
  <2>13. Fits("read-run", k, x, t, a)'
    BY <2>5, <2>12
    DEF Fits, RouteFits, Approving, Decided, Applied, Completed, Bound
  <2>14. Becomes(h, "read-run", k, x, t, a)
    BY <1>1, <2>1, Places, GotoBecomes
  <2>15. HandlersFit' /\ OneOwner'
    BY <2>11, <2>13, <2>14, HandlersStep
  <2>16. QED
    BY <1>1, <2>1, <2>8, <2>9, <2>10, <2>15, NoReply, StoreStepKeeps
<1>4. QED
  BY <1>2, <1>3

(* The job of the attempt after the one that was read: if the task has     *)
(* moved on since, the job is there already.                               *)
LEMMA EnqueueRetryKeeps ==
  ASSUME APIInv, NEW h \in Handlers, NEW k, NEW x, NEW t, NEW a,
         Holds(h, k, x, t, a), EnqueueRetry(h)
  PROVE  APIInv'
<1> DEFINE n == t.attempt + 1
<1>1. /\ handler[h].pc = "enqueue" /\ goto(h, "respond")
      /\ UNCHANGED <<vars, request, answer, binding, approvals, retryState>>
      /\ jobs' = [jobs EXCEPT ![n] = IF @ = "NONE" THEN "QUEUED" ELSE @]
  BY DEF EnqueueRetry, Holds
<1>2. run' = run /\ task' = task
  BY <1>1 DEF vars
<1>3. Fits("enqueue", k, x, t, a)
  BY <1>1 DEF APIInv, HandlersFit, HandlerFits, Holds
<1>4. /\ task[T].state # "NONE" /\ t.attempt \in Nat
      /\ task[T].attempt \in Nat /\ t.attempt <= task[T].attempt
  BY <1>3 DEF Fits, TaskRow, APIInv, TasksFit, TaskFits
<1>5. n = task[T].attempt + 1 \/ n <= task[T].attempt
  BY <1>4, SMT
<1> HIDE DEF n
<1>6. \A i \in Attempts : \/ jobs'[i] = jobs[i]
                          \/ /\ i = n /\ jobs[i] = "NONE"
                             /\ jobs'[i] = "QUEUED"
  BY <1>1 DEF APIInv, JobsFit
<1>7. jobs' \in [Attempts -> {"NONE", "QUEUED", "DONE"}]
  <2>1. jobs \in [Attempts -> {"NONE", "QUEUED", "DONE"}]
    BY DEF APIInv, JobsFit
  <2>2. PICK j : j = IF jobs[n] = "NONE" THEN "QUEUED" ELSE jobs[n]
    OBVIOUS
  <2>3. jobs' = [jobs EXCEPT ![n] = j]
    BY <1>1, <2>2
  <2>4. n \in Attempts => j \in {"NONE", "QUEUED", "DONE"}
    BY <2>1, <2>2
  <2>5. QED
    BY <2>1, <2>3, <2>4
<1>8. JobsFit'
  BY <1>2, <1>4, <1>5, <1>6, <1>7 DEF APIInv, JobsFit
<1>9. BindingsFit'
  <2>1. jobs[1] # "NONE"
    BY <1>4 DEF APIInv, BindingsFit
  <2>2. 1 \in Attempts
    BY BoundsAssumption, SMTT(20) DEF Attempts
  <2>3. jobs'[1] # "NONE"
    BY <1>6, <2>1, <2>2
  <2>4. QED
    BY <1>1, <1>2, <1>4, <2>3 DEF APIInv, BindingsFit, Specified, AcceptedBy
<1>10. Grows /\ TasksFit' /\ \A g \in Handlers : Reserved(g)
  BY <1>1, StoresGrow
<1>11. Fits("respond", k, x, t, a)'
  BY <1>1, <1>3
  DEF Fits, RouteFits, Served, Approving, Decided, Applied, Completed, Bound
<1>12. Becomes(h, "respond", k, x, t, a)
  BY <1>1, Places, GotoBecomes
<1>13. HandlersFit' /\ OneOwner'
  BY <1>10, <1>11, <1>12, HandlersStep
<1>14. QED
  BY <1>1, <1>8, <1>9, <1>13, NoReply, StoreStepKeeps

(* A start job is done.                                                    *)
LEMMA StartStageDoneKeeps ==
  ASSUME APIInv, NEW n \in Attempts, StartStageDone(n)
  PROVE  APIInv'
<1>1. /\ jobs[n] = "QUEUED" /\ task[T].state # "READY"
      /\ jobs' = [jobs EXCEPT ![n] = "DONE"] /\ handler' = handler
      /\ UNCHANGED <<vars, request, answer, binding, approvals, retryState>>
  BY DEF StartStageDone
<1>2. run' = run /\ task' = task
  BY <1>1 DEF vars
<1>3. /\ jobs' \in [Attempts -> {"NONE", "QUEUED", "DONE"}]
      /\ \A i \in Attempts : jobs'[i] = jobs[i] \/ (i = n /\ jobs'[i] = "DONE")
  BY <1>1 DEF APIInv, JobsFit
<1>4. JobsFit'
  BY <1>1, <1>2, <1>3 DEF APIInv, JobsFit
<1>5. BindingsFit'
  <2>1. 1 \in Attempts
    BY BoundsAssumption, SMTT(20) DEF Attempts
  <2>2. jobs'[1] # "NONE" <=> jobs[1] # "NONE"
    BY <1>1, <1>3, <2>1
  <2>3. QED
    BY <1>1, <1>2, <2>2 DEF APIInv, BindingsFit, Specified, AcceptedBy
<1>6. Grows /\ TasksFit' /\ \A g \in Handlers : Reserved(g)
  BY <1>1, StoresGrow
<1>7. HandlersFit' /\ OneOwner'
  BY <1>1, <1>6, HandlersStay
<1>8. QED
  BY <1>1, <1>4, <1>5, <1>7, NoReply, StoreStepKeeps

(* A client's request names the revision that is current.                  *)
LEMMA SendKeeps ==
  ASSUME APIInv, NEW k \in Keys, Send(k)
  PROVE  APIInv'
<1>1. PICK q : /\ request[k] = Nil /\ timely(q.route)
               /\ q.rev = IF q.route = "retry" THEN task[T].rev ELSE run.rev
               /\ request' = [request EXCEPT ![k] = q]
  <2>1. PICK use, terminal :
          /\ request[k] = Nil /\ timely(use[1])
          /\ request' = [request EXCEPT ![k] =
               [route |-> use[1], role |-> use[2], terminal |-> terminal,
                rev |-> IF use[1] = "retry" THEN task[T].rev ELSE run.rev]]
    BY DEF Send
  <2> DEFINE r == [route |-> use[1], role |-> use[2], terminal |-> terminal,
                   rev |-> IF use[1] = "retry" THEN task[T].rev ELSE run.rev]
  <2>2. /\ r.route = use[1]
        /\ r.rev = IF use[1] = "retry" THEN task[T].rev ELSE run.rev
    OBVIOUS
  <2>3. request' = [request EXCEPT ![k] = r]
    BY <2>1
  <2> HIDE DEF r
  <2>4. QED
    BY <2>1, <2>2, <2>3
<1>2. UNCHANGED <<vars, answer, handler, binding, jobs, approvals, retryState>>
  BY DEF Send
<1>3. /\ DOMAIN request' = Keys /\ request'[k] = q
      /\ \A l \in Keys : l # k => request'[l] = request[l]
  BY <1>1 DEF APIInv, RequestsFit
<1>4. /\ Advances /\ Grown /\ TasksFit' /\ RunFits' /\ LedgersFit'
      /\ run' = run /\ task' = task
  BY <1>2, StillAdvances
<1>5. Grows /\ \A g \in Handlers : Reserved(g)
  BY <1>1, <1>2, <1>3, <1>4 DEF Grows, Reserved, Decision
<1>6. HandlersFit' /\ OneOwner'
  BY <1>2, <1>4, <1>5, HandlersStay
<1>7. BindingsFit' /\ JobsFit' /\ RetriesFit'
  BY <1>2, <1>4, BindingsKept, JobsKept, RetriesKept DEF APIInv
<1>8. ApprovalsFit' /\ MergeFits'
  BY <1>2, <1>4, <1>5, ApprovalsKept, MergeKept DEF APIInv
<1>9. run.rev \in Nat /\ task[T].rev \in Nat
  BY DEF APIInv, RunFits, RunRow, TasksFit, TaskFits, TaskRow
<1>10. /\ q.route \in PlanningRoutes => /\ run.state \in PlanningStates
                                        /\ q.rev = run.rev
       /\ q.route \notin PlanningRoutes => run.state \notin PlanningStates
       /\ q.route # "retry" => q.rev = run.rev
       /\ q.rev \in Nat /\ run.rev <= run.rev
  <2>1. "retry" \notin PlanningRoutes
    BY DEF PlanningRoutes, PlanRejections
  <2>2. run.rev <= run.rev
    BY <1>9, SMT
  <2>3. QED
    BY <1>1, <1>9, <2>1, <2>2 DEF timely
<1>11. RequestsFit'
  <2>1. \A l \in Keys : request'[l] # Nil => request'[l].rev \in Nat
    BY <1>3, <1>10 DEF APIInv, RequestsFit
  <2>2. \A l \in Keys : ForPlan(l)' =>
          /\ request'[l].rev <= run'.rev
          /\ run'.state \notin PlanningStates => request'[l].rev < run'.rev
    BY <1>3, <1>4, <1>10 DEF APIInv, RequestsFit, ForPlan
  <2>3. \A l \in Keys : ForRun(l)' => run'.state \notin PlanningStates
    BY <1>3, <1>4, <1>10 DEF APIInv, RequestsFit, ForRun
  <2>4. \A i, l \in Keys :
          ForPlan(i)' /\ ForRun(l)' => request'[i].rev < request'[l].rev
    <3>1. ASSUME NEW i \in Keys, NEW l \in Keys, ForPlan(i)', ForRun(l)'
          PROVE  request'[i].rev < request'[l].rev
      <4>1. run'.state \notin PlanningStates /\ request'[i].rev < run'.rev
        BY <2>2, <2>3, <3>1
      <4>2. i # k
        BY <1>3, <1>4, <1>10, <3>1, <4>1 DEF ForPlan
      <4>3. CASE l = k
        BY <1>3, <1>4, <1>10, <3>1, <4>1, <4>3 DEF ForRun
      <4>4. CASE l # k
        BY <1>3, <3>1, <4>2, <4>4 DEF APIInv, RequestsFit, ForPlan, ForRun
      <4>5. QED
        BY <4>3, <4>4
    <3>2. QED
      BY <3>1
  <2>5. \A l \in Keys : answer'[l] = "ok" => request'[l] # Nil /\ Served(l)'
    BY <1>1, <1>2, <1>3, <1>4, ServedKept DEF APIInv, RequestsFit
  <2>6. answer' \in [Keys -> {Nil, "ok", "refused"}]
    BY <1>2 DEF APIInv, RequestsFit
  <2>7. QED
    BY <1>3, <2>1, <2>2, <2>3, <2>4, <2>5, <2>6 DEF RequestsFit
<1>12. QED
  BY <1>4, <1>6, <1>7, <1>8, <1>11 DEF APIInv

(* A handler that stops, or dies, leaves all rows as they are.             *)
LEMMA PollTimeoutKeeps ==
  ASSUME APIInv, NEW h \in Handlers, PollTimeout(h)
  PROVE  APIInv'
BY Ends DEF PollTimeout, abandonMutation

(* A failed read is a refusal like any other.                              *)
LEMMA ListTasksFailsKeeps ==
  ASSUME APIInv, NEW h \in Handlers, ListTasksFails(h)
  PROVE  APIInv'
BY GivesUp DEF ListTasksFails

(* A handler that dies remembers nothing.                                  *)
LEMMA CrashKeeps ==
  ASSUME APIInv, NEW h \in Handlers, Crash(h)
  PROVE  APIInv'
BY Ends DEF Crash

-----------------------------------------------------------------------------
(* The stages of the task.                                                 *)

(* The commands of the stages are not in the ledger of handlers' commands. *)
LEMMA StageLedger ==
  ASSUME APIInv, NEW m, NEW d, NEW o, m.id = Fresh, Ran(m, d, o), Advances,
         RunFits'
  PROVE  LedgersFit' /\ Grown
<1>1. /\ DOMAIN commands' = DOMAIN commands
      /\ \A i \in DOMAIN commands : commands'[i] = commands[i]
  BY FreshAssumption DEF Ran
<1>2. QED
  BY <1>1, LedgersKept DEF APIInv

(* The run starts.                                                         *)
LEMMA StartsRun ==
  ASSUME RunFits, NEW m, m.id \in CommandIDs \cup {Fresh},
         startRun(m)
  PROVE  /\ Ran(m, <<"StartRun", m>>, RunID) /\ m.rev = run.rev /\ RunStep
         /\ run.state = "READY"
         /\ run'.state = "EXECUTING"
<1>0. run \in RunRow
  BY DEF RunFits
<1> DEFINE next == [run EXCEPT !.state = "EXECUTING"]
<1>1. NextRow(next, "EXECUTING", run.spec, run.graph, run.exec,
              run.cand, run.verif, run.review, run.approval)
  BY <1>0, NextState DEF RunStates
<1>2. /\ run.state = "READY" /\ m.rev = run.rev
      /\ persistRunTransition(m, <<"StartRun", m>>, next)
  BY DEF startRun, validateRunCommand
<1> HIDE DEF next
<1>3. /\ Ran(m, <<"StartRun", m>>, RunID)
      /\ Turns("EXECUTING", run.spec, run.graph, run.exec, run.cand,
               run.verif, run.review, run.approval)
  BY <1>0, <1>1, <1>2, RunTurns
<1>4. RunFits'
  BY <1>2, <1>3 DEF RunFits, Turns, RunStates, PlanningStates
<1>5. Advances
  BY <1>2, <1>3 DEF Advances, RunFits, Turns, Undecided, PlanningStates
<1>6. QED
  BY <1>2, <1>3, <1>4, <1>5 DEF RunStep, Turns

(* The start stage starts the run.                                         *)
LEMMA StartRunStageKeeps ==
  ASSUME APIInv, NEW n \in Attempts, StartRunStage(n)
  PROVE  APIInv'
<1>1. PICK m : m = stageMeta("WORKFLOW_SERVICE", run.rev)
  OBVIOUS
<1>2. m.id = Fresh
  BY <1>1 DEF stageMeta
<1>3. startRun(m) /\ UNCHANGED apiVars
  BY <1>1 DEF StartRunStage
<1>4. UNCHANGED <<request, answer, handler, binding, jobs, approvals,
                  retryState>>
  BY <1>3 DEF apiVars
<1>5. /\ Ran(m, <<"StartRun", m>>, RunID) /\ RunStep
      /\ run'.state = "EXECUTING"
  BY <1>2, <1>3, StartsRun DEF APIInv
<1>6. Advances /\ RunFits' /\ task' = task
  BY <1>5 DEF RunStep
<1>7. LedgersFit' /\ Grown
  BY <1>2, <1>5, <1>6, StageLedger
<1>8. Grows /\ \A g \in Handlers : Reserved(g)
  BY <1>4, <1>6, <1>7, GrowsSame
<1>9. TasksFit'
  BY <1>6 DEF APIInv, TasksFit, TaskFits
<1>10. HandlersFit' /\ OneOwner'
  BY <1>4, <1>8, <1>9, HandlersStay
<1>11. MergeFits'
  BY <1>5, <1>8, MergeKept DEF APIInv
<1>12. Replies
  BY <1>4, NoReply
<1>13. QED
  BY <1>4, <1>5, <1>7, <1>10, <1>11, <1>12, RunCommandKeeps

(* A stage's command on the task, when the jobs fit it.                    *)
LEMMA StageTaskKeeps ==
  ASSUME APIInv, NEW m, NEW d, m.id = Fresh, Ran(m, d, T), TaskStep, JobsFit',
         UNCHANGED apiVars
  PROVE  APIInv'
<1>1. UNCHANGED <<request, answer, handler, binding, jobs, approvals,
                  retryState>>
  BY DEF apiVars
<1>2. Advances /\ TasksFit' /\ run' = run /\ task'[T].state # "NONE"
      /\ run.state = "EXECUTING"
  BY DEF TaskStep, Advances
<1>3. RunFits'
  BY <1>2 DEF APIInv, RunFits, PlanningStates
<1>4. LedgersFit' /\ Grown
  BY <1>2, <1>3, StageLedger
<1>5. Grows /\ \A g \in Handlers : Reserved(g)
  BY <1>1, <1>2, <1>4, GrowsSame
<1>6. HandlersFit' /\ OneOwner'
  BY <1>1, <1>2, <1>5, HandlersStay
<1>7. Replies /\ RetriesFit'
  BY <1>1, <1>2, NoReply, RetriesKept DEF APIInv
<1>8. QED
  BY <1>1, <1>4, <1>6, <1>7, TaskCommandKeeps

(* The start stage leases the task for its attempt.                        *)
LEMMA LeaseStageKeeps ==
  ASSUME APIInv, NEW n \in Attempts, LeaseStage(n)
  PROVE  APIInv'
(* A lease uses up the attempt that it names.                              *)
<1>NextTaskLease.
  ASSUME task[T] \in TaskRow, NEW b \in LeaseRef, NEW i \in Nat
  PROVE  NextTask([task[T] EXCEPT !.state = "LEASED", !.lease = b,
                                  !.attempt = i], "LEASED", i,
                  task[T].exec, task[T].cand, task[T].verif, task[T].review,
                  task[T].approval)
  BY <1>NextTaskLease DEF NextTask, TaskRow, TaskStates
(* LeaseTask takes a READY task to the attempt that its lease names.       *)
<1>LeasesTask.
  ASSUME TasksFit, NEW m, m.id \in CommandIDs \cup {Fresh}, NEW i \in Nat,
         leaseTask(m, T, leaseOf(i))
  PROVE  /\ Ran(m, <<"LeaseTask", m, T, leaseOf(i)>>, T) /\ TaskStep
         /\ task[T].state = "READY" /\ task'[T].state = "LEASED"
         /\ i = task[T].attempt + 1 /\ task'[T].attempt = i
  <2> USE <1>LeasesTask
  <2>0. /\ task[T] \in TaskRow /\ task[T].attempt \in Nat
        /\ task[T].max \in Nat /\ task[T].max <= MaxAttempts
    BY DEF TasksFit, TaskFits, TaskRow
  <2> DEFINE lease == leaseOf(i)
             next == [task[T] EXCEPT !.state = "LEASED", !.lease = lease,
                                     !.attempt = @ + 1]
  <2>1. lease.fence = i /\ i = task[T].attempt + 1
    BY DEF leaseOf, leaseTask, nextFence
  <2>2. task[T].attempt < task[T].max
    BY DEF leaseTask, attemptsLeft
  <2>3. i \in 1..MaxAttempts /\ i <= task[T].max
    BY <2>0, <2>1, <2>2, BoundsAssumption, SMT
  <2>4. lease \in LeaseRef
    BY <2>3, NamesAssumption DEF leaseOf, LeaseRef
  <2>5. /\ run.state = "EXECUTING" /\ task[T].state = "READY"
        /\ persistTaskTransition(m, <<"LeaseTask", m, T, leaseOf(i)>>, T, next)
    BY DEF leaseTask, validateTaskRunGate
  <2>6. next = [task[T] EXCEPT !.state = "LEASED", !.lease = lease,
                               !.attempt = i]
    BY <2>1
  <2> HIDE DEF lease, next
  <2>7. NextTask(next, "LEASED", i, task[T].exec, task[T].cand, task[T].verif,
                 task[T].review, task[T].approval)
    BY <2>0, <2>4, <2>6, <1>NextTaskLease
  <2>8. /\ Ran(m, <<"LeaseTask", m, T, leaseOf(i)>>, T)
        /\ TaskTurns("LEASED", i, task[T].exec, task[T].cand, task[T].verif,
                     task[T].review, task[T].approval)
    BY <2>5, <2>7, TaskWrites
  <2>9. TasksFit'
    BY <2>3, <2>8, TaskAfter
  <2>10. task[T].attempt <= i
    BY <2>0, <2>1, SMT
  <2>11. Advances
    BY <2>5, <2>8, <2>10 DEF Advances, TaskTurns
  <2>12. QED
    BY <2>1, <2>5, <2>8, <2>9, <2>11 DEF TaskStep, TaskTurns
<1>1. PICK m : m = stageMeta("WORKFLOW_SERVICE", task[T].rev)
  OBVIOUS
<1>2. m.id = Fresh
  BY <1>1 DEF stageMeta
<1>3. /\ leaseTask(m, T, leaseOf(n)) /\ UNCHANGED apiVars
      /\ jobs[n] = "QUEUED"
  BY <1>1 DEF LeaseStage
<1>4. n \in Nat /\ MaxAttempts \in Nat
  BY SMT, BoundsAssumption DEF Attempts
<1>5. /\ Ran(m, <<"LeaseTask", m, T, leaseOf(n)>>, T) /\ TaskStep
      /\ task[T].state = "READY" /\ task'[T].state = "LEASED"
      /\ n = task[T].attempt + 1 /\ task'[T].attempt = n
  BY <1>2, <1>3, <1>4, <1>LeasesTask DEF APIInv
<1>6. jobs' = jobs
  BY <1>3 DEF apiVars
<1>7. task[T].attempt \in Nat
  BY TheTask DEF APIInv, TasksFit, TaskFits, TaskRow
<1>8. JobsFit'
  <2>1. \A i \in Attempts : jobs[i] = "QUEUED" => i = n
    BY <1>5 DEF APIInv, JobsFit
  <2>2. \A i \in Attempts : i <= n => i = n \/ i <= task[T].attempt
    BY SMTT(20), <1>4, <1>5, <1>7 DEF Attempts
  <2>3. \A i \in Attempts : i <= task[T].attempt => jobs[i] # "NONE"
    BY DEF APIInv, JobsFit
  <2>4. jobs \in [Attempts -> {"NONE", "QUEUED", "DONE"}]
    BY DEF APIInv, JobsFit
  <2>5. jobs[n] # "NONE"
    BY <1>3
  <2>6. QED
    BY <1>5, <1>6, <2>1, <2>2, <2>3, <2>4, <2>5 DEF JobsFit
<1>9. QED
  BY <1>2, <1>3, <1>5, <1>8, StageTaskKeeps

(* The stages after the start, whatever they find.                         *)
LEMMA LaterStagesKeeps ==
  ASSUME APIInv, LaterStages
  PROVE  APIInv'
(* The rows that the commands compute: with nothing bound,                 *)
<1>NextTaskState.
  ASSUME task[T] \in TaskRow, NEW s \in TaskStates
  PROVE  NextTask([task[T] EXCEPT !.state = s], s, task[T].attempt,
                  task[T].exec, task[T].cand, task[T].verif,
                  task[T].review, task[T].approval)
  BY <1>NextTaskState DEF NextTask, TaskRow
(* with the proposal,                                                      *)
<1>NextTaskProposal.
  ASSUME task[T] \in TaskRow, NEW s \in TaskStates, NEW b \in Binding
  PROVE  NextTask([task[T] EXCEPT !.state = s, !.proposal = b], s,
                  task[T].attempt, task[T].exec, task[T].cand, task[T].verif,
                  task[T].review, task[T].approval)
  BY <1>NextTaskProposal DEF NextTask, TaskRow, OptBinding
(* with the execution and its candidate,                                   *)
<1>NextTaskExec.
  ASSUME task[T] \in TaskRow, NEW s \in TaskStates, NEW b \in Binding,
         NEW c \in Commits
  PROVE  NextTask([task[T] EXCEPT !.state = s, !.cand = c, !.exec = b], s,
                  task[T].attempt, b, c, task[T].verif, task[T].review,
                  task[T].approval)
  BY <1>NextTaskExec DEF NextTask, TaskRow, OptBinding, OptCommit
(* with the verification,                                                  *)
<1>NextTaskVerif.
  ASSUME task[T] \in TaskRow, NEW s \in TaskStates, NEW b \in Binding
  PROVE  NextTask([task[T] EXCEPT !.state = s, !.verif = b], s,
                  task[T].attempt, task[T].exec, task[T].cand, b,
                  task[T].review, task[T].approval)
  BY <1>NextTaskVerif DEF NextTask, TaskRow, OptBinding
(* and with the review.                                                    *)
<1>NextTaskReview.
  ASSUME task[T] \in TaskRow, NEW s \in TaskStates, NEW b \in Binding
  PROVE  NextTask([task[T] EXCEPT !.state = s, !.review = b], s,
                  task[T].attempt, task[T].exec, task[T].cand, task[T].verif,
                  b, task[T].approval)
  BY <1>NextTaskReview DEF NextTask, TaskRow, OptBinding
(* The task under a lease is reasoned about.                               *)
<1>StartsReasoning.
  ASSUME TasksFit, NEW m, m.id \in CommandIDs \cup {Fresh}, NEW lease,
         startReasoning(m, T, lease)
  PROVE  /\ Ran(m, <<"StartReasoning", m, T, lease>>, T)
         /\ m.rev = task[T].rev /\ TaskStep
         /\ task[T].state = "LEASED"
         /\ task'[T].attempt = task[T].attempt
         /\ task'[T].state \notin {"LEASED", "NONE"}
  <2> USE <1>StartsReasoning
  <2>0. task[T] \in TaskRow /\ task[T].attempt \in Nat
    BY DEF TasksFit, TaskFits, TaskRow
  <2> DEFINE next == [task[T] EXCEPT !.state = "REASONING"]
  <2>1. NextTask(next, "REASONING", task[T].attempt, task[T].exec,
                task[T].cand, task[T].verif, task[T].review, task[T].approval)
    BY <2>0, <1>NextTaskState DEF TaskStates
  <2>2. /\ run.state = "EXECUTING" /\ task[T].state = "LEASED"
        /\ m.rev = task[T].rev
        /\ persistTaskTransition(m, <<"StartReasoning", m, T, lease>>, T, next)
    BY DEF startReasoning, validateTaskCommand, validateTaskRunGate
  <2> HIDE DEF next
  <2>3. /\ Ran(m, <<"StartReasoning", m, T, lease>>, T)
        /\ TaskTurns("REASONING", task[T].attempt, task[T].exec,
                 task[T].cand, task[T].verif, task[T].review, task[T].approval)
    BY <2>1, <2>2, TaskWrites
  <2>4. TasksFit'
    BY <2>2, <2>3, TaskAfter DEF TasksFit, TaskFits
  <2>5. Advances
    BY <2>0, <2>2, <2>3, SMTT(30) DEF Advances, TaskTurns
  <2>6. QED
    BY <2>2, <2>3, <2>4, <2>5 DEF TaskStep, TaskTurns
(* Its proposal is rejected.                                               *)
<1>RejectsTaskProposal.
  ASSUME TasksFit, NEW m, m.id \in CommandIDs \cup {Fresh},
         NEW x \in Artifacts, rejectTaskProposal(m, T, x)
  PROVE  /\ Ran(m, <<"RejectTaskProposal", m, T, x>>, T)
         /\ m.rev = task[T].rev /\ TaskStep
         /\ task[T].state = "REASONING"
         /\ task'[T].attempt = task[T].attempt
         /\ task'[T].state \notin {"LEASED", "NONE"}
  <2> USE <1>RejectsTaskProposal
  <2>0. task[T] \in TaskRow /\ task[T].attempt \in Nat
    BY DEF TasksFit, TaskFits, TaskRow
  <2> DEFINE b == bound(T, x, Nil, FALSE)
  <2>b. b \in Binding /\ b # Nil /\ (FALSE => b.passed) /\ b.ref = x
    BY BoundBinding DEF OptCommit
  <2> HIDE DEF b
  <2> DEFINE next ==
        [task[T] EXCEPT !.state = "PROPOSAL_REJECTED", !.proposal = b]
  <2>1. NextTask(next, "PROPOSAL_REJECTED", task[T].attempt,
                task[T].exec, task[T].cand, task[T].verif, task[T].review,
                task[T].approval)
    BY <2>0, <2>b, <1>NextTaskProposal DEF TaskStates
  <2>2. /\ run.state = "EXECUTING" /\ task[T].state = "REASONING"
        /\ m.rev = task[T].rev
        /\ persistTaskTransition(m, <<"RejectTaskProposal", m, T, x>>, T, next)
    BY DEF rejectTaskProposal, validateTaskCommand, validateTaskRunGate, b
  <2> HIDE DEF next
  <2>3. /\ Ran(m, <<"RejectTaskProposal", m, T, x>>, T)
        /\ TaskTurns("PROPOSAL_REJECTED", task[T].attempt, task[T].exec,
                 task[T].cand, task[T].verif, task[T].review, task[T].approval)
    BY <2>1, <2>2, TaskWrites
  <2>4. TasksFit'
    BY ZenonT(30), <2>2, <2>3, <2>b, TaskAfter DEF TasksFit, TaskFits
  <2>5. Advances
    BY <2>0, <2>2, <2>3, SMTT(30) DEF Advances, TaskTurns
  <2>6. QED
    BY <2>b, <2>2, <2>3, <2>4, <2>5 DEF TaskStep, TaskTurns
(* Or it is accepted.                                                      *)
<1>AcceptsTaskProposal.
  ASSUME TasksFit, NEW m, m.id \in CommandIDs \cup {Fresh}, NEW lease,
         NEW x \in Artifacts, acceptTaskProposal(m, T, lease, x)
  PROVE  /\ Ran(m, <<"AcceptTaskProposal", m, T, lease, x>>, T)
         /\ m.rev = task[T].rev /\ TaskStep
         /\ task[T].state = "REASONING"
         /\ task'[T].attempt = task[T].attempt
         /\ task'[T].state \notin {"LEASED", "NONE"}
  <2> USE <1>AcceptsTaskProposal
  <2>0. task[T] \in TaskRow /\ task[T].attempt \in Nat
    BY DEF TasksFit, TaskFits, TaskRow
  <2> DEFINE b == bound(T, x, Nil, TRUE)
  <2>b. b \in Binding /\ b # Nil /\ (TRUE => b.passed) /\ b.ref = x
    BY BoundBinding DEF OptCommit
  <2> HIDE DEF b
  <2> DEFINE next == [task[T] EXCEPT !.state = "EXECUTING", !.proposal = b]
  <2>1. NextTask(next, "EXECUTING", task[T].attempt, task[T].exec,
                task[T].cand, task[T].verif, task[T].review, task[T].approval)
    BY <2>0, <2>b, <1>NextTaskProposal DEF TaskStates
  <2>2. /\ run.state = "EXECUTING" /\ task[T].state = "REASONING"
        /\ m.rev = task[T].rev
        /\ persistTaskTransition(m,
             <<"AcceptTaskProposal", m, T, lease, x>>, T, next)
    BY DEF acceptTaskProposal, validateTaskCommand, validateTaskRunGate, b
  <2> HIDE DEF next
  <2>3. /\ Ran(m, <<"AcceptTaskProposal", m, T, lease, x>>, T)
        /\ TaskTurns("EXECUTING", task[T].attempt, task[T].exec,
                 task[T].cand, task[T].verif, task[T].review, task[T].approval)
    BY <2>1, <2>2, TaskWrites
  <2>4. TasksFit'
    BY ZenonT(30), <2>2, <2>3, <2>b, TaskAfter DEF TasksFit, TaskFits
  <2>5. Advances
    BY <2>0, <2>2, <2>3, SMTT(30) DEF Advances, TaskTurns
  <2>6. QED
    BY <2>b, <2>2, <2>3, <2>4, <2>5 DEF TaskStep, TaskTurns
(* The task is executed.                                                   *)
<1>RecordsTaskExecution.
  ASSUME TasksFit, NEW m, m.id \in CommandIDs \cup {Fresh}, NEW lease, NEW p,
         NEW x \in Artifacts, NEW c \in Commits,
         recordTaskExecution(m, T, lease, p, x, c)
  PROVE  /\ Ran(m, <<"RecordTaskExecution", m, T, lease, p, x, c>>, T)
         /\ m.rev = task[T].rev /\ TaskStep
         /\ task[T].state = "EXECUTING"
         /\ task'[T].attempt = task[T].attempt
         /\ task'[T].state \notin {"LEASED", "NONE"}
  <2> USE <1>RecordsTaskExecution
  <2>0. task[T] \in TaskRow /\ task[T].attempt \in Nat
    BY DEF TasksFit, TaskFits, TaskRow
  <2> DEFINE b == bound(T, x, c, TRUE)
  <2>b. b \in Binding /\ b # Nil /\ (TRUE => b.passed) /\ b.ref = x
    BY BoundBinding DEF OptCommit
  <2> HIDE DEF b
  <2> DEFINE next ==
        [task[T] EXCEPT !.state = "VERIFYING", !.cand = c, !.exec = b]
  <2>1. NextTask(next, "VERIFYING", task[T].attempt, b, c,
                task[T].verif, task[T].review, task[T].approval)
    BY <2>0, <2>b, <1>NextTaskExec DEF TaskStates
  <2>2. /\ run.state = "EXECUTING" /\ task[T].state = "EXECUTING"
        /\ m.rev = task[T].rev
        /\ persistTaskTransition(m,
             <<"RecordTaskExecution", m, T, lease, p, x, c>>, T, next)
    BY DEF recordTaskExecution, validateTaskCommand, validateTaskRunGate, b
  <2> HIDE DEF next
  <2>3. /\ Ran(m, <<"RecordTaskExecution", m, T, lease, p, x, c>>, T)
        /\ TaskTurns("VERIFYING", task[T].attempt, b, c, task[T].verif,
                 task[T].review, task[T].approval)
    BY <2>1, <2>2, TaskWrites
  <2>4. TasksFit'
    BY ZenonT(30), <2>2, <2>3, <2>b, TaskAfter DEF TasksFit, TaskFits
  <2>5. Advances
    BY <2>0, <2>2, <2>3, SMTT(30) DEF Advances, TaskTurns
  <2>6. QED
    BY <2>b, <2>2, <2>3, <2>4, <2>5 DEF TaskStep, TaskTurns
(* The task is verified.                                                   *)
<1>RecordsTaskVerification.
  ASSUME TasksFit, NEW m, m.id \in CommandIDs \cup {Fresh},
         NEW x \in Artifacts, NEW c \in Commits, NEW ok \in BOOLEAN,
         recordTaskVerification(m, T, x, c, ok)
  PROVE  /\ Ran(m, <<"RecordTaskVerification", m, T, x, c, ok>>, T)
         /\ m.rev = task[T].rev /\ TaskStep
         /\ task[T].state = "VERIFYING"
         /\ task'[T].attempt = task[T].attempt
         /\ task'[T].state \notin {"LEASED", "NONE"}
  <2> USE <1>RecordsTaskVerification
  <2>0. task[T] \in TaskRow /\ task[T].attempt \in Nat
    BY DEF TasksFit, TaskFits, TaskRow
  <2> DEFINE s == IF ok THEN "REVIEWING" ELSE "REWORK_REQUIRED"
  <2>s. s \in TaskStates /\ s \in {"REVIEWING", "REWORK_REQUIRED"}
        /\ (s = "REVIEWING" => ok)
    BY DEF TaskStates
  <2> HIDE DEF s
  <2> DEFINE b == bound(T, x, c, ok)
  <2>b. b \in Binding /\ b # Nil /\ (ok => b.passed) /\ b.ref = x
    BY BoundBinding DEF OptCommit
  <2> HIDE DEF b
  <2> DEFINE next == [task[T] EXCEPT !.state = s, !.verif = b]
  <2>1. NextTask(next, s, task[T].attempt, task[T].exec, task[T].cand,
                b, task[T].review, task[T].approval)
    BY <2>0, <2>s, <2>b, <1>NextTaskVerif DEF TaskStates
  <2>2. /\ run.state = "EXECUTING" /\ task[T].state = "VERIFYING"
        /\ m.rev = task[T].rev
        /\ persistTaskTransition(m,
             <<"RecordTaskVerification", m, T, x, c, ok>>, T, next)
    BY DEF recordTaskVerification, validateTaskCommand, validateTaskRunGate,
       s, b
  <2> HIDE DEF next
  <2>3. /\ Ran(m, <<"RecordTaskVerification", m, T, x, c, ok>>, T)
        /\ TaskTurns(s, task[T].attempt, task[T].exec, task[T].cand, b,
                 task[T].review, task[T].approval)
    BY <2>1, <2>2, TaskWrites
  <2>4. TasksFit'
    BY ZenonT(30), <2>2, <2>3, <2>s, <2>b, TaskAfter DEF TasksFit, TaskFits
  <2>5. Advances
    BY <2>0, <2>2, <2>3, <2>s, SMTT(30) DEF Advances, TaskTurns
  <2>6. QED
    BY <2>b, <2>2, <2>3, <2>4, <2>5 DEF TaskStep, TaskTurns, s
(* The task is reviewed.                                                   *)
<1>RecordsTaskReview.
  ASSUME TasksFit, NEW m, m.id \in CommandIDs \cup {Fresh},
         NEW x \in Artifacts, NEW c \in Commits, NEW ok \in BOOLEAN,
         recordTaskReview(m, T, x, c, ok)
  PROVE  /\ Ran(m, <<"RecordTaskReview", m, T, x, c, ok>>, T)
         /\ m.rev = task[T].rev /\ TaskStep
         /\ task[T].state = "REVIEWING"
         /\ task'[T].attempt = task[T].attempt
         /\ task'[T].state \notin {"LEASED", "NONE"}
  <2> USE <1>RecordsTaskReview
  <2>0. task[T] \in TaskRow /\ task[T].attempt \in Nat
    BY DEF TasksFit, TaskFits, TaskRow
  <2> DEFINE s == IF ok THEN "AWAITING_APPROVAL" ELSE "REWORK_REQUIRED"
  <2>s. s \in TaskStates /\ s \in {"AWAITING_APPROVAL", "REWORK_REQUIRED"}
        /\ (s = "AWAITING_APPROVAL" => ok)
    BY DEF TaskStates
  <2> HIDE DEF s
  <2> DEFINE b == bound(T, x, c, ok)
  <2>b. b \in Binding /\ b # Nil /\ (ok => b.passed) /\ b.ref = x
    BY BoundBinding DEF OptCommit
  <2> HIDE DEF b
  <2> DEFINE next == [task[T] EXCEPT !.state = s, !.review = b]
  <2>1. NextTask(next, s, task[T].attempt, task[T].exec, task[T].cand,
                task[T].verif, b, task[T].approval)
    BY <2>0, <2>s, <2>b, <1>NextTaskReview DEF TaskStates
  <2>2. /\ run.state = "EXECUTING" /\ task[T].state = "REVIEWING"
        /\ m.rev = task[T].rev
        /\ persistTaskTransition(m,
             <<"RecordTaskReview", m, T, x, c, ok>>, T, next)
    BY DEF recordTaskReview, validateTaskCommand, validateTaskRunGate, s, b
  <2> HIDE DEF next
  <2>3. /\ Ran(m, <<"RecordTaskReview", m, T, x, c, ok>>, T)
        /\ TaskTurns(s, task[T].attempt, task[T].exec, task[T].cand,
                 task[T].verif, b, task[T].approval)
    BY <2>1, <2>2, TaskWrites
  <2>4. TasksFit'
    BY ZenonT(30), <2>2, <2>3, <2>s, <2>b, TaskAfter DEF TasksFit, TaskFits
  <2>5. Advances
    BY <2>0, <2>2, <2>3, <2>s, SMTT(30) DEF Advances, TaskTurns
  <2>6. QED
    BY <2>b, <2>2, <2>3, <2>4, <2>5 DEF TaskStep, TaskTurns, s
(* A command of a later stage, of an attempt whose start job is done.      *)
<1>LaterStageKeeps.
  ASSUME NEW m, NEW d, m.id = Fresh, Ran(m, d, T), TaskStep,
         task'[T].attempt = task[T].attempt,
         task'[T].state \notin {"LEASED", "NONE"},
         jobs[task[T].attempt] = "DONE", UNCHANGED apiVars
  PROVE  APIInv'
  <2> USE <1>LaterStageKeeps
  <2>1. jobs' = jobs
    BY DEF apiVars
  <2>2. JobsFit'
    BY <2>1, JobsKept DEF APIInv
  <2>3. QED
    BY <2>2, StageTaskKeeps
(* The names of the evidence of an attempt.                                *)
<1>EvidenceNames.
  ASSUME NEW n \in 1..MaxAttempts
  PROVE  /\ RefOf("proposal", n) \in Artifacts
         /\ RefOf("execution", n) \in Artifacts
         /\ RefOf("evidence", n) \in Artifacts
         /\ RefOf("review", n) \in Artifacts
         /\ n \in Commits
  <2> USE <1>EvidenceNames
  <2>1. {"proposal", "execution", "evidence", "review"} \X (1..MaxAttempts)
          \subseteq Artifacts
    BY NamesAssumption
  <2>2. \A c \in {"proposal", "execution", "evidence", "review"} :
          <<c, n>> \in Artifacts
    BY <2>1
  <2>3. n \in Commits
    BY NamesAssumption
  <2>4. QED
    BY <2>2, <2>3 DEF RefOf
<1>1. PICK n : n = task[T].attempt
  OBVIOUS
<1>2. PICK r : r = task[T].rev
  OBVIOUS
<1>3. n > 0 /\ jobs[n] = "DONE" /\ UNCHANGED apiVars
  BY <1>1 DEF LaterStages
<1>4. TasksFit /\ TaskFits(task[T])
  BY DEF APIInv, TasksFit
<1>5. n \in Nat /\ n <= task[T].max /\ task[T].max <= MaxAttempts
      /\ task[T].max \in Nat
  BY <1>1, <1>4 DEF TaskFits, TaskRow
<1>6. n \in 1..MaxAttempts
  BY SMTT(20), <1>3, <1>5, BoundsAssumption
<1>7. /\ RefOf("proposal", n) \in Artifacts
      /\ RefOf("execution", n) \in Artifacts
      /\ RefOf("evidence", n) \in Artifacts
      /\ RefOf("review", n) \in Artifacts
      /\ n \in Commits
  BY <1>6, <1>EvidenceNames
<1>8. \A c : stageMeta(c, r).id = Fresh
  BY DEF stageMeta
<1>9. \/ startReasoning(stageMeta("REASONING_SERVICE", r), T, leaseOf(n))
      \/ rejectTaskProposal(stageMeta("REASONING_SERVICE", r), T,
                            RefOf("proposal", n))
      \/ acceptTaskProposal(stageMeta("EXECUTION_SERVICE", r), T, leaseOf(n),
                            RefOf("proposal", n))
      \/ recordTaskExecution(stageMeta("EXECUTION_SERVICE", r), T, leaseOf(n),
                             RefOf("proposal", n), RefOf("execution", n), n)
      \/ \E ok \in BOOLEAN :
           \/ recordTaskVerification(stageMeta("VERIFICATION_SERVICE", r), T,
                                     RefOf("evidence", n), n, ok)
           \/ recordTaskReview(stageMeta("REVIEW_SERVICE", r), T,
                               RefOf("review", n), n, ok)
  BY <1>1, <1>2 DEF LaterStages
<1>10. CASE startReasoning(stageMeta("REASONING_SERVICE", r), T, leaseOf(n))
  BY <1>1, <1>3, <1>4, <1>8, <1>10, <1>StartsReasoning, <1>LaterStageKeeps
<1>11. CASE rejectTaskProposal(stageMeta("REASONING_SERVICE", r), T,
                               RefOf("proposal", n))
  BY <1>1, <1>3, <1>4, <1>7, <1>8, <1>11, <1>RejectsTaskProposal,
     <1>LaterStageKeeps
<1>12. CASE acceptTaskProposal(stageMeta("EXECUTION_SERVICE", r), T,
                               leaseOf(n), RefOf("proposal", n))
  BY <1>1, <1>3, <1>4, <1>7, <1>8, <1>12, <1>AcceptsTaskProposal,
     <1>LaterStageKeeps
<1>13. CASE recordTaskExecution(stageMeta("EXECUTION_SERVICE", r), T,
                                leaseOf(n), RefOf("proposal", n),
                                RefOf("execution", n), n)
  BY <1>1, <1>3, <1>4, <1>7, <1>8, <1>13, <1>RecordsTaskExecution,
     <1>LaterStageKeeps
<1>14. ASSUME NEW ok \in BOOLEAN,
              recordTaskVerification(stageMeta("VERIFICATION_SERVICE", r), T,
                                     RefOf("evidence", n), n, ok)
       PROVE  APIInv'
  BY <1>1, <1>3, <1>4, <1>7, <1>8, <1>14, <1>RecordsTaskVerification,
     <1>LaterStageKeeps
<1>15. ASSUME NEW ok \in BOOLEAN,
              recordTaskReview(stageMeta("REVIEW_SERVICE", r), T,
                               RefOf("review", n), n, ok)
       PROVE  APIInv'
  BY <1>1, <1>3, <1>4, <1>7, <1>8, <1>15, <1>RecordsTaskReview,
     <1>LaterStageKeeps
<1>16. QED
  BY <1>9, <1>10, <1>11, <1>12, <1>13, <1>14, <1>15

-----------------------------------------------------------------------------
(* The approval of a plan.                                                 *)

(* POST /approve-task-graph.                                               *)
LEMMA ApproveTaskGraphRouteKeeps ==
  ASSUME APIInv, NEW h \in Handlers, NEW k, NEW x, NEW t, NEW a,
         Holds(h, k, x, t, a), ApproveTaskGraphRoute(h)
  PROVE  APIInv'
(* The plan comes into being READY.                                        *)
<1>PlansTask.
  ASSUME TasksFit, RunFits, NEW m, m.id \in CommandIDs \cup {Fresh}, NEW g,
         approveTaskGraph(m, g, [u \in {T} |-> MaxAttempts], {})
  PROVE  /\ Ran(m, <<"ApproveTaskGraph", m, g, [u \in {T} |-> MaxAttempts],
                     {}>>, RunID)
         /\ m.rev = run.rev /\ Advances /\ RunFits' /\ TasksFit'
         /\ run.state = "TASK_PLAN_REVIEW" /\ run'.rev = run.rev + 1
         /\ run'.state = "READY" /\ run'.graph = g /\ g # Nil
         /\ task[T].state = "NONE" /\ task'[T].state = "READY"
         /\ task'[T].attempt = 0
  <2> USE <1>PlansTask
  <2> DEFINE plan == [u \in {T} |-> MaxAttempts]
             next == [run EXCEPT !.state = "READY"]
             fresh == [NoTask EXCEPT !.state = "READY", !.rev = 1,
                                     !.max = MaxAttempts]
  <2>1. /\ run.state = "TASK_PLAN_REVIEW" /\ m.rev = run.rev /\ run.graph = g
        /\ Ran(m, <<"ApproveTaskGraph", m, g, plan, {}>>, RunID)
        /\ run' = [next EXCEPT !.rev = @ + 1]
        /\ task' = buildPlannedTasks(plan, {})
    BY RanIntro DEF approveTaskGraph, finishRunTransition
  <2>2. /\ task[T].state = "NONE" /\ task[T].rev = 0 /\ task[T].attempt = 0
        /\ g # Nil /\ run \in RunRow
    BY <2>1 DEF RunFits, PlanningStates, TasksFit, TaskFits
  <2>3. task' = [u \in Tasks |-> fresh]
    BY <2>1, TheTask DEF buildPlannedTasks
  <2>z. 0 \in Nat /\ 1 \in Nat /\ 0 <= 0 /\ 1 = 0 + 1
    BY SMT
  <2>4. /\ fresh \in TaskRow /\ fresh.state = "READY" /\ fresh.rev = 1
        /\ fresh.max = MaxAttempts /\ fresh.attempt = 0
    BY <2>z, BoundsAssumption
    DEF NoTask, TaskRow, TaskStates, OptBinding, OptCommit
  <2>5. 0 <= MaxAttempts /\ MaxAttempts <= MaxAttempts
    BY BoundsAssumption, SMT
  <2>6. NextRow(next, "READY", run.spec, run.graph, run.exec, run.cand,
                run.verif, run.review, run.approval)
    BY <2>2, NextState DEF RunStates
  <2> HIDE DEF next, fresh, plan
  <2>7. task' \in [Tasks -> TaskRow] /\ task'[T] = fresh
    BY <2>3, <2>4, TheTask
  <2>8. TasksFit'
    BY <2>4, <2>5, <2>7 DEF TasksFit, TaskFits
  <2>9. next.rev = run.rev /\ next.rev + 1 \in Nat /\ next \in RunRow
    BY <2>6, SMTT(30) DEF NextRow, RunRow
  <2>10. /\ run' \in RunRow /\ run'.rev = run.rev + 1
         /\ run'.state = next.state /\ run'.spec = next.spec
         /\ run'.graph = next.graph
    BY <2>1, <2>9, SMT DEF RunRow
  <2>11. /\ run' \in RunRow /\ run'.rev = run.rev + 1 /\ run'.state = "READY"
         /\ run'.spec = run.spec /\ run'.graph = run.graph
    BY <2>6, <2>10 DEF NextRow
  <2>12. RunFits'
    BY <2>11 DEF RunFits, RunStates, PlanningStates
  <2>13. task'[T].rev = task[T].rev + 1 /\ task[T].attempt <= task'[T].attempt
    BY <2>2, <2>4, <2>7, <2>z
  <2>14. Advances
    BY <2>1, <2>2, <2>4, <2>7, <2>11, <2>13
    DEF Advances, Undecided, PlanningStates
  <2>15. QED
    BY <2>1, <2>2, <2>4, <2>7, <2>8, <2>11, <2>12, <2>14 DEF plan
(* What the approval of a plan writes with its command.                    *)
<1>ApproveOnceWrites.
  ASSUME NEW g \in OptArtifact, handler[h].run.graph = g, approveOnce(h)
  PROVE  /\ binding' \in [spec : OptArtifact, graph : OptArtifact,
                          task : OptArtifact, approval : OptArtifact]
         /\ binding'.spec = binding.spec /\ binding'.graph = g
         /\ binding'.task # Nil /\ binding'.approval = binding.approval
         /\ jobs' \in [Attempts -> {"NONE", "QUEUED", "DONE"}]
         /\ 1 \in Attempts
         /\ jobs'[1] = IF jobs[1] = "NONE" THEN "QUEUED" ELSE jobs[1]
         /\ \A n \in Attempts : n # 1 => jobs'[n] = jobs[n]
  <2> USE <1>ApproveOnceWrites
  <2>1. PICK r : r = Ref("task")
    OBVIOUS
  <2>2. r \in Artifacts /\ r # Nil
    BY <2>1, NamesAssumption, NilAssumption
  <2>3. /\ binding' = [binding EXCEPT !.graph = g, !.task = r]
        /\ jobs' = [jobs EXCEPT ![1] = IF @ = "NONE" THEN "QUEUED" ELSE @]
    BY <2>1 DEF approveOnce
  <2>4. /\ binding \in [spec : OptArtifact, graph : OptArtifact,
                        task : OptArtifact, approval : OptArtifact]
        /\ jobs \in [Attempts -> {"NONE", "QUEUED", "DONE"}]
    BY DEF APIInv, BindingsFit, JobsFit
  <2>5. r \in OptArtifact
    BY <2>2 DEF OptArtifact
  <2>6. /\ binding' \in [spec : OptArtifact, graph : OptArtifact,
                         task : OptArtifact, approval : OptArtifact]
        /\ binding'.spec = binding.spec /\ binding'.graph = g
        /\ binding'.task = r /\ binding'.approval = binding.approval
    BY <2>3, <2>4, <2>5
  <2>7. 1 \in Attempts
    BY SMT, BoundsAssumption DEF Attempts
  <2>8. /\ jobs' \in [Attempts -> {"NONE", "QUEUED", "DONE"}]
        /\ jobs'[1] = IF jobs[1] = "NONE" THEN "QUEUED" ELSE jobs[1]
        /\ \A n \in Attempts : n # 1 => jobs'[n] = jobs[n]
    BY <2>3, <2>4, <2>7
  <2>9. QED
    BY <2>2, <2>6, <2>7, <2>8
(* With the command, graph and task are bound and the job is queued.       *)
<1>PlanBindings.
  ASSUME Advances, RunFits', TasksFit', NEW g, handler[h].run.graph = g,
         approveOnce(h), g # Nil, run'.graph = g, task[T].state = "NONE",
         task'[T].state = "READY", task'[T].attempt = 0
  PROVE  /\ BindingsFit' /\ JobsFit' /\ binding'.approval = binding.approval
  <2> USE <1>PlanBindings
  <2>1. g \in OptArtifact
    BY DEF RunFits, RunRow
  <2>2. /\ binding' \in [spec : OptArtifact, graph : OptArtifact,
                         task : OptArtifact, approval : OptArtifact]
        /\ binding'.spec = binding.spec /\ binding'.graph = g
        /\ binding'.task # Nil /\ binding'.approval = binding.approval
        /\ jobs' \in [Attempts -> {"NONE", "QUEUED", "DONE"}]
        /\ 1 \in Attempts
        /\ jobs'[1] = IF jobs[1] = "NONE" THEN "QUEUED" ELSE jobs[1]
        /\ \A n \in Attempts : n # 1 => jobs'[n] = jobs[n]
    BY <2>1, <1>ApproveOnceWrites
  <2>3. \A n \in Attempts : jobs[n] = "NONE"
    BY DEF APIInv, JobsFit
  <2>4. BindingsFit'
    <3>1. binding.spec # Nil => Specified(binding.spec)
      BY DEF APIInv, BindingsFit
    <3>2. binding'.spec # Nil => Specified(binding.spec)'
      BY <2>2, <3>1 DEF Specified, Advances
    <3>3. binding.approval = Nil
      BY DEF APIInv, BindingsFit, AcceptedBy
    <3>4. jobs'[1] # "NONE"
      BY <2>2, <2>3
    <3>5. QED
      BY <2>2, <3>2, <3>3, <3>4 DEF BindingsFit
  <2>5. JobsFit'
    <3>1. \A n \in Attempts : jobs'[n] = "QUEUED" => n = 0 + 1
      BY SMTT(20), <2>2, <2>3
    <3>2. \A n \in Attempts : ~(n <= 0)
      BY SMT, BoundsAssumption DEF Attempts
    <3>3. QED
      BY <2>2, <3>1, <3>2 DEF JobsFit
  <2>6. QED
    BY <2>2, <2>4, <2>5
(* The elements of the digest of a plan's approval.                        *)
<1>PlanDigest.
  ASSUME NEW c, NEW m, NEW g, NEW p
  PROVE  <<c, m, g, p, {}>>[2] = m /\ <<c, m, g, p, {}>>[3] = g
  BY <1>PlanDigest, SMT
(* The plan is approved: command, bindings and start job in one commit.    *)
<1>PlanNewKeeps.
  ASSUME handler[h].pc = "command", request[k].route = "approve-task-graph",
         NEW m, m.id = <<k, "approve-task-graph">>, m.rev = x.rev,
         approveTaskGraph(m, x.graph, [i \in {T} |-> MaxAttempts], {}),
         approveOnce(h), goto(h, "respond"),
         UNCHANGED <<answer, request, approvals, retryState>>
  PROVE  APIInv'
  <2> USE <1>PlanNewKeeps
  <2>1. /\ k \in Keys /\ request[k] # Nil /\ x.rev = request[k].rev
    BY AtCommand
  <2>2. PICK d : d = <<"ApproveTaskGraph", m, x.graph,
                       [i \in {T} |-> MaxAttempts], {}>>
    OBVIOUS
  <2>3. d[2] = m /\ d[3] = x.graph
    BY <2>2, <1>PlanDigest
  <2>4. <<k, "approve-task-graph">>[2] = "approve-task-graph"
    BY SMT
  <2>5. m.id \in CommandIDs /\ "approve-task-graph" \in RunSteps
    BY <2>1, NamesAssumption DEF Steps, RunSteps, PlanningRoutes
  <2>6. TasksFit /\ RunFits /\ LedgersFit /\ RetriesFit
    BY DEF APIInv
  <2>7. /\ Ran(m, d, RunID)
        /\ m.rev = run.rev /\ Advances /\ RunFits' /\ TasksFit'
        /\ run.state = "TASK_PLAN_REVIEW" /\ run'.rev = run.rev + 1
        /\ run'.state = "READY" /\ run'.graph = x.graph /\ x.graph # Nil
        /\ task[T].state = "NONE" /\ task'[T].state = "READY"
        /\ task'[T].attempt = 0
    BY <2>2, <2>5, <2>6, <1>PlansTask
  <2>8. /\ BindingsFit' /\ JobsFit' /\ binding'.approval = binding.approval
    BY <2>7, <1>PlanBindings DEF Holds
  <2>9. /\ m.id \in DOMAIN commands' /\ commands'[m.id].digest = d
    BY <2>5, <2>7 DEF Ran
  <2>10. run.rev \in Nat /\ run.rev < run'.rev
    <3>1. run.rev \in Nat
      BY <2>6 DEF RunFits, RunRow
    <3>2. QED
      BY SMTT(20), <2>7, <3>1
  <2>11. LedgerFits(m.id)'
    <3>1. PlannedOn(commands[m.id].digest[3])'
      BY <2>3, <2>7, <2>9 DEF PlannedOn
    <3>2. commands'[m.id].digest[2].rev \in Nat
          /\ commands'[m.id].digest[2].rev < run'.rev
      BY <2>3, <2>7, <2>9, <2>10
    <3>3. QED
      BY <2>4, <3>1, <3>2 DEF LedgerFits
  <2>12. LedgersFit' /\ Grown
    BY <2>3, <2>4, <2>5, <2>6, <2>7, <2>11, LedgersGrow
  <2>13. Grows
    BY <2>7, <2>8, <2>12 DEF Grows
  <2>14. \A g \in Handlers : Reserved(g)
    BY DEF Reserved
  <2>15. Commands(k, "approve-task-graph") /\ Done(k, "approve-task-graph")'
    BY <2>9 DEF Commands, PlanningRoutes, Done
  <2>16. Served(k)'
    <3>1. /\ commands'[<<k, "approve-task-graph">>].digest = d
          /\ d[2].rev = request[k].rev /\ request'[k] = request[k]
      BY <2>1, <2>3, <2>9
    <3>2. QED
      BY <2>15, <3>1, CommandServes
  <2>17. Fits("respond", k, x, t, a)'
    BY <2>1, <2>16, RouteFitsNext
  <2>18. Becomes(h, "respond", k, x, t, a)
    BY GotoBecomes, Places
  <2>19. HandlersFit' /\ OneOwner'
    BY <2>7, <2>13, <2>14, <2>17, <2>18, HandlersStep
  <2>20. MergeFits' /\ RetriesFit'
    BY <2>6, <2>7, RetriesKept DEF MergeFits
  <2>21. ApprovalsFit' /\ RequestsFit'
    BY <2>7, <2>12, <2>13, NoReply, ApprovalsKept, RequestsKept
  <2>22. QED
    BY <2>7, <2>8, <2>12, <2>19, <2>20, <2>21 DEF APIInv
(* It was approved by this request before.                                 *)
<1>PlanReplayKeeps.
  ASSUME handler[h].pc = "command", request[k].route = "approve-task-graph",
         NEW m, m.id = <<k, "approve-task-graph">>, m.rev = x.rev, NEW d,
         d[2] = m, d[3] = x.graph, loadCommandResult(m, d) = "replay",
         approveOnce(h), goto(h, "respond"),
         UNCHANGED <<vars, answer, request, approvals, retryState>>
  PROVE  APIInv'
  <2> USE <1>PlanReplayKeeps
  <2>1. /\ k \in Keys /\ request[k] # Nil /\ x.rev = request[k].rev
    BY AtCommand
  <2>2. <<k, "approve-task-graph">>[2] = "approve-task-graph"
    BY SMT
  <2>3. m.id \in DOMAIN commands /\ commands[m.id].digest = d
    BY DEF loadCommandResult
  <2>4. PlannedOn(x.graph)
    <3>1. LedgerFits(m.id)
      BY <2>3 DEF APIInv, LedgersFit
    <3>2. QED
      BY <2>2, <2>3, <3>1 DEF LedgerFits
  <2>5. run.graph = x.graph /\ x.graph # Nil /\ task[T].state # "NONE"
    BY <2>4 DEF PlannedOn
  <2>6. x.graph \in OptArtifact
    BY <2>5 DEF APIInv, RunFits, RunRow
  <2>7. /\ binding' \in [spec : OptArtifact, graph : OptArtifact,
                         task : OptArtifact, approval : OptArtifact]
        /\ binding'.spec = binding.spec /\ binding'.graph = x.graph
        /\ binding'.task # Nil /\ binding'.approval = binding.approval
        /\ jobs' \in [Attempts -> {"NONE", "QUEUED", "DONE"}]
        /\ 1 \in Attempts
        /\ jobs'[1] = IF jobs[1] = "NONE" THEN "QUEUED" ELSE jobs[1]
        /\ \A n \in Attempts : n # 1 => jobs'[n] = jobs[n]
    BY <2>6, <1>ApproveOnceWrites DEF Holds
  <2>8. /\ run' = run /\ task' = task /\ commands' = commands
    BY DEF vars
  <2>9. BindingsFit'
    <3>1. /\ binding.spec # Nil => Specified(binding.spec)
          /\ binding.approval # Nil => AcceptedBy(binding.approval)
          /\ jobs[1] # "NONE"
      BY <2>5 DEF APIInv, BindingsFit
    <3>2. /\ binding'.spec # Nil => Specified(binding.spec)'
          /\ binding'.approval # Nil => AcceptedBy(binding.approval)'
      BY <2>7, <2>8, <3>1 DEF Specified, AcceptedBy
    <3>3. jobs'[1] # "NONE"
      BY <2>7, <3>1
    <3>4. QED
      BY <2>5, <2>7, <2>8, <3>2, <3>3 DEF BindingsFit
  <2>10. JobsFit'
    <3>1. \A n \in Attempts : jobs'[n] = jobs[n]
      BY <2>5, <2>7 DEF APIInv, BindingsFit
    <3>2. QED
      BY <2>5, <2>7, <2>8, <3>1 DEF APIInv, JobsFit
  <2>11. Grows /\ TasksFit' /\ \A g \in Handlers : Reserved(g)
    BY <2>7, StoresGrow
  <2>12. Commands(k, "approve-task-graph") /\ Done(k, "approve-task-graph")'
    BY <2>3, <2>8 DEF Commands, PlanningRoutes, Done
  <2>13. Served(k)'
    <3>1. /\ commands'[<<k, "approve-task-graph">>].digest = d
          /\ d[2].rev = request[k].rev /\ request'[k] = request[k]
      BY <2>1, <2>3, <2>8
    <3>2. QED
      BY <2>12, <3>1, CommandServes
  <2>14. Fits("respond", k, x, t, a)'
    BY <2>1, <2>13, RouteFitsNext
  <2>15. Becomes(h, "respond", k, x, t, a)
    BY GotoBecomes, Places
  <2>16. HandlersFit' /\ OneOwner'
    BY <2>11, <2>14, <2>15, HandlersStep
  <2>17. QED
    BY <2>7, <2>9, <2>10, <2>16, NoReply, StoreStepKeeps
<1>1. PICK m : m = humanMeta(h, "approve-task-graph")
  OBVIOUS
<1>2. PICK d : d = <<"ApproveTaskGraph", m, x.graph,
                     [i \in {T} |-> MaxAttempts], {}>>
  OBVIOUS
<1>3. /\ m.id = <<k, "approve-task-graph">> /\ m.rev = x.rev
      /\ d[2] = m /\ d[3] = x.graph
  BY <1>1, <1>2, <1>PlanDigest DEF humanMeta, envelope, Holds, keyOf
<1>4. /\ keyOf(h) = k /\ handler[h].run = x
      /\ req(h) = request[k]
  BY DEF Holds, keyOf, req
<1>5. /\ handler[h].pc = "command" /\ request[k].route = "approve-task-graph"
      /\ UNCHANGED <<request, approvals, retryState>>
      /\ \/ /\ approveTaskGraph(m, x.graph, [i \in {T} |-> MaxAttempts], {})
            /\ approveOnce(h) /\ goto(h, "respond") /\ UNCHANGED answer
         \/ /\ loadCommandResult(m, d) = "replay"
            /\ approveOnce(h) /\ goto(h, "respond")
            /\ UNCHANGED <<vars, answer>>
         \/ /\ respond(h, "refused")
            /\ UNCHANGED <<vars, binding, jobs>>
  BY <1>1, <1>2, <1>4 DEF ApproveTaskGraphRoute
<1>6. CASE /\ approveTaskGraph(m, x.graph, [i \in {T} |-> MaxAttempts], {})
           /\ approveOnce(h) /\ goto(h, "respond") /\ UNCHANGED answer
  BY <1>3, <1>5, <1>6, <1>PlanNewKeeps
<1>7. CASE /\ loadCommandResult(m, d) = "replay"
           /\ approveOnce(h) /\ goto(h, "respond")
           /\ UNCHANGED <<vars, answer>>
  BY <1>3, <1>5, <1>7, <1>PlanReplayKeeps
<1>8. CASE respond(h, "refused") /\ UNCHANGED <<vars, binding, jobs>>
  BY <1>5, <1>8, GivesUp
<1>9. QED
  BY <1>5, <1>6, <1>7, <1>8

-----------------------------------------------------------------------------
(* The invariant, and what it implies.                                     *)

(* A stuttering step.                                                      *)
LEMMA APIStutter ==
  ASSUME APIInv, UNCHANGED allVars
  PROVE  APIInv'
<1>1. UNCHANGED <<vars, request, answer, handler, binding, jobs, approvals,
                  retryState>>
  BY DEF allVars, apiVars
<1>2. /\ Grows /\ TasksFit' /\ \A g \in Handlers : Reserved(g)
  BY <1>1, StoresGrow
<1>3. HandlersFit' /\ OneOwner'
  BY <1>1, <1>2, HandlersStay
<1>4. Advances /\ run' = run /\ task' = task
  BY <1>1, StillAdvances
<1>5. BindingsFit' /\ JobsFit'
  BY <1>1, <1>4, BindingsKept, JobsKept DEF APIInv
<1>6. QED
  BY <1>1, <1>3, <1>5, NoReply, StoreStepKeeps

(* Every step of a handler,                                                *)
LEMMA HandlerStepKeeps ==
  ASSUME APIInv, NEW h \in Handlers, HandlerStep(h)
  PROVE  APIInv'
<1>1. PICK k, x, t, a : Holds(h, k, x, t, a)
  BY DEF Holds
<1>2. ApprovalStep(h) => APIInv'
  BY <1>1, ReadEvidenceKeeps, ApprovalBeginKeeps, PollTimeoutKeeps,
     SaveDecisionKeeps, ApplyDecisionKeeps, CompleteApprovalKeeps,
     CheckpointApprovalKeeps, ReadRunKeeps, AggregateKeeps DEF ApprovalStep
<1>3. QED
  BY <1>1, <1>2, ApplyKeeps, RunRoutesKeep, CheckpointSpecificationKeeps,
     ApproveTaskGraphRouteKeeps, RetryTaskRouteKeeps, RetryReadKeeps,
     EnqueueRetryKeeps, RespondKeeps DEF HandlerStep

(* and every step.                                                         *)
LEMMA APINextKeeps ==
  ASSUME APIInv, [APINext]_allVars
  PROVE  APIInv'
<1>1. ASSUME NEW k \in Keys, Send(k)
      PROVE  APIInv'
  BY <1>1, SendKeeps
<1>2. ASSUME NEW h \in Handlers,
             Serve(h) \/ HandlerStep(h) \/ ListTasksFails(h) \/ Crash(h)
             \/ ServerError(h)
      PROVE  APIInv'
  BY <1>2, ServeKeeps, HandlerStepKeeps, ListTasksFailsKeeps, CrashKeeps,
     ServerErrorKeeps
<1>3. Stages => APIInv'
  BY StartRunStageKeeps, LeaseStageKeeps, StartStageDoneKeeps,
     LaterStagesKeeps DEF Stages
<1>4. QED
  BY <1>1, <1>2, <1>3, APIStutter DEF APINext

(* The invariant of the control API's handlers.                            *)
THEOREM APIInvariant == APISpec => []APIInv
<1>1. APIInit => APIInv
  BY InitAPIInv
<1>2. APIInv /\ [APINext]_allVars => APIInv'
  BY APINextKeeps
<1>3. QED
  BY <1>1, <1>2, PTL DEF APISpec

-----------------------------------------------------------------------------
(* The approved specification and its checkpoint.                          *)

(* The states of a run without an approved specification.                  *)
Unplanned == {"DRAFT", "SPECIFICATION_REVIEW", "REJECTED"}

(* A handler that is about to answer the approval of a specification, and  *)
(* one that has, has seen its checkpoint; and an approved specification    *)
(* waits for its checkpoint only with a handler that will write it, as     *)
(* long as nothing failed.                                                 *)
SpecBound ==
  /\ faults \in Nat
  /\ \A h \in Handlers :
       handler[h].pc = "respond"
       /\ request[handler[h].key].route = "approve-specification"
         => binding.spec # Nil
  /\ \A k \in Keys :
       answer[k] = "ok" /\ request[k].route = "approve-specification"
         => binding.spec # Nil
  /\ run.state \notin Unplanned /\ binding.spec = Nil =>
       faults > 0 \/ \E h \in Handlers :
                       handler[h].pc = "checkpoint-specification"

(* A step of a handler that has nothing to do with a checkpoint.           *)
MovesOn(h) ==
  /\ \A g \in Handlers : g # h => handler'[g] = handler[g]
  /\ handler[h].pc # "checkpoint-specification"
  /\ handler'[h].pc = "respond" =>
       request[handler'[h].key].route # "approve-specification"
  /\ \A k \in Keys : answer'[k] = "ok" =>
       answer[k] = "ok" \/ (handler[h].pc = "respond" /\ handler[h].key = k)
  /\ request' = request /\ binding'.spec = binding.spec /\ faults' = faults
  /\ run.state \in Unplanned => run'.state \in Unplanned

(* What is approved stays bound through every step.                        *)
LEMMA SpecBoundKeeps ==
  ASSUME APIInv, SpecBound, [APINext]_allVars
  PROVE  SpecBound'
(* The memory of a handler after its step.                                 *)
<1>IdleNext.
  ASSUME NEW h \in Handlers, handler' = [handler EXCEPT ![h] = Idle]
  PROVE  /\ \A g \in Handlers : g # h => handler'[g] = handler[g]
         /\ handler'[h].pc = "idle"
  BY <1>IdleNext, IdleBecomes DEF Becomes
<1>GotoNext.
  ASSUME NEW h \in Handlers, NEW pc, goto(h, pc)
  PROVE  /\ \A g \in Handlers : g # h => handler'[g] = handler[g]
         /\ handler'[h].pc = pc /\ handler'[h].key = handler[h].key
  <2> USE <1>GotoNext
  <2>1. handler[h] \in HandlerMemory
    BY DEF APIInv, HandlersFit
  <2>2. handler'[h] = [handler[h] EXCEPT !.pc = pc]
    BY DEF goto, APIInv, HandlersFit
  <2>3. handler'[h].pc = pc /\ handler'[h].key = handler[h].key
    BY <2>1, <2>2, SMT DEF HandlerMemory
  <2>4. QED
    BY <2>3 DEF goto, APIInv, HandlersFit
(* A refusal answers nothing with "ok".                                    *)
<1>Refuses.
  ASSUME NEW h \in Handlers, respond(h, "refused")
  PROVE  /\ \A g \in Handlers : g # h => handler'[g] = handler[g]
         /\ handler'[h].pc = "idle"
         /\ \A k \in Keys : answer'[k] = "ok" => answer[k] = "ok"
  <2> USE <1>Refuses
  <2>1. \A k \in Keys : answer'[k] = "ok" => answer[k] = "ok"
    BY DEF respond, APIInv, RequestsFit
  <2>2. QED
    BY <2>1, <1>IdleNext DEF respond
(* Steps without a checkpoint.                                             *)
<1>MovesOnKeeps.
  ASSUME NEW h \in Handlers, MovesOn(h)
  PROVE  SpecBound'
  <2> USE <1>MovesOnKeeps
  <2>1. faults' \in Nat
    BY DEF SpecBound, MovesOn
  <2>2. ASSUME NEW g \in Handlers, handler'[g].pc = "respond",
               request'[handler'[g].key].route = "approve-specification"
        PROVE  binding'.spec # Nil
    BY <2>2 DEF SpecBound, MovesOn
  <2>3. ASSUME NEW k \in Keys, answer'[k] = "ok",
               request'[k].route = "approve-specification"
        PROVE  binding'.spec # Nil
    BY <2>3 DEF SpecBound, MovesOn
  <2>4. run'.state \notin Unplanned /\ binding'.spec = Nil =>
          faults' > 0 \/ \E g \in Handlers :
                           handler'[g].pc = "checkpoint-specification"
    BY DEF SpecBound, MovesOn
  <2>5. QED
    BY <2>1, <2>2, <2>3, <2>4 DEF SpecBound
(* A fault ends the handler, perhaps with a refusal.                       *)
<1>FaultKeeps.
  ASSUME NEW h \in Handlers, Fault,
         handler' = [handler EXCEPT ![h] = Idle],
         \A k \in Keys : answer'[k] = "ok" => answer[k] = "ok",
         UNCHANGED <<vars, request, binding>>
  PROVE  SpecBound'
  <2> USE <1>FaultKeeps
  <2>1. faults' \in Nat /\ faults' > 0
    BY SMT DEF SpecBound, Fault
  <2>2. /\ \A g \in Handlers : g # h => handler'[g] = handler[g]
        /\ handler'[h].pc = "idle"
    BY <1>IdleNext
  <2>3. request' = request /\ binding' = binding
    OBVIOUS
  <2>4. ASSUME NEW g \in Handlers, handler'[g].pc = "respond",
               request'[handler'[g].key].route = "approve-specification"
        PROVE  binding'.spec # Nil
    BY <2>2, <2>3, <2>4 DEF SpecBound
  <2>5. ASSUME NEW k \in Keys, answer'[k] = "ok",
               request'[k].route = "approve-specification"
        PROVE  binding'.spec # Nil
    BY <2>3, <2>5 DEF SpecBound
  <2>6. QED
    BY <2>1, <2>4, <2>5 DEF SpecBound
(* Once the specification is bound all is well.                            *)
<1>BoundKeeps.
  ASSUME binding'.spec # Nil, faults' = faults
  PROVE  SpecBound'
  BY <1>BoundKeeps DEF SpecBound
(* A handler goes on, or gives up, without a fault.                        *)
<1>GoesOnward.
  ASSUME NEW h \in Handlers, NEW pc, goto(h, pc), answer' = answer,
         handler[h].pc # "checkpoint-specification",
         pc = "respond" => req(h).route # "approve-specification",
         request' = request, binding'.spec = binding.spec, faults' = faults,
         run.state \in Unplanned => run'.state \in Unplanned
  PROVE  SpecBound'
  <2> USE <1>GoesOnward
  <2>1. /\ \A g \in Handlers : g # h => handler'[g] = handler[g]
        /\ handler'[h].pc = pc /\ handler'[h].key = handler[h].key
    BY <1>GotoNext
  <2>2. MovesOn(h)
    BY <2>1 DEF MovesOn, req, keyOf
  <2>3. QED
    BY <2>2, <1>MovesOnKeeps
<1>GaveUp.
  ASSUME NEW h \in Handlers, respond(h, "refused"),
         handler[h].pc # "checkpoint-specification",
         request' = request, binding' = binding, faults' = faults,
         run' = run
  PROVE  SpecBound'
  <2> USE <1>GaveUp
  <2>1. MovesOn(h)
    BY <1>Refuses DEF MovesOn
  <2>2. QED
    BY <2>1, <1>MovesOnKeeps
(* Only the approval of a specification takes a run to its planning.       *)
<1>StaysUnplanned.
  ASSUME NEW m, NEW y, NEW z
  PROVE  /\ proposeSpecification(m, y) \/ rejectSpecification(m, y, z)
              => run'.state \in Unplanned
         /\ proposeTaskGraph(m, y) \/ rejectTaskGraph(m, y, z)
            \/ rejectRun(m, y, z) => run.state \notin Unplanned
  <2> USE <1>StaysUnplanned
  <2>1. run \in RunRow
    BY DEF APIInv, RunFits
  <2>2. proposeSpecification(m, y) => run'.state = "SPECIFICATION_REVIEW"
    BY <2>1, SMT DEF proposeSpecification, persistRunTransition,
       finishRunTransition, RunRow
  <2>3. rejectSpecification(m, y, z) => run'.state \in {"REJECTED", "DRAFT"}
    BY <2>1, SMT DEF rejectSpecification, persistRunTransition,
       finishRunTransition, RunRow
  <2>4. proposeTaskGraph(m, y) \/ rejectTaskGraph(m, y, z)
        \/ rejectRun(m, y, z) => run.state \notin Unplanned
    BY DEF proposeTaskGraph, rejectTaskGraph, rejectRun, Unplanned
  <2>5. QED
    BY <2>2, <2>3, <2>4 DEF Unplanned
(* The routes with one command of the run.                                 *)
<1>RunCommandKeeps.
  ASSUME NEW h \in Handlers, RunCommand(h)
  PROVE  SpecBound'
  <2> USE <1>RunCommandKeeps
  <2>1. /\ handler[h].pc = "command" /\ request' = request
        /\ binding' = binding /\ faults' = faults
    BY DEF RunCommand
  <2>2. ASSUME NEW m, NEW d, NEW y, NEW z,
               req(h).route # "approve-specification",
               \/ execute(h, m, d, proposeSpecification(m, y), "respond")
               \/ execute(h, m, d, rejectSpecification(m, y, z), "respond")
               \/ execute(h, m, d, proposeTaskGraph(m, y), "respond")
               \/ execute(h, m, d, rejectTaskGraph(m, y, z), "respond")
               \/ execute(h, m, d, rejectRun(m, y, z), "respond")
        PROVE  SpecBound'
    <3>1. CASE /\ goto(h, "respond") /\ UNCHANGED answer
               /\ run.state \in Unplanned => run'.state \in Unplanned
      BY <2>1, <2>2, <3>1, <1>GoesOnward
    <3>2. CASE goto(h, "respond") /\ UNCHANGED <<vars, answer>>
      <4>1. run' = run
        BY <3>2 DEF vars
      <4>2. QED
        BY <3>1, <3>2, <4>1
    <3>3. CASE respond(h, "refused") /\ UNCHANGED vars
      <4>1. run' = run
        BY <3>3 DEF vars
      <4>2. QED
        BY <2>1, <3>3, <4>1, <1>GaveUp
    <3>4. QED
      BY <2>2, <3>1, <3>2, <3>3, <1>StaysUnplanned DEF execute
  <2>3. ASSUME NEW m, NEW d, NEW y,
               execute(h, m, d, approveSpecification(m, y),
                       "checkpoint-specification")
        PROVE  SpecBound'
    <3>1. CASE goto(h, "checkpoint-specification") /\ answer' = answer
      <4>1. /\ \A g \in Handlers : g # h => handler'[g] = handler[g]
            /\ handler'[h].pc = "checkpoint-specification"
        BY <3>1, <1>GotoNext
      <4>2. ASSUME NEW g \in Handlers, handler'[g].pc = "respond",
                   request'[handler'[g].key].route = "approve-specification"
            PROVE  binding'.spec # Nil
        BY <2>1, <4>1, <4>2 DEF SpecBound
      <4>3. ASSUME NEW k \in Keys, answer'[k] = "ok",
                   request'[k].route = "approve-specification"
            PROVE  binding'.spec # Nil
        BY <2>1, <3>1, <4>3 DEF SpecBound
      <4>4. faults' \in Nat
        BY <2>1 DEF SpecBound
      <4>5. QED
        BY <4>1, <4>2, <4>3, <4>4 DEF SpecBound
    <3>2. CASE respond(h, "refused") /\ UNCHANGED vars
      <4>1. run' = run
        BY <3>2 DEF vars
      <4>2. QED
        BY <2>1, <3>2, <4>1, <1>GaveUp
    <3>3. QED
      BY <2>3, <3>1, <3>2 DEF execute
  <2>4. SpecificationRoutes(h) => SpecBound'
    BY <2>2, <2>3 DEF SpecificationRoutes
  <2>5. TaskGraphRoutes(h) => SpecBound'
    BY <2>2 DEF TaskGraphRoutes
  <2>6. RejectRoute(h) => SpecBound'
    BY <2>2 DEF RejectRoute
  <2>7. CancelRoute(h) => SpecBound'
    <3> SUFFICES ASSUME CancelRoute(h) PROVE SpecBound'
      OBVIOUS
    <3>1. PICK m, d : /\ execute(h, m, d, cancelRun(m), "respond")
                      /\ m = serviceMeta(h, "cancel-run")
      BY DEF CancelRoute
    <3>2. /\ ~cancelRun(m) /\ req(h).route # "approve-specification"
      BY <3>1 DEF cancelRun, serviceMeta, envelope, CancelRoute
    <3>3. CASE goto(h, "respond") /\ UNCHANGED <<vars, answer>>
      <4>1. run' = run
        BY <3>3 DEF vars
      <4>2. QED
        BY <2>1, <3>2, <3>3, <4>1, <1>GoesOnward
    <3>4. CASE respond(h, "refused") /\ UNCHANGED vars
      <4>1. run' = run
        BY <3>4 DEF vars
      <4>2. QED
        BY <2>1, <3>4, <4>1, <1>GaveUp
    <3>5. QED
      BY <3>1, <3>2, <3>3, <3>4 DEF execute
  <2>8. QED
    BY <2>4, <2>5, <2>6, <2>7 DEF RunCommand
(* The checkpoint itself.                                                  *)
<1>CheckpointKeeps.
  ASSUME NEW h \in Handlers, CheckpointSpecification(h)
  PROVE  SpecBound'
  <2> USE <1>CheckpointKeeps
  <2>1. PICK k, x, t, a : Holds(h, k, x, t, a)
    BY DEF Holds
  <2>2. /\ handler[h].pc = "checkpoint-specification" /\ faults' = faults
        /\ checkpointRun(h, "spec", x.spec, "respond")
    BY <2>1 DEF CheckpointSpecification, Holds
  <2>3. Fits("checkpoint-specification", k, x, t, a)
    BY <2>1, <2>2, Knows
  <2>4. x.spec # Nil
    BY <2>3 DEF Fits, Specified
  <2>5. CASE binding.spec \in {Nil, x.spec}
    <3>1. binding' = [binding EXCEPT !.spec = x.spec]
      BY <2>2, <2>5 DEF checkpointRun
    <3>2. binding'.spec = x.spec
      BY <3>1 DEF APIInv, BindingsFit
    <3>3. QED
      BY <2>2, <2>4, <3>2, <1>BoundKeeps
  <2>6. CASE binding.spec \notin {Nil, x.spec}
    <3>1. binding' = binding
      BY <2>2, <2>6 DEF checkpointRun
    <3>2. QED
      BY <2>2, <2>6, <3>1, <1>BoundKeeps
  <2>7. QED
    BY <2>5, <2>6
(* The routes of a plan and of a retry.                                    *)
<1>PlanKeeps.
  ASSUME NEW h \in Handlers, ApproveTaskGraphRoute(h)
  PROVE  SpecBound'
  <2> USE <1>PlanKeeps
  <2>1. /\ handler[h].pc = "command" /\ request' = request
        /\ faults' = faults /\ req(h).route # "approve-specification"
    BY DEF ApproveTaskGraphRoute
  <2>2. approveOnce(h) => binding'.spec = binding.spec
    BY DEF approveOnce, APIInv, BindingsFit
  <2>3. ASSUME NEW m, NEW y, NEW p, NEW e, approveTaskGraph(m, y, p, e)
        PROVE  run.state \notin Unplanned
    BY <2>3 DEF approveTaskGraph, Unplanned
  <2>4. CASE /\ run.state \notin Unplanned /\ approveOnce(h)
             /\ goto(h, "respond") /\ UNCHANGED answer
    BY <2>1, <2>2, <2>4, <1>GoesOnward
  <2>5. CASE /\ approveOnce(h) /\ goto(h, "respond")
             /\ UNCHANGED <<vars, answer>>
    <3>1. run' = run
      BY <2>5 DEF vars
    <3>2. QED
      BY <2>1, <2>2, <2>5, <3>1, <1>GoesOnward
  <2>6. CASE respond(h, "refused") /\ UNCHANGED <<vars, binding, jobs>>
    <3>1. run' = run /\ binding' = binding
      BY <2>6 DEF vars
    <3>2. QED
      BY <2>1, <2>6, <3>1, <1>GaveUp
  <2>7. QED
    BY <2>3, <2>4, <2>5, <2>6 DEF ApproveTaskGraphRoute
<1>RetryKeeps.
  ASSUME NEW h \in Handlers,
         RetryTaskRoute(h) \/ RetryRead(h) \/ EnqueueRetry(h)
  PROVE  SpecBound'
  <2> USE <1>RetryKeeps
  <2>1. /\ handler[h].pc \in {"command", "retried", "enqueue"}
        /\ request' = request /\ binding' = binding /\ faults' = faults
    BY DEF RetryTaskRoute, RetryRead, EnqueueRetry
  <2>2. req(h).route = "retry"
    BY <2>1, AtWork DEF RouteFits, RetryTaskRoute, RetryRead, EnqueueRetry
  <2>3. CASE RetryTaskRoute(h)
    <3>1. PICK m, d : execute(h, m, d, retryTask(m, T), "retried")
      BY <2>3 DEF RetryTaskRoute
    <3>2. retryTask(m, T) => run' = run
      BY DEF retryTask, persistTaskTransition
    <3>3. UNCHANGED vars => run' = run
      BY DEF vars
    <3>4. QED
      BY <2>1, <2>2, <3>1, <3>2, <3>3, <1>GoesOnward, <1>GaveUp DEF execute
  <2>4. CASE RetryRead(h)
    <3>1. run' = run
      BY <2>4 DEF RetryRead, vars
    <3>2. CASE respond(h, "refused")
      BY <2>1, <3>1, <3>2, <1>GaveUp
    <3>3. CASE /\ handler' = [handler EXCEPT ![h].pc = "enqueue",
                                             ![h].task = task[T]]
               /\ answer' = answer
      <4>1. /\ \A g \in Handlers : g # h => handler'[g] = handler[g]
            /\ handler'[h].pc = "enqueue"
        BY <3>3 DEF APIInv, HandlersFit, HandlerMemory
      <4>2. MovesOn(h)
        BY <2>1, <3>1, <3>3, <4>1 DEF MovesOn
      <4>3. QED
        BY <4>2, <1>MovesOnKeeps
    <3>4. QED
      BY <2>4, <3>2, <3>3 DEF RetryRead
  <2>5. CASE EnqueueRetry(h)
    <3>1. run' = run /\ goto(h, "respond") /\ answer' = answer
      BY <2>5 DEF EnqueueRetry, vars
    <3>2. QED
      BY <2>1, <2>2, <3>1, <1>GoesOnward
  <2>6. QED
    BY <2>3, <2>4, <2>5
(* Answering, and the first steps of a handler.                            *)
<1>RespondKeeps.
  ASSUME NEW h \in Handlers, Respond(h)
  PROVE  SpecBound'
  <2> USE <1>RespondKeeps
  <2>1. /\ handler[h].pc = "respond" /\ respond(h, "ok") /\ run' = run
        /\ request' = request /\ binding' = binding /\ faults' = faults
    BY DEF Respond, vars
  <2>2. \A k \in Keys : answer'[k] = "ok" =>
          answer[k] = "ok" \/ handler[h].key = k
    BY <2>1 DEF respond, keyOf, APIInv, RequestsFit
  <2>3. MovesOn(h)
    BY <2>1, <2>2, <1>IdleNext DEF MovesOn, respond
  <2>4. QED
    BY <2>3, <1>MovesOnKeeps
<1>EntryKeeps.
  ASSUME NEW h \in Handlers,
         Serve(h) \/ Apply(h) \/ ReadEvidence(h) \/ ReadRun(h)
  PROVE  SpecBound'
  <2> USE <1>EntryKeeps
  <2>1. /\ handler[h].pc # "checkpoint-specification" /\ run' = run
        /\ request' = request /\ binding' = binding /\ faults' = faults
    <3>1. Serve(h) => handler[h].pc = "idle"
      <4>1. Idle.pc = "idle"
        BY DEF Idle
      <4>2. QED
        BY <4>1 DEF Serve
    <3>2. QED
      BY <3>1 DEF Serve, Apply, ReadEvidence, ReadRun, vars
  <2>2. CASE respond(h, "refused")
    BY <2>1, <2>2, <1>GaveUp
  <2>3. CASE ~respond(h, "refused")
    <3>1. PICK v : /\ handler' = [handler EXCEPT ![h] = v]
                   /\ v.pc # "respond"
      <4>1. handler[h] \in HandlerMemory
        BY DEF APIInv, HandlersFit
      <4>2. CASE Serve(h)
        <5>1. PICK k : handler' = [handler EXCEPT ![h] =
                         [Idle EXCEPT !.pc = "apply", !.key = k]]
          BY <4>2 DEF Serve
        <5>2. [Idle EXCEPT !.pc = "apply", !.key = k].pc = "apply"
          BY DEF Idle
        <5>3. QED
          BY <5>1, <5>2
      <4>3. CASE Apply(h)
        <5>1. PICK pc \in {"evidence", "command"} :
                handler' = [handler EXCEPT ![h].pc = pc, ![h].run = run]
          BY <2>3, <4>3 DEF Apply
        <5>2. [handler[h] EXCEPT !.pc = pc, !.run = run].pc = pc
          BY <4>1 DEF HandlerMemory
        <5>3. QED
          BY <5>1, <5>2
      <4>4. CASE ReadEvidence(h)
        <5>1. handler' = [handler EXCEPT ![h].pc = "begin",
                                         ![h].task = task[T]]
          BY <2>3, <4>4 DEF ReadEvidence
        <5>2. [handler[h] EXCEPT !.pc = "begin", !.task = task[T]].pc
                = "begin"
          BY <4>1 DEF HandlerMemory
        <5>3. QED
          BY <5>1, <5>2
      <4>5. CASE ReadRun(h)
        <5>1. handler' = [handler EXCEPT ![h].pc = "aggregate",
                                         ![h].run = run]
          BY <4>5 DEF ReadRun
        <5>2. [handler[h] EXCEPT !.pc = "aggregate", !.run = run].pc
                = "aggregate"
          BY <4>1 DEF HandlerMemory
        <5>3. QED
          BY <5>1, <5>2
      <4>6. QED
        BY <4>2, <4>3, <4>4, <4>5
    <3>2. answer' = answer
      BY <2>3 DEF Serve, Apply, ReadEvidence, ReadRun
    <3>3. /\ \A g \in Handlers : g # h => handler'[g] = handler[g]
          /\ handler'[h].pc # "respond"
      BY <3>1 DEF APIInv, HandlersFit
    <3>4. MovesOn(h)
      BY <2>1, <3>2, <3>3 DEF MovesOn
    <3>5. QED
      BY <3>4, <1>MovesOnKeeps
  <2>4. QED
    BY <2>2, <2>3
(* The approval service.                                                   *)
<1>ServiceKeeps.
  ASSUME NEW h \in Handlers,
         ApprovalBegin(h) \/ PollTimeout(h) \/ SaveDecision(h)
  PROVE  SpecBound'
  <2> USE <1>ServiceKeeps
  <2>1. /\ handler[h].pc # "checkpoint-specification" /\ run' = run
        /\ request' = request /\ binding' = binding /\ faults' = faults
        /\ answer' = answer
    BY DEF ApprovalBegin, PollTimeout, SaveDecision, abandonMutation, vars
  <2>2. CASE abandonMutation(h)
    <3>1. MovesOn(h)
      BY <2>1, <2>2, <1>IdleNext DEF MovesOn, abandonMutation
    <3>2. QED
      BY <3>1, <1>MovesOnKeeps
  <2>3. CASE ~abandonMutation(h)
    <3>1. handler[h] \in HandlerMemory
      BY DEF APIInv, HandlersFit
    <3>2. PICK v : /\ handler' = [handler EXCEPT ![h] = v]
                   /\ v.pc # "respond"
      <4>1. CASE handler' = [handler EXCEPT ![h].pc = "decide",
                                            ![h].owner = TRUE]
        <5>1. [handler[h] EXCEPT !.pc = "decide", !.owner = TRUE].pc
                = "decide"
          BY <3>1 DEF HandlerMemory
        <5>2. QED
          BY <4>1, <5>1
      <4>2. ASSUME NEW pc \in {"checkpoint-approval", "apply-decision"}, NEW y,
                   handler' = [handler EXCEPT ![h].pc = pc,
                                              ![h].artifact = y]
            PROVE  \E v : /\ handler' = [handler EXCEPT ![h] = v]
                          /\ v.pc # "respond"
        <5>1. [handler[h] EXCEPT !.pc = pc, !.artifact = y].pc = pc
          BY <3>1 DEF HandlerMemory
        <5>2. QED
          BY <4>2, <5>1
      <4>3. CASE ApprovalBegin(h)
        BY <2>3, <4>1, <4>2, <4>3 DEF ApprovalBegin
      <4>4. CASE SaveDecision(h)
        <5>1. PICK y : handler' = [handler EXCEPT
                         ![h].pc = "apply-decision", ![h].owner = FALSE,
                         ![h].artifact = y]
          BY <2>3, <4>4 DEF SaveDecision
        <5>2. [handler[h] EXCEPT !.pc = "apply-decision", !.owner = FALSE,
                                 !.artifact = y].pc = "apply-decision"
          BY <3>1 DEF HandlerMemory
        <5>3. QED
          BY <5>1, <5>2
      <4>5. QED
        BY <2>3, <4>3, <4>4 DEF PollTimeout
    <3>4. /\ \A g \in Handlers : g # h => handler'[g] = handler[g]
          /\ handler'[h].pc # "respond"
      BY <3>2 DEF APIInv, HandlersFit
    <3>5. MovesOn(h)
      BY <2>1, <3>4 DEF MovesOn
    <3>6. QED
      BY <3>5, <1>MovesOnKeeps
  <2>4. QED
    BY <2>2, <2>3
(* What follows the decision.                                              *)
<1>DecidedKeeps.
  ASSUME NEW h \in Handlers,
         ApplyDecision(h) \/ CompleteApproval(h) \/ CheckpointApproval(h)
         \/ Aggregate(h)
  PROVE  SpecBound'
  <2> USE <1>DecidedKeeps
  <2>1. /\ handler[h].pc \in {"apply-decision", "complete-approval",
                              "checkpoint-approval", "aggregate"}
        /\ request' = request /\ faults' = faults
    BY DEF ApplyDecision, CompleteApproval, CheckpointApproval, Aggregate
  <2>2. req(h).route = "approval"
    BY <2>1, AtWork DEF RouteFits, Approving, Decided, Applied, Completed,
       Bound
  <2>3. UNCHANGED vars => run' = run
    BY DEF vars
  <2>4. CASE ApplyDecision(h)
    <3>1. binding' = binding
      BY <2>4 DEF ApplyDecision
    <3>2. PICK m, d, y, z, c :
            execute(h, m, d, approveTask(m, T, y, z, c), "complete-approval")
      BY <2>4 DEF ApplyDecision
    <3>3. approveTask(m, T, y, z, c) => run' = run
      BY DEF approveTask, persistTaskTransition
    <3>4. QED
      BY <2>1, <2>2, <2>3, <3>1, <3>2, <3>3, <1>GoesOnward, <1>GaveUp
      DEF execute
  <2>5. CASE CompleteApproval(h)
    <3>1. /\ goto(h, "checkpoint-approval") /\ answer' = answer
          /\ binding' = binding /\ run' = run
      BY <2>3, <2>5 DEF CompleteApproval
    <3>2. QED
      BY <2>1, <3>1, <1>GoesOnward
  <2>6. CASE CheckpointApproval(h)
    <3>1. run' = run /\ checkpointRun(h, "approval", handler[h].artifact,
                                      "read-run")
      BY <2>3, <2>6 DEF CheckpointApproval
    <3>2. CASE respond(h, "refused") /\ binding' = binding
      BY <2>1, <3>1, <3>2, <1>GaveUp
    <3>3. CASE /\ binding' = [binding EXCEPT
                     !["approval"] = handler[h].artifact]
               /\ goto(h, "read-run") /\ answer' = answer
      <4>1. binding'.spec = binding.spec
        BY <3>3 DEF APIInv, BindingsFit
      <4>2. QED
        BY <2>1, <3>1, <3>3, <4>1, <1>GoesOnward
    <3>4. QED
      BY <3>1, <3>2, <3>3 DEF checkpointRun
  <2>7. CASE Aggregate(h)
    <3>1. binding' = binding
      BY <2>7 DEF Aggregate
    <3>2. ASSUME NEW m, NEW d, NEW y, NEW z, NEW c, NEW pc,
                 \/ execute(h, m, d, recordRunExecution(m, y, c), pc)
                 \/ execute(h, m, d, recordRunVerification(m, y, c), pc)
                 \/ execute(h, m, d, recordRunReview(m, y, c), pc)
                 \/ execute(h, m, d, approveRun(m, y, z, c), pc)
          PROVE  SpecBound'
      <4>1. recordRunExecution(m, y, c) \/ recordRunVerification(m, y, c)
            \/ recordRunReview(m, y, c) \/ approveRun(m, y, z, c)
              => run.state \notin Unplanned
        BY DEF recordRunExecution, recordRunVerification, recordRunReview,
           approveRun, Unplanned
      <4>2. CASE run.state \notin Unplanned /\ goto(h, pc) /\ answer' = answer
        BY <2>1, <2>2, <3>1, <4>2, <1>GoesOnward
      <4>3. CASE run' = run /\ goto(h, pc) /\ answer' = answer
        BY <2>1, <2>2, <3>1, <4>3, <1>GoesOnward
      <4>4. CASE respond(h, "refused") /\ run' = run
        BY <2>1, <3>1, <4>4, <1>GaveUp
      <4>5. QED
        BY <2>3, <3>2, <4>1, <4>2, <4>3, <4>4 DEF execute
    <3>3. CASE respond(h, "refused") /\ UNCHANGED vars
      BY <2>1, <2>3, <3>1, <3>3, <1>GaveUp
    <3>4. QED
      BY <2>7, <3>2, <3>3 DEF Aggregate
  <2>8. QED
    BY <2>4, <2>5, <2>6, <2>7
(* Clients and stages.                                                     *)
<1>SendKeeps.
  ASSUME NEW k \in Keys, Send(k)
  PROVE  SpecBound'
  <2> USE <1>SendKeeps
  <2>1. /\ request[k] = Nil /\ answer' = answer /\ handler' = handler
        /\ binding' = binding /\ run' = run /\ faults' = faults
    BY DEF Send, vars
  <2>2. \A l \in Keys : l # k => request'[l] = request[l]
    BY DEF Send, APIInv, RequestsFit
  <2>3. answer[k] # "ok"
    BY <2>1 DEF APIInv, RequestsFit
  <2>4. \A h \in Handlers : handler[h].pc = "respond" =>
          handler[h].key \in Keys /\ handler[h].key # k
    BY <2>1, AtWork DEF keyOf
  <2>5. ASSUME NEW g \in Handlers, handler'[g].pc = "respond",
               request'[handler'[g].key].route = "approve-specification"
        PROVE  binding'.spec # Nil
    BY <2>1, <2>2, <2>4, <2>5 DEF SpecBound
  <2>6. ASSUME NEW l \in Keys, answer'[l] = "ok",
               request'[l].route = "approve-specification"
        PROVE  binding'.spec # Nil
    BY <2>1, <2>2, <2>3, <2>6 DEF SpecBound
  <2>7. QED
    BY <2>1, <2>5, <2>6 DEF SpecBound
<1>StagesKeep.
  ASSUME Stages \/ UNCHANGED allVars
  PROVE  SpecBound'
  <2> USE <1>StagesKeep
  <2>1. UNCHANGED <<request, answer, handler, binding, faults>>
    BY DEF Stages, StartRunStage, LeaseStage, StartStageDone, LaterStages,
       apiVars, allVars
  <2>2. run.state \in Unplanned => run' = run
    <3>1. UNCHANGED vars => run' = run
      BY DEF vars
    <3>2. ASSUME NEW n, StartRunStage(n)
          PROVE  run.state \notin Unplanned
      BY <3>2 DEF StartRunStage, startRun, Unplanned
    <3>3. ASSUME NEW n, LeaseStage(n)
          PROVE  run' = run
      BY <3>3 DEF LeaseStage, leaseTask, persistTaskTransition
    <3>4. LaterStages => run' = run
      BY DEF LaterStages, startReasoning, rejectTaskProposal,
         acceptTaskProposal, recordTaskExecution, recordTaskVerification,
         recordTaskReview, persistTaskTransition
    <3>5. QED
      BY <3>1, <3>2, <3>3, <3>4 DEF Stages, StartStageDone, allVars
  <2>3. QED
    BY <2>1, <2>2 DEF SpecBound
<1>1. ASSUME NEW h \in Handlers, HandlerStep(h)
      PROVE  SpecBound'
  BY <1>1, <1>RunCommandKeeps, <1>CheckpointKeeps, <1>PlanKeeps, <1>RetryKeeps,
     <1>RespondKeeps, <1>EntryKeeps, <1>ServiceKeeps, <1>DecidedKeeps
  DEF HandlerStep, ApprovalStep
<1>2. ASSUME NEW h \in Handlers,
             ListTasksFails(h) \/ Crash(h) \/ ServerError(h)
      PROVE  SpecBound'
  <2>1. /\ Fault /\ handler' = [handler EXCEPT ![h] = Idle]
        /\ UNCHANGED <<vars, request, binding>>
    BY <1>2 DEF ListTasksFails, Crash, ServerError, respond
  <2>2. \A k \in Keys : answer'[k] = "ok" => answer[k] = "ok"
    BY <1>2, <1>Refuses DEF ListTasksFails, Crash, ServerError
  <2>3. QED
    BY <2>1, <2>2, <1>FaultKeeps
<1>3. QED
  BY <1>1, <1>2, <1>SendKeeps, <1>EntryKeeps, <1>StagesKeep DEF APINext

(* What was decided is recorded whole: whoever is told "ok" finds the      *)
(* bindings, jobs and rows of the decision, a plan comes with its          *)
(* bindings and its first start job whatever fails, and an approved        *)
(* specification lacks its binding only while its handler is at the        *)
(* checkpoint or after a death or an error.                                *)
THEOREM DecisionsAreRecordedWhole == APISpec => []DecisionsRecordedWhole
<1>1. APIInit => SpecBound
  <2> SUFFICES ASSUME APIInit PROVE SpecBound
    OBVIOUS
  <2>1. /\ faults \in Nat /\ \A k \in Keys : answer[k] # "ok"
        /\ \A h \in Handlers : handler[h].pc = "idle"
    <3>1. \A k \in Keys : answer[k] = Nil
      BY DEF APIInit, InitAPI
    <3>2. \A h \in Handlers : handler[h] = Idle
      BY DEF APIInit, InitAPI
    <3>3. Idle.pc = "idle"
      BY DEF Idle
    <3>4. faults \in Nat
      BY DEF APIInit, InitAPI
    <3>5. QED
      BY <3>1, <3>2, <3>3, <3>4, NamesAssumption
  <2>2. run.state \in Unplanned \/ binding.spec # Nil
    <3>1. Ref("spec") # Nil
      BY NamesAssumption, NilAssumption DEF Ref, RefOf
    <3>2. InitDraft => run.state = "DRAFT"
      BY DEF InitDraft, NoRun
    <3>3. InitSpecified \/ InitPlanned => binding.spec = Ref("spec")
      <4>1. InitSpecified => binding.spec = Ref("spec")
        BY SMT DEF InitSpecified
      <4>2. InitPlanned => binding.spec = Ref("spec")
        BY SMT DEF InitPlanned
      <4>3. QED
        BY <4>1, <4>2
    <3>4. QED
      BY <3>1, <3>2, <3>3 DEF APIInit, Unplanned
  <2>3. QED
    BY <2>1, <2>2 DEF SpecBound
<1>2. APIInv /\ SpecBound => DecisionsRecordedWhole
  <2> SUFFICES ASSUME APIInv, SpecBound PROVE DecisionsRecordedWhole
    OBVIOUS
  <2>1. BindingsFit /\ RunFits /\ MergeFits /\ LedgersFit
    BY DEF APIInv
  <2>2. BindingsFollowDecisions
    BY <2>1 DEF BindingsFit, BindingsFollowDecisions, Specified, Undecided,
                AcceptedBy
  <2>3. ~PlanUnbound
    BY <2>1 DEF BindingsFit, PlanUnbound
  <2>4. SpecificationUnbound =>
          faults > 0 \/ \E h \in Handlers :
                          handler[h].pc = "checkpoint-specification"
    BY DEF SpecBound, SpecificationUnbound, Unplanned
  <2>5. ASSUME NEW k \in Keys, answer[k] = "ok"
        PROVE  Recorded(k)
    <3>1. Served(k)
      BY <2>5 DEF APIInv, RequestsFit
    <3>2. CASE request[k].route = "approve-specification"
      BY <2>5, <3>2 DEF SpecBound, Recorded
    <3>3. CASE request[k].route = "approve-task-graph"
      <4>1. <<k, "approve-task-graph">> \in DOMAIN commands
        BY <3>1, <3>3 DEF Served, Done, StepOf
      <4>2. <<k, "approve-task-graph">>[2] = "approve-task-graph"
        BY SMT
      <4>3. task[T].state # "NONE"
        BY <2>1, <4>1, <4>2 DEF LedgersFit, LedgerFits, PlannedOn
      <4>4. QED
        BY <2>1, <3>3, <4>3 DEF BindingsFit, Recorded
    <3>4. CASE request[k].route = "approval"
      <4>1. <<k, "approve-run">> \in DOMAIN commands
        BY <3>1, <3>4 DEF Served, Done
      <4>2. <<k, "approve-run">>[2] = "approve-run"
        BY SMT
      <4>3. run.state = "MERGE_READY"
        BY <2>1, <4>1, <4>2 DEF LedgersFit, LedgerFits
      <4>4. QED
        BY <2>1, <3>4, <4>3 DEF RunFits, MergeFits, Recorded
    <3>5. QED
      BY <3>2, <3>3, <3>4 DEF Recorded
  <2>6. QED
    BY <2>2, <2>3, <2>4, <2>5 DEF DecisionsRecordedWhole
<1>3. APIInv /\ SpecBound /\ [APINext]_allVars => SpecBound'
  BY SpecBoundKeeps
<1>4. QED
  BY <1>1, <1>2, <1>3, APIInvariant, PTL DEF APISpec

-----------------------------------------------------------------------------
(* A run is MERGE_READY only on the evidence of its accepted task, under   *)
(* one approval that the run, the task, the binding and a completed row of *)
(* the approval ledger agree on, however many handlers approve at a time.  *)
THEOREM RunsApprovedOnTaskEvidence == APISpec => []ApprovedOnTaskEvidence
<1>1. APIInv => ApprovedOnTaskEvidence
  <2> SUFFICES ASSUME APIInv, run.state = "MERGE_READY"
               PROVE  ApprovedOnTaskEvidence
    BY DEF ApprovedOnTaskEvidence
  <2>1. RunFits /\ TasksFit /\ MergeFits /\ ApprovalsFit
    BY DEF APIInv
  <2>2. /\ task[T].state = "ACCEPTED" /\ run.exec = task[T].exec.ref
        /\ run.cand = task[T].cand /\ run.verif = task[T].verif.ref
        /\ run.review = task[T].review.ref
    BY <2>1 DEF RunFits
  <2>3. task[T].verif.passed /\ task[T].review.passed
    BY <2>1, <2>2 DEF TasksFit, TaskFits
  <2>4. /\ run.approval = task[T].approval.ref
        /\ run.approval = binding.approval
    BY <2>1 DEF MergeFits
  <2>5. PICK k \in Keys : /\ approvals[k].state = "completed"
                          /\ approvals[k].artifact = run.approval
    BY <2>1 DEF MergeFits
  <2>6. Elevated => request[k].role = "ELEVATED"
    BY <2>1, <2>5 DEF ApprovalsFit, ApprovalFits
  <2>7. QED
    BY <2>2, <2>3, <2>4, <2>5, <2>6 DEF ApprovedOnTaskEvidence
<1>2. QED
  BY <1>1, APIInvariant, PTL

(* A decision is taken once: of two requests, retries aside, that were     *)
(* sent on the same revision of the run at most one is answered with       *)
(* success, an approval has at most one owner and one artifact, and        *)
(* whoever is granted it, after any retry, replay or crash, is granted     *)
(* that artifact.                                                          *)
THEOREM DecisionsAreTakenOnce == APISpec => DecidedOnce
<1>1. APIInv => APITypeOK /\ DecidedOnRevisionRead
  <2> SUFFICES ASSUME APIInv PROVE APITypeOK /\ DecidedOnRevisionRead
    OBVIOUS
  <2>1. APITypeOK
    BY ZenonT(30), InvTypeOK
  <2>2. \A k \in Keys : answer[k] = "ok" => request[k] # Nil /\ Served(k)
    BY DEF APIInv, RequestsFit
  <2>3. DecidedOnRevisionRead
    BY <2>2, ServedApart DEF DecidedOnRevisionRead
  <2>4. QED
    BY <2>1, <2>3
<1>2. APISpec => Decisions!Spec
  BY DecisionsInit, DecisionsStep, APIInvariant, PTL
  DEF APISpec, Decisions!Spec
<1>3. QED
  BY <1>1, <1>2, APIInvariant, PTL
  DEF DecidedOnce, ApprovalsImplementWriteOnce

=============================================================================
