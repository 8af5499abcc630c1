--------------------------- MODULE WorkflowProofs ---------------------------
(***************************************************************************)
(* The invariants of Workflow, for any number of tasks, commands,          *)
(* artifacts, commits, leases and attempts.  The commands are brought into *)
(* four classes, which all write the event log and the command ledger in   *)
(* the same way (Wrote):                                                   *)
(*   RunWrite     the run commands that write only the run's row           *)
(*   TaskWrite    the commands of one task                                 *)
(*   Plans        ApproveTaskGraph                                         *)
(*   CancelRun                                                             *)
(* Each part of the inductive invariant IInv is then shown to be preserved *)
(* once per class.  A second part is about Publication, which extends      *)
(* Workflow, for any keys, callers, evidence and bounds.                   *)
(***************************************************************************)
EXTENDS Publication, TLAPS

(* Most leaves are first-order steps, which Zenon proves; a leaf that      *)
(* needs arithmetic or the fields of records names SMT.                    *)
USE Zenon


-----------------------------------------------------------------------------
(* Run commands.                                                           *)

(* The states before the task graph is approved, and those after all tasks *)
(* are accepted.                                                           *)
Early == {"NONE", "DRAFT", "SPECIFICATION_REVIEW", "TASK_PLANNING",
          "TASK_PLAN_REVIEW"}
Late  == {"VERIFYING", "REVIEWING", "AWAITING_APPROVAL", "MERGE_READY", "MERGED"}

(* A new command whose author read the current revision of aggregate a.    *)
NewCommand(m, digest, a) ==
  /\ m.id \in CommandIDs \cup {Fresh}
  /\ digest[2] = m
  /\ m.rev = Revision(a)
  /\ loadCommandResult(m, digest) = "new"

(* What a run command may do to the run's row.                             *)
RunMove(next) ==
  /\ next \in RunRow
  /\ next.rev = run.rev
  /\ run.state \notin TerminalRunStates
  /\ next.state \in RunStates \ {"CANCELLED"}
  /\ next.state \in Early => run.state \in Early
  /\ next.state \in Late => AcceptedGate
  /\ run.state \notin {"NONE", "DRAFT", "SPECIFICATION_REVIEW"} => next.spec = run.spec
  /\ run.state \notin Early => next.graph = run.graph

RunWrite(m, digest, next) ==
  /\ NewCommand(m, digest, RunID)
  /\ RunMove(next)
  /\ persistRunTransition(m, digest, next)

(* Updates of the run's row keep its type.                                 *)
LEMMA RunRowUpdate ==
  ASSUME NEW r \in RunRow, NEW s \in RunStates
  PROVE  /\ [r EXCEPT !.state = s] \in RunRow
         /\ [r EXCEPT !.state = s].state = s
         /\ [r EXCEPT !.state = s].rev = r.rev
         /\ [r EXCEPT !.state = s].spec = r.spec
         /\ [r EXCEPT !.state = s].graph = r.graph
BY DEF RunRow

(* The same with one artifact bound.                                       *)
LEMMA RunRowBinding ==
  ASSUME NEW r \in RunRow, NEW s \in RunStates, NEW x \in Artifacts
  PROVE  /\ [r EXCEPT !.state = s, !.spec = x] \in RunRow
         /\ [r EXCEPT !.state = s, !.graph = x] \in RunRow
         /\ [r EXCEPT !.state = s, !.verif = x] \in RunRow
         /\ [r EXCEPT !.state = s, !.review = x] \in RunRow
         /\ [r EXCEPT !.state = s, !.approval = x] \in RunRow
         /\ [r EXCEPT !.state = s, !.merge = x] \in RunRow
         /\ [r EXCEPT !.pub = x] \in RunRow
<1>1. [r EXCEPT !.state = s, !.spec = x] \in RunRow
  BY DEF RunRow, OptArtifact
<1>2. [r EXCEPT !.state = s, !.graph = x] \in RunRow
  BY DEF RunRow, OptArtifact
<1>3. [r EXCEPT !.state = s, !.verif = x] \in RunRow
  BY DEF RunRow, OptArtifact
<1>4. [r EXCEPT !.state = s, !.review = x] \in RunRow
  BY DEF RunRow, OptArtifact
<1>5. [r EXCEPT !.state = s, !.approval = x] \in RunRow
  BY DEF RunRow, OptArtifact
<1>6. [r EXCEPT !.state = s, !.merge = x] \in RunRow
  BY DEF RunRow, OptArtifact
<1>7. [r EXCEPT !.pub = x] \in RunRow
  BY DEF RunRow, OptArtifact
<1>8. QED
  BY <1>1, <1>2, <1>3, <1>4, <1>5, <1>6, <1>7

(* And with the candidate bound.                                           *)
LEMMA RunRowCandidate ==
  ASSUME NEW r \in RunRow, NEW s \in RunStates, NEW x \in Artifacts, NEW c \in Commits
  PROVE  [r EXCEPT !.state = s, !.exec = x, !.cand = c] \in RunRow
BY DEF RunRow, OptArtifact, OptCommit

(* An envelope that passes validateRunCommand is a new command.            *)
LEMMA EnvelopeID ==
  ASSUME NEW n, NEW m \in CommandEnvelope(n)
  PROVE  m.id \in CommandIDs \cup {Fresh}
BY DEF CommandEnvelope

(* The planning commands are run writes.                                   *)
LEMMA PlanningWrites ==
  ASSUME TypeOK,
         \/ CreateRun \/ ProposeSpecification \/ RejectSpecification
         \/ ApproveSpecification \/ ProposeTaskGraph \/ RejectTaskGraph
  PROVE  \E m, digest, next : RunWrite(m, digest, next)
<1>0. run \in RunRow
  BY DEF TypeOK
<1>1. CASE CreateRun
  <2> DEFINE next == [NoRun EXCEPT !.state = "DRAFT"]
  <2>1. PICK m \in CommandEnvelope(0) :
          m.rev = 0 /\ persistRunTransition(m, <<"CreateRun", m>>, next)
    BY <1>1 DEF CreateRun, createRun
  <2>2. run.rev = 0 /\ run.state = "NONE"
    BY <1>1, SMT DEF CreateRun, createRun, NoRun
  <2>3. next \in RunRow /\ next.state = "DRAFT" /\ next.rev = 0
    BY DEF NoRun, RunRow, RunStates, OptArtifact, OptCommit
  <2>4. RunMove(next)
    BY <2>2, <2>3 DEF RunMove, RunStates, TerminalRunStates, Early, Late
  <2>5. QED
    BY <2>1, <2>2, <2>4, EnvelopeID
    DEF RunWrite, NewCommand, Revision, persistRunTransition
<1>2. CASE ProposeSpecification
  <2>1. PICK m \in CommandEnvelope(run.rev), spec \in Artifacts :
          /\ validateRunCommand(m)
          /\ persistRunTransition(m, <<"ProposeSpecification", m, spec>>,
               [run EXCEPT !.state = "SPECIFICATION_REVIEW", !.spec = spec])
    BY <1>2 DEF ProposeSpecification, proposeSpecification
  <2> DEFINE next == [run EXCEPT !.state = "SPECIFICATION_REVIEW", !.spec = spec]
  <2>2. next \in RunRow
    BY <1>0, RunRowBinding DEF RunStates
  <2>3. /\ next.state = "SPECIFICATION_REVIEW" /\ next.rev = run.rev
        /\ next.graph = run.graph
    BY <1>0 DEF RunRow
  <2>4. RunMove(next)
    BY <1>2, <2>1, <2>2, <2>3
    DEF RunMove, ProposeSpecification, proposeSpecification, validateRunCommand,
        RunStates, TerminalRunStates, Early, Late
  <2>5. QED
    BY <2>1, <2>4, EnvelopeID
    DEF RunWrite, NewCommand, Revision, persistRunTransition, validateRunCommand
<1>3. CASE RejectSpecification
  <2>1. PICK m \in CommandEnvelope(run.rev), spec \in Artifacts,
             terminal \in BOOLEAN :
          /\ validateRunCommand(m)
          /\ persistRunTransition(m, <<"RejectSpecification", m, spec, terminal>>,
               [run EXCEPT !.state = IF terminal THEN "REJECTED" ELSE "DRAFT"])
    BY <1>3 DEF RejectSpecification, rejectSpecification
  <2> DEFINE s == IF terminal THEN "REJECTED" ELSE "DRAFT"
             next == [run EXCEPT !.state = s]
  <2>2. s \in {"REJECTED", "DRAFT"}
    OBVIOUS
  <2> HIDE DEF s
  <2>3. next \in RunRow
    BY <1>0, <2>2, RunRowUpdate DEF RunStates
  <2>4. /\ next.state = s /\ next.rev = run.rev
        /\ next.spec = run.spec /\ next.graph = run.graph
    BY <1>0 DEF RunRow
  <2>5. RunMove(next)
    BY <1>3, <2>1, <2>2, <2>3, <2>4
    DEF RunMove, RejectSpecification, rejectSpecification, validateRunCommand,
        RunStates, TerminalRunStates, Early, Late
  <2>6. QED
    BY <2>1, <2>5, EnvelopeID
    DEF RunWrite, NewCommand, Revision, persistRunTransition, validateRunCommand, s
<1>4. CASE ApproveSpecification
  <2>1. PICK m \in CommandEnvelope(run.rev), spec \in Artifacts :
          /\ validateRunCommand(m)
          /\ persistRunTransition(m, <<"ApproveSpecification", m, spec>>,
               [run EXCEPT !.state = "TASK_PLANNING"])
    BY <1>4 DEF ApproveSpecification, approveSpecification
  <2> DEFINE next == [run EXCEPT !.state = "TASK_PLANNING"]
  <2>2. next \in RunRow
    BY <1>0, RunRowUpdate DEF RunStates
  <2>3. /\ next.state = "TASK_PLANNING" /\ next.rev = run.rev
        /\ next.spec = run.spec /\ next.graph = run.graph
    BY <1>0 DEF RunRow
  <2>4. RunMove(next)
    BY <1>4, <2>1, <2>2, <2>3
    DEF RunMove, ApproveSpecification, approveSpecification, validateRunCommand,
        RunStates, TerminalRunStates, Early, Late
  <2>5. QED
    BY <2>1, <2>4, EnvelopeID
    DEF RunWrite, NewCommand, Revision, persistRunTransition, validateRunCommand
<1>5. CASE ProposeTaskGraph
  <2>1. PICK m \in CommandEnvelope(run.rev), graph \in Artifacts :
          /\ validateRunCommand(m)
          /\ persistRunTransition(m, <<"ProposeTaskGraph", m, graph>>,
               [run EXCEPT !.state = "TASK_PLAN_REVIEW", !.graph = graph])
    BY <1>5 DEF ProposeTaskGraph, proposeTaskGraph
  <2> DEFINE next == [run EXCEPT !.state = "TASK_PLAN_REVIEW", !.graph = graph]
  <2>2. next \in RunRow
    BY <1>0, RunRowBinding DEF RunStates
  <2>3. /\ next.state = "TASK_PLAN_REVIEW" /\ next.rev = run.rev
        /\ next.spec = run.spec
    BY <1>0 DEF RunRow
  <2>4. RunMove(next)
    BY <1>5, <2>1, <2>2, <2>3
    DEF RunMove, ProposeTaskGraph, proposeTaskGraph, validateRunCommand,
        RunStates, TerminalRunStates, Early, Late
  <2>5. QED
    BY <2>1, <2>4, EnvelopeID
    DEF RunWrite, NewCommand, Revision, persistRunTransition, validateRunCommand
<1>6. CASE RejectTaskGraph
  <2>1. PICK m \in CommandEnvelope(run.rev), graph \in Artifacts,
             terminal \in BOOLEAN :
          /\ validateRunCommand(m)
          /\ persistRunTransition(m, <<"RejectTaskGraph", m, graph, terminal>>,
               [run EXCEPT !.state = IF terminal THEN "REJECTED" ELSE "TASK_PLANNING"])
    BY <1>6 DEF RejectTaskGraph, rejectTaskGraph
  <2> DEFINE s == IF terminal THEN "REJECTED" ELSE "TASK_PLANNING"
             next == [run EXCEPT !.state = s]
  <2>2. s \in {"REJECTED", "TASK_PLANNING"}
    OBVIOUS
  <2> HIDE DEF s
  <2>3. next \in RunRow
    BY <1>0, <2>2, RunRowUpdate DEF RunStates
  <2>4. /\ next.state = s /\ next.rev = run.rev
        /\ next.spec = run.spec /\ next.graph = run.graph
    BY <1>0 DEF RunRow
  <2>5. RunMove(next)
    BY <1>6, <2>1, <2>2, <2>3, <2>4
    DEF RunMove, RejectTaskGraph, rejectTaskGraph, validateRunCommand,
        RunStates, TerminalRunStates, Early, Late
  <2>6. QED
    BY <2>1, <2>5, EnvelopeID
    DEF RunWrite, NewCommand, Revision, persistRunTransition, validateRunCommand, s
<1>7. QED
  BY <1>1, <1>2, <1>3, <1>4, <1>5, <1>6

(* So are the commands from StartRun to the end of the run.                *)
LEMMA CompletionWrites ==
  ASSUME TypeOK,
         \/ StartRun \/ RecordRunExecution \/ RecordRunVerification
         \/ RecordRunReview \/ ApproveRun \/ RejectRun
         \/ RecordDraftPullRequest \/ RecordMerge \/ FailRun
  PROVE  \E m, digest, next : RunWrite(m, digest, next)
<1>0. run \in RunRow
  BY DEF TypeOK
<1>1. CASE StartRun
  <2>1. PICK m \in CommandEnvelope(run.rev) :
          /\ validateRunCommand(m)
          /\ persistRunTransition(m, <<"StartRun", m>>,
               [run EXCEPT !.state = "EXECUTING"])
    BY <1>1 DEF StartRun, startRun
  <2> DEFINE next == [run EXCEPT !.state = "EXECUTING"]
  <2>2. next \in RunRow
    BY <1>0, RunRowUpdate DEF RunStates
  <2>3. /\ next.state = "EXECUTING" /\ next.rev = run.rev
        /\ next.spec = run.spec /\ next.graph = run.graph
    BY <1>0 DEF RunRow
  <2>4. RunMove(next)
    BY <1>1, <2>1, <2>2, <2>3
    DEF RunMove, StartRun, startRun, validateRunCommand,
        RunStates, TerminalRunStates, Early, Late
  <2>5. QED
    BY <2>1, <2>4, EnvelopeID
    DEF RunWrite, NewCommand, Revision, persistRunTransition, validateRunCommand
<1>2. CASE RecordRunExecution
  <2>1. PICK m \in CommandEnvelope(run.rev), ref \in Artifacts,
             commit \in Commits :
          /\ validateRunCommand(m)
          /\ persistRunTransition(m, <<"RecordRunExecution", m, ref, commit>>,
               [run EXCEPT !.state = "VERIFYING", !.exec = ref, !.cand = commit])
    BY <1>2 DEF RecordRunExecution, recordRunExecution
  <2> DEFINE next == [run EXCEPT !.state = "VERIFYING", !.exec = ref, !.cand = commit]
  <2>2. next \in RunRow
    BY <1>0, RunRowCandidate DEF RunStates
  <2>3. /\ next.state = "VERIFYING" /\ next.rev = run.rev
        /\ next.spec = run.spec /\ next.graph = run.graph
    BY <1>0 DEF RunRow
  <2>4. RunMove(next)
    BY <1>2, <2>1, <2>2, <2>3
    DEF RunMove, RecordRunExecution, recordRunExecution, validateRunCommand,
        RunStates, TerminalRunStates, Early, Late
  <2>5. QED
    BY <2>1, <2>4, EnvelopeID
    DEF RunWrite, NewCommand, Revision, persistRunTransition, validateRunCommand
<1>3. CASE RecordRunVerification
  <2>1. PICK m \in CommandEnvelope(run.rev), ref \in Artifacts,
             commit \in Commits :
          /\ validateRunCommand(m)
          /\ persistRunTransition(m, <<"RecordRunVerification", m, ref, commit>>,
               [run EXCEPT !.state = "REVIEWING", !.verif = ref])
    BY <1>3 DEF RecordRunVerification, recordRunVerification
  <2> DEFINE next == [run EXCEPT !.state = "REVIEWING", !.verif = ref]
  <2>2. next \in RunRow
    BY <1>0, RunRowBinding DEF RunStates
  <2>3. /\ next.state = "REVIEWING" /\ next.rev = run.rev
        /\ next.spec = run.spec /\ next.graph = run.graph
    BY <1>0 DEF RunRow
  <2>4. RunMove(next)
    BY <1>3, <2>1, <2>2, <2>3
    DEF RunMove, RecordRunVerification, recordRunVerification, validateRunCommand,
        RunStates, TerminalRunStates, Early, Late
  <2>5. QED
    BY <2>1, <2>4, EnvelopeID
    DEF RunWrite, NewCommand, Revision, persistRunTransition, validateRunCommand
<1>4. CASE RecordRunReview
  <2>1. PICK m \in CommandEnvelope(run.rev), ref \in Artifacts,
             commit \in Commits :
          /\ validateRunCommand(m)
          /\ persistRunTransition(m, <<"RecordRunReview", m, ref, commit>>,
               [run EXCEPT !.state = "AWAITING_APPROVAL", !.review = ref])
    BY <1>4 DEF RecordRunReview, recordRunReview
  <2> DEFINE next == [run EXCEPT !.state = "AWAITING_APPROVAL", !.review = ref]
  <2>2. next \in RunRow
    BY <1>0, RunRowBinding DEF RunStates
  <2>3. /\ next.state = "AWAITING_APPROVAL" /\ next.rev = run.rev
        /\ next.spec = run.spec /\ next.graph = run.graph
    BY <1>0 DEF RunRow
  <2>4. RunMove(next)
    BY <1>4, <2>1, <2>2, <2>3
    DEF RunMove, RecordRunReview, recordRunReview, validateRunCommand,
        RunStates, TerminalRunStates, Early, Late
  <2>5. QED
    BY <2>1, <2>4, EnvelopeID
    DEF RunWrite, NewCommand, Revision, persistRunTransition, validateRunCommand
<1>5. CASE ApproveRun
  <2>1. PICK m \in CommandEnvelope(run.rev), review \in Artifacts,
             approval \in Artifacts, commit \in Commits :
          /\ validateRunCommand(m)
          /\ persistRunTransition(m, <<"ApproveRun", m, commit, review, approval>>,
               [run EXCEPT !.state = "MERGE_READY", !.approval = approval])
    BY <1>5 DEF ApproveRun, approveRun
  <2> DEFINE next == [run EXCEPT !.state = "MERGE_READY", !.approval = approval]
  <2>2. next \in RunRow
    BY <1>0, RunRowBinding DEF RunStates
  <2>3. /\ next.state = "MERGE_READY" /\ next.rev = run.rev
        /\ next.spec = run.spec /\ next.graph = run.graph
    BY <1>0 DEF RunRow
  <2>4. RunMove(next)
    BY <1>5, <2>1, <2>2, <2>3
    DEF RunMove, ApproveRun, approveRun, validateRunCommand,
        RunStates, TerminalRunStates, Early, Late
  <2>5. QED
    BY <2>1, <2>4, EnvelopeID
    DEF RunWrite, NewCommand, Revision, persistRunTransition, validateRunCommand
<1>6. CASE RejectRun
  <2>1. PICK m \in CommandEnvelope(run.rev), review \in Artifacts,
             commit \in Commits :
          /\ validateRunCommand(m)
          /\ persistRunTransition(m, <<"RejectRun", m, commit, review>>,
               [run EXCEPT !.state = "REJECTED"])
    BY <1>6 DEF RejectRun, rejectRun
  <2> DEFINE next == [run EXCEPT !.state = "REJECTED"]
  <2>2. next \in RunRow
    BY <1>0, RunRowUpdate DEF RunStates
  <2>3. /\ next.state = "REJECTED" /\ next.rev = run.rev
        /\ next.spec = run.spec /\ next.graph = run.graph
    BY <1>0 DEF RunRow
  <2>4. RunMove(next)
    BY <1>6, <2>1, <2>2, <2>3
    DEF RunMove, RejectRun, rejectRun, validateRunCommand,
        RunStates, TerminalRunStates, Early, Late
  <2>5. QED
    BY <2>1, <2>4, EnvelopeID
    DEF RunWrite, NewCommand, Revision, persistRunTransition, validateRunCommand
<1>7. CASE RecordDraftPullRequest
  <2>1. PICK m \in CommandEnvelope(run.rev), approval \in Artifacts,
             ref \in Artifacts, commit \in Commits :
          /\ validateRunCommand(m)
          /\ persistRunTransition(m, <<"RecordDraftPullRequest", m, commit, approval, ref>>,
               [run EXCEPT !.pub = ref])
    BY <1>7 DEF RecordDraftPullRequest, recordDraftPullRequest
  <2> DEFINE next == [run EXCEPT !.pub = ref]
  <2>2. next \in RunRow
    BY <1>0, RunRowBinding DEF RunStates
  <2>3. /\ next.state = run.state /\ next.rev = run.rev
        /\ next.spec = run.spec /\ next.graph = run.graph
    BY <1>0 DEF RunRow
  <2>4. RunMove(next)
    BY <1>7, <2>1, <2>2, <2>3
    DEF RunMove, RecordDraftPullRequest, recordDraftPullRequest, validateRunCommand,
        RunStates, TerminalRunStates, Early, Late
  <2>5. QED
    BY <2>1, <2>4, EnvelopeID
    DEF RunWrite, NewCommand, Revision, persistRunTransition, validateRunCommand
<1>8. CASE RecordMerge
  <2>1. PICK m \in CommandEnvelope(run.rev), approval \in Artifacts,
             ref \in Artifacts, commit \in Commits :
          /\ validateRunCommand(m)
          /\ persistRunTransition(m, <<"RecordMerge", m, commit, approval, ref>>,
               [run EXCEPT !.state = "MERGED", !.merge = ref])
    BY <1>8 DEF RecordMerge, recordMerge
  <2> DEFINE next == [run EXCEPT !.state = "MERGED", !.merge = ref]
  <2>2. next \in RunRow
    BY <1>0, RunRowBinding DEF RunStates
  <2>3. /\ next.state = "MERGED" /\ next.rev = run.rev
        /\ next.spec = run.spec /\ next.graph = run.graph
    BY <1>0 DEF RunRow
  <2>4. RunMove(next)
    BY <1>8, <2>1, <2>2, <2>3
    DEF RunMove, RecordMerge, recordMerge, validateRunCommand,
        RunStates, TerminalRunStates, Early, Late
  <2>5. QED
    BY <2>1, <2>4, EnvelopeID
    DEF RunWrite, NewCommand, Revision, persistRunTransition, validateRunCommand
<1>9. CASE FailRun
  <2>1. PICK m \in CommandEnvelope(run.rev), ref \in Artifacts :
          /\ validateRunCommand(m)
          /\ persistRunTransition(m, <<"FailRun", m, ref>>,
               [run EXCEPT !.state = "FAILED"])
    BY <1>9 DEF FailRun, failRun
  <2> DEFINE next == [run EXCEPT !.state = "FAILED"]
  <2>2. next \in RunRow
    BY <1>0, RunRowUpdate DEF RunStates
  <2>3. /\ next.state = "FAILED" /\ next.rev = run.rev
        /\ next.spec = run.spec /\ next.graph = run.graph
    BY <1>0 DEF RunRow
  <2>4. RunMove(next)
    BY <1>9, <2>1, <2>2, <2>3
    DEF RunMove, FailRun, failRun, validateRunCommand,
        RunStates, TerminalRunStates, Early, Late
  <2>5. QED
    BY <2>1, <2>4, EnvelopeID
    DEF RunWrite, NewCommand, Revision, persistRunTransition, validateRunCommand
<1>10. QED
  BY <1>1, <1>2, <1>3, <1>4, <1>5, <1>6, <1>7, <1>8, <1>9

-----------------------------------------------------------------------------
(* Task commands.                                                          *)

(* A binding made in the current attempt, and one that also vouches for    *)
(* the candidate the task holds.                                           *)
Current(r, b) == b # Nil => b.attempt = r.attempt
Vouches(r, b) == b # Nil /\ b.passed /\ b.commit = r.cand

(* The bindings that a task has in each state.                             *)
TaskInv(r) ==
  /\ r.lease # Nil => r.lease.fence = r.attempt
  /\ Current(r, r.proposal) /\ Current(r, r.exec) /\ Current(r, r.verif)
  /\ Current(r, r.review) /\ Current(r, r.approval)
  /\ r.state \in {"NONE", "PENDING", "READY", "LEASED", "REASONING"} =>
       /\ r.proposal = Nil /\ r.exec = Nil /\ r.verif = Nil
       /\ r.review = Nil /\ r.approval = Nil
  /\ r.state \in {"EXECUTING", "VERIFYING", "REVIEWING", "AWAITING_APPROVAL",
                  "ACCEPTED"} => r.proposal # Nil /\ r.proposal.passed
  /\ r.state \in {"VERIFYING", "REVIEWING", "AWAITING_APPROVAL", "ACCEPTED"} =>
       Vouches(r, r.exec)
  /\ r.state \in {"REVIEWING", "AWAITING_APPROVAL", "ACCEPTED"} =>
       Vouches(r, r.verif)
  /\ r.state \in {"AWAITING_APPROVAL", "ACCEPTED"} => Vouches(r, r.review)
  /\ r.state = "ACCEPTED" => Vouches(r, r.approval)

(* What a task command may do to the row r.                                *)
Moves(r, next) ==
  /\ next \in TaskRow
  /\ next.rev = r.rev
  /\ next.max = r.max
  /\ next.attempt <= next.max
  /\ TaskInv(next)
  /\ next.state \in TaskStates \ {"PENDING", "CANCELLED"}
  /\ r.state = "PENDING" => next.state = "FAILED"

(* A row that satisfies what the store guarantees of it.                   *)
GoodRow(r) == r \in TaskRow /\ r.attempt <= r.max /\ TaskInv(r)

(* A change of state with nothing newly bound.                             *)
LEMMA MovesState ==
  ASSUME NEW r, GoodRow(r), NEW s \in TaskStates \ {"PENDING", "CANCELLED"},
         r.state = "PENDING" => s = "FAILED",
         \/ s \in {"FAILED", "REWORK_REQUIRED"}
         \/ s = "REASONING" /\ r.state = "LEASED"
  PROVE  Moves(r, [r EXCEPT !.state = s])
<1> DEFINE next == [r EXCEPT !.state = s]
<1>1. next \in TaskRow
  BY DEF GoodRow, TaskRow
<1>2. /\ next.state = s /\ next.rev = r.rev /\ next.max = r.max
      /\ next.attempt = r.attempt /\ next.lease = r.lease /\ next.cand = r.cand
      /\ next.proposal = r.proposal /\ next.exec = r.exec /\ next.verif = r.verif
      /\ next.review = r.review /\ next.approval = r.approval
  BY DEF GoodRow, TaskRow
<1> HIDE DEF next
<1>3. TaskInv(next)
  BY <1>2 DEF GoodRow, TaskInv, Current, Vouches
<1>4. QED
  BY <1>1, <1>2, <1>3 DEF Moves, GoodRow, next

(* LeaseTask.                                                              *)
LEMMA MovesLeased ==
  ASSUME NEW r, GoodRow(r), r.state = "READY", r.attempt < r.max,
         NEW l \in LeaseRef, l.fence = r.attempt + 1
  PROVE  Moves(r, [r EXCEPT !.state = "LEASED", !.lease = l, !.attempt = @ + 1])
<1> DEFINE next == [r EXCEPT !.state = "LEASED", !.lease = l, !.attempt = @ + 1]
<1>1. r.attempt \in Nat /\ r.max \in Nat /\ r.attempt + 1 \in Nat
  BY SMT DEF GoodRow, TaskRow
<1>2. next \in TaskRow
  <2> DEFINE n == r.attempt + 1
  <2>1. n \in Nat
    BY <1>1
  <2> HIDE DEF n
  <2>2. [r EXCEPT !.state = "LEASED", !.lease = l, !.attempt = n] \in TaskRow
    BY <2>1 DEF GoodRow, TaskRow, TaskStates
  <2>3. QED
    BY <2>2 DEF n
<1>3. /\ next.state = "LEASED" /\ next.rev = r.rev /\ next.max = r.max
      /\ next.attempt = r.attempt + 1 /\ next.lease = l
      /\ next.proposal = r.proposal /\ next.exec = r.exec /\ next.verif = r.verif
      /\ next.review = r.review /\ next.approval = r.approval
  BY DEF GoodRow, TaskRow
<1> HIDE DEF next
<1>4. TaskInv(next)
  BY <1>3 DEF GoodRow, TaskInv, Current
<1>5. QED
  BY <1>1, <1>2, <1>3, <1>4, SMT DEF Moves, TaskStates, next

(* ReleaseTaskLease.                                                       *)
LEMMA MovesReleased ==
  ASSUME NEW r, GoodRow(r), r.state = "LEASED"
  PROVE  Moves(r, [r EXCEPT !.state = "READY", !.lease = Nil])
<1> DEFINE next == [r EXCEPT !.state = "READY", !.lease = Nil]
<1>1. next \in TaskRow
  BY DEF GoodRow, TaskRow, TaskStates, OptBinding, OptCommit
<1>2. /\ next.state = "READY" /\ next.rev = r.rev /\ next.max = r.max
      /\ next.attempt = r.attempt /\ next.lease = Nil /\ next.cand = r.cand
      /\ next.proposal = r.proposal /\ next.exec = r.exec /\ next.verif = r.verif
      /\ next.review = r.review /\ next.approval = r.approval
  BY DEF GoodRow, TaskRow
<1> HIDE DEF next
<1>3. TaskInv(next)
  BY <1>2 DEF GoodRow, TaskInv, Current, Vouches
<1>4. QED
  BY <1>1, <1>2, <1>3 DEF Moves, GoodRow, TaskStates, next

(* RejectTaskProposal and AcceptTaskProposal.                              *)
LEMMA MovesProposal ==
  ASSUME NEW r, GoodRow(r), r.state = "REASONING", NEW s, NEW b \in Binding,
         b.attempt = r.attempt,
         s = "PROPOSAL_REJECTED" \/ (s = "EXECUTING" /\ b.passed)
  PROVE  Moves(r, [r EXCEPT !.state = s, !.proposal = b])
<1> DEFINE next == [r EXCEPT !.state = s, !.proposal = b]
<1>1. next \in TaskRow
  BY DEF GoodRow, TaskRow, TaskStates, OptBinding, OptCommit
<1>2. /\ next.state = s /\ next.rev = r.rev /\ next.max = r.max
      /\ next.attempt = r.attempt /\ next.lease = r.lease /\ next.cand = r.cand
      /\ next.proposal = b /\ next.exec = r.exec /\ next.verif = r.verif
      /\ next.review = r.review /\ next.approval = r.approval
  BY DEF GoodRow, TaskRow
<1> HIDE DEF next
<1>3. TaskInv(next)
  BY <1>2, BindingAssumption DEF GoodRow, TaskInv, Current, Vouches
<1>4. QED
  BY <1>1, <1>2, <1>3 DEF Moves, GoodRow, TaskStates, next

(* RecordTaskExecution.                                                    *)
LEMMA MovesExecution ==
  ASSUME NEW r, GoodRow(r), r.state = "EXECUTING", NEW c \in Commits, NEW b \in Binding,
         b.attempt = r.attempt, b.passed, b.commit = c
  PROVE  Moves(r, [r EXCEPT !.state = "VERIFYING", !.cand = c, !.exec = b])
<1> DEFINE next == [r EXCEPT !.state = "VERIFYING", !.cand = c, !.exec = b]
<1>1. next \in TaskRow
  BY DEF GoodRow, TaskRow, TaskStates, OptBinding, OptCommit
<1>2. /\ next.state = "VERIFYING" /\ next.rev = r.rev /\ next.max = r.max
      /\ next.attempt = r.attempt /\ next.lease = r.lease /\ next.cand = c
      /\ next.proposal = r.proposal /\ next.exec = b /\ next.verif = r.verif
      /\ next.review = r.review /\ next.approval = r.approval
  BY DEF GoodRow, TaskRow
<1> HIDE DEF next
<1>3. TaskInv(next)
  BY <1>2, BindingAssumption, ZenonT(30) DEF GoodRow, TaskInv, Current, Vouches
<1>4. QED
  BY <1>1, <1>2, <1>3 DEF Moves, GoodRow, TaskStates, next

(* RecordTaskVerification.                                                 *)
LEMMA MovesVerification ==
  ASSUME NEW r, GoodRow(r), r.state = "VERIFYING", NEW s, NEW b \in Binding,
         b.attempt = r.attempt, b.commit = r.cand,
         s = "REWORK_REQUIRED" \/ (s = "REVIEWING" /\ b.passed)
  PROVE  Moves(r, [r EXCEPT !.state = s, !.verif = b])
<1> DEFINE next == [r EXCEPT !.state = s, !.verif = b]
<1>1. next \in TaskRow
  BY DEF GoodRow, TaskRow, TaskStates, OptBinding, OptCommit
<1>2. /\ next.state = s /\ next.rev = r.rev /\ next.max = r.max
      /\ next.attempt = r.attempt /\ next.lease = r.lease /\ next.cand = r.cand
      /\ next.proposal = r.proposal /\ next.exec = r.exec /\ next.verif = b
      /\ next.review = r.review /\ next.approval = r.approval
  BY DEF GoodRow, TaskRow
<1> HIDE DEF next
<1>3. TaskInv(next)
  BY <1>2, BindingAssumption, ZenonT(30) DEF GoodRow, TaskInv, Current, Vouches
<1>4. QED
  BY <1>1, <1>2, <1>3 DEF Moves, GoodRow, TaskStates, next

(* RecordTaskReview.                                                       *)
LEMMA MovesReview ==
  ASSUME NEW r, GoodRow(r), r.state = "REVIEWING", NEW s, NEW b \in Binding,
         b.attempt = r.attempt, b.commit = r.cand,
         s = "REWORK_REQUIRED" \/ (s = "AWAITING_APPROVAL" /\ b.passed)
  PROVE  Moves(r, [r EXCEPT !.state = s, !.review = b])
<1> DEFINE next == [r EXCEPT !.state = s, !.review = b]
<1>1. next \in TaskRow
  BY DEF GoodRow, TaskRow, TaskStates, OptBinding, OptCommit
<1>2. /\ next.state = s /\ next.rev = r.rev /\ next.max = r.max
      /\ next.attempt = r.attempt /\ next.lease = r.lease /\ next.cand = r.cand
      /\ next.proposal = r.proposal /\ next.exec = r.exec /\ next.verif = r.verif
      /\ next.review = b /\ next.approval = r.approval
  BY DEF GoodRow, TaskRow
<1> HIDE DEF next
<1>3. TaskInv(next)
  BY <1>2, BindingAssumption, ZenonT(30) DEF GoodRow, TaskInv, Current, Vouches
<1>4. QED
  BY <1>1, <1>2, <1>3 DEF Moves, GoodRow, TaskStates, next

(* ApproveTask.                                                            *)
LEMMA MovesApproval ==
  ASSUME NEW r, GoodRow(r), r.state = "AWAITING_APPROVAL", NEW b \in Binding,
         b.attempt = r.attempt, b.passed, b.commit = r.cand
  PROVE  Moves(r, [r EXCEPT !.state = "ACCEPTED", !.approval = b])
<1> DEFINE next == [r EXCEPT !.state = "ACCEPTED", !.approval = b]
<1>1. next \in TaskRow
  BY DEF GoodRow, TaskRow, TaskStates, OptBinding, OptCommit
<1>2. /\ next.state = "ACCEPTED" /\ next.rev = r.rev /\ next.max = r.max
      /\ next.attempt = r.attempt /\ next.lease = r.lease /\ next.cand = r.cand
      /\ next.proposal = r.proposal /\ next.exec = r.exec /\ next.verif = r.verif
      /\ next.review = r.review /\ next.approval = b
  BY DEF GoodRow, TaskRow
<1> HIDE DEF next
<1>3. TaskInv(next)
  BY <1>2, BindingAssumption, ZenonT(30) DEF GoodRow, TaskInv, Current, Vouches
<1>4. QED
  BY <1>1, <1>2, <1>3 DEF Moves, GoodRow, TaskStates, next

(* RetryTask.                                                              *)
LEMMA MovesRetried ==
  ASSUME NEW r, GoodRow(r), r.state # "PENDING", NEW s \in {"READY", "FAILED"}
  PROVE  Moves(r, [r EXCEPT !.state = s, !.lease = Nil, !.proposal = Nil,
                             !.exec = Nil, !.cand = Nil, !.verif = Nil,
                             !.review = Nil, !.approval = Nil])
<1> DEFINE next == [r EXCEPT !.state = s, !.lease = Nil, !.proposal = Nil,
                             !.exec = Nil, !.cand = Nil, !.verif = Nil,
                             !.review = Nil, !.approval = Nil]
<1>1. next \in TaskRow
  BY DEF GoodRow, TaskRow, TaskStates, OptBinding, OptCommit
<1>2. /\ next.state = s /\ next.rev = r.rev /\ next.max = r.max
      /\ next.attempt = r.attempt /\ next.lease = Nil /\ next.cand = Nil
      /\ next.proposal = Nil /\ next.exec = Nil /\ next.verif = Nil
      /\ next.review = Nil /\ next.approval = Nil
  BY DEF GoodRow, TaskRow
<1> HIDE DEF next
<1>3. TaskInv(next)
  BY <1>2 DEF GoodRow, TaskInv, Current, Vouches
<1>4. QED
  BY <1>1, <1>2, <1>3 DEF Moves, GoodRow, TaskStates, next

(* A task command that passes the store's checks.                          *)
TaskWrite(m, digest, t, next) ==
  /\ NewCommand(m, digest, t)
  /\ Moves(task[t], next)
  /\ run.state = "EXECUTING"
  /\ task[t].state \in TaskStates \ TerminalTaskStates
  /\ persistTaskTransition(m, digest, t, next)

(* The checks that all task commands share.                                *)
LEMMA TaskWriteIntro ==
  ASSUME NEW t \in Tasks, NEW m \in CommandEnvelope(task[t].rev), NEW digest,
         NEW next, validateTaskCommand(m, t), validateTaskRunGate,
         task[t].state \in TaskStates, digest[2] = m, Moves(task[t], next),
         persistTaskTransition(m, digest, t, next)
  PROVE  \E n, d, x : TaskWrite(n, d, t, x)
<1>1. t # RunID /\ Revision(t) = task[t].rev
  BY RunIDAssumption DEF Revision
<1>2. NewCommand(m, digest, t)
  BY <1>1, EnvelopeID DEF NewCommand, validateTaskCommand, persistTaskTransition
<1>3. TaskWrite(m, digest, t, next)
  BY <1>2 DEF TaskWrite, validateTaskRunGate, validateTaskCommand
<1>4. QED
  BY <1>3

(* Every task command is a task write.                                     *)
LEMMA TaskWrites ==
  ASSUME TypeOK, NEW t \in Tasks, TaskInv(task[t]), TaskNext(t)
  PROVE  \E m, digest, next : TaskWrite(m, digest, t, next)
<1>0. GoodRow(task[t]) /\ task[t] \in TaskRow
  BY DEF GoodRow, TypeOK
<1>1. CASE LeaseTask(t)
  <2>1. PICK m \in CommandEnvelope(task[t].rev), lease \in LeaseRef :
          /\ validateTaskCommand(m, t)
          /\ lease.fence = nextFence(t)
          /\ persistTaskTransition(m, <<"LeaseTask", m, t, lease>>, t,
               [task[t] EXCEPT !.state = "LEASED", !.lease = lease, !.attempt = @ + 1])
    BY <1>1 DEF LeaseTask, leaseTask
  <2>2. Moves(task[t],
               [task[t] EXCEPT !.state = "LEASED", !.lease = lease, !.attempt = @ + 1])
    BY <1>0, <1>1, <2>1, MovesLeased
    DEF LeaseTask, leaseTask, attemptsLeft, nextFence
  <2>3. QED
    BY <1>1, <2>1, <2>2, TaskWriteIntro, SMT DEF LeaseTask, leaseTask, TaskStates
<1>2. CASE ReleaseTaskLease(t)
  <2>1. PICK m \in CommandEnvelope(task[t].rev), lease \in LeaseRef :
          /\ validateTaskCommand(m, t)
          /\ persistTaskTransition(m, <<"ReleaseTaskLease", m, t, lease>>, t,
               [task[t] EXCEPT !.state = "READY", !.lease = Nil])
    BY <1>2 DEF ReleaseTaskLease, releaseTaskLease
  <2>2. Moves(task[t],
               [task[t] EXCEPT !.state = "READY", !.lease = Nil])
    BY <1>0, <1>2, MovesReleased
    DEF ReleaseTaskLease, releaseTaskLease
  <2>3. QED
    BY <1>2, <2>1, <2>2, TaskWriteIntro, SMT DEF ReleaseTaskLease, releaseTaskLease, TaskStates
<1>3. CASE StartReasoning(t)
  <2>1. PICK m \in CommandEnvelope(task[t].rev), lease \in LeaseRef :
          /\ validateTaskCommand(m, t)
          /\ persistTaskTransition(m, <<"StartReasoning", m, t, lease>>, t,
               [task[t] EXCEPT !.state = "REASONING"])
    BY <1>3 DEF StartReasoning, startReasoning
  <2>2. Moves(task[t],
               [task[t] EXCEPT !.state = "REASONING"])
    BY <1>0, <1>3, MovesState
    DEF StartReasoning, startReasoning, TaskStates
  <2>3. QED
    BY <1>3, <2>1, <2>2, TaskWriteIntro, SMT DEF StartReasoning, startReasoning, TaskStates
<1>4. CASE RejectTaskProposal(t)
  <2>1. PICK m \in CommandEnvelope(task[t].rev), proposal \in Artifacts :
          /\ validateTaskCommand(m, t)
          /\ persistTaskTransition(m, <<"RejectTaskProposal", m, t, proposal>>, t,
               [task[t] EXCEPT !.state = "PROPOSAL_REJECTED",
                             !.proposal = bound(t, proposal, Nil, FALSE)])
    BY <1>4 DEF RejectTaskProposal, rejectTaskProposal
  <2>2. Moves(task[t],
               [task[t] EXCEPT !.state = "PROPOSAL_REJECTED",
                             !.proposal = bound(t, proposal, Nil, FALSE)])
    <3> DEFINE b == bound(t, proposal, Nil, FALSE)
    <3>1. /\ b \in Binding /\ b.attempt = task[t].attempt /\ b.commit = Nil
          /\ b.passed = FALSE
      BY <1>0, <2>1 DEF bound, Binding, TaskRow
    <3> HIDE DEF b
    <3>2. Moves(task[t], [task[t] EXCEPT !.state = "PROPOSAL_REJECTED", !.proposal = b])
      BY <1>0, <1>4, <2>1, <3>1, MovesProposal
      DEF RejectTaskProposal, rejectTaskProposal
    <3>3. QED
      BY <3>2 DEF b
  <2>3. QED
    BY <1>4, <2>1, <2>2, TaskWriteIntro, SMT DEF RejectTaskProposal, rejectTaskProposal, TaskStates
<1>5. CASE AcceptTaskProposal(t)
  <2>1. PICK m \in CommandEnvelope(task[t].rev), lease \in LeaseRef,
             proposal \in Artifacts :
          /\ validateTaskCommand(m, t)
          /\ persistTaskTransition(m, <<"AcceptTaskProposal", m, t, lease, proposal>>, t,
               [task[t] EXCEPT !.state = "EXECUTING",
                             !.proposal = bound(t, proposal, Nil, TRUE)])
    BY <1>5 DEF AcceptTaskProposal, acceptTaskProposal
  <2>2. Moves(task[t],
               [task[t] EXCEPT !.state = "EXECUTING",
                             !.proposal = bound(t, proposal, Nil, TRUE)])
    <3> DEFINE b == bound(t, proposal, Nil, TRUE)
    <3>1. /\ b \in Binding /\ b.attempt = task[t].attempt /\ b.commit = Nil
          /\ b.passed = TRUE
      BY <1>0, <2>1 DEF bound, Binding, TaskRow
    <3> HIDE DEF b
    <3>2. Moves(task[t], [task[t] EXCEPT !.state = "EXECUTING", !.proposal = b])
      BY <1>0, <1>5, <2>1, <3>1, MovesProposal
      DEF AcceptTaskProposal, acceptTaskProposal
    <3>3. QED
      BY <3>2 DEF b
  <2>3. QED
    BY <1>5, <2>1, <2>2, TaskWriteIntro, SMT DEF AcceptTaskProposal, acceptTaskProposal, TaskStates
<1>6. CASE RecordTaskExecution(t)
  <2>1. PICK m \in CommandEnvelope(task[t].rev), lease \in LeaseRef,
             proposal \in Artifacts, ref \in Artifacts, commit \in Commits :
          /\ validateTaskCommand(m, t)
          /\ persistTaskTransition(m,
               <<"RecordTaskExecution", m, t, lease, proposal, ref, commit>>, t,
               [task[t] EXCEPT !.state = "VERIFYING", !.cand = commit,
                             !.exec = bound(t, ref, commit, TRUE)])
    BY <1>6 DEF RecordTaskExecution, recordTaskExecution
  <2>2. Moves(task[t],
               [task[t] EXCEPT !.state = "VERIFYING", !.cand = commit,
                             !.exec = bound(t, ref, commit, TRUE)])
    <3> DEFINE b == bound(t, ref, commit, TRUE)
    <3>1. /\ b \in Binding /\ b.attempt = task[t].attempt /\ b.commit = commit
          /\ b.passed = TRUE
      BY <1>0, <2>1 DEF bound, Binding, TaskRow
    <3> HIDE DEF b
    <3>2. Moves(task[t],
                [task[t] EXCEPT !.state = "VERIFYING", !.cand = commit, !.exec = b])
      BY <1>0, <1>6, <2>1, <3>1, MovesExecution
      DEF RecordTaskExecution, recordTaskExecution
    <3>3. QED
      BY <3>2 DEF b
  <2>3. QED
    BY <1>6, <2>1, <2>2, TaskWriteIntro, SMT DEF RecordTaskExecution, recordTaskExecution, TaskStates
<1>7. CASE RecordTaskVerification(t)
  <2>1. PICK m \in CommandEnvelope(task[t].rev), ref \in Artifacts,
             commit \in Commits, passed \in BOOLEAN :
          /\ validateTaskCommand(m, t)
          /\ sameCandidate(t, commit)
          /\ persistTaskTransition(m,
               <<"RecordTaskVerification", m, t, ref, commit, passed>>, t,
               [task[t] EXCEPT
                  !.state = IF passed THEN "REVIEWING" ELSE "REWORK_REQUIRED",
                  !.verif = bound(t, ref, commit, passed)])
    BY <1>7 DEF RecordTaskVerification, recordTaskVerification
  <2>2. Moves(task[t],
               [task[t] EXCEPT
                  !.state = IF passed THEN "REVIEWING" ELSE "REWORK_REQUIRED",
                  !.verif = bound(t, ref, commit, passed)])
    <3> DEFINE b == bound(t, ref, commit, passed)
               s == IF passed THEN "REVIEWING" ELSE "REWORK_REQUIRED"
    <3>1. /\ b \in Binding /\ b.attempt = task[t].attempt /\ b.commit = commit
          /\ b.passed = passed
      BY <1>0, <2>1 DEF bound, Binding, TaskRow
    <3>2. s = "REWORK_REQUIRED" \/ (s = "REVIEWING" /\ b.passed)
      BY <3>1
    <3> HIDE DEF b, s
    <3>3. Moves(task[t], [task[t] EXCEPT !.state = s, !.verif = b])
      BY <1>0, <1>7, <2>1, <3>1, <3>2, MovesVerification
      DEF RecordTaskVerification, recordTaskVerification, sameCandidate
    <3>4. QED
      BY <3>3 DEF b, s
  <2>3. QED
    BY <1>7, <2>1, <2>2, TaskWriteIntro, SMT DEF RecordTaskVerification, recordTaskVerification, TaskStates
<1>8. CASE RecordTaskReview(t)
  <2>1. PICK m \in CommandEnvelope(task[t].rev), ref \in Artifacts,
             commit \in Commits, passed \in BOOLEAN :
          /\ validateTaskCommand(m, t)
          /\ sameCandidate(t, commit)
          /\ persistTaskTransition(m, <<"RecordTaskReview", m, t, ref, commit, passed>>, t,
               [task[t] EXCEPT
                  !.state = IF passed THEN "AWAITING_APPROVAL"
                                      ELSE "REWORK_REQUIRED",
                  !.review = bound(t, ref, commit, passed)])
    BY <1>8 DEF RecordTaskReview, recordTaskReview
  <2>2. Moves(task[t],
               [task[t] EXCEPT
                  !.state = IF passed THEN "AWAITING_APPROVAL"
                                      ELSE "REWORK_REQUIRED",
                  !.review = bound(t, ref, commit, passed)])
    <3> DEFINE b == bound(t, ref, commit, passed)
               s == IF passed THEN "AWAITING_APPROVAL" ELSE "REWORK_REQUIRED"
    <3>1. /\ b \in Binding /\ b.attempt = task[t].attempt /\ b.commit = commit
          /\ b.passed = passed
      BY <1>0, <2>1 DEF bound, Binding, TaskRow
    <3>2. s = "REWORK_REQUIRED" \/ (s = "AWAITING_APPROVAL" /\ b.passed)
      BY <3>1
    <3> HIDE DEF b, s
    <3>3. Moves(task[t], [task[t] EXCEPT !.state = s, !.review = b])
      BY <1>0, <1>8, <2>1, <3>1, <3>2, MovesReview
      DEF RecordTaskReview, recordTaskReview, sameCandidate
    <3>4. QED
      BY <3>3 DEF b, s
  <2>3. QED
    BY <1>8, <2>1, <2>2, TaskWriteIntro, SMT DEF RecordTaskReview, recordTaskReview, TaskStates
<1>9. CASE ApproveTask(t)
  <2>1. PICK m \in CommandEnvelope(task[t].rev), review \in Artifacts,
             ref \in Artifacts, commit \in Commits :
          /\ validateTaskCommand(m, t)
          /\ sameCandidate(t, commit)
          /\ persistTaskTransition(m, <<"ApproveTask", m, t, commit, review, ref>>, t,
               [task[t] EXCEPT !.state = "ACCEPTED",
                             !.approval = bound(t, ref, commit, TRUE)])
    BY <1>9 DEF ApproveTask, approveTask, validateHumanReview
  <2>2. Moves(task[t],
               [task[t] EXCEPT !.state = "ACCEPTED",
                             !.approval = bound(t, ref, commit, TRUE)])
    <3> DEFINE b == bound(t, ref, commit, TRUE)
    <3>1. /\ b \in Binding /\ b.attempt = task[t].attempt /\ b.commit = commit
          /\ b.passed = TRUE
      BY <1>0, <2>1 DEF bound, Binding, TaskRow
    <3> HIDE DEF b
    <3>2. Moves(task[t], [task[t] EXCEPT !.state = "ACCEPTED", !.approval = b])
      BY <1>0, <1>9, <2>1, <3>1, MovesApproval
      DEF ApproveTask, approveTask, sameCandidate
    <3>3. QED
      BY <3>2 DEF b
  <2>3. QED
    BY <1>9, <2>1, <2>2, TaskWriteIntro, SMT DEF ApproveTask, approveTask, TaskStates
<1>10. CASE RequireTaskRework(t)
  <2>1. PICK m \in CommandEnvelope(task[t].rev), review \in Artifacts,
             commit \in Commits :
          /\ validateTaskCommand(m, t)
          /\ persistTaskTransition(m, <<"RequireTaskRework", m, t, commit, review>>, t,
               [task[t] EXCEPT !.state = "REWORK_REQUIRED"])
    BY <1>10 DEF RequireTaskRework, requireTaskRework
  <2>2. Moves(task[t],
               [task[t] EXCEPT !.state = "REWORK_REQUIRED"])
    BY <1>0, <1>10, MovesState
    DEF RequireTaskRework, requireTaskRework, TaskStates
  <2>3. QED
    BY <1>10, <2>1, <2>2, TaskWriteIntro, SMT DEF RequireTaskRework, requireTaskRework, TaskStates
<1>11. CASE RetryTask(t)
  <2>1. PICK m \in CommandEnvelope(task[t].rev) :
          /\ validateTaskCommand(m, t)
          /\ persistTaskTransition(m, <<"RetryTask", m, t>>, t,
               retried(t))
    BY <1>11 DEF RetryTask, retryTask
  <2>2. Moves(task[t],
               retried(t))
    BY <1>0, <1>11, MovesRetried
    DEF RetryTask, retryTask, retried
  <2>3. QED
    BY <1>11, <2>1, <2>2, TaskWriteIntro DEF RetryTask, retryTask, TaskStates
<1>12. CASE FailTask(t)
  <2>1. PICK m \in CommandEnvelope(task[t].rev), ref \in Artifacts :
          /\ validateTaskCommand(m, t)
          /\ persistTaskTransition(m, <<"FailTask", m, t, ref>>, t,
               [task[t] EXCEPT !.state = "FAILED"])
    BY <1>12 DEF FailTask, failTask
  <2>2. Moves(task[t],
               [task[t] EXCEPT !.state = "FAILED"])
    BY <1>0, <1>12, MovesState
    DEF FailTask, failTask, TaskStates
  <2>3. QED
    BY <1>12, <2>1, <2>2, TaskWriteIntro, SMT DEF FailTask, failTask, TaskStates
<1>13. QED
  BY <1>1, <1>2, <1>3, <1>4, <1>5, <1>6, <1>7, <1>8, <1>9, <1>10, <1>11, <1>12 DEF TaskNext

-----------------------------------------------------------------------------
(* The event log and the command ledger.                                   *)

LogInv == GaplessLog /\ CommandOnce /\ AppliedToRevisionRead

(* A new command on aggregate a that advances exactly the revisions of S   *)
(* and logs one event for each of them.                                    *)
Wrote(m, digest, a, S) ==
  /\ NewCommand(m, digest, a)
  /\ S \subseteq Aggregates /\ a \in S
  /\ log' = [b \in Aggregates |->
               IF b \in S THEN log[b] \cup {[rev |-> Revision(b) + 1, cmd |-> m.id]}
                          ELSE log[b]]
  /\ commands' = recordCommandResult(m, digest, a, Revision(a) + 1)
  /\ \A b \in Aggregates :
       Revision(b)' = IF b \in S THEN Revision(b) + 1 ELSE Revision(b)

(* Revisions are natural numbers.                                          *)
LEMMA RevisionType == TypeOK => \A b \in Aggregates : Revision(b) \in Nat
BY DEF TypeOK, Aggregates, Revision, RunRow, TaskRow

(* A command is recorded under its ID, which had no row before.            *)
LEMMA Recorded ==
  ASSUME TypeOK, NEW m, NEW digest, NEW a, NEW S, Wrote(m, digest, a, S)
  PROVE  /\ m.id \notin DOMAIN commands
         /\ DOMAIN commands' = DOMAIN commands \cup ({m.id} \cap CommandIDs)
         /\ \A i \in DOMAIN commands : commands'[i] = commands[i]
         /\ m.id \in CommandIDs =>
              /\ commands'[m.id].on = a
              /\ commands'[m.id].rev = Revision(a) + 1
              /\ commands'[m.id].digest = digest
<1>1. m.id \notin DOMAIN commands
  BY DEF Wrote, NewCommand, loadCommandResult
<1>2. CASE m.id = Fresh
  BY <1>1, <1>2, FreshAssumption DEF Wrote, recordCommandResult
<1>3. CASE m.id # Fresh
  BY <1>1, <1>3 DEF Wrote, recordCommandResult, NewCommand
<1>4. QED
  BY <1>1, <1>2, <1>3

(* The rows of the log and the ledger have their types.                    *)
LEMMA WroteType ==
  ASSUME TypeOK, NEW m, NEW digest, NEW a, NEW S, Wrote(m, digest, a, S)
  PROVE  /\ log' \in [Aggregates -> SUBSET EventRow]
         /\ DOMAIN commands' \subseteq CommandIDs
         /\ \A i \in DOMAIN commands' :
              commands'[i].on \in Aggregates /\ commands'[i].rev \in Nat
<1>1. a \in Aggregates /\ Revision(a) + 1 \in Nat
  BY RevisionType, SMT DEF Wrote
<1>2. log' \in [Aggregates -> SUBSET EventRow]
  <2> SUFFICES ASSUME NEW b \in Aggregates PROVE log'[b] \subseteq EventRow
    BY DEF Wrote
  <2>1. log[b] \subseteq EventRow
    BY DEF TypeOK
  <2>2. [rev |-> Revision(b) + 1, cmd |-> m.id] \in EventRow
    BY RevisionType, SMT DEF Wrote, NewCommand, EventRow
  <2>3. QED
    BY <2>1, <2>2 DEF Wrote
<1>3. /\ DOMAIN commands' = DOMAIN commands \cup ({m.id} \cap CommandIDs)
      /\ \A i \in DOMAIN commands : commands'[i] = commands[i]
      /\ m.id \in CommandIDs =>
           commands'[m.id].on = a /\ commands'[m.id].rev = Revision(a) + 1
  BY Recorded
<1>4. /\ DOMAIN commands \subseteq CommandIDs
      /\ \A i \in DOMAIN commands :
           commands[i].on \in Aggregates /\ commands[i].rev \in Nat
  BY DEF TypeOK
<1>5. QED
  BY <1>1, <1>2, <1>3, <1>4

(* The log stays gapless, a command ID is used once, and a command applies *)
(* to the revision that its author read.                                   *)
LEMMA WroteLog ==
  ASSUME TypeOK, LogInv, NEW m, NEW digest, NEW a, NEW S, Wrote(m, digest, a, S)
  PROVE  LogInv'
<1> DEFINE new(b) == [rev |-> Revision(b) + 1, cmd |-> m.id]
<1>1. \A b \in Aggregates :
        /\ Revision(b) \in Nat
        /\ b \in S => log'[b] = log[b] \cup {new(b)} /\ Revision(b)' = Revision(b) + 1
        /\ b \notin S => log'[b] = log[b] /\ Revision(b)' = Revision(b)
  BY RevisionType DEF Wrote
<1>2. \A b \in Aggregates : new(b).rev = Revision(b) + 1 /\ new(b).cmd = m.id
  OBVIOUS
<1>3. a \in Aggregates /\ a \in S /\ digest[2].rev = Revision(a)
      /\ m.id \in CommandIDs \cup {Fresh}
  BY DEF Wrote, NewCommand
<1>4. /\ m.id \notin DOMAIN commands
      /\ DOMAIN commands' = DOMAIN commands \cup ({m.id} \cap CommandIDs)
      /\ \A i \in DOMAIN commands : commands'[i] = commands[i]
      /\ m.id \in CommandIDs =>
           /\ commands'[m.id].on = a
           /\ commands'[m.id].rev = Revision(a) + 1
           /\ commands'[m.id].digest = digest
  BY Recorded
<1>5. GaplessLog'
  <2> SUFFICES ASSUME NEW b \in Aggregates
               PROVE  /\ \A e \in log'[b] : e.rev \in 1..Revision(b)'
                      /\ \A n \in 1..Revision(b)' : \E e \in log'[b] : e.rev = n
                      /\ \A e, f \in log'[b] : e.rev = f.rev => e = f
    BY DEF GaplessLog
  <2>1. /\ \A e \in log[b] : e.rev \in 1..Revision(b)
        /\ \A n \in 1..Revision(b) : \E e \in log[b] : e.rev = n
        /\ \A e, f \in log[b] : e.rev = f.rev => e = f
    BY DEF LogInv, GaplessLog
  <2>2. CASE b \notin S
    BY <1>1, <2>1, <2>2
  <2>3. CASE b \in S
    <3>1. Revision(b) \in Nat /\ log'[b] = log[b] \cup {new(b)}
          /\ Revision(b)' = Revision(b) + 1 /\ new(b).rev = Revision(b) + 1
      BY <1>1, <1>2, <2>3
    <3> HIDE DEF new
    <3>2. \A e \in log'[b] : e.rev \in 1..Revision(b)'
      BY <2>1, <3>1, SMT
    <3>3. \A n \in 1..Revision(b)' : \E e \in log'[b] : e.rev = n
      BY <2>1, <3>1, SMT
    <3>4. \A e, f \in log'[b] : e.rev = f.rev => e = f
      BY <2>1, <3>1, SMT
    <3>5. QED
      BY <3>2, <3>3, <3>4
  <2>4. QED
    BY <2>2, <2>3
<1> HIDE DEF new
<1>6. CommandOnce'
  <2> SUFFICES ASSUME NEW i \in CommandIDs
               PROVE  /\ \A b \in Aggregates : \A e, f \in log'[b] :
                           e.cmd = i /\ f.cmd = i => e = f
                      /\ (\E b \in Aggregates : \E e \in log'[b] : e.cmd = i)
                           => i \in DOMAIN commands'
                      /\ i \in DOMAIN commands' =>
                           [rev |-> commands'[i].rev, cmd |-> i]
                             \in log'[commands'[i].on]
    BY DEF CommandOnce
  <2>1. /\ \A b \in Aggregates : \A e, f \in log[b] :
             e.cmd = i /\ f.cmd = i => e = f
        /\ (\E b \in Aggregates : \E e \in log[b] : e.cmd = i) => i \in DOMAIN commands
        /\ i \in DOMAIN commands =>
             [rev |-> commands[i].rev, cmd |-> i] \in log[commands[i].on]
    BY DEF LogInv, CommandOnce
  <2>2. i # Fresh
    BY FreshAssumption
  <2>3. \A b \in Aggregates : \A e, f \in log'[b] : e.cmd = i /\ f.cmd = i => e = f
    BY <1>1, <1>2, <1>4, <2>1, SMT
  <2>4. (\E b \in Aggregates : \E e \in log'[b] : e.cmd = i) => i \in DOMAIN commands'
    BY <1>1, <1>2, <1>3, <1>4, <2>1, <2>2, SMT
  <2>5. ASSUME i \in DOMAIN commands'
        PROVE  [rev |-> commands'[i].rev, cmd |-> i] \in log'[commands'[i].on]
    <3>1. CASE i \in DOMAIN commands
      <4>1. commands[i].on \in Aggregates /\ commands'[i] = commands[i]
        BY <1>4, <3>1 DEF TypeOK
      <4>2. QED
        BY <1>1, <2>1, <3>1, <4>1
    <3>2. CASE i \notin DOMAIN commands
      <4>1. i = m.id /\ commands'[i].on = a /\ commands'[i].rev = Revision(a) + 1
        BY <1>4, <2>5, <3>2
      <4>2. QED
        BY <1>1, <1>3, <4>1 DEF new
    <3>3. QED
      BY <3>1, <3>2
  <2>6. QED
    BY <2>3, <2>4, <2>5
<1>7. AppliedToRevisionRead'
  BY <1>3, <1>4 DEF LogInv, AppliedToRevisionRead
<1>8. QED
  BY <1>5, <1>6, <1>7 DEF LogInv

-----------------------------------------------------------------------------
(* The four classes of commands.                                           *)

(* What holds of the task rows beside their types.                         *)
RowsInv ==
  \A t \in Tasks : /\ TaskInv(task[t])
                   /\ task[t].state = "NONE" => task[t].rev = 0

PlanInv == RunPhase /\ CancelLeavesNoTaskBehind

(* Dependencies join two different planned tasks.                          *)
DepsPlanned ==
  \A d, p \in Tasks : <<d, p>> \in deps =>
    d # p /\ task[d].state # "NONE" /\ task[p].state # "NONE"

GraphInv == DepsPlanned /\ NoEarlyStart /\ NoLostWakeUp

IInv == TypeOK /\ RowsInv /\ PlanInv /\ GraphInv /\ LogInv

(* A run write advances the run's revision.                                *)
LEMMA RunWrote ==
  ASSUME TypeOK, NEW m, NEW digest, NEW next, RunWrite(m, digest, next)
  PROVE  /\ Wrote(m, digest, RunID, {RunID})
         /\ run' \in RunRow
         /\ run'.state = next.state /\ run'.spec = next.spec /\ run'.graph = next.graph
         /\ task' = task /\ deps' = deps
<1>1. next \in RunRow /\ next.rev = run.rev /\ run.rev \in Nat
  BY DEF RunWrite, RunMove, TypeOK, RunRow
<1>2. run' = [next EXCEPT !.rev = next.rev + 1] /\ task' = task /\ deps' = deps
  BY DEF RunWrite, persistRunTransition, finishRunTransition
<1>3. run' \in RunRow /\ run'.rev = run.rev + 1 /\ run'.state = next.state
      /\ run'.spec = next.spec /\ run'.graph = next.graph
  <2> DEFINE n == next.rev + 1
  <2>1. n \in Nat
    BY <1>1, SMT
  <2>2. run' = [next EXCEPT !.rev = n]
    BY <1>2
  <2>3. n = run.rev + 1
    BY <1>1
  <2> HIDE DEF n
  <2>4. QED
    BY <1>1, <2>1, <2>2, <2>3 DEF RunRow
<1>4. \A b \in Aggregates :
        Revision(b)' = IF b \in {RunID} THEN Revision(b) + 1 ELSE Revision(b)
  BY <1>2, <1>3 DEF Revision
<1>5. log' = [b \in Aggregates |->
                IF b \in {RunID}
                THEN log[b] \cup {[rev |-> Revision(b) + 1, cmd |-> m.id]}
                ELSE log[b]]
  BY DEF RunWrite, persistRunTransition, insertEvents, Revision
<1>6. commands' = recordCommandResult(m, digest, RunID, Revision(RunID) + 1)
  BY DEF RunWrite, persistRunTransition, Revision
<1>7. QED
  BY <1>2, <1>3, <1>4, <1>5, <1>6 DEF Wrote, RunWrite, Aggregates

(* The rows that an acceptance makes ready.                                *)
Ready(t, next) == IF next.state = "ACCEPTED" THEN makeDependentsReady(t) ELSE {}

(* A task write advances the task and the dependents it makes ready.       *)
LEMMA TaskWrote ==
  ASSUME TypeOK, NEW t \in Tasks, NEW m, NEW digest, NEW next,
         TaskWrite(m, digest, t, next), t \notin Ready(t, next)
  PROVE  /\ Wrote(m, digest, t, {t} \cup Ready(t, next))
         /\ run' = run /\ deps' = deps
         /\ task' \in [Tasks -> TaskRow]
         /\ task'[t] = [next EXCEPT !.rev = next.rev + 1]
         /\ \A u \in Tasks \ {t} :
              task'[u] = IF u \in Ready(t, next)
                         THEN [task[u] EXCEPT !.state = "READY", !.rev = task[u].rev + 1]
                         ELSE task[u]
<1> DEFINE S == {t} \cup Ready(t, next)
<1>1. next \in TaskRow /\ next.rev = task[t].rev
  BY DEF TaskWrite, Moves
<1>2. task' = [u \in Tasks |->
                 IF u = t THEN [next EXCEPT !.rev = next.rev + 1]
                 ELSE IF u \in Ready(t, next)
                      THEN [task[u] EXCEPT !.state = "READY", !.rev = task[u].rev + 1]
                      ELSE task[u]]
      /\ run' = run /\ deps' = deps
  BY DEF TaskWrite, persistTaskTransition, finishTaskTransition, Ready
<1>3. ASSUME NEW u \in Tasks
      PROVE  /\ task'[u] \in TaskRow
             /\ task'[u].rev = IF u \in S THEN task[u].rev + 1 ELSE task[u].rev
  <2> DEFINE n == task[u].rev + 1
  <2>1. task[u] \in TaskRow /\ n \in Nat
    BY SMT DEF TypeOK, TaskRow
  <2>2. CASE u = t
    <3>1. task'[u] = [next EXCEPT !.rev = n]
      BY <1>1, <1>2, <2>2
    <3> HIDE DEF n
    <3>2. task'[u] \in TaskRow /\ task'[u].rev = n
      BY <1>1, <2>1, <3>1 DEF TaskRow
    <3>3. QED
      BY <2>2, <3>2 DEF n
  <2>3. CASE u # t /\ u \in Ready(t, next)
    <3>1. task'[u] = [task[u] EXCEPT !.state = "READY", !.rev = n]
      BY <1>2, <2>3
    <3> HIDE DEF n
    <3>2. task'[u] \in TaskRow /\ task'[u].rev = n
      BY <2>1, <3>1 DEF TaskRow, TaskStates
    <3>3. QED
      BY <2>3, <3>2 DEF n
  <2>4. CASE u # t /\ u \notin Ready(t, next)
    BY <1>2, <2>1, <2>4
  <2>5. QED
    BY <2>2, <2>3, <2>4
<1>4. Ready(t, next) \subseteq Tasks
  BY DEF Ready, makeDependentsReady
<1>5. \A b \in Aggregates :
        Revision(b)' = IF b \in S THEN Revision(b) + 1 ELSE Revision(b)
  BY <1>2, <1>3, <1>4, RunIDAssumption DEF Revision, Aggregates
<1>6. log' = [b \in Aggregates |->
                IF b \in S
                THEN log[b] \cup {[rev |-> Revision(b) + 1, cmd |-> m.id]}
                ELSE log[b]]
  <2>1. log' = insertEvents(m, [u \in S |-> task[u].rev + 1])
    BY DEF TaskWrite, persistTaskTransition, Ready
  <2>2. \A b \in S : b \in Tasks /\ Revision(b) = task[b].rev
    BY <1>4, RunIDAssumption DEF Revision
  <2> HIDE DEF S
  <2>3. QED
    BY <2>1, <2>2 DEF insertEvents
<1>7. commands' = recordCommandResult(m, digest, t, Revision(t) + 1)
  BY RunIDAssumption DEF TaskWrite, persistTaskTransition, Revision
<1>8. Wrote(m, digest, t, S)
  BY <1>4, <1>5, <1>6, <1>7 DEF Wrote, TaskWrite, Aggregates
<1>9. QED
  BY <1>2, <1>3, <1>8

(* What ApproveTaskGraph does: every task of the plan is created, in       *)
(* PENDING or READY, where no task existed.                                *)
Plans(ids, edges) ==
  /\ ids # {} /\ ids \subseteq Tasks /\ edges \subseteq Tasks \X Tasks
  /\ \A d, p \in Tasks : <<d, p>> \in edges => d \in ids /\ p \in ids /\ d # p
  /\ taskGraphAcyclic(ids, edges)
  /\ run.state = "TASK_PLAN_REVIEW"
  /\ run' \in RunRow /\ run'.state = "READY" /\ run'.spec = run.spec
  /\ run'.graph = run.graph
  /\ deps' = edges
  /\ task' \in [Tasks -> TaskRow]
  /\ \A t \in ids :
       /\ task'[t].state = IF \E p \in Tasks : <<t, p>> \in edges
                           THEN "PENDING" ELSE "READY"
       /\ task'[t].attempt = 0 /\ task'[t].lease = Nil /\ task'[t].proposal = Nil
       /\ task'[t].exec = Nil /\ task'[t].verif = Nil /\ task'[t].review = Nil
       /\ task'[t].approval = Nil
  /\ \A t \in Tasks \ ids : task'[t] = task[t]

(* The row of a planned task has its type.                                 *)
LEMMA PlannedRowType ==
  ASSUME NEW r \in TaskRow, NEW s \in TaskStates, NEW n \in Nat, NEW x \in Nat
  PROVE  [r EXCEPT !.state = s, !.rev = n, !.max = x] \in TaskRow
BY DEF TaskRow

(* Plan approval is such a step.                                           *)
LEMMA PlanWrote ==
  ASSUME TypeOK, RowsInv, PlanInv, ApproveTaskGraph
  PROVE  \E m, digest, ids, edges :
           Wrote(m, digest, RunID, {RunID} \cup ids) /\ Plans(ids, edges)
<1>0. PICK m \in CommandEnvelope(run.rev), graph \in Artifacts, ids \in SUBSET Tasks :
        \E max \in [ids -> 0..MaxAttempts], edges \in SUBSET (Tasks \X Tasks) :
          approveTaskGraph(m, graph, max, edges)
  BY DEF ApproveTaskGraph
<1>1. PICK max \in [ids -> 0..MaxAttempts], edges \in SUBSET (Tasks \X Tasks) :
        approveTaskGraph(m, graph, max, edges)
  BY <1>0
<1>2. LET digest == <<"ApproveTaskGraph", m, graph, max, edges>> IN
        /\ m.rev = run.rev
        /\ plannedTaskIDs(max)
        /\ plannedTaskGraph(ids, edges)
        /\ taskGraphAcyclic(ids, edges)
        /\ loadCommandResult(m, digest) = "new"
        /\ run' = finishRunTransition([run EXCEPT !.state = "READY"])
        /\ task' = buildPlannedTasks(max, edges)
        /\ deps' = edges
        /\ log' = insertEvents(m, [a \in {RunID} \cup ids |->
                                     IF a = RunID THEN run.rev + 1 ELSE 1])
        /\ commands' = recordCommandResult(m, digest, RunID, run.rev + 1)
  <2>1. DOMAIN max = ids
    OBVIOUS
  <2>2. QED
    BY <1>1, <2>1 DEF approveTaskGraph
<1> DEFINE digest == <<"ApproveTaskGraph", m, graph, max, edges>>
           S == {RunID} \cup ids
<1>3. digest[2] = m
  OBVIOUS
<1>4. NewCommand(m, digest, RunID)
  BY <1>2, <1>3, EnvelopeID DEF NewCommand, Revision
<1>5. /\ run.state = "TASK_PLAN_REVIEW" /\ run \in RunRow
      /\ \A t \in Tasks : task[t].state = "NONE" /\ task[t].rev = 0
  BY DEF ApproveTaskGraph, approveTaskGraph, PlanInv, RunPhase, Planned, RowsInv, TypeOK
<1>6. /\ run' \in RunRow /\ run'.state = "READY" /\ run'.rev = run.rev + 1
      /\ run'.spec = run.spec /\ run'.graph = run.graph
  <2> DEFINE n == run.rev + 1
  <2>1. n \in Nat
    BY <1>5, SMT DEF RunRow
  <2>2. run' = [[run EXCEPT !.state = "READY"] EXCEPT !.rev = n]
    BY <1>2, <1>5 DEF finishRunTransition, RunRow
  <2> HIDE DEF n
  <2>3. /\ run' \in RunRow /\ run'.state = "READY" /\ run'.rev = n
        /\ run'.spec = run.spec /\ run'.graph = run.graph
    BY <1>5, <2>1, <2>2 DEF RunRow, RunStates
  <2>4. QED
    BY <2>3 DEF n
<1>7. ids # {} /\ \A t \in ids : max[t] \in Nat
  BY <1>2, BoundsAssumption, SMT DEF plannedTaskIDs
<1>8. \A d, p \in Tasks : <<d, p>> \in edges => d \in ids /\ p \in ids /\ d # p
  BY <1>2 DEF plannedTaskGraph
<1>9. ASSUME NEW t \in ids
      PROVE  /\ task'[t] \in TaskRow /\ task'[t].rev = 1
             /\ task'[t].state = IF \E p \in Tasks : <<t, p>> \in edges
                                 THEN "PENDING" ELSE "READY"
             /\ task'[t].attempt = 0 /\ task'[t].lease = Nil /\ task'[t].proposal = Nil
             /\ task'[t].exec = Nil /\ task'[t].verif = Nil /\ task'[t].review = Nil
             /\ task'[t].approval = Nil
  <2> DEFINE st == IF \E e \in edges : e[1] = t THEN "PENDING" ELSE "READY"
             x == max[t]
  <2>1. task'[t] = [NoTask EXCEPT !.state = st, !.rev = 1, !.max = x]
    BY <1>2, <1>9 DEF buildPlannedTasks
  <2>2. st = IF \E p \in Tasks : <<t, p>> \in edges THEN "PENDING" ELSE "READY"
    <3>1. \A e \in edges : e[2] \in Tasks /\ e = <<e[1], e[2]>>
      BY SMT
    <3>2. (\E e \in edges : e[1] = t) <=> \E p \in Tasks : <<t, p>> \in edges
      BY <3>1
    <3>3. QED
      BY <3>2
  <2>3. st \in TaskStates /\ x \in Nat
    BY <1>7 DEF TaskStates
  <2> HIDE DEF st, x
  <2>4. task'[t] \in TaskRow
    <3>1. NoTask \in TaskRow
      BY DEF NoTask, TaskRow, OptBinding, OptCommit
    <3>2. 1 \in Nat
      OBVIOUS
    <3>3. [NoTask EXCEPT !.state = st, !.rev = 1, !.max = x] \in TaskRow
      BY <2>3, <3>1, <3>2, PlannedRowType
    <3>4. QED
      BY <2>1, <3>3
  <2>5. /\ task'[t].rev = 1 /\ task'[t].state = st
        /\ task'[t].attempt = 0 /\ task'[t].lease = Nil /\ task'[t].proposal = Nil
        /\ task'[t].exec = Nil /\ task'[t].verif = Nil /\ task'[t].review = Nil
        /\ task'[t].approval = Nil
    BY <2>1 DEF NoTask
  <2>6. QED
    BY <2>2, <2>4, <2>5
<1>10. \A t \in Tasks \ ids : task'[t] = task[t]
  BY <1>2 DEF buildPlannedTasks
<1>11. task' \in [Tasks -> TaskRow]
  <2>1. \A t \in Tasks : task'[t] \in TaskRow
    BY <1>9, <1>10 DEF TypeOK
  <2>2. QED
    BY <1>2, <2>1 DEF buildPlannedTasks
<1>12. Plans(ids, edges)
  BY <1>2, <1>5, <1>6, <1>7, <1>8, <1>9, <1>10, <1>11 DEF Plans
<1>13. \A b \in Aggregates :
         Revision(b)' = IF b \in S THEN Revision(b) + 1 ELSE Revision(b)
  BY <1>5, <1>6, <1>9, <1>10, RunIDAssumption, SMT DEF Revision, Aggregates
<1>14. log' = [b \in Aggregates |->
                 IF b \in S
                 THEN log[b] \cup {[rev |-> Revision(b) + 1, cmd |-> m.id]}
                 ELSE log[b]]
  <2>1. log' = insertEvents(m, [a \in S |-> IF a = RunID THEN run.rev + 1 ELSE 1])
    BY <1>2
  <2>2. \A b \in S : Revision(b) + 1 = IF b = RunID THEN run.rev + 1 ELSE 1
    BY <1>5, SMT DEF Revision
  <2> HIDE DEF S
  <2>3. QED
    BY <2>1, <2>2 DEF insertEvents
<1>15. commands' = recordCommandResult(m, digest, RunID, Revision(RunID) + 1)
  BY <1>2 DEF Revision
<1>16. Wrote(m, digest, RunID, S)
  <2> HIDE DEF digest
  <2>1. QED
    BY <1>4, <1>13, <1>14, <1>15 DEF Wrote, Aggregates
<1>17. QED
  BY <1>12, <1>16

(* CancelRun ends the run and every task that is not terminal.             *)
LEMMA CancelWrote ==
  ASSUME TypeOK, CancelRun
  PROVE  /\ \E m, digest : Wrote(m, digest, RunID, {RunID} \cup Cancellable)
         /\ run.state \notin TerminalRunStates
         /\ run' \in RunRow /\ run'.state = "CANCELLED" /\ run'.spec = run.spec
         /\ run'.graph = run.graph /\ deps' = deps
         /\ task' \in [Tasks -> TaskRow]
         /\ \A t \in Tasks \ Cancellable : task'[t] = task[t]
         /\ \A t \in Cancellable :
              task'[t] = [task[t] EXCEPT !.state = "CANCELLED", !.rev = task[t].rev + 1]
<1>1. PICK m \in CommandEnvelope(run.rev) :
        /\ validateRunCommand(m)
        /\ loadCommandResult(m, <<"CancelRun", m>>) = "new"
        /\ run' = finishRunTransition([run EXCEPT !.state = "CANCELLED"])
        /\ task' = cancelRunTasks
        /\ log' = insertEvents(m, [a \in {RunID} \cup Cancellable |-> Revision(a) + 1])
        /\ commands' = recordCommandResult(m, <<"CancelRun", m>>, RunID, run.rev + 1)
        /\ deps' = deps
  BY DEF CancelRun, cancelRun
<1> DEFINE digest == <<"CancelRun", m>>
           S == {RunID} \cup Cancellable
<1>2. digest[2] = m
  OBVIOUS
<1>3. NewCommand(m, digest, RunID)
  BY <1>1, <1>2, EnvelopeID DEF NewCommand, Revision, validateRunCommand
<1>4. /\ run' \in RunRow /\ run'.state = "CANCELLED" /\ run'.rev = run.rev + 1
      /\ run'.spec = run.spec /\ run'.graph = run.graph
  <2> DEFINE n == run.rev + 1
  <2>1. n \in Nat /\ run \in RunRow
    BY SMT DEF TypeOK, RunRow
  <2>2. run' = [[run EXCEPT !.state = "CANCELLED"] EXCEPT !.rev = n]
    BY <1>1, <2>1 DEF finishRunTransition, RunRow
  <2> HIDE DEF n
  <2>3. /\ run' \in RunRow /\ run'.state = "CANCELLED" /\ run'.rev = n
        /\ run'.spec = run.spec /\ run'.graph = run.graph
    BY <2>1, <2>2 DEF RunRow, RunStates
  <2>4. QED
    BY <2>3 DEF n
<1>5. Cancellable \subseteq Tasks
  BY DEF Cancellable, Planned
<1>6. ASSUME NEW t \in Cancellable
      PROVE  /\ task'[t] = [task[t] EXCEPT !.state = "CANCELLED", !.rev = task[t].rev + 1]
             /\ task'[t] \in TaskRow /\ task'[t].rev = task[t].rev + 1
  <2> DEFINE n == task[t].rev + 1
  <2>1. task[t] \in TaskRow /\ n \in Nat
    BY <1>5, SMT DEF TypeOK, TaskRow
  <2>2. task'[t] = [task[t] EXCEPT !.state = "CANCELLED", !.rev = n]
    BY <1>1, <1>5 DEF cancelRunTasks
  <2> HIDE DEF n
  <2>3. task'[t] \in TaskRow /\ task'[t].rev = n
    BY <2>1, <2>2 DEF TaskRow, TaskStates
  <2>4. QED
    BY <2>2, <2>3 DEF n
<1>7. \A t \in Tasks \ Cancellable : task'[t] = task[t]
  BY <1>1 DEF cancelRunTasks
<1>8. task' \in [Tasks -> TaskRow]
  <2>1. \A t \in Tasks : task'[t] \in TaskRow
    BY <1>6, <1>7 DEF TypeOK
  <2>2. QED
    BY <1>1, <2>1 DEF cancelRunTasks
<1>9. \A b \in Aggregates :
        Revision(b)' = IF b \in S THEN Revision(b) + 1 ELSE Revision(b)
  BY <1>4, <1>5, <1>6, <1>7, RunIDAssumption DEF Revision, Aggregates
<1>10. Wrote(m, digest, RunID, S)
  <2>1. log' = insertEvents(m, [a \in S |-> Revision(a) + 1])
        /\ commands' = recordCommandResult(m, digest, RunID, Revision(RunID) + 1)
    BY <1>1 DEF Revision
  <2> HIDE DEF digest, S
  <2>2. log' = [b \in Aggregates |->
                  IF b \in S
                  THEN log[b] \cup {[rev |-> Revision(b) + 1, cmd |-> m.id]}
                  ELSE log[b]]
    BY <2>1 DEF insertEvents
  <2>3. S \subseteq Aggregates /\ RunID \in S
    BY <1>5 DEF S, Aggregates
  <2>4. QED
    BY <1>3, <1>9, <2>1, <2>2, <2>3 DEF Wrote
<1>11. QED
  BY <1>1, <1>4, <1>6, <1>7, <1>8, <1>10 DEF validateRunCommand

-----------------------------------------------------------------------------
(* The initial state: nothing exists.                                      *)
LEMMA InitIInv == Init => IInv
<1> SUFFICES ASSUME Init PROVE IInv
  OBVIOUS
<1>1. NoRun \in RunRow /\ NoRun.state = "NONE" /\ NoRun.rev = 0
  BY DEF NoRun, RunRow, OptArtifact, OptCommit
<1>2. NoTask \in TaskRow
  BY DEF NoTask, TaskRow, OptBinding, OptCommit
<1>3. NoTask.state = "NONE" /\ NoTask.rev = 0 /\ NoTask.attempt = 0 /\ NoTask.max = 0
  BY DEF NoTask
<1>4. TaskInv(NoTask)
  BY DEF NoTask, TaskInv, Current, Vouches
<1>5. /\ run = NoRun /\ deps = {} /\ DOMAIN commands = {}
      /\ task \in [Tasks -> TaskRow] /\ \A t \in Tasks : task[t] = NoTask
      /\ log \in [Aggregates -> SUBSET EventRow] /\ \A a \in Aggregates : log[a] = {}
  BY <1>2 DEF Init
<1>6. TypeOK
  BY <1>1, <1>3, <1>5, SMT DEF TypeOK
<1>7. RowsInv
  BY <1>3, <1>4, <1>5 DEF RowsInv
<1>8. PlanInv
  BY <1>1, <1>3, <1>5
  DEF PlanInv, RunPhase, Planned, CancelLeavesNoTaskBehind, CancelTaskApplies
<1>9. GraphInv
  BY <1>3, <1>5 DEF GraphInv, DepsPlanned, NoEarlyStart, NoLostWakeUp
<1>10. \A a \in Aggregates : Revision(a) = 0
  BY <1>1, <1>3, <1>5 DEF Revision, Aggregates
<1>11. LogInv
  BY <1>5, <1>10, SMT DEF LogInv, GaplessLog, CommandOnce, AppliedToRevisionRead
<1>12. QED
  BY <1>6, <1>7, <1>8, <1>9, <1>11 DEF IInv

-----------------------------------------------------------------------------
(* Run writes: the tasks stay as they are.                                 *)
LEMMA RunWriteIInv ==
  ASSUME IInv, NEW m, NEW digest, NEW next, RunWrite(m, digest, next)
  PROVE  IInv'
<1>1. /\ Wrote(m, digest, RunID, {RunID}) /\ run' \in RunRow
      /\ run'.state = next.state /\ task' = task /\ deps' = deps
  BY RunWrote DEF IInv
<1>2. TypeOK /\ LogInv
  BY DEF IInv
<1>3. LogInv'
  BY <1>1, <1>2, WroteLog
<1>4. TypeOK'
  BY <1>1, <1>2, WroteType DEF TypeOK
<1>5. RowsInv' /\ GraphInv'
  BY <1>1, SMT
  DEF IInv, RowsInv, TaskInv, Current, Vouches, GraphInv, DepsPlanned, NoEarlyStart,
      NoLostWakeUp
<1>6. Planned' = Planned
  BY <1>1 DEF Planned
<1>7. PlanInv'
  BY <1>1, <1>6
  DEF RunWrite, RunMove, Early, Late, AcceptedGate, IInv, PlanInv, RunPhase,
      CancelLeavesNoTaskBehind, CancelTaskApplies
<1>8. QED
  BY <1>3, <1>4, <1>5, <1>7 DEF IInv

-----------------------------------------------------------------------------
(* Task writes.                                                            *)

(* What a task write does to the rows of the tasks.                        *)
TaskRowsAfter(t, next) ==
  /\ run' = run /\ deps' = deps
  /\ task' \in [Tasks -> TaskRow]
  /\ task'[t].state = next.state
  /\ \A u \in Tasks : /\ task'[u].attempt <= task'[u].max
                      /\ TaskInv(task'[u])
                      /\ task'[u].max = task[u].max
  /\ \A u \in Ready(t, next) : u # t /\ task'[u].state = "READY"
  /\ \A u \in Tasks \ {t} : u \notin Ready(t, next) => task'[u] = task[u]

(* Every task write does that.                                             *)
LEMMA TaskStatesAfter ==
  ASSUME IInv, NEW t \in Tasks, NEW m, NEW digest, NEW next,
         TaskWrite(m, digest, t, next)
  PROVE  Wrote(m, digest, t, {t} \cup Ready(t, next)) /\ TaskRowsAfter(t, next)
<1>1. t \notin Ready(t, next)
  BY DEF TaskWrite, Moves, Ready, makeDependentsReady, IInv, GraphInv, DepsPlanned
<1>2. TypeOK /\ \A u \in Tasks : TaskInv(task[u])
  BY DEF IInv, RowsInv
<1>3. /\ Wrote(m, digest, t, {t} \cup Ready(t, next))
      /\ run' = run /\ deps' = deps
      /\ task' \in [Tasks -> TaskRow]
      /\ task'[t] = [next EXCEPT !.rev = next.rev + 1]
      /\ \A u \in Tasks \ {t} :
           task'[u] = IF u \in Ready(t, next)
                      THEN [task[u] EXCEPT !.state = "READY", !.rev = task[u].rev + 1]
                      ELSE task[u]
  BY <1>1, <1>2, TaskWrote
<1>4. /\ next \in TaskRow /\ next.attempt <= next.max /\ TaskInv(next)
      /\ next.max = task[t].max
  BY DEF TaskWrite, Moves
<1>5. /\ task'[t].state = next.state /\ task'[t].attempt <= task'[t].max
      /\ TaskInv(task'[t]) /\ task'[t].max = task[t].max
  <2> DEFINE n == next.rev + 1
  <2>1. task'[t] = [next EXCEPT !.rev = n]
    BY <1>3
  <2> HIDE DEF n
  <2>2. /\ task'[t].state = next.state /\ task'[t].max = next.max
        /\ task'[t].attempt = next.attempt /\ task'[t].lease = next.lease
        /\ task'[t].proposal = next.proposal /\ task'[t].exec = next.exec
        /\ task'[t].cand = next.cand /\ task'[t].verif = next.verif
        /\ task'[t].review = next.review /\ task'[t].approval = next.approval
    BY <1>4, <2>1 DEF TaskRow
  <2>3. QED
    BY <1>4, <2>2, ZenonT(30) DEF TaskInv, Current, Vouches
<1>6. ASSUME NEW u \in Ready(t, next)
      PROVE  /\ u \in Tasks /\ u # t /\ task'[u].state = "READY"
             /\ task'[u].attempt <= task'[u].max /\ TaskInv(task'[u])
             /\ task'[u].max = task[u].max
  <2> DEFINE n == task[u].rev + 1
  <2>1. u \in Tasks /\ u # t /\ task[u].state = "PENDING"
    BY <1>1 DEF Ready, makeDependentsReady
  <2>2. task'[u] = [task[u] EXCEPT !.state = "READY", !.rev = n]
    BY <1>3, <2>1
  <2>3. task[u] \in TaskRow /\ task[u].attempt <= task[u].max /\ TaskInv(task[u])
    BY <1>2, <2>1 DEF TypeOK
  <2> HIDE DEF n
  <2>4. /\ task'[u].state = "READY" /\ task'[u].max = task[u].max
        /\ task'[u].attempt = task[u].attempt /\ task'[u].lease = task[u].lease
        /\ task'[u].proposal = task[u].proposal /\ task'[u].exec = task[u].exec
        /\ task'[u].cand = task[u].cand /\ task'[u].verif = task[u].verif
        /\ task'[u].review = task[u].review /\ task'[u].approval = task[u].approval
    BY <2>2, <2>3 DEF TaskRow
  <2>5. QED
    BY <2>1, <2>3, <2>4 DEF TaskInv, Current, Vouches
<1>7. \A u \in Tasks \ {t} : u \notin Ready(t, next) =>
        task'[u] = task[u] /\ task[u].attempt <= task[u].max /\ TaskInv(task[u])
  BY <1>2, <1>3 DEF TypeOK
<1>8. QED
  BY <1>3, <1>5, <1>6, <1>7 DEF TaskRowsAfter

(* The invariant after a task write.                                       *)
LEMMA TaskWriteIInv ==
  ASSUME IInv, NEW t \in Tasks, NEW m, NEW digest, NEW next,
         TaskWrite(m, digest, t, next)
  PROVE  IInv'
<1> DEFINE R == Ready(t, next)
<1>1. /\ Wrote(m, digest, t, {t} \cup R)
      /\ run' = run /\ deps' = deps
      /\ task' \in [Tasks -> TaskRow]
      /\ task'[t].state = next.state
      /\ \A u \in Tasks : task'[u].attempt <= task'[u].max /\ TaskInv(task'[u])
      /\ \A u \in R : u # t /\ task'[u].state = "READY"
      /\ \A u \in Tasks \ {t} : u \notin R => task'[u] = task[u]
  <2>1. Wrote(m, digest, t, {t} \cup Ready(t, next)) /\ TaskRowsAfter(t, next)
    BY TaskStatesAfter
  <2>2. QED
    BY <2>1 DEF TaskRowsAfter
<1>2. /\ TypeOK /\ LogInv /\ run.state = "EXECUTING"
      /\ task[t].state \in TaskStates \ TerminalTaskStates
      /\ next.state \in TaskStates \ {"PENDING", "CANCELLED"}
      /\ task[t].state = "PENDING" => next.state = "FAILED"
  BY DEF IInv, TaskWrite, Moves
<1>3. \A u \in R : /\ u \in Tasks /\ <<u, t>> \in deps /\ task[u].state = "PENDING"
                   /\ next.state = "ACCEPTED"
                   /\ \A p \in Tasks : <<u, p>> \in deps =>
                        p = t \/ task[p].state = "ACCEPTED"
  BY DEF Ready, makeDependentsReady
<1>4. next.state = "ACCEPTED" =>
        \A u \in Tasks \ R : <<u, t>> \in deps /\ task[u].state = "PENDING" =>
          \E p \in Tasks : <<u, p>> \in deps /\ p # t /\ task[p].state # "ACCEPTED"
  BY DEF Ready, makeDependentsReady
<1> HIDE DEF R
<1>5. LogInv'
  BY <1>1, <1>2, WroteLog
<1>6. TypeOK'
  BY <1>1, <1>2, WroteType DEF TypeOK
<1>7. \A u \in Tasks : /\ task'[u].state = "NONE" <=> task[u].state = "NONE"
                       /\ task[u].state = "ACCEPTED" => task'[u] = task[u] /\ u # t
  BY ZenonT(30), <1>1, <1>2, <1>3 DEF TaskStates, TerminalTaskStates
<1>8. RowsInv'
  <2>1. \A u \in Tasks : task'[u].state = "NONE" => task'[u] = task[u]
    BY <1>1, <1>2, <1>3 DEF TaskStates
  <2>2. ASSUME NEW u \in Tasks PROVE TaskInv(task[u])'
    <3>1. TaskInv(task'[u])
      BY <1>1
    <3>2. QED
      BY <3>1 DEF TaskInv, Current, Vouches
  <2>3. \A u \in Tasks : task'[u].state = "NONE" => task'[u].rev = 0
    BY <1>7, <2>1 DEF IInv, RowsInv
  <2>4. QED
    BY <2>2, <2>3 DEF RowsInv
<1>9. PlanInv'
  <2>1. run'.state = "EXECUTING"
    BY <1>1, <1>2
  <2>2. QED
    BY <2>1 DEF PlanInv, RunPhase, CancelLeavesNoTaskBehind, CancelTaskApplies
<1>10. DepsPlanned'
  BY <1>1, <1>7 DEF IInv, GraphInv, DepsPlanned
<1>11. NoEarlyStart'
  <2> SUFFICES ASSUME NEW d \in Tasks, NEW p \in Tasks, <<d, p>> \in deps,
                      task'[d].state \notin {"PENDING", "FAILED", "CANCELLED"}
               PROVE  task'[p].state = "ACCEPTED"
    BY <1>1 DEF NoEarlyStart
  <2>1. d # p
    BY DEF IInv, GraphInv, DepsPlanned
  <2>2. CASE d \in R
    BY <1>1, <1>3, <1>7, <2>2
  <2>3. CASE d \notin R
    <3>1. task[d].state \notin {"PENDING", "FAILED", "CANCELLED"}
      BY <1>1, <1>2, <2>3 DEF TerminalTaskStates
    <3>2. task[p].state = "ACCEPTED"
      BY <3>1 DEF IInv, GraphInv, NoEarlyStart
    <3>3. QED
      BY <1>7, <3>2
  <2>4. QED
    BY <2>2, <2>3
<1>12. NoLostWakeUp'
  <2> SUFFICES ASSUME NEW d \in Tasks, task'[d].state = "PENDING"
               PROVE  \E p \in Tasks : <<d, p>> \in deps /\ task'[p].state # "ACCEPTED"
    BY <1>1 DEF NoLostWakeUp
  <2>1. d # t /\ d \notin R /\ task[d].state = "PENDING"
    BY <1>1, <1>2
  <2>2. \A p \in Tasks : p # t /\ task[p].state # "ACCEPTED" =>
          task'[p].state # "ACCEPTED"
    BY <1>1
  <2>3. PICK q \in Tasks : <<d, q>> \in deps /\ task[q].state # "ACCEPTED"
    BY <2>1 DEF IInv, GraphInv, NoLostWakeUp
  <2>4. CASE q # t
    BY <2>2, <2>3, <2>4
  <2>5. CASE q = t /\ next.state # "ACCEPTED"
    BY <1>1, <2>3, <2>5
  <2>6. CASE q = t /\ next.state = "ACCEPTED"
    BY <1>4, <2>1, <2>2, <2>3, <2>6
  <2>7. QED
    BY <2>4, <2>5, <2>6
<1>13. QED
  BY <1>5, <1>6, <1>8, <1>9, <1>10, <1>11, <1>12 DEF IInv, GraphInv

-----------------------------------------------------------------------------
(* Plan approval.                                                          *)
LEMMA PlansIInv ==
  ASSUME IInv, NEW m, NEW digest, NEW ids, NEW edges,
         Wrote(m, digest, RunID, {RunID} \cup ids), Plans(ids, edges)
  PROVE  IInv'
<1>1. TypeOK /\ LogInv /\ RowsInv
  BY DEF IInv
<1>2. \A t \in Tasks : task[t].state = "NONE"
  BY DEF IInv, PlanInv, RunPhase, Planned, Plans
<1>3. /\ ids # {} /\ ids \subseteq Tasks /\ edges \subseteq Tasks \X Tasks
      /\ run' \in RunRow /\ run'.state = "READY" /\ deps' = edges
      /\ task' \in [Tasks -> TaskRow]
  BY DEF Plans
<1>4. \A t \in ids : /\ task'[t].state = IF \E p \in Tasks : <<t, p>> \in edges
                                         THEN "PENDING" ELSE "READY"
                     /\ task'[t].attempt = 0 /\ TaskInv(task'[t])
  BY DEF Plans, TaskInv, Current, Vouches
<1>5. \A t \in Tasks \ ids : task'[t] = task[t]
  BY DEF Plans
<1>6. \A d, p \in Tasks : <<d, p>> \in edges => d \in ids /\ p \in ids /\ d # p
  BY DEF Plans
<1>7. LogInv'
  BY <1>1, WroteLog
<1>8. TypeOK'
  <2>1. \A t \in Tasks : task'[t].attempt <= task'[t].max
    BY <1>1, <1>3, <1>4, <1>5, SMT DEF TypeOK, TaskRow
  <2>2. QED
    BY <1>1, <1>3, <2>1, WroteType DEF TypeOK
<1>9. RowsInv'
  <2>1. \A t \in Tasks : /\ TaskInv(task'[t])
                         /\ task'[t].state = "NONE" => task'[t].rev = 0
    BY <1>1, <1>4, <1>5 DEF RowsInv
  <2>2. QED
    BY <2>1 DEF RowsInv, TaskInv, Current, Vouches
<1>10. PlanInv'
  BY <1>3 DEF PlanInv, RunPhase, CancelLeavesNoTaskBehind, CancelTaskApplies
<1>11. DepsPlanned'
  BY <1>3, <1>4, <1>6 DEF DepsPlanned
<1>12. NoEarlyStart'
  BY <1>3, <1>4, <1>6 DEF NoEarlyStart
<1>13. NoLostWakeUp'
  <2> SUFFICES ASSUME NEW d \in Tasks, task'[d].state = "PENDING"
               PROVE  \E p \in Tasks : <<d, p>> \in edges /\ task'[p].state # "ACCEPTED"
    BY <1>3 DEF NoLostWakeUp
  <2>1. d \in ids
    BY <1>2, <1>5
  <2>2. PICK p \in Tasks : <<d, p>> \in edges
    BY <1>4, <2>1
  <2>3. task'[p].state # "ACCEPTED"
    BY <1>4, <1>6, <2>2
  <2>4. QED
    BY <2>2, <2>3
<1>14. QED
  BY <1>7, <1>8, <1>9, <1>10, <1>11, <1>12, <1>13 DEF IInv, GraphInv

-----------------------------------------------------------------------------
(* Cancellation.                                                           *)
LEMMA CancelIInv ==
  ASSUME IInv, CancelRun
  PROVE  IInv'
<1>1. TypeOK /\ LogInv /\ RowsInv
  BY DEF IInv
<1>2. PICK m, digest : Wrote(m, digest, RunID, {RunID} \cup Cancellable)
  BY <1>1, CancelWrote
<1>3. /\ run' \in RunRow /\ run'.state = "CANCELLED" /\ deps' = deps
      /\ task' \in [Tasks -> TaskRow]
      /\ \A t \in Tasks \ Cancellable : task'[t] = task[t]
      /\ \A t \in Cancellable :
           task'[t] = [task[t] EXCEPT !.state = "CANCELLED", !.rev = task[t].rev + 1]
  BY <1>1, CancelWrote
<1>4. /\ Cancellable \subseteq Tasks
      /\ \A t \in Cancellable : task[t].state \in TaskStates \ TerminalTaskStates
      /\ \A t \in Tasks \ Cancellable : task[t].state \notin TaskStates \ TerminalTaskStates
  <2>1. \A t \in Tasks : task[t].state \in TaskStates \cup {"NONE"}
    BY <1>1 DEF TypeOK, TaskRow
  <2>2. QED
    BY <2>1 DEF Cancellable, Planned, TaskStates
<1>5. ASSUME NEW t \in Cancellable
      PROVE  /\ task'[t].state = "CANCELLED" /\ TaskInv(task'[t])
             /\ task'[t].attempt <= task'[t].max
  <2> DEFINE n == task[t].rev + 1
  <2>1. task'[t] = [task[t] EXCEPT !.state = "CANCELLED", !.rev = n]
    BY <1>3
  <2>2. task[t] \in TaskRow /\ task[t].attempt <= task[t].max /\ TaskInv(task[t])
    BY <1>1, <1>4 DEF TypeOK, RowsInv
  <2> HIDE DEF n
  <2>3. /\ task'[t].state = "CANCELLED" /\ task'[t].max = task[t].max
        /\ task'[t].attempt = task[t].attempt /\ task'[t].lease = task[t].lease
        /\ task'[t].proposal = task[t].proposal /\ task'[t].exec = task[t].exec
        /\ task'[t].cand = task[t].cand /\ task'[t].verif = task[t].verif
        /\ task'[t].review = task[t].review /\ task'[t].approval = task[t].approval
    BY <2>1, <2>2 DEF TaskRow
  <2>4. QED
    BY <2>2, <2>3 DEF TaskInv, Current, Vouches
<1>6. LogInv'
  BY <1>1, <1>2, WroteLog
<1>7. TypeOK'
  <2>1. \A t \in Tasks : task'[t].attempt <= task'[t].max
    BY <1>1, <1>3, <1>5 DEF TypeOK
  <2>2. QED
    BY <1>1, <1>2, <1>3, <2>1, WroteType DEF TypeOK
<1>8. RowsInv'
  <2>1. \A t \in Tasks : /\ TaskInv(task'[t])
                         /\ task'[t].state = "NONE" => task'[t].rev = 0
    BY <1>1, <1>3, <1>5 DEF RowsInv
  <2>2. QED
    BY <2>1 DEF RowsInv, TaskInv, Current, Vouches
<1>9. PlanInv'
  <2>1. \A t \in Tasks : task'[t].state \notin TaskStates \ TerminalTaskStates
    BY <1>3, <1>4, <1>5 DEF TerminalTaskStates
  <2>2. QED
    BY <1>3, <2>1 DEF PlanInv, RunPhase, CancelLeavesNoTaskBehind, CancelTaskApplies
<1>10. \A t \in Tasks : /\ task[t].state = "NONE" <=> task'[t].state = "NONE"
                        /\ task[t].state = "ACCEPTED" => task'[t].state = "ACCEPTED"
                        /\ task'[t].state # "PENDING"
  BY <1>3, <1>4, <1>5 DEF TaskStates, TerminalTaskStates
<1>11. DepsPlanned' /\ NoLostWakeUp'
  BY <1>3, <1>10 DEF IInv, GraphInv, DepsPlanned, NoLostWakeUp
<1>12. NoEarlyStart'
  <2> SUFFICES ASSUME NEW d \in Tasks, NEW p \in Tasks, <<d, p>> \in deps,
                      task'[d].state \notin {"PENDING", "FAILED", "CANCELLED"}
               PROVE  task'[p].state = "ACCEPTED"
    BY <1>3 DEF NoEarlyStart
  <2>1. task'[d] = task[d]
    BY <1>3, <1>5
  <2>2. task[p].state = "ACCEPTED"
    BY <2>1 DEF IInv, GraphInv, NoEarlyStart
  <2>3. QED
    BY <1>10, <2>2
<1>13. QED
  BY <1>6, <1>7, <1>8, <1>9, <1>11, <1>12 DEF IInv, GraphInv

-----------------------------------------------------------------------------
(* Every step is in one of the four classes or changes nothing.            *)
LEMMA Classes ==
  ASSUME IInv, [Next]_vars
  PROVE  \/ \E m, digest, next : RunWrite(m, digest, next)
         \/ \E t \in Tasks : \E m, digest, next : TaskWrite(m, digest, t, next)
         \/ \E m, digest, ids, edges :
              Wrote(m, digest, RunID, {RunID} \cup ids) /\ Plans(ids, edges)
         \/ CancelRun
         \/ UNCHANGED vars
<1>1. TypeOK /\ RowsInv /\ PlanInv
  BY DEF IInv
<1>2. CASE RunNext
  BY <1>1, <1>2, PlanningWrites, CompletionWrites, PlanWrote DEF RunNext
<1>3. CASE \E t \in Tasks : TaskNext(t)
  BY <1>1, <1>3, TaskWrites DEF RowsInv
<1>4. QED
  BY <1>2, <1>3 DEF Next

(* The invariant is inductive.                                             *)
LEMMA Inductive == IInv /\ [Next]_vars => IInv'
<1> SUFFICES ASSUME IInv, [Next]_vars PROVE IInv'
  OBVIOUS
<1>1. CASE \E m, digest, next : RunWrite(m, digest, next)
  BY <1>1, RunWriteIInv
<1>2. CASE \E t \in Tasks : \E m, digest, next : TaskWrite(m, digest, t, next)
  BY <1>2, TaskWriteIInv
<1>3. CASE \E m, digest, ids, edges :
             Wrote(m, digest, RunID, {RunID} \cup ids) /\ Plans(ids, edges)
  BY <1>3, PlansIInv
<1>4. CASE CancelRun
  BY <1>4, CancelIInv
<1>5. CASE UNCHANGED vars
  <2>1. TypeOK'
    BY <1>5 DEF IInv, TypeOK, vars
  <2>2. RowsInv'
    BY <1>5, ZenonT(30) DEF IInv, RowsInv, TaskInv, Current, Vouches, vars
  <2>3. PlanInv'
    BY <1>5 DEF IInv, PlanInv, RunPhase, Planned, CancelLeavesNoTaskBehind,
                CancelTaskApplies, vars
  <2>4. GraphInv'
    BY <1>5 DEF IInv, GraphInv, DepsPlanned, NoEarlyStart, NoLostWakeUp, vars
  <2>5. LogInv'
    BY <1>5, SMT DEF IInv, LogInv, GaplessLog, CommandOnce, AppliedToRevisionRead,
                Revision, vars
  <2>6. QED
    BY <2>1, <2>2, <2>3, <2>4, <2>5 DEF IInv
<1>6. QED
  BY <1>1, <1>2, <1>3, <1>4, <1>5, Classes

(* The invariant holds in every reachable state of the store.              *)
LEMMA Invariance == Spec => []IInv
BY InitIInv, Inductive, PTL DEF Spec

-----------------------------------------------------------------------------
(* With any number of tasks and commands rows keep their types, no task    *)
(* uses more attempts than its budget, every revision has its one event    *)
(* (insertEvent), and a command ID takes effect at most once, on the       *)
(* revision its author read (loadCommandResult, validateCommand).          *)
THEOREM LedgerIsExact == Spec => []LedgerExact
<1>1. IInv => LedgerExact
  BY DEF IInv, LogInv, LedgerExact
<1>2. QED
  BY <1>1, Invariance, PTL

(* No evidence survives into a later attempt, a task is accepted only on   *)
(* passing evidence about its candidate commit, and the fencing token of a *)
(* lease numbers the attempt (Task.retry, Task.recordVerification,         *)
(* Task.recordReview, Task.approve, Task.lease).                           *)
THEOREM EvidenceIsBound == Spec => []EvidenceBound
<1>1. IInv => EvidenceOfThisAttempt /\ AcceptedOnEvidence
  BY ZenonT(30) DEF IInv, RowsInv, TaskInv, Current, Vouches, EvidenceOfThisAttempt,
         AcceptedOnEvidence
<1>2. IInv => FenceNamesAttempt
  BY DEF IInv, RowsInv, TaskInv, Current, Vouches, FenceNamesAttempt
<1>3. IInv => EvidenceBound
  BY <1>1, <1>2 DEF EvidenceBound
<1>4. QED
  BY <1>3, Invariance, PTL

(* In any task graph a task starts only after all its prerequisites were   *)
(* accepted, and is not left PENDING after the last of them was            *)
(* (makeDependentsReady).                                                  *)
THEOREM DependenciesAreHonoured == Spec => []DependenciesHonoured
<1>1. IInv => DependenciesHonoured
  BY DEF IInv, GraphInv, DependenciesHonoured
<1>2. QED
  BY <1>1, Invariance, PTL

(* The run's state and its tasks agree (validateRunTaskGate), and a        *)
(* cancellation leaves no live task (cancelRunTasks).                      *)
THEOREM RunsAndTasksAgree == Spec => []RunAndTasksAgree
<1>1. IInv => RunAndTasksAgree
  BY DEF IInv, PlanInv, RunAndTasksAgree
<1>2. QED
  BY <1>1, Invariance, PTL

(* A terminal run is frozen: no command changes it, a task of it, its      *)
(* dependencies or a log (the guards of every transition).                 *)
LEMMA TerminalRunsFrozen == Spec => TerminalFrozen
<1>1. ASSUME IInv, [Next]_vars
      PROVE  [run.state \in TerminalRunStates => UNCHANGED <<run, task, deps, log>>]_vars
  <2>1. CASE \E m, digest, next : RunWrite(m, digest, next)
    BY <2>1 DEF RunWrite, RunMove
  <2>2. CASE \E t \in Tasks : \E m, digest, next : TaskWrite(m, digest, t, next)
    BY <2>2 DEF TaskWrite, TerminalRunStates
  <2>3. CASE \E m, digest, ids, edges :
               Wrote(m, digest, RunID, {RunID} \cup ids) /\ Plans(ids, edges)
    BY <2>3 DEF Plans, TerminalRunStates
  <2>4. CASE CancelRun
    BY <1>1, <2>4, CancelWrote DEF IInv
  <2>5. CASE UNCHANGED vars
    BY <2>5
  <2>6. QED
    BY <1>1, <2>1, <2>2, <2>3, <2>4, <2>5, Classes
<1>2. QED
  BY <1>1, Invariance, PTL DEF Spec, TerminalFrozen

(* What a step may change of what was approved.                            *)
Kept ==
  /\ run.state \notin {"NONE", "DRAFT", "SPECIFICATION_REVIEW"} =>
       run'.spec = run.spec
  /\ Planned # {} =>
       /\ run'.graph = run.graph
       /\ deps' = deps
       /\ \A t \in Tasks :
            task'[t].max = task[t].max
            /\ (task[t].state = "ACCEPTED" => task'[t] = task[t])

(* No command changes an approved specification, an approved graph or an   *)
(* accepted task (Run.proposeSpecification, Run.approveTaskGraph,          *)
(* Task.validateTransition).                                               *)
LEMMA ApprovalsFinal == Spec => ApprovalsAreFinal
<1>1. ASSUME IInv, [Next]_vars
      PROVE  [Kept]_vars
  <2>0. TypeOK /\ RunPhase
    BY <1>1 DEF IInv, PlanInv
  <2>1. ASSUME NEW m, NEW digest, NEW next, RunWrite(m, digest, next)
        PROVE  Kept
    <3>1. /\ run'.spec = next.spec /\ run'.graph = next.graph
          /\ task' = task /\ deps' = deps
      BY <2>0, <2>1, RunWrote
    <3>2. Planned # {} => run.state \notin Early
      BY <2>0 DEF RunPhase, Early
    <3>3. QED
      BY <2>1, <3>1, <3>2 DEF RunWrite, RunMove, Kept
  <2>2. ASSUME NEW t \in Tasks, NEW m, NEW digest, NEW next,
               TaskWrite(m, digest, t, next)
        PROVE  Kept
    <3>1. TaskRowsAfter(t, next)
      BY <1>1, <2>2, TaskStatesAfter
    <3>2. task[t].state # "ACCEPTED" /\ \A u \in Ready(t, next) : task[u].state = "PENDING"
      BY <2>2 DEF TaskWrite, TerminalTaskStates, Ready, makeDependentsReady
    <3>3. QED
      BY <3>1, <3>2 DEF TaskRowsAfter, Kept
  <2>3. ASSUME NEW ids, NEW edges, Plans(ids, edges)
        PROVE  Kept
    BY <2>0, <2>3 DEF Plans, RunPhase, Kept
  <2>4. CASE CancelRun
    <3>1. /\ run'.spec = run.spec /\ run'.graph = run.graph /\ deps' = deps
          /\ \A t \in Tasks \ Cancellable : task'[t] = task[t]
          /\ \A t \in Cancellable :
               task'[t] = [task[t] EXCEPT !.state = "CANCELLED", !.rev = task[t].rev + 1]
      BY <2>0, <2>4, CancelWrote
    <3>2. \A t \in Cancellable : t \in Tasks /\ task[t].state # "ACCEPTED"
      BY DEF Cancellable, Planned, TerminalTaskStates
    <3>3. ASSUME NEW t \in Cancellable PROVE task'[t].max = task[t].max
      <4> DEFINE n == task[t].rev + 1
      <4>1. task'[t] = [task[t] EXCEPT !.state = "CANCELLED", !.rev = n]
        BY <3>1
      <4>2. task[t] \in TaskRow
        BY <2>0, <3>2 DEF TypeOK
      <4> HIDE DEF n
      <4>3. QED
        BY <4>1, <4>2 DEF TaskRow
    <3>4. QED
      BY <3>1, <3>2, <3>3 DEF Kept
  <2>5. QED
    BY <1>1, <2>1, <2>2, <2>3, <2>4, Classes
<1>2. QED
  BY <1>1, Invariance, PTL DEF Spec, ApprovalsAreFinal, Kept

(* No sequence of commands changes a terminal run with its tasks and logs, *)
(* an approved specification, an approved graph or an accepted task.       *)
THEOREM SettledStaysFinal == Spec => SettledIsFinal
BY TerminalRunsFrozen, ApprovalsFinal, PTL DEF SettledIsFinal

-----------------------------------------------------------------------------
(* Publication: the inductive invariant.                                   *)

(* What a caller remembers fits the ledger, the pull requests and the run: *)
(* a number in hand is one of a pull request with the marker of its key, a *)
(* caller that records has its number in the row, and one that completes   *)
(* has it in the run.                                                      *)

Pull ==
  [state : {"open", "closed"}, draft : BOOLEAN, marker : Keys,
   head : {Nil, Candidate, Foreign}, base : {Base, Foreign}]

Remote ==
  [base : {Base, Foreign}, branch : {Nil, Candidate, Foreign},
   pulls : Seq(Pull)]

Marked == {"pr_ready", "completed"}

Pcs ==
  {"idle", "insert", "load", "base", "inspect", "push", "reinspect",
   "rollback", "saveBranch", "recheck", "find", "create", "recover",
   "recoverAgain", "savePull", "record", "complete", "answer"}

Fits(m) ==
  /\ DOMAIN m = {"pc", "key", "rev", "pull"}
  /\ m.pc \in Pcs
  /\ m.pc # "idle" => m.key \in Keys /\ artifactsMatch(Evidence, bodies)
  /\ m.pc = "savePull" =>
       /\ m.pull \in DOMAIN remote.pulls
       /\ remote.pulls[m.pull].marker = m.key
  /\ m.pc \in {"record", "complete"} =>
       ledger[m.key].state \in Marked /\ ledger[m.key].pull = m.pull
  /\ m.pc = "complete" =>
       run.pub # Nil /\ run.pub = <<"draft", m.key, m.pull>>
  /\ m.pc = "answer" =>
       /\ ledger[m.key].state = "completed"
       /\ ledger[m.key].artifact = <<"draft", m.key, m.pull>>

CallersFit == DOMAIN caller = Callers /\ \A w \in Callers : Fits(caller[w])

RowFits(k) ==
  /\ DOMAIN ledger[k] = {"state", "rev", "pull", "artifact"}
  /\ ledger[k].state \in
       {"NONE", "reserved", "branch_ready", "pr_ready", "completed"}
  /\ ledger[k].state \in Marked =>
       /\ ledger[k].pull \in DOMAIN remote.pulls
       /\ remote.pulls[ledger[k].pull].marker = k
  /\ ledger[k].state \notin Marked => ledger[k].pull = Nil
  /\ ledger[k].state = "completed" =>
       /\ run.pub # Nil /\ run.pub = <<"draft", k, ledger[k].pull>>
       /\ ledger[k].artifact = run.pub
  /\ ledger[k].state # "completed" => ledger[k].artifact = Nil

LedgerFits == DOMAIN ledger = Keys /\ \A k \in Keys : RowFits(k)

(* The run has at most one publication, and commands knows no other.       *)
RunFits ==
  /\ {"pub", "approval", "rev"} \subseteq DOMAIN run
  /\ run.approval = Evidence.approval
  /\ CheckpointBeforeMutation
  /\ run.pub = Nil => DOMAIN commands = {}
  /\ \A i \in DOMAIN commands : commands[i].digest[5] = run.pub

(* The pull request of the run was closed.                                 *)
PubClosed ==
  /\ run.pub # Nil
  /\ remote.pulls[run.pub[3]].state = "closed"

OneOpen ==
  \A i, j \in DOMAIN remote.pulls :
    remote.pulls[i].state = "open" /\ remote.pulls[j].state = "open" => i = j

NoneOpen == \A i \in DOMAIN remote.pulls : remote.pulls[i].state # "open"

(* Each pull request after the first takes the place of one that others    *)
(* closed, or that was cleaned up, of which there is only one.             *)
Closures == others + (IF PubClosed THEN 1 ELSE 0)

PullsBounded ==
  /\ OneOpen
  /\ Len(remote.pulls) <= 1 + Closures
  /\ NoneOpen => Len(remote.pulls) <= Closures

RemoteFits ==
  /\ remote \in Remote
  /\ remote.branch = Candidate => artifactsMatch(Evidence, bodies)
  /\ others \in 0..MaxOthers
  /\ PullsBounded

CleanerFits ==
  /\ DOMAIN cleaner = {"pc", "key"}
  /\ cleaner.pc # "idle" =>
       cleaner.key \in Keys /\ ledger[cleaner.key].state = "completed"

PubInv == CallersFit /\ LedgerFits /\ RunFits /\ RemoteFits /\ CleanerFits

(* An empty ledger beside a run that was approved satisfies it.            *)
LEMMA InitPubInv == PubInit => PubInv
<1> SUFFICES ASSUME PubInit PROVE PubInv
  OBVIOUS
<1>1. CallersFit
  BY DEF PubInit, CallersFit, Fits, Idle, Pcs
<1>2. LedgerFits
  BY DEF PubInit, LedgerFits, RowFits, NoRow, Marked
<1>3. RunFits
  <2>1. {"pub", "approval", "rev"} \subseteq DOMAIN run
    BY DEF PubInit, NoRun
  <2>2. run.approval = Evidence.approval /\ run.pub = Nil
    BY DEF PubInit, NoRun
  <2>3. DOMAIN commands = {}
    BY DEF PubInit
  <2>4. QED
    BY <2>1, <2>2, <2>3 DEF RunFits, CheckpointBeforeMutation
<1>4. RemoteFits
  <2>1. remote = [base |-> Base, branch |-> Nil, pulls |-> <<>>]
    BY DEF PubInit
  <2>2. remote \in Remote /\ remote.branch = Nil /\ remote.pulls = <<>>
    BY <2>1, SMT DEF Remote
  <2>3. Len(remote.pulls) = 0 /\ DOMAIN remote.pulls = {}
    BY <2>2, SMT
  <2>4. others = 0 /\ ~PubClosed
    BY DEF PubInit, NoRun, PubClosed
  <2>5. QED
    BY <2>2, <2>3, <2>4, PublicationAssumption, SMT
    DEF RemoteFits, PullsBounded, OneOpen, Closures
<1>5. CleanerFits
  BY DEF PubInit, CleanerFits
<1>6. QED
  BY <1>1, <1>2, <1>3, <1>4, <1>5 DEF PubInv

-----------------------------------------------------------------------------
(* What no step undoes: numbers in rows, completed rows, markers, and the  *)
(* publication of the run.                                                 *)

Grows ==
  /\ bodies' = bodies
  /\ \A k \in Keys :
       /\ ledger[k].state \in Marked =>
            ledger'[k].state \in Marked /\ ledger'[k].pull = ledger[k].pull
       /\ ledger[k].state = "completed" => ledger'[k] = ledger[k]
  /\ \A i \in DOMAIN remote.pulls :
       /\ i \in DOMAIN remote'.pulls
       /\ remote'.pulls[i].marker = remote.pulls[i].marker
  /\ run.pub # Nil => run'.pub = run.pub

(* A memory goes on to fit, and so does a row that is not written.         *)
LEMMA FitsGrows ==
  ASSUME NEW m, Fits(m), Grows PROVE Fits(m)'
BY DEF Fits, Grows

LEMMA RowGrows ==
  ASSUME NEW k \in Keys, RowFits(k), ledger'[k] = ledger[k], Grows
  PROVE  RowFits(k)'
BY SMT DEF RowFits, Grows, Marked

(* The step of one caller to the memory m.                                 *)
CallerMoves(w, m) == caller' = [caller EXCEPT ![w] = m]

(* The memories of all callers after it.                                   *)
LEMMA MovesFit ==
  ASSUME PubInv, NEW w \in Callers, NEW m, CallerMoves(w, m), Fits(m)', Grows
  PROVE  CallersFit'
<1>1. /\ caller'[w] = m /\ DOMAIN caller' = Callers
      /\ \A v \in Callers : v # w => caller'[v] = caller[v]
  BY DEF PubInv, CallersFit, CallerMoves
<1>2. ASSUME NEW v \in Callers PROVE Fits(caller[v])'
  <2>1. PICK n : n = caller'[v]
    OBVIOUS
  <2>2. CASE v = w
    BY <1>1, <2>1, <2>2
  <2>3. CASE v # w
    <3>1. n = caller[v]
      BY <1>1, <2>1, <2>3
    <3>2. Fits(n)
      BY <3>1 DEF PubInv, CallersFit
    <3>3. Fits(n)'
      BY <3>2, FitsGrows
    <3>4. QED
      BY <2>1, <3>3
  <2>4. QED
    BY <2>2, <2>3
<1>3. QED
  BY <1>1, <1>2 DEF CallersFit

(* A step that only a caller notices.                                      *)
Unseen == UNCHANGED <<run, commands, ledger, remote, cleaner, bodies, others>>

LEMMA UnseenGrows == ASSUME Unseen PROVE Grows
BY DEF Unseen, Grows

(* What is about neither callers nor rows.                                 *)
LEMMA UnseenRest ==
  ASSUME PubInv, Unseen
  PROVE  LedgerFits' /\ RunFits' /\ RemoteFits' /\ CleanerFits'
<1>1. LedgerFits'
  BY DEF PubInv, Unseen, LedgerFits, RowFits
<1>2. RunFits'
  BY DEF PubInv, Unseen, RunFits, CheckpointBeforeMutation
<1>3. RemoteFits'
  BY DEF PubInv, Unseen, RemoteFits, PullsBounded, OneOpen, NoneOpen, Closures,
         PubClosed
<1>4. CleanerFits'
  BY DEF PubInv, Unseen, CleanerFits
<1>5. QED
  BY <1>1, <1>2, <1>3, <1>4

LEMMA LocalPubInv ==
  ASSUME PubInv, NEW w \in Callers, NEW m, CallerMoves(w, m), Fits(m), Unseen
  PROVE  PubInv'
<1>1. Fits(m)' /\ Grows
  BY UnseenGrows, FitsGrows
<1>2. QED
  BY <1>1, MovesFit, UnseenRest DEF PubInv

(* A caller returns.                                                       *)
LEMMA IdleFits == Fits(Idle) /\ Fits(Idle)'
BY DEF Fits, Idle, Pcs

LEMMA StopPubInv ==
  ASSUME PubInv, NEW w \in Callers, stop(w), Unseen PROVE PubInv'
BY IdleFits, LocalPubInv DEF stop, CallerMoves

(* The steps at which a caller has nothing in hand but its key.            *)
Plain == Pcs \ {"idle", "savePull", "record", "complete", "answer"}

(* The memory of a caller that goes on to such a step.                     *)
LEMMA PlainFits ==
  ASSUME PubInv, NEW w \in Callers, ~at(w, "idle"), NEW pc \in Plain,
         goto(w, pc)
  PROVE  \E m : CallerMoves(w, m) /\ Fits(m) /\ m.pc = pc /\ m.key = my(w)
<1>1. PICK n : n = caller[w]
  OBVIOUS
<1>2. Fits(n) /\ n.pc # "idle"
  BY <1>1 DEF PubInv, CallersFit, at
<1>3. PICK m : m = [n EXCEPT !.pc = pc]
  OBVIOUS
<1>4. /\ DOMAIN m = {"pc", "key", "rev", "pull"} /\ m.pc = pc
      /\ m.key = n.key
  BY <1>2, <1>3 DEF Fits
<1>5. Fits(m)
  BY <1>2, <1>4 DEF Fits, Plain
<1>6. CallerMoves(w, m)
  BY <1>1, <1>3 DEF CallerMoves, goto
<1>7. QED
  BY <1>1, <1>4, <1>5, <1>6 DEF my

LEMMA PlainPubInv ==
  ASSUME PubInv, NEW w \in Callers, ~at(w, "idle"), NEW pc \in Plain,
         goto(w, pc), Unseen
  PROVE  PubInv'
<1>1. PICK m : CallerMoves(w, m) /\ Fits(m)
  BY PlainFits
<1>2. QED
  BY <1>1, LocalPubInv

-----------------------------------------------------------------------------
(* The steps that change nothing but the memory of a caller.               *)

LEMMA SubmitPubInv ==
  ASSUME PubInv, NEW w \in Callers, NEW k \in Keys, Submit(w, k) PROVE PubInv'
<1>1. PICK m : m = [Idle EXCEPT !.pc = "insert", !.key = k, !.rev = run.rev]
  OBVIOUS
<1>2. DOMAIN m = {"pc", "key", "rev", "pull"} /\ m.pc = "insert" /\ m.key = k
  BY <1>1 DEF Idle
<1>3. Fits(m)
  BY <1>2 DEF Fits, Pcs, Submit
<1>4. CallerMoves(w, m) /\ Unseen
  BY <1>1 DEF Submit, CallerMoves, Unseen, vars
<1>5. QED
  BY <1>3, <1>4, LocalPubInv

LEMMA LoadPubInv ==
  ASSUME PubInv, NEW w \in Callers, Load(w) PROVE PubInv'
<1>1. Unseen /\ at(w, "load")
  BY DEF Load, Unseen, vars
<1>2. CASE ~loads(w)
  BY <1>1, <1>2, StopPubInv DEF Load
<1>3. CASE loads(w)
  <2>1. PICK n : n = caller[w]
    OBVIOUS
  <2>2. Fits(n) /\ n.pc = "load"
    BY <2>1, <1>1 DEF PubInv, CallersFit, at
  <2>3. PICK r : r = ledger[n.key]
    OBVIOUS
  <2>4. n.key \in Keys /\ RowFits(n.key) /\ row(w) = r
    BY <2>1, <2>2, <2>3 DEF Fits, PubInv, LedgerFits, row, my
  <2>5. PICK pc : pc = IF r.state = "completed" THEN "answer"
                       ELSE IF ~branchReady(w) THEN "base"
                       ELSE IF r.pull = Nil THEN "recheck" ELSE "record"
    OBVIOUS
  <2>6. PICK m : m = [n EXCEPT !.pull = r.pull, !.pc = pc]
    OBVIOUS
  <2>7. /\ DOMAIN m = {"pc", "key", "rev", "pull"} /\ m.pc = pc
        /\ m.key = n.key /\ m.pull = r.pull
    BY <2>2, <2>6 DEF Fits
  <2>8. CallerMoves(w, m)
    <3>1. caller' = [caller EXCEPT ![w].pull = r.pull, ![w].pc = pc]
      BY <1>3, <2>4, <2>5 DEF Load
    <3>2. QED
      BY <3>1, <2>1, <2>6 DEF CallerMoves, PubInv, CallersFit
  <2>9. pc \in Pcs /\ pc \notin {"idle", "savePull", "complete"}
    BY <2>5 DEF Pcs
  <2>10. pc = "record" => r.state \in Marked
    BY <2>3, <2>4, <2>5 DEF branchReady, RowFits, Marked
  <2>11. pc = "answer" => r.state = "completed"
    BY <2>5, <2>4 DEF branchReady
  <2>12. Fits(m)
    BY <2>2, <2>3, <2>4, <2>7, <2>9, <2>10, <2>11 DEF Fits, RowFits
  <2>13. QED
    BY <1>1, <2>8, <2>12, LocalPubInv
<1>4. QED
  BY <1>2, <1>3

(* Looking at the remote leads to another such step.                       *)
LEMMA LooksPubInv ==
  ASSUME PubInv, NEW w \in Callers,
         BaseHead(w) \/ BranchHead(w) \/ BranchHeadAgain(w) \/ RecheckBase(w)
  PROVE  PubInv'
<1>1. Unseen /\ ~at(w, "idle")
  BY DEF BaseHead, BranchHead, BranchHeadAgain, RecheckBase, Unseen, vars, at
<1>2. CASE stop(w)
  BY <1>1, <1>2, StopPubInv
<1>3. CASE \E pc \in Plain : goto(w, pc)
  BY <1>1, <1>3, PlainPubInv
<1>4. /\ "inspect" \in Plain /\ "rollback" \in Plain /\ "push" \in Plain
      /\ "saveBranch" \in Plain /\ "find" \in Plain
  BY DEF Plain, Pcs
<1>5. QED
  BY <1>2, <1>3, <1>4 DEF BaseHead, BranchHead, BranchHeadAgain, RecheckBase

LEMMA FailsPubInv ==
  ASSUME PubInv, NEW w \in Callers, Fails(w) PROVE PubInv'
<1>1. Unseen /\ ~at(w, "idle")
  BY DEF Fails, Unseen, vars, at
<1>2. PICK pc : pc = afterFailure(caller[w].pc)
  OBVIOUS
<1>3. pc \in Plain
  BY <1>2 DEF Fails, afterFailure, Plain, Pcs
<1>4. goto(w, pc)
  BY <1>2 DEF Fails
<1>5. QED
  BY <1>1, <1>3, <1>4, PlainPubInv

LEMMA EndsPubInv ==
  ASSUME PubInv, NEW w \in Callers, Death(w) \/ Answer(w) PROVE PubInv'
<1>1. Unseen /\ stop(w)
  BY DEF Death, Answer, Unseen, vars
<1>2. QED
  BY <1>1, StopPubInv

(* What FindDraft finds has the marker of the key.                         *)
LEMMA FoundIsMarked ==
  ASSUME PubInv, NEW k
  PROVE  \/ FindDraft(k) \in {Nil, <<>>}
         \/ /\ FindDraft(k) = <<1>> /\ 1 \in DOMAIN remote.pulls
            /\ remote.pulls[1].marker = k
<1>1. remote.pulls \in Seq(Pull)
  BY DEF PubInv, RemoteFits, Remote
<1>2. Len(remote.pulls) = 1 => 1 \in DOMAIN remote.pulls
  BY <1>1, SMT
<1>3. QED
  BY <1>2 DEF FindDraft, isDraftOf

LEMMA TakePubInv ==
  ASSUME PubInv, NEW w \in Callers, ~at(w, "idle"), Unseen, NEW none,
         none => stop(w) \/ \E pc \in Plain : goto(w, pc),
         take(w, FindDraft(my(w)), none)
  PROVE  PubInv'
<1>1. CASE FindDraft(my(w)) = Nil
  <2>1. none
    BY <1>1, PublicationAssumption DEF take
  <2>2. QED
    BY <2>1, StopPubInv, PlainPubInv
<1>2. CASE FindDraft(my(w)) = <<>>
  <2>1. stop(w)
    BY <1>2, PublicationAssumption DEF take
  <2>2. QED
    BY <2>1, StopPubInv
<1>3. CASE /\ FindDraft(my(w)) = <<1>> /\ 1 \in DOMAIN remote.pulls
           /\ remote.pulls[1].marker = my(w)
  <2>1. FindDraft(my(w)) # Nil /\ FindDraft(my(w)) # <<>>
    BY <1>3, PublicationAssumption, SMT
  <2>2. caller' = [caller EXCEPT ![w].pc = "savePull", ![w].pull = 1]
    <3>1. caller' = [caller EXCEPT ![w].pc = "savePull",
                                   ![w].pull = FindDraft(my(w))[1]]
      BY <2>1 DEF take
    <3>2. FindDraft(my(w))[1] = 1
      BY <1>3, SMT
    <3>3. QED
      BY <3>1, <3>2
  <2>3. PICK n : n = caller[w]
    OBVIOUS
  <2>4. Fits(n) /\ n.pc # "idle"
    BY <2>3 DEF PubInv, CallersFit, at
  <2>5. PICK m : m = [n EXCEPT !.pc = "savePull", !.pull = 1]
    OBVIOUS
  <2>6. /\ DOMAIN m = {"pc", "key", "rev", "pull"} /\ m.pc = "savePull"
        /\ m.key = n.key /\ m.pull = 1
    BY <2>4, <2>5 DEF Fits
  <2>7. Fits(m)
    BY <1>3, <2>3, <2>4, <2>6 DEF Fits, Pcs, my
  <2>8. CallerMoves(w, m)
    BY <2>2, <2>3, <2>5 DEF CallerMoves, PubInv, CallersFit
  <2>9. QED
    BY <2>7, <2>8, LocalPubInv
<1>4. QED
  BY <1>1, <1>2, <1>3, FoundIsMarked

LEMMA FindsPubInv ==
  ASSUME PubInv, NEW w \in Callers, Find(w) \/ Recover(w) \/ RecoverAgain(w)
  PROVE  PubInv'
<1>1. Unseen /\ ~at(w, "idle")
  BY DEF Find, Recover, RecoverAgain, Unseen, vars, at
<1>2. "create" \in Plain /\ "recoverAgain" \in Plain
  BY DEF Plain, Pcs
<1>3. CASE Find(w)
  <2>1. take(w, FindDraft(my(w)), goto(w, "create"))
    BY <1>3 DEF Find
  <2>2. QED
    BY <1>1, <1>2, <2>1, TakePubInv
<1>4. CASE Recover(w)
  <2>1. CASE goto(w, "recoverAgain")
    BY <1>1, <1>2, <2>1, PlainPubInv
  <2>2. CASE take(w, FindDraft(my(w)), FALSE)
    BY <1>1, <2>2, TakePubInv
  <2>3. QED
    BY <1>4, <2>1, <2>2 DEF Recover
<1>5. CASE RecoverAgain(w)
  <2>1. take(w, FindDraft(my(w)), stop(w))
    BY <1>5 DEF RecoverAgain
  <2>2. QED
    BY <1>1, <2>1, TakePubInv
<1>6. QED
  BY <1>3, <1>4, <1>5

-----------------------------------------------------------------------------
(* The statements on the ledger.                                           *)

(* Row k becomes r, and nothing else outside the callers changes.          *)
Writes(k, r) ==
  /\ ledger' = [ledger EXCEPT ![k] = r]
  /\ UNCHANGED <<run, commands, remote, cleaner, bodies, others>>
  /\ ledger[k].state \in Marked =>
       r.state \in Marked /\ r.pull = ledger[k].pull
  /\ ledger[k].state = "completed" => r = ledger[k]

LEMMA WritesGrows ==
  ASSUME PubInv, NEW k \in Keys, NEW r, Writes(k, r)
  PROVE  /\ Grows /\ ledger'[k] = r /\ DOMAIN ledger' = Keys
         /\ \A j \in Keys : j # k => ledger'[j] = ledger[j]
<1>1. /\ ledger'[k] = r /\ DOMAIN ledger' = Keys
      /\ \A j \in Keys : j # k => ledger'[j] = ledger[j]
  BY DEF Writes, PubInv, LedgerFits
<1>2. Grows
  BY <1>1 DEF Writes, Grows
<1>3. QED
  BY <1>1, <1>2

LEMMA WritesPubInv ==
  ASSUME PubInv, NEW w \in Callers, NEW m, CallerMoves(w, m), Fits(m)',
         NEW k \in Keys, NEW r, Writes(k, r), RowFits(k)'
  PROVE  PubInv'
<1>1. /\ Grows /\ ledger'[k] = r /\ DOMAIN ledger' = Keys
      /\ \A j \in Keys : j # k => ledger'[j] = ledger[j]
  BY WritesGrows
<1>2. CallersFit'
  BY <1>1, MovesFit
<1>3. LedgerFits'
  <2>1. ASSUME NEW j \in Keys PROVE RowFits(j)'
    <3>1. CASE j = k
      BY <3>1
    <3>2. CASE j # k
      BY <1>1, <3>2, RowGrows DEF PubInv, LedgerFits
    <3>3. QED
      BY <3>1, <3>2
  <2>2. QED
    BY <1>1, <2>1 DEF LedgerFits
<1>4. RunFits'
  <2>1. CheckpointBeforeMutation'
    BY <1>1 DEF PubInv, RunFits, CheckpointBeforeMutation, Grows, Writes, Marked
  <2>2. QED
    BY <2>1 DEF PubInv, RunFits, Writes
<1>5. RemoteFits'
  BY DEF PubInv, Writes, RemoteFits, PullsBounded, OneOpen, NoneOpen, Closures,
         PubClosed
<1>6. CleanerFits'
  BY <1>1 DEF PubInv, Writes, CleanerFits, Grows
<1>7. QED
  BY <1>2, <1>3, <1>4, <1>5, <1>6 DEF PubInv

(* A row without a pull request fits at each of its early states.          *)
LEMMA EarlyRow ==
  ASSUME NEW k, DOMAIN ledger'[k] = {"state", "rev", "pull", "artifact"},
         ledger'[k].state \in {"NONE", "reserved", "branch_ready"},
         ledger'[k].pull = Nil, ledger'[k].artifact = Nil
  PROVE  RowFits(k)'
BY DEF RowFits, Marked

(* What a caller that is under way knows of its row.                       *)
LEMMA MyRow ==
  ASSUME PubInv, NEW w \in Callers, ~at(w, "idle")
  PROVE  /\ Fits(caller[w]) /\ my(w) \in Keys /\ RowFits(my(w))
         /\ row(w) = ledger[my(w)]
BY DEF PubInv, CallersFit, LedgerFits, Fits, at, my, row

LEMMA InsertPubInv ==
  ASSUME PubInv, NEW w \in Callers, Insert(w) PROVE PubInv'
<1>1. ~at(w, "idle")
  BY DEF Insert, at
<1>2. PICK k : k = my(w)
  OBVIOUS
<1>3. k \in Keys /\ RowFits(k)
  BY <1>1, <1>2, MyRow
<1>4. PICK m : CallerMoves(w, m) /\ Fits(m)
  BY <1>1, PlainFits DEF Insert, Plain, Pcs
<1>5. PICK r : r = IF ledger[k].state = "NONE"
                   THEN [NoRow EXCEPT !.state = "reserved",
                                      !.rev = caller[w].rev]
                   ELSE ledger[k]
  OBVIOUS
<1>6. ledger' = [ledger EXCEPT ![k] = r]
  BY <1>2, <1>3, <1>5 DEF Insert, PubInv, LedgerFits
<1>7. \/ r = ledger[k]
      \/ /\ ledger[k].state = "NONE"
         /\ DOMAIN r = {"state", "rev", "pull", "artifact"}
         /\ r.state = "reserved" /\ r.pull = Nil /\ r.artifact = Nil
  BY <1>5 DEF NoRow
<1>8. Writes(k, r)
  BY <1>6, <1>7 DEF Writes, Insert, vars, Marked
<1>9. Grows /\ ledger'[k] = r
  BY <1>3, <1>8, WritesGrows
<1>10. RowFits(k)'
  BY <1>3, <1>7, <1>9, RowGrows, EarlyRow
<1>11. Fits(m)'
  BY <1>4, <1>9, FitsGrows
<1>12. QED
  BY <1>3, <1>4, <1>8, <1>10, <1>11, WritesPubInv

LEMMA RollbackPubInv ==
  ASSUME PubInv, NEW w \in Callers, Rollback(w) PROVE PubInv'
<1>1. ~at(w, "idle")
  BY DEF Rollback, at
<1>2. PICK k : k = my(w)
  OBVIOUS
<1>3. k \in Keys /\ RowFits(k)
  BY <1>1, <1>2, MyRow
<1>4. PICK r : r = IF rollbackable(ledger[k]) THEN NoRow ELSE ledger[k]
  OBVIOUS
<1>5. ledger' = [ledger EXCEPT ![k] = r]
  BY <1>2, <1>3, <1>4 DEF Rollback, PubInv, LedgerFits
<1>6. \/ r = ledger[k]
      \/ /\ ledger[k].state = "reserved"
         /\ DOMAIN r = {"state", "rev", "pull", "artifact"}
         /\ r.state = "NONE" /\ r.pull = Nil /\ r.artifact = Nil
  BY <1>4 DEF NoRow, rollbackable
<1>7. Writes(k, r)
  BY <1>5, <1>6 DEF Writes, Rollback, vars, Marked
<1>8. Grows /\ ledger'[k] = r
  BY <1>3, <1>7, WritesGrows
<1>9. RowFits(k)'
  BY <1>3, <1>6, <1>8, RowGrows, EarlyRow
<1>10. CallerMoves(w, Idle)
  BY DEF Rollback, stop, CallerMoves
<1>11. QED
  BY <1>3, <1>7, <1>9, <1>10, IdleFits, WritesPubInv

LEMMA SaveBranchPubInv ==
  ASSUME PubInv, NEW w \in Callers, SaveBranch(w) PROVE PubInv'
<1>1. ~at(w, "idle") /\ "recheck" \in Plain
  BY DEF SaveBranch, at, Plain, Pcs
<1>2. CASE advances(row(w), "reserved")
  <2>1. PICK k : k = my(w)
    OBVIOUS
  <2>2. k \in Keys /\ RowFits(k) /\ ledger[k].state = "reserved"
    BY <1>1, <1>2, <2>1, MyRow DEF advances
  <2>3. PICK m : CallerMoves(w, m) /\ Fits(m)
    BY <1>1, <1>2, PlainFits DEF SaveBranch
  <2>4. PICK r : r = [ledger[k] EXCEPT !.state = "branch_ready"]
    OBVIOUS
  <2>5. /\ DOMAIN r = {"state", "rev", "pull", "artifact"}
        /\ r.state = "branch_ready" /\ r.pull = Nil /\ r.artifact = Nil
    BY <2>2, <2>4 DEF RowFits, Marked
  <2>6. ledger' = [ledger EXCEPT ![k] = r]
    BY <1>2, <2>1, <2>2, <2>4 DEF SaveBranch, PubInv, LedgerFits
  <2>7. Writes(k, r)
    BY <2>2, <2>6 DEF Writes, SaveBranch, vars, Marked
  <2>8. Grows /\ ledger'[k] = r
    BY <2>2, <2>7, WritesGrows
  <2>9. RowFits(k)'
    BY <2>5, <2>8, EarlyRow
  <2>10. Fits(m)'
    BY <2>3, <2>8, FitsGrows
  <2>11. QED
    BY <2>2, <2>3, <2>7, <2>9, <2>10, WritesPubInv
<1>3. CASE ~advances(row(w), "reserved")
  <2>1. Unseen
    BY <1>3 DEF SaveBranch, Unseen, vars
  <2>2. stop(w) \/ goto(w, "recheck")
    BY <1>3 DEF SaveBranch
  <2>3. QED
    BY <1>1, <2>1, <2>2, StopPubInv, PlainPubInv
<1>4. QED
  BY <1>2, <1>3

(* A caller goes on with the number it has.                                *)
LEMMA GotoMoves ==
  ASSUME PubInv, NEW w \in Callers, ~at(w, "idle"), NEW pc, goto(w, pc)
  PROVE  \E m : /\ CallerMoves(w, m) /\ DOMAIN m = {"pc", "key", "rev", "pull"}
                /\ m.pc = pc /\ m.key = my(w) /\ m.pull = caller[w].pull
                /\ m.key \in Keys /\ artifactsMatch(Evidence, bodies)
<1>1. PICK n : n = caller[w]
  OBVIOUS
<1>2. Fits(n) /\ n.pc # "idle"
  BY <1>1 DEF PubInv, CallersFit, at
<1>3. PICK m : m = [n EXCEPT !.pc = pc]
  OBVIOUS
<1>4. /\ DOMAIN m = {"pc", "key", "rev", "pull"} /\ m.pc = pc
      /\ m.key = n.key /\ m.pull = n.pull
  BY <1>2, <1>3 DEF Fits
<1>5. n.key \in Keys /\ artifactsMatch(Evidence, bodies)
  BY <1>2 DEF Fits
<1>6. CallerMoves(w, m)
  BY <1>1, <1>3 DEF CallerMoves, goto
<1>7. QED
  BY <1>1, <1>4, <1>5, <1>6 DEF my

LEMMA SavePullRequestPubInv ==
  ASSUME PubInv, NEW w \in Callers, SavePullRequest(w) PROVE PubInv'
<1>1. ~at(w, "idle") /\ at(w, "savePull")
  BY DEF SavePullRequest, at
<1>2. PICK k, p : k = my(w) /\ p = caller[w].pull
  OBVIOUS
<1>3. /\ k \in Keys /\ RowFits(k) /\ row(w) = ledger[k]
      /\ p \in DOMAIN remote.pulls /\ remote.pulls[p].marker = k
  BY <1>1, <1>2, MyRow DEF Fits, at, my
<1>4. CASE advances(row(w), "branch_ready")
  <2>1. ledger[k].state = "branch_ready" /\ goto(w, "record")
    BY <1>3, <1>4 DEF advances, SavePullRequest
  <2>2. PICK m : /\ CallerMoves(w, m) /\ DOMAIN m = {"pc", "key", "rev", "pull"}
                 /\ m.pc = "record" /\ m.key = k /\ m.pull = p
                 /\ artifactsMatch(Evidence, bodies)
    BY <1>1, <1>2, <2>1, GotoMoves
  <2>3. PICK r : r = [ledger[k] EXCEPT !.state = "pr_ready", !.pull = p]
    OBVIOUS
  <2>4. /\ DOMAIN r = {"state", "rev", "pull", "artifact"}
        /\ r.state = "pr_ready" /\ r.pull = p /\ r.artifact = Nil
    BY <1>3, <2>1, <2>3 DEF RowFits
  <2>5. ledger' = [ledger EXCEPT ![k] = r]
    <3>1. ledger' = [ledger EXCEPT ![k].state = "pr_ready", ![k].pull = p]
      BY <1>2, <1>4 DEF SavePullRequest
    <3>2. QED
      BY <1>3, <2>3, <3>1 DEF PubInv, LedgerFits
  <2>6. Writes(k, r)
    BY <2>1, <2>5 DEF Writes, SavePullRequest, vars, Marked
  <2>7. Grows /\ ledger'[k] = r
    BY <1>3, <2>6, WritesGrows
  <2>8. RowFits(k)'
    <3>1. p \in DOMAIN remote'.pulls /\ remote'.pulls[p].marker = k
      BY <1>3, <2>7 DEF Grows
    <3>2. QED
      BY <2>4, <2>7, <3>1 DEF RowFits, Marked
  <2>9. Fits(m)'
    BY <1>3, <2>2, <2>4, <2>7 DEF Fits, Pcs, Marked, Grows
  <2>10. QED
    BY <1>3, <2>2, <2>6, <2>8, <2>9, WritesPubInv
<1>5. CASE ~advances(row(w), "branch_ready")
  <2>1. Unseen
    BY <1>5 DEF SavePullRequest, Unseen, vars
  <2>2. CASE stop(w)
    BY <2>1, <2>2, StopPubInv
  <2>3. CASE /\ row(w).pull # Nil /\ samePull(row(w), caller[w].pull)
             /\ goto(w, "record")
    <3>1. ledger[k].state \in Marked /\ ledger[k].pull = p
      BY <1>2, <1>3, <2>3 DEF RowFits, samePull
    <3>2. PICK m : /\ CallerMoves(w, m) /\ DOMAIN m = {"pc", "key", "rev", "pull"}
                   /\ m.pc = "record" /\ m.key = k /\ m.pull = p
                   /\ artifactsMatch(Evidence, bodies)
      BY <1>1, <1>2, <2>3, GotoMoves
    <3>3. Fits(m)
      BY <1>3, <3>1, <3>2 DEF Fits, Pcs
    <3>4. QED
      BY <2>1, <3>2, <3>3, LocalPubInv
  <2>4. QED
    BY <1>5, <2>2, <2>3 DEF SavePullRequest
<1>6. QED
  BY <1>4, <1>5

LEMMA CompletePubInv ==
  ASSUME PubInv, NEW w \in Callers, Complete(w) PROVE PubInv'
<1>1. ~at(w, "idle") /\ at(w, "complete")
  BY DEF Complete, at
<1>2. PICK k, p : k = my(w) /\ p = caller[w].pull
  OBVIOUS
<1>3. /\ k \in Keys /\ RowFits(k) /\ row(w) = ledger[k]
      /\ ledger[k].state \in Marked /\ ledger[k].pull = p
      /\ run.pub # Nil /\ run.pub = <<"draft", k, p>>
      /\ artifactOf(w) = run.pub
  BY <1>1, <1>2, MyRow DEF Fits, at, my, artifactOf
<1>4. CASE advances(row(w), "pr_ready")
  <2>1. ledger[k].state = "pr_ready" /\ goto(w, "answer")
    BY <1>3, <1>4 DEF advances, Complete
  <2>2. PICK m : /\ CallerMoves(w, m) /\ DOMAIN m = {"pc", "key", "rev", "pull"}
                 /\ m.pc = "answer" /\ m.key = k /\ m.pull = p
                 /\ artifactsMatch(Evidence, bodies)
    BY <1>1, <1>2, <2>1, GotoMoves
  <2>3. PICK r : r = [ledger[k] EXCEPT !.state = "completed",
                                       !.artifact = run.pub]
    OBVIOUS
  <2>4. /\ DOMAIN r = {"state", "rev", "pull", "artifact"}
        /\ r.state = "completed" /\ r.pull = p /\ r.artifact = run.pub
    BY <1>3, <2>3 DEF RowFits
  <2>5. ledger' = [ledger EXCEPT ![k] = r]
    <3>1. ledger' = [ledger EXCEPT ![k].state = "completed",
                                   ![k].artifact = run.pub]
      BY <1>2, <1>3, <1>4 DEF Complete
    <3>2. QED
      BY <1>3, <2>3, <3>1 DEF PubInv, LedgerFits
  <2>6. Writes(k, r)
    BY <1>3, <2>1, <2>4, <2>5 DEF Writes, Complete, vars, Marked
  <2>7. Grows /\ ledger'[k] = r /\ run'.pub = run.pub
    BY <1>3, <2>6, WritesGrows DEF Writes
  <2>8. RowFits(k)'
    <3>1. p \in DOMAIN remote'.pulls /\ remote'.pulls[p].marker = k
      BY <1>3, <2>7 DEF Grows, RowFits
    <3>2. QED
      BY <1>3, <2>4, <2>7, <3>1 DEF RowFits, Marked
  <2>9. Fits(m)'
    BY <1>3, <2>2, <2>4, <2>7 DEF Fits, Pcs, Grows
  <2>10. QED
    BY <1>3, <2>2, <2>6, <2>8, <2>9, WritesPubInv
<1>5. CASE ~advances(row(w), "pr_ready")
  <2>1. Unseen /\ ledger[k].state = "completed"
    BY <1>3, <1>5 DEF Complete, Unseen, vars, advances, Marked
  <2>2. CASE stop(w)
    BY <2>1, <2>2, StopPubInv
  <2>3. CASE goto(w, "answer")
    <3>1. PICK m : /\ CallerMoves(w, m) /\ DOMAIN m = {"pc", "key", "rev", "pull"}
                   /\ m.pc = "answer" /\ m.key = k /\ m.pull = p
                   /\ artifactsMatch(Evidence, bodies)
      BY <1>1, <1>2, <2>3, GotoMoves
    <3>2. ledger[k].artifact = <<"draft", k, p>>
      BY <1>3, <2>1 DEF RowFits
    <3>3. Fits(m)
      BY <1>3, <2>1, <3>1, <3>2 DEF Fits, Pcs
    <3>4. QED
      BY <2>1, <3>1, <3>3, LocalPubInv
  <2>4. QED
    BY <1>5, <2>2, <2>3 DEF Complete
<1>6. QED
  BY <1>4, <1>5

-----------------------------------------------------------------------------
(* The record in the workflow.                                             *)

LEMMA RecordAppliesPubInv ==
  ASSUME PubInv, NEW w \in Callers, at(w, "record"), recordApplies(w),
         goto(w, "complete"),
         UNCHANGED <<ledger, remote, cleaner, bodies, others>>
  PROVE  PubInv'
<1>1. ~at(w, "idle")
  BY DEF at
<1>2. PICK k, p : k = my(w) /\ p = caller[w].pull
  OBVIOUS
<1>3. /\ k \in Keys /\ RowFits(k)
      /\ ledger[k].state \in Marked /\ ledger[k].pull = p
  BY <1>1, <1>2, MyRow DEF Fits, at, my
<1>4. PICK a : a = <<"draft", k, p>>
  OBVIOUS
<1>5. artifactOf(w) = a
  BY <1>2, <1>4 DEF artifactOf
<1>6. p \in Nat /\ a # Nil
  <2>1. p \in DOMAIN remote.pulls /\ remote.pulls \in Seq(Pull)
    BY <1>3 DEF RowFits, PubInv, RemoteFits, Remote
  <2>2. p \in Nat
    BY <2>1, SMT
  <2>3. a \in {"draft"} \X Keys \X Nat
    BY <1>3, <1>4, <2>2
  <2>4. QED
    BY <2>2, <2>3, PublicationAssumption
<1>7. run.pub = Nil /\ DOMAIN commands = {}
  BY DEF recordApplies, recordDraftPullRequest, PubInv, RunFits
<1>8. PICK e, d : /\ e = commandEnvelope(w)
                  /\ d = <<"RecordDraftPullRequest", e, Candidate,
                           Evidence.approval, a>>
  OBVIOUS
<1>9. persistRunTransition(e, d, [run EXCEPT !.pub = a])
  BY <1>5, <1>8 DEF recordApplies, recordDraftPullRequest
<1>10. /\ run'.pub = a /\ run'.approval = run.approval
       /\ DOMAIN run' = DOMAIN run
  BY <1>9 DEF persistRunTransition, finishRunTransition, PubInv, RunFits
<1>11. \A i \in DOMAIN commands' : commands'[i].digest[5] = a
  <2>1. d[5] = a
    BY <1>8
  <2>2. commands' = recordCommandResult(e, d, RunID, run.rev + 1)
    BY <1>9 DEF persistRunTransition
  <2>3. \A i \in DOMAIN commands' : commands'[i].digest = d
    BY <1>7, <2>2 DEF recordCommandResult
  <2>4. QED
    BY <2>1, <2>3
<1>12. Grows
  BY <1>7 DEF Grows
<1>13. CallersFit'
  <2>1. PICK m : /\ CallerMoves(w, m) /\ DOMAIN m = {"pc", "key", "rev", "pull"}
                 /\ m.pc = "complete" /\ m.key = k /\ m.pull = p
                 /\ artifactsMatch(Evidence, bodies)
    BY <1>1, <1>2, GotoMoves
  <2>2. Fits(m)'
    BY <1>3, <1>4, <1>6, <1>10, <2>1 DEF Fits, Pcs
  <2>3. QED
    BY <1>12, <2>1, <2>2, MovesFit
<1>14. LedgerFits'
  BY <1>12, RowGrows DEF PubInv, LedgerFits
<1>15. RunFits'
  <2>1. CheckpointBeforeMutation'
    BY <1>3, <1>4, <1>10 DEF CheckpointBeforeMutation, Marked
  <2>2. QED
    BY <1>6, <1>10, <1>11, <2>1 DEF PubInv, RunFits
<1>16. RemoteFits'
  <2>1. others \in Nat /\ others' = others
    BY PublicationAssumption, SMT DEF PubInv, RemoteFits
  <2>2. Closures = others
    BY <1>7, <2>1, SMT DEF Closures, PubClosed
  <2>3. Closures' \in Nat /\ Closures' >= others
    BY <2>1, SMT DEF Closures
  <2>4. Len(remote.pulls) \in Nat
    BY SMT DEF PubInv, RemoteFits, Remote
  <2>5. PullsBounded'
    BY <2>1, <2>2, <2>3, <2>4, SMT
    DEF PubInv, RemoteFits, PullsBounded, OneOpen, NoneOpen
  <2>6. QED
    BY <2>5 DEF PubInv, RemoteFits
<1>17. CleanerFits'
  BY DEF PubInv, CleanerFits
<1>18. QED
  BY <1>13, <1>14, <1>15, <1>16, <1>17 DEF PubInv

LEMMA RecordPubInv ==
  ASSUME PubInv, NEW w \in Callers, Record(w) PROVE PubInv'
<1>1. ~at(w, "idle") /\ at(w, "record")
  BY DEF Record, at
<1>2. CASE recordApplies(w) /\ goto(w, "complete")
  BY <1>1, <1>2, RecordAppliesPubInv DEF Record
<1>3. CASE /\ loadCommandResult(commandEnvelope(w), digestOf(w)) = "replay"
           /\ goto(w, "complete") /\ UNCHANGED vars
  <2>1. Unseen
    BY <1>3 DEF Record, Unseen, vars
  <2>2. PICK k, p : k = my(w) /\ p = caller[w].pull
    OBVIOUS
  <2>3. /\ k \in Keys
        /\ ledger[k].state \in Marked /\ ledger[k].pull = p
    BY <1>1, <2>2, MyRow DEF Fits, at, my
  <2>4. PICK i : i \in DOMAIN commands /\ commands[i].digest = digestOf(w)
    BY <1>3 DEF loadCommandResult
  <2>5. digestOf(w)[5] = <<"draft", k, p>>
    BY <2>2 DEF digestOf, artifactOf
  <2>6. run.pub = <<"draft", k, p>> /\ run.pub # Nil
    BY <2>4, <2>5 DEF PubInv, RunFits
  <2>7. PICK m : /\ CallerMoves(w, m) /\ DOMAIN m = {"pc", "key", "rev", "pull"}
                 /\ m.pc = "complete" /\ m.key = k /\ m.pull = p
                 /\ artifactsMatch(Evidence, bodies)
    BY <1>1, <1>3, <2>2, GotoMoves
  <2>8. Fits(m)
    BY <2>3, <2>6, <2>7 DEF Fits, Pcs
  <2>9. QED
    BY <2>1, <2>7, <2>8, LocalPubInv
<1>4. CASE stop(w) /\ UNCHANGED vars
  <2>1. Unseen
    BY <1>4 DEF Record, Unseen, vars
  <2>2. QED
    BY <1>4, <2>1, StopPubInv
<1>5. QED
  BY <1>2, <1>3, <1>4 DEF Record

-----------------------------------------------------------------------------
(* The remote.                                                             *)

(* A step that changes the remote, and perhaps a caller or the cleaner.    *)
LEMMA RemotePubInv ==
  ASSUME PubInv, Grows, UNCHANGED <<run, commands, ledger>>,
         CallersFit', RemoteFits', CleanerFits'
  PROVE  PubInv'
<1>1. LedgerFits'
  BY RowGrows DEF PubInv, LedgerFits
<1>2. RunFits'
  BY DEF PubInv, RunFits, CheckpointBeforeMutation
<1>3. QED
  BY <1>1, <1>2 DEF PubInv

LEMMA StillFit ==
  ASSUME PubInv, Grows, UNCHANGED caller PROVE CallersFit'
<1>1. ASSUME NEW v \in Callers PROVE Fits(caller[v])'
  <2>1. PICK n : n = caller[v]
    OBVIOUS
  <2>2. Fits(n)'
    BY <2>1, FitsGrows DEF PubInv, CallersFit
  <2>3. n = caller'[v]
    BY <2>1
  <2>4. QED
    BY <2>2, <2>3
<1>2. QED
  BY <1>1 DEF PubInv, CallersFit

(* What the run has recorded is the number of a pull request.              *)
LEMMA PubIsPull ==
  ASSUME PubInv, run.pub # Nil
  PROVE  run.pub[3] \in DOMAIN remote.pulls
<1>1. PICK k \in Keys : /\ ledger[k].state \in Marked
                        /\ run.pub = <<"draft", k, ledger[k].pull>>
  BY DEF PubInv, RunFits, CheckpointBeforeMutation, Marked
<1>2. ledger[k].pull \in DOMAIN remote.pulls
  BY <1>1 DEF PubInv, LedgerFits, RowFits
<1>3. QED
  BY <1>1, <1>2, SMT

LEMMA ClosuresNat ==
  ASSUME PubInv
  PROVE  /\ others \in Nat /\ Closures \in Nat
         /\ remote.pulls \in Seq(Pull) /\ Len(remote.pulls) \in Nat
         /\ DOMAIN remote.pulls = 1..Len(remote.pulls)
<1>1. others \in Nat /\ Closures \in Nat
  BY PublicationAssumption, SMT DEF PubInv, RemoteFits, Closures
<1>2. remote.pulls \in Seq(Pull)
  BY DEF PubInv, RemoteFits, Remote
<1>3. QED
  BY <1>1, <1>2, SMT

(* Pull requests stay as open as they are, or one closure is counted.      *)
LEMMA BoundedStays ==
  ASSUME PubInv, remote'.pulls \in Seq(Pull),
         Len(remote'.pulls) = Len(remote.pulls),
         \A i \in DOMAIN remote.pulls :
           remote'.pulls[i].state = "open" => remote.pulls[i].state = "open",
         Closures' \in Nat,
         \/ Closures' >= Closures + 1
         \/ /\ Closures' >= Closures
            /\ \A i \in DOMAIN remote.pulls :
                 remote'.pulls[i].state = remote.pulls[i].state
  PROVE  PullsBounded'
<1>1. /\ DOMAIN remote'.pulls = DOMAIN remote.pulls
      /\ Len(remote.pulls) \in Nat /\ Closures \in Nat
  BY ClosuresNat, SMT
<1>2. OneOpen'
  BY <1>1 DEF PubInv, RemoteFits, PullsBounded, OneOpen
<1>3. Len(remote'.pulls) <= 1 + Closures'
  BY <1>1, SMT DEF PubInv, RemoteFits, PullsBounded
<1>4. ASSUME NoneOpen' PROVE Len(remote'.pulls) <= Closures'
  <2>1. CASE Closures' >= Closures + 1
    BY <1>1, <2>1, SMT DEF PubInv, RemoteFits, PullsBounded
  <2>2. CASE /\ Closures' >= Closures
             /\ \A i \in DOMAIN remote.pulls :
                  remote'.pulls[i].state = remote.pulls[i].state
    <3>1. NoneOpen
      BY <1>1, <1>4, <2>2 DEF NoneOpen
    <3>2. QED
      BY <1>1, <2>2, <3>1, SMT DEF PubInv, RemoteFits, PullsBounded
  <2>3. QED
    BY <2>1, <2>2
<1>5. QED
  BY <1>2, <1>3, <1>4 DEF PullsBounded

LEMMA PushPubInv ==
  ASSUME PubInv, NEW w \in Callers, Push(w) PROVE PubInv'
<1>1. ~at(w, "idle") /\ "saveBranch" \in Plain /\ "reinspect" \in Plain
  BY DEF Push, at, Plain, Pcs
<1>2. PICK pc \in Plain : goto(w, pc)
  BY <1>1 DEF Push
<1>3. CASE remote' = [remote EXCEPT !.branch = Candidate]
  <2>1. /\ remote'.pulls = remote.pulls /\ remote'.branch = Candidate
        /\ remote' \in Remote
    BY <1>3 DEF PubInv, RemoteFits, Remote
  <2>2. UNCHANGED <<run, commands, ledger, cleaner, bodies, others>>
    BY DEF Push, vars
  <2>3. Grows
    BY <2>1, <2>2 DEF Grows
  <2>4. CallersFit'
    <3>1. PICK m : CallerMoves(w, m) /\ Fits(m)
      BY <1>1, <1>2, PlainFits
    <3>2. QED
      BY <2>3, <3>1, FitsGrows, MovesFit
  <2>5. RemoteFits'
    <3>1. artifactsMatch(Evidence, bodies)
      BY <1>1, MyRow DEF Fits, at
    <3>2. PullsBounded'
      BY <2>1, <2>2
      DEF PubInv, RemoteFits, PullsBounded, OneOpen, NoneOpen, Closures,
          PubClosed
    <3>3. QED
      BY <2>1, <2>2, <3>1, <3>2 DEF PubInv, RemoteFits
  <2>6. CleanerFits'
    BY <2>2 DEF PubInv, CleanerFits
  <2>7. QED
    BY <2>2, <2>3, <2>4, <2>5, <2>6, RemotePubInv
<1>4. CASE remote' = remote
  <2>1. Unseen
    BY <1>4 DEF Push, Unseen, vars
  <2>2. QED
    BY <1>1, <1>2, <2>1, PlainPubInv
<1>5. QED
  BY <1>3, <1>4 DEF Push

LEMMA NewPull ==
  ASSUME PubInv, NEW w \in Callers, ~at(w, "idle"), creatable,
         remote' = [remote EXCEPT !.pulls = Append(@, newPull(w))],
         UNCHANGED <<run, commands, ledger, cleaner, bodies, others>>
  PROVE  /\ Grows /\ RemoteFits' /\ CleanerFits'
         /\ Len(remote.pulls) + 1 \in DOMAIN remote'.pulls
         /\ remote'.pulls[Len(remote.pulls) + 1].marker = my(w)
<1>1. PICK n, p : n = Len(remote.pulls) + 1 /\ p = newPull(w)
  OBVIOUS
<1>2. /\ remote.pulls \in Seq(Pull) /\ Len(remote.pulls) \in Nat
      /\ DOMAIN remote.pulls = 1..Len(remote.pulls)
      /\ Closures \in Nat
  BY ClosuresNat
<1>3. p \in Pull /\ p.state = "open" /\ p.marker = my(w)
  <2>1. my(w) \in Keys
    BY MyRow
  <2>2. remote.branch \in {Nil, Candidate, Foreign}
        /\ remote.base \in {Base, Foreign}
    BY DEF PubInv, RemoteFits, Remote
  <2>3. QED
    BY <1>1, <2>1, <2>2 DEF newPull, Pull
<1>4. /\ remote'.pulls = Append(remote.pulls, p)
      /\ remote'.base = remote.base /\ remote'.branch = remote.branch
  BY <1>1 DEF PubInv, RemoteFits, Remote
<1>5. /\ remote'.pulls \in Seq(Pull) /\ Len(remote'.pulls) = n
      /\ DOMAIN remote'.pulls = 1..n /\ remote'.pulls[n] = p
      /\ \A i \in DOMAIN remote.pulls : remote'.pulls[i] = remote.pulls[i]
      /\ n \in Nat
  BY <1>1, <1>2, <1>3, <1>4, SMT
<1>6. Grows
  BY <1>1, <1>2, <1>5, SMT DEF Grows
<1>7. remote' \in Remote
  <2>1. remote' = [base |-> remote'.base, branch |-> remote'.branch,
                   pulls |-> remote'.pulls]
    BY DEF PubInv, RemoteFits, Remote
  <2>2. QED
    BY <1>4, <1>5, <2>1 DEF PubInv, RemoteFits, Remote
<1>8. Closures' = Closures
  BY <1>5, PubIsPull DEF Closures, PubClosed
<1>9. PullsBounded'
  <2>1. NoneOpen
    BY DEF creatable, NoneOpen
  <2>2. n <= 1 + Closures
    BY <1>1, <1>2, <2>1, SMT DEF PubInv, RemoteFits, PullsBounded
  <2>3. ASSUME NEW i \in DOMAIN remote'.pulls,
               remote'.pulls[i].state = "open"
        PROVE  i = n
    BY <1>1, <1>2, <1>5, <2>1, <2>3, SMTT(20) DEF NoneOpen
  <2>4. OneOpen'
    BY <2>3 DEF OneOpen
  <2>5. ~NoneOpen'
    <3>1. n \in DOMAIN remote'.pulls /\ remote'.pulls[n].state = "open"
      BY <1>1, <1>2, <1>3, <1>5, SMTT(20)
    <3>2. QED
      BY <3>1 DEF NoneOpen
  <2>6. QED
    BY <1>5, <1>8, <2>2, <2>4, <2>5 DEF PullsBounded
<1>10. RemoteFits'
  BY <1>4, <1>7, <1>9 DEF PubInv, RemoteFits
<1>11. CleanerFits'
  BY DEF PubInv, CleanerFits
<1>12. n \in DOMAIN remote'.pulls
  BY <1>1, <1>2, <1>5, SMT
<1>13. QED
  BY <1>1, <1>3, <1>5, <1>6, <1>10, <1>11, <1>12

LEMMA CreateDraftPubInv ==
  ASSUME PubInv, NEW w \in Callers, CreateDraft(w) PROVE PubInv'
<1>1. ~at(w, "idle") /\ "recover" \in Plain
  BY DEF CreateDraft, at, Plain, Pcs
<1>2. UNCHANGED <<run, commands, ledger, cleaner, bodies, others>>
  BY DEF CreateDraft, vars
<1>3. CASE /\ creatable
           /\ remote' = [remote EXCEPT !.pulls = Append(@, newPull(w))]
  <2>1. PICK p : p = Len(remote.pulls) + 1
    OBVIOUS
  <2>2. /\ Grows /\ RemoteFits' /\ CleanerFits'
        /\ p \in DOMAIN remote'.pulls /\ remote'.pulls[p].marker = my(w)
    BY <1>1, <1>2, <1>3, <2>1, NewPull
  <2>3. CASE goto(w, "recover")
    <3>1. PICK m : CallerMoves(w, m) /\ Fits(m)
      BY <1>1, <2>3, PlainFits
    <3>2. QED
      BY <1>2, <2>2, <3>1, FitsGrows, MovesFit, RemotePubInv
  <2>4. CASE caller' = [caller EXCEPT ![w].pc = "savePull", ![w].pull = p]
    <3>1. PICK n : n = caller[w]
      OBVIOUS
    <3>2. Fits(n) /\ n.pc # "idle" /\ n.key = my(w)
      BY <1>1, <3>1 DEF PubInv, CallersFit, at, my
    <3>3. PICK m : m = [n EXCEPT !.pc = "savePull", !.pull = p]
      OBVIOUS
    <3>4. /\ DOMAIN m = {"pc", "key", "rev", "pull"} /\ m.pc = "savePull"
          /\ m.key = n.key /\ m.pull = p
      BY <3>2, <3>3 DEF Fits
    <3>5. Fits(m)'
      BY <1>2, <2>2, <3>2, <3>4 DEF Fits, Pcs
    <3>6. CallerMoves(w, m)
      BY <2>4, <3>1, <3>3 DEF CallerMoves, PubInv, CallersFit
    <3>7. QED
      BY <1>2, <2>2, <3>5, <3>6, MovesFit, RemotePubInv
  <2>5. QED
    BY <1>3, <2>1, <2>3, <2>4, ClosuresNat DEF CreateDraft
<1>4. CASE remote' = remote /\ goto(w, "recover")
  <2>1. Unseen
    BY <1>2, <1>4 DEF Unseen
  <2>2. QED
    BY <1>1, <1>4, <2>1, PlainPubInv
<1>5. QED
  BY <1>3, <1>4 DEF CreateDraft

-----------------------------------------------------------------------------
(* Others, and the cleanup command.                                        *)

(* What others do leaves the markers, and uses one of their steps.         *)
LEMMA OthersPubInv ==
  ASSUME PubInv, Meddle, remote' \in Remote,
         remote'.branch \in {remote.branch, Foreign},
         Len(remote'.pulls) = Len(remote.pulls),
         \A i \in DOMAIN remote.pulls :
           /\ remote'.pulls[i].marker = remote.pulls[i].marker
           /\ remote'.pulls[i].state \in {remote.pulls[i].state, "closed"},
         UNCHANGED <<run, commands, ledger, caller, cleaner, bodies>>
  PROVE  PubInv'
<1>1. /\ others \in Nat /\ Closures \in Nat /\ remote.pulls \in Seq(Pull)
      /\ remote'.pulls \in Seq(Pull)
      /\ DOMAIN remote'.pulls = DOMAIN remote.pulls
  BY ClosuresNat, SMT DEF Remote
<1>2. Grows
  BY <1>1 DEF Grows
<1>3. PubClosed => PubClosed'
  BY PubIsPull DEF PubClosed
<1>4. others' = others + 1 /\ others' \in 0..MaxOthers
  BY <1>1, PublicationAssumption, SMTT(20) DEF Meddle
<1>5. Closures' \in Nat /\ Closures' >= Closures + 1
  BY <1>1, <1>3, <1>4, SMT DEF Closures
<1>6. PullsBounded'
  BY <1>1, <1>5, BoundedStays
<1>7. RemoteFits'
  <2>1. remote'.branch = Candidate => remote.branch = Candidate
    BY PublicationAssumption
  <2>2. QED
    BY <1>4, <1>6, <2>1 DEF PubInv, RemoteFits
<1>8. CallersFit'
  BY <1>2, StillFit
<1>9. CleanerFits'
  BY DEF PubInv, CleanerFits
<1>10. QED
  BY <1>2, <1>7, <1>8, <1>9, RemotePubInv

LEMMA BaseMovesPubInv == ASSUME PubInv, BaseMoves PROVE PubInv'
<1>1. /\ remote' \in Remote /\ remote'.pulls = remote.pulls
      /\ remote'.branch = remote.branch
  BY DEF BaseMoves, PubInv, RemoteFits, Remote
<1>2. /\ Meddle
      /\ UNCHANGED <<run, commands, ledger, caller, cleaner, bodies>>
  BY DEF BaseMoves, vars
<1>3. QED
  BY <1>1, <1>2, OthersPubInv

LEMMA BranchMovesPubInv == ASSUME PubInv, BranchMoves PROVE PubInv'
<1>1. /\ Meddle
      /\ UNCHANGED <<run, commands, ledger, caller, cleaner, bodies>>
  BY DEF BranchMoves, vars
<1>2. remote.pulls \in Seq(Pull) /\ remote \in Remote
  BY DEF PubInv, RemoteFits, Remote
<1>3. PICK s : s = [i \in DOMAIN remote.pulls |->
                      IF remote.pulls[i].state = "open"
                      THEN [remote.pulls[i] EXCEPT !.head = Foreign]
                      ELSE remote.pulls[i]]
  OBVIOUS
<1>4. remote' = [remote EXCEPT !.branch = Foreign, !.pulls = s]
  BY <1>2, <1>3 DEF BranchMoves, Remote
<1>5. remote'.pulls = s /\ remote'.branch = Foreign
  BY <1>2, <1>4 DEF Remote
<1>6. ASSUME NEW i \in DOMAIN remote.pulls
      PROVE  /\ s[i] \in Pull /\ s[i].marker = remote.pulls[i].marker
             /\ s[i].state = remote.pulls[i].state
  <2>1. remote.pulls[i] \in Pull
    BY <1>2, SMT
  <2>2. s[i] = IF remote.pulls[i].state = "open"
               THEN [remote.pulls[i] EXCEPT !.head = Foreign]
               ELSE remote.pulls[i]
    BY <1>3
  <2>3. QED
    BY <2>1, <2>2 DEF Pull
<1>7. s \in Seq(Pull) /\ Len(s) = Len(remote.pulls)
  <2>1. DOMAIN s = 1..Len(remote.pulls) /\ Len(remote.pulls) \in Nat
    BY <1>2, <1>3, SMT
  <2>2. s \in [1..Len(remote.pulls) -> Pull]
    BY <1>2, <1>3, <1>6, <2>1
  <2>3. QED
    BY <2>1, <2>2, SMT
<1>8. remote' \in Remote
  BY <1>2, <1>4, <1>7 DEF Remote
<1>9. QED
  BY <1>1, <1>5, <1>6, <1>7, <1>8, OthersPubInv

(* One pull request becomes another of the same marker.                    *)
LEMMA PullSet ==
  ASSUME PubInv, NEW i \in DOMAIN remote.pulls, NEW p \in Pull,
         remote' = [remote EXCEPT !.pulls[i] = p]
  PROVE  /\ remote' \in Remote /\ remote'.branch = remote.branch
         /\ remote'.base = remote.base
         /\ Len(remote'.pulls) = Len(remote.pulls) /\ remote'.pulls[i] = p
         /\ \A j \in DOMAIN remote.pulls :
              j # i => remote'.pulls[j] = remote.pulls[j]
<1>1. remote.pulls \in Seq(Pull) /\ remote \in Remote
  BY DEF PubInv, RemoteFits, Remote
<1>2. PICK s : s = [remote.pulls EXCEPT ![i] = p]
  OBVIOUS
<1>3. remote' = [remote EXCEPT !.pulls = s]
  BY <1>1, <1>2 DEF Remote
<1>4. /\ s \in Seq(Pull) /\ Len(s) = Len(remote.pulls) /\ s[i] = p
      /\ \A j \in DOMAIN remote.pulls : j # i => s[j] = remote.pulls[j]
  BY <1>1, <1>2, SMT
<1>5. QED
  BY <1>1, <1>3, <1>4 DEF Remote

LEMMA PullEditedPubInv == ASSUME PubInv, PullEdited PROVE PubInv'
<1>1. /\ Meddle
      /\ UNCHANGED <<run, commands, ledger, caller, cleaner, bodies>>
  BY DEF PullEdited, vars
<1>2. PICK i \in DOMAIN remote.pulls :
        \/ remote' = [remote EXCEPT !.pulls[i].state = "closed"]
        \/ remote' = [remote EXCEPT !.pulls[i].draft = FALSE]
  BY DEF PullEdited
<1>3. remote.pulls[i] \in Pull
  BY ClosuresNat, SMT
<1>4. PICK p \in Pull : /\ remote' = [remote EXCEPT !.pulls[i] = p]
                        /\ p.marker = remote.pulls[i].marker
                        /\ p.state \in {remote.pulls[i].state, "closed"}
  <2>1. CASE remote' = [remote EXCEPT !.pulls[i].state = "closed"]
    <3>1. PICK p : p = [remote.pulls[i] EXCEPT !.state = "closed"]
      OBVIOUS
    <3>2. remote' = [remote EXCEPT !.pulls[i] = p]
      BY <2>1, <3>1 DEF PubInv, RemoteFits, Remote
    <3>3. /\ p \in Pull /\ p.marker = remote.pulls[i].marker
          /\ p.state = "closed"
      BY <1>3, <3>1 DEF Pull
    <3>4. QED
      BY <3>2, <3>3
  <2>2. CASE remote' = [remote EXCEPT !.pulls[i].draft = FALSE]
    <3>1. PICK p : p = [remote.pulls[i] EXCEPT !.draft = FALSE]
      OBVIOUS
    <3>2. remote' = [remote EXCEPT !.pulls[i] = p]
      BY <2>2, <3>1 DEF PubInv, RemoteFits, Remote
    <3>3. /\ p \in Pull /\ p.marker = remote.pulls[i].marker
          /\ p.state = remote.pulls[i].state
      BY <1>3, <3>1 DEF Pull
    <3>4. QED
      BY <3>2, <3>3
  <2>3. QED
    BY <1>2, <2>1, <2>2
<1>5. /\ remote' \in Remote /\ remote'.branch = remote.branch
      /\ Len(remote'.pulls) = Len(remote.pulls) /\ remote'.pulls[i] = p
      /\ \A j \in DOMAIN remote.pulls :
           j # i => remote'.pulls[j] = remote.pulls[j]
  BY <1>4, PullSet
<1>6. \A j \in DOMAIN remote.pulls :
        /\ remote'.pulls[j].marker = remote.pulls[j].marker
        /\ remote'.pulls[j].state \in {remote.pulls[j].state, "closed"}
  BY <1>4, <1>5
<1>7. QED
  BY <1>1, <1>5, <1>6, OthersPubInv

(* The steps of the cleanup command that change only its own memory.       *)
LEMMA CleanerReadsPubInv ==
  ASSUME PubInv, (\E k \in Keys : LoadCompleted(k)) \/ CloseDraft
                 \/ DeleteBranchInspect
  PROVE  PubInv'
<1>1. UNCHANGED <<run, commands, ledger, caller, remote, bodies, others>>
  BY DEF LoadCompleted, CloseDraft, DeleteBranchInspect, vars
<1>2. Grows
  BY <1>1 DEF Grows
<1>3. CleanerFits'
  <2>1. PICK c : c = cleaner'
    OBVIOUS
  <2>2. /\ DOMAIN c = {"pc", "key"}
        /\ c.pc # "idle" =>
             \/ c.key \in Keys /\ ledger[c.key].state = "completed"
             \/ c.key = cleaner.key /\ cleaner.pc # "idle"
    BY <2>1, SMTT(20) DEF LoadCompleted, CloseDraft, DeleteBranchInspect, PubInv,
                CleanerFits
  <2>3. QED
    BY <1>1, <2>1, <2>2 DEF PubInv, CleanerFits
<1>4. RemoteFits'
  BY <1>1 DEF PubInv, RemoteFits, PullsBounded, OneOpen, NoneOpen, Closures,
              PubClosed
<1>5. QED
  BY <1>1, <1>2, <1>3, <1>4, StillFit, RemotePubInv

(* The closure of the draft is the one closure that is not of others.      *)
LEMMA CloseDraftPatchPubInv == ASSUME PubInv, CloseDraftPatch PROVE PubInv'
<1>1. /\ UNCHANGED <<run, commands, ledger, caller, bodies, others>>
      /\ cleaner.pc = "patch"
  BY DEF CloseDraftPatch, vars
<1>2. PICK k, i : k = cleaner.key /\ i = ledger[k].pull
  OBVIOUS
<1>3. k \in Keys /\ ledger[k].state = "completed" /\ RowFits(k)
  BY ZenonT(30), <1>1, <1>2 DEF PubInv, CleanerFits, LedgerFits
<1>4. /\ i \in DOMAIN remote.pulls
      /\ run.pub # Nil /\ run.pub[3] = i
  BY <1>2, <1>3, SMT DEF RowFits, Marked
<1>5. remote.pulls[i] \in Pull
  BY <1>4, ClosuresNat, SMT
<1>6. PICK p : p = [remote.pulls[i] EXCEPT !.state = "closed"]
  OBVIOUS
<1>7. /\ p \in Pull /\ p.state = "closed"
      /\ p.marker = remote.pulls[i].marker
  BY <1>5, <1>6 DEF Pull
<1>8. remote' = [remote EXCEPT !.pulls[i] = p]
  BY <1>2, <1>4, <1>6 DEF CloseDraftPatch, PubInv, RemoteFits, Remote
<1>9. /\ remote' \in Remote /\ remote'.branch = remote.branch
      /\ Len(remote'.pulls) = Len(remote.pulls) /\ remote'.pulls[i] = p
      /\ \A j \in DOMAIN remote.pulls :
           j # i => remote'.pulls[j] = remote.pulls[j]
  BY <1>4, <1>7, <1>8, PullSet
<1>10. /\ remote'.pulls \in Seq(Pull) /\ Closures \in Nat
       /\ DOMAIN remote'.pulls = DOMAIN remote.pulls /\ others \in Nat
  BY <1>9, ClosuresNat, SMTT(20) DEF Remote
<1>11. Grows
  BY <1>1, <1>7, <1>9, <1>10 DEF Grows
<1>12. PubClosed' /\ (PubClosed <=> remote.pulls[i].state = "closed")
  BY <1>1, <1>4, <1>7, <1>9 DEF PubClosed
<1>13. /\ Closures' = others + 1
       /\ \/ Closures' >= Closures + 1
          \/ remote.pulls[i].state = "closed" /\ Closures' >= Closures
  BY <1>1, <1>10, <1>12, SMTT(20) DEF Closures
<1>14. PullsBounded'
  BY <1>7, <1>9, <1>10, <1>13, BoundedStays, SMTT(20)
<1>15. RemoteFits'
  BY <1>1, <1>9, <1>14 DEF PubInv, RemoteFits
<1>16. CleanerFits'
  <2>1. PICK c : c = cleaner'
    OBVIOUS
  <2>2. DOMAIN c = {"pc", "key"} /\ (c.pc # "idle" => c.key = k)
    BY <1>2, <2>1 DEF CloseDraftPatch, PubInv, CleanerFits
  <2>3. QED
    BY <1>1, <1>3, <2>1, <2>2 DEF CleanerFits
<1>17. QED
  BY <1>1, <1>11, <1>15, <1>16, StillFit, RemotePubInv

LEMMA DeleteBranchPubInv == ASSUME PubInv, DeleteBranch PROVE PubInv'
<1>1. UNCHANGED <<run, commands, ledger, caller, bodies, others>>
  BY DEF DeleteBranch, vars
<1>2. /\ remote' \in Remote /\ remote'.pulls = remote.pulls
      /\ remote'.branch \in {Nil, remote.branch}
  BY DEF DeleteBranch, PubInv, RemoteFits, Remote
<1>3. Grows
  BY <1>1, <1>2 DEF Grows
<1>4. RemoteFits'
  <2>1. PullsBounded'
    BY <1>1, <1>2 DEF PubInv, RemoteFits, PullsBounded, OneOpen, NoneOpen,
                      Closures, PubClosed
  <2>2. QED
    BY <1>1, <1>2, <2>1, PublicationAssumption DEF PubInv, RemoteFits
<1>5. CleanerFits'
  BY DEF DeleteBranch, CleanerFits
<1>6. QED
  BY <1>1, <1>3, <1>4, <1>5, StillFit, RemotePubInv

-----------------------------------------------------------------------------
(* A key that is refused: neither callers nor rows change.                 *)
LEMMA UnmovedPubInv ==
  ASSUME PubInv, Unseen, UNCHANGED caller PROVE PubInv'
<1>1. CallersFit'
  BY UnseenGrows, StillFit
<1>2. QED
  BY <1>1, UnseenRest DEF PubInv

LEMMA ListTasksFailsPubInv ==
  ASSUME PubInv, NEW w, NEW k, ListTasksFails(w, k) PROVE PubInv'
<1>1. Unseen /\ UNCHANGED caller
  BY DEF ListTasksFails, Unseen, vars
<1>2. QED
  BY <1>1, UnmovedPubInv

(* Every step keeps the invariant.                                         *)
LEMMA NextPubInv == PubInv /\ [PubNext]_allVars => PubInv'
<1> SUFFICES ASSUME PubInv, [PubNext]_allVars PROVE PubInv'
  OBVIOUS
<1>1. ASSUME NEW w \in Callers, Step(w) PROVE PubInv'
  BY <1>1, InsertPubInv, LoadPubInv, RollbackPubInv, LooksPubInv, PushPubInv,
     SaveBranchPubInv, FindsPubInv, CreateDraftPubInv, SavePullRequestPubInv,
     RecordPubInv, CompletePubInv, EndsPubInv DEF Step
<1>2. CASE \E w \in Callers :
             \/ \E k \in Keys : Submit(w, k) \/ ListTasksFails(w, k)
             \/ Step(w) \/ Fails(w) \/ Death(w)
  BY <1>1, <1>2, SubmitPubInv, ListTasksFailsPubInv, FailsPubInv, EndsPubInv
<1>3. CASE BaseMoves \/ BranchMoves \/ PullEdited
  BY <1>3, BaseMovesPubInv, BranchMovesPubInv, PullEditedPubInv
<1>4. CASE Cleanup
  BY <1>4, CleanerReadsPubInv, CloseDraftPatchPubInv, DeleteBranchPubInv
  DEF Cleanup
<1>5. CASE UNCHANGED allVars
  <2>1. Unseen /\ UNCHANGED caller
    BY <1>5 DEF allVars, vars, pubVars, Unseen
  <2>2. QED
    BY <2>1, UnmovedPubInv
<1>6. QED
  BY <1>2, <1>3, <1>4, <1>5 DEF PubNext

(* The invariant holds throughout.                                         *)
LEMMA AlwaysPubInv == PubSafety => []PubInv
BY InitPubInv, NextPubInv, PTL DEF PubSafety

-----------------------------------------------------------------------------
(* What is published was approved.                                         *)

(* A candidate is on the branch only under evidence that Publish found     *)
(* complete and consistent, and that evidence, which is immutable, says    *)
(* that the approval rests on the passing verification and review of this  *)
(* very commit (artifactsMatch before the push, in Publish).               *)
THEOREM PublicationIsApproved == PubSafety => []PublishedWasApproved
<1>1. PubInv => PublishedWasApproved
  <2> SUFFICES ASSUME PubInv, remote.branch = Candidate
               PROVE  PublishedWasApproved
    BY DEF PublishedWasApproved
  <2>1. artifactsMatch(Evidence, bodies) /\ run.approval = Evidence.approval
    BY DEF PubInv, RemoteFits, RunFits
  <2>2. PICK e, v, r, a :
          /\ e = bodies[Evidence.exec] /\ v = bodies[Evidence.verif]
          /\ r = bodies[Evidence.review] /\ a = bodies[Evidence.approval]
    OBVIOUS
  <2>3. /\ a.decision = "approve" /\ a.run = RunID
        /\ a.verif = Evidence.verif /\ a.review = Evidence.review
        /\ r.passed /\ r.recommendation = "advisory_accept"
        /\ r.verif = Evidence.verif
        /\ v.exec = Evidence.exec /\ e.candidate = Candidate
        /\ \A c \in v.checks :
             c.passed /\ ~c.timedOut /\ c.candidate = Candidate
        /\ \A c \in v.coverage : c.passed /\ c.checks # {}
    BY <2>1, <2>2 DEF artifactsMatch, ofThisRun, verificationPassed
  <2>4. QED
    BY <2>1, <2>2, <2>3, ZenonT(40) DEF PublishedWasApproved
<1>2. QED
  BY <1>1, AlwaysPubInv, PTL

-----------------------------------------------------------------------------
(* Work of others on the branch.                                           *)

(* No push and no deletion takes away what others have put on the branch:  *)
(* the lease of the push expects no branch, and the lease of the deletion  *)
(* the candidate (git.go, DeleteBranch).                                   *)
THEOREM ForeignWorkIsKept == PubSafety => ForeignWorkSurvives
<1>1. ASSUME PubInv, PubNext, remote.branch = Foreign
      PROVE  remote'.branch = Foreign
  <2>1. /\ remote \in Remote /\ Foreign # Nil /\ Foreign # Candidate
    BY <1>1, PublicationAssumption DEF PubInv, RemoteFits
  <2>2. CASE \E w \in Callers : Push(w)
    BY <1>1, <2>1, <2>2 DEF Push, emptyLease
  <2>3. CASE DeleteBranch
    BY <1>1, <2>1, <2>3 DEF DeleteBranch, exactLease
  <2>4. CASE \E w \in Callers : CreateDraft(w)
    BY <1>1, <2>1, <2>4 DEF CreateDraft, Remote
  <2>5. CASE BaseMoves \/ BranchMoves
    BY <1>1, <2>1, <2>5 DEF BaseMoves, BranchMoves, Remote
  <2>6. CASE PullEdited \/ CloseDraftPatch
    BY <1>1, <2>1, <2>6 DEF PullEdited, CloseDraftPatch, Remote
  <2>7. CASE UNCHANGED remote
    BY <1>1, <2>7
  <2>8. QED
    BY ZenonT(30), <1>1, <2>2, <2>3, <2>4, <2>5, <2>6, <2>7
    DEF PubNext, Submit, ListTasksFails, Step, Fails, Death, Cleanup, Insert,
        Load, Rollback, BaseHead, BranchHead, BranchHeadAgain, SaveBranch,
        RecheckBase, Find, Recover, RecoverAgain, SavePullRequest, Record, Complete, Answer,
        LoadCompleted, CloseDraft, DeleteBranchInspect
<1>2. PubInv /\ [PubNext]_allVars =>
        [remote.branch = Foreign => remote'.branch = Foreign]_allVars
  BY <1>1
<1>3. QED
  BY <1>2, AlwaysPubInv, PTL DEF PubSafety, ForeignWorkSurvives

-----------------------------------------------------------------------------
(* The ledger.                                                             *)

(* The ways in which a row r becomes q.                                    *)
Becomes(r, q) ==
  \/ q = r
  \/ r.state = "NONE" /\ q.state = "reserved" /\ q.artifact = Nil
  \/ r.state = "reserved" /\ q = NoRow
  \/ r.state = "reserved" /\ q.state = "branch_ready" /\ q.artifact = Nil
  \/ r.state = "branch_ready" /\ q.state = "pr_ready" /\ q.artifact = Nil
  \/ /\ r.state = "pr_ready" /\ q.state = "completed" /\ q.pull = r.pull
     /\ q.artifact = run.pub

(* A caller writes one row, and no other step does.                        *)
LEMMA RowChanges ==
  ASSUME PubInv, [PubNext]_allVars
  PROVE  \/ UNCHANGED ledger
         \/ /\ UNCHANGED returned
            /\ \E k \in Keys : \E q : /\ ledger' = [ledger EXCEPT ![k] = q]
                                      /\ Becomes(ledger[k], q)
<1>1. ASSUME NEW w \in Callers, Insert(w) \/ Rollback(w) \/ SaveBranch(w)
                                  \/ SavePullRequest(w) \/ Complete(w)
      PROVE  \/ UNCHANGED ledger
             \/ \E q : /\ ledger' = [ledger EXCEPT ![my(w)] = q]
                       /\ Becomes(ledger[my(w)], q)
  <2>1. PICK k, r : k = my(w) /\ r = ledger[k]
    OBVIOUS
  <2>2. ~at(w, "idle")
    BY <1>1 DEF Insert, Rollback, SaveBranch, SavePullRequest, Complete, at
  <2>3. /\ k \in Keys /\ DOMAIN r = {"state", "rev", "pull", "artifact"}
        /\ row(w) = r /\ (r.state # "completed" => r.artifact = Nil)
    BY <2>1, <2>2, MyRow DEF RowFits
  <2>4. CASE Insert(w)
    <3>1. PICK q : q = IF r.state = "NONE"
                       THEN [NoRow EXCEPT !.state = "reserved",
                                          !.rev = caller[w].rev]
                       ELSE r
      OBVIOUS
    <3>2. Becomes(r, q)
      BY <3>1 DEF Becomes, NoRow
    <3>3. ledger' = [ledger EXCEPT ![k] = q]
      BY <2>1, <2>4, <3>1 DEF Insert
    <3>4. QED
      BY <2>1, <3>2, <3>3
  <2>5. CASE Rollback(w)
    <3>1. PICK q : q = IF rollbackable(r) THEN NoRow ELSE r
      OBVIOUS
    <3>2. Becomes(r, q)
      BY <3>1 DEF Becomes, rollbackable
    <3>3. ledger' = [ledger EXCEPT ![k] = q]
      BY <2>1, <2>5, <3>1 DEF Rollback
    <3>4. QED
      BY <2>1, <3>2, <3>3
  <2>6. CASE SaveBranch(w) /\ advances(row(w), "reserved")
    <3>1. PICK q : q = [r EXCEPT !.state = "branch_ready"]
      OBVIOUS
    <3>2. Becomes(r, q)
      BY <2>3, <2>6, <3>1 DEF Becomes, advances
    <3>3. ledger' = [ledger EXCEPT ![k] = q]
      BY <2>1, <2>6, <3>1 DEF SaveBranch
    <3>4. QED
      BY <2>1, <3>2, <3>3
  <2>7. CASE SavePullRequest(w) /\ advances(row(w), "branch_ready")
    <3>1. PICK q : q = [r EXCEPT !.state = "pr_ready", !.pull = caller[w].pull]
      OBVIOUS
    <3>2. Becomes(r, q)
      BY <2>3, <2>7, <3>1 DEF Becomes, advances
    <3>3. ledger' = [ledger EXCEPT ![k].state = "pr_ready",
                                   ![k].pull = caller[w].pull]
      BY <2>1, <2>7 DEF SavePullRequest
    <3>4. ledger' = [ledger EXCEPT ![k] = q]
      BY <2>1, <2>3, <3>1, <3>3 DEF PubInv, LedgerFits
    <3>5. QED
      BY <2>1, <3>2, <3>4
  <2>8. CASE Complete(w) /\ advances(row(w), "pr_ready")
    <3>1. artifactOf(w) = run.pub
      BY <2>1, <2>2, <2>8, MyRow DEF Fits, at, my, artifactOf, Complete
    <3>2. PICK q : q = [r EXCEPT !.state = "completed", !.artifact = run.pub]
      OBVIOUS
    <3>3. Becomes(r, q)
      BY <2>3, <2>8, <3>2 DEF Becomes, advances
    <3>4. ledger' = [ledger EXCEPT ![k].state = "completed",
                                   ![k].artifact = run.pub]
      BY <2>1, <2>8, <3>1 DEF Complete
    <3>5. ledger' = [ledger EXCEPT ![k] = q]
      BY <2>1, <2>3, <3>2, <3>4 DEF PubInv, LedgerFits
    <3>6. QED
      BY <2>1, <3>3, <3>5
  <2>9. QED
    BY <1>1, <2>4, <2>5, <2>6, <2>7, <2>8
    DEF SaveBranch, SavePullRequest, Complete
<1>2. ASSUME NEW w \in Callers, Insert(w) \/ Rollback(w) \/ SaveBranch(w)
                                  \/ SavePullRequest(w) \/ Complete(w)
      PROVE  my(w) \in Keys /\ UNCHANGED returned
  <2>1. ~at(w, "idle") /\ UNCHANGED returned
    BY <1>2 DEF Insert, Rollback, SaveBranch, SavePullRequest, Complete, at
  <2>2. QED
    BY <2>1, MyRow
<1>3. \/ UNCHANGED ledger
      \/ \E w \in Callers : Insert(w) \/ Rollback(w) \/ SaveBranch(w)
                              \/ SavePullRequest(w) \/ Complete(w)
  BY DEF PubNext, allVars, pubVars, Submit, ListTasksFails, Step, Fails,
         Death, Cleanup, Load, BaseHead, BranchHead, BranchHeadAgain, RecheckBase, Find, Push,
         CreateDraft, Recover, RecoverAgain, Record, Answer, BaseMoves,
         BranchMoves, PullEdited, LoadCompleted, CloseDraft, CloseDraftPatch,
         DeleteBranchInspect, DeleteBranch
<1>4. QED
  BY <1>1, <1>2, <1>3

LEMMA StateIndex ==
  /\ Range(States) =
       {"NONE", "reserved", "branch_ready", "pr_ready", "completed"}
  /\ indexOf("NONE") = 1 /\ indexOf("reserved") = 2
  /\ indexOf("branch_ready") = 3 /\ indexOf("pr_ready") = 4
  /\ indexOf("completed") = 5
<1>1. Range(States) =
        {"NONE", "reserved", "branch_ready", "pr_ready", "completed"}
  BY SMT DEF Range, States
<1>2. indexOf("NONE") = 1
  BY SMT DEF indexOf, States
<1>3. indexOf("reserved") = 2
  BY SMT DEF indexOf, States
<1>4. indexOf("branch_ready") = 3
  BY SMT DEF indexOf, States
<1>5. indexOf("pr_ready") = 4
  BY SMT DEF indexOf, States
<1>6. indexOf("completed") = 5
  BY SMT DEF indexOf, States
<1>7. QED
  BY <1>1, <1>2, <1>3, <1>4, <1>5, <1>6

LEMMA LedgerInvariants ==
  PubInv => PubTypeOK /\ PullIsMarked /\ CheckpointBeforeMutation
<1> SUFFICES ASSUME PubInv
             PROVE  PubTypeOK /\ PullIsMarked /\ CheckpointBeforeMutation
  OBVIOUS
<1>1. remote.pulls \in Seq(Pull) /\ DOMAIN remote.pulls \subseteq Nat
  BY ClosuresNat, SMTT(20)
<1>2. PubTypeOK
  <2>1. ASSUME NEW k \in Keys
        PROVE  /\ ledger[k].state \in Range(States)
               /\ ledger[k].pull # Nil <=> ledger[k].state \in Marked
               /\ ledger[k].artifact # Nil <=> ledger[k].state = "completed"
    <3>1. RowFits(k) /\ Nil \notin Nat
      BY PublicationAssumption DEF PubInv, LedgerFits
    <3>2. QED
      BY <1>1, <3>1, StateIndex DEF RowFits, Marked
  <2>2. /\ remote.branch \in {Nil, Candidate, Foreign}
        /\ remote.base \in {Base, Foreign}
    BY DEF PubInv, RemoteFits, Remote
  <2>3. ASSUME NEW i \in DOMAIN remote.pulls
        PROVE  remote.pulls[i].marker \in Keys
    <3>1. remote.pulls[i] \in Pull
      BY <1>1, SMT
    <3>2. QED
      BY <3>1 DEF Pull
  <2>4. QED
    BY <2>1, <2>2, <2>3, SMT DEF PubTypeOK, Marked
<1>3. PullIsMarked
  BY DEF PubInv, LedgerFits, RowFits, PullIsMarked
<1>4. CheckpointBeforeMutation
  BY DEF PubInv, RunFits
<1>5. QED
  BY <1>2, <1>3, <1>4

LEMMA LedgerStep ==
  ASSUME PubInv, [PubNext]_allVars, NEW k \in Keys
  PROVE  \/ /\ indexOf(ledger[k].state) <= indexOf(ledger'[k].state)
            /\ ledger[k].pull # Nil => ledger'[k].pull = ledger[k].pull
         \/ ledger[k].state = "reserved" /\ ledger'[k] = NoRow
<1>1. PICK r, q : r = ledger[k] /\ q = ledger'[k]
  OBVIOUS
<1>2. Becomes(r, q)
  <2>1. CASE ledger' = ledger
    BY <1>1, <2>1 DEF Becomes
  <2>2. ASSUME NEW j \in Keys, NEW p, ledger' = [ledger EXCEPT ![j] = p],
               Becomes(ledger[j], p)
        PROVE  Becomes(r, q)
    <3>1. CASE j = k
      BY <1>1, <2>2, <3>1 DEF PubInv, LedgerFits
    <3>2. CASE j # k
      BY <1>1, <2>2, <3>2 DEF PubInv, LedgerFits, Becomes
    <3>3. QED
      BY <3>1, <3>2
  <2>3. QED
    BY <2>1, <2>2, RowChanges
<1>3. /\ r.state \in
           {"NONE", "reserved", "branch_ready", "pr_ready", "completed"}
      /\ r.state \notin Marked => r.pull = Nil
  BY <1>1 DEF PubInv, LedgerFits, RowFits
<1>4. \/ /\ indexOf(r.state) <= indexOf(q.state)
         /\ r.pull # Nil => q.pull = r.pull
      \/ r.state = "reserved" /\ q = NoRow
  BY <1>2, <1>3, StateIndex, SMTT(20) DEF Becomes, Marked
<1>5. QED
  BY <1>1, <1>4

(* The results of the ledger are write-once results.                       *)
LEMMA OutcomeInit == PubInit => Outcome!Init
<1> SUFFICES ASSUME PubInit PROVE Outcome!Init
  OBVIOUS
<1>1. \A k \in Keys : ledger[k].artifact = Nil
  BY DEF PubInit, NoRow
<1>2. returned = {}
  BY DEF PubInit
<1>3. QED
  BY <1>1, <1>2 DEF Outcome!Init

LEMMA OutcomeStutters ==
  ASSUME \A k \in Keys : ledger'[k].artifact = ledger[k].artifact,
         UNCHANGED returned
  PROVE  UNCHANGED Outcome!vars
<1>1. [k \in Keys |-> ledger'[k].artifact]
        = [k \in Keys |-> ledger[k].artifact]
  OBVIOUS
<1>2. QED
  BY <1>1 DEF Outcome!vars

(* The artifact that a completion writes is one of the bounded results.    *)
LEMMA CompletedResult ==
  ASSUME PubInv, NEW k \in Keys, ledger[k].state \in Marked,
         run.pub = <<"draft", k, ledger[k].pull>>
  PROVE  run.pub \in Drafts
<1>1. PICK i : i = ledger[k].pull
  OBVIOUS
<1>2. i \in 1..Len(remote.pulls)
  BY <1>1, ClosuresNat DEF PubInv, LedgerFits, RowFits
<1>3. Len(remote.pulls) <= 2 + MaxOthers /\ Len(remote.pulls) \in Nat
  BY ClosuresNat, PublicationAssumption, SMTT(20)
  DEF PubInv, RemoteFits, PullsBounded, Closures
<1>4. i \in 1..2 + MaxOthers
  BY <1>2, <1>3, PublicationAssumption, SMT
<1>5. QED
  BY <1>1, <1>4, SMTT(20) DEF Drafts

LEMMA OutcomeStep ==
  PubInv /\ [PubNext]_allVars => [Outcome!Next]_(Outcome!vars)
<1> SUFFICES ASSUME PubInv, [PubNext]_allVars
             PROVE  Outcome!Next \/ UNCHANGED Outcome!vars
  OBVIOUS
<1>1. ASSUME NEW w \in Callers, Answer(w) PROVE Outcome!Next
  <2>1. PICK k, a : k = my(w) /\ a = ledger[k].artifact
    OBVIOUS
  <2>2. ~at(w, "idle") /\ at(w, "answer")
    BY <1>1 DEF Answer, at
  <2>3. k \in Keys /\ RowFits(k) /\ ledger[k].state = "completed"
    BY <2>1, <2>2, MyRow DEF Fits, at, my
  <2>4. a # Nil
    BY <2>1, <2>3 DEF RowFits
  <2>5. artifactOf(w) = a
    BY <2>1, <2>2, MyRow DEF Fits, at, my, artifactOf
  <2>6. returned' = returned \cup {<<k, a>>} /\ ledger' = ledger
    BY <1>1, <2>1, <2>5 DEF Answer
  <2>7. Outcome!Return(k)
    BY <2>1, <2>3, <2>4, <2>6 DEF Outcome!Return
  <2>8. QED
    BY <2>3, <2>7 DEF Outcome!Next
<1>2. ASSUME NEW k \in Keys, NEW q, ledger' = [ledger EXCEPT ![k] = q],
             Becomes(ledger[k], q), UNCHANGED returned
      PROVE  Outcome!Next \/ UNCHANGED Outcome!vars
  <2>1. /\ ledger'[k] = q
        /\ \A j \in Keys : j # k => ledger'[j] = ledger[j]
    BY <1>2 DEF PubInv, LedgerFits
  <2>2. PICK r : r = ledger[k]
    OBVIOUS
  <2>3. RowFits(k)
    BY DEF PubInv, LedgerFits
  <2>4. CASE q.artifact = r.artifact
    <3>1. \A j \in Keys : ledger'[j].artifact = ledger[j].artifact
      BY <2>1, <2>2, <2>4
    <3>2. QED
      BY <1>2, <3>1, OutcomeStutters
  <2>5. CASE /\ r.state = "pr_ready" /\ q.state = "completed"
             /\ q.pull = r.pull /\ q.artifact = run.pub
    <3>1. RowFits(k)'
      BY NextPubInv DEF PubInv, LedgerFits
    <3>2. run.pub = <<"draft", k, r.pull>>
      BY <2>1, <2>5, <3>1 DEF RowFits
    <3>3. PICK v : v = run.pub
      OBVIOUS
    <3>4. v \in Drafts
      BY <2>2, <2>5, <3>2, <3>3, CompletedResult DEF Marked
    <3>5. PICK f, g : /\ f = [j \in Keys |-> ledger[j].artifact]
                      /\ g = [j \in Keys |-> ledger'[j].artifact]
      OBVIOUS
    <3>6. f[k] = Nil
      BY <2>2, <2>3, <2>5, <3>5 DEF RowFits
    <3>7. \A j \in Keys : g[j] = IF j = k THEN v ELSE f[j]
      BY <2>1, <2>5, <3>3, <3>5
    <3>8. g = [f EXCEPT ![k] = v]
      BY <3>5, <3>7
    <3>9. Outcome!Record(k, v)
      BY <1>2, <3>5, <3>6, <3>8 DEF Outcome!Record
    <3>10. QED
      BY <3>4, <3>9 DEF Outcome!Next
  <2>6. QED
    BY <1>2, <2>2, <2>3, <2>4, <2>5, SMTT(20) DEF Becomes, RowFits, NoRow
<1>3. UNCHANGED returned \/ \E w \in Callers : Answer(w)
  BY ZenonT(30) DEF PubNext, allVars, pubVars, Submit, ListTasksFails, Step,
         Fails, Death, Cleanup, Load, Insert, Rollback, SaveBranch,
         SavePullRequest, Complete, BaseHead, BranchHead, BranchHeadAgain, RecheckBase, Find, Push,
         CreateDraft, Recover, RecoverAgain, Record, BaseMoves,
         BranchMoves, PullEdited, LoadCompleted, CloseDraft, CloseDraftPatch,
         DeleteBranchInspect, DeleteBranch
<1>4. CASE UNCHANGED <<ledger, returned>>
  BY <1>4, OutcomeStutters
<1>5. QED
  BY <1>1, <1>2, <1>3, <1>4, RowChanges

(* A publication has its own pull request in its row before the run        *)
(* records it, its row only advances or is deleted while it is a           *)
(* reservation, and its one artifact is what every caller is given,        *)
(* however many callers work on a key and whatever others do               *)
(* (repository.go, service.go).                                            *)
THEOREM LedgerComesFirst == PubSafety => LedgerLeads
<1>1. PubSafety => [](PubTypeOK /\ PullIsMarked /\ CheckpointBeforeMutation)
  BY AlwaysPubInv, LedgerInvariants, PTL
<1>2. PubSafety => LedgerAdvances
  <2>1. PubInv /\ [PubNext]_allVars =>
          [\A k \in Keys :
             \/ /\ indexOf(ledger[k].state) <= indexOf(ledger'[k].state)
                /\ ledger[k].pull # Nil => ledger'[k].pull = ledger[k].pull
             \/ ledger[k].state = "reserved" /\ ledger'[k] = NoRow]_allVars
    BY LedgerStep
  <2>2. QED
    BY <2>1, AlwaysPubInv, PTL DEF PubSafety, LedgerAdvances
<1>3. PubSafety => PublicationsImplementWriteOnce
  BY OutcomeInit, OutcomeStep, AlwaysPubInv, PTL
  DEF PubSafety, PublicationsImplementWriteOnce, Outcome!Spec
<1>4. QED
  BY <1>1, <1>2, <1>3 DEF LedgerLeads

-----------------------------------------------------------------------------
(* The algorithm of taskGraphAcyclic.                                      *)
INSTANCE FiniteSetTheorems

(* A nonempty set of natural numbers has a least member.                   *)
LEMMA Least ==
  ASSUME NEW S, S \subseteq Nat, S # {}
  PROVE  \E n \in S : \A k \in S : n <= k
<1>1. PICK R : R = OpToRel(<, Nat)
  OBVIOUS
<1>2. IsWellFoundedOn(R, Nat)
  BY <1>1, NatLessThanWellFounded
<1>3. PICK x \in S : \A y \in S : ~(<<y, x>> \in R)
  BY <1>2, WFMin
<1>4. \A i, j \in Nat : <<i, j>> \in R <=> i < j
  BY <1>1, SMTT(20) DEF OpToRel
<1>5. ASSUME NEW k \in S PROVE x <= k
  <2>1. x \in Nat /\ k \in Nat
    OBVIOUS
  <2>2. ~(k < x)
    BY <1>3, <1>4, <2>1
  <2>3. QED
    BY <2>1, <2>2, SMTT(20)
<1>6. QED
  BY <1>5

(* The tasks that are dequeued once those of V are, and the rounds of the  *)
(* algorithm up to round n.                                                *)
Round(ids, edges, V) == {t \in ids : \A e \in edges : e[1] = t => e[2] \in V}
IsRounds(ids, edges, n, f) ==
  f = [k \in 0..n |-> IF k = 0 THEN {} ELSE Round(ids, edges, f[k - 1])]

(* The rounds are well defined.                                            *)
LEMMA RoundsExist ==
  ASSUME NEW ids, NEW edges, NEW N \in Nat
  PROVE  \E f : IsRounds(ids, edges, N, f)
<1> DEFINE Bad == {n \in Nat : ~\E f : IsRounds(ids, edges, n, f)}
<1>1. SUFFICES ASSUME Bad # {} PROVE FALSE
  OBVIOUS
<1>2. PICK n \in Bad : \A k \in Bad : n <= k
  BY <1>1, Least
<1>3. n # 0
  <2>1. IsRounds(ids, edges, 0, [k \in 0..0 |-> {}])
    BY SMT DEF IsRounds
  <2>2. QED
    BY <2>1
<1>4. n \in Nat /\ n - 1 \in Nat /\ ~(n <= n - 1)
  BY <1>3, SMT
<1>5. n - 1 \notin Bad
  BY <1>2, <1>4
<1>6. PICK f : IsRounds(ids, edges, n - 1, f)
  BY <1>4, <1>5
<1> DEFINE g == [k \in 0..n |-> IF k = 0 THEN {} ELSE Round(ids, edges, f[k - 1])]
<1>7. ASSUME NEW k \in 0..(n - 1) PROVE g[k] = f[k]
  <2>1. k \in 0..n
    BY <1>4, SMTT(20)
  <2>2. f = [j \in 0..(n - 1) |-> IF j = 0 THEN {} ELSE Round(ids, edges, f[j - 1])]
    BY <1>6 DEF IsRounds
  <2>3. f[k] = IF k = 0 THEN {} ELSE Round(ids, edges, f[k - 1])
    BY <2>2
  <2>4. QED
    BY <2>1, <2>3
<1>8. ASSUME NEW k \in 0..n, k # 0 PROVE g[k - 1] = f[k - 1]
  <2>1. k - 1 \in 0..(n - 1)
    BY <1>4, <1>8, SMTT(20)
  <2>2. QED
    BY <1>7, <2>1
<1>9. IsRounds(ids, edges, n, g)
  <2>1. \A k \in 0..n : (IF k = 0 THEN {} ELSE Round(ids, edges, f[k - 1]))
                        = (IF k = 0 THEN {} ELSE Round(ids, edges, g[k - 1]))
    BY <1>8
  <2>2. g = [k \in 0..n |-> IF k = 0 THEN {} ELSE Round(ids, edges, g[k - 1])]
    BY <2>1
  <2>3. QED
    BY <2>2 DEF IsRounds
<1>10. QED
  BY <1>2, <1>9

(* In an accepted graph the rounds end with every task.                    *)
LEMMA AcyclicRounds ==
  ASSUME NEW ids, NEW edges, Cardinality(ids) \in Nat,
         taskGraphAcyclic(ids, edges)
  PROVE  \E f : IsRounds(ids, edges, Cardinality(ids), f) /\ f[Cardinality(ids)] = ids
<1> DEFINE N == Cardinality(ids)
           V == CHOOSE f : IsRounds(ids, edges, N, f)
<1>1. IsRounds(ids, edges, N, V)
  BY RoundsExist
<1>2. V[N] = ids
  BY DEF taskGraphAcyclic, IsRounds, Round
<1>3. QED
  BY <1>1, <1>2

(* A graph that taskGraphAcyclic accepts is well founded: of any set of    *)
(* its tasks, one depends on none of them.                                 *)
LEMMA AcyclicGrounded ==
  ASSUME NEW ids, NEW edges, Cardinality(ids) \in Nat,
         taskGraphAcyclic(ids, edges),
         NEW S, S \subseteq ids, S # {}
  PROVE  \E t \in S : \A p \in S : <<t, p>> \notin edges
<1> DEFINE N == Cardinality(ids)
<1>1. PICK f : IsRounds(ids, edges, N, f) /\ f[N] = ids
  BY AcyclicRounds
<1> DEFINE Hit == {n \in Nat : n <= N /\ f[n] \cap S # {}}
<1>2. N \in Hit
  <2>1. N <= N
    BY SMT
  <2>2. QED
    BY <1>1, <2>1
<1>3. PICK n \in Hit : \A k \in Hit : n <= k
  BY <1>2, Least
<1>4. n \in 0..N
  BY <1>3, SMTT(20)
<1>5. f[n] = IF n = 0 THEN {} ELSE Round(ids, edges, f[n - 1])
  <2>1. f = [k \in 0..N |-> IF k = 0 THEN {} ELSE Round(ids, edges, f[k - 1])]
    BY <1>1 DEF IsRounds
  <2>2. QED
    BY <1>4, <2>1
<1>6. PICK t \in S : t \in f[n]
  BY <1>3
<1>7. n # 0 /\ t \in Round(ids, edges, f[n - 1])
  BY <1>5, <1>6
<1>8. n - 1 \in Nat /\ n - 1 <= N /\ ~(n <= n - 1)
  BY <1>3, <1>7, SMTT(20)
<1>9. f[n - 1] \cap S = {}
  BY <1>3, <1>8
<1>10. ASSUME NEW p \in S, <<t, p>> \in edges PROVE FALSE
  <2>1. <<t, p>>[1] = t /\ <<t, p>>[2] = p
    OBVIOUS
  <2>2. p \in f[n - 1]
    BY <1>7, <1>10, <2>1 DEF Round
  <2>3. QED
    BY <1>9, <2>2
<1>11. QED
  BY <1>10
-----------------------------------------------------------------------------
(* A started plan does not stall on its graph.                             *)

(* The dependencies are well founded, and a task is cancelled only with    *)
(* its run.                                                                *)
Grounded ==
  \A S \in SUBSET Tasks :
    S # {} => \E t \in S : \A p \in S : <<t, p>> \notin deps

CancelledWithRun ==
  (\E t \in Tasks : task[t].state = "CANCELLED") => run.state = "CANCELLED"

StartInv == Grounded /\ CancelledWithRun

(* Plan approval installs a well-founded graph.                            *)
LEMMA PlansGrounded ==
  ASSUME NEW ids, NEW edges, Plans(ids, edges)
  PROVE  Grounded'
<1>1. /\ ids \subseteq Tasks /\ deps' = edges /\ taskGraphAcyclic(ids, edges)
      /\ \A d, p \in Tasks : <<d, p>> \in edges => d \in ids /\ p \in ids
  BY DEF Plans
<1>2. Cardinality(ids) \in Nat
  BY <1>1, FiniteAssumption, FS_Subset, FS_CardinalityType
<1>3. ASSUME NEW S \in SUBSET Tasks, S # {}
      PROVE  \E t \in S : \A p \in S : <<t, p>> \notin edges
  <2>1. CASE S \subseteq ids
    BY <1>1, <1>2, <1>3, <2>1, AcyclicGrounded
  <2>2. CASE ~(S \subseteq ids)
    <3>1. PICK t \in S : t \notin ids
      BY <2>2
    <3>2. \A p \in S : <<t, p>> \notin edges
      BY <1>1, <3>1
    <3>3. QED
      BY <3>2
  <2>3. QED
    BY <2>1, <2>2
<1>4. QED
  BY <1>1, <1>3 DEF Grounded

(* Every step keeps the graph well founded and its tasks uncancelled until *)
(* the run is cancelled.                                                   *)
LEMMA StartInductive ==
  ASSUME IInv, StartInv, [Next]_vars
  PROVE  StartInv'
<1>1. TypeOK /\ RowsInv
  BY DEF IInv
<1>2. CASE \E m, digest, next : RunWrite(m, digest, next)
  <2>1. PICK m, digest, next : RunWrite(m, digest, next)
    BY <1>2
  <2>2. /\ run'.state = next.state /\ task' = task /\ deps' = deps
        /\ run.state # "CANCELLED"
    BY <1>1, <2>1, RunWrote DEF RunWrite, RunMove, TerminalRunStates
  <2>3. QED
    BY <2>2 DEF StartInv, Grounded, CancelledWithRun
<1>3. CASE \E t \in Tasks : \E m, digest, next : TaskWrite(m, digest, t, next)
  <2>0. PICK t \in Tasks : \E m, digest, next : TaskWrite(m, digest, t, next)
    BY <1>3
  <2>1. PICK m, digest, next : TaskWrite(m, digest, t, next)
    BY <2>0
  <2>2. TaskRowsAfter(t, next)
    BY <2>1, TaskStatesAfter
  <2>3. run' = run /\ deps' = deps
    BY <2>2 DEF TaskRowsAfter
  <2>4. next.state # "CANCELLED"
    BY <2>1 DEF TaskWrite, Moves
  <2>5. \A u \in Tasks : task'[u].state = "CANCELLED" => task[u].state = "CANCELLED"
    BY <2>2, <2>4 DEF TaskRowsAfter
  <2>6. QED
    BY <2>3, <2>5 DEF StartInv, Grounded, CancelledWithRun
<1>4. CASE \E m, digest, ids, edges :
             Wrote(m, digest, RunID, {RunID} \cup ids) /\ Plans(ids, edges)
  <2>1. PICK ids, edges : Plans(ids, edges)
    BY <1>4
  <2>2. \A t \in Tasks : task[t].state = "NONE"
    BY <2>1 DEF IInv, PlanInv, RunPhase, Planned, Plans
  <2>3. \A t \in Tasks : task'[t].state # "CANCELLED"
    BY <2>1, <2>2 DEF Plans
  <2>4. QED
    BY <2>1, <2>3, PlansGrounded DEF StartInv, CancelledWithRun
<1>5. CASE CancelRun
  <2>1. run'.state = "CANCELLED" /\ deps' = deps
    BY <1>1, <1>5, CancelWrote
  <2>2. QED
    BY <2>1 DEF StartInv, Grounded, CancelledWithRun
<1>6. CASE UNCHANGED vars
  BY <1>6 DEF StartInv, Grounded, CancelledWithRun, vars
<1>7. QED
  BY <1>2, <1>3, <1>4, <1>5, <1>6, Classes

(* Whatever the task graph, a plan that has started is done, has a failed  *)
(* task, or has a task that is out of PENDING and not finished: the cycle  *)
(* check of taskGraphAcyclic and the wake-ups of makeDependentsReady       *)
(* together leave no set of tasks waiting for one another.                 *)
THEOREM GraphsDoNotStarve == Spec => []NoStarvedGraph
<1>1. Init => StartInv
  <2> SUFFICES ASSUME Init PROVE StartInv
    OBVIOUS
  <2>1. deps = {} /\ \A t \in Tasks : task[t].state = "NONE"
    BY DEF Init, NoTask
  <2>2. QED
    BY <2>1 DEF StartInv, Grounded, CancelledWithRun
<1>2. IInv /\ StartInv /\ [Next]_vars => StartInv'
  BY StartInductive
<1>3. ASSUME IInv, StartInv PROVE NoStarvedGraph
  <2> DEFINE W == {t \in Planned : task[t].state = "PENDING"}
  <2> SUFFICES ASSUME run.state \in {"READY", "EXECUTING"},
                      ~\A t \in Planned : task[t].state = "ACCEPTED",
                      ~\E t \in Planned : task[t].state = "FAILED",
                      ~\E t \in Planned : task[t].state \notin
                                            TerminalTaskStates \cup {"PENDING"}
               PROVE  FALSE
    BY DEF NoStarvedGraph
  <2>1. \A t \in Planned : t \in Tasks /\ task[t].state \in {"ACCEPTED", "PENDING"}
    BY <1>3 DEF Planned, StartInv, CancelledWithRun, TerminalTaskStates
  <2>2. W # {} /\ W \subseteq Tasks
    BY <2>1
  <2>3. PICK t \in W : \A p \in W : <<t, p>> \notin deps
    BY <1>3, <2>2 DEF StartInv, Grounded
  <2>4. PICK p \in Tasks : <<t, p>> \in deps /\ task[p].state # "ACCEPTED"
    BY <1>3, <2>1, <2>3 DEF IInv, GraphInv, NoLostWakeUp
  <2>5. p \in Planned
    BY <1>3, <2>1, <2>3, <2>4 DEF IInv, GraphInv, DepsPlanned, Planned
  <2>6. QED
    BY <2>1, <2>3, <2>4, <2>5
<1>4. QED
  BY <1>1, <1>2, <1>3, Invariance, PTL DEF Spec
=============================================================================
