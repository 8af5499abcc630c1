----------------------------- MODULE Execution ------------------------------
(***************************************************************************)
(* The execution service over the workflow kernel:                         *)
(*   go/internal/execution/service.go     (runExecution, executeReserved)  *)
(*   go/internal/execution/repository.go  (reservation ledger)             *)
(*   go/internal/execution/candidate.go   (candidate ref)                  *)
(*   go/internal/execution/git.go         (worktree)                       *)
(*   go/internal/stage/handlers.go        (execute: how it is called)      *)
(*                                                                         *)
(* The execution ID of an attempt, its worktree path and its candidate ref *)
(* are derived from the attempt, so all workers on one attempt share them; *)
(* here one attempt of each task is under way and the task stands for its  *)
(* execution ID.  Calls for one execution ID may carry different proposals *)
(* and overlap when a reservation expires.  A call that fails runs its     *)
(* deferred clean-up in order: candidate ref, worktree, capacity,          *)
(* reservation.  What is in a worktree is refined by Candidate.            *)
(***************************************************************************)
EXTENDS Workflow

CONSTANTS
  Proposals,      \* what can be proposed for an attempt
  Workers,        \* concurrent calls of Execute
  Processes,      \* the processes that they run in
  Home,           \* the process of each worker
  MaxConcurrent,  \* capacity of a process: executions
  MaxWorktrees,   \* capacity of a process: worktrees
  Expiry,         \* when the leases expire
  MaxFaults       \* bound: deaths, errors and slow holders

ASSUME HomeAssumption == Home \in [Workers -> Processes]
ASSUME ExpiryAssumption == Expiry \in Times

VARIABLES
  ledger,    \* the rows of execution_ledger
  worker,    \* the memory of each worker
  refs,      \* refs/harness/candidates/... of each attempt
  trees,     \* the worktree at the path of each execution ID
  slots,     \* the two semaphores of each process
  returned,  \* <<execution, candidate>>: what callers were given
  clock,
  faults

execVars == <<ledger, worker, refs, trees, slots, returned, clock, faults>>
allVars == <<vars, execVars>>

-----------------------------------------------------------------------------
ProposalRef(p) == <<"proposal", p>>

(* Author, dates and message of the commit come from the request, so that  *)
(* the commit is a function of the files; the report is one of the commit. *)
commitOf(content) == content
reportOf(commit) == <<"report", commit>>

leaseOf(t) == [id |-> t, fence |-> 1, expires |-> Expiry]

(* Leases, proposals, candidates and reports are ones that the workflow    *)
(* knows, and command IDs are derived from the attempt.                    *)
ASSUME ExecutionAssumption ==
  /\ \A t \in Tasks :
       /\ leaseOf(t) \in LeaseRef
       /\ <<t, "accept">> \in CommandIDs /\ <<t, "record">> \in CommandIDs
  /\ \A p \in Proposals :
       /\ commitOf(p) \in Commits
       /\ ProposalRef(p) \in Artifacts /\ reportOf(commitOf(p)) \in Artifacts
  /\ Nil \notin Times /\ 0 \in Times
  /\ IsFiniteSet(Workers)
  /\ MaxConcurrent \in Nat /\ MaxWorktrees \in Nat

NoRow ==
  [state |-> "NONE", digest |-> Nil, owner |-> Nil, expired |-> FALSE,
   final |-> Nil, result |-> Nil]

NoTree == "none"
Base == "base"
Partial == "partial"

Idle ==
  [pc |-> "idle", task |-> Nil, proposal |-> Nil, rev |-> 0,
   commit |-> Nil, created |-> FALSE, done |-> FALSE]

(* The run executes, and every task is in the first attempt, reasoned.     *)
ExecInit ==
  /\ run = [NoRun EXCEPT !.state = "EXECUTING", !.rev = 6]
  /\ task = [t \in Tasks |->
               [NoTask EXCEPT !.state = "REASONING", !.rev = 3, !.max = 1,
                              !.attempt = 1, !.lease = leaseOf(t)]]
  /\ deps = {}
  /\ log = [a \in Aggregates |->
       {[rev |-> n, cmd |-> Fresh] : n \in 1..Revision(a)}]
  /\ commands = [i \in {} |-> Nil]
  /\ ledger = [t \in Tasks |-> NoRow]
  /\ worker = [w \in Workers |-> Idle]
  /\ refs = [t \in Tasks |-> Nil]
  /\ trees = [t \in Tasks |-> NoTree]
  /\ slots = [q \in Processes |-> [executions |-> 0, worktrees |-> 0]]
  /\ returned = {}
  /\ clock = 0
  /\ faults = 0

Fault == faults < MaxFaults /\ faults' = faults + 1

my(w) == worker[w].task

goto(w, pc) == worker' = [worker EXCEPT ![w].pc = pc]

at(w, pc) == worker[w].pc = pc

holds(w) ==
  /\ ledger[my(w)].state = "reserved"
  /\ ledger[my(w)].owner = w

-----------------------------------------------------------------------------
(* The stage handler and the reservation.                                  *)

(* The revision of the task before the first command of this execution:    *)
(* a call that is repeated asks for what the first one asked for.          *)
executionExpectedRevision(t) ==
  CASE task[t].state = "REASONING" -> task[t].rev
    [] task[t].state = "EXECUTING" -> task[t].rev - 1
    [] task[t].state = "VERIFYING" -> task[t].rev - 2
    [] OTHER -> 0

(* The execute stage calls the service, unless the task has moved on.      *)
Call(w, t, p) ==
  /\ worker[w] = Idle
  /\ executionExpectedRevision(t) # 0
  /\ worker' = [worker EXCEPT ![w] =
       [Idle EXCEPT !.pc = "begin", !.task = t, !.proposal = p,
                    !.rev = executionExpectedRevision(t)]]
  /\ UNCHANGED <<vars, ledger, refs, trees, slots, returned, clock, faults>>

executionRequestDigest(w) == <<my(w), worker[w].proposal, worker[w].rev>>

(* Mutant: a completed execution is taken over like an expired one.        *)
mayReserve_Completed(w) ==
  LET r == ledger[my(w)] IN
  \/ r.state = "NONE"
  \/ /\ r.state = "completed" \/ r.expired
     /\ r.digest = executionRequestDigest(w)

(* Mutant: an expired reservation is not taken over.                       *)
mayReserve_First(w) == ledger[my(w)].state = "NONE"

(* The INSERT, or the UPDATE of an expired reservation of this request.    *)
mayReserve(w) ==
  LET r == ledger[my(w)] IN
  \/ r.state = "NONE"
  \/ /\ r.state = "reserved" /\ r.expired
     /\ r.digest = executionRequestDigest(w)

Reserve(w) ==
  /\ at(w, "begin")
  /\ mayReserve(w)
  /\ ledger' = [ledger EXCEPT ![my(w)] =
       [@ EXCEPT !.state = "reserved", !.owner = w, !.expired = FALSE,
                 !.digest = executionRequestDigest(w)]]
  /\ goto(w, "capacity")
  /\ UNCHANGED <<vars, refs, trees, slots, returned, clock, faults>>

Replay(w) ==
  /\ at(w, "begin")
  /\ ledger[my(w)].state = "completed"
  /\ ledger[my(w)].digest = executionRequestDigest(w)
  /\ returned' = returned \cup {<<my(w), ledger[my(w)].result>>}
  /\ worker' = [worker EXCEPT ![w] = Idle]
  /\ UNCHANGED <<vars, ledger, refs, trees, slots, clock, faults>>

(* ErrExecutionConflict, or the caller's time is up while it polls a       *)
(* reservation that somebody else holds.                                   *)
BeginRefused(w) ==
  LET r == ledger[my(w)] IN
  /\ at(w, "begin")
  /\ r.state # "NONE"
  /\ \/ r.digest # executionRequestDigest(w)
     \/ r.state = "reserved" /\ ~r.expired
  /\ worker' = [worker EXCEPT ![w] = Idle]
  /\ UNCHANGED <<vars, ledger, refs, trees, slots, returned, clock, faults>>

-----------------------------------------------------------------------------
(* Capacity.                                                               *)

acquired(w, kind) == [slots EXCEPT ![Home[w]][kind] = @ + 1]
released(w, kinds) ==
  [slots EXCEPT ![Home[w]] = [k \in DOMAIN @ |->
     IF k \in kinds THEN @[k] - 1 ELSE @[k]]]

AcquireExecution(w) ==
  /\ at(w, "capacity")
  /\ slots[Home[w]].executions < MaxConcurrent
  /\ slots' = acquired(w, "executions")
  /\ goto(w, "worktree-slot")
  /\ UNCHANGED <<vars, ledger, refs, trees, returned, clock, faults>>

AcquireWorktree(w) ==
  /\ at(w, "worktree-slot")
  /\ slots[Home[w]].worktrees < MaxWorktrees
  /\ slots' = acquired(w, "worktrees")
  /\ goto(w, "worktree")
  /\ UNCHANGED <<vars, ledger, refs, trees, returned, clock, faults>>

(* Mutant: the first semaphore is not given back.                          *)
AcquireCancelled_Leaks(w) ==
  /\ worker[w].pc \in {"capacity", "worktree-slot"}
  /\ Fault
  /\ goto(w, "abandon")
  /\ UNCHANGED <<vars, ledger, refs, trees, slots, returned, clock>>

(* The context ends while a worker waits for capacity.                     *)
AcquireCancelled(w) ==
  /\ worker[w].pc \in {"capacity", "worktree-slot"}
  /\ Fault
  /\ slots' = IF at(w, "capacity") THEN slots ELSE released(w, {"executions"})
  /\ goto(w, "abandon")
  /\ UNCHANGED <<vars, ledger, refs, trees, returned, clock>>

-----------------------------------------------------------------------------
(* executeReserved.                                                        *)

(* A worktree that is there is removed first, whoever uses it.             *)
CreateWorktree(w) ==
  /\ at(w, "worktree")
  /\ trees' = [trees EXCEPT ![my(w)] = Base]
  /\ goto(w, "accept")
  /\ UNCHANGED <<vars, ledger, refs, slots, returned, clock, faults>>

commandEnvelope(w, purpose, rev, time) ==
  [id |-> <<my(w), purpose>>, actor |-> "EXECUTION_SERVICE", rev |-> rev,
   at |-> time]

(* The workflow refuses the command.                                       *)
refused(A) == ~ENABLED A

(* ExecuteTask with the command A, which goes on to `next`; an error goes  *)
(* to the clean-up.                                                        *)
executeTask(w, m, digest, A, next) ==
  \/ A /\ goto(w, next)
  \/ /\ loadCommandResult(m, digest) = "replay"
     /\ goto(w, next)
     /\ UNCHANGED vars
  \/ /\ loadCommandResult(m, digest) # "replay"
     /\ refused(A)
     /\ goto(w, "clean-ref")
     /\ UNCHANGED vars

(* The targets must be as in the base commit before the proposal is        *)
(* accepted.                                                               *)
Accept(w) ==
  LET t == my(w)
      p == ProposalRef(worker[w].proposal)
      m == commandEnvelope(w, "accept", worker[w].rev, 0)
  IN  /\ at(w, "accept")
      /\ IF trees[t] = Base
         THEN executeTask(w, m, <<"AcceptTaskProposal", m, t, leaseOf(t), p>>,
                          acceptTaskProposal(m, t, leaseOf(t), p), "apply")
         ELSE goto(w, "clean-ref") /\ UNCHANGED vars
      /\ UNCHANGED <<ledger, refs, trees, slots, returned, clock, faults>>

(* The worker container rewrites the files, after it has compared them     *)
(* with the digests of the originals.                                      *)
Apply(w) ==
  /\ at(w, "apply")
  /\ IF trees[my(w)] = Base
     THEN /\ trees' = [trees EXCEPT ![my(w)] = worker[w].proposal]
          /\ goto(w, "build")
     ELSE /\ goto(w, "clean-ref")
          /\ UNCHANGED trees
  /\ UNCHANGED <<vars, ledger, refs, slots, returned, clock, faults>>

(* Mutant: the candidate is whatever the worktree holds.                   *)
buildable_Any(w) == trees[my(w)] # NoTree

(* The commit is written only from files that hold the proposed content.   *)
buildable(w) == trees[my(w)] = worker[w].proposal

(* buildCandidate, up to the look at the candidate ref.                    *)
BuildCandidate(w) ==
  LET c == commitOf(trees[my(w)])
      next == CASE buildable(w) /\ refs[my(w)] = Nil -> "create-ref"
                [] buildable(w) /\ refs[my(w)] = c -> "final-time"
                [] OTHER -> "clean-ref"
  IN  /\ at(w, "build")
      /\ worker' = [worker EXCEPT ![w].pc = next, ![w].commit = c]
      /\ UNCHANGED <<vars, ledger, refs, trees, slots, returned, clock,
                     faults>>

(* update-ref with an all-zero old value creates and never overwrites.     *)
CreateRef(w) ==
  /\ at(w, "create-ref")
  /\ IF refs[my(w)] = Nil
     THEN /\ refs' = [refs EXCEPT ![my(w)] = worker[w].commit]
          /\ worker' = [worker EXCEPT ![w].pc = "final-time",
                                      ![w].created = TRUE]
     ELSE goto(w, "clean-ref") /\ UNCHANGED refs
  /\ UNCHANGED <<vars, ledger, trees, slots, returned, clock, faults>>

(* COALESCE: the time of the first worker that came so far.                *)
finalTime(w) ==
  IF ledger[my(w)].final = Nil THEN clock ELSE ledger[my(w)].final

(* FinalTransitionTime: only the owner of the reservation gets it.         *)
FinalTransitionTime(w) ==
  /\ at(w, "final-time")
  /\ IF holds(w)
     THEN /\ ledger' = [ledger EXCEPT ![my(w)].final = finalTime(w)]
          /\ goto(w, "record")
     ELSE goto(w, "clean-ref") /\ UNCHANGED ledger
  /\ UNCHANGED <<vars, refs, trees, slots, returned, clock, faults>>

(* The execution is recorded on the revision that the acceptance made.     *)
recordOf(w) ==
  commandEnvelope(w, "record", commands[<<my(w), "accept">>].rev,
                  ledger[my(w)].final)

recordApplies(w) ==
  recordTaskExecution(recordOf(w), my(w), leaseOf(my(w)),
    ProposalRef(worker[w].proposal), reportOf(worker[w].commit),
    worker[w].commit)

Record(w) ==
  /\ at(w, "record")
  /\ executeTask(w, recordOf(w),
       <<"RecordTaskExecution", recordOf(w), my(w), leaseOf(my(w)),
         ProposalRef(worker[w].proposal), reportOf(worker[w].commit),
         worker[w].commit>>,
       recordApplies(w), "complete")
  /\ UNCHANGED <<ledger, refs, trees, slots, returned, clock, faults>>

(* The command commits and its answer is lost.                             *)
RecordLost(w) ==
  /\ at(w, "record")
  /\ Fault
  /\ recordApplies(w)
  /\ goto(w, "clean-ref")
  /\ UNCHANGED <<ledger, refs, trees, slots, returned, clock>>

completed(w, done) ==
  [worker EXCEPT ![w].pc = "clean-ref", ![w].created = FALSE,
                 ![w].done = done]

(* Mutant: a worker that lost its reservation answers all the same.        *)
Complete_AnswersAnyway(w) ==
  /\ at(w, "complete")
  /\ ledger' = IF holds(w)
               THEN [ledger EXCEPT ![my(w)].state = "completed",
                                   ![my(w)].result = worker[w].commit]
               ELSE ledger
  /\ worker' = completed(w, TRUE)
  /\ UNCHANGED <<vars, refs, trees, slots, returned, clock, faults>>

(* The candidate ref is kept from here on, also when the reservation was   *)
(* taken over.                                                             *)
Complete(w) ==
  /\ at(w, "complete")
  /\ ledger' = IF holds(w)
               THEN [ledger EXCEPT ![my(w)].state = "completed",
                                   ![my(w)].result = worker[w].commit]
               ELSE ledger
  /\ worker' = completed(w, holds(w))
  /\ UNCHANGED <<vars, refs, trees, slots, returned, clock, faults>>

-----------------------------------------------------------------------------
(* The deferred clean-up, last in first out.                               *)

(* update-ref -d with the expected old value.                              *)
DeleteCandidateRef(w) ==
  /\ at(w, "clean-ref")
  /\ refs' = IF worker[w].created /\ refs[my(w)] = worker[w].commit
             THEN [refs EXCEPT ![my(w)] = Nil] ELSE refs
  /\ goto(w, "clean-worktree")
  /\ UNCHANGED <<vars, ledger, trees, slots, returned, clock, faults>>

RemoveWorktree(w) ==
  /\ at(w, "clean-worktree")
  /\ trees' = [trees EXCEPT ![my(w)] = NoTree]
  /\ goto(w, "release")
  /\ UNCHANGED <<vars, ledger, refs, slots, returned, clock, faults>>

ReleaseCapacity(w) ==
  /\ at(w, "release")
  /\ slots' = released(w, {"executions", "worktrees"})
  /\ goto(w, "abandon")
  /\ UNCHANGED <<vars, ledger, refs, trees, returned, clock, faults>>

(* A completed call returns; a failed one ends its reservation, if it      *)
(* still holds it.                                                         *)
Finish(w) ==
  /\ at(w, "abandon")
  /\ IF worker[w].done
     THEN /\ returned' = returned \cup {<<my(w), worker[w].commit>>}
          /\ UNCHANGED ledger
     ELSE /\ ledger' = [ledger EXCEPT ![my(w)].expired = @ \/ holds(w)]
          /\ UNCHANGED returned
  /\ worker' = [worker EXCEPT ![w] = Idle]
  /\ UNCHANGED <<vars, refs, trees, slots, clock, faults>>

-----------------------------------------------------------------------------
(* Faults and the world around the service.                                *)

Working == {"worktree", "accept", "apply", "build", "create-ref",
            "final-time", "record", "complete"}

(* An error of Git, of the container, of the artifact store or of the      *)
(* database, or the time limit of the container.                           *)
StepError(w) ==
  /\ worker[w].pc \in Working
  /\ Fault
  /\ worker' = [worker EXCEPT
       ![w].pc = IF at(w, "worktree") THEN "release" ELSE "clean-ref",
       ![w].created = @ /\ ~at(w, "complete")]
  /\ trees' = IF at(w, "apply") THEN [trees EXCEPT ![my(w)] = Partial]
                                ELSE trees
  /\ UNCHANGED <<vars, ledger, refs, slots, returned, clock>>

(* A process dies: worktrees, refs and reservations stay.                  *)
Crash(q) ==
  /\ \E w \in Workers : Home[w] = q /\ worker[w] # Idle
  /\ Fault
  /\ worker' = [w \in Workers |-> IF Home[w] = q THEN Idle ELSE worker[w]]
  /\ slots' = [slots EXCEPT ![q] = [executions |-> 0, worktrees |-> 0]]
  /\ UNCHANGED <<vars, ledger, refs, trees, returned, clock>>

(* The time of a reservation runs out: of one whose owner is gone, and of  *)
(* one whose owner is slower than the container's limit and a minute.      *)
Expire(t) ==
  /\ ledger[t].state = "reserved" /\ ~ledger[t].expired
  /\ ledger' = [ledger EXCEPT ![t].expired = TRUE]
  /\ IF my(ledger[t].owner) = t /\ ~at(ledger[t].owner, "begin")
     THEN Fault ELSE UNCHANGED faults
  /\ UNCHANGED <<vars, worker, refs, trees, slots, returned, clock>>

Tick ==
  /\ clock + 1 \in Times
  /\ clock' = clock + 1
  /\ UNCHANGED <<vars, ledger, worker, refs, trees, slots, returned, faults>>

(* A human cancels the run and its tasks.                                  *)
Cancel ==
  /\ cancelRun([id |-> Fresh, actor |-> "HUMAN", rev |-> run.rev, at |-> 0])
  /\ UNCHANGED execVars

Step(w) ==
  \/ Reserve(w) \/ Replay(w) \/ BeginRefused(w)
  \/ AcquireExecution(w) \/ AcquireWorktree(w)
  \/ CreateWorktree(w) \/ Accept(w) \/ Apply(w) \/ BuildCandidate(w)
  \/ CreateRef(w) \/ FinalTransitionTime(w) \/ Record(w) \/ Complete(w)
  \/ DeleteCandidateRef(w) \/ RemoveWorktree(w) \/ ReleaseCapacity(w)
  \/ Finish(w)

Faulty(w) == AcquireCancelled(w) \/ RecordLost(w) \/ StepError(w)

ExecNext ==
  \/ \E w \in Workers, t \in Tasks, p \in Proposals : Call(w, t, p)
  \/ \E w \in Workers : Step(w) \/ Faulty(w)
  \/ \E q \in Processes : Crash(q)
  \/ \E t \in Tasks : Expire(t)
  \/ Tick
  \/ Cancel

ExecSpec == ExecInit /\ [][ExecNext]_allVars

(* The stage is run again: it calls with the proposal it called with.      *)
CallAgain(t) ==
  \E w \in Workers, p \in Proposals :
    /\ ledger[t].state # "NONE" => ledger[t].digest[2] = p
    /\ Call(w, t, p)

(* Workers go on, reservations of dead owners expire, and the reconciler   *)
(* claims a job until it is done.                                          *)
FairExecSpec ==
  /\ ExecSpec
  /\ \A w \in Workers : WF_allVars(Step(w))
  /\ \A t \in Tasks :
       /\ WF_allVars(Expire(t) /\ UNCHANGED faults)
       /\ SF_allVars(CallAgain(t))

-----------------------------------------------------------------------------
(* Properties.                                                             *)

(* Rows, workers and refs have their types, and a completed execution has  *)
(* a result and the time of its transition.                                *)
ExecTypeOK ==
  /\ task \in [Tasks -> TaskRow]
  /\ \A t \in Tasks :
       /\ ledger[t].state \in {"NONE", "reserved", "completed"}
       /\ ledger[t].owner \in Workers \cup {Nil}
       /\ ledger[t].final \in Times \cup {Nil}
       /\ ledger[t].result # Nil <=> ledger[t].state = "completed"
       /\ ledger[t].state = "completed" => ledger[t].final # Nil
       /\ trees[t] \in Proposals \cup {NoTree, Base, Partial}
  /\ refs \in [Tasks -> OptCommit]
  /\ clock \in Times

(* What the workflow records, what the candidate ref names and what the    *)
(* ledger answers is the candidate of the one proposal that was accepted,  *)
(* however many workers share the worktree, the ref and the ID.            *)
CandidateOfAcceptedProposal ==
  \A t \in Tasks :
    LET accepted == task[t].proposal IN
    /\ refs[t] # Nil =>
         accepted # Nil /\ accepted.ref = ProposalRef(refs[t])
    /\ task[t].cand # Nil =>
         /\ accepted.ref = ProposalRef(task[t].cand)
         /\ task[t].exec.ref = reportOf(task[t].cand)
    /\ ledger[t].result # Nil => ledger[t].result = task[t].cand

(* Every slot of a process that is taken is held by a worker of it that    *)
(* still is to release it, on every error path.                            *)
SlotsAccounted ==
  \A q \in Processes :
    LET mine == {w \in Workers : Home[w] = q}
        held == Working \cup {"clean-ref", "clean-worktree", "release"}
        InStep(pcs) == Cardinality({w \in mine : worker[w].pc \in pcs})
    IN  /\ slots[q].worktrees = InStep(held)
        /\ slots[q].executions = InStep(held \cup {"worktree-slot"})
        /\ slots[q].executions <= MaxConcurrent
        /\ slots[q].worktrees <= MaxWorktrees

(* An execution ID has one result, and whoever calls is given it.          *)
Results ==
  INSTANCE WriteOnce WITH
    Keys <- Tasks, Results <- Commits, None <- Nil,
    result <- [t \in Tasks |-> ledger[t].result], returned <- returned

ExecutionsImplementWriteOnce == Results!Spec

(* An execution is recorded once: its row has a result and a time exactly  *)
(* when it is completed, and keeps them.                                   *)
ExecutedOnce == []ExecTypeOK /\ ExecutionsImplementWriteOnce

(* Every execution is completed in the end, also when workers die, fail or *)
(* lose answers on the way, unless the run is cancelled or the lease       *)
(* expires before the execution is recorded.                               *)
ExecutionSettles ==
  \A t \in Tasks :
    <>(\/ ledger[t].state = "completed"
       \/ run.state # "EXECUTING"
       \/ clock >= Expiry)

=============================================================================
