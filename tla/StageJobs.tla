----------------------------- MODULE StageJobs -----------------------------
(***************************************************************************)
(* The stage jobs of a run and the reconcilers that work on them:          *)
(*   go/internal/runtime/ledger.go             (table runtime_stage_jobs)  *)
(*   go/internal/orchestration/reconciler.go   (claim, handle, finish)     *)
(*                                                                         *)
(* A chain is one attempt of one task: its jobs are the ordered stages, of *)
(* which the first is enqueued from outside and every other one by the     *)
(* completion of its predecessor.  Workers are reconciler processes.       *)
(* Between the steps of a worker other workers run, claims expire, the run *)
(* is cancelled and processes crash or drain.  Time is abstracted: a row   *)
(* records whether its available_at and its claim_expires_at have passed.  *)
(*                                                                         *)
(* Statements run at READ COMMITTED.  A transaction is one step, but for   *)
(* two that overlap with others: a completion holds the lock of its row    *)
(* from its UPDATE to its commit, and CancelRun works on the rows that it  *)
(* found active when it started, waits for the locked ones and tests each  *)
(* again before it changes it.                                             *)
(***************************************************************************)
EXTENDS Integers

CONSTANTS
  Chains,       \* (task, attempt) pairs of the run
  LastStage,    \* number of stages in orderedStages (7 in the code)
  Workers,      \* reconciler processes
  Owners,       \* values of Config.OwnerID
  Owner,        \* the OwnerID each process is configured with
  MaxRetries,   \* Config.MaxRetries
  MaxFaults,    \* bound: crashes, shutdowns, slow claims, storage errors
  MaxTimeouts,  \* bound: handlers that exceed a time limit of their own
  Nil

ASSUME StagesAssumption == LastStage \in Nat \ {0}
ASSUME OwnerAssumption == Owner \in [Workers -> Owners] /\ Nil \notin Owners
ASSUME RetriesAssumption == MaxRetries \in Nat \ {0}
ASSUME FaultsAssumption == MaxFaults \in Nat /\ MaxTimeouts \in Nat

VARIABLES
  jobs,       \* the rows of runtime_stage_jobs
  worker,     \* what each process holds in memory
  mode,       \* whether each process claims, drains or is down
  cancelling, \* the rows that a CancelRun under way has found
  cancelled,  \* history: the rows that were found by a CancelRun
  failures,   \* history: handler failures seen by the holder of a claim
  faults,     \* how much of MaxFaults is used up
  timeouts    \* how much of MaxTimeouts is used up

vars ==
  <<jobs, worker, mode, cancelling, cancelled, failures, faults, timeouts>>

cancelVars == <<cancelling, cancelled>>

-----------------------------------------------------------------------------
Jobs == Chains \X (1..LastStage)

Active   == {"READY", "RETRY", "CLAIMED"}
Terminal == {"COMPLETED", "FAILED", "CANCELLED"}

(* by and cont are history: the fencing token under which a row reached    *)
(* its terminal state, and whether its handler asked for the next stage.   *)
JobRow ==
  [state : Active \cup Terminal \cup {"NONE"}, available : BOOLEAN,
   owner : Owners \cup {Nil}, expired : BOOLEAN, fence : Nat, retry : Nat,
   transient : Nat, by : Nat, cont : BOOLEAN]

NoJob ==
  [state |-> "NONE", available |-> FALSE, owner |-> Nil, expired |-> FALSE,
   fence |-> 0, retry |-> 0, transient |-> 0, by |-> 0, cont |-> FALSE]

NewJob == [NoJob EXCEPT !.state = "READY", !.available = TRUE]

Outcomes == {"continue", "stop", "error", "transient", "timeout", "canceled"}

(* The job snapshot that Claim returned, whether the heartbeat has failed, *)
(* and what the handler returned.                                          *)
WorkerState ==
  [pc : {"idle", "handling", "done", "commit"}, job : Jobs \cup {Nil}, fence : Nat,
   retry : Nat, transient : Nat, lost : BOOLEAN, outcome : Outcomes \cup {Nil}]

Idle ==
  [pc |-> "idle", job |-> Nil, fence |-> 0, retry |-> 0, transient |-> 0,
   lost |-> FALSE, outcome |-> Nil]

Init ==
  /\ jobs = [j \in Jobs |-> NoJob]
  /\ worker = [w \in Workers |-> Idle]
  /\ mode = [w \in Workers |-> "up"]
  /\ cancelling = {}
  /\ cancelled = {}
  /\ failures = [j \in Jobs |-> 0]
  /\ faults = 0
  /\ timeouts = 0

-----------------------------------------------------------------------------
(* The ledger.                                                             *)

(* Mutant: OwnerID alone identifies a claim.                               *)
Holds_NoFence(w) ==
  /\ worker[w].pc # "idle"
  /\ jobs[worker[w].job].state = "CLAIMED"
  /\ jobs[worker[w].job].owner = Owner[w]

(* The row the worker claimed is still its own: the WHERE clause of Renew, *)
(* CompleteAndEnqueue, Retry, RescheduleTransient and Fail.  The expiry is *)
(* not part of it.                                                         *)
Holds(w) ==
  /\ worker[w].pc # "idle"
  /\ jobs[worker[w].job].state = "CLAIMED"
  /\ jobs[worker[w].job].owner = Owner[w]
  /\ jobs[worker[w].job].fence = worker[w].fence

(* Mutant: the owner of a finished claim stays in the row.                 *)
released_KeepsOwner(j, state) ==
  [jobs[j] EXCEPT !.state = state, !.expired = FALSE]

(* A row whose claim ends; the fencing token stays.                        *)
released(j, state) ==
  [jobs[j] EXCEPT !.state = state, !.owner = Nil, !.expired = FALSE]

(* Mutant: a claimed row is never taken over.                              *)
Claimable_NoTakeover(j) ==
  /\ jobs[j].state \in {"READY", "RETRY"}
  /\ jobs[j].available

(* Mutant: failed rows are picked up again.                                *)
Claimable_Failed(j) ==
  /\ jobs[j].state \in Active \cup {"FAILED"}
  /\ jobs[j].available
  /\ jobs[j].state = "CLAIMED" => jobs[j].expired

(* The condition of the SELECT in Claim.                                   *)
Claimable(j) ==
  /\ jobs[j].state \in Active
  /\ jobs[j].available
  /\ jobs[j].state = "CLAIMED" => jobs[j].expired

(* Mutant: a takeover keeps the token of the expired claim.                *)
claimFence_Takeover(j) ==
  IF jobs[j].state = "CLAIMED" THEN jobs[j].fence ELSE jobs[j].fence + 1

(* Every claim has a fencing token of its own.                             *)
claimFence(j) == jobs[j].fence + 1

(* The row is locked by a completion that is not committed.                *)
Locked(j) == \E w \in Workers : worker[w].pc = "commit" /\ worker[w].job = j

(* EnqueueTx of the first stage: from the approval of the task graph or    *)
(* from a task retry, any number of times.  An existing row is left alone. *)
Enqueue(c) ==
  /\ jobs[<<c, 1>>].state = "NONE"
  /\ jobs' = [jobs EXCEPT ![<<c, 1>>] = NewJob]
  /\ UNCHANGED <<worker, mode, cancelVars, failures, faults, timeouts>>

(* Mutant: a job under way is left to finish.                              *)
cancels_Waiting(j) == jobs[j].state \in {"READY", "RETRY"}

(* The rows that the ledger's CancelRun updates.                           *)
cancels(j) == jobs[j].state \in Active

(* CancelRun starts: its snapshot shows the rows committed so far, the     *)
(* successor of an open completion not among them.                         *)
CancelStart ==
  /\ cancelling = {}
  /\ cancelling' = {j \in Jobs : jobs[j].state \in Active}
  /\ cancelling' # {}
  /\ UNCHANGED <<jobs, worker, mode, cancelled, failures, faults, timeouts>>

(* It has waited for the locks and updates what is still active.           *)
CancelRun ==
  /\ cancelling # {}
  /\ \A j \in cancelling : ~Locked(j)
  /\ jobs' = [j \in Jobs |-> IF j \in cancelling /\ cancels(j)
                             THEN released(j, "CANCELLED") ELSE jobs[j]]
  /\ cancelled' = cancelled \cup cancelling
  /\ cancelling' = {}
  /\ UNCHANGED <<worker, mode, failures, faults, timeouts>>

(* Mutant: the counters are not selected.                                  *)
claimedJob_NoCounters(j) ==
  [Idle EXCEPT !.pc = "handling", !.job = j, !.fence = claimFence(j)]

(* What Claim returns to the process.                                      *)
claimedJob(j) ==
  [Idle EXCEPT !.pc = "handling", !.job = j, !.fence = claimFence(j),
               !.retry = jobs[j].retry, !.transient = jobs[j].transient]

(* Claim: an available row, or a claimed row whose claim has expired, but  *)
(* none that is locked.                                                    *)
Claim(w) ==
  /\ mode[w] = "up"
  /\ worker[w].pc = "idle"
  /\ \E j \in Jobs :
       /\ Claimable(j) /\ ~Locked(j)
       /\ jobs' = [jobs EXCEPT ![j] = [@ EXCEPT
            !.state = "CLAIMED", !.owner = Owner[w], !.expired = FALSE,
            !.fence = claimFence(j)]]
       /\ worker' = [worker EXCEPT ![w] = claimedJob(j)]
  /\ UNCHANGED <<mode, cancelVars, failures, faults, timeouts>>

-----------------------------------------------------------------------------
(* The passing of time.                                                    *)

(* A live process is about to finish the job, or its heartbeat is renewing *)
(* the claim.                                                              *)
Kept(j) ==
  \E w \in Workers :
    worker[w].job = j /\ Holds(w) /\ (worker[w].pc = "handling" => ~worker[w].lost)

(* A claim that nobody renews any more runs out.                           *)
ExpireAbandoned(j) ==
  /\ jobs[j].state = "CLAIMED" /\ ~jobs[j].expired
  /\ ~Kept(j)
  /\ jobs' = [jobs EXCEPT ![j].expired = TRUE]
  /\ UNCHANGED <<worker, mode, cancelVars, failures, faults, timeouts>>

(* A process pauses, or its renewals are delayed, for longer than the TTL. *)
ExpireSlow(j) ==
  /\ jobs[j].state = "CLAIMED" /\ ~jobs[j].expired
  /\ Kept(j)
  /\ faults < MaxFaults
  /\ jobs' = [jobs EXCEPT ![j].expired = TRUE]
  /\ faults' = faults + 1
  /\ UNCHANGED <<worker, mode, cancelVars, failures, timeouts>>

(* The backoff of a retried job has passed.                                *)
BackoffElapsed(j) ==
  /\ jobs[j].state = "RETRY" /\ ~jobs[j].available
  /\ jobs' = [jobs EXCEPT ![j].available = TRUE]
  /\ UNCHANGED <<worker, mode, cancelVars, failures, faults, timeouts>>

-----------------------------------------------------------------------------
(* The reconciler, while a handler runs.                                   *)

(* A renewal is accepted as long as nobody else has claimed the row, even  *)
(* after the claim has expired.                                            *)
Renew(w) ==
  /\ worker[w].pc = "handling" /\ ~worker[w].lost
  /\ Holds(w)
  /\ jobs' = [jobs EXCEPT ![worker[w].job].expired = FALSE]
  /\ UNCHANGED <<worker, mode, cancelVars, failures, faults, timeouts>>

(* The renewal finds the claim gone: the heartbeat cancels the handler.    *)
RenewRefused(w) ==
  /\ worker[w].pc = "handling" /\ ~worker[w].lost
  /\ ~Holds(w)
  /\ worker' = [worker EXCEPT ![w].lost = TRUE]
  /\ UNCHANGED <<jobs, mode, cancelVars, failures, faults, timeouts>>

(* The renewal fails in the database: to the heartbeat it is the same.     *)
RenewError(w) ==
  /\ worker[w].pc = "handling" /\ ~worker[w].lost
  /\ faults < MaxFaults
  /\ worker' = [worker EXCEPT ![w].lost = TRUE]
  /\ faults' = faults + 1
  /\ UNCHANGED <<jobs, mode, cancelVars, failures, timeouts>>

(* What handle returns: a heartbeat error replaces a success, and a        *)
(* cancelled context shows only after a lost claim or in a drain.          *)
handle(w, result) ==
  /\ result = "canceled" => worker[w].lost \/ mode[w] = "draining"
  /\ worker' = [worker EXCEPT ![w] = [@ EXCEPT
       !.pc = "done",
       !.outcome = IF worker[w].lost /\ result \in {"continue", "stop"}
                   THEN "error" ELSE result]]

HandlerReturns(w) ==
  /\ worker[w].pc = "handling"
  /\ \E result \in Outcomes \ {"timeout"} : handle(w, result)
  /\ UNCHANGED <<jobs, mode, cancelVars, failures, faults, timeouts>>

(* The handler gives up at a time limit of its own (the execution or the   *)
(* verification worker's), with context.DeadlineExceeded in its error.     *)
HandlerTimesOut(w) ==
  /\ worker[w].pc = "handling"
  /\ timeouts < MaxTimeouts
  /\ handle(w, "timeout")
  /\ timeouts' = timeouts + 1
  /\ UNCHANGED <<jobs, mode, cancelVars, failures, faults>>

-----------------------------------------------------------------------------
(* The reconciler, after the handler has returned.                         *)

finish(w) == worker' = [worker EXCEPT ![w] = Idle]

(* A fenced update of the claimed row; refused, it changes nothing.        *)
fenced(w, row) ==
  jobs' = IF Holds(w) THEN [jobs EXCEPT ![worker[w].job] = row] ELSE jobs

counted(w) ==
  failures' = IF Holds(w) THEN [failures EXCEPT ![worker[w].job] = @ + 1]
                          ELSE failures

nextStage(j) == <<j[1], j[2] + 1>>

(* Mutant: the next stage is enqueued whatever the handler says.           *)
completed_AlwaysNext(j, fence, continue) ==
  [k \in Jobs |->
     IF k = j
     THEN [released(j, "COMPLETED") EXCEPT !.by = fence, !.cont = continue]
     ELSE IF k = nextStage(j) /\ jobs[k].state = "NONE" THEN NewJob ELSE jobs[k]]

(* The rows after CompleteAndEnqueue: the job is completed and, when the   *)
(* handler says continue and there is a next stage, that stage is inserted *)
(* unless it is there already.                                             *)
completed(j, fence, continue) ==
  [k \in Jobs |->
     IF k = j
     THEN [released(j, "COMPLETED") EXCEPT
            !.by = fence, !.cont = continue]
     ELSE IF continue /\ k = nextStage(j) /\ jobs[k].state = "NONE"
          THEN NewJob ELSE jobs[k]]

(* The UPDATE of CompleteAndEnqueue, which locks the row; refused, there   *)
(* is nothing to commit.                                                   *)
CompleteAndEnqueue(w) ==
  /\ worker[w].pc = "done"
  /\ worker[w].outcome \in {"continue", "stop"}
  /\ IF Holds(w) THEN worker' = [worker EXCEPT ![w].pc = "commit"]
                 ELSE finish(w)
  /\ UNCHANGED <<jobs, mode, cancelVars, failures, faults, timeouts>>

(* The successor is inserted and both are committed; the claim is not      *)
(* tested again.                                                           *)
CommitCompletion(w) ==
  /\ worker[w].pc = "commit"
  /\ jobs' = completed(worker[w].job, worker[w].fence,
                       worker[w].outcome = "continue")
  /\ finish(w)
  /\ UNCHANGED <<mode, cancelVars, failures, faults, timeouts>>

(* Cancelled and timed-out handlers leave the claim to expire: no budget   *)
(* is charged.                                                             *)
LeaveClaimed(w) ==
  /\ worker[w].pc = "done"
  /\ worker[w].outcome \in {"canceled", "timeout"}
  /\ IF worker[w].outcome = "timeout" THEN counted(w) ELSE UNCHANGED failures
  /\ finish(w)
  /\ UNCHANGED <<jobs, mode, cancelVars, faults, timeouts>>

(* The decisions of handleFailure, on the counters of the claimed          *)
(* snapshot.                                                               *)
mayReschedule(w) == worker[w].transient + 1 < MaxRetries

(* Mutant: one retry too many.                                             *)
mayRetry_OffByOne(w) == worker[w].retry + 1 <= MaxRetries

mayRetry(w) == worker[w].retry + 1 < MaxRetries

RescheduleTransient(w) ==
  /\ worker[w].pc = "done" /\ worker[w].outcome = "transient"
  /\ mayReschedule(w)
  /\ fenced(w, [released(worker[w].job, "RETRY") EXCEPT
                  !.transient = @ + 1, !.available = FALSE])
  /\ counted(w)
  /\ finish(w)
  /\ UNCHANGED <<mode, cancelVars, faults, timeouts>>

Retry(w) ==
  /\ worker[w].pc = "done" /\ worker[w].outcome = "error"
  /\ mayRetry(w)
  /\ fenced(w, [released(worker[w].job, "RETRY") EXCEPT
                  !.retry = @ + 1, !.available = FALSE])
  /\ counted(w)
  /\ finish(w)
  /\ UNCHANGED <<mode, cancelVars, faults, timeouts>>

(* The failure evidence is stored, then the row is failed.                 *)
Fail(w) ==
  /\ worker[w].pc = "done"
  /\ \/ worker[w].outcome = "transient" /\ ~mayReschedule(w)
     \/ worker[w].outcome = "error" /\ ~mayRetry(w)
  /\ fenced(w, [released(worker[w].job, "FAILED") EXCEPT
                  !.by = worker[w].fence])
  /\ counted(w)
  /\ finish(w)
  /\ UNCHANGED <<mode, cancelVars, faults, timeouts>>

(* The artifact store or the ledger cannot be reached: Once returns the    *)
(* error, an open transaction is rolled back and the row stays as it is.   *)
FinishError(w) ==
  /\ worker[w].pc \in {"done", "commit"}
  /\ faults < MaxFaults
  /\ faults' = faults + 1
  /\ finish(w)
  /\ UNCHANGED <<jobs, mode, cancelVars, failures, timeouts>>

-----------------------------------------------------------------------------
(* Processes.                                                              *)

Crash(w) ==
  /\ mode[w] # "down"
  /\ faults < MaxFaults
  /\ faults' = faults + 1
  /\ mode' = [mode EXCEPT ![w] = "down"]
  /\ finish(w)
  /\ UNCHANGED <<jobs, cancelVars, failures, timeouts>>

(* RunWithDrain: no further claim; the active one may still finish.        *)
Shutdown(w) ==
  /\ mode[w] = "up"
  /\ faults < MaxFaults
  /\ faults' = faults + 1
  /\ mode' = [mode EXCEPT ![w] = "draining"]
  /\ UNCHANGED <<jobs, worker, cancelVars, failures, timeouts>>

Exit(w) ==
  /\ mode[w] = "draining" /\ worker[w].pc = "idle"
  /\ mode' = [mode EXCEPT ![w] = "down"]
  /\ UNCHANGED <<jobs, worker, cancelVars, failures, faults, timeouts>>

Restart(w) ==
  /\ mode[w] = "down"
  /\ mode' = [mode EXCEPT ![w] = "up"]
  /\ UNCHANGED <<jobs, worker, cancelVars, failures, faults, timeouts>>

-----------------------------------------------------------------------------
LedgerNext ==
  \/ CancelStart \/ CancelRun
  \/ \E c \in Chains : Enqueue(c)
  \/ \E j \in Jobs : ExpireAbandoned(j) \/ ExpireSlow(j) \/ BackoffElapsed(j)

WorkerNext(w) ==
  \/ Claim(w) \/ Renew(w) \/ RenewRefused(w) \/ RenewError(w)
  \/ HandlerReturns(w) \/ HandlerTimesOut(w)
  \/ CompleteAndEnqueue(w) \/ CommitCompletion(w) \/ LeaveClaimed(w)
  \/ RescheduleTransient(w) \/ Retry(w) \/ Fail(w) \/ FinishError(w)
  \/ Crash(w) \/ Shutdown(w) \/ Exit(w) \/ Restart(w)

Next == LedgerNext \/ \E w \in Workers : WorkerNext(w)

Spec == Init /\ [][Next]_vars

(* Claims expire and backoffs elapse because time passes; a running        *)
(* process polls, its handlers return, and it acts on what they return; a  *)
(* stopped process is started again.  Nothing is assumed of faults.        *)
Fairness ==
  /\ \A j \in Jobs : WF_vars(ExpireAbandoned(j)) /\ WF_vars(BackoffElapsed(j))
  /\ \A w \in Workers :
       /\ WF_vars(Claim(w))
       /\ WF_vars(HandlerReturns(w))
       /\ WF_vars(CompleteAndEnqueue(w) \/ CommitCompletion(w)
                  \/ LeaveClaimed(w) \/ Retry(w)
                  \/ RescheduleTransient(w) \/ Fail(w))
       /\ WF_vars(Exit(w)) /\ WF_vars(Restart(w))

FairSpec == Spec /\ Fairness

-----------------------------------------------------------------------------
(* Properties.                                                             *)

(* Every row and every process state has its type, and a row has an owner  *)
(* exactly while it is claimed (the CHECKs of runtime_stage_jobs).         *)
TypeOK ==
  /\ jobs \in [Jobs -> JobRow]
  /\ \A j \in Jobs : jobs[j].state = "CLAIMED" <=> jobs[j].owner # Nil
  /\ worker \in [Workers -> WorkerState]
  /\ \A w \in Workers : worker[w].pc # "idle" => worker[w].job \in Jobs
  /\ mode \in [Workers -> {"up", "draining", "down"}]
  /\ cancelling \subseteq Jobs /\ cancelled \subseteq Jobs
  /\ failures \in [Jobs -> Nat]
  /\ faults \in 0..MaxFaults
  /\ timeouts \in 0..MaxTimeouts

(* No two processes ever work on one job under the same fencing token,     *)
(* also when they were configured with the same OwnerID.                   *)
UniqueClaims ==
  \A v, w \in Workers :
    v # w /\ worker[v].pc # "idle" /\ worker[w].pc # "idle"
      /\ worker[v].job = worker[w].job => worker[v].fence # worker[w].fence

(* The retry counters that a process read when it claimed a job, and on    *)
(* which handleFailure decides much later, are still those of the row if   *)
(* the fenced update goes through.                                         *)
SnapshotCurrent ==
  \A w \in Workers : Holds(w) =>
    /\ worker[w].retry = jobs[worker[w].job].retry
    /\ worker[w].transient = jobs[worker[w].job].transient

(* A job completes or fails only under the newest claim: an expired worker *)
(* whose job was taken over cannot finish it.                              *)
FinishedByLastClaim ==
  \A j \in Jobs :
    jobs[j].state \in {"COMPLETED", "FAILED"} =>
      jobs[j].by = jobs[j].fence /\ jobs[j].fence > 0

(* A stage exists only when all earlier stages of its chain are completed  *)
(* and asked for it, and a completed stage that asked for its successor    *)
(* has it: no stage is skipped, lost or run beside another.                *)
StagesInOrder ==
  \A c \in Chains, s \in 1..LastStage :
    /\ jobs[<<c, s>>].state # "NONE" =>
         \A u \in 1..LastStage : u < s =>
           jobs[<<c, u>>].state = "COMPLETED" /\ jobs[<<c, u>>].cont
    /\ jobs[<<c, s>>].state = "COMPLETED" /\ jobs[<<c, s>>].cont /\ s < LastStage =>
         jobs[<<c, s + 1>>].state # "NONE"

(* Both retry budgets stay below MaxRetries, and a job fails exactly when  *)
(* one of them is used up.                                                 *)
BudgetsRespected ==
  \A j \in Jobs :
    /\ jobs[j].retry < MaxRetries /\ jobs[j].transient < MaxRetries
    /\ jobs[j].state = "FAILED" =>
         jobs[j].retry + 1 = MaxRetries \/ jobs[j].transient + 1 = MaxRetries

(* A job that CancelRun found active is at rest when it returns, whatever  *)
(* the processes that were working on it still do, and its chain has ended *)
(* there: it goes on only if the job itself was completed, by a            *)
(* transaction that CancelRun came too late for, and asked for its         *)
(* successor.  (That one stays: no statement of CancelRun sees it.)        *)
CancelIsFinal ==
  \A j \in cancelled, k \in Jobs :
    k[1] = j[1] /\ jobs[k].state \in Active =>
      k[2] > j[2] /\ jobs[j].state = "COMPLETED" /\ jobs[j].cont

(* A terminal row never changes (so the trigger that forbids it is never   *)
(* hit), and fencing tokens never go back.                                 *)
TerminalImmutable ==
  [][\A j \in Jobs :
       /\ jobs[j].state \in Terminal => jobs'[j] = jobs[j]
       /\ jobs'[j].fence >= jobs[j].fence]_vars

(* Claims are fenced: a claimed row has one owner, that one decides on the *)
(* counters that the row has and keeps them within the budgets, and nobody *)
(* but the last claimant finishes the job.                                 *)
ClaimsFenced ==
  TypeOK /\ UniqueClaims /\ SnapshotCurrent /\ FinishedByLastClaim
    /\ BudgetsRespected

(* A finished, failed or cancelled job stays so, whoever still works on it *)
(* (CancelRun against handlers under way, takeovers, late answers).        *)
RestIsFinal == []CancelIsFinal /\ TerminalImmutable

(* A chain that was enqueued comes to rest: all its jobs are completed,    *)
(* failed or cancelled in the end, across crashes, takeovers and retries.  *)
ChainSettles ==
  \A c \in Chains :
    jobs[<<c, 1>>].state # "NONE" ~>
      \A s \in 1..LastStage : jobs[<<c, s>>].state \notin Active

(* "Bounded retries": a job is given up after at most MaxRetries ordinary  *)
(* and MaxRetries transient failures of its handler.                       *)
BoundedRetries == \A j \in Jobs : failures[j] <= 2 * MaxRetries - 1

=============================================================================
