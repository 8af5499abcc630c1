-------------------------- MODULE StageJobsProofs --------------------------
(***************************************************************************)
(* Proofs about the queue of stages and about the gateway that its         *)
(* reasoning stages call.                                                  *)
(*                                                                         *)
(* The first part shows that the fencing, ordering, budget and             *)
(* cancellation invariants of StageJobs hold for any number of chains,     *)
(* stages, workers, OwnerIDs, retries and faults.  The second part is      *)
(* about Gateway, for any requests, answers, callers and bounds.           *)
(***************************************************************************)
EXTENDS StageJobs, Gateway, TLAPS

USE FaultsAssumption, Zenon

(* The initial rows and processes have their types.                        *)
LEMMA InitType == Init => TypeOK
<1> SUFFICES ASSUME Init PROVE TypeOK
  OBVIOUS
<1>1. NoJob \in JobRow /\ NoJob.state # "CLAIMED" /\ NoJob.owner = Nil
  BY DEF NoJob, JobRow
<1>2. Idle \in WorkerState /\ Idle.pc = "idle"
  BY DEF Idle, WorkerState
<1>3. QED
  BY <1>1, <1>2, SMT DEF Init, TypeOK

(* A released row is well-typed and unowned.                               *)
LEMMA ReleasedType ==
  ASSUME TypeOK, NEW j \in Jobs, NEW s \in {"RETRY", "COMPLETED", "FAILED", "CANCELLED"}
  PROVE  /\ released(j, s) \in JobRow
         /\ released(j, s).state = s
         /\ released(j, s).owner = Nil
         /\ released(j, s).fence = jobs[j].fence
         /\ released(j, s).retry = jobs[j].retry
         /\ released(j, s).transient = jobs[j].transient
         /\ released(j, s).by = jobs[j].by
         /\ released(j, s).cont = jobs[j].cont
BY ZenonT(40) DEF released, TypeOK, JobRow, Active, Terminal

(* So is a newly inserted one.                                             *)
LEMMA NewJobType ==
  /\ NewJob \in JobRow /\ NewJob.state = "READY" /\ NewJob.owner = Nil
  /\ NewJob.fence = 0 /\ NewJob.retry = 0 /\ NewJob.transient = 0
BY Zenon DEF NewJob, NoJob, JobRow, Active

(* Updates of single fields keep a row well-typed.  An expiry.             *)
LEMMA RowExpired ==
  ASSUME NEW r \in JobRow
  PROVE  /\ [r EXCEPT !.expired = TRUE] \in JobRow
         /\ [r EXCEPT !.expired = TRUE].state = r.state
         /\ [r EXCEPT !.expired = TRUE].owner = r.owner
BY Zenon DEF JobRow

(* A renewal.                                                              *)
LEMMA RowRenewed ==
  ASSUME NEW r \in JobRow
  PROVE  /\ [r EXCEPT !.expired = FALSE] \in JobRow
         /\ [r EXCEPT !.expired = FALSE].state = r.state
         /\ [r EXCEPT !.expired = FALSE].owner = r.owner
BY Zenon DEF JobRow

(* The end of a backoff.                                                   *)
LEMMA RowAvailable ==
  ASSUME NEW r \in JobRow
  PROVE  /\ [r EXCEPT !.available = TRUE] \in JobRow
         /\ [r EXCEPT !.available = TRUE].state = r.state
         /\ [r EXCEPT !.available = TRUE].owner = r.owner
BY Zenon DEF JobRow

(* The fields that the end of a claim sets.                                *)
LEMMA RowFinished ==
  ASSUME NEW r \in JobRow, NEW b \in BOOLEAN, NEW n \in Nat
  PROVE  /\ [r EXCEPT !.by = n] \in JobRow
         /\ [r EXCEPT !.by = n, !.cont = b] \in JobRow
         /\ [r EXCEPT !.retry = n, !.available = b] \in JobRow
         /\ [r EXCEPT !.transient = n, !.available = b] \in JobRow
BY Zenon DEF JobRow

(* And the state of a process.  A lost heartbeat.                          *)
LEMMA WorkerLost ==
  ASSUME NEW r \in WorkerState
  PROVE  /\ [r EXCEPT !.lost = TRUE] \in WorkerState
         /\ [r EXCEPT !.lost = TRUE].pc = r.pc
         /\ [r EXCEPT !.lost = TRUE].job = r.job
BY Zenon DEF WorkerState

(* The result of a handler.                                                *)
LEMMA WorkerDone ==
  ASSUME NEW r \in WorkerState, NEW o \in Outcomes
  PROVE  /\ [r EXCEPT !.pc = "done", !.outcome = o] \in WorkerState
         /\ [r EXCEPT !.pc = "done", !.outcome = o].job = r.job
BY Zenon DEF WorkerState

(* A completion whose transaction is open.                                 *)
LEMMA WorkerCommits ==
  ASSUME NEW r \in WorkerState
  PROVE  /\ [r EXCEPT !.pc = "commit"] \in WorkerState
         /\ [r EXCEPT !.pc = "commit"].job = r.job
BY Zenon DEF WorkerState

(* What a claim puts in the memory of a process.                           *)
LEMMA ClaimedType ==
  ASSUME TypeOK, NEW j \in Jobs
  PROVE  /\ claimFence(j) = jobs[j].fence + 1 /\ claimFence(j) \in Nat
         /\ claimedJob(j) \in WorkerState
         /\ claimedJob(j).pc = "handling"
         /\ claimedJob(j).job = j
         /\ claimedJob(j).fence = claimFence(j)
         /\ claimedJob(j).retry = jobs[j].retry
         /\ claimedJob(j).transient = jobs[j].transient
<1>1. /\ claimFence(j) = jobs[j].fence + 1 /\ claimFence(j) \in Nat
      /\ jobs[j].retry \in Nat /\ jobs[j].transient \in Nat
  BY SMT DEF TypeOK, JobRow, claimFence
<1>2. QED
  BY Zenon, <1>1 DEF claimedJob, Idle, WorkerState

(* Every step of a process or of the ledger preserves the types.           *)
LEMMA NextType == TypeOK /\ [Next]_vars => TypeOK'
<1> SUFFICES ASSUME TypeOK, [Next]_vars PROVE TypeOK'
  OBVIOUS
<1>idle. Idle \in WorkerState /\ Idle.pc = "idle"
  BY DEF Idle, WorkerState
<1>1. ASSUME NEW c \in Chains, Enqueue(c) PROVE TypeOK'
  BY Zenon, <1>1, NewJobType DEF Enqueue, TypeOK, cancelVars
<1>2. CASE CancelRun
  BY <1>2, ReleasedType DEF CancelRun, TypeOK
<1>2a. CASE CancelStart
  BY <1>2a DEF CancelStart, TypeOK
<1>3. ASSUME NEW j \in Jobs, ExpireAbandoned(j) PROVE TypeOK'
  <2>1. jobs' \in [Jobs -> JobRow]
    BY <1>3, RowExpired DEF ExpireAbandoned, TypeOK
  <2>2. \A k \in Jobs : jobs'[k].state = "CLAIMED" <=> jobs'[k].owner # Nil
    BY <1>3, RowExpired DEF ExpireAbandoned, TypeOK
  <2>3. QED
    BY <1>3, <2>1, <2>2 DEF ExpireAbandoned, TypeOK, cancelVars
<1>4. ASSUME NEW j \in Jobs, ExpireSlow(j) PROVE TypeOK'
  <2>1. jobs' \in [Jobs -> JobRow]
    BY <1>4, RowExpired DEF ExpireSlow, TypeOK
  <2>2. \A k \in Jobs : jobs'[k].state = "CLAIMED" <=> jobs'[k].owner # Nil
    BY <1>4, RowExpired DEF ExpireSlow, TypeOK
  <2>3. QED
    BY <1>4, <2>1, <2>2, SMT DEF ExpireSlow, TypeOK, cancelVars
<1>5. ASSUME NEW j \in Jobs, BackoffElapsed(j) PROVE TypeOK'
  <2>1. jobs' \in [Jobs -> JobRow]
    BY <1>5, RowAvailable DEF BackoffElapsed, TypeOK
  <2>2. \A k \in Jobs : jobs'[k].state = "CLAIMED" <=> jobs'[k].owner # Nil
    BY <1>5, RowAvailable DEF BackoffElapsed, TypeOK
  <2>3. QED
    BY <1>5, <2>1, <2>2 DEF BackoffElapsed, TypeOK, cancelVars
<1>6. ASSUME NEW w \in Workers, Claim(w) PROVE TypeOK'
  <2>1. PICK j \in Jobs :
          /\ jobs' = [jobs EXCEPT ![j] = [@ EXCEPT
               !.state = "CLAIMED", !.owner = Owner[w], !.expired = FALSE,
               !.fence = claimFence(j)]]
          /\ worker' = [worker EXCEPT ![w] = claimedJob(j)]
    BY Zenon, <1>6 DEF Claim
  <2>2. claimedJob(j) \in WorkerState /\ claimedJob(j).job = j
    BY ClaimedType
  <2>3. worker' \in [Workers -> WorkerState]
        /\ \A v \in Workers : worker'[v].pc # "idle" => worker'[v].job \in Jobs
    BY <2>1, <2>2 DEF TypeOK
  <2>4. jobs' \in [Jobs -> JobRow]
        /\ \A k \in Jobs : jobs'[k].state = "CLAIMED" <=> jobs'[k].owner # Nil
    <3>1. Owner[w] \in Owners /\ Owner[w] # Nil
      BY OwnerAssumption
    <3> DEFINE q == [jobs[j] EXCEPT !.state = "CLAIMED", !.owner = Owner[w],
                                    !.expired = FALSE, !.fence = claimFence(j)]
    <3>2. jobs[j] \in JobRow /\ claimFence(j) \in Nat
      BY ClaimedType DEF TypeOK
    <3>3. q \in JobRow /\ q.state = "CLAIMED" /\ q.owner = Owner[w]
      BY Zenon, <3>1, <3>2 DEF JobRow, Active
    <3>4. jobs' = [jobs EXCEPT ![j] = q]
      BY <2>1
    <3> HIDE DEF q
    <3>5. QED
      BY <3>1, <3>3, <3>4 DEF TypeOK
  <2>5. QED
    BY <1>6, <2>3, <2>4 DEF TypeOK, Claim, cancelVars
<1>7. ASSUME NEW w \in Workers, Renew(w) PROVE TypeOK'
  <2>1. jobs' \in [Jobs -> JobRow]
    BY <1>7, RowRenewed DEF Renew, TypeOK
  <2>2. \A k \in Jobs : jobs'[k].state = "CLAIMED" <=> jobs'[k].owner # Nil
    BY <1>7, RowRenewed, SMT DEF Renew, TypeOK
  <2>3. QED
    BY <1>7, <2>1, <2>2 DEF Renew, TypeOK, cancelVars
<1>8. ASSUME NEW w \in Workers, RenewRefused(w) PROVE TypeOK'
  BY <1>8, WorkerLost DEF RenewRefused, TypeOK, cancelVars
<1>9. ASSUME NEW w \in Workers, RenewError(w) PROVE TypeOK'
  BY <1>9, WorkerLost, SMT DEF RenewError, TypeOK, cancelVars
<1>10. ASSUME NEW w \in Workers, HandlerReturns(w) PROVE TypeOK'
  <2>1. PICK o \in Outcomes :
          worker' = [worker EXCEPT ![w] = [@ EXCEPT !.pc = "done", !.outcome = o]]
    BY Zenon, <1>10 DEF HandlerReturns, handle, Outcomes
  <2>2. worker' \in [Workers -> WorkerState]
        /\ \A v \in Workers : worker'[v].pc # "idle" => worker'[v].job \in Jobs
    <3>1. worker[w].job \in Jobs /\ worker \in [Workers -> WorkerState]
      BY <1>10 DEF HandlerReturns, TypeOK
    <3>2. QED
      BY Zenon, <2>1, <3>1, WorkerDone DEF TypeOK
  <2>3. QED
    BY <1>10, <2>2 DEF HandlerReturns, TypeOK, cancelVars
<1>11. ASSUME NEW w \in Workers, HandlerTimesOut(w) PROVE TypeOK'
  <2>1. PICK o \in Outcomes :
          worker' = [worker EXCEPT ![w] = [@ EXCEPT !.pc = "done", !.outcome = o]]
    BY <1>11 DEF HandlerTimesOut, handle, Outcomes
  <2>2. worker' \in [Workers -> WorkerState]
        /\ \A v \in Workers : worker'[v].pc # "idle" => worker'[v].job \in Jobs
    <3>1. worker[w].job \in Jobs /\ worker \in [Workers -> WorkerState]
      BY <1>11 DEF HandlerTimesOut, TypeOK
    <3>2. QED
      BY Zenon, <2>1, <3>1, WorkerDone DEF TypeOK
  <2>3. QED
    BY <1>11, <2>2, SMT DEF HandlerTimesOut, TypeOK, cancelVars
<1>12. ASSUME NEW w \in Workers, CompleteAndEnqueue(w) PROVE TypeOK'
  <2>1. worker' \in [Workers -> WorkerState]
        /\ \A v \in Workers : worker'[v].pc # "idle" => worker'[v].job \in Jobs
    <3>1. worker[w].job \in Jobs /\ worker \in [Workers -> WorkerState]
      BY <1>12 DEF CompleteAndEnqueue, TypeOK
    <3>2. QED
      <4>1. \/ worker' = [worker EXCEPT ![w] = Idle]
            \/ worker' = [worker EXCEPT ![w] = [@ EXCEPT !.pc = "commit"]]
        BY <1>12 DEF CompleteAndEnqueue, finish
      <4>2. QED
        BY <1>idle, <3>1, <4>1, WorkerCommits, ZenonT(40) DEF TypeOK
  <2>2. QED
    BY <1>12, <2>1 DEF CompleteAndEnqueue, TypeOK, cancelVars
<1>12a. ASSUME NEW w \in Workers, CommitCompletion(w) PROVE TypeOK'
  <2>1. worker[w].job \in Jobs /\ worker[w].fence \in Nat
    BY <1>12a DEF CommitCompletion, TypeOK, WorkerState
  <2>2. ASSUME NEW b \in BOOLEAN
        PROVE  completed(worker[w].job, worker[w].fence, b) \in [Jobs -> JobRow]
               /\ \A k \in Jobs :
                    completed(worker[w].job, worker[w].fence, b)[k].state = "CLAIMED"
                    <=> completed(worker[w].job, worker[w].fence, b)[k].owner # Nil
    <3>1. [released(worker[w].job, "COMPLETED") EXCEPT
             !.by = worker[w].fence, !.cont = b] \in JobRow
      BY Zenon, <2>1, ReleasedType, RowFinished
    <3>2. QED
      BY <2>1, <3>1, ReleasedType, NewJobType, SMT
         DEF completed, TypeOK, JobRow
  <2>3. jobs' \in [Jobs -> JobRow]
        /\ \A k \in Jobs : jobs'[k].state = "CLAIMED" <=> jobs'[k].owner # Nil
    BY Zenon, <1>12a, <2>2 DEF CommitCompletion, TypeOK
  <2>4. QED
    BY <1>12a, <1>idle, <2>3 DEF CommitCompletion, finish, TypeOK, cancelVars
<1>13. ASSUME NEW w \in Workers, LeaveClaimed(w) PROVE TypeOK'
  <2>1. failures' \in [Jobs -> Nat]
    BY <1>13, SMTT(30) DEF LeaveClaimed, counted, TypeOK
  <2>2. QED
    BY <1>13, <1>idle, <2>1, SMT DEF LeaveClaimed, finish, TypeOK, cancelVars
<1>14. ASSUME NEW w \in Workers, RescheduleTransient(w) PROVE TypeOK'
  <2>1. worker[w].job \in Jobs
    BY <1>14 DEF RescheduleTransient, TypeOK
  <2>2. [released(worker[w].job, "RETRY") EXCEPT
           !.transient = @ + 1, !.available = FALSE] \in JobRow
    <3>1. released(worker[w].job, "RETRY").transient + 1 \in Nat
      BY <2>1, ReleasedType, SMTT(30) DEF JobRow
    <3>2. QED
      BY Zenon, <2>1, <3>1, ReleasedType, RowFinished
  <2>3. QED
    BY <1>14, <1>idle, <2>1, <2>2, ReleasedType, SMT

       DEF RescheduleTransient, fenced, counted, finish, TypeOK, JobRow, cancelVars
<1>15. ASSUME NEW w \in Workers, Retry(w) PROVE TypeOK'
  <2>1. worker[w].job \in Jobs
    BY <1>15 DEF Retry, TypeOK
  <2>2. [released(worker[w].job, "RETRY") EXCEPT
           !.retry = @ + 1, !.available = FALSE] \in JobRow
    <3>1. released(worker[w].job, "RETRY").retry + 1 \in Nat
      BY <2>1, ReleasedType, SMT DEF JobRow
    <3>2. QED
      BY Zenon, <2>1, <3>1, ReleasedType, RowFinished
  <2>3. QED
    BY <1>15, <1>idle, <2>1, <2>2, ReleasedType, SMT
    DEF Retry, fenced, counted, finish, TypeOK, JobRow, cancelVars
<1>16. ASSUME NEW w \in Workers, Fail(w) PROVE TypeOK'
  <2>1. worker[w].job \in Jobs /\ worker[w].fence \in Nat
    BY <1>16 DEF Fail, TypeOK, WorkerState
  <2>2. [released(worker[w].job, "FAILED") EXCEPT !.by = worker[w].fence] \in JobRow
    BY Zenon, <2>1, ReleasedType, RowFinished
  <2>3. QED
    BY <1>16, <1>idle, <2>1, <2>2, ReleasedType, SMT
    DEF Fail, fenced, counted, finish, TypeOK, JobRow, cancelVars
<1>17. ASSUME NEW w \in Workers, FinishError(w) PROVE TypeOK'
  BY <1>17, <1>idle, SMT DEF FinishError, finish, TypeOK, cancelVars
<1>18. ASSUME NEW w \in Workers, Crash(w) PROVE TypeOK'
  BY <1>18, <1>idle, SMT DEF Crash, finish, TypeOK, cancelVars
<1>19. ASSUME NEW w \in Workers, Shutdown(w) PROVE TypeOK'
  BY <1>19, SMT DEF Shutdown, TypeOK, cancelVars
<1>20. ASSUME NEW w \in Workers, Exit(w) PROVE TypeOK'
  BY <1>20 DEF Exit, TypeOK, cancelVars
<1>21. ASSUME NEW w \in Workers, Restart(w) PROVE TypeOK'
  BY <1>21 DEF Restart, TypeOK, cancelVars
<1>22. CASE UNCHANGED vars
  BY <1>22 DEF vars, TypeOK
<1>23. QED
  BY <1>1, <1>2, <1>2a, <1>3, <1>4, <1>5, <1>6, <1>7, <1>8, <1>9, <1>10,
     <1>11, <1>12, <1>12a, <1>13, <1>14, <1>15, <1>16, <1>17, <1>18, <1>19, <1>20, <1>21, <1>22
  DEF Next, LedgerNext, WorkerNext

(* Type correctness of the job ledger and the reconcilers.                 *)
LEMMA TypeCorrect == Spec => []TypeOK
BY InitType, NextType, PTL DEF Spec

-----------------------------------------------------------------------------
(* The inductive invariant.  The properties of StageJobs are preserved     *)
(* together, with four facts that connect the memory of the processes and *)
(* the history to the rows.                                                *)

(* The token a process works under was given out by the row it claimed.    *)
TokensIssued ==
  \A w \in Workers : worker[w].pc # "idle" =>
    0 < worker[w].fence /\ worker[w].fence <= jobs[worker[w].job].fence

(* A row that does not exist has given out no token.                       *)
NoTokenBefore == \A j \in Jobs : jobs[j].state = "NONE" => jobs[j].fence = 0

(* A completion that is not committed holds its claim: its row is locked.  *)
CommitHolds == \A w \in Workers : worker[w].pc = "commit" => Holds(w)

(* What a CancelRun has found exists, and is at rest when it returns.      *)
FoundAtRest ==
  /\ \A j \in cancelling : jobs[j].state # "NONE"
  /\ \A j \in cancelled : jobs[j].state \in Terminal

ClaimInv ==
  /\ UniqueClaims /\ SnapshotCurrent /\ TokensIssued /\ NoTokenBefore
  /\ CommitHolds
RowInv == FinishedByLastClaim /\ BudgetsRespected
ChainInv == StagesInOrder /\ FoundAtRest

IInv == TypeOK /\ ClaimInv /\ RowInv /\ ChainInv

(* StagesInOrder for one stage.                                            *)
StageInOrder(c, s) ==
  /\ jobs[<<c, s>>].state # "NONE" =>
       \A u \in 1..LastStage : u < s =>
         jobs[<<c, u>>].state = "COMPLETED" /\ jobs[<<c, u>>].cont
  /\ jobs[<<c, s>>].state = "COMPLETED" /\ jobs[<<c, s>>].cont /\ s < LastStage =>
       jobs[<<c, s + 1>>].state # "NONE"

(* Two versions of a row that differ at most in the two time flags.        *)
SameRow(r, q) ==
  /\ r.state = q.state /\ r.owner = q.owner /\ r.fence = q.fence
  /\ r.retry = q.retry /\ r.transient = q.transient
  /\ r.by = q.by /\ r.cont = q.cont

(* A process that goes on with its job, or drops it.                       *)
SameWork(w) ==
  \/ worker'[w].pc = "idle"
  \/ /\ worker[w].pc # "idle"
     /\ worker'[w].job = worker[w].job /\ worker'[w].fence = worker[w].fence
     /\ worker'[w].retry = worker[w].retry
     /\ worker'[w].transient = worker[w].transient
     /\ worker'[w].pc = "commit" => worker[w].pc = "commit" \/ Holds(w)

(* A step that changes only time flags and the progress of processes, or   *)
(* that starts a CancelRun.                                                *)
Quiet ==
  /\ \A j \in Jobs : SameRow(jobs'[j], jobs[j])
  /\ \A w \in Workers : SameWork(w)
  /\ cancelled' = cancelled
  /\ \/ cancelling' = cancelling
     \/ \A j \in cancelling' : jobs[j].state # "NONE"

(* A step in which a process gives its job back, unfinished or failed.     *)
GivesBack(w, next) ==
  /\ Holds(w)
  /\ next.state \in {"RETRY", "FAILED"}
  /\ next.fence = worker[w].fence
  /\ next.retry < MaxRetries /\ next.transient < MaxRetries
  /\ next.state = "FAILED" =>
       /\ next.by = worker[w].fence
       /\ next.retry + 1 = MaxRetries \/ next.transient + 1 = MaxRetries
  /\ jobs' = [jobs EXCEPT ![worker[w].job] = next]
  /\ worker' = [worker EXCEPT ![w] = Idle]
  /\ UNCHANGED cancelVars

(* The initial state: no row exists and no process has a job.              *)
LEMMA InitIInv == Init => IInv
<1> SUFFICES ASSUME Init PROVE IInv
  OBVIOUS
<1>1. TypeOK
  BY InitType
<1>2. \A w \in Workers : worker[w].pc = "idle"
  BY DEF Init, Idle
<1>3. \A j \in Jobs : /\ jobs[j].state = "NONE" /\ jobs[j].fence = 0
                      /\ jobs[j].retry = 0 /\ jobs[j].transient = 0
  BY DEF Init, NoJob
<1>4. ClaimInv
  BY <1>2, <1>3 DEF ClaimInv, UniqueClaims, SnapshotCurrent, TokensIssued,
     NoTokenBefore, CommitHolds, Holds
<1>5. RowInv
  BY <1>3, RetriesAssumption, SMT
     DEF RowInv, FinishedByLastClaim, BudgetsRespected
<1>6. \A c \in Chains, s \in 1..LastStage : jobs[<<c, s>>].state = "NONE"
  BY <1>3 DEF Jobs
<1>7. cancelled = {} /\ cancelling = {}
  BY DEF Init
<1>8. ChainInv
  BY <1>6, <1>7 DEF ChainInv, StagesInOrder, FoundAtRest, Terminal, cancelVars
<1>9. QED
  BY <1>1, <1>4, <1>5, <1>8 DEF IInv

(* Quiet steps preserve everything that is not a type.                     *)
LEMMA QuietIInv ==
  ASSUME IInv, TypeOK', Quiet PROVE IInv'
<1>1. \A w \in Workers : worker'[w].pc # "idle" =>
        /\ worker[w].pc # "idle" /\ worker[w].job \in Jobs
        /\ worker'[w].job = worker[w].job /\ worker'[w].fence = worker[w].fence
        /\ worker'[w].retry = worker[w].retry
        /\ worker'[w].transient = worker[w].transient
  BY DEF Quiet, SameWork, IInv, TypeOK
<1>2. ClaimInv'
  <2>1. UniqueClaims'
    BY <1>1, SMT DEF IInv, ClaimInv, UniqueClaims
  <2>2. SnapshotCurrent'
    BY <1>1, SMT DEF IInv, ClaimInv, SnapshotCurrent, Holds, Quiet, SameRow
  <2>3. TokensIssued' /\ NoTokenBefore'
    BY <1>1, SMT
       DEF IInv, ClaimInv, TokensIssued, NoTokenBefore, Quiet, SameRow
  <2>4. CommitHolds'
    <3> SUFFICES ASSUME NEW w \in Workers, worker'[w].pc = "commit"
                 PROVE  Holds(w)'
      BY DEF CommitHolds
    <3>1. Holds(w)
      BY DEF Quiet, SameWork, IInv, ClaimInv, CommitHolds
    <3>2. QED
      BY <1>1, <3>1 DEF Holds, Quiet, SameRow
  <2>5. QED
    BY <2>1, <2>2, <2>3, <2>4 DEF ClaimInv
<1>3. RowInv'
  BY ZenonT(40)
     DEF IInv, RowInv, FinishedByLastClaim, BudgetsRespected, Quiet, SameRow
<1>4. ChainInv'
  <2>1. \A c \in Chains, s \in 1..LastStage :
          /\ jobs'[<<c, s>>].state = jobs[<<c, s>>].state
          /\ jobs'[<<c, s>>].cont = jobs[<<c, s>>].cont
    BY DEF Quiet, SameRow, Jobs
  <2>2. StagesInOrder'
    <3> SUFFICES ASSUME NEW c \in Chains, NEW s \in 1..LastStage
                 PROVE  StageInOrder(c, s)'
      BY Zenon DEF StagesInOrder, StageInOrder
    <3>1. StageInOrder(c, s)
      BY DEF IInv, ChainInv, StagesInOrder, StageInOrder
    <3>2. s < LastStage => s + 1 \in 1..LastStage
      BY StagesAssumption, SMT
    <3>3. QED
      BY <2>1, <3>1, <3>2 DEF StageInOrder
  <2>3. FoundAtRest'
    <3>1. cancelling' \subseteq Jobs /\ cancelled \subseteq Jobs
      BY DEF IInv, TypeOK
    <3>2. \A j \in Jobs : jobs'[j].state = jobs[j].state
      BY DEF Quiet, SameRow
    <3>3. QED
      BY <3>1, <3>2 DEF IInv, ChainInv, FoundAtRest, Quiet
  <2>4. QED
    BY <2>2, <2>3 DEF ChainInv
<1>5. QED
  BY <1>2, <1>3, <1>4 DEF IInv

(* A process gives its job back only while it holds it, so no other claim  *)
(* of the row is disturbed.                                                *)
LEMMA GivesBackIInv ==
  ASSUME IInv, TypeOK', NEW w \in Workers, NEW next, GivesBack(w, next)
  PROVE  IInv'
<1> DEFINE j == worker[w].job
<1>1. /\ j \in Jobs /\ jobs[j].state = "CLAIMED" /\ jobs[j].fence = next.fence
      /\ next.fence > 0
  BY DEF IInv, TypeOK, ClaimInv, TokensIssued, GivesBack, Holds
<1>2. /\ jobs'[j] = next
      /\ \A k \in Jobs : k # j => jobs'[k] = jobs[k]
  BY <1>1 DEF IInv, TypeOK, GivesBack
<1>3. /\ worker'[w].pc = "idle"
      /\ \A v \in Workers : v # w => worker'[v] = worker[v]
  BY DEF IInv, TypeOK, GivesBack, Idle
<1>4. UNCHANGED cancelVars /\ next.state \in {"RETRY", "FAILED"}
  BY DEF GivesBack
<1> HIDE DEF j
<1>5. ClaimInv'
  <2>1. UniqueClaims'
    BY <1>3, ZenonT(40) DEF IInv, ClaimInv, UniqueClaims
  <2>2. \A v \in Workers : worker'[v].pc # "idle" =>
          v # w /\ worker'[v] = worker[v] /\ worker[v].job \in Jobs
    BY <1>3 DEF IInv, TypeOK
  <2>3. SnapshotCurrent'
    <3> SUFFICES ASSUME NEW v \in Workers, Holds(v)'
                 PROVE  /\ worker'[v].retry = jobs'[worker'[v].job].retry
                        /\ worker'[v].transient = jobs'[worker'[v].job].transient
      BY DEF SnapshotCurrent
    <3>1. worker'[v] = worker[v] /\ jobs'[worker[v].job].state = "CLAIMED"
          /\ worker[v].job \in Jobs
      BY <2>2 DEF Holds
    <3>2. worker[v].job # j
      BY <1>2, <1>4, <3>1
    <3>3. QED
      BY <1>2, <3>1, <3>2 DEF IInv, ClaimInv, SnapshotCurrent, Holds
  <2>4. TokensIssued'
    BY <1>1, <1>2, <2>2, SMT DEF IInv, ClaimInv, TokensIssued
  <2>5. NoTokenBefore'
    BY <1>2, <1>4 DEF IInv, ClaimInv, NoTokenBefore
  <2>6. CommitHolds'
    <3> SUFFICES ASSUME NEW v \in Workers, worker'[v].pc = "commit"
                 PROVE  Holds(v)'
      BY DEF CommitHolds
    <3>1. v # w /\ worker'[v] = worker[v] /\ Holds(v) /\ worker[v].job \in Jobs
      BY <2>2 DEF IInv, ClaimInv, CommitHolds
    <3>2. worker[v].job # j
      BY <3>1 DEF IInv, ClaimInv, UniqueClaims, GivesBack, Holds, j
    <3>3. QED
      BY <1>2, <3>1, <3>2 DEF Holds
  <2>7. QED
    BY <2>1, <2>3, <2>4, <2>5, <2>6 DEF ClaimInv
<1>6. RowInv'
  BY <1>1, <1>2, <1>4, SMT
     DEF IInv, RowInv, FinishedByLastClaim, BudgetsRespected, GivesBack
<1>7. ChainInv'
  <2>1. \A c \in Chains, s \in 1..LastStage :
          /\ <<c, s>> # j => jobs'[<<c, s>>] = jobs[<<c, s>>]
          /\ <<c, s>> = j => /\ jobs[<<c, s>>].state = "CLAIMED"
                             /\ jobs'[<<c, s>>].state \in {"RETRY", "FAILED"}
    BY <1>1, <1>2, <1>4 DEF Jobs
  <2>2. StagesInOrder'
    <3> SUFFICES ASSUME NEW c \in Chains, NEW s \in 1..LastStage
                 PROVE  StageInOrder(c, s)'
      BY Zenon DEF StagesInOrder, StageInOrder
    <3>1. StageInOrder(c, s)
      BY DEF IInv, ChainInv, StagesInOrder, StageInOrder
    <3>2. s < LastStage => s + 1 \in 1..LastStage
      BY StagesAssumption, SMT
    <3>3. QED
      BY <2>1, <3>1, <3>2 DEF StageInOrder
  <2>3. FoundAtRest'
    <3>1. \A k \in Jobs :
            /\ jobs[k].state \in Terminal => jobs'[k].state \in Terminal
            /\ jobs'[k].state = "NONE" => jobs[k].state = "NONE"
      BY <1>1, <1>2, <1>4 DEF Terminal
    <3>2. cancelling' = cancelling /\ cancelled' = cancelled
          /\ cancelling \subseteq Jobs /\ cancelled \subseteq Jobs
      BY <1>4 DEF IInv, TypeOK, cancelVars
    <3>3. QED
      BY <3>1, <3>2 DEF IInv, ChainInv, FoundAtRest
  <2>4. QED
    BY <2>2, <2>3 DEF ChainInv
<1>8. QED
  BY <1>5, <1>6, <1>7 DEF IInv

(* Enqueue inserts a row nobody can be working on.                         *)
LEMMA EnqueueIInv ==
  ASSUME IInv, TypeOK', NEW c \in Chains, Enqueue(c) PROVE IInv'
<1> DEFINE j == <<c, 1>>
<1>1. j \in Jobs /\ jobs[j].state = "NONE"
  BY StagesAssumption, SMT DEF Jobs, Enqueue
<1>2. /\ jobs'[j].state = "READY" /\ jobs'[j].fence = 0
      /\ jobs'[j].retry = 0 /\ jobs'[j].transient = 0
      /\ \A k \in Jobs : k # j => jobs'[k] = jobs[k]
  BY <1>1, NewJobType DEF IInv, TypeOK, Enqueue
<1>3. worker' = worker /\ UNCHANGED cancelVars
  BY DEF Enqueue
<1>5. \A k \in Jobs : k[1] = c => jobs[k].state = "NONE"
  <2> SUFFICES ASSUME NEW u \in 1..LastStage, jobs[<<c, u>>].state # "NONE"
               PROVE  FALSE
    BY SMT DEF Jobs
  <2>1. 1 \in 1..LastStage /\ (u = 1 \/ 1 < u)
    BY StagesAssumption, SMT
  <2>2. QED
    BY Zenon, <1>1, <2>1 DEF IInv, ChainInv, StagesInOrder
<1> HIDE DEF j
<1>6. \A w \in Workers : worker[w].pc # "idle" =>
        worker[w].job \in Jobs /\ worker[w].job # j
  BY <1>1, SMT
     DEF IInv, TypeOK, ClaimInv, TokensIssued, NoTokenBefore, WorkerState
<1>7. ClaimInv'
  <2>1. UniqueClaims'
    BY <1>3, ZenonT(40) DEF IInv, ClaimInv, UniqueClaims
  <2>2. SnapshotCurrent'
    BY <1>2, <1>3, <1>6, ZenonT(40) DEF IInv, ClaimInv, SnapshotCurrent, Holds
  <2>3. TokensIssued'
    BY <1>2, <1>3, <1>6 DEF IInv, ClaimInv, TokensIssued
  <2>4. NoTokenBefore'
    BY <1>2 DEF IInv, ClaimInv, NoTokenBefore
  <2>5. CommitHolds'
    BY <1>2, <1>3, <1>6, ZenonT(40) DEF IInv, ClaimInv, CommitHolds, Holds
  <2>6. QED
    BY <2>1, <2>2, <2>3, <2>4, <2>5 DEF ClaimInv
<1>8. RowInv'
  BY <1>2, RetriesAssumption, SMT
     DEF IInv, RowInv, FinishedByLastClaim, BudgetsRespected
<1>9. ChainInv'
  <2>1. \A b \in Chains, s \in 1..LastStage :
          b # c => jobs'[<<b, s>>] = jobs[<<b, s>>]
    BY <1>2 DEF Jobs, j
  <2>2. \A s \in 1..LastStage :
          jobs'[<<c, s>>].state = IF s = 1 THEN "READY" ELSE "NONE"
    BY <1>2, <1>5, SMT DEF Jobs, j
  <2>3. StagesInOrder'
    <3> SUFFICES ASSUME NEW b \in Chains, NEW s \in 1..LastStage
                 PROVE  StageInOrder(b, s)'
      BY Zenon DEF StagesInOrder, StageInOrder
    <3>1. s < LastStage => s + 1 \in 1..LastStage
      BY StagesAssumption, SMT
    <3>2. CASE b = c
      BY <2>2, <3>1, <3>2, SMT DEF StageInOrder
    <3>3. CASE b # c
      <4>1. StageInOrder(b, s)
        BY DEF IInv, ChainInv, StagesInOrder, StageInOrder
      <4>2. QED
        BY <2>1, <3>1, <3>3, <4>1 DEF StageInOrder
    <3>4. QED
      BY <3>2, <3>3
  <2>4. FoundAtRest'
    <3>1. \A k \in Jobs :
            /\ jobs[k].state \in Terminal => jobs'[k].state \in Terminal
            /\ jobs'[k].state = "NONE" => jobs[k].state = "NONE"
      BY <1>1, <1>2 DEF Terminal
    <3>2. cancelling' = cancelling /\ cancelled' = cancelled
          /\ cancelling \subseteq Jobs /\ cancelled \subseteq Jobs
      BY <1>3 DEF IInv, TypeOK, cancelVars
    <3>3. QED
      BY <3>1, <3>2 DEF IInv, ChainInv, FoundAtRest
  <2>5. QED
    BY <2>3, <2>4 DEF ChainInv
<1>10. QED
  BY <1>7, <1>8, <1>9 DEF IInv

(* CancelRun ends the active rows among those that it found, and with them *)
(* their claims.  None of them is locked.                                  *)
LEMMA CancelIInv ==
  ASSUME IInv, TypeOK', CancelRun PROVE IInv'
<1>1. \A j \in Jobs :
        \/ /\ jobs[j].state \in Active /\ jobs'[j].state = "CANCELLED"
           /\ jobs'[j].fence = jobs[j].fence /\ jobs'[j].retry = jobs[j].retry
           /\ jobs'[j].transient = jobs[j].transient
           /\ j \in cancelling
        \/ /\ jobs'[j] = jobs[j]
           /\ j \in cancelling => jobs[j].state \notin Active
  BY ReleasedType DEF IInv, CancelRun, cancels
<1>2. worker' = worker
  BY DEF CancelRun
<1>3. ClaimInv'
  <2>1. UniqueClaims'
    BY <1>2 DEF IInv, ClaimInv, UniqueClaims
  <2>2. \A w \in Workers : Holds(w)' =>
          Holds(w) /\ jobs'[worker[w].job] = jobs[worker[w].job]
    BY <1>1, <1>2 DEF IInv, TypeOK, Holds
  <2>3. TokensIssued'
    BY <1>1, <1>2 DEF IInv, TypeOK, ClaimInv, TokensIssued
  <2>4. NoTokenBefore'
    BY <1>1 DEF IInv, ClaimInv, NoTokenBefore
  <2>5. SnapshotCurrent'
    BY <1>2, <2>2 DEF IInv, ClaimInv, SnapshotCurrent
  <2>6. CommitHolds'
    <3> SUFFICES ASSUME NEW w \in Workers, worker[w].pc = "commit"
                 PROVE  Holds(w)'
      BY <1>2 DEF CommitHolds
    <3>1. Holds(w) /\ worker[w].job \in Jobs
      BY DEF IInv, TypeOK, ClaimInv, CommitHolds
    <3>2. worker[w].job \notin cancelling
      BY DEF CancelRun, Locked
    <3>3. QED
      BY <1>1, <1>2, <3>1, <3>2 DEF Holds
  <2>7. QED
    BY <2>1, <2>3, <2>4, <2>5, <2>6 DEF ClaimInv
<1>4. RowInv'
  BY <1>1 DEF IInv, RowInv, FinishedByLastClaim, BudgetsRespected
<1>5. ChainInv'
  <2>1. \A c \in Chains, s \in 1..LastStage :
          \/ jobs[<<c, s>>].state \in Active /\ jobs'[<<c, s>>].state = "CANCELLED"
          \/ jobs'[<<c, s>>] = jobs[<<c, s>>]
    BY <1>1 DEF Jobs
  <2>2. StagesInOrder'
    <3> SUFFICES ASSUME NEW c \in Chains, NEW s \in 1..LastStage
                 PROVE  StageInOrder(c, s)'
      BY Zenon DEF StagesInOrder, StageInOrder
    <3>1. StageInOrder(c, s)
      BY DEF IInv, ChainInv, StagesInOrder, StageInOrder
    <3>2. s < LastStage => s + 1 \in 1..LastStage
      BY StagesAssumption, SMT
    <3>3. QED
      BY <2>1, <3>1, <3>2 DEF StageInOrder, Active
  <2>3. cancelling' = {} /\ cancelled' = cancelled \cup cancelling
    BY DEF CancelRun
  <2>4. FoundAtRest'
    <3> SUFFICES ASSUME NEW j \in cancelled \cup cancelling
                 PROVE  jobs'[j].state \in Terminal
      BY <2>3 DEF FoundAtRest
    <3>1. j \in Jobs /\ jobs[j].state \in {"NONE"} \cup Active \cup Terminal
      BY DEF IInv, TypeOK, JobRow
    <3>2. QED
      BY <1>1, <3>1 DEF IInv, ChainInv, FoundAtRest, Terminal
  <2>5. QED
    BY <2>2, <2>4 DEF ChainInv
<1>6. QED
  BY <1>3, <1>4, <1>5 DEF IInv

(* A claim raises the row's token above that of every earlier claim.       *)
LEMMA ClaimIInv ==
  ASSUME IInv, TypeOK', NEW w \in Workers, Claim(w) PROVE IInv'
<1>1. PICK j \in Jobs :
        /\ jobs[j].state \in Active /\ ~Locked(j)
        /\ jobs' = [jobs EXCEPT ![j] = [@ EXCEPT
             !.state = "CLAIMED", !.owner = Owner[w], !.expired = FALSE,
             !.fence = claimFence(j)]]
        /\ worker' = [worker EXCEPT ![w] = claimedJob(j)]
  BY Zenon DEF Claim, Claimable
<1>2. /\ jobs[j].fence \in Nat
      /\ jobs'[j].state = "CLAIMED" /\ jobs'[j].fence = jobs[j].fence + 1
      /\ jobs'[j].retry = jobs[j].retry /\ jobs'[j].transient = jobs[j].transient
      /\ \A k \in Jobs : k # j => jobs'[k] = jobs[k]
  BY <1>1, ClaimedType, SMT DEF IInv, TypeOK, JobRow
<1>3. /\ worker'[w].pc = "handling"
      /\ worker'[w].job = j /\ worker'[w].fence = jobs[j].fence + 1
      /\ worker'[w].retry = jobs[j].retry /\ worker'[w].transient = jobs[j].transient
      /\ \A v \in Workers : v # w => worker'[v] = worker[v]
  BY <1>1, ClaimedType, SMT DEF IInv, TypeOK
<1>4. \A v \in Workers : worker[v].pc # "idle" =>
        /\ worker[v].job \in Jobs /\ worker[v].fence \in Nat
        /\ worker[v].job = j => worker[v].fence < jobs[j].fence + 1
  BY <1>2, SMT DEF IInv, TypeOK, ClaimInv, TokensIssued, WorkerState
<1>5. ClaimInv'
  <2>1. UniqueClaims'
    BY <1>3, <1>4, SMT DEF IInv, ClaimInv, UniqueClaims
  <2>2. SnapshotCurrent'
    <3> SUFFICES ASSUME NEW v \in Workers, Holds(v)'
                 PROVE  /\ worker'[v].retry = jobs'[worker'[v].job].retry
                        /\ worker'[v].transient = jobs'[worker'[v].job].transient
      BY DEF SnapshotCurrent
    <3>1. CASE v = w
      BY <1>2, <1>3, <3>1
    <3>2. CASE v # w
      <4>1. worker'[v] = worker[v] /\ worker[v].pc # "idle"
            /\ jobs'[worker[v].job].fence = worker[v].fence
        BY <1>3, <3>2 DEF Holds
      <4>2. worker[v].job # j /\ worker[v].job \in Jobs
        BY <1>2, <1>4, <4>1, SMT
      <4>3. QED
        BY <1>2, <4>1, <4>2, ZenonT(40)
           DEF IInv, ClaimInv, SnapshotCurrent, Holds
    <3>3. QED
      BY <3>1, <3>2
  <2>3. TokensIssued'
    BY <1>2, <1>3, <1>4, SMT DEF IInv, ClaimInv, TokensIssued
  <2>4. NoTokenBefore'
    BY <1>2 DEF IInv, ClaimInv, NoTokenBefore
  <2>5. CommitHolds'
    <3> SUFFICES ASSUME NEW v \in Workers, worker'[v].pc = "commit"
                 PROVE  Holds(v)'
      BY DEF CommitHolds
    <3>1. v # w /\ worker'[v] = worker[v]
      BY <1>3
    <3>2. Holds(v) /\ worker[v].job \in Jobs /\ worker[v].job # j
      BY <1>1, <1>4, <3>1 DEF IInv, ClaimInv, CommitHolds, Locked
    <3>3. QED
      BY <1>2, <3>1, <3>2 DEF Holds
  <2>6. QED
    BY <2>1, <2>2, <2>3, <2>4, <2>5 DEF ClaimInv
<1>6. RowInv'
  BY <1>2 DEF IInv, RowInv, FinishedByLastClaim, BudgetsRespected
<1>7. ChainInv'
  <2>1. \A c \in Chains, s \in 1..LastStage :
          /\ <<c, s>> # j => jobs'[<<c, s>>] = jobs[<<c, s>>]
          /\ <<c, s>> = j => /\ jobs[<<c, s>>].state \in Active
                             /\ jobs'[<<c, s>>].state = "CLAIMED"
    BY <1>1, <1>2 DEF Jobs
  <2>2. StagesInOrder'
    <3> SUFFICES ASSUME NEW c \in Chains, NEW s \in 1..LastStage
                 PROVE  StageInOrder(c, s)'
      BY Zenon DEF StagesInOrder, StageInOrder
    <3>1. StageInOrder(c, s)
      BY DEF IInv, ChainInv, StagesInOrder, StageInOrder
    <3>2. s < LastStage => s + 1 \in 1..LastStage
      BY StagesAssumption, SMT
    <3>3. QED
      BY <2>1, <3>1, <3>2 DEF StageInOrder, Active
  <2>3. UNCHANGED cancelVars
    BY DEF Claim
  <2>4. FoundAtRest'
    BY <1>1, <1>2, <2>3
    DEF IInv, TypeOK, ChainInv, FoundAtRest, Active, Terminal, cancelVars
  <2>5. QED
    BY <2>2, <2>4 DEF ChainInv
<1>8. QED
  BY <1>5, <1>6, <1>7 DEF IInv

(* The commit of CompleteAndEnqueue, by the holder of the claim: the       *)
(* successor did not exist, because its predecessor was not completed.     *)
LEMMA CommitIInv ==
  ASSUME IInv, TypeOK', NEW w \in Workers, CommitCompletion(w)
  PROVE  IInv'
<1> Holds(w)
  BY DEF CommitCompletion, IInv, ClaimInv, CommitHolds
<1> DEFINE j == worker[w].job
           more == worker[w].outcome = "continue"
<1>1. /\ j \in Jobs /\ jobs[j].state = "CLAIMED"
      /\ jobs[j].fence = worker[w].fence /\ worker[w].fence > 0
  BY DEF IInv, TypeOK, ClaimInv, TokensIssued, Holds
<1>2. PICK b \in Chains, t \in 1..LastStage : j = <<b, t>>
  BY <1>1, SMT DEF Jobs
<1>3. jobs' = completed(j, worker[w].fence, more)
      /\ worker' = [worker EXCEPT ![w] = Idle] /\ UNCHANGED cancelVars
  BY DEF CommitCompletion, finish
<1>4. /\ jobs'[j].state = "COMPLETED" /\ jobs'[j].by = jobs'[j].fence
      /\ jobs'[j].fence = jobs[j].fence /\ jobs'[j].retry = jobs[j].retry
      /\ jobs'[j].transient = jobs[j].transient
      /\ jobs'[j].cont <=> more
  <2>1. jobs'[j] = [released(j, "COMPLETED") EXCEPT
                      !.by = worker[w].fence, !.cont = more]
    BY <1>1, <1>3 DEF completed
  <2>2. released(j, "COMPLETED") \in JobRow
        /\ released(j, "COMPLETED").state = "COMPLETED"
        /\ released(j, "COMPLETED").fence = jobs[j].fence
        /\ released(j, "COMPLETED").retry = jobs[j].retry
        /\ released(j, "COMPLETED").transient = jobs[j].transient
    BY <1>1, ReleasedType DEF IInv
  <2> HIDE DEF j, more
  <2>3. QED
    BY <1>1, <2>1, <2>2 DEF JobRow
<1>5. \A k \in Jobs : k # j =>
        IF more /\ k = <<b, t + 1>> /\ jobs[k].state = "NONE"
        THEN jobs'[k] = NewJob ELSE jobs'[k] = jobs[k]
  BY <1>2, <1>3, SMT DEF completed, nextStage
<1>6. /\ worker'[w].pc = "idle"
      /\ \A v \in Workers : v # w => worker'[v] = worker[v]
  BY <1>3 DEF IInv, TypeOK, Idle
<1> HIDE DEF j, more
<1>7. \A v \in Workers : worker'[v].pc # "idle" =>
        /\ v # w /\ worker'[v] = worker[v] /\ worker[v].job \in Jobs
        /\ jobs[worker[v].job].state # "NONE"
  BY <1>6, SMT
     DEF IInv, TypeOK, ClaimInv, TokensIssued, NoTokenBefore, WorkerState
<1>8. ClaimInv'
  <2>1. UniqueClaims'
    BY <1>6, ZenonT(40) DEF IInv, ClaimInv, UniqueClaims
  <2>2. SnapshotCurrent'
    <3> SUFFICES ASSUME NEW v \in Workers, Holds(v)'
                 PROVE  /\ worker'[v].retry = jobs'[worker'[v].job].retry
                        /\ worker'[v].transient = jobs'[worker'[v].job].transient
      BY DEF SnapshotCurrent
    <3>1. /\ worker'[v] = worker[v] /\ jobs'[worker[v].job].state = "CLAIMED"
          /\ worker[v].job \in Jobs /\ jobs[worker[v].job].state # "NONE"
      BY <1>7 DEF Holds
    <3>2. worker[v].job # j /\ jobs'[worker[v].job] = jobs[worker[v].job]
      BY <1>4, <1>5, <3>1
    <3>3. QED
      BY <3>1, <3>2 DEF IInv, ClaimInv, SnapshotCurrent, Holds
  <2>3. TokensIssued'
    BY <1>4, <1>5, <1>7, SMT DEF IInv, ClaimInv, TokensIssued
  <2>4. NoTokenBefore'
    BY <1>4, <1>5, NewJobType DEF IInv, ClaimInv, NoTokenBefore
  <2>5. CommitHolds'
    <3> SUFFICES ASSUME NEW v \in Workers, worker'[v].pc = "commit"
                 PROVE  Holds(v)'
      BY DEF CommitHolds
    <3>1. v # w /\ worker'[v] = worker[v] /\ Holds(v) /\ worker[v].job \in Jobs
          /\ jobs[worker[v].job].state # "NONE"
      BY <1>7 DEF IInv, ClaimInv, CommitHolds
    <3>2. worker[v].job # j
      BY <3>1 DEF IInv, ClaimInv, UniqueClaims, Holds, j
    <3>3. jobs'[worker[v].job] = jobs[worker[v].job]
      BY <1>5, <3>1, <3>2
    <3>4. QED
      BY <3>1, <3>3 DEF Holds
  <2>6. QED
    BY <2>1, <2>2, <2>3, <2>4, <2>5 DEF ClaimInv
<1>9. RowInv'
  <2>1. \A k \in Jobs : k # j => \/ jobs'[k] = jobs[k]
                                 \/ /\ jobs'[k].state = "READY"
                                    /\ jobs'[k].retry = 0 /\ jobs'[k].transient = 0
    BY <1>5, NewJobType
  <2>2. QED
    BY <1>1, <1>4, <2>1, RetriesAssumption, SMT
    DEF IInv, RowInv, FinishedByLastClaim, BudgetsRespected
<1>10. ChainInv'
  <2>1. \A s \in 1..LastStage : t < s => jobs[<<b, s>>].state = "NONE"
    BY Zenon, <1>1, <1>2 DEF IInv, ChainInv, StagesInOrder
  <2>2. \A c \in Chains, s \in 1..LastStage :
          <<c, s>> # <<b, t>> =>
            IF more /\ c = b /\ s = t + 1
            THEN jobs'[<<c, s>>].state = "READY"
            ELSE jobs'[<<c, s>>] = jobs[<<c, s>>]
    <3> SUFFICES ASSUME NEW c \in Chains, NEW s \in 1..LastStage,
                        <<c, s>> # <<b, t>>
                 PROVE  IF more /\ c = b /\ s = t + 1
                        THEN jobs'[<<c, s>>].state = "READY"
                        ELSE jobs'[<<c, s>>] = jobs[<<c, s>>]
      OBVIOUS
    <3>1. <<c, s>> \in Jobs /\ <<c, s>> # j
      BY <1>2 DEF Jobs
    <3>2. CASE more /\ c = b /\ s = t + 1
      BY <1>5, <2>1, <3>1, <3>2, NewJobType, SMT
    <3>3. CASE ~(more /\ c = b /\ s = t + 1)
      BY <1>5, <3>1, <3>3
    <3>4. QED
      BY <3>2, <3>3
  <2>3. StagesInOrder'
    <3> SUFFICES ASSUME NEW c \in Chains, NEW s \in 1..LastStage
                 PROVE  StageInOrder(c, s)'
      BY Zenon DEF StagesInOrder, StageInOrder
    <3>1. StageInOrder(c, s) /\ StageInOrder(b, t)
      BY DEF IInv, ChainInv, StagesInOrder, StageInOrder
    <3>2. (s < LastStage => s + 1 \in 1..LastStage)
          /\ (t < LastStage => t + 1 \in 1..LastStage)
      BY StagesAssumption, SMT
    <3>3. CASE c # b
      BY <2>2, <3>1, <3>2, <3>3, ZenonT(40) DEF StageInOrder
    <3>4. CASE c = b /\ s < t
      BY <1>1, <1>2, <1>4, <2>2, <3>1, <3>2, <3>4, SMT DEF StageInOrder
    <3>5. CASE c = b /\ s = t
      BY <1>1, <1>2, <1>4, <2>2, <3>1, <3>2, <3>5, SMT DEF StageInOrder
    <3>6. CASE c = b /\ s > t
      <4>1. jobs[<<c, s>>].state = "NONE"
        BY <2>1, <3>6
      <4>2. CASE more /\ s = t + 1
        BY <1>1, <1>2, <1>4, <2>2, <3>1, <3>6, <4>2, SMT DEF StageInOrder
      <4>3. CASE ~(more /\ s = t + 1)
        BY <2>2, <3>6, <4>1, <4>3, SMT DEF StageInOrder
      <4>4. QED
        BY <4>2, <4>3
    <3>7. QED
      BY <3>3, <3>4, <3>5, <3>6, SMT
  <2>4. \A k \in Jobs :
          jobs'[k].state = jobs[k].state \/ jobs[k].state \in {"NONE", "CLAIMED"}
    BY <1>1, <1>5
  <2>5. \A k \in Jobs : jobs[k].state # "NONE" => jobs'[k].state # "NONE"
    BY <1>4, <1>5
  <2>5a. FoundAtRest'
    BY <1>3, <2>4, <2>5
    DEF IInv, TypeOK, ChainInv, FoundAtRest, Terminal, cancelVars
  <2>6. QED
    BY <2>3, <2>5a DEF ChainInv
<1>11. QED
  BY <1>8, <1>9, <1>10 DEF IInv

(* The three updates of handleFailure give the job back, or are refused.   *)
LEMMA FailureStep ==
  ASSUME IInv, NEW w \in Workers,
         RescheduleTransient(w) \/ Retry(w) \/ Fail(w)
  PROVE  Quiet \/ \E next \in JobRow : GivesBack(w, next)
<1> DEFINE j == worker[w].job
<1>1. /\ worker' = [worker EXCEPT ![w] = Idle] /\ UNCHANGED cancelVars
      /\ j \in Jobs /\ worker[w].fence \in Nat
      /\ worker[w].retry \in Nat /\ worker[w].transient \in Nat
  BY DEF RescheduleTransient, Retry, Fail, finish, IInv, TypeOK, WorkerState
<1>2. CASE ~Holds(w)
  <2>1. jobs' = jobs
    BY <1>2 DEF RescheduleTransient, Retry, Fail, fenced
  <2>2. \A v \in Workers : SameWork(v)
    BY <1>1 DEF SameWork, Idle, IInv, TypeOK
  <2>3. QED
    BY <1>1, <2>1, <2>2 DEF Quiet, SameRow, cancelVars
<1>3. CASE Holds(w)
  <2>1. /\ jobs[j].fence = worker[w].fence
        /\ jobs[j].retry = worker[w].retry /\ jobs[j].transient = worker[w].transient
        /\ jobs[j].retry < MaxRetries /\ jobs[j].transient < MaxRetries
    BY <1>1, <1>3
       DEF Holds, IInv, ClaimInv, SnapshotCurrent, RowInv, BudgetsRespected
  <2>2. \A s \in {"RETRY", "FAILED"} :
          /\ released(j, s) \in JobRow
          /\ released(j, s).state = s
          /\ released(j, s).fence = worker[w].fence
          /\ released(j, s).retry = worker[w].retry
          /\ released(j, s).transient = worker[w].transient
    BY <1>1, <2>1, ReleasedType, ZenonT(40) DEF IInv
  <2> HIDE DEF j
  <2>3. CASE RescheduleTransient(w)
    <3> DEFINE r == released(j, "RETRY")
               next == [r EXCEPT !.transient = r.transient + 1, !.available = FALSE]
    <3>1. r.transient + 1 \in Nat /\ r.transient + 1 < MaxRetries
      BY <1>1, <2>2, <2>3, SMT DEF RescheduleTransient, mayReschedule
    <3>2. next \in JobRow
      BY Zenon, <2>2, <3>1, RowFinished
    <3>3. /\ next.state = "RETRY" /\ next.fence = worker[w].fence
          /\ next.retry = worker[w].retry /\ next.transient = r.transient + 1
      <4> HIDE DEF r
      <4>1. r \in JobRow /\ r.state = "RETRY" /\ r.fence = worker[w].fence
            /\ r.retry = worker[w].retry
        BY <2>2 DEF r
      <4>2. QED
        BY <4>1 DEF JobRow
    <3>4. jobs' = [jobs EXCEPT ![j] = next]
      BY <1>3, <2>3 DEF RescheduleTransient, fenced, j
    <3> HIDE DEF next
    <3>5. GivesBack(w, next)
      BY <1>1, <1>3, <2>1, <3>1, <3>3, <3>4 DEF GivesBack, j
    <3>6. QED
      BY <3>2, <3>5
  <2>4. CASE Retry(w)
    <3> DEFINE r == released(j, "RETRY")
               next == [r EXCEPT !.retry = r.retry + 1, !.available = FALSE]
    <3>1. r.retry + 1 \in Nat /\ r.retry + 1 < MaxRetries
      BY <1>1, <2>2, <2>4, SMT DEF Retry, mayRetry
    <3>2. next \in JobRow
      BY Zenon, <2>2, <3>1, RowFinished
    <3>3. /\ next.state = "RETRY" /\ next.fence = worker[w].fence
          /\ next.retry = r.retry + 1 /\ next.transient = worker[w].transient
      <4> HIDE DEF r
      <4>1. r \in JobRow /\ r.state = "RETRY" /\ r.fence = worker[w].fence
            /\ r.transient = worker[w].transient
        BY <2>2 DEF r
      <4>2. QED
        BY <4>1 DEF JobRow
    <3>4. jobs' = [jobs EXCEPT ![j] = next]
      BY <1>3, <2>4 DEF Retry, fenced, j
    <3> HIDE DEF next
    <3>5. GivesBack(w, next)
      BY <1>1, <1>3, <2>1, <3>1, <3>3, <3>4 DEF GivesBack, j
    <3>6. QED
      BY <3>2, <3>5
  <2>5. CASE Fail(w)
    <3> DEFINE r == released(j, "FAILED")
               next == [r EXCEPT !.by = worker[w].fence]
    <3>1. \/ worker[w].retry + 1 = MaxRetries
          \/ worker[w].transient + 1 = MaxRetries
      BY <1>1, <2>1, <2>5, RetriesAssumption, SMT
         DEF Fail, mayRetry, mayReschedule
    <3>2. next \in JobRow
      BY Zenon, <1>1, <2>2, RowFinished
    <3>3. /\ next.state = "FAILED" /\ next.fence = worker[w].fence
          /\ next.retry = worker[w].retry /\ next.transient = worker[w].transient
          /\ next.by = worker[w].fence
      <4> HIDE DEF r
      <4>1. r \in JobRow /\ r.state = "FAILED" /\ r.fence = worker[w].fence
            /\ r.retry = worker[w].retry /\ r.transient = worker[w].transient
        BY <2>2 DEF r
      <4>2. QED
        BY <4>1 DEF JobRow
    <3>4. jobs' = [jobs EXCEPT ![j] = next]
      BY <1>3, <2>5 DEF Fail, fenced, j
    <3> HIDE DEF next
    <3>5. GivesBack(w, next)
      BY <1>1, <1>3, <2>1, <3>1, <3>3, <3>4 DEF GivesBack, j
    <3>6. QED
      BY <3>2, <3>5
  <2>6. QED
    BY <2>3, <2>4, <2>5
<1>4. QED
  BY <1>2, <1>3

(* Rows that differ in a time flag, and processes that go on.              *)
LEMMA FlagsOnly ==
  ASSUME NEW r \in JobRow
  PROVE  /\ SameRow(r, r)
         /\ SameRow([r EXCEPT !.expired = TRUE], r)
         /\ SameRow([r EXCEPT !.expired = FALSE], r)
         /\ SameRow([r EXCEPT !.available = TRUE], r)
BY DEF SameRow, JobRow

(* The steps of time touch one row that is claimed or waiting.             *)
LEMMA TimeQuiet ==
  ASSUME TypeOK, NEW j \in Jobs,
         ExpireAbandoned(j) \/ ExpireSlow(j) \/ BackoffElapsed(j)
  PROVE  /\ Quiet
         /\ jobs[j].state \notin Terminal
         /\ \A k \in Jobs : k # j => jobs'[k] = jobs[k]
<1>1. worker' = worker /\ UNCHANGED cancelVars
  BY DEF ExpireAbandoned, ExpireSlow, BackoffElapsed
<1>2. \/ jobs' = [jobs EXCEPT ![j].expired = TRUE]
      \/ jobs' = [jobs EXCEPT ![j].available = TRUE]
  BY DEF ExpireAbandoned, ExpireSlow, BackoffElapsed
<1>3. \A k \in Jobs : SameRow(jobs'[k], jobs[k])
  BY ZenonT(40), <1>2, FlagsOnly DEF TypeOK
<1>4. jobs[j].state \notin Terminal
  BY DEF ExpireAbandoned, ExpireSlow, BackoffElapsed, Terminal
<1>5. \A k \in Jobs : k # j => jobs'[k] = jobs[k]
  BY <1>2 DEF TypeOK
<1>6. QED
  BY <1>1, <1>3, <1>4, <1>5 DEF Quiet, SameWork, cancelVars

(* So does an accepted renewal.                                            *)
LEMMA RenewQuiet ==
  ASSUME TypeOK, NEW w \in Workers, Renew(w)
  PROVE  /\ Quiet
         /\ jobs[worker[w].job].state \notin Terminal
         /\ \A k \in Jobs : k # worker[w].job => jobs'[k] = jobs[k]
<1>1. /\ worker' = worker /\ UNCHANGED cancelVars
      /\ jobs' = [jobs EXCEPT ![worker[w].job].expired = FALSE]
  BY DEF Renew
<1>2. \A k \in Jobs : SameRow(jobs'[k], jobs[k])
  BY Zenon, <1>1, FlagsOnly DEF TypeOK
<1>3. jobs[worker[w].job].state \notin Terminal
  BY DEF Renew, Holds, Terminal
<1>4. QED
  BY Zenon, <1>1, <1>2, <1>3 DEF Quiet, SameWork, TypeOK, cancelVars

(* Every other step of a process leaves the rows alone.                    *)
MemoryStep(w) ==
  \/ RenewRefused(w) \/ RenewError(w) \/ HandlerReturns(w) \/ HandlerTimesOut(w)
  \/ LeaveClaimed(w) \/ FinishError(w) \/ Crash(w) \/ Shutdown(w) \/ Exit(w)
  \/ Restart(w) \/ CompleteAndEnqueue(w)

(* It is quiet.                                                            *)
LEMMA MemoryQuiet ==
  ASSUME TypeOK, NEW w \in Workers, MemoryStep(w)
  PROVE  Quiet /\ jobs' = jobs
<1>1. jobs' = jobs /\ UNCHANGED cancelVars
  BY DEF MemoryStep, RenewRefused, RenewError, HandlerReturns, HandlerTimesOut,
         LeaveClaimed, FinishError, Crash, Shutdown, Exit, Restart,
         CompleteAndEnqueue
<1>2. \A v \in Workers : SameWork(v)
  <2>1. CASE worker' = worker
    BY <2>1 DEF SameWork
  <2>2. CASE worker' = [worker EXCEPT ![w] = Idle]
    BY <2>2 DEF SameWork, Idle, TypeOK
  <2>3. CASE worker[w].pc = "handling" /\ worker' = [worker EXCEPT ![w].lost = TRUE]
    BY <2>3 DEF SameWork, TypeOK, WorkerState
  <2>4. ASSUME worker[w].pc = "handling", NEW o,
               worker' = [worker EXCEPT ![w] = [@ EXCEPT !.pc = "done", !.outcome = o]]
        PROVE  \A v \in Workers : SameWork(v)
    BY <2>4 DEF SameWork, TypeOK, WorkerState
  <2>5. CASE HandlerReturns(w) \/ HandlerTimesOut(w)
    <3>1. worker[w].pc = "handling" /\ \E o :
            worker' = [worker EXCEPT ![w] = [@ EXCEPT !.pc = "done", !.outcome = o]]
      BY Zenon, <2>5 DEF HandlerReturns, HandlerTimesOut, handle
    <3>2. QED
      BY Zenon, <2>4, <3>1
  <2>6. CASE Holds(w) /\ worker' = [worker EXCEPT ![w].pc = "commit"]
    BY <2>6, ZenonT(40) DEF SameWork, TypeOK, WorkerState, Holds
  <2>7. QED
    BY <2>1, <2>2, <2>3, <2>5, <2>6
    DEF MemoryStep, RenewRefused, RenewError, LeaveClaimed, FinishError, Crash,
        Shutdown, Exit, Restart, CompleteAndEnqueue, finish
<1>3. QED
  BY Zenon, <1>1, <1>2, FlagsOnly DEF Quiet, TypeOK, cancelVars

(* So is the start of a CancelRun.                                         *)
LEMMA CancelStartQuiet ==
  ASSUME TypeOK, CancelStart PROVE Quiet /\ jobs' = jobs
<1>1. jobs' = jobs /\ worker' = worker /\ cancelled' = cancelled
      /\ \A j \in cancelling' : jobs[j].state # "NONE"
  BY DEF CancelStart, Active
<1>2. QED
  BY Zenon, <1>1, FlagsOnly DEF Quiet, SameWork, TypeOK

(* The inductive step.                                                     *)
LEMMA NextIInv == IInv /\ [Next]_vars => IInv'
<1> SUFFICES ASSUME IInv, [Next]_vars PROVE IInv'
  OBVIOUS
<1>1. TypeOK /\ TypeOK'
  BY NextType DEF IInv
<1>2. CASE LedgerNext
  BY <1>1, <1>2, EnqueueIInv, CancelIInv, CancelStartQuiet, TimeQuiet,
     QuietIInv DEF LedgerNext
<1>3. ASSUME NEW w \in Workers, WorkerNext(w) PROVE IInv'
  <2>1. CASE Claim(w)
    BY <1>1, <2>1, ClaimIInv
  <2>2. CASE Renew(w)
    BY <1>1, <2>2, RenewQuiet, QuietIInv
  <2>3. CASE CommitCompletion(w)
    BY <1>1, <2>3, CommitIInv
  <2>4. CASE RescheduleTransient(w) \/ Retry(w) \/ Fail(w)
    BY <1>1, <2>4, FailureStep, GivesBackIInv, QuietIInv
  <2>5. CASE MemoryStep(w)
    BY <1>1, <2>5, MemoryQuiet, QuietIInv
  <2>6. QED
    BY <1>3, <2>1, <2>2, <2>3, <2>4, <2>5 DEF WorkerNext, MemoryStep
<1>4. CASE UNCHANGED vars
  <2>1. Quiet
    BY Zenon, <1>1, <1>4, FlagsOnly
       DEF vars, cancelVars, Quiet, SameWork, TypeOK
  <2>2. QED
    BY <1>1, <2>1, QuietIInv
<1>5. QED
  BY <1>2, <1>3, <1>4 DEF Next

(* The invariant holds in every reachable state.                           *)
LEMMA Inductive == Spec => []IInv
BY InitIInv, NextIInv, PTL DEF Spec

(* For any number of reconcilers that share owner IDs in any way at most   *)
(* one holds the current claim of a job (Ledger.Claim), the counters it    *)
(* read are those of the row when it decides on a retry                    *)
(* (Reconciler.handleFailure), no budget is exceeded, and only the newest  *)
(* claim finishes the job.                                                 *)
THEOREM ClaimsAreFenced == Spec => []ClaimsFenced
<1>1. IInv => ClaimsFenced
  BY DEF IInv, ClaimInv, RowInv, ClaimsFenced
<1>2. QED
  BY Inductive, <1>1, PTL

(* No stage of a chain is skipped, lost or run beside another one.         *)
THEOREM OrderedStages == Spec => []StagesInOrder
<1>1. IInv => StagesInOrder
  BY DEF IInv, ChainInv
<1>2. QED
  BY Inductive, <1>1, PTL

(* What a CancelRun found is at rest when it returns, and the stages are   *)
(* in order: only the completion of a job that it found can have continued *)
(* the chain.                                                              *)
LEMMA CancelFinal == Spec => []CancelIsFinal
<1>1. IInv => CancelIsFinal
  <2> SUFFICES ASSUME IInv, NEW j \in cancelled, NEW k \in Jobs,
                      k[1] = j[1], jobs[k].state \in Active
               PROVE  /\ k[2] > j[2]
                      /\ jobs[j].state = "COMPLETED" /\ jobs[j].cont
    BY DEF CancelIsFinal
  <2>1. j \in Jobs /\ jobs[j].state \in Terminal
    BY DEF IInv, TypeOK, ChainInv, FoundAtRest
  <2>2. PICK c \in Chains, s \in 1..LastStage : j = <<c, s>>
    BY <2>1, SMT DEF Jobs
  <2>3. PICK u \in 1..LastStage : k = <<c, u>>
    BY <2>2, SMTT(30) DEF Jobs
  <2>4. ~(u < s) /\ u # s
    BY <2>1, <2>2, <2>3 DEF IInv, ChainInv, StagesInOrder, Active, Terminal
  <2>5. s < u
    BY <2>4, SMT
  <2>6. jobs[<<c, s>>].state = "COMPLETED" /\ jobs[<<c, s>>].cont
    BY <2>3, <2>5 DEF IInv, ChainInv, StagesInOrder, Active
  <2>7. QED
    BY <2>2, <2>3, <2>5, <2>6, SMT
<1>2. QED
  BY Inductive, <1>1, PTL

(* A terminal row, and the token of any row, in one step.                  *)
RowAdvances ==
  \A j \in Jobs : /\ jobs[j].state \in Terminal => jobs'[j] = jobs[j]
                  /\ jobs'[j].fence >= jobs[j].fence

(* Every step keeps terminal rows and raises tokens only.                  *)
LEMMA RowStep == IInv /\ [Next]_vars => RowAdvances
<1> SUFFICES ASSUME IInv, [Next]_vars PROVE RowAdvances
  OBVIOUS
<1>1. TypeOK /\ \A j \in Jobs : jobs[j].fence \in Nat
  BY DEF IInv, TypeOK, JobRow
<1>same. \A j \in Jobs : jobs[j].fence >= jobs[j].fence
  BY <1>1, SMT
<1>2. ASSUME NEW c \in Chains, Enqueue(c) PROVE RowAdvances
  <2>1. <<c, 1>> \in Jobs /\ jobs[<<c, 1>>].state = "NONE"
    BY <1>2, StagesAssumption, SMT DEF Jobs, Enqueue
  <2>2. jobs[<<c, 1>>].fence = 0
    BY <2>1 DEF IInv, ClaimInv, NoTokenBefore
  <2>3. jobs' = [jobs EXCEPT ![<<c, 1>>] = NewJob] /\ NewJob.fence >= 0
    BY <1>2, NewJobType, SMT DEF Enqueue
  <2>4. QED
    BY <1>1, <1>same, <2>1, <2>2, <2>3 DEF TypeOK, RowAdvances, Terminal
<1>3. CASE CancelRun
  BY <1>1, <1>3, ReleasedType, SMT
     DEF CancelRun, cancels, RowAdvances, Active, Terminal
<1>3a. CASE CancelStart
  BY <1>1, <1>same, <1>3a, CancelStartQuiet DEF RowAdvances
<1>4. ASSUME NEW j \in Jobs, ExpireAbandoned(j) \/ ExpireSlow(j) \/ BackoffElapsed(j)
      PROVE  RowAdvances
  BY <1>1, <1>same, <1>4, TimeQuiet DEF Quiet, SameRow, RowAdvances
<1>5. ASSUME NEW w \in Workers, WorkerNext(w) PROVE RowAdvances
  <2>1. CASE Claim(w)
    <3>1. PICK j \in Jobs :
            /\ jobs[j].state \in Active
            /\ jobs' = [jobs EXCEPT ![j] = [@ EXCEPT
                 !.state = "CLAIMED", !.owner = Owner[w], !.expired = FALSE,
                 !.fence = claimFence(j)]]
      BY Zenon, <2>1 DEF Claim, Claimable
    <3>2. /\ jobs'[j].fence = jobs[j].fence + 1
          /\ \A k \in Jobs : k # j => jobs'[k] = jobs[k]
      BY <1>1, <3>1, ClaimedType, SMT DEF TypeOK, JobRow
    <3>3. QED
      BY <1>1, <3>1, <3>2, SMT DEF RowAdvances, Active, Terminal
  <2>2. CASE Renew(w)
    BY <1>1, <1>same, <2>2, RenewQuiet DEF Quiet, SameRow, RowAdvances
  <2>3. CASE CommitCompletion(w)
    <3> Holds(w)
      BY <2>3 DEF CommitCompletion, IInv, ClaimInv, CommitHolds
    <3>1. /\ worker[w].job \in Jobs /\ jobs[worker[w].job].state = "CLAIMED"
          /\ jobs' = completed(worker[w].job, worker[w].fence,
                               worker[w].outcome = "continue")
      BY <1>1, <2>3 DEF CommitCompletion, Holds, TypeOK
    <3>2. jobs'[worker[w].job].fence = jobs[worker[w].job].fence
      <4> DEFINE r == released(worker[w].job, "COMPLETED")
                 more == worker[w].outcome = "continue"
      <4>1. jobs'[worker[w].job] = [r EXCEPT !.by = worker[w].fence, !.cont = more]
        BY <3>1 DEF completed
      <4>2. r \in JobRow /\ r.fence = jobs[worker[w].job].fence
        BY <1>1, <3>1, ReleasedType
      <4> HIDE DEF r, more
      <4>3. QED
        BY <4>1, <4>2 DEF JobRow
    <3>3. \A k \in Jobs : k # worker[w].job =>
            jobs'[k] = jobs[k] \/ (jobs[k].state = "NONE" /\ jobs'[k] = NewJob)
      BY <3>1 DEF completed
    <3>4. QED
      BY <1>1, <3>1, <3>2, <3>3, NewJobType, SMT
      DEF IInv, ClaimInv, NoTokenBefore, RowAdvances, Terminal
  <2>4. CASE RescheduleTransient(w) \/ Retry(w) \/ Fail(w)
    <3>1. CASE Holds(w)
      <4>1. jobs'[worker[w].job].fence >= jobs[worker[w].job].fence
        BY <1>1, <2>4, <3>1, FailureStep, SMT
           DEF Quiet, SameRow, GivesBack, Holds, TypeOK
      <4>2. \A k \in Jobs : k # worker[w].job => jobs'[k] = jobs[k]
        BY <1>1, <2>4, <3>1
           DEF RescheduleTransient, Retry, Fail, fenced, TypeOK
      <4>3. jobs[worker[w].job].state \notin Terminal
        BY <3>1 DEF Holds, Terminal
      <4>4. QED
        BY <1>same, <4>1, <4>2, <4>3 DEF RowAdvances
    <3>2. CASE ~Holds(w)
      BY <1>same, <2>4, <3>2
         DEF RescheduleTransient, Retry, Fail, fenced, RowAdvances
    <3>3. QED
      BY <3>1, <3>2
  <2>5. CASE MemoryStep(w)
    BY <1>1, <1>same, <2>5, MemoryQuiet DEF RowAdvances
  <2>6. QED
    BY <1>5, <2>1, <2>2, <2>3, <2>4, <2>5 DEF WorkerNext, MemoryStep
<1>6. CASE UNCHANGED vars
  BY <1>same, <1>6 DEF vars, RowAdvances
<1>7. QED
  BY <1>2, <1>3, <1>3a, <1>4, <1>5, <1>6 DEF Next, LedgerNext

(* A completed, failed or cancelled job never changes again, and fencing   *)
(* tokens never go back.                                                   *)
LEMMA TerminalRowsImmutable == Spec => TerminalImmutable
<1>1. IInv /\ [Next]_vars =>
        [\A j \in Jobs : /\ jobs[j].state \in Terminal => jobs'[j] = jobs[j]
                         /\ jobs'[j].fence >= jobs[j].fence]_vars
  BY RowStep DEF RowAdvances
<1>2. QED
  BY Inductive, <1>1, PTL DEF Spec, TerminalImmutable

(* A job that is completed, failed or cancelled stays so (fenced updates,  *)
(* the trigger on runtime_stage_jobs), and after Ledger.CancelRun a chain  *)
(* goes on only behind a job whose completion CancelRun had to wait for.   *)
THEOREM RestStaysFinal == Spec => RestIsFinal
BY CancelFinal, TerminalRowsImmutable, PTL DEF RestIsFinal

-----------------------------------------------------------------------------
(* The gateway.  Most leaves are first-order steps, which Zenon proves; a  *)
(* leaf that needs arithmetic or the fields of records names SMT.          *)
HIDE FaultsAssumption
USE Zenon

(* The inductive invariant.  The properties are about rows; what preserves *)
(* them is that the memory of a caller fits the row of its request: from   *)
(* the reservation to the completion the row is in progress for its body,  *)
(* and what it carries along has passed the tests before.                  *)

Fields ==
  {"pc", "request", "started", "attempt", "left", "delay", "answer",
   "outcome"}

AtWork == {"validate", "resolve", "send", "finalize", "complete"}

(* An outcome that may be stored for a request.                            *)
Sound(r, outcome) ==
  /\ outcome \in StoredOutcomes
  /\ outcome.status = "accepted" =>
       /\ r.verdict = "ok"
       /\ \E a \in Answers :
            /\ outcome.response = response(a)
            /\ outcome.proposal = proposal(a)
            /\ a.verdict = "ok"
            /\ a.read <= r.budget.input /\ a.used <= r.budget.output
            /\ a.size <= ByteLimit /\ a.response <= ByteLimit

(* The artifacts that a stored outcome needs are there.                    *)
ArtifactsKept(r, outcome) ==
  {<<"request", r.body>>, outcome.response, outcome.proposal} \ {None}
    \subseteq artifacts

Fits(m) ==
  /\ DOMAIN m = Fields
  /\ m.pc \in AtWork \cup {"idle", "begin", "answer", "rollback"}
  /\ m.attempt \in 0..maximumProviderAttempts
  /\ m.pc # "idle" =>
       m.request \in Requests /\ <<"request", m.request.body>> \in artifacts
  /\ m.pc \in AtWork =>
       /\ rows[m.request.id].state = "in_progress"
       /\ rows[m.request.id].digest = m.request.body
  /\ m.pc = "rollback" => rows[m.request.id].state # "NONE"
  /\ m.pc \in {"begin", "validate", "resolve"} => m.attempt = 0
  /\ m.pc \in {"resolve", "send", "finalize"} => m.request.verdict = "ok"
  /\ m.pc = "send" => m.attempt < attemptLimit(m.request)
  /\ m.pc = "finalize" =>
       m.attempt \in 1..m.request.budget.requests /\ m.answer \in Answers
  /\ m.pc = "complete" =>
       Sound(m.request, m.outcome) /\ ArtifactsKept(m.request, m.outcome)
  /\ m.pc = "answer" =>
       /\ rows[m.request.id].state = "completed"
       /\ rows[m.request.id].outcome = m.outcome

CallersFit == \A w \in Callers : Fits(caller[w])

(* No two callers are at work on one request ID.                           *)
Alone ==
  \A v, w \in Callers :
    working(v) /\ working(w) /\ req(v).id = req(w).id => v = w

RowFits(i) ==
  /\ DOMAIN rows[i] = {"state", "digest", "outcome"}
  /\ rows[i].state \in {"NONE", "in_progress", "completed"}
  /\ rows[i].state # "completed" => rows[i].outcome = None
  /\ rows[i].state = "completed" =>
       \E r \in Requests :
         /\ r.id = i /\ r.body = rows[i].digest
         /\ Sound(r, rows[i].outcome) /\ ArtifactsKept(r, rows[i].outcome)

RowsFit == \A i \in IDs : RowFits(i)

Shaped == DOMAIN rows = IDs /\ DOMAIN caller = Callers /\ clock \in 0..MaxTime

GatewayInv == Shaped /\ CallersFit /\ Alone /\ RowsFit

(* The empty ledger satisfies it.                                          *)
LEMMA InitGatewayInv == GatewayInit => GatewayInv
<1> SUFFICES ASSUME GatewayInit PROVE GatewayInv
  OBVIOUS
<1>1. /\ DOMAIN NoCall = Fields /\ NoCall.pc = "idle" /\ NoCall.attempt = 0
      /\ DOMAIN NoRow = {"state", "digest", "outcome"}
      /\ NoRow.state = "NONE" /\ NoRow.outcome = None
  BY DEF NoCall, NoRow, Fields
<1>2. Shaped
  BY GatewayAssumption, SMT DEF GatewayInit, Shaped
<1>3. CallersFit
  BY <1>1, SMT DEF GatewayInit, CallersFit, Fits, AtWork,
     maximumProviderAttempts
<1>4. Alone /\ RowsFit
  BY <1>1 DEF GatewayInit, Alone, RowsFit, RowFits, working
<1>5. QED
  BY <1>2, <1>3, <1>4 DEF GatewayInv

-----------------------------------------------------------------------------
(* Steps, by what they do to the ledger.                                   *)

(* Nobody starts to work, and nobody changes its request.                  *)
NobodyStarts ==
  \A w \in Callers : working(w)' => working(w) /\ req(w)' = req(w)

(* What fits a store fits a larger one.                                    *)
LEMMA StoreGrows ==
  ASSUME NEW m, Fits(m), rows' = rows, artifacts \subseteq artifacts'
  PROVE  Fits(m)'
BY DEF Fits, ArtifactsKept

(* A step that leaves the rows alone.                                      *)
LEMMA QuietGatewayInv ==
  ASSUME GatewayInv, rows' = rows, artifacts \subseteq artifacts', Shaped',
         CallersFit', NobodyStarts
  PROVE  GatewayInv'
<1>1. Alone'
  BY DEF GatewayInv, Alone, NobodyStarts, working, req
<1>2. RowsFit'
  <2> SUFFICES ASSUME NEW i \in IDs PROVE RowFits(i)'
    BY DEF RowsFit, IDs
  <2>1. RowFits(i)
    BY DEF GatewayInv, RowsFit
  <2>2. QED
    BY <2>1 DEF RowFits, ArtifactsKept
<1>3. QED
  BY <1>1, <1>2 DEF GatewayInv

(* The step of one caller to the memory m.                                 *)
Moves(w, m) == caller' = [caller EXCEPT ![w] = m]

(* Such a step, when it leaves the rows alone.                             *)
LEMMA MovesIInv ==
  ASSUME GatewayInv, NEW w \in Callers, NEW m, Moves(w, m),
         rows' = rows, artifacts \subseteq artifacts', clock' = clock,
         Fits(m)',
         m.pc \notin {"idle", "begin", "answer"} =>
           working(w) /\ m.request = req(w)
  PROVE  GatewayInv'
<1>1. caller'[w] = m /\ \A v \in Callers : v # w => caller'[v] = caller[v]
  BY DEF GatewayInv, Shaped, Moves
<1>2. Shaped'
  BY DEF GatewayInv, Shaped, Moves, IDs
<1>3. CallersFit'
  <2> SUFFICES ASSUME NEW v \in Callers PROVE Fits(caller[v])'
    BY DEF CallersFit
  <2>1. PICK n : n = caller'[v]
    OBVIOUS
  <2>2. CASE v = w
    BY <1>1, <2>1, <2>2
  <2>3. CASE v # w
    <3>1. n = caller[v]
      BY <1>1, <2>1, <2>3
    <3>2. Fits(n)
      BY <3>1 DEF GatewayInv, CallersFit
    <3>3. Fits(n)'
      BY <3>2, StoreGrows
    <3>4. QED
      BY <2>1, <3>3
  <2>4. QED
    BY <2>2, <2>3
<1>4. NobodyStarts
  BY <1>1 DEF NobodyStarts, working, req
<1>5. QED
  BY <1>2, <1>3, <1>4, QuietGatewayInv

(* A caller that returns leaves a store that fits.                         *)
LEMMA StopIInv ==
  ASSUME GatewayInv, NEW w \in Callers, stop(w),
         rows' = rows, artifacts' = artifacts, clock' = clock
  PROVE  GatewayInv'
<1>1. Fits(NoCall)' /\ NoCall.pc = "idle"
  BY SMT DEF Fits, NoCall, Fields, AtWork, maximumProviderAttempts
<1>2. Moves(w, NoCall)
  BY DEF Moves, stop
<1>3. QED
  BY <1>1, <1>2, MovesIInv

(* A caller at work gives up.                                              *)
LEMMA GiveUpIInv ==
  ASSUME GatewayInv, NEW w \in Callers, working(w), goto(w, "rollback"),
         rows' = rows, artifacts' = artifacts, clock' = clock
  PROVE  GatewayInv'
<1>1. PICK n : n = caller[w]
  OBVIOUS
<1>2. PICK m : m = [n EXCEPT !.pc = "rollback"]
  OBVIOUS
<1>3. Fits(n) /\ n.pc \in AtWork \cup {"rollback"}
  <2>1. Fits(n)
    BY <1>1 DEF GatewayInv, CallersFit
  <2>2. QED
    BY <1>1, <2>1 DEF working, Fits, AtWork
<1>4. /\ m.pc = "rollback" /\ DOMAIN m = Fields
      /\ m.request = n.request /\ m.attempt = n.attempt
  BY <1>2, <1>3 DEF Fits, Fields
<1>5. Fits(m)'
  BY <1>3, <1>4 DEF Fits, AtWork
<1>6. Moves(w, m)
  BY <1>1, <1>2 DEF Moves, goto
<1>7. m.request = req(w)
  BY <1>1, <1>4 DEF req
<1>8. QED
  BY <1>5, <1>6, <1>7, MovesIInv

-----------------------------------------------------------------------------
(* The steps of a call that leave the rows alone.                          *)

(* A call stores its request first.                                        *)
LEMMA CallIInv ==
  ASSUME GatewayInv, NEW w \in Callers, Call(w) PROVE GatewayInv'
<1>1. PICK r \in Requests :
        /\ artifacts' = artifacts \cup {<<"request", r.body>>}
        /\ caller' = [caller EXCEPT ![w] =
             [NoCall EXCEPT !.pc = "begin", !.request = r, !.started = clock]]
  BY DEF Call
<1>2. PICK m : m = [NoCall EXCEPT !.pc = "begin", !.request = r,
                                !.started = clock]
  OBVIOUS
<1>3. DOMAIN m = Fields /\ m.pc = "begin" /\ m.request = r /\ m.attempt = 0
  BY <1>2 DEF NoCall, Fields
<1>4. Fits(m)'
  BY <1>1, <1>3, SMT DEF Fits, AtWork, maximumProviderAttempts
<1>5. Moves(w, m) /\ rows' = rows /\ clock' = clock
  BY <1>1, <1>2 DEF Moves, Call
<1>6. QED
  BY <1>1, <1>3, <1>4, <1>5, MovesIInv

(* A caller that is at work when it takes a step, and the memory it has    *)
(* after it.                                                               *)
LEMMA CallerFits ==
  ASSUME GatewayInv, NEW w \in Callers, NEW n, n = caller[w]
  PROVE  Fits(n) /\ DOMAIN n = Fields
BY DEF GatewayInv, CallersFit, Fits

(* What the contracts refuse goes on to be stored as a rejection.          *)
LEMMA ValidateIInv ==
  ASSUME GatewayInv, NEW w \in Callers, validateRecordedRequest(w)
  PROVE  GatewayInv'
<1>1. PICK n : n = caller[w]
  OBVIOUS
<1>2. PICK v : v = verdictAt(n.request, n.started)
  OBVIOUS
<1>3. PICK m : m = [n EXCEPT
        !.pc = CASE v = "ok" -> "resolve" [] v = "rejected" -> "complete"
                 [] OTHER -> "rollback",
        !.outcome = IF v = "rejected" THEN rejection(None, None) ELSE None]
  OBVIOUS
<1>4. Moves(w, m) /\ UNCHANGED <<rows, artifacts, clock>> /\ n.pc = "validate"
  BY <1>1, <1>2, <1>3 DEF Moves, validateRecordedRequest, req, at
<1>5. Fits(n) /\ DOMAIN n = Fields
  BY <1>1, CallerFits
<1>6. /\ DOMAIN m = Fields /\ m.request = n.request /\ m.attempt = n.attempt
      /\ m.pc = CASE v = "ok" -> "resolve" [] v = "rejected" -> "complete"
                  [] OTHER -> "rollback"
      /\ m.outcome = IF v = "rejected" THEN rejection(None, None) ELSE None
  BY <1>3, <1>5 DEF Fields
<1>7. v = "ok" => n.request.verdict = "ok"
  BY <1>2 DEF verdictAt
<1>8. /\ n.request \in Requests /\ n.attempt = 0
      /\ <<"request", n.request.body>> \in artifacts
      /\ rows[n.request.id].state = "in_progress"
      /\ rows[n.request.id].digest = n.request.body
  BY <1>4, <1>5 DEF Fits, AtWork
<1>9. Fits(m)'
  <2>1. CASE v = "ok"
    BY <1>4, <1>6, <1>7, <1>8, <2>1, SMT DEF Fits, AtWork,
       maximumProviderAttempts
  <2>2. CASE v = "rejected"
    <3>1. m.pc = "complete" /\ m.outcome = rejection(None, None)
      BY <1>6, <2>2
    <3>2. Sound(m.request, m.outcome) /\ ArtifactsKept(m.request, m.outcome)
      BY <1>6, <1>8, <3>1, SMT DEF Sound, ArtifactsKept, rejection,
         StoredOutcomes
    <3>3. QED
      BY <1>4, <1>6, <1>8, <3>1, <3>2, SMT
      DEF Fits, AtWork, maximumProviderAttempts, ArtifactsKept
  <2>3. CASE v \notin {"ok", "rejected"}
    <3>1. m.pc = "rollback"
      BY <1>6, <2>3
    <3>2. QED
      BY <1>4, <1>6, <1>8, <3>1, SMT DEF Fits, AtWork, maximumProviderAttempts
  <2>4. QED
    BY <2>1, <2>2, <2>3
<1>10. working(w) /\ m.request = req(w)
  BY <1>1, <1>4, <1>6 DEF working, req
<1>11. QED
  BY <1>4, <1>9, <1>10, MovesIInv

(* The budget of a valid request allows a provider request, and never more *)
(* than maximumProviderAttempts.                                           *)
LEMMA AttemptLimit ==
  ASSUME NEW r \in Requests
  PROVE  /\ attemptLimit(r) \in 0..maximumProviderAttempts
         /\ attemptLimit(r) <= r.budget.requests
         /\ r.verdict = "ok" => attemptLimit(r) > 0
BY GatewayAssumption, SMT DEF attemptLimit, maximumProviderAttempts

(* A request that can be invoked goes to the provider with no attempt made.*)
LEMMA InvokeIInv ==
  ASSUME GatewayInv, NEW w \in Callers, invokeImplementation(w)
  PROVE  GatewayInv'
<1>1. PICK n : n = caller[w]
  OBVIOUS
<1>2. Fits(n) /\ DOMAIN n = Fields
  BY <1>1, CallerFits
<1>3. n.pc = "resolve" /\ working(w) /\ UNCHANGED <<rows, artifacts, clock>>
  BY <1>1 DEF invokeImplementation, at, working
<1>4. CASE invocable(req(w))
  <2>1. PICK m : m = [n EXCEPT !.pc = "send",
                        !.left = timeLeft(n.request, clock), !.started = 0]
    OBVIOUS
  <2>2. Moves(w, m)
    BY <1>1, <1>4, <2>1 DEF Moves, invokeImplementation, req
  <2>3. /\ DOMAIN m = Fields /\ m.pc = "send"
        /\ m.request = n.request /\ m.attempt = n.attempt
    BY <1>2, <2>1 DEF Fields
  <2>4. n.request \in Requests /\ n.request.verdict = "ok" /\ n.attempt = 0
    BY <1>2, <1>3 DEF Fits
  <2>5. m.attempt < attemptLimit(m.request)
    BY <2>3, <2>4, AttemptLimit DEF maximumProviderAttempts
  <2>6. Fits(m)'
    BY <1>2, <1>3, <2>3, <2>5 DEF Fits, AtWork
  <2>7. m.request = req(w)
    BY <1>1, <2>3 DEF req
  <2>8. QED
    BY <1>3, <2>2, <2>6, <2>7, MovesIInv
<1>5. CASE ~invocable(req(w))
  BY <1>3, <1>5, GiveUpIInv DEF invokeImplementation
<1>6. QED
  BY <1>4, <1>5

(* Another attempt is made while the budget of the request allows it, and  *)
(* an answer has at least one attempt and at most that budget.             *)
LEMMA SendIInv ==
  ASSUME GatewayInv, NEW w \in Callers, Send(w) PROVE GatewayInv'
<1>1. PICK n : n = caller[w]
  OBVIOUS
<1>2. Fits(n) /\ DOMAIN n = Fields
  BY <1>1, CallerFits
<1>3. n.pc = "send" /\ working(w) /\ UNCHANGED <<rows, artifacts, clock>>
  BY <1>1 DEF Send, at, working
<1>4. PICK k : k = n.attempt + 1
  OBVIOUS
<1>5. /\ n.request \in Requests /\ n.request.verdict = "ok"
      /\ n.attempt \in 0..maximumProviderAttempts
      /\ n.attempt < attemptLimit(n.request)
  BY <1>2, <1>3 DEF Fits
<1>6. /\ k \in 1..maximumProviderAttempts /\ k <= attemptLimit(n.request)
      /\ k \in 1..n.request.budget.requests
  BY <1>4, <1>5, AttemptLimit, GatewayAssumption, SMT
     DEF maximumProviderAttempts
<1>7. ASSUME NEW m, Moves(w, m), DOMAIN m = Fields, m.request = n.request,
             m.attempt = k,
             \/ m.pc = "rollback"
             \/ m.pc = "send" /\ k < attemptLimit(n.request)
             \/ m.pc = "finalize" /\ m.answer \in Answers
      PROVE  GatewayInv'
  <2>1. Fits(m)'
    BY <1>2, <1>3, <1>6, <1>7, SMT DEF Fits, AtWork, maximumProviderAttempts
  <2>2. m.request = req(w)
    BY <1>1, <1>7 DEF req
  <2>3. QED
    BY <1>3, <1>7, <2>1, <2>2, MovesIInv, ZenonT(40)
<1>8. PICK a \in Answers :
        \/ /\ k < attemptLimit(n.request)
           /\ \E d \in retryDelays(k) :
                caller' = [caller EXCEPT ![w].attempt = k, ![w].delay = d,
                  ![w].pc = IF d > caller[w].left THEN "rollback" ELSE "send"]
        \/ caller' = [caller EXCEPT ![w].attempt = k, ![w].pc = "rollback"]
        \/ caller' = [caller EXCEPT ![w].attempt = k, ![w].answer = a,
             ![w].pc = IF classifyProviderError(a) \/ a.kind = "refusal"
                       THEN "rollback" ELSE "finalize"]
  BY <1>1, <1>4 DEF Send, req
<1>9. ASSUME NEW d, k < attemptLimit(n.request),
              caller' = [caller EXCEPT ![w].attempt = k, ![w].delay = d,
                ![w].pc = IF d > caller[w].left THEN "rollback" ELSE "send"]
       PROVE  GatewayInv'
  <2>1. PICK m : m = [n EXCEPT !.attempt = k, !.delay = d,
                        !.pc = IF d > n.left THEN "rollback" ELSE "send"]
    OBVIOUS
  <2>2. /\ DOMAIN m = Fields /\ m.request = n.request /\ m.attempt = k
        /\ m.pc \in {"rollback", "send"}
    BY <1>2, <2>1 DEF Fields
  <2>3. Moves(w, m)
    BY <1>1, <1>9, <2>1 DEF Moves
  <2>4. QED
    BY <1>7, <1>9, <2>2, <2>3
<1>10. CASE caller' = [caller EXCEPT ![w].attempt = k, ![w].pc = "rollback"]
  <2>1. PICK m : m = [n EXCEPT !.attempt = k, !.pc = "rollback"]
    OBVIOUS
  <2>2. /\ DOMAIN m = Fields /\ m.request = n.request /\ m.attempt = k
        /\ m.pc = "rollback"
    BY <1>2, <2>1 DEF Fields
  <2>3. Moves(w, m)
    BY <1>1, <1>10, <2>1 DEF Moves
  <2>4. QED
    BY <1>7, <2>2, <2>3
<1>11. CASE caller' = [caller EXCEPT ![w].attempt = k, ![w].answer = a,
              ![w].pc = IF classifyProviderError(a) \/ a.kind = "refusal"
                        THEN "rollback" ELSE "finalize"]
  <2>1. PICK m : m = [n EXCEPT !.attempt = k, !.answer = a,
                  !.pc = IF classifyProviderError(a) \/ a.kind = "refusal"
                         THEN "rollback" ELSE "finalize"]
    OBVIOUS
  <2>2. /\ DOMAIN m = Fields /\ m.request = n.request /\ m.attempt = k
        /\ m.answer = a /\ m.pc \in {"rollback", "finalize"}
    BY <1>2, <2>1 DEF Fields
  <2>3. Moves(w, m)
    BY <1>1, <1>11, <2>1 DEF Moves
  <2>4. QED
    BY <1>7, <2>2, <2>3
<1>12. QED
  BY <1>8, <1>9, <1>10, <1>11

(* What either kind of answer becomes, if it becomes anything, may be      *)
(* stored: acceptance takes every test at once.                            *)
LEMMA OutcomeSound ==
  ASSUME NEW r \in Requests, NEW a \in Answers, NEW o,
         r.verdict = "ok", a.response <= ByteLimit, o # None,
         o = finalizeProposal(r, a) \/ o = finalizeReview(r, a)
  PROVE  Sound(r, o) /\ o.response = response(a)
<1> USE GatewayAssumption
<1>1. \A p \in {None, proposal(a)} :
        /\ rejection(response(a), p) \in StoredOutcomes
        /\ rejection(response(a), p).status = "rejected"
        /\ rejection(response(a), p).response = response(a)
  BY DEF rejection, StoredOutcomes
<1>2. /\ acceptance(response(a), proposal(a)) \in StoredOutcomes
      /\ acceptance(response(a), proposal(a)).response = response(a)
      /\ acceptance(response(a), proposal(a)).proposal = proposal(a)
  BY DEF acceptance, StoredOutcomes
<1>3. \/ \E p \in {None, proposal(a)} : o = rejection(response(a), p)
      \/ /\ o = acceptance(response(a), proposal(a))
         /\ a.verdict = "ok" /\ a.size <= ByteLimit
         /\ a.read <= r.budget.input /\ a.used <= r.budget.output
  <2>1. CASE o = finalizeProposal(r, a)
    BY <2>1, SMT DEF finalizeProposal, malformed
  <2>2. CASE o = finalizeReview(r, a)
    BY <2>2, SMT DEF finalizeReview, malformed
  <2>3. QED
    BY <2>1, <2>2
<1>4. QED
  BY <1>1, <1>2, <1>3 DEF Sound

(* The artifacts of an outcome are stored before the outcome is.           *)
LEMMA FinalizeIInv ==
  ASSUME GatewayInv, NEW w \in Callers, Finalize(w) PROVE GatewayInv'
<1>1. PICK n : n = caller[w]
  OBVIOUS
<1>2. Fits(n) /\ DOMAIN n = Fields
  BY <1>1, CallerFits
<1>3. n.pc = "finalize" /\ working(w) /\ UNCHANGED <<rows, clock>>
  BY <1>1 DEF Finalize, at, working
<1>4. PICK o : o = outcomeOf(w)
  OBVIOUS
<1>5. CASE validateProviderBudget(w) /\ n.answer.response <= ByteLimit
  <2>1. /\ artifacts' = artifacts \cup putArtifacts(w, o)
        /\ caller' = [caller EXCEPT ![w].outcome = o, ![w].answer = None,
                        ![w].pc = IF o = None THEN "rollback" ELSE "complete"]
    BY <1>1, <1>4, <1>5 DEF Finalize
  <2>2. PICK m : m = [n EXCEPT !.outcome = o, !.answer = None,
                        !.pc = IF o = None THEN "rollback" ELSE "complete"]
    OBVIOUS
  <2>3. Moves(w, m)
    BY <1>1, <2>1, <2>2 DEF Moves
  <2>4. /\ DOMAIN m = Fields /\ m.request = n.request /\ m.outcome = o
        /\ m.attempt = n.attempt
        /\ m.pc = IF o = None THEN "rollback" ELSE "complete"
    BY <1>2, <2>2 DEF Fields
  <2>5. /\ n.request \in Requests /\ n.request.verdict = "ok"
        /\ n.answer \in Answers
        /\ <<"request", n.request.body>> \in artifacts
    BY <1>2, <1>3 DEF Fits
  <2>6. ASSUME o # None
        PROVE  Sound(m.request, o) /\ ArtifactsKept(m.request, o)'
    <3>1. o = finalizeProposal(n.request, n.answer)
            \/ o = finalizeReview(n.request, n.answer)
      BY <1>1, <1>4 DEF outcomeOf, req
    <3>2. Sound(n.request, o) /\ o.response = response(n.answer)
      BY <1>5, <2>5, <2>6, <3>1, OutcomeSound
    <3>3. putArtifacts(w, o) =
            {o.response} \cup (IF o.proposal = None THEN {} ELSE {o.proposal})
      BY <1>1, <2>6, <3>2 DEF putArtifacts
    <3>4. QED
      BY <2>1, <2>4, <2>5, <3>2, <3>3 DEF ArtifactsKept
  <2>7. Fits(m)'
    <3>1. artifacts \subseteq artifacts'
      BY <2>1
    <3>2. CASE o = None
      BY <1>2, <1>3, <2>4, <3>1, <3>2 DEF Fits, AtWork
    <3>3. CASE o # None
      BY <1>2, <1>3, <2>4, <2>6, <3>1, <3>3 DEF Fits, AtWork
    <3>4. QED
      BY <3>2, <3>3
  <2>8. m.request = req(w)
    BY <1>1, <2>4 DEF req
  <2>9. QED
    BY <1>3, <2>1, <2>3, <2>7, <2>8, MovesIInv
<1>6. CASE ~(validateProviderBudget(w) /\ n.answer.response <= ByteLimit)
  BY <1>1, <1>3, <1>6, GiveUpIInv DEF Finalize
<1>7. QED
  BY <1>5, <1>6

-----------------------------------------------------------------------------
(* The steps that change a row.  Each is taken by the only caller at work  *)
(* on the request ID.                                                      *)

(* The row i becomes r by a step of the caller w to the memory m.          *)
Writes(w, i, r, m) ==
  /\ rows' = [rows EXCEPT ![i] = r]
  /\ Moves(w, m)
  /\ artifacts' = artifacts /\ clock' = clock

(* Such a step preserves the invariant when the new row and the new memory *)
(* fit and no other caller relies on the row that was there.               *)
LEMMA WritesIInv ==
  ASSUME GatewayInv, NEW w \in Callers, NEW i \in IDs, NEW r, NEW m,
         Writes(w, i, r, m),
         RowFits(i)', Fits(m)',
         rows[i].state # "completed",
         \A v \in Callers : v # w /\ working(v) => req(v).id # i,
         m.pc \notin {"idle", "begin", "answer"} => m.request.id = i
  PROVE  GatewayInv'
<1>1. caller'[w] = m /\ \A v \in Callers : v # w => caller'[v] = caller[v]
  BY DEF GatewayInv, Shaped, Writes, Moves
<1>2. rows'[i] = r /\ \A j \in IDs : j # i => rows'[j] = rows[j]
  BY DEF GatewayInv, Shaped, Writes
<1>3. Shaped'
  BY DEF GatewayInv, Shaped, Writes, Moves, IDs
<1>4. CallersFit'
  <2> SUFFICES ASSUME NEW v \in Callers PROVE Fits(caller[v])'
    BY DEF CallersFit
  <2>1. PICK n : n = caller'[v]
    OBVIOUS
  <2>2. CASE v = w
    BY <1>1, <2>1, <2>2
  <2>3. CASE v # w
    <3>1. n = caller[v]
      BY <1>1, <2>1, <2>3
    <3>2. Fits(n)
      BY <3>1 DEF GatewayInv, CallersFit
    <3>3. n.pc \in AtWork \cup {"rollback", "answer"} =>
            n.request.id \in IDs /\ n.request.id # i
      BY <2>3, <3>1, <3>2 DEF Fits, IDs, working, req, AtWork
    <3>4. n.pc \in AtWork \cup {"rollback", "answer"} =>
            rows'[n.request.id] = rows[n.request.id]
      BY <1>2, <3>3
    <3>5. Fits(n)'
      BY <3>2, <3>4, ZenonT(40) DEF Fits, ArtifactsKept, Writes, AtWork
    <3>6. QED
      BY <2>1, <3>5
  <2>4. QED
    BY <2>2, <2>3
<1>5. Alone'
  BY <1>1, SMT DEF GatewayInv, Alone, working, req
<1>6. RowsFit'
  <2> SUFFICES ASSUME NEW j \in IDs PROVE RowFits(j)'
    BY DEF RowsFit, IDs
  <2>1. CASE j # i
    <3>1. RowFits(j)
      BY DEF GatewayInv, RowsFit
    <3>2. QED
      BY <1>2, <2>1, <3>1 DEF RowFits, ArtifactsKept, Writes
  <2>2. QED
    BY <2>1
<1>7. QED
  BY <1>3, <1>4, <1>5, <1>6 DEF GatewayInv

(* A row that is free has nobody at work on it.                            *)
LEMMA NobodyReserved ==
  ASSUME GatewayInv, NEW i \in IDs, rows[i].state = "NONE"
  PROVE  \A v \in Callers : working(v) => req(v).id # i
<1> SUFFICES ASSUME NEW v \in Callers, working(v) PROVE req(v).id # i
  OBVIOUS
<1>1. Fits(caller[v])
  BY ZenonT(40) DEF GatewayInv, CallersFit
<1>2. QED
  BY <1>1 DEF Fits, AtWork, working, req

(* The row of a reservation, and its place.                                *)
LEMMA ReservedRow ==
  ASSUME GatewayInv, NEW w \in Callers, at(w, "begin"), reservable(w),
         rows' = reservation(w)
  PROVE  \E i, r :
           /\ i \in IDs /\ i = req(w).id /\ req(w) \in Requests
           /\ rows[i].state = "NONE" /\ rows' = [rows EXCEPT ![i] = r]
           /\ r.state = "in_progress" /\ r.digest = req(w).body
           /\ r.outcome = None /\ rows'[i] = r
           /\ RowFits(i)'
<1>1. Fits(caller[w])
  BY ZenonT(40) DEF GatewayInv, CallersFit
<1>2. req(w) \in Requests /\ req(w).id \in IDs
  BY <1>1 DEF Fits, IDs, at, req
<1>3. PICK i : i = req(w).id
  OBVIOUS
<1>4. PICK r : r = [NoRow EXCEPT !.state = "in_progress",
                                 !.digest = req(w).body]
  OBVIOUS
<1>5. /\ r.state = "in_progress" /\ r.digest = req(w).body
      /\ r.outcome = None /\ DOMAIN r = {"state", "digest", "outcome"}
  BY <1>4 DEF NoRow
<1>6. rows' = [rows EXCEPT ![i] = r] /\ rows[i].state = "NONE"
  BY <1>3, <1>4 DEF reservation, reservable, row
<1>7. rows'[i] = r
  BY <1>2, <1>3, <1>6 DEF GatewayInv, Shaped
<1>8. RowFits(i)'
  BY <1>5, <1>7 DEF RowFits
<1>9. QED
  BY <1>2, <1>3, <1>5, <1>6, <1>7, <1>8

(* A reservation whose caller does not learn of it is a row that fits.     *)
LEMMA ReservationLostIInv ==
  ASSUME GatewayInv, NEW w \in Callers, ReservationLost(w) PROVE GatewayInv'
<1>1. PICK i, r :
        /\ i \in IDs /\ rows[i].state = "NONE"
        /\ rows' = [rows EXCEPT ![i] = r] /\ RowFits(i)'
  BY ReservedRow DEF ReservationLost
<1>2. Fits(NoCall)' /\ NoCall.pc = "idle"
  BY SMT DEF Fits, NoCall, Fields, AtWork, maximumProviderAttempts
<1>3. Writes(w, i, r, NoCall)
  BY <1>1 DEF Writes, Moves, ReservationLost, stop
<1>4. \A v \in Callers : working(v) => req(v).id # i
  BY <1>1, NobodyReserved
<1>5. QED
  BY <1>1, <1>2, <1>3, <1>4, WritesIInv

(* A row that is reserved has nobody at work on it before.                 *)
LEMMA ReserveIInv ==
  ASSUME GatewayInv, NEW w \in Callers, Reserve(w) PROVE GatewayInv'
<1>1. PICK n : n = caller[w]
  OBVIOUS
<1>2. Fits(n) /\ DOMAIN n = Fields
  BY <1>1, CallerFits
<1>3. n.pc = "begin"
  BY <1>1 DEF Reserve, at
<1>4. PICK i, r :
        /\ i \in IDs /\ i = n.request.id /\ n.request \in Requests
        /\ rows[i].state = "NONE" /\ rows' = [rows EXCEPT ![i] = r]
        /\ r.state = "in_progress" /\ r.digest = n.request.body
        /\ rows'[i] = r /\ RowFits(i)'
  BY <1>1, ReservedRow DEF Reserve, req
<1>5. PICK m : m = [n EXCEPT !.pc = "validate"]
  OBVIOUS
<1>6. Writes(w, i, r, m)
  BY <1>1, <1>4, <1>5 DEF Writes, Moves, Reserve, goto
<1>7. /\ DOMAIN m = Fields /\ m.pc = "validate" /\ m.request = n.request
      /\ m.attempt = n.attempt
  BY <1>2, <1>5 DEF Fields
<1>8. Fits(m)'
  BY <1>2, <1>3, <1>4, <1>6, <1>7 DEF Fits, AtWork, Writes
<1>9. \A v \in Callers : working(v) => req(v).id # i
  BY <1>4, NobodyReserved
<1>10. QED
  BY <1>4, <1>6, <1>7, <1>8, <1>9, WritesIInv, ZenonT(40)

(* The outcome is stored, by Complete or by an Error that comes too late.  *)
Completes(w) ==
  /\ at(w, "complete") /\ held(w)
  /\ rows' = completion(w)
  /\ \E pc \in {"answer", "rollback"} : goto(w, pc)
  /\ UNCHANGED <<artifacts, clock, returned>>

(* What it does to the row of its request.                                 *)
LEMMA CompletesRow ==
  ASSUME GatewayInv, NEW w \in Callers, Completes(w)
  PROVE  \E i, r :
           /\ i \in IDs /\ i = req(w).id
           /\ rows' = [rows EXCEPT ![i] = r]
           /\ r.state = "completed" /\ r.outcome = caller[w].outcome
           /\ r.digest = req(w).body /\ r.outcome \in StoredOutcomes
           /\ DOMAIN r = {"state", "digest", "outcome"}
           /\ rows[i].state = "in_progress" /\ rows[i].outcome = None
<1>1. Fits(caller[w]) /\ caller[w].pc = "complete"
  BY DEF GatewayInv, CallersFit, Completes, at
<1>2. PICK i : i = req(w).id
  OBVIOUS
<1>3. i \in IDs /\ req(w) \in Requests /\ caller[w].outcome \in StoredOutcomes
  BY <1>1, <1>2 DEF Fits, IDs, req, Sound
<1>4. /\ DOMAIN rows[i] = {"state", "digest", "outcome"}
      /\ rows[i].state = "in_progress" /\ rows[i].outcome = None
      /\ rows[i].digest = req(w).body
  BY <1>2, <1>3 DEF GatewayInv, RowsFit, RowFits, Completes, held, row
<1>5. PICK r : r = [rows[i] EXCEPT !.state = "completed",
                                   !.outcome = caller[w].outcome]
  OBVIOUS
<1>6. /\ DOMAIN r = {"state", "digest", "outcome"} /\ r.state = "completed"
      /\ r.outcome = caller[w].outcome /\ r.digest = req(w).body
  BY <1>4, <1>5
<1>7. rows' = [rows EXCEPT ![i] = r]
  BY <1>2, <1>5 DEF Completes, completion
<1>8. QED
  BY <1>2, <1>3, <1>4, <1>6, <1>7

(* A stored outcome is sound, and its artifacts are there.                 *)
LEMMA CompletesIInv ==
  ASSUME GatewayInv, NEW w \in Callers, Completes(w) PROVE GatewayInv'
<1>1. PICK n : n = caller[w]
  OBVIOUS
<1>2. Fits(n) /\ DOMAIN n = Fields
  BY <1>1, CallerFits
<1>3. n.pc = "complete"
  BY <1>1 DEF Completes, at
<1>4. PICK pc \in {"answer", "rollback"} : goto(w, pc)
  BY DEF Completes
<1>5. PICK m : m = [n EXCEPT !.pc = pc]
  OBVIOUS
<1>6. /\ DOMAIN m = Fields /\ m.pc = pc /\ m.request = n.request
      /\ m.attempt = n.attempt /\ m.outcome = n.outcome
  BY <1>2, <1>5 DEF Fields
<1>7. PICK i, r :
        /\ i \in IDs /\ i = req(w).id
        /\ rows' = [rows EXCEPT ![i] = r]
        /\ r.state = "completed" /\ r.outcome = caller[w].outcome
        /\ r.digest = req(w).body /\ r.outcome \in StoredOutcomes
        /\ DOMAIN r = {"state", "digest", "outcome"}
        /\ rows[i].state = "in_progress" /\ rows[i].outcome = None
  BY CompletesRow
<1>8. rows'[i] = r /\ n.request.id = i /\ r.outcome = n.outcome
  BY <1>1, <1>7 DEF GatewayInv, Shaped, req
<1>9. Writes(w, i, r, m)
  BY <1>1, <1>4, <1>5, <1>7 DEF Writes, Moves, goto, Completes
<1>10. RowFits(i)'
  <2>1. /\ n.request \in Requests /\ Sound(n.request, n.outcome)
        /\ ArtifactsKept(n.request, n.outcome)
    BY <1>2, <1>3 DEF Fits
  <2>2. ArtifactsKept(n.request, n.outcome)'
    BY <1>9, <2>1 DEF ArtifactsKept, Writes
  <2>3. r.digest = n.request.body
    BY <1>1, <1>7 DEF req
  <2>4. QED
    BY <1>7, <1>8, <2>1, <2>2, <2>3 DEF RowFits
<1>11. Fits(m)'
  BY <1>2, <1>3, <1>4, <1>6, <1>7, <1>8, <1>9, ZenonT(40)
     DEF Fits, AtWork, Writes
<1>12. \A v \in Callers : v # w /\ working(v) => req(v).id # i
  BY <1>1, <1>3, <1>8 DEF GatewayInv, Alone, working, req
<1>13. QED
  BY <1>6, <1>7, <1>8, <1>9, <1>10, <1>11, <1>12, WritesIInv

(* A reservation is deleted by the caller that holds it.                   *)
LEMMA RollbackIInv ==
  ASSUME GatewayInv, NEW w \in Callers, Rollback(w) PROVE GatewayInv'
<1>1. CASE ~held(w)
  BY <1>1, StopIInv DEF Rollback, rolledBack
<1>2. CASE held(w)
  <2>1. PICK n : n = caller[w]
    OBVIOUS
  <2>2. Fits(n) /\ n.pc = "rollback" /\ working(w)
    BY <2>1, CallerFits DEF Rollback, at, working
  <2>3. PICK i : i = n.request.id
    OBVIOUS
  <2>4. i \in IDs /\ rows[i].state = "in_progress"
    BY <1>2, <2>1, <2>2, <2>3 DEF Fits, IDs, held, row, req
  <2>5. Writes(w, i, NoRow, NoCall)
    BY <1>2, <2>1, <2>3
    DEF Writes, Moves, Rollback, rolledBack, stop, req
  <2>6. rows'[i] = NoRow
    BY <2>4, <2>5 DEF GatewayInv, Shaped, Writes
  <2>7. RowFits(i)'
    BY <2>6, SMTT(30) DEF RowFits, NoRow
  <2>8. Fits(NoCall)' /\ NoCall.pc = "idle"
    BY SMT DEF Fits, NoCall, Fields, AtWork, maximumProviderAttempts
  <2>9. \A v \in Callers : v # w /\ working(v) => req(v).id # i
    BY <2>1, <2>2, <2>3 DEF GatewayInv, Alone, req
  <2>10. QED
    BY <2>4, <2>5, <2>7, <2>8, <2>9, WritesIInv
<1>3. QED
  BY <1>1, <1>2

-----------------------------------------------------------------------------
(* All steps.                                                              *)

(* Time passes, and the process dies.                                      *)
LEMMA WorldIInv ==
  ASSUME GatewayInv, Tick \/ Death PROVE GatewayInv'
<1>1. /\ rows' = rows /\ artifacts' = artifacts /\ DOMAIN caller' = Callers
      /\ clock' \in 0..MaxTime
  <2>1. clock \in 0..MaxTime /\ MaxTime \in Nat
    BY GatewayAssumption DEF GatewayInv, Shaped
  <2>2. \/ clock' = clock \/ clock' = MaxTime
        \/ clock < MaxTime /\ clock' = clock + 1
    BY DEF Tick, Death
  <2>3. clock' \in 0..MaxTime
    BY <2>1, <2>2, SMT
  <2>4. QED
    BY <2>3 DEF Tick, Death
<1>2. Shaped'
  BY <1>1 DEF GatewayInv, Shaped, IDs
<1>3. ASSUME NEW v \in Callers
      PROVE  \/ caller'[v] = NoCall
             \/ /\ DOMAIN caller'[v] = Fields
                /\ caller'[v].pc = caller[v].pc
                /\ caller'[v].request = caller[v].request
                /\ caller'[v].attempt = caller[v].attempt
                /\ caller'[v].answer = caller[v].answer
                /\ caller'[v].outcome = caller[v].outcome
  <2>1. DOMAIN caller[v] = Fields
    BY DEF GatewayInv, CallersFit, Fits
  <2>2. CASE Tick
    <3>1. caller'[v] = [caller[v] EXCEPT !.left = less(caller[v].left),
                                         !.delay = less(caller[v].delay)]
      BY <2>2 DEF Tick
    <3>2. QED
      BY <2>1, <3>1 DEF Fields
  <2>3. CASE Death
    BY <2>3 DEF Death
  <2>4. QED
    BY <2>2, <2>3
<1>4. CallersFit'
  <2> SUFFICES ASSUME NEW v \in Callers PROVE Fits(caller[v])'
    BY DEF CallersFit
  <2>1. Fits(caller[v])
    BY ZenonT(40) DEF GatewayInv, CallersFit
  <2>2. CASE caller'[v] = NoCall
    BY <2>2, SMT DEF Fits, NoCall, Fields, AtWork, maximumProviderAttempts
  <2>3. CASE caller'[v] # NoCall
    BY <1>1, <1>3, <2>1, <2>3 DEF Fits, ArtifactsKept
  <2>4. QED
    BY <2>2, <2>3
<1>5. NobodyStarts
  BY <1>3, SMT DEF NobodyStarts, working, req, NoCall
<1>6. QED
  BY <1>1, <1>2, <1>4, <1>5, QuietGatewayInv

(* An error before the completion, or one that hides it.                   *)
LEMMA ErrorKinds ==
  ASSUME GatewayInv, NEW w \in Callers, Error(w)
  PROVE  /\ working(w) /\ goto(w, "rollback")
         /\ UNCHANGED <<artifacts, clock, returned>>
         /\ rows' = rows \/ Completes(w)
BY DEF Error, working, Completes, at

(* The completion succeeds: nobody else can have taken the reservation.    *)
LEMMA CompleteKind ==
  ASSUME GatewayInv, NEW w \in Callers, Complete(w) PROVE Completes(w)
<1>1. Fits(caller[w]) /\ caller[w].pc = "complete"
  BY DEF GatewayInv, CallersFit, Complete, at
<1>2. held(w)
  BY <1>1 DEF Fits, AtWork, held, row, req
<1>3. QED
  BY <1>2 DEF Complete, Completes

(* Every step preserves the invariant.                                     *)
LEMMA GatewayInductive == GatewayInv /\ [GatewayNext]_callVars => GatewayInv'
<1> SUFFICES ASSUME GatewayInv, GatewayNext \/ UNCHANGED callVars
             PROVE  GatewayInv'
  OBVIOUS
<1>1. ASSUME NEW w \in Callers, Call(w) PROVE GatewayInv'
  BY <1>1, CallIInv
<1>2. ASSUME NEW w \in Callers, Step(w) PROVE GatewayInv'
  <2>1. CASE BeginRefused(w) \/ replayOutcome(w) \/ Answer(w)
    BY <1>2, <2>1, StopIInv DEF BeginRefused, replayOutcome, Answer
  <2>2. CASE SendTimeout(w)
    BY <1>2, <2>2, GiveUpIInv DEF SendTimeout, working, at
  <2>3. CASE Complete(w)
    BY <1>2, <2>3, CompleteKind, CompletesIInv
  <2>4. QED
    BY <1>2, <2>1, <2>2, <2>3, ReserveIInv, ValidateIInv, InvokeIInv,
       SendIInv, FinalizeIInv, RollbackIInv DEF Step
<1>3. ASSUME NEW w \in Callers, Error(w) PROVE GatewayInv'
  BY <1>3, ErrorKinds, GiveUpIInv, CompletesIInv
<1>4. ASSUME NEW w \in Callers, RollbackFails(w) \/ BeginError(w)
      PROVE  GatewayInv'
  BY <1>4, StopIInv DEF RollbackFails, BeginError
<1>5. CASE UNCHANGED callVars
  <2>1. Shaped' /\ NobodyStarts
    BY <1>5 DEF callVars, GatewayInv, Shaped, NobodyStarts, working, req, IDs
  <2>2. CallersFit'
    BY <1>5, ZenonT(30) DEF callVars, GatewayInv, CallersFit, Fits,
       ArtifactsKept
  <2>3. QED
    BY <1>5, <2>1, <2>2, QuietGatewayInv DEF callVars
<1>6. QED
  BY <1>1, <1>2, <1>3, <1>4, <1>5, WorldIInv, ReservationLostIInv
  DEF GatewayNext

(* The invariant always holds.                                             *)
LEMMA GatewayInvariance == GatewaySpec => []GatewayInv
BY InitGatewayInv, GatewayInductive, PTL DEF GatewaySpec

(* What is accepted is valid in every respect at once, for all requests    *)
(* and answers (finalizeProposal, finalizeReview, Complete).               *)
THEOREM AcceptanceIsValid == GatewaySpec => []AcceptedIsValid
<1>1. GatewayInv => AcceptedIsValid
  BY DEF GatewayInv, RowsFit, RowFits, Sound, AcceptedIsValid
<1>2. QED
  BY <1>1, GatewayInvariance, PTL

(* An answer never comes with more provider requests than its request      *)
(* allows (sendWithRetry against validateProviderBudget).                  *)
THEOREM AdapterKeepsBudget == GatewaySpec => []AdapterWithinBudget
<1>1. GatewayInv => AdapterWithinBudget
  BY DEF GatewayInv, CallersFit, Fits, AdapterWithinBudget,
     validateProviderBudget,
         at, req
<1>2. QED
  BY <1>1, GatewayInvariance, PTL

-----------------------------------------------------------------------------
(* One outcome for a request ID.                                           *)

(* The types, and one caller per request ID.                               *)
LEMMA InvokedAlone == GatewayInv => GatewayTypeOK /\ OneCallerPerRequest
<1> SUFFICES ASSUME GatewayInv PROVE GatewayTypeOK /\ OneCallerPerRequest
  OBVIOUS
<1>1. ASSUME NEW i \in IDs
      PROVE  /\ rows[i].state \in {"NONE", "in_progress", "completed"}
             /\ rows[i].outcome \in StoredOutcomes \cup {None}
             /\ rows[i].outcome # None <=> rows[i].state = "completed"
  BY GatewayAssumption, SMT DEF GatewayInv, RowsFit, RowFits, Sound
<1>2. GatewayTypeOK
  BY <1>1 DEF GatewayInv, Shaped, CallersFit, Fits, GatewayTypeOK
<1>3. OneCallerPerRequest
  BY DEF GatewayInv, Alone, OneCallerPerRequest
<1>4. QED
  BY <1>2, <1>3

(* Who sends holds an open reservation.                                    *)
SendsReserved ==
  \A w \in Callers : caller'[w].attempt > caller[w].attempt =>
    row(w).state = "in_progress"

LEMMA SendStep ==
  ASSUME GatewayInv, [GatewayNext]_callVars PROVE SendsReserved
<1> SUFFICES ASSUME NEW v \in Callers, row(v).state # "in_progress"
             PROVE  ~(caller'[v].attempt > caller[v].attempt)
  BY DEF SendsReserved
<1>1. Fits(caller[v]) /\ caller[v].attempt \in 0..maximumProviderAttempts
  BY DEF GatewayInv, CallersFit, Fits
<1>2. CASE caller'[v].attempt = caller[v].attempt
  BY <1>1, <1>2, SMT
<1>3. CASE caller'[v].attempt = 0
  BY <1>1, <1>3, SMT
<1>4. ASSUME NEW w \in Callers,
             \/ Call(w) \/ Step(w) \/ Error(w) \/ BeginError(w)
             \/ ReservationLost(w) \/ RollbackFails(w)
      PROVE  caller'[v].attempt = caller[v].attempt \/ caller'[v].attempt = 0
  <2>1. DOMAIN caller = Callers /\ DOMAIN caller[w] = Fields
    BY DEF GatewayInv, Shaped, CallersFit, Fits
  <2>2. CASE w = v
    <3>1. ~at(w, "send")
      BY <1>1, <2>2 DEF Fits, AtWork, at, row, req
    <3>2. ~Send(w)
      BY <3>1 DEF Send
    <3>3. CASE stop(w)
      BY <2>1, <2>2, <3>3 DEF stop, NoCall
    <3>4. ASSUME NEW pc, goto(w, pc)
          PROVE  caller'[v].attempt = caller[v].attempt
      BY <2>1, <2>2, <3>4 DEF goto, Fields
    <3>5. CASE Call(w)
      BY <2>1, <2>2, <3>5, ZenonT(40) DEF Call, NoCall
    <3>6. CASE validateRecordedRequest(w)
      BY <2>1, <2>2, <3>6 DEF validateRecordedRequest, Fields
    <3>7. CASE invokeImplementation(w)
      BY <2>1, <2>2, <3>4, <3>7, SMT DEF invokeImplementation, Fields
    <3>8. CASE Finalize(w)
      BY <2>1, <2>2, <3>4, <3>8, SMT DEF Finalize, Fields
    <3>9. CASE Complete(w) \/ Error(w) \/ SendTimeout(w) \/ Reserve(w)
      BY <3>4, <3>9 DEF Complete, Error, SendTimeout, Reserve
    <3>10. CASE replayOutcome(w) \/ BeginRefused(w) \/ Answer(w)
                  \/ Rollback(w) \/ RollbackFails(w) \/ BeginError(w)
                  \/ ReservationLost(w)
      BY <3>3, <3>10
      DEF replayOutcome, BeginRefused, Answer, Rollback, RollbackFails,
          BeginError, ReservationLost
    <3>11. QED
      BY <1>4, <3>2, <3>5, <3>6, <3>7, <3>8, <3>9, <3>10 DEF Step
  <2>3. CASE w # v
    BY <1>4, <2>1, <2>3
    DEF Call, Step, Error, RollbackFails, BeginError, ReservationLost,
        Reserve, replayOutcome, BeginRefused, validateRecordedRequest, invokeImplementation, Send,
        SendTimeout, Finalize, Complete, Answer, Rollback, goto, stop
  <2>4. QED
    BY <2>2, <2>3
<1>5. CASE Tick \/ Death
  <2>1. DOMAIN caller[v] = Fields
    BY <1>1 DEF Fits
  <2>2. CASE Tick
    BY <1>2, <2>1, <2>2 DEF Tick, Fields
  <2>3. CASE Death
    BY <1>3, <2>3 DEF Death, NoCall
  <2>4. QED
    BY <1>5, <2>2, <2>3
<1>6. CASE UNCHANGED callVars
  BY <1>2, <1>6 DEF callVars
<1>7. QED
  BY <1>2, <1>3, <1>4, <1>5, <1>6 DEF GatewayNext

(* A stored outcome is read back as it was found to be.                    *)
LEMMA ReplayStep ==
  ASSUME GatewayInv, NEW w \in Callers, replayOutcome(w)
  PROVE  /\ req(w).id \in IDs /\ row(w).state = "completed"
         /\ returned' = returned \cup {<<req(w).id, row(w).outcome>>}
<1>1. /\ at(w, "begin") /\ row(w).state = "completed"
      /\ row(w).digest = req(w).body
      /\ returned' = IF replayValid(w)
                     THEN returned \cup {<<req(w).id, row(w).outcome>>}
                     ELSE returned
  BY DEF replayOutcome
<1>2. req(w) \in Requests /\ req(w).id \in IDs
  BY <1>1 DEF GatewayInv, CallersFit, Fits, at, req, IDs
<1>3. PICK r \in Requests :
        /\ r.body = row(w).digest /\ Sound(r, row(w).outcome)
        /\ ArtifactsKept(r, row(w).outcome)
  BY <1>1, <1>2 DEF GatewayInv, RowsFit, RowFits, row
<1>4. references(req(w).id) \subseteq artifacts
  BY <1>3 DEF references, ArtifactsKept, row
<1>5. row(w).outcome.status = "accepted" => req(w).verdict = "ok"
  BY <1>1, <1>2, <1>3, GatewayAssumption DEF Sound
<1>6. replayValid(w)
  BY <1>4, <1>5 DEF replayValid
<1>7. QED
  BY <1>1, <1>2, <1>6

-----------------------------------------------------------------------------
(* The write-once register.                                                *)

(* The empty ledger is the empty register.                                 *)
LEMMA LedgerInit == GatewayInit => Ledger!Init
<1> SUFFICES ASSUME GatewayInit PROVE Ledger!Init
  OBVIOUS
<1>1. [i \in IDs |-> rows[i].outcome] = [i \in IDs |-> None]
  BY DEF GatewayInit, NoRow
<1>2. QED
  BY <1>1 DEF GatewayInit, Ledger!Init

(* A step that changes neither outcomes nor what was returned.             *)
LEMMA LedgerStutters ==
  ASSUME \A i \in IDs : rows'[i].outcome = rows[i].outcome,
         returned' = returned
  PROVE  UNCHANGED Ledger!vars
<1>1. [i \in IDs |-> rows[i].outcome]' = [i \in IDs |-> rows[i].outcome]
  BY DEF IDs
<1>2. QED
  BY <1>1 DEF Ledger!vars

(* A caller is given what its row has.                                     *)
LEMMA LedgerReturns ==
  ASSUME NEW i \in IDs, rows' = rows, rows[i].outcome # None,
         returned' = returned \cup {<<i, rows[i].outcome>>}
  PROVE  Ledger!Next
<1>1. [j \in IDs |-> rows[j].outcome]' = [j \in IDs |-> rows[j].outcome]
  BY DEF IDs
<1>2. [j \in IDs |-> rows[j].outcome][i] = rows[i].outcome
  OBVIOUS
<1>3. Ledger!Return(i)
  BY <1>1, <1>2 DEF Ledger!Return
<1>4. QED
  BY <1>3 DEF Ledger!Next

(* The completion is the one record of the request ID.                     *)
LEMMA LedgerRecords ==
  ASSUME GatewayInv, NEW w \in Callers, Completes(w)
  PROVE  Ledger!Next
<1>1. PICK i, r :
        /\ i \in IDs /\ i = req(w).id
        /\ rows' = [rows EXCEPT ![i] = r]
        /\ r.state = "completed" /\ r.outcome = caller[w].outcome
        /\ r.digest = req(w).body /\ r.outcome \in StoredOutcomes
        /\ DOMAIN r = {"state", "digest", "outcome"}
        /\ rows[i].state = "in_progress" /\ rows[i].outcome = None
  BY CompletesRow
<1>2. rows'[i] = r /\ \A j \in IDs : j # i => rows'[j] = rows[j]
  BY <1>1 DEF GatewayInv, Shaped
<1>3. [j \in IDs |-> rows[j].outcome]' =
        [[j \in IDs |-> rows[j].outcome] EXCEPT ![i] = r.outcome]
  <2>1. IDs' = IDs
    BY DEF IDs
  <2>2. \A j \in IDs : rows'[j].outcome =
          IF j = i THEN r.outcome ELSE rows[j].outcome
    BY <1>2
  <2>3. i \in IDs
    BY <1>1
  <2>4. QED
    BY <2>1, <2>2, <2>3
<1>4. [j \in IDs |-> rows[j].outcome][i] = None
  BY <1>1
<1>5. Ledger!Record(i, r.outcome)
  BY <1>3, <1>4 DEF Ledger!Record, Completes
<1>6. QED
  BY <1>1, <1>5 DEF Ledger!Next

(* Every step of the gateway is a step of the register, or none.           *)
LEMMA LedgerStep ==
  GatewayInv /\ [GatewayNext]_callVars => [Ledger!Next]_(Ledger!vars)
<1> SUFFICES ASSUME GatewayInv, [GatewayNext]_callVars
             PROVE  Ledger!Next \/ UNCHANGED Ledger!vars
  OBVIOUS
<1>1. CASE UNCHANGED <<rows, returned>>
  BY <1>1, LedgerStutters
<1>2. ASSUME NEW w \in Callers,
             Reserve(w) \/ ReservationLost(w) \/ Rollback(w)
      PROVE  UNCHANGED Ledger!vars
  <2>1. PICK i : i = req(w).id
    OBVIOUS
  <2>2. i \in IDs
    BY <1>2, <2>1
    DEF GatewayInv, CallersFit, Fits, IDs, req, at, Reserve,
        ReservationLost, Rollback
  <2>3. \/ rows' = rows
        \/ /\ rows[i].state # "completed"
           /\ \E r : r.outcome = None /\ rows' = [rows EXCEPT ![i] = r]
    BY <1>2, <2>1
    DEF Reserve, ReservationLost, reservation, Rollback, rolledBack, held,
        row, reservable, NoRow
  <2>4. rows[i].state # "completed" => rows[i].outcome = None
    BY <2>2 DEF GatewayInv, RowsFit, RowFits
  <2>5. \A j \in IDs : rows'[j].outcome = rows[j].outcome
    BY <2>2, <2>3, <2>4 DEF GatewayInv, Shaped
  <2>6. QED
    BY <1>2, <2>5, LedgerStutters DEF Reserve, ReservationLost, Rollback
<1>3. ASSUME NEW w \in Callers, replayOutcome(w) \/ Answer(w)
      PROVE  Ledger!Next
  <2>1. PICK i : i = req(w).id
    OBVIOUS
  <2>2. /\ i \in IDs /\ rows[i].state = "completed" /\ rows' = rows
        /\ returned' = returned \cup {<<i, rows[i].outcome>>}
    <3>1. CASE replayOutcome(w)
      BY <2>1, <3>1, ReplayStep DEF row, replayOutcome
    <3>2. CASE Answer(w)
      BY <2>1, <3>2, ZenonT(40)
         DEF GatewayInv, CallersFit, Fits, IDs, req, at, Answer
    <3>3. QED
      BY <1>3, <3>1, <3>2
  <2>3. rows[i].outcome # None
    BY <2>2, GatewayAssumption, SMT DEF GatewayInv, RowsFit, RowFits, Sound
  <2>4. QED
    BY <2>2, <2>3, LedgerReturns
<1>4. ASSUME NEW w \in Callers, Complete(w) \/ Error(w)
      PROVE  Ledger!Next \/ UNCHANGED <<rows, returned>>
  BY <1>4, CompleteKind, ErrorKinds, LedgerRecords
<1>5. ASSUME NEW w \in Callers,
             Call(w) \/ Step(w) \/ RollbackFails(w) \/ BeginError(w)
      PROVE  \/ Reserve(w) \/ Rollback(w) \/ replayOutcome(w) \/ Answer(w)
             \/ Complete(w) \/ UNCHANGED <<rows, returned>>
  BY <1>5 DEF Call, Step, RollbackFails, BeginError, BeginRefused,
       validateRecordedRequest, invokeImplementation, Send, SendTimeout,
       Finalize
<1>6. CASE Tick \/ Death \/ UNCHANGED callVars
  BY <1>1, <1>6 DEF Tick, Death, callVars
<1>7. QED
  BY <1>1, <1>2, <1>3, <1>4, <1>5, <1>6 DEF GatewayNext

(* A request ID is worked on by one caller at a time; its one outcome is   *)
(* what every caller is given, a completed row is never changed, a replay  *)
(* sends nothing and always answers (Begin, Complete, Rollback).           *)
THEOREM InvocationsHappenOnce == GatewaySpec => InvokedOnce
<1>1. GatewaySpec => [](GatewayTypeOK /\ OneCallerPerRequest)
  BY GatewayInvariance, InvokedAlone, PTL
<1>2. GatewaySpec => InvocationsImplementWriteOnce
  BY LedgerInit, LedgerStep, GatewayInvariance, PTL
  DEF GatewaySpec, InvocationsImplementWriteOnce, Ledger!Spec
<1>3. GatewaySpec => ReplaySendsNothing
  <2>1. GatewayInv /\ [GatewayNext]_callVars =>
          [\A w \in Callers : caller'[w].attempt > caller[w].attempt =>
             row(w).state = "in_progress"]_callVars
    BY SendStep DEF SendsReserved
  <2>2. QED
    BY <2>1, GatewayInvariance, PTL DEF GatewaySpec, ReplaySendsNothing
<1>4. GatewaySpec => ReplayAlwaysAnswers
  <2>1. GatewayInv /\ [GatewayNext]_callVars =>
          [\A w \in Callers :
             replayOutcome(w) =>
               <<req(w).id, row(w).outcome>> \in returned']_callVars
    BY ReplayStep
  <2>2. QED
    BY <2>1, GatewayInvariance, PTL DEF GatewaySpec, ReplayAlwaysAnswers
<1>5. QED
  BY <1>1, <1>2, <1>3, <1>4 DEF InvokedOnce

=============================================================================
