--------------------------- MODULE ExecutionProofs ---------------------------
(***************************************************************************)
(* Proofs about Execution, for any tasks, proposals, workers, processes    *)
(* and capacities.                                                         *)
(***************************************************************************)
EXTENDS Execution, TLAPS

(* Most leaves are first-order steps, which Zenon proves; a leaf that      *)
(* needs arithmetic or the fields of records names SMT.                    *)
USE Zenon

-----------------------------------------------------------------------------
(* The inductive invariant.  The row of an execution keeps the request     *)
(* that reserved it first, so all workers past Begin carry one proposal;   *)
(* whatever they read from the worktree they share, a candidate gets on    *)
(* only if it is the candidate of that proposal, after the workflow has    *)
(* accepted it.                                                            *)

Fields == {"pc", "task", "proposal", "rev", "commit", "created", "done"}

Cleaning == {"clean-ref", "clean-worktree", "release", "abandon"}

AtWork == {"capacity", "worktree-slot"} \cup Working \cup Cleaning

(* Steps behind the acceptance, and behind the look at the files.          *)
Accepted ==
  {"apply", "build", "create-ref", "final-time", "record", "complete"}
Built == {"create-ref", "final-time", "record", "complete"}

proposed(t) == ledger[t].digest[2]

Fits(m) ==
  /\ DOMAIN m = Fields
  /\ m.pc \in AtWork \cup {"idle", "begin"}
  /\ m.done \in BOOLEAN
  /\ m.pc # "idle" => m.task \in Tasks /\ m.proposal \in Proposals
  /\ m.pc \in AtWork =>
       /\ ledger[m.task].state # "NONE"
       /\ ledger[m.task].digest = <<m.task, m.proposal, m.rev>>
  /\ m.pc \in Accepted => task[m.task].proposal # Nil
  /\ m.pc \in Built => m.commit = m.proposal
  /\ m.pc \in {"record", "complete"} => ledger[m.task].final # Nil
  /\ m.pc = "complete" => task[m.task].cand # Nil
  /\ m.done =>
       /\ m.pc \in Cleaning
       /\ ledger[m.task].state = "completed"
       /\ ledger[m.task].result = m.commit

WorkersFit ==
  DOMAIN worker = Workers /\ \A w \in Workers : Fits(worker[w])

RowFits(t) ==
  /\ DOMAIN ledger[t] =
       {"state", "digest", "owner", "expired", "final", "result"}
  /\ ledger[t].state \in {"NONE", "reserved", "completed"}
  /\ ledger[t].owner \in Workers \cup {Nil}
  /\ ledger[t].final \in Times \cup {Nil}
  /\ ledger[t].state # "NONE" => proposed(t) \in Proposals
  /\ ledger[t].state # "completed" => ledger[t].result = Nil
  /\ ledger[t].state = "completed" =>
       /\ ledger[t].final # Nil
       /\ ledger[t].result # Nil /\ ledger[t].result = task[t].cand

(* The workflow has accepted nothing but the proposal of the row, and has  *)
(* no candidate but its own.                                               *)
TaskFits(t) ==
  /\ task[t] \in TaskRow
  /\ <<t, "accept">> \in DOMAIN commands => task[t].proposal # Nil
  /\ <<t, "record">> \in DOMAIN commands => task[t].cand # Nil
  /\ task[t].proposal # Nil =>
       /\ ledger[t].state # "NONE"
       /\ task[t].proposal.ref = ProposalRef(proposed(t))
  /\ task[t].cand # Nil =>
       /\ task[t].proposal # Nil /\ task[t].cand = proposed(t)
       /\ task[t].exec.ref = reportOf(task[t].cand)

(* What the file system and the repository hold for an execution.          *)
PlaceFits(t) ==
  /\ trees[t] \in Proposals \cup {NoTree, Base, Partial}
  /\ refs[t] # Nil => task[t].proposal # Nil /\ refs[t] = proposed(t)

Shaped ==
  /\ DOMAIN ledger = Tasks /\ DOMAIN task = Tasks
  /\ task \in [Tasks -> TaskRow]
  /\ refs \in [Tasks -> OptCommit] /\ DOMAIN trees = Tasks
  /\ clock \in Times

StoresFit ==
  Shaped /\ \A t \in Tasks : RowFits(t) /\ TaskFits(t) /\ PlaceFits(t)

Kinds == {"executions", "worktrees"}

Cap(kind) == IF kind = "executions" THEN MaxConcurrent ELSE MaxWorktrees

Held == Working \cup {"clean-ref", "clean-worktree", "release"}

(* Where a worker holds a place of a semaphore.                            *)
Holds(kind, pc) ==
  pc \in Held \/ (pc = "worktree-slot" /\ kind = "executions")

Holders(q, kind) ==
  {w \in Workers : Home[w] = q /\ Holds(kind, worker[w].pc)}

SlotsFit ==
  /\ slots \in [Processes -> [Kinds -> Nat]]
  /\ \A q \in Processes, k \in Kinds :
       /\ slots[q][k] = Cardinality(Holders(q, k))
       /\ slots[q][k] <= Cap(k)

IInv == WorkersFit /\ StoresFit /\ SlotsFit

-----------------------------------------------------------------------------
(* What a step never takes back.                                           *)
Grows ==
  \A t \in Tasks :
    /\ ledger[t].state # "NONE" =>
         ledger'[t].state # "NONE" /\ ledger'[t].digest = ledger[t].digest
    /\ ledger[t].final # Nil => ledger'[t].final # Nil
    /\ ledger[t].state = "completed" =>
         /\ ledger'[t].state = "completed"
         /\ ledger'[t].result = ledger[t].result
    /\ task[t].proposal # Nil => task'[t].proposal # Nil
    /\ task[t].cand # Nil => task'[t].cand = task[t].cand

(* A memory goes on fitting when the others only add to what they wrote.   *)
LEMMA FitsGrows ==
  ASSUME Grows, NEW m, Fits(m)
  PROVE  Fits(m)'
<1>1. CASE m.pc = "idle"
  BY <1>1 DEF Fits, AtWork, Working, Cleaning, Accepted, Built
<1>2. CASE m.pc # "idle"
  <2>1. m.task \in Tasks
    BY <1>2 DEF Fits
  <2> QED
    BY <1>2, <2>1 DEF Fits, Grows, AtWork, Cleaning
<1> QED
  BY <1>1, <1>2

Moves(w, m) == worker' = [worker EXCEPT ![w] = m]

(* When one worker moves, the memories fit if its new one does.            *)
LEMMA MovesFit ==
  ASSUME IInv, NEW w \in Workers, NEW m, Moves(w, m), Fits(m)', Grows
  PROVE  WorkersFit'
<1>1. DOMAIN worker' = Workers
  BY DEF IInv, WorkersFit, Moves
<1>2. ASSUME NEW v \in Workers PROVE Fits(worker[v])'
  <2>1. PICK n : n = worker'[v]
    OBVIOUS
  <2>2. CASE v = w
    <3>1. n = m
      BY <2>1, <2>2 DEF IInv, WorkersFit, Moves
    <3> QED
      BY <2>1, <3>1
  <2>3. CASE v # w
    <3>1. n = worker[v]
      BY <2>1, <2>3 DEF IInv, WorkersFit, Moves
    <3>2. Fits(n)'
      BY <3>1, FitsGrows DEF IInv, WorkersFit
    <3> QED
      BY <2>1, <3>2
  <2> QED
    BY <2>2, <2>3
<1> QED
  BY <1>1, <1>2 DEF WorkersFit

-----------------------------------------------------------------------------
(* The semaphores.                                                         *)

Count(kind, pc) == IF Holds(kind, pc) THEN 1 ELSE 0

(* A worker that moves takes or gives back the places of its process that  *)
(* the two steps of its program say, within the capacity.                  *)
Accounts(w, m) ==
  /\ slots' \in [Processes -> [Kinds -> Int]]
  /\ \A q \in Processes, k \in Kinds :
       /\ q # Home[w] => slots'[q][k] = slots[q][k]
       /\ q = Home[w] =>
            /\ slots'[q][k] =
                 slots[q][k] + Count(k, m.pc) - Count(k, worker[w].pc)
            /\ slots'[q][k] <= Cap(k)

(* A worker that neither takes nor gives back a place.                     *)
LEMMA AccountsNothing ==
  ASSUME IInv, NEW w \in Workers, NEW m, UNCHANGED slots,
         \A k \in Kinds : Holds(k, worker[w].pc) <=> Holds(k, m.pc)
  PROVE  Accounts(w, m)
<1>1. \A k \in Kinds : Count(k, m.pc) = Count(k, worker[w].pc)
  BY DEF Count
<1>2. \A k \in Kinds : Count(k, m.pc) \in Int
  BY SMT DEF Count
<1> QED
  BY <1>1, <1>2, SMT DEF Accounts, IInv, SlotsFit

-----------------------------------------------------------------------------
(* What a step leaves as it is goes on fitting.                            *)

(* The rows of the ledger.                                                 *)
LEMMA RowsKept ==
  ASSUME IInv, Grows, UNCHANGED ledger, NEW t \in Tasks
  PROVE  RowFits(t)'
BY DEF IInv, StoresFit, RowFits, Grows, proposed

(* The tasks of the workflow.                                              *)
LEMMA TasksKept ==
  ASSUME IInv, Grows, UNCHANGED <<task, commands>>, NEW t \in Tasks
  PROVE  TaskFits(t)'
BY DEF IInv, StoresFit, TaskFits, Grows, proposed

(* Worktrees and candidate refs.                                           *)
LEMMA PlacesKept ==
  ASSUME IInv, Grows, UNCHANGED <<trees, refs>>, NEW t \in Tasks
  PROVE  PlaceFits(t)'
BY DEF IInv, StoresFit, PlaceFits, TaskFits, Grows, proposed

(* What is shown of the step of a worker: its places are counted below.    *)
Kept(w) ==
  /\ WorkersFit' /\ StoresFit'
  /\ \E m : Moves(w, m) /\ Accounts(w, m)

(* A step of a worker keeps the invariant when what it writes fits.        *)
LEMMA WritesKept ==
  ASSUME IInv, NEW w \in Workers, NEW m, Moves(w, m), Fits(m)', Grows,
         Accounts(w, m), StoresFit'
  PROVE  Kept(w)
BY MovesFit DEF Kept

Unseen == UNCHANGED <<task, commands, ledger, refs, trees, clock>>

(* A step that only changes memories and semaphores takes nothing back.    *)
LEMMA UnseenGrows == ASSUME Unseen PROVE Grows
BY DEF Unseen, Grows

(* And leaves the stores as they were.                                     *)
LEMMA UnseenRest == ASSUME IInv, Unseen PROVE StoresFit'
<1>1. Shaped'
  BY DEF IInv, StoresFit, Shaped, Unseen
<1>2. ASSUME NEW t \in Tasks PROVE (RowFits(t) /\ TaskFits(t) /\ PlaceFits(t))'
  BY UnseenGrows, RowsKept, TasksKept, PlacesKept DEF Unseen
<1> QED
  BY <1>1, <1>2 DEF StoresFit

(* So it keeps the invariant when the new memory fits.                     *)
LEMMA LocalKept ==
  ASSUME IInv, NEW w \in Workers, NEW m, Moves(w, m), Fits(m), Unseen,
         Accounts(w, m)
  PROVE  Kept(w)
<1>1. Grows
  BY UnseenGrows
<1>2. Fits(m)'
  BY <1>1, FitsGrows
<1> QED
  BY <1>1, <1>2, UnseenRest, WritesKept

(* A worker without a call fits any ledger.                                *)
LEMMA IdleFits == Fits(Idle) /\ Fits(Idle)'
BY DEF Fits, Idle, Fields, AtWork, Working, Cleaning, Accepted, Built

(* A call that ends without holding a place.                               *)
LEMMA StopKept ==
  ASSUME IInv, NEW w \in Workers, Moves(w, Idle), Unseen, UNCHANGED slots,
         \A k \in Kinds : ~Holds(k, worker[w].pc)
  PROVE  Kept(w)
<1>1. \A k \in Kinds : ~Holds(k, Idle.pc)
  BY DEF Holds, Held, Working, Idle
<1>2. Accounts(w, Idle)
  BY <1>1, AccountsNothing
<1> QED
  BY <1>2, IdleFits, LocalKept

(* The memory of a worker that only goes on to another step.               *)
LEMMA GotoMoves ==
  ASSUME IInv, NEW w \in Workers, NEW pc, goto(w, pc)
  PROVE  \E m : /\ Moves(w, m) /\ DOMAIN m = Fields /\ m.pc = pc
                /\ m.task = worker[w].task
                /\ m.proposal = worker[w].proposal /\ m.rev = worker[w].rev
                /\ m.commit = worker[w].commit /\ m.done = worker[w].done
<1>1. PICK n : n = worker[w]
  OBVIOUS
<1>2. DOMAIN n = Fields
  BY <1>1 DEF IInv, WorkersFit, Fits
<1>3. PICK m : m = [n EXCEPT !.pc = pc]
  OBVIOUS
<1>4. Moves(w, m)
  BY <1>1, <1>3 DEF Moves, goto
<1> QED
  BY <1>1, <1>2, <1>3, <1>4, SMT DEF Fields

(* A worker that goes on to a step that asks for nothing new fits.         *)
LEMMA GoesOn ==
  ASSUME IInv, NEW w \in Workers, NEW pc \in AtWork \ Accepted, goto(w, pc),
         worker[w].pc \in AtWork,
         worker[w].pc \in Cleaning => pc \in Cleaning
  PROVE  \E m : Moves(w, m) /\ Fits(m) /\ m.pc = pc
<1>1. PICK m : /\ Moves(w, m) /\ DOMAIN m = Fields /\ m.pc = pc
               /\ m.task = worker[w].task
               /\ m.proposal = worker[w].proposal /\ m.rev = worker[w].rev
               /\ m.commit = worker[w].commit /\ m.done = worker[w].done
  BY GotoMoves, SMT
<1>2. PICK n : n = worker[w]
  OBVIOUS
<1>3. Fits(n)
  BY <1>2 DEF IInv, WorkersFit
<1>4. n.pc # "idle" /\ pc # "idle"
      /\ pc \notin Built /\ pc \notin {"record", "complete"}
  BY <1>2 DEF AtWork, Accepted, Built, Working, Cleaning
<1>5. Fits(m)
  BY <1>1, <1>2, <1>3, <1>4 DEF Fits
<1> QED
  BY <1>1, <1>5

(* A call starts.                                                          *)
LEMMA CallKept ==
  ASSUME IInv, NEW w \in Workers, NEW t \in Tasks, NEW p \in Proposals,
         Call(w, t, p)
  PROVE  Kept(w)
<1>1. PICK r : r = executionExpectedRevision(t)
  OBVIOUS
<1>2. PICK m : m = [Idle EXCEPT !.pc = "begin", !.task = t, !.proposal = p,
                                !.rev = r]
  OBVIOUS
<1>3. m = [pc |-> "begin", task |-> t, proposal |-> p, rev |-> r,
           commit |-> Nil, created |-> FALSE, done |-> FALSE]
  BY <1>2 DEF Idle
<1>4. Fits(m)
  BY <1>3 DEF Fits, Fields, AtWork, Working, Cleaning, Accepted, Built
<1>5. Moves(w, m) /\ Unseen /\ UNCHANGED slots /\ worker[w].pc = "idle"
  BY <1>1, <1>2, SMT DEF Call, Moves, Unseen, vars, Idle
<1>6. \A k \in Kinds : ~Holds(k, worker[w].pc) /\ ~Holds(k, m.pc)
  BY <1>3, <1>5 DEF Holds, Held, Working
<1>7. Accounts(w, m)
  BY <1>5, <1>6, AccountsNothing
<1> QED
  BY <1>4, <1>5, <1>7, LocalKept

(* A stored result is read, or the call is refused: the caller is done.    *)
LEMMA EndsKept ==
  ASSUME IInv, NEW w \in Workers, Replay(w) \/ BeginRefused(w)
  PROVE  Kept(w)
<1>1. Moves(w, Idle) /\ Unseen /\ UNCHANGED slots /\ worker[w].pc = "begin"
  BY DEF Replay, BeginRefused, Unseen, vars, Moves, at
<1>2. \A k \in Kinds : ~Holds(k, worker[w].pc)
  BY <1>1 DEF Holds, Held, Working
<1> QED
  BY <1>1, <1>2, StopKept

-----------------------------------------------------------------------------
(* Capacity.                                                               *)

(* A place of a semaphore is taken where there is one.                     *)
LEMMA AcquireAccounts ==
  ASSUME IInv, NEW w \in Workers, NEW m, NEW k \in Kinds,
         slots[Home[w]][k] < Cap(k), slots' = acquired(w, k),
         ~Holds(k, worker[w].pc), Holds(k, m.pc),
         \A j \in Kinds \ {k} : Holds(j, worker[w].pc) <=> Holds(j, m.pc)
  PROVE  Accounts(w, m)
<1>1. slots \in [Processes -> [Kinds -> Nat]] /\ Home[w] \in Processes
  BY HomeAssumption DEF IInv, SlotsFit
<1>2. PICK q \in Processes : q = Home[w]
  BY <1>1
<1>3. slots' = [slots EXCEPT ![q] = [slots[q] EXCEPT ![k] = @ + 1]]
  BY <1>2 DEF acquired
<1>4. \A p \in Processes :
        slots'[p] = IF p = q THEN [slots[q] EXCEPT ![k] = @ + 1] ELSE slots[p]
  BY <1>1, <1>3
<1>5. slots' \in [Processes -> [Kinds -> Int]]
  BY <1>1, <1>3, SMT
<1>6. \A j \in Kinds :
        slots'[q][j] = IF j = k THEN slots[q][k] + 1 ELSE slots[q][j]
  BY <1>1, <1>4
<1>7. \A j \in Kinds : slots[q][j] \in Nat /\ slots[q][j] <= Cap(j)
                       /\ Cap(j) \in Nat
  BY ExecutionAssumption DEF IInv, SlotsFit, Cap
<1>8. \A j \in Kinds :
        slots'[q][j] = slots[q][j] + Count(j, m.pc) - Count(j, worker[w].pc)
  BY <1>6, <1>7, SMT DEF Count
<1>9. \A j \in Kinds : slots'[q][j] <= Cap(j)
  BY <1>2, <1>6, <1>7, SMT
<1> QED
  BY <1>2, <1>4, <1>5, <1>8, <1>9 DEF Accounts

(* Places are given back by a worker that held them.                       *)
LEMMA ReleaseAccounts ==
  ASSUME IInv, NEW w \in Workers, NEW m, NEW K, slots' = released(w, K),
         \A j \in Kinds : /\ Holds(j, worker[w].pc) <=> j \in K
                          /\ ~Holds(j, m.pc)
  PROVE  Accounts(w, m)
<1>1. slots \in [Processes -> [Kinds -> Nat]] /\ Home[w] \in Processes
  BY HomeAssumption DEF IInv, SlotsFit
<1>2. PICK q \in Processes : q = Home[w]
  BY <1>1
<1>3. PICK f : f = [j \in Kinds |->
                      IF j \in K THEN slots[q][j] - 1 ELSE slots[q][j]]
  OBVIOUS
<1>4. slots' = [slots EXCEPT ![q] = f]
  BY <1>1, <1>2, <1>3 DEF released
<1>5. f \in [Kinds -> Int]
  BY <1>1, <1>3, SMT
<1>6. /\ slots' \in [Processes -> [Kinds -> Int]]
      /\ \A p \in Processes : slots'[p] = IF p = q THEN f ELSE slots[p]
  BY <1>1, <1>4, <1>5, SMT
<1>7. \A j \in Kinds : slots[q][j] \in Nat /\ slots[q][j] <= Cap(j)
                       /\ Cap(j) \in Nat
  BY ExecutionAssumption DEF IInv, SlotsFit, Cap
<1>8. \A j \in Kinds :
        /\ f[j] = slots[q][j] + Count(j, m.pc) - Count(j, worker[w].pc)
        /\ f[j] <= Cap(j)
  BY <1>3, <1>7, SMT DEF Count
<1> QED
  BY <1>2, <1>6, <1>8 DEF Accounts

(* A worker waits for the one semaphore and then for the other.            *)
LEMMA AcquireKept ==
  ASSUME IInv, NEW w \in Workers, AcquireExecution(w) \/ AcquireWorktree(w)
  PROVE  Kept(w)
<1>1. CASE AcquireExecution(w)
  <2>1. /\ worker[w].pc = "capacity" /\ goto(w, "worktree-slot") /\ Unseen
        /\ slots[Home[w]]["executions"] < Cap("executions")
        /\ slots' = acquired(w, "executions")
    BY <1>1 DEF AcquireExecution, at, Unseen, vars, Cap
  <2>2. PICK m : Moves(w, m) /\ Fits(m) /\ m.pc = "worktree-slot"
    BY <2>1, GoesOn DEF AtWork, Accepted, Cleaning
  <2>3. Accounts(w, m)
    BY <2>1, <2>2, AcquireAccounts DEF Kinds, Holds, Held, Working
  <2> QED
    BY <2>1, <2>2, <2>3, LocalKept
<1>2. CASE AcquireWorktree(w)
  <2>1. /\ worker[w].pc = "worktree-slot" /\ goto(w, "worktree") /\ Unseen
        /\ slots[Home[w]]["worktrees"] < Cap("worktrees")
        /\ slots' = acquired(w, "worktrees")
    BY <1>2 DEF AcquireWorktree, at, Unseen, vars, Cap
  <2>2. PICK m : Moves(w, m) /\ Fits(m) /\ m.pc = "worktree"
    BY <2>1, GoesOn DEF AtWork, Accepted, Cleaning, Working
  <2>3. Accounts(w, m)
    BY <2>1, <2>2, AcquireAccounts DEF Kinds, Holds, Held, Working
  <2> QED
    BY <2>1, <2>2, <2>3, LocalKept
<1> QED
  BY <1>1, <1>2

(* A wait that is given up, and the end of the clean-up, leak no place.    *)
LEMMA ReleaseKept ==
  ASSUME IInv, NEW w \in Workers, AcquireCancelled(w) \/ ReleaseCapacity(w)
  PROVE  Kept(w)
<1>1. /\ worker[w].pc \in {"capacity", "worktree-slot", "release"}
      /\ goto(w, "abandon") /\ Unseen
  BY DEF AcquireCancelled, ReleaseCapacity, at, Unseen, vars
<1>2. PICK m : Moves(w, m) /\ Fits(m) /\ m.pc = "abandon"
  BY <1>1, GoesOn DEF AtWork, Accepted, Cleaning
<1>3. \A k \in Kinds : ~Holds(k, m.pc)
  BY <1>2 DEF Holds, Held, Working
<1>4. CASE worker[w].pc = "capacity"
  <2>1. UNCHANGED slots /\ \A k \in Kinds : ~Holds(k, worker[w].pc)
    BY <1>4 DEF AcquireCancelled, ReleaseCapacity, at, Holds, Held, Working
  <2>2. Accounts(w, m)
    BY <1>3, <2>1, AccountsNothing
  <2> QED
    BY <1>1, <1>2, <2>2, LocalKept
<1>5. CASE worker[w].pc = "worktree-slot"
  <2>1. slots' = released(w, {"executions"})
    BY <1>5 DEF AcquireCancelled, ReleaseCapacity, at
  <2>2. \A k \in Kinds : Holds(k, worker[w].pc) <=> k \in {"executions"}
    BY <1>5 DEF Holds, Held, Working
  <2>3. Accounts(w, m)
    BY <1>3, <2>1, <2>2, ReleaseAccounts
  <2> QED
    BY <1>1, <1>2, <2>3, LocalKept
<1>6. CASE worker[w].pc = "release"
  <2>1. slots' = released(w, {"executions", "worktrees"})
    BY <1>6 DEF AcquireCancelled, ReleaseCapacity, at
  <2>2. \A k \in Kinds :
          Holds(k, worker[w].pc) <=> k \in {"executions", "worktrees"}
    BY <1>6 DEF Holds, Held, Kinds
  <2>3. Accounts(w, m)
    BY <1>3, <2>1, <2>2, ReleaseAccounts
  <2> QED
    BY <1>1, <1>2, <2>3, LocalKept
<1> QED
  BY <1>1, <1>4, <1>5, <1>6

-----------------------------------------------------------------------------
(* Worktrees and the candidate ref.                                        *)

(* Steps between two others that hold both places.                         *)
LEMMA AccountsHeld ==
  ASSUME IInv, NEW w \in Workers, NEW m, UNCHANGED slots,
         worker[w].pc \in Held, m.pc \in Held
  PROVE  Accounts(w, m)
BY AccountsNothing DEF Holds

(* A step that only changes what is at the path of a worktree.             *)
LEMMA TreesKept ==
  ASSUME IInv, NEW w \in Workers, NEW m, Moves(w, m), Fits(m),
         worker[w].pc \in Held, m.pc \in Held,
         NEW t \in Tasks, NEW c \in Proposals \cup {NoTree, Base, Partial},
         trees' = [trees EXCEPT ![t] = c],
         UNCHANGED <<task, commands, ledger, refs, clock, slots>>
  PROVE  Kept(w)
<1>1. Grows
  BY DEF Grows
<1>2. Fits(m)' /\ Accounts(w, m)
  BY <1>1, FitsGrows, AccountsHeld
<1>3. Shaped'
  BY DEF IInv, StoresFit, Shaped
<1>4. ASSUME NEW u \in Tasks PROVE (RowFits(u) /\ TaskFits(u) /\ PlaceFits(u))'
  <2>1. trees'[u] = c \/ trees'[u] = trees[u]
    BY DEF IInv, StoresFit, Shaped
  <2>2. PlaceFits(u)'
    BY <2>1 DEF IInv, StoresFit, PlaceFits, proposed
  <2> QED
    BY <1>1, <2>2, RowsKept, TasksKept
<1> QED
  BY <1>1, <1>2, <1>3, <1>4, WritesKept DEF StoresFit

(* The execution a worker is at.                                           *)
LEMMA MyTask ==
  ASSUME IInv, NEW w \in Workers, worker[w].pc # "idle"
  PROVE  my(w) \in Tasks /\ worker[w].proposal \in Proposals
BY DEF IInv, WorkersFit, Fits, my

(* A worktree is made, removed, or left half-written by a failed step.     *)
LEMMA WorktreeKept ==
  ASSUME IInv, NEW w \in Workers, CreateWorktree(w) \/ RemoveWorktree(w)
  PROVE  Kept(w)
<1>1. CASE CreateWorktree(w)
  <2>1. /\ worker[w].pc = "worktree" /\ goto(w, "accept")
        /\ trees' = [trees EXCEPT ![my(w)] = Base]
        /\ UNCHANGED <<task, commands, ledger, refs, clock, slots>>
    BY <1>1 DEF CreateWorktree, at, vars
  <2>2. PICK m : Moves(w, m) /\ Fits(m) /\ m.pc = "accept"
    BY <2>1, GoesOn DEF AtWork, Accepted, Cleaning, Working
  <2>3. worker[w].pc \in Held /\ m.pc \in Held /\ my(w) \in Tasks
    BY <2>1, <2>2, MyTask DEF Held, Working
  <2> QED
    BY <2>1, <2>2, <2>3, TreesKept
<1>2. CASE RemoveWorktree(w)
  <2>1. /\ worker[w].pc = "clean-worktree" /\ goto(w, "release")
        /\ trees' = [trees EXCEPT ![my(w)] = NoTree]
        /\ UNCHANGED <<task, commands, ledger, refs, clock, slots>>
    BY <1>2 DEF RemoveWorktree, at, vars
  <2>2. PICK m : Moves(w, m) /\ Fits(m) /\ m.pc = "release"
    BY <2>1, GoesOn DEF AtWork, Accepted, Cleaning, Working
  <2>3. worker[w].pc \in Held /\ m.pc \in Held /\ my(w) \in Tasks
    BY <2>1, <2>2, MyTask DEF Held
  <2> QED
    BY <2>1, <2>2, <2>3, TreesKept
<1> QED
  BY <1>1, <1>2

(* A step that fails goes to the clean-up.                                 *)
LEMMA CleansKept ==
  ASSUME IInv, NEW w \in Workers, worker[w].pc \in Working,
         goto(w, "clean-ref"), Unseen, UNCHANGED slots
  PROVE  Kept(w)
<1>1. PICK m : Moves(w, m) /\ Fits(m) /\ m.pc = "clean-ref"
  BY GoesOn DEF AtWork, Accepted, Cleaning
<1>2. Accounts(w, m)
  BY <1>1, AccountsHeld DEF Held
<1> QED
  BY <1>1, <1>2, LocalKept

(* The worker container writes the proposal into the worktree.             *)
LEMMA ApplyKept ==
  ASSUME IInv, NEW w \in Workers, Apply(w)
  PROVE  Kept(w)
<1>1. /\ worker[w].pc = "apply"
      /\ UNCHANGED <<task, commands, ledger, refs, clock, slots>>
  BY DEF Apply, at, vars
<1>2. CASE trees[my(w)] = Base
  <2>1. /\ goto(w, "build")
        /\ trees' = [trees EXCEPT ![my(w)] = worker[w].proposal]
    BY <1>2 DEF Apply
  <2>2. PICK m : /\ Moves(w, m) /\ DOMAIN m = Fields /\ m.pc = "build"
                 /\ m.task = worker[w].task
                 /\ m.proposal = worker[w].proposal /\ m.rev = worker[w].rev
                 /\ m.commit = worker[w].commit /\ m.done = worker[w].done
    BY <2>1, GotoMoves, SMT
  <2>3. PICK n : n = worker[w]
    OBVIOUS
  <2>4. Fits(n) /\ n.pc = "apply"
    BY <1>1, <2>3 DEF IInv, WorkersFit
  <2>5. Fits(m)
    BY <2>2, <2>3, <2>4
    DEF Fits, AtWork, Working, Accepted, Built, Cleaning
  <2>6. /\ my(w) \in Tasks /\ worker[w].proposal \in Proposals
        /\ worker[w].pc \in Held /\ m.pc \in Held
    BY <1>1, <2>2, MyTask DEF Held, Working
  <2> QED
    BY <1>1, <2>1, <2>2, <2>5, <2>6, TreesKept
<1>3. CASE trees[my(w)] # Base
  <2>1. goto(w, "clean-ref") /\ Unseen /\ worker[w].pc \in Working
    BY <1>1, <1>3 DEF Apply, Unseen, Working
  <2> QED
    BY <1>1, <2>1, CleansKept
<1> QED
  BY <1>2, <1>3

(* A candidate gets on only if the worktree holds the worker's proposal,   *)
(* whoever wrote it.                                                       *)
LEMMA BuildCandidateKept ==
  ASSUME IInv, NEW w \in Workers, BuildCandidate(w)
  PROVE  Kept(w)
<1>1. PICK n : n = worker[w]
  OBVIOUS
<1>2. PICK c : c = commitOf(trees[my(w)])
  OBVIOUS
<1>3. PICK pc : pc = CASE buildable(w) /\ refs[my(w)] = Nil -> "create-ref"
                      [] buildable(w) /\ refs[my(w)] = c -> "final-time"
                      [] OTHER -> "clean-ref"
  OBVIOUS
<1>4. worker' = [worker EXCEPT ![w].pc = pc, ![w].commit = c]
  BY <1>2, <1>3 DEF BuildCandidate
<1>5. /\ pc \in {"clean-ref", "create-ref", "final-time"}
      /\ pc # "clean-ref" => c = n.proposal
  <2>1. buildable(w) => c = n.proposal
    BY <1>1, <1>2 DEF buildable, commitOf
  <2> QED
    BY <1>3, <2>1
<1>6. Fits(n) /\ n.pc = "build" /\ Unseen /\ UNCHANGED slots
  BY <1>1 DEF IInv, WorkersFit, BuildCandidate, at, Unseen, vars
<1>7. DOMAIN n = Fields /\ ~n.done
  BY <1>6 DEF Fits, Cleaning
<1>8. PICK m : m = [n EXCEPT !.pc = pc, !.commit = c]
  OBVIOUS
<1>9. /\ DOMAIN m = Fields /\ m.pc = pc /\ m.commit = c /\ m.task = n.task
      /\ m.proposal = n.proposal /\ m.rev = n.rev /\ m.done = n.done
  BY <1>7, <1>8 DEF Fields
<1>10. Fits(m)
  BY <1>5, <1>6, <1>7, <1>9
  DEF Fits, AtWork, Working, Cleaning, Accepted, Built
<1>11. Moves(w, m)
  BY <1>1, <1>4, <1>8 DEF Moves, IInv, WorkersFit
<1>12. Accounts(w, m)
  BY <1>1, <1>5, <1>6, <1>9, AccountsHeld DEF Held, Working
<1> QED
  BY <1>6, <1>10, <1>11, <1>12, LocalKept

(* A step that only changes a candidate ref.                               *)
LEMMA RefsKept ==
  ASSUME IInv, NEW w \in Workers, NEW m, Moves(w, m), Fits(m),
         worker[w].pc \in Held, m.pc \in Held,
         NEW t \in Tasks, NEW c, refs' = [refs EXCEPT ![t] = c],
         \/ c = Nil
         \/ c \in Commits /\ task[t].proposal # Nil /\ c = proposed(t),
         UNCHANGED <<task, commands, ledger, trees, clock, slots>>
  PROVE  Kept(w)
<1>1. Grows
  BY DEF Grows
<1>2. Fits(m)' /\ Accounts(w, m)
  BY <1>1, FitsGrows, AccountsHeld
<1>3. Shaped'
  BY DEF IInv, StoresFit, Shaped, OptCommit
<1>4. ASSUME NEW u \in Tasks PROVE (RowFits(u) /\ TaskFits(u) /\ PlaceFits(u))'
  <2>1. refs'[u] = IF u = t THEN c ELSE refs[u]
    BY DEF IInv, StoresFit, Shaped
  <2>2. PlaceFits(u)'
    BY <2>1 DEF IInv, StoresFit, PlaceFits, proposed
  <2> QED
    BY <1>1, <2>2, RowsKept, TasksKept
<1> QED
  BY <1>1, <1>2, <1>3, <1>4, WritesKept DEF StoresFit

(* The candidate ref is created, or somebody was first.                    *)
LEMMA CreateRefKept ==
  ASSUME IInv, NEW w \in Workers, CreateRef(w)
  PROVE  Kept(w)
<1>1. /\ worker[w].pc = "create-ref"
      /\ UNCHANGED <<task, commands, ledger, trees, clock, slots>>
  BY DEF CreateRef, at, vars
<1>2. CASE refs[my(w)] = Nil
  <2>1. PICK n, t, c : n = worker[w] /\ t = my(w) /\ c = n.commit
    OBVIOUS
  <2>2. Fits(n) /\ n.pc = "create-ref" /\ n.task = t
    BY <1>1, <2>1 DEF IInv, WorkersFit, my
  <2>3. /\ DOMAIN n = Fields /\ t \in Tasks /\ n.proposal \in Proposals
        /\ c = n.proposal /\ task[t].proposal # Nil /\ ~n.done
        /\ ledger[t].digest = <<t, n.proposal, n.rev>>
    BY <2>1, <2>2 DEF Fits, AtWork, Working, Accepted, Built, Cleaning
  <2>4. c = proposed(t) /\ c \in Commits
    BY <2>3, ExecutionAssumption, SMT DEF proposed, commitOf
  <2>5. PICK m : m = [n EXCEPT !.pc = "final-time", !.created = TRUE]
    OBVIOUS
  <2>6. /\ DOMAIN m = Fields /\ m.pc = "final-time" /\ m.commit = c
        /\ m.task = t /\ m.proposal = n.proposal /\ m.rev = n.rev
        /\ m.done = n.done
    BY <2>1, <2>2, <2>3, <2>5 DEF Fields
  <2>7. Fits(m)
    BY <2>2, <2>3, <2>6 DEF Fits, AtWork, Working, Accepted, Built
  <2>8. Moves(w, m)
    BY <1>2, <2>1, <2>5 DEF CreateRef, Moves, IInv, WorkersFit
  <2>9. refs' = [refs EXCEPT ![t] = c]
    BY <1>2, <2>1 DEF CreateRef
  <2>10. worker[w].pc \in Held /\ m.pc \in Held
    BY <1>1, <2>6 DEF Held, Working
  <2> QED
    BY <1>1, <2>3, <2>4, <2>7, <2>8, <2>9, <2>10, RefsKept
<1>3. CASE refs[my(w)] # Nil
  <2>1. goto(w, "clean-ref") /\ Unseen /\ worker[w].pc \in Working
    BY <1>1, <1>3 DEF CreateRef, Unseen, Working
  <2> QED
    BY <1>1, <2>1, CleansKept
<1> QED
  BY <1>2, <1>3

(* The clean-up deletes a ref, or leaves it.                               *)
LEMMA DeleteCandidateRefKept ==
  ASSUME IInv, NEW w \in Workers, DeleteCandidateRef(w)
  PROVE  Kept(w)
<1>1. /\ worker[w].pc = "clean-ref" /\ goto(w, "clean-worktree")
      /\ UNCHANGED <<task, commands, ledger, trees, clock, slots>>
      /\ refs' = [refs EXCEPT ![my(w)] = Nil] \/ UNCHANGED refs
  BY DEF DeleteCandidateRef, at, vars
<1>2. PICK m : Moves(w, m) /\ Fits(m) /\ m.pc = "clean-worktree"
  BY <1>1, GoesOn DEF AtWork, Accepted, Cleaning
<1>3. worker[w].pc \in Held /\ m.pc \in Held /\ my(w) \in Tasks
  BY <1>1, <1>2, MyTask DEF Held
<1>4. CASE refs' = [refs EXCEPT ![my(w)] = Nil]
  BY <1>1, <1>2, <1>3, <1>4, RefsKept
<1>5. CASE UNCHANGED refs
  <2>1. Unseen /\ Accounts(w, m)
    BY <1>1, <1>3, <1>5, AccountsHeld DEF Unseen
  <2> QED
    BY <1>2, <2>1, LocalKept
<1> QED
  BY <1>1, <1>4, <1>5

-----------------------------------------------------------------------------
(* Steps that write the ledger.                                            *)

(* What a row of the ledger may become.                                    *)
RowGrows(t, r) ==
  /\ ledger[t].state # "NONE" =>
       r.state # "NONE" /\ r.digest = ledger[t].digest
  /\ ledger[t].final # Nil => r.final # Nil
  /\ ledger[t].state = "completed" =>
       r.state = "completed" /\ r.result = ledger[t].result

(* A step of a worker that writes one row, and no other store.             *)
LEMMA RowGrowsAll ==
  ASSUME IInv, NEW t \in Tasks, NEW r, ledger' = [ledger EXCEPT ![t] = r],
         RowGrows(t, r), UNCHANGED task
  PROVE  Grows
<1>1. \A u \in Tasks : ledger'[u] = IF u = t THEN r ELSE ledger[u]
  BY DEF IInv, StoresFit, Shaped
<1> QED
  BY <1>1 DEF Grows, RowGrows

(* The stores fit when the row does.                                       *)
LEMMA LedgerKept ==
  ASSUME IInv, NEW t \in Tasks, NEW r, ledger' = [ledger EXCEPT ![t] = r],
         RowGrows(t, r), RowFits(t)',
         UNCHANGED <<task, commands, refs, trees, clock>>
  PROVE  StoresFit'
<1>1. Grows
  BY RowGrowsAll
<1>2. Shaped'
  BY DEF IInv, StoresFit, Shaped
<1>3. ASSUME NEW u \in Tasks PROVE (RowFits(u) /\ TaskFits(u) /\ PlaceFits(u))'
  <2>1. RowFits(u)'
    <3>1. CASE u = t
      BY <3>1
    <3>2. CASE u # t
      <4>1. ledger'[u] = ledger[u]
        BY <3>2 DEF IInv, StoresFit, Shaped
      <4> QED
        BY <4>1 DEF IInv, StoresFit, RowFits, proposed
    <3> QED
      BY <3>1, <3>2
  <2> QED
    BY <1>1, <2>1, TasksKept, PlacesKept
<1> QED
  BY <1>2, <1>3 DEF StoresFit

(* A row is reserved, by the first call or by the next for the same        *)
(* request.                                                                *)
LEMMA ReserveKept ==
  ASSUME IInv, NEW w \in Workers, Reserve(w)
  PROVE  Kept(w)
<1>1. PICK n, t, o : n = worker[w] /\ t = my(w) /\ o = ledger[t]
  OBVIOUS
<1>2. PICK d : d = <<t, n.proposal, n.rev>>
  OBVIOUS
<1>3. PICK r : r = [o EXCEPT !.state = "reserved", !.owner = w,
                             !.expired = FALSE, !.digest = d]
  OBVIOUS
<1>4. /\ worker[w].pc = "begin" /\ mayReserve(w) /\ goto(w, "capacity")
      /\ ledger' = [ledger EXCEPT ![t] = r]
      /\ UNCHANGED <<task, commands, refs, trees, clock, slots>>
  BY <1>1, <1>2, <1>3 DEF Reserve, executionRequestDigest, at, vars
<1>5. Fits(n) /\ n.task = t /\ t \in Tasks /\ n.proposal \in Proposals
  BY <1>1, <1>4, MyTask DEF IInv, WorkersFit, my
<1>6. RowFits(t)
  BY <1>5 DEF IInv, StoresFit
<1>7. /\ DOMAIN r = DOMAIN o /\ r.state = "reserved" /\ r.owner = w
      /\ r.digest = d /\ r.final = o.final /\ r.result = o.result
  BY <1>1, <1>3, <1>6 DEF RowFits
<1>8. \/ o.state = "NONE"
      \/ o.state = "reserved" /\ o.digest = d
  BY <1>1, <1>2, <1>4 DEF mayReserve, executionRequestDigest
<1>9. ledger'[t] = r
  BY <1>4, <1>5 DEF IInv, StoresFit, Shaped
<1>10. RowGrows(t, r)
  BY <1>1, <1>7, <1>8 DEF RowGrows
<1>11. RowFits(t)'
  <2>1. d[2] = n.proposal
    BY <1>2
  <2> QED
    BY <1>1, <1>5, <1>6, <1>7, <1>8, <1>9, <2>1 DEF RowFits, proposed
<1>12. Grows /\ StoresFit'
  BY <1>4, <1>5, <1>10, <1>11, RowGrowsAll, LedgerKept
<1>13. PICK m : /\ Moves(w, m) /\ DOMAIN m = Fields /\ m.pc = "capacity"
                /\ m.task = worker[w].task
                /\ m.proposal = worker[w].proposal /\ m.rev = worker[w].rev
                /\ m.commit = worker[w].commit /\ m.done = worker[w].done
  BY <1>4, GotoMoves, SMT
<1>14. Fits(m)'
  <2>1. ~n.done /\ n.done \in BOOLEAN
    BY <1>1, <1>4, <1>5 DEF Fits, Cleaning
  <2> QED
    BY <1>1, <1>2, <1>5, <1>7, <1>9, <1>13, <2>1, SMT
    DEF Fits, AtWork, Accepted, Built
<1>15. \A k \in Kinds : ~Holds(k, worker[w].pc) /\ ~Holds(k, m.pc)
  BY <1>4, <1>13 DEF Holds, Held, Working
<1>16. Accounts(w, m)
  BY <1>4, <1>15, AccountsNothing
<1> QED
  BY <1>12, <1>13, <1>14, <1>16, WritesKept

(* The time of the transition is set once, by the holder.                  *)
LEMMA FinalTransitionTimeKept ==
  ASSUME IInv, NEW w \in Workers, FinalTransitionTime(w)
  PROVE  Kept(w)
<1>1. /\ worker[w].pc = "final-time"
      /\ UNCHANGED <<task, commands, refs, trees, clock, slots>>
  BY DEF FinalTransitionTime, at, vars
<1>2. CASE holds(w)
  <2>1. PICK n, t, o, f :
          n = worker[w] /\ t = my(w) /\ o = ledger[t] /\ f = finalTime(w)
    OBVIOUS
  <2>2. PICK r : r = [o EXCEPT !.final = f]
    OBVIOUS
  <2>3. goto(w, "record") /\ ledger' = [ledger EXCEPT ![t] = r]
    BY <1>2, <2>1, <2>2 DEF FinalTransitionTime
  <2>4. Fits(n) /\ n.task = t /\ t \in Tasks
    BY <1>1, <2>1, MyTask DEF IInv, WorkersFit, my
  <2>5. RowFits(t) /\ clock \in Times
    BY <2>4 DEF IInv, StoresFit, Shaped
  <2>6. f \in Times /\ f # Nil
    BY <2>1, <2>5, ExecutionAssumption DEF RowFits, finalTime
  <2>7. /\ DOMAIN r = DOMAIN o /\ r.state = o.state /\ r.owner = o.owner
        /\ r.digest = o.digest /\ r.final = f /\ r.result = o.result
    BY <2>1, <2>2, <2>5 DEF RowFits
  <2>8. ledger'[t] = r
    BY <2>3, <2>4 DEF IInv, StoresFit, Shaped
  <2>9. RowGrows(t, r)
    BY <2>1, <2>6, <2>7 DEF RowGrows
  <2>10. RowFits(t)'
    BY <1>1, <2>1, <2>5, <2>6, <2>7, <2>8 DEF RowFits, proposed
  <2>11. Grows /\ StoresFit'
    BY <1>1, <2>3, <2>4, <2>9, <2>10, RowGrowsAll, LedgerKept
  <2>12. PICK m : /\ Moves(w, m) /\ DOMAIN m = Fields /\ m.pc = "record"
                  /\ m.task = worker[w].task
                  /\ m.proposal = worker[w].proposal /\ m.rev = worker[w].rev
                  /\ m.commit = worker[w].commit /\ m.done = worker[w].done
    BY <2>3, GotoMoves, SMT
  <2>13. Fits(n)' /\ n.pc = "final-time"
    BY <1>1, <2>1, <2>4, <2>11, FitsGrows
  <2>14. Fits(m)'
    BY <2>1, <2>4, <2>6, <2>7, <2>8, <2>12, <2>13, ZenonT(30)
    DEF Fits, AtWork, Working, Cleaning, Accepted, Built
  <2>15. Accounts(w, m)
    BY <1>1, <2>12, AccountsHeld DEF Held, Working
  <2> QED
    BY <2>11, <2>12, <2>14, <2>15, WritesKept
<1>3. CASE ~holds(w)
  <2>1. goto(w, "clean-ref") /\ Unseen /\ worker[w].pc \in Working
    BY <1>1, <1>3 DEF FinalTransitionTime, Unseen, Working
  <2> QED
    BY <1>1, <2>1, CleansKept
<1> QED
  BY <1>2, <1>3

(* The holder stores the candidate that the workflow has, and whoever has  *)
(* lost the reservation goes to the clean-up.                              *)
LEMMA CompleteKept ==
  ASSUME IInv, NEW w \in Workers, Complete(w)
  PROVE  Kept(w)
<1>1. PICK n, t, o, c, h :
        /\ n = worker[w] /\ t = my(w) /\ o = ledger[t] /\ c = n.commit
        /\ h = holds(w)
  OBVIOUS
<1>2. /\ n.pc = "complete" /\ worker' = completed(w, h)
      /\ UNCHANGED <<task, commands, refs, trees, clock, slots>>
  BY <1>1 DEF Complete, at, vars
<1>3. Fits(n) /\ n.task = t /\ t \in Tasks /\ DOMAIN n = Fields
  BY <1>1, <1>2, MyTask DEF IInv, WorkersFit, my, Fits
<1>4. PICK m : m = [n EXCEPT !.pc = "clean-ref", !.created = FALSE, !.done = h]
  OBVIOUS
<1>5. /\ DOMAIN m = Fields /\ m.pc = "clean-ref" /\ m.commit = c
      /\ m.task = t /\ m.proposal = n.proposal /\ m.rev = n.rev /\ m.done = h
  BY <1>1, <1>3, <1>4 DEF Fields
<1>6. Moves(w, m)
  BY <1>1, <1>2, <1>4 DEF completed, Moves, IInv, WorkersFit
<1>7. Accounts(w, m)
  BY <1>1, <1>2, <1>5, AccountsHeld DEF Held, Working
<1>8. CASE ~h
  <2>1. UNCHANGED ledger
    BY <1>1, <1>8 DEF Complete
  <2>2. h = FALSE
    BY <1>1, <1>8 DEF holds
  <2>3. Unseen
    BY <1>2, <2>1 DEF Unseen
  <2>4. Fits(m)
    BY <1>2, <1>3, <1>5, <2>2
    DEF Fits, AtWork, Working, Cleaning, Accepted, Built
  <2> QED
    BY <1>6, <1>7, <2>3, <2>4, LocalKept
<1>9. CASE h
  <2>1. PICK r : r = [o EXCEPT !.state = "completed", !.result = c]
    OBVIOUS
  <2>2. ledger' = [ledger EXCEPT ![t] = r]
    BY <1>1, <1>9, <2>1 DEF Complete
  <2>3. h = TRUE /\ o.state = "reserved"
    BY <1>1, <1>9 DEF holds
  <2>4. RowFits(t) /\ TaskFits(t)
    BY <1>3 DEF IInv, StoresFit
  <2>5. /\ DOMAIN r = DOMAIN o /\ r.state = "completed" /\ r.owner = o.owner
        /\ r.digest = o.digest /\ r.final = o.final /\ r.result = c
    BY <1>1, <2>1, <2>4 DEF RowFits
  <2>6. ledger'[t] = r
    BY <1>3, <2>2 DEF IInv, StoresFit, Shaped
  <2>7. /\ c = n.proposal /\ o.final # Nil /\ task[t].cand # Nil
        /\ o.digest = <<t, n.proposal, n.rev>>
    BY <1>1, <1>2, <1>3 DEF Fits, AtWork, Working, Built
  <2>8. c = task[t].cand
    BY <1>1, <2>4, <2>7, SMT DEF TaskFits, proposed
  <2>9. RowGrows(t, r)
    BY <1>1, <2>3, <2>5, <2>7 DEF RowGrows
  <2>10. RowFits(t)'
    BY <1>1, <1>2, <2>4, <2>5, <2>6, <2>7, <2>8, <2>3 DEF RowFits, proposed
  <2>11. Grows /\ StoresFit'
    BY <1>2, <1>3, <2>2, <2>9, <2>10, RowGrowsAll, LedgerKept
  <2>12. Fits(n)'
    BY <1>3, <2>11, FitsGrows
  <2>13. Fits(m)'
    BY <1>2, <1>3, <1>5, <2>3, <2>5, <2>6, <2>12
    DEF Fits, AtWork, Working, Cleaning, Accepted, Built
  <2> QED
    BY <1>6, <1>7, <2>11, <2>13, WritesKept
<1> QED
  BY <1>8, <1>9

(* A row whose reservation ends keeps everything else.                     *)
LEMMA ExpiredRow ==
  ASSUME IInv, NEW t \in Tasks, NEW x,
         ledger' = [ledger EXCEPT ![t].expired = x],
         UNCHANGED <<task, commands, refs, trees, clock>>
  PROVE  Grows /\ StoresFit'
<1>1. PICK o, r : o = ledger[t] /\ r = [o EXCEPT !.expired = x]
  OBVIOUS
<1>2. ledger' = [ledger EXCEPT ![t] = r]
  BY <1>1
<1>3. RowFits(t)
  BY DEF IInv, StoresFit
<1>4. /\ DOMAIN r = DOMAIN o /\ r.state = o.state /\ r.owner = o.owner
      /\ r.digest = o.digest /\ r.final = o.final /\ r.result = o.result
  BY <1>1, <1>3 DEF RowFits
<1>5. ledger'[t] = r
  BY <1>2 DEF IInv, StoresFit, Shaped
<1>6. RowGrows(t, r) /\ RowFits(t)'
  BY <1>1, <1>3, <1>4, <1>5 DEF RowGrows, RowFits, proposed
<1> QED
  BY <1>2, <1>6, RowGrowsAll, LedgerKept

(* A call returns; a failed one ends its reservation.                      *)
LEMMA FinishKept ==
  ASSUME IInv, NEW w \in Workers, Finish(w)
  PROVE  Kept(w)
<1>1. /\ worker[w].pc = "abandon" /\ Moves(w, Idle)
      /\ UNCHANGED <<task, commands, refs, trees, clock, slots>>
  BY DEF Finish, at, Moves, vars
<1>2. \A k \in Kinds : ~Holds(k, worker[w].pc) /\ ~Holds(k, Idle.pc)
  BY <1>1 DEF Holds, Held, Working, Idle
<1>3. CASE UNCHANGED ledger
  <2>1. Unseen
    BY <1>1, <1>3 DEF Unseen
  <2> QED
    BY <1>1, <1>2, <2>1, StopKept
<1>4. CASE ledger' = [ledger EXCEPT ![my(w)].expired = @ \/ holds(w)]
  <2>1. PICK t, x : t = my(w) /\ x = (ledger[t].expired \/ holds(w))
    OBVIOUS
  <2>2. ledger' = [ledger EXCEPT ![t].expired = x] /\ t \in Tasks
    BY <1>1, <1>4, <2>1, MyTask
  <2>3. Grows /\ StoresFit'
    BY <1>1, <2>2, ExpiredRow
  <2>4. Accounts(w, Idle)
    BY <1>1, <1>2, AccountsNothing
  <2> QED
    BY <1>1, <2>3, <2>4, IdleFits, WritesKept
<1> QED
  BY <1>3, <1>4 DEF Finish

-----------------------------------------------------------------------------
(* Commands to the workflow.                                               *)

(* What a command that moves a task to a row may have written.             *)
Transition(t, id, to) ==
  /\ task' = [task EXCEPT ![t] = to]
  /\ DOMAIN commands' = DOMAIN commands \cup {id}

(* An applied command writes its own task and its own row.                 *)
LEMMA Persisted ==
  ASSUME IInv, NEW m, NEW d, NEW t \in Tasks, NEW next \in TaskRow,
         persistTaskTransition(m, d, t, next), next.state # "ACCEPTED",
         m.id # Fresh
  PROVE  \E to \in TaskRow :
           /\ Transition(t, m.id, to)
           /\ to.proposal = next.proposal /\ to.cand = next.cand
           /\ to.exec = next.exec
<1>1. PICK to : to = [next EXCEPT !.rev = @ + 1]
  OBVIOUS
<1>2. /\ to \in TaskRow /\ to.proposal = next.proposal
      /\ to.cand = next.cand /\ to.exec = next.exec
  BY <1>1, SMT DEF TaskRow
<1>3. task' = [u \in Tasks |-> IF u = t THEN to ELSE task[u]]
  BY <1>1 DEF persistTaskTransition, finishTaskTransition
<1>4. task' = [task EXCEPT ![t] = to]
  BY <1>3 DEF IInv, StoresFit, Shaped
<1>5. DOMAIN commands' = DOMAIN commands \cup {m.id}
  BY DEF persistTaskTransition, recordCommandResult
<1> QED
  BY <1>2, <1>4, <1>5 DEF Transition

(* What is left to show when a command was applied.                        *)
LEMMA TransitionKept ==
  ASSUME IInv, NEW w \in Workers, NEW m, Moves(w, m), Fits(m)',
         Accounts(w, m),
         NEW t \in Tasks, NEW purpose \in {"accept", "record"}, NEW to,
         Transition(t, <<t, purpose>>, to), TaskFits(t)',
         task[t].proposal # Nil => to.proposal # Nil,
         task[t].cand # Nil => to.cand = task[t].cand,
         UNCHANGED <<ledger, refs, trees, clock>>
  PROVE  Kept(w)
<1>1. \A u \in Tasks : task'[u] = IF u = t THEN to ELSE task[u]
  BY DEF Transition, IInv, StoresFit, Shaped
<1>2. Grows
  BY <1>1 DEF Grows
<1>3. ASSUME NEW u \in Tasks PROVE TaskFits(u)'
  <2>1. CASE u = t
    BY <2>1
  <2>2. CASE u # t
    <3>1. /\ <<u, "accept">> \in DOMAIN commands' =>
               <<u, "accept">> \in DOMAIN commands
          /\ <<u, "record">> \in DOMAIN commands' =>
               <<u, "record">> \in DOMAIN commands
      BY <2>2 DEF Transition
    <3>2. task'[u] = task[u]
      BY <1>1, <2>2
    <3> QED
      BY <3>1, <3>2 DEF IInv, StoresFit, TaskFits, proposed
  <2> QED
    BY <2>1, <2>2
<1>4. Shaped'
  <2>1. \A u \in Tasks : task'[u] \in TaskRow
    BY <1>3 DEF TaskFits
  <2>2. task' \in [Tasks -> TaskRow]
    BY <2>1 DEF Transition, IInv, StoresFit, Shaped
  <2> QED
    BY <2>2 DEF IInv, StoresFit, Shaped
<1>5. StoresFit'
  BY <1>2, <1>3, <1>4, RowsKept, PlacesKept DEF StoresFit
<1> QED
  BY <1>2, <1>5, WritesKept

(* A command that was applied before.                                      *)
LEMMA Replayed ==
  ASSUME NEW m, NEW d, loadCommandResult(m, d) = "replay"
  PROVE  m.id \in DOMAIN commands
BY DEF loadCommandResult

(* The IDs of this service are not the ones used once.                     *)
LEMMA OwnIDs ==
  ASSUME NEW t \in Tasks
  PROVE  <<t, "accept">> # Fresh /\ <<t, "record">> # Fresh
BY ExecutionAssumption, FreshAssumption

(* A worker that has seen its proposal accepted goes on to apply it.       *)
LEMMA AppliesNext ==
  ASSUME IInv, NEW w \in Workers, worker[w].pc = "accept", goto(w, "apply"),
         Grows, task'[my(w)].proposal # Nil
  PROVE  \E m : Moves(w, m) /\ Fits(m)' /\ m.pc = "apply"
<1>1. PICK m : /\ Moves(w, m) /\ DOMAIN m = Fields /\ m.pc = "apply"
               /\ m.task = worker[w].task
               /\ m.proposal = worker[w].proposal /\ m.rev = worker[w].rev
               /\ m.commit = worker[w].commit /\ m.done = worker[w].done
  BY GotoMoves, SMT
<1>2. PICK n : n = worker[w]
  OBVIOUS
<1>3. Fits(n) /\ Fits(n)' /\ n.pc = "accept"
  BY <1>2, FitsGrows DEF IInv, WorkersFit
<1>4. Fits(m)'
  BY <1>1, <1>2, <1>3
  DEF Fits, AtWork, Working, Cleaning, Accepted, Built, my
<1> QED
  BY <1>1, <1>4

(* The proposal of the worker becomes the proposal of the task.            *)
LEMMA AcceptApplied ==
  ASSUME IInv, NEW w \in Workers, worker[w].pc = "accept", goto(w, "apply"),
         NEW e, e.id = <<my(w), "accept">>,
         acceptTaskProposal(e, my(w), leaseOf(my(w)),
                            ProposalRef(worker[w].proposal)),
         UNCHANGED <<ledger, refs, trees, slots, clock>>
  PROVE  Kept(w)
<1>1. PICK n, t, row, p :
        /\ n = worker[w] /\ t = my(w) /\ row = task[t]
        /\ p = ProposalRef(n.proposal)
  OBVIOUS
<1>2. Fits(n) /\ n.pc = "accept" /\ n.task = t
  BY <1>1 DEF IInv, WorkersFit, my
<1>3. /\ t \in Tasks /\ n.proposal \in Proposals /\ ledger[t].state # "NONE"
      /\ ledger[t].digest = <<t, n.proposal, n.rev>>
  BY <1>2 DEF Fits, AtWork, Working
<1>4. TaskFits(t) /\ row \in TaskRow
  BY <1>1, <1>3 DEF IInv, StoresFit, TaskFits
<1>5. PICK b : b = [ref |-> p, attempt |-> row.attempt, commit |-> Nil,
                    passed |-> TRUE]
  OBVIOUS
<1>6. b \in Binding /\ b # Nil /\ b.ref = p
  <2>1. p \in Artifacts
    BY <1>1, <1>3, ExecutionAssumption
  <2>2. row.attempt \in Nat
    BY <1>4 DEF TaskRow
  <2>3. b \in Binding
    BY <1>5, <2>1, <2>2 DEF Binding
  <2> QED
    BY <1>5, <2>3, BindingAssumption
<1>7. PICK next : next = [row EXCEPT !.state = "EXECUTING", !.proposal = b]
  OBVIOUS
<1>8. /\ next \in TaskRow /\ next.state = "EXECUTING" /\ next.proposal = b
      /\ next.cand = row.cand /\ next.exec = row.exec
  <2>1. "EXECUTING" \in TaskStates /\ b \in OptBinding
    BY <1>6 DEF TaskStates, OptBinding
  <2> QED
    BY <1>4, <1>7, <2>1 DEF TaskRow
<1>9. PICK d : persistTaskTransition(e, d, t, next)
  BY <1>1, <1>5, <1>7 DEF acceptTaskProposal, bound
<1>10. e.id = <<t, "accept">> /\ e.id # Fresh
  BY <1>1, <1>3, OwnIDs
<1>11. PICK to \in TaskRow :
         /\ Transition(t, <<t, "accept">>, to)
         /\ to.proposal = b /\ to.cand = row.cand /\ to.exec = row.exec
  <2>1. next.state # "ACCEPTED"
    BY <1>8
  <2> QED
    BY <1>3, <1>8, <1>9, <1>10, <2>1, Persisted, SMT
<1>12. task'[t] = to
       /\ (<<t, "record">> \in DOMAIN commands' =>
             <<t, "record">> \in DOMAIN commands)
  BY <1>3, <1>11 DEF Transition, IInv, StoresFit, Shaped
<1>13. proposed(t)' = n.proposal /\ proposed(t) = n.proposal
  BY <1>3, SMT DEF proposed
<1>14. TaskFits(t)'
  BY <1>1, <1>3, <1>4, <1>6, <1>11, <1>12, <1>13 DEF TaskFits
<1>15. Grows
  <2>1. \A u \in Tasks : task'[u] = IF u = t THEN to ELSE task[u]
    BY <1>11 DEF Transition, IInv, StoresFit, Shaped
  <2> QED
    BY <1>1, <1>6, <1>11, <2>1 DEF Grows
<1>16. PICK m : Moves(w, m) /\ Fits(m)' /\ m.pc = "apply"
  BY <1>1, <1>6, <1>11, <1>12, <1>15, AppliesNext
<1>17. Accounts(w, m)
  BY <1>16, AccountsHeld DEF Held, Working
<1> QED
  BY <1>1, <1>3, <1>6, <1>11, <1>14, <1>16, <1>17, TransitionKept

(* A worker has its proposal accepted, finds it accepted, or is refused.   *)
LEMMA AcceptKept ==
  ASSUME IInv, NEW w \in Workers, Accept(w)
  PROVE  Kept(w)
<1>1. /\ worker[w].pc = "accept"
      /\ UNCHANGED <<ledger, refs, trees, slots, clock>>
  BY DEF Accept, at
<1>2. PICK e : e = commandEnvelope(w, "accept", worker[w].rev, 0)
  OBVIOUS
<1>3. e.id = <<my(w), "accept">> /\ my(w) \in Tasks
  BY <1>1, <1>2, MyTask DEF commandEnvelope
<1>4. PICK d :
        \/ /\ acceptTaskProposal(e, my(w), leaseOf(my(w)),
                                 ProposalRef(worker[w].proposal))
           /\ goto(w, "apply")
        \/ /\ loadCommandResult(e, d) = "replay"
           /\ goto(w, "apply") /\ UNCHANGED vars
        \/ goto(w, "clean-ref") /\ UNCHANGED vars
  BY <1>2 DEF Accept, executeTask
<1>5. CASE acceptTaskProposal(e, my(w), leaseOf(my(w)),
                              ProposalRef(worker[w].proposal))
           /\ goto(w, "apply")
  BY <1>1, <1>3, <1>5, AcceptApplied
<1>6. CASE /\ loadCommandResult(e, d) = "replay"
           /\ goto(w, "apply") /\ UNCHANGED vars
  <2>1. Unseen /\ Grows
    BY <1>1, <1>6, UnseenGrows DEF Unseen, vars
  <2>2. <<my(w), "accept">> \in DOMAIN commands
    BY <1>3, <1>6, Replayed
  <2>3. task[my(w)].proposal # Nil
    BY <1>3, <2>2 DEF IInv, StoresFit, TaskFits
  <2>4. task'[my(w)].proposal # Nil
    BY <2>1, <2>3 DEF Unseen
  <2>5. PICK m : Moves(w, m) /\ Fits(m)' /\ m.pc = "apply"
    BY <1>1, <1>6, <2>1, <2>4, AppliesNext
  <2>6. Accounts(w, m)
    BY <1>1, <2>5, AccountsHeld DEF Held, Working
  <2> QED
    BY <2>1, <2>5, <2>6, UnseenRest, WritesKept
<1>7. CASE goto(w, "clean-ref") /\ UNCHANGED vars
  <2>1. Unseen /\ worker[w].pc \in Working
    BY <1>1, <1>7 DEF Unseen, vars, Working
  <2> QED
    BY <1>1, <1>7, <2>1, CleansKept
<1> QED
  BY <1>4, <1>5, <1>6, <1>7

(* A worker whose execution is recorded goes on, or goes to the clean-up.  *)
LEMMA RecordsNext ==
  ASSUME IInv, NEW w \in Workers, worker[w].pc = "record",
         NEW pc \in {"complete", "clean-ref"}, goto(w, pc), Grows,
         task'[my(w)].cand # Nil
  PROVE  \E m : Moves(w, m) /\ Fits(m)' /\ m.pc = pc
<1>1. PICK m : /\ Moves(w, m) /\ DOMAIN m = Fields /\ m.pc = pc
               /\ m.task = worker[w].task
               /\ m.proposal = worker[w].proposal /\ m.rev = worker[w].rev
               /\ m.commit = worker[w].commit /\ m.done = worker[w].done
  BY GotoMoves
<1>2. PICK n : n = worker[w]
  OBVIOUS
<1>3. Fits(n) /\ Fits(n)' /\ n.pc = "record"
  BY <1>2, FitsGrows DEF IInv, WorkersFit
<1>4. Fits(m)'
  BY <1>1, <1>2, <1>3
  DEF Fits, AtWork, Working, Cleaning, Accepted, Built, my
<1> QED
  BY <1>1, <1>4

(* The candidate of the worker becomes the candidate of the task.          *)
LEMMA RecordApplied ==
  ASSUME IInv, NEW w \in Workers, worker[w].pc = "record", recordApplies(w),
         NEW pc \in {"complete", "clean-ref"}, goto(w, pc),
         UNCHANGED <<ledger, refs, trees, slots, clock>>
  PROVE  Kept(w)
<1>1. PICK n, t, row, c, e :
        /\ n = worker[w] /\ t = my(w) /\ row = task[t] /\ c = n.commit
        /\ e = recordOf(w)
  OBVIOUS
<1>2. Fits(n) /\ n.pc = "record" /\ n.task = t
  BY <1>1 DEF IInv, WorkersFit, my
<1>3. /\ t \in Tasks /\ n.proposal \in Proposals /\ ledger[t].state # "NONE"
      /\ ledger[t].digest = <<t, n.proposal, n.rev>> /\ c = n.proposal
      /\ row.proposal # Nil
  BY <1>1, <1>2 DEF Fits, AtWork, Working, Accepted, Built
<1>4. TaskFits(t) /\ row \in TaskRow
  BY <1>1, <1>3 DEF IInv, StoresFit, TaskFits
<1>5. PICK b : b = [ref |-> reportOf(c), attempt |-> row.attempt,
                    commit |-> c, passed |-> TRUE]
  OBVIOUS
<1>6. b \in Binding /\ b.ref = reportOf(c) /\ c \in Commits /\ c # Nil
  <2>1. reportOf(c) \in Artifacts /\ c \in Commits
    BY <1>3, ExecutionAssumption DEF commitOf
  <2>2. row.attempt \in Nat
    BY <1>4 DEF TaskRow
  <2>3. b \in Binding
    BY <1>5, <2>1, <2>2 DEF Binding
  <2> QED
    BY <1>5, <2>1, <2>3, NilAssumption
<1>7. PICK next : next = [row EXCEPT !.state = "VERIFYING", !.cand = c,
                                     !.exec = b]
  OBVIOUS
<1>8. /\ next \in TaskRow /\ next.state = "VERIFYING" /\ next.cand = c
      /\ next.proposal = row.proposal /\ next.exec = b
  <2>1. "VERIFYING" \in TaskStates /\ b \in OptBinding /\ c \in OptCommit
    BY <1>6 DEF TaskStates, OptBinding, OptCommit
  <2> QED
    BY <1>4, <1>7, <2>1 DEF TaskRow
<1>9. PICK d : persistTaskTransition(e, d, t, next)
  BY <1>1, <1>5, <1>7 DEF recordApplies, recordTaskExecution, bound
<1>10. e.id = <<t, "record">> /\ e.id # Fresh
  BY <1>1, <1>3, OwnIDs DEF recordOf, commandEnvelope
<1>11. PICK to \in TaskRow :
         /\ Transition(t, <<t, "record">>, to)
         /\ to.proposal = row.proposal /\ to.cand = c /\ to.exec = b
  <2>1. next.state # "ACCEPTED"
    BY <1>8
  <2> QED
    BY <1>3, <1>8, <1>9, <1>10, <2>1, Persisted, SMT
<1>12. task'[t] = to
  BY <1>3, <1>11 DEF Transition, IInv, StoresFit, Shaped
<1>13. proposed(t)' = n.proposal /\ proposed(t) = n.proposal
  BY <1>3, SMT DEF proposed
<1>14. TaskFits(t)'
  BY <1>1, <1>3, <1>4, <1>6, <1>11, <1>12, <1>13 DEF TaskFits
<1>15. row.cand # Nil => row.cand = c
  BY <1>1, <1>3, <1>4, <1>13 DEF TaskFits
<1>16. Grows
  <2>1. \A u \in Tasks : task'[u] = IF u = t THEN to ELSE task[u]
    BY <1>11 DEF Transition, IInv, StoresFit, Shaped
  <2> QED
    BY <1>1, <1>11, <1>15, <2>1 DEF Grows
<1>17. PICK m : Moves(w, m) /\ Fits(m)' /\ m.pc = pc
  BY <1>1, <1>6, <1>11, <1>12, <1>16, RecordsNext
<1>18. Accounts(w, m)
  BY <1>17, AccountsHeld DEF Held, Working
<1> QED
  BY <1>1, <1>3, <1>11, <1>14, <1>15, <1>17, <1>18, TransitionKept

(* The execution is recorded, was recorded before, or is refused.          *)
LEMMA RecordKept ==
  ASSUME IInv, NEW w \in Workers, Record(w)
  PROVE  Kept(w)
<1>1. /\ worker[w].pc = "record"
      /\ UNCHANGED <<ledger, refs, trees, slots, clock>>
  BY DEF Record, at
<1>2. PICK e : e = recordOf(w)
  OBVIOUS
<1>3. e.id = <<my(w), "record">> /\ my(w) \in Tasks
  BY <1>1, <1>2, MyTask DEF recordOf, commandEnvelope
<1>4. PICK d :
        \/ recordApplies(w) /\ goto(w, "complete")
        \/ /\ loadCommandResult(e, d) = "replay"
           /\ goto(w, "complete") /\ UNCHANGED vars
        \/ goto(w, "clean-ref") /\ UNCHANGED vars
  BY <1>2 DEF Record, executeTask
<1>5. CASE recordApplies(w) /\ goto(w, "complete")
  BY <1>1, <1>5, RecordApplied
<1>6. CASE /\ loadCommandResult(e, d) = "replay"
           /\ goto(w, "complete") /\ UNCHANGED vars
  <2>1. Unseen /\ Grows
    BY <1>1, <1>6, UnseenGrows DEF Unseen, vars
  <2>2. <<my(w), "record">> \in DOMAIN commands
    BY <1>3, <1>6, Replayed
  <2>3. task[my(w)].cand # Nil
    BY <1>3, <2>2 DEF IInv, StoresFit, TaskFits
  <2>4. task'[my(w)].cand # Nil
    BY <2>1, <2>3 DEF Unseen
  <2>5. PICK m : Moves(w, m) /\ Fits(m)' /\ m.pc = "complete"
    BY <1>1, <1>6, <2>1, <2>4, RecordsNext
  <2>6. Accounts(w, m)
    BY <1>1, <2>5, AccountsHeld DEF Held, Working
  <2> QED
    BY <2>1, <2>5, <2>6, UnseenRest, WritesKept
<1>7. CASE goto(w, "clean-ref") /\ UNCHANGED vars
  <2>1. Unseen /\ worker[w].pc \in Working
    BY <1>1, <1>7 DEF Unseen, vars, Working
  <2> QED
    BY <1>1, <1>7, <2>1, CleansKept
<1> QED
  BY <1>4, <1>5, <1>6, <1>7

-----------------------------------------------------------------------------
(* Faults and the world around the service.                                *)

(* The answer of an applied command is lost.                               *)
LEMMA RecordLostKept ==
  ASSUME IInv, NEW w \in Workers, RecordLost(w)
  PROVE  Kept(w)
<1>1. /\ worker[w].pc = "record" /\ recordApplies(w) /\ goto(w, "clean-ref")
      /\ UNCHANGED <<ledger, refs, trees, slots, clock>>
  BY DEF RecordLost, at
<1> QED
  BY <1>1, RecordApplied

(* A step fails, and may leave the worktree half-written.                  *)
LEMMA StepErrorKept ==
  ASSUME IInv, NEW w \in Workers, StepError(w)
  PROVE  Kept(w)
<1>1. PICK n, t : n = worker[w] /\ t = my(w)
  OBVIOUS
<1>2. PICK pc, x : /\ pc = IF at(w, "worktree") THEN "release" ELSE "clean-ref"
                   /\ x = (n.created /\ ~at(w, "complete"))
  OBVIOUS
<1>3. /\ n.pc \in Working
      /\ worker' = [worker EXCEPT ![w].pc = pc, ![w].created = x]
      /\ UNCHANGED <<task, commands, ledger, refs, clock, slots>>
      /\ trees' = [trees EXCEPT ![t] = Partial] \/ UNCHANGED trees
  BY <1>1, <1>2 DEF StepError, vars
<1>4. n.pc # "idle" /\ n.pc \notin Cleaning /\ n.pc \in AtWork
  BY <1>3 DEF Working, Cleaning, AtWork
<1>5. Fits(n) /\ DOMAIN n = Fields /\ t \in Tasks
  BY <1>1, <1>4, MyTask DEF IInv, WorkersFit, Fits
<1>6. PICK m : m = [n EXCEPT !.pc = pc, !.created = x]
  OBVIOUS
<1>7. /\ DOMAIN m = Fields /\ m.pc = pc /\ m.commit = n.commit
      /\ m.task = n.task /\ m.proposal = n.proposal /\ m.rev = n.rev
      /\ m.done = n.done
  BY <1>5, <1>6 DEF Fields
<1>8. /\ pc \in AtWork /\ pc \notin Accepted /\ pc \notin Built /\ pc # "idle"
      /\ pc \in Cleaning /\ pc \in Held /\ pc \notin {"record", "complete"}
  BY <1>2 DEF AtWork, Accepted, Built, Cleaning, Held
<1>9. Fits(m)
  BY <1>4, <1>5, <1>7, <1>8 DEF Fits
<1>10. Moves(w, m)
  BY <1>1, <1>3, <1>6 DEF Moves, IInv, WorkersFit
<1>11. worker[w].pc \in Held /\ m.pc \in Held
  BY <1>1, <1>3, <1>7, <1>8 DEF Held
<1>12. CASE trees' = [trees EXCEPT ![t] = Partial]
  BY <1>3, <1>5, <1>9, <1>10, <1>11, <1>12, TreesKept
<1>13. CASE UNCHANGED trees
  <2>1. Unseen /\ Accounts(w, m)
    BY <1>3, <1>11, <1>13, AccountsHeld DEF Unseen
  <2> QED
    BY <1>9, <1>10, <2>1, LocalKept
<1> QED
  BY <1>3, <1>12, <1>13

(* Where no worker moves, memories go on fitting.                          *)
LEMMA StillFit ==
  ASSUME IInv, Grows, UNCHANGED worker
  PROVE  WorkersFit'
<1>1. ASSUME NEW v \in Workers PROVE Fits(worker[v])'
  <2>1. PICK n : n = worker[v]
    OBVIOUS
  <2>2. Fits(n)'
    BY <2>1, FitsGrows DEF IInv, WorkersFit
  <2> QED
    BY <2>1, <2>2
<1> QED
  BY <1>1 DEF IInv, WorkersFit

(* A process dies: its calls are gone.                                     *)
LEMMA CrashKept ==
  ASSUME IInv, NEW q \in Processes, Crash(q)
  PROVE  WorkersFit' /\ StoresFit'
<1>1. /\ worker' = [w \in Workers |->
                      IF Home[w] = q THEN Idle ELSE worker[w]]
      /\ slots' = [slots EXCEPT ![q] = [executions |-> 0, worktrees |-> 0]]
      /\ Unseen
  BY DEF Crash, Unseen, vars
<1>2. Grows
  BY <1>1, UnseenGrows
<1>3. WorkersFit'
  <2>1. ASSUME NEW v \in Workers PROVE Fits(worker[v])'
    <3>1. PICK n : n = worker'[v]
      OBVIOUS
    <3>2. n = Idle \/ n = worker[v]
      BY <1>1, <3>1
    <3>3. Fits(n)
      BY <3>2, IdleFits DEF IInv, WorkersFit
    <3>4. Fits(n)'
      BY <1>2, <3>3, FitsGrows
    <3> QED
      BY <3>1, <3>4
  <2> QED
    BY <1>1, <2>1 DEF WorkersFit
<1> QED
  BY <1>1, <1>3, UnseenRest

(* A reservation runs out.                                                 *)
LEMMA ExpireKept ==
  ASSUME IInv, NEW t \in Tasks, Expire(t)
  PROVE  WorkersFit' /\ StoresFit' /\ UNCHANGED <<worker, slots>>
<1>1. /\ ledger' = [ledger EXCEPT ![t].expired = TRUE]
      /\ UNCHANGED <<task, commands, refs, trees, clock, worker, slots>>
  BY DEF Expire, vars
<1>2. Grows /\ StoresFit'
  BY <1>1, ExpiredRow
<1> QED
  BY <1>1, <1>2, StillFit

(* Time passes.                                                            *)
LEMMA TickKept ==
  ASSUME IInv, Tick
  PROVE  WorkersFit' /\ StoresFit' /\ UNCHANGED <<worker, slots>>
<1>1. /\ clock' \in Times
      /\ UNCHANGED <<task, commands, ledger, refs, trees, worker, slots>>
  BY DEF Tick, vars
<1>2. Grows
  BY <1>1 DEF Grows
<1>3. Shaped'
  BY <1>1 DEF IInv, StoresFit, Shaped
<1>4. StoresFit'
  BY <1>1, <1>2, <1>3, RowsKept, TasksKept, PlacesKept DEF StoresFit
<1> QED
  BY <1>1, <1>2, <1>4, StillFit

(* A cancelled task keeps its proposal, candidate and report.              *)
LEMMA CancelKept ==
  ASSUME IInv, Cancel
  PROVE  WorkersFit' /\ StoresFit' /\ UNCHANGED <<worker, slots>>
<1>1. task' = cancelRunTasks /\ UNCHANGED execVars
  BY DEF Cancel, cancelRun
<1>2. UNCHANGED <<ledger, refs, trees, clock, worker, slots>>
  BY <1>1 DEF execVars
<1>3. UNCHANGED commands
  <2>1. PICK e : e = [id |-> Fresh, actor |-> "HUMAN", rev |-> run.rev,
                      at |-> 0]
    OBVIOUS
  <2>2. e.id = Fresh /\ cancelRun(e)
    BY <2>1 DEF Cancel
  <2> QED
    BY <2>2 DEF cancelRun, recordCommandResult
<1>4. ASSUME NEW t \in Tasks
      PROVE  /\ task'[t] \in TaskRow /\ task'[t].cand = task[t].cand
             /\ task'[t].proposal = task[t].proposal
             /\ task'[t].exec = task[t].exec
  <2>1. PICK row : row = task[t]
    OBVIOUS
  <2>2. row \in TaskRow
    BY <2>1 DEF IInv, StoresFit, Shaped
  <2>3. PICK to : to = [row EXCEPT !.state = "CANCELLED", !.rev = @ + 1]
    OBVIOUS
  <2>4. /\ to \in TaskRow /\ to.cand = row.cand
        /\ to.proposal = row.proposal /\ to.exec = row.exec
    <3>1. "CANCELLED" \in TaskStates \cup {"NONE"} /\ row.rev + 1 \in Nat
      BY <2>2, SMT DEF TaskRow, TaskStates
    <3> QED
      BY <2>2, <2>3, <3>1 DEF TaskRow
  <2>5. task'[t] = to \/ task'[t] = row
    BY <1>1, <2>1, <2>3 DEF cancelRunTasks
  <2> QED
    BY <2>1, <2>2, <2>4, <2>5
<1>5. Grows
  BY <1>2, <1>4 DEF Grows
<1>6. Shaped'
  <2>1. task' \in [Tasks -> TaskRow]
    BY <1>1, <1>4 DEF cancelRunTasks
  <2> QED
    BY <1>2, <2>1 DEF IInv, StoresFit, Shaped
<1>7. ASSUME NEW t \in Tasks PROVE TaskFits(t)'
  BY <1>2, <1>3, <1>4 DEF IInv, StoresFit, TaskFits, proposed
<1>8. StoresFit'
  BY <1>2, <1>5, <1>6, <1>7, RowsKept, PlacesKept DEF StoresFit
<1> QED
  BY <1>2, <1>5, <1>8, StillFit

-----------------------------------------------------------------------------
(* The ledger implements WriteOnce.                                        *)

(* At the start there is no result, and nobody was given one.              *)
LEMMA ResultsInit == ExecInit => Results!Init
<1> SUFFICES ASSUME ExecInit PROVE Results!Init
  OBVIOUS
<1>1. \A t \in Tasks : ledger[t].result = Nil
  BY DEF ExecInit, NoRow
<1>2. returned = {}
  BY DEF ExecInit
<1> QED
  BY <1>1, <1>2 DEF Results!Init

resultOf == [t \in Tasks |-> ledger[t].result]

(* A caller that is given what a row holds is a step of WriteOnce.         *)
LEMMA ResultsReturn ==
  ASSUME NEW t \in Tasks, NEW c, c = ledger[t].result, c # Nil,
         resultOf' = resultOf, returned' = returned \cup {<<t, c>>}
  PROVE  Results!Next
<1>1. PICK f : f = resultOf
  OBVIOUS
<1>2. f[t] = c /\ f = [u \in Tasks |-> ledger[u].result]
      /\ f = [u \in Tasks |-> ledger'[u].result]
  BY <1>1 DEF resultOf
<1>3. Results!Return(t)
  BY <1>2 DEF Results!Return
<1> QED
  BY <1>3 DEF Results!Next

(* A result that is set where there was none is a step of WriteOnce.       *)
LEMMA ResultsRecord ==
  ASSUME NEW t \in Tasks, NEW c \in Commits, ledger[t].result = Nil,
         \A u \in Tasks :
           ledger'[u].result = IF u = t THEN c ELSE ledger[u].result,
         UNCHANGED returned
  PROVE  Results!Next
<1>1. PICK f, g : /\ f = [u \in Tasks |-> ledger[u].result]
                  /\ g = [u \in Tasks |-> ledger'[u].result]
  OBVIOUS
<1>2. f[t] = Nil /\ g = [f EXCEPT ![t] = c]
  BY <1>1
<1>3. Results!Record(t, c)
  BY <1>1, <1>2 DEF Results!Record
<1> QED
  BY <1>3 DEF Results!Next

(* The results are as they were when a row is written that keeps its own.  *)
LEMMA SameResults ==
  ASSUME IInv, NEW t \in Tasks, NEW r, ledger' = [ledger EXCEPT ![t] = r],
         r.result = ledger[t].result
  PROVE  resultOf' = resultOf
<1>1. \A u \in Tasks : ledger'[u].result = ledger[u].result
  BY DEF IInv, StoresFit, Shaped
<1> QED
  BY <1>1 DEF resultOf

(* Only the completion of a reservation that is held changes a result.     *)
LEMMA OtherSteps ==
  ASSUME IInv, [ExecNext]_allVars,
         ~\E w \in Workers : Complete(w) /\ holds(w)
  PROVE  resultOf' = resultOf
<1>1. \/ UNCHANGED ledger
      \/ \E t \in Tasks : Expire(t)
      \/ \E w \in Workers : \/ Reserve(w) \/ FinalTransitionTime(w)
                            \/ Finish(w)
  BY DEF ExecNext, allVars, execVars, Call, Step, Faulty, Replay,
         BeginRefused, AcquireExecution, AcquireWorktree, CreateWorktree,
         Accept, Apply, BuildCandidate, CreateRef, Record, Complete,
         DeleteCandidateRef, RemoveWorktree, ReleaseCapacity,
         AcquireCancelled, RecordLost, StepError, Crash, Tick, Cancel
<1>2. CASE UNCHANGED ledger
  BY <1>2 DEF resultOf
<1>3. ASSUME NEW t \in Tasks, NEW x,
             ledger' = [ledger EXCEPT ![t].expired = x]
      PROVE  resultOf' = resultOf
  <2>1. PICK r : r = [ledger[t] EXCEPT !.expired = x]
    OBVIOUS
  <2>2. ledger' = [ledger EXCEPT ![t] = r]
    BY <1>3, <2>1
  <2>3. r.result = ledger[t].result
    BY <2>1 DEF IInv, StoresFit, RowFits
  <2> QED
    BY <2>2, <2>3, SameResults
<1>4. ASSUME NEW t \in Tasks, Expire(t) PROVE resultOf' = resultOf
  BY <1>3, <1>4 DEF Expire
<1>5. ASSUME NEW w \in Workers, Finish(w) PROVE resultOf' = resultOf
  <2>1. PICK t, x : t = my(w) /\ x = (ledger[t].expired \/ holds(w))
    OBVIOUS
  <2>2. t \in Tasks
    BY <1>5, <2>1, MyTask DEF Finish, at
  <2>3. UNCHANGED ledger \/ ledger' = [ledger EXCEPT ![t].expired = x]
    BY <1>5, <2>1 DEF Finish
  <2> QED
    BY <1>2, <1>3, <2>2, <2>3
<1>6. ASSUME NEW w \in Workers, Reserve(w) PROVE resultOf' = resultOf
  <2>1. PICK t, o, d : t = my(w) /\ o = ledger[t]
                       /\ d = executionRequestDigest(w)
    OBVIOUS
  <2>2. PICK r : r = [o EXCEPT !.state = "reserved", !.owner = w,
                               !.expired = FALSE, !.digest = d]
    OBVIOUS
  <2>3. t \in Tasks /\ ledger' = [ledger EXCEPT ![t] = r]
    BY <1>6, <2>1, <2>2, MyTask DEF Reserve, at
  <2>4. r.result = ledger[t].result
    BY <2>1, <2>2, <2>3 DEF IInv, StoresFit, RowFits
  <2> QED
    BY <2>3, <2>4, SameResults
<1>7. ASSUME NEW w \in Workers, FinalTransitionTime(w)
      PROVE  resultOf' = resultOf
  <2>1. PICK t, r : t = my(w) /\ r = [ledger[t] EXCEPT !.final = finalTime(w)]
    OBVIOUS
  <2>2. t \in Tasks
        /\ (UNCHANGED ledger \/ ledger' = [ledger EXCEPT ![t] = r])
    BY <1>7, <2>1, MyTask DEF FinalTransitionTime, at
  <2>3. r.result = ledger[t].result
    BY <2>1, <2>2 DEF IInv, StoresFit, RowFits
  <2> QED
    BY <1>2, <2>2, <2>3, SameResults
<1> QED
  BY <1>1, <1>2, <1>4, <1>5, <1>6, <1>7

(* Every step is a step of WriteOnce, or one it does not see.              *)
LEMMA ResultsStep ==
  IInv /\ [ExecNext]_allVars => [Results!Next]_(Results!vars)
<1> SUFFICES ASSUME IInv, [ExecNext]_allVars
             PROVE  Results!Next \/ UNCHANGED Results!vars
  OBVIOUS
<1>1. ASSUME NEW w \in Workers, Complete(w), holds(w) PROVE Results!Next
  <2>1. PICK n, t, c : n = worker[w] /\ t = my(w) /\ c = n.commit
    OBVIOUS
  <2>2. Fits(n) /\ n.pc = "complete" /\ t \in Tasks
    BY <1>1, <2>1, MyTask DEF IInv, WorkersFit, Complete, at
  <2>3. c \in Commits
    BY <2>1, <2>2, ExecutionAssumption DEF Fits, Built, commitOf
  <2>4. /\ ledger' = [ledger EXCEPT ![t].state = "completed",
                                    ![t].result = c]
        /\ UNCHANGED returned /\ ledger[t].state = "reserved"
    BY <1>1, <2>1 DEF Complete, holds
  <2>5. PICK r : r = [ledger[t] EXCEPT !.state = "completed", !.result = c]
    OBVIOUS
  <2>6. ledger' = [ledger EXCEPT ![t] = r]
    BY <2>2, <2>4, <2>5 DEF IInv, StoresFit, Shaped
  <2>7. ledger[t].result = Nil /\ r.result = c
    BY <2>2, <2>4, <2>5 DEF IInv, StoresFit, RowFits
  <2>8. \A u \in Tasks :
          ledger'[u].result = IF u = t THEN c ELSE ledger[u].result
    BY <2>6, <2>7 DEF IInv, StoresFit, Shaped
  <2> QED
    BY <2>2, <2>3, <2>4, <2>7, <2>8, ResultsRecord
<1>2. ASSUME NEW w \in Workers, Replay(w) PROVE Results!Next
  <2>1. PICK t, c : t = my(w) /\ c = ledger[t].result
    OBVIOUS
  <2>2. /\ t \in Tasks /\ ledger[t].state = "completed"
        /\ returned' = returned \cup {<<t, c>>} /\ UNCHANGED ledger
    BY <1>2, <2>1, MyTask DEF Replay, at
  <2>3. c # Nil /\ resultOf' = resultOf
    BY <2>1, <2>2 DEF IInv, StoresFit, RowFits, resultOf
  <2> QED
    BY <2>1, <2>2, <2>3, ResultsReturn
<1>3. ASSUME NEW w \in Workers, Finish(w), worker[w].done
      PROVE  Results!Next
  <2>1. PICK n, t, c : n = worker[w] /\ t = my(w) /\ c = n.commit
    OBVIOUS
  <2>2. Fits(n) /\ n.task = t /\ t \in Tasks
    BY <1>3, <2>1, MyTask DEF IInv, WorkersFit, Finish, at, my
  <2>3. /\ returned' = returned \cup {<<t, c>>} /\ UNCHANGED ledger
        /\ n.done
    BY <1>3, <2>1 DEF Finish
  <2>4. ledger[t].state = "completed" /\ ledger[t].result = c
    BY <2>1, <2>2, <2>3 DEF Fits
  <2>5. c # Nil /\ resultOf' = resultOf
    BY <2>2, <2>3, <2>4 DEF IInv, StoresFit, RowFits, resultOf
  <2> QED
    BY <2>2, <2>3, <2>4, <2>5, ResultsReturn
<1>4. \/ UNCHANGED returned
      \/ \E w \in Workers : Replay(w) \/ (Finish(w) /\ worker[w].done)
  BY DEF ExecNext, allVars, execVars, Call, Step, Faulty, Reserve,
         BeginRefused, AcquireExecution, AcquireWorktree, CreateWorktree,
         Accept, Apply, BuildCandidate, CreateRef, FinalTransitionTime,
         Record, Complete, DeleteCandidateRef, RemoveWorktree,
         ReleaseCapacity, Finish, AcquireCancelled, RecordLost, StepError,
         Crash, Expire, Tick, Cancel
<1>5. CASE resultOf' = resultOf /\ UNCHANGED returned
  <2>1. [t \in Tasks |-> ledger'[t].result] =
          [t \in Tasks |-> ledger[t].result]
    BY <1>5 DEF resultOf
  <2> QED
    BY <1>5, <2>1 DEF Results!vars
<1> QED
  BY <1>1, <1>2, <1>3, <1>4, <1>5, OtherSteps

-----------------------------------------------------------------------------
(* The semaphores.  A semaphore is accounted for by counting its holders.  *)

INSTANCE FiniteSetTheorems

(* The holders of a semaphore are finitely many.                           *)
LEMMA HoldersFinite ==
  \A q, k : IsFiniteSet(Holders(q, k)) /\ Cardinality(Holders(q, k)) \in Nat
BY ExecutionAssumption, FS_Subset, FS_CardinalityType DEF Holders

(* The places are all accounted for when one worker moves.                 *)
LEMMA SlotsMove ==
  ASSUME IInv, NEW w \in Workers, NEW m, Moves(w, m), Accounts(w, m)
  PROVE  SlotsFit'
<1>1. \A v \in Workers : worker'[v] = IF v = w THEN m ELSE worker[v]
  BY DEF IInv, WorkersFit, Moves
<1>2. ASSUME NEW q \in Processes, NEW k \in Kinds
      PROVE  /\ slots'[q][k] \in Nat
             /\ slots'[q][k] = Cardinality(Holders(q, k)')
             /\ slots'[q][k] <= Cap(k)
  <2>1. PICK H, G : H = Holders(q, k) /\ G = Holders(q, k)'
    OBVIOUS
  <2>2. /\ IsFiniteSet(H) /\ Cardinality(H) \in Nat
        /\ slots[q][k] = Cardinality(H) /\ slots[q][k] <= Cap(k)
    BY <2>1, HoldersFinite DEF IInv, SlotsFit
  <2>3. /\ \A v : v \in H <=> /\ v \in Workers /\ Home[v] = q
                              /\ Holds(k, worker[v].pc)
        /\ \A v : v \in G <=> /\ v \in Workers /\ Home[v] = q
                              /\ Holds(k, worker'[v].pc)
    BY <2>1 DEF Holders
  <2>4. \A v : v # w => (v \in G <=> v \in H)
    BY <1>1, <2>3
  <2>5. /\ w \in H <=> Home[w] = q /\ Holds(k, worker[w].pc)
        /\ w \in G <=> Home[w] = q /\ Holds(k, m.pc)
    BY <1>1, <2>3
  <2>6. CASE w \in H <=> w \in G
    <3>1. G = H
      BY <2>4, <2>6, SMT
    <3>2. slots'[q][k] = slots[q][k]
      BY <2>2, <2>5, <2>6, SMT DEF Accounts, Count
    <3> QED
      BY <2>1, <2>2, <3>1, <3>2
  <2>7. CASE w \notin H /\ w \in G
    <3>1. G = H \cup {w}
      BY <2>4, <2>7
    <3>2. slots'[q][k] = slots[q][k] + 1 /\ slots'[q][k] <= Cap(k)
      BY <2>2, <2>5, <2>7, SMT DEF Accounts, Count
    <3>3. Cardinality(G) = Cardinality(H) + 1
      BY <2>2, <2>7, <3>1, FS_AddElement
    <3> QED
      BY <2>1, <2>2, <3>2, <3>3, SMT
  <2>8. CASE w \in H /\ w \notin G
    <3>1. G = H \ {w}
      BY <2>4, <2>8
    <3>2. slots'[q][k] = slots[q][k] - 1 /\ slots'[q][k] <= Cap(k)
      BY <2>2, <2>5, <2>8, SMT DEF Accounts, Count
    <3>3. Cardinality(G) = Cardinality(H) - 1 /\ IsFiniteSet(G)
      BY <2>2, <2>8, <3>1, FS_RemoveElement
    <3>4. Cardinality(G) \in Nat
      BY <3>3, FS_CardinalityType
    <3> QED
      BY <2>1, <2>2, <3>2, <3>3, <3>4
  <2> QED
    BY <2>6, <2>7, <2>8
<1>3. slots' \in [Processes -> [Kinds -> Nat]]
  BY <1>2 DEF Accounts
<1> QED
  BY <1>2, <1>3 DEF SlotsFit

(* Where no worker moves, the places are accounted for as they were.       *)
LEMMA SlotsStay ==
  ASSUME IInv, UNCHANGED <<worker, slots>>
  PROVE  SlotsFit'
<1>1. \A q, k : Holders(q, k)' = Holders(q, k)
  BY DEF Holders
<1> QED
  BY <1>1 DEF IInv, SlotsFit

(* A process that dies leaves its semaphores to a new one.                 *)
LEMMA SlotsRestart ==
  ASSUME IInv, NEW q \in Processes, Crash(q)
  PROVE  SlotsFit'
<1>1. PICK e : e = [executions |-> 0, worktrees |-> 0]
  OBVIOUS
<1>2. e \in [Kinds -> Nat] /\ \A k \in Kinds : e[k] = 0
  BY <1>1, SMT DEF Kinds
<1>3. /\ slots' \in [Processes -> [Kinds -> Nat]]
      /\ \A p \in Processes : slots'[p] = IF p = q THEN e ELSE slots[p]
  BY <1>1, <1>2 DEF IInv, SlotsFit, Crash
<1>4. \A k \in Kinds : ~Holds(k, Idle.pc)
  BY DEF Holds, Held, Working, Idle
<1>5. \A k \in Kinds : Holders(q, k)' = {}
  BY <1>4 DEF Holders, Crash
<1>6. \A k \in Kinds : Cardinality(Holders(q, k)') = 0
  BY <1>5, FS_EmptySet
<1>7. \A p \in Processes \ {q}, k \in Kinds : Holders(p, k)' = Holders(p, k)
  BY DEF Holders, Crash
<1>8. \A k \in Kinds : 0 <= Cap(k)
  BY ExecutionAssumption, SMT DEF Cap
<1>9. ASSUME NEW p \in Processes, NEW k \in Kinds
      PROVE  /\ slots'[p][k] = Cardinality(Holders(p, k)')
             /\ slots'[p][k] <= Cap(k)
  <2>1. CASE p = q
    BY <1>2, <1>3, <1>6, <1>8, <2>1
  <2>2. CASE p # q
    BY <1>3, <1>7, <2>2 DEF IInv, SlotsFit
  <2> QED
    BY <2>1, <2>2
<1> QED
  BY <1>3, <1>9 DEF SlotsFit

(* Before the first call the invariant holds.                              *)
LEMMA InitIInv == ExecInit => IInv
<1> SUFFICES ASSUME ExecInit PROVE IInv
  OBVIOUS
<1>1. WorkersFit
  <2>1. DOMAIN worker = Workers /\ \A w \in Workers : worker[w] = Idle
    BY DEF ExecInit
  <2> QED
    BY <2>1, IdleFits DEF WorkersFit
<1>2. ASSUME NEW t \in Tasks
      PROVE  /\ task[t] \in TaskRow
             /\ task[t].proposal = Nil /\ task[t].cand = Nil
  <2>1. PICK l : l = leaseOf(t)
    OBVIOUS
  <2>2. task[t] = [state |-> "REASONING", rev |-> 3, max |-> 1, attempt |-> 1,
                   lease |-> l, proposal |-> Nil, exec |-> Nil, cand |-> Nil,
                   verif |-> Nil, review |-> Nil, approval |-> Nil]
    BY <2>1 DEF ExecInit, NoTask
  <2>3. "REASONING" \in TaskStates /\ l \in LeaseRef
        /\ Nil \in OptBinding /\ Nil \in OptCommit
    BY <2>1, ExecutionAssumption DEF TaskStates, OptCommit, OptBinding
  <2> QED
    BY <2>2, <2>3, SMT DEF TaskRow
<1>3. Shaped
  <2>1. task \in [Tasks -> TaskRow]
    BY <1>2 DEF ExecInit
  <2> QED
    BY <2>1, ExecutionAssumption DEF ExecInit, Shaped, OptCommit
<1>4. ASSUME NEW t \in Tasks PROVE RowFits(t) /\ TaskFits(t) /\ PlaceFits(t)
  <2>1. ledger[t] = NoRow /\ refs[t] = Nil /\ trees[t] = NoTree
        /\ DOMAIN commands = {}
    BY DEF ExecInit
  <2>2. RowFits(t)
    BY <2>1, SMT DEF RowFits, NoRow
  <2>3. TaskFits(t)
    BY <1>2, <2>1 DEF TaskFits
  <2> QED
    BY <2>1, <2>2, <2>3 DEF PlaceFits
<1>5. SlotsFit
  <2>1. /\ slots \in [Processes -> [Kinds -> Nat]]
        /\ \A q \in Processes, k \in Kinds : slots[q][k] = 0
    <3>1. PICK e : e = [executions |-> 0, worktrees |-> 0]
      OBVIOUS
    <3>2. e \in [Kinds -> Nat] /\ \A k \in Kinds : e[k] = 0
      BY <3>1, SMT DEF Kinds
    <3>3. slots = [q \in Processes |-> e]
      BY <3>1 DEF ExecInit
    <3> QED
      BY <3>2, <3>3
  <2>2. \A w \in Workers : worker[w].pc = "idle"
    BY DEF ExecInit, Idle
  <2>3. \A q \in Processes, k \in Kinds : Holders(q, k) = {}
    BY <2>2 DEF Holders, Holds, Held, Working
  <2>4. \A q \in Processes, k \in Kinds : Cardinality(Holders(q, k)) = 0
    BY <2>3, FS_EmptySet
  <2>5. \A k \in Kinds : 0 <= Cap(k)
    BY ExecutionAssumption, SMT DEF Cap
  <2> QED
    BY <2>1, <2>4, <2>5 DEF SlotsFit
<1> QED
  BY <1>1, <1>3, <1>4, <1>5 DEF IInv, StoresFit

-----------------------------------------------------------------------------
(* Every step keeps the invariant.                                         *)
LEMMA NextIInv == IInv /\ [ExecNext]_allVars => IInv'
<1> SUFFICES ASSUME IInv, [ExecNext]_allVars PROVE IInv'
  OBVIOUS
<1>1. ASSUME NEW w \in Workers, Kept(w) PROVE IInv'
  BY <1>1, SlotsMove DEF Kept, IInv
<1>2. ASSUME NEW w \in Workers, Step(w) PROVE Kept(w)
  BY <1>2, ReserveKept, EndsKept, AcquireKept, WorktreeKept, AcceptKept,
     ApplyKept, BuildCandidateKept, CreateRefKept, FinalTransitionTimeKept,
     RecordKept, CompleteKept, DeleteCandidateRefKept, ReleaseKept,
     FinishKept
  DEF Step
<1>3. ASSUME NEW w \in Workers, Faulty(w) PROVE Kept(w)
  BY <1>3, ReleaseKept, RecordLostKept, StepErrorKept DEF Faulty
<1>4. ASSUME NEW q \in Processes, Crash(q) PROVE IInv'
  BY <1>4, CrashKept, SlotsRestart DEF IInv
<1>5. CASE Tick \/ Cancel \/ \E t \in Tasks : Expire(t)
  BY <1>5, TickKept, CancelKept, ExpireKept, SlotsStay DEF IInv
<1>6. CASE UNCHANGED allVars
  <2>1. Unseen /\ UNCHANGED <<worker, slots>>
    BY <1>6 DEF allVars, execVars, vars, Unseen
  <2> QED
    BY <2>1, UnseenGrows, UnseenRest, StillFit, SlotsStay DEF IInv
<1> QED
  BY <1>1, <1>2, <1>3, <1>4, <1>5, <1>6, CallKept DEF ExecNext

(* So it holds throughout.                                                 *)
LEMMA AlwaysIInv == ExecSpec => []IInv
BY InitIInv, NextIInv, PTL DEF ExecSpec

-----------------------------------------------------------------------------
(* What the invariant shows.                                               *)

(* The candidate that the workflow records, that the ref names and that    *)
(* the ledger answers is the candidate of the proposal that the workflow   *)
(* accepted (service.go executeReserved, candidate.go), for any number of  *)
(* workers that share a worktree, a ref and an execution ID.               *)
THEOREM CandidateIsAccepted == ExecSpec => []CandidateOfAcceptedProposal
<1>1. IInv => CandidateOfAcceptedProposal
  <2> SUFFICES ASSUME IInv, NEW t \in Tasks
               PROVE  /\ refs[t] # Nil =>
                           /\ task[t].proposal # Nil
                           /\ task[t].proposal.ref = ProposalRef(refs[t])
                      /\ task[t].cand # Nil =>
                           /\ task[t].proposal.ref =
                                ProposalRef(task[t].cand)
                           /\ task[t].exec.ref = reportOf(task[t].cand)
                      /\ ledger[t].result # Nil =>
                           ledger[t].result = task[t].cand
    BY DEF CandidateOfAcceptedProposal
  <2>1. RowFits(t) /\ TaskFits(t) /\ PlaceFits(t)
    BY DEF IInv, StoresFit
  <2> QED
    BY <2>1 DEF RowFits, TaskFits, PlaceFits
<1> QED
  BY <1>1, AlwaysIInv, PTL

(* No error path, cancellation or death of a process leaks or duplicates a *)
(* slot of a semaphore, and the capacities are never exceeded (service.go  *)
(* acquire, runExecution), for any number of processes and workers.        *)
THEOREM SlotsAreAccounted == ExecSpec => []SlotsAccounted
<1>1. IInv => SlotsAccounted
  <2> SUFFICES ASSUME IInv, NEW q \in Processes
               PROVE  LET mine == {w \in Workers : Home[w] = q}
                          held == Working \cup
                                    {"clean-ref", "clean-worktree", "release"}
                          InStep(pcs) ==
                            Cardinality({w \in mine : worker[w].pc \in pcs})
                      IN  /\ slots[q].worktrees = InStep(held)
                          /\ slots[q].executions =
                               InStep(held \cup {"worktree-slot"})
                          /\ slots[q].executions <= MaxConcurrent
                          /\ slots[q].worktrees <= MaxWorktrees
    BY DEF SlotsAccounted
  <2> DEFINE mine == {w \in Workers : Home[w] = q}
  <2>1. Holders(q, "worktrees") = {w \in mine : worker[w].pc \in Held}
    BY DEF Holders, Holds
  <2>2. Holders(q, "executions") =
          {w \in mine : worker[w].pc \in Held \cup {"worktree-slot"}}
    BY DEF Holders, Holds
  <2>3. /\ slots[q]["worktrees"] = Cardinality(Holders(q, "worktrees"))
        /\ slots[q]["executions"] = Cardinality(Holders(q, "executions"))
        /\ slots[q]["executions"] <= MaxConcurrent
        /\ slots[q]["worktrees"] <= MaxWorktrees
    BY DEF IInv, SlotsFit, Kinds, Cap
  <2> QED
    BY <2>1, <2>2, <2>3 DEF Held
<1> QED
  BY <1>1, AlwaysIInv, PTL

(* An execution ID is completed once, with a result and the time of its    *)
(* transition, and all who get an answer get that result (repository.go    *)
(* Begin, Complete), whatever expires, dies or is taken over.              *)
THEOREM ExecutionHappensOnce == ExecSpec => ExecutedOnce
<1>1. IInv => ExecTypeOK
  <2> SUFFICES ASSUME IInv PROVE ExecTypeOK
    OBVIOUS
  <2>1. ASSUME NEW t \in Tasks
        PROVE  /\ ledger[t].state \in {"NONE", "reserved", "completed"}
               /\ ledger[t].owner \in Workers \cup {Nil}
               /\ ledger[t].final \in Times \cup {Nil}
               /\ ledger[t].result # Nil <=> ledger[t].state = "completed"
               /\ ledger[t].state = "completed" => ledger[t].final # Nil
               /\ trees[t] \in Proposals \cup {NoTree, Base, Partial}
    BY DEF IInv, StoresFit, RowFits, PlaceFits
  <2> QED
    BY <2>1 DEF IInv, StoresFit, Shaped, ExecTypeOK
<1>2. ExecSpec => Results!Spec
  BY AlwaysIInv, ResultsInit, ResultsStep, PTL DEF ExecSpec, Results!Spec
<1> QED
  BY <1>1, <1>2, AlwaysIInv, PTL
  DEF ExecutedOnce, ExecutionsImplementWriteOnce

=============================================================================
