------------------------- MODULE VerificationProofs -------------------------
(***************************************************************************)
(* Proofs about Verification, for any requests, checks, workers and bounds. *)
(***************************************************************************)
EXTENDS Verification, FiniteSetTheorems, TLAPS

(* Most leaves are first-order steps, which Zenon proves; a leaf that      *)
(* needs arithmetic or the fields of records names SMT.                    *)
USE Zenon

-----------------------------------------------------------------------------
(* The inductive invariant.  The row of the ledger keeps the request that  *)
(* reserved it first, and the evidence that was saved first; the memory of *)
(* a worker past Begin is about that request, and past the checkpoint      *)
(* about that evidence.                                                    *)

Fields == {"pc", "request", "rev", "owner", "seen", "evidence"}

Recording == {"final-time", "record", "complete", "answer"}

AtWork == Recording \cup {"executions", "workspaces", "checks", "save", "replay"}

Saved == {"evidence_ready", "completed"}

(* What checks may have given so far.                                      *)
Seens == UNION {[K -> Outcomes] : K \in SUBSET Catalog}

(* Evidence about a request that one of the collections supports.          *)
Collected(r, e) ==
  \E n \in DOMAIN measured :
    e = [report |-> ReportRef(n),
         passed |-> CalculateCoverage(r.requirements, measured[n])]

Fits(m) ==
  /\ DOMAIN m = Fields
  /\ m.pc \in AtWork \cup {"idle", "begin"}
  /\ m.seen \in Seens
  /\ m.pc # "idle" => resolvable(m.request) /\ m.request.candidate = Candidate
  /\ m.pc \in AtWork =>
       ledger.state # "NONE" /\ ledger.digest = <<m.request, m.rev>>
  /\ m.pc = "save" => Collected(m.request, m.evidence)
  /\ m.pc \in Recording =>
       ledger.state \in Saved /\ m.evidence = ledger.evidence
  /\ m.pc \in {"record", "complete"} => ledger.final # Nil
  /\ m.pc = "answer" => ledger.state = "completed"

WorkersFit ==
  DOMAIN worker = Workers /\ \A w \in Workers : Fits(worker[w])

LedgerFits ==
  /\ DOMAIN ledger =
       {"state", "digest", "owner", "expired", "evidence", "final", "result"}
  /\ ledger.state \in {"NONE", "reserved"} \cup Saved
  /\ ledger.state # "NONE" => resolvable(ledger.digest[1])
  /\ ledger.state \notin Saved => ledger.evidence = Nil /\ ledger.final = Nil
  /\ ledger.state \in Saved => Collected(ledger.digest[1], ledger.evidence)
  /\ ledger.final \in Times \cup {Nil}
  /\ ledger.result = IF ledger.state = "completed" THEN ledger.evidence
                                                   ELSE Nil

(* Collections are numbered, and there are no more than there may be.      *)
MeasuredFits ==
  /\ measured \in Seq(Seens) /\ Len(measured) <= MaxCollections
  /\ clock \in Times

(* The workflow has no verification, or the one that was saved.            *)
TaskFits ==
  /\ task \in [Tasks -> TaskRow]
  /\ task[T].state \in {"VERIFYING", "REVIEWING", "REWORK_REQUIRED",
                        "CANCELLED"}
  /\ task[T].state \in {"REVIEWING", "REWORK_REQUIRED"} => task[T].verif # Nil
  /\ task[T].verif # Nil =>
       /\ ledger.state \in Saved
       /\ task[T].verif.ref = ledger.evidence.report
       /\ task[T].state = "REVIEWING" => ledger.evidence.passed
       /\ task[T].state = "REWORK_REQUIRED" => ~ledger.evidence.passed

Kinds == {"executions", "workspaces"}

(* Where a worker holds a place of a semaphore.                            *)
Holds(kind, pc) == pc = "checks" \/ (pc = "workspaces" /\ kind = "executions")

Holders(kind) == {w \in Workers : Holds(kind, worker[w].pc)}

(* Every place of a semaphore is free or held by one worker.               *)
SlotsFit ==
  /\ slots \in [Kinds -> 0..MaxConcurrent]
  /\ \A k \in Kinds : slots[k] + Cardinality(Holders(k)) = MaxConcurrent

IInv == WorkersFit /\ LedgerFits /\ MeasuredFits /\ TaskFits /\ SlotsFit

-----------------------------------------------------------------------------
(* What no step takes back, and what therefore keeps a memory fitting.     *)
Grows ==
  /\ \A n \in DOMAIN measured :
       n \in DOMAIN measured' /\ measured'[n] = measured[n]
  /\ ledger.state # "NONE" =>
       ledger'.state # "NONE" /\ ledger'.digest = ledger.digest
  /\ ledger.state \in Saved =>
       ledger'.state \in Saved /\ ledger'.evidence = ledger.evidence
  /\ ledger.final # Nil => ledger'.final # Nil
  /\ ledger.state = "completed" => ledger'.state = "completed"

(* Evidence stays supported by its collection.                             *)
LEMMA CollectedGrows ==
  ASSUME Grows, NEW r, NEW e, Collected(r, e)
  PROVE  Collected(r, e)'
BY DEF Grows, Collected

(* A memory goes on fitting when the others only add to what they wrote.   *)
LEMMA FitsGrows ==
  ASSUME Grows, NEW m, Fits(m)
  PROVE  Fits(m)'
<1>1. m.pc = "save" => Collected(m.request, m.evidence)'
  BY CollectedGrows DEF Fits
<1>2. m.pc # "idle" =>
        resolvable(m.request)' /\ m.request.candidate = Candidate
  BY DEF Fits, resolvable
<1>3. m.pc \in Recording => m.pc \in AtWork
  BY DEF Recording, AtWork
<1> QED
  BY <1>1, <1>2, <1>3 DEF Fits, Grows

Moves(w, m) == worker' = [worker EXCEPT ![w] = m]

(* When one worker moves, the memories fit if its new one does.            *)
LEMMA MovesFit ==
  ASSUME IInv, NEW w \in Workers, NEW m, Moves(w, m), Fits(m)', Grows
  PROVE  WorkersFit'
<1>1. DOMAIN worker' = Workers
  BY DEF IInv, WorkersFit, Moves
<1>2. ASSUME NEW v \in Workers PROVE Fits(worker[v])'
  <2>1. PICK n : n = worker'[v]
    OBVIOUS
  <2>2. CASE v = w
    <3>1. n = m
      BY <2>1, <2>2 DEF IInv, WorkersFit, Moves
    <3> QED
      BY <2>1, <3>1
  <2>3. CASE v # w
    <3>1. n = worker[v]
      BY <2>1, <2>3 DEF IInv, WorkersFit, Moves
    <3>2. Fits(n)
      BY <3>1 DEF IInv, WorkersFit
    <3>3. Fits(n)'
      BY <3>2, FitsGrows
    <3> QED
      BY <2>1, <3>3
  <2> QED
    BY <2>2, <2>3
<1> QED
  BY <1>1, <1>2 DEF WorkersFit

-----------------------------------------------------------------------------
(* The semaphores.                                                         *)

Count(kind, pc) == IF Holds(kind, pc) THEN 1 ELSE 0

(* A worker that moves takes or gives back the places that the two steps   *)
(* of its program say.                                                     *)
Accounts(w, m) ==
  /\ slots' \in [Kinds -> Nat]
  /\ \A k \in Kinds :
       slots'[k] = slots[k] + Count(k, worker[w].pc) - Count(k, m.pc)

(* The holders of a semaphore are finitely many.                           *)
LEMMA HoldersFinite ==
  \A k : IsFiniteSet(Holders(k)) /\ Cardinality(Holders(k)) \in Nat
BY VerificationAssumption, FS_Subset, FS_CardinalityType DEF Holders

(* The places are all accounted for when one worker moves.                 *)
LEMMA SlotsMove ==
  ASSUME IInv, NEW w \in Workers, NEW m, Moves(w, m), Accounts(w, m)
  PROVE  SlotsFit'
<1>1. \A v \in Workers : worker'[v] = IF v = w THEN m ELSE worker[v]
  BY DEF IInv, WorkersFit, Moves
<1>2. ASSUME NEW k \in Kinds
      PROVE  /\ Cardinality(Holders(k)') \in Nat
             /\ slots'[k] + Cardinality(Holders(k)') = MaxConcurrent
  <2>1. PICK H : H = Holders(k)
    OBVIOUS
  <2>2. PICK G : G = Holders(k)'
    OBVIOUS
  <2>3. /\ IsFiniteSet(H) /\ Cardinality(H) \in Nat
        /\ slots[k] \in Int /\ slots[k] + Cardinality(H) = MaxConcurrent
    BY <2>1, HoldersFinite, SMT DEF IInv, SlotsFit
  <2>4. slots'[k] = slots[k] + Count(k, worker[w].pc) - Count(k, m.pc)
    BY DEF Accounts
  <2>5. /\ \A v : v \in H <=> v \in Workers /\ Holds(k, worker[v].pc)
        /\ \A v : v \in G <=> v \in Workers /\ Holds(k, worker'[v].pc)
    BY <2>1, <2>2 DEF Holders
  <2>6. \A v : v # w => (v \in G <=> v \in H)
    BY <1>1, <2>5
  <2>7. (w \in H <=> Holds(k, worker[w].pc)) /\ (w \in G <=> Holds(k, m.pc))
    BY <1>1, <2>5
  <2>8. CASE w \in H /\ w \in G
    <3>1. G = H
      BY <2>6, <2>8, SMT
    <3>2. slots'[k] = slots[k]
      BY <2>3, <2>4, <2>7, <2>8, SMT DEF Count
    <3> QED
      BY <2>2, <2>3, <3>1, <3>2
  <2>9. CASE w \notin H /\ w \notin G
    <3>1. G = H
      BY <2>6, <2>9, SMT
    <3>2. slots'[k] = slots[k]
      BY <2>3, <2>4, <2>7, <2>9, SMT DEF Count
    <3> QED
      BY <2>2, <2>3, <3>1, <3>2
  <2>10. CASE w \notin H /\ w \in G
    <3>1. G = H \cup {w}
      BY <2>6, <2>10
    <3>2. slots'[k] = slots[k] - 1
      BY <2>3, <2>4, <2>7, <2>10, SMT DEF Count
    <3>3. Cardinality(G) = Cardinality(H) + 1
      BY <2>3, <2>10, <3>1, FS_AddElement
    <3> QED
      BY <2>2, <2>3, <3>2, <3>3, SMT
  <2>11. CASE w \in H /\ w \notin G
    <3>1. G = H \ {w}
      BY <2>6, <2>11
    <3>2. slots'[k] = slots[k] + 1
      BY <2>3, <2>4, <2>7, <2>11, SMT DEF Count
    <3>3. Cardinality(G) = Cardinality(H) - 1 /\ IsFiniteSet(G)
      BY <2>3, <2>11, <3>1, FS_RemoveElement
    <3>4. Cardinality(G) \in Nat
      BY <3>3, FS_CardinalityType
    <3> QED
      BY <2>2, <2>3, <3>2, <3>3, <3>4, SMT
  <2> QED
    BY <2>8, <2>9, <2>10, <2>11
<1>3. slots' \in [Kinds -> Nat]
  BY DEF Accounts
<1>4. ASSUME NEW k \in Kinds PROVE slots'[k] \in 0..MaxConcurrent
  BY <1>2, <1>3, VerificationAssumption, SMT
<1> QED
  BY <1>2, <1>3, <1>4 DEF SlotsFit

(* A worker that neither takes nor gives back a place.                     *)
LEMMA AccountsNothing ==
  ASSUME IInv, NEW w \in Workers, NEW m, UNCHANGED slots,
         {worker[w].pc, m.pc} \cap {"checks", "workspaces"} = {}
  PROVE  Accounts(w, m)
<1>1. slots \in [Kinds -> Nat]
  BY VerificationAssumption, SMT DEF IInv, SlotsFit
<1>2. \A k \in Kinds : ~Holds(k, worker[w].pc) /\ ~Holds(k, m.pc)
  BY DEF Holds
<1> QED
  BY <1>1, <1>2, SMT DEF Accounts, Count

-----------------------------------------------------------------------------
(* Steps that only change the memory of a worker.                          *)

Unseen == UNCHANGED <<task, ledger, measured, clock>>

(* They take nothing back.                                                 *)
LEMMA UnseenGrows == ASSUME Unseen PROVE Grows
BY DEF Unseen, Grows

(* And leave everything but memories and semaphores as it was.             *)
LEMMA UnseenRest ==
  ASSUME IInv, Unseen
  PROVE  LedgerFits' /\ MeasuredFits' /\ TaskFits'
<1>1. LedgerFits'
  BY DEF IInv, LedgerFits, Unseen, Collected, resolvable
<1>2. MeasuredFits'
  BY DEF IInv, MeasuredFits, Unseen
<1>3. TaskFits'
  BY DEF IInv, TaskFits, Unseen
<1> QED
  BY <1>1, <1>2, <1>3

(* So such a step keeps the invariant when the new memory fits.            *)
LEMMA LocalIInv ==
  ASSUME IInv, NEW w \in Workers, NEW m, Moves(w, m), Fits(m), Unseen,
         Accounts(w, m)
  PROVE  IInv'
<1>1. Grows
  BY UnseenGrows
<1>2. Fits(m)'
  BY <1>1, FitsGrows
<1>3. WorkersFit'
  BY <1>1, <1>2, MovesFit
<1> QED
  BY <1>3, UnseenRest, SlotsMove DEF IInv

(* An empty record of checks.                                              *)
LEMMA NoneSeen == <<>> \in Seens
<1>1. <<>> \in [{} -> Outcomes]
  BY SMT
<1> QED
  BY <1>1 DEF Seens

(* A worker without a call fits any ledger.                                *)
LEMMA IdleFits == Fits(Idle) /\ Fits(Idle)'
BY NoneSeen DEF Fits, Idle, Fields, AtWork, Recording

(* A call that ends without holding a place.                               *)
LEMMA StopIInv ==
  ASSUME IInv, NEW w \in Workers, stop(w), Unseen, UNCHANGED slots,
         worker[w].pc \notin {"checks", "workspaces"}
  PROVE  IInv'
<1>1. Moves(w, Idle)
  BY DEF stop, Moves
<1>2. Accounts(w, Idle)
  BY AccountsNothing, SMT DEF Idle
<1> QED
  BY <1>1, <1>2, IdleFits, LocalIInv

(* The memory of a worker that only goes on to another step.               *)
LEMMA GotoMoves ==
  ASSUME IInv, NEW w \in Workers, NEW pc, goto(w, pc)
  PROVE  \E m : /\ Moves(w, m) /\ DOMAIN m = Fields /\ m.pc = pc
                /\ m.request = worker[w].request /\ m.rev = worker[w].rev
                /\ m.owner = worker[w].owner /\ m.seen = worker[w].seen
                /\ m.evidence = worker[w].evidence
<1>1. PICK n : n = worker[w]
  OBVIOUS
<1>2. DOMAIN n = Fields
  BY <1>1 DEF IInv, WorkersFit, Fits
<1>3. PICK m : m = [n EXCEPT !.pc = pc]
  OBVIOUS
<1>4. Moves(w, m)
  BY <1>1, <1>3 DEF Moves, goto
<1> QED
  BY <1>1, <1>2, <1>3, <1>4, SMT DEF Fields

(* Before the first call the invariant holds.                              *)
LEMMA InitIInv == VerifInit => IInv
<1> SUFFICES ASSUME VerifInit PROVE IInv
  OBVIOUS
<1>1. WorkersFit
  <2>1. DOMAIN worker = Workers /\ \A w \in Workers : worker[w] = Idle
    BY DEF VerifInit
  <2> QED
    BY <2>1, IdleFits DEF WorkersFit
<1>2. LedgerFits
  BY DEF VerifInit, LedgerFits, NoRow, Saved
<1>3. MeasuredFits
  <2>1. measured = <<>> /\ clock = 0
    BY DEF VerifInit
  <2>2. <<>> \in Seq(Seens) /\ Len(<<>>) = 0
    BY SMT
  <2> QED
    BY <2>1, <2>2, VerificationAssumption, SMT DEF MeasuredFits
<1>4. TaskFits
  <2>1. PICK b : b = [ref |-> Report, attempt |-> 1, commit |-> Candidate,
                      passed |-> TRUE]
    OBVIOUS
  <2>2. b \in Binding
    BY <2>1, VerificationAssumption DEF Binding
  <2>3. PICK row : row = [NoTask EXCEPT !.state = "VERIFYING", !.rev = 5,
                            !.max = 1, !.attempt = 1, !.cand = Candidate,
                            !.exec = b]
    OBVIOUS
  <2>4. row = [state |-> "VERIFYING", rev |-> 5, max |-> 1, attempt |-> 1,
               lease |-> Nil, proposal |-> Nil, exec |-> b,
               cand |-> Candidate, verif |-> Nil, review |-> Nil,
               approval |-> Nil]
    BY <2>3 DEF NoTask
  <2>5. "VERIFYING" \in TaskStates /\ Candidate \in OptCommit
        /\ Nil \in OptBinding /\ b \in OptBinding
    BY <2>2, VerificationAssumption DEF TaskStates, OptCommit, OptBinding
  <2>6. row \in TaskRow
    BY <2>4, <2>5 DEF TaskRow
  <2>7. task = [t \in Tasks |-> row]
    BY <2>1, <2>3 DEF VerifInit
  <2>8. task[T].state = "VERIFYING" /\ task[T].verif = Nil
    BY <2>4, <2>7, VerificationAssumption
  <2> QED
    BY <2>6, <2>7, <2>8 DEF TaskFits
<1>5. SlotsFit
  <2>1. slots \in [Kinds -> 0..MaxConcurrent]
        /\ \A k \in Kinds : slots[k] = MaxConcurrent
    BY VerificationAssumption, SMT DEF VerifInit, Kinds
  <2>2. \A w \in Workers : worker[w].pc = "idle"
    BY DEF VerifInit, Idle
  <2>3. \A k \in Kinds : Holders(k) = {}
    BY <2>2 DEF Holders, Holds
  <2>4. \A k \in Kinds : Cardinality(Holders(k)) = 0
    BY <2>3, FS_EmptySet
  <2> QED
    BY <2>1, <2>4, VerificationAssumption, SMT DEF SlotsFit
<1> QED
  BY <1>1, <1>2, <1>3, <1>4, <1>5 DEF IInv

(* A call starts with a request that the catalog resolves.                 *)
LEMMA CallIInv ==
  ASSUME IInv, NEW w \in Workers, NEW r \in Requests, Call(w, r)
  PROVE  IInv'
<1>1. PICK n : n = verificationExpectedRevision
  OBVIOUS
<1>2. PICK m : m = [Idle EXCEPT !.pc = "begin", !.request = r, !.rev = n]
  OBVIOUS
<1>3. m = [pc |-> "begin", request |-> r, rev |-> n, owner |-> Nil,
           seen |-> <<>>, evidence |-> Nil]
  BY <1>2 DEF Idle
<1>4. resolvable(r) /\ r.candidate = Candidate
  BY DEF Call, executionReportMatches
<1>5. Fits(m)
  BY <1>3, <1>4, NoneSeen DEF Fits, Fields, AtWork, Recording
<1>6. Moves(w, m) /\ Unseen /\ UNCHANGED slots /\ worker[w] = Idle
  BY <1>1, <1>2 DEF Call, Moves, Unseen, vars
<1>7. worker[w].pc = "idle" /\ m.pc = "begin"
  BY <1>3, <1>6, SMT DEF Idle
<1>8. Accounts(w, m)
  BY <1>6, <1>7, AccountsNothing
<1> QED
  BY <1>5, <1>6, <1>8, LocalIInv

(* Saved evidence is taken up as it stands in the row.                     *)
LEMMA ResumeIInv ==
  ASSUME IInv, NEW w \in Workers, Resume(w)
  PROVE  IInv'
<1>1. PICK n : n = worker[w]
  OBVIOUS
<1>2. PICK o, e : o = ledger.owner /\ e = ledger.evidence
  OBVIOUS
<1>3. PICK m : m = [n EXCEPT !.pc = "final-time", !.owner = o, !.evidence = e]
  OBVIOUS
<1>4. Fits(n) /\ n.pc = "begin" /\ ledger.state = "evidence_ready"
      /\ ledger.digest = <<n.request, n.rev>>
  BY <1>1 DEF IInv, WorkersFit, Resume, at, mine, verificationRequestDigest
<1>5. DOMAIN n = Fields
  BY <1>4 DEF Fits
<1>6. /\ DOMAIN m = Fields /\ m.pc = "final-time" /\ m.request = n.request
      /\ m.rev = n.rev /\ m.seen = n.seen /\ m.evidence = e
  BY <1>3, <1>5 DEF Fields
<1>7. resolvable(m.request) /\ m.request.candidate = Candidate
      /\ m.seen \in Seens
  BY <1>4, <1>6 DEF Fits
<1>8. Fits(m)
  BY <1>2, <1>4, <1>6, <1>7 DEF Fits, AtWork, Recording, Saved
<1>9. worker' = [worker EXCEPT ![w].pc = "final-time", ![w].owner = o,
                               ![w].evidence = e]
  BY <1>2 DEF Resume
<1>10. Moves(w, m)
  BY <1>1, <1>3, <1>9 DEF Moves, IInv, WorkersFit
<1>11. Unseen /\ UNCHANGED slots
  BY DEF Resume, Unseen, vars
<1>12. Accounts(w, m)
  BY <1>1, <1>4, <1>6, <1>11, AccountsNothing
<1> QED
  BY <1>8, <1>10, <1>11, <1>12, LocalIInv

(* A stored result is read, or the call is refused: the caller is done.    *)
LEMMA EndsIInv ==
  ASSUME IInv, NEW w \in Workers,
         Replay(w) \/ BeginRefused(w) \/ Answer(w)
  PROVE  IInv'
<1>1. stop(w) /\ Unseen /\ UNCHANGED slots
  BY DEF Replay, BeginRefused, Answer, Unseen, vars
<1>2. worker[w].pc \notin {"checks", "workspaces"}
  BY DEF Replay, BeginRefused, Answer, at
<1> QED
  BY <1>1, <1>2, StopIInv

-----------------------------------------------------------------------------
(* Capacity and checks.                                                    *)

(* A worker that goes on with the same request fits as it did.             *)
LEMMA GoesOn ==
  ASSUME IInv, NEW w \in Workers, NEW pc \in {"workspaces", "checks"},
         goto(w, pc), worker[w].pc \in {"executions", "workspaces"}
  PROVE  \E m : Moves(w, m) /\ Fits(m) /\ m.pc = pc
<1>1. PICK m : /\ Moves(w, m) /\ DOMAIN m = Fields /\ m.pc = pc
               /\ m.request = worker[w].request /\ m.rev = worker[w].rev
               /\ m.seen = worker[w].seen
  BY GotoMoves, SMT
<1>2. PICK n : n = worker[w]
  OBVIOUS
<1>3. Fits(n) /\ n.pc \in {"executions", "workspaces"}
  BY <1>2 DEF IInv, WorkersFit
<1>4. Fits(m)
  BY <1>1, <1>2, <1>3 DEF Fits, AtWork, Recording
<1> QED
  BY <1>1, <1>4

(* A place of one semaphore is taken.                                      *)
LEMMA AcquireIInv ==
  ASSUME IInv, NEW w \in Workers,
         AcquireExecutions(w) \/ AcquireWorkspaces(w)
  PROVE  IInv'
<1>1. slots \in [Kinds -> 0..MaxConcurrent] /\ MaxConcurrent \in Nat
  BY VerificationAssumption DEF IInv, SlotsFit
<1>2. CASE AcquireExecutions(w)
  <2>1. /\ at(w, "executions") /\ slots["executions"] > 0
        /\ slots' = [slots EXCEPT !["executions"] = @ - 1]
        /\ goto(w, "workspaces") /\ Unseen
    BY <1>2 DEF AcquireExecutions, Acquire, Unseen, vars
  <2>2. worker[w].pc = "executions"
    BY <2>1 DEF at
  <2>3. PICK m : Moves(w, m) /\ Fits(m) /\ m.pc = "workspaces"
    BY <2>1, <2>2, GoesOn
  <2>4. slots' \in [Kinds -> Nat]
    BY <1>1, <2>1, SMT DEF Kinds
  <2>5. Accounts(w, m)
    BY <1>1, <2>1, <2>2, <2>3, <2>4, SMT DEF Accounts, Count, Holds, Kinds
  <2> QED
    BY <2>1, <2>3, <2>5, LocalIInv
<1>3. CASE AcquireWorkspaces(w)
  <2>1. /\ at(w, "workspaces") /\ slots["workspaces"] > 0
        /\ slots' = [slots EXCEPT !["workspaces"] = @ - 1]
        /\ goto(w, "checks") /\ Unseen
    BY <1>3 DEF AcquireWorkspaces, Acquire, Unseen, vars
  <2>2. worker[w].pc = "workspaces"
    BY <2>1 DEF at
  <2>3. PICK m : Moves(w, m) /\ Fits(m) /\ m.pc = "checks"
    BY <2>1, <2>2, GoesOn
  <2>4. slots' \in [Kinds -> Nat]
    BY <1>1, <2>1, SMT DEF Kinds
  <2>5. Accounts(w, m)
    BY <1>1, <2>1, <2>2, <2>3, <2>4, SMT DEF Accounts, Count, Holds, Kinds
  <2> QED
    BY <2>1, <2>3, <2>5, LocalIInv
<1> QED
  BY <1>2, <1>3

(* Both places are given back by a worker that ran checks.                 *)
LEMMA AccountsBoth ==
  ASSUME IInv, NEW w \in Workers, NEW m, worker[w].pc = "checks",
         m.pc \notin {"checks", "workspaces"},
         slots' = released({"executions", "workspaces"})
  PROVE  Accounts(w, m)
<1>1. slots \in [Kinds -> 0..MaxConcurrent] /\ MaxConcurrent \in Nat
  BY VerificationAssumption DEF IInv, SlotsFit
<1>2. slots' = [k \in Kinds |-> slots[k] + 1]
  BY <1>1 DEF released, Kinds
<1> QED
  BY <1>1, <1>2, SMT DEF Accounts, Count, Holds

(* A wait that is given up, or a collection that fails, leaks no place.    *)
LEMMA AbandonsIInv ==
  ASSUME IInv, NEW w \in Workers, AcquireCancelled(w) \/ CollectError(w)
  PROVE  IInv'
<1>1. slots \in [Kinds -> 0..MaxConcurrent] /\ MaxConcurrent \in Nat
  BY VerificationAssumption DEF IInv, SlotsFit
<1>2. Moves(w, Idle) /\ Unseen
  BY DEF AcquireCancelled, CollectError, stop, Moves, Unseen, vars
<1>3. CASE AcquireCancelled(w) /\ at(w, "executions")
  <2>1. UNCHANGED slots /\ worker[w].pc = "executions" /\ stop(w)
    BY <1>3 DEF AcquireCancelled, at
  <2> QED
    BY <1>2, <2>1, StopIInv
<1>4. CASE AcquireCancelled(w) /\ ~at(w, "executions")
  <2>1. worker[w].pc = "workspaces" /\ slots' = released({"executions"})
    BY <1>4 DEF AcquireCancelled, at
  <2>2. slots' = [k \in Kinds |->
                    IF k \in {"executions"} THEN slots[k] + 1 ELSE slots[k]]
    BY <1>1, <2>1 DEF released
  <2>3. Accounts(w, Idle)
    BY <1>1, <2>1, <2>2, SMT DEF Accounts, Count, Holds, Kinds, Idle
  <2> QED
    BY <1>2, <2>3, IdleFits, LocalIInv
<1>5. CASE CollectError(w)
  <2>1. worker[w].pc = "checks" /\ Idle.pc = "idle"
        /\ slots' = released({"executions", "workspaces"})
    BY <1>5 DEF CollectError, at, Idle
  <2>2. Accounts(w, Idle)
    BY <2>1, AccountsBoth
  <2> QED
    BY <1>2, <2>2, IdleFits, LocalIInv
<1> QED
  BY <1>3, <1>4, <1>5

(* The checks of a request are checks of the catalog.                      *)
LEMMA ChecksKnown ==
  ASSUME NEW r, resolvable(r)
  PROVE  checksOf(r) \subseteq Catalog
BY DEF resolvable, checksOf

(* A check runs, and what it gave is remembered.                           *)
LEMMA RunCheckIInv ==
  ASSUME IInv, NEW w \in Workers, RunCheck(w)
  PROVE  IInv'
<1>1. PICK n : n = worker[w]
  OBVIOUS
<1>2. Fits(n) /\ n.pc = "checks"
  BY <1>1 DEF IInv, WorkersFit, RunCheck, at
<1>3. DOMAIN n = Fields /\ n.seen \in Seens
      /\ checksOf(n.request) \subseteq Catalog
  BY <1>2, ChecksKnown DEF Fits
<1>4. checksOf(n.request) \ DOMAIN n.seen # {}
  BY <1>1 DEF RunCheck
<1>5. PICK c \in checksOf(n.request), o \in Outcomes :
        worker' = [worker EXCEPT ![w].seen =
          [k \in DOMAIN @ \cup {c} |-> IF k = c THEN o ELSE @[k]]]
  BY <1>1, <1>4, SMT DEF RunCheck
<1>6. PICK s : s = [k \in DOMAIN n.seen \cup {c} |->
                      IF k = c THEN o ELSE n.seen[k]]
  OBVIOUS
<1>7. s \in Seens
  <2>1. PICK K \in SUBSET Catalog : n.seen \in [K -> Outcomes]
    BY <1>3 DEF Seens
  <2>2. K \cup {c} \in SUBSET Catalog
    BY <1>3, <1>5
  <2>3. s \in [K \cup {c} -> Outcomes]
    BY <1>5, <1>6, <2>1
  <2> QED
    BY <2>2, <2>3 DEF Seens
<1>8. PICK m : m = [n EXCEPT !.seen = s]
  OBVIOUS
<1>9. /\ DOMAIN m = Fields /\ m.pc = "checks" /\ m.request = n.request
      /\ m.rev = n.rev /\ m.seen = s
  BY <1>2, <1>3, <1>8 DEF Fields
<1>10. Fits(m)
  BY <1>2, <1>7, <1>9 DEF Fits, AtWork, Recording
<1>11. Moves(w, m)
  BY <1>1, <1>5, <1>6, <1>8 DEF Moves
<1>12. Unseen /\ UNCHANGED slots
  BY DEF RunCheck, Unseen, vars
<1>13. Accounts(w, m)
  <2>1. slots \in [Kinds -> Nat]
    BY VerificationAssumption, SMT DEF IInv, SlotsFit
  <2>2. \A k \in Kinds : Count(k, n.pc) = 1 /\ Count(k, m.pc) = 1
    BY <1>2, <1>9 DEF Count, Holds
  <2> QED
    BY <1>1, <1>12, <2>1, <2>2, SMT DEF Accounts
<1> QED
  BY <1>10, <1>11, <1>12, <1>13, LocalIInv

-----------------------------------------------------------------------------
(* Steps that write the ledger.                                            *)

(* What the workflow has recorded stays the evidence that was saved.       *)
LEMMA TaskKept ==
  ASSUME IInv, Grows, UNCHANGED task
  PROVE  TaskFits'
BY DEF IInv, TaskFits, Grows

(* A row that is not written goes on fitting.                              *)
LEMMA LedgerKept ==
  ASSUME IInv, Grows, UNCHANGED ledger
  PROVE  LedgerFits'
<1>1. PICK r, e : r = ledger.digest[1] /\ e = ledger.evidence
  OBVIOUS
<1>2. ledger.state \in Saved => Collected(r, e)
  BY <1>1 DEF IInv, LedgerFits
<1>3. ledger.state \in Saved => Collected(r, e)'
  BY <1>2, CollectedGrows
<1>4. ledger'.state \in Saved => Collected(ledger.digest[1], ledger.evidence)'
  BY <1>1, <1>3
<1>5. ledger'.state # "NONE" => resolvable(ledger.digest[1])'
  BY DEF IInv, LedgerFits, resolvable
<1> QED
  BY <1>4, <1>5 DEF IInv, LedgerFits

(* One worker moves, and writes.                                           *)
LEMMA WritesIInv ==
  ASSUME IInv, NEW w \in Workers, NEW m, Moves(w, m), Fits(m)', Grows,
         LedgerFits', MeasuredFits', UNCHANGED task, Accounts(w, m)
  PROVE  IInv'
BY MovesFit, SlotsMove, TaskKept DEF IInv

(* A collection is numbered, stored and judged.                            *)
LEMMA StoreReportIInv ==
  ASSUME IInv, NEW w \in Workers, StoreReport(w)
  PROVE  IInv'
<1>1. PICK n : n = worker[w]
  OBVIOUS
<1>2. PICK i : i = Len(measured) + 1
  OBVIOUS
<1>3. PICK e : e = [report |-> ReportRef(i),
                    passed |-> CalculateCoverage(n.request.requirements,
                                                 n.seen)]
  OBVIOUS
<1>4. /\ at(w, "checks") /\ i <= MaxCollections
      /\ measured' = Append(measured, n.seen)
      /\ slots' = released({"executions", "workspaces"})
      /\ worker' = [worker EXCEPT ![w].pc = "save", ![w].seen = <<>>,
                                  ![w].evidence = e]
      /\ UNCHANGED <<vars, ledger, clock>>
  BY <1>1, <1>2, <1>3 DEF StoreReport
<1>5. Fits(n) /\ n.pc = "checks"
  BY <1>1, <1>4 DEF IInv, WorkersFit, at
<1>6. DOMAIN n = Fields /\ n.seen \in Seens
  BY <1>5 DEF Fits
<1>7. measured \in Seq(Seens) /\ Len(measured) \in Nat
  BY SMT DEF IInv, MeasuredFits
<1>8. /\ measured' \in Seq(Seens) /\ Len(measured') = i
      /\ measured'[i] = n.seen /\ i \in DOMAIN measured'
      /\ \A j \in DOMAIN measured :
           j \in DOMAIN measured' /\ measured'[j] = measured[j]
  BY <1>2, <1>4, <1>6, <1>7, SMT
<1>9. Grows
  BY <1>4, <1>8 DEF Grows
<1>10. MeasuredFits'
  BY <1>4, <1>8 DEF IInv, MeasuredFits
<1>11. PICK m : m = [n EXCEPT !.pc = "save", !.seen = <<>>, !.evidence = e]
  OBVIOUS
<1>12. /\ DOMAIN m = Fields /\ m.pc = "save" /\ m.request = n.request
       /\ m.rev = n.rev /\ m.seen = <<>> /\ m.evidence = e
  BY <1>6, <1>11 DEF Fields
<1>13. Collected(m.request, m.evidence)'
  BY <1>3, <1>8, <1>12 DEF Collected
<1>14. Fits(m)'
  <2>1. /\ resolvable(n.request) /\ n.request.candidate = Candidate
        /\ ledger.state # "NONE" /\ ledger.digest = <<n.request, n.rev>>
    BY <1>5 DEF Fits, AtWork
  <2>2. resolvable(n.request)'
    BY <2>1 DEF resolvable
  <2> QED
    BY <1>4, <1>12, <1>13, <2>1, <2>2, NoneSeen
    DEF Fits, AtWork, Recording
<1>15. Moves(w, m)
  BY <1>1, <1>4, <1>11 DEF Moves, IInv, WorkersFit
<1>16. Accounts(w, m)
  BY <1>1, <1>4, <1>5, <1>12, AccountsBoth
<1>17. LedgerFits'
  BY <1>4, <1>9, LedgerKept
<1>18. UNCHANGED task
  BY <1>4 DEF vars
<1> QED
  BY <1>9, <1>10, <1>14, <1>15, <1>16, <1>17, <1>18, WritesIInv

(* The row is taken, for the first time or again for the same request.     *)
LEMMA ReserveIInv ==
  ASSUME IInv, NEW w \in Workers, Reserve(w)
  PROVE  IInv'
<1>1. PICK n : n = worker[w]
  OBVIOUS
<1>2. PICK d : d = <<n.request, n.rev>>
  OBVIOUS
<1>3. /\ ledger' = [ledger EXCEPT !.state = "reserved", !.digest = d,
                                  !.owner = w, !.expired = FALSE]
      /\ worker' = [worker EXCEPT ![w].pc = "executions", ![w].owner = w]
      /\ \/ ledger.state = "NONE"
         \/ ledger.state = "reserved" /\ ledger.digest = d
      /\ UNCHANGED <<vars, slots, measured, clock>>
  BY <1>1, <1>2
  DEF Reserve, mayReserve, mine, verificationRequestDigest
<1>4. Fits(n) /\ n.pc = "begin"
  BY <1>1 DEF IInv, WorkersFit, Reserve, at
<1>5. DOMAIN n = Fields /\ n.seen \in Seens /\ resolvable(n.request)
      /\ n.request.candidate = Candidate
  BY <1>4 DEF Fits
<1>6. /\ DOMAIN ledger' = DOMAIN ledger /\ ledger'.state = "reserved"
      /\ ledger'.digest = d /\ ledger'.evidence = ledger.evidence
      /\ ledger'.final = ledger.final /\ ledger'.result = ledger.result
  BY <1>3 DEF IInv, LedgerFits
<1>7. Grows
  BY <1>3, <1>6 DEF Grows, Saved
<1>8. LedgerFits'
  <2>1. d[1] = n.request
    BY <1>2
  <2>2. resolvable(ledger.digest[1])'
    BY <1>5, <1>6, <2>1 DEF resolvable
  <2> QED
    BY <1>3, <1>6, <2>2 DEF IInv, LedgerFits, Saved
<1>9. PICK m : m = [n EXCEPT !.pc = "executions", !.owner = w]
  OBVIOUS
<1>10. /\ DOMAIN m = Fields /\ m.pc = "executions" /\ m.request = n.request
       /\ m.rev = n.rev /\ m.seen = n.seen
  BY <1>5, <1>9 DEF Fields
<1>11. Fits(m)'
  <2>1. resolvable(n.request)'
    BY <1>5 DEF resolvable
  <2> QED
    BY <1>2, <1>5, <1>6, <1>10, <2>1 DEF Fits, AtWork, Recording
<1>12. Moves(w, m)
  BY <1>1, <1>3, <1>9 DEF Moves, IInv, WorkersFit
<1>13. Accounts(w, m)
  BY <1>1, <1>3, <1>4, <1>10, AccountsNothing
<1>14. MeasuredFits' /\ UNCHANGED task
  BY <1>3 DEF IInv, MeasuredFits, vars
<1> QED
  BY <1>7, <1>8, <1>11, <1>12, <1>13, <1>14, WritesIInv

(* A worker past Begin that reads the result of another one.               *)
LEMMA RereadIInv ==
  ASSUME IInv, NEW w \in Workers, goto(w, "replay"), Unseen, UNCHANGED slots,
         worker[w].pc \in Recording
  PROVE  IInv'
<1>1. PICK m : /\ Moves(w, m) /\ DOMAIN m = Fields /\ m.pc = "replay"
               /\ m.request = worker[w].request /\ m.rev = worker[w].rev
               /\ m.seen = worker[w].seen
  BY GotoMoves, SMT
<1>2. PICK n : n = worker[w]
  OBVIOUS
<1>3. Fits(n) /\ n.pc \in Recording
  BY <1>2 DEF IInv, WorkersFit
<1>4. Fits(m)
  BY <1>1, <1>2, <1>3 DEF Fits, AtWork, Recording
<1>5. Accounts(w, m)
  BY <1>1, AccountsNothing DEF Recording
<1> QED
  BY <1>1, <1>4, <1>5, LocalIInv

(* The owner saves its evidence; whoever comes too late gives up.          *)
LEMMA SaveEvidenceIInv ==
  ASSUME IInv, NEW w \in Workers, SaveEvidence(w)
  PROVE  IInv'
<1>1. worker[w].pc = "save" /\ UNCHANGED <<vars, slots, measured, clock>>
  BY DEF SaveEvidence, at
<1>2. CASE saves(w)
  <2>1. PICK n : n = worker[w]
    OBVIOUS
  <2>2. /\ ledger' = [ledger EXCEPT !.state = "evidence_ready",
                                    !.evidence = n.evidence]
        /\ goto(w, "final-time") /\ ledger.state = "reserved"
    BY <1>2, <2>1 DEF SaveEvidence, saves
  <2>3. PICK m : /\ Moves(w, m) /\ DOMAIN m = Fields /\ m.pc = "final-time"
                 /\ m.request = n.request /\ m.rev = n.rev
                 /\ m.seen = n.seen /\ m.evidence = n.evidence
    BY <2>1, <2>2, GotoMoves, SMT
  <2>4. Fits(n) /\ n.pc = "save"
    BY <1>1, <2>1 DEF IInv, WorkersFit
  <2>5. /\ n.seen \in Seens /\ resolvable(n.request)
        /\ n.request.candidate = Candidate
        /\ ledger.digest = <<n.request, n.rev>>
        /\ Collected(n.request, n.evidence)
    BY <2>4 DEF Fits, AtWork
  <2>6. /\ DOMAIN ledger' = DOMAIN ledger /\ ledger'.state = "evidence_ready"
        /\ ledger'.evidence = n.evidence /\ ledger'.digest = ledger.digest
        /\ ledger'.final = ledger.final /\ ledger'.result = ledger.result
    BY <2>2 DEF IInv, LedgerFits
  <2>7. ledger.final = Nil /\ ledger.result = Nil
    BY <2>2 DEF IInv, LedgerFits, Saved
  <2>8. Grows
    BY <1>1, <2>2, <2>6, <2>7 DEF Grows, Saved
  <2>9. LedgerFits'
    <3>1. ledger'.digest[1] = n.request
      BY <2>5, <2>6, SMT
    <3>2. resolvable(ledger.digest[1])'
      BY <2>5, <3>1 DEF resolvable
    <3>3. Collected(ledger.digest[1], ledger.evidence)'
      BY <1>1, <2>5, <2>6, <3>1 DEF Collected
    <3> QED
      BY <2>6, <2>7, <3>2, <3>3 DEF IInv, LedgerFits, Saved
  <2>10. Fits(m)'
    <3>1. resolvable(n.request)'
      BY <2>5 DEF resolvable
    <3> QED
      BY <2>3, <2>5, <2>6, <3>1 DEF Fits, AtWork, Recording, Saved
  <2>11. MeasuredFits' /\ UNCHANGED task
    BY <1>1 DEF IInv, MeasuredFits, vars
  <2>12. Accounts(w, m)
    BY <1>1, <2>3, AccountsNothing
  <2> QED
    BY <2>3, <2>8, <2>9, <2>10, <2>11, <2>12, WritesIInv
<1>3. CASE ~saves(w)
  <2>1. stop(w) /\ Unseen /\ UNCHANGED slots
    BY <1>1, <1>3 DEF SaveEvidence, Unseen, vars
  <2> QED
    BY <1>1, <2>1, StopIInv
<1> QED
  BY <1>2, <1>3

(* The time of the transition is set once.                                 *)
LEMMA FinalTransitionTimeIInv ==
  ASSUME IInv, NEW w \in Workers, FinalTransitionTime(w)
  PROVE  IInv'
<1>1. worker[w].pc = "final-time" /\ UNCHANGED <<vars, slots, measured, clock>>
  BY DEF FinalTransitionTime, at
<1>2. CASE owns(w)
  <2>1. PICK n, t : n = worker[w] /\ t = finalTime
    OBVIOUS
  <2>2. /\ ledger' = [ledger EXCEPT !.final = t] /\ goto(w, "record")
        /\ ledger.state = "evidence_ready"
    BY <1>2, <2>1 DEF FinalTransitionTime, owns
  <2>3. t \in Times /\ t # Nil
    BY <2>1, VerificationAssumption
    DEF finalTime, IInv, LedgerFits, MeasuredFits
  <2>4. PICK m : /\ Moves(w, m) /\ DOMAIN m = Fields /\ m.pc = "record"
                 /\ m.request = n.request /\ m.rev = n.rev
                 /\ m.seen = n.seen /\ m.evidence = n.evidence
    BY <2>1, <2>2, GotoMoves, SMT
  <2>5. Fits(n) /\ n.pc = "final-time"
    BY <1>1, <2>1 DEF IInv, WorkersFit
  <2>6. /\ DOMAIN ledger' = DOMAIN ledger /\ ledger'.state = ledger.state
        /\ ledger'.evidence = ledger.evidence
        /\ ledger'.digest = ledger.digest
        /\ ledger'.final = t /\ ledger'.result = ledger.result
    BY <2>2 DEF IInv, LedgerFits
  <2>7. Grows
    BY <1>1, <2>3, <2>6 DEF Grows
  <2>8. LedgerFits'
    BY <1>1, <2>2, <2>3, <2>6
    DEF IInv, LedgerFits, Saved, Collected, resolvable
  <2>9. Fits(m)'
    <3>1. Fits(n)'
      BY <2>5, <2>7, FitsGrows
    <3> QED
      BY <2>3, <2>4, <2>5, <2>6, <3>1 DEF Fits, AtWork, Recording
  <2>10. MeasuredFits' /\ UNCHANGED task
    BY <1>1 DEF IInv, MeasuredFits, vars
  <2>11. Accounts(w, m)
    BY <1>1, <2>4, AccountsNothing
  <2> QED
    BY <2>4, <2>7, <2>8, <2>9, <2>10, <2>11, WritesIInv
<1>3. CASE ~owns(w)
  <2>1. goto(w, "replay") /\ Unseen /\ UNCHANGED slots
    BY <1>1, <1>3 DEF FinalTransitionTime, Unseen, vars
  <2>2. worker[w].pc \in Recording
    BY <1>1 DEF Recording
  <2> QED
    BY <2>1, <2>2, RereadIInv
<1> QED
  BY <1>2, <1>3

(* The saved evidence becomes the result.                                  *)
LEMMA CompleteIInv ==
  ASSUME IInv, NEW w \in Workers, Complete(w)
  PROVE  IInv'
<1>1. worker[w].pc = "complete" /\ UNCHANGED <<vars, slots, measured, clock>>
  BY DEF Complete, at
<1>2. CASE owns(w)
  <2>1. PICK n : n = worker[w]
    OBVIOUS
  <2>2. /\ ledger' = [ledger EXCEPT !.state = "completed",
                                    !.result = n.evidence]
        /\ goto(w, "answer") /\ ledger.state = "evidence_ready"
    BY <1>2, <2>1 DEF Complete, owns
  <2>3. PICK m : /\ Moves(w, m) /\ DOMAIN m = Fields /\ m.pc = "answer"
                 /\ m.request = n.request /\ m.rev = n.rev
                 /\ m.seen = n.seen /\ m.evidence = n.evidence
    BY <2>1, <2>2, GotoMoves, SMT
  <2>4. Fits(n) /\ n.pc = "complete"
    BY <1>1, <2>1 DEF IInv, WorkersFit
  <2>5. n.evidence = ledger.evidence
    BY <2>4 DEF Fits, Recording
  <2>6. /\ DOMAIN ledger' = DOMAIN ledger /\ ledger'.state = "completed"
        /\ ledger'.evidence = ledger.evidence
        /\ ledger'.digest = ledger.digest
        /\ ledger'.final = ledger.final /\ ledger'.result = n.evidence
    BY <2>2 DEF IInv, LedgerFits
  <2>7. Grows
    BY <1>1, <2>6 DEF Grows, Saved
  <2>8. LedgerFits'
    BY <1>1, <2>2, <2>5, <2>6
    DEF IInv, LedgerFits, Saved, Collected, resolvable
  <2>9. Fits(m)'
    <3>1. Fits(n)'
      BY <2>4, <2>7, FitsGrows
    <3> QED
      BY <2>3, <2>4, <2>6, <3>1 DEF Fits, AtWork, Recording
  <2>10. MeasuredFits' /\ UNCHANGED task
    BY <1>1 DEF IInv, MeasuredFits, vars
  <2>11. Accounts(w, m)
    BY <1>1, <2>3, AccountsNothing
  <2> QED
    BY <2>3, <2>7, <2>8, <2>9, <2>10, <2>11, WritesIInv
<1>3. CASE ~owns(w)
  <2>1. goto(w, "replay") /\ Unseen /\ UNCHANGED slots
    BY <1>1, <1>3 DEF Complete, Unseen, vars
  <2>2. worker[w].pc \in Recording
    BY <1>1 DEF Recording
  <2> QED
    BY <2>1, <2>2, RereadIInv
<1> QED
  BY <1>2, <1>3

-----------------------------------------------------------------------------
(* Steps that write the workflow.                                          *)

(* Evidence that a collection supports is well formed.                     *)
LEMMA CollectedEvidence ==
  ASSUME IInv, NEW r, NEW e, Collected(r, e)
  PROVE  e \in Evidence /\ e.report \in Artifacts /\ e # Nil
<1>1. PICK n \in DOMAIN measured :
        e = [report |-> ReportRef(n),
             passed |-> CalculateCoverage(r.requirements, measured[n])]
  BY DEF Collected
<1>2. n \in 1..MaxCollections
  <2>1. measured \in Seq(Seens) /\ Len(measured) <= MaxCollections
    BY DEF IInv, MeasuredFits
  <2>2. DOMAIN measured = 1..Len(measured) /\ Len(measured) \in Nat
    BY <2>1, SMT
  <2> QED
    BY <1>1, <2>1, <2>2, VerificationAssumption, SMT
<1>3. CalculateCoverage(r.requirements, measured[n]) \in BOOLEAN
  BY DEF CalculateCoverage
<1>4. e \in Evidence
  BY <1>1, <1>2, <1>3 DEF Evidence
<1> QED
  BY <1>1, <1>2, <1>4, VerificationAssumption

(* RecordTaskVerification binds the task to the evidence in the ledger,    *)
(* and its verdict decides where the task goes.                            *)
LEMMA RecordsTask ==
  ASSUME IInv, NEW w \in Workers, at(w, "record"), recordApplies(w),
         UNCHANGED ledger
  PROVE  TaskFits'
<1>1. PICK n, e : n = worker[w] /\ e = ledger.evidence
  OBVIOUS
<1>2. Fits(n) /\ n.pc = "record"
  BY <1>1 DEF IInv, WorkersFit, at
<1>3. n.request.candidate = Candidate /\ n.evidence = e /\ ledger.state \in Saved
  BY <1>1, <1>2 DEF Fits, Recording
<1>4. e \in Evidence /\ e.report \in Artifacts
  BY <1>1, <1>3, CollectedEvidence DEF IInv, LedgerFits
<1>5. PICK row : row = task[T]
  OBVIOUS
<1>6. row \in TaskRow
  BY <1>5, VerificationAssumption DEF IInv, TaskFits
<1>7. PICK b : b = [ref |-> e.report, attempt |-> row.attempt,
                    commit |-> Candidate, passed |-> e.passed]
  OBVIOUS
<1>8. b \in Binding
  BY <1>4, <1>6, <1>7, VerificationAssumption DEF Binding, TaskRow, Evidence
<1>9. PICK next : next = [row EXCEPT
          !.state = IF e.passed THEN "REVIEWING" ELSE "REWORK_REQUIRED",
          !.verif = b]
  OBVIOUS
<1>10. PICK m, d : persistTaskTransition(m, d, T, next)
  BY <1>1, <1>3, <1>5, <1>7, <1>9
  DEF recordApplies, recordTaskVerification, bound
<1>11. /\ DOMAIN next = DOMAIN row
       /\ next.state = IF e.passed THEN "REVIEWING" ELSE "REWORK_REQUIRED"
       /\ next.verif = b /\ next.rev = row.rev
  BY <1>6, <1>9 DEF TaskRow
<1>12. PICK to : to = [next EXCEPT !.rev = @ + 1]
  OBVIOUS
<1>13. task' = [u \in Tasks |-> IF u = T THEN to ELSE task[u]]
  BY <1>10, <1>11, <1>12 DEF persistTaskTransition, finishTaskTransition
<1>14. next \in TaskRow
  <2>1. b \in OptBinding
    BY <1>8 DEF OptBinding
  <2>2. next.state \in TaskStates \cup {"NONE"}
    BY <1>11 DEF TaskStates
  <2> QED
    BY <1>6, <1>9, <1>11, <2>1, <2>2 DEF TaskRow
<1>15. to \in TaskRow /\ to.state = next.state /\ to.verif = b
  BY <1>11, <1>12, <1>14, SMT DEF TaskRow
<1>16. task'[T] = to
  BY <1>13, VerificationAssumption
<1>17. task' \in [Tasks -> TaskRow]
  BY <1>13, <1>15 DEF IInv, TaskFits
<1>18. b # Nil /\ b.ref = e.report
  BY <1>7, <1>8, BindingAssumption
<1> QED
  BY <1>1, <1>3, <1>11, <1>15, <1>16, <1>17, <1>18 DEF TaskFits

(* What is left to show when the workflow was written.                     *)
LEMMA RecordingIInv ==
  ASSUME IInv, NEW w \in Workers, NEW m, Moves(w, m), Fits(m), TaskFits',
         m.pc \notin {"checks", "workspaces"}, worker[w].pc = "record",
         UNCHANGED <<ledger, slots, measured, clock>>
  PROVE  IInv'
<1>1. Grows
  BY DEF Grows
<1>2. Fits(m)' /\ LedgerFits'
  BY <1>1, FitsGrows, LedgerKept
<1>3. MeasuredFits'
  BY DEF IInv, MeasuredFits
<1>4. Accounts(w, m)
  BY AccountsNothing
<1> QED
  BY <1>1, <1>2, <1>3, <1>4, MovesFit, SlotsMove DEF IInv

(* The command is applied, was applied before, or is refused.              *)
LEMMA RecordIInv ==
  ASSUME IInv, NEW w \in Workers, Record(w)
  PROVE  IInv'
<1>1. /\ at(w, "record") /\ worker[w].pc = "record"
      /\ UNCHANGED <<ledger, slots, measured, clock>>
  BY DEF Record, at
<1>2. CASE stop(w) /\ UNCHANGED vars
  <2>1. Unseen
    BY <1>1, <1>2 DEF Unseen, vars
  <2> QED
    BY <1>1, <1>2, <2>1, StopIInv
<1>3. CASE goto(w, "complete") /\ (recordApplies(w) \/ UNCHANGED vars)
  <2>1. PICK m : /\ Moves(w, m) /\ DOMAIN m = Fields /\ m.pc = "complete"
                 /\ m.request = worker[w].request /\ m.rev = worker[w].rev
                 /\ m.seen = worker[w].seen
                 /\ m.evidence = worker[w].evidence
    BY <1>3, GotoMoves, SMT
  <2>2. PICK n : n = worker[w]
    OBVIOUS
  <2>3. Fits(n) /\ n.pc = "record"
    BY <1>1, <2>2 DEF IInv, WorkersFit
  <2>4. Fits(m)
    BY <2>1, <2>2, <2>3 DEF Fits, AtWork, Recording
  <2>5. TaskFits'
    <3>1. CASE recordApplies(w)
      BY <1>1, <3>1, RecordsTask
    <3>2. CASE UNCHANGED vars
      <4>1. UNCHANGED task
        BY <3>2 DEF vars
      <4> QED
        BY <1>1, <4>1 DEF IInv, TaskFits
    <3> QED
      BY <1>3, <3>1, <3>2
  <2> QED
    BY <1>1, <2>1, <2>4, <2>5, RecordingIInv
<1> QED
  BY <1>2, <1>3 DEF Record

(* A failed call ends the worker, though the command may have been applied. *)
LEMMA StepErrorIInv ==
  ASSUME IInv, NEW w \in Workers, StepError(w)
  PROVE  IInv'
<1>1. /\ stop(w) /\ UNCHANGED <<ledger, slots, measured, clock>>
      /\ worker[w].pc \notin {"checks", "workspaces"}
  BY DEF StepError
<1>2. CASE at(w, "record") /\ recordApplies(w)
  <2>1. TaskFits' /\ worker[w].pc = "record"
    BY <1>1, <1>2, RecordsTask DEF at
  <2>2. Moves(w, Idle) /\ Idle.pc = "idle"
    BY <1>1 DEF stop, Moves, Idle
  <2> QED
    BY <1>1, <2>1, <2>2, IdleFits, RecordingIInv
<1>3. CASE UNCHANGED vars
  <2>1. Unseen
    BY <1>1, <1>3 DEF Unseen, vars
  <2> QED
    BY <1>1, <2>1, StopIInv
<1> QED
  BY <1>2, <1>3 DEF StepError

-----------------------------------------------------------------------------
(* The world around the service.                                           *)

(* Where no worker moves, memories and semaphores go on fitting.           *)
LEMMA StillFit ==
  ASSUME IInv, Grows, UNCHANGED <<worker, slots>>
  PROVE  WorkersFit' /\ SlotsFit'
<1>1. ASSUME NEW v \in Workers PROVE Fits(worker[v])'
  <2>1. PICK n : n = worker[v]
    OBVIOUS
  <2>2. Fits(n)'
    BY <2>1, FitsGrows DEF IInv, WorkersFit
  <2> QED
    BY <2>1, <2>2
<1>2. WorkersFit'
  BY <1>1 DEF IInv, WorkersFit
<1>3. \A k : Holders(k)' = Holders(k)
  BY DEF Holders
<1>4. SlotsFit'
  BY <1>3 DEF IInv, SlotsFit
<1> QED
  BY <1>2, <1>4

(* A process that comes back has all its places and no calls.              *)
LEMMA CrashIInv == ASSUME IInv, Crash PROVE IInv'
<1>1. /\ worker' = [w \in Workers |-> Idle] /\ Unseen
      /\ slots' = [executions |-> MaxConcurrent, workspaces |-> MaxConcurrent]
  BY DEF Crash, Unseen, vars
<1>2. WorkersFit'
  <2>1. DOMAIN worker' = Workers /\ \A w \in Workers : worker'[w] = Idle
    BY <1>1
  <2> QED
    BY <2>1, IdleFits DEF WorkersFit
<1>3. SlotsFit'
  <2>1. slots' \in [Kinds -> 0..MaxConcurrent]
        /\ \A k \in Kinds : slots'[k] = MaxConcurrent
    BY <1>1, VerificationAssumption, SMT DEF Kinds
  <2>2. \A w \in Workers : worker'[w].pc = "idle"
    BY <1>1 DEF Idle
  <2>3. \A k \in Kinds : Holders(k)' = {}
    BY <2>2 DEF Holders, Holds
  <2>4. \A k \in Kinds : Cardinality(Holders(k)') = 0
    BY <2>3, FS_EmptySet
  <2> QED
    BY <2>1, <2>4, VerificationAssumption, SMT DEF SlotsFit
<1> QED
  BY <1>1, <1>2, <1>3, UnseenRest DEF IInv

(* A reservation runs out.                                                 *)
LEMMA ExpireIInv == ASSUME IInv, Expire PROVE IInv'
<1>1. /\ ledger' = [ledger EXCEPT !.expired = TRUE]
      /\ UNCHANGED <<vars, worker, slots, measured, clock>>
  BY DEF Expire
<1>2. /\ DOMAIN ledger' = DOMAIN ledger /\ ledger'.state = ledger.state
      /\ ledger'.evidence = ledger.evidence
      /\ ledger'.digest = ledger.digest
      /\ ledger'.final = ledger.final /\ ledger'.result = ledger.result
  BY <1>1 DEF IInv, LedgerFits
<1>3. Grows
  BY <1>1, <1>2 DEF Grows
<1>4. LedgerFits'
  BY <1>1, <1>2 DEF IInv, LedgerFits, Saved, Collected, resolvable
<1>5. MeasuredFits' /\ UNCHANGED task
  BY <1>1 DEF IInv, MeasuredFits, vars
<1> QED
  BY <1>1, <1>3, <1>4, <1>5, StillFit, TaskKept DEF IInv

(* Time passes.                                                            *)
LEMMA TickIInv == ASSUME IInv, Tick PROVE IInv'
<1>1. clock' \in Times /\ UNCHANGED <<task, ledger, worker, slots, measured>>
  BY DEF Tick, vars
<1>2. Grows
  BY <1>1 DEF Grows
<1>3. MeasuredFits'
  BY <1>1 DEF IInv, MeasuredFits
<1> QED
  BY <1>1, <1>2, <1>3, StillFit, TaskKept, LedgerKept DEF IInv

(* A cancelled task keeps its verification.                                *)
LEMMA CancelIInv == ASSUME IInv, Cancel PROVE IInv'
<1>1. /\ task' = cancelRunTasks
      /\ UNCHANGED <<ledger, worker, slots, measured, clock>>
  BY DEF Cancel, cancelRun, verifVars
<1>2. Grows
  BY <1>1 DEF Grows
<1>3. ASSUME NEW t \in Tasks
      PROVE  /\ task'[t] \in TaskRow
             /\ task'[t].verif = task[t].verif
             /\ \/ task'[t].state = "CANCELLED"
                \/ task'[t].state = task[t].state
  <2>1. PICK row : row = task[t]
    OBVIOUS
  <2>2. row \in TaskRow
    BY <2>1 DEF IInv, TaskFits
  <2>3. PICK to : to = [row EXCEPT !.state = "CANCELLED", !.rev = @ + 1]
    OBVIOUS
  <2>4. to \in TaskRow /\ to.verif = row.verif /\ to.state = "CANCELLED"
    <3>1. "CANCELLED" \in TaskStates \cup {"NONE"} /\ row.rev + 1 \in Nat
      BY <2>2, SMT DEF TaskRow, TaskStates
    <3> QED
      BY <2>2, <2>3, <3>1 DEF TaskRow
  <2>5. task'[t] = to \/ task'[t] = row
    BY <1>1, <2>1, <2>3 DEF cancelRunTasks
  <2> QED
    BY <2>1, <2>2, <2>4, <2>5
<1>4. task' \in [Tasks -> TaskRow]
  BY <1>1, <1>3 DEF cancelRunTasks
<1>5. TaskFits'
  BY <1>1, <1>3, <1>4, VerificationAssumption DEF IInv, TaskFits
<1>6. MeasuredFits'
  BY <1>1 DEF IInv, MeasuredFits
<1> QED
  BY <1>1, <1>2, <1>5, <1>6, StillFit, LedgerKept DEF IInv

-----------------------------------------------------------------------------
(* Every step keeps the invariant.                                         *)
LEMMA NextIInv == IInv /\ [VerifNext]_allVars => IInv'
<1> SUFFICES ASSUME IInv, [VerifNext]_allVars PROVE IInv'
  OBVIOUS
<1>1. ASSUME NEW w \in Workers, Step(w) PROVE IInv'
  BY <1>1, ReserveIInv, ResumeIInv, EndsIInv, AcquireIInv, RunCheckIInv,
     StoreReportIInv, SaveEvidenceIInv, FinalTransitionTimeIInv, RecordIInv,
     CompleteIInv
  DEF Step
<1>2. ASSUME NEW w \in Workers,
             AcquireCancelled(w) \/ CollectError(w) \/ StepError(w)
      PROVE  IInv'
  BY <1>2, AbandonsIInv, StepErrorIInv
<1>3. CASE UNCHANGED allVars
  <2>1. Unseen /\ UNCHANGED <<worker, slots>>
    BY <1>3 DEF allVars, verifVars, vars, Unseen
  <2> QED
    BY <2>1, UnseenGrows, UnseenRest, StillFit DEF IInv
<1> QED
  BY <1>1, <1>2, <1>3, CallIInv, CrashIInv, ExpireIInv, TickIInv, CancelIInv
  DEF VerifNext

(* So it holds throughout.                                                 *)
LEMMA AlwaysIInv == VerifSpec => []IInv
BY InitIInv, NextIInv, PTL DEF VerifSpec

-----------------------------------------------------------------------------
(* What the invariant shows.                                               *)

(* A verdict that passed names a check for every criterion, and each of    *)
(* them gave zero in that collection.                                      *)
LEMMA CoverageMeans ==
  ASSUME NEW r, NEW s, resolvable(r), CalculateCoverage(r.requirements, s)
  PROVE  \A c \in Criteria :
           /\ r.requirements[c] # {}
           /\ \A k \in r.requirements[c] : s[k] = "zero"
BY DEF resolvable, CalculateCoverage, passed

(* A task comes to its review only on a collection in which every one of   *)
(* its criteria had a check and every check passed (catalog.go             *)
(* CalculateCoverage, service.go Verify), whichever worker collected it,   *)
(* whichever worker recorded it, and whatever other collections gave.      *)
THEOREM PassedHasEveryCriterion == VerifSpec => []PassedMeansEveryCriterion
<1>1. IInv => PassedMeansEveryCriterion
  <2> SUFFICES ASSUME IInv, task[T].state = "REVIEWING"
               PROVE  PassedMeansEveryCriterion
    BY DEF PassedMeansEveryCriterion
  <2>1. /\ ledger.state \in Saved /\ ledger.evidence.passed
        /\ task[T].verif.ref = ledger.evidence.report
    BY DEF IInv, TaskFits
  <2>2. PICK r, e : r = ledger.digest[1] /\ e = ledger.evidence
    OBVIOUS
  <2>3. Collected(r, e) /\ resolvable(r)
    BY <2>1, <2>2 DEF IInv, LedgerFits, Saved
  <2>4. PICK n \in DOMAIN measured :
          e = [report |-> ReportRef(n),
               passed |-> CalculateCoverage(r.requirements, measured[n])]
    BY <2>3 DEF Collected
  <2>5. PICK s : s = measured[n]
    OBVIOUS
  <2>6. CalculateCoverage(r.requirements, s)
    <3>1. e = [report |-> ReportRef(n),
               passed |-> CalculateCoverage(r.requirements, s)]
      BY <2>4, <2>5
    <3>2. e.passed
      BY <2>1, <2>2
    <3> QED
      BY <3>1, <3>2
  <2>7. \A c \in Criteria : /\ r.requirements[c] # {}
                            /\ \A k \in r.requirements[c] : s[k] = "zero"
    BY <2>3, <2>6, CoverageMeans, SMT
  <2>8. task[T].verif.ref = ReportRef(n)
    BY <2>1, <2>2, <2>4, SMT
  <2> QED
    BY <2>2, <2>5, <2>7, <2>8 DEF PassedMeansEveryCriterion
<1> QED
  BY <1>1, AlwaysIInv, PTL

(* The state predicates of VerifiedOnce.                                   *)
LEMMA RecordedInvariants ==
  IInv => VerifTypeOK /\ RecordedEvidenceIsSaved
<1> SUFFICES ASSUME IInv PROVE VerifTypeOK /\ RecordedEvidenceIsSaved
  OBVIOUS
<1>1. PICK r, e : r = ledger.digest[1] /\ e = ledger.evidence
  OBVIOUS
<1>2. ledger.state \in Saved => e # Nil
  BY <1>1, CollectedEvidence DEF IInv, LedgerFits
<1>3. VerifTypeOK
  <2>1. task \in [Tasks -> TaskRow]
    BY DEF IInv, TaskFits
  <2>2. slots \in [{"executions", "workspaces"} -> 0..MaxConcurrent]
    BY DEF IInv, SlotsFit, Kinds
  <2>3. /\ ledger.state \in {"NONE", "reserved"} \cup Saved
        /\ ledger.state \notin Saved => e = Nil /\ ledger.final = Nil
        /\ ledger.final \in Times \cup {Nil}
        /\ ledger.result = IF ledger.state = "completed" THEN e ELSE Nil
    BY <1>1 DEF IInv, LedgerFits
  <2> QED
    BY <1>1, <1>2, <2>1, <2>2, <2>3 DEF VerifTypeOK, Saved
<1>4. RecordedEvidenceIsSaved
  BY <1>1, <1>2 DEF IInv, TaskFits, RecordedEvidenceIsSaved
<1> QED
  BY <1>3, <1>4

(* At the start there is no result, and nobody was given one.              *)
LEMMA OutcomeInit == VerifInit => Outcome!Init
<1> SUFFICES ASSUME VerifInit PROVE Outcome!Init
  OBVIOUS
<1>1. ledger.result = Nil /\ returned = {}
  BY DEF VerifInit, NoRow
<1> QED
  BY <1>1 DEF Outcome!Init

(* A caller that is given what the row holds is a step of WriteOnce.       *)
LEMMA OutcomeReturns ==
  ASSUME NEW e, e = ledger.result, e # Nil, UNCHANGED ledger,
         returned' = returned \cup {<<T, e>>}
  PROVE  Outcome!Next
<1>1. Outcome!Return(T)
  BY DEF Outcome!Return
<1> QED
  BY <1>1 DEF Outcome!Next

(* Every step is a step of WriteOnce, or one it does not see.              *)
LEMMA OutcomeStep ==
  IInv /\ [VerifNext]_allVars => [Outcome!Next]_(Outcome!vars)
<1> SUFFICES ASSUME IInv, [VerifNext]_allVars
             PROVE  Outcome!Next \/ UNCHANGED Outcome!vars
  OBVIOUS
<1>1. CASE ledger'.result = ledger.result /\ UNCHANGED returned
  <2>1. [t \in {T} |-> ledger'.result] = [t \in {T} |-> ledger.result]
    BY <1>1
  <2> QED
    BY <1>1, <2>1 DEF Outcome!vars
<1>2. ASSUME NEW w \in Workers, Replay(w) PROVE Outcome!Next
  <2>1. PICK e : e = ledger.result
    OBVIOUS
  <2>2. ledger.state = "completed" /\ UNCHANGED ledger
        /\ returned' = returned \cup {<<T, e>>}
    BY <1>2, <2>1 DEF Replay, replayable
  <2>3. e = ledger.evidence /\ Collected(ledger.digest[1], ledger.evidence)
    BY <2>1, <2>2 DEF IInv, LedgerFits, Saved
  <2>4. e # Nil
    BY <2>3, CollectedEvidence
  <2> QED
    BY <2>1, <2>2, <2>4, OutcomeReturns
<1>3. ASSUME NEW w \in Workers, Answer(w) PROVE Outcome!Next
  <2>1. PICK n, e : n = worker[w] /\ e = n.evidence
    OBVIOUS
  <2>2. Fits(n) /\ n.pc = "answer"
    BY <1>3, <2>1 DEF IInv, WorkersFit, Answer, at
  <2>3. ledger.state = "completed" /\ e = ledger.evidence
    BY <2>1, <2>2 DEF Fits, Recording
  <2>4. e = ledger.result /\ Collected(ledger.digest[1], ledger.evidence)
    BY <2>3 DEF IInv, LedgerFits, Saved
  <2>5. e # Nil
    BY <2>3, <2>4, CollectedEvidence
  <2>6. UNCHANGED ledger /\ returned' = returned \cup {<<T, e>>}
    BY <1>3, <2>1 DEF Answer
  <2> QED
    BY <2>4, <2>5, <2>6, OutcomeReturns
<1>4. ASSUME NEW w \in Workers, Complete(w), owns(w) PROVE Outcome!Next
  <2>1. PICK n, e : n = worker[w] /\ e = n.evidence
    OBVIOUS
  <2>2. Fits(n) /\ n.pc = "complete"
    BY <1>4, <2>1 DEF IInv, WorkersFit, Complete, at
  <2>3. e = ledger.evidence /\ ledger.state = "evidence_ready"
    BY <1>4, <2>1, <2>2 DEF Fits, Recording, owns
  <2>4. ledger.result = Nil /\ Collected(ledger.digest[1], ledger.evidence)
    BY <2>3 DEF IInv, LedgerFits, Saved
  <2>5. e \in Evidence
    BY <2>3, <2>4, CollectedEvidence
  <2>6. ledger' = [ledger EXCEPT !.state = "completed", !.result = e]
        /\ UNCHANGED returned
    BY <1>4, <2>1 DEF Complete
  <2>7. ledger'.result = e
    BY <2>6 DEF IInv, LedgerFits
  <2>8. PICK f, g : /\ f = [t \in {T} |-> ledger.result]
                    /\ g = [t \in {T} |-> ledger'.result]
    OBVIOUS
  <2>9. f[T] = Nil /\ g = [f EXCEPT ![T] = e]
    BY <2>4, <2>7, <2>8
  <2>10. Outcome!Record(T, e)
    BY <2>6, <2>8, <2>9 DEF Outcome!Record
  <2> QED
    BY <2>5, <2>10 DEF Outcome!Next
<1>5. \/ UNCHANGED returned
      \/ \E w \in Workers : Replay(w) \/ Answer(w)
  BY DEF VerifNext, allVars, verifVars, Call, Step, Reserve, Resume,
         BeginRefused, AcquireExecutions, AcquireWorkspaces, Acquire,
         RunCheck, StoreReport, SaveEvidence, FinalTransitionTime, Record,
         Complete, AcquireCancelled, CollectError, StepError, Crash, Expire,
         Tick, Cancel
<1>6. \/ ledger'.result = ledger.result
      \/ \E w \in Workers : Complete(w) /\ owns(w)
  <2>1. DOMAIN ledger =
       {"state", "digest", "owner", "expired", "evidence", "final", "result"}
    BY DEF IInv, LedgerFits
  <2>2. \/ UNCHANGED ledger \/ Expire
        \/ \E w \in Workers :
             Reserve(w) \/ SaveEvidence(w) \/ FinalTransitionTime(w)
             \/ Complete(w)
    BY DEF VerifNext, allVars, verifVars, Call, Step, Resume, Replay,
           BeginRefused, AcquireExecutions, AcquireWorkspaces, Acquire,
           RunCheck, StoreReport, Record, Answer,
           AcquireCancelled, CollectError, StepError, Crash, Tick, Cancel
  <2> QED
    BY <2>1, <2>2
    DEF Expire, Reserve, SaveEvidence, FinalTransitionTime, Complete
<1> QED
  BY <1>1, <1>2, <1>3, <1>4, <1>5, <1>6

(* A verification is recorded once: the ledger row fits its state, the     *)
(* task carries the evidence that was saved first and goes where its       *)
(* verdict says, no place of a semaphore is lost, and the one result of    *)
(* the row is what every caller is given (repository.go, service.go),      *)
(* through crashes, lost answers, takeovers and cancellation.              *)
THEOREM VerificationHappensOnce == VerifSpec => VerifiedOnce
<1>1. VerifSpec => [](VerifTypeOK /\ RecordedEvidenceIsSaved)
  BY AlwaysIInv, RecordedInvariants, PTL
<1>2. VerifSpec => VerificationsImplementWriteOnce
  BY OutcomeInit, OutcomeStep, AlwaysIInv, PTL
  DEF VerifSpec, VerificationsImplementWriteOnce, Outcome!Spec
<1> QED
  BY <1>1, <1>2 DEF VerifiedOnce

=============================================================================
