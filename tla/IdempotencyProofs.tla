------------------------- MODULE IdempotencyProofs --------------------------
(***************************************************************************)
(* The HTTP idempotency ledger, for any number of keys, handlers, runs and *)
(* bodies and any bounds on takeovers and faults: the safety properties of *)
(* Idempotency, and that the ledger implements the write-once register.    *)
(***************************************************************************)
EXTENDS Idempotency, TLAPS

(* Most leaves are first-order steps, which Zenon proves; a leaf that      *)
(* needs arithmetic or the fields of records names SMT.                    *)
USE Zenon

-----------------------------------------------------------------------------
(* Types.                                                                  *)

(* The memories that steps of a handler make.                              *)
LEMMA MemoryTypes ==
  ASSUME NEW m \in Handler
  PROVE  /\ \A p \in {"begin", "work", "commit", "complete", "abandon",
                      "reply", "stop"} :
              /\ [m EXCEPT !.pc = p] \in Handler
              /\ \A a \in Responses \cup {None} :
                   [m EXCEPT !.pc = p, !.resp = a] \in Handler
              /\ \A g \in 0..MaxGen :
                   [m EXCEPT !.pc = p, !.fence = g, !.ctx = TRUE] \in Handler
         /\ [m EXCEPT !.ctx = FALSE] \in Handler
BY ZenonT(30) DEF Handler

(* The memory of a handler that serves nothing, or has just been given a   *)
(* request.                                                                *)
LEMMA IdleTypes ==
  /\ Idle \in Handler
  /\ \A k \in Keys, q \in Requests :
       [Idle EXCEPT !.pc = "begin", !.key = k, !.req = q] \in Handler
<1>1. 0 \in 0..MaxGen
  BY BoundsAssumption, SMT
<1>2. QED
  BY <1>1 DEF Idle, Handler

(* The rows that steps make.                                               *)
LEMMA RowTypes ==
  /\ NoRow \in Row
  /\ \A q \in Requests :
       [NoRow EXCEPT !.state = "RESERVED", !.req = q, !.gen = 1, !.live = TRUE]
         \in Row
  /\ \A r \in Row :
       /\ [r EXCEPT !.live = TRUE] \in Row /\ [r EXCEPT !.live = FALSE] \in Row
       /\ r.gen < MaxGen => reclaimed(r) \in Row
       /\ \A a \in Responses : answered(r, a) \in Row
<1>1. 0 \in 0..MaxGen /\ 1 \in 0..MaxGen
  BY BoundsAssumption, SMT
<1>2. ASSUME NEW r \in Row, r.gen < MaxGen PROVE r.gen + 1 \in 0..MaxGen
  BY <1>2, BoundsAssumption, SMT DEF Row
<1>3. NoRow \in Row
  BY <1>1 DEF NoRow, Row
<1>4. ASSUME NEW q \in Requests
      PROVE  [NoRow EXCEPT !.state = "RESERVED", !.req = q, !.gen = 1,
                           !.live = TRUE] \in Row
  BY <1>1 DEF NoRow, Row
<1>5. ASSUME NEW r \in Row
      PROVE  /\ [r EXCEPT !.live = TRUE] \in Row
             /\ [r EXCEPT !.live = FALSE] \in Row
             /\ \A a \in Responses : answered(r, a) \in Row
  BY DEF Row, answered
<1>6. ASSUME NEW r \in Row, r.gen < MaxGen PROVE reclaimed(r) \in Row
  BY <1>6, <1>2 DEF Row, reclaimed
<1>7. QED
  BY <1>3, <1>4, <1>5, <1>6

-----------------------------------------------------------------------------
(* The inductive invariant.  The properties of Idempotency are about rows; *)
(* what preserves them is that the memory of a handler fits the row of its *)
(* key: its generation is at most the row's, its request the row's, and an *)
(* answer in hand is the one on record.                                    *)

Holding == {"work", "commit", "complete", "abandon", "stop"}

MemoryFits(m) ==
  /\ m.pc # "idle" => m.key \in Keys /\ m.req \in Requests
  /\ m.pc \in {"idle", "begin"} => m.fence = 0
  /\ m.pc \in Holding => m.fence > 0
  /\ m.fence > 0 =>
       /\ m.key \in Keys /\ row[m.key].state # "NONE"
       /\ row[m.key].req = m.req /\ m.fence <= row[m.key].gen
  /\ m.pc = "complete" => m.resp \in Responses /\ m.req.body \notin Intakes
  /\ m.pc = "commit" => m.req.body \in Intakes
  /\ m.pc = "reply" =>
       /\ row[m.key].state = "DONE"
       /\ row[m.key].req = m.req /\ row[m.key].resp = m.resp

HandlersFit == \A h \in Handlers : MemoryFits(handler[h])

RowsNamed == \A k \in Keys : row[k].state # "NONE" => row[k].req \in Requests

IInv ==
  TypeOK /\ HandlersFit /\ RowsNamed /\ AnswersAgree /\ IntakeAllOrNothing
    /\ OneHolder

(* The empty ledger satisfies it.                                          *)
LEMMA InitIInv == Init => IInv
<1> SUFFICES ASSUME Init PROVE IInv
  OBVIOUS
<1>1. /\ Idle.pc = "idle" /\ Idle.fence = 0
      /\ NoRow.state = "NONE" /\ NoRow.resp = None
  BY DEF Idle, NoRow
<1>2. TypeOK
  <2>1. row \in [Keys -> Row] /\ handler \in [Handlers -> Handler]
    BY IdleTypes, RowTypes DEF Init
  <2>2. \A k \in Keys : row[k].state = "DONE" <=> row[k].resp # None
    BY <1>1 DEF Init
  <2>3. /\ created \in [Runs -> [key : Keys, req : Requests] \cup {None}]
        /\ binding \in [Runs -> Requests \cup {None}]
    BY DEF Init
  <2>4. sent \subseteq Keys \X Requests \X Responses /\ faults \in 0..MaxFaults
    BY BoundsAssumption, SMT DEF Init
  <2>5. QED
    BY <2>1, <2>2, <2>3, <2>4 DEF TypeOK
<1>3. HandlersFit
  BY <1>1, SMT DEF Init, HandlersFit, MemoryFits, Holding
<1>4. RowsNamed /\ AnswersAgree /\ IntakeAllOrNothing /\ OneHolder
  BY <1>1, SMT
  DEF Init, RowsNamed, AnswersAgree, IntakeAllOrNothing, OneHolder
<1>5. QED
  BY <1>2, <1>3, <1>4 DEF IInv

-----------------------------------------------------------------------------
(* Steps, by what they do to the ledger.                                   *)

SameRow(k) ==
  /\ row'[k].state = row[k].state /\ row'[k].req = row[k].req
  /\ row'[k].gen = row[k].gen /\ row'[k].resp = row[k].resp

(* A step that changes at most who is alive, and memories in a way that    *)
(* gives nobody a new generation.                                          *)
Quiet ==
  /\ \A k \in Keys : SameRow(k)
  /\ created' = created /\ binding' = binding /\ sent' = sent
  /\ \A h \in Handlers :
       /\ MemoryFits(handler'[h])
       /\ \/ handler'[h].fence = 0
          \/ /\ handler'[h].fence = handler[h].fence
             /\ handler'[h].key = handler[h].key

(* A quiet step preserves the invariant.                                   *)
LEMMA QuietIInv ==
  ASSUME IInv, TypeOK', Quiet PROVE IInv'
<1>1. HandlersFit'
  <2> SUFFICES ASSUME NEW h \in Handlers PROVE MemoryFits(handler[h])'
    BY DEF HandlersFit
  <2>1. MemoryFits(handler'[h])
    BY DEF Quiet
  <2>2. \A k \in Keys : SameRow(k)
    BY DEF Quiet
  <2>3. QED
    BY <2>1, <2>2 DEF MemoryFits, SameRow, Holding
<1>2. RowsNamed'
  BY DEF Quiet, SameRow, IInv, RowsNamed
<1>3. AnswersAgree'
  <2>1. \A a \in sent : a[1] \in Keys
    BY DEF IInv, TypeOK
  <2>2. QED
    BY <2>1 DEF Quiet, SameRow, IInv, AnswersAgree
<1>4. IntakeAllOrNothing'
  <2>1. \A r \in Runs : created[r] # None => created[r].key \in Keys
    BY DEF IInv, TypeOK
  <2>2. QED
    BY <2>1, ZenonT(30) DEF Quiet, SameRow, IInv, IntakeAllOrNothing
<1>5. OneHolder'
  BY SMT DEF Quiet, IInv, OneHolder, TypeOK, Handler
<1>6. QED
  BY <1>1, <1>2, <1>3, <1>4, <1>5 DEF IInv

(* A step that replaces the memory of one handler by one that fits.        *)
LEMMA MemoryIInv ==
  ASSUME IInv, NEW h \in Handlers, NEW m \in Handler,
         handler' = [handler EXCEPT ![h] = m], MemoryFits(m),
         m.fence = 0 \/ (m.fence = handler[h].fence /\ m.key = handler[h].key),
         row' \in [Keys -> Row], \A k \in Keys : SameRow(k),
         created' = created, binding' = binding, sent' = sent,
         faults' \in 0..MaxFaults
  PROVE  IInv'
<1>1. handler' \in [Handlers -> Handler]
  BY DEF IInv, TypeOK
<1>2. \A k \in Keys : row'[k].state = "DONE" <=> row'[k].resp # None
  BY DEF IInv, TypeOK, SameRow
<1>3. TypeOK'
  BY <1>1, <1>2 DEF IInv, TypeOK
<1>4. Quiet
  BY DEF Quiet, IInv, TypeOK, HandlersFit
<1>5. QED
  BY <1>3, <1>4, QuietIInv

(* A step of the clock, or a renewal, changes only whether a row is live.  *)
LEMMA LiveRow ==
  ASSUME IInv, NEW k \in Keys, NEW b \in BOOLEAN,
         row' = [row EXCEPT ![k].live = b]
  PROVE  row' \in [Keys -> Row] /\ \A j \in Keys : SameRow(j)
<1>1. row \in [Keys -> Row] /\ row[k] \in Row
  BY DEF IInv, TypeOK
<1>2. row' = [row EXCEPT ![k] = [row[k] EXCEPT !.live = b]]
  BY <1>1
<1>3. [row[k] EXCEPT !.live = b] \in Row
  BY <1>1, RowTypes
<1>4. LET r == [row[k] EXCEPT !.live = b]
      IN  /\ r.state = row[k].state /\ r.req = row[k].req
          /\ r.gen = row[k].gen /\ r.resp = row[k].resp
  BY <1>1 DEF Row
<1>5. QED
  BY <1>1, <1>2, <1>3, <1>4 DEF SameRow

(* ... and leaves the invariant.                                           *)
LEMMA ClockIInv ==
  ASSUME IInv, NEW k \in Keys, Expire(k) \/ ExpireSlow(k) PROVE IInv'
<1>1. /\ row' = [row EXCEPT ![k].live = FALSE]
      /\ handler' = handler /\ created' = created /\ binding' = binding
      /\ sent' = sent /\ (faults' = faults \/ Fault)
  BY DEF Expire, ExpireSlow
<1>2. row' \in [Keys -> Row] /\ \A j \in Keys : SameRow(j)
  BY <1>1, LiveRow
<1>3. faults' \in 0..MaxFaults
  BY <1>1, BoundsAssumption, SMT DEF IInv, TypeOK, Fault
<1>4. \A j \in Keys : row'[j].state = "DONE" <=> row'[j].resp # None
  BY <1>2 DEF IInv, TypeOK, SameRow
<1>5. TypeOK'
  BY <1>1, <1>2, <1>3, <1>4 DEF IInv, TypeOK
<1>6. Quiet
  BY <1>1, <1>2 DEF Quiet, IInv, HandlersFit
<1>7. QED
  BY <1>5, <1>6, QuietIInv

(* The steps of a handler that leave the ledger as it is, but for who is   *)
(* alive.                                                                  *)
QuietStep(h) ==
  \/ Arrive(h) \/ BeginReplay(h) \/ BeginRefused(h) \/ Renew(h)
  \/ RenewError(h) \/ Mutate(h) \/ WorkCancelled(h) \/ WorkError(h)
  \/ (Complete(h) /\ ~holds(h)) \/ Abandon(h) \/ Stop(h) \/ StageArtifacts(h)
  \/ CommitIntakeLost(h) \/ CommitIntakeRefused(h) \/ Crash(h)

(* The ledger side of such a step.                                         *)
LEMMA QuietLedger ==
  ASSUME IInv, NEW h \in Handlers, QuietStep(h)
  PROVE  /\ row' \in [Keys -> Row] /\ \A k \in Keys : SameRow(k)
         /\ created' = created /\ binding' = binding /\ sent' = sent
         /\ faults' \in 0..MaxFaults
<1>1. /\ created' = created /\ binding' = binding /\ sent' = sent
      /\ faults' = faults \/ Fault
  BY DEF QuietStep, Arrive, BeginReplay, BeginRefused, Renew, RenewError,
         Mutate, WorkCancelled, WorkError, Complete, Abandon, Stop,
         StageArtifacts, CommitIntakeLost, CommitIntakeRefused, Crash
<1>2. faults' \in 0..MaxFaults
  BY <1>1, BoundsAssumption, SMT DEF IInv, TypeOK, Fault
<1>3. CASE row' = row
  BY <1>1, <1>2, <1>3 DEF IInv, TypeOK, SameRow
<1>4. CASE /\ handler[h].pc \in Holding
           /\ \E b \in BOOLEAN : row' = [row EXCEPT ![handler[h].key].live = b]
  <2>1. handler[h].key \in Keys
    BY <1>4 DEF IInv, HandlersFit, MemoryFits, Holding
  <2>2. QED
    BY <1>1, <1>2, <1>4, <2>1, LiveRow
<1>5. \/ row' = row
      \/ /\ handler[h].pc \in Holding
         /\ \E b \in BOOLEAN : row' = [row EXCEPT ![handler[h].key].live = b]
  BY DEF QuietStep, Arrive, BeginReplay, BeginRefused, Renew, RenewError,
         Mutate, WorkCancelled, WorkError, Complete, Abandon, Stop, Holding,
         StageArtifacts, CommitIntakeLost, CommitIntakeRefused, Crash
<1>6. QED
  BY <1>1, <1>2, <1>3, <1>4, <1>5

(* The new memory of the handler.                                          *)
Memory(h, m) ==
  /\ handler' = [handler EXCEPT ![h] = m]
  /\ m \in Handler /\ MemoryFits(m)
  /\ m.fence = 0 \/ (m.fence = handler[h].fence /\ m.key = handler[h].key)

(* A handler that ends, or begins with a request, fits every row.          *)
LEMMA FreshMemory ==
  /\ MemoryFits(Idle) /\ Idle.fence = 0
  /\ \A k \in Keys, q \in Requests :
       LET m == [Idle EXCEPT !.pc = "begin", !.key = k, !.req = q]
       IN  MemoryFits(m) /\ m.fence = 0
BY SMT DEF Idle, MemoryFits, Holding

(* The memory side of a quiet step.                                        *)
LEMMA QuietMemory ==
  ASSUME IInv, NEW h \in Handlers, QuietStep(h)
  PROVE  \E m : Memory(h, m)
<1> DEFINE M == handler[h]
<1>1. M \in Handler /\ MemoryFits(M) /\ handler \in [Handlers -> Handler]
  BY DEF IInv, TypeOK, HandlersFit
<1>2. CASE \/ BeginRefused(h) \/ Stop(h) \/ Crash(h)
  <2>1. Memory(h, Idle)
    BY <1>2, IdleTypes, FreshMemory DEF Memory, BeginRefused, Stop, Crash
  <2>2. QED
    BY <2>1
<1>3. CASE Arrive(h)
  <2>1. PICK k \in Keys, q \in Requests :
          handler' = [handler EXCEPT
            ![h] = [Idle EXCEPT !.pc = "begin", !.key = k, !.req = q]]
    BY <1>3 DEF Arrive
  <2>2. Memory(h, [Idle EXCEPT !.pc = "begin", !.key = k, !.req = q])
    BY <2>1, IdleTypes, FreshMemory DEF Memory
  <2>3. QED
    BY <2>2
<1>4. CASE BeginReplay(h)
  <2> DEFINE m == [M EXCEPT !.pc = "reply", !.resp = row[M.key].resp]
  <2>1. /\ M.pc = "begin" /\ row[M.key].state = "DONE"
        /\ row[M.key].req = M.req /\ handler' = [handler EXCEPT ![h] = m]
    BY <1>1, <1>4 DEF BeginReplay, matches
  <2>2. M.key \in Keys /\ M.req \in Requests /\ M.fence = 0
    BY <1>1, <2>1 DEF MemoryFits
  <2>3. row[M.key].resp \in Responses \cup {None}
    BY <2>2 DEF IInv, TypeOK, Row
  <2>4. m \in Handler
    BY <1>1, <2>3, MemoryTypes
  <2>5. /\ m.pc = "reply" /\ m.key = M.key /\ m.req = M.req
        /\ m.fence = 0 /\ m.resp = row[M.key].resp
    BY <1>1, <2>2 DEF Handler
  <2> HIDE DEF m
  <2>6. MemoryFits(m)
    BY <2>1, <2>2, <2>5, SMT DEF MemoryFits, Holding
  <2>7. QED
    BY <2>1, <2>4, <2>5, <2>6 DEF Memory
<1>5. CASE RenewError(h) \/ (Renew(h) /\ ~holds(h))
  <2> DEFINE m == [M EXCEPT !.ctx = FALSE]
  <2>1. handler' = [handler EXCEPT ![h] = m]
    BY <1>1, <1>5 DEF RenewError, Renew
  <2>2. m \in Handler
    BY <1>1, MemoryTypes
  <2>3. /\ m.pc = M.pc /\ m.key = M.key /\ m.req = M.req
        /\ m.fence = M.fence /\ m.resp = M.resp
    BY <1>1 DEF Handler
  <2> HIDE DEF m
  <2>4. MemoryFits(m)
    BY <1>1, <2>3 DEF MemoryFits
  <2>5. QED
    BY <2>1, <2>2, <2>3, <2>4 DEF Memory
<1>6. CASE Renew(h) /\ holds(h)
  <2>1. handler' = [handler EXCEPT ![h] = M]
    BY <1>1, <1>6 DEF Renew
  <2>2. QED
    BY <1>1, <2>1 DEF Memory
<1>7. CASE Mutate(h)
  <2>1. PICK a \in {"ok", "refused"} :
          handler' = [handler EXCEPT ![h].pc = "complete", ![h].resp = a]
    BY <1>7 DEF Mutate
  <2> DEFINE m == [M EXCEPT !.pc = "complete", !.resp = a]
  <2>2. handler' = [handler EXCEPT ![h] = m]
    BY <1>1, <2>1
  <2>3. a \in Responses
    BY DEF Responses
  <2>4. m \in Handler
    BY <1>1, <2>3, MemoryTypes
  <2>5. /\ m.pc = "complete" /\ m.key = M.key /\ m.req = M.req
        /\ m.fence = M.fence /\ m.resp = a
    BY <1>1 DEF Handler
  <2> HIDE DEF m
  <2>6. M.pc = "work" /\ M.req.body \notin Intakes
    BY <1>7 DEF Mutate, isIntake
  <2>7. MemoryFits(m)
    BY <1>1, <2>3, <2>5, <2>6 DEF MemoryFits, Holding
  <2>8. QED
    BY <2>2, <2>4, <2>5, <2>7 DEF Memory
<1>8. ASSUME NEW p \in {"commit", "abandon", "stop"}, M.pc \in Holding,
             p = "commit" => M.req.body \in Intakes, goto(h, p)
      PROVE  \E m : Memory(h, m)
  <2> DEFINE m == [M EXCEPT !.pc = p]
  <2>1. handler' = [handler EXCEPT ![h] = m]
    BY <1>1, <1>8 DEF goto
  <2>2. m \in Handler
    BY <1>1, MemoryTypes
  <2>3. /\ m.pc = p /\ m.key = M.key /\ m.req = M.req
        /\ m.fence = M.fence /\ m.resp = M.resp
    BY <1>1 DEF Handler
  <2> HIDE DEF m
  <2>4. MemoryFits(m)
    BY <1>1, <1>8, <2>3 DEF MemoryFits, Holding
  <2>5. QED
    BY <2>1, <2>2, <2>3, <2>4 DEF Memory
<1>9. CASE StageArtifacts(h)
  <2>1. M.pc = "work" /\ M.req.body \in Intakes
        /\ (goto(h, "commit") \/ goto(h, "abandon"))
    BY <1>9 DEF StageArtifacts, isIntake
  <2>2. QED
    BY <1>8, <2>1 DEF Holding
<1>10. CASE \/ WorkCancelled(h) \/ WorkError(h) \/ CommitIntakeRefused(h)
  BY <1>8, <1>10 DEF WorkCancelled, WorkError, CommitIntakeRefused, Holding
<1>11. CASE \/ (Complete(h) /\ ~holds(h)) \/ Abandon(h) \/ CommitIntakeLost(h)
  BY <1>8, <1>11 DEF Complete, Abandon, CommitIntakeLost, Holding
<1>12. QED
  BY <1>2, <1>3, <1>4, <1>5, <1>6, <1>7, <1>9, <1>10, <1>11 DEF QuietStep

(* A quiet step of a handler preserves the invariant.                      *)
LEMMA QuietStepIInv ==
  ASSUME IInv, NEW h \in Handlers, QuietStep(h) PROVE IInv'
BY QuietLedger, QuietMemory, MemoryIInv DEF Memory

-----------------------------------------------------------------------------
(* A handler takes the key k, with a generation that nobody has.           *)
Reserves(h, k, r, m) ==
  /\ k = handler[h].key /\ k \in Keys /\ row[k].state # "DONE"
  /\ row[k].state # "NONE" =>
       r.gen > row[k].gen /\ row[k].req = handler[h].req
  /\ row' = [row EXCEPT ![k] = r] /\ handler' = [handler EXCEPT ![h] = m]
  /\ r \in Row /\ r.state = "RESERVED" /\ r.gen > 0
  /\ r.req = handler[h].req /\ r.req \in Requests /\ r.resp = None
  /\ m \in Handler /\ m.pc = "work" /\ m.key = k /\ m.req = r.req
  /\ m.fence = r.gen
  /\ created' = created /\ binding' = binding /\ sent' = sent
  /\ faults' = faults

(* insertIdempotencyReservation and reclaimIdempotencyReservation do.      *)
LEMMA BeginReserves ==
  ASSUME IInv, NEW h \in Handlers, BeginInsert(h) \/ BeginReclaim(h)
  PROVE  \E k, r, m : Reserves(h, k, r, m)
<1> DEFINE M == handler[h]
           k == M.key
<1>1. M \in Handler /\ M.pc = "begin" /\ handler \in [Handlers -> Handler]
  BY DEF IInv, TypeOK, BeginInsert, BeginReclaim
<1>2. k \in Keys /\ M.req \in Requests
  BY <1>1 DEF IInv, HandlersFit, MemoryFits
<1>3. row[k] \in Row /\ row \in [Keys -> Row]
  BY <1>2 DEF IInv, TypeOK
<1>4. ASSUME NEW g \in 0..MaxGen, startWork(h, g)
      PROVE  \E m : /\ handler' = [handler EXCEPT ![h] = m]
                    /\ m \in Handler /\ m.pc = "work" /\ m.key = k
                    /\ m.req = M.req /\ m.fence = g
  <2> DEFINE m == [M EXCEPT !.pc = "work", !.fence = g, !.ctx = TRUE]
  <2>1. handler' = [handler EXCEPT ![h] = m]
    BY <1>1, <1>4 DEF startWork
  <2>2. m \in Handler
    BY <1>1, MemoryTypes
  <2>3. m.pc = "work" /\ m.key = k /\ m.req = M.req /\ m.fence = g
    BY <1>1 DEF Handler
  <2> HIDE DEF m
  <2>4. QED
    BY <2>1, <2>2, <2>3
<1>5. CASE BeginInsert(h)
  <2> DEFINE r == [NoRow EXCEPT !.state = "RESERVED", !.req = M.req,
                                !.gen = 1, !.live = TRUE]
  <2>1. /\ row[k].state = "NONE" /\ row' = [row EXCEPT ![k] = r]
        /\ startWork(h, 1) /\ created' = created /\ binding' = binding
        /\ sent' = sent /\ faults' = faults
    BY <1>5 DEF BeginInsert
  <2>2. r \in Row
    BY <1>2, RowTypes
  <2>3. r.state = "RESERVED" /\ r.gen = 1 /\ r.req = M.req /\ r.resp = None
    BY DEF NoRow
  <2> HIDE DEF r
  <2>4. 1 \in 0..MaxGen
    BY BoundsAssumption, SMT
  <2>5. PICK m : /\ handler' = [handler EXCEPT ![h] = m]
                 /\ m \in Handler /\ m.pc = "work" /\ m.key = k
                 /\ m.req = M.req /\ m.fence = 1
    BY <1>4, <2>1, <2>4
  <2>6. Reserves(h, k, r, m)
    BY <1>2, <2>1, <2>2, <2>3, <2>5, SMT DEF Reserves
  <2>7. QED
    BY <2>6
<1>6. CASE BeginReclaim(h)
  <2> DEFINE r == reclaimed(row[k])
  <2>1. /\ row[k].state = "RESERVED" /\ row[k].req = M.req
        /\ row[k].gen < MaxGen /\ row' = [row EXCEPT ![k] = r]
        /\ startWork(h, row'[k].gen) /\ created' = created
        /\ binding' = binding /\ sent' = sent /\ faults' = faults
    BY <1>6 DEF BeginReclaim, matches
  <2>2. r \in Row /\ row'[k] = r
    BY <1>2, <1>3, <2>1, RowTypes
  <2>3. /\ r.state = "RESERVED" /\ r.gen = row[k].gen + 1
        /\ r.req = M.req /\ r.resp = row[k].resp
    BY <1>3, <2>1 DEF reclaimed, Row
  <2>4. row[k].resp = None
    BY <1>2, <2>1 DEF IInv, TypeOK
  <2> HIDE DEF r
  <2>5. r.gen \in 0..MaxGen /\ r.gen > row[k].gen /\ r.gen > 0
    BY <1>3, <2>1, <2>3, BoundsAssumption, SMT DEF Row
  <2>6. startWork(h, r.gen)
    BY <2>1, <2>2
  <2>7. PICK m : /\ handler' = [handler EXCEPT ![h] = m]
                 /\ m \in Handler /\ m.pc = "work" /\ m.key = k
                 /\ m.req = M.req /\ m.fence = r.gen
    BY <1>4, <2>5, <2>6
  <2>8. Reserves(h, k, r, m)
    BY <1>2, <2>1, <2>2, <2>3, <2>4, <2>5, <2>7 DEF Reserves
  <2>9. QED
    BY <2>8
<1>7. QED
  BY <1>5, <1>6

(* A reservation preserves the invariant.                                  *)
LEMMA ReserveIInv ==
  ASSUME IInv, NEW h \in Handlers, NEW k, NEW r, NEW m, Reserves(h, k, r, m)
  PROVE  IInv'
<1>1. /\ row \in [Keys -> Row] /\ handler \in [Handlers -> Handler]
      /\ row' \in [Keys -> Row] /\ handler' \in [Handlers -> Handler]
      /\ row'[k] = r /\ handler'[h] = m
      /\ \A j \in Keys : j # k => row'[j] = row[j]
      /\ \A g \in Handlers : g # h => handler'[g] = handler[g]
  BY DEF Reserves, IInv, TypeOK
<1>2. TypeOK'
  <2>1. \A j \in Keys : row'[j].state = "DONE" <=> row'[j].resp # None
    BY <1>1 DEF Reserves, IInv, TypeOK
  <2>2. QED
    BY <1>1, <2>1 DEF Reserves, IInv, TypeOK
<1>3. \A g \in Handlers : g # h /\ handler[g].fence > 0 /\ handler[g].key = k
        => row[k].state # "NONE" /\ handler[g].fence <= row[k].gen
  BY DEF IInv, HandlersFit, MemoryFits
<1>4. HandlersFit'
  <2> SUFFICES ASSUME NEW g \in Handlers PROVE MemoryFits(handler[g])'
    BY DEF HandlersFit
  <2>1. CASE g = h
    BY <1>1, <2>1, SMT DEF Reserves, MemoryFits, Holding, Row
  <2>2. CASE g # h
    <3>1. handler'[g] = handler[g] /\ MemoryFits(handler[g])
      BY <1>1, <2>2 DEF IInv, HandlersFit
    <3>2. CASE handler[g].key = k
      <4>1. handler[g].pc # "reply"
        BY <3>1, <3>2 DEF MemoryFits, Reserves
      <4>2. handler[g].fence \in Nat /\ row[k].gen \in Nat /\ r.gen \in Nat
        BY <1>1, SMT DEF Reserves, Handler, Row
      <4>3. handler[g].fence > 0 =>
              r.req = handler[g].req /\ handler[g].fence <= r.gen
        BY <1>3, <2>2, <3>1, <3>2, <4>2, SMT DEF MemoryFits, Reserves
      <4>4. QED
        BY <1>1, <3>1, <3>2, <4>1, <4>3 DEF MemoryFits, Reserves, Holding
    <3>3. CASE handler[g].key # k
      BY <1>1, <3>1, <3>3 DEF MemoryFits, Holding
    <3>4. QED
      BY <3>2, <3>3
  <2>3. QED
    BY <2>1, <2>2
<1>5. RowsNamed'
  BY <1>1 DEF Reserves, IInv, RowsNamed
<1>6. AnswersAgree'
  BY <1>1, ZenonT(30) DEF Reserves, IInv, AnswersAgree, TypeOK
<1>7. IntakeAllOrNothing'
  <2>1. \A x \in Runs : created[x] # None =>
          created[x].key \in Keys /\ created[x].key # k
    BY SMT DEF Reserves, IInv, TypeOK, IntakeAllOrNothing
  <2>2. QED
    BY <1>1, <2>1 DEF Reserves, IInv, IntakeAllOrNothing
<1>8. OneHolder'
  <2>1. \A g \in Handlers : g # h /\ handler[g].fence > 0 /\ handler[g].key = k
          => handler[g].fence # m.fence
    <3>1. \A g \in Handlers : handler[g].fence \in Nat
      BY <1>1, SMT DEF Handler
    <3>2. r.gen \in Nat /\ row[k].gen \in Nat
      BY <1>1, SMT DEF Reserves, Row
    <3>3. QED
      BY <1>3, <3>1, <3>2, SMT DEF Reserves
  <2>2. m.fence > 0 /\ m.key = k
    BY DEF Reserves
  <2>3. QED
    BY <1>1, <2>1, <2>2, SMT DEF IInv, OneHolder
<1>9. QED
  BY <1>2, <1>4, <1>5, <1>6, <1>7, <1>8 DEF IInv

-----------------------------------------------------------------------------
(* A handler stores the answer of its key.                                 *)
Answering(h) ==
  (Complete(h) /\ holds(h)) \/ CommitIntake(h) \/ CommitIntakeAmbiguous(h)

(* The row, the memory and the run that an answer leaves behind.           *)
AnswersRow(h, k, r) ==
  /\ k = handler[h].key /\ k \in Keys
  /\ row[k].state = "RESERVED" /\ row[k].req = handler[h].req
  /\ row' = [row EXCEPT ![k] = r]
  /\ r \in Row /\ r.state = "DONE" /\ r.req = row[k].req
  /\ r.gen = row[k].gen /\ r.resp \in Responses

AnswersMemory(h, r, m) ==
  /\ handler' = [handler EXCEPT ![h] = m]
  /\ m \in Handler /\ m.pc \in {"reply", "stop"}
  /\ m.key = handler[h].key /\ m.req = handler[h].req
  /\ m.fence = handler[h].fence /\ m.fence > 0
  /\ m.pc = "reply" => m.resp = r.resp

AnswersRun(h, k) ==
  \/ handler[h].req.body \notin Intakes
     /\ created' = created /\ binding' = binding
  \/ LET q == handler[h].req
         c == [key |-> k, req |-> q]
     IN  /\ created[q.run] \in {None, c}
         /\ created' = [created EXCEPT ![q.run] = c]
         /\ binding' = [binding EXCEPT ![q.run] = q]

Answers(h, k, r, m) ==
  /\ AnswersRow(h, k, r) /\ AnswersMemory(h, r, m) /\ AnswersRun(h, k)
  /\ handler[h].req \in Requests
  /\ sent' = sent /\ faults' \in 0..MaxFaults

(* CompleteIdempotency and commitIntakeOnce do.                            *)
LEMMA AnsweringAnswers ==
  ASSUME IInv, NEW h \in Handlers, Answering(h)
  PROVE  \E k, r, m : Answers(h, k, r, m)
<1> DEFINE M == handler[h]
           k == M.key
<1>1. M \in Handler /\ MemoryFits(M) /\ handler \in [Handlers -> Handler]
  BY DEF IInv, TypeOK, HandlersFit
<1>2. /\ M.pc \in {"complete", "commit"}
      /\ row[k].state = "RESERVED" /\ sent' = sent
      /\ faults' = faults \/ Fault
  BY DEF Answering, Complete, CommitIntake, CommitIntakeAmbiguous, holds,
         mine, lockIntakeReservation
<1>3. /\ k \in Keys /\ M.req \in Requests /\ M.fence > 0
      /\ row[k].req = M.req
  BY <1>1, <1>2 DEF MemoryFits, Holding
<1>4. row[k] \in Row /\ row \in [Keys -> Row]
  BY <1>3 DEF IInv, TypeOK
<1>5. faults' \in 0..MaxFaults
  BY <1>2, BoundsAssumption, SMT DEF IInv, TypeOK, Fault
<1>6. ASSUME NEW a \in Responses, row' = [row EXCEPT ![k] = answered(@, a)]
      PROVE  \E r : AnswersRow(h, k, r) /\ r.resp = a
  <2> DEFINE r == answered(row[k], a)
  <2>1. row' = [row EXCEPT ![k] = r] /\ r \in Row
    BY <1>4, <1>6, RowTypes
  <2>2. /\ r.state = "DONE" /\ r.req = row[k].req /\ r.gen = row[k].gen
        /\ r.resp = a
    BY <1>4 DEF answered, Row
  <2> HIDE DEF r
  <2>3. AnswersRow(h, k, r)
    BY <1>2, <1>3, <2>1, <2>2 DEF AnswersRow
  <2>4. QED
    BY <2>2, <2>3
<1>7. ASSUME NEW r, NEW p \in {"reply", "stop"},
             NEW a \in Responses \cup {None}, p = "reply" => a = r.resp,
             handler' = [handler EXCEPT ![h].pc = p, ![h].resp = a]
      PROVE  \E m : AnswersMemory(h, r, m)
  <2> DEFINE m == [M EXCEPT !.pc = p, !.resp = a]
  <2>1. handler' = [handler EXCEPT ![h] = m] /\ m \in Handler
    BY <1>1, <1>7, MemoryTypes
  <2>2. /\ m.pc = p /\ m.key = k /\ m.req = M.req /\ m.fence = M.fence
        /\ m.resp = a
    BY <1>1 DEF Handler
  <2> HIDE DEF m
  <2>3. AnswersMemory(h, r, m)
    BY <1>3, <1>7, <2>1, <2>2 DEF AnswersMemory
  <2>4. QED
    BY <2>3
<1>8. ASSUME NEW p \in {"reply", "stop"}, goto(h, p)
      PROVE  handler' = [handler EXCEPT ![h].pc = p, ![h].resp = M.resp]
  <2>1. [M EXCEPT !.pc = p] = [M EXCEPT !.pc = p, !.resp = M.resp]
    BY <1>1 DEF Handler
  <2>2. QED
    BY <1>1, <1>8, <2>1 DEF goto
<1>9. M.resp \in Responses \cup {None}
  BY <1>1 DEF Handler
<1>10. CASE Complete(h) /\ holds(h)
  <2>1. /\ row' = [row EXCEPT ![k] = answered(@, M.resp)]
        /\ goto(h, "reply") /\ M.pc = "complete"
        /\ created' = created /\ binding' = binding
    BY <1>10 DEF Complete
  <2>2. M.resp \in Responses /\ M.req.body \notin Intakes
    BY <1>1, <2>1 DEF MemoryFits
  <2>3. PICK r : AnswersRow(h, k, r) /\ r.resp = M.resp
    BY <1>6, <2>1, <2>2
  <2>4. PICK m : AnswersMemory(h, r, m)
    BY <1>7, <1>8, <1>9, <2>1, <2>3
  <2>5. AnswersRun(h, k)
    BY <2>1, <2>2 DEF AnswersRun
  <2>6. Answers(h, k, r, m)
    BY <1>2, <1>3, <1>5, <2>3, <2>4, <2>5 DEF Answers
  <2>7. QED
    BY <2>6
<1>11. CASE CommitIntake(h) \/ CommitIntakeAmbiguous(h)
  <2>1. CreateRunApplies(h) /\ intakeCommitted(h)
    BY <1>11 DEF CommitIntake, CommitIntakeAmbiguous
  <2>2. AnswersRun(h, k)
    BY <2>1 DEF CreateRunApplies, intakeCommitted, AnswersRun
  <2>3. "created" \in Responses
    BY DEF Responses
  <2>4. PICK r : AnswersRow(h, k, r) /\ r.resp = "created"
    BY <1>6, <2>1, <2>3 DEF intakeCommitted
  <2>5. \E m : AnswersMemory(h, r, m)
    <3>1. CASE CommitIntake(h)
      BY <1>7, <2>3, <2>4, <3>1 DEF CommitIntake
    <3>2. CASE CommitIntakeAmbiguous(h)
      <4>1. goto(h, "stop")
        BY <3>2 DEF CommitIntakeAmbiguous
      <4>2. handler' = [handler EXCEPT ![h].pc = "stop", ![h].resp = M.resp]
        BY <1>8, <4>1
      <4>3. QED
        BY <1>7, <1>9, <4>2
    <3>3. QED
      BY <1>11, <3>1, <3>2
  <2>6. PICK m : AnswersMemory(h, r, m)
    BY <2>5
  <2>7. Answers(h, k, r, m)
    BY <1>2, <1>3, <1>5, <2>2, <2>4, <2>6 DEF Answers
  <2>8. QED
    BY <2>7
<1>12. QED
  BY <1>10, <1>11 DEF Answering

(* Storing an answer preserves the invariant.                              *)
LEMMA AnswerIInv ==
  ASSUME IInv, NEW h \in Handlers, NEW k, NEW r, NEW m, Answers(h, k, r, m)
  PROVE  IInv'
<1> DEFINE q == handler[h].req
           c == [key |-> k, req |-> q]
<1>1. /\ row \in [Keys -> Row] /\ handler \in [Handlers -> Handler]
      /\ row' \in [Keys -> Row] /\ handler' \in [Handlers -> Handler]
      /\ k \in Keys /\ row'[k] = r /\ handler'[h] = m
      /\ \A j \in Keys : j # k => row'[j] = row[j]
      /\ \A g \in Handlers : g # h => handler'[g] = handler[g]
  BY DEF Answers, AnswersRow, AnswersMemory, IInv, TypeOK
<1>2. /\ row[k].state = "RESERVED" /\ row[k].req = q
      /\ r.state = "DONE" /\ r.req = q /\ r.gen = row[k].gen
      /\ r.resp \in Responses /\ k = handler[h].key
  BY DEF Answers, AnswersRow
<1>3. /\ m.pc \in {"reply", "stop"} /\ m.key = k /\ m.req = q
      /\ m.fence = handler[h].fence /\ m.fence > 0
      /\ m.pc = "reply" => m.resp = r.resp
  BY <1>2 DEF Answers, AnswersMemory
<1>4. q \in Requests /\ q.run \in Runs /\ c \in [key : Keys, req : Requests]
  BY <1>1 DEF Answers, Requests
<1>5. sent' = sent /\ faults' \in 0..MaxFaults
  BY DEF Answers
<1>6. c.key = k /\ c.req = q /\ c # None
  BY <1>4, NoneAssumption
<1>7. \/ q.body \notin Intakes /\ created' = created /\ binding' = binding
      \/ /\ created[q.run] \in {None, c}
         /\ created' = [created EXCEPT ![q.run] = c]
         /\ binding' = [binding EXCEPT ![q.run] = q]
  BY DEF Answers, AnswersRun
<1>8. /\ created \in [Runs -> [key : Keys, req : Requests] \cup {None}]
      /\ binding \in [Runs -> Requests \cup {None}]
  BY DEF IInv, TypeOK
<1> HIDE DEF q, c
<1>9. TypeOK'
  <2>1. \A j \in Keys : row'[j].state = "DONE" <=> row'[j].resp # None
    BY <1>1, <1>2, NoneAssumption, SMT DEF IInv, TypeOK
  <2>2. /\ created' \in [Runs -> [key : Keys, req : Requests] \cup {None}]
        /\ binding' \in [Runs -> Requests \cup {None}]
    BY <1>4, <1>7, <1>8
  <2>3. sent' \subseteq Keys \X Requests \X Responses
    BY <1>5 DEF IInv, TypeOK
  <2>4. QED
    BY <1>1, <1>5, <2>1, <2>2, <2>3 DEF TypeOK
<1>10. HandlersFit'
  <2> SUFFICES ASSUME NEW g \in Handlers PROVE MemoryFits(handler[g])'
    BY DEF HandlersFit
  <2>1. MemoryFits(handler[g])
    BY DEF IInv, HandlersFit
  <2>2. CASE g = h
    <3>1. m.fence <= row[k].gen
      BY <1>2, <1>3, <2>1, <2>2 DEF MemoryFits
    <3>2. QED
      BY <1>1, <1>2, <1>3, <1>4, <2>2, <3>1 DEF MemoryFits, Holding
  <2>3. CASE g # h
    <3>1. handler'[g] = handler[g]
      BY <1>1, <2>3
    <3>2. CASE handler[g].key = k
      BY <1>1, <1>2, <2>1, <3>1, <3>2 DEF MemoryFits, Holding
    <3>3. CASE handler[g].key # k
      BY <1>1, <2>1, <3>1, <3>3 DEF MemoryFits, Holding
    <3>4. QED
      BY <3>2, <3>3
  <2>4. QED
    BY <2>2, <2>3
<1>11. RowsNamed'
  BY <1>1, <1>2, <1>4 DEF IInv, RowsNamed
<1>12. AnswersAgree'
  BY <1>1, <1>2, <1>5, ZenonT(30) DEF IInv, AnswersAgree, TypeOK
<1>13. IntakeAllOrNothing'
  <2>1. \A x \in Runs : created[x] # None =>
          created[x].key \in Keys /\ created[x].key # k
    BY <1>2, <1>8 DEF IInv, IntakeAllOrNothing
  <2>2. CASE q.body \notin Intakes /\ created' = created /\ binding' = binding
    BY <1>1, <1>2, <2>1, <2>2, SMT DEF IInv, IntakeAllOrNothing
  <2>3. CASE /\ created[q.run] \in {None, c}
             /\ created' = [created EXCEPT ![q.run] = c]
             /\ binding' = [binding EXCEPT ![q.run] = q]
    <3>1. created[q.run] = None
      BY <1>4, <1>6, <2>1, <2>3
    <3>2. /\ created'[q.run] = c /\ binding'[q.run] = q
          /\ \A x \in Runs : x # q.run =>
               created'[x] = created[x] /\ binding'[x] = binding[x]
      BY <1>4, <1>8, <2>3
    <3>3. ASSUME NEW x \in Runs
          PROVE  /\ binding'[x] =
                      (IF created'[x] = None THEN None ELSE created'[x].req)
                 /\ created'[x] # None =>
                      /\ created'[x].req.run = x
                      /\ row'[created'[x].key].state = "DONE"
                      /\ row'[created'[x].key].req = created'[x].req
      <4>1. CASE x = q.run
        BY <1>1, <1>2, <1>6, <3>2, <4>1
      <4>2. CASE x # q.run
        BY <1>1, <2>1, <3>2, <4>2, SMT DEF IInv, IntakeAllOrNothing
      <4>3. QED
        BY <4>1, <4>2
    <3>4. ASSUME NEW j \in Keys, row'[j].state = "DONE",
                 row'[j].req.body \in Intakes
          PROVE  created'[row'[j].req.run] = [key |-> j, req |-> row'[j].req]
      <4>1. CASE j = k
        BY <1>1, <1>2, <3>2, <4>1 DEF c
      <4>2. CASE j # k
        <5>1. j \in Keys /\ row'[j] = row[j]
          BY <1>1, <4>2
        <5>2. row[j].req \in Requests
          BY <3>4, <5>1 DEF IInv, RowsNamed
        <5>3. created[row[j].req.run] = [key |-> j, req |-> row[j].req]
          BY <3>4, <5>1 DEF IInv, IntakeAllOrNothing
        <5>4. [key |-> j, req |-> row[j].req] # None
          BY <5>1, <5>2, NoneAssumption, SMT
        <5>5. row[j].req.run \in Runs /\ row[j].req.run # q.run
          BY <3>1, <5>2, <5>3, <5>4 DEF Requests
        <5>6. QED
          BY <3>2, <5>1, <5>3, <5>5
      <4>3. QED
        BY <4>1, <4>2
    <3>5. QED
      BY <3>3, <3>4 DEF IntakeAllOrNothing
  <2>4. QED
    BY <1>7, <2>2, <2>3
<1>14. OneHolder'
  BY <1>1, <1>2, <1>3, SMT DEF IInv, OneHolder
<1>15. QED
  BY <1>9, <1>10, <1>11, <1>12, <1>13, <1>14 DEF IInv

-----------------------------------------------------------------------------
(* An answer goes out.                                                     *)
LEMMA ReplyIInv ==
  ASSUME IInv, NEW h \in Handlers, Reply(h) PROVE IInv'
<1> DEFINE M == handler[h]
<1>1. /\ M.pc = "reply" /\ sent' = sent \cup {<<M.key, M.req, M.resp>>}
      /\ handler' = [handler EXCEPT ![h] = Idle]
      /\ row' = row /\ created' = created /\ binding' = binding
      /\ faults' = faults
  BY DEF Reply
<1>2. /\ handler \in [Handlers -> Handler] /\ M \in Handler
      /\ M.key \in Keys /\ M.req \in Requests
      /\ row[M.key].state = "DONE" /\ row[M.key].req = M.req
      /\ row[M.key].resp = M.resp
  BY <1>1 DEF IInv, TypeOK, HandlersFit, MemoryFits
<1>3. M.resp \in Responses
  BY <1>2 DEF IInv, TypeOK, Handler
<1> HIDE DEF M
<1>4. handler' \in [Handlers -> Handler]
  BY <1>1, <1>2, IdleTypes
<1>5. TypeOK'
  <2>1. sent' \subseteq Keys \X Requests \X Responses
    BY <1>1, <1>2, <1>3, SMT DEF IInv, TypeOK
  <2>2. QED
    BY <1>1, <1>4, <2>1 DEF IInv, TypeOK
<1>6. HandlersFit'
  <2> SUFFICES ASSUME NEW g \in Handlers PROVE MemoryFits(handler[g])'
    BY DEF HandlersFit
  <2>1. MemoryFits(handler'[g])
    BY <1>1, <1>2, FreshMemory DEF IInv, HandlersFit
  <2>2. QED
    BY <1>1, <2>1 DEF MemoryFits
<1>7. AnswersAgree'
  BY <1>1, <1>2, SMT DEF IInv, AnswersAgree
<1>8. OneHolder'
  <2>1. handler'[h].fence = 0
    <3>1. handler'[h] = Idle
      BY <1>1, <1>2
    <3>2. QED
      BY <3>1, SMT DEF Idle
  <2>2. \A g \in Handlers : g # h => handler'[g] = handler[g]
    BY <1>1, <1>2
  <2>3. \A f, g \in Handlers :
          f # g /\ handler'[f].key = handler'[g].key /\ handler'[f].fence > 0
            => f # h
    BY <2>1, SMT
  <2>4. QED
    BY <2>1, <2>2, <2>3 DEF IInv, OneHolder
<1>9. QED
  BY <1>1, <1>5, <1>6, <1>7, <1>8
  DEF IInv, RowsNamed, IntakeAllOrNothing

-----------------------------------------------------------------------------
(* Every step is of one of these classes.                                  *)
LEMMA StepClasses ==
  ASSUME Next
  PROVE  \/ \E h \in Handlers :
              \/ QuietStep(h) \/ Answering(h) \/ Reply(h)
              \/ BeginInsert(h) \/ BeginReclaim(h)
         \/ \E k \in Keys : Expire(k) \/ ExpireSlow(k)
BY DEF Next, HandlerStep, QuietStep, Answering

(* Every step preserves the invariant.                                     *)
LEMMA Inductive == IInv /\ [Next]_vars => IInv'
<1> SUFFICES ASSUME IInv, [Next]_vars PROVE IInv'
  OBVIOUS
<1>1. CASE UNCHANGED vars
  <2>1. /\ row' = row /\ handler' = handler /\ created' = created
        /\ binding' = binding /\ sent' = sent /\ faults' = faults
    BY <1>1 DEF vars
  <2>2. TypeOK'
    BY <2>1 DEF IInv, TypeOK
  <2>3. Quiet
    BY <2>1 DEF IInv, HandlersFit, Quiet, SameRow
  <2>4. QED
    BY <2>2, <2>3, QuietIInv
<1>2. CASE \E h \in Handlers : QuietStep(h)
  BY <1>2, QuietStepIInv
<1>3. CASE \E h \in Handlers : Answering(h)
  BY <1>3, AnsweringAnswers, AnswerIInv
<1>4. CASE \E h \in Handlers : Reply(h)
  BY <1>4, ReplyIInv
<1>5. CASE \E h \in Handlers : BeginInsert(h) \/ BeginReclaim(h)
  BY <1>5, BeginReserves, ReserveIInv
<1>6. CASE \E k \in Keys : Expire(k) \/ ExpireSlow(k)
  BY <1>6, ClockIInv
<1>7. QED
  BY <1>1, <1>2, <1>3, <1>4, <1>5, <1>6, StepClasses

(* So it always holds.                                                     *)
LEMMA Invariance == Spec => []IInv
BY InitIInv, Inductive, PTL DEF Spec

-----------------------------------------------------------------------------
(* A row of the ledger holds an answer exactly when it is completed, and   *)
(* whatever was sent as the final answer of a key is the recorded answer   *)
(* to the recorded request (handleMutation, RunIntakeCoordinator.Accept).  *)
THEOREM OneAnswerPerKey == Spec => []AnswersRecorded
<1>1. IInv => AnswersRecorded
  BY DEF IInv, AnswersRecorded
<1>2. QED
  BY <1>1, Invariance, PTL

(* Run, binding and stored 201 exist together or not at all                *)
(* (commitIntakeOnce), whatever crashes, expires or is retried.            *)
THEOREM IntakeIsAtomic == Spec => []IntakeAllOrNothing
<1>1. IInv => IntakeAllOrNothing
  BY DEF IInv
<1>2. QED
  BY <1>1, Invariance, PTL

(* The generations of reclaimIdempotencyReservation are never shared.      *)
LEMMA OneHolderAlways == Spec => []OneHolder
<1>1. IInv => OneHolder
  BY DEF IInv
<1>2. QED
  BY <1>1, Invariance, PTL

(* What a step does to the rows.                                           *)
RowStep ==
  \A k \in Keys :
    /\ row[k].state = "DONE" => row'[k] = row[k]
    /\ row[k].state = "RESERVED" /\ row'[k].state = "DONE" =>
         \E h \in Handlers :
           /\ handler[h].key = k
           /\ handler[h].fence = row[k].gen
           /\ handler[h].pc \in {"complete", "commit"}

(* A step that touches one row, one that is not answered, and does not     *)
(* answer it.                                                              *)
LEMMA OpenRowStep ==
  ASSUME IInv, NEW k \in Keys, NEW r, row[k].state # "DONE",
         r.state # "DONE", row' = [row EXCEPT ![k] = r]
  PROVE  RowStep
<1>1. row \in [Keys -> Row]
  BY DEF IInv, TypeOK
<1>2. QED
  BY <1>1 DEF RowStep

(* No step changes a completed row, and only the holder of the row's       *)
(* generation completes one.                                               *)
LEMMA StepsOfRows ==
  ASSUME IInv, [Next]_vars PROVE RowStep
<1>1. row \in [Keys -> Row] /\ handler \in [Handlers -> Handler]
  BY DEF IInv, TypeOK
<1>2. CASE row' = row
  BY <1>2 DEF RowStep
<1>3. ASSUME NEW k \in Keys, NEW b \in BOOLEAN, row[k].state = "RESERVED",
             row' = [row EXCEPT ![k].live = b]
      PROVE  RowStep
  <2> DEFINE r == [row[k] EXCEPT !.live = b]
  <2>1. row' = [row EXCEPT ![k] = r] /\ r.state = "RESERVED"
    BY <1>1, <1>3 DEF Row
  <2> HIDE DEF r
  <2>2. QED
    BY <1>3, <2>1, OpenRowStep
<1>4. CASE \E h \in Handlers : QuietStep(h)
  <2>1. PICK h \in Handlers : QuietStep(h)
    BY <1>4
  <2>2. \/ row' = row
        \/ /\ handler[h].pc \in Holding /\ row[handler[h].key].state = "RESERVED"
           /\ \E b \in BOOLEAN :
                row' = [row EXCEPT ![handler[h].key].live = b]
    BY <2>1 DEF QuietStep, Arrive, BeginReplay, BeginRefused, Renew,
         RenewError, Mutate, WorkCancelled, WorkError, Complete, Abandon,
         Stop, Holding, StageArtifacts, CommitIntakeLost,
         CommitIntakeRefused, Crash, holds, mine
  <2>3. handler[h].pc \in Holding => handler[h].key \in Keys
    BY DEF IInv, HandlersFit, MemoryFits, Holding
  <2>4. QED
    BY <1>2, <1>3, <2>2, <2>3
<1>5. CASE \E h \in Handlers : Answering(h)
  <2>1. PICK h \in Handlers : Answering(h)
    BY <1>5
  <2>2. PICK k, r, m : Answers(h, k, r, m)
    BY <2>1, AnsweringAnswers
  <2>3. /\ handler[h].fence = row[handler[h].key].gen
        /\ handler[h].pc \in {"complete", "commit"}
    BY <2>1 DEF Answering, Complete, CommitIntake, CommitIntakeAmbiguous,
                holds, mine, lockIntakeReservation
  <2>4. /\ k = handler[h].key /\ row[k].state = "RESERVED" /\ k \in Keys
        /\ row' = [row EXCEPT ![k] = r]
    BY <2>2 DEF Answers, AnswersRow
  <2>5. QED
    BY <1>1, <2>3, <2>4 DEF RowStep
<1>6. CASE \E h \in Handlers : Reply(h)
  BY <1>2, <1>6 DEF Reply
<1>7. CASE \E h \in Handlers : BeginInsert(h) \/ BeginReclaim(h)
  <2>1. PICK h \in Handlers : BeginInsert(h) \/ BeginReclaim(h)
    BY <1>7
  <2>2. PICK k, r, m : Reserves(h, k, r, m)
    BY <2>1, BeginReserves
  <2>3. QED
    BY <2>2, OpenRowStep DEF Reserves
<1>8. CASE \E k \in Keys : Expire(k) \/ ExpireSlow(k)
  BY <1>3, <1>8 DEF Expire, ExpireSlow
<1>9. CASE UNCHANGED vars
  BY <1>2, <1>9 DEF vars
<1>10. QED
  BY <1>4, <1>5, <1>6, <1>7, <1>8, <1>9, StepClasses

(* A stored answer never changes, and a handler whose generation is not    *)
(* the row's cannot store one.                                             *)
LEMMA LateHandlersHarmless == Spec => StaleGenerationsPowerless
<1>1. IInv /\ [Next]_vars =>
        [\A k \in Keys :
           /\ row[k].state = "DONE" => row'[k] = row[k]
           /\ row[k].state = "RESERVED" /\ row'[k].state = "DONE" =>
                \E h \in Handlers :
                  /\ handler[h].key = k
                  /\ handler[h].fence = row[k].gen
                  /\ handler[h].pc \in {"complete", "commit"}]_vars
  BY StepsOfRows DEF RowStep
<1>2. QED
  BY <1>1, Invariance, PTL DEF Spec, StaleGenerationsPowerless

(* A generation of a key has one holder, and only that one stores an       *)
(* answer, which then never changes (reclaimIdempotencyReservation, the    *)
(* WHERE clauses of CompleteIdempotency and lockIntakeReservation).        *)
THEOREM GenerationsFence == Spec => GenerationFences
BY OneHolderAlways, LateHandlersHarmless, PTL DEF GenerationFences

-----------------------------------------------------------------------------
(* Refinement.                                                             *)

(* The empty ledger is the empty register.                                 *)
LEMMA RegisterInit == Init => Register!Init
<1> SUFFICES ASSUME Init PROVE Register!Init
  OBVIOUS
<1>1. \A k \in Keys : row[k].resp = None
  BY DEF Init, NoRow
<1>2. [k \in Keys |-> row[k].resp] = [k \in Keys |-> None]
  BY <1>1
<1>3. {<<a[1], a[3]>> : a \in sent} = {}
  BY DEF Init
<1>4. QED
  BY <1>2, <1>3 DEF Register!Init

(* A step that changes neither the recorded answers nor those sent is a    *)
(* stuttering step of the register.                                        *)
LEMMA RegisterStutters ==
  ASSUME \A k \in Keys : row'[k].resp = row[k].resp, sent' = sent
  PROVE  UNCHANGED Register!vars
<1>1. [k \in Keys |-> row[k].resp]' = [k \in Keys |-> row[k].resp]
  OBVIOUS
<1>2. {<<a[1], a[3]>> : a \in sent}' = {<<a[1], a[3]>> : a \in sent}
  OBVIOUS
<1>3. QED
  BY <1>1, <1>2 DEF Register!vars

(* The stored answer is the one completion of the register.                *)
LEMMA RegisterRecords ==
  ASSUME IInv, NEW h \in Handlers, NEW k, NEW r, NEW m, Answers(h, k, r, m)
  PROVE  Register!Next
<1>1. /\ row \in [Keys -> Row] /\ k \in Keys /\ row' = [row EXCEPT ![k] = r]
      /\ row[k].state = "RESERVED" /\ r.resp \in Responses /\ sent' = sent
  BY DEF IInv, TypeOK, Answers, AnswersRow
<1>2. row[k].resp = None
  BY <1>1 DEF IInv, TypeOK
<1>3. row'[k].resp = r.resp /\ \A j \in Keys : j # k => row'[j] = row[j]
  BY <1>1
<1>4. [j \in Keys |-> row[j].resp]' =
        [[j \in Keys |-> row[j].resp] EXCEPT ![k] = r.resp]
  BY <1>1, <1>3
<1>5. [j \in Keys |-> row[j].resp][k] = None
  BY <1>1, <1>2
<1>6. {<<a[1], a[3]>> : a \in sent}' = {<<a[1], a[3]>> : a \in sent}
  BY <1>1
<1>7. Register!Record(k, r.resp)
  BY <1>4, <1>5, <1>6 DEF Register!Record
<1>8. QED
  BY <1>1, <1>7 DEF Register!Next

(* An answer sent is what the register returns.                            *)
LEMMA RegisterReturns ==
  ASSUME IInv, NEW h \in Handlers, Reply(h) PROVE Register!Next
<1>1. /\ handler[h].pc = "reply" /\ row' = row
      /\ sent' = sent \cup
                   {<<handler[h].key, handler[h].req, handler[h].resp>>}
  BY DEF Reply
<1>2. PICK k \in Keys : k = handler[h].key
  BY <1>1 DEF IInv, HandlersFit, MemoryFits
<1>3. row[k].state = "DONE" /\ row[k].resp = handler[h].resp
  BY <1>1, <1>2 DEF IInv, HandlersFit, MemoryFits
<1>4. row[k].resp # None
  BY <1>3 DEF IInv, TypeOK
<1>5. {<<a[1], a[3]>> : a \in sent}' =
        {<<a[1], a[3]>> : a \in sent} \cup {<<k, row[k].resp>>}
  <2> DEFINE t == <<handler[h].key, handler[h].req, handler[h].resp>>
  <2>1. sent' = sent \cup {t} /\ t[1] = k /\ t[3] = row[k].resp
    BY <1>1, <1>2, <1>3
  <2> HIDE DEF t
  <2>2. {<<a[1], a[3]>> : a \in sent'} =
          {<<a[1], a[3]>> : a \in sent} \cup {<<t[1], t[3]>>}
    BY <2>1
  <2>3. QED
    BY <2>1, <2>2
<1>6. [j \in Keys |-> row[j].resp]' = [j \in Keys |-> row[j].resp]
  BY <1>1
<1>7. [j \in Keys |-> row[j].resp][k] = row[k].resp
  OBVIOUS
<1>8. Register!Return(k)
  BY <1>4, <1>5, <1>6, <1>7 DEF Register!Return
<1>9. QED
  BY <1>8 DEF Register!Next

(* Every step of the ledger is a step of the register, or none.            *)
LEMMA RegisterStep ==
  IInv /\ [Next]_vars => [Register!Next]_(Register!vars)
<1> SUFFICES ASSUME IInv, [Next]_vars
             PROVE  Register!Next \/ UNCHANGED Register!vars
  OBVIOUS
<1>1. CASE \E h \in Handlers : QuietStep(h)
  BY <1>1, QuietLedger, RegisterStutters DEF SameRow
<1>2. CASE \E h \in Handlers : Answering(h)
  BY <1>2, AnsweringAnswers, RegisterRecords
<1>3. CASE \E h \in Handlers : Reply(h)
  BY <1>3, RegisterReturns
<1>4. CASE \E h \in Handlers : BeginInsert(h) \/ BeginReclaim(h)
  <2>1. PICK h \in Handlers : BeginInsert(h) \/ BeginReclaim(h)
    BY <1>4
  <2>2. PICK k, r, m : Reserves(h, k, r, m)
    BY <2>1, BeginReserves
  <2>3. row \in [Keys -> Row] /\ row[k].resp = None
    BY <2>2 DEF IInv, TypeOK, Reserves
  <2>4. \A j \in Keys : row'[j].resp = row[j].resp
    BY <2>2, <2>3 DEF Reserves
  <2>5. QED
    BY <2>2, <2>4, RegisterStutters DEF Reserves
<1>5. CASE \E k \in Keys : Expire(k) \/ ExpireSlow(k)
  <2>1. PICK k \in Keys :
          row' = [row EXCEPT ![k].live = FALSE] /\ sent' = sent
    BY <1>5 DEF Expire, ExpireSlow
  <2>2. \A j \in Keys : SameRow(j)
    BY <2>1, LiveRow
  <2>3. QED
    BY <2>1, <2>2, RegisterStutters DEF SameRow
<1>6. CASE UNCHANGED vars
  BY <1>6, RegisterStutters DEF vars
<1>7. QED
  BY <1>1, <1>2, <1>3, <1>4, <1>5, <1>6, StepClasses

(* The idempotency ledger implements the write-once register: a key has    *)
(* one answer, and every client that is answered gets that one.            *)
THEOREM LedgerIsWriteOnce == Spec => ImplementsWriteOnce
BY RegisterInit, RegisterStep, Invariance, PTL
DEF Spec, ImplementsWriteOnce, Register!Spec

=============================================================================
