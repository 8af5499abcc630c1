---------------------------- MODULE Idempotency -----------------------------
(***************************************************************************)
(* The HTTP idempotency ledger and the handlers that use it:               *)
(*   go/internal/runtime/ledger.go      (reserve, renew, complete, abandon) *)
(*   go/internal/controlapi/server.go   (handleMutation)                   *)
(*   go/internal/controlapi/intake.go   (RunIntakeCoordinator.Accept)      *)
(*                                                                         *)
(* A client may send a key any number of times, with the same or another   *)
(* request, to any API process.  Each request is served by a handler with  *)
(* a renewal goroutine of its own.  A reservation is `live` until its      *)
(* expiry passes; expiry, process death and storage errors may strike      *)
(* between any two steps.                                                  *)
(***************************************************************************)
EXTENDS Naturals, FiniteSets

CONSTANTS
  Keys,        \* idempotency keys
  Runs,        \* run IDs
  Bodies,      \* request bodies, with method, target and principal
  Intakes,     \* the bodies of POST /v1/runs
  Based,       \* the intakes whose base commit is the one of the policy
  Handlers,    \* concurrent request handlers of all API processes
  MaxGen,      \* bound: reservations of one key
  MaxFaults,   \* bound: deaths, server and storage errors, slow handlers
  None

ASSUME IntakeAssumption == Based \subseteq Intakes /\ Intakes \subseteq Bodies
ASSUME BoundsAssumption == MaxGen \in Nat \ {0} /\ MaxFaults \in Nat

VARIABLES
  row,      \* the rows of runtime_api_idempotency
  handler,  \* the memory of each handler
  created,  \* workflow runs, each with the key and request that created it
  binding,  \* the rows of runtime_run_bindings: the request they were made from
  sent,     \* the <<key, request, response>> triples sent as final answers
  faults    \* faults so far

vars == <<row, handler, created, binding, sent, faults>>

-----------------------------------------------------------------------------
Requests == [run : Runs, body : Bodies]

(* Answers that are recorded: 201 of an intake, the 2xx and the 4xx of a   *)
(* mutation.  A 5xx is never recorded.                                     *)
Responses == {"created", "ok", "refused"}

ASSUME NoneAssumption ==
  /\ None \notin Responses \cup Requests \cup Keys
  /\ None \notin [key : Keys, req : Requests]

Row ==
  [state : {"NONE", "RESERVED", "DONE"}, req : Requests \cup {None},
   gen : 0..MaxGen, live : BOOLEAN, resp : Responses \cup {None}]

NoRow ==
  [state |-> "NONE", req |-> None, gen |-> 0, live |-> FALSE, resp |-> None]

(* pc: "begin" before BeginIdempotency, "work" while the mutation or the   *)
(* staging of the intake runs, "commit" before the intake transaction,     *)
(* "complete" and "abandon" before those calls, "reply" with an answer in  *)
(* hand, "stop" while the renewal goroutine is being stopped.  ctx is      *)
(* whether the operation context is still uncancelled.                     *)
Handler ==
  [pc : {"idle", "begin", "work", "commit", "complete", "abandon", "reply",
         "stop"},
   key : Keys \cup {None}, req : Requests \cup {None}, fence : 0..MaxGen,
   ctx : BOOLEAN, resp : Responses \cup {None}]

Idle ==
  [pc |-> "idle", key |-> None, req |-> None, fence |-> 0, ctx |-> FALSE,
   resp |-> None]

Init ==
  /\ row = [k \in Keys |-> NoRow]
  /\ handler = [h \in Handlers |-> Idle]
  /\ created = [r \in Runs |-> None]
  /\ binding = [r \in Runs |-> None]
  /\ sent = {}
  /\ faults = 0

Fault == faults < MaxFaults /\ faults' = faults + 1

(* The step of handler h to pc, the rest of its memory unchanged.          *)
goto(h, pc) == handler' = [handler EXCEPT ![h].pc = pc]

mine(h) == row[handler[h].key]

-----------------------------------------------------------------------------
(* The ledger.                                                             *)

(* A request arrives: key, method, target, principal and digest are known. *)
Arrive(h) ==
  /\ handler[h].pc = "idle"
  /\ \E k \in Keys, q \in Requests :
       handler' = [handler EXCEPT
         ![h] = [Idle EXCEPT !.pc = "begin", !.key = k, !.req = q]]
  /\ UNCHANGED <<row, created, binding, sent, faults>>

(* Mutant: a key is replayed whatever the request is.                      *)
matches_AnyRequest(k, q) == row[k].state # "NONE"

(* The reservation was made for the same method, target, principal, digest. *)
matches(k, q) == row[k].req = q


reclaimable(k) == ~row[k].live

(* Mutant: a takeover keeps the generation.                                *)
reclaimed_SameGeneration(r) == [r EXCEPT !.live = TRUE]

reclaimed(r) == [r EXCEPT !.live = TRUE, !.gen = @ + 1]

(* A handler that holds a reservation starts to work under its generation, *)
(* with a fresh context and a renewal goroutine.                           *)
startWork(h, gen) ==
  handler' = [handler EXCEPT ![h].pc = "work", ![h].fence = gen,
                             ![h].ctx = TRUE]

(* BeginIdempotency inserts the row ...                                    *)
BeginInsert(h) ==
  LET k == handler[h].key IN
  /\ handler[h].pc = "begin"
  /\ row[k].state = "NONE"
  /\ row' = [row EXCEPT ![k] =
       [NoRow EXCEPT !.state = "RESERVED", !.req = handler[h].req,
                     !.gen = 1, !.live = TRUE]]
  /\ startWork(h, 1)
  /\ UNCHANGED <<created, binding, sent, faults>>

(* ... or replays the recorded answer ...                                  *)
BeginReplay(h) ==
  LET k == handler[h].key IN
  /\ handler[h].pc = "begin"
  /\ row[k].state = "DONE"
  /\ matches(k, handler[h].req)
  /\ handler' = [handler EXCEPT ![h].pc = "reply", ![h].resp = row[k].resp]
  /\ UNCHANGED <<row, created, binding, sent, faults>>

(* ... or takes over a reservation that has expired ...                    *)
BeginReclaim(h) ==
  LET k == handler[h].key IN
  /\ handler[h].pc = "begin"
  /\ row[k].state = "RESERVED"
  /\ matches(k, handler[h].req)
  /\ reclaimable(k)
  /\ row[k].gen < MaxGen
  /\ row' = [row EXCEPT ![k] = reclaimed(@)]
  /\ startWork(h, row'[k].gen)
  /\ UNCHANGED <<created, binding, sent, faults>>

(* ... or refuses: ErrConflict for another request, ErrInProgress while    *)
(* the reservation is live (or when the bound MaxGen is reached).  The     *)
(* client gets a 409.                                                      *)
BeginRefused(h) ==
  LET k == handler[h].key IN
  /\ handler[h].pc = "begin"
  /\ row[k].state # "NONE"
  /\ \/ ~matches(k, handler[h].req)
     \/ row[k].state = "RESERVED" /\ (~reclaimable(k) \/ row[k].gen = MaxGen)
  /\ handler' = [handler EXCEPT ![h] = Idle]
  /\ UNCHANGED <<row, created, binding, sent, faults>>

(* Mutant: the generation is not compared.                                 *)
holds_AnyGeneration(h) == mine(h).state = "RESERVED"

(* The WHERE clause of renewal, completion and abandonment.                *)
holds(h) == mine(h).state = "RESERVED" /\ mine(h).gen = handler[h].fence

(* The renewal goroutine ticks until it is stopped, also after Abandon.  A *)
(* renewal that is refused or fails cancels the operation context.         *)
Renew(h) ==
  /\ handler[h].pc \in {"work", "commit", "complete", "abandon", "stop"}
  /\ handler[h].ctx
  /\ IF holds(h)
     THEN /\ row' = [row EXCEPT ![handler[h].key].live = TRUE]
          /\ UNCHANGED handler
     ELSE /\ handler' = [handler EXCEPT ![h].ctx = FALSE]
          /\ UNCHANGED row
  /\ UNCHANGED <<created, binding, sent, faults>>

(* A storage error of the renewal, or a client that goes away, cancels the *)
(* operation context too.                                                  *)
RenewError(h) ==
  /\ handler[h].pc \in {"work", "commit", "complete", "abandon", "stop"}
  /\ handler[h].ctx
  /\ Fault
  /\ handler' = [handler EXCEPT ![h].ctx = FALSE]
  /\ UNCHANGED <<row, created, binding, sent>>

(* The handlers that keep the reservation of k alive.                      *)
Renewing(k) ==
  {h \in Handlers :
     /\ handler[h].key = k
     /\ handler[h].pc \in {"work", "commit", "complete", "abandon"}
     /\ handler[h].ctx
     /\ handler[h].fence = row[k].gen}

(* The reservation's expiry passes, because nobody renews it ...           *)
Expire(k) ==
  /\ row[k].state = "RESERVED" /\ row[k].live
  /\ Renewing(k) = {}
  /\ row' = [row EXCEPT ![k].live = FALSE]
  /\ UNCHANGED <<handler, created, binding, sent, faults>>

(* ... or because the renewal of a working handler is late.                *)
ExpireSlow(k) ==
  /\ row[k].state = "RESERVED" /\ row[k].live
  /\ Renewing(k) # {}
  /\ Fault
  /\ row' = [row EXCEPT ![k].live = FALSE]
  /\ UNCHANGED <<handler, created, binding, sent>>

-----------------------------------------------------------------------------
(* handleMutation, for every route but run intake.                         *)

isIntake(h) == handler[h].req.body \in Intakes

(* applyMutation returns an answer below 500, also when its context was    *)
(* cancelled on the way ...                                                *)
Mutate(h) ==
  /\ handler[h].pc = "work"
  /\ ~isIntake(h)
  /\ \E a \in {"ok", "refused"} :
       handler' = [handler EXCEPT ![h].pc = "complete", ![h].resp = a]
  /\ UNCHANGED <<row, created, binding, sent, faults>>

(* ... or fails on the cancelled context ...                               *)
WorkCancelled(h) ==
  /\ handler[h].pc = "work"
  /\ ~handler[h].ctx
  /\ goto(h, "abandon")
  /\ UNCHANGED <<row, created, binding, sent, faults>>

(* ... or, like the staging of an intake, on an error of the server.       *)
WorkError(h) ==
  /\ handler[h].pc = "work"
  /\ handler[h].ctx
  /\ Fault
  /\ goto(h, "abandon")
  /\ UNCHANGED <<row, created, binding, sent>>

(* Mutant: the completion time is not stored with the answer.              *)
answered_NoState(r, a) == [r EXCEPT !.resp = a]

answered(r, a) == [r EXCEPT !.state = "DONE", !.resp = a]

(* Mutant: the answer is stored whoever holds the reservation.             *)
Complete_Blind(h) ==
  /\ handler[h].pc = "complete"
  /\ row' = [row EXCEPT ![handler[h].key] = answered(@, handler[h].resp)]
  /\ goto(h, "reply")
  /\ UNCHANGED <<created, binding, sent, faults>>

(* CompleteIdempotency.  A handler that lost its generation, or finds the  *)
(* row completed, sends an error that the client does not take for an      *)
(* answer.                                                                 *)
Complete(h) ==
  /\ handler[h].pc = "complete"
  /\ IF holds(h)
     THEN /\ row' = [row EXCEPT ![handler[h].key] =
                       answered(@, handler[h].resp)]
          /\ goto(h, "reply")
     ELSE /\ goto(h, "stop")
          /\ UNCHANGED row
  /\ UNCHANGED <<created, binding, sent, faults>>

(* AbandonIdempotency ends the reservation at once; the 5xx is sent and is *)
(* no final answer.                                                        *)
Abandon(h) ==
  /\ handler[h].pc = "abandon"
  /\ goto(h, "stop")
  /\ IF holds(h) THEN row' = [row EXCEPT ![handler[h].key].live = FALSE]
                 ELSE UNCHANGED row
  /\ UNCHANGED <<created, binding, sent, faults>>

(* The answer is written to the client; the renewal goroutine is stopped.  *)
Reply(h) ==
  /\ handler[h].pc = "reply"
  /\ sent' = sent \cup {<<handler[h].key, handler[h].req, handler[h].resp>>}
  /\ handler' = [handler EXCEPT ![h] = Idle]
  /\ UNCHANGED <<row, created, binding, faults>>

Stop(h) ==
  /\ handler[h].pc = "stop"
  /\ handler' = [handler EXCEPT ![h] = Idle]
  /\ UNCHANGED <<row, created, binding, sent, faults>>

-----------------------------------------------------------------------------
(* Run intake.                                                             *)

(* stageArtifacts checks the base commit and writes only                   *)
(* content-addressed objects; when it refuses or fails (WorkCancelled,     *)
(* WorkError) the reservation is abandoned.                                *)
StageArtifacts(h) ==
  /\ handler[h].pc = "work"
  /\ isIntake(h)
  /\ handler[h].ctx
  /\ goto(h, IF handler[h].req.body \in Based THEN "commit" ELSE "abandon")
  /\ UNCHANGED <<row, created, binding, sent, faults>>

(* Mutant: the transaction does not check the generation and the expiry.   *)
lockIntakeReservation_Unfenced(h) ==
  /\ mine(h).req = handler[h].req
  /\ mine(h).state = "RESERVED"

(* The reservation under FOR UPDATE: same request, no answer yet, same     *)
(* generation, not expired.                                                *)
lockIntakeReservation(h) ==
  /\ mine(h).req = handler[h].req
  /\ mine(h).state = "RESERVED"
  /\ mine(h).gen = handler[h].fence
  /\ mine(h).live

(* CreateRun under the key as command ID: the run is new, or this very     *)
(* command created it before.                                              *)
CreateRunApplies(h) ==
  created[handler[h].req.run] \in
    {None, [key |-> handler[h].key, req |-> handler[h].req]}

(* Mutant: the answer is stored by a second transaction.                   *)
intakeCommitted_Unanswered(h) ==
  LET r == handler[h].req.run IN
  /\ created' = [created EXCEPT
       ![r] = [key |-> handler[h].key, req |-> handler[h].req]]
  /\ binding' = [binding EXCEPT ![r] = handler[h].req]
  /\ UNCHANGED row

(* The effect of commitIntakeOnce: run, binding and answer together.       *)
intakeCommitted(h) ==
  LET r == handler[h].req.run IN
  /\ created' = [created EXCEPT
       ![r] = [key |-> handler[h].key, req |-> handler[h].req]]
  /\ binding' = [binding EXCEPT ![r] = handler[h].req]
  /\ row' = [row EXCEPT ![handler[h].key] = answered(@, "created")]

CommitIntake(h) ==
  /\ handler[h].pc = "commit"
  /\ lockIntakeReservation(h)
  /\ CreateRunApplies(h)
  /\ intakeCommitted(h)
  /\ handler' = [handler EXCEPT ![h].pc = "reply", ![h].resp = "created"]
  /\ UNCHANGED <<sent, faults>>

(* The commit takes effect but its acknowledgement is lost: the error is   *)
(* returned and the reservation is left as it is.                          *)
CommitIntakeAmbiguous(h) ==
  /\ handler[h].pc = "commit"
  /\ lockIntakeReservation(h)
  /\ CreateRunApplies(h)
  /\ Fault
  /\ intakeCommitted(h)
  /\ goto(h, "stop")
  /\ UNCHANGED sent

(* The commit itself is refused or its connection is lost before it takes  *)
(* effect: no abandonment either, because the caller cannot know.          *)
CommitIntakeLost(h) ==
  /\ handler[h].pc = "commit"
  /\ Fault
  /\ goto(h, "stop")
  /\ UNCHANGED <<row, created, binding, sent>>

(* The transaction fails before its commit: the reservation is not held    *)
(* any more, the run ID is taken, or the context ended.                    *)
CommitIntakeRefused(h) ==
  /\ handler[h].pc = "commit"
  /\ \/ ~lockIntakeReservation(h)
     \/ ~CreateRunApplies(h)
     \/ ~handler[h].ctx
  /\ goto(h, "abandon")
  /\ UNCHANGED <<row, created, binding, sent, faults>>

(* A handler dies with its process, in any state.                          *)
Crash(h) ==
  /\ handler[h].pc # "idle"
  /\ Fault
  /\ handler' = [handler EXCEPT ![h] = Idle]
  /\ UNCHANGED <<row, created, binding, sent>>

-----------------------------------------------------------------------------
HandlerStep(h) ==
  \/ BeginInsert(h) \/ BeginReplay(h) \/ BeginReclaim(h) \/ BeginRefused(h)
  \/ Mutate(h) \/ WorkCancelled(h) \/ Complete(h) \/ Abandon(h)
  \/ Reply(h) \/ Stop(h)
  \/ StageArtifacts(h) \/ CommitIntake(h) \/ CommitIntakeRefused(h)

Next ==
  \/ \E h \in Handlers :
       \/ Arrive(h) \/ HandlerStep(h) \/ Renew(h) \/ RenewError(h)
       \/ WorkError(h) \/ CommitIntakeAmbiguous(h) \/ CommitIntakeLost(h)
       \/ Crash(h)
  \/ \E k \in Keys : Expire(k) \/ ExpireSlow(k)

Spec == Init /\ [][Next]_vars

(* A client that has no answer sends the same bytes under the same key     *)
(* again (docs/development.md, "Retry the same request bytes with the same *)
(* key after a lost response").                                            *)
RetryByClient(k) ==
  /\ row[k].state = "RESERVED"
  /\ \E h \in Handlers :
       Arrive(h) /\ handler'[h].key = k /\ handler'[h].req = row[k].req

(* Goroutines and clocks run on, and clients retry.                        *)
FairSpec ==
  /\ Spec
  /\ \A h \in Handlers : WF_vars(HandlerStep(h))
  /\ \A k \in Keys : WF_vars(Expire(k)) /\ SF_vars(RetryByClient(k))

-----------------------------------------------------------------------------
(* Properties.                                                             *)

(* Rows, handler memories and the created runs have their types, and a row *)
(* holds an answer exactly when it is completed.                           *)
TypeOK ==
  /\ row \in [Keys -> Row]
  /\ \A k \in Keys : row[k].state = "DONE" <=> row[k].resp # None
  /\ handler \in [Handlers -> Handler]
  /\ created \in [Runs -> [key : Keys, req : Requests] \cup {None}]
  /\ binding \in [Runs -> Requests \cup {None}]
  /\ sent \subseteq Keys \X Requests \X Responses
  /\ faults \in 0..MaxFaults

(* Every final answer that any handler ever sent for a key is the one on   *)
(* record, and it answers the very request that the key was reserved for:  *)
(* takeovers, late completions and replays never give a second answer.     *)
AnswersAgree ==
  \A a \in sent :
    row[a[1]].state = "DONE" /\ row[a[1]].req = a[2] /\ row[a[1]].resp = a[3]

(* A row holds an answer exactly when it is completed, and every answer    *)
(* that was sent is the one of the row.                                    *)
AnswersRecorded == TypeOK /\ AnswersAgree

(* A run, its binding and the 201 of its key come into being together,     *)
(* whatever happens to the handler, the commit's acknowledgement or the    *)
(* reservation: there is no run without the stored answer that a retry of  *)
(* its request is given, no answer without the run, and no run whose       *)
(* binding is of another request.                                          *)
IntakeAllOrNothing ==
  /\ \A r \in Runs :
       /\ binding[r] = (IF created[r] = None THEN None ELSE created[r].req)
       /\ created[r] # None =>
            /\ created[r].req.run = r
            /\ row[created[r].key].state = "DONE"
            /\ row[created[r].key].req = created[r].req
  /\ \A k \in Keys :
       row[k].state = "DONE" /\ row[k].req.body \in Intakes =>
         created[row[k].req.run] = [key |-> k, req |-> row[k].req]

(* No two handlers ever work under the same key and generation, however    *)
(* often the reservation expires, is abandoned or is renewed too late: the *)
(* generation fences one of them out.                                      *)
OneHolder ==
  \A g, h \in Handlers :
    /\ g # h
    /\ handler[g].key = handler[h].key
    /\ handler[g].fence > 0
    => handler[g].fence # handler[h].fence

(* The intake that k was reserved for can never be committed: its base     *)
(* commit is not the one of the policy, or another key has created its     *)
(* run.  RunIntakeCoordinator.Accept abandons the reservation every time,  *)
(* where handleMutation would have recorded the refusal.                   *)
RefusedIntake(k) ==
  /\ row[k].state = "RESERVED"
  /\ row[k].req.body \in Intakes
  /\ \/ row[k].req.body \notin Based
     \/ created[row[k].req.run] \notin {None, [key |-> k, req |-> row[k].req]}


(* A stored answer is never changed, and only the handler whose generation *)
(* is the row's ends a reservation, by an answer or by an abandonment.     *)
StaleGenerationsPowerless ==
  [][\A k \in Keys :
       /\ row[k].state = "DONE" => row'[k] = row[k]
       /\ row[k].state = "RESERVED" /\ row'[k].state = "DONE" =>
            \E h \in Handlers :
              /\ handler[h].key = k
              /\ handler[h].fence = row[k].gen
              /\ handler[h].pc \in {"complete", "commit"}]_vars

(* The generation of a reservation fences: it has one holder, and nobody   *)
(* else ends the reservation or touches a stored answer.                   *)
GenerationFences == []OneHolder /\ StaleGenerationsPowerless

(* The ledger implements a write-once register of answers: rows are the    *)
(* register, final answers sent to clients are what it returned.           *)
Register ==
  INSTANCE WriteOnce WITH
    Results <- Responses,
    result <- [k \in Keys |-> row[k].resp],
    returned <- {<<a[1], a[3]>> : a \in sent}

(* Specification of the register, in the terms of the ledger.              *)
ImplementsWriteOnce == Register!Spec

=============================================================================
