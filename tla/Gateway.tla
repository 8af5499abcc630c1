------------------------------- MODULE Gateway -------------------------------
(***************************************************************************)
(* The reasoning gateway and its provider adapter:                         *)
(*   go/internal/reasoning/gateway/service.go         (ProposeImplementation)*)
(*   go/internal/reasoning/gateway/review_service.go  (ProposeReview)      *)
(*   go/internal/reasoning/gateway/repository.go      (invocation ledger)  *)
(*   go/internal/reasoning/gateway/anthropic.go       (sendWithRetry)      *)
(*                                                                         *)
(* A request ID is reserved, its request validated, sent to the provider   *)
(* with retries, and the answer recorded once.  The reservation has no     *)
(* owner and no expiry: whoever inserted it completes or deletes it.       *)
(* Requests and answers are records of what the code tells apart: sizes    *)
(* against a limit, the verdict of the contracts package, token usage.     *)
(***************************************************************************)
EXTENDS Integers, FiniteSets

CONSTANTS
  Requests,     \* what callers may ask for
  Answers,      \* what the provider may answer
  RetryAfters,  \* delays that a provider may ask for
  Callers,      \* concurrent calls
  Timeout,      \* provider timeout; the unit is the first retry delay
  MaxDelay,     \* cap on a delay that the provider asks for
  ByteLimit,    \* limit on requests, proposals and responses
  MaxTime,      \* bound: last instant of the clock
  MaxErrors,    \* bound: cancelled callers, failed stores, lost answers
  MaxLosses,    \* bound: deaths, rollbacks that fail, lost reservations
  MaxBodies,    \* bound: different requests that are stored
  None

VARIABLES
  rows,       \* reasoning_invocations
  artifacts,  \* what the artifact store holds
  caller,     \* the memory of each caller
  clock,
  returned,   \* outcomes that callers were given, by request ID
  errors,
  losses

callVars == <<rows, artifacts, caller, clock, returned, errors, losses>>

IDs == {r.id : r \in Requests}
maximumProviderAttempts == 3

-----------------------------------------------------------------------------
NoRow == [state |-> "NONE", digest |-> None, outcome |-> None]

NoCall ==
  [pc |-> "idle", request |-> None, started |-> 0, attempt |-> 0,
   left |-> 0, delay |-> 0, answer |-> None, outcome |-> None]

GatewayInit ==
  /\ rows = [i \in IDs |-> NoRow]
  /\ artifacts = {}
  /\ caller = [w \in Callers |-> NoCall]
  /\ clock = 0
  /\ returned = {}
  /\ errors = 0
  /\ losses = 0

at(w, pc) == caller[w].pc = pc
goto(w, pc) == caller' = [caller EXCEPT ![w].pc = pc]
stop(w) == caller' = [caller EXCEPT ![w] = NoCall]
req(w) == caller[w].request
row(w) == rows[req(w).id]
Fault == errors < MaxErrors /\ errors' = errors + 1

-----------------------------------------------------------------------------
(* The call: a request that cannot be identified or is too large is        *)
(* rejected before anything is stored.                                     *)

preflightRequest(r) == r.identified /\ r.size <= ByteLimit
prepareReviewRequest(r) == r.size <= ByteLimit /\ r.identified

Call(w) ==
  /\ caller[w] = NoCall
  /\ \E r \in Requests :
       /\ IF r.stage = "implementation"
          THEN preflightRequest(r) ELSE prepareReviewRequest(r)
       /\ artifacts' = artifacts \cup {<<"request", r.body>>}
       /\ Cardinality({a \in artifacts' : a[1] = "request"}) <= MaxBodies
       /\ caller' = [caller EXCEPT ![w] =
            [NoCall EXCEPT !.pc = "begin", !.request = r, !.started = clock]]
  /\ UNCHANGED <<rows, clock, returned, errors, losses>>

-----------------------------------------------------------------------------
(* Begin.                                                                  *)

(* Mutant: a second caller takes the reservation as its own.               *)
reservable_Any(w) == row(w).state # "completed"

reservable(w) == row(w).state = "NONE"

reservation(w) ==
  [rows EXCEPT ![req(w).id] =
     [NoRow EXCEPT !.state = "in_progress", !.digest = req(w).body]]

Reserve(w) ==
  /\ at(w, "begin")
  /\ reservable(w)
  /\ rows' = reservation(w)
  /\ goto(w, "validate")
  /\ UNCHANGED <<artifacts, clock, returned, errors, losses>>

(* ErrInvocationConflict, or the context ends while the caller polls.      *)
BeginRefused(w) ==
  /\ at(w, "begin")
  /\ row(w).state # "NONE"
  /\ row(w).digest # req(w).body \/ row(w).state = "in_progress"
  /\ stop(w)
  /\ UNCHANGED <<rows, artifacts, clock, returned, errors, losses>>

(* Mutant: a replay is validated at the present time.                      *)
replayValid_Now(w) ==
  row(w).outcome.status = "accepted" =>
    req(w).verdict = "ok" /\ req(w).expires > clock

(* What a stored outcome refers to.                                        *)
references(i) ==
  {<<"request", rows[i].digest>>, rows[i].outcome.response,
   rows[i].outcome.proposal} \ {None}

(* A stored outcome is read back with its artifacts, and checked against   *)
(* the contracts as far as they do not depend on the time.                 *)
replayValid(w) ==
  /\ references(req(w).id) \subseteq artifacts
  /\ row(w).outcome.status = "accepted" => req(w).verdict = "ok"

replayOutcome(w) ==
  /\ at(w, "begin")
  /\ row(w).state = "completed" /\ row(w).digest = req(w).body
  /\ returned' = IF replayValid(w)
                 THEN returned \cup {<<req(w).id, row(w).outcome>>}
                 ELSE returned
  /\ stop(w)
  /\ UNCHANGED <<rows, artifacts, clock, errors, losses>>

-----------------------------------------------------------------------------
(* Validation, manifest and prompt.                                        *)

(* MapImplementationRequestAt and MapReviewRequestAt at the time at which  *)
(* the call started.                                                       *)
verdictAt(r, time) ==
  IF r.verdict = "ok" /\ r.expires <= time THEN "rejected" ELSE r.verdict

rejection(response, proposal) ==
  [status |-> "rejected", response |-> response, proposal |-> proposal]
acceptance(response, proposal) ==
  [status |-> "accepted", response |-> response, proposal |-> proposal]

validateRecordedRequest(w) ==
  /\ at(w, "validate")
  /\ caller' = [caller EXCEPT
       ![w].pc = CASE verdictAt(req(w), caller[w].started) = "ok" -> "resolve"
                   [] verdictAt(req(w), caller[w].started) = "rejected" ->
                        "complete"
                   [] OTHER -> "rollback",
       ![w].outcome = IF verdictAt(req(w), caller[w].started) = "rejected"
                      THEN rejection(None, None) ELSE None]
  /\ UNCHANGED <<rows, artifacts, clock, returned, errors, losses>>

(* The manifest must be the one of the request, and the rendered context   *)
(* must fit its token budget.                                              *)
invocable(r) == r.manifest = r.stage /\ r.tokens <= r.budget.input

(* The time until the deadline: the expiry bounds it unless it has passed. *)
timeLeft(r, now) ==
  IF now < r.expires /\ r.expires < now + Timeout
  THEN r.expires - now ELSE Timeout

invokeImplementation(w) ==
  /\ at(w, "resolve")
  /\ IF invocable(req(w))
     THEN caller' = [caller EXCEPT ![w].pc = "send",
            ![w].left = timeLeft(req(w), clock), ![w].started = 0]
     ELSE goto(w, "rollback")
  /\ UNCHANGED <<rows, artifacts, clock, returned, errors, losses>>

-----------------------------------------------------------------------------
(* sendWithRetry.                                                          *)

(* Mutant: the budget of the request is not looked at.                     *)
attemptLimit_Fixed(r) == maximumProviderAttempts

attemptLimit(r) ==
  IF r.budget.requests < maximumProviderAttempts
  THEN r.budget.requests ELSE maximumProviderAttempts

(* 250 ms, 500 ms, ... or what the provider asks for, up to a cap.         *)
retryDelays(attempt) ==
  {2 ^ (attempt - 1)} \cup
  {IF d < MaxDelay THEN d ELSE MaxDelay : d \in RetryAfters}

(* The errors that are worth another attempt, and the others.              *)
retryableProviderError(a) ==
  a.kind \in {"request timeout", "conflict", "rate limit", "server", "network"}

classifyProviderError(a) ==
  a.kind \in {"authentication", "permission", "billing", "response"}

(* One request reaches the provider while the deadline has not passed.     *)
Send(w) ==
  LET n == caller[w].attempt + 1
      r == req(w)
  IN  /\ at(w, "send")
      /\ caller[w].delay = 0 /\ caller[w].left > 0
      /\ \E a \in Answers :
           \/ /\ retryableProviderError(a) /\ n < attemptLimit(r)
              /\ \E d \in retryDelays(n) :
                   caller' = [caller EXCEPT
                     ![w].attempt = n, ![w].delay = d,
                     ![w].pc = IF d > caller[w].left
                               THEN "rollback" ELSE "send"]
           \/ /\ retryableProviderError(a) /\ n = attemptLimit(r)
              /\ caller' = [caller EXCEPT ![w].attempt = n,
                                          ![w].pc = "rollback"]
           \/ /\ ~retryableProviderError(a)
              /\ caller' = [caller EXCEPT ![w].attempt = n, ![w].answer = a,
                   ![w].pc = IF classifyProviderError(a) \/ a.kind = "refusal"
                             THEN "rollback" ELSE "finalize"]
      /\ UNCHANGED <<rows, artifacts, clock, returned, errors, losses>>

SendTimeout(w) ==
  /\ at(w, "send") /\ caller[w].left = 0
  /\ goto(w, "rollback")
  /\ UNCHANGED <<rows, artifacts, clock, returned, errors, losses>>

-----------------------------------------------------------------------------
(* The answer becomes an outcome.                                          *)

validateProviderBudget(w) == caller[w].attempt \in 1..req(w).budget.requests

(* Usage above the budget counts as malformed output.                      *)
malformed(r, a) ==
  \/ a.kind = "malformed"
  \/ a.read > r.budget.input \/ a.used > r.budget.output

response(a) == <<"response", a.kind>>
proposal(a) == <<"proposal", a.kind>>

(* Mutant: a proposal that the contracts refuse is kept all the same.      *)
finalizeProposal_Unchecked(r, a) ==
  IF malformed(r, a) \/ a.size > ByteLimit THEN rejection(response(a), None)
  ELSE acceptance(response(a), proposal(a))

(* No outcome (Nil) is an error.                                           *)
finalizeProposal(r, a) ==
  IF malformed(r, a) \/ a.size > ByteLimit THEN rejection(response(a), None)
  ELSE CASE a.verdict = "rejected" -> rejection(response(a), proposal(a))
         [] a.verdict = "error" -> None
         [] a.verdict = "ok" -> acceptance(response(a), proposal(a))

finalizeReview(r, a) ==
  LET code == IF a.size > ByteLimit THEN "rejected" ELSE a.verdict
      kept == IF a.size > ByteLimit THEN None ELSE proposal(a)
  IN  CASE malformed(r, a) -> rejection(response(a), None)
        [] ~malformed(r, a) /\ code = "rejected" ->
             rejection(response(a), kept)
        [] ~malformed(r, a) /\ code = "error" -> None
        [] OTHER -> acceptance(response(a), kept)

outcomeOf(w) ==
  IF req(w).stage = "implementation"
  THEN finalizeProposal(req(w), caller[w].answer)
  ELSE finalizeReview(req(w), caller[w].answer)

(* Mutant: the response is not kept when there is a proposal.              *)
putArtifacts_Proposal(w, outcome) ==
  IF outcome = None \/ outcome.proposal = None
  THEN {response(caller[w].answer)} ELSE {outcome.proposal}

(* The proposal is stored before it is validated.                          *)
putArtifacts(w, outcome) ==
  {response(caller[w].answer)} \cup
  (IF outcome = None \/ outcome.proposal = None
   THEN {} ELSE {outcome.proposal})

Finalize(w) ==
  LET outcome == outcomeOf(w)
      limited == caller[w].answer.response <= ByteLimit
  IN  /\ at(w, "finalize")
      /\ IF validateProviderBudget(w) /\ limited
         THEN /\ artifacts' = artifacts \cup putArtifacts(w, outcome)
              /\ caller' = [caller EXCEPT ![w].outcome = outcome,
                   ![w].answer = None,
                   ![w].pc = IF outcome = None THEN "rollback" ELSE "complete"]
         ELSE goto(w, "rollback") /\ UNCHANGED artifacts
      /\ UNCHANGED <<rows, clock, returned, errors, losses>>

-----------------------------------------------------------------------------
(* Complete and Rollback.                                                  *)

held(w) == row(w).state = "in_progress" /\ row(w).digest = req(w).body

completion(w) ==
  [rows EXCEPT ![req(w).id].state = "completed",
               ![req(w).id].outcome = caller[w].outcome]

Complete(w) ==
  /\ at(w, "complete")
  /\ IF held(w) THEN rows' = completion(w) /\ goto(w, "answer")
                ELSE goto(w, "rollback") /\ UNCHANGED rows
  /\ UNCHANGED <<artifacts, clock, returned, errors, losses>>

Answer(w) ==
  /\ at(w, "answer")
  /\ returned' = returned \cup {<<req(w).id, caller[w].outcome>>}
  /\ stop(w)
  /\ UNCHANGED <<rows, artifacts, clock, errors, losses>>

(* Mutant: whatever is there is deleted.                                   *)
rolledBack_Any(w) == [rows EXCEPT ![req(w).id] = NoRow]

(* Mutant: the row is marked as free, whatever its state.                  *)
rolledBack_State(w) == [rows EXCEPT ![req(w).id].state = "NONE"]

(* Mutant: a call that never reached the provider keeps its reservation.   *)
rolledBack_Sent(w) ==
  IF held(w) /\ caller[w].attempt > 0
  THEN [rows EXCEPT ![req(w).id] = NoRow] ELSE rows

rolledBack(w) == IF held(w) THEN [rows EXCEPT ![req(w).id] = NoRow] ELSE rows

Rollback(w) ==
  /\ at(w, "rollback")
  /\ rows' = rolledBack(w)
  /\ stop(w)
  /\ UNCHANGED <<artifacts, clock, returned, errors, losses>>

-----------------------------------------------------------------------------
(* Faults and time.                                                        *)

(* The caller gives up or a dependency fails; the commit of Complete may   *)
(* have happened.                                                          *)
Error(w) ==
  /\ caller[w].pc \in {"validate", "resolve", "send", "finalize", "complete"}
  /\ Fault
  /\ rows' \in IF at(w, "complete") /\ held(w)
               THEN {rows, completion(w)} ELSE {rows}
  /\ goto(w, "rollback")
  /\ UNCHANGED <<artifacts, clock, returned, losses>>

(* Begin fails before there is a rollback to defer.                        *)
BeginError(w) ==
  /\ at(w, "begin")
  /\ Fault
  /\ stop(w)
  /\ UNCHANGED <<rows, artifacts, clock, returned, losses>>

(* The INSERT is committed but its answer is lost, or the context ended    *)
(* meanwhile: Begin returns an error, and nobody holds the reservation.    *)
ReservationLost(w) ==
  /\ at(w, "begin")
  /\ reservable(w)
  /\ losses < MaxLosses
  /\ losses' = losses + 1
  /\ rows' = reservation(w)
  /\ stop(w)
  /\ UNCHANGED <<artifacts, clock, returned, errors>>

(* The deferred rollback fails; its error is dropped.                      *)
RollbackFails(w) ==
  /\ at(w, "rollback")
  /\ losses < MaxLosses
  /\ losses' = losses + 1
  /\ stop(w)
  /\ UNCHANGED <<rows, artifacts, clock, returned, errors>>

(* The process dies: nothing is rolled back.                               *)
Death ==
  /\ losses < MaxLosses
  /\ \E w \in Callers : caller[w] # NoCall
  /\ losses' = losses + 1
  /\ caller' = [w \in Callers |-> NoCall]
  /\ UNCHANGED <<rows, artifacts, clock, returned, errors>>

(* Everything has expired at MaxTime, so later instants are alike.         *)
less(n) == IF n > 0 THEN n - 1 ELSE 0

Tick ==
  /\ clock' = IF clock < MaxTime THEN clock + 1 ELSE MaxTime
  /\ caller' = [w \in Callers |-> [caller[w] EXCEPT
       !.left = less(caller[w].left), !.delay = less(caller[w].delay)]]
  /\ UNCHANGED <<rows, artifacts, returned, errors, losses>>

Step(w) ==
  \/ Reserve(w) \/ replayOutcome(w) \/ BeginRefused(w)
  \/ validateRecordedRequest(w) \/ invokeImplementation(w)
  \/ Send(w) \/ SendTimeout(w) \/ Finalize(w)
  \/ Complete(w) \/ Answer(w) \/ Rollback(w)

GatewayNext ==
  \/ \E w \in Callers :
       \/ Call(w) \/ Step(w) \/ Error(w) \/ BeginError(w)
       \/ ReservationLost(w) \/ RollbackFails(w)
  \/ Death \/ Tick

GatewaySpec == GatewayInit /\ [][GatewayNext]_callVars

(* Callers go on and time passes.                                          *)
FairGatewaySpec ==
  /\ GatewaySpec
  /\ WF_callVars(Tick)
  /\ \A w \in Callers : WF_callVars(Step(w))

-----------------------------------------------------------------------------
(* Properties.                                                             *)

StoredOutcomes ==
  [status : {"accepted", "rejected"},
   response : {response(a) : a \in Answers} \cup {None},
   proposal : {proposal(a) : a \in Answers} \cup {None}]

(* What the contracts guarantee and digests imply: sizes are numbers, a    *)
(* request that is valid has a budget for one provider request, a verdict  *)
(* is one of three, and the body of a request determines its verdict.      *)
ASSUME GatewayAssumption ==
  /\ ByteLimit \in Nat /\ MaxTime \in Nat
  /\ \A r \in Requests :
       /\ r.budget.requests \in Nat
       /\ r.budget.input \in Nat /\ r.budget.output \in Nat
       /\ r.verdict = "ok" => r.budget.requests > 0
  /\ \A q, r \in Requests : q.body = r.body => q.verdict = r.verdict
  /\ \A a \in Answers :
       /\ a.size \in Nat /\ a.response \in Nat
       /\ a.read \in Nat /\ a.used \in Nat
       /\ a.verdict \in {"ok", "rejected", "error"}
  /\ None \notin StoredOutcomes

(* A row has an outcome exactly when it is completed.                      *)
GatewayTypeOK ==
  /\ \A i \in IDs :
       /\ rows[i].state \in {"NONE", "in_progress", "completed"}
       /\ rows[i].outcome \in StoredOutcomes \cup {None}
       /\ rows[i].outcome # None <=> rows[i].state = "completed"
  /\ \A w \in Callers : caller[w].attempt \in 0..maximumProviderAttempts
  /\ clock \in 0..MaxTime

(* A reservation serializes its request ID: never are two callers at work  *)
(* on one ID, whatever was cancelled or rolled back before.                *)
working(w) == caller[w].pc \notin {"idle", "begin", "answer"}

OneCallerPerRequest ==
  \A v, w \in Callers :
    working(v) /\ working(w) /\ req(v).id = req(w).id =>
      v = w \/ row(v).state = "completed"

(* The adapter keeps within the request's budget by itself, so the test of *)
(* the gateway behind it never fails and no paid answer is thrown away.    *)
AdapterWithinBudget ==
  \A w \in Callers : at(w, "finalize") => validateProviderBudget(w)

(* What is accepted is valid in every respect at once: the contracts agree *)
(* with the request and with the proposal, it fits, and its usage does.    *)
AcceptedIsValid ==
  \A i \in IDs : rows[i].state = "completed" =>
    LET outcome == rows[i].outcome IN
    outcome.status = "accepted" =>
      \E r \in Requests, a \in Answers :
        /\ r.id = i /\ r.body = rows[i].digest /\ r.verdict = "ok"
        /\ outcome.response = response(a) /\ outcome.proposal = proposal(a)
        /\ a.verdict = "ok"
        /\ a.read <= r.budget.input /\ a.used <= r.budget.output
        /\ a.size <= ByteLimit /\ a.response <= ByteLimit

(* A request ID has one outcome, every caller is given it, and a row that  *)
(* is completed is never changed or deleted.                               *)
Ledger ==
  INSTANCE WriteOnce WITH
    Keys <- IDs, Results <- StoredOutcomes, None <- None,
    result <- [i \in IDs |-> rows[i].outcome], returned <- returned

InvocationsImplementWriteOnce == Ledger!Spec

(* An exact replay makes no provider request: one is only ever sent for an *)
(* ID whose reservation is open.                                           *)
ReplaySendsNothing ==
  [][\A w \in Callers : caller'[w].attempt > caller[w].attempt =>
       row(w).state = "in_progress"]_callVars

(* A caller that comes back for a completed invocation is given the stored *)
(* outcome, however late it is.                                            *)
ReplayAlwaysAnswers ==
  [][\A w \in Callers :
       replayOutcome(w) =>
         <<req(w).id, row(w).outcome>> \in returned']_callVars

(* A request ID is worked on by one caller at a time and has one outcome,  *)
(* which every later caller is given without another provider request.     *)
InvokedOnce ==
  /\ [](GatewayTypeOK /\ OneCallerPerRequest)
  /\ InvocationsImplementWriteOnce
  /\ ReplaySendsNothing
  /\ ReplayAlwaysAnswers

(* A reservation does not stay, whatever the provider does, whoever gives  *)
(* up and whichever store fails: it is completed or deleted.  Only three   *)
(* things leave a row with nobody to settle it: the death of the process,  *)
(* a rollback that failed, and an INSERT of Begin whose answer was lost.   *)
ReservationsSettle ==
  \A i \in IDs :
    rows[i].state = "in_progress" ~>
      rows[i].state # "in_progress" \/ losses > 0

=============================================================================
