------------------------------ MODULE MCGateway ------------------------------
(***************************************************************************)
(* An instance of Gateway: all requests compete for one request ID.        *)
(***************************************************************************)
EXTENDS Gateway

MCRequest(body, stage) ==
  [id |-> "q1", body |-> body, stage |-> stage, identified |-> TRUE,
   size |-> 1, verdict |-> "ok", expires |-> 2, manifest |-> stage,
   tokens |-> 1, budget |-> [requests |-> 2, input |-> 1, output |-> 1]]

(* An implementation with budget for two attempts, a review with budget     *)
(* for one and for more output, one the contracts refuse, some not sent or *)
(* not even stored.                                                        *)
MCRequests ==
  {MCRequest("b1", "implementation"),
   [MCRequest("b2", "review") EXCEPT !.budget.requests = 1,
                                    !.budget.output = 2],
   [MCRequest("b3", "implementation") EXCEPT !.verdict = "rejected"],
   [MCRequest("b4", "review") EXCEPT !.manifest = "implementation"],
   [MCRequest("b5", "review") EXCEPT !.size = 2],
   [MCRequest("b6", "implementation") EXCEPT !.identified = FALSE]}

MCAnswer(kind, verdict) ==
  [kind |-> kind, verdict |-> verdict, size |-> 1, response |-> 1,
   read |-> 1, used |-> 1]

MCAnswers ==
  {MCAnswer("good", "ok"), MCAnswer("refused", "rejected"),
   MCAnswer("server", "ok"),
   [MCAnswer("huge", "ok") EXCEPT !.size = 2, !.response = 2],
   [MCAnswer("costly", "ok") EXCEPT !.read = 2, !.used = 2]}

MCRetryAfters == {3}

=============================================================================
