----------------------------- MODULE WriteOnce ------------------------------
(***************************************************************************)
(* What every reservation ledger of the harness promises its callers: the  *)
(* result of an identity is written once, and whoever gets an answer for   *)
(* the identity gets that result, however many callers, takeovers, retries *)
(* and crashes there were.  The HTTP idempotency ledger, the execution,    *)
(* verification, reasoning, approval and publication ledgers are shown to  *)
(* implement this specification.                                           *)
(***************************************************************************)
EXTENDS Naturals

CONSTANTS
  Keys,     \* identities: idempotency keys, execution IDs, approval IDs ...
  Results,  \* what can be recorded for an identity
  None      \* nothing recorded yet

VARIABLES
  result,   \* the result recorded for each identity
  returned  \* the <<identity, result>> pairs that callers were given

vars == <<result, returned>>

Init ==
  /\ result = [k \in Keys |-> None]
  /\ returned = {}

(* The one completion of an identity.                                      *)
Record(k, v) ==
  /\ result[k] = None
  /\ result' = [result EXCEPT ![k] = v]
  /\ UNCHANGED returned

(* A caller, the one that completed the identity or a later one, is given  *)
(* what is recorded.                                                       *)
Return(k) ==
  /\ result[k] # None
  /\ returned' = returned \cup {<<k, result[k]>>}
  /\ UNCHANGED result

Next == \E k \in Keys : Return(k) \/ \E v \in Results : Record(k, v)

Spec == Init /\ [][Next]_vars

=============================================================================
