--------------------------- MODULE MCVerification ---------------------------
(***************************************************************************)
(* Small instances of Verification for TLC: two criteria, two checks, of   *)
(* which a request may name the first, both or none for a criterion.       *)
(***************************************************************************)
EXTENDS Verification

MCTasks == {T}
MCCommandIDs == {"record"}
MCArtifacts == {Report} \cup {ReportRef(n) : n \in 1..MaxCollections}

Request(requirements) ==
  [report |-> Report, candidate |-> Candidate, available |-> {"k1", "k2"},
   requirements |-> requirements]

(* One valid request, one with a criterion that has no check, and three    *)
(* that are refused: a criterion left out, an unknown check, and another   *)
(* candidate.                                                              *)
MCRequests ==
  LET all == Request([c \in Criteria |-> {"k1", "k2"}]) IN
  {all,
   Request([c \in Criteria |-> IF c = "c1" THEN {"k1"} ELSE {}]),
   Request([c \in {"c1"} |-> {"k1"}]),
   Request([c \in Criteria |-> {"k3"}]),
   [all EXCEPT !.candidate = "other"]}

=============================================================================
