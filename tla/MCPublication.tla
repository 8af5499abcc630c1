--------------------------- MODULE MCPublication ----------------------------
(***************************************************************************)
(* Small instances of Publication for TLC: evidence that agrees, and the   *)
(* ways in which it may not.                                               *)
(***************************************************************************)
EXTENDS Publication

MCCheck(candidate, passed) ==
  [candidate |-> candidate, passed |-> passed, timedOut |-> FALSE]

MCCovered == [covered |-> TRUE, passed |-> TRUE, checks |-> {"c"}]

MCVerification(exec, checks) ==
  [run |-> RunID, base |-> Base, candidate |-> Candidate, exec |-> exec,
   passed |-> TRUE, checks |-> checks, coverage |-> {MCCovered}]

MCGood ==
  [spec |-> [title |-> "spec"], impl |-> [title |-> "impl"],
   exec |-> [run |-> RunID, base |-> Base, candidate |-> Candidate,
             impl |-> "impl"],
   verif |-> MCVerification("exec", {MCCheck(Candidate, TRUE)}),
   verif2 |-> MCVerification("exec", {MCCheck(Candidate, FALSE)}),
   review |-> [run |-> RunID, candidate |-> Candidate, spec |-> "spec",
               impl |-> "impl", exec |-> "exec", verif |-> "verif",
               passed |-> TRUE, recommendation |-> "advisory_accept"],
   approval |-> [run |-> RunID, candidate |-> Candidate, spec |-> "spec",
                 impl |-> "impl", exec |-> "exec", verif |-> "verif",
                 review |-> "review", decision |-> "approve"]]

MCBodies ==
  {MCGood,
   [MCGood EXCEPT !.approval.verif = "verif2"],
   [MCGood EXCEPT !.approval.decision = "reject"],
   [MCGood EXCEPT !.approval.run = "other"],
   [MCGood EXCEPT !.review.verif = "verif2"],
   [MCGood EXCEPT !.review.passed = FALSE],
   [MCGood EXCEPT !.review.recommendation = "rework_required"],
   [MCGood EXCEPT !.verif.checks = {MCCheck(Foreign, TRUE)}],
   [MCGood EXCEPT !.verif.checks = {[MCCheck(Candidate, TRUE) EXCEPT
                                       !.timedOut = TRUE]}],
   [MCGood EXCEPT !.verif.coverage = {}],
   [MCGood EXCEPT !.verif.coverage = {[MCCovered EXCEPT !.checks = {}]}],
   [MCGood EXCEPT !.exec.candidate = Foreign]}

(* Two callers of one key and, by symmetry, one of another.                *)
MCServes == (Callers \X {"k1"}) \cup {<<CHOOSE w \in Callers : TRUE, "k2">>}

=============================================================================
