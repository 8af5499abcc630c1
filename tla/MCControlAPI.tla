---------------------------- MODULE MCControlAPI ----------------------------
(***************************************************************************)
(* A small instance of ControlAPI for TLC.                                 *)
(***************************************************************************)
EXTENDS ControlAPI

MCCommandIDs == Keys \X Steps

MCArtifacts ==
  ({"spec", "graph", "task"} \X {Nil})
    \cup ({"spec", "graph", "approval"} \X Keys)
    \cup ({"proposal", "execution", "evidence", "review"} \X (1..MaxAttempts))

MCCommits == 1..MaxAttempts

MCTasks == {T}

(* One of the keys is kept for an approver of elevated rank, to meet every *)
(* other request of a run in execution.                                    *)
MCUses ==
  LET plan == ({"specification", "task-graph"} \X {"OPERATOR"})
                \cup ({"approve-specification", "reject-specification",
                       "approve-task-graph", "reject-task-graph"}
                      \X {"APPROVER"})
      others == ({"cancel", "retry"} \X {"OPERATOR"})
                  \cup ({"approval", "reject"} \X {"APPROVER"})
                  \cup ({"approval"} \X {"ELEVATED"})
      elevated == CHOOSE k \in Keys : TRUE
  IN  [k \in Keys |->
         plan \cup (IF k = elevated THEN {<<"approval", "ELEVATED">>}
                                   ELSE others)]

=============================================================================
