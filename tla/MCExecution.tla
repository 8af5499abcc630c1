---------------------------- MODULE MCExecution -----------------------------
(***************************************************************************)
(* Small instances of Execution for TLC.                                   *)
(***************************************************************************)
EXTENDS Execution

CONSTANTS w1, w2, q1, q2

MCCommandIDs == Tasks \X {"accept", "record"}

MCArtifacts == {"proposal", "report"} \X Proposals

(* Two processes with a worker each: a restarted process beside the one    *)
(* it replaces.                                                            *)
HomeApart == [w \in Workers |-> IF w = w1 THEN q1 ELSE q2]

=============================================================================
