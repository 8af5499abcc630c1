---------------------------- MODULE MCStageJobs ----------------------------
(***************************************************************************)
(* Small instances of StageJobs for TLC.  All processes are configured     *)
(* with one OwnerID, as two replicas of one deployment or a process and    *)
(* its restarted successor are, so that only fencing tokens tell them      *)
(* apart.                                                                  *)
(***************************************************************************)
EXTENDS StageJobs

SameOwner == [w \in Workers |-> CHOOSE o \in Owners : TRUE]

=============================================================================
