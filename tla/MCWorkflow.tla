----------------------------- MODULE MCWorkflow -----------------------------
(***************************************************************************)
(* Small instances of Workflow for TLC.  The .cfg files give the constants *)
(* their values.                                                           *)
(***************************************************************************)
EXTENDS Workflow, TLC

(* Task IDs, artifacts and commits are interchangeable: no definition of   *)
(* Workflow tells two of them apart.                                       *)
Symmetry ==
  Permutations(Tasks) \cup Permutations(Artifacts) \cup Permutations(Commits)

=============================================================================
