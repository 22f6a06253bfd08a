------------------------ MODULE MCWorkflowScheduler ------------------------
(***************************************************************************)
(* Instances of WorkflowScheduler for TLC.                                 *)
(***************************************************************************)
EXTENDS WorkflowScheduler, TLC

ScansAndWorkflows == Permutations(Scanner) \cup Permutations(Workflow)
=============================================================================
