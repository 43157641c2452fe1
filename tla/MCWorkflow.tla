----------------------------- MODULE MCWorkflow -----------------------------
(* Workflow for TLC.  The configurations choose the instance; two           *)
(* fingerprints tell a repeated failure of the goal from a new one.         *)
EXTENDS WorkflowLifecycle
=============================================================================
