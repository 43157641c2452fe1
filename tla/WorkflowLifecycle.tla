------------------------- MODULE WorkflowLifecycle -------------------------
(***************************************************************************)
(* Workflow implements Lifecycle: the status is the row, the open          *)
(* approvals are what the artifacts say, a task is started when the        *)
(* request of its worker is on disk, and the bundle is 07_evidence.yaml.   *)
(***************************************************************************)
EXTENDS Workflow

OpenApprovals ==
    {a \in {"spec", "plan"} :
        IF a = "spec" THEN SpecNeedsApproval ELSE doc.planRequired /\ ~doc.planApproved}

StartedTasks == {t \in Tasks : taskFile[t] \notin {"none", "task"}}

BundleOnDisk ==
    IF "evidence" \notin files THEN "none" ELSE IF doc.ready THEN "complete" ELSE "incomplete"

LC == INSTANCE Lifecycle
    WITH status <- row, open <- OpenApprovals, started <- StartedTasks, bundle <- BundleOnDisk

(* Every step of the workflow - each single write, save, crash and command - *)
(* is a step of the life cycle or leaves it as it is.                        *)
ImplementsLifecycle == LC!Spec
=============================================================================
