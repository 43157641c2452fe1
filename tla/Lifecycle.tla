----------------------------- MODULE Lifecycle -----------------------------
(***************************************************************************)
(* What a run promises to the person who started it, without graph, files  *)
(* or checkpoints: nothing is handed to a worker before every approval     *)
(* that was asked for is given, nothing more is asked once work began,     *)
(* the bundle is made once and from all tasks, and only a complete bundle  *)
(* makes the run ready for review.  Module Workflow implements it, with    *)
(* and without crashes.                                                    *)
(***************************************************************************)
CONSTANT Tasks

VARIABLES
    status,   \* the status of the run, "none" until it is registered
    open,     \* the approvals that were asked for and are not given
    started,  \* tasks handed to a worker
    bundle    \* the evidence bundle: "none", "incomplete" or "complete"

lifecycle == <<status, open, started, bundle>>

Approvals == {"spec", "plan"}

Init == status = "none" /\ open = {} /\ started = {} /\ bundle = "none"

(* A specification or a plan asks for an approval. *)
Ask ==
    /\ started = {} /\ bundle = "none"
    /\ \E a \in Approvals \ open : open' = open \cup {a}
    /\ UNCHANGED <<status, started, bundle>>

(* A dry run writes both before the run is known. *)
AskAll ==
    /\ status = "none" /\ started = {} /\ open = {}
    /\ open' = Approvals
    /\ UNCHANGED <<status, started, bundle>>

(* The first approval that is open, or one that is given again. *)
Approve ==
    /\ status = "human_required" /\ status' = "running"
    /\ IF "spec" \in open THEN open' = open \ {"spec"} ELSE open' = open \ {"plan"}
    /\ UNCHANGED <<started, bundle>>

Confirm ==
    /\ status = "human_required" /\ open = {}
    /\ status' = "approved"
    /\ UNCHANGED <<open, started, bundle>>

StartTask(t) ==
    /\ status = "running" /\ open = {} /\ bundle = "none"
    /\ t \notin started /\ started' = started \cup {t}
    /\ UNCHANGED <<status, open, bundle>>

(* The bundle is made while the run is executed, and is final. *)
Deliver ==
    /\ status = "running" /\ open = {} /\ bundle = "none" /\ started = Tasks
    /\ bundle' \in {"incomplete", "complete"}
    /\ UNCHANGED <<status, open, started>>

Offer ==
    /\ bundle = "complete" /\ status' = "ready_for_human_review"
    /\ UNCHANGED <<open, started, bundle>>

(* The run is executed, or waits for a person. *)
Report ==
    /\ status' \in {"running", "human_required"}
    /\ UNCHANGED <<open, started, bundle>>

Next ==
    \/ Ask \/ AskAll \/ Approve \/ Confirm \/ (\E t \in Tasks : StartTask(t))
    \/ Deliver \/ Offer \/ Report

Spec == Init /\ [][Next]_lifecycle
=============================================================================
