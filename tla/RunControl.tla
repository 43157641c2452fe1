----------------------------- MODULE RunControl -----------------------------
(***************************************************************************)
(* The commands given to a run while it exists - by the CLI (control_run   *)
(* and release_run in cli.py) or by the web console (control_service.py) - *)
(* composed with the process that executes it (module Workflow).           *)
(*                                                                         *)
(* Commands and `resume` exclude each other by the run lock; `run` takes   *)
(* no lock, so its process interleaves with every step of a command.       *)
(* Three commands read the status column before they have the lock and use *)
(* what they read when they have it: release, and the two reruns of the    *)
(* web console.  A command writes its artifacts, the row and the           *)
(* checkpoints one after the other and may be killed in between; the lock  *)
(* it leaves behind expires (module RunLock).                              *)
(***************************************************************************)
EXTENDS Workflow

CONSTANTS
    Commands,      \* bound: the commands that are given
    MaxCommands    \* bound: how many of them

Controls == {"approve", "pause", "stop", "verify", "review"}
Deferred == {"release", "rerun_tools", "rerun_satisfaction"}

ASSUME CommandAssumption == Commands \subseteq Controls \cup Deferred /\ MaxCommands \in Nat

VARIABLES
    op,         \* the command that has the lock, "none", or "dead" if it was killed
    step,       \* how far it is
    carry,      \* the state approve is about to save in the LangGraph thread
    seen,       \* the status each deferred command read before it had the lock
    manifest,   \* what 08_release_manifest.yaml says
    issued,     \* commands given
    (* history *)
    alone,      \* no run was executing when the command took the lock
    overruled   \* something other than the bundle decided: verify, a rerun that brought
                \* back an older status, a process that left in the row what it
                \* remembered, or a kill between bundle and status

command == <<op, step, carry, seen, issued, alone>>
allVars == <<vars, command, manifest, overruled>>

ControlInit ==
    /\ Init
    /\ op = "none" /\ step = "begin" /\ carry = NoState
    /\ seen = [c \in Deferred |-> "none"]
    /\ manifest = "none" /\ issued = 0
    /\ alone = FALSE /\ overruled = FALSE

-----------------------------------------------------------------------------
(* Taking the lock and giving it back. *)

LockFree == ~locked /\ op = "none"

(* CONTROL_ALLOWED_STATUSES *)
Allowed ==
    [approve |-> {"human_required"}, pause |-> {"running"}, stop |-> {"running"},
     verify |-> {"human_required", "ready_for_human_review"},
     review |-> {"human_required", "ready_for_human_review"}]

Hold(c) ==
    /\ LockFree
    /\ op' = c /\ step' = "begin" /\ carry' = NoState
    /\ alone' = (pc = "idle")

(* control_run: the status is validated under the lock; a command that is   *)
(* refused changes nothing and is not given here.                          *)
Take(c) ==
    /\ Hold(c) /\ row \in Allowed[c]
    /\ issued < MaxCommands /\ issued' = issued + 1
    /\ UNCHANGED <<vars, seen, manifest, overruled>>

(* run_context, and for release the check of the status, without the lock. *)
Ask(c) ==
    /\ seen[c] = "none" /\ row # "none"
    /\ c = "release" => row = "ready_for_human_review"
    /\ issued < MaxCommands /\ issued' = issued + 1
    /\ seen' = [seen EXCEPT ![c] = row]
    /\ UNCHANGED <<vars, op, step, carry, alone, manifest, overruled>>

TakeAsked(c) ==
    /\ seen[c] # "none" /\ Hold(c)
    /\ UNCHANGED <<vars, seen, issued, manifest, overruled>>

(* Somebody else has the lock: the command is refused. *)
Refuse(c) ==
    /\ seen[c] # "none" /\ op # c /\ ~LockFree
    /\ seen' = [seen EXCEPT ![c] = "none"]
    /\ UNCHANGED <<vars, op, step, carry, issued, alone, manifest, overruled>>

Working(c, s) == op = c /\ step = s

Advance(s) == step' = s /\ UNCHANGED <<op, carry, seen, issued, alone>>

Unlock(next) ==
    /\ op' = next /\ step' = "begin" /\ carry' = NoState /\ alone' = FALSE
    /\ seen' = [c \in Deferred |-> IF c = op THEN "none" ELSE seen[c]]
    /\ UNCHANGED issued

(* No command touches the process, its memory or what the workers made.    *)
Keep(others) ==
    /\ UNCHANGED <<control, mem, work, taskFile, repairs, session, reused, repairsRun, applied>>
    /\ UNCHANGED others

-----------------------------------------------------------------------------
(* pause and stop *)

(* Mutant of SetStatus: the command's name for the status it gives. *)
SetStatusByName ==
    /\ op \in {"pause", "stop"} /\ step = "begin"
    /\ row' = op
    /\ Unlock("none")
    /\ Keep(<<wf, lg, files, stale, doc, staleTasks, verified, manifest, overruled>>)

SetStatus ==
    /\ op \in {"pause", "stop"} /\ step = "begin"
    /\ row' = IF op = "pause" THEN "paused" ELSE "stopped"
    /\ Unlock("none")
    /\ Keep(<<wf, lg, files, stale, doc, staleTasks, verified, manifest, overruled>>)

-----------------------------------------------------------------------------
(* approve, one write after the other: the artifact, the verification plan  *)
(* made from it, the row, the checkpoint, the LangGraph thread.            *)

(* Mutant of SpecWaits: approve asks for the plan only. *)
SpecIgnored == FALSE

SpecWaits == "spec" \in files /\ SpecNeedsApproval
PlanWaits == "plan" \in files /\ doc.planRequired

ApproveSpecArtifact ==
    /\ Working("approve", "begin") /\ SpecWaits
    /\ doc' = [doc EXCEPT !.specApproved = TRUE]
    /\ Write({"spec"})
    /\ Advance("spec_written")
    /\ Keep(<<saved, staleTasks, verified, manifest, overruled>>)

RewriteVerificationPlan ==
    /\ Working("approve", "spec_written") /\ "vplan" \in files
    /\ Write({"vplan"})
    /\ Advance("spec_replanned")
    /\ Keep(<<saved, doc, staleTasks, verified, manifest, overruled>>)

(* The validity of the plan is not looked at, nor whether it is approved    *)
(* already.  Every task.yaml cites the plan's old revision.                *)
ApprovePlanArtifact ==
    /\ Working("approve", "begin") /\ ~SpecWaits /\ PlanWaits
    /\ doc' = [doc EXCEPT !.planApproved = TRUE]
    /\ Write({"plan"})
    /\ staleTasks' = {t \in Tasks : taskFile[t] # "none"}
    /\ Advance("plan_written")
    /\ Keep(<<saved, verified, manifest, overruled>>)

SpecRewritten ==
    step = "spec_replanned" \/ (step = "spec_written" /\ "vplan" \notin files)

MarkApproved ==
    /\ op = "approve" /\ (SpecRewritten \/ step = "plan_written")
    /\ row' = "running"
    /\ Advance(IF step = "plan_written" THEN "plan_marked" ELSE "spec_marked")
    /\ Keep(<<wf, lg, files, stale, doc, staleTasks, verified, manifest, overruled>>)

(* Mutant of SaveApproved: a specification is approved as a plan is. *)
SaveApprovedAsPlan ==
    /\ op = "approve" /\ step \in {"spec_marked", "plan_marked"}
    /\ LET s == ResumeAt("validate_execution_plan", "plan") IN  Save(s) /\ carry' = s
    /\ step' = "saved"
    /\ UNCHANGED <<op, seen, issued, alone>>
    /\ Keep(<<files, stale, doc, staleTasks, verified, manifest, overruled>>)

(* The state to resume from is loaded and saved in workflow_checkpoints.   *)
SaveApproved ==
    /\ op = "approve" /\ step \in {"spec_marked", "plan_marked"}
    /\ LET s == IF step = "spec_marked" THEN ResumeAt("create_execution_plan", "spec")
                ELSE ResumeAt("validate_execution_plan", "plan")
       IN  Save(s) /\ carry' = s
    /\ step' = "saved"
    /\ UNCHANGED <<op, seen, issued, alone>>
    /\ Keep(<<files, stale, doc, staleTasks, verified, manifest, overruled>>)

(* Mutant of SaveApprovedThread: only the per-node checkpoint is moved. *)
ForgetApprovedThread ==
    /\ Working("approve", "saved")
    /\ Unlock("none")
    /\ Keep(<<saved, files, stale, doc, staleTasks, verified, manifest, overruled>>)

SaveApprovedThread ==
    /\ Working("approve", "saved")
    /\ SaveLangGraph(carry) /\ UNCHANGED <<row, wf>>
    /\ Unlock("none")
    /\ Keep(<<files, stale, doc, staleTasks, verified, manifest, overruled>>)

(* Nothing waits for an approval: the row alone says that a person agreed. *)
Confirm ==
    /\ Working("approve", "begin") /\ ~SpecWaits /\ ~PlanWaits
    /\ row' = "approved"
    /\ Unlock("none")
    /\ Keep(<<wf, lg, files, stale, doc, staleTasks, verified, manifest, overruled>>)

-----------------------------------------------------------------------------
(* verify, and the tool checks it shares with the rerun of the web console. *)

RunGatesAgain ==
    /\ Working("verify", "begin")
    /\ \E passed \in BOOLEAN : doc' = [doc EXCEPT !.gate = passed]
    /\ Write({"gate"}) /\ verified' = TRUE
    /\ Advance("gates_run")
    /\ Keep(<<saved, staleTasks, manifest, overruled>>)

RequestToolChecks ==
    /\ ToolChecks /\ (Working("verify", "gates_run") \/ Working("rerun_tools", "begin"))
    /\ Write({"toolRequest"})
    /\ Advance("requested")
    /\ Keep(<<saved, doc, staleTasks, verified, manifest, overruled>>)

RunToolChecks ==
    /\ step = "requested"
    /\ Write({"tools"})
    /\ Advance("checked")
    /\ Keep(<<saved, doc, staleTasks, verified, manifest, overruled>>)

(* The gates alone decide, without a look at review, goal or evidence.     *)
DecideVerify ==
    /\ Working("verify", "checked") \/ (~ToolChecks /\ Working("verify", "gates_run"))
    /\ row' = IF doc.gate THEN "ready_for_human_review" ELSE "human_required"
    /\ overruled' = TRUE
    /\ Unlock("none")
    /\ Keep(<<wf, lg, files, stale, doc, staleTasks, verified, manifest>>)

-----------------------------------------------------------------------------
(* review: a new review of the gate report on disk, and a new bundle.      *)

ReviewGates ==
    /\ Working("review", "begin") /\ {"goal", "gate"} \subseteq files
    /\ \E outcome \in Reviews : doc' = [doc EXCEPT !.review = outcome]
    /\ Write({"review"})
    /\ Advance("reviewed")
    /\ Keep(<<saved, staleTasks, verified, manifest, overruled>>)

(* _completed_task_ids_for_review: every task that left a patch, whatever   *)
(* became of it; whether the patch of a failed one has changes is not      *)
(* known.                                                                  *)
Patched == {t \in Tasks : taskFile[t] \in Results}

(* Mutant of BundleReady: what the review found is forgotten. *)
BundleReadyUnreviewed(patches) ==
    /\ doc.gate /\ patches
    /\ Patched # {} /\ \A t \in Patched : taskFile[t] # "empty"

(* The evaluation of the goal is not handed on: it counts as satisfied.     *)
BundleReady(patches) ==
    /\ doc.gate /\ doc.review # "blocking" /\ patches
    /\ Patched # {} /\ \A t \in Patched : taskFile[t] # "empty"

BundleEvidence ==
    /\ Working("review", "reviewed")
    /\ \E patches \in IF \E t \in Patched : taskFile[t] = "failed" THEN BOOLEAN ELSE {TRUE} :
          doc' = [doc EXCEPT !.ready = BundleReady(patches), !.satCited = FALSE]
    /\ Write({"evidence"})
    /\ Advance("bundled")
    /\ Keep(<<saved, staleTasks, verified, manifest, overruled>>)

(* Mutant of DecideReview: the findings decide, not the bundle. *)
DecideByFindings ==
    /\ Working("review", "bundled")
    /\ row' = IF doc.review = "pass" THEN "ready_for_human_review" ELSE "human_required"
    /\ Unlock("none")
    /\ Keep(<<wf, lg, files, stale, doc, staleTasks, verified, manifest, overruled>>)

DecideReview ==
    /\ Working("review", "bundled")
    /\ row' = IF doc.ready THEN "ready_for_human_review" ELSE "human_required"
    /\ Unlock("none")
    /\ Keep(<<wf, lg, files, stale, doc, staleTasks, verified, manifest, overruled>>)

-----------------------------------------------------------------------------
(* release, and the reruns of the web console.                             *)

(* Mutant of Release: the status that let the command in is the verdict. *)
ReleaseAsAsked ==
    /\ Working("release", "begin") /\ "evidence" \in files
    /\ manifest' = "ready"
    /\ Write({"release"})
    /\ Unlock("none")
    /\ Keep(<<saved, doc, staleTasks, verified, overruled>>)

Release ==
    /\ Working("release", "begin") /\ "evidence" \in files
    /\ manifest' = IF doc.ready THEN "ready" ELSE "blocked"
    /\ Write({"release"})
    /\ Unlock("none")
    /\ Keep(<<saved, doc, staleTasks, verified, overruled>>)

(* write_goal_satisfaction from what is on disk.                           *)
EvaluateAgain ==
    /\ Working("rerun_satisfaction", "begin") /\ {"vplan", "gate"} \subseteq files
    /\ \E verdict \in Verdicts :
          \E error \in IF verdict = "satisfied" THEN {NoError} ELSE Fingerprints :
             doc' = [doc EXCEPT !.sat = verdict, !.satError = error]
    /\ Write({"sat"})
    /\ Advance("checked")
    /\ Keep(<<saved, staleTasks, verified, manifest, overruled>>)

(* Both reruns write back the status they read before they had the lock.   *)
RestoreStatus ==
    /\ \/ op \in {"rerun_tools", "rerun_satisfaction"} /\ step = "checked"
       \/ ~ToolChecks /\ Working("rerun_tools", "begin")
    /\ row' = seen[op]
    /\ overruled' = (overruled \/ seen[op] # row)
    /\ Unlock("none")
    /\ Keep(<<wf, lg, files, stale, doc, staleTasks, verified, manifest>>)

(* Mutant of Fail: the error leaves the command without giving back the lock. *)
FailHoldingLock ==
    /\ op \in {"review", "release", "rerun_satisfaction"} /\ step = "begin"
    /\ ~({"goal", "gate", "vplan", "evidence"} \subseteq files)
    /\ Advance("bundled")
    /\ UNCHANGED <<vars, manifest, overruled>>

(* An artifact the command reads is missing: it ends with an error.        *)
Fail ==
    /\ step = "begin"
    /\ \/ op = "review" /\ ~({"goal", "gate"} \subseteq files)
       \/ op = "release" /\ "evidence" \notin files
       \/ op = "rerun_satisfaction" /\ ~({"vplan", "gate"} \subseteq files)
    /\ Unlock("none")
    /\ UNCHANGED <<vars, manifest, overruled>>

-----------------------------------------------------------------------------
(* A command is killed, or raises; its lock stays until it expires, which   *)
(* for an exception is at once.  A bundle without its status remains.      *)
KillCommand ==
    /\ op \notin {"none", "dead"}
    /\ overruled' = (overruled \/ Working("review", "bundled"))
    /\ Unlock("dead")
    /\ UNCHANGED <<vars, manifest>>

ExpireCommandLock ==
    /\ op = "dead"
    /\ Unlock("none")
    /\ UNCHANGED <<vars, manifest, overruled>>

Approving ==
    \/ ApproveSpecArtifact \/ RewriteVerificationPlan \/ ApprovePlanArtifact \/ MarkApproved
    \/ SaveApproved \/ SaveApprovedThread \/ Confirm
Verifying == RunGatesAgain \/ RequestToolChecks \/ RunToolChecks \/ DecideVerify
Reviewing == ReviewGates \/ BundleEvidence \/ DecideReview

Rerunning == EvaluateAgain \/ RestoreStatus

CommandStep == SetStatus \/ Approving \/ Verifying \/ Reviewing \/ Release \/ Rerunning \/ Fail

-----------------------------------------------------------------------------
(* The composition.  Two executions of the tool checks at the same time,    *)
(* and an evaluation between the report of the node and its verdict, are    *)
(* not modelled: a rerun and that part of the process wait for each other.  *)
Undisturbed ==
    /\ op = "rerun_tools" =>
          ~(pc = "run_quality_gates" /\ phase \in {"written", "requested"})
    /\ op = "rerun_satisfaction" => ~(pc = "evaluate_goal_satisfaction" /\ phase = "written")

Idle == UNCHANGED <<command, manifest, overruled>>

(* `run` holds no lock: its last save does not look at what the row says.  *)
(* The first save of a resumed process puts the status it remembers in the *)
(* row; one that ends before it is back at the bundle leaves it there.     *)
Undoes ==
    /\ mem.status = "ready_for_human_review"
    /\ \/ pc = "finish" /\ row # mem.status
       \/ pc \in {"enter", "prepare_evidence"} /\ pc' = "idle"

ProcessStep ==
    /\ Process
    /\ overruled' = (overruled \/ Undoes)
    /\ UNCHANGED <<command, manifest>> /\ Undisturbed'

(* Mutant of ResumeRun: a run that was paused or stopped goes on. *)
ResumeHalted ==
    /\ op = "none" /\ pc = "idle" /\ ~locked /\ row # "none" /\ Remembered # NoState
    /\ locked' = TRUE /\ pc' = "start" /\ mem' = Remembered
    /\ UNCHANGED <<phase, steps, work, saved, files, stale, doc, tasksOnDisk, repairs, crashes,
                   dry, broken, ghost>>
    /\ Idle

(* resume takes the lock the commands take. *)
ResumeRun == op = "none" /\ Resume /\ Idle

KillProcess ==
    /\ Crash
    /\ overruled' = (overruled \/ Undoes)
    /\ UNCHANGED <<command, manifest>>

Begin ==
    \/ \E c \in Commands \cap Controls : Take(c)
    \/ \E c \in Commands \cap Deferred : Ask(c) \/ (TakeAsked(c) /\ Undisturbed') \/ Refuse(c)

ControlNext ==
    \/ ProcessStep \/ ResumeRun
    \/ (Run \/ DryRun \/ LockExpires) /\ Idle
    \/ KillProcess
    \/ Begin \/ CommandStep \/ KillCommand \/ ExpireCommandLock

ControlSpec == ControlInit /\ [][ControlNext]_allVars

(* A command that has the lock goes on: what it calls has a timeout, and    *)
(* nothing it does waits for the process.                                  *)
FairControlSpec ==
    ControlSpec /\ WF_allVars(CommandStep) /\ WF_allVars(ExpireCommandLock)

-----------------------------------------------------------------------------
(* Every variable has its type. *)
ControlTypeOK ==
    /\ pc \in Nodes \cup {"idle", "start", "enter", "finish", "leave"}
    /\ mem \in State /\ wf \in State \cup {NoState} /\ lg \in State \cup {NoState}
    /\ row \in Rows /\ files \subseteq Names /\ stale \subseteq Names /\ doc \in Document
    /\ taskFile \in [Tasks -> TaskFiles] /\ staleTasks \subseteq Tasks
    /\ op \in Controls \cup Deferred \cup {"none", "dead"}
    /\ step \in {"begin", "spec_written", "spec_replanned", "plan_written", "spec_marked",
                 "plan_marked", "saved", "gates_run", "requested", "checked", "reviewed",
                 "bundled"}
    /\ carry \in State \cup {NoState}
    /\ seen \in [Deferred -> Rows] /\ manifest \in {"none", "ready", "blocked"}
    /\ issued \in Nat /\ alone \in BOOLEAN /\ overruled \in BOOLEAN

(* A bundle that no later write has made stale tells the truth about what   *)
(* it was built from: when it says ready, the gates passed, no blocking     *)
(* finding is open and the goal it cites is satisfied - whoever wrote it    *)
(* (prepare_evidence or `review`) and whatever was run again since          *)
(* (evidence_service.py, the inputs and the completeness validator).       *)
FreshBundleIsTrue ==
    "evidence" \in files \ stale /\ doc.ready =>
        doc.gate /\ doc.review # "blocking" /\ (doc.satCited => doc.sat = "satisfied")

(* A release manifest whose bundle was not rewritten since says what the    *)
(* bundle says, although `release` looked at the status of the run before   *)
(* it had the lock (cli.py release_run, release_service.py).               *)
ManifestMatchesBundle ==
    "release" \in files \ stale => (manifest = "ready" <=> doc.ready)

(* As long as no verify decided, no rerun brought back an older status, no  *)
(* `run` that was just leaving undid a review and nothing was killed        *)
(* between the bundle and the row - `review` after the bundle, a resumed    *)
(* process before it is back at the bundle - a run that rests and is        *)
(* offered for review has a bundle that says so (docs/workflow.md: evidence *)
(* delivery is the source of the final status).                            *)
EvidenceDecides ==
    row = "ready_for_human_review" /\ op = "none" /\ pc = "idle" /\ ~overruled =>
        "evidence" \in files /\ doc.ready

(* The same, whatever commands were given. *)
ReadyOnlyByEvidence ==
    row = "ready_for_human_review" /\ op = "none" /\ pc = "idle" =>
        "evidence" \in files /\ doc.ready

(* A run that was paused or stopped while nothing executes it, and of which *)
(* no pending rerun remembers another status, stays so and is never         *)
(* executed again: resume and the other commands leave it alone             *)
(* (docs/workflow.md, the control commands).                               *)
Halted ==
    /\ row \in {"paused", "stopped"} /\ pc = "idle"
    /\ \A c \in Deferred : seen[c] \in {"none", row}

StaysHalted == [][Halted => Halted' /\ row' = row]_allVars

(* An approval given while nothing executed the run takes hold in all three *)
(* places the run is remembered in: when the command ends, the row and what *)
(* resume will load say that it goes on, from the stage after the approval. *)
ApprovalTakesHold ==
    [][Working("approve", "saved") /\ alone /\ op' = "none" =>
          /\ row' = "running" /\ Remembered'.status = "running"
          /\ Remembered'.stage \in {"create_execution_plan", "validate_execution_plan"}]_allVars

(* The lock of a command is free again some day, also when the command is   *)
(* killed.                                                                 *)
LockFreed == (op # "none") ~> (op = "none")
=============================================================================
