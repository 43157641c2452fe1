------------------------------ MODULE Workflow ------------------------------
(***************************************************************************)
(* One run of the Coductor workflow: the graph of workflow/graph.py, its   *)
(* nodes (workflow/nodes/), the artifacts they write into the run          *)
(* directory, the three places a run is remembered in - the runs row, the  *)
(* workflow checkpoint and the LangGraph checkpoint - and the commands     *)
(* that start it (`run`, `run --dry-run`), continue it (`resume`) and      *)
(* approve it (`approve`).                                                 *)
(*                                                                         *)
(* One process executes the graph; its state (mem, work) is lost when it   *)
(* ends or crashes.  Every artifact write and every checkpoint save is a   *)
(* step of its own, so that a crash may fall between any two of them.      *)
(* Artifacts are names: what their text says is kept in doc, only as far   *)
(* as the control flow reads it.  An artifact is stale when an input it    *)
(* was made from has been rewritten since (artifacts/validator.py).        *)
(***************************************************************************)
EXTENDS Naturals, FiniteSets

CONSTANTS
    NumTasks,          \* tasks of the execution plan, numbered in dependency order
    Strategies,        \* the strategies the planner may choose
    MaxRepairs,        \* workflow.max_repair_attempts
    RepairAfterReview, \* workflow.repair_after_blocking_review
    SpecApproval,      \* the values workflow.require_spec_approval may have
    PlanApproval,      \* the values workflow.require_plan_approval_for_parallel may have
    ToolChecks,        \* whether tool checks are configured
    SaverAvailable,    \* whether langgraph-checkpoint-sqlite can be imported
    Fingerprints,      \* fingerprints of an unsatisfied goal
    NoError,           \* the fingerprint of no failure
    RecursionLimit,    \* bound: node executions LangGraph allows in one invocation
    MaxCrashes,        \* bound: how often the process is killed
    NoState            \* a checkpoint store that holds nothing for the run

ASSUME CountAssumption ==
    NumTasks \in Nat /\ MaxRepairs \in Nat /\ RecursionLimit \in Nat /\ MaxCrashes \in Nat
ASSUME FlagAssumption ==
    /\ RepairAfterReview \in BOOLEAN /\ ToolChecks \in BOOLEAN /\ SaverAvailable \in BOOLEAN
    /\ SpecApproval \subseteq BOOLEAN /\ PlanApproval \subseteq BOOLEAN
ASSUME StrategyAssumption == Strategies \subseteq {"sequential", "parallel"}

Tasks == 1..NumTasks

(* WORKFLOW_NODES, in the order of the graph. *)
Nodes == {"collect_goal", "inspect_repository", "draft_spec", "validate_spec",
          "create_verification_plan", "create_execution_plan", "validate_execution_plan",
          "materialize_tasks", "dispatch_tasks", "integrate_changes", "run_quality_gates",
          "repair_failure", "evaluate_goal_satisfaction", "run_independent_review",
          "prepare_evidence"}

Stages == Nodes \cup {"human_required"}

Statuses == {"running", "human_required", "ready_for_human_review"}

(* The status column of the runs row; paused and stopped are given by the   *)
(* commands of module RunControl only.                                     *)
Rows == Statuses \cup {"none", "approved", "paused", "stopped"}

(* The artifacts of a run directory (00_goal.yaml ... 07_evidence.yaml and *)
(* the request and result of the tool checks; release is written by the    *)
(* release command only), each with the artifacts whose revision and hash  *)
(* its envelope records as inputs, or whose hash the evidence lists.       *)
Inputs ==
    [goal |-> {}, snapshot |-> {"goal"}, spec |-> {"goal", "snapshot"}, vplan |-> {"spec"},
     plan |-> {"spec", "snapshot"}, integration |-> {"plan"}, gate |-> {}, toolRequest |-> {},
     tools |-> {"toolRequest"}, sat |-> {"vplan", "gate", "tools"}, review |-> {"gate"},
     evidence |-> {"gate", "review", "sat", "tools"}, release |-> {"evidence"}]

Names == DOMAIN Inputs

Verdicts == {"satisfied", "not_satisfied", "uncertain"}
Reviews == {"pass", "failed", "blocking"}   \* failed: verdict fail, no blocking finding
Results == {"completed", "empty", "failed"} \* empty: completed, but the patch has no change
TaskFiles == {"none", "task", "request"} \cup Results

(* WorkflowState.  arts are the top-level artifact keys; workers the       *)
(* worker_result_ keys; repaired says whether there is a repair_result_    *)
(* key, which is all the nodes ask of those.                               *)
State ==
    [status : Statuses, stage : Stages, attempts : Nat, satAttempts : Nat,
     satError : Fingerprints \cup {NoError}, gatePassed : BOOLEAN, reviewPassed : BOOLEAN,
     goalSatisfied : BOOLEAN, arts : SUBSET Names, workers : SUBSET Tasks, done : SUBSET Tasks,
     repaired : BOOLEAN]

ASSUME NoStateAssumption == NoState \notin State

(* What the control flow reads from the artifacts. *)
Document ==
    [specRequired : BOOLEAN, specApproved : BOOLEAN,
     strategy : {"sequential", "parallel"}, planValid : BOOLEAN, planRequired : BOOLEAN,
     planApproved : BOOLEAN, gate : BOOLEAN, sat : Verdicts,
     satError : Fingerprints \cup {NoError}, review : Reviews, ready : BOOLEAN,
     satCited : BOOLEAN]   \* the evidence was built with the evaluation of the goal

VARIABLES
    pc,         \* "idle", the node being executed, or a step around the graph
    phase,      \* how far the node is
    steps,      \* nodes entered in this invocation of the graph
    mem,        \* the graph state of the process
    work,       \* how far the process is with each task, in dispatch_tasks
    row,        \* the status column of the runs row, or "none"
    wf,         \* the row of workflow_checkpoints
    lg,         \* the state of the LangGraph checkpoint thread
    files,      \* the artifacts on disk
    stale,      \* those an input of which was rewritten since
    doc,        \* what the artifacts say
    taskFile,   \* how far the artifact chain of each task got on disk
    staleTasks, \* tasks with a stale artifact in their chain
    repairs,    \* the repairs whose result is on disk
    locked,     \* whether the executing process holds the run lock
    crashes,    \* how often the process was killed
    (* history *)
    dry,        \* the run was started as a dry run
    broken,     \* an invocation ended by a crash or by the recursion limit
    reused,     \* repair_failure took an earlier repair for the one to make
    repairsRun, \* repair workers started (counted up to MaxRepairs + 1)
    applied,    \* tasks whose change is in the workspace
    verified    \* the gates ran on the workspace as it is

control == <<pc, phase, steps>>
saved == <<row, wf, lg>>
tasksOnDisk == <<taskFile, staleTasks>>
session == <<locked, crashes, dry, broken>>
ghost == <<reused, repairsRun, applied, verified>>
vars == <<control, mem, work, saved, files, stale, doc, tasksOnDisk, repairs, session, ghost>>

Phases == {"begin", "written", "reused", "planned", "dispatching", "requested", "ran"}
Work == {"todo", "skipped", "task", "request", "ran", "result", "recorded", "done"}

(* RunService.run's WorkflowState. *)
Fresh ==
    [status |-> "running", stage |-> "collect_goal", attempts |-> 0, satAttempts |-> 0,
     satError |-> NoError, gatePassed |-> TRUE, reviewPassed |-> TRUE, goalSatisfied |-> TRUE,
     arts |-> {}, workers |-> {}, done |-> {}, repaired |-> FALSE]

Init ==
    /\ pc = "idle" /\ phase = "begin" /\ steps = 0
    /\ mem = Fresh /\ work = [t \in Tasks |-> "todo"]
    /\ row = "none" /\ wf = NoState /\ lg = NoState
    /\ files = {} /\ stale = {} /\ repairs = {}
    /\ doc = [specRequired |-> FALSE, specApproved |-> FALSE, strategy |-> "sequential",
              planValid |-> FALSE, planRequired |-> FALSE, planApproved |-> FALSE,
              gate |-> FALSE, sat |-> "uncertain", satError |-> NoError, review |-> "failed",
              ready |-> FALSE, satCited |-> FALSE]
    /\ taskFile = [t \in Tasks |-> "none"] /\ staleTasks = {}
    /\ locked = FALSE /\ crashes = 0 /\ dry = FALSE /\ broken = FALSE
    /\ reused = FALSE /\ repairsRun = 0 /\ applied = {} /\ verified = FALSE

-----------------------------------------------------------------------------
(* Moving through the graph. *)

At(node, ph) == pc = node /\ phase = ph /\ (ph = "begin" => steps <= RecursionLimit)

Stay(ph) == phase' = ph /\ UNCHANGED <<pc, steps>>

Goto(node) ==
    /\ pc' = node /\ phase' = "begin"
    /\ steps' = IF node = "finish" THEN steps ELSE steps + 1

Cited(a) == IF a = "evidence" /\ ~doc.satCited THEN Inputs[a] \ {"sat"} ELSE Inputs[a]

(* ArtifactRepository.write of the artifacts S: each gets a new hash, so    *)
(* whatever cites the old one is stale.                                    *)
Write(S) ==
    /\ files' = files \cup S
    /\ stale' = (stale \ S) \cup {b \in files \ S : Cited(b) \cap S # {}}

(* WorkflowRuntimeContext.save: checkpoint and row in one transaction. *)
Save(s) == wf' = s /\ row' = s.status /\ UNCHANGED lg

(* LangGraphCheckpointStore.save: update_state merges the artifact keys    *)
(* into those of the thread (merge_artifacts); without the saver it does   *)
(* nothing.                                                                *)
SaveLangGraph(s) ==
    lg' = IF ~SaverAvailable THEN lg
          ELSE IF lg = NoState THEN s
          ELSE [s EXCEPT !.arts = @ \cup lg.arts, !.workers = @ \cup lg.workers,
                         !.repaired = @ \/ lg.repaired]

(* _completed_task_ids: the list, or else the worker_result_ keys. *)
Completed(s) == IF s.done # {} THEN s.done ELSE s.workers

(* The routes that leave the graph when a person is needed. *)
RouteAfterStop(s, next) == IF s.status = "human_required" THEN "finish" ELSE next

RouteAfterGates(s) ==
    RouteAfterStop(s, IF s.gatePassed THEN "evaluate_goal_satisfaction"
                      ELSE IF s.attempts < MaxRepairs THEN "repair_failure"
                      ELSE "prepare_evidence")

RouteAfterSatisfaction(s) ==
    IF ~s.goalSatisfied /\ s.satAttempts < MaxRepairs
    THEN "repair_failure" ELSE "run_independent_review"

RouteAfterReview(s) ==
    IF RepairAfterReview /\ ~s.reviewPassed /\ s.attempts < MaxRepairs
    THEN "repair_failure" ELSE "prepare_evidence"

EntryNode(s) == IF s.stage \in Nodes THEN s.stage ELSE "finish"

-----------------------------------------------------------------------------
(* The nodes that make one artifact: write it if it is missing, then record *)
(* it in the state and save (reuse_existing_artifact, and the same save     *)
(* after a fresh write).                                                    *)

Produce(node, a) ==
    /\ At(node, "begin") /\ a \notin files
    /\ Write({a})
    /\ UNCHANGED <<control, mem, work, saved, doc, tasksOnDisk, repairs, session, ghost>>

(* The state a node leaves: saved, and returned as its patch. *)
Leave(s, next) ==
    /\ Save(s) /\ mem' = s /\ Goto(next)
    /\ UNCHANGED <<work, files, stale, doc, tasksOnDisk, repairs, session, ghost>>

Record(node, a, stage, next) ==
    /\ At(node, "begin") /\ a \in files
    /\ Leave([mem EXCEPT !.stage = stage, !.arts = @ \cup {a}], next)

CollectGoal ==
    \/ Produce("collect_goal", "goal")
    \/ Record("collect_goal", "goal", "inspect_repository", "inspect_repository")

InspectRepository ==
    \/ Produce("inspect_repository", "snapshot")
    \/ Record("inspect_repository", "snapshot", "draft_spec", "draft_spec")

CreateVerificationPlan ==
    \/ Produce("create_verification_plan", "vplan")
    \/ Record("create_verification_plan", "vplan", "create_verification_plan",
              "create_execution_plan")

IntegrateChanges ==
    \/ Produce("integrate_changes", "integration")
    \/ Record("integrate_changes", "integration", "run_quality_gates", "run_quality_gates")

-----------------------------------------------------------------------------
(* draft_spec: an existing specification is recorded, and the checkpoint    *)
(* saved with the stage after it, before its approval is looked at.         *)

WriteSpec ==
    /\ At("draft_spec", "begin") /\ "spec" \notin files
    /\ \E required \in SpecApproval :
          doc' = [doc EXCEPT !.specRequired = required, !.specApproved = FALSE]
    /\ Write({"spec"})
    /\ Stay("written")
    /\ UNCHANGED <<mem, work, saved, tasksOnDisk, repairs, session, ghost>>

ReuseSpec ==
    /\ At("draft_spec", "begin") /\ "spec" \in files
    /\ Save([mem EXCEPT !.stage = "create_execution_plan", !.arts = @ \cup {"spec"}])
    /\ Stay("reused")
    /\ UNCHANGED <<mem, work, files, stale, doc, tasksOnDisk, repairs, session, ghost>>

SpecNeedsApproval == doc.specRequired /\ ~doc.specApproved

(* Mutant of StopForSpecApproval: a stage of its own that no part of the graph knows. *)
StopAtUnknownStage ==
    /\ At("draft_spec", "written") \/ At("draft_spec", "reused")
    /\ SpecNeedsApproval
    /\ Leave([mem EXCEPT !.status = "human_required", !.stage = "spec_approval",
                         !.arts = @ \cup {"spec"}], "validate_spec")

StopForSpecApproval ==
    /\ At("draft_spec", "written") \/ At("draft_spec", "reused")
    /\ SpecNeedsApproval
    /\ Leave([mem EXCEPT !.status = "human_required", !.stage = "human_required",
                         !.arts = @ \cup {"spec"}], "validate_spec")

(* A reused specification was saved by ReuseSpec and is not saved again. *)
AcceptSpec ==
    /\ At("draft_spec", "written") \/ At("draft_spec", "reused")
    /\ ~SpecNeedsApproval
    /\ LET s == [mem EXCEPT !.stage = "create_execution_plan", !.arts = @ \cup {"spec"}]
       IN  /\ mem' = s
           /\ IF phase = "written" THEN Save(s) ELSE UNCHANGED saved
    /\ Goto("validate_spec")
    /\ UNCHANGED <<work, files, stale, doc, tasksOnDisk, repairs, session, ghost>>

(* Mutant of ValidateStage: the route is fixed. *)
ValidateStageAlways(node, next) ==
    /\ At(node, "begin")
    /\ mem' = [mem EXCEPT !.stage = node]
    /\ Goto(next)
    /\ UNCHANGED <<work, saved, files, stale, doc, tasksOnDisk, repairs, session, ghost>>

(* The two nodes that only set the stage and route. *)
ValidateStage(node, next) ==
    /\ At(node, "begin")
    /\ mem' = [mem EXCEPT !.stage = node]
    /\ Goto(RouteAfterStop(mem, next))
    /\ UNCHANGED <<work, saved, files, stale, doc, tasksOnDisk, repairs, session, ghost>>

ValidateSpec == ValidateStage("validate_spec", "create_verification_plan")
ValidateExecutionPlan == ValidateStage("validate_execution_plan", "materialize_tasks")

-----------------------------------------------------------------------------
(* create_execution_plan: the verification plan if it is missing, the       *)
(* execution plan if it is missing, then the verdict on the plan.           *)

WriteMissingVerificationPlan ==
    /\ At("create_execution_plan", "begin") /\ mem.status # "human_required"
    /\ "vplan" \notin files
    /\ Write({"vplan"})
    /\ Stay("planned")
    /\ UNCHANGED <<mem, work, saved, doc, tasksOnDisk, repairs, session, ghost>>

(* write_plan with the planner's choice of a strategy and the validator's   *)
(* verdict; approval is asked of every parallel plan, the invalid ones      *)
(* included.                                                                *)
WritePlan ==
    /\ At("create_execution_plan", "begin") \/ At("create_execution_plan", "planned")
    /\ mem.status # "human_required" /\ "vplan" \in files /\ "plan" \notin files
    /\ \E strategy \in Strategies, valid \in BOOLEAN, asked \in PlanApproval :
          doc' = [doc EXCEPT !.strategy = strategy, !.planValid = valid,
                             !.planRequired = asked /\ strategy = "parallel",
                             !.planApproved = FALSE]
    /\ Write({"plan"})
    /\ UNCHANGED <<control, mem, work, saved, tasksOnDisk, repairs, session, ghost>>

PlanBlocked == ~doc.planValid \/ (doc.planRequired /\ ~doc.planApproved)

(* A state that already needs a person is saved as it is.  The key of a     *)
(* verification plan written here is saved but not part of the patch.       *)
DecidePlan ==
    /\ At("create_execution_plan", "begin") \/ At("create_execution_plan", "planned")
    /\ mem.status = "human_required" \/ {"vplan", "plan"} \subseteq files
    /\ LET s == IF mem.status = "human_required" THEN mem
                ELSE IF PlanBlocked
                THEN [mem EXCEPT !.status = "human_required", !.stage = "human_required",
                                 !.arts = @ \cup {"plan"}]
                ELSE [mem EXCEPT !.stage = "create_execution_plan", !.arts = @ \cup {"plan"}]
       IN  /\ Save(IF phase = "planned" THEN [s EXCEPT !.arts = @ \cup {"vplan"}] ELSE s)
           /\ mem' = s
    /\ Goto("validate_execution_plan")
    /\ UNCHANGED <<work, files, stale, doc, tasksOnDisk, repairs, session, ghost>>

MaterializeTasks ==
    /\ At("materialize_tasks", "begin")
    /\ Leave([mem EXCEPT !.stage = "materialize_tasks"], "dispatch_tasks")

-----------------------------------------------------------------------------
(* dispatch_tasks.  A sequential plan runs one task after the other in      *)
(* dependency order and records each; a parallel one runs its tasks in      *)
(* threads, in worktrees of their own, and applies the patches afterwards.  *)

Sequential == doc.strategy = "sequential"

(* completed_task_ids_from_artifacts *)
CompletedOnDisk == {t \in Tasks : taskFile[t] \in {"completed", "empty"}}

(* Only the parallel path looks for completed results on disk. *)
BeginDispatch ==
    /\ At("dispatch_tasks", "begin")
    /\ LET skip == IF Sequential THEN mem.done ELSE mem.done \cup CompletedOnDisk
       IN  work' = [t \in Tasks |-> IF t \in skip THEN "skipped" ELSE "todo"]
    /\ mem' = [mem EXCEPT !.stage = "dispatch_tasks"]
    /\ Stay("dispatching")
    /\ UNCHANGED <<saved, files, stale, doc, tasksOnDisk, repairs, session, ghost>>

Dispatching == At("dispatch_tasks", "dispatching")

(* Mutant of MayStart: off by one, a task waits for itself. *)
MayStartAfterItself(t) ==
    /\ work[t] = "todo"
    /\ Sequential => \A u \in 1..t : work[u] \in {"skipped", "done"}

(* Threads interleave; without them a task starts when those before it are  *)
(* through.                                                                 *)
MayStart(t) ==
    /\ work[t] = "todo"
    /\ Sequential => \A u \in 1..(t - 1) : work[u] \in {"skipped", "done"}

(* write_task: a worker request that cites the old task.yaml becomes stale. *)
WriteTask(t) ==
    /\ Dispatching /\ MayStart(t)
    /\ work' = [work EXCEPT ![t] = "task"]
    /\ IF taskFile[t] = "none"
       THEN taskFile' = [taskFile EXCEPT ![t] = "task"] /\ UNCHANGED staleTasks
       ELSE /\ UNCHANGED taskFile
            /\ staleTasks' = IF taskFile[t] = "task" THEN staleTasks \ {t}
                             ELSE staleTasks \cup {t}
    /\ UNCHANGED <<control, mem, saved, files, stale, doc, repairs, session, ghost>>

(* dispatch_builder, up to the worker: an earlier result becomes stale. *)
WriteWorkerRequest(t) ==
    /\ Dispatching /\ work[t] = "task"
    /\ work' = [work EXCEPT ![t] = "request"]
    /\ IF taskFile[t] \in Results
       THEN staleTasks' = staleTasks \cup {t} /\ UNCHANGED taskFile
       ELSE staleTasks' = staleTasks \ {t} /\ taskFile' = [taskFile EXCEPT ![t] = "request"]
    /\ UNCHANGED <<control, mem, saved, files, stale, doc, repairs, session, ghost>>

(* The worker edits the project itself, or its worktree if the plan is      *)
(* parallel.  Its patch.diff may change the hash an evidence bundle lists.  *)
RunWorker(t) ==
    /\ Dispatching /\ work[t] = "request"
    /\ work' = [work EXCEPT ![t] = "ran"]
    /\ \E changed \in {{}, {"evidence"} \cap files} : stale' = stale \cup changed
    /\ IF Sequential THEN applied' = applied \cup {t} /\ verified' = FALSE
                     ELSE UNCHANGED <<applied, verified>>
    /\ UNCHANGED <<control, mem, saved, files, doc, tasksOnDisk, repairs, session,
                   reused, repairsRun>>

(* A result that leaves the allowed paths is failed; its patch stays. *)
WriteWorkerResult(t) ==
    /\ Dispatching /\ work[t] = "ran"
    /\ work' = [work EXCEPT ![t] = "result"]
    /\ \E result \in Results : taskFile' = [taskFile EXCEPT ![t] = result]
    /\ staleTasks' = staleTasks \ {t}
    /\ UNCHANGED <<control, mem, saved, files, stale, doc, repairs, session, ghost>>

(* Mutant of RecordDispatch: the worker is recorded before its result is written. *)
RecordDispatchEarly(t) ==
    /\ Dispatching /\ Sequential /\ work[t] \in {"ran", "result"}
    /\ work' = [work EXCEPT ![t] = "recorded"]
    /\ LET s == [mem EXCEPT !.workers = @ \cup {t}] IN Save(s) /\ mem' = s
    /\ UNCHANGED <<control, files, stale, doc, tasksOnDisk, repairs, session, ghost>>

(* record_dispatch of a sequential plan: the task_ key and the              *)
(* worker_result_ key, saved one after the other; only the second is ever   *)
(* asked for.                                                               *)
RecordDispatch(t) ==
    /\ Dispatching /\ Sequential /\ work[t] = "result"
    /\ work' = [work EXCEPT ![t] = "recorded"]
    /\ LET s == [mem EXCEPT !.workers = @ \cup {t}] IN Save(s) /\ mem' = s
    /\ UNCHANGED <<control, files, stale, doc, tasksOnDisk, repairs, session, ghost>>

RecordCompletion(t) ==
    /\ Dispatching /\ work[t] = "recorded" /\ taskFile[t] # "failed"
    /\ work' = [work EXCEPT ![t] = "done"]
    /\ LET s == [mem EXCEPT !.done = @ \cup {t}] IN Save(s) /\ mem' = s
    /\ UNCHANGED <<control, files, stale, doc, tasksOnDisk, repairs, session, ghost>>

(* apply_parallel_patches, once all threads are through: every patch in     *)
(* task order, those of failed workers too; a patch that does not apply     *)
(* fails its task.                                                          *)
ApplyPatch(t) ==
    /\ Dispatching /\ ~Sequential
    /\ \A u \in Tasks : work[u] \in {"skipped", "result", "done"}
    /\ work[t] = "result" /\ \A u \in 1..(t - 1) : work[u] # "result"
    /\ work' = [work EXCEPT ![t] = "done"]
    /\ \/ /\ applied' = applied \cup {t} /\ verified' = FALSE
          /\ UNCHANGED taskFile
       \/ /\ taskFile[t] # "empty"
          /\ taskFile' = [taskFile EXCEPT ![t] = "failed"]
          /\ UNCHANGED <<applied, verified>>
    /\ UNCHANGED <<control, mem, saved, files, stale, doc, staleTasks, repairs, session,
                   reused, repairsRun>>

(* Mutant of StopDispatch: nobody is asked. *)
StopDispatchRunning ==
    /\ Dispatching
    /\ \E t \in Tasks : work[t] = "recorded" /\ taskFile[t] = "failed"
    /\ Leave([mem EXCEPT !.stage = "human_required"], "finish")

(* A failed task ends the run for a person.  The patch of a failed          *)
(* sequential dispatch leaves out the tasks completed before it.            *)
StopDispatch ==
    /\ Dispatching
    /\ \/ \E t \in Tasks : work[t] = "recorded" /\ taskFile[t] = "failed"
       \/ /\ ~Sequential
          /\ \A t \in Tasks : work[t] \in {"skipped", "done"}
          /\ \E t \in Tasks : work[t] = "done" /\ taskFile[t] = "failed"
    /\ LET s == [mem EXCEPT !.status = "human_required", !.stage = "human_required"]
       IN  /\ Save(s)
           /\ mem' = [s EXCEPT !.done = {t \in @ : work[t] = "skipped"}]
    /\ Goto("finish")
    /\ UNCHANGED <<work, files, stale, doc, tasksOnDisk, repairs, session, ghost>>

(* All tasks are through: a parallel plan records them only now.            *)
FinishDispatch ==
    /\ Dispatching
    /\ \A t \in Tasks : work[t] \in {"skipped", "done"}
    /\ ~Sequential => \A t \in Tasks : work[t] = "done" => taskFile[t] # "failed"
    /\ LET s == IF Sequential THEN mem ELSE [mem EXCEPT !.workers = Tasks, !.done = Tasks]
       IN  Leave(s, RouteAfterStop(s, "integrate_changes"))

-----------------------------------------------------------------------------
(* run_quality_gates: a report on disk is reused unless the state knows of  *)
(* a repair.  A new report replaces it before the tool checks start.        *)

(* Mutant of ReuseGateReport: the report from before a repair is taken. *)
ReuseAnyGateReport == "gate" \in files

ReuseGateReport == "gate" \in files /\ ~mem.repaired

RunGates ==
    /\ At("run_quality_gates", "begin") /\ ~ReuseGateReport
    /\ \E passed \in BOOLEAN : doc' = [doc EXCEPT !.gate = passed]
    /\ Write({"gate"})
    /\ verified' = TRUE
    /\ Stay("written")
    /\ UNCHANGED <<mem, work, saved, tasksOnDisk, repairs, session, reused, repairsRun, applied>>

RequestToolCheck ==
    /\ At("run_quality_gates", "written") /\ ToolChecks
    /\ Write({"toolRequest"})
    /\ Stay("requested")
    /\ UNCHANGED <<mem, work, saved, doc, tasksOnDisk, repairs, session, ghost>>

RunToolCheck ==
    /\ At("run_quality_gates", "requested")
    /\ Write({"tools"})
    /\ Stay("ran")
    /\ UNCHANGED <<mem, work, saved, doc, tasksOnDisk, repairs, session, ghost>>

(* _should_stop_for_gate_failure *)
StopForGateFailure == ~doc.gate /\ mem.attempts >= MaxRepairs

(* The report rewritten with next_action human_required makes nothing stale *)
(* that the report of this node did not.                                    *)
DecideGates ==
    /\ \/ At("run_quality_gates", "begin") /\ ReuseGateReport
       \/ At("run_quality_gates", "written") /\ ~ToolChecks
       \/ At("run_quality_gates", "ran")
    /\ LET noted == [mem EXCEPT !.stage = "run_quality_gates", !.arts = @ \cup {"gate"},
                                !.gatePassed = doc.gate]
           s == IF StopForGateFailure
                THEN [noted EXCEPT !.status = "human_required", !.stage = "human_required"]
                ELSE noted
       IN  Leave(s, RouteAfterGates(s))

-----------------------------------------------------------------------------
(* evaluate_goal_satisfaction *)

ReuseSatisfaction == "sat" \in files /\ ~mem.repaired

(* write_goal_satisfaction.  The verification plan the node would write if  *)
(* it were missing never is (InputsPresent).                                *)
EvaluateGoalSatisfaction ==
    /\ At("evaluate_goal_satisfaction", "begin") /\ ~ReuseSatisfaction
    /\ \E verdict \in Verdicts :
          \E error \in IF verdict = "satisfied" THEN {NoError} ELSE Fingerprints :
             doc' = [doc EXCEPT !.sat = verdict, !.satError = error]
    /\ Write({"sat"})
    /\ Stay("written")
    /\ UNCHANGED <<mem, work, saved, tasksOnDisk, repairs, session, ghost>>

Larger(m, n) == IF m > n THEN m ELSE n

(* An uncertain verdict, or the failure of the time before, uses the        *)
(* repairs of the goal up.                                                  *)
SatAttempts ==
    CASE doc.sat = "uncertain" -> MaxRepairs
      [] doc.sat = "not_satisfied" /\ mem.satError = doc.satError /\ mem.satAttempts > 0 ->
            Larger(mem.satAttempts, MaxRepairs)
      [] OTHER -> mem.satAttempts

DecideSatisfaction ==
    /\ \/ At("evaluate_goal_satisfaction", "begin") /\ ReuseSatisfaction
       \/ At("evaluate_goal_satisfaction", "written")
    /\ LET noted == [mem EXCEPT !.stage = "evaluate_goal_satisfaction",
                                !.arts = @ \cup {"sat"},
                                !.goalSatisfied = doc.sat = "satisfied"]
           s == IF doc.sat = "satisfied" THEN noted
                ELSE [noted EXCEPT !.satAttempts = SatAttempts, !.satError = doc.satError]
       IN  Leave(s, RouteAfterSatisfaction(s))

-----------------------------------------------------------------------------
(* run_independent_review *)

(* Mutant of ReuseReview: every pass through the node reviews again. *)
ReviewAgain == FALSE

ReuseReview == "review" \in files /\ ~mem.repaired

RunReview ==
    /\ At("run_independent_review", "begin") /\ ~ReuseReview
    /\ \E outcome \in Reviews : doc' = [doc EXCEPT !.review = outcome]
    /\ Write({"review"})
    /\ Stay("written")
    /\ UNCHANGED <<mem, work, saved, tasksOnDisk, repairs, session, ghost>>

RecordReview ==
    /\ \/ At("run_independent_review", "begin") /\ ReuseReview
       \/ At("run_independent_review", "written")
    /\ LET s == [mem EXCEPT !.stage = "run_independent_review", !.arts = @ \cup {"review"},
                            !.reviewPassed = doc.review = "pass"]
       IN  Leave(s, RouteAfterReview(s))

-----------------------------------------------------------------------------
(* repair_failure.  The number of the repair is the number of attempts      *)
(* already made; a repair of that number that is complete on disk is taken  *)
(* for the one to make.                                                     *)

(* Mutant of ReuseRepair: the number of the next repair is asked for. *)
ReuseNextRepair == mem.attempts + 1 \in repairs

ReuseRepair == mem.attempts > 0 /\ mem.attempts \in repairs

ReuseRepairResult ==
    /\ At("repair_failure", "begin") /\ ReuseRepair
    /\ LET s == [mem EXCEPT !.stage = "run_quality_gates", !.repaired = TRUE]
       IN  Save(s) /\ mem' = s
    /\ Goto("run_quality_gates")
    /\ reused' = TRUE
    /\ UNCHANGED <<work, files, stale, doc, tasksOnDisk, repairs, session,
                   repairsRun, applied, verified>>

(* _is_goal_satisfaction_repair *)
RepairsGoal == ~mem.goalSatisfied /\ "sat" \in files /\ doc.sat # "satisfied" /\ mem.gatePassed

(* Mutant of BeginRepair: the attempt is not counted. *)
BeginUncountedRepair ==
    /\ At("repair_failure", "begin") /\ ~ReuseRepair
    /\ LET s == [mem EXCEPT !.stage = "repair_failure"]
       IN  Save(s) /\ mem' = s
    /\ Stay("requested")
    /\ UNCHANGED <<work, files, stale, doc, tasksOnDisk, repairs, session, ghost>>

BeginRepair ==
    /\ At("repair_failure", "begin") /\ ~ReuseRepair
    /\ LET s == [mem EXCEPT !.attempts = @ + 1, !.stage = "repair_failure",
                            !.satAttempts = IF RepairsGoal THEN @ + 1 ELSE @]
       IN  Save(s) /\ mem' = s
    /\ Stay("requested")
    /\ UNCHANGED <<work, files, stale, doc, tasksOnDisk, repairs, session, ghost>>

(* RepairService.repair: the request, then the worker in the project.       *)
RunRepairWorker ==
    /\ At("repair_failure", "requested")
    /\ verified' = FALSE
    /\ repairsRun' = IF repairsRun > MaxRepairs THEN repairsRun ELSE repairsRun + 1
    /\ Stay("ran")
    /\ UNCHANGED <<mem, work, saved, files, stale, doc, tasksOnDisk, repairs, session,
                   reused, applied>>

(* The result is written whatever the worker's exit reason. *)
WriteRepairResult ==
    /\ At("repair_failure", "ran")
    /\ repairs' = repairs \cup {mem.attempts}
    /\ Stay("written")
    /\ UNCHANGED <<mem, work, saved, files, stale, doc, tasksOnDisk, session, ghost>>

RecordRepair ==
    /\ At("repair_failure", "written")
    /\ Leave([mem EXCEPT !.stage = "run_quality_gates", !.repaired = TRUE], "run_quality_gates")

-----------------------------------------------------------------------------
(* prepare_evidence: a bundle on disk is reused, whatever happened since.   *)

(* EvidenceCompletenessValidator, over the bundle EvidenceService builds: a *)
(* goal that was not evaluated counts as satisfied.                        *)
EvidenceReady ==
    /\ doc.gate
    /\ doc.review # "blocking"
    /\ "sat" \in files => doc.sat = "satisfied"
    /\ Completed(mem) # {}
    /\ \A t \in Completed(mem) : taskFile[t] # "empty"

BuildEvidence ==
    /\ At("prepare_evidence", "begin") /\ "evidence" \notin files
    /\ doc' = [doc EXCEPT !.ready = EvidenceReady, !.satCited = "sat" \in files]
    /\ Write({"evidence"})
    /\ UNCHANGED <<control, mem, work, saved, tasksOnDisk, repairs, session, ghost>>

RecordEvidence ==
    /\ At("prepare_evidence", "begin") /\ "evidence" \in files
    /\ Leave([mem EXCEPT !.stage = "prepare_evidence", !.arts = @ \cup {"evidence"},
                         !.status = IF doc.ready THEN "ready_for_human_review"
                                                 ELSE "human_required"], "finish")

-----------------------------------------------------------------------------
(* The process around the graph. *)

(* Its memory is gone. *)
Forget ==
    /\ pc' = "idle" /\ phase' = "begin" /\ steps' = 0
    /\ mem' = Fresh /\ work' = [t \in Tasks |-> "todo"]

(* RunService.run of a new run. *)
Run ==
    /\ pc = "idle" /\ row = "none" /\ files = {}
    /\ pc' = "start" /\ mem' = Fresh
    /\ UNCHANGED <<phase, steps, work, saved, files, stale, doc, tasksOnDisk, repairs, session,
                   ghost>>

(* RunService.dry_run: all artifacts up to the plan in one go; nobody knows *)
(* the run before its row is stored.                                        *)
DryRun ==
    /\ pc = "idle" /\ row = "none" /\ files = {}
    /\ \E required \in SpecApproval, strategy \in Strategies, valid \in BOOLEAN,
          asked \in PlanApproval :
          doc' = [doc EXCEPT !.specRequired = required, !.strategy = strategy,
                             !.planValid = valid,
                             !.planRequired = asked /\ strategy = "parallel"]
    /\ Write({"goal", "snapshot", "spec", "vplan", "plan"})
    /\ mem' = [Fresh EXCEPT !.status = "human_required", !.stage = "validate_execution_plan",
                            !.arts = {"goal", "snapshot", "spec", "vplan", "plan"}]
    /\ pc' = "finish" /\ dry' = TRUE
    /\ UNCHANGED <<phase, steps, work, saved, tasksOnDisk, repairs, locked, crashes, broken,
                   ghost>>

(* Mutant of Remembered: the per-node checkpoint, which is the newer one. *)
RememberedByNode == wf

(* Mutant of Remembered: the newer stage with the older state. *)
RememberedStage ==
    IF SaverAvailable /\ lg # NoState /\ wf # NoState
    THEN [lg EXCEPT !.stage = wf.stage] ELSE wf

(* _load_resume_state *)
Remembered == IF SaverAvailable /\ lg # NoState THEN lg ELSE wf

(* _resume_artifacts_complete: every recorded artifact is on disk           *)
(* (CheckpointsNameDisk), so only a state without any is incomplete.        *)
ArtifactsComplete(s) ==
    s.stage = "collect_goal" \/ s.arts # {} \/ s.workers # {} \/ s.repaired

(* RunService.resume, up to the graph or to the refusal of a stale lineage. *)
(* It takes the run lock; `run` does not.                                   *)
Resume ==
    /\ pc = "idle" /\ ~locked
    /\ row \notin {"none", "paused", "stopped"} /\ Remembered # NoState
    /\ locked' = TRUE
    /\ IF stale # {} \/ staleTasks # {}
       THEN /\ mem' = [Remembered EXCEPT !.status = "human_required",
                                         !.stage = "human_required"]
            /\ pc' = "finish"
       ELSE /\ mem' = IF ArtifactsComplete(Remembered) THEN Remembered
                      ELSE [Remembered EXCEPT !.stage = "collect_goal"]
            /\ pc' = "start"
    /\ UNCHANGED <<phase, steps, work, saved, files, stale, doc, tasksOnDisk, repairs, crashes,
                   dry, broken, ghost>>

(* _run_contextual_graph: both checkpoints, then the entry node. *)
Start ==
    /\ pc = "start"
    /\ Save(mem)
    /\ pc' = "enter"
    /\ UNCHANGED <<phase, steps, mem, work, files, stale, doc, tasksOnDisk, repairs, session,
                   ghost>>

Enter ==
    /\ pc = "enter"
    /\ SaveLangGraph(mem) /\ UNCHANGED <<row, wf>>
    /\ Goto(EntryNode(mem))
    /\ UNCHANGED <<mem, work, files, stale, doc, tasksOnDisk, repairs, session, ghost>>

(* After END: the row and the checkpoint, then the LangGraph checkpoint. *)
Finish ==
    /\ pc = "finish"
    /\ Save(mem)
    /\ pc' = "leave"
    /\ UNCHANGED <<phase, steps, mem, work, files, stale, doc, tasksOnDisk, repairs, session,
                   ghost>>

Exit ==
    /\ pc = "leave"
    /\ SaveLangGraph(mem) /\ UNCHANGED <<row, wf>>
    /\ Forget /\ locked' = FALSE
    /\ UNCHANGED <<files, stale, doc, tasksOnDisk, repairs, crashes, dry, broken, ghost>>

(* GraphRecursionError: the command ends, the last save stays. *)
ExceedRecursion ==
    /\ pc \in Nodes /\ phase = "begin" /\ steps > RecursionLimit
    /\ Forget /\ locked' = FALSE /\ broken' = TRUE
    /\ UNCHANGED <<saved, files, stale, doc, tasksOnDisk, repairs, crashes, dry, ghost>>

(* The process is killed, or a node raises (a worker that times out does):   *)
(* a lock it holds stays until LockExpires, which for an exception is at    *)
(* once.                                                                   *)
Crash ==
    /\ pc # "idle" /\ crashes < MaxCrashes
    /\ Forget /\ crashes' = crashes + 1 /\ broken' = TRUE
    /\ UNCHANGED <<saved, files, stale, doc, tasksOnDisk, repairs, locked, dry, ghost>>

(* The lock of a dead process grows old and is taken over (module RunLock). *)
LockExpires ==
    /\ pc = "idle" /\ locked
    /\ locked' = FALSE
    /\ UNCHANGED <<control, mem, work, saved, files, stale, doc, tasksOnDisk, repairs, crashes,
                   dry, broken, ghost>>

-----------------------------------------------------------------------------
(* coductor approve, under the run lock: it may meet a process executing    *)
(* `run`, which holds none.                                                 *)

MayApprove == ~locked /\ row = "human_required"

(* _spec_approval_resume_state and _approval_resume_state *)
ResumeAt(stage, a) ==
    [Remembered EXCEPT !.status = "running", !.stage = stage, !.arts = @ \cup {a}]

(* Mutant of ApproveSpec: the run is resumed where a plan's approval resumes it. *)
ApproveSpecPastPlan ==
    /\ MayApprove /\ "spec" \in files /\ SpecNeedsApproval
    /\ doc' = [doc EXCEPT !.specApproved = TRUE]
    /\ Write(IF "vplan" \in files THEN {"spec", "vplan"} ELSE {"spec"})
    /\ LET s == ResumeAt("validate_execution_plan", "spec")
       IN  /\ wf' = s /\ row' = "running"
           /\ SaveLangGraph(s)
    /\ UNCHANGED <<control, mem, work, tasksOnDisk, repairs, session, ghost>>

ApproveSpec ==
    /\ MayApprove /\ "spec" \in files /\ SpecNeedsApproval
    /\ doc' = [doc EXCEPT !.specApproved = TRUE]
    /\ Write(IF "vplan" \in files THEN {"spec", "vplan"} ELSE {"spec"})
    /\ LET s == ResumeAt("create_execution_plan", "spec")
       IN  /\ wf' = s /\ row' = "running"
           /\ SaveLangGraph(s)
    /\ UNCHANGED <<control, mem, work, tasksOnDisk, repairs, session, ghost>>

(* The validity of the plan is not looked at.  Every task.yaml cites the    *)
(* plan's old revision.                                                     *)
ApprovePlan ==
    /\ MayApprove /\ ~("spec" \in files /\ SpecNeedsApproval)
    /\ "plan" \in files /\ doc.planRequired
    /\ doc' = [doc EXCEPT !.planApproved = TRUE]
    /\ Write({"plan"})
    /\ staleTasks' = {t \in Tasks : taskFile[t] # "none"}
    /\ LET s == ResumeAt("validate_execution_plan", "plan")
       IN  /\ wf' = s /\ row' = "running"
           /\ SaveLangGraph(s)
    /\ UNCHANGED <<control, mem, work, taskFile, repairs, session, ghost>>

ApproveRun ==
    /\ MayApprove /\ ~("spec" \in files /\ SpecNeedsApproval)
    /\ ~("plan" \in files /\ doc.planRequired)
    /\ row' = "approved"
    /\ UNCHANGED <<control, mem, work, wf, lg, files, stale, doc, tasksOnDisk, repairs, session,
                   ghost>>

Approve == ApproveSpec \/ ApprovePlan \/ ApproveRun

-----------------------------------------------------------------------------
DraftSpec == WriteSpec \/ ReuseSpec \/ StopForSpecApproval \/ AcceptSpec
CreateExecutionPlan == WriteMissingVerificationPlan \/ WritePlan \/ DecidePlan
DispatchTask(t) ==
    \/ WriteTask(t) \/ WriteWorkerRequest(t) \/ RunWorker(t) \/ WriteWorkerResult(t)
    \/ RecordDispatch(t) \/ RecordCompletion(t) \/ ApplyPatch(t)
DispatchTasks ==
    BeginDispatch \/ (\E t \in Tasks : DispatchTask(t)) \/ StopDispatch \/ FinishDispatch
RunQualityGates == RunGates \/ RequestToolCheck \/ RunToolCheck \/ DecideGates
EvaluateSatisfaction == EvaluateGoalSatisfaction \/ DecideSatisfaction
RunIndependentReview == RunReview \/ RecordReview
RepairFailure ==
    \/ ReuseRepairResult \/ BeginRepair \/ RunRepairWorker \/ WriteRepairResult \/ RecordRepair
PrepareEvidence == BuildEvidence \/ RecordEvidence

Graph ==
    \/ CollectGoal \/ InspectRepository \/ DraftSpec \/ ValidateSpec
    \/ CreateVerificationPlan \/ CreateExecutionPlan \/ ValidateExecutionPlan
    \/ MaterializeTasks \/ DispatchTasks \/ IntegrateChanges \/ RunQualityGates
    \/ EvaluateSatisfaction \/ RunIndependentReview \/ RepairFailure \/ PrepareEvidence

(* What the executing process does once it has been started. *)
Process == Start \/ Enter \/ Graph \/ ExceedRecursion \/ Finish \/ Exit

Next == Process \/ Run \/ DryRun \/ Resume \/ Approve \/ Crash \/ LockExpires

Spec == Init /\ [][Next]_vars

(* A process that is not killed goes on: workers and gates have timeouts.   *)
(* Nobody has to type a command.                                            *)
FairSpec == Spec /\ WF_vars(Process)

-----------------------------------------------------------------------------
(* Every variable has its type. *)
TypeOK ==
    /\ pc \in Nodes \cup {"idle", "start", "enter", "finish", "leave"}
    /\ phase \in Phases /\ steps \in Nat
    /\ mem \in State /\ work \in [Tasks -> Work]
    /\ row \in Rows
    /\ wf \in State \cup {NoState} /\ lg \in State \cup {NoState}
    /\ files \subseteq Names /\ stale \subseteq Names
    /\ doc \in Document
    /\ taskFile \in [Tasks -> TaskFiles] /\ staleTasks \subseteq Tasks
    /\ repairs \subseteq Nat
    /\ locked \in BOOLEAN /\ crashes \in Nat /\ dry \in BOOLEAN /\ broken \in BOOLEAN
    /\ reused \in BOOLEAN /\ repairsRun \in Nat /\ applied \subseteq Tasks
    /\ verified \in BOOLEAN

(* The artifacts each node reads without checking that they exist. *)
Reads ==
    [collect_goal |-> {}, inspect_repository |-> {"goal"}, draft_spec |-> {"goal", "snapshot"},
     validate_spec |-> {}, create_verification_plan |-> {"spec"},
     create_execution_plan |-> {"spec", "snapshot"}, validate_execution_plan |-> {},
     materialize_tasks |-> {}, dispatch_tasks |-> {"plan"}, integrate_changes |-> {"plan"},
     run_quality_gates |-> {}, repair_failure |-> {"gate"},
     evaluate_goal_satisfaction |-> {"vplan", "gate"}, run_independent_review |-> {"gate"},
     prepare_evidence |-> {"goal", "plan", "gate", "review"}]

(* No node fails for want of its inputs, wherever in the graph a run is     *)
(* entered: the artifacts it reads are on disk, and a repair finds the      *)
(* result of a completed task to hand to its worker (the ValueErrors and    *)
(* repo.read calls of the contextual nodes in workflow/graph.py).           *)
InputsPresent ==
    pc \in Nodes =>
        /\ Reads[pc] \subseteq files
        /\ pc = "repair_failure" =>
              /\ Completed(mem) # {}
              /\ \A t \in Completed(mem) : taskFile[t] \in Results

(* Tasks are dispatched only after every approval their artifacts ask for,  *)
(* whichever command entered the graph and wherever it was interrupted.     *)
NoUnapprovedDispatch ==
    pc \in {"materialize_tasks", "dispatch_tasks"} =>
        ~SpecNeedsApproval /\ (doc.planRequired => doc.planApproved)

(* A checkpoint names no artifact that is not on disk: every save comes     *)
(* after the writes it records, so a resume can rely on what it loads.      *)
CheckpointsNameDisk ==
    \A s \in {wf, lg} \ {NoState} :
        s.arts \subseteq files /\ \A t \in s.workers \cup s.done : taskFile[t] \in Results

(* The graph never reaches its end without a decision. *)
EndsDecided == pc \in {"finish", "leave"} => mem.status # "running"

(* A run is offered for review only when its gates passed, its goal is      *)
(* satisfied and no blocking finding is open - also after crashes and       *)
(* resumes in between, as long as a blocking review is not repaired: then   *)
(* the bundle of before a crash may be reused after a review that blocks    *)
(* (docs/security.md: what the evidence must hold before a run is ready).   *)
ReadyIsEarned ==
    row = "ready_for_human_review" =>
        doc.gate /\ doc.sat = "satisfied" /\ doc.review # "blocking" /\ doc.ready

(* If nothing interrupted the run, what is offered for review is what was   *)
(* checked: no artifact is stale, every task's change is in the workspace   *)
(* and the gates ran after the last change.                                 *)
ReadyIsFresh ==
    row = "ready_for_human_review" /\ ~broken =>
        stale = {} /\ staleTasks = {} /\ applied = Tasks /\ verified

(* An uninterrupted run starts at most MaxRepairs repair workers. *)
RepairsBounded == ~broken => repairsRun <= MaxRepairs

(* Only a repair that was taken for the one to make can keep an invocation  *)
(* going round until LangGraph gives up.                                    *)
LoopsOnlyByReuse == steps > RecursionLimit => reused

(* The repair loop ends by itself: a failing run reaches a decision within  *)
(* the nodes LangGraph allows (docs/workflow.md, the repair loop).          *)
RepairLoopEnds == steps <= RecursionLimit

(* Workers are started for a valid plan only (docs/workflow.md: a plan that *)
(* fails validation waits for a person, and resume validates it again).     *)
OnlyValidPlansDispatched == pc = "dispatch_tasks" => doc.planValid

(* A process that was started ends. *)
Terminates == (pc # "idle") ~> (pc = "idle")
=============================================================================
