--------------------------- MODULE ApprovalProofs ---------------------------
(***************************************************************************)
(* No task is dispatched without the approvals its artifacts ask for, if   *)
(* the LangGraph saver is installed.  The invariant follows a stage to     *)
(* every place it is kept in: the node being executed, the state of the    *)
(* process and the states a resume may load.  Wherever one of them stands  *)
(* past the specification or the plan, that artifact is on disk and        *)
(* approved, or the status closes the way on (ApprovalInv).  The workflow  *)
(* checkpoint is left out as soon as there is a LangGraph thread:           *)
(* draft_spec saves the stage after it before it looks at the approval     *)
(* (ReuseSpec), and without the saver a crash right there resumes past it. *)
(***************************************************************************)
EXTENDS WorkflowProofs

(* Approval.  The specification and the plan are on disk and what they ask  *)
(* for is given.                                                           *)
SpecAllows == "spec" \in files /\ ~SpecNeedsApproval
PlanAllows == "plan" \in files /\ (doc.planRequired => doc.planApproved)

(* Where a state may stand, given what is approved: past the specification  *)
(* or the plan only with its approval, unless the route there is closed by  *)
(* the status.                                                             *)
Permitted(stage, status, spec, plan) ==
    /\ stage \in {"validate_spec", "create_verification_plan", "create_execution_plan",
                  "validate_execution_plan"} => status = "human_required" \/ spec
    /\ stage = "validate_execution_plan" => status = "human_required" \/ plan
    /\ stage \in {"materialize_tasks", "dispatch_tasks"} => spec /\ plan

AllowedState(s) == Permitted(s.stage, s.status, SpecAllows, PlanAllows)

RequiredOnDisk ==
    /\ doc.specRequired => "spec" \in files
    /\ doc.planRequired => "plan" \in files
    /\ pc = "draft_spec" /\ phase # "begin" => "spec" \in files

(* The process is where it may be.                                         *)
PlaceAllowed ==
    /\ pc \in Nodes => Permitted(pc, mem.status, SpecAllows, PlanAllows)
    /\ pc \in {"start", "enter", "finish", "leave"} => AllowedState(mem)

(* So is every state a resume may load: the LangGraph checkpoint, and the   *)
(* workflow checkpoint as long as there is no other.                       *)
ThreadAllowed ==
    /\ pc \in Nodes => lg # NoState
    /\ lg # NoState => AllowedState(lg)
    /\ lg = NoState /\ wf # NoState => AllowedState(wf)

(* A plan is made from a specification.                                    *)
PlanAfterSpec == "plan" \in files => "spec" \in files

ApprovalInv == TypeInv /\ RequiredOnDisk /\ PlanAfterSpec /\ PlaceAllowed /\ ThreadAllowed

-----------------------------------------------------------------------------
(* What is approved stays approved, until it is written anew.              *)

Approvals == <<doc.specRequired, doc.specApproved, doc.planRequired, doc.planApproved>>

Kept ==
    /\ files \subseteq files'
    /\ SpecAllows => SpecAllows'
    /\ PlanAllows => PlanAllows'
    /\ doc'.specRequired => "spec" \in files'
    /\ doc'.planRequired => "plan" \in files'

LEMMA QuietKept ==
    ASSUME RequiredOnDisk, files \subseteq files', UNCHANGED Approvals
    PROVE  Kept
BY DEF RequiredOnDisk, Approvals, Kept, SpecAllows, PlanAllows, SpecNeedsApproval

LEMMA QuietWrite ==
    ASSUME TypeInv, RequiredOnDisk, NEW S \in SUBSET Names, Write(S), UNCHANGED Approvals
    PROVE  Kept
BY WriteTypes, QuietKept DEF TypeInv

LEMMA QuietStill ==
    ASSUME RequiredOnDisk, UNCHANGED <<files, doc>>
    PROVE  Kept
BY QuietKept DEF Approvals

LEMMA GraphKept ==
    ASSUME TypeInv, RequiredOnDisk, Graph
    PROVE  Kept
<1> USE NamesKnown
<1>0. doc \in Document
  BY DEF TypeInv, TypeOK
<1>1. ASSUME NEW node, NEW a \in Names, Produce(node, a) PROVE Kept
  BY <1>1, QuietWrite DEF Produce, Approvals
<1>2. ASSUME NEW node, NEW a, NEW stage, NEW next, Record(node, a, stage, next) PROVE Kept
  BY <1>2, QuietStill DEF Record, Leave
<1>3. CASE CollectGoal \/ InspectRepository \/ CreateVerificationPlan \/ IntegrateChanges
  BY <1>1, <1>2, <1>3
     DEF CollectGoal, InspectRepository, CreateVerificationPlan, IntegrateChanges
<1>4. CASE DraftSpec
  <2>1. CASE WriteSpec
    <3>1. "spec" \notin files /\ "spec" \in files' /\ files \subseteq files'
      BY <2>1, WriteTypes DEF WriteSpec, TypeInv
    <3>2. doc'.planRequired = doc.planRequired /\ doc'.planApproved = doc.planApproved
      BY <1>0, <2>1 DEF WriteSpec, Document
    <3> QED
      BY <3>1, <3>2 DEF RequiredOnDisk, Kept, SpecAllows, PlanAllows
  <2>2. CASE ReuseSpec \/ StopForSpecApproval \/ AcceptSpec
    BY <2>2, QuietStill DEF ReuseSpec, StopForSpecApproval, AcceptSpec, Leave
  <2> QED
    BY <1>4, <2>1, <2>2 DEF DraftSpec
<1>5. CASE ValidateSpec \/ ValidateExecutionPlan
  BY <1>5, QuietStill DEF ValidateSpec, ValidateExecutionPlan, ValidateStage
<1>6. CASE CreateExecutionPlan
  <2>1. CASE WriteMissingVerificationPlan
    BY <2>1, QuietWrite DEF WriteMissingVerificationPlan, Approvals
  <2>2. CASE WritePlan
    <3>1. "plan" \notin files /\ "plan" \in files' /\ files \subseteq files'
      BY <2>2, WriteTypes DEF WritePlan, TypeInv
    <3>2. doc'.specRequired = doc.specRequired /\ doc'.specApproved = doc.specApproved
      BY <1>0, <2>2 DEF WritePlan, Document
    <3> QED
      BY <3>1, <3>2 DEF RequiredOnDisk, Kept, SpecAllows, PlanAllows, SpecNeedsApproval
  <2>3. CASE DecidePlan
    BY <2>3, QuietStill DEF DecidePlan
  <2> QED
    BY <1>6, <2>1, <2>2, <2>3 DEF CreateExecutionPlan
<1>7. CASE MaterializeTasks
  BY <1>7, QuietStill DEF MaterializeTasks, Leave
<1>8. CASE DispatchTasks
  <2>1. UNCHANGED <<files, doc>>
    BY <1>8 DEF DispatchTasks, DispatchTask, BeginDispatch, WriteTask, WriteWorkerRequest,
                RunWorker, WriteWorkerResult, RecordDispatch, RecordCompletion, ApplyPatch,
                StopDispatch, FinishDispatch, Leave
  <2> QED
    BY <2>1, QuietStill
<1>9. CASE RunQualityGates
  <2>1. CASE RunGates
    <3>1. UNCHANGED Approvals
      BY <1>0, <2>1 DEF RunGates, Document, Approvals
    <3> QED
      BY <2>1, <3>1, QuietWrite DEF RunGates
  <2>2. CASE RequestToolCheck
    BY <2>2, QuietWrite DEF RequestToolCheck, Approvals
  <2>3. CASE RunToolCheck
    BY <2>3, QuietWrite DEF RunToolCheck, Approvals
  <2>4. CASE DecideGates
    BY <2>4, QuietStill DEF DecideGates, Leave
  <2> QED
    BY <1>9, <2>1, <2>2, <2>3, <2>4 DEF RunQualityGates
<1>10. CASE EvaluateSatisfaction
  <2>1. CASE EvaluateGoalSatisfaction
    <3>1. PICK verdict, error : doc' = [doc EXCEPT !.sat = verdict, !.satError = error]
      BY <2>1 DEF EvaluateGoalSatisfaction
    <3>2. UNCHANGED Approvals
      BY <1>0, <3>1 DEF Document, Approvals
    <3> QED
      BY <2>1, <3>2, QuietWrite DEF EvaluateGoalSatisfaction
  <2>2. CASE DecideSatisfaction
    BY <2>2, QuietStill DEF DecideSatisfaction, Leave
  <2> QED
    BY <1>10, <2>1, <2>2 DEF EvaluateSatisfaction
<1>11. CASE RunIndependentReview
  <2>1. CASE RunReview
    <3>1. UNCHANGED Approvals
      BY <1>0, <2>1 DEF RunReview, Document, Approvals
    <3> QED
      BY <2>1, <3>1, QuietWrite DEF RunReview
  <2>2. CASE RecordReview
    BY <2>2, QuietStill DEF RecordReview, Leave
  <2> QED
    BY <1>11, <2>1, <2>2 DEF RunIndependentReview
<1>12. CASE RepairFailure
  BY <1>12, QuietStill DEF RepairFailure, ReuseRepairResult, BeginRepair, RunRepairWorker,
                           WriteRepairResult, RecordRepair, Leave
<1>13. CASE PrepareEvidence
  <2>1. CASE BuildEvidence
    <3>1. UNCHANGED Approvals
      BY <1>0, <2>1 DEF BuildEvidence, Document, Approvals
    <3> QED
      BY <2>1, <3>1, QuietWrite DEF BuildEvidence
  <2>2. CASE RecordEvidence
    BY <2>2, QuietStill DEF RecordEvidence, Leave
  <2> QED
    BY <1>13, <2>1, <2>2 DEF PrepareEvidence
<1> QED
  BY <1>3, <1>4, <1>5, <1>6, <1>7, <1>8, <1>9, <1>10, <1>11, <1>12, <1>13 DEF Graph

LEMMA NextKept ==
    ASSUME TypeInv, RequiredOnDisk, [Next]_vars
    PROVE  Kept
<1> USE NamesKnown
<1>0. doc \in Document
  BY DEF TypeInv, TypeOK
<1>1. CASE Start \/ Enter \/ ExceedRecursion \/ Finish \/ Exit
  BY <1>1, QuietStill DEF Start, Enter, ExceedRecursion, Finish, Exit
<1>2. CASE Run \/ Resume \/ Crash \/ LockExpires \/ ApproveRun
  BY <1>2, QuietStill DEF Run, Resume, Crash, LockExpires, ApproveRun
<1>3. CASE DryRun
  <2>1. "spec" \notin files /\ "plan" \notin files
    BY <1>3 DEF DryRun
  <2>2. {"goal", "snapshot", "spec", "vplan", "plan"} \subseteq files' /\ files \subseteq files'
    BY <1>3, WriteTypes DEF DryRun, TypeInv
  <2> QED
    BY <2>1, <2>2 DEF Kept, SpecAllows, PlanAllows
<1>4. CASE ApproveSpec
  <2>1. "spec" \in files /\ files \subseteq files'
    <3>1. PICK S \in SUBSET Names : Write(S)
      BY <1>4 DEF ApproveSpec
    <3> QED
      BY <1>4, <3>1, WriteTypes DEF ApproveSpec, TypeInv
  <2>2. /\ doc'.specRequired = doc.specRequired /\ doc'.specApproved
        /\ doc'.planRequired = doc.planRequired /\ doc'.planApproved = doc.planApproved
    BY <1>0, <1>4 DEF ApproveSpec, Document
  <2> QED
    BY <2>1, <2>2 DEF RequiredOnDisk, Kept, SpecAllows, PlanAllows, SpecNeedsApproval
<1>5. CASE ApprovePlan
  <2>1. "plan" \in files /\ files \subseteq files'
    BY <1>5, WriteTypes DEF ApprovePlan, TypeInv
  <2>2. /\ doc'.specRequired = doc.specRequired /\ doc'.specApproved = doc.specApproved
        /\ doc'.planRequired = doc.planRequired /\ doc'.planApproved
    BY <1>0, <1>5 DEF ApprovePlan, Document
  <2> QED
    BY <2>1, <2>2 DEF RequiredOnDisk, Kept, SpecAllows, PlanAllows, SpecNeedsApproval
<1>6. CASE UNCHANGED vars
  BY <1>6, QuietStill DEF vars
<1> QED
  BY <1>1, <1>2, <1>3, <1>4, <1>5, <1>6, GraphKept DEF Next, Process, Approve

-----------------------------------------------------------------------------
(* Places.                                                                 *)

LEMMA AllowedMonotone ==
    ASSUME NEW stage, NEW status, NEW spec \in BOOLEAN, NEW plan \in BOOLEAN,
           NEW spec2 \in BOOLEAN, NEW plan2 \in BOOLEAN,
           Permitted(stage, status, spec, plan), spec => spec2, plan => plan2
    PROVE  Permitted(stage, status, spec2, plan2)
BY DEF Permitted

LEMMA AllowedKept ==
    ASSUME Kept, NEW stage, NEW status, Permitted(stage, status, SpecAllows, PlanAllows)
    PROVE  Permitted(stage, status, SpecAllows', PlanAllows')
<1>1. /\ SpecAllows \in BOOLEAN /\ PlanAllows \in BOOLEAN
      /\ SpecAllows' \in BOOLEAN /\ PlanAllows' \in BOOLEAN
  BY DEF SpecAllows, PlanAllows
<1> QED
  BY <1>1, AllowedMonotone DEF Kept

Free == {"collect_goal", "inspect_repository", "draft_spec", "integrate_changes",
         "run_quality_gates", "repair_failure", "evaluate_goal_satisfaction",
         "run_independent_review", "prepare_evidence", "human_required"}

LEMMA FreeAllowed ==
    ASSUME NEW stage \in Free, NEW status, NEW spec, NEW plan
    PROVE  Permitted(stage, status, spec, plan)
BY DEF Free, Permitted

(* A step of the graph ends where the approvals of its beginning allow.    *)
MovesAllowed ==
    /\ lg' = lg
    /\ pc' \in Nodes => Permitted(pc', mem'.status, SpecAllows, PlanAllows)
    /\ pc' \notin Nodes => pc' = "finish" /\ Permitted(mem'.stage, mem'.status, SpecAllows, PlanAllows)
    /\ pc' = "draft_spec" /\ phase' # "begin" => "spec" \in files'

LEMMA StayMoves ==
    ASSUME PlaceAllowed, pc \in Nodes, pc' = pc, mem'.status = mem.status, lg' = lg,
           pc # "draft_spec" \/ "spec" \in files' \/ phase' = "begin"
    PROVE  MovesAllowed
BY DEF MovesAllowed, PlaceAllowed

LEMMA FreeMoves ==
    ASSUME NEW next \in Free \cap Nodes, Goto(next), lg' = lg
    PROVE  MovesAllowed
BY FreeAllowed DEF MovesAllowed, Goto

LEMMA LeaveFree ==
    ASSUME NEW s, NEW next \in Free \cap Nodes, Leave(s, next)
    PROVE  MovesAllowed
BY FreeMoves DEF Leave, Save

LEMMA LeaveFinish ==
    ASSUME NEW s, Leave(s, "finish"), s.stage \in Free
    PROVE  MovesAllowed
<1>1. "finish" \notin Nodes
  BY DEF Nodes
<1> QED
  BY <1>1, FreeAllowed DEF MovesAllowed, Leave, Save, Goto

LEMMA ValidateStageMoves ==
    ASSUME ApprovalInv, NEW node \in Nodes, NEW next \in Nodes, ValidateStage(node, next),
           next # "draft_spec",
           mem.status # "human_required" => Permitted(next, mem.status, SpecAllows, PlanAllows)
    PROVE  MovesAllowed
<1>1. /\ pc = node /\ lg' = lg /\ phase' = "begin"
      /\ pc' = IF mem.status = "human_required" THEN "finish" ELSE next
      /\ mem' = [mem EXCEPT !.stage = node]
  BY DEF ValidateStage, At, Goto, RouteAfterStop, saved
<1>2. mem'.stage = node /\ mem'.status = mem.status
  BY <1>1 DEF ApprovalInv, TypeInv, TypeOK, State
<1>3. Permitted(node, mem.status, SpecAllows, PlanAllows)
  BY <1>1 DEF ApprovalInv, PlaceAllowed
<1>4. "finish" \notin Nodes
  BY DEF Nodes
<1> QED
  BY <1>1, <1>2, <1>3, <1>4 DEF MovesAllowed

LEMMA SpecMoves ==
    ASSUME ApprovalInv,
           CollectGoal \/ InspectRepository \/ DraftSpec \/ ValidateSpec
             \/ CreateVerificationPlan
    PROVE  MovesAllowed
<1> USE DEF Nodes
<1>0. mem \in State
  BY DEF ApprovalInv, TypeInv, TypeOK
<1>1. CASE CollectGoal
  <2>1. CASE Produce("collect_goal", "goal")
    BY <2>1, StayMoves DEF Produce, At, control, saved, ApprovalInv
  <2>2. CASE Record("collect_goal", "goal", "inspect_repository", "inspect_repository")
    BY <2>2, LeaveFree DEF Record, Free
  <2> QED
    BY <1>1, <2>1, <2>2 DEF CollectGoal
<1>2. CASE InspectRepository
  <2>1. CASE Produce("inspect_repository", "snapshot")
    BY <2>1, StayMoves DEF Produce, At, control, saved, ApprovalInv
  <2>2. CASE Record("inspect_repository", "snapshot", "draft_spec", "draft_spec")
    BY <2>2, LeaveFree DEF Record, Free
  <2> QED
    BY <1>2, <2>1, <2>2 DEF InspectRepository
<1>3. CASE WriteSpec \/ ReuseSpec
  <2>1. /\ pc = "draft_spec" /\ pc' = pc /\ mem' = mem /\ lg' = lg /\ "spec" \in files'
    BY <1>3, WriteTypes, NamesKnown
       DEF WriteSpec, ReuseSpec, At, Stay, saved, Save, ApprovalInv, TypeInv
  <2> QED
    BY <2>1, StayMoves DEF ApprovalInv
<1>4. CASE StopForSpecApproval
  <2>1. /\ mem' = [mem EXCEPT !.status = "human_required", !.stage = "human_required",
                              !.arts = @ \cup {"spec"}]
        /\ pc' = "validate_spec" /\ lg' = lg
    BY <1>4 DEF StopForSpecApproval, Leave, Save, Goto
  <2>2. mem'.status = "human_required"
    BY <1>0, <2>1 DEF State
  <2> QED
    BY <2>1, <2>2 DEF MovesAllowed, Permitted
<1>5. CASE AcceptSpec
  <2>1. "spec" \in files /\ ~SpecNeedsApproval
    BY <1>5 DEF AcceptSpec, At, ApprovalInv, RequiredOnDisk
  <2>2. pc' = "validate_spec" /\ lg' = lg
    BY <1>5 DEF AcceptSpec, Save, saved, Goto
  <2> QED
    BY <2>1, <2>2 DEF MovesAllowed, Permitted, SpecAllows
<1>6. CASE ValidateSpec
  <2>1. pc = "validate_spec"
    BY <1>6 DEF ValidateSpec, ValidateStage, At
  <2>2. mem.status # "human_required" => SpecAllows
    BY <2>1 DEF ApprovalInv, PlaceAllowed, Permitted
  <2>3. mem.status # "human_required"
          => Permitted("create_verification_plan", mem.status, SpecAllows, PlanAllows)
    BY <2>2 DEF Permitted
  <2> QED
    BY <1>6, <2>3, ValidateStageMoves DEF ValidateSpec
<1>7. CASE CreateVerificationPlan
  <2>1. CASE Produce("create_verification_plan", "vplan")
    BY <2>1, StayMoves DEF Produce, At, control, saved, ApprovalInv
  <2>2. CASE Record("create_verification_plan", "vplan", "create_verification_plan",
                    "create_execution_plan")
    <3>1. /\ pc = "create_verification_plan" /\ pc' = "create_execution_plan" /\ lg' = lg
          /\ mem' = [mem EXCEPT !.stage = "create_verification_plan", !.arts = @ \cup {"vplan"}]
      BY <2>2 DEF Record, At, Leave, Save, Goto
    <3>2. mem'.status = mem.status
      BY <1>0, <3>1 DEF State
    <3>3. mem.status = "human_required" \/ SpecAllows
      BY <3>1 DEF ApprovalInv, PlaceAllowed, Permitted
    <3> QED
      BY <3>1, <3>2, <3>3 DEF MovesAllowed, Permitted
  <2> QED
    BY <1>7, <2>1, <2>2 DEF CreateVerificationPlan
<1> QED
  BY <1>1, <1>2, <1>3, <1>4, <1>5, <1>6, <1>7 DEF DraftSpec

LEMMA PlanMoves ==
    ASSUME ApprovalInv, CreateExecutionPlan \/ ValidateExecutionPlan \/ MaterializeTasks
    PROVE  MovesAllowed
<1> USE DEF Nodes
<1>0. mem \in State
  BY DEF ApprovalInv, TypeInv, TypeOK
<1>1. CASE WriteMissingVerificationPlan \/ WritePlan
  <2>1. /\ pc = "create_execution_plan" /\ pc' = pc /\ mem' = mem /\ lg' = lg
    BY <1>1 DEF WriteMissingVerificationPlan, WritePlan, At, Stay, control, saved
  <2> QED
    BY <2>1, StayMoves DEF ApprovalInv
<1>2. CASE DecidePlan
  <2>1. pc = "create_execution_plan" /\ pc' = "validate_execution_plan" /\ lg' = lg
    BY <1>2 DEF DecidePlan, At, Goto, Save
  <2>2. mem.status = "human_required" \/ SpecAllows
    BY <2>1 DEF ApprovalInv, PlaceAllowed, Permitted
  <2>3. CASE mem.status = "human_required"
    <3>1. mem' = mem
      BY <1>2, <2>3 DEF DecidePlan
    <3> QED
      BY <2>1, <2>3, <3>1 DEF MovesAllowed, Permitted
  <2>4. CASE mem.status # "human_required" /\ PlanBlocked
    <3>1. mem' = [mem EXCEPT !.status = "human_required", !.stage = "human_required",
                             !.arts = @ \cup {"plan"}]
      BY <1>2, <2>4 DEF DecidePlan
    <3>2. mem'.status = "human_required"
      BY <1>0, <3>1 DEF State
    <3> QED
      BY <2>1, <3>2 DEF MovesAllowed, Permitted
  <2>5. CASE mem.status # "human_required" /\ ~PlanBlocked
    <3>1. "plan" \in files
      BY <1>2, <2>5 DEF DecidePlan
    <3>2. SpecAllows /\ PlanAllows
      BY <2>2, <2>5, <3>1 DEF PlanAllows, PlanBlocked
    <3> QED
      BY <2>1, <3>2 DEF MovesAllowed, Permitted
  <2> QED
    BY <2>3, <2>4, <2>5
<1>3. CASE ValidateExecutionPlan
  <2>1. pc = "validate_execution_plan"
    BY <1>3 DEF ValidateExecutionPlan, ValidateStage, At
  <2>2. mem.status # "human_required" => SpecAllows /\ PlanAllows
    BY <2>1 DEF ApprovalInv, PlaceAllowed, Permitted
  <2>3. mem.status # "human_required"
          => Permitted("materialize_tasks", mem.status, SpecAllows, PlanAllows)
    BY <2>2 DEF Permitted
  <2> QED
    BY <1>3, <2>3, ValidateStageMoves DEF ValidateExecutionPlan
<1>4. CASE MaterializeTasks
  <2>1. pc = "materialize_tasks" /\ pc' = "dispatch_tasks" /\ lg' = lg
    BY <1>4 DEF MaterializeTasks, At, Leave, Save, Goto
  <2>2. SpecAllows /\ PlanAllows
    BY <2>1 DEF ApprovalInv, PlaceAllowed, Permitted
  <2> QED
    BY <2>1, <2>2 DEF MovesAllowed, Permitted
<1> QED
  BY <1>1, <1>2, <1>3, <1>4 DEF CreateExecutionPlan

LEMMA DispatchMoves ==
    ASSUME ApprovalInv, IntegrateChanges \/ DispatchTasks
    PROVE  MovesAllowed
<1> USE DEF Nodes
<1>0. mem \in State
  BY DEF ApprovalInv, TypeInv, TypeOK
<1>1. CASE IntegrateChanges
  <2>1. CASE Produce("integrate_changes", "integration")
    BY <2>1, StayMoves DEF Produce, At, control, saved, ApprovalInv
  <2>2. CASE Record("integrate_changes", "integration", "run_quality_gates", "run_quality_gates")
    BY <2>2, LeaveFree DEF Record, Free
  <2> QED
    BY <1>1, <2>1, <2>2 DEF IntegrateChanges
<1>2. CASE BeginDispatch
  <2>1. /\ pc = "dispatch_tasks" /\ pc' = pc /\ lg' = lg
        /\ mem' = [mem EXCEPT !.stage = "dispatch_tasks"]
    BY <1>2 DEF BeginDispatch, At, Stay, saved
  <2>2. mem'.status = mem.status
    BY <1>0, <2>1 DEF State
  <2> QED
    BY <2>1, <2>2, StayMoves DEF ApprovalInv
<1>3. ASSUME NEW t \in Tasks,
             WriteTask(t) \/ WriteWorkerRequest(t) \/ RunWorker(t) \/ WriteWorkerResult(t)
               \/ ApplyPatch(t)
      PROVE  MovesAllowed
  <2>1. pc = "dispatch_tasks" /\ pc' = pc /\ mem' = mem /\ lg' = lg
    BY <1>3 DEF WriteTask, WriteWorkerRequest, RunWorker, WriteWorkerResult, ApplyPatch,
                Dispatching, At, control, saved
  <2> QED
    BY <2>1, StayMoves DEF ApprovalInv
<1>4. ASSUME NEW t \in Tasks, RecordDispatch(t) \/ RecordCompletion(t) PROVE MovesAllowed
  <2>1. pc = "dispatch_tasks" /\ pc' = pc /\ lg' = lg
    BY <1>4 DEF RecordDispatch, RecordCompletion, Dispatching, At, control, Save
  <2>2. mem'.status = mem.status
    BY <1>0, <1>4 DEF RecordDispatch, RecordCompletion, State
  <2> QED
    BY <2>1, <2>2, StayMoves DEF ApprovalInv
<1>5. CASE StopDispatch
  <2>1. /\ pc' = "finish" /\ lg' = lg
        /\ mem' = [[mem EXCEPT !.status = "human_required", !.stage = "human_required"]
                      EXCEPT !.done = {t \in @ : work[t] = "skipped"}]
    BY <1>5 DEF StopDispatch, Goto, Save
  <2>2. mem'.stage = "human_required"
    BY <1>0, <2>1 DEF State
  <2> QED
    BY <2>1, <2>2, FreeAllowed DEF MovesAllowed, Free
<1>6. CASE FinishDispatch
  <2>1. PICK s : Leave(s, RouteAfterStop(s, "integrate_changes"))
    BY <1>6 DEF FinishDispatch
  <2>2. CASE s.status # "human_required"
    BY <2>1, <2>2, LeaveFree DEF RouteAfterStop, Free
  <2>3. CASE s.status = "human_required"
    <3>1. pc' = "finish" /\ lg' = lg /\ mem' = s
      BY <2>1, <2>3 DEF RouteAfterStop, Leave, Save, Goto
    <3>2. SpecAllows /\ PlanAllows
      BY <1>6 DEF FinishDispatch, Dispatching, At, ApprovalInv, PlaceAllowed, Permitted
    <3> QED
      BY <3>1, <3>2 DEF MovesAllowed, Permitted
  <2> QED
    BY <2>2, <2>3
<1> QED
  BY <1>1, <1>2, <1>3, <1>4, <1>5, <1>6 DEF DispatchTasks, DispatchTask

LEMMA CheckMoves ==
    ASSUME ApprovalInv, RunQualityGates \/ EvaluateSatisfaction \/ RunIndependentReview
    PROVE  MovesAllowed
<1> USE DEF Nodes
<1>0. mem \in State
  BY DEF ApprovalInv, TypeInv, TypeOK
<1>1. CASE RunGates \/ RequestToolCheck \/ RunToolCheck
  <2>1. /\ pc = "run_quality_gates" /\ pc' = pc /\ mem' = mem /\ lg' = lg
    BY <1>1 DEF RunGates, RequestToolCheck, RunToolCheck, At, Stay, saved
  <2> QED
    BY <2>1, StayMoves DEF ApprovalInv
<1>2. CASE DecideGates
  <2> DEFINE noted == [mem EXCEPT !.stage = "run_quality_gates", !.arts = @ \cup {"gate"},
                                  !.gatePassed = doc.gate]
             halted == [noted EXCEPT !.status = "human_required", !.stage = "human_required"]
             s == IF StopForGateFailure THEN halted ELSE noted
  <2>1. Leave(s, RouteAfterGates(s))
    BY <1>2 DEF DecideGates
  <2>2. s.stage \in Free
    <3>1. noted.stage = "run_quality_gates" /\ halted.stage = "human_required"
      BY <1>0 DEF State
    <3> QED
      BY <3>1 DEF Free
  <2> HIDE DEF s
  <2>3. RouteAfterGates(s) \in {"finish", "evaluate_goal_satisfaction", "repair_failure",
                                "prepare_evidence"}
    BY DEF RouteAfterGates, RouteAfterStop
  <2> QED
    BY <2>1, <2>2, <2>3, LeaveFree, LeaveFinish DEF Free
<1>3. CASE EvaluateGoalSatisfaction
  <2>1. /\ pc = "evaluate_goal_satisfaction" /\ pc' = pc /\ mem' = mem /\ lg' = lg
    BY <1>3 DEF EvaluateGoalSatisfaction, At, Stay, saved
  <2> QED
    BY <2>1, StayMoves DEF ApprovalInv
<1>4. CASE DecideSatisfaction
  <2>1. PICK s : Leave(s, RouteAfterSatisfaction(s))
    BY <1>4 DEF DecideSatisfaction
  <2>2. RouteAfterSatisfaction(s) \in Free \cap Nodes
    BY DEF RouteAfterSatisfaction, Free
  <2> QED
    BY <2>1, <2>2, LeaveFree
<1>5. CASE RunReview
  <2>1. /\ pc = "run_independent_review" /\ pc' = pc /\ mem' = mem /\ lg' = lg
    BY <1>5 DEF RunReview, At, Stay, saved
  <2> QED
    BY <2>1, StayMoves DEF ApprovalInv
<1>6. CASE RecordReview
  <2>1. PICK s : Leave(s, RouteAfterReview(s))
    BY <1>6 DEF RecordReview
  <2>2. RouteAfterReview(s) \in Free \cap Nodes
    BY DEF RouteAfterReview, Free
  <2> QED
    BY <2>1, <2>2, LeaveFree
<1> QED
  BY <1>1, <1>2, <1>3, <1>4, <1>5, <1>6
     DEF RunQualityGates, EvaluateSatisfaction, RunIndependentReview

LEMMA DeliverMoves ==
    ASSUME ApprovalInv, RepairFailure \/ PrepareEvidence
    PROVE  MovesAllowed
<1> USE DEF Nodes
<1>0. mem \in State
  BY DEF ApprovalInv, TypeInv, TypeOK
<1>1. CASE ReuseRepairResult
  BY <1>1, FreeMoves DEF ReuseRepairResult, Save, Free
<1>2. CASE BeginRepair
  <2>1. pc = "repair_failure" /\ pc' = pc /\ lg' = lg
    BY <1>2 DEF BeginRepair, At, Stay, Save
  <2> QED
    BY <2>1, FreeAllowed DEF MovesAllowed, Free
<1>3. CASE RunRepairWorker \/ WriteRepairResult
  <2>1. pc = "repair_failure" /\ pc' = pc /\ mem' = mem /\ lg' = lg
    BY <1>3 DEF RunRepairWorker, WriteRepairResult, At, Stay, saved
  <2> QED
    BY <2>1, StayMoves DEF ApprovalInv
<1>4. CASE RecordRepair
  BY <1>4, LeaveFree DEF RecordRepair, Free
<1>5. CASE BuildEvidence
  <2>1. pc = "prepare_evidence" /\ pc' = pc /\ mem' = mem /\ lg' = lg
    BY <1>5 DEF BuildEvidence, At, control, saved
  <2> QED
    BY <2>1, StayMoves DEF ApprovalInv
<1>6. CASE RecordEvidence
  <2> DEFINE s == [mem EXCEPT !.stage = "prepare_evidence", !.arts = @ \cup {"evidence"},
                              !.status = IF doc.ready THEN "ready_for_human_review"
                                                      ELSE "human_required"]
  <2>1. Leave(s, "finish")
    BY <1>6 DEF RecordEvidence
  <2>2. s.stage \in Free
    BY <1>0 DEF State, Free
  <2> QED
    BY <2>1, <2>2, LeaveFinish
<1> QED
  BY <1>1, <1>2, <1>3, <1>4, <1>5, <1>6 DEF RepairFailure, PrepareEvidence

LEMMA GraphMoves ==
    ASSUME ApprovalInv, Graph
    PROVE  MovesAllowed
BY SpecMoves, PlanMoves, DispatchMoves, CheckMoves, DeliverMoves DEF Graph

LEMMA GraphAtNode ==
    ASSUME Graph
    PROVE  pc \in Nodes
BY DEF Graph, CollectGoal, InspectRepository, CreateVerificationPlan, IntegrateChanges,
       Produce, Record, DraftSpec, WriteSpec, ReuseSpec, StopForSpecApproval, AcceptSpec,
       ValidateSpec, ValidateExecutionPlan, ValidateStage, CreateExecutionPlan,
       WriteMissingVerificationPlan, WritePlan, DecidePlan, MaterializeTasks, DispatchTasks,
       BeginDispatch, DispatchTask, WriteTask, WriteWorkerRequest, RunWorker,
       WriteWorkerResult, RecordDispatch, RecordCompletion, ApplyPatch, StopDispatch,
       FinishDispatch, Dispatching, RunQualityGates, RunGates, RequestToolCheck,
       RunToolCheck, DecideGates, EvaluateSatisfaction, EvaluateGoalSatisfaction,
       DecideSatisfaction, RunIndependentReview, RunReview, RecordReview, RepairFailure,
       ReuseRepairResult, BeginRepair, RunRepairWorker, WriteRepairResult, RecordRepair,
       PrepareEvidence, BuildEvidence, RecordEvidence, At, Nodes

LEMMA GraphAllowed ==
    ASSUME ApprovalInv, Graph
    PROVE  RequiredOnDisk' /\ PlaceAllowed' /\ ThreadAllowed'
<1>1. MovesAllowed /\ Kept
  BY GraphMoves, GraphKept DEF ApprovalInv
<1>2. lg # NoState
  BY GraphAtNode DEF ApprovalInv, ThreadAllowed
<1>3. RequiredOnDisk'
  BY <1>1 DEF Kept, MovesAllowed, RequiredOnDisk
<1>4. PlaceAllowed'
  BY <1>1, AllowedKept DEF MovesAllowed, PlaceAllowed, AllowedState, Nodes
<1>5. ThreadAllowed'
  BY <1>1, <1>2, AllowedKept DEF MovesAllowed, ApprovalInv, ThreadAllowed, AllowedState
<1> QED
  BY <1>3, <1>4, <1>5

-----------------------------------------------------------------------------
(* The steps around the graph.                                             *)

LEMMA ThreadStill ==
    ASSUME ApprovalInv, Kept, UNCHANGED <<wf, lg>>, pc' \notin Nodes
    PROVE  ThreadAllowed'
BY AllowedKept DEF ApprovalInv, ThreadAllowed, AllowedState

(* Going idle loses the place and keeps the checkpoints.                   *)
LEMMA IdlePlace ==
    ASSUME pc' = "idle", Kept
    PROVE  RequiredOnDisk' /\ PlaceAllowed'
BY DEF Kept, RequiredOnDisk, PlaceAllowed, Nodes

(* What is saved to both checkpoints may be loaded.                        *)
LEMMA SavedThread ==
    ASSUME ApprovalInv, SaverAvailable, NEW s \in State, SaveLangGraph(s), Kept,
           Permitted(s.stage, s.status, SpecAllows, PlanAllows)
    PROVE  lg' # NoState /\ AllowedState(lg)'
<1>1. lg' \in State /\ lg'.stage = s.stage /\ lg'.status = s.status
  BY SaveLangGraphType DEF ApprovalInv, TypeInv
<1> QED
  BY <1>1, AllowedKept, NoStateAssumption DEF AllowedState

LEMMA ProcessAllowed ==
    ASSUME ApprovalInv, SaverAvailable, Kept, Process
    PROVE  RequiredOnDisk' /\ PlaceAllowed' /\ ThreadAllowed'
<1>0. mem \in State
  BY DEF ApprovalInv, TypeInv, TypeOK
<1>1. CASE Start \/ Finish
  <2>1. /\ pc \in {"start", "finish"} /\ pc' \in {"enter", "leave"} /\ mem' = mem
        /\ wf' = mem /\ lg' = lg /\ UNCHANGED <<files, doc>>
    BY <1>1 DEF Start, Finish, Save
  <2>2. AllowedState(mem) /\ AllowedState(mem)'
    BY <2>1, AllowedKept DEF ApprovalInv, PlaceAllowed, AllowedState
  <2>3. PlaceAllowed'
    BY <2>1, <2>2 DEF PlaceAllowed, Nodes
  <2>4. ThreadAllowed'
    BY <2>1, <2>2, AllowedKept DEF ApprovalInv, ThreadAllowed, AllowedState, Nodes
  <2>5. RequiredOnDisk'
    BY <2>1 DEF ApprovalInv, RequiredOnDisk
  <2> QED
    BY <2>3, <2>4, <2>5
<1>2. CASE Enter
  <2>1. /\ pc = "enter" /\ pc' = EntryNode(mem) /\ phase' = "begin" /\ mem' = mem /\ wf' = wf
        /\ SaveLangGraph(mem)
    BY <1>2 DEF Enter, Goto
  <2>2. AllowedState(mem)
    BY <2>1 DEF ApprovalInv, PlaceAllowed
  <2>3. lg' # NoState /\ AllowedState(lg)'
    BY <1>0, <2>1, <2>2, SavedThread DEF AllowedState
  <2>4. AllowedState(mem)'
    BY <2>1, <2>2, AllowedKept DEF AllowedState
  <2>5. PlaceAllowed'
    BY <2>1, <2>4 DEF PlaceAllowed, AllowedState, EntryNode, Nodes
  <2>6. RequiredOnDisk'
    BY <2>1 DEF Kept, RequiredOnDisk
  <2> QED
    BY <2>3, <2>5, <2>6 DEF ThreadAllowed
<1>3. CASE Graph
  BY <1>3, GraphAllowed
<1>4. CASE ExceedRecursion
  <2>1. pc' = "idle" /\ UNCHANGED <<wf, lg>>
    BY <1>4 DEF ExceedRecursion, Forget, saved
  <2> QED
    BY <2>1, IdlePlace, ThreadStill DEF Nodes
<1>5. CASE Exit
  <2>1. pc = "leave" /\ pc' = "idle" /\ SaveLangGraph(mem) /\ wf' = wf
    BY <1>5 DEF Exit, Forget
  <2>2. AllowedState(mem)
    BY <2>1 DEF ApprovalInv, PlaceAllowed
  <2>3. lg' # NoState /\ AllowedState(lg)'
    BY <1>0, <2>1, <2>2, SavedThread DEF AllowedState
  <2> QED
    BY <2>1, <2>3, IdlePlace DEF ThreadAllowed
<1> QED
  BY <1>1, <1>2, <1>3, <1>4, <1>5 DEF Process

LEMMA StartAllowed ==
    ASSUME ApprovalInv, SaverAvailable, Kept, Run \/ DryRun \/ Resume
    PROVE  RequiredOnDisk' /\ PlaceAllowed' /\ ThreadAllowed'
<1>1. pc' \in {"start", "finish"} /\ UNCHANGED <<wf, lg>>
  BY DEF Run, DryRun, Resume, saved
<1>2. ThreadAllowed'
  BY <1>1, ThreadStill DEF Nodes
<1>3. RequiredOnDisk'
  BY <1>1 DEF Kept, RequiredOnDisk
<1>4. AllowedState(mem)'
  <2>1. CASE Run
    <3>1. mem'.stage = "collect_goal"
      BY <2>1 DEF Run, Fresh
    <3> QED
      BY <3>1, FreeAllowed DEF AllowedState, Free
  <2>2. CASE DryRun
    <3>1. mem'.status = "human_required" /\ mem'.stage = "validate_execution_plan"
      BY <2>2 DEF DryRun, Fresh
    <3> QED
      BY <3>1 DEF AllowedState, Permitted
  <2>3. CASE Resume
    <3>1. Remembered \in State
      BY <2>3, RememberedType DEF Resume, ApprovalInv, TypeInv
    <3>2. AllowedState(Remembered)
      BY <2>3 DEF Resume, Remembered, ApprovalInv, ThreadAllowed
    <3>3. \/ mem' = [Remembered EXCEPT !.status = "human_required", !.stage = "human_required"]
          \/ mem' = [Remembered EXCEPT !.stage = "collect_goal"]
          \/ mem' = Remembered
      BY <2>3 DEF Resume
    <3>4. mem'.stage \in Free \/ mem' = Remembered
      BY <3>1, <3>3 DEF State, Free
    <3>5. Permitted(Remembered.stage, Remembered.status, SpecAllows', PlanAllows')
      BY <3>2, AllowedKept DEF AllowedState
    <3> QED
      BY <3>4, <3>5, FreeAllowed DEF AllowedState
  <2> QED
    BY <2>1, <2>2, <2>3
<1> QED
  BY <1>1, <1>2, <1>3, <1>4 DEF PlaceAllowed, Nodes

(* An approval moves the checkpoints and what is approved, never the        *)
(* process.                                                                *)
LEMMA ApproveAllowed ==
    ASSUME ApprovalInv, SaverAvailable, Kept, Approve
    PROVE  RequiredOnDisk' /\ PlaceAllowed' /\ ThreadAllowed'
<1>0. /\ UNCHANGED <<pc, phase, mem>>
  BY DEF Approve, ApproveSpec, ApprovePlan, ApproveRun, control
<1>1. RequiredOnDisk' /\ PlaceAllowed'
  BY <1>0, AllowedKept DEF ApprovalInv, Kept, RequiredOnDisk, PlaceAllowed, AllowedState
<1>2. ASSUME NEW stage \in Stages, NEW a \in Names, row = "human_required"
      PROVE  /\ ResumeAt(stage, a) \in State
             /\ ResumeAt(stage, a).stage = stage /\ ResumeAt(stage, a).status = "running"
  <2>1. Remembered \in State
    BY <1>2, RememberedType DEF ApprovalInv, TypeInv, RowIsSaved, Remembered
  <2>2. ResumeAt(stage, a) \in State
    BY <1>2, <2>1, HaltedNotedType DEF ResumeAt, Statuses
  <2> QED
    BY <2>1, <2>2 DEF ResumeAt, State
<1>3. CASE ApproveSpec
  <2> DEFINE s == ResumeAt("create_execution_plan", "spec")
  <2>1. SaveLangGraph(s) /\ wf' = s /\ row = "human_required" /\ SpecAllows'
    <3>1. "spec" \in files /\ doc'.specApproved
      BY <1>3 DEF ApproveSpec, ApprovalInv, TypeInv, TypeOK, Document
    <3> QED
      BY <1>3, <3>1 DEF ApproveSpec, MayApprove, Kept, SpecAllows, SpecNeedsApproval
  <2>2. s \in State /\ s.stage = "create_execution_plan" /\ s.status = "running"
    BY <1>2, <2>1, NamesKnown DEF Stages, Nodes
  <2> HIDE DEF s
  <2>3. lg' \in State /\ lg'.stage = "create_execution_plan" /\ lg'.status = "running"
    BY <2>1, <2>2, SaveLangGraphType DEF ApprovalInv, TypeInv
  <2>4. lg' # NoState /\ AllowedState(lg)'
    BY <2>1, <2>3, NoStateAssumption DEF AllowedState, Permitted
  <2> QED
    BY <1>1, <2>4 DEF ThreadAllowed
<1>4. CASE ApprovePlan
  <2> DEFINE s == ResumeAt("validate_execution_plan", "plan")
  <2>1. /\ SaveLangGraph(s) /\ wf' = s /\ row = "human_required" /\ SpecAllows' /\ PlanAllows'
    <3>1. "plan" \in files /\ doc'.planApproved
      BY <1>4 DEF ApprovePlan, ApprovalInv, TypeInv, TypeOK, Document
    <3>2. "spec" \in files => SpecAllows
      BY <1>4 DEF ApprovePlan, SpecAllows
    <3>3. "spec" \in files
      BY <3>1 DEF ApprovalInv, PlanAfterSpec
    <3> QED
      BY <1>4, <3>1, <3>2, <3>3 DEF ApprovePlan, MayApprove, Kept, PlanAllows
  <2>2. s \in State /\ s.stage = "validate_execution_plan" /\ s.status = "running"
    BY <1>2, <2>1, NamesKnown DEF Stages, Nodes
  <2> HIDE DEF s
  <2>3. lg' \in State /\ lg'.stage = "validate_execution_plan" /\ lg'.status = "running"
    BY <2>1, <2>2, SaveLangGraphType DEF ApprovalInv, TypeInv
  <2>4. lg' # NoState /\ AllowedState(lg)'
    BY <2>1, <2>3, NoStateAssumption DEF AllowedState, Permitted
  <2> QED
    BY <1>1, <2>4 DEF ThreadAllowed
<1>5. CASE ApproveRun
  <2>1. UNCHANGED <<wf, lg>>
    BY <1>5 DEF ApproveRun
  <2> QED
    BY <1>0, <1>1, <2>1, AllowedKept DEF ApprovalInv, ThreadAllowed, AllowedState
<1> QED
  BY <1>3, <1>4, <1>5 DEF Approve

LEMMA PlanWriters ==
    ASSUME [Next]_vars, "plan" \notin files, "plan" \in files'
    PROVE  WritePlan \/ DryRun
<1>1. ASSUME NEW S, Write(S) PROVE "plan" \in S
  BY <1>1 DEF Write
<1>2. CASE UNCHANGED vars
  BY <1>2 DEF vars
<1>3. CASE Start \/ Enter \/ ExceedRecursion \/ Finish \/ Exit \/ Run \/ Resume \/ Crash
             \/ LockExpires
  BY <1>3 DEF Start, Enter, ExceedRecursion, Finish, Exit, Run, Resume, Crash, LockExpires
<1>4. CASE Approve
  BY <1>1, <1>4 DEF Approve, ApproveSpec, ApprovePlan, ApproveRun
<1>5. CASE Graph
  <2>1. CASE CollectGoal \/ InspectRepository \/ CreateVerificationPlan \/ IntegrateChanges
    BY <1>1, <2>1 DEF CollectGoal, InspectRepository, CreateVerificationPlan, IntegrateChanges,
                      Produce, Record, Leave
  <2>2. CASE DraftSpec \/ ValidateSpec \/ ValidateExecutionPlan \/ MaterializeTasks
    BY <1>1, <2>2 DEF DraftSpec, WriteSpec, ReuseSpec, StopForSpecApproval, AcceptSpec,
                      ValidateSpec, ValidateExecutionPlan, ValidateStage, MaterializeTasks, Leave
  <2>3. CASE CreateExecutionPlan
    BY <1>1, <2>3 DEF CreateExecutionPlan, WriteMissingVerificationPlan, DecidePlan
  <2>4. CASE DispatchTasks
    BY <2>4 DEF DispatchTasks, DispatchTask, BeginDispatch, WriteTask, WriteWorkerRequest,
                RunWorker, WriteWorkerResult, RecordDispatch, RecordCompletion, ApplyPatch,
                StopDispatch, FinishDispatch, Leave
  <2>5. CASE RunQualityGates \/ EvaluateSatisfaction
    BY <1>1, <2>5 DEF RunQualityGates, RunGates, RequestToolCheck, RunToolCheck, DecideGates,
                      EvaluateSatisfaction, EvaluateGoalSatisfaction, DecideSatisfaction, Leave
  <2>6. CASE RunIndependentReview \/ RepairFailure \/ PrepareEvidence
    BY <1>1, <2>6 DEF RunIndependentReview, RunReview, RecordReview, RepairFailure,
                      ReuseRepairResult, BeginRepair, RunRepairWorker, WriteRepairResult,
                      RecordRepair, PrepareEvidence, BuildEvidence, RecordEvidence, Leave
  <2> QED
    BY <1>5, <2>1, <2>2, <2>3, <2>4, <2>5, <2>6 DEF Graph
<1> QED
  BY <1>2, <1>3, <1>4, <1>5 DEF Next, Process

LEMMA PlanAfterSpecStep ==
    ASSUME ApprovalInv, [Next]_vars
    PROVE  PlanAfterSpec'
<1>1. files \subseteq files'
  BY NextKept DEF ApprovalInv, Kept
<1>2. CASE "plan" \in files
  BY <1>1, <1>2 DEF ApprovalInv, PlanAfterSpec
<1>3. CASE "plan" \notin files /\ "plan" \in files'
  <2>1. CASE WritePlan
    <3>1. pc = "create_execution_plan" /\ mem.status # "human_required"
      BY <2>1 DEF WritePlan, At
    <3>2. SpecAllows
      BY <3>1 DEF ApprovalInv, PlaceAllowed, Permitted, Nodes
    <3> QED
      BY <1>1, <3>2 DEF SpecAllows, PlanAfterSpec
  <2>2. CASE DryRun
    BY <2>2, WriteTypes, NamesKnown DEF DryRun, Write, PlanAfterSpec
  <2> QED
    BY <1>3, <2>1, <2>2, PlanWriters
<1> QED
  BY <1>2, <1>3 DEF PlanAfterSpec

LEMMA InitApproval == Init => ApprovalInv
<1> SUFFICES ASSUME Init PROVE ApprovalInv
  OBVIOUS
<1>1. TypeInv
  BY InitTypes
<1> QED
  BY <1>1 DEF Init, ApprovalInv, RequiredOnDisk, PlanAfterSpec, PlaceAllowed, ThreadAllowed, Nodes

LEMMA NextApproval == SaverAvailable /\ ApprovalInv /\ [Next]_vars => ApprovalInv'
<1> SUFFICES ASSUME SaverAvailable, ApprovalInv, [Next]_vars PROVE ApprovalInv'
  OBVIOUS
<1>1. TypeInv' /\ Kept /\ PlanAfterSpec'
  BY NextTypes, NextKept, PlanAfterSpecStep DEF ApprovalInv
<1>2. CASE Crash \/ LockExpires
  <2>1. pc' = "idle" /\ UNCHANGED <<wf, lg>>
    BY <1>2 DEF Crash, LockExpires, Forget, saved, control
  <2> QED
    BY <1>1, <2>1, IdlePlace, ThreadStill DEF ApprovalInv, Nodes
<1>3. CASE UNCHANGED vars
  <2>1. UNCHANGED <<pc, phase, mem, wf, lg, files, doc>>
    BY <1>3 DEF vars, control, saved
  <2> QED
    BY <1>1, <2>1, AllowedKept
       DEF ApprovalInv, RequiredOnDisk, PlaceAllowed, ThreadAllowed, AllowedState
<1> QED
  BY <1>1, <1>2, <1>3, ProcessAllowed, StartAllowed, ApproveAllowed DEF Next, ApprovalInv

LEMMA ApprovalInvariant ==
    ASSUME SaverAvailable
    PROVE  Spec => []ApprovalInv
<1>1. ApprovalInv /\ [Next]_vars => ApprovalInv'
  BY NextApproval
<1> QED
  BY <1>1, InitApproval, PTL DEF Spec

(* No task is dispatched before everything its artifacts ask for has been   *)
(* approved: for any number of tasks, any crashes and any interleaving of   *)
(* approvals with the process, as long as resume has a LangGraph checkpoint *)
(* to load.  Without one a run killed in draft_spec resumes past the        *)
(* approval, which is why the theorem asks for the saver.                   *)
THEOREM NothingUnapproved ==
    ASSUME SaverAvailable
    PROVE  Spec => []NoUnapprovedDispatch
<1>1. ApprovalInv => NoUnapprovedDispatch
  BY DEF ApprovalInv, PlaceAllowed, Permitted, SpecAllows, PlanAllows, NoUnapprovedDispatch, Nodes
<1> QED
  BY <1>1, ApprovalInvariant, PTL
=============================================================================
