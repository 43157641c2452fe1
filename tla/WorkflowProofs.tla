--------------------------- MODULE WorkflowProofs ---------------------------
EXTENDS Workflow, TLAPS

(* A run with a row has a checkpoint: both are saved in one transaction.   *)
RowIsSaved == row # "none" => wf # NoState

TypeInv == TypeOK /\ RowIsSaved

Places == Nodes \cup {"idle", "start", "enter", "finish", "leave"}

-----------------------------------------------------------------------------
(* Lemmas about the operators the actions are made of.                     *)

LEMMA FreshType == Fresh \in State
BY DEF Fresh, State, Statuses, Stages, Nodes

LEMMA SaveTypes ==
    ASSUME NEW s \in State, Save(s)
    PROVE  wf' \in State /\ row' \in Rows /\ lg' = lg /\ row' # "none"
BY DEF Save, State, Statuses, Rows

LEMMA SaveLangGraphType ==
    ASSUME TypeOK, NEW s \in State, SaveLangGraph(s)
    PROVE  /\ lg' \in State \cup {NoState}
           /\ SaverAvailable => lg' \in State /\ lg'.stage = s.stage /\ lg'.status = s.status
<1> DEFINE merged == [s EXCEPT !.arts = @ \cup lg.arts, !.workers = @ \cup lg.workers,
                               !.repaired = @ \/ lg.repaired]
<1>1. CASE ~SaverAvailable
  BY <1>1 DEF SaveLangGraph, TypeOK
<1>2. CASE SaverAvailable /\ lg = NoState
  BY <1>2 DEF SaveLangGraph
<1>3. CASE SaverAvailable /\ lg # NoState
  <2>1. lg' = merged
    BY <1>3 DEF SaveLangGraph
  <2>2. lg \in State
    BY <1>3 DEF TypeOK
  <2>3. merged \in State /\ merged.stage = s.stage /\ merged.status = s.status
    BY <2>2 DEF State
  <2> QED
    BY <2>1, <2>3
<1> QED
  BY <1>1, <1>2, <1>3

LEMMA RememberedType ==
    ASSUME TypeOK, Remembered # NoState
    PROVE  Remembered \in State
BY DEF Remembered, TypeOK

LEMMA WriteTypes ==
    ASSUME TypeOK, NEW S \in SUBSET Names, Write(S)
    PROVE  files' \subseteq Names /\ stale' \subseteq Names /\ files \subseteq files' /\ S \subseteq files'
BY DEF Write, TypeOK

LEMMA ForgetTypes ==
    ASSUME Forget
    PROVE  /\ pc' = "idle" /\ phase' \in Phases /\ steps' \in Nat
           /\ mem' \in State /\ work' \in [Tasks -> Work]
BY FreshType DEF Forget, Phases, Work

LEMMA GotoTypes ==
    ASSUME TypeOK, NEW node \in Nodes \cup {"finish"}, Goto(node)
    PROVE  pc' \in Places /\ phase' \in Phases /\ steps' \in Nat
BY DEF Goto, TypeOK, Places, Phases

LEMMA RouteTypes ==
    ASSUME NEW s, NEW next \in Nodes
    PROVE  /\ RouteAfterStop(s, next) \in Nodes \cup {"finish"}
           /\ RouteAfterGates(s) \in Nodes \cup {"finish"}
           /\ RouteAfterSatisfaction(s) \in Nodes
           /\ RouteAfterReview(s) \in Nodes
           /\ EntryNode(s) \in Nodes \cup {"finish"}
BY DEF RouteAfterStop, RouteAfterGates, RouteAfterSatisfaction, RouteAfterReview, EntryNode, Nodes

LEMMA LeaveTypes ==
    ASSUME TypeInv, NEW s \in State, NEW next \in Nodes \cup {"finish"}, Leave(s, next)
    PROVE  TypeInv'
<1>1. wf' \in State /\ row' \in Rows /\ lg' = lg /\ row' # "none"
  BY SaveTypes DEF Leave
<1>2. pc' \in Places /\ phase' \in Phases /\ steps' \in Nat
  BY GotoTypes DEF Leave, TypeInv
<1> QED
  BY <1>1, <1>2, NoStateAssumption
     DEF Leave, TypeInv, TypeOK, RowIsSaved, Places, tasksOnDisk, session, ghost

-----------------------------------------------------------------------------
(* Every variable keeps its type.                                          *)

LEMMA ProduceTypes ==
    ASSUME TypeInv, NEW node, NEW a \in Names, Produce(node, a)
    PROVE  TypeInv'
<1>1. files' \subseteq Names /\ stale' \subseteq Names
  BY WriteTypes DEF Produce, TypeInv
<1> QED
  BY <1>1 DEF Produce, TypeInv, TypeOK, RowIsSaved, control, saved, tasksOnDisk, session, ghost

LEMMA RecordTypes ==
    ASSUME TypeInv, NEW node, NEW a \in Names, NEW stage \in Stages, NEW next \in Nodes,
           Record(node, a, stage, next)
    PROVE  TypeInv'
<1> DEFINE s == [mem EXCEPT !.stage = stage, !.arts = @ \cup {a}]
<1>1. s \in State
  BY DEF State, TypeInv, TypeOK
<1>2. Leave(s, next)
  BY DEF Record
<1> QED
  BY <1>1, <1>2, LeaveTypes

LEMMA NamesKnown ==
    Names = {"goal", "snapshot", "spec", "vplan", "plan", "integration", "gate", "toolRequest",
             "tools", "sat", "review", "evidence", "release"}
BY DEF Names, Inputs

LEMMA StageKnown == Nodes \subseteq Stages /\ "human_required" \in Stages
BY DEF Stages

(* The ways the nodes change the state they leave.                         *)
LEMMA NotedType ==
    ASSUME NEW s \in State, NEW stage \in Stages, NEW a \in Names
    PROVE  [s EXCEPT !.stage = stage, !.arts = @ \cup {a}] \in State
BY DEF State

LEMMA HaltedType ==
    ASSUME NEW s \in State, NEW stage \in Stages, NEW status \in Statuses
    PROVE  [s EXCEPT !.status = status, !.stage = stage] \in State
BY DEF State

LEMMA HaltedNotedType ==
    ASSUME NEW s \in State, NEW stage \in Stages, NEW status \in Statuses, NEW a \in Names
    PROVE  [s EXCEPT !.status = status, !.stage = stage, !.arts = @ \cup {a}] \in State
BY DEF State

LEMMA CountedType ==
    ASSUME NEW s \in State, NEW stage \in Stages, NEW m \in Nat, NEW n \in Nat
    PROVE  [s EXCEPT !.attempts = m, !.stage = stage, !.satAttempts = n] \in State
BY DEF State

LEMMA ProducersType ==
    ASSUME TypeInv,
           CollectGoal \/ InspectRepository \/ CreateVerificationPlan \/ IntegrateChanges
    PROVE  TypeInv'
<1> USE NamesKnown DEF Stages, Nodes
<1>1. CASE CollectGoal
  BY <1>1, ProduceTypes, RecordTypes DEF CollectGoal
<1>2. CASE InspectRepository
  BY <1>2, ProduceTypes, RecordTypes DEF InspectRepository
<1>3. CASE CreateVerificationPlan
  BY <1>3, ProduceTypes, RecordTypes DEF CreateVerificationPlan
<1>4. CASE IntegrateChanges
  BY <1>4, ProduceTypes, RecordTypes DEF IntegrateChanges
<1> QED
  BY <1>1, <1>2, <1>3, <1>4

LEMMA DraftSpecType ==
    ASSUME TypeInv, DraftSpec
    PROVE  TypeInv'
<1> DEFINE noted == [mem EXCEPT !.stage = "create_execution_plan", !.arts = @ \cup {"spec"}]
           halted == [mem EXCEPT !.status = "human_required", !.stage = "human_required",
                                 !.arts = @ \cup {"spec"}]
<1>1. noted \in State /\ halted \in State
  <2>1. mem \in State
    BY DEF TypeInv, TypeOK
  <2>2. "spec" \in Names /\ "create_execution_plan" \in Stages /\ "human_required" \in Statuses
    BY NamesKnown DEF Stages, Nodes, Statuses
  <2> QED
    BY <2>1, <2>2, StageKnown, NotedType, HaltedNotedType
<1> USE DEF TypeInv, TypeOK, RowIsSaved
<1>2. CASE WriteSpec
  <2>1. files' \subseteq Names /\ stale' \subseteq Names
    BY <1>2, WriteTypes, NamesKnown DEF WriteSpec
  <2>2. doc' \in Document
    BY <1>2, FlagAssumption DEF WriteSpec, Document
  <2> QED
    BY <1>2, <2>1, <2>2 DEF WriteSpec, Stay, Phases, saved, tasksOnDisk, session, ghost
<1>3. CASE ReuseSpec
  <2>1. wf' \in State /\ row' \in Rows /\ lg' = lg /\ row' # "none"
    BY <1>1, <1>3, SaveTypes DEF ReuseSpec
  <2> QED
    BY <1>3, <2>1, NoStateAssumption DEF ReuseSpec, Stay, Phases, tasksOnDisk, session, ghost
<1>4. CASE StopForSpecApproval
  BY <1>1, <1>4, LeaveTypes DEF StopForSpecApproval, Nodes
<1>5. CASE AcceptSpec
  <2>1. mem' = noted /\ (Save(noted) \/ UNCHANGED saved)
    BY <1>5 DEF AcceptSpec
  <2>2. pc' \in Places /\ phase' \in Phases /\ steps' \in Nat
    BY <1>5, GotoTypes DEF AcceptSpec, Nodes
  <2>3. CASE Save(noted)
    <3>1. wf' \in State /\ row' \in Rows /\ lg' = lg /\ row' # "none"
      BY <1>1, <2>3, SaveTypes
    <3> QED
      BY <1>1, <1>5, <2>1, <2>2, <3>1, NoStateAssumption
         DEF AcceptSpec, Places, tasksOnDisk, session, ghost
  <2>4. CASE UNCHANGED saved
    BY <1>1, <1>5, <2>1, <2>2, <2>4 DEF AcceptSpec, Places, saved, tasksOnDisk, session, ghost
  <2> QED
    BY <2>1, <2>3, <2>4
<1> QED
  BY <1>2, <1>3, <1>4, <1>5 DEF DraftSpec

LEMMA ValidateStageType ==
    ASSUME TypeInv, NEW node \in Nodes, NEW next \in Nodes, ValidateStage(node, next)
    PROVE  TypeInv'
<1>1. pc' \in Places /\ phase' \in Phases /\ steps' \in Nat
  BY GotoTypes, RouteTypes DEF ValidateStage, TypeInv
<1>2. mem' \in State
  BY DEF ValidateStage, TypeInv, TypeOK, State, Stages
<1> QED
  BY <1>1, <1>2 DEF ValidateStage, TypeInv, TypeOK, RowIsSaved, Places, saved, tasksOnDisk,
                    session, ghost

LEMMA CreateExecutionPlanType ==
    ASSUME TypeInv, CreateExecutionPlan
    PROVE  TypeInv'
<1>0. mem \in State
  BY DEF TypeInv, TypeOK
<1> USE DEF TypeInv, TypeOK, RowIsSaved
<1>1. CASE WriteMissingVerificationPlan
  <2>1. files' \subseteq Names /\ stale' \subseteq Names
    BY <1>1, WriteTypes, NamesKnown DEF WriteMissingVerificationPlan
  <2> QED
    BY <1>1, <2>1 DEF WriteMissingVerificationPlan, Stay, Phases, saved, tasksOnDisk, session,
                      ghost
<1>2. CASE WritePlan
  <2>1. files' \subseteq Names /\ stale' \subseteq Names
    BY <1>2, WriteTypes, NamesKnown DEF WritePlan
  <2>2. doc' \in Document
    <3>1. PICK strategy \in Strategies, valid \in BOOLEAN, asked \in PlanApproval :
             doc' = [doc EXCEPT !.strategy = strategy, !.planValid = valid,
                                !.planRequired = asked /\ strategy = "parallel",
                                !.planApproved = FALSE]
      BY <1>2 DEF WritePlan
    <3>2. strategy \in {"sequential", "parallel"} /\ (asked /\ strategy = "parallel") \in BOOLEAN
      BY StrategyAssumption
    <3> QED
      BY <3>1, <3>2 DEF Document
  <2> QED
    BY <1>2, <2>1, <2>2 DEF WritePlan, control, saved, tasksOnDisk, session, ghost
<1>3. CASE DecidePlan
  <2> DEFINE halted == [mem EXCEPT !.status = "human_required", !.stage = "human_required",
                                   !.arts = @ \cup {"plan"}]
             noted == [mem EXCEPT !.stage = "create_execution_plan", !.arts = @ \cup {"plan"}]
             s == IF mem.status = "human_required" THEN mem
                  ELSE IF PlanBlocked THEN halted ELSE noted
             withPlan == [s EXCEPT !.arts = @ \cup {"vplan"}]
  <2>1. s \in State
    <3>1. "plan" \in Names /\ "create_execution_plan" \in Stages /\ "human_required" \in Statuses
      BY NamesKnown DEF Stages, Nodes, Statuses
    <3>2. halted \in State /\ noted \in State
      BY <1>0, <3>1, StageKnown, NotedType, HaltedNotedType
    <3> QED
      BY <1>0, <3>2
  <2>2. withPlan \in State
    <3> HIDE DEF s
    <3> QED
      BY <2>1, NamesKnown DEF State
  <2>3. mem' = s /\ (Save(s) \/ Save(withPlan))
    BY <1>3 DEF DecidePlan
  <2> HIDE DEF s, withPlan
  <2>4. wf' \in State /\ row' \in Rows /\ lg' = lg /\ row' # "none"
    BY <2>1, <2>2, <2>3, SaveTypes
  <2>5. pc' \in Places /\ phase' \in Phases /\ steps' \in Nat
    BY <1>3, GotoTypes DEF DecidePlan, Nodes
  <2> QED
    BY <1>3, <2>1, <2>3, <2>4, <2>5, NoStateAssumption
       DEF DecidePlan, Places, tasksOnDisk, session, ghost
<1> QED
  BY <1>1, <1>2, <1>3 DEF CreateExecutionPlan

LEMMA MaterializeTasksType ==
    ASSUME TypeInv, MaterializeTasks
    PROVE  TypeInv'
<1>1. [mem EXCEPT !.stage = "materialize_tasks"] \in State
  BY DEF TypeInv, TypeOK, State, Stages, Nodes
<1> QED
  BY <1>1, LeaveTypes DEF MaterializeTasks, Nodes

LEMMA DispatchTasksType ==
    ASSUME TypeInv, DispatchTasks
    PROVE  TypeInv'
<1>0. mem \in State
  BY DEF TypeInv, TypeOK
<1> USE DEF TypeInv, TypeOK, RowIsSaved
<1>1. CASE BeginDispatch
  <2>1. mem' \in State
    BY <1>0, <1>1 DEF BeginDispatch, State, Stages, Nodes
  <2>2. work' \in [Tasks -> Work]
    BY <1>1 DEF BeginDispatch, Work
  <2> QED
    BY <1>1, <2>1, <2>2 DEF BeginDispatch, Stay, Phases, saved, tasksOnDisk, session, ghost
<1>2. ASSUME NEW t \in Tasks, WriteTask(t) PROVE TypeInv'
  <2>1. taskFile' \in [Tasks -> TaskFiles] /\ staleTasks' \subseteq Tasks
    BY <1>2 DEF WriteTask, TaskFiles
  <2>2. work' \in [Tasks -> Work]
    BY <1>2 DEF WriteTask, Work
  <2> QED
    BY <1>2, <2>1, <2>2 DEF WriteTask, control, saved, session, ghost
<1>3. ASSUME NEW t \in Tasks, WriteWorkerRequest(t) PROVE TypeInv'
  <2>1. taskFile' \in [Tasks -> TaskFiles] /\ staleTasks' \subseteq Tasks
    BY <1>3 DEF WriteWorkerRequest, TaskFiles
  <2>2. work' \in [Tasks -> Work]
    BY <1>3 DEF WriteWorkerRequest, Work
  <2> QED
    BY <1>3, <2>1, <2>2 DEF WriteWorkerRequest, control, saved, session, ghost
<1>4. ASSUME NEW t \in Tasks, RunWorker(t) PROVE TypeInv'
  <2>1. work' \in [Tasks -> Work]
    BY <1>4 DEF RunWorker, Work
  <2>2. stale' \subseteq Names
    BY <1>4, NamesKnown DEF RunWorker
  <2>3. applied' \subseteq Tasks /\ verified' \in BOOLEAN
    BY <1>4 DEF RunWorker
  <2> QED
    BY <1>4, <2>1, <2>2, <2>3 DEF RunWorker, control, saved, tasksOnDisk, session
<1>5. ASSUME NEW t \in Tasks, WriteWorkerResult(t) PROVE TypeInv'
  <2>1. work' \in [Tasks -> Work]
    BY <1>5 DEF WriteWorkerResult, Work
  <2>2. taskFile' \in [Tasks -> TaskFiles]
    BY <1>5 DEF WriteWorkerResult, TaskFiles
  <2> QED
    BY <1>5, <2>1, <2>2 DEF WriteWorkerResult, control, saved, session, ghost
<1>6. ASSUME NEW t \in Tasks, RecordDispatch(t) PROVE TypeInv'
  <2>1. PICK s : s = [mem EXCEPT !.workers = @ \cup {t}] /\ Save(s) /\ mem' = s
    BY <1>6 DEF RecordDispatch
  <2>2. s \in State
    BY <1>0, <2>1 DEF State
  <2>3. wf' \in State /\ row' \in Rows /\ lg' = lg /\ row' # "none"
    BY <2>1, <2>2, SaveTypes
  <2>4. work' \in [Tasks -> Work]
    BY <1>6 DEF RecordDispatch, Work
  <2> QED
    BY <1>6, <2>1, <2>2, <2>3, <2>4, NoStateAssumption
       DEF RecordDispatch, control, tasksOnDisk, session, ghost
<1>7. ASSUME NEW t \in Tasks, RecordCompletion(t) PROVE TypeInv'
  <2>1. PICK s : s = [mem EXCEPT !.done = @ \cup {t}] /\ Save(s) /\ mem' = s
    BY <1>7 DEF RecordCompletion
  <2>2. s \in State
    BY <1>0, <2>1 DEF State
  <2>3. wf' \in State /\ row' \in Rows /\ lg' = lg /\ row' # "none"
    BY <2>1, <2>2, SaveTypes
  <2>4. work' \in [Tasks -> Work]
    BY <1>7 DEF RecordCompletion, Work
  <2> QED
    BY <1>7, <2>1, <2>2, <2>3, <2>4, NoStateAssumption
       DEF RecordCompletion, control, tasksOnDisk, session, ghost
<1>8. ASSUME NEW t \in Tasks, ApplyPatch(t) PROVE TypeInv'
  <2>1. work' \in [Tasks -> Work]
    BY <1>8 DEF ApplyPatch, Work
  <2>2. taskFile' \in [Tasks -> TaskFiles]
    BY <1>8 DEF ApplyPatch, TaskFiles, Results
  <2>3. applied' \subseteq Tasks /\ verified' \in BOOLEAN
    BY <1>8 DEF ApplyPatch
  <2> QED
    BY <1>8, <2>1, <2>2, <2>3 DEF ApplyPatch, control, saved, session
<1>9. CASE StopDispatch
  <2>1. PICK s : /\ s = [mem EXCEPT !.status = "human_required", !.stage = "human_required"]
                 /\ Save(s) /\ mem' = [s EXCEPT !.done = {t \in @ : work[t] = "skipped"}]
    BY <1>9 DEF StopDispatch
  <2>2. s \in State
    BY <1>0, <2>1, StageKnown, HaltedType DEF Statuses
  <2>3. mem' \in State
    BY <2>1, <2>2 DEF State
  <2>4. wf' \in State /\ row' \in Rows /\ lg' = lg /\ row' # "none"
    BY <2>1, <2>2, SaveTypes
  <2>5. pc' \in Places /\ phase' \in Phases /\ steps' \in Nat
    BY <1>9, GotoTypes DEF StopDispatch
  <2> QED
    BY <1>9, <2>3, <2>4, <2>5, NoStateAssumption
       DEF StopDispatch, Places, tasksOnDisk, session, ghost
<1>10. CASE FinishDispatch
  <2>1. PICK s : /\ s = IF Sequential THEN mem ELSE [mem EXCEPT !.workers = Tasks, !.done = Tasks]
                 /\ Leave(s, RouteAfterStop(s, "integrate_changes"))
    BY <1>10 DEF FinishDispatch
  <2>2. [mem EXCEPT !.workers = Tasks, !.done = Tasks] \in State
    BY <1>0 DEF State
  <2>3. s \in State
    BY <1>0, <2>1, <2>2
  <2>4. RouteAfterStop(s, "integrate_changes") \in Nodes \cup {"finish"}
    BY DEF RouteAfterStop, Nodes
  <2> QED
    BY <2>1, <2>3, <2>4, LeaveTypes
<1> QED
  BY <1>1, <1>2, <1>3, <1>4, <1>5, <1>6, <1>7, <1>8, <1>9, <1>10 DEF DispatchTasks, DispatchTask

LEMMA RunQualityGatesType ==
    ASSUME TypeInv, RunQualityGates
    PROVE  TypeInv'
<1>0. mem \in State
  BY DEF TypeInv, TypeOK
<1> USE DEF TypeInv, TypeOK, RowIsSaved
<1>1. CASE RunGates
  <2>1. files' \subseteq Names /\ stale' \subseteq Names
    BY <1>1, WriteTypes, NamesKnown DEF RunGates
  <2>2. doc' \in Document
    BY <1>1 DEF RunGates, Document
  <2> QED
    BY <1>1, <2>1, <2>2 DEF RunGates, Stay, Phases, saved, tasksOnDisk, session
<1>2. CASE RequestToolCheck
  <2>1. files' \subseteq Names /\ stale' \subseteq Names
    BY <1>2, WriteTypes, NamesKnown DEF RequestToolCheck
  <2> QED
    BY <1>2, <2>1 DEF RequestToolCheck, Stay, Phases, saved, tasksOnDisk, session, ghost
<1>3. CASE RunToolCheck
  <2>1. files' \subseteq Names /\ stale' \subseteq Names
    BY <1>3, WriteTypes, NamesKnown DEF RunToolCheck
  <2> QED
    BY <1>3, <2>1 DEF RunToolCheck, Stay, Phases, saved, tasksOnDisk, session, ghost
<1>4. CASE DecideGates
  <2> DEFINE noted == [mem EXCEPT !.stage = "run_quality_gates", !.arts = @ \cup {"gate"},
                                  !.gatePassed = doc.gate]
             halted == [noted EXCEPT !.status = "human_required", !.stage = "human_required"]
             s == IF StopForGateFailure THEN halted ELSE noted
  <2>1. noted \in State
    <3>1. doc.gate \in BOOLEAN /\ "gate" \in Names /\ "run_quality_gates" \in Stages
      BY NamesKnown DEF Document, Stages, Nodes
    <3> QED
      BY <1>0, <3>1 DEF State
  <2>2. halted \in State
    <3> HIDE DEF noted
    <3> QED
      BY <2>1, StageKnown, HaltedType DEF Statuses
  <2>3. s \in State
    BY <2>1, <2>2
  <2>4. Leave(s, RouteAfterGates(s))
    BY <1>4 DEF DecideGates
  <2> QED
    BY <2>3, <2>4, LeaveTypes, RouteTypes DEF Nodes
<1> QED
  BY <1>1, <1>2, <1>3, <1>4 DEF RunQualityGates

LEMMA SatAttemptsType ==
    ASSUME TypeInv
    PROVE  SatAttempts \in Nat
<1>1. mem.satAttempts \in Nat /\ MaxRepairs \in Nat
  BY CountAssumption DEF TypeInv, TypeOK, State
<1> QED
  BY <1>1 DEF SatAttempts, Larger

LEMMA EvaluateSatisfactionType ==
    ASSUME TypeInv, EvaluateSatisfaction
    PROVE  TypeInv'
<1>0. mem \in State /\ doc \in Document
  BY DEF TypeInv, TypeOK
<1>1. CASE EvaluateGoalSatisfaction
  <2> USE DEF TypeInv, TypeOK, RowIsSaved
  <2>1. files' \subseteq Names /\ stale' \subseteq Names
    BY <1>1, WriteTypes, NamesKnown DEF EvaluateGoalSatisfaction
  <2>2. doc' \in Document
    <3>1. PICK verdict \in Verdicts : \E error \in IF verdict = "satisfied" THEN {NoError}
                                                                      ELSE Fingerprints :
             doc' = [doc EXCEPT !.sat = verdict, !.satError = error]
      BY <1>1 DEF EvaluateGoalSatisfaction
    <3>2. PICK error \in Fingerprints \cup {NoError} :
             doc' = [doc EXCEPT !.sat = verdict, !.satError = error]
      BY <3>1
    <3> QED
      BY <1>0, <3>2 DEF Document
  <2> QED
    BY <1>1, <2>1, <2>2 DEF EvaluateGoalSatisfaction, Stay, Phases, saved, tasksOnDisk, session,
                            ghost
<1>2. CASE DecideSatisfaction
  <2> DEFINE noted == [mem EXCEPT !.stage = "evaluate_goal_satisfaction",
                                  !.arts = @ \cup {"sat"},
                                  !.goalSatisfied = doc.sat = "satisfied"]
             failed == [noted EXCEPT !.satAttempts = SatAttempts, !.satError = doc.satError]
             s == IF doc.sat = "satisfied" THEN noted ELSE failed
  <2>1. noted \in State
    <3>1. "sat" \in Names /\ "evaluate_goal_satisfaction" \in Stages
      BY NamesKnown DEF Stages, Nodes
    <3>2. (doc.sat = "satisfied") \in BOOLEAN
      OBVIOUS
    <3> QED
      BY <1>0, <3>1, <3>2 DEF State
  <2>2. failed \in State
    <3>1. doc.satError \in Fingerprints \cup {NoError}
      BY <1>0 DEF Document
    <3> HIDE DEF noted
    <3> QED
      BY <2>1, <3>1, SatAttemptsType DEF State
  <2>3. s \in State
    BY <2>1, <2>2
  <2>4. Leave(s, RouteAfterSatisfaction(s))
    BY <1>2 DEF DecideSatisfaction
  <2> QED
    BY <2>3, <2>4, LeaveTypes, RouteTypes DEF Nodes
<1> QED
  BY <1>1, <1>2 DEF EvaluateSatisfaction

LEMMA RunIndependentReviewType ==
    ASSUME TypeInv, RunIndependentReview
    PROVE  TypeInv'
<1>0. mem \in State /\ doc \in Document
  BY DEF TypeInv, TypeOK
<1>1. CASE RunReview
  <2> USE DEF TypeInv, TypeOK, RowIsSaved
  <2>1. files' \subseteq Names /\ stale' \subseteq Names
    BY <1>1, WriteTypes, NamesKnown DEF RunReview
  <2>2. doc' \in Document
    BY <1>0, <1>1 DEF RunReview, Document
  <2> QED
    BY <1>1, <2>1, <2>2 DEF RunReview, Stay, Phases, saved, tasksOnDisk, session, ghost
<1>2. CASE RecordReview
  <2> DEFINE s == [mem EXCEPT !.stage = "run_independent_review", !.arts = @ \cup {"review"},
                              !.reviewPassed = doc.review = "pass"]
  <2>1. s \in State
    <3>1. "review" \in Names /\ "run_independent_review" \in Stages
      BY NamesKnown DEF Stages, Nodes
    <3>2. (doc.review = "pass") \in BOOLEAN
      OBVIOUS
    <3> QED
      BY <1>0, <3>1, <3>2 DEF State
  <2>2. Leave(s, RouteAfterReview(s))
    BY <1>2 DEF RecordReview
  <2> QED
    BY <2>1, <2>2, LeaveTypes, RouteTypes DEF Nodes
<1> QED
  BY <1>1, <1>2 DEF RunIndependentReview

LEMMA RepairFailureType ==
    ASSUME TypeInv, RepairFailure
    PROVE  TypeInv'
<1>0. mem \in State
  BY DEF TypeInv, TypeOK
<1> DEFINE noted == [mem EXCEPT !.stage = "run_quality_gates", !.repaired = TRUE]
<1>a. noted \in State
  BY <1>0 DEF State, Stages, Nodes
<1>1. CASE ReuseRepairResult
  <2>1. mem' = noted /\ Save(noted) /\ Goto("run_quality_gates")
    BY <1>1 DEF ReuseRepairResult
  <2>2. wf' \in State /\ row' \in Rows /\ lg' = lg /\ row' # "none"
    BY <1>a, <2>1, SaveTypes
  <2>3. pc' \in Places /\ phase' \in Phases /\ steps' \in Nat
    BY <2>1, GotoTypes DEF Nodes, TypeInv
  <2> QED
    BY <1>1, <1>a, <2>1, <2>2, <2>3, NoStateAssumption
       DEF ReuseRepairResult, TypeInv, TypeOK, RowIsSaved, Places, tasksOnDisk, session
<1>2. CASE BeginRepair
  <2> DEFINE n == IF RepairsGoal THEN mem.satAttempts + 1 ELSE mem.satAttempts
             s == [mem EXCEPT !.attempts = @ + 1, !.stage = "repair_failure", !.satAttempts = n]
  <2>1. s \in State
    <3>1. n \in Nat
      BY <1>0 DEF State
    <3>2. mem.attempts + 1 \in Nat /\ "repair_failure" \in Stages
      BY <1>0 DEF State, Stages, Nodes
    <3> HIDE DEF n
    <3> QED
      BY <1>0, <3>1, <3>2, CountedType
  <2>2. mem' = s /\ Save(s)
    BY <1>2 DEF BeginRepair
  <2>3. wf' \in State /\ row' \in Rows /\ lg' = lg /\ row' # "none"
    BY <2>1, <2>2, SaveTypes
  <2> QED
    BY <1>2, <2>1, <2>2, <2>3, NoStateAssumption
       DEF BeginRepair, TypeInv, TypeOK, RowIsSaved, Stay, Phases, tasksOnDisk, session, ghost
<1>3. CASE RunRepairWorker
  <2>1. repairsRun' \in Nat
    BY <1>3 DEF RunRepairWorker, TypeInv, TypeOK
  <2> QED
    BY <1>3, <2>1
       DEF RunRepairWorker, TypeInv, TypeOK, RowIsSaved, Stay, Phases, saved, tasksOnDisk, session
<1>4. CASE WriteRepairResult
  <2>1. repairs' \subseteq Nat
    BY <1>0, <1>4 DEF WriteRepairResult, TypeInv, TypeOK, State
  <2> QED
    BY <1>4, <2>1
       DEF WriteRepairResult, TypeInv, TypeOK, RowIsSaved, Stay, Phases, saved, tasksOnDisk,
           session, ghost
<1>5. CASE RecordRepair
  BY <1>5, <1>a, LeaveTypes DEF RecordRepair, Nodes
<1> QED
  BY <1>1, <1>2, <1>3, <1>4, <1>5 DEF RepairFailure

LEMMA PrepareEvidenceType ==
    ASSUME TypeInv, PrepareEvidence
    PROVE  TypeInv'
<1>0. mem \in State /\ doc \in Document
  BY DEF TypeInv, TypeOK
<1>1. CASE BuildEvidence
  <2>1. files' \subseteq Names /\ stale' \subseteq Names
    BY <1>1, WriteTypes, NamesKnown DEF BuildEvidence, TypeInv
  <2>2. doc' \in Document
    <3> DEFINE cited == "sat" \in files
    <3>1. doc' = [doc EXCEPT !.ready = EvidenceReady, !.satCited = cited]
      BY <1>1 DEF BuildEvidence
    <3>2. EvidenceReady \in BOOLEAN /\ cited \in BOOLEAN
      BY DEF EvidenceReady
    <3> HIDE DEF cited
    <3> QED
      BY <1>0, <3>1, <3>2 DEF Document
  <2> QED
    BY <1>1, <2>1, <2>2
       DEF BuildEvidence, TypeInv, TypeOK, RowIsSaved, control, saved, tasksOnDisk, session, ghost
<1>2. CASE RecordEvidence
  <2> DEFINE s == [mem EXCEPT !.stage = "prepare_evidence", !.arts = @ \cup {"evidence"},
                              !.status = IF doc.ready THEN "ready_for_human_review"
                                                      ELSE "human_required"]
  <2>1. s \in State
    <3>1. "evidence" \in Names /\ "prepare_evidence" \in Stages
      BY NamesKnown DEF Stages, Nodes
    <3> QED
      BY <1>0, <3>1 DEF State, Statuses
  <2>2. Leave(s, "finish")
    BY <1>2 DEF RecordEvidence
  <2> QED
    BY <2>1, <2>2, LeaveTypes
<1> QED
  BY <1>1, <1>2 DEF PrepareEvidence

LEMMA GraphType ==
    ASSUME TypeInv, Graph
    PROVE  TypeInv'
<1>1. CASE ValidateSpec \/ ValidateExecutionPlan
  BY <1>1, ValidateStageType DEF ValidateSpec, ValidateExecutionPlan, Nodes
<1> QED
  BY <1>1, ProducersType, DraftSpecType, CreateExecutionPlanType, MaterializeTasksType,
     DispatchTasksType, RunQualityGatesType, EvaluateSatisfactionType, RunIndependentReviewType,
     RepairFailureType, PrepareEvidenceType
     DEF Graph

LEMMA ProcessType ==
    ASSUME TypeInv, Process
    PROVE  TypeInv'
<1>0. mem \in State
  BY DEF TypeInv, TypeOK
<1>1. CASE Start
  <2>1. wf' \in State /\ row' \in Rows /\ lg' = lg /\ row' # "none"
    BY <1>0, <1>1, SaveTypes DEF Start
  <2> QED
    BY <1>1, <2>1, NoStateAssumption
       DEF Start, TypeInv, TypeOK, RowIsSaved, tasksOnDisk, session, ghost
<1>2. CASE Enter
  <2>1. lg' \in State \cup {NoState}
    BY <1>0, <1>2, SaveLangGraphType DEF Enter, TypeInv
  <2>2. pc' \in Places /\ phase' \in Phases /\ steps' \in Nat
    <3>1. EntryNode(mem) \in Nodes \cup {"finish"}
      BY DEF EntryNode
    <3> QED
      BY <1>2, <3>1, GotoTypes DEF Enter, TypeInv
  <2> QED
    BY <1>2, <2>1, <2>2
       DEF Enter, TypeInv, TypeOK, RowIsSaved, Places, tasksOnDisk, session, ghost
<1>3. CASE ExceedRecursion
  BY <1>3, ForgetTypes
     DEF ExceedRecursion, TypeInv, TypeOK, RowIsSaved, saved, tasksOnDisk, ghost
<1>4. CASE Finish
  <2>1. wf' \in State /\ row' \in Rows /\ lg' = lg /\ row' # "none"
    BY <1>0, <1>4, SaveTypes DEF Finish
  <2> QED
    BY <1>4, <2>1, NoStateAssumption
       DEF Finish, TypeInv, TypeOK, RowIsSaved, tasksOnDisk, session, ghost
<1>5. CASE Exit
  <2>1. lg' \in State \cup {NoState}
    BY <1>0, <1>5, SaveLangGraphType DEF Exit, TypeInv
  <2> QED
    BY <1>5, <2>1, ForgetTypes DEF Exit, TypeInv, TypeOK, RowIsSaved, tasksOnDisk, ghost
<1> QED
  BY <1>1, <1>2, <1>3, <1>4, <1>5, GraphType DEF Process

LEMMA StartType ==
    ASSUME TypeInv, Run \/ DryRun \/ Resume
    PROVE  TypeInv'
<1>1. CASE Run
  BY <1>1, FreshType DEF Run, TypeInv, TypeOK, RowIsSaved, saved, tasksOnDisk, session, ghost
<1>2. CASE DryRun
  <2>1. files' \subseteq Names /\ stale' \subseteq Names
    BY <1>2, WriteTypes, NamesKnown DEF DryRun, TypeInv
  <2>2. doc' \in Document
    <3>1. PICK required \in SpecApproval, strategy \in Strategies, valid \in BOOLEAN,
               asked \in PlanApproval :
             doc' = [doc EXCEPT !.specRequired = required, !.strategy = strategy,
                                !.planValid = valid,
                                !.planRequired = asked /\ strategy = "parallel"]
      BY <1>2 DEF DryRun
    <3>2. /\ required \in BOOLEAN /\ strategy \in {"sequential", "parallel"}
          /\ (asked /\ strategy = "parallel") \in BOOLEAN
      BY StrategyAssumption, FlagAssumption
    <3>3. doc \in Document
      BY DEF TypeInv, TypeOK
    <3> QED
      BY <3>1, <3>2, <3>3 DEF Document
  <2>3. mem' \in State
    <3>1. {"goal", "snapshot", "spec", "vplan", "plan"} \subseteq Names
      BY NamesKnown
    <3>2. mem' = [Fresh EXCEPT !.status = "human_required", !.stage = "validate_execution_plan",
                               !.arts = {"goal", "snapshot", "spec", "vplan", "plan"}]
      BY <1>2 DEF DryRun
    <3> QED
      BY <3>1, <3>2, FreshType DEF State, Statuses, Stages, Nodes
  <2> QED
    BY <1>2, <2>1, <2>2, <2>3 DEF DryRun, TypeInv, TypeOK, RowIsSaved, saved, tasksOnDisk, ghost
<1>3. CASE Resume
  <2>1. Remembered \in State
    BY <1>3, RememberedType DEF Resume, TypeInv
  <2>2. /\ [Remembered EXCEPT !.status = "human_required", !.stage = "human_required"] \in State
        /\ [Remembered EXCEPT !.stage = "collect_goal"] \in State
    <3>1. "human_required" \in Statuses /\ "collect_goal" \in Stages
      BY DEF Statuses, Stages, Nodes
    <3>2. [Remembered EXCEPT !.status = "human_required", !.stage = "human_required"] \in State
      BY <2>1, <3>1, StageKnown, HaltedType
    <3>3. [Remembered EXCEPT !.stage = "collect_goal"] \in State
      BY <2>1, <3>1 DEF State
    <3> QED
      BY <3>2, <3>3
  <2>3. mem' \in State /\ pc' \in Places
    BY <1>3, <2>1, <2>2 DEF Resume, Places
  <2> QED
    BY <1>3, <2>3 DEF Resume, TypeInv, TypeOK, RowIsSaved, Places, saved, tasksOnDisk, ghost
<1> QED
  BY <1>1, <1>2, <1>3

LEMMA ApproveType ==
    ASSUME TypeInv, Approve
    PROVE  TypeInv'
<1>0. ASSUME NEW stage \in Stages, NEW a \in Names, row = "human_required"
      PROVE  ResumeAt(stage, a) \in State
  <2>1. Remembered \in State
    BY <1>0, RememberedType DEF TypeInv, RowIsSaved, Remembered
  <2>2. "running" \in Statuses
    BY DEF Statuses
  <2> QED
    BY <1>0, <2>1, <2>2, HaltedNotedType DEF ResumeAt
<1>1. CASE ApproveSpec
  <2> DEFINE s == ResumeAt("create_execution_plan", "spec")
  <2>1. s \in State
    <3>1. "create_execution_plan" \in Stages /\ "spec" \in Names /\ row = "human_required"
      BY <1>1, NamesKnown DEF Stages, Nodes, ApproveSpec, MayApprove
    <3> QED
      BY <1>0, <3>1
  <2>2. wf' = s /\ row' = "running" /\ SaveLangGraph(s)
    BY <1>1 DEF ApproveSpec
  <2> HIDE DEF s
  <2>3. lg' \in State \cup {NoState}
    BY <2>1, <2>2, SaveLangGraphType DEF TypeInv
  <2>4. files' \subseteq Names /\ stale' \subseteq Names
    BY <1>1, WriteTypes, NamesKnown DEF ApproveSpec, TypeInv
  <2>5. doc' \in Document
    BY <1>1 DEF ApproveSpec, TypeInv, TypeOK, Document
  <2> QED
    BY <1>1, <2>1, <2>2, <2>3, <2>4, <2>5, NoStateAssumption
       DEF ApproveSpec, TypeInv, TypeOK, RowIsSaved, Statuses, Rows, control, tasksOnDisk, session, ghost
<1>2. CASE ApprovePlan
  <2> DEFINE s == ResumeAt("validate_execution_plan", "plan")
  <2>1. s \in State
    <3>1. "validate_execution_plan" \in Stages /\ "plan" \in Names /\ row = "human_required"
      BY <1>2, NamesKnown DEF Stages, Nodes, ApprovePlan, MayApprove
    <3> QED
      BY <1>0, <3>1
  <2>2. wf' = s /\ row' = "running" /\ SaveLangGraph(s)
    BY <1>2 DEF ApprovePlan
  <2> HIDE DEF s
  <2>3. lg' \in State \cup {NoState}
    BY <2>1, <2>2, SaveLangGraphType DEF TypeInv
  <2>4. files' \subseteq Names /\ stale' \subseteq Names
    BY <1>2, WriteTypes, NamesKnown DEF ApprovePlan, TypeInv
  <2>5. doc' \in Document
    BY <1>2 DEF ApprovePlan, TypeInv, TypeOK, Document
  <2>6. staleTasks' \subseteq Tasks
    BY <1>2 DEF ApprovePlan
  <2> QED
    BY <1>2, <2>1, <2>2, <2>3, <2>4, <2>5, <2>6, NoStateAssumption
       DEF ApprovePlan, TypeInv, TypeOK, RowIsSaved, Statuses, Rows, control, session, ghost
<1>3. CASE ApproveRun
  BY <1>3 DEF ApproveRun, MayApprove, TypeInv, TypeOK, RowIsSaved, Rows, control, tasksOnDisk, session,
              ghost
<1> QED
  BY <1>1, <1>2, <1>3 DEF Approve

LEMMA InitTypes == Init => TypeInv
<1> SUFFICES ASSUME Init PROVE TypeInv
  OBVIOUS
<1>1. doc \in Document
  BY DEF Init, Document, Verdicts, Reviews
<1>2. work \in [Tasks -> Work] /\ taskFile \in [Tasks -> TaskFiles]
  BY DEF Init, Work, TaskFiles
<1> QED
  BY <1>1, <1>2, FreshType DEF Init, TypeInv, TypeOK, RowIsSaved, Phases, Rows

LEMMA NextTypes == TypeInv /\ [Next]_vars => TypeInv'
<1> SUFFICES ASSUME TypeInv, [Next]_vars PROVE TypeInv'
  OBVIOUS
<1>1. CASE Crash
  BY <1>1, ForgetTypes, CountAssumption
     DEF Crash, TypeInv, TypeOK, RowIsSaved, saved, tasksOnDisk, ghost
<1>2. CASE LockExpires
  BY <1>2 DEF LockExpires, TypeInv, TypeOK, RowIsSaved, control, saved, tasksOnDisk, ghost
<1>3. CASE UNCHANGED vars
  BY <1>3 DEF vars, TypeInv, TypeOK, RowIsSaved, control, saved, tasksOnDisk, session, ghost
<1> QED
  BY <1>1, <1>2, <1>3, ProcessType, StartType, ApproveType DEF Next

LEMMA TypeInvariant == Spec => []TypeInv
BY InitTypes, NextTypes, PTL DEF Spec

(* Every variable of a run keeps its type, for every number of tasks, every *)
(* configuration and any crashes.                                          *)
THEOREM TypeCorrect == Spec => []TypeOK
BY TypeInvariant, PTL DEF TypeInv

-----------------------------------------------------------------------------
(* The repair loop: how long it can go on in one invocation of the graph,   *)
(* and how many repairs a run that nothing interrupts can make.             *)

(* The longest way to a node that passes no repair; a repair leads four     *)
(* nodes back.                                                              *)
Position ==
    [collect_goal |-> 1, inspect_repository |-> 2, draft_spec |-> 3, validate_spec |-> 4,
     create_verification_plan |-> 5, create_execution_plan |-> 6, validate_execution_plan |-> 7,
     materialize_tasks |-> 8, dispatch_tasks |-> 9, integrate_changes |-> 10,
     run_quality_gates |-> 11, evaluate_goal_satisfaction |-> 12, run_independent_review |-> 13,
     repair_failure |-> 14, prepare_evidence |-> 14]

(* The next repair of the process would be a reused one.                    *)
NoneToMake == ReuseRepair /\ (pc = "repair_failure" => phase = "begin")

(* Until a repair is reused the graph is left behind node by node, and one  *)
(* repair at most takes it back.                                            *)
StepsCounted ==
    ~reused =>
        /\ steps <= 18
        /\ pc \in Nodes => steps <= Position[pc] + IF NoneToMake THEN 4 ELSE 0
        /\ pc \in {"idle", "start", "enter"} => steps = 0

(* Without an allowance for repairs nothing leads to the repair.            *)
MayRepair(s) == s.stage = "repair_failure" => MaxRepairs # 0
RepairsAllowed ==
    /\ pc = "repair_failure" => MaxRepairs # 0
    /\ MayRepair(mem) /\ (wf # NoState => MayRepair(wf)) /\ (lg # NoState => MayRepair(lg))

(* What the attempts of a state say of an uninterrupted run whose repair is *)
(* through.                                                                 *)
Counted(s) ==
    IF s.attempts = 0 THEN repairs = {} /\ repairsRun = 0
    ELSE MaxRepairs # 0 /\ repairsRun <= 1 /\ s.attempts \in repairs

Repairing == pc = "repair_failure" /\ phase \in {"requested", "ran"}

(* A repair has a number, and is recorded once its result is on disk.       *)
RepairOnDisk ==
    /\ Repairing => mem.attempts # 0
    /\ pc = "repair_failure" /\ phase = "written" => ReuseRepair

(* The state a resume would load after Exit.                                *)
AttemptsKept ==
    IF pc = "idle" THEN row = "none" \/ (Remembered # NoState /\ Counted(Remembered))
    ELSE pc = "leave" => row # "none" /\ (SaverAvailable \/ wf.attempts = mem.attempts)

RepairsCounted ==
    ~broken =>
        /\ pc = "idle" /\ row = "none" => repairs = {} /\ repairsRun = 0
        /\ pc # "idle" /\ ~Repairing => Counted(mem)
        /\ Repairing => /\ MaxRepairs # 0
                        /\ IF phase = "requested" THEN repairsRun = 0 ELSE repairsRun <= 1
        /\ AttemptsKept

RepairInv == TypeInv /\ StepsCounted /\ RepairOnDisk /\ RepairsAllowed /\ RepairsCounted

(* A step of any node but the repair.                                       *)
Forward ==
    /\ pc \in Nodes \ {"repair_failure"}
    /\ mem'.attempts = mem.attempts
    /\ UNCHANGED <<lg, repairs, reused, repairsRun, broken>>
    /\ mem'.stage \in {mem.stage} \cup (Stages \ {"repair_failure"})
    /\ wf' = wf \/ wf'.stage \in {mem.stage} \cup (Stages \ {"repair_failure"})
    /\ \/ pc' = pc /\ steps' = steps
       \/ pc' = "finish" /\ steps' = steps
       \/ /\ pc' \in Nodes /\ phase' = "begin" /\ steps' = steps + 1
          /\ Position[pc'] > Position[pc]
          /\ pc' = "repair_failure" => MaxRepairs # 0

LEMMA ForwardStay ==
    ASSUME pc \in Nodes \ {"repair_failure"}, mem'.attempts = mem.attempts,
           mem'.stage \in {mem.stage} \cup (Stages \ {"repair_failure"}),
           wf' = wf \/ wf'.stage \in {mem.stage} \cup (Stages \ {"repair_failure"}),
           UNCHANGED <<pc, steps, lg, repairs, reused, repairsRun, broken>>
    PROVE  Forward
BY DEF Forward

LEMMA ForwardLeave ==
    ASSUME pc \in Nodes \ {"repair_failure"}, NEW s, NEW next, Leave(s, next),
           s.attempts = mem.attempts,
           s.stage \in {mem.stage} \cup (Stages \ {"repair_failure"}),
           next = "finish" \/ (next \in Nodes /\ Position[next] > Position[pc]),
           next = "repair_failure" => MaxRepairs # 0
    PROVE  Forward
<1>1. pc' = next /\ phase' = "begin" /\ (steps' = IF next = "finish" THEN steps ELSE steps + 1)
  BY DEF Leave, Goto
<1>2. mem' = s /\ wf' = s /\ UNCHANGED <<lg, repairs, reused, repairsRun, broken>>
  BY DEF Leave, Save, session, ghost
<1>3. "finish" \notin Nodes
  BY DEF Nodes
<1> QED
  BY <1>1, <1>2, <1>3 DEF Forward

LEMMA ForwardEarly ==
    ASSUME TypeInv,
           \/ CollectGoal \/ InspectRepository \/ DraftSpec \/ ValidateSpec
           \/ CreateVerificationPlan \/ CreateExecutionPlan \/ ValidateExecutionPlan
           \/ MaterializeTasks \/ IntegrateChanges
    PROVE  Forward
<1>0. mem \in State
  BY DEF TypeInv, TypeOK
<1>1. CASE CollectGoal \/ InspectRepository \/ CreateVerificationPlan \/ IntegrateChanges
  <2>1. ASSUME NEW node \in Nodes \ {"repair_failure"}, NEW a, Produce(node, a) PROVE Forward
    <3>1. UNCHANGED <<pc, steps, mem, wf, lg, repairs, reused, repairsRun, broken>> /\ pc = node
      BY <2>1 DEF Produce, At, control, saved, session, ghost
    <3> QED
      BY <3>1, ForwardStay
  <2>2. ASSUME NEW node \in Nodes \ {"repair_failure"}, NEW a,
               NEW stage \in Stages \ {"repair_failure"}, NEW next \in Nodes \ {"repair_failure"},
               Record(node, a, stage, next), Position[next] > Position[node]
        PROVE  Forward
    <3> DEFINE s == [mem EXCEPT !.stage = stage, !.arts = @ \cup {a}]
    <3>1. pc = node /\ Leave(s, next) /\ s.attempts = mem.attempts /\ s.stage = stage
      BY <1>0, <2>2 DEF Record, At, State
    <3> HIDE DEF s
    <3> QED
      BY <2>2, <3>1, ForwardLeave
  <2>3. CASE CollectGoal
    BY <2>1, <2>2, <2>3 DEF CollectGoal, Nodes, Stages, Position
  <2>4. CASE InspectRepository
    BY <2>1, <2>2, <2>4 DEF InspectRepository, Nodes, Stages, Position
  <2>5. CASE CreateVerificationPlan
    BY <2>1, <2>2, <2>5 DEF CreateVerificationPlan, Nodes, Stages, Position
  <2>6. CASE IntegrateChanges
    BY <2>1, <2>2, <2>6 DEF IntegrateChanges, Nodes, Stages, Position
  <2> QED
    BY <1>1, <2>3, <2>4, <2>5, <2>6
<1>2. CASE DraftSpec
  <2> DEFINE noted == [mem EXCEPT !.stage = "create_execution_plan", !.arts = @ \cup {"spec"}]
             halted == [mem EXCEPT !.status = "human_required", !.stage = "human_required",
                                   !.arts = @ \cup {"spec"}]
  <2>a. /\ noted.attempts = mem.attempts /\ noted.stage = "create_execution_plan"
        /\ halted.attempts = mem.attempts /\ halted.stage = "human_required"
    BY <1>0 DEF State
  <2>b. pc = "draft_spec"
    BY <1>2 DEF DraftSpec, WriteSpec, ReuseSpec, StopForSpecApproval, AcceptSpec, At
  <2>c. /\ Position["validate_spec"] > Position["draft_spec"]
        /\ {"create_execution_plan", "human_required"} \subseteq Stages \ {"repair_failure"}
        /\ {"draft_spec", "validate_spec"} \subseteq Nodes \ {"repair_failure"}
    BY DEF Position, Stages, Nodes
  <2> HIDE DEF noted, halted
  <2>1. CASE WriteSpec
    BY <2>b, <2>c, <2>1, ForwardStay DEF WriteSpec, Stay, saved, session, ghost
  <2>2. CASE ReuseSpec
    BY <2>a, <2>b, <2>c, <2>2, ForwardStay DEF ReuseSpec, Save, Stay, session, ghost, noted
  <2>3. CASE StopForSpecApproval
    BY <2>a, <2>b, <2>c, <2>3, ForwardLeave DEF StopForSpecApproval, halted
  <2>4. CASE AcceptSpec
    <3>1. /\ mem' = noted /\ wf' \in {wf, noted} /\ pc' = "validate_spec" /\ phase' = "begin"
          /\ steps' = steps + 1 /\ UNCHANGED <<lg, repairs, reused, repairsRun, broken>>
      BY <2>4 DEF AcceptSpec, Save, saved, Goto, session, ghost, noted
    <3> QED
      BY <2>a, <2>b, <2>c, <3>1 DEF Forward
  <2> QED
    BY <1>2, <2>1, <2>2, <2>3, <2>4 DEF DraftSpec
<1>3. CASE ValidateSpec \/ ValidateExecutionPlan
  <2>1. /\ pc \in {"validate_spec", "validate_execution_plan"} /\ mem' = [mem EXCEPT !.stage = pc]
        /\ UNCHANGED <<wf, lg, repairs, reused, repairsRun, broken>> /\ phase' = "begin"
        /\ \/ pc' = "finish" /\ steps' = steps
           \/ /\ pc' = IF pc = "validate_spec" THEN "create_verification_plan" ELSE "materialize_tasks"
              /\ steps' = steps + 1
    BY <1>3 DEF ValidateSpec, ValidateExecutionPlan, ValidateStage, At, RouteAfterStop, Goto,
                saved, session, ghost
  <2>2. mem'.attempts = mem.attempts /\ mem'.stage = pc
    BY <1>0, <2>1 DEF State
  <2> QED
    BY <2>1, <2>2 DEF Forward, Nodes, Stages, Position
<1>4. CASE CreateExecutionPlan
  <2>0. pc = "create_execution_plan"
    BY <1>4 DEF CreateExecutionPlan, WriteMissingVerificationPlan, WritePlan, DecidePlan, At
  <2>1. CASE WriteMissingVerificationPlan \/ WritePlan
    <3>1. UNCHANGED <<pc, steps, mem, wf, lg, repairs, reused, repairsRun, broken>>
      BY <2>1 DEF WriteMissingVerificationPlan, WritePlan, Stay, control, saved, session, ghost
    <3> QED
      BY <2>0, <3>1, ForwardStay DEF Nodes
  <2>2. CASE DecidePlan
    <3>1. /\ pc' = "validate_execution_plan" /\ phase' = "begin" /\ steps' = steps + 1
          /\ UNCHANGED <<lg, repairs, reused, repairsRun, broken>>
      BY <2>2 DEF DecidePlan, Save, Goto, session, ghost
    <3>2. PICK s : /\ s \in {mem, [mem EXCEPT !.status = "human_required", !.stage = "human_required",
                                              !.arts = @ \cup {"plan"}],
                             [mem EXCEPT !.stage = "create_execution_plan", !.arts = @ \cup {"plan"}]}
                   /\ mem' = s /\ wf' \in {s, [s EXCEPT !.arts = @ \cup {"vplan"}]}
      BY <2>2 DEF DecidePlan, Save
    <3>3. /\ s \in State /\ s.attempts = mem.attempts
          /\ s.stage \in {mem.stage, "human_required", "create_execution_plan"}
      <4>1. CASE s = mem
        BY <1>0, <4>1
      <4>2. CASE s = [mem EXCEPT !.status = "human_required", !.stage = "human_required",
                                 !.arts = @ \cup {"plan"}]
        <5>1. s \in State
          BY <1>0, <4>2, NamesKnown, HaltedNotedType, StageKnown DEF Statuses
        <5> QED
          BY <1>0, <4>2, <5>1 DEF State
      <4>3. CASE s = [mem EXCEPT !.stage = "create_execution_plan", !.arts = @ \cup {"plan"}]
        <5>1. s \in State
          BY <1>0, <4>3, NamesKnown, NotedType DEF Stages, Nodes
        <5> QED
          BY <1>0, <4>3, <5>1 DEF State
      <4> QED
        BY <3>2, <4>1, <4>2, <4>3
    <3>4. wf'.stage = s.stage
      BY <3>2, <3>3 DEF State
    <3> QED
      BY <2>0, <3>1, <3>2, <3>3, <3>4 DEF Forward, Nodes, Stages, Position
  <2> QED
    BY <1>4, <2>1, <2>2 DEF CreateExecutionPlan
<1>5. CASE MaterializeTasks
  <2> DEFINE s == [mem EXCEPT !.stage = "materialize_tasks"]
  <2>1. pc = "materialize_tasks" /\ Leave(s, "dispatch_tasks")
    BY <1>5 DEF MaterializeTasks, At
  <2>2. s.attempts = mem.attempts /\ s.stage = "materialize_tasks"
    BY <1>0 DEF State
  <2> HIDE DEF s
  <2> QED
    BY <2>1, <2>2, ForwardLeave DEF Nodes, Stages, Position
<1> QED
  BY <1>1, <1>2, <1>3, <1>4, <1>5

LEMMA ForwardDispatch ==
    ASSUME TypeInv, DispatchTasks
    PROVE  Forward
<1>0. mem \in State
  BY DEF TypeInv, TypeOK
<1>a. pc = "dispatch_tasks" /\ "dispatch_tasks" \in Nodes \ {"repair_failure"}
  BY DEF DispatchTasks, DispatchTask, BeginDispatch, WriteTask, WriteWorkerRequest, RunWorker,
         WriteWorkerResult, RecordDispatch, RecordCompletion, ApplyPatch, StopDispatch,
         FinishDispatch, Dispatching, At, Nodes
<1>1. CASE BeginDispatch
  <2>1. /\ mem' = [mem EXCEPT !.stage = "dispatch_tasks"]
        /\ UNCHANGED <<pc, steps, wf, lg, repairs, reused, repairsRun, broken>>
    BY <1>1 DEF BeginDispatch, Stay, saved, session, ghost
  <2>2. mem'.attempts = mem.attempts /\ mem'.stage = "dispatch_tasks"
    BY <1>0, <2>1 DEF State
  <2> QED
    BY <1>a, <2>1, <2>2, ForwardStay DEF Stages
<1>2. ASSUME NEW t \in Tasks, DispatchTask(t) PROVE Forward
  <2>1. CASE RecordDispatch(t) \/ RecordCompletion(t)
    <3>1. /\ mem' \in {[mem EXCEPT !.workers = @ \cup {t}], [mem EXCEPT !.done = @ \cup {t}]}
          /\ wf' = mem' /\ UNCHANGED <<pc, steps, lg, repairs, reused, repairsRun, broken>>
      BY <2>1 DEF RecordDispatch, RecordCompletion, Save, control, session, ghost
    <3>2. mem'.attempts = mem.attempts /\ mem'.stage = mem.stage
      BY <1>0, <3>1 DEF State
    <3> QED
      BY <1>a, <3>1, <3>2, ForwardStay
  <2>2. CASE ~(RecordDispatch(t) \/ RecordCompletion(t))
    <3>1. UNCHANGED <<pc, steps, mem, wf, lg, repairs, reused, repairsRun, broken>>
      BY <1>2, <2>2 DEF DispatchTask, WriteTask, WriteWorkerRequest, RunWorker,
         WriteWorkerResult, ApplyPatch, control, saved, session, ghost
    <3> QED
      BY <1>a, <3>1, ForwardStay
  <2> QED
    BY <2>1, <2>2
<1>3. CASE StopDispatch
  <2> DEFINE s == [mem EXCEPT !.status = "human_required", !.stage = "human_required"]
  <2>1. /\ wf' = s /\ mem' = [s EXCEPT !.done = {t \in @ : work[t] = "skipped"}]
        /\ pc' = "finish" /\ steps' = steps /\ UNCHANGED <<lg, repairs, reused, repairsRun, broken>>
    BY <1>3 DEF StopDispatch, Save, Goto, session, ghost
  <2>2. s \in State /\ s.attempts = mem.attempts /\ s.stage = "human_required"
    BY <1>0 DEF State, Statuses, Stages
  <2> HIDE DEF s
  <2>3. mem'.attempts = mem.attempts /\ mem'.stage = "human_required"
    BY <2>1, <2>2 DEF State
  <2> QED
    BY <1>a, <2>1, <2>2, <2>3 DEF Forward, Stages, Nodes
<1>4. CASE FinishDispatch
  <2>1. PICK s : /\ s \in {mem, [mem EXCEPT !.workers = Tasks, !.done = Tasks]}
                 /\ Leave(s, RouteAfterStop(s, "integrate_changes"))
    BY <1>4 DEF FinishDispatch
  <2>2. s.attempts = mem.attempts /\ s.stage = mem.stage
    BY <1>0, <2>1 DEF State
  <2>3. RouteAfterStop(s, "integrate_changes") \in {"finish", "integrate_changes"}
    BY DEF RouteAfterStop
  <2> QED
    BY <1>a, <2>1, <2>2, <2>3, ForwardLeave DEF Nodes, Position
<1> QED
  BY <1>1, <1>2, <1>3, <1>4 DEF DispatchTasks

(* The routes to the repair ask for attempts that are left.                 *)
LEMMA ForwardCheck ==
    ASSUME TypeInv, RunQualityGates \/ EvaluateSatisfaction \/ RunIndependentReview
                    \/ PrepareEvidence
    PROVE  Forward
<1>0. /\ mem \in State /\ doc \in Document /\ MaxRepairs \in Nat
      /\ SatAttempts \in Nat
  BY CountAssumption, SatAttemptsType DEF TypeInv, TypeOK
<1>1. CASE \/ RunGates \/ RequestToolCheck \/ RunToolCheck \/ EvaluateGoalSatisfaction
           \/ RunReview \/ BuildEvidence
  <2>1. /\ UNCHANGED <<pc, steps, mem, wf, lg, repairs, reused, repairsRun, broken>>
        /\ pc \in {"run_quality_gates", "evaluate_goal_satisfaction", "run_independent_review",
                   "prepare_evidence"}
    BY <1>1 DEF RunGates, RequestToolCheck, RunToolCheck, EvaluateGoalSatisfaction, RunReview,
                BuildEvidence, Stay, At, control, saved, session, ghost
  <2> QED
    BY <2>1, ForwardStay DEF Nodes
<1>2. CASE DecideGates
  <2> DEFINE noted == [mem EXCEPT !.stage = "run_quality_gates", !.arts = @ \cup {"gate"},
                                  !.gatePassed = doc.gate]
             halted == [noted EXCEPT !.status = "human_required", !.stage = "human_required"]
  <2>1. pc = "run_quality_gates"
    BY <1>2 DEF DecideGates, At
  <2>2. PICK s : s \in {noted, halted} /\ Leave(s, RouteAfterGates(s))
    BY <1>2 DEF DecideGates
  <2>3. /\ s.attempts = mem.attempts /\ s.attempts \in Nat
        /\ s.stage \in {"run_quality_gates", "human_required"}
    <3>1. /\ noted \in State /\ noted.attempts = mem.attempts /\ noted.stage = "run_quality_gates"
      BY <1>0, NamesKnown DEF State, Document, Stages, Nodes
    <3> HIDE DEF noted
    <3>2. halted.attempts = mem.attempts /\ halted.stage = "human_required"
      BY <3>1 DEF State
    <3> QED
      BY <1>0, <2>2, <3>1, <3>2 DEF State
  <2>4. /\ RouteAfterGates(s) \in {"finish", "evaluate_goal_satisfaction", "repair_failure",
                                   "prepare_evidence"}
        /\ RouteAfterGates(s) = "repair_failure" => MaxRepairs # 0
    BY <1>0, <2>3 DEF RouteAfterGates, RouteAfterStop
  <2> QED
    BY <2>1, <2>2, <2>3, <2>4, ForwardLeave DEF Nodes, Stages, Position
<1>3. CASE DecideSatisfaction
  <2> DEFINE noted == [mem EXCEPT !.stage = "evaluate_goal_satisfaction",
                                  !.arts = @ \cup {"sat"},
                                  !.goalSatisfied = doc.sat = "satisfied"]
             counted == [noted EXCEPT !.satAttempts = SatAttempts, !.satError = doc.satError]
  <2>1. pc = "evaluate_goal_satisfaction"
    BY <1>3 DEF DecideSatisfaction, At
  <2>2. PICK s : s \in {noted, counted} /\ Leave(s, RouteAfterSatisfaction(s))
    BY <1>3 DEF DecideSatisfaction
  <2>3. /\ s.attempts = mem.attempts /\ s.satAttempts \in Nat
        /\ s.stage = "evaluate_goal_satisfaction"
    <3>1. /\ noted \in State /\ noted.attempts = mem.attempts
          /\ noted.stage = "evaluate_goal_satisfaction"
      BY <1>0, NamesKnown DEF State, Stages, Nodes
    <3> HIDE DEF noted
    <3>2. /\ counted.attempts = mem.attempts /\ counted.stage = "evaluate_goal_satisfaction"
          /\ counted.satAttempts \in Nat
      BY <1>0, <3>1 DEF State
    <3> QED
      BY <2>2, <3>1, <3>2 DEF State
  <2>4. /\ RouteAfterSatisfaction(s) \in {"repair_failure", "run_independent_review"}
        /\ RouteAfterSatisfaction(s) = "repair_failure" => MaxRepairs # 0
    BY <1>0, <2>3 DEF RouteAfterSatisfaction
  <2> QED
    BY <2>1, <2>2, <2>3, <2>4, ForwardLeave DEF Nodes, Stages, Position
<1>4. CASE RecordReview
  <2> DEFINE s == [mem EXCEPT !.stage = "run_independent_review", !.arts = @ \cup {"review"},
                              !.reviewPassed = doc.review = "pass"]
  <2>1. pc = "run_independent_review" /\ Leave(s, RouteAfterReview(s))
    BY <1>4 DEF RecordReview, At
  <2>2. s.attempts = mem.attempts /\ s.attempts \in Nat /\ s.stage = "run_independent_review"
    BY <1>0 DEF State
  <2> HIDE DEF s
  <2>3. /\ RouteAfterReview(s) \in {"repair_failure", "prepare_evidence"}
        /\ RouteAfterReview(s) = "repair_failure" => MaxRepairs # 0
    BY <1>0, <2>2 DEF RouteAfterReview
  <2> QED
    BY <2>1, <2>2, <2>3, ForwardLeave DEF Nodes, Stages, Position
<1>5. CASE RecordEvidence
  <2>1. PICK s : /\ s = [mem EXCEPT !.stage = "prepare_evidence", !.arts = @ \cup {"evidence"},
                                    !.status = IF doc.ready THEN "ready_for_human_review"
                                                            ELSE "human_required"]
                 /\ Leave(s, "finish")
    BY <1>5 DEF RecordEvidence
  <2>2. s.attempts = mem.attempts /\ s.stage = "prepare_evidence" /\ pc = "prepare_evidence"
    BY <1>0, <1>5, <2>1 DEF State, RecordEvidence, At
  <2>3. Leave(s, "finish")
    BY <2>1
  <2>4. {"prepare_evidence"} \subseteq Nodes \ {"repair_failure"} /\ Nodes \subseteq Stages
    BY DEF Nodes, Stages
  <2> QED
    BY ONLY <2>2, <2>3, <2>4, ForwardLeave
<1> QED
  BY <1>1, <1>2, <1>3, <1>4, <1>5
     DEF RunQualityGates, EvaluateSatisfaction, RunIndependentReview, PrepareEvidence

LEMMA GraphForward ==
    ASSUME TypeInv, Graph
    PROVE  Forward \/ RepairFailure
BY ForwardEarly, ForwardDispatch, ForwardCheck DEF Graph

LEMMA ForwardKeepsCount ==
    ASSUME RepairInv, TypeInv', Forward
    PROVE  RepairInv'
<1>0. /\ mem \in State /\ mem' \in State /\ steps \in Nat /\ MaxRepairs \in Nat
      /\ NoState \notin State /\ "idle" \notin Nodes /\ "start" \notin Nodes /\ "enter" \notin Nodes
  BY CountAssumption, NoStateAssumption DEF RepairInv, TypeInv, TypeOK, Nodes
<1>1. /\ pc # "idle" /\ pc # "repair_failure" /\ pc \in Nodes
      /\ ReuseRepair' = ReuseRepair /\ NoneToMake = ReuseRepair
      /\ pc' \in Nodes \cup {"finish"} /\ (pc' = "repair_failure" => phase' = "begin")
      /\ NoneToMake' = ReuseRepair
  BY DEF Forward, ReuseRepair, NoneToMake, Nodes
<1>2. StepsCounted'
  <2>1. \A n \in Nodes : Position[n] \in 1..14
    BY DEF Nodes, Position
  <2>2. ~reused => steps <= 18 /\ (steps <= Position[pc] + IF ReuseRepair THEN 4 ELSE 0)
    BY <1>1 DEF RepairInv, StepsCounted
  <2>3. CASE steps' = steps /\ pc' \in {pc, "finish"}
    BY <1>0, <1>1, <2>2, <2>3 DEF StepsCounted, Forward, Nodes
  <2>4. CASE steps' = steps + 1 /\ pc' \in Nodes /\ Position[pc'] > Position[pc]
    <3>1. ~reused' => steps' <= Position[pc'] + IF ReuseRepair THEN 4 ELSE 0
      BY <1>0, <1>1, <2>1, <2>2, <2>4 DEF Forward
    <3> QED
      BY <1>0, <1>1, <2>1, <2>4, <3>1 DEF StepsCounted
  <2> QED
    BY <2>3, <2>4 DEF Forward
<1>3. RepairOnDisk' /\ ~Repairing /\ ~Repairing'
  BY <1>1 DEF RepairOnDisk, Repairing
<1>4. RepairsAllowed'
  BY <1>0, <1>1 DEF RepairInv, RepairsAllowed, MayRepair, Forward, Stages
<1>5. RepairsCounted'
  BY <1>0, <1>1, <1>3 DEF RepairInv, RepairsCounted, Counted, AttemptsKept, Forward, Nodes
<1> QED
  BY <1>2, <1>3, <1>4, <1>5 DEF RepairInv

LEMMA RepairKeepsCount ==
    ASSUME RepairInv, TypeInv', RepairFailure
    PROVE  RepairInv'
<1>0. /\ mem \in State /\ mem' \in State /\ steps \in Nat /\ MaxRepairs \in Nat
      /\ repairsRun \in Nat /\ NoState \notin State
  BY CountAssumption, NoStateAssumption DEF RepairInv, TypeInv, TypeOK
<1>1. /\ pc = "repair_failure" /\ pc \in Nodes /\ MaxRepairs # 0
      /\ MayRepair(mem) /\ (wf # NoState => MayRepair(wf)) /\ (lg # NoState => MayRepair(lg))
      /\ (~reused => steps <= 18 /\ (steps <= 14 + IF NoneToMake THEN 4 ELSE 0))
  BY DEF RepairFailure, ReuseRepairResult, BeginRepair, RunRepairWorker, WriteRepairResult,
         RecordRepair, At, RepairInv, RepairsAllowed, StepsCounted, Nodes, Position
<1>2. CASE ReuseRepairResult
  <2>1. /\ mem' = [mem EXCEPT !.stage = "run_quality_gates", !.repaired = TRUE] /\ wf' = mem'
        /\ reused' = TRUE /\ pc' = "run_quality_gates" /\ phase = "begin"
        /\ UNCHANGED <<lg, repairs, repairsRun, broken>>
    BY <1>2 DEF ReuseRepairResult, Save, Goto, At, session
  <2>2. mem'.attempts = mem.attempts /\ mem'.stage = "run_quality_gates"
    BY <1>0, <2>1 DEF State
  <2>3. StepsCounted' /\ RepairOnDisk' /\ RepairsAllowed'
    BY <1>1, <2>1, <2>2 DEF StepsCounted, RepairOnDisk, Repairing, RepairsAllowed, MayRepair
  <2>4. RepairsCounted'
    BY <1>1, <2>1, <2>2 DEF RepairInv, RepairsCounted, Counted, AttemptsKept, Repairing
  <2> QED
    BY <2>3, <2>4 DEF RepairInv
<1>3. CASE BeginRepair
  <2>1. /\ mem' = [mem EXCEPT !.attempts = @ + 1, !.stage = "repair_failure",
                              !.satAttempts = IF RepairsGoal THEN @ + 1 ELSE @]
        /\ wf' = mem' /\ phase = "begin" /\ phase' = "requested" /\ ~ReuseRepair
        /\ UNCHANGED <<pc, steps, lg, repairs, reused, repairsRun, broken>>
    BY <1>3 DEF BeginRepair, Save, Stay, At, session, ghost
  <2>2. /\ mem.attempts \in Nat /\ mem'.attempts = mem.attempts + 1
        /\ mem'.stage = "repair_failure"
    BY <1>0, <2>1 DEF State
  <2>3. StepsCounted'
    BY <1>0, <1>1, <2>1 DEF StepsCounted, NoneToMake, Position
  <2>4. RepairOnDisk' /\ RepairsAllowed'
    BY <1>1, <2>1, <2>2 DEF RepairOnDisk, Repairing, RepairsAllowed, MayRepair
  <2>5. ~broken => mem.attempts = 0 /\ repairsRun = 0
    BY <1>1, <2>1, <2>2 DEF RepairInv, RepairsCounted, Counted, ReuseRepair, Repairing
  <2>6. RepairsCounted'
    BY <1>1, <2>1, <2>2, <2>5 DEF RepairsCounted, AttemptsKept, Repairing
  <2> QED
    BY <2>3, <2>4, <2>6 DEF RepairInv
<1>4. CASE RunRepairWorker
  <2>1. /\ phase = "requested" /\ phase' = "ran"
        /\ UNCHANGED <<pc, steps, mem, wf, lg, repairs, reused, broken>>
        /\ repairsRun' \in {repairsRun, repairsRun + 1}
    BY <1>4 DEF RunRepairWorker, Stay, At, saved, session
  <2>2. StepsCounted'
    BY <1>1, <2>1 DEF StepsCounted, NoneToMake, Position
  <2>3. RepairOnDisk' /\ RepairsAllowed'
    BY <1>1, <2>1 DEF RepairInv, RepairOnDisk, Repairing, RepairsAllowed, MayRepair
  <2>4. RepairsCounted'
    BY <1>0, <1>1, <2>1 DEF RepairInv, RepairsCounted, AttemptsKept, Repairing
  <2> QED
    BY <2>2, <2>3, <2>4 DEF RepairInv
<1>5. CASE WriteRepairResult
  <2>1. /\ phase = "ran" /\ phase' = "written" /\ repairs' = repairs \cup {mem.attempts}
        /\ UNCHANGED <<pc, steps, mem, wf, lg, reused, repairsRun, broken>>
    BY <1>5 DEF WriteRepairResult, Stay, At, saved, session, ghost
  <2>2. mem.attempts \in Nat /\ mem.attempts # 0
    BY <1>0, <1>1, <2>1 DEF State, RepairInv, RepairOnDisk, Repairing
  <2>3. StepsCounted'
    BY <1>1, <2>1 DEF StepsCounted, NoneToMake, Position
  <2>4. RepairOnDisk' /\ RepairsAllowed'
    BY <1>1, <2>1, <2>2 DEF RepairOnDisk, Repairing, ReuseRepair, RepairsAllowed, MayRepair
  <2>5. RepairsCounted'
    BY <1>0, <1>1, <2>1, <2>2 DEF RepairInv, RepairsCounted, Counted, AttemptsKept, Repairing
  <2> QED
    BY <2>3, <2>4, <2>5 DEF RepairInv
<1>6. CASE RecordRepair
  <2>1. /\ mem' = [mem EXCEPT !.stage = "run_quality_gates", !.repaired = TRUE] /\ wf' = mem'
        /\ pc' = "run_quality_gates" /\ steps' = steps + 1 /\ phase = "written"
        /\ UNCHANGED <<lg, repairs, reused, repairsRun, broken>>
    BY <1>6 DEF RecordRepair, Leave, Save, Goto, At, session, ghost
  <2>2. mem'.attempts = mem.attempts /\ mem'.stage = "run_quality_gates"
    BY <1>0, <2>1 DEF State
  <2>3. ReuseRepair /\ ReuseRepair' /\ ~NoneToMake /\ NoneToMake'
    BY <1>1, <2>1, <2>2 DEF RepairInv, RepairOnDisk, ReuseRepair, NoneToMake
  <2>4. StepsCounted'
    BY <1>0, <1>1, <2>1, <2>3 DEF StepsCounted, Position
  <2>5. RepairOnDisk' /\ RepairsAllowed'
    BY <1>1, <2>1, <2>2 DEF RepairOnDisk, Repairing, RepairsAllowed, MayRepair
  <2>6. RepairsCounted'
    BY <1>1, <2>1, <2>2 DEF RepairInv, RepairsCounted, Counted, AttemptsKept, Repairing
  <2> QED
    BY <2>4, <2>5, <2>6 DEF RepairInv
<1> QED
  BY <1>2, <1>3, <1>4, <1>5, <1>6 DEF RepairFailure

LEMMA SaveLangGraphAttempts ==
    ASSUME TypeOK, NEW s \in State, SaveLangGraph(s)
    PROVE  IF SaverAvailable THEN lg' \in State /\ lg'.attempts = s.attempts /\ lg'.stage = s.stage
                             ELSE lg' = lg
<1>1. CASE SaverAvailable /\ lg # NoState
  <2>1. lg' = [s EXCEPT !.arts = @ \cup lg.arts, !.workers = @ \cup lg.workers,
                        !.repaired = @ \/ lg.repaired]
    BY <1>1 DEF SaveLangGraph
  <2>2. lg'.attempts = s.attempts
    BY <2>1 DEF State
  <2> QED
    BY <1>1, <2>2, SaveLangGraphType
<1> QED
  BY <1>1 DEF SaveLangGraph

(* The process around the graph.                                            *)
LEMMA AroundKeepsCount ==
    ASSUME RepairInv, TypeInv', Start \/ Enter \/ Finish \/ Exit \/ ExceedRecursion
    PROVE  RepairInv'
<1>0. /\ mem \in State /\ MaxRepairs \in Nat /\ NoState \notin State
      /\ steps \in Nat /\ TypeOK /\ "idle" \notin Nodes /\ "start" \notin Nodes
      /\ "enter" \notin Nodes /\ "finish" \notin Nodes /\ "leave" \notin Nodes
      /\ "repair_failure" \in Nodes /\ mem.status # "none"
  BY CountAssumption, NoStateAssumption
     DEF RepairInv, TypeInv, TypeOK, Nodes, State, Statuses
<1>f. Fresh \in State /\ Fresh.attempts = 0 /\ MayRepair(Fresh)
  BY FreshType DEF Fresh, MayRepair
<1>1. CASE Start \/ Finish
  <2>1. /\ wf' = mem /\ row' = mem.status /\ UNCHANGED <<steps, mem, lg, repairs, reused,
                                                         repairsRun, broken>>
        /\ \/ pc = "start" /\ pc' = "enter"
           \/ pc = "finish" /\ pc' = "leave"
    BY <1>1 DEF Start, Finish, Save, session, ghost
  <2>2. StepsCounted' /\ RepairOnDisk' /\ RepairsAllowed' /\ ~Repairing /\ ~Repairing'
    BY <1>0, <2>1 DEF RepairInv, StepsCounted, RepairOnDisk, Repairing, RepairsAllowed, MayRepair
  <2>3. RepairsCounted'
    BY <1>0, <2>1, <2>2 DEF RepairInv, RepairsCounted, Counted, AttemptsKept
  <2> QED
    BY <2>2, <2>3 DEF RepairInv
<1>2. CASE Enter
  <2>1. /\ pc = "enter" /\ pc' = EntryNode(mem) /\ phase' = "begin"
        /\ steps' = (IF EntryNode(mem) = "finish" THEN steps ELSE steps + 1)
        /\ SaveLangGraph(mem) /\ UNCHANGED <<mem, wf, repairs, reused, repairsRun, broken>>
    BY <1>2 DEF Enter, Goto, session, ghost
  <2>2. /\ pc' \in Nodes \cup {"finish"} /\ (pc' = "repair_failure" => MaxRepairs # 0)
        /\ (lg' # NoState => MayRepair(lg'))
    BY <1>0, <2>1, SaveLangGraphAttempts
       DEF EntryNode, RepairInv, RepairsAllowed, MayRepair
  <2>3. \A n \in Nodes : Position[n] \in 1..14
    BY DEF Nodes, Position
  <2>4. StepsCounted'
    BY <1>0, <2>1, <2>2, <2>3 DEF RepairInv, StepsCounted
  <2>5. RepairOnDisk' /\ RepairsAllowed' /\ ~Repairing /\ ~Repairing'
    BY <1>0, <2>1, <2>2 DEF RepairInv, RepairOnDisk, Repairing, RepairsAllowed, MayRepair
  <2>6. RepairsCounted'
    BY <1>0, <2>1, <2>2, <2>5 DEF RepairInv, RepairsCounted, Counted, AttemptsKept
  <2> QED
    BY <2>4, <2>5, <2>6 DEF RepairInv
<1>3. CASE Exit
  <2>1. /\ pc = "leave" /\ pc' = "idle" /\ steps' = 0 /\ mem' = Fresh /\ SaveLangGraph(mem)
        /\ UNCHANGED <<row, wf, repairs, reused, repairsRun, broken>>
    BY <1>3 DEF Exit, Forget, ghost
  <2>2. IF SaverAvailable
        THEN lg' \in State /\ lg'.attempts = mem.attempts /\ lg'.stage = mem.stage ELSE lg' = lg
    BY <1>0, <2>1, SaveLangGraphAttempts
  <2>3. StepsCounted' /\ RepairOnDisk' /\ RepairsAllowed' /\ ~Repairing /\ ~Repairing'
    BY <1>0, <1>f, <2>1, <2>2
       DEF RepairInv, StepsCounted, RepairOnDisk, Repairing, RepairsAllowed, MayRepair
  <2>4. ~broken => row # "none" /\ Counted(mem) /\ (SaverAvailable \/ wf.attempts = mem.attempts)
    BY <2>1, <2>3 DEF RepairInv, RepairsCounted, AttemptsKept
  <2>5. ~broken => Remembered' # NoState /\ Remembered'.attempts = mem.attempts
    BY <1>0, <2>1, <2>2, <2>4 DEF Remembered, RepairInv, TypeInv, RowIsSaved
  <2>6. ~broken => Counted(Remembered)'
    BY <2>1, <2>4, <2>5 DEF Counted
  <2>7. RepairsCounted'
    BY <1>0, <2>1, <2>3, <2>4, <2>5, <2>6 DEF RepairsCounted, AttemptsKept
  <2> QED
    BY <2>3, <2>7 DEF RepairInv
<1>4. CASE ExceedRecursion
  <2>1. pc' = "idle" /\ steps' = 0 /\ mem' = Fresh /\ broken' = TRUE /\ UNCHANGED <<wf, lg>>
    BY <1>4 DEF ExceedRecursion, Forget, saved
  <2> QED
    BY <1>0, <1>f, <2>1
       DEF RepairInv, StepsCounted, RepairOnDisk, Repairing, RepairsAllowed, MayRepair, RepairsCounted
<1> QED
  BY <1>1, <1>2, <1>3, <1>4

(* A run or a resume starts a process, a crash ends one.                    *)
LEMMA StartKeepsCount ==
    ASSUME RepairInv, TypeInv', Run \/ DryRun \/ Resume \/ Crash \/ LockExpires
    PROVE  RepairInv'
<1>0. /\ MaxRepairs \in Nat /\ NoState \notin State
      /\ "idle" \notin Nodes /\ "start" \notin Nodes /\ "finish" \notin Nodes
      /\ "repair_failure" \in Nodes
  BY CountAssumption, NoStateAssumption DEF Nodes
<1>f. Fresh \in State /\ Fresh.attempts = 0 /\ MayRepair(Fresh)
  BY FreshType DEF Fresh, MayRepair
<1>1. CASE Run \/ DryRun
  <2>1. /\ pc = "idle" /\ row = "none" /\ pc' \in {"start", "finish"}
        /\ UNCHANGED <<steps, wf, lg, repairs, reused, repairsRun, broken>>
    BY <1>1 DEF Run, DryRun, saved, session, ghost
  <2>2. mem'.attempts = 0 /\ MayRepair(mem')
    BY <1>1, <1>f DEF Run, DryRun, State, MayRepair
  <2>3. StepsCounted' /\ RepairOnDisk' /\ RepairsAllowed' /\ ~Repairing'
    BY <1>0, <2>1, <2>2 DEF RepairInv, StepsCounted, RepairOnDisk, Repairing, RepairsAllowed, MayRepair
  <2>4. RepairsCounted'
    BY <1>0, <2>1, <2>2, <2>3 DEF RepairInv, RepairsCounted, Counted, AttemptsKept
  <2> QED
    BY <2>3, <2>4 DEF RepairInv
<1>2. CASE Resume
  <2>1. /\ pc = "idle" /\ row # "none" /\ pc' \in {"start", "finish"} /\ Remembered # NoState
        /\ UNCHANGED <<steps, row, wf, lg, repairs, reused, repairsRun, broken>>
    BY <1>2 DEF Resume, saved, ghost
  <2>2. Remembered \in State /\ MayRepair(Remembered)
    BY <2>1, RememberedType DEF RepairInv, TypeInv, RepairsAllowed, Remembered
  <2>3. mem' \in {Remembered, [Remembered EXCEPT !.status = "human_required",
                                                 !.stage = "human_required"],
                  [Remembered EXCEPT !.stage = "collect_goal"]}
    BY <1>2 DEF Resume
  <2>4. mem'.attempts = Remembered.attempts /\ MayRepair(mem')
    BY <2>2, <2>3 DEF State, MayRepair
  <2>5. StepsCounted' /\ RepairOnDisk' /\ RepairsAllowed' /\ ~Repairing'
    BY <1>0, <2>1, <2>4 DEF RepairInv, StepsCounted, RepairOnDisk, Repairing, RepairsAllowed, MayRepair
  <2>6. RepairsCounted'
    BY <1>0, <2>1, <2>4, <2>5 DEF RepairInv, RepairsCounted, Counted, AttemptsKept
  <2> QED
    BY <2>5, <2>6 DEF RepairInv
<1>3. CASE Crash
  <2>1. pc' = "idle" /\ steps' = 0 /\ mem' = Fresh /\ broken' = TRUE /\ UNCHANGED <<wf, lg>>
    BY <1>3 DEF Crash, Forget, saved
  <2> QED
    BY <1>0, <1>f, <2>1
       DEF RepairInv, StepsCounted, RepairOnDisk, Repairing, RepairsAllowed, MayRepair, RepairsCounted
<1>4. CASE LockExpires
  <2>1. UNCHANGED <<control, mem, row, wf, lg, repairs, reused, repairsRun, broken>>
    BY <1>4 DEF LockExpires, saved, ghost
  <2> QED
    BY <2>1 DEF RepairInv, StepsCounted, NoneToMake, ReuseRepair, RepairOnDisk, Repairing,
                RepairsAllowed, MayRepair, RepairsCounted, Counted, AttemptsKept, Remembered, control
<1> QED
  BY <1>1, <1>2, <1>3, <1>4

LEMMA ApproveKeepsCount ==
    ASSUME RepairInv, TypeInv', Approve
    PROVE  RepairInv'
<1>0. /\ NoState \notin State /\ TypeOK /\ row = "human_required"
      /\ Remembered \in State /\ wf # NoState
  <2>1. row = "human_required"
    BY DEF Approve, ApproveSpec, ApprovePlan, ApproveRun, MayApprove
  <2>2. wf # NoState /\ TypeOK
    BY <2>1 DEF RepairInv, TypeInv, RowIsSaved
  <2> QED
    BY <2>1, <2>2, RememberedType, NoStateAssumption DEF Remembered
<1>1. UNCHANGED <<control, mem, repairs, reused, repairsRun, broken>> /\ row' # "none"
  BY DEF Approve, ApproveSpec, ApprovePlan, ApproveRun, session, ghost
<1>2. StepsCounted' /\ RepairOnDisk' /\ Repairing' = Repairing
  BY <1>1 DEF RepairInv, StepsCounted, NoneToMake, ReuseRepair, RepairOnDisk, Repairing, control
<1>3. CASE ApproveSpec \/ ApprovePlan
  <2>1. PICK stage \in {"create_execution_plan", "validate_execution_plan"}, a \in {"spec", "plan"} :
            wf' = ResumeAt(stage, a) /\ SaveLangGraph(ResumeAt(stage, a))
    BY <1>3 DEF ApproveSpec, ApprovePlan
  <2>2. /\ ResumeAt(stage, a) \in State /\ ResumeAt(stage, a).attempts = Remembered.attempts
        /\ ResumeAt(stage, a).stage = stage
    <3>1. ResumeAt(stage, a) \in State
      BY <1>0, NamesKnown, HaltedNotedType DEF ResumeAt, Stages, Nodes, Statuses
    <3> QED
      BY <1>0, <3>1 DEF ResumeAt, State
  <2>3. IF SaverAvailable
        THEN lg' \in State /\ lg'.attempts = Remembered.attempts /\ lg'.stage = stage
        ELSE lg' = lg
    BY <1>0, <2>1, <2>2, SaveLangGraphAttempts
  <2>4. RepairsAllowed'
    BY <1>1, <2>1, <2>2, <2>3 DEF RepairInv, RepairsAllowed, MayRepair, control
  <2>5. Remembered' # NoState /\ Remembered'.attempts = Remembered.attempts
    BY <1>0, <2>1, <2>2, <2>3 DEF Remembered
  <2>6. ~SaverAvailable => wf'.attempts = wf.attempts
    BY <2>1, <2>2 DEF Remembered
  <2>7. Counted(mem)' <=> Counted(mem)
    BY <1>1 DEF Counted
  <2>8. Counted(Remembered)' <=> Counted(Remembered)
    BY <1>1, <2>5 DEF Counted
  <2>9. RepairsCounted'
    BY <1>0, <1>1, <1>2, <2>5, <2>6, <2>7, <2>8 DEF RepairInv, RepairsCounted, AttemptsKept, control
  <2> QED
    BY <1>2, <2>4, <2>9 DEF RepairInv
<1>4. CASE ApproveRun
  <2>1. UNCHANGED <<wf, lg>>
    BY <1>4 DEF ApproveRun
  <2> QED
    BY <1>0, <1>1, <1>2, <2>1 DEF RepairInv, RepairsAllowed, MayRepair, RepairsCounted, Counted,
                                  AttemptsKept, Remembered, control
<1> QED
  BY <1>3, <1>4 DEF Approve

LEMMA InitRepair == Init => RepairInv
<1> SUFFICES ASSUME Init PROVE RepairInv
  OBVIOUS
<1>1. TypeInv
  BY InitTypes
<1>2. Fresh.attempts = 0 /\ Fresh.stage = "collect_goal"
  BY DEF Fresh
<1> QED
  BY <1>1, <1>2 DEF Init, RepairInv, StepsCounted, RepairOnDisk, Repairing, RepairsAllowed,
                    MayRepair, RepairsCounted, AttemptsKept, Nodes

LEMMA NextRepair ==
    ASSUME RepairInv, [Next]_vars
    PROVE  RepairInv'
<1>0. TypeInv'
  BY NextTypes DEF RepairInv
<1>1. CASE Process
  BY <1>0, <1>1, AroundKeepsCount, GraphForward, ForwardKeepsCount, RepairKeepsCount
     DEF Process, RepairInv
<1>2. CASE Run \/ DryRun \/ Resume \/ Crash \/ LockExpires
  BY <1>0, <1>2, StartKeepsCount
<1>3. CASE Approve
  BY <1>0, <1>3, ApproveKeepsCount
<1>4. CASE UNCHANGED vars
  BY <1>0, <1>4 DEF RepairInv, StepsCounted, NoneToMake, ReuseRepair, RepairOnDisk, Repairing,
     RepairsAllowed, MayRepair, RepairsCounted, Counted, AttemptsKept, Remembered, vars, control,
     saved, session, ghost
<1> QED
  BY <1>1, <1>2, <1>3, <1>4 DEF Next

LEMMA RepairInvariant == Spec => []RepairInv
BY InitRepair, NextRepair, PTL DEF Spec

(* An uninterrupted run starts no more repair workers than                  *)
(* workflow.max_repair_attempts allows, whatever the gates, the evaluations *)
(* and the reviews say and however often the run is resumed and approved.   *)
THEOREM RepairsAreBounded == Spec => []RepairsBounded
<1>1. RepairInv => RepairsBounded
  BY CountAssumption
     DEF RepairInv, TypeInv, TypeOK, RepairsCounted, RepairsAllowed, Counted, AttemptsKept,
         RepairsBounded, Repairing
<1> QED
  BY <1>1, RepairInvariant, PTL

(* LangGraph stops an invocation after 25 nodes unless it is told           *)
(* otherwise.  With a limit of 18 at least, nothing but a repair that was   *)
(* taken for the one to make leads there.                                   *)
THEOREM LoopsNeedReuse ==
    ASSUME RecursionLimit >= 18
    PROVE  Spec => []LoopsOnlyByReuse
<1>1. RepairInv => LoopsOnlyByReuse
  BY CountAssumption DEF RepairInv, TypeInv, TypeOK, StepsCounted, LoopsOnlyByReuse
<1> QED
  BY <1>1, RepairInvariant, PTL
=============================================================================
