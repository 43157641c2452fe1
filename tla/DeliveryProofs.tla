--------------------------- MODULE DeliveryProofs ---------------------------
(***************************************************************************)
(* A run finds what its nodes read, ends with a decision, is offered for   *)
(* review only when it earned it and as it was checked, and keeps the      *)
(* promises of Lifecycle.                                                  *)
(*                                                                         *)
(* None of these is inductive by itself: a resume may enter the graph at   *)
(* the stage of any checkpoint, so what a node relies on must hold         *)
(* wherever a state that names the node is kept (DeliveryInv).  A ready    *)
(* bundle must not meet a process that evaluates again what the bundle     *)
(* was made from, which a repair that a checkpoint remembers would allow   *)
(* (EarnedInv).  And a run that was never broken off is worked on once,    *)
(* from its first task to its bundle, by one process (FreshInv).           *)
(***************************************************************************)
EXTENDS WorkflowLifecycle, ApprovalProofs, CheckpointProofs

(* Before the tasks are dispatched; from there to the bundle; after it all *)
(* tasks are through.                                                      *)
Early == {"collect_goal", "inspect_repository", "draft_spec", "validate_spec",
          "create_verification_plan", "create_execution_plan", "validate_execution_plan"}
Late == {"materialize_tasks", "dispatch_tasks", "integrate_changes", "run_quality_gates",
         "repair_failure", "evaluate_goal_satisfaction", "run_independent_review"}
Worked == {"integrate_changes", "run_quality_gates", "repair_failure",
           "evaluate_goal_satisfaction", "run_independent_review", "prepare_evidence"}

(* What is on disk when a node is entered, with everything that was needed *)
(* to make it (MadeInOrder).                                               *)
Behind ==
    [collect_goal |-> {}, inspect_repository |-> {"goal"}, draft_spec |-> {"snapshot"},
     validate_spec |-> {"spec"}, create_verification_plan |-> {"spec"},
     create_execution_plan |-> {"spec"}, validate_execution_plan |-> {"spec"},
     materialize_tasks |-> {"plan"}, dispatch_tasks |-> {"plan"}, integrate_changes |-> {"plan"},
     run_quality_gates |-> {"integration"}, repair_failure |-> {"integration", "gate"},
     evaluate_goal_satisfaction |-> {"integration", "gate"},
     run_independent_review |-> {"integration", "gate", "sat"},
     prepare_evidence |-> {"integration", "gate", "sat", "review"}]

Ordered(artifacts) ==
    /\ "snapshot" \in artifacts => "goal" \in artifacts
    /\ "spec" \in artifacts => "snapshot" \in artifacts
    /\ "vplan" \in artifacts => "spec" \in artifacts
    /\ "plan" \in artifacts => "vplan" \in artifacts
    /\ "integration" \in artifacts => "plan" \in artifacts

MadeInOrder == Ordered(files)

(* What a node relies on when it is executed with the state s.             *)
Stands(node, s, artifacts) ==
    /\ Behind[node] \subseteq artifacts
    /\ node = "validate_execution_plan" => s.status = "human_required" \/ "plan" \in artifacts
    /\ node \in Early => s.status # "ready_for_human_review"
    /\ node \in Late => s.status = "running"
    /\ node = "prepare_evidence" => s.status = "running" \/ "evidence" \in artifacts
    /\ node \in Worked => s.done = Tasks

(* A state that is kept somewhere may enter the graph at its stage.        *)
MayEnter(s, artifacts) ==
    /\ s.stage \in Nodes => Stands(s.stage, s, artifacts)
    /\ s.stage = "human_required" => s.status = "human_required"
    /\ s.stage = "prepare_evidence" => "evidence" \in artifacts
    /\ s.status = "ready_for_human_review" => s.stage = "prepare_evidence" /\ s.arts # {}

StatesMayEnter ==
    /\ MayEnter(mem, files)
    /\ wf # NoState => MayEnter(wf, files)
    /\ lg # NoState => MayEnter(lg, files)

PlaceStands == pc \in Nodes => Stands(pc, mem, files)

(* The process knows which tasks of a sequential plan are through.         *)
DoneIsKnown ==
    pc = "dispatch_tasks" /\ phase = "dispatching" /\ Sequential =>
        \A t \in Tasks : work[t] \in {"skipped", "done"} => t \in mem.done

DeliveryInv ==
    OnDiskInv /\ MadeInOrder /\ StatesMayEnter /\ PlaceStands /\ DoneIsKnown /\ EndsDecided

-----------------------------------------------------------------------------
(* Lemmas about entering a node.                                           *)

(* Stands, node by node.                                                   *)
LEMMA StandsKnown ==
    ASSUME NEW s, NEW a
    PROVE  /\ Stands("collect_goal", s, a) <=> s.status # "ready_for_human_review"
           /\ Stands("inspect_repository", s, a) <=>
                 "goal" \in a /\ s.status # "ready_for_human_review"
           /\ Stands("draft_spec", s, a) <=>
                 "snapshot" \in a /\ s.status # "ready_for_human_review"
           /\ \A node \in {"validate_spec", "create_verification_plan", "create_execution_plan"} :
                 Stands(node, s, a) <=> "spec" \in a /\ s.status # "ready_for_human_review"
           /\ Stands("validate_execution_plan", s, a) <=>
                 /\ "spec" \in a /\ s.status # "ready_for_human_review"
                 /\ s.status = "human_required" \/ "plan" \in a
           /\ \A node \in {"materialize_tasks", "dispatch_tasks"} :
                 Stands(node, s, a) <=> "plan" \in a /\ s.status = "running"
           /\ Stands("integrate_changes", s, a) <=>
                 "plan" \in a /\ s.status = "running" /\ s.done = Tasks
           /\ Stands("run_quality_gates", s, a) <=>
                 "integration" \in a /\ s.status = "running" /\ s.done = Tasks
           /\ \A node \in {"repair_failure", "evaluate_goal_satisfaction"} :
                 Stands(node, s, a) <=>
                    {"integration", "gate"} \subseteq a /\ s.status = "running" /\ s.done = Tasks
           /\ Stands("run_independent_review", s, a) <=>
                 /\ {"integration", "gate", "sat"} \subseteq a
                 /\ s.status = "running" /\ s.done = Tasks
           /\ Stands("prepare_evidence", s, a) <=>
                 /\ {"integration", "gate", "sat", "review"} \subseteq a
                 /\ s.status = "running" \/ "evidence" \in a
                 /\ s.done = Tasks
BY DEF Stands, Behind, Early, Late, Worked

LEMMA StandsMonotone ==
    ASSUME NEW s, NEW a, NEW b, a \subseteq b, NEW node, Stands(node, s, a)
    PROVE  Stands(node, s, b)
BY DEF Stands

LEMMA EnterMonotone ==
    ASSUME NEW s, NEW a, NEW b, a \subseteq b, MayEnter(s, a)
    PROVE  MayEnter(s, b)
BY StandsMonotone DEF MayEnter

(* More work may be recorded in a state, and more artifacts.               *)
LEMMA StandsAlike ==
    ASSUME NEW s \in State, NEW r \in State, NEW a, NEW node, Stands(node, r, a),
           s.status = r.status, r.done \subseteq s.done
    PROVE  Stands(node, s, a)
BY DEF Stands, State

LEMMA EnterAlike ==
    ASSUME NEW s \in State, NEW r \in State, NEW a, MayEnter(r, a),
           s.status = r.status, s.stage = r.stage, r.done \subseteq s.done, r.arts \subseteq s.arts
    PROVE  MayEnter(s, a)
BY StandsAlike DEF MayEnter

LEMMA EnterNode ==
    ASSUME NEW s, NEW a, s.stage \in Nodes \ {"prepare_evidence"}, Stands(s.stage, s, a)
    PROVE  MayEnter(s, a)
BY DEF MayEnter, Stands, Early, Late, Nodes

LEMMA EnterHalted ==
    ASSUME NEW s, NEW a, s.stage = "human_required", s.status = "human_required"
    PROVE  MayEnter(s, a)
BY DEF MayEnter, Nodes

LEMMA FreshEnters == \A a : MayEnter(Fresh, a)
BY EnterNode, StandsKnown DEF Fresh, Nodes

(* What the states that are kept say as more is written.                   *)
LEMMA SavedEnter ==
    ASSUME StatesMayEnter, files \subseteq files', MayEnter(mem, files)',
           wf' \in {wf, mem'}, lg' = lg
    PROVE  StatesMayEnter'
BY EnterMonotone DEF StatesMayEnter

(* A write in the middle of a node.                                        *)
LEMMA MidwayDelivery ==
    ASSUME DeliveryInv, OnDiskInv', MadeInOrder', files \subseteq files',
           UNCHANGED <<pc, mem, wf, lg>>, pc # "dispatch_tasks"
    PROVE  DeliveryInv'
<1>1. StatesMayEnter' /\ PlaceStands'
  BY EnterMonotone, StandsMonotone DEF DeliveryInv, StatesMayEnter, PlaceStands
<1> QED
  BY <1>1 DEF DeliveryInv, DoneIsKnown, EndsDecided

(* The process goes on with a state that it may have saved.                *)
LEMMA MoveDelivery ==
    ASSUME DeliveryInv, OnDiskInv', UNCHANGED <<files, lg>>, wf' \in {wf, mem'},
           MayEnter(mem', files), pc' \in Nodes => Stands(pc', mem', files),
           pc' = "dispatch_tasks" => phase' = "begin",
           pc' \in {"finish", "leave"} => mem'.status # "running"
    PROVE  DeliveryInv'
<1>1. StatesMayEnter'
  BY SavedEnter DEF DeliveryInv
<1>2. MadeInOrder' /\ PlaceStands' /\ DoneIsKnown' /\ EndsDecided'
  BY DEF DeliveryInv, MadeInOrder, PlaceStands, DoneIsKnown, EndsDecided
<1> QED
  BY <1>1, <1>2 DEF DeliveryInv

LEMMA LeaveDelivery ==
    ASSUME DeliveryInv, OnDiskInv', NEW s, NEW next, Leave(s, next), MayEnter(s, files),
           next \in Nodes => Stands(next, s, files),
           next = "finish" => s.status # "running", next # "leave"
    PROVE  DeliveryInv'
BY MoveDelivery DEF Leave, Save, Goto

(* What a node is entered with.                                            *)
LEMMA AtNode ==
    ASSUME DeliveryInv, pc \in Nodes
    PROVE  /\ Stands(pc, mem, files) /\ MayEnter(mem, files) /\ Ordered(files)
           /\ mem \in State /\ mem.done \subseteq Tasks
BY DEF DeliveryInv, PlaceStands, StatesMayEnter, MadeInOrder, OnDiskInv, TypeInv, TypeOK, State

-----------------------------------------------------------------------------
(* The steps of the graph.                                                 *)

LEMMA ProducersDelivery ==
    ASSUME DeliveryInv, OnDiskInv',
           CollectGoal \/ InspectRepository \/ CreateVerificationPlan \/ IntegrateChanges
    PROVE  DeliveryInv'
<1>0. pc \in {"collect_goal", "inspect_repository", "create_verification_plan", "integrate_changes"}
  BY DEF CollectGoal, InspectRepository, CreateVerificationPlan, IntegrateChanges, Produce, Record, At
<1>a. Stands(pc, mem, files) /\ Ordered(files) /\ mem \in State /\ TypeInv
  BY <1>0, AtNode DEF Nodes, DeliveryInv, OnDiskInv
<1>1. ASSUME NEW a \in Names, Produce(pc, a), Ordered(files \cup {a})
      PROVE  DeliveryInv'
  <2>1. files' = files \cup {a} /\ UNCHANGED <<pc, mem, wf, lg>>
    BY <1>1 DEF Produce, Write, control, saved
  <2> QED
    BY <1>0, <1>1, <2>1, MidwayDelivery DEF MadeInOrder
<1>2. ASSUME NEW a, NEW stage \in Nodes \ {"prepare_evidence"}, NEW next \in Nodes,
             Record(pc, a, stage, next),
             \A s : s.status = mem.status /\ s.done = mem.done =>
                Stands(stage, s, files) /\ Stands(next, s, files)
      PROVE  DeliveryInv'
  <2> DEFINE s == [mem EXCEPT !.stage = stage, !.arts = @ \cup {a}]
  <2>1. s.status = mem.status /\ s.done = mem.done /\ s.stage = stage
    BY <1>a DEF State
  <2>2. Leave(s, next)
    BY <1>2 DEF Record
  <2> HIDE DEF s
  <2>3. MayEnter(s, files)
    BY <1>2, <2>1, EnterNode
  <2> QED
    BY <1>2, <2>1, <2>2, <2>3, LeaveDelivery DEF Nodes
<1>3. CASE CollectGoal
  <2>1. pc = "collect_goal" /\ mem.status # "ready_for_human_review"
    BY <1>a, <1>3, StandsKnown DEF CollectGoal, Produce, Record, At
  <2>2. Ordered(files \cup {"goal"})
    BY <1>a DEF Ordered
  <2>3. "goal" \in files => \A s : s.status = mem.status => Stands("inspect_repository", s, files)
    BY <2>1, StandsKnown
  <2> QED
    BY <1>1, <1>2, <1>3, <2>1, <2>2, <2>3, NamesKnown DEF CollectGoal, Record, Nodes
<1>4. CASE InspectRepository
  <2>1. pc = "inspect_repository" /\ mem.status # "ready_for_human_review" /\ "goal" \in files
    BY <1>a, <1>4, StandsKnown DEF InspectRepository, Produce, Record, At
  <2>2. Ordered(files \cup {"snapshot"})
    BY <1>a, <2>1 DEF Ordered
  <2>3. "snapshot" \in files => \A s : s.status = mem.status => Stands("draft_spec", s, files)
    BY <2>1, StandsKnown
  <2> QED
    BY <1>1, <1>2, <1>4, <2>1, <2>2, <2>3, NamesKnown DEF InspectRepository, Record, Nodes
<1>5. CASE CreateVerificationPlan
  <2>1. /\ pc = "create_verification_plan" /\ mem.status # "ready_for_human_review"
        /\ "spec" \in files
    BY <1>a, <1>5, StandsKnown DEF CreateVerificationPlan, Produce, Record, At
  <2>2. Ordered(files \cup {"vplan"})
    BY <1>a, <2>1 DEF Ordered
  <2>3. \A s : s.status = mem.status =>
           Stands("create_verification_plan", s, files) /\ Stands("create_execution_plan", s, files)
    BY <2>1, StandsKnown
  <2> QED
    BY <1>1, <1>2, <1>5, <2>1, <2>2, <2>3, NamesKnown DEF CreateVerificationPlan, Record, Nodes
<1>6. CASE IntegrateChanges
  <2>1. /\ pc = "integrate_changes" /\ mem.status = "running" /\ "plan" \in files
        /\ mem.done = Tasks
    BY <1>a, <1>6, StandsKnown DEF IntegrateChanges, Produce, Record, At
  <2>2. Ordered(files \cup {"integration"})
    BY <1>a, <2>1 DEF Ordered
  <2>3. "integration" \in files =>
           \A s : s.status = mem.status /\ s.done = mem.done => Stands("run_quality_gates", s, files)
    BY <2>1, StandsKnown
  <2> QED
    BY <1>1, <1>2, <1>6, <2>1, <2>2, <2>3, NamesKnown DEF IntegrateChanges, Record, Nodes
<1> QED
  BY <1>3, <1>4, <1>5, <1>6

LEMMA DraftSpecDelivery ==
    ASSUME DeliveryInv, OnDiskInv', DraftSpec
    PROVE  DeliveryInv'
<1>0. pc = "draft_spec"
  BY DEF DraftSpec, WriteSpec, ReuseSpec, StopForSpecApproval, AcceptSpec, At
<1>a. /\ mem.status # "ready_for_human_review" /\ "snapshot" \in files /\ Ordered(files)
      /\ mem \in State /\ MayEnter(mem, files)
  BY <1>0, AtNode, StandsKnown DEF Nodes
<1> DEFINE noted == [mem EXCEPT !.stage = "create_execution_plan", !.arts = @ \cup {"spec"}]
           halted == [mem EXCEPT !.status = "human_required", !.stage = "human_required",
                                 !.arts = @ \cup {"spec"}]
<1>b. /\ noted.status = mem.status /\ noted.stage = "create_execution_plan"
      /\ halted.status = "human_required" /\ halted.stage = "human_required"
  BY <1>a DEF State
<1> HIDE DEF noted, halted
<1>c. "spec" \in files =>
         /\ MayEnter(noted, files) /\ MayEnter(halted, files)
         /\ Stands("validate_spec", noted, files) /\ Stands("validate_spec", halted, files)
  BY <1>a, <1>b, EnterNode, EnterHalted, StandsKnown DEF Nodes
<1>1. CASE WriteSpec
  <2>1. files' = files \cup {"spec"} /\ UNCHANGED <<pc, mem, wf, lg>>
    BY <1>1 DEF WriteSpec, Write, Stay, saved
  <2>2. MadeInOrder'
    BY <1>a, <2>1 DEF MadeInOrder, Ordered
  <2> QED
    BY <1>0, <2>1, <2>2, MidwayDelivery
<1>2. CASE ReuseSpec
  <2>1. "spec" \in files /\ wf' = noted /\ UNCHANGED <<pc, mem, lg, files>>
    BY <1>2 DEF ReuseSpec, Save, Stay, noted
  <2>2. StatesMayEnter'
    BY <1>a, <1>c, <2>1 DEF DeliveryInv, StatesMayEnter
  <2> QED
    BY <1>0, <2>1, <2>2 DEF DeliveryInv, MadeInOrder, PlaceStands, DoneIsKnown, EndsDecided
<1>3. CASE StopForSpecApproval
  <2>1. "spec" \in files /\ Leave(halted, "validate_spec")
    BY <1>3 DEF StopForSpecApproval, At, DeliveryInv, OnDiskInv, WrittenOnDisk, halted
  <2> QED
    BY <1>c, <2>1, LeaveDelivery DEF Nodes
<1>4. CASE AcceptSpec
  <2>1. /\ "spec" \in files /\ mem' = noted /\ wf' \in {wf, mem'} /\ UNCHANGED <<files, lg>>
        /\ pc' = "validate_spec"
    BY <1>4 DEF AcceptSpec, At, DeliveryInv, OnDiskInv, WrittenOnDisk, Save, saved, Goto, noted
  <2> QED
    BY <1>c, <2>1, MoveDelivery
<1> QED
  BY <1>1, <1>2, <1>3, <1>4 DEF DraftSpec

LEMMA ValidateStageDelivery ==
    ASSUME DeliveryInv, OnDiskInv', ValidateSpec \/ ValidateExecutionPlan
    PROVE  DeliveryInv'
<1>0. pc \in {"validate_spec", "validate_execution_plan"}
  BY DEF ValidateSpec, ValidateExecutionPlan, ValidateStage, At
<1>a. Stands(pc, mem, files) /\ mem \in State
  BY <1>0, AtNode DEF Nodes
<1>1. mem' = [mem EXCEPT !.stage = pc] /\ UNCHANGED <<files, wf, lg>>
  BY DEF ValidateSpec, ValidateExecutionPlan, ValidateStage, At, saved
<1>2. mem'.stage = pc /\ mem'.status = mem.status /\ mem'.done = mem.done
  BY <1>a, <1>1 DEF State
<1>3. MayEnter(mem', files)
  BY <1>0, <1>a, <1>2, EnterNode, StandsKnown DEF Nodes
<1>4. \/ mem.status = "human_required" /\ pc' = "finish"
      \/ /\ mem.status # "human_required" /\ pc = "validate_spec"
         /\ pc' = "create_verification_plan"
      \/ /\ mem.status # "human_required" /\ pc = "validate_execution_plan"
         /\ pc' = "materialize_tasks"
  BY DEF ValidateSpec, ValidateExecutionPlan, ValidateStage, At, Goto, RouteAfterStop
<1>5. mem.status \in Statuses
  BY <1>a DEF State
<1>6. pc' \in Nodes => Stands(pc', mem', files)
  BY <1>a, <1>2, <1>4, <1>5, StandsKnown DEF Nodes, Statuses
<1> QED
  BY <1>1, <1>2, <1>3, <1>4, <1>6, MoveDelivery

LEMMA CreateExecutionPlanDelivery ==
    ASSUME DeliveryInv, OnDiskInv', CreateExecutionPlan
    PROVE  DeliveryInv'
<1>0. pc = "create_execution_plan"
  BY DEF CreateExecutionPlan, WriteMissingVerificationPlan, WritePlan, DecidePlan, At
<1>a. /\ mem.status # "ready_for_human_review" /\ "spec" \in files /\ Ordered(files)
      /\ mem \in State /\ MayEnter(mem, files)
  BY <1>0, AtNode, StandsKnown DEF Nodes
<1>1. CASE WriteMissingVerificationPlan
  <2>1. files' = files \cup {"vplan"} /\ UNCHANGED <<pc, mem, wf, lg>>
    BY <1>1 DEF WriteMissingVerificationPlan, Write, Stay, saved
  <2>2. MadeInOrder'
    BY <1>a, <2>1 DEF MadeInOrder, Ordered
  <2> QED
    BY <1>0, <2>1, <2>2, MidwayDelivery
<1>2. CASE WritePlan
  <2>1. "vplan" \in files /\ files' = files \cup {"plan"} /\ UNCHANGED <<pc, mem, wf, lg>>
    BY <1>2 DEF WritePlan, Write, control, saved
  <2>2. MadeInOrder'
    BY <1>a, <2>1 DEF MadeInOrder, Ordered
  <2> QED
    BY <1>0, <2>1, <2>2, MidwayDelivery
<1>3. CASE DecidePlan
  <2> DEFINE halted == [mem EXCEPT !.status = "human_required", !.stage = "human_required",
                                   !.arts = @ \cup {"plan"}]
             noted == [mem EXCEPT !.stage = "create_execution_plan", !.arts = @ \cup {"plan"}]
             s == IF mem.status = "human_required" THEN mem
                  ELSE IF PlanBlocked THEN halted ELSE noted
             withPlan == [s EXCEPT !.arts = @ \cup {"vplan"}]
  <2>1. /\ noted.status = mem.status /\ noted.stage = "create_execution_plan"
        /\ halted.status = "human_required" /\ halted.stage = "human_required"
        /\ "arts" \in DOMAIN noted /\ "arts" \in DOMAIN halted /\ "arts" \in DOMAIN mem
    BY <1>a DEF State
  <2>2. /\ mem' = s /\ UNCHANGED <<files, lg>> /\ wf' \in {withPlan, s}
        /\ pc' = "validate_execution_plan" /\ phase' = "begin"
        /\ mem.status = "human_required" \/ "plan" \in files
    BY <1>3 DEF DecidePlan, Save, Goto
  <2> HIDE DEF noted, halted
  <2>3. /\ MayEnter(s, files) /\ s.status # "ready_for_human_review"
        /\ s.status = "human_required" \/ "plan" \in files
    BY <1>a, <2>1, <2>2, EnterNode, EnterHalted, StandsKnown DEF Nodes
  <2>4. mem' \in State
    BY DEF OnDiskInv, TypeInv, TypeOK
  <2> HIDE DEF s
  <2>5. MayEnter(withPlan, files)
    <3>1. /\ withPlan.status = s.status /\ withPlan.stage = s.stage /\ withPlan.done = s.done
          /\ withPlan.arts = s.arts \cup {"vplan"} /\ withPlan \in State
      BY <2>2, <2>4, NamesKnown DEF State
    <3> QED
      BY <2>2, <2>3, <2>4, <3>1, EnterAlike
  <2>6. StatesMayEnter'
    BY <2>2, <2>3, <2>5 DEF DeliveryInv, StatesMayEnter
  <2>7. PlaceStands'
    BY <1>a, <2>2, <2>3, StandsKnown DEF PlaceStands
  <2> QED
    BY <2>2, <2>6, <2>7 DEF DeliveryInv, MadeInOrder, DoneIsKnown, EndsDecided
<1> QED
  BY <1>1, <1>2, <1>3 DEF CreateExecutionPlan

LEMMA MaterializeTasksDelivery ==
    ASSUME DeliveryInv, OnDiskInv', MaterializeTasks
    PROVE  DeliveryInv'
<1> DEFINE s == [mem EXCEPT !.stage = "materialize_tasks"]
<1>1. /\ pc = "materialize_tasks" /\ Leave(s, "dispatch_tasks")
      /\ "plan" \in files /\ mem.status = "running" /\ mem \in State
  BY AtNode, StandsKnown DEF MaterializeTasks, At, Nodes
<1>2. s.status = "running" /\ s.stage = "materialize_tasks"
  BY <1>1 DEF State
<1> HIDE DEF s
<1> QED
  BY <1>1, <1>2, EnterNode, StandsKnown, LeaveDelivery DEF Nodes

LEMMA DispatchTaskDelivery ==
    ASSUME DeliveryInv, OnDiskInv', NEW t \in Tasks, DispatchTask(t)
    PROVE  DeliveryInv'
<1>0. pc = "dispatch_tasks" /\ phase = "dispatching"
  BY DEF DispatchTask, WriteTask, WriteWorkerRequest, RunWorker, WriteWorkerResult,
         RecordDispatch, RecordCompletion, ApplyPatch, Dispatching, At
<1>a. /\ Stands(pc, mem, files) /\ MayEnter(mem, files) /\ mem \in State
      /\ work \in [Tasks -> Work]
  BY <1>0, AtNode DEF Nodes, DeliveryInv, OnDiskInv, TypeInv, TypeOK
<1>1. /\ UNCHANGED <<pc, phase, files, lg>> /\ wf' \in {wf, mem'} /\ mem' \in State
      /\ mem'.status = mem.status /\ mem'.stage = mem.stage
      /\ mem.done \subseteq mem'.done /\ mem.arts = mem'.arts
  <2>1. CASE RecordDispatch(t)
    BY <1>a, <2>1 DEF RecordDispatch, control, Save, State
  <2>2. CASE RecordCompletion(t)
    BY <1>a, <2>2 DEF RecordCompletion, control, Save, State
  <2> QED
    BY <1>a, <2>1, <2>2
       DEF DispatchTask, WriteTask, WriteWorkerRequest, RunWorker, WriteWorkerResult, ApplyPatch,
           control, saved
<1>2. DoneIsKnown'
  <2>1. CASE ApplyPatch(t)
    BY <2>1 DEF ApplyPatch, DoneIsKnown, Sequential
  <2>2. CASE RecordCompletion(t)
    <3>1. /\ mem' = [mem EXCEPT !.done = @ \cup {t}] /\ work' = [work EXCEPT ![t] = "done"]
          /\ UNCHANGED doc
      BY <2>2 DEF RecordCompletion
    <3>2. mem'.done = mem.done \cup {t}
      BY <1>a, <3>1 DEF State
    <3> QED
      BY <1>0, <1>a, <3>1, <3>2 DEF DeliveryInv, DoneIsKnown, Sequential
  <2>3. CASE \/ WriteTask(t) \/ WriteWorkerRequest(t) \/ RunWorker(t) \/ WriteWorkerResult(t)
             \/ RecordDispatch(t)
    <3>1. UNCHANGED doc /\ \E w \in {"task", "request", "ran", "result", "recorded"} :
                              work' = [work EXCEPT ![t] = w]
      BY <2>3 DEF WriteTask, WriteWorkerRequest, RunWorker, WriteWorkerResult, RecordDispatch
    <3> QED
      BY <1>0, <1>a, <1>1, <3>1 DEF DeliveryInv, DoneIsKnown, Sequential
  <2> QED
    BY <2>1, <2>2, <2>3 DEF DispatchTask
<1>3. MayEnter(mem', files)
  BY <1>a, <1>1, EnterAlike
<1>4. Stands(pc', mem', files)
  BY <1>a, <1>1, StandsAlike
<1>5. StatesMayEnter'
  BY <1>1, <1>3, SavedEnter DEF DeliveryInv
<1> QED
  BY <1>0, <1>1, <1>2, <1>4, <1>5 DEF DeliveryInv, MadeInOrder, PlaceStands, EndsDecided

LEMMA DispatchTasksDelivery ==
    ASSUME DeliveryInv, OnDiskInv', DispatchTasks
    PROVE  DeliveryInv'
<1>1. CASE \E t \in Tasks : DispatchTask(t)
  BY <1>1, DispatchTaskDelivery
<1>2. CASE BeginDispatch \/ StopDispatch \/ FinishDispatch
  <2>0. pc = "dispatch_tasks"
    BY <1>2 DEF BeginDispatch, StopDispatch, FinishDispatch, Dispatching, At
  <2>a. /\ "plan" \in files /\ mem.status = "running" /\ MayEnter(mem, files)
        /\ mem \in State /\ mem.done \subseteq Tasks
    BY <2>0, AtNode, StandsKnown DEF Nodes
  <2>1. CASE BeginDispatch
    <3>1. /\ mem' = [mem EXCEPT !.stage = "dispatch_tasks"] /\ UNCHANGED <<pc, files, wf, lg, doc>>
          /\ Sequential => \A t \in Tasks : work'[t] = "skipped" <=> t \in mem.done
          /\ \A t \in Tasks : work'[t] # "done"
      BY <2>1 DEF BeginDispatch, Stay, saved
    <3>2. /\ mem'.status = "running" /\ mem'.stage = "dispatch_tasks" /\ mem'.done = mem.done
      BY <2>a, <3>1 DEF State
    <3>3. MayEnter(mem', files) /\ Stands("dispatch_tasks", mem', files)
      BY <2>a, <3>2, EnterNode, StandsKnown DEF Nodes
    <3>4. StatesMayEnter'
      BY <3>1, <3>3, SavedEnter DEF DeliveryInv
    <3>5. DoneIsKnown'
      BY <3>1, <3>2 DEF DoneIsKnown, Sequential
    <3> QED
      BY <2>0, <3>1, <3>3, <3>4, <3>5 DEF DeliveryInv, MadeInOrder, PlaceStands, EndsDecided
  <2>2. CASE StopDispatch
    <3> DEFINE s == [mem EXCEPT !.status = "human_required", !.stage = "human_required"]
    <3>1. /\ wf' = s /\ mem' = [s EXCEPT !.done = {t \in @ : work[t] = "skipped"}]
          /\ UNCHANGED <<files, lg>> /\ pc' = "finish"
      BY <2>2 DEF StopDispatch, Save, Goto
    <3>2. /\ s.status = "human_required" /\ s.stage = "human_required"
          /\ mem'.status = "human_required" /\ mem'.stage = "human_required"
      BY <2>a, <3>1 DEF State
    <3>3. MayEnter(wf', files) /\ MayEnter(mem', files)
      BY <3>1, <3>2, EnterHalted
    <3>4. StatesMayEnter'
      BY <3>1, <3>3 DEF DeliveryInv, StatesMayEnter
    <3> QED
      BY <3>1, <3>2, <3>4 DEF DeliveryInv, MadeInOrder, PlaceStands, DoneIsKnown, EndsDecided, Nodes
  <2>3. CASE FinishDispatch
    <3>1. PICK s : /\ s = IF Sequential THEN mem ELSE [mem EXCEPT !.workers = Tasks, !.done = Tasks]
                   /\ Leave(s, RouteAfterStop(s, "integrate_changes"))
      BY <2>3 DEF FinishDispatch
    <3>2. Sequential => mem.done = Tasks
      <4>1. phase = "dispatching" /\ \A t \in Tasks : work[t] \in {"skipped", "done"}
        BY <2>3 DEF FinishDispatch, Dispatching, At
      <4> QED
        BY <2>0, <2>a, <4>1 DEF DeliveryInv, DoneIsKnown
    <3>3. /\ s.status = mem.status /\ s.stage = mem.stage /\ s.arts = mem.arts /\ s.done = Tasks
          /\ s \in State
      BY <2>a, <3>1, <3>2 DEF State
    <3>4. MayEnter(s, files) /\ Stands("integrate_changes", s, files)
      BY <2>a, <3>3, EnterAlike, StandsKnown
    <3>5. RouteAfterStop(s, "integrate_changes") = "integrate_changes"
      BY <2>a, <3>3 DEF RouteAfterStop
    <3> QED
      BY <3>1, <3>4, <3>5, LeaveDelivery DEF Nodes
  <2> QED
    BY <1>2, <2>1, <2>2, <2>3
<1> QED
  BY <1>1, <1>2 DEF DispatchTasks

LEMMA RunQualityGatesDelivery ==
    ASSUME DeliveryInv, OnDiskInv', RunQualityGates
    PROVE  DeliveryInv'
<1>0. pc = "run_quality_gates"
  BY DEF RunQualityGates, RunGates, RequestToolCheck, RunToolCheck, DecideGates, At
<1>a. /\ "integration" \in files /\ mem.status = "running" /\ mem.done = Tasks
      /\ mem \in State /\ Ordered(files) /\ doc \in Document
  BY <1>0, AtNode, StandsKnown DEF Nodes, DeliveryInv, OnDiskInv, TypeInv, TypeOK
<1>1. CASE RunGates \/ RequestToolCheck \/ RunToolCheck
  <2>1. /\ \E a \in {"gate", "toolRequest", "tools"} : files' = files \cup {a}
        /\ UNCHANGED <<pc, mem, wf, lg>>
    BY <1>1 DEF RunGates, RequestToolCheck, RunToolCheck, Write, Stay, saved
  <2>2. MadeInOrder'
    BY <1>a, <2>1 DEF MadeInOrder, Ordered
  <2> QED
    BY <1>0, <2>1, <2>2, MidwayDelivery
<1>2. CASE DecideGates
  <2> DEFINE noted == [mem EXCEPT !.stage = "run_quality_gates", !.arts = @ \cup {"gate"},
                                  !.gatePassed = doc.gate]
             s == IF StopForGateFailure
                  THEN [noted EXCEPT !.status = "human_required", !.stage = "human_required"]
                  ELSE noted
  <2>1. "gate" \in files /\ Leave(s, RouteAfterGates(s))
    BY <1>2 DEF DecideGates, At, ReuseGateReport, DeliveryInv, OnDiskInv, WrittenOnDisk
  <2>2. /\ StopForGateFailure => s.status = "human_required" /\ s.stage = "human_required"
        /\ ~StopForGateFailure => s.status = "running" /\ s.stage = "run_quality_gates"
        /\ s.done = Tasks /\ s.gatePassed = doc.gate /\ s.attempts = mem.attempts
    BY <1>a DEF State
  <2>3. RouteAfterGates(s) \in
           IF StopForGateFailure THEN {"finish"} ELSE {"evaluate_goal_satisfaction", "repair_failure"}
    <3>1. s.attempts \in Nat /\ MaxRepairs \in Nat /\ doc.gate \in BOOLEAN
      BY <1>a, <2>2, CountAssumption DEF State, Document
    <3> HIDE DEF s
    <3> QED
      BY <2>2, <3>1 DEF RouteAfterGates, RouteAfterStop, StopForGateFailure
  <2> HIDE DEF s
  <2>4. MayEnter(s, files)
    BY <1>a, <2>2, EnterNode, EnterHalted, StandsKnown DEF Nodes
  <2>5. ~StopForGateFailure => Stands(RouteAfterGates(s), s, files)
    BY <1>a, <2>1, <2>2, <2>3, StandsKnown
  <2>6. StopForGateFailure => RouteAfterGates(s) \notin Nodes
    BY <2>3 DEF Nodes
  <2>7. RouteAfterGates(s) = "finish" => s.status # "running"
    BY <2>2, <2>3
  <2>8. RouteAfterGates(s) # "leave"
    BY <2>3
  <2> QED
    BY <2>1, <2>4, <2>5, <2>6, <2>7, <2>8, LeaveDelivery
<1> QED
  BY <1>1, <1>2 DEF RunQualityGates

LEMMA EvaluateSatisfactionDelivery ==
    ASSUME DeliveryInv, OnDiskInv', EvaluateSatisfaction
    PROVE  DeliveryInv'
<1>0. pc = "evaluate_goal_satisfaction"
  BY DEF EvaluateSatisfaction, EvaluateGoalSatisfaction, DecideSatisfaction, At
<1>a. /\ {"integration", "gate"} \subseteq files /\ mem.status = "running" /\ mem.done = Tasks
      /\ mem \in State /\ Ordered(files)
  BY <1>0, AtNode, StandsKnown DEF Nodes
<1>1. CASE EvaluateGoalSatisfaction
  <2>1. files' = files \cup {"sat"} /\ UNCHANGED <<pc, mem, wf, lg>>
    BY <1>1 DEF EvaluateGoalSatisfaction, Write, Stay, saved
  <2>2. MadeInOrder'
    BY <1>a, <2>1 DEF MadeInOrder, Ordered
  <2> QED
    BY <1>0, <2>1, <2>2, MidwayDelivery
<1>2. CASE DecideSatisfaction
  <2> DEFINE noted == [mem EXCEPT !.stage = "evaluate_goal_satisfaction",
                                  !.arts = @ \cup {"sat"},
                                  !.goalSatisfied = doc.sat = "satisfied"]
             s == IF doc.sat = "satisfied" THEN noted
                  ELSE [noted EXCEPT !.satAttempts = SatAttempts, !.satError = doc.satError]
  <2>1. "sat" \in files /\ Leave(s, RouteAfterSatisfaction(s))
    BY <1>2 DEF DecideSatisfaction, At, ReuseSatisfaction, DeliveryInv, OnDiskInv, WrittenOnDisk
  <2>2. s.status = "running" /\ s.stage = "evaluate_goal_satisfaction" /\ s.done = Tasks
    BY <1>a DEF State
  <2> HIDE DEF s
  <2>3. MayEnter(s, files)
    BY <1>a, <2>2, EnterNode, StandsKnown DEF Nodes
  <2>4. /\ RouteAfterSatisfaction(s) \in {"repair_failure", "run_independent_review"}
        /\ Stands(RouteAfterSatisfaction(s), s, files)
    BY <1>a, <2>1, <2>2, StandsKnown DEF RouteAfterSatisfaction
  <2> QED
    BY <2>1, <2>3, <2>4, LeaveDelivery
<1> QED
  BY <1>1, <1>2 DEF EvaluateSatisfaction

LEMMA RunIndependentReviewDelivery ==
    ASSUME DeliveryInv, OnDiskInv', RunIndependentReview
    PROVE  DeliveryInv'
<1>0. pc = "run_independent_review"
  BY DEF RunIndependentReview, RunReview, RecordReview, At
<1>a. /\ {"integration", "gate", "sat"} \subseteq files /\ mem.status = "running"
      /\ mem.done = Tasks /\ mem \in State /\ Ordered(files)
  BY <1>0, AtNode, StandsKnown DEF Nodes
<1>1. CASE RunReview
  <2>1. files' = files \cup {"review"} /\ UNCHANGED <<pc, mem, wf, lg>>
    BY <1>1 DEF RunReview, Write, Stay, saved
  <2>2. MadeInOrder'
    BY <1>a, <2>1 DEF MadeInOrder, Ordered
  <2> QED
    BY <1>0, <2>1, <2>2, MidwayDelivery
<1>2. CASE RecordReview
  <2> DEFINE s == [mem EXCEPT !.stage = "run_independent_review", !.arts = @ \cup {"review"},
                              !.reviewPassed = doc.review = "pass"]
  <2>1. "review" \in files /\ Leave(s, RouteAfterReview(s))
    BY <1>2 DEF RecordReview, At, ReuseReview, DeliveryInv, OnDiskInv, WrittenOnDisk
  <2>2. s.status = "running" /\ s.stage = "run_independent_review" /\ s.done = Tasks
    BY <1>a DEF State
  <2> HIDE DEF s
  <2>3. MayEnter(s, files)
    BY <1>a, <2>2, EnterNode, StandsKnown DEF Nodes
  <2>4. /\ RouteAfterReview(s) \in {"repair_failure", "prepare_evidence"}
        /\ Stands(RouteAfterReview(s), s, files)
    BY <1>a, <2>1, <2>2, StandsKnown DEF RouteAfterReview
  <2> QED
    BY <2>1, <2>3, <2>4, LeaveDelivery
<1> QED
  BY <1>1, <1>2 DEF RunIndependentReview

LEMMA RepairFailureDelivery ==
    ASSUME DeliveryInv, OnDiskInv', RepairFailure
    PROVE  DeliveryInv'
<1>0. pc = "repair_failure"
  BY DEF RepairFailure, ReuseRepairResult, BeginRepair, RunRepairWorker, WriteRepairResult,
         RecordRepair, At
<1>a. /\ {"integration", "gate"} \subseteq files /\ mem.status = "running" /\ mem.done = Tasks
      /\ mem \in State /\ MayEnter(mem, files) /\ Stands(pc, mem, files)
  BY <1>0, AtNode, StandsKnown DEF Nodes
<1>1. CASE ReuseRepairResult \/ RecordRepair
  <2>1. /\ mem' = [mem EXCEPT !.stage = "run_quality_gates", !.repaired = TRUE]
        /\ pc' = "run_quality_gates" /\ wf' = mem' /\ UNCHANGED <<files, lg>>
    BY <1>1 DEF ReuseRepairResult, RecordRepair, Leave, Save, Goto
  <2>2. mem'.status = "running" /\ mem'.stage = "run_quality_gates" /\ mem'.done = Tasks
    BY <1>a, <2>1 DEF State
  <2>3. Stands("run_quality_gates", mem', files)
    BY <1>a, <2>2, StandsKnown
  <2>4. MayEnter(mem', files)
    BY <2>2, <2>3, EnterNode DEF Nodes
  <2> QED
    BY <2>1, <2>3, <2>4, MoveDelivery
<1>2. CASE BeginRepair
  <2>1. /\ mem'.status = mem.status /\ mem'.stage = "repair_failure" /\ mem'.done = mem.done
        /\ pc' = pc /\ wf' = mem' /\ UNCHANGED <<files, lg>>
    BY <1>a, <1>2 DEF BeginRepair, Save, Stay, State
  <2>2. Stands("repair_failure", mem', files)
    BY <1>a, <2>1, StandsKnown
  <2>3. MayEnter(mem', files)
    BY <2>1, <2>2, EnterNode DEF Nodes
  <2> QED
    BY <1>0, <2>1, <2>2, <2>3, MoveDelivery
<1>3. CASE RunRepairWorker \/ WriteRepairResult
  BY <1>0, <1>a, <1>3, MoveDelivery DEF RunRepairWorker, WriteRepairResult, Stay, saved
<1> QED
  BY <1>1, <1>2, <1>3 DEF RepairFailure

LEMMA PrepareEvidenceDelivery ==
    ASSUME DeliveryInv, OnDiskInv', PrepareEvidence
    PROVE  DeliveryInv'
<1>0. pc = "prepare_evidence"
  BY DEF PrepareEvidence, BuildEvidence, RecordEvidence, At
<1>a. /\ {"integration", "gate", "sat", "review"} \subseteq files /\ mem.done = Tasks
      /\ mem \in State /\ Ordered(files)
  BY <1>0, AtNode, StandsKnown DEF Nodes
<1>1. CASE BuildEvidence
  <2>1. files' = files \cup {"evidence"} /\ UNCHANGED <<pc, mem, wf, lg>>
    BY <1>1 DEF BuildEvidence, Write, control, saved
  <2>2. MadeInOrder'
    BY <1>a, <2>1 DEF MadeInOrder, Ordered
  <2> QED
    BY <1>0, <2>1, <2>2, MidwayDelivery
<1>2. CASE RecordEvidence
  <2> DEFINE s == [mem EXCEPT !.stage = "prepare_evidence", !.arts = @ \cup {"evidence"},
                              !.status = IF doc.ready THEN "ready_for_human_review"
                                                      ELSE "human_required"]
  <2>1. "evidence" \in files /\ Leave(s, "finish")
    BY <1>2 DEF RecordEvidence
  <2>2. /\ s.status # "running" /\ s.stage = "prepare_evidence" /\ s.done = Tasks
        /\ "evidence" \in s.arts
    BY <1>a DEF State
  <2> HIDE DEF s
  <2>3. MayEnter(s, files)
    BY <1>a, <2>1, <2>2, StandsKnown DEF MayEnter
  <2> QED
    BY <2>1, <2>2, <2>3, LeaveDelivery DEF Nodes
<1> QED
  BY <1>1, <1>2 DEF PrepareEvidence

LEMMA GraphDelivery ==
    ASSUME DeliveryInv, OnDiskInv', Graph
    PROVE  DeliveryInv'
BY ProducersDelivery, DraftSpecDelivery, ValidateStageDelivery, CreateExecutionPlanDelivery,
   MaterializeTasksDelivery, DispatchTasksDelivery, RunQualityGatesDelivery,
   EvaluateSatisfactionDelivery, RunIndependentReviewDelivery, RepairFailureDelivery,
   PrepareEvidenceDelivery
   DEF Graph

-----------------------------------------------------------------------------
(* The steps around the graph and the commands.                            *)

LEMMA ForgetDelivery ==
    ASSUME DeliveryInv, OnDiskInv', Forget, UNCHANGED <<files, wf>>,
           lg' # NoState => MayEnter(lg', files)
    PROVE  DeliveryInv'
<1>1. StatesMayEnter'
  BY FreshEnters DEF DeliveryInv, StatesMayEnter, Forget
<1> QED
  BY <1>1 DEF DeliveryInv, MadeInOrder, PlaceStands, DoneIsKnown, EndsDecided, Forget, Nodes

LEMMA ThreadEnters ==
    ASSUME DeliveryInv, OnDiskInv', NEW s \in State, SaveLangGraph(s), MayEnter(s, files)
    PROVE  lg' # NoState => MayEnter(lg', files)
<1>1. CASE ~SaverAvailable
  BY <1>1 DEF SaveLangGraph, DeliveryInv, StatesMayEnter
<1>2. CASE SaverAvailable /\ lg = NoState
  BY <1>2 DEF SaveLangGraph
<1>3. CASE SaverAvailable /\ lg # NoState
  <2>1. lg' = [s EXCEPT !.arts = @ \cup lg.arts, !.workers = @ \cup lg.workers,
                        !.repaired = @ \/ lg.repaired]
    BY <1>3 DEF SaveLangGraph
  <2>2. /\ lg'.status = s.status /\ lg'.stage = s.stage /\ lg'.done = s.done
        /\ s.arts \subseteq lg'.arts
    BY <2>1 DEF State
  <2> QED
    BY <2>2, EnterAlike DEF OnDiskInv, TypeInv, TypeOK
<1> QED
  BY <1>1, <1>2, <1>3

LEMMA ProcessDelivery ==
    ASSUME DeliveryInv, OnDiskInv', Process
    PROVE  DeliveryInv'
<1>0. mem \in State /\ MayEnter(mem, files)
  BY DEF DeliveryInv, OnDiskInv, TypeInv, TypeOK, StatesMayEnter
<1>1. CASE Start \/ Finish
  <2>1. /\ mem' = mem /\ wf' = mem /\ UNCHANGED <<files, lg>>
        /\ pc' = "enter" \/ (pc = "finish" /\ pc' = "leave")
    BY <1>1 DEF Start, Finish, Save
  <2> QED
    BY <1>0, <2>1, MoveDelivery DEF Nodes, DeliveryInv, EndsDecided
<1>2. CASE Enter
  <2>1. /\ mem' = mem /\ wf' = wf /\ UNCHANGED files /\ phase' = "begin"
        /\ lg' # NoState => MayEnter(lg', files)
        /\ pc' = EntryNode(mem)
    BY <1>0, <1>2, ThreadEnters DEF Enter, Goto
  <2>2. CASE mem.stage \in Nodes
    <3>1. pc' = mem.stage /\ Stands(pc', mem, files)
      BY <1>0, <2>1, <2>2 DEF EntryNode, MayEnter
    <3> QED
      BY <1>0, <2>1, <2>2, <3>1
         DEF DeliveryInv, StatesMayEnter, MadeInOrder, PlaceStands, DoneIsKnown, EndsDecided, Nodes
  <2>3. CASE mem.stage \notin Nodes
    <3>1. pc' = "finish" /\ mem.status = "human_required"
      BY <1>0, <2>1, <2>3 DEF EntryNode, MayEnter, State, Stages
    <3> QED
      BY <1>0, <2>1, <3>1
         DEF DeliveryInv, StatesMayEnter, MadeInOrder, PlaceStands, DoneIsKnown, EndsDecided, Nodes
  <2> QED
    BY <2>2, <2>3
<1>3. CASE Exit
  BY <1>0, <1>3, ThreadEnters, ForgetDelivery DEF Exit
<1>4. CASE ExceedRecursion
  BY <1>4, ForgetDelivery DEF ExceedRecursion, saved, DeliveryInv, StatesMayEnter
<1> QED
  BY <1>1, <1>2, <1>3, <1>4, GraphDelivery DEF Process

LEMMA StartDelivery ==
    ASSUME DeliveryInv, OnDiskInv', Run \/ DryRun \/ Resume
    PROVE  DeliveryInv'
<1>1. CASE Run
  BY <1>1, FreshEnters, MoveDelivery DEF Run, saved, Nodes
<1>2. CASE DryRun
  <2>1. /\ files = {} /\ files' = {"goal", "snapshot", "spec", "vplan", "plan"}
        /\ pc' = "finish" /\ UNCHANGED <<wf, lg>>
        /\ mem' = [Fresh EXCEPT !.status = "human_required", !.stage = "validate_execution_plan",
                                !.arts = {"goal", "snapshot", "spec", "vplan", "plan"}]
    BY <1>2 DEF DryRun, Write, saved
  <2>2. mem'.status = "human_required" /\ mem'.stage = "validate_execution_plan"
    BY <2>1 DEF Fresh
  <2>3. Stands("validate_execution_plan", mem', files')
    BY <2>1, <2>2, StandsKnown
  <2>4. MayEnter(mem', files')
    BY <2>2, <2>3, EnterNode DEF Nodes
  <2>5. StatesMayEnter'
    BY <2>1, <2>4, SavedEnter DEF DeliveryInv
  <2>6. MadeInOrder'
    BY <2>1 DEF MadeInOrder, Ordered
  <2> QED
    BY <2>1, <2>2, <2>5, <2>6 DEF DeliveryInv, PlaceStands, DoneIsKnown, EndsDecided, Nodes
<1>3. CASE Resume
  <2>1. Remembered \in State /\ MayEnter(Remembered, files)
    BY <1>3, RememberedType
       DEF Resume, Remembered, DeliveryInv, StatesMayEnter, OnDiskInv, TypeInv
  <2> DEFINE halted == [Remembered EXCEPT !.status = "human_required", !.stage = "human_required"]
             restarted == [Remembered EXCEPT !.stage = "collect_goal"]
  <2>2. /\ halted.status = "human_required" /\ halted.stage = "human_required"
        /\ restarted.status = Remembered.status /\ restarted.stage = "collect_goal"
    BY <2>1 DEF State
  <2>3. /\ UNCHANGED <<files, wf, lg>>
        /\ \/ mem' = halted /\ pc' = "finish"
           \/ mem' = Remembered /\ pc' = "start"
           \/ mem' = restarted /\ pc' = "start" /\ ~ArtifactsComplete(Remembered)
    BY <1>3 DEF Resume, saved
  <2> HIDE DEF halted, restarted
  <2>4. ~ArtifactsComplete(Remembered) => MayEnter(restarted, files)
    <3>1. ~ArtifactsComplete(Remembered) => Remembered.status # "ready_for_human_review"
      BY <2>1 DEF ArtifactsComplete, MayEnter
    <3> QED
      BY <2>2, <3>1, EnterNode, StandsKnown DEF Nodes
  <2>5. MayEnter(halted, files)
    BY <2>2, EnterHalted
  <2> QED
    BY <2>1, <2>2, <2>3, <2>4, <2>5, MoveDelivery DEF Nodes
<1> QED
  BY <1>1, <1>2, <1>3

LEMMA ApproveDelivery ==
    ASSUME DeliveryInv, OnDiskInv', Approve
    PROVE  DeliveryInv'
<1>1. UNCHANGED <<pc, phase, mem, work>> /\ doc'.strategy = doc.strategy
  BY DEF Approve, ApproveSpec, ApprovePlan, ApproveRun, control, DeliveryInv, OnDiskInv, TypeInv,
         TypeOK, Document
<1>2. files' = files
  BY DEF Approve, ApproveSpec, ApprovePlan, ApproveRun, Write
<1>3. ASSUME StatesMayEnter' PROVE DeliveryInv'
  BY <1>1, <1>2, <1>3
     DEF DeliveryInv, MadeInOrder, PlaceStands, DoneIsKnown, Sequential, EndsDecided
<1>4. ASSUME NEW stage \in Nodes \ {"prepare_evidence"}, NEW a \in Names, row = "human_required",
             wf' = ResumeAt(stage, a), SaveLangGraph(ResumeAt(stage, a)),
             \A s : s.status = "running" => Stands(stage, s, files)
      PROVE  StatesMayEnter'
  <2>1. Remembered \in State
    BY <1>4, RememberedType DEF Remembered, DeliveryInv, OnDiskInv, TypeInv, RowIsSaved
  <2> DEFINE s == ResumeAt(stage, a)
  <2>2. s \in State /\ s.status = "running" /\ s.stage = stage
    BY <1>4, <2>1, HaltedNotedType DEF ResumeAt, Statuses, Stages, State
  <2> HIDE DEF s
  <2>3. MayEnter(s, files)
    BY <1>4, <2>2, EnterNode
  <2>4. lg' # NoState => MayEnter(lg', files)
    BY <1>4, <2>2, <2>3, ThreadEnters DEF s
  <2> QED
    BY <1>1, <1>2, <1>4, <2>3, <2>4 DEF s, DeliveryInv, StatesMayEnter
<1>5. CASE ApproveSpec
  <2>1. \A s : s.status = "running" => Stands("create_execution_plan", s, files)
    BY <1>5, StandsKnown DEF ApproveSpec
  <2> QED
    BY <1>3, <1>4, <1>5, <2>1, NamesKnown DEF ApproveSpec, MayApprove, Nodes
<1>6. CASE ApprovePlan
  <2>1. \A s : s.status = "running" => Stands("validate_execution_plan", s, files)
    BY <1>6, StandsKnown DEF ApprovePlan, DeliveryInv, MadeInOrder, Ordered
  <2> QED
    BY <1>3, <1>4, <1>6, <2>1, NamesKnown DEF ApprovePlan, MayApprove, Nodes
<1>7. CASE ApproveRun
  BY <1>1, <1>2, <1>3, <1>7 DEF ApproveRun, DeliveryInv, StatesMayEnter
<1> QED
  BY <1>5, <1>6, <1>7 DEF Approve

LEMMA InitDelivery == Init => DeliveryInv
<1> SUFFICES ASSUME Init PROVE DeliveryInv
  OBVIOUS
<1>1. OnDiskInv
  BY InitOnDisk
<1>2. StatesMayEnter
  BY FreshEnters DEF Init, StatesMayEnter
<1> QED
  BY <1>1, <1>2 DEF Init, DeliveryInv, MadeInOrder, Ordered, PlaceStands, DoneIsKnown, EndsDecided,
                    Nodes

LEMMA NextDelivery == DeliveryInv /\ [Next]_vars => DeliveryInv'
<1> SUFFICES ASSUME DeliveryInv, [Next]_vars PROVE DeliveryInv'
  OBVIOUS
<1>0. OnDiskInv'
  BY NextOnDisk DEF DeliveryInv
<1>1. CASE Crash
  BY <1>0, <1>1, ForgetDelivery DEF Crash, saved, DeliveryInv, StatesMayEnter
<1>2. CASE LockExpires \/ UNCHANGED vars
  <2>1. UNCHANGED <<pc, phase, mem, work, wf, lg, files, doc>>
    BY <1>2 DEF LockExpires, vars, control, saved
  <2> QED
    BY <1>0, <2>1 DEF DeliveryInv, StatesMayEnter, MadeInOrder, PlaceStands, DoneIsKnown,
                      Sequential, EndsDecided
<1> QED
  BY <1>0, <1>1, <1>2, ProcessDelivery, StartDelivery, ApproveDelivery DEF Next

LEMMA DeliveryInvariant == Spec => []DeliveryInv
BY InitDelivery, NextDelivery, PTL DEF Spec

(* The graph never reaches its end without a decision: the command reports *)
(* a run that needs a person or is ready, never one that is still running, *)
(* wherever a resume entered the graph and whatever was killed before.     *)
THEOREM RunsEndDecided == Spec => []EndsDecided
BY DeliveryInvariant, PTL DEF DeliveryInv

(* What a node reads is there.                                             *)
LEMMA InputsFollow ==
    ASSUME DeliveryInv, NumTasks # 0
    PROVE  InputsPresent
<1> SUFFICES ASSUME pc \in Nodes PROVE InputsPresent
  BY DEF InputsPresent
<1>1. Stands(pc, mem, files) /\ Ordered(files) /\ mem \in State
  BY AtNode
<1>2. Reads[pc] \subseteq files
  BY <1>1, StandsKnown DEF Nodes, Reads, Ordered
<1>3. CASE pc = "repair_failure"
  <2>1. mem.done = Tasks
    BY <1>1, <1>3, StandsKnown
  <2>2. Tasks # {}
    <3>1. 1 \in 1..NumTasks
      BY CountAssumption
    <3> QED
      BY <3>1 DEF Tasks
  <2>3. Completed(mem) = Tasks
    BY <2>1, <2>2 DEF Completed
  <2>4. \A t \in Tasks : taskFile[t] \in Results
    BY <2>1 DEF DeliveryInv, OnDiskInv, StatesOnDisk, NamesDisk, NamesOnly, WithResult
  <2> QED
    BY <1>2, <1>3, <2>2, <2>3, <2>4 DEF InputsPresent
<1> QED
  BY <1>2, <1>3 DEF InputsPresent

(* No node fails for want of its inputs, wherever in the graph a resume    *)
(* enters it: the artifacts it reads are on disk, and a repair finds the   *)
(* results of all tasks.  A plan has at least one task.                    *)
THEOREM NodesFindInputs == NumTasks # 0 => (Spec => []InputsPresent)
<1> SUFFICES ASSUME NumTasks # 0 PROVE Spec => []InputsPresent
  OBVIOUS
<1>1. DeliveryInv => InputsPresent
  BY InputsFollow
<1> QED
  BY <1>1, DeliveryInvariant, PTL

-----------------------------------------------------------------------------
(* The life cycle of a run.  Its status is ready only with the bundle that *)
(* says so, whoever remembers the status; a process that goes on has told  *)
(* the row; and work is begun only once nothing is left to approve.        *)

Ready == "evidence" \in files /\ doc.ready

SomeReady ==
    \/ row = "ready_for_human_review" \/ mem.status = "ready_for_human_review"
    \/ wf # NoState /\ wf.status = "ready_for_human_review"
    \/ lg # NoState /\ lg.status = "ready_for_human_review"

SavedReady == SomeReady => Ready

RowRuns == pc \in Nodes \cup {"enter"} /\ mem.status = "running" => row = "running"

WorkIsAllowed ==
    /\ "plan" \notin files => \A t \in Tasks : taskFile[t] = "none"
    /\ \A t \in Tasks : work[t] \in {"request", "ran"} => t \in StartedTasks
    /\ StartedTasks # {} => SpecAllows /\ PlanAllows
    /\ "evidence" \in files => StartedTasks = Tasks

(* The bundle is made from the others.                                     *)
BundleIsLast == "evidence" \in files => {"integration", "gate", "sat", "review"} \subseteq files

LifeInv ==
    DeliveryInv /\ ApprovalInv /\ SavedReady /\ RowRuns /\ WorkIsAllowed /\ BundleIsLast

(* Who writes the bundle, the files of a task and the approvals.           *)
BundleStill == ("evidence" \in files' <=> "evidence" \in files) /\ doc'.ready = doc.ready

TaskFileWritten ==
    \E t \in Tasks : WriteTask(t) \/ WriteWorkerRequest(t) \/ WriteWorkerResult(t) \/ ApplyPatch(t)

Asking == WriteSpec \/ WritePlan \/ DryRun

LEMMA QuietWriters ==
    ASSUME TypeInv, files' = files, doc' = doc, taskFile' = taskFile
    PROVE  BundleStill /\ UNCHANGED <<taskFile, Approvals>>
BY DEF BundleStill, Approvals

LEMMA GraphWriters ==
    ASSUME TypeInv, Graph
    PROVE  /\ BuildEvidence \/ BundleStill
           /\ taskFile' = taskFile \/ TaskFileWritten
           /\ UNCHANGED Approvals \/ WriteSpec \/ WritePlan
<1>0. doc \in Document
  BY DEF TypeInv, TypeOK
<1>1. ASSUME NEW s, NEW next, Leave(s, next) PROVE BundleStill /\ UNCHANGED <<taskFile, Approvals>>
  BY <1>1, QuietWriters DEF Leave, tasksOnDisk
<1>2. CASE CollectGoal \/ InspectRepository \/ CreateVerificationPlan \/ IntegrateChanges
  <2>1. ASSUME NEW node, NEW a \in Names \ {"evidence"}, Produce(node, a)
        PROVE  BundleStill /\ UNCHANGED <<taskFile, Approvals>>
    BY <2>1 DEF Produce, Write, BundleStill, Approvals, tasksOnDisk
  <2> QED
    BY <1>1, <1>2, <2>1, NamesKnown
       DEF CollectGoal, InspectRepository, CreateVerificationPlan, IntegrateChanges, Record
<1>3. CASE DraftSpec
  <2>1. CASE WriteSpec
    BY <1>0, <2>1 DEF WriteSpec, Write, BundleStill, Document, tasksOnDisk
  <2>2. CASE ReuseSpec \/ AcceptSpec
    BY <2>2, QuietWriters DEF ReuseSpec, AcceptSpec, tasksOnDisk
  <2>3. CASE StopForSpecApproval
    BY <1>1, <2>3 DEF StopForSpecApproval
  <2> QED
    BY <1>3, <2>1, <2>2, <2>3 DEF DraftSpec
<1>4. CASE ValidateSpec \/ ValidateExecutionPlan
  BY <1>4, QuietWriters DEF ValidateSpec, ValidateExecutionPlan, ValidateStage, tasksOnDisk
<1>5. CASE CreateExecutionPlan
  <2>1. CASE WriteMissingVerificationPlan
    BY <2>1 DEF WriteMissingVerificationPlan, Write, BundleStill, Approvals, tasksOnDisk
  <2>2. CASE WritePlan
    BY <1>0, <2>2 DEF WritePlan, Write, BundleStill, Document, tasksOnDisk
  <2>3. CASE DecidePlan
    BY <2>3, QuietWriters DEF DecidePlan, tasksOnDisk
  <2> QED
    BY <1>5, <2>1, <2>2, <2>3 DEF CreateExecutionPlan
<1>6. CASE MaterializeTasks
  BY <1>1, <1>6 DEF MaterializeTasks
<1>7. CASE DispatchTasks
  <2>1. BundleStill /\ UNCHANGED Approvals
    BY <1>7 DEF DispatchTasks, DispatchTask, BeginDispatch, WriteTask, WriteWorkerRequest,
                RunWorker, WriteWorkerResult, RecordDispatch, RecordCompletion, ApplyPatch,
                StopDispatch, FinishDispatch, Leave, BundleStill, Approvals
  <2>2. taskFile' = taskFile \/ TaskFileWritten
    BY <1>7 DEF DispatchTasks, DispatchTask, BeginDispatch, RunWorker, RecordDispatch,
                RecordCompletion, StopDispatch, FinishDispatch, Leave, TaskFileWritten, tasksOnDisk
  <2> QED
    BY <2>1, <2>2
<1>8. CASE RunQualityGates
  <2>1. CASE RunGates
    BY <1>0, <2>1 DEF RunGates, Write, BundleStill, Approvals, Document, tasksOnDisk
  <2>2. CASE RequestToolCheck \/ RunToolCheck
    BY <2>2 DEF RequestToolCheck, RunToolCheck, Write, BundleStill, Approvals, tasksOnDisk
  <2>3. CASE DecideGates
    BY <1>1, <2>3 DEF DecideGates
  <2> QED
    BY <1>8, <2>1, <2>2, <2>3 DEF RunQualityGates
<1>9. CASE EvaluateSatisfaction
  <2>1. CASE EvaluateGoalSatisfaction
    <3>1. PICK verdict, error : doc' = [doc EXCEPT !.sat = verdict, !.satError = error]
      BY <2>1 DEF EvaluateGoalSatisfaction
    <3>2. doc'.ready = doc.ready /\ UNCHANGED Approvals
      BY <1>0, <3>1 DEF Document, Approvals
    <3> QED
      BY <2>1, <3>2 DEF EvaluateGoalSatisfaction, Write, BundleStill, tasksOnDisk
  <2>2. CASE DecideSatisfaction
    BY <1>1, <2>2 DEF DecideSatisfaction
  <2> QED
    BY <1>9, <2>1, <2>2 DEF EvaluateSatisfaction
<1>10. CASE RunIndependentReview
  <2>1. CASE RunReview
    BY <1>0, <2>1 DEF RunReview, Write, BundleStill, Approvals, Document, tasksOnDisk
  <2>2. CASE RecordReview
    BY <1>1, <2>2 DEF RecordReview
  <2> QED
    BY <1>10, <2>1, <2>2 DEF RunIndependentReview
<1>11. CASE RepairFailure
  BY <1>1, <1>11, QuietWriters
     DEF RepairFailure, ReuseRepairResult, BeginRepair, RunRepairWorker, WriteRepairResult,
         RecordRepair, tasksOnDisk
<1>12. CASE PrepareEvidence
  <2>1. CASE BuildEvidence
    BY <1>0, <2>1 DEF BuildEvidence, Approvals, Document, tasksOnDisk
  <2>2. CASE RecordEvidence
    BY <1>1, <2>2 DEF RecordEvidence
  <2> QED
    BY <1>12, <2>1, <2>2 DEF PrepareEvidence
<1> QED
  BY <1>2, <1>3, <1>4, <1>5, <1>6, <1>7, <1>8, <1>9, <1>10, <1>11, <1>12 DEF Graph

LEMMA Writers ==
    ASSUME TypeInv, [Next]_vars
    PROVE  /\ BuildEvidence \/ BundleStill
           /\ taskFile' = taskFile \/ TaskFileWritten
           /\ UNCHANGED Approvals \/ Asking \/ ApproveSpec \/ ApprovePlan
<1>0. doc \in Document
  BY DEF TypeInv, TypeOK
<1>1. CASE Graph
  BY <1>1, GraphWriters DEF Asking
<1>2. CASE Start \/ Enter \/ ExceedRecursion \/ Finish \/ Exit \/ Run \/ Resume
  BY <1>2, QuietWriters DEF Start, Enter, ExceedRecursion, Finish, Exit, Run, Resume, tasksOnDisk
<1>3. CASE Crash \/ LockExpires \/ ApproveRun \/ UNCHANGED vars
  BY <1>3, QuietWriters DEF Crash, LockExpires, ApproveRun, vars, tasksOnDisk
<1>4. CASE DryRun
  <2>1. PICK required \in SpecApproval, strategy \in Strategies, valid \in BOOLEAN,
             asked \in PlanApproval :
           doc' = [doc EXCEPT !.specRequired = required, !.strategy = strategy,
                              !.planValid = valid,
                              !.planRequired = asked /\ strategy = "parallel"]
    BY <1>4 DEF DryRun
  <2>2. doc'.ready = doc.ready
    BY <1>0, <2>1 DEF Document
  <2> QED
    BY <1>4, <2>2 DEF DryRun, Write, BundleStill, Asking, tasksOnDisk
<1>5. CASE ApproveSpec \/ ApprovePlan
  BY <1>0, <1>5 DEF ApproveSpec, ApprovePlan, Write, BundleStill, Document, tasksOnDisk
<1> QED
  BY <1>1, <1>2, <1>3, <1>4, <1>5 DEF Next, Process, Approve

-----------------------------------------------------------------------------
(* The status: what a step of the graph does to it.                        *)
StatusMove ==
    /\ lg' = lg
    /\ \/ row' = row /\ wf' = wf /\ mem'.status = mem.status
       \/ row' = mem'.status /\ wf'.status = mem'.status
    /\ mem'.status \in {mem.status, "human_required"} \/ RecordEvidence

LEMMA GraphStatus ==
    ASSUME TypeInv, Graph
    PROVE  StatusMove
<1>0. mem \in State
  BY DEF TypeInv, TypeOK
<1>1. ASSUME UNCHANGED <<mem, row, wf, lg>> PROVE StatusMove
  BY <1>1 DEF StatusMove
<1>2. ASSUME NEW s, NEW next, Leave(s, next),
             s.status \in {mem.status, "human_required"} \/ RecordEvidence
      PROVE  StatusMove
  BY <1>2 DEF Leave, Save, StatusMove
<1>3. CASE CollectGoal \/ InspectRepository \/ CreateVerificationPlan \/ IntegrateChanges
  <2>1. ASSUME NEW node, NEW a, Produce(node, a) PROVE StatusMove
    BY <1>1, <2>1 DEF Produce, saved
  <2>2. ASSUME NEW node, NEW a, NEW stage, NEW next, Record(node, a, stage, next) PROVE StatusMove
    BY <1>0, <1>2, <2>2 DEF Record, State
  <2> QED
    BY <1>3, <2>1, <2>2
       DEF CollectGoal, InspectRepository, CreateVerificationPlan, IntegrateChanges
<1>4. CASE DraftSpec
  <2>1. CASE WriteSpec
    BY <1>1, <2>1 DEF WriteSpec, saved
  <2>2. CASE ReuseSpec
    BY <1>0, <2>2 DEF ReuseSpec, Save, StatusMove, State
  <2>3. CASE StopForSpecApproval
    BY <1>0, <1>2, <2>3 DEF StopForSpecApproval, State
  <2>4. CASE AcceptSpec
    BY <1>0, <2>4 DEF AcceptSpec, Save, saved, StatusMove, State
  <2> QED
    BY <1>4, <2>1, <2>2, <2>3, <2>4 DEF DraftSpec
<1>5. CASE ValidateSpec \/ ValidateExecutionPlan
  BY <1>0, <1>5 DEF ValidateSpec, ValidateExecutionPlan, ValidateStage, saved, StatusMove, State
<1>6. CASE CreateExecutionPlan
  <2>1. CASE WriteMissingVerificationPlan \/ WritePlan
    BY <1>1, <2>1 DEF WriteMissingVerificationPlan, WritePlan, saved
  <2>2. CASE DecidePlan
    <3> DEFINE s == IF mem.status = "human_required" THEN mem
                    ELSE IF PlanBlocked
                    THEN [mem EXCEPT !.status = "human_required", !.stage = "human_required",
                                     !.arts = @ \cup {"plan"}]
                    ELSE [mem EXCEPT !.stage = "create_execution_plan", !.arts = @ \cup {"plan"}]
               saves == IF phase = "planned" THEN [s EXCEPT !.arts = @ \cup {"vplan"}] ELSE s
    <3>1. mem' = s /\ row' = saves.status /\ wf' = saves /\ lg' = lg
      BY <2>2 DEF DecidePlan, Save
    <3>2. s.status \in {mem.status, "human_required"}
      BY <1>0 DEF State
    <3>3. saves.status = s.status
      <4> "status" \in DOMAIN s
        BY <1>0 DEF State
      <4> HIDE DEF s
      <4> QED
        OBVIOUS
    <3> QED
      BY <3>1, <3>2, <3>3 DEF StatusMove
  <2> QED
    BY <1>6, <2>1, <2>2 DEF CreateExecutionPlan
<1>7. CASE MaterializeTasks
  BY <1>0, <1>2, <1>7 DEF MaterializeTasks, State
<1>8. CASE DispatchTasks
  <2>1. ASSUME NEW t \in Tasks, DispatchTask(t) PROVE StatusMove
    <3>1. CASE RecordDispatch(t) \/ RecordCompletion(t)
      BY <1>0, <3>1 DEF RecordDispatch, RecordCompletion, Save, StatusMove, State
    <3> QED
      BY <1>1, <2>1, <3>1 DEF DispatchTask, WriteTask, WriteWorkerRequest, RunWorker,
                              WriteWorkerResult, ApplyPatch, saved
  <2>2. CASE BeginDispatch
    BY <1>0, <2>2 DEF BeginDispatch, saved, StatusMove, State
  <2>3. CASE StopDispatch
    BY <1>0, <2>3 DEF StopDispatch, Save, StatusMove, State
  <2>4. CASE FinishDispatch
    <3>1. PICK s : /\ s = IF Sequential THEN mem ELSE [mem EXCEPT !.workers = Tasks, !.done = Tasks]
                   /\ Leave(s, RouteAfterStop(s, "integrate_changes"))
      BY <2>4 DEF FinishDispatch
    <3>2. s.status = mem.status
      BY <1>0, <3>1 DEF State
    <3> QED
      BY <1>2, <3>1, <3>2
  <2> QED
    BY <1>8, <2>1, <2>2, <2>3, <2>4 DEF DispatchTasks
<1>9. CASE RunQualityGates
  <2>1. CASE RunGates \/ RequestToolCheck \/ RunToolCheck
    BY <1>1, <2>1 DEF RunGates, RequestToolCheck, RunToolCheck, saved
  <2>2. CASE DecideGates
    <3> DEFINE noted == [mem EXCEPT !.stage = "run_quality_gates", !.arts = @ \cup {"gate"},
                                    !.gatePassed = doc.gate]
               s == IF StopForGateFailure
                    THEN [noted EXCEPT !.status = "human_required", !.stage = "human_required"]
                    ELSE noted
    <3>1. s.status \in {mem.status, "human_required"}
      BY <1>0 DEF State
    <3>2. Leave(s, RouteAfterGates(s))
      BY <2>2 DEF DecideGates
    <3> QED
      BY <1>2, <3>1, <3>2
  <2> QED
    BY <1>9, <2>1, <2>2 DEF RunQualityGates
<1>10. CASE EvaluateSatisfaction
  <2>1. CASE EvaluateGoalSatisfaction
    BY <1>1, <2>1 DEF EvaluateGoalSatisfaction, saved
  <2>2. CASE DecideSatisfaction
    <3> DEFINE noted == [mem EXCEPT !.stage = "evaluate_goal_satisfaction",
                                    !.arts = @ \cup {"sat"},
                                    !.goalSatisfied = doc.sat = "satisfied"]
               s == IF doc.sat = "satisfied" THEN noted
                    ELSE [noted EXCEPT !.satAttempts = SatAttempts, !.satError = doc.satError]
    <3>1. s.status = mem.status
      BY <1>0 DEF State
    <3>2. Leave(s, RouteAfterSatisfaction(s))
      BY <2>2 DEF DecideSatisfaction
    <3> QED
      BY <1>2, <3>1, <3>2
  <2> QED
    BY <1>10, <2>1, <2>2 DEF EvaluateSatisfaction
<1>11. CASE RunIndependentReview
  <2>1. CASE RunReview
    BY <1>1, <2>1 DEF RunReview, saved
  <2>2. CASE RecordReview
    <3> DEFINE s == [mem EXCEPT !.stage = "run_independent_review", !.arts = @ \cup {"review"},
                                !.reviewPassed = doc.review = "pass"]
    <3>1. s.status = mem.status /\ Leave(s, RouteAfterReview(s))
      BY <1>0, <2>2 DEF RecordReview, State
    <3> QED
      BY <1>2, <3>1
  <2> QED
    BY <1>11, <2>1, <2>2 DEF RunIndependentReview
<1>12. CASE RepairFailure
  <2>1. CASE ReuseRepairResult \/ BeginRepair
    BY <1>0, <2>1 DEF ReuseRepairResult, BeginRepair, Save, StatusMove, State
  <2>2. CASE RunRepairWorker \/ WriteRepairResult
    BY <1>1, <2>2 DEF RunRepairWorker, WriteRepairResult, saved
  <2>3. CASE RecordRepair
    BY <1>0, <1>2, <2>3 DEF RecordRepair, State
  <2> QED
    BY <1>12, <2>1, <2>2, <2>3 DEF RepairFailure
<1>13. CASE PrepareEvidence
  <2>1. CASE BuildEvidence
    BY <1>1, <2>1 DEF BuildEvidence, saved
  <2>2. CASE RecordEvidence
    BY <1>2, <2>2 DEF RecordEvidence
  <2> QED
    BY <1>13, <2>1, <2>2 DEF PrepareEvidence
<1> QED
  BY <1>3, <1>4, <1>5, <1>6, <1>7, <1>8, <1>9, <1>10, <1>11, <1>12, <1>13 DEF Graph

(* A status becomes ready only when the bundle is recorded; the row says    *)
(* what a process that goes on does; approve alone gives another status.   *)
LEMMA StatusSteps ==
    ASSUME TypeInv, [Next]_vars
    PROVE  /\ SomeReady' => SomeReady \/ RecordEvidence
           /\ RowRuns => RowRuns'
           /\ row' \in Statuses \cup {row} \/ ApproveRun
<1>0. mem \in State /\ mem.status \in Statuses
  BY DEF TypeInv, TypeOK, State
<1>a. ASSUME NEW s \in State, SaveLangGraph(s)
      PROVE  lg' = lg \/ lg'.status = s.status
  BY <1>a, SaveLangGraphType DEF TypeInv, SaveLangGraph
<1>1. CASE Graph
  <2>1. StatusMove /\ pc \in Nodes /\ mem' \in State
    BY <1>1, GraphStatus, GraphAtNode, GraphType DEF TypeInv, TypeOK
  <2>2. SomeReady' => SomeReady \/ RecordEvidence
    BY <2>1 DEF StatusMove, SomeReady
  <2>3. RowRuns => RowRuns'
    BY <2>1 DEF StatusMove, RowRuns
  <2>4. row' \in Statuses \cup {row}
    BY <2>1 DEF StatusMove, State
  <2> QED
    BY <2>2, <2>3, <2>4
<1>2. CASE Start \/ Finish
  <2>1. mem' = mem /\ row' = mem.status /\ wf' = mem /\ lg' = lg
    BY <1>2 DEF Start, Finish, Save
  <2> QED
    BY <1>0, <2>1 DEF SomeReady, RowRuns
<1>3. CASE Enter
  <2>1. /\ mem' = mem /\ UNCHANGED <<row, wf>> /\ (lg' = lg \/ lg'.status = mem.status)
        /\ pc = "enter"
    BY <1>0, <1>a, <1>3 DEF Enter
  <2> QED
    BY <2>1 DEF SomeReady, RowRuns
<1>4. CASE Exit \/ ExceedRecursion \/ Crash
  <2>1. /\ mem' = Fresh /\ UNCHANGED <<row, wf>> /\ pc' = "idle"
        /\ lg' = lg \/ lg'.status = mem.status
    BY <1>0, <1>a, <1>4 DEF Exit, ExceedRecursion, Crash, Forget, saved
  <2>2. Fresh.status = "running"
    BY DEF Fresh
  <2> QED
    BY <2>1, <2>2 DEF SomeReady, RowRuns, Nodes
<1>5. CASE Run \/ DryRun
  <2>1. UNCHANGED <<row, wf, lg>> /\ pc' \in {"start", "finish"}
    BY <1>5 DEF Run, DryRun, saved
  <2>2. mem'.status # "ready_for_human_review"
    <3>1. CASE Run
      BY <3>1 DEF Run, Fresh
    <3>2. CASE DryRun
      BY <3>2, FreshType DEF DryRun, State
    <3> QED
      BY <1>5, <3>1, <3>2
  <2> QED
    BY <2>1, <2>2 DEF SomeReady, RowRuns, Nodes
<1>6. CASE Resume
  <2>1. UNCHANGED <<row, wf, lg>> /\ pc' \in {"start", "finish"} /\ Remembered \in State
    BY <1>6, RememberedType DEF Resume, saved, TypeInv
  <2>2. mem'.status \in {"human_required", Remembered.status}
    BY <1>6, <2>1 DEF Resume, State
  <2>3. mem'.status = "ready_for_human_review" => SomeReady
    BY <1>6, <2>2 DEF Resume, Remembered, SomeReady
  <2> QED
    BY <2>1, <2>3 DEF SomeReady, RowRuns, Nodes
<1>7. CASE ApproveSpec \/ ApprovePlan
  <2>1. PICK stage \in Stages, a \in Names :
           wf' = ResumeAt(stage, a) /\ SaveLangGraph(ResumeAt(stage, a))
    BY <1>7, NamesKnown DEF ApproveSpec, ApprovePlan, Stages, Nodes
  <2>2. row' = "running" /\ row = "human_required" /\ UNCHANGED <<pc, mem>>
    BY <1>7 DEF ApproveSpec, ApprovePlan, MayApprove, control
  <2>3. Remembered \in State
    BY <2>2, RememberedType DEF TypeInv, RowIsSaved, Remembered
  <2>4. ResumeAt(stage, a) \in State /\ ResumeAt(stage, a).status = "running"
    BY <2>3, HaltedNotedType DEF ResumeAt, Statuses, State
  <2>5. lg' = lg \/ lg'.status = "running"
    BY <1>a, <2>1, <2>4
  <2> QED
    BY <2>1, <2>2, <2>4, <2>5 DEF SomeReady, RowRuns, Statuses
<1>8. CASE ApproveRun
  <2>1. UNCHANGED <<pc, mem, wf, lg>> /\ row = "human_required" /\ row' = "approved"
    BY <1>8 DEF ApproveRun, MayApprove, control
  <2> QED
    BY <1>8, <2>1 DEF SomeReady, RowRuns
<1>9. CASE LockExpires \/ UNCHANGED vars
  BY <1>9 DEF LockExpires, vars, control, saved, SomeReady, RowRuns
<1> QED
  BY <1>1, <1>2, <1>3, <1>4, <1>5, <1>6, <1>7, <1>8, <1>9 DEF Next, Process, Approve

-----------------------------------------------------------------------------
(* The invariant of the life cycle.                                        *)

LEMMA ReadySaved ==
    ASSUME LifeInv, [Next]_vars, files \subseteq files'
    PROVE  SavedReady'
<1>0. TypeInv /\ (SomeReady => Ready)
  BY DEF LifeInv, ApprovalInv, SavedReady
<1> SUFFICES ASSUME SomeReady' PROVE Ready'
  BY DEF SavedReady
<1>1. CASE SomeReady
  <2>1. BundleStill
    BY <1>0, <1>1, Writers DEF Ready, BuildEvidence
  <2> QED
    BY <1>0, <1>1, <2>1 DEF Ready, BundleStill
<1>2. CASE ~SomeReady
  <2>1. RecordEvidence
    BY <1>0, <1>2, StatusSteps DEF LifeInv
  <2>2. UNCHANGED <<files, doc, lg>> /\ "evidence" \in files
    BY <2>1 DEF RecordEvidence, Leave, Save
  <2>3. PICK s : /\ s = [mem EXCEPT !.stage = "prepare_evidence", !.arts = @ \cup {"evidence"},
                                    !.status = IF doc.ready THEN "ready_for_human_review"
                                                            ELSE "human_required"]
                 /\ mem' = s /\ wf' = s /\ row' = s.status
    BY <2>1 DEF RecordEvidence, Leave, Save
  <2>4. mem \in State
    BY <1>0 DEF TypeInv, TypeOK
  <2>5. s.status = IF doc.ready THEN "ready_for_human_review" ELSE "human_required"
    BY <2>3, <2>4 DEF State
  <2>6. doc.ready
    BY <1>2, <2>2, <2>3, <2>5 DEF SomeReady
  <2> QED
    BY <2>2, <2>6 DEF Ready
<1> QED
  BY <1>1, <1>2

(* Only the request of its worker starts a task.                           *)
LEMMA StartedGrow ==
    ASSUME LifeInv, [Next]_vars
    PROVE  \/ StartedTasks' = StartedTasks
           \/ \E t \in Tasks : WriteWorkerRequest(t) /\ StartedTasks' = StartedTasks \cup {t}
<1>0. TypeInv /\ taskFile \in [Tasks -> TaskFiles]
  BY DEF LifeInv, ApprovalInv, TypeInv, TypeOK
<1>1. CASE taskFile' = taskFile
  BY <1>1 DEF StartedTasks
<1>2. CASE TaskFileWritten
  <2>1. PICK t \in Tasks :
           WriteTask(t) \/ WriteWorkerRequest(t) \/ WriteWorkerResult(t) \/ ApplyPatch(t)
    BY <1>2 DEF TaskFileWritten
  <2>2. CASE WriteTask(t)
    BY <1>0, <2>2 DEF WriteTask, StartedTasks
  <2>3. CASE WriteWorkerRequest(t)
    <3>1. StartedTasks' = StartedTasks \cup {t}
      BY <1>0, <2>3 DEF WriteWorkerRequest, StartedTasks, Results
    <3> QED
      BY <2>3, <3>1
  <2>4. CASE WriteWorkerResult(t)
    <3>1. t \in StartedTasks
      BY <2>4 DEF WriteWorkerResult, LifeInv, WorkIsAllowed
    <3>2. PICK result \in Results : taskFile' = [taskFile EXCEPT ![t] = result]
      BY <2>4 DEF WriteWorkerResult
    <3> QED
      BY <1>0, <3>1, <3>2 DEF StartedTasks, Results
  <2>5. CASE ApplyPatch(t)
    <3>1. taskFile[t] \in Results
      BY <2>5 DEF ApplyPatch, LifeInv, DeliveryInv, OnDiskInv, WorkOnDisk, WithResult
    <3>2. taskFile' \in {taskFile, [taskFile EXCEPT ![t] = "failed"]}
      BY <2>5 DEF ApplyPatch
    <3> QED
      BY <1>0, <3>1, <3>2 DEF StartedTasks, Results
  <2> QED
    BY <2>1, <2>2, <2>3, <2>4, <2>5
<1> QED
  BY <1>0, <1>1, <1>2, Writers

LEMMA RequestsGrow ==
    ASSUME TypeInv, [Next]_vars, NEW t \in Tasks, work'[t] \in {"request", "ran"}
    PROVE  work[t] \in {"request", "ran"} \/ WriteWorkerRequest(t)
<1>0. work \in [Tasks -> Work]
  BY DEF TypeInv, TypeOK
<1>1. CASE work' = work
  BY <1>1
<1>2. CASE ExceedRecursion \/ Exit \/ Crash
  BY <1>2 DEF ExceedRecursion, Exit, Crash, Forget
<1>3. CASE DispatchTasks
  <2>1. ASSUME NEW u \in Tasks, DispatchTask(u)
        PROVE  work[t] \in {"request", "ran"} \/ WriteWorkerRequest(t)
    BY <1>0, <2>1 DEF DispatchTask, WriteTask, WriteWorkerRequest, RunWorker, WriteWorkerResult,
                      RecordDispatch, RecordCompletion, ApplyPatch
  <2>2. CASE BeginDispatch
    BY <2>2 DEF BeginDispatch
  <2>3. CASE StopDispatch \/ FinishDispatch
    BY <1>1, <2>3 DEF StopDispatch, FinishDispatch, Leave
  <2> QED
    BY <1>3, <2>1, <2>2, <2>3 DEF DispatchTasks
<1>4. CASE Start \/ Enter \/ Finish \/ Run \/ DryRun \/ Resume \/ LockExpires \/ UNCHANGED vars
  BY <1>1, <1>4 DEF Start, Enter, Finish, Run, DryRun, Resume, LockExpires, vars
<1>5. CASE Approve
  BY <1>1, <1>5 DEF Approve, ApproveSpec, ApprovePlan, ApproveRun
<1>6. CASE Graph /\ ~DispatchTasks
  BY <1>1, <1>6 DEF Graph, CollectGoal, InspectRepository, DraftSpec, ValidateSpec,
       CreateVerificationPlan, CreateExecutionPlan, ValidateExecutionPlan, MaterializeTasks,
       IntegrateChanges, RunQualityGates, EvaluateSatisfaction, RunIndependentReview,
       RepairFailure, PrepareEvidence, Produce, Record, Leave, WriteSpec, ReuseSpec,
       StopForSpecApproval, AcceptSpec, ValidateStage, WriteMissingVerificationPlan, WritePlan,
       DecidePlan, RunGates, RequestToolCheck, RunToolCheck, DecideGates,
       EvaluateGoalSatisfaction, DecideSatisfaction, RunReview, RecordReview, ReuseRepairResult,
       BeginRepair, RunRepairWorker, WriteRepairResult, RecordRepair, BuildEvidence,
       RecordEvidence
<1> QED
  BY <1>2, <1>3, <1>4, <1>5, <1>6 DEF Next, Process

(* The bundle is made once all tasks have a result.                        *)
LEMMA BundleOfAll ==
    ASSUME LifeInv, pc = "prepare_evidence"
    PROVE  StartedTasks = Tasks
<1>1. mem.done = Tasks
  BY AtNode, StandsKnown DEF LifeInv, Nodes
<1>2. \A t \in Tasks : taskFile[t] \in Results
  BY <1>1 DEF LifeInv, DeliveryInv, OnDiskInv, StatesOnDisk, NamesDisk, NamesOnly, WithResult
<1> QED
  BY <1>2 DEF StartedTasks, Results

(* A request is written by a run that is executed, with everything         *)
(* approved that was asked for.                                            *)
LEMMA RequestAllowed ==
    ASSUME LifeInv, NEW t \in Tasks, WriteWorkerRequest(t)
    PROVE  SpecAllows /\ PlanAllows /\ row = "running" /\ UNCHANGED <<row, files, doc>>
<1>1. pc = "dispatch_tasks" /\ UNCHANGED <<row, files, doc>>
  BY DEF WriteWorkerRequest, Dispatching, At, saved
<1>2. SpecAllows /\ PlanAllows
  BY <1>1 DEF LifeInv, ApprovalInv, PlaceAllowed, Permitted, Nodes
<1>3. mem.status = "running"
  BY <1>1, AtNode, StandsKnown DEF LifeInv, Nodes
<1> QED
  BY <1>1, <1>2, <1>3 DEF LifeInv, RowRuns, Nodes

LEMMA WorkStep ==
    ASSUME LifeInv, [Next]_vars
    PROVE  WorkIsAllowed' /\ files \subseteq files'
<1>0. TypeInv /\ RequiredOnDisk
  BY DEF LifeInv, ApprovalInv
<1>a. Kept
  BY <1>0, NextKept
<1>b. StartedTasks \subseteq StartedTasks'
  BY StartedGrow
<1>1. ASSUME "plan" \notin files', NEW t \in Tasks PROVE taskFile'[t] = "none"
  <2>1. "plan" \notin files
    BY <1>1, <1>a DEF Kept
  <2>2. pc # "dispatch_tasks"
    BY <2>1, AtNode, StandsKnown DEF LifeInv, Nodes
  <2>3. taskFile' = taskFile
    BY <1>0, <2>2, Writers DEF TaskFileWritten, WriteTask, WriteWorkerRequest, WriteWorkerResult,
                          ApplyPatch, Dispatching, At
  <2> QED
    BY <2>1, <2>3 DEF LifeInv, WorkIsAllowed
<1>2. ASSUME NEW t \in Tasks, work'[t] \in {"request", "ran"} PROVE t \in StartedTasks'
  <2>1. CASE work[t] \in {"request", "ran"}
    BY <1>b, <2>1 DEF LifeInv, WorkIsAllowed
  <2>2. CASE WriteWorkerRequest(t)
    <3>1. taskFile \in [Tasks -> TaskFiles]
      BY <1>0 DEF TypeInv, TypeOK
    <3> QED
      BY <2>2, <3>1 DEF WriteWorkerRequest, StartedTasks, Results
  <2> QED
    BY <1>0, <1>2, <2>1, <2>2, RequestsGrow
<1>3. ASSUME StartedTasks' # {} PROVE SpecAllows' /\ PlanAllows'
  <2>1. SpecAllows /\ PlanAllows
    BY <1>3, StartedGrow, RequestAllowed DEF LifeInv, WorkIsAllowed
  <2> QED
    BY <1>a, <2>1 DEF Kept
<1>4. ASSUME "evidence" \in files' PROVE StartedTasks' = Tasks
  <2>1. StartedTasks = Tasks
    <3>1. CASE BuildEvidence
      BY <3>1, BundleOfAll DEF BuildEvidence, At
    <3>2. CASE BundleStill
      BY <1>4, <3>2 DEF BundleStill, LifeInv, WorkIsAllowed
    <3> QED
      BY <1>0, <3>1, <3>2, Writers
  <2> QED
    BY <1>b, <2>1 DEF StartedTasks
<1> QED
  BY <1>1, <1>2, <1>3, <1>4, <1>a DEF WorkIsAllowed, Kept

LEMMA BundleLast ==
    ASSUME LifeInv, [Next]_vars, files \subseteq files'
    PROVE  BundleIsLast'
<1>1. CASE BuildEvidence
  <2>1. {"integration", "gate", "sat", "review"} \subseteq files
    BY <1>1, AtNode, StandsKnown DEF BuildEvidence, At, LifeInv, Nodes
  <2> QED
    BY <2>1 DEF BundleIsLast
<1>2. CASE BundleStill
  BY <1>2 DEF BundleStill, BundleIsLast, LifeInv
<1> QED
  BY <1>1, <1>2, Writers DEF LifeInv, ApprovalInv

LEMMA InitLife == Init => LifeInv
<1> SUFFICES ASSUME Init PROVE LifeInv
  OBVIOUS
<1>1. DeliveryInv /\ ApprovalInv
  BY InitDelivery, InitApproval
<1>2. mem = Fresh /\ Fresh.status = "running" /\ StartedTasks = {}
  BY DEF Init, Fresh, StartedTasks
<1>3. SavedReady /\ RowRuns
  BY <1>2 DEF Init, SavedReady, SomeReady, RowRuns, Nodes
<1>4. WorkIsAllowed
  BY <1>2 DEF Init, WorkIsAllowed
<1>5. BundleIsLast
  BY DEF Init, BundleIsLast
<1> QED
  BY <1>1, <1>3, <1>4, <1>5 DEF LifeInv

LEMMA NextLife == SaverAvailable /\ LifeInv /\ [Next]_vars => LifeInv'
<1> SUFFICES ASSUME SaverAvailable, LifeInv, [Next]_vars PROVE LifeInv'
  OBVIOUS
<1>1. DeliveryInv' /\ ApprovalInv'
  BY NextDelivery, NextApproval DEF LifeInv
<1>2. RowRuns'
  BY StatusSteps DEF LifeInv, ApprovalInv
<1>3. SavedReady' /\ WorkIsAllowed' /\ BundleIsLast'
  BY WorkStep, ReadySaved, BundleLast
<1> QED
  BY <1>1, <1>2, <1>3 DEF LifeInv

-----------------------------------------------------------------------------
(* Every step of the workflow is a step of the life cycle or none at all.  *)

LEMMA OpenKnown ==
    /\ "spec" \in OpenApprovals <=> SpecNeedsApproval
    /\ "plan" \in OpenApprovals <=> doc.planRequired /\ ~doc.planApproved
    /\ OpenApprovals \subseteq {"spec", "plan"}
BY DEF OpenApprovals

LEMMA OpenStill ==
    ASSUME UNCHANGED Approvals
    PROVE  OpenApprovals' = OpenApprovals
BY DEF Approvals, OpenApprovals, SpecNeedsApproval

LEMMA BundleSame ==
    ASSUME BundleStill
    PROVE  BundleOnDisk' = BundleOnDisk
BY DEF BundleStill, BundleOnDisk

(* Whatever is approved leaves nothing open.                               *)
LEMMA AllowedOpen ==
    ASSUME SpecAllows, PlanAllows
    PROVE  OpenApprovals = {}
BY OpenKnown DEF SpecAllows, PlanAllows

(* Nothing is asked for once work began.                                   *)
LEMMA AskStep ==
    ASSUME LifeInv, WriteSpec \/ WritePlan
    PROVE  [LC!Next]_(LC!lifecycle)
<1>0. /\ doc \in Document /\ Ordered(files) /\ BundleIsLast /\ PlanAfterSpec
      /\ RequiredOnDisk
  BY DEF LifeInv, ApprovalInv, DeliveryInv, MadeInOrder, TypeInv, TypeOK
<1>1. UNCHANGED <<row, taskFile>>
  BY DEF WriteSpec, WritePlan, saved, tasksOnDisk
<1>2. "plan" \notin files
  BY <1>0 DEF WriteSpec, WritePlan, PlanAfterSpec
<1>3. StartedTasks = {} /\ StartedTasks' = StartedTasks
  BY <1>1, <1>2 DEF LifeInv, WorkIsAllowed, StartedTasks
<1>4. BundleOnDisk = "none" /\ BundleOnDisk' = "none"
  BY <1>0, <1>2 DEF WriteSpec, WritePlan, Write, Ordered, BundleIsLast, BundleOnDisk
<1>5. OpenApprovals' = OpenApprovals
      \/ \E a \in {"spec", "plan"} \ OpenApprovals : OpenApprovals' = OpenApprovals \cup {a}
  <2>1. CASE WriteSpec
    <3>1. /\ ~SpecNeedsApproval
          /\ doc'.planRequired = doc.planRequired /\ doc'.planApproved = doc.planApproved
      BY <1>0, <2>1 DEF WriteSpec, RequiredOnDisk, SpecNeedsApproval, Document
    <3> QED
      BY <3>1 DEF OpenApprovals
  <2>2. CASE WritePlan
    <3>1. /\ ~doc.planRequired
          /\ doc'.specRequired = doc.specRequired /\ doc'.specApproved = doc.specApproved
      BY <1>0, <2>2 DEF WritePlan, RequiredOnDisk, Document
    <3> QED
      BY <3>1 DEF OpenApprovals, SpecNeedsApproval
  <2> QED
    BY <2>1, <2>2
<1> QED
  BY <1>1, <1>3, <1>4, <1>5 DEF LC!Next, LC!Ask, LC!Approvals, LC!lifecycle

LEMMA DryRunStep ==
    ASSUME LifeInv, DryRun
    PROVE  [LC!Next]_(LC!lifecycle)
<1>0. doc \in Document /\ RequiredOnDisk
  BY DEF LifeInv, ApprovalInv, TypeInv, TypeOK
<1>1. row = "none" /\ files = {} /\ UNCHANGED <<row, taskFile>>
  BY DEF DryRun, saved, tasksOnDisk
<1>2. StartedTasks = {} /\ StartedTasks' = StartedTasks
  BY <1>1 DEF LifeInv, WorkIsAllowed, StartedTasks
<1>3. BundleOnDisk = "none" /\ BundleOnDisk' = "none"
  BY <1>1 DEF DryRun, Write, BundleOnDisk
<1>4. OpenApprovals = {}
  BY <1>0, <1>1, OpenKnown DEF RequiredOnDisk, SpecNeedsApproval
<1>5. OpenApprovals' \in {{}, {"spec"}, {"plan"}, {"spec", "plan"}}
  BY DEF OpenApprovals
<1> QED
  BY <1>1, <1>2, <1>3, <1>4, <1>5 DEF LC!Next, LC!Ask, LC!AskAll, LC!Approvals, LC!lifecycle

LEMMA GiveStep ==
    ASSUME LifeInv, LifeInv', Approve
    PROVE  [LC!Next]_(LC!lifecycle)
<1>0. doc \in Document /\ RequiredOnDisk /\ TypeInv
  BY DEF LifeInv, ApprovalInv, TypeInv, TypeOK
<1>1. row = "human_required" /\ StartedTasks' = StartedTasks
  BY DEF Approve, ApproveSpec, ApprovePlan, ApproveRun, MayApprove, StartedTasks, tasksOnDisk
<1>2. BundleOnDisk' = BundleOnDisk
  <2>1. ~BuildEvidence
    BY DEF Approve, ApproveSpec, ApprovePlan, ApproveRun, MayApprove, BuildEvidence, saved,
           LifeInv
  <2> QED
    BY <1>0, <2>1, Writers, BundleSame DEF Next
<1>3. CASE ApproveSpec
  <2>1. row' = "running" /\ SpecNeedsApproval
    BY <1>3 DEF ApproveSpec
  <2>2. /\ doc'.specApproved
        /\ doc'.planRequired = doc.planRequired /\ doc'.planApproved = doc.planApproved
    BY <1>0, <1>3 DEF ApproveSpec, Document
  <2>3. OpenApprovals' = OpenApprovals \ {"spec"} /\ "spec" \in OpenApprovals
    BY <2>1, <2>2 DEF OpenApprovals, SpecNeedsApproval
  <2> QED
    BY <1>1, <1>2, <2>1, <2>3 DEF LC!Next, LC!Approve
<1>4. CASE ApprovePlan
  <2>1. row' = "running" /\ ~SpecNeedsApproval
    BY <1>0, <1>4 DEF ApprovePlan, RequiredOnDisk, SpecNeedsApproval
  <2>2. /\ doc'.planApproved
        /\ doc'.specRequired = doc.specRequired /\ doc'.specApproved = doc.specApproved
    BY <1>0, <1>4 DEF ApprovePlan, Document
  <2>3. OpenApprovals' = OpenApprovals \ {"plan"} /\ "spec" \notin OpenApprovals
    BY <2>1, <2>2 DEF OpenApprovals, SpecNeedsApproval
  <2> QED
    BY <1>1, <1>2, <2>1, <2>3 DEF LC!Next, LC!Approve
<1>5. CASE ApproveRun
  <2>1. row' = "approved" /\ OpenApprovals' = OpenApprovals
    BY <1>5, OpenStill DEF ApproveRun, Approvals
  <2>2. OpenApprovals = {}
    BY <1>0, <1>5, OpenKnown DEF ApproveRun, RequiredOnDisk, SpecNeedsApproval
  <2> QED
    BY <1>1, <1>2, <2>1, <2>2 DEF LC!Next, LC!Confirm
<1> QED
  BY <1>3, <1>4, <1>5 DEF Approve

LEMMA BeginStep ==
    ASSUME LifeInv, NEW t \in Tasks, WriteWorkerRequest(t), BundleStill, UNCHANGED Approvals
    PROVE  [LC!Next]_(LC!lifecycle)
<1>1. row = "running" /\ row' = row /\ OpenApprovals = {}
  BY RequestAllowed, AllowedOpen
<1>2. OpenApprovals' = OpenApprovals /\ BundleOnDisk' = BundleOnDisk
  BY OpenStill, BundleSame
<1>3. StartedTasks' = StartedTasks \cup {t}
  <2>1. taskFile \in [Tasks -> TaskFiles]
    BY DEF LifeInv, ApprovalInv, TypeInv, TypeOK
  <2> QED
    BY <2>1 DEF WriteWorkerRequest, StartedTasks, Results
<1>4. BundleOnDisk # "none" => t \in StartedTasks
  BY DEF BundleOnDisk, LifeInv, WorkIsAllowed
<1> QED
  BY <1>1, <1>2, <1>3, <1>4 DEF LC!Next, LC!StartTask, LC!lifecycle

LEMMA DeliverStep ==
    ASSUME LifeInv, NumTasks # 0, BuildEvidence
    PROVE  [LC!Next]_(LC!lifecycle)
<1>1. pc = "prepare_evidence" /\ "evidence" \notin files /\ UNCHANGED <<row, taskFile>>
  BY DEF BuildEvidence, At, saved, tasksOnDisk
<1>2. StartedTasks = Tasks /\ StartedTasks' = StartedTasks
  BY <1>1, BundleOfAll DEF StartedTasks
<1>3. Tasks # {}
  <2>1. 1 \in 1..NumTasks
    BY CountAssumption
  <2> QED
    BY <2>1 DEF Tasks
<1>4. OpenApprovals = {}
  BY <1>2, <1>3, AllowedOpen DEF LifeInv, WorkIsAllowed
<1>5. UNCHANGED Approvals
  <2>1. doc \in Document
    BY DEF LifeInv, ApprovalInv, TypeInv, TypeOK
  <2> QED
    BY <2>1 DEF BuildEvidence, Document, Approvals
<1>6. row = "running"
  <2>1. mem.status = "running"
    BY <1>1, AtNode, StandsKnown DEF LifeInv, Nodes
  <2> QED
    BY <1>1, <2>1 DEF LifeInv, RowRuns, Nodes
<1>7. BundleOnDisk = "none" /\ BundleOnDisk' \in {"incomplete", "complete"}
  BY <1>1 DEF BundleOnDisk, BuildEvidence, Write
<1> QED
  BY <1>1, <1>2, <1>4, <1>5, <1>6, <1>7, OpenStill DEF LC!Next, LC!Deliver

LEMMA LifeStep ==
    ASSUME LifeInv, LifeInv', NumTasks # 0, [Next]_vars
    PROVE  [LC!Next]_(LC!lifecycle)
<1>0. TypeInv /\ RowRuns
  BY DEF LifeInv, ApprovalInv
<1>1. CASE Asking
  BY <1>1, AskStep, DryRunStep DEF Asking
<1>2. CASE Approve
  BY <1>2, GiveStep
<1>3. CASE BuildEvidence
  BY <1>3, DeliverStep
<1>4. CASE ~Asking /\ ~Approve /\ ~BuildEvidence
  <2>1. BundleStill /\ UNCHANGED Approvals
    BY <1>0, <1>4, Writers DEF Approve
  <2>2. CASE \E t \in Tasks : WriteWorkerRequest(t)
    BY <2>1, <2>2, BeginStep
  <2>3. CASE ~\E t \in Tasks : WriteWorkerRequest(t)
    <3>1. /\ StartedTasks' = StartedTasks /\ OpenApprovals' = OpenApprovals
          /\ BundleOnDisk' = BundleOnDisk
      BY <2>1, <2>3, StartedGrow, OpenStill, BundleSame
    <3>2. row' \in Statuses \cup {row}
      BY <1>0, <1>4, StatusSteps DEF Approve
    <3>3. row' = "ready_for_human_review" => BundleOnDisk = "complete"
      BY <3>1 DEF LifeInv, SavedReady, SomeReady, Ready, BundleOnDisk
    <3> QED
      BY <3>1, <3>2, <3>3 DEF LC!Next, LC!Offer, LC!Report, LC!lifecycle, Statuses
  <2> QED
    BY <2>2, <2>3
<1> QED
  BY <1>1, <1>2, <1>3, <1>4

(* The workflow implements its life cycle: no task is handed to a worker   *)
(* before every approval that was asked for is given, nothing more is      *)
(* asked once work began, the bundle is made once, of all tasks, and only  *)
(* a complete one makes a run ready - whichever single write, save, crash  *)
(* or command comes next.  The LangGraph saver is installed, and a plan    *)
(* has at least one task.                                                  *)
THEOREM WorkflowImplementsLifecycle ==
    SaverAvailable /\ NumTasks # 0 => (Spec => ImplementsLifecycle)
<1> SUFFICES ASSUME SaverAvailable, NumTasks # 0 PROVE Spec => ImplementsLifecycle
  OBVIOUS
<1>1. Init => LC!Init
  BY DEF Init, LC!Init, OpenApprovals, SpecNeedsApproval, StartedTasks, BundleOnDisk
<1>2. LifeInv /\ [Next]_vars => LifeInv'
  BY NextLife
<1>3. LifeInv /\ LifeInv' /\ [Next]_vars => [LC!Next]_(LC!lifecycle)
  BY LifeStep
<1> QED
  BY <1>1, <1>2, <1>3, InitLife, PTL DEF Spec, ImplementsLifecycle, LC!Spec

-----------------------------------------------------------------------------
(* A run that is ready earned it.  A process that knows of a repair makes  *)
(* the gate report, the evaluation and the review anew, so it must not     *)
(* come to those nodes once a ready bundle is on disk (ReadyIsFinal): it   *)
(* leaves the graph at the bundle or for a person, which is all its        *)
(* checkpoints let a resume enter (RepairedStates, EntryStages) - or else  *)
(* an approval that was given again turned the plan or the integration     *)
(* stale and keeps every resume from the graph (Blocked).                  *)

Blocked == {"plan", "integration"} \cap stale # {}

Outside == {"start", "enter", "finish", "leave"}
Checking == {"run_quality_gates", "repair_failure", "evaluate_goal_satisfaction",
             "run_independent_review", "prepare_evidence"}
Halts == {"prepare_evidence", "human_required"}
Validating == {"validate_spec", "validate_execution_plan"}

(* A ready bundle says what the artifacts say.                             *)
ReadyIsTrue == Ready => doc.gate /\ doc.sat = "satisfied" /\ doc.review # "blocking"

(* Where a state that knows of a repair may be.                            *)
RepairedStates ==
    /\ mem.repaired => "integration" \in files
    /\ lg # NoState /\ lg.repaired => "integration" \in files
    /\ pc # "idle" /\ lg # NoState /\ lg.repaired => mem.repaired
    /\ lg = NoState => ~mem.repaired /\ (wf # NoState => ~wf.repaired)
    /\ lg # NoState /\ lg.repaired /\ ~Blocked => lg.stage \in Halts
    /\ mem.repaired /\ ~Blocked =>
          /\ pc \in Nodes => pc \in Checking
          /\ pc \in Outside => mem.stage \in Halts

(* Resumes start at a node before the dispatch or at the bundle.           *)
EntryStages ==
    /\ pc \in Outside => mem.stage \in Early \cup Halts
    /\ lg # NoState => lg.stage \in Early \cup Halts
    /\ lg = NoState /\ wf # NoState => wf.stage \in Early \cup Halts

(* A ready bundle does not meet a process that evaluates again.            *)
ReadyIsFinal ==
    /\ Ready /\ mem.repaired /\ ~Blocked /\ pc \in Checking => pc = "prepare_evidence"
    /\ pc = "repair_failure" => ~Ready

(* While a run is blocked its process is about to end.                     *)
BlockedEnds ==
    Blocked => \/ pc \in {"idle", "finish", "leave"}
               \/ pc \in Validating /\ mem.status = "human_required"

(* An approval meets only a process that is about to end.                  *)
RowFollows ==
    /\ row = "none" => lg = NoState /\ wf = NoState /\ pc \notin Nodes \cup {"enter", "leave"}
    /\ ~locked /\ pc = "start" => row = "none" /\ mem.status = "running"
    /\ ~locked /\ pc \in (Nodes \ Validating) \cup {"enter"} => mem.status = "running"

StaleOnDisk == stale \subseteq files

EarnedInv ==
    /\ LifeInv /\ StaleOnDisk /\ ReadyIsTrue /\ RepairedStates /\ EntryStages
    /\ ReadyIsFinal /\ BlockedEnds /\ RowFollows

LEMMA EarnedTypes ==
    ASSUME EarnedInv
    PROVE  /\ TypeInv /\ mem \in State /\ doc \in Document /\ Ordered(files) /\ BundleIsLast
           /\ pc \in Nodes => Stands(pc, mem, files)
           /\ (wf # NoState => wf \in State) /\ (lg # NoState => lg \in State)
BY DEF EarnedInv, LifeInv, ApprovalInv, DeliveryInv, MadeInOrder, PlaceStands, TypeInv, TypeOK

(* What the graph writes once does not block a run.                        *)
LEMMA WriteBlocked ==
    ASSUME Ordered(files), StaleOnDisk, ~Blocked, NEW a \in Names, Write({a}),
           a \in {"goal", "snapshot", "spec", "plan"} => a \notin files
    PROVE  ~Blocked' /\ StaleOnDisk'
<1>1. files' = files \cup {a} /\ stale' = (stale \ {a}) \cup {b \in files \ {a} : a \in Cited(b)}
  BY DEF Write
<1>2. Cited("plan") = {"spec", "snapshot"} /\ Cited("integration") = {"plan"}
  BY DEF Cited, Inputs
<1>3. "plan" \notin stale'
  BY <1>1, <1>2 DEF Ordered, Blocked
<1>4. "integration" \notin stale'
  BY <1>1, <1>2 DEF Ordered, Blocked
<1> QED
  BY <1>1, <1>3, <1>4 DEF StaleOnDisk, Blocked

LEMMA GraphStale ==
    ASSUME EarnedInv, Graph
    PROVE  (Blocked' <=> Blocked) /\ StaleOnDisk'
<1> USE NamesKnown
<1>0. Ordered(files) /\ StaleOnDisk
  BY EarnedTypes DEF EarnedInv
<1>1. ASSUME UNCHANGED <<files, stale>> PROVE (Blocked' <=> Blocked) /\ StaleOnDisk'
  BY <1>0, <1>1 DEF Blocked, StaleOnDisk
<1>2. ASSUME pc \notin Validating PROVE ~Blocked
  BY <1>2, GraphAtNode DEF EarnedInv, BlockedEnds, Nodes
<1>3. ASSUME NEW a \in Names, Write({a}), pc \notin Validating,
             a \in {"goal", "snapshot", "spec", "plan"} => a \notin files
      PROVE  (Blocked' <=> Blocked) /\ StaleOnDisk'
  BY <1>0, <1>2, <1>3, WriteBlocked
<1>4. CASE CollectGoal \/ InspectRepository \/ CreateVerificationPlan \/ IntegrateChanges
  BY <1>1, <1>3, <1>4 DEF CollectGoal, InspectRepository, CreateVerificationPlan,
                          IntegrateChanges, Produce, Record, Leave, At, Validating
<1>5. CASE DraftSpec
  BY <1>1, <1>3, <1>5 DEF DraftSpec, WriteSpec, ReuseSpec, StopForSpecApproval, AcceptSpec,
                          Leave, At, Validating
<1>6. CASE ValidateSpec \/ ValidateExecutionPlan
  BY <1>1, <1>6 DEF ValidateSpec, ValidateExecutionPlan, ValidateStage
<1>7. CASE CreateExecutionPlan
  <2>1. CASE WriteMissingVerificationPlan
    BY <1>3, <2>1 DEF WriteMissingVerificationPlan, At, Validating
  <2>2. CASE WritePlan
    BY <1>3, <2>2 DEF WritePlan, At, Validating
  <2>3. CASE DecidePlan
    BY <1>1, <2>3 DEF DecidePlan
  <2> QED
    BY <1>7, <2>1, <2>2, <2>3 DEF CreateExecutionPlan
<1>8. CASE MaterializeTasks
  BY <1>1, <1>8 DEF MaterializeTasks, Leave
<1>9. CASE DispatchTasks
  <2>1. ASSUME NEW t \in Tasks, RunWorker(t) PROVE (Blocked' <=> Blocked) /\ StaleOnDisk'
    <3>1. files' = files /\ \E changed \in {{}, {"evidence"} \cap files} : stale' = stale \cup changed
      BY <2>1 DEF RunWorker
    <3> QED
      BY <1>0, <3>1 DEF Blocked, StaleOnDisk
  <2>2. CASE ~\E t \in Tasks : RunWorker(t)
    BY <1>1, <1>9, <2>2 DEF DispatchTasks, DispatchTask, BeginDispatch, WriteTask,
         WriteWorkerRequest, WriteWorkerResult, RecordDispatch, RecordCompletion, ApplyPatch,
         StopDispatch, FinishDispatch, Leave
  <2> QED
    BY <2>1, <2>2
<1>10. CASE RunQualityGates
  <2>1. CASE RunGates
    BY <1>3, <2>1 DEF RunGates, At, Validating
  <2>2. CASE RequestToolCheck \/ RunToolCheck
    BY <1>3, <2>2 DEF RequestToolCheck, RunToolCheck, At, Validating
  <2>3. CASE DecideGates
    BY <1>1, <2>3 DEF DecideGates, Leave
  <2> QED
    BY <1>10, <2>1, <2>2, <2>3 DEF RunQualityGates
<1>11. CASE EvaluateSatisfaction
  BY <1>1, <1>3, <1>11 DEF EvaluateSatisfaction, EvaluateGoalSatisfaction, DecideSatisfaction,
                           Leave, At, Validating
<1>12. CASE RunIndependentReview
  BY <1>1, <1>3, <1>12 DEF RunIndependentReview, RunReview, RecordReview, Leave, At, Validating
<1>13. CASE RepairFailure
  BY <1>1, <1>13 DEF RepairFailure, ReuseRepairResult, BeginRepair, RunRepairWorker,
                     WriteRepairResult, RecordRepair, Leave
<1>14. CASE PrepareEvidence
  BY <1>1, <1>3, <1>14 DEF PrepareEvidence, BuildEvidence, RecordEvidence, Leave, At, Validating
<1> QED
  BY <1>4, <1>5, <1>6, <1>7, <1>8, <1>9, <1>10, <1>11, <1>12, <1>13, <1>14 DEF Graph

(* The verdicts the bundle is made from.                                   *)
Outcomes == <<doc.gate, doc.sat, doc.review>>

LEMMA GraphVerdicts ==
    ASSUME TypeInv, Graph
    PROVE  UNCHANGED Outcomes \/ RunGates \/ EvaluateGoalSatisfaction \/ RunReview
<1>0. doc \in Document
  BY DEF TypeInv, TypeOK
<1>1. CASE WriteSpec
  BY <1>0, <1>1 DEF WriteSpec, Outcomes, Document
<1>2. CASE WritePlan
  BY <1>0, <1>2 DEF WritePlan, Outcomes, Document
<1>3. CASE BuildEvidence
  BY <1>0, <1>3 DEF BuildEvidence, Outcomes, Document
<1>4. ASSUME doc' = doc PROVE UNCHANGED Outcomes
  BY <1>4 DEF Outcomes
<1>5. CASE DispatchTasks
  BY <1>4, <1>5 DEF DispatchTasks, DispatchTask, BeginDispatch, WriteTask, WriteWorkerRequest,
       RunWorker, WriteWorkerResult, RecordDispatch, RecordCompletion, ApplyPatch, StopDispatch,
       FinishDispatch, Leave
<1>6. CASE RunQualityGates \/ EvaluateSatisfaction \/ RunIndependentReview \/ RepairFailure
  BY <1>4, <1>6 DEF RunQualityGates, EvaluateSatisfaction, RunIndependentReview, RepairFailure,
       RequestToolCheck, RunToolCheck, DecideGates, DecideSatisfaction, RecordReview,
       ReuseRepairResult, BeginRepair, RunRepairWorker, WriteRepairResult, RecordRepair, Leave
<1>7. CASE \/ CollectGoal \/ InspectRepository \/ DraftSpec \/ ValidateSpec
           \/ CreateVerificationPlan \/ CreateExecutionPlan \/ ValidateExecutionPlan
           \/ MaterializeTasks \/ IntegrateChanges \/ PrepareEvidence
  BY <1>1, <1>2, <1>3, <1>4, <1>7 DEF CollectGoal, InspectRepository, CreateVerificationPlan,
       IntegrateChanges, Produce, Record, Leave, DraftSpec, ReuseSpec, StopForSpecApproval,
       AcceptSpec, ValidateSpec, ValidateExecutionPlan, ValidateStage, CreateExecutionPlan,
       WriteMissingVerificationPlan, DecidePlan, MaterializeTasks, PrepareEvidence,
       RecordEvidence
<1> QED
  BY <1>5, <1>6, <1>7 DEF Graph

(* Nothing is evaluated again once a ready bundle is on disk.              *)
LEMMA NotAgain ==
    ASSUME EarnedInv, pc \in Checking \ {"prepare_evidence"}, mem.repaired
    PROVE  ~Ready
BY DEF EarnedInv, ReadyIsFinal, BlockedEnds, Checking, Validating

LEMMA GraphReady ==
    ASSUME EarnedInv, Graph
    PROVE  ReadyIsTrue' /\ (Ready' => Ready \/ BuildEvidence)
<1>0. /\ TypeInv /\ doc \in Document /\ BundleIsLast /\ ReadyIsTrue
      /\ pc \in Nodes => Stands(pc, mem, files)
  BY EarnedTypes DEF EarnedInv
<1>1. CASE BuildEvidence
  <2>1. "sat" \in files
    BY <1>0, <1>1, StandsKnown DEF BuildEvidence, At, Nodes
  <2>2. doc'.ready = EvidenceReady /\ UNCHANGED Outcomes
    BY <1>0, <1>1 DEF BuildEvidence, Document, Outcomes
  <2>3. ReadyIsTrue'
    BY <2>1, <2>2 DEF ReadyIsTrue, Ready, EvidenceReady, Outcomes
  <2> QED
    BY <1>1, <2>3
<1>2. CASE BundleStill
  <2>1. Ready' <=> Ready
    BY <1>2 DEF BundleStill, Ready
  <2>2. CASE UNCHANGED Outcomes
    BY <1>0, <2>1, <2>2 DEF ReadyIsTrue, Outcomes
  <2>3. CASE RunGates \/ EvaluateGoalSatisfaction \/ RunReview
    <3>1. ~Ready
      BY <1>0, <2>3, NotAgain
         DEF RunGates, EvaluateGoalSatisfaction, RunReview, ReuseGateReport, ReuseSatisfaction,
             ReuseReview, At, Checking, Ready, BundleIsLast
    <3> QED
      BY <2>1, <3>1 DEF ReadyIsTrue
  <2> QED
    BY <1>0, <2>1, <2>2, <2>3, GraphVerdicts
<1> QED
  BY <1>0, <1>1, <1>2, GraphWriters

(* Where a step of the graph leads.                                        *)
Route ==
    \/ pc' = pc /\ mem'.status = mem.status
    \/ pc' = "finish" /\ mem'.stage \in Halts
    \/ pc \in Validating /\ pc' = "finish" /\ mem'.stage = pc
    \/ /\ pc' \in Nodes \ {"repair_failure"} /\ pc # "prepare_evidence"
       /\ pc \in Checking => pc' \in Checking
       /\ pc' \in Validating \/ mem'.status = mem.status
       /\ pc \in Validating => mem.status # "human_required"
    \/ /\ pc \in Checking \ {"prepare_evidence"} /\ pc' = "repair_failure"
       /\ mem'.status = mem.status /\ ~Ready'

RepairNoted ==
    \/ mem'.repaired = mem.repaired
    \/ pc = "repair_failure" /\ pc' = "run_quality_gates" /\ mem'.repaired

Onward == UNCHANGED <<lg, locked>> /\ RepairNoted /\ Route

LEMMA OnwardStay ==
    ASSUME UNCHANGED <<pc, mem, lg, locked>>
    PROVE  Onward
BY DEF Onward, RepairNoted, Route

LEMMA OnwardLeave ==
    ASSUME NEW s, NEW next \in Nodes \ {"repair_failure"}, Leave(s, next),
           s.repaired = mem.repaired, next \in Validating \/ s.status = mem.status,
           pc \notin Validating, pc # "prepare_evidence", pc \in Checking => next \in Checking
    PROVE  Onward
BY DEF Leave, Save, Goto, session, Onward, RepairNoted, Route

LEMMA OnwardHalt ==
    ASSUME NEW s, Leave(s, "finish"), s.repaired = mem.repaired, s.stage \in Halts
    PROVE  Onward
BY DEF Leave, Save, Goto, session, Onward, RepairNoted, Route

LEMMA OnwardEarly ==
    ASSUME EarnedInv,
           \/ CollectGoal \/ InspectRepository \/ DraftSpec \/ ValidateSpec
           \/ CreateVerificationPlan \/ CreateExecutionPlan \/ ValidateExecutionPlan
           \/ MaterializeTasks
    PROVE  Onward
<1>0. mem \in State /\ (pc \in Nodes => Stands(pc, mem, files))
  BY EarnedTypes
<1>1. CASE CollectGoal \/ InspectRepository \/ CreateVerificationPlan
  <2>1. ASSUME NEW node, NEW a, Produce(node, a) PROVE Onward
    BY <2>1, OnwardStay DEF Produce, control, saved, session
  <2>2. ASSUME NEW node \in Nodes \ (Validating \cup Checking), NEW a, NEW stage,
               NEW next \in Nodes \ {"repair_failure"}, Record(node, a, stage, next)
        PROVE  Onward
    <3>1. pc = node
      BY <2>2 DEF Record, At
    <3> QED
      BY <1>0, <2>2, <3>1, OnwardLeave DEF Record, State, Checking
  <2> QED
    BY <1>1, <2>1, <2>2
       DEF CollectGoal, InspectRepository, CreateVerificationPlan, Nodes, Validating, Checking
<1>2. CASE DraftSpec
  <2>1. CASE WriteSpec \/ ReuseSpec
    BY <2>1, OnwardStay DEF WriteSpec, ReuseSpec, Stay, Save, saved, session
  <2>2. CASE StopForSpecApproval \/ AcceptSpec
    BY <1>0, <2>2 DEF StopForSpecApproval, AcceptSpec, Leave, Save, saved, Goto, At, session,
                      State, Onward, RepairNoted, Route, Nodes, Validating, Checking
  <2> QED
    BY <1>2, <2>1, <2>2 DEF DraftSpec
<1>3. CASE ValidateSpec \/ ValidateExecutionPlan
  <2>1. /\ pc \in Validating /\ mem' = [mem EXCEPT !.stage = pc] /\ UNCHANGED <<lg, locked>>
        /\ \/ mem.status = "human_required" /\ pc' = "finish"
           \/ /\ mem.status # "human_required"
              /\ pc' \in {"create_verification_plan", "materialize_tasks"}
    BY <1>3 DEF ValidateSpec, ValidateExecutionPlan, ValidateStage, At, RouteAfterStop, Goto,
                saved, session, Validating
  <2> QED
    BY <1>0, <2>1 DEF State, Onward, RepairNoted, Route, Nodes, Validating, Checking
<1>4. CASE CreateExecutionPlan
  <2>1. CASE WriteMissingVerificationPlan \/ WritePlan
    BY <2>1, OnwardStay DEF WriteMissingVerificationPlan, WritePlan, Stay, control, saved, session
  <2>2. CASE DecidePlan
    BY <1>0, <2>2 DEF DecidePlan, Save, Goto, At, session, State, Onward, RepairNoted, Route,
                      Nodes, Validating, Checking
  <2> QED
    BY <1>4, <2>1, <2>2 DEF CreateExecutionPlan
<1>5. CASE MaterializeTasks
  BY <1>0, <1>5 DEF MaterializeTasks, Leave, Save, Goto, At, session, State, Onward,
                    RepairNoted, Route, Nodes, Validating, Checking
<1> QED
  BY <1>1, <1>2, <1>3, <1>4, <1>5

LEMMA OnwardWork ==
    ASSUME EarnedInv, DispatchTasks \/ IntegrateChanges
    PROVE  Onward
<1>0. mem \in State /\ (pc \in Nodes => Stands(pc, mem, files))
  BY EarnedTypes
<1>1. CASE IntegrateChanges
  <2>1. CASE Produce("integrate_changes", "integration")
    BY <2>1, OnwardStay DEF Produce, control, saved, session
  <2>2. CASE Record("integrate_changes", "integration", "run_quality_gates", "run_quality_gates")
    BY <1>0, <2>2, OnwardLeave DEF Record, At, State, Nodes, Validating, Checking
  <2> QED
    BY <1>1, <2>1, <2>2 DEF IntegrateChanges
<1>2. ASSUME NEW t \in Tasks, DispatchTask(t) PROVE Onward
  <2>1. CASE RecordDispatch(t) \/ RecordCompletion(t)
    BY <1>0, <2>1 DEF RecordDispatch, RecordCompletion, Save, control, session, State, Onward,
                      RepairNoted, Route
  <2>2. CASE ~(RecordDispatch(t) \/ RecordCompletion(t))
    BY <1>2, <2>2, OnwardStay DEF DispatchTask, WriteTask, WriteWorkerRequest, RunWorker,
       WriteWorkerResult, ApplyPatch, control, saved, session
  <2> QED
    BY <2>1, <2>2
<1>3. CASE BeginDispatch
  BY <1>0, <1>3 DEF BeginDispatch, Stay, saved, session, State, Onward, RepairNoted, Route
<1>4. CASE StopDispatch
  BY <1>0, <1>4 DEF StopDispatch, Save, Goto, session, State, Onward, RepairNoted, Route, Halts
<1>5. CASE FinishDispatch
  <2>1. PICK s : /\ s = IF Sequential THEN mem ELSE [mem EXCEPT !.workers = Tasks, !.done = Tasks]
                 /\ Leave(s, RouteAfterStop(s, "integrate_changes"))
    BY <1>5 DEF FinishDispatch
  <2>2. pc = "dispatch_tasks" /\ mem.status = "running"
    BY <1>0, <1>5, StandsKnown DEF FinishDispatch, Dispatching, At, Nodes
  <2>3. s.status = "running" /\ s.repaired = mem.repaired
    BY <1>0, <2>1, <2>2 DEF State
  <2>4. Leave(s, "integrate_changes")
    BY <2>1, <2>3 DEF RouteAfterStop
  <2> QED
    BY <2>2, <2>3, <2>4, OnwardLeave DEF Nodes, Validating, Checking
<1> QED
  BY <1>1, <1>2, <1>3, <1>4, <1>5 DEF DispatchTasks

LEMMA OnwardCheck ==
    ASSUME EarnedInv, ~RepairAfterReview,
           RunQualityGates \/ EvaluateSatisfaction \/ RunIndependentReview
    PROVE  Onward
<1>0. /\ mem \in State /\ doc \in Document /\ (pc \in Nodes => Stands(pc, mem, files))
      /\ ReadyIsTrue
  BY EarnedTypes DEF EarnedInv
<1>1. CASE \/ RunGates \/ RequestToolCheck \/ RunToolCheck \/ EvaluateGoalSatisfaction
           \/ RunReview
  BY <1>1, OnwardStay DEF RunGates, RequestToolCheck, RunToolCheck, EvaluateGoalSatisfaction,
                          RunReview, Stay, saved, session
<1>a. ASSUME NEW s, Leave(s, "repair_failure"), s.repaired = mem.repaired,
             s.status = mem.status, pc \in Checking \ {"prepare_evidence"}, ~Ready
      PROVE  Onward
  <2>1. ~Ready'
    BY <1>a DEF Leave, Ready
  <2> QED
    BY <1>a, <2>1 DEF Leave, Save, Goto, session, Onward, RepairNoted, Route
<1>2. CASE DecideGates
  <2> DEFINE noted == [mem EXCEPT !.stage = "run_quality_gates", !.arts = @ \cup {"gate"},
                                  !.gatePassed = doc.gate]
             halted == [noted EXCEPT !.status = "human_required", !.stage = "human_required"]
  <2>1. pc = "run_quality_gates" /\ mem.status = "running"
    BY <1>0, <1>2, StandsKnown DEF DecideGates, At, Nodes
  <2>2. /\ noted.status = mem.status /\ noted.repaired = mem.repaired
        /\ noted.gatePassed = doc.gate
        /\ halted.status = "human_required" /\ halted.stage = "human_required"
        /\ halted.repaired = mem.repaired
    BY <1>0 DEF State
  <2>3. CASE StopForGateFailure
    <3>1. Leave(halted, RouteAfterGates(halted))
      BY <1>2, <2>3 DEF DecideGates
    <3> HIDE DEF noted, halted
    <3> QED
      BY <2>2, <3>1, OnwardHalt DEF RouteAfterGates, RouteAfterStop, Halts
  <2>4. CASE ~StopForGateFailure
    <3>1. Leave(noted, RouteAfterGates(noted))
      BY <1>2, <2>4 DEF DecideGates
    <3> HIDE DEF noted, halted
    <3>2. CASE doc.gate
      BY <2>1, <2>2, <3>1, <3>2, OnwardLeave
         DEF RouteAfterGates, RouteAfterStop, Nodes, Validating, Checking
    <3>3. CASE ~doc.gate
      <4>1. RouteAfterGates(noted) \in {"repair_failure", "prepare_evidence"}
        BY <2>1, <2>2, <3>3 DEF RouteAfterGates, RouteAfterStop
      <4>2. CASE RouteAfterGates(noted) = "repair_failure"
        BY <1>0, <1>a, <2>1, <2>2, <3>1, <3>3, <4>2 DEF ReadyIsTrue, Checking
      <4>3. CASE RouteAfterGates(noted) = "prepare_evidence"
        BY <2>1, <2>2, <3>1, <4>3, OnwardLeave DEF Nodes, Validating, Checking
      <4> QED
        BY <4>1, <4>2, <4>3
    <3> QED
      BY <3>2, <3>3
  <2> QED
    BY <2>3, <2>4
<1>3. CASE DecideSatisfaction
  <2> DEFINE noted == [mem EXCEPT !.stage = "evaluate_goal_satisfaction",
                                  !.arts = @ \cup {"sat"},
                                  !.goalSatisfied = doc.sat = "satisfied"]
             s == IF doc.sat = "satisfied" THEN noted
                  ELSE [noted EXCEPT !.satAttempts = SatAttempts, !.satError = doc.satError]
  <2>1. pc = "evaluate_goal_satisfaction"
    BY <1>3 DEF DecideSatisfaction, At
  <2>2. /\ s.status = mem.status /\ s.repaired = mem.repaired
        /\ s.goalSatisfied = (doc.sat = "satisfied")
    BY <1>0 DEF State
  <2>3. Leave(s, RouteAfterSatisfaction(s))
    BY <1>3 DEF DecideSatisfaction
  <2> HIDE DEF s
  <2>4. CASE RouteAfterSatisfaction(s) = "repair_failure"
    <3>1. ~Ready
      BY <1>0, <2>2, <2>4 DEF RouteAfterSatisfaction, ReadyIsTrue
    <3> QED
      BY <1>a, <2>1, <2>2, <2>3, <2>4, <3>1 DEF Checking
  <2>5. CASE RouteAfterSatisfaction(s) = "run_independent_review"
    BY <2>1, <2>2, <2>3, <2>5, OnwardLeave DEF Nodes, Validating, Checking
  <2> QED
    BY <2>4, <2>5 DEF RouteAfterSatisfaction
<1>4. CASE RecordReview
  <2> DEFINE s == [mem EXCEPT !.stage = "run_independent_review", !.arts = @ \cup {"review"},
                              !.reviewPassed = doc.review = "pass"]
  <2>1. pc = "run_independent_review"
    BY <1>4 DEF RecordReview, At
  <2>2. s.status = mem.status /\ s.repaired = mem.repaired
    BY <1>0 DEF State
  <2>3. Leave(s, RouteAfterReview(s))
    BY <1>4 DEF RecordReview
  <2> HIDE DEF s
  <2>4. RouteAfterReview(s) = "prepare_evidence"
    BY DEF RouteAfterReview
  <2> QED
    BY <2>1, <2>2, <2>3, <2>4, OnwardLeave DEF Nodes, Validating, Checking
<1> QED
  BY <1>1, <1>2, <1>3, <1>4 DEF RunQualityGates, EvaluateSatisfaction, RunIndependentReview

LEMMA OnwardRepair ==
    ASSUME EarnedInv, RepairFailure \/ PrepareEvidence
    PROVE  Onward
<1>0. mem \in State
  BY EarnedTypes
<1>1. CASE ReuseRepairResult \/ RecordRepair
  BY <1>0, <1>1 DEF ReuseRepairResult, RecordRepair, Leave, Save, Goto, At, session, State,
                    Onward, RepairNoted, Route, Nodes, Validating, Checking
<1>2. CASE BeginRepair
  BY <1>0, <1>2 DEF BeginRepair, Save, Stay, session, State, Onward, RepairNoted, Route
<1>3. CASE RunRepairWorker \/ WriteRepairResult \/ BuildEvidence
  BY <1>3, OnwardStay DEF RunRepairWorker, WriteRepairResult, BuildEvidence, Stay, control,
                          saved, session
<1>4. CASE RecordEvidence
  <2>1. PICK s : /\ s = [mem EXCEPT !.stage = "prepare_evidence", !.arts = @ \cup {"evidence"},
                                    !.status = IF doc.ready THEN "ready_for_human_review"
                                                            ELSE "human_required"]
                 /\ Leave(s, "finish")
    BY <1>4 DEF RecordEvidence
  <2> QED
    BY <1>0, <2>1, OnwardHalt DEF State, Halts
<1> QED
  BY <1>1, <1>2, <1>3, <1>4 DEF RepairFailure, PrepareEvidence

LEMMA GraphOnward ==
    ASSUME EarnedInv, ~RepairAfterReview, Graph
    PROVE  Onward
BY OnwardEarly, OnwardWork, OnwardCheck, OnwardRepair DEF Graph

LEMMA EarnedGraph ==
    ASSUME EarnedInv, ~RepairAfterReview, Graph, LifeInv'
    PROVE  EarnedInv'
<1>0. /\ Onward /\ (Blocked' <=> Blocked) /\ StaleOnDisk' /\ ReadyIsTrue'
      /\ (Ready' => Ready \/ BuildEvidence) /\ pc \in Nodes
      /\ mem.status \in Statuses /\ (pc \in Early => mem.status # "ready_for_human_review")
  BY GraphOnward, GraphStale, GraphReady, GraphAtNode, EarnedTypes DEF State, Stands
<1>a. files \subseteq files' /\ lg # NoState
  BY <1>0, GraphKept DEF EarnedInv, LifeInv, ApprovalInv, ThreadAllowed, Kept
<1>b. mem'.repaired => mem.repaired \/ pc = "repair_failure"
  BY <1>0 DEF Onward, RepairNoted
<1>c. Blocked => pc \in Validating /\ mem.status = "human_required"
  BY <1>0 DEF EarnedInv, BlockedEnds, Nodes
<1>d. mem.repaired /\ ~Blocked => pc \in Checking
  BY <1>0 DEF EarnedInv, RepairedStates
<1>1. RepairedStates'
  <2>1. mem'.repaired => "integration" \in files'
    <3>1. CASE mem.repaired
      BY <1>a, <3>1 DEF EarnedInv, RepairedStates
    <3>2. CASE pc = "repair_failure"
      BY <1>0, <1>a, <3>2, EarnedTypes, StandsKnown
    <3> QED
      BY <1>b, <3>1, <3>2
  <2>2. lg'.repaired => "integration" \in files' /\ mem'.repaired
    BY <1>0, <1>a DEF EarnedInv, RepairedStates, Onward, RepairNoted, Nodes
  <2>3. lg'.repaired /\ ~Blocked' => lg'.stage \in Halts
    BY <1>0, <1>a DEF EarnedInv, RepairedStates, Onward
  <2>4. ASSUME mem'.repaired, ~Blocked'
        PROVE  /\ pc' \in Nodes => pc' \in Checking
               /\ pc' \in Outside => mem'.stage \in Halts
    <3>1. pc \in Checking
      BY <1>0, <1>b, <1>d, <2>4 DEF Checking
    <3> QED
      BY <1>0, <3>1 DEF Onward, Route, Checking, Validating, Outside, Nodes
  <2> QED
    BY <1>0, <1>a, <2>1, <2>2, <2>3, <2>4 DEF RepairedStates, Onward
<1>2. EntryStages'
  BY <1>0, <1>a DEF EarnedInv, EntryStages, Onward, Route, Outside, Nodes, Halts, Early, Validating
<1>3. ReadyIsFinal'
  <2>1. ASSUME Ready', mem'.repaired, ~Blocked', pc' \in Checking PROVE pc' = "prepare_evidence"
    <3>1. CASE BuildEvidence
      BY <3>1 DEF BuildEvidence, At, control
    <3>2. CASE Ready
      <4>1. pc # "repair_failure" /\ mem.repaired
        BY <1>b, <2>1, <3>2 DEF EarnedInv, ReadyIsFinal
      <4>2. pc = "prepare_evidence"
        BY <1>0, <1>d, <2>1, <3>2, <4>1 DEF EarnedInv, ReadyIsFinal
      <4> QED
        BY <1>0, <2>1, <4>2 DEF Onward, Route, Checking, Validating
    <3> QED
      BY <1>0, <2>1, <3>1, <3>2
  <2>2. ASSUME pc' = "repair_failure" PROVE ~Ready'
    <3>1. CASE pc' = pc
      BY <1>0, <2>2, <3>1 DEF EarnedInv, ReadyIsFinal, BuildEvidence, At
    <3>2. CASE pc' # pc
      BY <1>0, <2>2, <3>2 DEF Onward, Route, Validating
    <3> QED
      BY <3>1, <3>2
  <2> QED
    BY <2>1, <2>2 DEF ReadyIsFinal
<1>4. BlockedEnds'
  BY <1>0, <1>c DEF BlockedEnds, Onward, Route, Checking, Validating
<1>5. RowFollows'
  <2>1. row' # "none"
    BY <1>0, GraphStatus, EarnedTypes DEF EarnedInv, RowFollows, StatusMove, Statuses, State,
       LifeInv, ApprovalInv, TypeInv, TypeOK
  <2>2. pc' \notin {"start", "enter"}
    BY <1>0 DEF Onward, Route, Nodes
  <2>3. ~locked' /\ pc' \in Nodes \ Validating => mem'.status = "running"
    <3>1. ~locked => pc \in Validating \/ mem.status = "running"
      BY <1>0 DEF EarnedInv, RowFollows
    <3> QED
      BY <1>0, <3>1 DEF Onward, Route, Statuses, Validating, Checking, Early, Nodes
  <2> QED
    BY <2>1, <2>2, <2>3 DEF RowFollows, Nodes
<1> QED
  BY <1>0, <1>1, <1>2, <1>3, <1>4, <1>5 DEF EarnedInv

(* Outside the graph the bundle and what it was made from stay as they     *)
(* are.                                                                    *)
LEMMA ReadyStill ==
    ASSUME EarnedInv, UNCHANGED <<files, doc>>
    PROVE  (Ready' <=> Ready) /\ ReadyIsTrue'
BY DEF EarnedInv, ReadyIsTrue, Ready

LEMMA EarnedThread ==
    ASSUME EarnedInv, SaverAvailable, SaveLangGraph(mem), pc # "idle"
    PROVE  /\ lg' # NoState /\ lg'.stage = mem.stage
           /\ lg'.repaired => mem.repaired
<1>1. mem \in State
  BY EarnedTypes
<1>2. lg' # NoState
  BY <1>1, SaveLangGraphType, NoStateAssumption DEF EarnedInv, LifeInv, ApprovalInv, TypeInv
<1> QED
  BY <1>1, <1>2 DEF SaveLangGraph, State, EarnedInv, RepairedStates

LEMMA EarnedProcess ==
    ASSUME EarnedInv, LifeInv', SaverAvailable, Start \/ Enter \/ Finish \/ Exit
    PROVE  EarnedInv'
<1>0. mem \in State /\ mem.status \in Statuses
  BY EarnedTypes DEF State
<1>a. UNCHANGED <<files, stale, doc>> /\ (Blocked' <=> Blocked) /\ StaleOnDisk'
  BY DEF Start, Enter, Finish, Exit, Blocked, EarnedInv, StaleOnDisk
<1>b. (Ready' <=> Ready) /\ ReadyIsTrue'
  BY <1>a, ReadyStill
<1>1. CASE Start \/ Finish
  <2>1. /\ UNCHANGED <<mem, lg, locked>> /\ wf' = mem /\ row' = mem.status
        /\ \/ pc = "start" /\ pc' = "enter"
           \/ pc = "finish" /\ pc' = "leave"
    BY <1>1 DEF Start, Finish, Save, session
  <2>2. RepairedStates' /\ EntryStages'
    BY <1>a, <2>1 DEF EarnedInv, RepairedStates, EntryStages, Outside, Nodes
  <2>3. ReadyIsFinal' /\ BlockedEnds'
    BY <1>a, <2>1 DEF EarnedInv, ReadyIsFinal, BlockedEnds, Checking, Validating
  <2>4. RowFollows'
    BY <1>0, <2>1 DEF EarnedInv, RowFollows, Statuses, Nodes
  <2> QED
    BY <1>a, <1>b, <2>2, <2>3, <2>4 DEF EarnedInv
<1>2. CASE Enter
  <2>1. /\ pc = "enter" /\ pc' = EntryNode(mem) /\ UNCHANGED <<mem, row, wf, locked>>
        /\ SaveLangGraph(mem)
    BY <1>2 DEF Enter, Goto, session
  <2>2. lg' # NoState /\ lg'.stage = mem.stage /\ (lg'.repaired => mem.repaired)
    BY <2>1, EarnedThread
  <2>3. mem.stage \in Early \cup Halts /\ ~Blocked
        /\ (mem.repaired => mem.stage \in Halts /\ "integration" \in files)
    BY <2>1 DEF EarnedInv, RepairedStates, EntryStages, BlockedEnds, Outside, Validating
  <2>4. \/ pc' = "finish" /\ mem.stage \notin Nodes
        \/ pc' \in Nodes /\ pc' = mem.stage
    BY <2>1 DEF EntryNode
  <2>5. RepairedStates'
    BY <1>a, <2>1, <2>2, <2>3, <2>4 DEF RepairedStates, Halts, Nodes, Checking
  <2>6. EntryStages'
    BY <2>1, <2>2, <2>3 DEF EntryStages
  <2>7. ReadyIsFinal' /\ BlockedEnds'
    BY <1>a, <2>1, <2>3, <2>4 DEF ReadyIsFinal, BlockedEnds, Early, Halts, Checking, Nodes
  <2>8. RowFollows'
    BY <2>1, <2>4 DEF EarnedInv, RowFollows, Nodes
  <2> QED
    BY <1>a, <1>b, <2>5, <2>6, <2>7, <2>8 DEF EarnedInv
<1>3. CASE Exit
  <2>1. /\ pc = "leave" /\ pc' = "idle" /\ mem' = Fresh /\ UNCHANGED <<row, wf>>
        /\ SaveLangGraph(mem)
    BY <1>3 DEF Exit, Forget
  <2>2. lg' # NoState /\ lg'.stage = mem.stage /\ (lg'.repaired => mem.repaired)
    BY <2>1, EarnedThread
  <2>3. ~Fresh.repaired
    BY DEF Fresh
  <2>4. RepairedStates'
    BY <1>a, <2>1, <2>2, <2>3 DEF EarnedInv, RepairedStates, Outside, Nodes
  <2>5. EntryStages'
    BY <2>1, <2>2 DEF EarnedInv, EntryStages, Outside
  <2>6. ReadyIsFinal' /\ BlockedEnds' /\ RowFollows'
    BY <2>1 DEF EarnedInv, ReadyIsFinal, BlockedEnds, RowFollows, Checking, Nodes
  <2> QED
    BY <1>a, <1>b, <2>4, <2>5, <2>6 DEF EarnedInv
<1> QED
  BY <1>1, <1>2, <1>3

LEMMA EarnedEnd ==
    ASSUME EarnedInv, LifeInv', ExceedRecursion \/ Crash \/ LockExpires
    PROVE  EarnedInv'
<1>0. /\ UNCHANGED <<row, wf, lg, files, stale, doc>> /\ (Blocked' <=> Blocked)
      /\ StaleOnDisk' /\ pc' = "idle"
  BY DEF ExceedRecursion, Crash, LockExpires, Forget, saved, control, Blocked, EarnedInv,
         StaleOnDisk
<1>1. ~mem'.repaired \/ mem' = mem
  BY DEF ExceedRecursion, Crash, LockExpires, Forget, Fresh
<1>2. (Ready' <=> Ready) /\ ReadyIsTrue'
  BY <1>0, ReadyStill
<1>3. RepairedStates' /\ EntryStages'
  BY <1>0, <1>1 DEF EarnedInv, RepairedStates, EntryStages, Outside, Nodes
<1>4. ReadyIsFinal' /\ BlockedEnds' /\ RowFollows'
  BY <1>0 DEF EarnedInv, ReadyIsFinal, BlockedEnds, RowFollows, Checking, Nodes
<1> QED
  BY <1>0, <1>2, <1>3, <1>4 DEF EarnedInv

LEMMA EarnedStart ==
    ASSUME EarnedInv, LifeInv', SaverAvailable, Run \/ DryRun \/ Resume
    PROVE  EarnedInv'
<1>1. CASE Run
  <2>1. /\ UNCHANGED <<row, wf, lg, files, stale, doc, locked>> /\ row = "none" /\ files = {}
        /\ pc' = "start" /\ mem' = Fresh
    BY <1>1 DEF Run, saved, session
  <2>2. ~Fresh.repaired /\ Fresh.stage = "collect_goal" /\ Fresh.status = "running"
    BY DEF Fresh
  <2>3. stale = {} /\ ~Blocked'
    BY <2>1 DEF EarnedInv, StaleOnDisk, Blocked
  <2>4. lg = NoState /\ wf = NoState
    BY <2>1 DEF EarnedInv, RowFollows
  <2>5. RepairedStates' /\ EntryStages'
    BY <2>1, <2>2, <2>4 DEF RepairedStates, EntryStages, Early
  <2>6. StaleOnDisk' /\ ReadyIsFinal' /\ BlockedEnds' /\ RowFollows'
    BY <2>1, <2>2, <2>3, <2>4 DEF StaleOnDisk, ReadyIsFinal, BlockedEnds, RowFollows, Checking,
                                  Nodes
  <2>7. ReadyIsTrue'
    BY <2>1, ReadyStill
  <2> QED
    BY <2>5, <2>6, <2>7 DEF EarnedInv
<1>2. CASE DryRun
  <2>1. /\ UNCHANGED <<row, wf, lg, locked>> /\ row = "none" /\ files = {} /\ pc' = "finish"
        /\ Write({"goal", "snapshot", "spec", "vplan", "plan"})
    BY <1>2 DEF DryRun, saved
  <2>2. ~mem'.repaired /\ mem'.stage = "validate_execution_plan"
    BY <1>2, FreshType DEF DryRun, State, Fresh
  <2>3. StaleOnDisk' /\ ~Ready'
    BY <2>1 DEF Write, EarnedInv, StaleOnDisk, Ready
  <2>4. lg = NoState /\ wf = NoState
    BY <2>1 DEF EarnedInv, RowFollows
  <2>5. RepairedStates' /\ EntryStages'
    BY <2>1, <2>2, <2>4 DEF RepairedStates, EntryStages, Early
  <2>6. ReadyIsTrue' /\ ReadyIsFinal' /\ BlockedEnds' /\ RowFollows'
    BY <2>1, <2>3, <2>4 DEF ReadyIsTrue, ReadyIsFinal, BlockedEnds, RowFollows, Checking, Nodes
  <2> QED
    BY <2>3, <2>5, <2>6 DEF EarnedInv
<1>3. CASE Resume
  <2>1. /\ pc = "idle" /\ UNCHANGED <<row, wf, lg, files, stale, doc>> /\ locked'
        /\ row # "none" /\ Remembered # NoState
    BY <1>3 DEF Resume, saved
  <2>2. /\ Remembered \in State
        /\ lg # NoState => Remembered = lg
        /\ lg = NoState => Remembered = wf /\ wf # NoState
    BY <2>1, EarnedTypes DEF Remembered
  <2>3. mem'.repaired = Remembered.repaired
        /\ \/ pc' = "finish" /\ mem'.stage = "human_required"
           \/ /\ pc' = "start" /\ stale = {}
              /\ mem'.stage \in {Remembered.stage, "collect_goal"}
              /\ Remembered.repaired => mem'.stage = Remembered.stage
    BY <1>3, <2>2 DEF Resume, ArtifactsComplete, State
  <2>4. (Blocked' <=> Blocked) /\ StaleOnDisk' /\ (pc' = "start" => ~Blocked)
    BY <2>1, <2>3 DEF EarnedInv, StaleOnDisk, Blocked
  <2>5. RepairedStates'
    BY <2>1, <2>2, <2>3, <2>4 DEF EarnedInv, RepairedStates, Nodes, Halts
  <2>6. EntryStages'
    BY <2>1, <2>2, <2>3 DEF EarnedInv, EntryStages, Early, Halts
  <2>7. ReadyIsFinal' /\ BlockedEnds' /\ RowFollows'
    BY <2>1, <2>3, <2>4 DEF ReadyIsFinal, BlockedEnds, RowFollows, Checking, Nodes
  <2>8. ReadyIsTrue'
    BY <2>1, ReadyStill
  <2> QED
    BY <2>4, <2>5, <2>6, <2>7, <2>8 DEF EarnedInv
<1> QED
  BY <1>1, <1>2, <1>3

(* An approval turns what a repair was made on stale.                      *)
LEMMA EarnedApprove ==
    ASSUME EarnedInv, LifeInv', SaverAvailable, Approve
    PROVE  EarnedInv'
<1>0. /\ ~locked /\ row = "human_required" /\ UNCHANGED <<pc, mem, locked>>
      /\ TypeInv /\ mem.status \in Statuses /\ Ordered(files)
      /\ pc \in Early => mem.status # "ready_for_human_review"
      /\ doc \in Document
  BY EarnedTypes DEF Approve, ApproveSpec, ApprovePlan, ApproveRun, MayApprove, control, session,
                     State, Stands, Early, Nodes
<1>1. \/ pc \in {"idle", "finish", "leave"}
      \/ pc \in Validating /\ mem.status = "human_required"
  <2>1. pc \in Nodes \cup {"idle", "start", "enter", "finish", "leave"}
    BY <1>0 DEF TypeInv, TypeOK
  <2>2. pc # "start" /\ pc \notin (Nodes \ Validating) \cup {"enter"}
    BY <1>0 DEF EarnedInv, RowFollows, LifeInv, RowRuns
  <2>3. pc \in Validating => mem.status = "human_required"
    BY <1>0 DEF EarnedInv, LifeInv, RowRuns, Statuses, Validating, Early, Nodes
  <2> QED
    BY <2>1, <2>2, <2>3
<1>2. ReadyIsFinal' /\ BlockedEnds'
  BY <1>0, <1>1 DEF ReadyIsFinal, BlockedEnds, Checking, Validating
<1>3. row' # "none" => RowFollows'
  BY <1>0, <1>1 DEF RowFollows, Validating, Nodes
<1>4. CASE ApproveRun
  <2>1. UNCHANGED <<wf, lg, files, stale, doc>> /\ row' = "approved"
    BY <1>4 DEF ApproveRun
  <2>2. RepairedStates' /\ EntryStages' /\ StaleOnDisk'
    BY <1>0, <2>1 DEF EarnedInv, RepairedStates, EntryStages, StaleOnDisk, Blocked
  <2>3. ReadyIsTrue'
    BY <2>1, ReadyStill
  <2> QED
    BY <1>2, <1>3, <2>1, <2>2, <2>3 DEF EarnedInv
<1>5. CASE ApproveSpec \/ ApprovePlan
  <2>1. PICK stage \in Early, a \in Names :
           SaveLangGraph(ResumeAt(stage, a))
    BY <1>5, NamesKnown DEF ApproveSpec, ApprovePlan, Early
  <2>2. Remembered \in State /\ Remembered = IF lg # NoState THEN lg ELSE wf
    BY <1>0, RememberedType DEF TypeInv, RowIsSaved, Remembered
  <2> DEFINE s == ResumeAt(stage, a)
  <2>3. s \in State /\ s.stage = stage /\ s.repaired = Remembered.repaired
    <3>1. stage \in Stages /\ "running" \in Statuses
      BY DEF Stages, Early, Nodes, Statuses
    <3>2. s \in State
      BY <2>2, <3>1, HaltedNotedType DEF ResumeAt
    <3> QED
      BY <2>2, <3>2 DEF ResumeAt, State
  <2> HIDE DEF s
  <2>4. lg' # NoState /\ lg'.stage = stage
    BY <1>0, <2>1, <2>3, SaveLangGraphType, NoStateAssumption DEF TypeInv, s
  <2>5. lg'.repaired => lg # NoState /\ lg.repaired
    <3>1. wf # NoState /\ lg = NoState => ~wf.repaired
      BY DEF EarnedInv, RepairedStates
    <3>2. CASE lg = NoState
      <4>1. lg' = s /\ s.repaired = wf.repaired /\ wf # NoState
        BY <2>1, <2>2, <2>3, <3>2, NoStateAssumption DEF SaveLangGraph, s
      <4> QED
        BY <3>1, <3>2, <4>1
    <3>3. CASE lg # NoState
      <4>1. lg' = [s EXCEPT !.arts = @ \cup lg.arts, !.workers = @ \cup lg.workers,
                            !.repaired = @ \/ lg.repaired]
        BY <2>1, <3>3 DEF SaveLangGraph, s
      <4> QED
        BY <2>2, <2>3, <3>3, <4>1 DEF State
    <3> QED
      BY <3>2, <3>3
  <2>6. PICK S \in SUBSET Names :
           /\ Write(S) /\ S \subseteq files
           /\ \/ "spec" \in S /\ "plan" \notin S
              \/ "plan" \in S /\ "integration" \notin S
    BY <1>5, NamesKnown DEF ApproveSpec, ApprovePlan
  <2>7. /\ files' = files /\ StaleOnDisk'
    BY <2>6 DEF Write, EarnedInv, StaleOnDisk
  <2>8. "integration" \in files => Blocked'
    <3>1. Cited("plan") = {"spec", "snapshot"} /\ Cited("integration") = {"plan"}
      BY DEF Cited, Inputs
    <3> QED
      BY <1>0, <2>6, <3>1 DEF Write, Ordered, Blocked
  <2>9. RepairedStates'
    BY <1>0, <2>4, <2>5, <2>7, <2>8 DEF EarnedInv, RepairedStates
  <2>10. EntryStages'
    BY <1>0, <2>4 DEF EarnedInv, EntryStages
  <2>11. ReadyIsTrue'
    <3>1. UNCHANGED Outcomes /\ doc'.ready = doc.ready
      BY <1>0, <1>5 DEF ApproveSpec, ApprovePlan, Document, Outcomes
    <3> QED
      BY <2>7, <3>1 DEF EarnedInv, ReadyIsTrue, Ready, Outcomes
  <2>12. row' = "running"
    BY <1>5 DEF ApproveSpec, ApprovePlan
  <2> QED
    BY <1>2, <1>3, <2>7, <2>9, <2>10, <2>11, <2>12 DEF EarnedInv
<1> QED
  BY <1>4, <1>5 DEF Approve

LEMMA InitEarned == Init => EarnedInv
<1> SUFFICES ASSUME Init PROVE EarnedInv
  OBVIOUS
<1>1. LifeInv
  BY InitLife
<1>2. mem = Fresh /\ ~Fresh.repaired
  BY DEF Init, Fresh
<1>3. StaleOnDisk /\ ReadyIsTrue /\ RepairedStates /\ EntryStages
  BY <1>2 DEF Init, StaleOnDisk, ReadyIsTrue, Ready, RepairedStates, EntryStages, Outside, Nodes
<1>4. ReadyIsFinal /\ BlockedEnds /\ RowFollows
  BY DEF Init, ReadyIsFinal, BlockedEnds, RowFollows, Blocked, Checking, Nodes
<1> QED
  BY <1>1, <1>3, <1>4 DEF EarnedInv

LEMMA NextEarned ==
    SaverAvailable /\ ~RepairAfterReview /\ EarnedInv /\ [Next]_vars => EarnedInv'
<1> SUFFICES ASSUME SaverAvailable, ~RepairAfterReview, EarnedInv, [Next]_vars PROVE EarnedInv'
  OBVIOUS
<1>1. LifeInv'
  BY NextLife DEF EarnedInv
<1>2. CASE UNCHANGED vars
  <2>1. /\ UNCHANGED <<pc, mem, row, wf, lg, files, stale, doc, locked>>
    BY <1>2 DEF vars, control, saved, session
  <2> QED
    BY <1>1, <2>1 DEF EarnedInv, StaleOnDisk, ReadyIsTrue, RepairedStates, EntryStages,
                      ReadyIsFinal, BlockedEnds, RowFollows, Blocked, Ready
<1> QED
  BY <1>1, <1>2, EarnedGraph, EarnedProcess, EarnedEnd, EarnedStart, EarnedApprove
     DEF Next, Process

(* A run is offered for review only when its gates passed, its goal is     *)
(* satisfied, no blocking finding is open and its bundle is complete -     *)
(* also after crashes, resumes and approvals in between.  The LangGraph    *)
(* saver is installed, and a blocking review is not repaired.              *)
THEOREM ReadyRunsEarnedIt ==
    SaverAvailable /\ ~RepairAfterReview => (Spec => []ReadyIsEarned)
<1> SUFFICES ASSUME SaverAvailable, ~RepairAfterReview PROVE Spec => []ReadyIsEarned
  OBVIOUS
<1>1. EarnedInv /\ [Next]_vars => EarnedInv'
  BY NextEarned
<1>2. EarnedInv => ReadyIsEarned
  BY DEF EarnedInv, LifeInv, SavedReady, SomeReady, ReadyIsTrue, Ready, ReadyIsEarned
<1> QED
  BY <1>1, <1>2, InitEarned, PTL DEF Spec

-----------------------------------------------------------------------------
(* What is offered is what was checked.  As long as no invocation is       *)
(* broken off, a run is worked on once: between the first task and the     *)
(* bundle the process never leaves the graph but for a person, who can     *)
(* only approve again what the work was made from, and so makes it stale   *)
(* for good.  FreshBefore to FreshReady say what holds on the way there.   *)

(* What is made from the dispatch on.                                      *)
Products == {"integration", "gate", "toolRequest", "tools", "sat", "review", "evidence"}

NoProducts == Products \cap files = {}
Untouched == NoProducts /\ \A t \in Tasks : taskFile[t] = "none"
Pure == stale = {} /\ staleTasks = {}
Good == Pure /\ applied = Tasks /\ verified

(* The process stops at a validation, where an approval may meet it.       *)
Ending == pc \in Validating /\ mem.status = "human_required"

NotStarted ==
    pc \in Early \cup {"materialize_tasks"} \/ (pc = "dispatch_tasks" /\ phase = "begin")

(* A state that may be resumed elsewhere than at the end.                  *)
Reached(s) == s.stage \notin Halts => Untouched \/ ~Pure

FreshBefore == NotStarted => Untouched /\ (Pure \/ Ending)

(* A task on its way through the dispatch.                                 *)
TaskAt(t) ==
    /\ work[t] # "skipped" /\ (work[t] = "recorded" => Sequential)
    /\ work[t] = "todo" => taskFile[t] = "none"
    /\ work[t] = "task" => taskFile[t] = "task"
    /\ work[t] \in {"request", "ran"} => taskFile[t] = "request"
    /\ Sequential /\ work[t] \in {"ran", "result", "recorded", "done"} => t \in applied
    /\ ~Sequential /\ work[t] = "done" => t \in applied \/ taskFile[t] = "failed"

FreshWork ==
    pc = "dispatch_tasks" /\ phase = "dispatching" =>
        Pure /\ NoProducts /\ \A t \in Tasks : TaskAt(t)

FreshIntegration ==
    pc = "integrate_changes" =>
        Pure /\ applied = Tasks /\ Products \cap files \subseteq {"integration"}

(* What a new gate report or a new tool check makes stale is made again on *)
(* the way to the bundle,                                                  *)
StaleByPlace ==
    /\ stale \subseteq {"sat", "review", "tools"}
    /\ "tools" \in stale => pc = "run_quality_gates" /\ phase = "requested"
    /\ "sat" \in stale =>
          \/ pc \in {"run_quality_gates", "repair_failure"}
          \/ pc = "evaluate_goal_satisfaction" /\ phase = "begin"
    /\ "review" \in stale =>
          \/ pc \in {"run_quality_gates", "repair_failure", "evaluate_goal_satisfaction"}
          \/ pc = "run_independent_review" /\ phase = "begin"

(* because without a repair there is nothing yet that a node could reuse.  *)
NothingReused ==
    /\ pc = "run_quality_gates" => "sat" \notin files /\ "review" \notin files
    /\ pc = "run_quality_gates" /\ phase = "begin" => "gate" \notin files
    /\ pc = "evaluate_goal_satisfaction" => "review" \notin files
    /\ pc = "evaluate_goal_satisfaction" /\ phase = "begin" => "sat" \notin files
    /\ pc = "run_independent_review" /\ phase = "begin" => "review" \notin files

FreshChecks ==
    pc \in Checking /\ (pc = "prepare_evidence" => "evidence" \notin files) =>
        /\ "evidence" \notin files /\ applied = Tasks /\ staleTasks = {} /\ StaleByPlace
        /\ mem.repaired \/ NothingReused
        /\ verified \/ pc = "repair_failure" \/ (pc = "run_quality_gates" /\ phase = "begin")

(* Outside the graph, and what is kept for the next resume.                *)
FreshOutside ==
    /\ pc \in {"start", "enter"} => Pure /\ (mem.stage \in Halts \/ Untouched)
    /\ pc \in {"finish", "leave"} => Reached(mem)
    /\ pc = "leave" => row # "none"
    /\ pc = "idle" /\ row = "none" => Untouched /\ Pure
    /\ pc = "idle" /\ row # "none" => lg # NoState /\ Reached(lg)

(* A resume finds its artifacts recorded, and so keeps its stage.          *)
Recorded ==
    /\ pc \in {"start", "enter"} => mem.stage = "collect_goal" \/ mem.arts # {}
    /\ pc \in (Nodes \ {"collect_goal"}) \cup {"finish", "leave"} => mem.arts # {}
    /\ pc = "idle" /\ row # "none" => lg.arts # {}

FreshReady ==
    Ready =>
        /\ Good
        /\ pc \in Nodes => pc = "prepare_evidence"
        /\ pc \in Outside => mem.status = "ready_for_human_review" /\ row = mem.status
        /\ pc = "idle" => row = "ready_for_human_review" /\ lg.status = row

Unbroken ==
    /\ FreshBefore /\ FreshWork /\ FreshIntegration /\ FreshChecks
    /\ FreshOutside /\ Recorded /\ FreshReady

(* An approval meets only a process that is about to end.                  *)
Unlocked ==
    ~locked =>
        /\ pc = "start" => row = "none" /\ mem.status = "running"
        /\ pc \in (Nodes \ Validating) \cup {"enter"} => mem.status = "running"

(* Nothing here writes the release, and the rest rests on an integration.  *)
ProductsFollow ==
    "release" \notin files /\ (Products \cap files # {} => "integration" \in files)

FreshInv == LifeInv /\ Unlocked /\ ProductsFollow /\ (~broken => Unbroken)

LEMMA FreshTypes ==
    ASSUME FreshInv
    PROVE  /\ TypeInv /\ mem \in State /\ doc \in Document /\ Ordered(files) /\ BundleIsLast
           /\ MayEnter(mem, files)
           /\ pc \in Nodes => Stands(pc, mem, files)
           /\ (wf # NoState => wf \in State) /\ (lg # NoState => lg \in State)
           /\ taskFile \in [Tasks -> TaskFiles] /\ work \in [Tasks -> Work]
           /\ staleTasks \subseteq Tasks /\ applied \subseteq Tasks
BY DEF FreshInv, LifeInv, ApprovalInv, DeliveryInv, MadeInOrder, PlaceStands, StatesMayEnter,
       TypeInv, TypeOK

(* What a step writes.                                                     *)
LEMMA DiskSteps ==
    ASSUME [Next]_vars
    PROVE  \/ UNCHANGED files
           \/ \E S \in SUBSET (Names \ {"release"}) :
                 Write(S) /\ (S \cap Products \subseteq {"integration"} \/ pc \in Checking)
<1> USE NamesKnown DEF Products
<1>1. CASE UNCHANGED vars
  BY <1>1 DEF vars
<1>2. CASE Start \/ Enter \/ ExceedRecursion \/ Finish \/ Exit \/ Run \/ Resume \/ Crash
             \/ LockExpires
  BY <1>2 DEF Start, Enter, ExceedRecursion, Finish, Exit, Run, Resume, Crash, LockExpires
<1>3. CASE Approve \/ DryRun
  <2>1. CASE DryRun
    BY <2>1 DEF DryRun
  <2>2. CASE ApproveSpec
    BY <2>2 DEF ApproveSpec
  <2>3. CASE ApprovePlan \/ ApproveRun
    BY <2>3 DEF ApprovePlan, ApproveRun
  <2> QED
    BY <1>3, <2>1, <2>2, <2>3 DEF Approve
<1>4. CASE Graph
  <2>1. CASE CollectGoal \/ InspectRepository \/ CreateVerificationPlan \/ IntegrateChanges
    BY <2>1 DEF CollectGoal, InspectRepository, CreateVerificationPlan, IntegrateChanges,
                Produce, Record, Leave
  <2>2. CASE DraftSpec \/ ValidateSpec \/ ValidateExecutionPlan \/ MaterializeTasks
    BY <2>2 DEF DraftSpec, WriteSpec, ReuseSpec, StopForSpecApproval, AcceptSpec,
                ValidateSpec, ValidateExecutionPlan, ValidateStage, MaterializeTasks, Leave
  <2>3. CASE CreateExecutionPlan
    <3>1. ASSUME NEW a \in {"vplan", "plan"}, Write({a})
          PROVE  \E S \in SUBSET (Names \ {"release"}) :
                    Write(S) /\ (S \cap Products \subseteq {"integration"} \/ pc \in Checking)
      BY <3>1
    <3> QED
      BY <2>3, <3>1 DEF CreateExecutionPlan, WriteMissingVerificationPlan, WritePlan, DecidePlan
  <2>4. CASE DispatchTasks
    BY <2>4 DEF DispatchTasks, DispatchTask, BeginDispatch, WriteTask, WriteWorkerRequest,
                RunWorker, WriteWorkerResult, RecordDispatch, RecordCompletion, ApplyPatch,
                StopDispatch, FinishDispatch, Leave
  <2>5. CASE RunQualityGates \/ EvaluateSatisfaction
    BY <2>5 DEF RunQualityGates, RunGates, RequestToolCheck, RunToolCheck, DecideGates,
                EvaluateSatisfaction, EvaluateGoalSatisfaction, DecideSatisfaction, Leave, At,
                Checking
  <2>6. CASE RunIndependentReview \/ RepairFailure \/ PrepareEvidence
    BY <2>6 DEF RunIndependentReview, RunReview, RecordReview, RepairFailure,
                ReuseRepairResult, BeginRepair, RunRepairWorker, WriteRepairResult,
                RecordRepair, PrepareEvidence, BuildEvidence, RecordEvidence, Leave, At,
                Checking
  <2> QED
    BY <1>4, <2>1, <2>2, <2>3, <2>4, <2>5, <2>6 DEF Graph
<1> QED
  BY <1>1, <1>2, <1>3, <1>4 DEF Next, Process

LEMMA ProductsStep ==
    ASSUME FreshInv, [Next]_vars
    PROVE  ProductsFollow'
<1>1. pc \in Checking => "integration" \in files
  BY FreshTypes, StandsKnown DEF Checking, Nodes
<1>2. CASE UNCHANGED files
  BY <1>2 DEF FreshInv, ProductsFollow
<1>3. ASSUME NEW S \in SUBSET (Names \ {"release"}), Write(S),
             S \cap Products \subseteq {"integration"} \/ pc \in Checking
      PROVE  ProductsFollow'
  BY <1>1, <1>3 DEF Write, FreshInv, ProductsFollow
<1> QED
  BY <1>2, <1>3, DiskSteps

(* What a step of the graph never does to the state of the process.        *)
Pathway ==
    /\ UNCHANGED <<lg, locked, broken>> /\ mem.arts \subseteq mem'.arts
    /\ pc' \in Nodes \cup {"finish"}
    /\ pc' = "collect_goal" => pc = "collect_goal"
    /\ pc = "collect_goal" /\ pc' # pc => mem'.arts # {}
    /\ pc' \in Nodes \ Validating =>
          mem'.status = mem.status /\ (pc \in Validating => mem.status # "human_required")

LEMMA StayPath ==
    ASSUME pc \in Nodes, UNCHANGED <<pc, mem, lg, locked, broken>>
    PROVE  Pathway
BY DEF Pathway, Validating, Nodes

LEMMA GraphPath ==
    ASSUME FreshInv, Graph
    PROVE  Pathway
<1>0. mem \in State /\ pc \in Nodes /\ Stands(pc, mem, files)
  BY FreshTypes, GraphAtNode
<1>1. CASE CollectGoal \/ InspectRepository \/ CreateVerificationPlan \/ IntegrateChanges
  <2>1. ASSUME NEW node, NEW a, Produce(node, a) PROVE Pathway
    BY <1>0, <2>1, StayPath DEF Produce, control, saved, session
  <2>2. ASSUME NEW node \in Nodes, NEW a, NEW stage,
               NEW next \in Nodes \ {"collect_goal"}, Record(node, a, stage, next),
               node \notin Validating
        PROVE  Pathway
    BY <1>0, <2>2 DEF Record, At, Leave, Save, Goto, session, State, Pathway
  <2> QED
    BY <1>1, <2>1, <2>2
       DEF CollectGoal, InspectRepository, CreateVerificationPlan, IntegrateChanges, Nodes,
           Validating
<1>2. CASE DraftSpec
  <2>1. CASE WriteSpec \/ ReuseSpec
    BY <1>0, <2>1, StayPath DEF WriteSpec, ReuseSpec, Stay, Save, saved, session
  <2>2. CASE StopForSpecApproval \/ AcceptSpec
    BY <1>0, <2>2 DEF StopForSpecApproval, AcceptSpec, Leave, Save, saved, Goto, At, session,
                      State, Pathway, Nodes, Validating
  <2> QED
    BY <1>2, <2>1, <2>2 DEF DraftSpec
<1>3. CASE ValidateSpec \/ ValidateExecutionPlan
  <2>1. /\ pc \in Validating /\ mem' = [mem EXCEPT !.stage = pc]
        /\ UNCHANGED <<lg, locked, broken>>
        /\ \/ mem.status = "human_required" /\ pc' = "finish"
           \/ /\ mem.status # "human_required"
              /\ pc' \in {"create_verification_plan", "materialize_tasks"}
    BY <1>3 DEF ValidateSpec, ValidateExecutionPlan, ValidateStage, At, RouteAfterStop, Goto,
                saved, session, Validating
  <2> QED
    BY <1>0, <2>1 DEF State, Pathway, Nodes, Validating
<1>4. CASE CreateExecutionPlan
  <2>1. CASE WriteMissingVerificationPlan \/ WritePlan
    BY <1>0, <2>1, StayPath
       DEF WriteMissingVerificationPlan, WritePlan, Stay, control, saved, session
  <2>2. CASE DecidePlan
    BY <1>0, <2>2 DEF DecidePlan, Save, Goto, At, session, State, Pathway, Nodes, Validating
  <2> QED
    BY <1>4, <2>1, <2>2 DEF CreateExecutionPlan
<1>5. CASE MaterializeTasks
  BY <1>0, <1>5 DEF MaterializeTasks, Leave, Save, Goto, At, session, State, Pathway, Nodes,
                    Validating
<1>6. CASE DispatchTasks
  <2>0. pc = "dispatch_tasks"
    BY <1>6 DEF DispatchTasks, BeginDispatch, DispatchTask, WriteTask, WriteWorkerRequest,
       RunWorker, WriteWorkerResult, RecordDispatch, RecordCompletion, ApplyPatch, StopDispatch,
       FinishDispatch, Dispatching, At
  <2>1. ASSUME NEW t \in Tasks, DispatchTask(t) PROVE Pathway
    <3>1. CASE RecordDispatch(t) \/ RecordCompletion(t)
      BY <1>0, <2>0, <3>1 DEF RecordDispatch, RecordCompletion, Save, control, session, State,
                              Pathway, Validating
    <3>2. CASE ~(RecordDispatch(t) \/ RecordCompletion(t))
      BY <1>0, <2>1, <3>2, StayPath DEF DispatchTask, WriteTask, WriteWorkerRequest, RunWorker,
         WriteWorkerResult, ApplyPatch, control, saved, session
    <3> QED
      BY <3>1, <3>2
  <2>2. CASE BeginDispatch
    BY <1>0, <2>0, <2>2 DEF BeginDispatch, Stay, saved, session, State, Pathway, Validating
  <2>3. CASE StopDispatch
    BY <1>0, <2>0, <2>3 DEF StopDispatch, Save, Goto, session, State, Pathway, Nodes, Validating
  <2>4. CASE FinishDispatch
    BY <1>0, <2>0, <2>4 DEF FinishDispatch, Leave, Save, Goto, RouteAfterStop, session, State,
                            Pathway, Nodes, Validating
  <2> QED
    BY <1>6, <2>1, <2>2, <2>3, <2>4 DEF DispatchTasks
<1>7. CASE RunQualityGates
  <2>1. CASE RunGates \/ RequestToolCheck \/ RunToolCheck
    BY <1>0, <2>1, StayPath DEF RunGates, RequestToolCheck, RunToolCheck, Stay, saved, session
  <2>2. CASE DecideGates
    BY <1>0, <2>2 DEF DecideGates, Leave, Save, Goto, RouteAfterGates, RouteAfterStop, At,
                      session, State, Pathway, Nodes, Validating
  <2> QED
    BY <1>7, <2>1, <2>2 DEF RunQualityGates
<1>8. CASE EvaluateSatisfaction
  <2>1. CASE EvaluateGoalSatisfaction
    BY <1>0, <2>1, StayPath DEF EvaluateGoalSatisfaction, Stay, saved, session
  <2>2. CASE DecideSatisfaction
    BY <1>0, <2>2 DEF DecideSatisfaction, Leave, Save, Goto, RouteAfterSatisfaction, At,
                      session, State, Pathway, Nodes, Validating
  <2> QED
    BY <1>8, <2>1, <2>2 DEF EvaluateSatisfaction
<1>9. CASE RunIndependentReview
  <2>1. CASE RunReview
    BY <1>0, <2>1, StayPath DEF RunReview, Stay, saved, session
  <2>2. CASE RecordReview
    BY <1>0, <2>2 DEF RecordReview, Leave, Save, Goto, RouteAfterReview, At, session, State,
                      Pathway, Nodes, Validating
  <2> QED
    BY <1>9, <2>1, <2>2 DEF RunIndependentReview
<1>10. CASE RepairFailure
  <2>1. CASE ReuseRepairResult \/ RecordRepair
    BY <1>0, <2>1 DEF ReuseRepairResult, RecordRepair, Leave, Save, Goto, At, session, State,
                      Pathway, Nodes, Validating
  <2>2. CASE BeginRepair
    BY <1>0, <2>2 DEF BeginRepair, At, Save, Stay, session, State, Pathway, Validating
  <2>3. CASE RunRepairWorker \/ WriteRepairResult
    BY <1>0, <2>3, StayPath DEF RunRepairWorker, WriteRepairResult, Stay, saved, session
  <2> QED
    BY <1>10, <2>1, <2>2, <2>3 DEF RepairFailure
<1>11. CASE PrepareEvidence
  <2>1. CASE BuildEvidence
    BY <1>0, <2>1, StayPath DEF BuildEvidence, control, saved, session
  <2>2. CASE RecordEvidence
    BY <1>0, <2>2 DEF RecordEvidence, Leave, Save, Goto, At, session, State, Pathway, Nodes
  <2> QED
    BY <1>11, <2>1, <2>2 DEF PrepareEvidence
<1> QED
  BY <1>1, <1>2, <1>3, <1>4, <1>5, <1>6, <1>7, <1>8, <1>9, <1>10, <1>11 DEF Graph

(* The places exclude each other.                                          *)
FreshPlaces == FreshBefore /\ FreshWork /\ FreshIntegration /\ FreshChecks

Moves == FreshPlaces' /\ (pc' = "finish" => Reached(mem)')

LEMMA BeforeMove ==
    ASSUME pc' \in Early \cup {"materialize_tasks"} \/ (pc' = "dispatch_tasks" /\ phase' = "begin"),
           Untouched', Pure'
    PROVE  Moves
BY DEF Moves, FreshPlaces, FreshBefore, FreshWork, FreshIntegration, FreshChecks, Early, Checking

LEMMA FinishMove ==
    ASSUME pc' = "finish", Reached(mem)'
    PROVE  Moves
BY DEF Moves, FreshPlaces, FreshBefore, FreshWork, FreshIntegration, FreshChecks, NotStarted,
       Early, Checking

LEMMA WorkMove ==
    ASSUME pc' = "dispatch_tasks", phase' = "dispatching", FreshWork'
    PROVE  Moves
BY DEF Moves, FreshPlaces, FreshBefore, FreshIntegration, FreshChecks, NotStarted, Early, Checking

LEMMA IntegrationMove ==
    ASSUME pc' = "integrate_changes", FreshIntegration'
    PROVE  Moves
BY DEF Moves, FreshPlaces, FreshBefore, FreshWork, FreshChecks, NotStarted, Early, Checking

LEMMA ChecksMove ==
    ASSUME pc' \in Checking, FreshChecks'
    PROVE  Moves
BY DEF Moves, FreshPlaces, FreshBefore, FreshWork, FreshIntegration, NotStarted, Early, Checking

(* The first write of an artifact of the plan makes nothing stale.         *)
LEMMA FirstWrite ==
    ASSUME Ordered(files), Untouched, "release" \notin files, Pure, UNCHANGED tasksOnDisk,
           NEW a \in {"goal", "snapshot", "spec", "vplan", "plan"}, a \notin files, Write({a}),
           files \subseteq Names
    PROVE  Untouched' /\ Pure'
<1>1. /\ files' = files \cup {a} /\ stale' = {b \in files : a \in Cited(b)}
      /\ UNCHANGED <<taskFile, staleTasks>>
  BY DEF Write, Pure, tasksOnDisk
<1>2. \A b \in files : b \in {"goal", "snapshot", "spec", "vplan", "plan"}
  BY NamesKnown DEF Untouched, NoProducts, Products
<1>3. \A b \in {"goal", "snapshot", "spec", "vplan", "plan"} : Cited(b) = Inputs[b]
  BY DEF Cited
<1>4. \A b \in files : a \notin Inputs[b]
  BY <1>2 DEF Ordered, Inputs
<1>5. stale' = {}
  BY <1>1, <1>2, <1>3, <1>4
<1> QED
  BY <1>1, <1>5 DEF Untouched, NoProducts, Products, Pure

(* Before the dispatch.                                                    *)
LEMMA FreshEarly ==
    ASSUME FreshInv, Unbroken,
           \/ CollectGoal \/ InspectRepository \/ DraftSpec \/ ValidateSpec
           \/ CreateVerificationPlan \/ CreateExecutionPlan \/ ValidateExecutionPlan
           \/ MaterializeTasks
    PROVE  Moves
<1>0. /\ mem \in State /\ TypeInv /\ Ordered(files) /\ "release" \notin files
      /\ files \subseteq Names
  BY FreshTypes DEF FreshInv, ProductsFollow, TypeInv, TypeOK
<1>a. pc \in Early \cup {"materialize_tasks"} /\ Untouched /\ (Pure \/ Ending)
  <2>1. pc \in Early \cup {"materialize_tasks"}
    BY DEF CollectGoal, InspectRepository, DraftSpec, WriteSpec, ReuseSpec, StopForSpecApproval,
           AcceptSpec, ValidateSpec, ValidateStage, CreateVerificationPlan, CreateExecutionPlan,
           WriteMissingVerificationPlan, WritePlan, DecidePlan, ValidateExecutionPlan,
           MaterializeTasks, Produce, Record, At, Early
  <2> QED
    BY <2>1 DEF Unbroken, FreshBefore, NotStarted
<1>1. ASSUME NEW a \in {"goal", "snapshot", "spec", "vplan", "plan"}, a \notin files, Write({a}),
             UNCHANGED <<pc, tasksOnDisk>>, pc \in Early \ Validating
      PROVE  Moves
  <2>1. Untouched' /\ Pure'
    BY <1>0, <1>a, <1>1, FirstWrite DEF Ending
  <2> QED
    BY <1>1, <2>1, BeforeMove
<1>2. ASSUME UNCHANGED <<files, stale, tasksOnDisk>>,
             \/ pc' \in Early \cup {"materialize_tasks"} /\ ~Ending
             \/ pc' = "dispatch_tasks" /\ phase' = "begin" /\ ~Ending
             \/ pc' = "finish"
      PROVE  Moves
  <2>1. Untouched' /\ (Pure => Pure')
    BY <1>a, <1>2 DEF Untouched, NoProducts, Pure, tasksOnDisk
  <2> QED
    BY <1>a, <1>2, <2>1, BeforeMove, FinishMove DEF Reached
<1>3. CASE CollectGoal \/ InspectRepository \/ CreateVerificationPlan
  <2>1. ASSUME NEW node \in Early \ Validating, NEW a \in {"goal", "snapshot", "vplan"},
               Produce(node, a)
        PROVE  Moves
    BY <1>1, <2>1 DEF Produce, At, control
  <2>2. ASSUME NEW node \in Early \ Validating, NEW a, NEW stage, NEW next \in Early,
               Record(node, a, stage, next)
        PROVE  Moves
    BY <1>2, <2>2 DEF Record, At, Leave, Goto, Ending
  <2> QED
    BY <1>3, <2>1, <2>2
       DEF CollectGoal, InspectRepository, CreateVerificationPlan, Early, Validating
<1>4. CASE DraftSpec
  <2>1. CASE WriteSpec
    BY <1>1, <2>1 DEF WriteSpec, At, Stay, Early, Validating
  <2>2. CASE ReuseSpec \/ StopForSpecApproval \/ AcceptSpec
    BY <1>2, <2>2 DEF ReuseSpec, StopForSpecApproval, AcceptSpec, At, Stay, Leave, Goto, Ending,
                      Early, Validating
  <2> QED
    BY <1>4, <2>1, <2>2 DEF DraftSpec
<1>5. CASE ValidateSpec \/ ValidateExecutionPlan
  BY <1>2, <1>5 DEF ValidateSpec, ValidateExecutionPlan, ValidateStage, At, RouteAfterStop, Goto,
                    Ending, Early
<1>6. CASE CreateExecutionPlan
  <2>1. CASE WriteMissingVerificationPlan
    BY <1>1, <2>1 DEF WriteMissingVerificationPlan, At, control, Stay, Early, Validating
  <2>2. CASE WritePlan
    BY <1>1, <2>2 DEF WritePlan, At, control, Stay, Early, Validating
  <2>3. CASE DecidePlan
    BY <1>2, <2>3 DEF DecidePlan, At, Goto, Ending, Early, Validating
  <2> QED
    BY <1>6, <2>1, <2>2, <2>3 DEF CreateExecutionPlan
<1>7. CASE MaterializeTasks
  BY <1>2, <1>7 DEF MaterializeTasks, At, Leave, Goto, Ending, Validating
<1> QED
  BY <1>3, <1>4, <1>5, <1>6, <1>7

(* The dispatch.                                                           *)
LEMMA TaskStays ==
    ASSUME NEW t \in Tasks, TaskAt(t), work'[t] = work[t], taskFile'[t] = taskFile[t],
           applied \subseteq applied', doc' = doc
    PROVE  TaskAt(t)'
BY DEF TaskAt, Sequential

LEMMA FreshTask ==
    ASSUME FreshInv, FreshWork, NEW t \in Tasks, DispatchTask(t)
    PROVE  FreshWork'
<1>0. /\ pc = "dispatch_tasks" /\ phase = "dispatching"
      /\ taskFile \in [Tasks -> TaskFiles] /\ work \in [Tasks -> Work] /\ doc' = doc
      /\ UNCHANGED <<pc, phase, files>>
  BY FreshTypes DEF DispatchTask, WriteTask, WriteWorkerRequest, RunWorker, WriteWorkerResult,
                    RecordDispatch, RecordCompletion, ApplyPatch, Dispatching, At, control
<1>1. Pure /\ NoProducts /\ (\A u \in Tasks : TaskAt(u)) /\ NoProducts'
  BY <1>0 DEF FreshWork, NoProducts
<1>2. "evidence" \notin files
  BY <1>1 DEF NoProducts, Products
<1>3. /\ Pure' /\ applied \subseteq applied'
      /\ \A u \in Tasks \ {t} : work'[u] = work[u] /\ taskFile'[u] = taskFile[u]
      /\ TaskAt(t)'
  <2>a. TaskAt(t)
    BY <1>1
  <2>1. CASE WriteTask(t)
    BY <1>0, <1>1, <2>a, <2>1 DEF WriteTask, MayStart, Pure, TaskAt, Sequential, ghost
  <2>2. CASE WriteWorkerRequest(t)
    BY <1>0, <1>1, <2>a, <2>2 DEF WriteWorkerRequest, Pure, TaskAt, Results, ghost
  <2>3. CASE RunWorker(t)
    BY <1>0, <1>1, <1>2, <2>a, <2>3 DEF RunWorker, Pure, TaskAt, Sequential, tasksOnDisk
  <2>4. CASE WriteWorkerResult(t)
    BY <1>0, <1>1, <2>a, <2>4 DEF WriteWorkerResult, Pure, TaskAt, Sequential, ghost
  <2>5. CASE RecordDispatch(t) \/ RecordCompletion(t)
    BY <1>0, <1>1, <2>a, <2>5
       DEF RecordDispatch, RecordCompletion, Pure, TaskAt, Sequential, tasksOnDisk, ghost
  <2>6. CASE ApplyPatch(t)
    BY <1>0, <1>1, <2>a, <2>6 DEF ApplyPatch, Pure, TaskAt, Sequential
  <2> QED
    BY <2>1, <2>2, <2>3, <2>4, <2>5, <2>6 DEF DispatchTask
<1>4. \A u \in Tasks : TaskAt(u)'
  BY <1>0, <1>1, <1>3, TaskStays
<1> QED
  BY <1>1, <1>3, <1>4 DEF FreshWork

LEMMA FreshDispatch ==
    ASSUME FreshInv, Unbroken, DispatchTasks
    PROVE  Moves
<1>0. /\ mem \in State /\ TypeInv /\ doc \in Document /\ applied \subseteq Tasks
      /\ taskFile \in [Tasks -> TaskFiles] /\ work \in [Tasks -> Work]
  BY FreshTypes
<1>1. CASE BeginDispatch
  <2>1. /\ pc = "dispatch_tasks" /\ phase = "begin" /\ pc' = pc /\ phase' = "dispatching"
        /\ UNCHANGED <<files, stale, doc, taskFile, staleTasks>>
    BY <1>1 DEF BeginDispatch, At, Stay, tasksOnDisk
  <2>2. Untouched /\ Pure
    BY <2>1 DEF Unbroken, FreshBefore, NotStarted, Ending, Validating
  <2>3. mem.done = {} /\ CompletedOnDisk = {}
    <3>1. mem.done \subseteq WithResult
      BY DEF FreshInv, LifeInv, DeliveryInv, OnDiskInv, StatesOnDisk, NamesDisk, NamesOnly
    <3> QED
      BY <2>2, <3>1 DEF Untouched, CompletedOnDisk, WithResult, Results
  <2>4. \A t \in Tasks : work'[t] = "todo"
    BY <1>1, <2>3 DEF BeginDispatch
  <2>5. FreshWork'
    BY <2>1, <2>2, <2>4 DEF FreshWork, Untouched, NoProducts, Pure, TaskAt
  <2> QED
    BY <2>1, <2>5, WorkMove
<1>2. ASSUME NEW t \in Tasks, DispatchTask(t) PROVE Moves
  <2>1. pc' = "dispatch_tasks" /\ phase' = "dispatching"
    BY <1>2 DEF DispatchTask, WriteTask, WriteWorkerRequest, RunWorker, WriteWorkerResult,
                RecordDispatch, RecordCompletion, ApplyPatch, Dispatching, At, control
  <2> QED
    BY <1>2, <2>1, FreshTask, WorkMove DEF Unbroken
<1>3. CASE StopDispatch
  <2>1. pc' = "finish" /\ mem'.stage = "human_required"
    BY <1>0, <1>3 DEF StopDispatch, Goto, State
  <2> QED
    BY <2>1, FinishMove DEF Reached, Halts
<1>4. CASE FinishDispatch
  <2>1. /\ pc = "dispatch_tasks" /\ phase = "dispatching"
        /\ \A t \in Tasks : work[t] \in {"skipped", "done"}
        /\ ~Sequential => \A t \in Tasks : work[t] = "done" => taskFile[t] # "failed"
    BY <1>4 DEF FinishDispatch, Dispatching, At
  <2>2. Pure /\ NoProducts /\ \A t \in Tasks : TaskAt(t)
    BY <2>1 DEF Unbroken, FreshWork
  <2>3. applied = Tasks
    BY <1>0, <2>1, <2>2 DEF TaskAt
  <2>4. mem.status = "running"
    BY <2>1, FreshTypes, StandsKnown DEF Nodes
  <2>5. PICK s : /\ s = IF Sequential THEN mem ELSE [mem EXCEPT !.workers = Tasks, !.done = Tasks]
                 /\ Leave(s, RouteAfterStop(s, "integrate_changes"))
    BY <1>4 DEF FinishDispatch
  <2>6. s.status = "running"
    BY <1>0, <2>4, <2>5 DEF State
  <2>7. pc' = "integrate_changes" /\ UNCHANGED <<files, stale, staleTasks, applied>>
    BY <2>5, <2>6 DEF Leave, Goto, RouteAfterStop, tasksOnDisk, ghost
  <2>8. FreshIntegration'
    BY <2>2, <2>3, <2>7 DEF FreshIntegration, NoProducts, Pure
  <2> QED
    BY <2>7, <2>8, IntegrationMove
<1> QED
  BY <1>1, <1>2, <1>3, <1>4 DEF DispatchTasks

(* Nothing is made from the integration yet.                               *)
LEMMA FreshIntegrate ==
    ASSUME FreshInv, Unbroken, IntegrateChanges
    PROVE  Moves
<1>1. /\ pc = "integrate_changes" /\ Pure /\ applied = Tasks
      /\ Products \cap files \subseteq {"integration"}
      /\ UNCHANGED <<taskFile, staleTasks, applied>>
  <2>1. pc = "integrate_changes" /\ UNCHANGED <<taskFile, staleTasks, applied>>
    BY DEF IntegrateChanges, Produce, Record, Leave, At, tasksOnDisk, ghost
  <2> QED
    BY <2>1 DEF Unbroken, FreshIntegration
<1>2. CASE Produce("integrate_changes", "integration")
  <2>1. /\ files' = files \cup {"integration"} /\ pc' = pc
        /\ stale' = {b \in files \ {"integration"} : "integration" \in Cited(b)}
    BY <1>1, <1>2 DEF Produce, Write, Pure, control
  <2>2. \A b \in Names : "integration" \notin Cited(b)
    BY NamesKnown DEF Cited, Inputs
  <2>3. Pure'
    BY <1>1, <2>1, <2>2, FreshTypes DEF Pure, TypeInv, TypeOK
  <2>4. FreshIntegration'
    BY <1>1, <2>1, <2>3 DEF FreshIntegration
  <2> QED
    BY <1>1, <2>1, <2>4, IntegrationMove
<1>3. CASE Record("integrate_changes", "integration", "run_quality_gates", "run_quality_gates")
  <2>1. /\ pc' = "run_quality_gates" /\ phase' = "begin" /\ UNCHANGED <<files, stale>>
    BY <1>3 DEF Record, Leave, Goto
  <2>2. {"gate", "sat", "review", "evidence"} \cap files' = {}
    BY <1>1, <2>1 DEF Products
  <2>3. FreshChecks'
    BY <1>1, <2>1, <2>2 DEF FreshChecks, StaleByPlace, NothingReused, Pure
  <2> QED
    BY <2>1, <2>3, ChecksMove DEF Checking
<1> QED
  BY <1>2, <1>3 DEF IntegrateChanges

(* The checks.  A report, a tool check, an evaluation or a review that is  *)
(* written takes its name from what is stale, and leaves those made from   *)
(* it there.                                                               *)
LEMMA CheckWrite ==
    ASSUME files \subseteq Names, "evidence" \notin files, "release" \notin files,
           NEW a \in {"gate", "toolRequest", "tools", "sat", "review"}, Write({a})
    PROVE  /\ files' = files \cup {a} /\ "evidence" \notin files'
           /\ stale' \subseteq (stale \ {a}) \cup
                 (CASE a = "gate" -> {"sat", "review"}
                    [] a = "toolRequest" -> {"tools"}
                    [] a = "tools" -> {"sat"}
                    [] OTHER -> {})
<1>1. files' = files \cup {a} /\ stale' = (stale \ {a}) \cup {b \in files \ {a} : a \in Cited(b)}
  BY DEF Write
<1>2. \A b \in files : Cited(b) = Inputs[b]
  BY DEF Cited
<1>3. {b \in files \ {a} : a \in Cited(b)} \subseteq
         (CASE a = "gate" -> {"sat", "review"}
            [] a = "toolRequest" -> {"tools"}
            [] a = "tools" -> {"sat"}
            [] OTHER -> {})
  BY <1>2, NamesKnown DEF Inputs
<1> QED
  BY <1>1, <1>3

(* What is known at a check.                                               *)
LEMMA AtCheck ==
    ASSUME FreshInv, Unbroken, pc \in Checking \ {"prepare_evidence"}
    PROVE  /\ mem \in State /\ doc \in Document /\ mem.status = "running"
           /\ files \subseteq Names /\ "evidence" \notin files /\ "release" \notin files
           /\ applied = Tasks /\ staleTasks = {} /\ StaleByPlace
           /\ mem.repaired \/ NothingReused
           /\ verified \/ pc = "repair_failure" \/ (pc = "run_quality_gates" /\ phase = "begin")
<1>1. mem.status = "running"
  BY FreshTypes, StandsKnown DEF Checking, Nodes
<1> QED
  BY <1>1, FreshTypes DEF Unbroken, FreshChecks, FreshInv, ProductsFollow, TypeInv, TypeOK

LEMMA FreshGates ==
    ASSUME FreshInv, Unbroken, RunQualityGates
    PROVE  Moves
<1>0. pc = "run_quality_gates"
  BY DEF RunQualityGates, RunGates, RequestToolCheck, RunToolCheck, DecideGates, At
<1>a. pc \in Checking \ {"prepare_evidence"}
  BY <1>0 DEF Checking
<1>b. /\ mem \in State /\ doc \in Document /\ mem.status = "running"
      /\ files \subseteq Names /\ "evidence" \notin files /\ "release" \notin files
      /\ applied = Tasks /\ staleTasks = {} /\ StaleByPlace
      /\ mem.repaired \/ NothingReused
      /\ verified \/ phase = "begin"
  BY <1>0, <1>a, AtCheck
<1>1. CASE RunGates \/ RequestToolCheck \/ RunToolCheck
  <2>1. PICK a \in {"gate", "toolRequest", "tools"} :
           /\ Write({a}) /\ pc' = pc /\ UNCHANGED <<mem, staleTasks, applied>>
           /\ \/ a = "gate" /\ phase = "begin" /\ phase' = "written" /\ verified'
              \/ a = "toolRequest" /\ phase = "written" /\ phase' = "requested" /\ verified' = verified
              \/ a = "tools" /\ phase = "requested" /\ phase' = "ran" /\ verified' = verified
    BY <1>1 DEF RunGates, RequestToolCheck, RunToolCheck, At, Stay, tasksOnDisk, ghost
  <2>2. /\ files' = files \cup {a} /\ "evidence" \notin files'
        /\ stale' \subseteq (stale \ {a}) \cup
              (CASE a = "gate" -> {"sat", "review"}
                 [] a = "toolRequest" -> {"tools"}
                 [] a = "tools" -> {"sat"}
                 [] OTHER -> {})
    BY <1>b, <2>1, CheckWrite
  <2>3. StaleByPlace'
    BY <1>0, <1>b, <2>1, <2>2 DEF StaleByPlace
  <2>4. mem.repaired \/ NothingReused'
    BY <1>0, <1>b, <2>1, <2>2 DEF NothingReused
  <2>5. FreshChecks'
    BY <1>0, <1>b, <2>1, <2>2, <2>3, <2>4 DEF FreshChecks
  <2> QED
    BY <1>a, <2>1, <2>5, ChecksMove
<1>2. CASE DecideGates
  <2> DEFINE noted == [mem EXCEPT !.stage = "run_quality_gates", !.arts = @ \cup {"gate"},
                                  !.gatePassed = doc.gate]
             halted == [noted EXCEPT !.status = "human_required", !.stage = "human_required"]
  <2>1. phase # "begin" /\ phase # "requested"
    BY <1>0, <1>2, <1>b DEF DecideGates, At, ReuseGateReport, NothingReused
  <2>2. /\ noted.status = "running" /\ noted.repaired = mem.repaired
        /\ noted.attempts = mem.attempts /\ noted.gatePassed = doc.gate
        /\ halted.status = "human_required" /\ halted.stage = "human_required"
    BY <1>b DEF State
  <2>3. CASE StopForGateFailure
    <3>1. Leave(halted, RouteAfterGates(halted))
      BY <1>2, <2>3 DEF DecideGates
    <3> HIDE DEF noted, halted
    <3>2. pc' = "finish" /\ mem' = halted
      BY <2>2, <3>1 DEF Leave, Goto, RouteAfterGates, RouteAfterStop
    <3> QED
      BY <2>2, <3>2, FinishMove DEF Reached, Halts
  <2>4. CASE ~StopForGateFailure
    <3>1. Leave(noted, RouteAfterGates(noted))
      BY <1>2, <2>4 DEF DecideGates
    <3> HIDE DEF noted, halted
    <3>2. RouteAfterGates(noted) \in {"evaluate_goal_satisfaction", "repair_failure"}
      <4>1. mem.attempts \in Nat /\ MaxRepairs \in Nat
        BY <1>b, CountAssumption DEF State
      <4>2. doc.gate \/ mem.attempts < MaxRepairs
        BY <2>4, <4>1 DEF StopForGateFailure
      <4> QED
        BY <2>2, <4>2 DEF RouteAfterGates, RouteAfterStop
    <3>3. /\ pc' \in {"evaluate_goal_satisfaction", "repair_failure"} /\ phase' = "begin"
          /\ mem'.repaired = mem.repaired
          /\ UNCHANGED <<files, stale, staleTasks, applied, verified>>
      BY <2>2, <3>1, <3>2 DEF Leave, Goto, tasksOnDisk, ghost
    <3>4. StaleByPlace'
      BY <1>0, <1>b, <2>1, <3>3 DEF StaleByPlace
    <3>5. mem'.repaired \/ NothingReused'
      BY <1>0, <1>b, <3>3 DEF NothingReused
    <3>6. FreshChecks'
      BY <1>b, <2>1, <3>3, <3>4, <3>5 DEF FreshChecks
    <3> QED
      BY <3>3, <3>6, ChecksMove DEF Checking
  <2> QED
    BY <2>3, <2>4
<1> QED
  BY <1>1, <1>2 DEF RunQualityGates

LEMMA FreshSatisfaction ==
    ASSUME FreshInv, Unbroken, EvaluateSatisfaction
    PROVE  Moves
<1>0. pc = "evaluate_goal_satisfaction"
  BY DEF EvaluateSatisfaction, EvaluateGoalSatisfaction, DecideSatisfaction, At
<1>a. pc \in Checking \ {"prepare_evidence"}
  BY <1>0 DEF Checking
<1>b. /\ mem \in State /\ doc \in Document
      /\ files \subseteq Names /\ "evidence" \notin files /\ "release" \notin files
      /\ applied = Tasks /\ staleTasks = {} /\ StaleByPlace /\ verified
      /\ mem.repaired \/ NothingReused
  BY <1>0, <1>a, AtCheck
<1>1. CASE EvaluateGoalSatisfaction
  <2>1. /\ Write({"sat"}) /\ pc' = pc /\ phase' = "written"
        /\ UNCHANGED <<mem, staleTasks, applied, verified>>
    BY <1>1 DEF EvaluateGoalSatisfaction, Stay, tasksOnDisk, ghost
  <2>2. files' = files \cup {"sat"} /\ "evidence" \notin files' /\ stale' \subseteq stale \ {"sat"}
    BY <1>b, <2>1, CheckWrite
  <2>3. StaleByPlace' /\ (mem.repaired \/ NothingReused')
    BY <1>0, <1>b, <2>1, <2>2 DEF StaleByPlace, NothingReused
  <2>4. FreshChecks'
    BY <1>0, <1>b, <2>1, <2>2, <2>3 DEF FreshChecks
  <2> QED
    BY <1>a, <2>1, <2>4, ChecksMove
<1>2. CASE DecideSatisfaction
  <2>1. phase # "begin"
    BY <1>0, <1>2, <1>b DEF DecideSatisfaction, At, ReuseSatisfaction, NothingReused
  <2>2. PICK s : s.repaired = mem.repaired /\ Leave(s, RouteAfterSatisfaction(s))
    BY <1>2, <1>b DEF DecideSatisfaction, State
  <2>3. /\ pc' \in {"run_independent_review", "repair_failure"} /\ phase' = "begin"
        /\ mem'.repaired = mem.repaired
        /\ UNCHANGED <<files, stale, staleTasks, applied, verified>>
    BY <2>2 DEF Leave, Goto, RouteAfterSatisfaction, tasksOnDisk, ghost
  <2>4. StaleByPlace' /\ (mem'.repaired \/ NothingReused')
    BY <1>0, <1>b, <2>1, <2>3 DEF StaleByPlace, NothingReused
  <2>5. FreshChecks'
    BY <1>b, <2>3, <2>4 DEF FreshChecks
  <2> QED
    BY <2>3, <2>5, ChecksMove DEF Checking
<1> QED
  BY <1>1, <1>2 DEF EvaluateSatisfaction

LEMMA FreshReview ==
    ASSUME FreshInv, Unbroken, RunIndependentReview
    PROVE  Moves
<1>0. pc = "run_independent_review"
  BY DEF RunIndependentReview, RunReview, RecordReview, At
<1>a. pc \in Checking \ {"prepare_evidence"}
  BY <1>0 DEF Checking
<1>b. /\ mem \in State
      /\ files \subseteq Names /\ "evidence" \notin files /\ "release" \notin files
      /\ applied = Tasks /\ staleTasks = {} /\ StaleByPlace /\ verified
      /\ mem.repaired \/ NothingReused
  BY <1>0, <1>a, AtCheck
<1>1. CASE RunReview
  <2>1. /\ Write({"review"}) /\ pc' = pc /\ phase' = "written"
        /\ UNCHANGED <<mem, staleTasks, applied, verified>>
    BY <1>1 DEF RunReview, Stay, tasksOnDisk, ghost
  <2>2. files' = files \cup {"review"} /\ "evidence" \notin files'
        /\ stale' \subseteq stale \ {"review"}
    BY <1>b, <2>1, CheckWrite
  <2>3. StaleByPlace' /\ (mem.repaired \/ NothingReused')
    BY <1>0, <1>b, <2>1, <2>2 DEF StaleByPlace, NothingReused
  <2>4. FreshChecks'
    BY <1>0, <1>b, <2>1, <2>2, <2>3 DEF FreshChecks
  <2> QED
    BY <1>a, <2>1, <2>4, ChecksMove
<1>2. CASE RecordReview
  <2>1. phase # "begin"
    BY <1>0, <1>2, <1>b DEF RecordReview, At, ReuseReview, NothingReused
  <2>2. PICK s : s.repaired = mem.repaired /\ Leave(s, RouteAfterReview(s))
    BY <1>2, <1>b DEF RecordReview, State
  <2>3. /\ pc' \in {"prepare_evidence", "repair_failure"} /\ phase' = "begin"
        /\ mem'.repaired = mem.repaired
        /\ UNCHANGED <<files, stale, staleTasks, applied, verified>>
    BY <2>2 DEF Leave, Goto, RouteAfterReview, tasksOnDisk, ghost
  <2>4. StaleByPlace' /\ (mem'.repaired \/ NothingReused')
    BY <1>0, <1>b, <2>1, <2>3 DEF StaleByPlace, NothingReused
  <2>5. FreshChecks'
    BY <1>b, <2>3, <2>4 DEF FreshChecks
  <2> QED
    BY <2>3, <2>5, ChecksMove DEF Checking
<1> QED
  BY <1>1, <1>2 DEF RunIndependentReview

(* The gates run again after a repair, because the state knows of it.      *)
LEMMA FreshRepair ==
    ASSUME FreshInv, Unbroken, RepairFailure
    PROVE  Moves
<1>0. pc = "repair_failure"
  BY DEF RepairFailure, ReuseRepairResult, BeginRepair, RunRepairWorker, WriteRepairResult,
         RecordRepair, At
<1>a. pc \in Checking \ {"prepare_evidence"}
  BY <1>0 DEF Checking
<1>b. /\ mem \in State /\ "evidence" \notin files
      /\ applied = Tasks /\ staleTasks = {} /\ StaleByPlace
      /\ UNCHANGED <<files, stale, staleTasks, applied>>
  BY <1>a, AtCheck DEF RepairFailure, ReuseRepairResult, BeginRepair, RunRepairWorker,
     WriteRepairResult, RecordRepair, Leave, tasksOnDisk, ghost
<1>1. CASE ReuseRepairResult \/ RecordRepair
  <2>1. pc' = "run_quality_gates" /\ phase' = "begin" /\ mem'.repaired
    BY <1>1, <1>b DEF ReuseRepairResult, RecordRepair, Leave, Goto, State
  <2>2. FreshChecks'
    BY <1>0, <1>b, <2>1 DEF FreshChecks, StaleByPlace
  <2> QED
    BY <2>1, <2>2, ChecksMove DEF Checking
<1>2. CASE BeginRepair \/ RunRepairWorker \/ WriteRepairResult
  <2>1. pc' = pc
    BY <1>2 DEF BeginRepair, RunRepairWorker, WriteRepairResult, Stay
  <2>2. FreshChecks'
    BY <1>0, <1>b, <2>1 DEF FreshChecks, StaleByPlace, NothingReused
  <2> QED
    BY <1>a, <2>1, <2>2, ChecksMove
<1> QED
  BY <1>1, <1>2 DEF RepairFailure

(* The bundle.                                                             *)
LEMMA EvidencePlace ==
    ASSUME Graph, pc = "prepare_evidence"
    PROVE  PrepareEvidence
BY DEF Graph, CollectGoal, InspectRepository, CreateVerificationPlan, IntegrateChanges,
       Produce, Record, DraftSpec, WriteSpec, ReuseSpec, StopForSpecApproval, AcceptSpec,
       ValidateSpec, ValidateExecutionPlan, ValidateStage, CreateExecutionPlan,
       WriteMissingVerificationPlan, WritePlan, DecidePlan, MaterializeTasks, DispatchTasks,
       BeginDispatch, DispatchTask, WriteTask, WriteWorkerRequest, RunWorker,
       WriteWorkerResult, RecordDispatch, RecordCompletion, ApplyPatch, StopDispatch,
       FinishDispatch, Dispatching, RunQualityGates, RunGates, RequestToolCheck,
       RunToolCheck, DecideGates, EvaluateSatisfaction, EvaluateGoalSatisfaction,
       DecideSatisfaction, RunIndependentReview, RunReview, RecordReview, RepairFailure,
       ReuseRepairResult, BeginRepair, RunRepairWorker, WriteRepairResult, RecordRepair, At

LEMMA FreshBundle ==
    ASSUME FreshInv, Unbroken, BuildEvidence
    PROVE  Moves /\ Good'
<1>1. /\ pc = "prepare_evidence" /\ "evidence" \notin files /\ Write({"evidence"})
      /\ pc' = pc /\ UNCHANGED <<taskFile, staleTasks, applied, verified>>
  BY DEF BuildEvidence, At, control, tasksOnDisk, ghost
<1>2. stale = {} /\ staleTasks = {} /\ applied = Tasks /\ verified
  BY <1>1 DEF Unbroken, FreshChecks, StaleByPlace, Checking
<1>3. \A b \in Names \ {"release"} : "evidence" \notin Cited(b)
  BY NamesKnown DEF Cited, Inputs
<1>4. "evidence" \in files' /\ stale' = {}
  BY <1>1, <1>2, <1>3, FreshTypes DEF Write, FreshInv, ProductsFollow, TypeInv, TypeOK
<1>5. FreshChecks'
  BY <1>1, <1>4 DEF FreshChecks, Checking
<1> QED
  BY <1>1, <1>2, <1>4, <1>5, ChecksMove DEF Good, Pure, Checking

LEMMA FreshDelivery ==
    ASSUME FreshInv, RecordEvidence
    PROVE  /\ Moves /\ pc' = "finish" /\ row' = mem'.status
           /\ UNCHANGED <<files, doc, stale, staleTasks, applied, verified>>
           /\ doc.ready => mem'.status = "ready_for_human_review"
<1>1. PICK s : /\ s = [mem EXCEPT !.stage = "prepare_evidence", !.arts = @ \cup {"evidence"},
                                  !.status = IF doc.ready THEN "ready_for_human_review"
                                                          ELSE "human_required"]
               /\ Leave(s, "finish")
  BY DEF RecordEvidence
<1>2. /\ s.stage = "prepare_evidence"
      /\ doc.ready => s.status = "ready_for_human_review"
  BY <1>1, FreshTypes DEF State
<1>3. /\ pc' = "finish" /\ mem' = s /\ row' = s.status
      /\ UNCHANGED <<files, doc, stale, staleTasks, applied, verified>>
  BY <1>1 DEF Leave, Save, Goto, tasksOnDisk, ghost
<1> QED
  BY <1>2, <1>3, FinishMove DEF Reached, Halts

LEMMA GraphFreshMoves ==
    ASSUME FreshInv, Unbroken, Graph
    PROVE  Moves
BY FreshEarly, FreshDispatch, FreshIntegrate, FreshGates, FreshSatisfaction, FreshReview,
   FreshRepair, FreshBundle, FreshDelivery DEF Graph, PrepareEvidence

LEMMA GraphUnbroken ==
    ASSUME FreshInv, Unbroken, Graph
    PROVE  Unbroken'
<1>0. Moves /\ Pathway /\ pc \in Nodes /\ TypeInv
  BY GraphFreshMoves, GraphPath, GraphAtNode, FreshTypes
<1>1. FreshOutside'
  BY <1>0 DEF Moves, Pathway, FreshOutside, Nodes
<1>2. Recorded'
  <2>1. pc # "collect_goal" => mem.arts # {}
    BY <1>0 DEF Unbroken, Recorded
  <2>2. pc' # "collect_goal" => mem'.arts # {}
    BY <1>0, <2>1 DEF Pathway
  <2> QED
    BY <1>0, <2>2 DEF Pathway, Recorded, Nodes
<1>3. FreshReady'
  <2>1. CASE Ready
    <3>1. pc = "prepare_evidence" /\ Good
      BY <1>0, <2>1 DEF Unbroken, FreshReady
    <3>2. RecordEvidence
      BY <2>1, <3>1, EvidencePlace DEF PrepareEvidence, BuildEvidence, Ready
    <3> QED
      BY <2>1, <3>1, <3>2, FreshDelivery DEF FreshReady, Ready, Good, Pure, Nodes
  <2>2. CASE ~Ready /\ Ready'
    <3>1. BuildEvidence
      BY <1>0, <2>2, GraphWriters DEF BundleStill, Ready
    <3>2. pc' = "prepare_evidence"
      BY <3>1 DEF BuildEvidence, At, control
    <3> QED
      BY <3>1, <3>2, FreshBundle DEF FreshReady, Outside
  <2>3. CASE ~Ready'
    BY <2>3 DEF FreshReady
  <2> QED
    BY <2>1, <2>2, <2>3
<1> QED
  BY <1>0, <1>1, <1>2, <1>3 DEF Unbroken, Moves, FreshPlaces

(* Outside the graph nothing happens to the work.                          *)
LEMMA OutsidePlaces ==
    ASSUME pc' \in Outside \cup {"idle"}
    PROVE  FreshPlaces'
BY DEF FreshPlaces, FreshBefore, FreshWork, FreshIntegration, FreshChecks, NotStarted, Outside,
       Early, Checking

Material == <<files, doc, stale, taskFile, staleTasks, applied, verified>>

LEMMA MaterialStays ==
    ASSUME UNCHANGED Material
    PROVE  /\ Untouched' = Untouched /\ Pure' = Pure /\ Good' = Good /\ Ready' = Ready
BY DEF Material, Untouched, NoProducts, Pure, Good, Ready

LEMMA FreshStart ==
    ASSUME FreshInv, Unbroken, Start \/ Finish
    PROVE  Unbroken'
<1>0. /\ UNCHANGED Material /\ mem' = mem /\ row' = mem.status
      /\ \/ pc = "start" /\ pc' = "enter"
         \/ pc = "finish" /\ pc' = "leave"
  BY DEF Start, Finish, Save, tasksOnDisk, ghost, Material
<1>1. mem.status # "none"
  BY FreshTypes DEF State, Statuses
<1>2. FreshOutside'
  BY <1>0, <1>1, MaterialStays DEF Unbroken, FreshOutside, Reached
<1>3. Recorded' /\ FreshReady'
  BY <1>0, MaterialStays DEF Unbroken, Recorded, FreshReady, Outside, Nodes
<1> QED
  BY <1>0, <1>2, <1>3, OutsidePlaces DEF Unbroken, FreshPlaces, Outside

LEMMA FreshEnter ==
    ASSUME FreshInv, Unbroken, Enter
    PROVE  Unbroken'
<1>0. /\ pc = "enter" /\ pc' = EntryNode(mem) /\ UNCHANGED Material /\ UNCHANGED <<mem, row>>
      /\ pc' \in Nodes => phase' = "begin"
  BY DEF Enter, Goto, tasksOnDisk, ghost, Material
<1>1. /\ Pure' /\ (mem'.stage \in Halts \/ Untouched')
      /\ mem.stage \in Stages /\ MayEnter(mem, files) /\ applied \subseteq Tasks
  BY <1>0, FreshTypes, MaterialStays DEF Unbroken, FreshOutside, State
<1>2. \/ pc' = mem.stage /\ pc' \in Nodes
      \/ pc' = "finish" /\ mem.stage = "human_required"
  BY <1>0, <1>1 DEF EntryNode, Stages
<1>3. \A node \in Nodes : pc' = node => Stands(node, mem, files)
  BY <1>1, <1>2 DEF MayEnter, Nodes
<1>4. FreshPlaces'
  <2>1. CASE pc' = "finish"
    BY <2>1, OutsidePlaces DEF Outside
  <2>2. CASE pc' = "prepare_evidence"
    <3>1. "evidence" \in files'
      BY <1>0, <1>1, <1>2, <2>2 DEF MayEnter, Material
    <3>2. FreshChecks'
      BY <2>2, <3>1 DEF FreshChecks
    <3> QED
      BY <2>2, <3>2, ChecksMove DEF Moves, Checking
  <2>3. CASE pc' \in Nodes \ {"prepare_evidence"}
    <3>1. Untouched'
      BY <1>0, <1>1, <1>2, <2>3 DEF Halts, Nodes
    <3>2. pc' \in Checking \ {"prepare_evidence"} => FALSE
      <4>1. pc' \in Checking \ {"prepare_evidence"} => "integration" \in files'
        BY <1>0, <1>3, <2>3, StandsKnown DEF Checking, Material
      <4> QED
        BY <3>1, <4>1 DEF Untouched, NoProducts, Products
    <3>3. CASE pc' = "integrate_changes"
      <4>1. mem.done = Tasks
        BY <1>3, <3>3, StandsKnown DEF Nodes
      <4>2. mem.done \subseteq WithResult
        BY DEF FreshInv, LifeInv, DeliveryInv, OnDiskInv, StatesOnDisk, NamesDisk, NamesOnly
      <4>3. Untouched
        BY <1>0, <3>1, MaterialStays
      <4>4. Tasks = {}
        BY <4>1, <4>2, <4>3 DEF Untouched, WithResult, Results
      <4>5. FreshIntegration'
        BY <1>0, <1>1, <3>1, <4>4 DEF FreshIntegration, Untouched, NoProducts, Material
      <4> QED
        BY <3>3, <4>5, IntegrationMove DEF Moves
    <3>4. CASE pc' \in Early \cup {"materialize_tasks", "dispatch_tasks"}
      BY <1>0, <1>1, <2>3, <3>1, <3>4, BeforeMove DEF Moves
    <3> QED
      BY <2>3, <3>2, <3>3, <3>4 DEF Nodes, Early, Checking
  <2> QED
    BY <1>2, <2>1, <2>2, <2>3
<1>5. FreshOutside'
  BY <1>0, <1>2 DEF FreshOutside, Reached, Halts, Nodes
<1>6. Recorded'
  BY <1>0, <1>2 DEF Unbroken, Recorded, Nodes
<1>7. FreshReady'
  <2>1. Ready' => Ready /\ Good'
    BY <1>0, MaterialStays DEF Unbroken, FreshReady
  <2>2. Ready => mem.status = "ready_for_human_review" /\ row = mem.status
    BY <1>0 DEF Unbroken, FreshReady, Outside
  <2>3. Ready => pc' = "prepare_evidence"
    BY <1>1, <1>2, <2>2 DEF MayEnter
  <2> QED
    BY <1>0, <2>1, <2>2, <2>3 DEF FreshReady, Outside
<1> QED
  BY <1>4, <1>5, <1>6, <1>7 DEF Unbroken, FreshPlaces

LEMMA FreshExit ==
    ASSUME FreshInv, Unbroken, SaverAvailable, Exit
    PROVE  Unbroken'
<1>0. /\ pc = "leave" /\ pc' = "idle" /\ row' = row /\ UNCHANGED Material /\ SaveLangGraph(mem)
  BY DEF Exit, Forget, tasksOnDisk, ghost, Material
<1>1. mem \in State /\ TypeOK /\ mem.arts # {} /\ row # "none"
  BY <1>0, FreshTypes DEF TypeInv, Unbroken, Recorded, FreshOutside
<1>2. /\ lg' # NoState /\ lg'.stage = mem.stage /\ lg'.status = mem.status
      /\ mem.arts \subseteq lg'.arts
  <2>1. lg' \in State /\ lg'.stage = mem.stage /\ lg'.status = mem.status
    BY <1>0, <1>1, SaveLangGraphType
  <2> QED
    BY <1>0, <1>1, <2>1, NoStateAssumption DEF SaveLangGraph, State
<1>3. FreshOutside'
  BY <1>0, <1>1, <1>2, MaterialStays DEF Unbroken, FreshOutside, Reached
<1>4. Recorded'
  BY <1>0, <1>1, <1>2 DEF Recorded, Nodes
<1>5. FreshReady'
  BY <1>0, <1>2, MaterialStays DEF Unbroken, FreshReady, Outside, Nodes
<1> QED
  BY <1>0, <1>3, <1>4, <1>5, OutsidePlaces DEF Unbroken, FreshPlaces

LEMMA FreshBegin ==
    ASSUME FreshInv, Unbroken, SaverAvailable, Run \/ DryRun \/ Resume
    PROVE  Unbroken'
<1>0. pc = "idle"
  BY DEF Run, DryRun, Resume
<1>1. CASE Run
  <2>1. /\ pc' = "start" /\ mem' = Fresh /\ UNCHANGED Material /\ row = "none" /\ files = {}
    BY <1>1 DEF Run, tasksOnDisk, ghost, Material
  <2>2. Fresh.stage = "collect_goal"
    BY DEF Fresh
  <2>3. Untouched' /\ Pure' /\ ~Ready'
    BY <1>0, <2>1, MaterialStays DEF Unbroken, FreshOutside, Ready
  <2>4. FreshOutside' /\ Recorded' /\ FreshReady'
    BY <2>1, <2>2, <2>3 DEF FreshOutside, Recorded, FreshReady, Nodes
  <2> QED
    BY <2>1, <2>4, OutsidePlaces DEF Unbroken, FreshPlaces, Outside
<1>2. CASE DryRun
  <2>1. /\ pc' = "finish" /\ row = "none" /\ files = {} /\ taskFile' = taskFile
        /\ Write({"goal", "snapshot", "spec", "vplan", "plan"})
    BY <1>2 DEF DryRun, tasksOnDisk
  <2>2. mem'.arts # {}
    BY <1>2, FreshType DEF DryRun, State
  <2>3. Untouched' /\ ~Ready'
    BY <1>0, <2>1 DEF Unbroken, FreshOutside, Write, Untouched, NoProducts, Products, Ready
  <2>4. FreshOutside' /\ Recorded' /\ FreshReady'
    BY <2>1, <2>2, <2>3 DEF FreshOutside, Reached, Recorded, FreshReady, Nodes
  <2> QED
    BY <2>1, <2>4, OutsidePlaces DEF Unbroken, FreshPlaces, Outside
<1>3. CASE Resume
  <2>1. /\ row # "none" /\ UNCHANGED Material /\ UNCHANGED <<row, lg>>
    BY <1>3 DEF Resume, saved, tasksOnDisk, ghost, Material
  <2>2. /\ lg # NoState /\ lg \in State /\ Remembered = lg
        /\ Reached(lg) /\ lg.arts # {}
    BY <1>0, <2>1, FreshTypes DEF Unbroken, FreshOutside, Recorded, Remembered
  <2>3. \/ /\ pc' = "finish" /\ mem'.stage = "human_required" /\ mem'.arts = lg.arts /\ ~Pure
        \/ /\ pc' = "start" /\ mem' = lg /\ Pure
    BY <1>3, <2>2 DEF Resume, ArtifactsComplete, State, Pure
  <2>4. FreshOutside'
    BY <2>1, <2>2, <2>3, MaterialStays DEF FreshOutside, Reached, Halts
  <2>5. Recorded'
    BY <2>2, <2>3 DEF Recorded, Nodes
  <2>6. FreshReady'
    <3>1. Ready' => Ready /\ Good'
      BY <2>1, MaterialStays DEF Unbroken, FreshReady
    <3>2. Ready => Pure /\ row = "ready_for_human_review" /\ lg.status = row
      BY <1>0 DEF Unbroken, FreshReady, Good
    <3> QED
      BY <2>1, <2>3, <3>1, <3>2 DEF FreshReady, Outside, Nodes
  <2> QED
    BY <2>3, <2>4, <2>5, <2>6, OutsidePlaces DEF Unbroken, FreshPlaces, Outside
<1> QED
  BY <1>1, <1>2, <1>3

(* Where an approval may meet the process.                                 *)
LEMMA ApprovePlace ==
    ASSUME FreshInv, Approve
    PROVE  /\ row = "human_required" /\ UNCHANGED <<pc, phase, mem, locked>>
           /\ pc \in {"idle", "finish", "leave"} \/ Ending
<1>1. /\ ~locked /\ row = "human_required" /\ UNCHANGED <<pc, phase, mem, locked>>
  BY DEF Approve, ApproveSpec, ApprovePlan, ApproveRun, MayApprove, control, session
<1>2. pc \in Nodes \cup {"idle", "start", "enter", "finish", "leave"} /\ mem.status \in Statuses
  BY FreshTypes DEF TypeInv, TypeOK, State
<1>3. pc # "start" /\ pc \notin (Nodes \ Validating) \cup {"enter"}
  BY <1>1 DEF FreshInv, Unlocked, LifeInv, RowRuns
<1>4. pc \in Validating => mem.status = "human_required"
  <2>1. pc \in Validating => mem.status # "running"
    BY <1>1 DEF FreshInv, LifeInv, RowRuns, Validating, Nodes
  <2>2. pc \in Validating => mem.status # "ready_for_human_review"
    BY FreshTypes, StandsKnown DEF Validating, Nodes
  <2> QED
    BY <1>2, <2>1, <2>2 DEF Statuses
<1> QED
  BY <1>1, <1>2, <1>3, <1>4 DEF Ending

(* What was worked on and is approved again is stale.                      *)
LEMMA ApproveTaints ==
    ASSUME FreshInv, ApproveSpec \/ ApprovePlan
    PROVE  /\ files' = files /\ taskFile' = taskFile /\ Untouched' = Untouched
           /\ ~Untouched => ~Pure'
<1> USE NamesKnown
<1>0. /\ Ordered(files) /\ taskFile \in [Tasks -> TaskFiles]
      /\ Products \cap files # {} => "integration" \in files
      /\ "plan" \notin files => \A t \in Tasks : taskFile[t] = "none"
  BY FreshTypes DEF FreshInv, ProductsFollow, LifeInv, WorkIsAllowed
<1>a. ~Untouched => "plan" \in files
  BY <1>0 DEF Untouched, NoProducts, Ordered
<1>1. CASE ApproveSpec
  <2>1. PICK S \in SUBSET Names : Write(S) /\ S \subseteq files /\ "spec" \in S /\ "plan" \notin S
    BY <1>1 DEF ApproveSpec
  <2>2. files' = files /\ taskFile' = taskFile
    BY <1>1, <2>1 DEF ApproveSpec, Write, tasksOnDisk
  <2>3. "plan" \in files => "plan" \in stale'
    BY <2>1 DEF Write, Cited, Inputs
  <2> QED
    BY <1>a, <2>2, <2>3 DEF Untouched, NoProducts, Pure
<1>2. CASE ApprovePlan
  <2>1. /\ Write({"plan"}) /\ "plan" \in files /\ taskFile' = taskFile
        /\ staleTasks' = {t \in Tasks : taskFile[t] # "none"}
    BY <1>2 DEF ApprovePlan
  <2>2. files' = files
    BY <2>1 DEF Write
  <2>3. "integration" \in files => "integration" \in stale'
    BY <2>1 DEF Write, Cited, Inputs
  <2> QED
    BY <1>0, <2>1, <2>2, <2>3 DEF Untouched, NoProducts, Pure
<1> QED
  BY <1>1, <1>2

LEMMA FreshApprove ==
    ASSUME FreshInv, Unbroken, SaverAvailable, Approve
    PROVE  Unbroken'
<1>0. /\ row = "human_required" /\ UNCHANGED <<pc, phase, mem>>
      /\ pc \in {"idle", "finish", "leave"} \/ Ending
      /\ TypeInv
  BY ApprovePlace, FreshTypes
<1>1. ~Ready
  BY <1>0 DEF Unbroken, FreshReady, Ending, Validating, Outside, Nodes
<1>2. files' = files /\ doc'.ready = doc.ready /\ row' # "none"
  BY ApproveTaints, FreshTypes
     DEF Approve, ApproveSpec, ApprovePlan, ApproveRun, Document
<1>3. FreshReady'
  BY <1>1, <1>2 DEF Ready, FreshReady
<1>4. Untouched' = Untouched /\ (Untouched \/ Pure' = Pure \/ ~Pure')
  BY ApproveTaints DEF Approve, ApproveRun, Untouched, NoProducts, Pure, tasksOnDisk
<1>5. FreshPlaces'
  <2>1. Ending => Ending'
    BY <1>0 DEF Ending
  <2>2. Ending => Untouched
    BY DEF Ending, Unbroken, FreshBefore, NotStarted, Validating, Early
  <2>3. CASE Ending
    BY <1>0, <1>4, <2>1, <2>2, <2>3 DEF FreshPlaces, FreshBefore, FreshWork, FreshIntegration,
                                        FreshChecks, Ending, Validating, Checking
  <2>4. CASE pc \in {"idle", "finish", "leave"}
    BY <1>0, <2>4, OutsidePlaces DEF Outside
  <2> QED
    BY <1>0, <2>3, <2>4
<1>6. pc = "idle" => lg' # NoState /\ lg'.arts # {} /\ Reached(lg)'
  <2>0. pc = "idle" => lg # NoState /\ lg.arts # {} /\ Reached(lg) /\ lg \in State
    BY <1>0, FreshTypes DEF Unbroken, FreshOutside, Recorded
  <2>1. CASE ApproveRun
    BY <1>4, <2>0, <2>1 DEF ApproveRun, Reached, Pure, tasksOnDisk
  <2>2. CASE ApproveSpec \/ ApprovePlan
    <3>1. PICK stage \in Stages, a \in Names : SaveLangGraph(ResumeAt(stage, a))
      BY <2>2, NamesKnown DEF ApproveSpec, ApprovePlan, Stages, Nodes
    <3>2. Untouched' \/ ~Pure'
      BY <1>4, <2>2, ApproveTaints
    <3>3. Remembered \in State
      BY <1>0, RememberedType DEF TypeInv, RowIsSaved, Remembered
    <3> DEFINE s == ResumeAt(stage, a)
    <3>4. s \in State /\ s.arts # {}
      <4>1. s \in State
        BY <3>1, <3>3, HaltedNotedType DEF ResumeAt, Statuses
      <4> QED
        BY <3>3, <4>1 DEF ResumeAt, State
    <3> HIDE DEF s
    <3>5. lg' \in State /\ lg'.arts # {}
      <4>1. lg' \in State
        BY <1>0, <3>1, <3>4, SaveLangGraphType DEF TypeInv, s
      <4>2. SaveLangGraph(s)
        BY <3>1 DEF s
      <4> QED
        BY <3>4, <4>1, <4>2 DEF SaveLangGraph, State
    <3> QED
      BY <3>2, <3>5, NoStateAssumption DEF Reached
  <2> QED
    BY <2>1, <2>2 DEF Approve
<1>7. FreshOutside'
  <2>1. pc \in {"finish", "leave"} => Reached(mem)
    BY DEF Unbroken, FreshOutside
  <2>2. pc \in {"finish", "leave"} => Reached(mem)'
    BY <1>0, <1>4, <2>1 DEF Reached
  <2> QED
    BY <1>0, <1>2, <1>6, <2>2 DEF FreshOutside, Ending, Validating
<1>8. Recorded'
  BY <1>0, <1>6 DEF Unbroken, Recorded
<1> QED
  BY <1>3, <1>5, <1>7, <1>8 DEF Unbroken, FreshPlaces

-----------------------------------------------------------------------------
LEMMA UnlockedStep ==
    ASSUME FreshInv, [Next]_vars
    PROVE  Unlocked'
<1>1. CASE Graph
  <2>1. Pathway /\ pc \in Nodes /\ mem.status \in Statuses
        /\ (pc \in Validating => mem.status # "ready_for_human_review")
    BY <1>1, GraphPath, GraphAtNode, FreshTypes, StandsKnown DEF State, Validating, Nodes
  <2> QED
    BY <2>1 DEF FreshInv, Unlocked, Pathway, Statuses, Nodes
<1>2. CASE Start \/ Enter \/ Finish
  <2>1. /\ UNCHANGED <<mem, locked>>
        /\ \/ pc = "start" /\ pc' = "enter"
           \/ pc = "enter"
           \/ pc' = "leave"
        /\ pc' # "start"
    BY <1>2 DEF Start, Enter, Finish, Goto, EntryNode, session, Nodes
  <2> QED
    BY <2>1 DEF FreshInv, Unlocked, Nodes
<1>3. CASE Exit \/ ExceedRecursion \/ Crash \/ LockExpires
  <2>1. pc' = "idle"
    BY <1>3 DEF Exit, ExceedRecursion, Crash, LockExpires, Forget, control
  <2> QED
    BY <2>1 DEF Unlocked, Nodes
<1>4. CASE Run \/ DryRun \/ Resume
  <2>1. Fresh.status = "running"
    BY DEF Fresh
  <2>2. \/ pc' = "start" /\ row' = "none" /\ mem' = Fresh
        \/ pc' = "finish"
        \/ locked'
    BY <1>4 DEF Run, DryRun, Resume, saved
  <2> QED
    BY <2>1, <2>2 DEF Unlocked, Nodes
<1>5. CASE Approve
  BY <1>5, ApprovePlace DEF FreshInv, Unlocked, Ending, Validating, Nodes
<1>6. CASE UNCHANGED vars
  BY <1>6 DEF vars, control, saved, session, FreshInv, Unlocked
<1> QED
  BY <1>1, <1>2, <1>3, <1>4, <1>5, <1>6 DEF Next, Process

LEMMA UnbrokenStep ==
    ASSUME FreshInv, Unbroken, SaverAvailable, [Next]_vars, ~broken'
    PROVE  Unbroken'
<1>1. CASE ExceedRecursion \/ Crash
  BY <1>1 DEF ExceedRecursion, Crash
<1>2. CASE LockExpires \/ UNCHANGED vars
  <2>1. UNCHANGED Material /\ UNCHANGED <<pc, phase, mem, work, row, lg>>
    BY <1>2 DEF LockExpires, vars, control, saved, tasksOnDisk, ghost, Material
  <2>2. /\ FreshBefore' /\ FreshIntegration' /\ FreshChecks'
        /\ FreshOutside' /\ Recorded' /\ FreshReady'
    BY <2>1, MaterialStays DEF Unbroken, FreshBefore, FreshIntegration, FreshChecks,
       FreshOutside, Recorded, FreshReady, NotStarted, Ending, Reached, StaleByPlace,
       NothingReused, Material
  <2>3. FreshWork'
    BY <2>1 DEF Unbroken, FreshWork, Pure, NoProducts, TaskAt, Sequential, Material
  <2> QED
    BY <2>2, <2>3 DEF Unbroken
<1> QED
  BY <1>1, <1>2, GraphUnbroken, FreshStart, FreshEnter, FreshExit, FreshBegin, FreshApprove
     DEF Next, Process

LEMMA BrokenForGood ==
    ASSUME FreshInv, [Next]_vars, ~broken'
    PROVE  ~broken
<1>1. CASE Graph
  BY <1>1, GraphPath DEF Pathway
<1>2. CASE ~Graph
  BY <1>2 DEF Next, Process, Start, Enter, ExceedRecursion, Finish, Exit, Run, DryRun, Resume,
     Approve, ApproveSpec, ApprovePlan, ApproveRun, Crash, LockExpires, session, vars
<1> QED
  BY <1>1, <1>2

LEMMA InitFresh == Init => FreshInv
<1> SUFFICES ASSUME Init PROVE FreshInv
  OBVIOUS
<1>1. LifeInv
  BY InitLife
<1>2. Unlocked /\ ProductsFollow
  BY DEF Init, Unlocked, ProductsFollow, Nodes
<1>3. FreshBefore /\ FreshWork /\ FreshIntegration /\ FreshChecks
  BY DEF Init, FreshBefore, NotStarted, Early, FreshWork, FreshIntegration, FreshChecks, Checking
<1>4. FreshOutside /\ Recorded /\ FreshReady
  BY DEF Init, FreshOutside, Untouched, NoProducts, Pure, Recorded, FreshReady, Ready, Nodes
<1> QED
  BY <1>1, <1>2, <1>3, <1>4 DEF FreshInv, Unbroken

LEMMA NextFresh == SaverAvailable /\ FreshInv /\ [Next]_vars => FreshInv'
<1> SUFFICES ASSUME SaverAvailable, FreshInv, [Next]_vars PROVE FreshInv'
  OBVIOUS
<1>1. LifeInv'
  BY NextLife DEF FreshInv
<1>2. ~broken' => Unbroken'
  BY UnbrokenStep, BrokenForGood DEF FreshInv
<1> QED
  BY <1>1, <1>2, UnlockedStep, ProductsStep DEF FreshInv

(* If no invocation was broken off, what is offered for review is what was *)
(* checked: nothing is stale, the change of every task is in the workspace *)
(* and the gates ran after the last change - for any number of tasks,      *)
(* repairs, resumes and approvals, whether a blocking review is repaired   *)
(* or not.  The LangGraph saver is installed.                              *)
THEOREM ReadyRunsAreFresh == SaverAvailable => (Spec => []ReadyIsFresh)
<1> SUFFICES ASSUME SaverAvailable PROVE Spec => []ReadyIsFresh
  OBVIOUS
<1>1. FreshInv /\ [Next]_vars => FreshInv'
  BY NextFresh
<1>2. FreshInv => ReadyIsFresh
  BY DEF FreshInv, LifeInv, SavedReady, SomeReady, Unbroken, FreshReady, Good, Pure,
         ReadyIsFresh
<1> QED
  BY <1>1, <1>2, InitFresh, PTL DEF Spec
=============================================================================
