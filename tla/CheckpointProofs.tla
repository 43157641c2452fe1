-------------------------- MODULE CheckpointProofs --------------------------
(***************************************************************************)
(* What the checkpoints of a run name is on disk, whatever was killed when *)
(* and however approvals interleave.  CheckpointsNameDisk is not inductive *)
(* by itself: a node saves what it has in memory, so the state of the      *)
(* process must name only what is on disk too (OnDiskInv), and a node that *)
(* is past its write must have its artifact (WrittenOnDisk, WorkOnDisk).   *)
(***************************************************************************)
EXTENDS WorkflowProofs

WithResult == {t \in Tasks : taskFile[t] \in Results}

(* The artifacts and tasks a state names are among those given.            *)
NamesOnly(s, artifacts, tasks) ==
    s.arts \subseteq artifacts /\ s.workers \subseteq tasks /\ s.done \subseteq tasks

NamesDisk(s) == NamesOnly(s, files, WithResult)

StatesOnDisk ==
    /\ NamesDisk(mem)
    /\ wf # NoState => NamesDisk(wf)
    /\ lg # NoState => NamesDisk(lg)

(* A node that is past its write has its artifact.                         *)
WrittenOnDisk ==
    phase # "begin" =>
        /\ pc = "draft_spec" => "spec" \in files
        /\ pc = "create_execution_plan" => "vplan" \in files
        /\ pc = "run_quality_gates" => "gate" \in files
        /\ pc = "evaluate_goal_satisfaction" => "sat" \in files
        /\ pc = "run_independent_review" => "review" \in files

WorkOnDisk ==
    \A t \in Tasks : work[t] \in {"skipped", "result", "recorded", "done"} => t \in WithResult

OnDiskInv == TypeInv /\ StatesOnDisk /\ WrittenOnDisk /\ WorkOnDisk

-----------------------------------------------------------------------------
(* Nothing leaves the disk.                                                *)
DiskKept == files \subseteq files' /\ WithResult \subseteq WithResult'

LEMMA NamesMonotone ==
    ASSUME NEW s, NEW a, NEW b, NEW ts, NEW us, NamesOnly(s, a, ts), a \subseteq b, ts \subseteq us
    PROVE  NamesOnly(s, b, us)
BY DEF NamesOnly

LEMMA NamesKept ==
    ASSUME DiskKept, NEW s, NamesDisk(s)
    PROVE  NamesOnly(s, files', WithResult')
BY NamesMonotone DEF DiskKept, NamesDisk

LEMMA StatesStill ==
    ASSUME OnDiskInv, DiskKept, UNCHANGED <<mem, wf, lg>>
    PROVE  StatesOnDisk'
BY NamesKept DEF OnDiskInv, StatesOnDisk, NamesDisk

(* A save of what the process has.                                         *)
LEMMA StatesSaved ==
    ASSUME OnDiskInv, DiskKept, NamesDisk(mem)', wf' \in {wf, mem'}, lg' = lg
    PROVE  StatesOnDisk'
BY NamesKept DEF OnDiskInv, StatesOnDisk, NamesDisk

LEMMA FreshNames ==
    ASSUME NEW a, NEW ts
    PROVE  NamesOnly(Fresh, a, ts)
BY DEF Fresh, NamesOnly

LEMMA SameDisk ==
    ASSUME UNCHANGED <<files, taskFile>>
    PROVE  DiskKept
BY DEF DiskKept, WithResult

LEMMA WriteDisk ==
    ASSUME TypeInv, NEW S \in SUBSET Names, Write(S), UNCHANGED taskFile
    PROVE  DiskKept /\ S \subseteq files'
BY WriteTypes DEF TypeInv, DiskKept, WithResult

LEMMA WorkStill ==
    ASSUME OnDiskInv, DiskKept, UNCHANGED work
    PROVE  WorkOnDisk'
BY DEF OnDiskInv, WorkOnDisk, DiskKept

LEMMA ThreadNames ==
    ASSUME OnDiskInv, DiskKept, NEW s \in State, SaveLangGraph(s),
           NamesOnly(s, files', WithResult')
    PROVE  lg' # NoState => NamesDisk(lg)'
<1>1. CASE ~SaverAvailable
  BY <1>1, NamesKept DEF SaveLangGraph, OnDiskInv, StatesOnDisk, NamesDisk
<1>2. CASE SaverAvailable /\ lg = NoState
  BY <1>2 DEF SaveLangGraph, NamesDisk
<1>3. CASE SaverAvailable /\ lg # NoState
  <2>1. lg' = [s EXCEPT !.arts = @ \cup lg.arts, !.workers = @ \cup lg.workers,
                        !.repaired = @ \/ lg.repaired]
    BY <1>3 DEF SaveLangGraph
  <2>2. /\ lg'.arts = s.arts \cup lg.arts /\ lg'.workers = s.workers \cup lg.workers
        /\ lg'.done = s.done
    BY <2>1 DEF State
  <2>3. NamesOnly(lg, files', WithResult')
    BY <1>3, NamesKept DEF OnDiskInv, StatesOnDisk
  <2> QED
    BY <2>2, <2>3 DEF NamesOnly, NamesDisk
<1> QED
  BY <1>1, <1>2, <1>3

-----------------------------------------------------------------------------
(* The steps of the graph.                                                 *)

LEMMA LeaveDisk ==
    ASSUME OnDiskInv, NEW s, NEW next, Leave(s, next), NamesDisk(s)
    PROVE  StatesOnDisk' /\ WrittenOnDisk' /\ WorkOnDisk'
<1>1. /\ mem' = s /\ wf' = s /\ lg' = lg /\ phase' = "begin"
      /\ UNCHANGED <<work, files, taskFile>>
  BY DEF Leave, Save, Goto, tasksOnDisk
<1>2. DiskKept
  BY <1>1, SameDisk
<1>3. NamesDisk(mem)'
  BY <1>1, <1>2, NamesKept DEF NamesDisk
<1> QED
  BY <1>1, <1>2, <1>3, StatesSaved, WorkStill DEF WrittenOnDisk

(* A write in the middle of a node changes nothing that is saved.          *)
LEMMA MidwayDisk ==
    ASSUME OnDiskInv, DiskKept, UNCHANGED <<mem, wf, lg, work>>, WrittenOnDisk'
    PROVE  StatesOnDisk' /\ WrittenOnDisk' /\ WorkOnDisk'
BY StatesStill, WorkStill

LEMMA ProduceDisk ==
    ASSUME OnDiskInv, NEW node, NEW a \in Names, Produce(node, a)
    PROVE  StatesOnDisk' /\ WrittenOnDisk' /\ WorkOnDisk'
<1>1. DiskKept
  BY WriteDisk DEF Produce, OnDiskInv, tasksOnDisk
<1>2. phase' = "begin" /\ UNCHANGED <<mem, wf, lg, work>>
  BY DEF Produce, At, control, saved
<1> QED
  BY <1>1, <1>2, MidwayDisk DEF WrittenOnDisk

LEMMA RecordDisk ==
    ASSUME OnDiskInv, NEW node, NEW a, NEW stage, NEW next, Record(node, a, stage, next)
    PROVE  StatesOnDisk' /\ WrittenOnDisk' /\ WorkOnDisk'
<1> DEFINE s == [mem EXCEPT !.stage = stage, !.arts = @ \cup {a}]
<1>1. s.arts = mem.arts \cup {a} /\ s.workers = mem.workers /\ s.done = mem.done
  BY DEF OnDiskInv, TypeInv, TypeOK, State
<1>2. Leave(s, next) /\ a \in files
  BY DEF Record
<1>3. NamesDisk(s)
  BY <1>1, <1>2 DEF OnDiskInv, StatesOnDisk, NamesDisk, NamesOnly
<1> QED
  BY <1>2, <1>3, LeaveDisk

LEMMA ProducersDisk ==
    ASSUME OnDiskInv,
           CollectGoal \/ InspectRepository \/ CreateVerificationPlan \/ IntegrateChanges
    PROVE  StatesOnDisk' /\ WrittenOnDisk' /\ WorkOnDisk'
<1> USE NamesKnown
<1>1. CASE CollectGoal
  BY <1>1, ProduceDisk, RecordDisk DEF CollectGoal
<1>2. CASE InspectRepository
  BY <1>2, ProduceDisk, RecordDisk DEF InspectRepository
<1>3. CASE CreateVerificationPlan
  BY <1>3, ProduceDisk, RecordDisk DEF CreateVerificationPlan
<1>4. CASE IntegrateChanges
  BY <1>4, ProduceDisk, RecordDisk DEF IntegrateChanges
<1> QED
  BY <1>1, <1>2, <1>3, <1>4

LEMMA DraftSpecDisk ==
    ASSUME OnDiskInv, DraftSpec
    PROVE  StatesOnDisk' /\ WrittenOnDisk' /\ WorkOnDisk'
<1>0. mem \in State /\ NamesDisk(mem)
  BY DEF OnDiskInv, TypeInv, TypeOK, StatesOnDisk
<1> DEFINE noted == [mem EXCEPT !.stage = "create_execution_plan", !.arts = @ \cup {"spec"}]
           halted == [mem EXCEPT !.status = "human_required", !.stage = "human_required",
                                 !.arts = @ \cup {"spec"}]
<1>a. /\ noted.arts = mem.arts \cup {"spec"} /\ noted.workers = mem.workers
      /\ noted.done = mem.done /\ halted.arts = mem.arts \cup {"spec"}
      /\ halted.workers = mem.workers /\ halted.done = mem.done
  BY <1>0 DEF State
<1>b. "spec" \in files => NamesDisk(noted) /\ NamesDisk(halted)
  BY <1>0, <1>a DEF NamesDisk, NamesOnly
<1> HIDE DEF noted, halted
<1>1. CASE WriteSpec
  <2>1. /\ DiskKept /\ "spec" \in files' /\ pc' = "draft_spec"
        /\ UNCHANGED <<mem, wf, lg, work>>
    BY <1>1, WriteDisk, NamesKnown DEF WriteSpec, At, Stay, saved, tasksOnDisk, OnDiskInv
  <2> QED
    BY <2>1, MidwayDisk DEF WrittenOnDisk
<1>2. CASE ReuseSpec
  <2>1. /\ "spec" \in files /\ wf' = noted /\ lg' = lg /\ pc' = "draft_spec"
        /\ UNCHANGED <<mem, work, files, taskFile>>
    BY <1>2 DEF ReuseSpec, At, Stay, Save, tasksOnDisk, noted
  <2>2. DiskKept
    BY <2>1, SameDisk
  <2>3. NamesOnly(noted, files', WithResult') /\ NamesDisk(mem)'
    BY <1>0, <1>b, <2>1, <2>2, NamesKept DEF NamesDisk
  <2>4. StatesOnDisk'
    BY <2>1, <2>2, <2>3, NamesKept DEF OnDiskInv, StatesOnDisk, NamesDisk
  <2> QED
    BY <2>1, <2>2, <2>4, WorkStill DEF WrittenOnDisk
<1>3. CASE StopForSpecApproval
  <2>1. "spec" \in files /\ Leave(halted, "validate_spec")
    BY <1>3 DEF StopForSpecApproval, At, OnDiskInv, WrittenOnDisk, halted
  <2> QED
    BY <1>b, <2>1, LeaveDisk
<1>4. CASE AcceptSpec
  <2>1. /\ "spec" \in files /\ mem' = noted /\ wf' \in {wf, mem'} /\ lg' = lg
        /\ phase' = "begin" /\ UNCHANGED <<work, files, taskFile>>
    BY <1>4 DEF AcceptSpec, At, OnDiskInv, WrittenOnDisk, Save, saved, Goto, tasksOnDisk, noted
  <2>2. DiskKept
    BY <2>1, SameDisk
  <2>3. NamesDisk(mem)'
    BY <1>b, <2>1, <2>2, NamesKept DEF NamesDisk
  <2> QED
    BY <2>1, <2>2, <2>3, StatesSaved, WorkStill DEF WrittenOnDisk
<1> QED
  BY <1>1, <1>2, <1>3, <1>4 DEF DraftSpec

LEMMA ValidateStageDisk ==
    ASSUME OnDiskInv, NEW node, NEW next, ValidateStage(node, next)
    PROVE  StatesOnDisk' /\ WrittenOnDisk' /\ WorkOnDisk'
<1>0. mem \in State /\ NamesDisk(mem)
  BY DEF OnDiskInv, TypeInv, TypeOK, StatesOnDisk
<1>1. /\ mem' = [mem EXCEPT !.stage = node] /\ wf' = wf /\ lg' = lg /\ phase' = "begin"
      /\ UNCHANGED <<work, files, taskFile>>
  BY DEF ValidateStage, Goto, saved, tasksOnDisk
<1>2. mem'.arts = mem.arts /\ mem'.workers = mem.workers /\ mem'.done = mem.done
  BY <1>0, <1>1 DEF State
<1>3. DiskKept
  BY <1>1, SameDisk
<1>4. NamesDisk(mem)'
  BY <1>0, <1>2, <1>3, NamesKept DEF NamesDisk, NamesOnly
<1> QED
  BY <1>1, <1>3, <1>4, StatesSaved, WorkStill DEF WrittenOnDisk

LEMMA CreateExecutionPlanDisk ==
    ASSUME OnDiskInv, CreateExecutionPlan
    PROVE  StatesOnDisk' /\ WrittenOnDisk' /\ WorkOnDisk'
<1>0. mem \in State /\ NamesDisk(mem)
  BY DEF OnDiskInv, TypeInv, TypeOK, StatesOnDisk
<1>1. CASE WriteMissingVerificationPlan
  <2>1. /\ DiskKept /\ "vplan" \in files' /\ pc' = "create_execution_plan"
        /\ UNCHANGED <<mem, wf, lg, work>>
    BY <1>1, WriteDisk, NamesKnown
       DEF WriteMissingVerificationPlan, At, Stay, saved, tasksOnDisk, OnDiskInv
  <2> QED
    BY <2>1, MidwayDisk DEF WrittenOnDisk
<1>2. CASE WritePlan
  <2>1. /\ DiskKept /\ pc' = "create_execution_plan" /\ "vplan" \in files'
        /\ UNCHANGED <<mem, wf, lg, work>>
    <3>1. Write({"plan"}) /\ "vplan" \in files /\ UNCHANGED taskFile
      BY <1>2 DEF WritePlan, tasksOnDisk
    <3>2. DiskKept
      BY <3>1, WriteDisk, NamesKnown DEF OnDiskInv
    <3> QED
      BY <1>2, <3>1, <3>2 DEF WritePlan, At, control, saved, DiskKept
  <2> QED
    BY <2>1, MidwayDisk DEF WrittenOnDisk
<1>3. CASE DecidePlan
  <2> DEFINE halted == [mem EXCEPT !.status = "human_required", !.stage = "human_required",
                                   !.arts = @ \cup {"plan"}]
             noted == [mem EXCEPT !.stage = "create_execution_plan", !.arts = @ \cup {"plan"}]
             s == IF mem.status = "human_required" THEN mem
                  ELSE IF PlanBlocked THEN halted ELSE noted
             withPlan == [s EXCEPT !.arts = @ \cup {"vplan"}]
  <2>1. s \in State /\ NamesDisk(s)
    <3>1. CASE mem.status = "human_required"
      BY <1>0, <3>1
    <3>2. CASE mem.status # "human_required"
      <4>1. "plan" \in files
        BY <1>3, <3>2 DEF DecidePlan
      <4>2. /\ halted.arts = mem.arts \cup {"plan"} /\ halted.workers = mem.workers
            /\ halted.done = mem.done /\ noted.arts = mem.arts \cup {"plan"}
            /\ noted.workers = mem.workers /\ noted.done = mem.done
        BY <1>0 DEF State
      <4>3. halted \in State /\ noted \in State
        <5>1. "plan" \in Names /\ "create_execution_plan" \in Stages
              /\ "human_required" \in Statuses
          BY NamesKnown DEF Stages, Nodes, Statuses
        <5> QED
          BY <1>0, <5>1, StageKnown, NotedType, HaltedNotedType
      <4>4. NamesDisk(halted) /\ NamesDisk(noted)
        BY <1>0, <4>1, <4>2 DEF NamesDisk, NamesOnly
      <4> QED
        BY <3>2, <4>3, <4>4
    <3> QED
      BY <3>1, <3>2
  <2>2. /\ mem' = s /\ lg' = lg /\ phase' = "begin" /\ UNCHANGED <<work, files, taskFile>>
        /\ wf' = IF phase = "planned" THEN withPlan ELSE s
        /\ phase = "planned" => "vplan" \in files
    BY <1>3 DEF DecidePlan, At, OnDiskInv, WrittenOnDisk, Save, Goto, tasksOnDisk
  <2> HIDE DEF s
  <2>3. /\ withPlan.arts = s.arts \cup {"vplan"} /\ withPlan.workers = s.workers
        /\ withPlan.done = s.done
    BY <2>1 DEF State
  <2>4. NamesDisk(wf')
    BY <2>1, <2>2, <2>3 DEF NamesDisk, NamesOnly
  <2>5. DiskKept
    BY <2>2, SameDisk
  <2>6. StatesOnDisk'
    BY <2>1, <2>2, <2>4, <2>5, NamesKept DEF OnDiskInv, StatesOnDisk, NamesDisk
  <2> QED
    BY <2>2, <2>5, <2>6, WorkStill DEF WrittenOnDisk
<1> QED
  BY <1>1, <1>2, <1>3 DEF CreateExecutionPlan

(* The progress of a task and its result go together.                      *)
LEMMA DispatchTaskDisk ==
    ASSUME OnDiskInv, NEW t \in Tasks, DispatchTask(t)
    PROVE  StatesOnDisk' /\ WrittenOnDisk' /\ WorkOnDisk'
<1>0. /\ mem \in State /\ NamesDisk(mem) /\ work \in [Tasks -> Work]
      /\ taskFile \in [Tasks -> TaskFiles]
  BY DEF OnDiskInv, TypeInv, TypeOK, StatesOnDisk
<1>w. pc = "dispatch_tasks" /\ pc' = pc /\ UNCHANGED files
  BY DEF DispatchTask, WriteTask, WriteWorkerRequest, RunWorker, WriteWorkerResult,
         RecordDispatch, RecordCompletion, ApplyPatch, Dispatching, At, control
<1>a. WrittenOnDisk'
  BY <1>w DEF WrittenOnDisk
<1>1. CASE WriteTask(t) \/ WriteWorkerRequest(t)
  <2>1. /\ WithResult' = WithResult /\ UNCHANGED <<mem, wf, lg>>
        /\ work' = [work EXCEPT ![t] = "task"] \/ work' = [work EXCEPT ![t] = "request"]
    BY <1>0, <1>1
       DEF WriteTask, WriteWorkerRequest, WithResult, TaskFiles, Results, saved
  <2>2. DiskKept
    BY <1>w, <2>1 DEF DiskKept
  <2>3. WorkOnDisk'
    BY <1>0, <2>1 DEF OnDiskInv, WorkOnDisk
  <2> QED
    BY <1>a, <2>1, <2>2, <2>3, StatesStill
<1>2. CASE RunWorker(t)
  <2>1. UNCHANGED <<taskFile, mem, wf, lg>> /\ work' = [work EXCEPT ![t] = "ran"]
    BY <1>2 DEF RunWorker, tasksOnDisk, saved
  <2>2. DiskKept
    BY <1>w, <2>1, SameDisk
  <2>3. WorkOnDisk'
    BY <1>0, <2>1 DEF OnDiskInv, WorkOnDisk, WithResult
  <2> QED
    BY <1>a, <2>1, <2>2, <2>3, StatesStill
<1>3. CASE WriteWorkerResult(t)
  <2>1. PICK result \in Results :
           /\ taskFile' = [taskFile EXCEPT ![t] = result]
           /\ work' = [work EXCEPT ![t] = "result"] /\ UNCHANGED <<mem, wf, lg>>
    BY <1>3 DEF WriteWorkerResult, saved
  <2>2. WithResult' = WithResult \cup {t}
    BY <1>0, <2>1 DEF WithResult
  <2>3. DiskKept
    BY <1>w, <2>2 DEF DiskKept
  <2>4. WorkOnDisk'
    BY <1>0, <2>1, <2>2 DEF OnDiskInv, WorkOnDisk
  <2> QED
    BY <1>a, <2>1, <2>3, <2>4, StatesStill
<1>4. CASE RecordDispatch(t) \/ RecordCompletion(t)
  <2>1. /\ t \in WithResult /\ UNCHANGED taskFile /\ wf' = mem' /\ lg' = lg
        /\ work' = [work EXCEPT ![t] = "recorded"] \/ work' = [work EXCEPT ![t] = "done"]
    BY <1>4 DEF RecordDispatch, RecordCompletion, OnDiskInv, WorkOnDisk, tasksOnDisk, Save
  <2>2. /\ mem'.arts = mem.arts
        /\ mem'.workers \subseteq mem.workers \cup {t} /\ mem'.done \subseteq mem.done \cup {t}
    BY <1>0, <1>4 DEF RecordDispatch, RecordCompletion, State
  <2>3. DiskKept
    BY <1>w, <2>1, SameDisk
  <2>4. NamesDisk(mem)'
    BY <1>0, <2>1, <2>2, <2>3 DEF NamesDisk, NamesOnly, DiskKept
  <2>5. WorkOnDisk'
    BY <1>0, <2>1 DEF OnDiskInv, WorkOnDisk, WithResult
  <2> QED
    BY <1>a, <2>1, <2>3, <2>4, <2>5, StatesSaved
<1>5. CASE ApplyPatch(t)
  <2>1. /\ t \in WithResult /\ work' = [work EXCEPT ![t] = "done"] /\ UNCHANGED <<mem, wf, lg>>
        /\ taskFile' = taskFile \/ taskFile' = [taskFile EXCEPT ![t] = "failed"]
    BY <1>5 DEF ApplyPatch, OnDiskInv, WorkOnDisk, saved
  <2>2. WithResult' = WithResult
    BY <1>0, <2>1 DEF WithResult, Results
  <2>3. DiskKept
    BY <1>w, <2>2 DEF DiskKept
  <2>4. WorkOnDisk'
    BY <1>0, <2>1, <2>2 DEF OnDiskInv, WorkOnDisk
  <2> QED
    BY <1>a, <2>1, <2>3, <2>4, StatesStill
<1> QED
  BY <1>1, <1>2, <1>3, <1>4, <1>5 DEF DispatchTask

LEMMA DispatchTasksDisk ==
    ASSUME OnDiskInv, DispatchTasks \/ MaterializeTasks
    PROVE  StatesOnDisk' /\ WrittenOnDisk' /\ WorkOnDisk'
<1>0. mem \in State /\ NamesDisk(mem) /\ work \in [Tasks -> Work]
  BY DEF OnDiskInv, TypeInv, TypeOK, StatesOnDisk
<1>1. CASE MaterializeTasks
  <2> DEFINE s == [mem EXCEPT !.stage = "materialize_tasks"]
  <2>1. s.arts = mem.arts /\ s.workers = mem.workers /\ s.done = mem.done
    BY <1>0 DEF State
  <2>2. NamesDisk(s)
    BY <1>0, <2>1 DEF NamesDisk, NamesOnly
  <2> QED
    BY <1>1, <2>2, LeaveDisk DEF MaterializeTasks
<1>2. CASE BeginDispatch
  <2>1. /\ mem' = [mem EXCEPT !.stage = "dispatch_tasks"] /\ pc' = "dispatch_tasks"
        /\ UNCHANGED <<wf, lg, files, taskFile>>
    BY <1>2 DEF BeginDispatch, At, Stay, saved, tasksOnDisk
  <2>2. mem'.arts = mem.arts /\ mem'.workers = mem.workers /\ mem'.done = mem.done
    BY <1>0, <2>1 DEF State
  <2>3. DiskKept
    BY <2>1, SameDisk
  <2>4. NamesDisk(mem)'
    BY <1>0, <2>2, <2>3 DEF NamesDisk, NamesOnly, DiskKept
  <2>5. WorkOnDisk'
    <3>1. PICK skip : /\ skip = IF Sequential THEN mem.done ELSE mem.done \cup CompletedOnDisk
                      /\ work' = [t \in Tasks |-> IF t \in skip THEN "skipped" ELSE "todo"]
      BY <1>2 DEF BeginDispatch
    <3>2. mem.done \subseteq WithResult /\ CompletedOnDisk \subseteq WithResult
      BY <1>0 DEF NamesDisk, NamesOnly, CompletedOnDisk, WithResult, Results
    <3>3. skip \subseteq WithResult
      BY <3>1, <3>2
    <3>4. WithResult' = WithResult
      BY <2>1 DEF WithResult
    <3> QED
      BY <3>1, <3>3, <3>4 DEF WorkOnDisk
  <2> QED
    BY <2>1, <2>3, <2>4, <2>5, StatesSaved DEF WrittenOnDisk
<1>3. CASE StopDispatch
  <2> DEFINE s == [mem EXCEPT !.status = "human_required", !.stage = "human_required"]
  <2>1. /\ wf' = s /\ lg' = lg /\ mem' = [s EXCEPT !.done = {t \in @ : work[t] = "skipped"}]
        /\ phase' = "begin" /\ UNCHANGED <<work, files, taskFile>>
    BY <1>3 DEF StopDispatch, Save, Goto, tasksOnDisk
  <2>2. /\ s.arts = mem.arts /\ s.workers = mem.workers /\ s.done = mem.done
        /\ mem'.arts = mem.arts /\ mem'.workers = mem.workers /\ mem'.done \subseteq mem.done
    BY <1>0, <2>1 DEF State
  <2> HIDE DEF s
  <2>3. DiskKept
    BY <2>1, SameDisk
  <2>4. NamesDisk(mem)' /\ NamesDisk(wf)'
    BY <1>0, <2>1, <2>2, <2>3 DEF NamesDisk, NamesOnly, DiskKept
  <2>5. StatesOnDisk'
    BY <2>1, <2>3, <2>4, NamesKept DEF OnDiskInv, StatesOnDisk, NamesDisk
  <2> QED
    BY <2>1, <2>3, <2>5, WorkStill DEF WrittenOnDisk
<1>4. CASE FinishDispatch
  <2>1. PICK s : /\ s = IF Sequential THEN mem ELSE [mem EXCEPT !.workers = Tasks, !.done = Tasks]
                 /\ Leave(s, RouteAfterStop(s, "integrate_changes"))
    BY <1>4 DEF FinishDispatch
  <2>2. Tasks \subseteq WithResult
    BY <1>4 DEF FinishDispatch, OnDiskInv, WorkOnDisk
  <2>3. CASE Sequential
    BY <1>0, <2>1, <2>3, LeaveDisk
  <2>4. CASE ~Sequential
    <3>1. s.arts = mem.arts /\ s.workers = Tasks /\ s.done = Tasks
      BY <1>0, <2>1, <2>4 DEF State
    <3>2. NamesDisk(s)
      BY <1>0, <2>2, <3>1 DEF NamesDisk, NamesOnly
    <3> QED
      BY <2>1, <3>2, LeaveDisk
  <2> QED
    BY <2>3, <2>4
<1> QED
  BY <1>1, <1>2, <1>3, <1>4, DispatchTaskDisk DEF DispatchTasks

LEMMA RunQualityGatesDisk ==
    ASSUME OnDiskInv, RunQualityGates
    PROVE  StatesOnDisk' /\ WrittenOnDisk' /\ WorkOnDisk'
<1>0. mem \in State /\ NamesDisk(mem)
  BY DEF OnDiskInv, TypeInv, TypeOK, StatesOnDisk
<1>1. CASE RunGates \/ RequestToolCheck \/ RunToolCheck
  <2>1. DiskKept
    BY <1>1, WriteDisk, NamesKnown
       DEF RunGates, RequestToolCheck, RunToolCheck, OnDiskInv, tasksOnDisk
  <2>2. "gate" \in files'
    <3>1. CASE RunGates
      BY <3>1, WriteDisk, NamesKnown DEF RunGates, OnDiskInv, tasksOnDisk
    <3>2. CASE RequestToolCheck \/ RunToolCheck
      BY <2>1, <3>2 DEF RequestToolCheck, RunToolCheck, At, OnDiskInv, WrittenOnDisk, DiskKept
    <3> QED
      BY <1>1, <3>1, <3>2
  <2>3. pc' = "run_quality_gates" /\ UNCHANGED <<mem, wf, lg, work>>
    BY <1>1 DEF RunGates, RequestToolCheck, RunToolCheck, At, Stay, saved
  <2> QED
    BY <2>1, <2>2, <2>3, MidwayDisk DEF WrittenOnDisk
<1>2. CASE DecideGates
  <2> DEFINE noted == [mem EXCEPT !.stage = "run_quality_gates", !.arts = @ \cup {"gate"},
                                  !.gatePassed = doc.gate]
             halted == [noted EXCEPT !.status = "human_required", !.stage = "human_required"]
             s == IF StopForGateFailure THEN halted ELSE noted
  <2>1. "gate" \in files
    BY <1>2 DEF DecideGates, At, ReuseGateReport, OnDiskInv, WrittenOnDisk
  <2>2. /\ s.arts = mem.arts \cup {"gate"} /\ s.workers = mem.workers /\ s.done = mem.done
    BY <1>0 DEF State
  <2>3. Leave(s, RouteAfterGates(s))
    BY <1>2 DEF DecideGates
  <2> HIDE DEF s
  <2>4. NamesDisk(s)
    BY <1>0, <2>1, <2>2 DEF NamesDisk, NamesOnly
  <2> QED
    BY <2>3, <2>4, LeaveDisk
<1> QED
  BY <1>1, <1>2 DEF RunQualityGates

LEMMA EvaluateSatisfactionDisk ==
    ASSUME OnDiskInv, EvaluateSatisfaction
    PROVE  StatesOnDisk' /\ WrittenOnDisk' /\ WorkOnDisk'
<1>0. mem \in State /\ NamesDisk(mem)
  BY DEF OnDiskInv, TypeInv, TypeOK, StatesOnDisk
<1>1. CASE EvaluateGoalSatisfaction
  <2>1. /\ DiskKept /\ "sat" \in files' /\ pc' = "evaluate_goal_satisfaction"
        /\ UNCHANGED <<mem, wf, lg, work>>
    BY <1>1, WriteDisk, NamesKnown
       DEF EvaluateGoalSatisfaction, At, Stay, saved, tasksOnDisk, OnDiskInv
  <2> QED
    BY <2>1, MidwayDisk DEF WrittenOnDisk
<1>2. CASE DecideSatisfaction
  <2> DEFINE noted == [mem EXCEPT !.stage = "evaluate_goal_satisfaction",
                                  !.arts = @ \cup {"sat"},
                                  !.goalSatisfied = doc.sat = "satisfied"]
             counted == [noted EXCEPT !.satAttempts = SatAttempts, !.satError = doc.satError]
             s == IF doc.sat = "satisfied" THEN noted ELSE counted
  <2>1. "sat" \in files
    BY <1>2 DEF DecideSatisfaction, At, ReuseSatisfaction, OnDiskInv, WrittenOnDisk
  <2>2. s.arts = mem.arts \cup {"sat"} /\ s.workers = mem.workers /\ s.done = mem.done
    BY <1>0 DEF State
  <2>3. Leave(s, RouteAfterSatisfaction(s))
    BY <1>2 DEF DecideSatisfaction
  <2> HIDE DEF s
  <2>4. NamesDisk(s)
    BY <1>0, <2>1, <2>2 DEF NamesDisk, NamesOnly
  <2> QED
    BY <2>3, <2>4, LeaveDisk
<1> QED
  BY <1>1, <1>2 DEF EvaluateSatisfaction

LEMMA RunIndependentReviewDisk ==
    ASSUME OnDiskInv, RunIndependentReview
    PROVE  StatesOnDisk' /\ WrittenOnDisk' /\ WorkOnDisk'
<1>0. mem \in State /\ NamesDisk(mem)
  BY DEF OnDiskInv, TypeInv, TypeOK, StatesOnDisk
<1>1. CASE RunReview
  <2>1. /\ DiskKept /\ "review" \in files' /\ pc' = "run_independent_review"
        /\ UNCHANGED <<mem, wf, lg, work>>
    BY <1>1, WriteDisk, NamesKnown DEF RunReview, At, Stay, saved, tasksOnDisk, OnDiskInv
  <2> QED
    BY <2>1, MidwayDisk DEF WrittenOnDisk
<1>2. CASE RecordReview
  <2> DEFINE s == [mem EXCEPT !.stage = "run_independent_review", !.arts = @ \cup {"review"},
                              !.reviewPassed = doc.review = "pass"]
  <2>1. "review" \in files
    BY <1>2 DEF RecordReview, At, ReuseReview, OnDiskInv, WrittenOnDisk
  <2>2. s.arts = mem.arts \cup {"review"} /\ s.workers = mem.workers /\ s.done = mem.done
    BY <1>0 DEF State
  <2>3. Leave(s, RouteAfterReview(s))
    BY <1>2 DEF RecordReview
  <2> HIDE DEF s
  <2>4. NamesDisk(s)
    BY <1>0, <2>1, <2>2 DEF NamesDisk, NamesOnly
  <2> QED
    BY <2>3, <2>4, LeaveDisk
<1> QED
  BY <1>1, <1>2 DEF RunIndependentReview

(* A repair writes no artifact a state names; it only counts.              *)
LEMMA RepairFailureDisk ==
    ASSUME OnDiskInv, RepairFailure
    PROVE  StatesOnDisk' /\ WrittenOnDisk' /\ WorkOnDisk'
<1>0. mem \in State /\ NamesDisk(mem)
  BY DEF OnDiskInv, TypeInv, TypeOK, StatesOnDisk
<1>1. /\ UNCHANGED <<files, taskFile, work, lg>> /\ wf' \in {wf, mem'}
      /\ mem'.arts = mem.arts /\ mem'.workers = mem.workers /\ mem'.done = mem.done
  <2>1. CASE ReuseRepairResult
    BY <1>0, <2>1 DEF ReuseRepairResult, Save, tasksOnDisk, State
  <2>2. CASE BeginRepair
    BY <1>0, <2>2 DEF BeginRepair, Save, tasksOnDisk, State
  <2>3. CASE RunRepairWorker \/ WriteRepairResult
    BY <2>3 DEF RunRepairWorker, WriteRepairResult, saved, tasksOnDisk
  <2>4. CASE RecordRepair
    BY <1>0, <2>4 DEF RecordRepair, Leave, Save, tasksOnDisk, State
  <2> QED
    BY <2>1, <2>2, <2>3, <2>4, <1>0 DEF RepairFailure
<1>2. phase' = "begin" \/ pc' = "repair_failure"
  BY DEF RepairFailure, ReuseRepairResult, BeginRepair, RunRepairWorker, WriteRepairResult,
         RecordRepair, Leave, Goto, Stay, At
<1>3. DiskKept
  BY <1>1, SameDisk
<1>4. NamesDisk(mem)'
  BY <1>0, <1>1, <1>3 DEF NamesDisk, NamesOnly, DiskKept
<1> QED
  BY <1>1, <1>2, <1>3, <1>4, StatesSaved, WorkStill DEF WrittenOnDisk

LEMMA PrepareEvidenceDisk ==
    ASSUME OnDiskInv, PrepareEvidence
    PROVE  StatesOnDisk' /\ WrittenOnDisk' /\ WorkOnDisk'
<1>0. mem \in State /\ NamesDisk(mem)
  BY DEF OnDiskInv, TypeInv, TypeOK, StatesOnDisk
<1>1. CASE BuildEvidence
  <2>1. DiskKept /\ pc' = "prepare_evidence" /\ UNCHANGED <<mem, wf, lg, work>>
    BY <1>1, WriteDisk, NamesKnown DEF BuildEvidence, At, control, saved, tasksOnDisk, OnDiskInv
  <2> QED
    BY <2>1, MidwayDisk DEF WrittenOnDisk
<1>2. CASE RecordEvidence
  <2> DEFINE s == [mem EXCEPT !.stage = "prepare_evidence", !.arts = @ \cup {"evidence"},
                              !.status = IF doc.ready THEN "ready_for_human_review"
                                                      ELSE "human_required"]
  <2>1. "evidence" \in files /\ Leave(s, "finish")
    BY <1>2 DEF RecordEvidence
  <2>2. s.arts = mem.arts \cup {"evidence"} /\ s.workers = mem.workers /\ s.done = mem.done
    BY <1>0 DEF State
  <2> HIDE DEF s
  <2>3. NamesDisk(s)
    BY <1>0, <2>1, <2>2 DEF NamesDisk, NamesOnly
  <2> QED
    BY <2>1, <2>3, LeaveDisk
<1> QED
  BY <1>1, <1>2 DEF PrepareEvidence

LEMMA GraphDisk ==
    ASSUME OnDiskInv, Graph
    PROVE  StatesOnDisk' /\ WrittenOnDisk' /\ WorkOnDisk'
BY ProducersDisk, DraftSpecDisk, ValidateStageDisk, CreateExecutionPlanDisk, DispatchTasksDisk,
   RunQualityGatesDisk, EvaluateSatisfactionDisk, RunIndependentReviewDisk, RepairFailureDisk,
   PrepareEvidenceDisk
   DEF Graph, ValidateSpec, ValidateExecutionPlan

-----------------------------------------------------------------------------
(* The steps around the graph and the commands.                            *)

LEMMA ForgetDisk ==
    ASSUME OnDiskInv, Forget, DiskKept, UNCHANGED wf, lg' # NoState => NamesDisk(lg)'
    PROVE  StatesOnDisk' /\ WrittenOnDisk' /\ WorkOnDisk'
<1>1. NamesDisk(mem)'
  BY FreshNames DEF Forget, NamesDisk
<1>2. StatesOnDisk'
  BY <1>1, NamesKept DEF OnDiskInv, StatesOnDisk, NamesDisk
<1>3. WrittenOnDisk' /\ WorkOnDisk'
  BY DEF Forget, WrittenOnDisk, WorkOnDisk
<1> QED
  BY <1>2, <1>3

LEMMA ProcessDisk ==
    ASSUME OnDiskInv, Process
    PROVE  StatesOnDisk' /\ WrittenOnDisk' /\ WorkOnDisk'
<1>0. mem \in State /\ NamesDisk(mem)
  BY DEF OnDiskInv, TypeInv, TypeOK, StatesOnDisk
<1>1. CASE Start \/ Finish
  <2>1. /\ mem' = mem /\ wf' = mem /\ lg' = lg /\ pc' \in {"enter", "leave"}
        /\ UNCHANGED <<work, files, taskFile>>
    BY <1>1 DEF Start, Finish, Save, tasksOnDisk
  <2>2. DiskKept
    BY <2>1, SameDisk
  <2>3. NamesDisk(mem)'
    BY <1>0, <2>1, <2>2, NamesKept DEF NamesDisk
  <2> QED
    BY <2>1, <2>2, <2>3, StatesSaved, WorkStill DEF WrittenOnDisk
<1>2. CASE Enter \/ Exit
  <2>1. SaveLangGraph(mem) /\ wf' = wf /\ UNCHANGED <<files, taskFile>>
    BY <1>2 DEF Enter, Exit, tasksOnDisk
  <2>2. DiskKept
    BY <2>1, SameDisk
  <2>3. NamesOnly(mem, files', WithResult')
    BY <1>0, <2>2, NamesKept
  <2>4. lg' # NoState => NamesDisk(lg)'
    BY <1>0, <2>1, <2>2, <2>3, ThreadNames
  <2>5. CASE Exit
    BY <2>1, <2>2, <2>4, <2>5, ForgetDisk DEF Exit
  <2>6. CASE Enter
    <3>1. mem' = mem /\ work' = work /\ phase' = "begin"
      BY <2>6 DEF Enter, Goto
    <3>2. StatesOnDisk'
      BY <2>1, <2>2, <2>3, <2>4, <3>1, NamesKept DEF OnDiskInv, StatesOnDisk, NamesDisk
    <3> QED
      BY <2>2, <3>1, <3>2, WorkStill DEF WrittenOnDisk
  <2> QED
    BY <1>2, <2>5, <2>6
<1>3. CASE ExceedRecursion
  <2>1. Forget /\ UNCHANGED <<wf, lg, files, taskFile>>
    BY <1>3 DEF ExceedRecursion, saved, tasksOnDisk
  <2>2. DiskKept
    BY <2>1, SameDisk
  <2> QED
    BY <2>1, <2>2, ForgetDisk, NamesKept DEF OnDiskInv, StatesOnDisk, NamesDisk
<1> QED
  BY <1>1, <1>2, <1>3, GraphDisk DEF Process

LEMMA StartDisk ==
    ASSUME OnDiskInv, Run \/ DryRun \/ Resume
    PROVE  StatesOnDisk' /\ WrittenOnDisk' /\ WorkOnDisk'
<1>1. pc' \in {"start", "finish"} /\ UNCHANGED <<work, wf, lg, taskFile>>
  BY DEF Run, DryRun, Resume, saved, tasksOnDisk
<1>2. DiskKept
  <2>1. CASE DryRun
    BY <2>1, WriteDisk, NamesKnown DEF DryRun, OnDiskInv, tasksOnDisk
  <2>2. CASE Run \/ Resume
    BY <2>2, SameDisk DEF Run, Resume, tasksOnDisk
  <2> QED
    BY <2>1, <2>2
<1>3. NamesDisk(mem)'
  <2>1. CASE Run
    BY <2>1, FreshNames DEF Run, NamesDisk
  <2>2. CASE DryRun
    <3>1. mem' = [Fresh EXCEPT !.status = "human_required", !.stage = "validate_execution_plan",
                               !.arts = {"goal", "snapshot", "spec", "vplan", "plan"}]
      BY <2>2 DEF DryRun
    <3>2. /\ mem'.arts = {"goal", "snapshot", "spec", "vplan", "plan"}
          /\ mem'.workers = {} /\ mem'.done = {}
      BY <3>1 DEF Fresh
    <3>3. {"goal", "snapshot", "spec", "vplan", "plan"} \subseteq files'
      BY <2>2, WriteDisk, NamesKnown DEF DryRun, OnDiskInv, tasksOnDisk
    <3> QED
      BY <3>2, <3>3 DEF NamesDisk, NamesOnly
  <2>3. CASE Resume
    <3>1. Remembered \in State /\ NamesDisk(Remembered)
      BY <2>3, RememberedType DEF Resume, Remembered, OnDiskInv, TypeInv, StatesOnDisk
    <3>2. /\ mem'.arts = Remembered.arts /\ mem'.workers = Remembered.workers
          /\ mem'.done = Remembered.done
      BY <2>3, <3>1 DEF Resume, State
    <3> QED
      BY <1>2, <3>1, <3>2 DEF NamesDisk, NamesOnly, DiskKept
  <2> QED
    BY <2>1, <2>2, <2>3
<1> QED
  BY <1>1, <1>2, <1>3, StatesSaved, WorkStill DEF WrittenOnDisk

(* An approval adds the key of the artifact it has just rewritten.         *)
LEMMA ApproveDisk ==
    ASSUME OnDiskInv, Approve
    PROVE  StatesOnDisk' /\ WrittenOnDisk' /\ WorkOnDisk'
<1>1. UNCHANGED <<pc, phase, mem, work, taskFile>>
  BY DEF Approve, ApproveSpec, ApprovePlan, ApproveRun, control, tasksOnDisk
<1>2. DiskKept
  <2>1. CASE ApproveSpec
    BY <1>1, <2>1, WriteDisk, NamesKnown DEF ApproveSpec, OnDiskInv
  <2>2. CASE ApprovePlan
    BY <1>1, <2>2, WriteDisk, NamesKnown DEF ApprovePlan, OnDiskInv
  <2>3. CASE ApproveRun
    BY <1>1, <2>3, SameDisk DEF ApproveRun
  <2> QED
    BY <2>1, <2>2, <2>3 DEF Approve
<1>3. WrittenOnDisk' /\ WorkOnDisk'
  BY <1>1, <1>2, WorkStill DEF OnDiskInv, WrittenOnDisk, DiskKept
<1>4. ASSUME NEW stage \in Stages, NEW a \in files \cap Names, row = "human_required"
      PROVE  ResumeAt(stage, a) \in State /\ NamesOnly(ResumeAt(stage, a), files', WithResult')
  <2>1. Remembered # NoState
    BY <1>4 DEF OnDiskInv, TypeInv, RowIsSaved, Remembered
  <2>2. Remembered \in State /\ NamesDisk(Remembered)
    BY <2>1, RememberedType DEF Remembered, OnDiskInv, TypeInv, StatesOnDisk
  <2> DEFINE s == ResumeAt(stage, a)
  <2>3. s \in State
    BY <2>2, HaltedNotedType DEF ResumeAt, Statuses
  <2>4. /\ s.arts = Remembered.arts \cup {a} /\ s.workers = Remembered.workers
        /\ s.done = Remembered.done
    BY <2>2 DEF ResumeAt, State
  <2> QED
    BY <1>2, <1>4, <2>2, <2>3, <2>4 DEF NamesDisk, NamesOnly, DiskKept
<1>5. ASSUME NEW stage \in Stages, NEW a \in files \cap Names, row = "human_required",
             wf' = ResumeAt(stage, a), SaveLangGraph(ResumeAt(stage, a))
      PROVE  StatesOnDisk'
  <2>1. NamesDisk(wf)' /\ (lg' # NoState => NamesDisk(lg)')
    BY <1>2, <1>4, <1>5, ThreadNames DEF NamesDisk
  <2> QED
    BY <1>1, <1>2, <2>1, NamesKept DEF OnDiskInv, StatesOnDisk, NamesDisk
<1>6. CASE ApproveSpec
  <2>1. /\ row = "human_required" /\ "spec" \in files \cap Names
        /\ "create_execution_plan" \in Stages
        /\ wf' = ResumeAt("create_execution_plan", "spec")
        /\ SaveLangGraph(ResumeAt("create_execution_plan", "spec"))
    BY <1>6, NamesKnown DEF ApproveSpec, MayApprove, Stages, Nodes
  <2> QED
    BY <1>3, <1>5, <2>1
<1>7. CASE ApprovePlan
  <2>1. /\ row = "human_required" /\ "plan" \in files \cap Names
        /\ "validate_execution_plan" \in Stages
        /\ wf' = ResumeAt("validate_execution_plan", "plan")
        /\ SaveLangGraph(ResumeAt("validate_execution_plan", "plan"))
    BY <1>7, NamesKnown DEF ApprovePlan, MayApprove, Stages, Nodes
  <2> QED
    BY <1>3, <1>5, <2>1
<1>8. CASE ApproveRun
  BY <1>1, <1>2, <1>3, <1>8, StatesStill DEF ApproveRun
<1> QED
  BY <1>6, <1>7, <1>8 DEF Approve

LEMMA InitOnDisk == Init => OnDiskInv
<1> SUFFICES ASSUME Init PROVE OnDiskInv
  OBVIOUS
<1>1. TypeInv
  BY InitTypes
<1>2. StatesOnDisk
  BY FreshNames DEF Init, StatesOnDisk, NamesDisk
<1>3. WrittenOnDisk /\ WorkOnDisk
  BY DEF Init, WrittenOnDisk, WorkOnDisk
<1> QED
  BY <1>1, <1>2, <1>3 DEF OnDiskInv

LEMMA NextOnDisk == OnDiskInv /\ [Next]_vars => OnDiskInv'
<1> SUFFICES ASSUME OnDiskInv, [Next]_vars PROVE OnDiskInv'
  OBVIOUS
<1>1. TypeInv'
  BY NextTypes DEF OnDiskInv
<1>2. CASE Crash
  <2>1. Forget /\ UNCHANGED <<wf, lg, files, taskFile>>
    BY <1>2 DEF Crash, saved, tasksOnDisk
  <2>2. DiskKept
    BY <2>1, SameDisk
  <2>3. lg' # NoState => NamesDisk(lg)'
    BY <2>1, <2>2, NamesKept DEF OnDiskInv, StatesOnDisk, NamesDisk
  <2> QED
    BY <1>1, <2>1, <2>2, <2>3, ForgetDisk DEF OnDiskInv
<1>3. CASE LockExpires \/ UNCHANGED vars
  <2>1. UNCHANGED <<pc, phase, mem, work, wf, lg, files, taskFile>>
    BY <1>3 DEF LockExpires, vars, control, saved, tasksOnDisk
  <2>2. DiskKept
    BY <2>1, SameDisk
  <2>3. WrittenOnDisk'
    BY <2>1 DEF OnDiskInv, WrittenOnDisk
  <2> QED
    BY <1>1, <2>1, <2>2, <2>3, MidwayDisk DEF OnDiskInv
<1> QED
  BY <1>1, <1>2, <1>3, ProcessDisk, StartDisk, ApproveDisk DEF Next, OnDiskInv

LEMMA OnDiskInvariant == Spec => []OnDiskInv
BY InitOnDisk, NextOnDisk, PTL DEF Spec

(* A resume can rely on what it loads: every artifact and every worker      *)
(* result that a checkpoint of the run names is on disk, for every number   *)
(* of tasks, every configuration and any crashes and approvals in between.  *)
THEOREM CheckpointsTrue == Spec => []CheckpointsNameDisk
<1>1. OnDiskInv => CheckpointsNameDisk
  BY DEF OnDiskInv, StatesOnDisk, NamesDisk, NamesOnly, WithResult, CheckpointsNameDisk
<1> QED
  BY <1>1, OnDiskInvariant, PTL
=============================================================================
