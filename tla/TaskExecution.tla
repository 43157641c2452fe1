---------------------------- MODULE TaskExecution ----------------------------
(***************************************************************************)
(* The dispatch of a parallel plan: TaskExecutionService.execute_plan_tasks *)
(* with strategy parallel.  Tasks whose dependencies are through run in     *)
(* batches, in the threads of a pool; in a Git project each has a worktree  *)
(* of its own at the base commit, and the batch's patches are replayed onto *)
(* the project afterwards.  A plan no batch of which is ready goes on one   *)
(* task at a time.                                                          *)
(*                                                                         *)
(* A worker that times out raises in its thread: the other threads finish,  *)
(* then the command ends with the exception.  That, and a kill, lose what   *)
(* the process knows; `resume` dispatches again with what is on disk.       *)
(* An edit is known by the task that made it: tree, patch and root hold     *)
(* tasks.                                                                   *)
(***************************************************************************)
EXTENDS Naturals, FiniteSets

CONSTANTS
    NumTasks,      \* tasks, numbered in the order of their ids, as the plan lists them
    Projects,      \* what may be dispatched: a plan's dependencies, and whether there is Git
    MaxWorkers,    \* workflow.max_parallel_workers
    MaxCrashes     \* bound: how often the process is killed

Tasks == 1..NumTasks

ASSUME CountAssumption ==
    NumTasks \in Nat /\ MaxCrashes \in Nat /\ MaxWorkers \in Nat \ {0}
ASSUME PlanAssumption ==
    Projects \subseteq [dependsOn : [Tasks -> SUBSET Tasks], git : BOOLEAN]

VARIABLES
    dependsOn,   \* the plan
    git,         \* is_available: the project has a .git
    pc,          \* where execute_plan_tasks is
    completed,   \* its set of the same name
    executed,    \* the tasks it is going to return
    batch,       \* the tasks submitted to the pool, or left to the sequential fallback
    step,        \* how far each task of the batch is
    before,      \* the edits the snapshot of a task's workspace saw
    tree,        \* the edits a worker made
    worktrees,   \* the worktrees that exist
    chain,       \* how far the artifact chain of each task got on disk
    stale,       \* tasks whose chain has a stale artifact
    patch,       \* the edits each patch.diff holds
    root,        \* the edits in the project
    outcome,     \* what dispatch_tasks made of it
    crashes,     \* how often the process was killed
    interrupted  \* history: a dispatch was killed or ended with an exception

plan == <<dependsOn, git>>
loop == <<pc, completed, executed, batch, outcome>>
disk == <<worktrees, chain, stale, patch, root>>
history == <<crashes, interrupted>>
vars == <<plan, loop, step, before, tree, disk, history>>

Steps == {"queued", "task", "worktree", "request", "ran", "captured", "removed", "result",
          "raised", "replayed"}
Active == {"task", "worktree", "request", "ran", "captured", "removed"}
Results == {"completed", "failed"}

Init ==
    /\ \E project \in Projects : dependsOn = project.dependsOn /\ git = project.git
    /\ pc = "idle" /\ completed = {} /\ executed = {} /\ batch = {} /\ outcome = "none"
    /\ step = [t \in Tasks |-> "queued"]
    /\ before = [t \in Tasks |-> {}] /\ tree = [t \in Tasks |-> {}]
    /\ worktrees = {} /\ chain = [t \in Tasks |-> "none"] /\ stale = {}
    /\ patch = [t \in Tasks |-> {}] /\ root = {}
    /\ crashes = 0 /\ interrupted = FALSE

-----------------------------------------------------------------------------
(* The loop of execute_parallel_plan_tasks. *)

(* Mutant of CompletedOnDisk: only the checkpoint is asked. *)
CompletedInCheckpoint == {}

(* completed_task_ids_from_artifacts.  The checkpoint a resume loads is of   *)
(* before the dispatch and adds nothing to it.                              *)
CompletedOnDisk == {t \in Tasks : chain[t] = "completed"}

(* dispatch_tasks is entered, by `run` or by a `resume` that found no stale  *)
(* artifact.                                                                *)
Dispatch ==
    /\ pc = "idle" /\ stale = {}
    /\ pc' = "loop" /\ outcome' = "none" /\ batch' = {}
    /\ completed' = CompletedOnDisk /\ executed' = CompletedOnDisk
    /\ UNCHANGED <<plan, step, before, tree, disk, history>>

Remaining == Tasks \ completed

(* Mutant of Ready: one dependency is enough. *)
ReadyIfAny ==
    {t \in Remaining : dependsOn[t] = {} \/ dependsOn[t] \cap completed # {}}

Ready == {t \in Remaining : dependsOn[t] \subseteq completed}

Submit(S) ==
    /\ batch' = S
    /\ step' = [t \in Tasks |-> IF t \in S THEN "queued" ELSE step[t]]
    /\ UNCHANGED <<plan, completed, outcome, before, tree, disk, history>>

NextBatch ==
    /\ pc = "loop" /\ Ready # {}
    /\ pc' = "batch" /\ UNCHANGED executed
    /\ Submit(Ready)

(* Mutant of Fallback: the loop asks again. *)
NoFallback ==
    /\ pc = "loop" /\ Remaining # {} /\ Ready = {}
    /\ UNCHANGED vars

(* execute_plan_tasks_sequentially; the list of what ran so far is dropped. *)
Fallback ==
    /\ pc = "loop" /\ Remaining # {} /\ Ready = {}
    /\ pc' = "sequential" /\ executed' = {}
    /\ Submit(Remaining)

-----------------------------------------------------------------------------
(* execute_plan_task, in a thread of the pool or in the fallback.           *)

Advance(t, s) == step' = [step EXCEPT ![t] = s]

(* The pool takes the submitted tasks in order. *)
MayStart(t) ==
    /\ t \in batch /\ step[t] = "queued"
    /\ \/ /\ pc = "batch"
          /\ \A u \in batch : u < t => step[u] # "queued"
          /\ Cardinality({u \in batch : step[u] \in Active}) < MaxWorkers
       \/ /\ pc = "sequential"
          /\ \A u \in batch : u < t => step[u] = "result"

In(t, s) == pc \in {"batch", "sequential"} /\ t \in batch /\ step[t] = s

(* write_task *)
WriteTask(t) ==
    /\ MayStart(t) /\ Advance(t, "task")
    /\ IF chain[t] = "none"
       THEN chain' = [chain EXCEPT ![t] = "task"] /\ UNCHANGED stale
       ELSE /\ UNCHANGED chain
            /\ stale' = IF chain[t] = "task" THEN stale \ {t} ELSE stale \cup {t}
    /\ UNCHANGED <<plan, loop, before, tree, worktrees, patch, root, history>>

(* git worktree add with check=True: a worktree left by a killed process is *)
(* in the way, and the thread raises.                                       *)
CreateWorktree(t) ==
    /\ In(t, "task") /\ git
    /\ IF t \in worktrees
       THEN Advance(t, "raised") /\ UNCHANGED worktrees
       ELSE Advance(t, "worktree") /\ worktrees' = worktrees \cup {t}
    /\ UNCHANGED <<plan, loop, before, tree, chain, stale, patch, root, history>>

(* The request, then the snapshot of the workspace. *)
WriteRequest(t) ==
    /\ In(t, IF git THEN "worktree" ELSE "task") /\ Advance(t, "request")
    /\ IF chain[t] \in Results
       THEN stale' = stale \cup {t} /\ UNCHANGED chain
       ELSE stale' = stale \ {t} /\ chain' = [chain EXCEPT ![t] = "request"]
    /\ before' = [before EXCEPT ![t] = IF git THEN {} ELSE root]
    /\ UNCHANGED <<plan, loop, tree, worktrees, patch, root, history>>

(* The worker edits its workspace or leaves it as it is. *)
RunWorker(t) ==
    /\ In(t, "request") /\ Advance(t, "ran")
    /\ \E edits \in {{}, {t}} :
          /\ tree' = [tree EXCEPT ![t] = edits]
          /\ root' = IF git THEN root ELSE root \cup edits
    /\ UNCHANGED <<plan, loop, before, worktrees, chain, stale, patch, history>>

(* subprocess.TimeoutExpired is not caught: the worktree is removed         *)
(* (finally), whatever the worker edited in it is gone, and the thread      *)
(* raises.                                                                  *)
TimeOut(t) ==
    /\ In(t, "request") /\ Advance(t, "raised")
    /\ worktrees' = worktrees \ {t}
    /\ \E edits \in {{}, {t}} : root' = IF git THEN root ELSE root \cup edits
    /\ UNCHANGED <<plan, loop, before, tree, chain, stale, patch, history>>

(* Mutant of CapturePatch: the diff is taken in the project. *)
CaptureProjectDiff(t) ==
    /\ In(t, "ran") /\ Advance(t, "captured")
    /\ patch' = [patch EXCEPT ![t] = tree[t] \cup (root \ before[t])]
    /\ before' = [before EXCEPT ![t] = {}] /\ tree' = [tree EXCEPT ![t] = {}]
    /\ UNCHANGED <<plan, loop, worktrees, chain, stale, root, history>>

(* ensure_patch: git diff in the worktree; without Git the difference       *)
(* between two snapshots of the project, with what others edited meanwhile. *)
CapturePatch(t) ==
    /\ In(t, "ran") /\ Advance(t, "captured")
    /\ patch' = [patch EXCEPT ![t] = IF git THEN tree[t]
                                     ELSE tree[t] \cup (root \ before[t])]
    /\ before' = [before EXCEPT ![t] = {}] /\ tree' = [tree EXCEPT ![t] = {}]
    /\ UNCHANGED <<plan, loop, worktrees, chain, stale, root, history>>

(* Mutant of RemoveWorktree: the worktree stays. *)
KeepWorktree(t) ==
    /\ In(t, "captured") /\ Advance(t, "removed")
    /\ UNCHANGED <<plan, loop, before, tree, disk, history>>

RemoveWorktree(t) ==
    /\ In(t, "captured") /\ Advance(t, "removed")
    /\ worktrees' = worktrees \ {t}
    /\ UNCHANGED <<plan, loop, before, tree, chain, stale, patch, root, history>>

(* An edit of another task is outside the allowed paths, which do not       *)
(* overlap in a valid parallel plan.                                        *)
PathIssues(t) == ~(patch[t] \subseteq {t})

WriteResult(t) ==
    /\ In(t, "removed") /\ Advance(t, "result")
    /\ \E result \in Results :
          /\ PathIssues(t) => result = "failed"
          /\ chain' = [chain EXCEPT ![t] = result]
    /\ stale' = stale \ {t}
    /\ UNCHANGED <<plan, loop, before, tree, worktrees, patch, root, history>>

ExecuteTask(t) ==
    \/ WriteTask(t) \/ CreateWorktree(t) \/ WriteRequest(t) \/ RunWorker(t) \/ TimeOut(t)
    \/ CapturePatch(t) \/ RemoveWorktree(t) \/ WriteResult(t)

-----------------------------------------------------------------------------
(* After the threads. *)

(* Mutant of EndBatch: the first result is enough. *)
EndBatchEarly ==
    /\ pc = "batch" /\ \E t \in batch : step[t] = "result"
    /\ pc' = "replay"
    /\ UNCHANGED <<plan, completed, executed, batch, outcome, step, before, tree, disk, history>>

EndBatch ==
    /\ pc = "batch" /\ \A t \in batch : step[t] = "result"
    /\ pc' = "replay"
    /\ UNCHANGED <<plan, completed, executed, batch, outcome, step, before, tree, disk, history>>

(* What the process knew is gone. *)
Forget ==
    /\ pc' = "idle" /\ outcome' = "none"
    /\ completed' = {} /\ executed' = {} /\ batch' = {}
    /\ step' = [t \in Tasks |-> "queued"]
    /\ before' = [t \in Tasks |-> {}] /\ tree' = [t \in Tasks |-> {}]

(* future.result() raises once all threads are through, the sequential      *)
(* fallback at once: the command ends.                                      *)
EndWithError ==
    /\ pc \in {"batch", "sequential"}
    /\ \E t \in batch : step[t] = "raised"
    /\ \A t \in batch : step[t] \in {"result", "raised"} \cup
                                    IF pc = "sequential" THEN {"queued"} ELSE {}
    /\ Forget /\ interrupted' = TRUE
    /\ UNCHANGED <<plan, disk, crashes>>

(* Mutant of ReplayPatch: the result of git apply is not looked at. *)
ReplayPatchUnchecked(t) ==
    /\ pc = "replay" /\ t \in batch /\ step[t] = "result"
    /\ \A u \in batch : u < t => step[u] = "replayed"
    /\ Advance(t, "replayed")
    /\ root' \in IF git /\ patch[t] # {} THEN {root, root \cup patch[t]} ELSE {root}
    /\ UNCHANGED <<plan, loop, before, tree, worktrees, chain, stale, patch, history>>

(* _apply_parallel_patch in the order of the ids, of failed tasks too; a    *)
(* patch that does not apply fails its task (mark_worker_result_failed).    *)
ReplayPatch(t) ==
    /\ pc = "replay" /\ t \in batch /\ step[t] = "result"
    /\ \A u \in batch : u < t => step[u] = "replayed"
    /\ Advance(t, "replayed")
    /\ \/ /\ root' = IF git THEN root \cup patch[t] ELSE root
          /\ UNCHANGED chain
       \/ /\ git /\ patch[t] # {}
          /\ chain' = [chain EXCEPT ![t] = "failed"]
          /\ UNCHANGED root
    /\ UNCHANGED <<plan, loop, before, tree, worktrees, stale, patch, history>>

EndReplay ==
    /\ pc = "replay" /\ \A t \in batch : step[t] = "replayed"
    /\ pc' = "loop"
    /\ completed' = completed \cup batch /\ executed' = executed \cup batch
    /\ UNCHANGED <<plan, batch, outcome, step, before, tree, disk, history>>

(* Mutant of Outcome: a worker's exit reason for the outcome. *)
OutcomeByReason(S) == IF \E t \in S : chain[t] = "failed" THEN "failed" ELSE "completed"

(* dispatch_tasks_node: the results of what was executed decide.            *)
Outcome(S) == IF \E t \in S : chain[t] = "failed" THEN "failed" ELSE "merged"

Return ==
    /\ \/ pc = "loop" /\ Remaining = {} /\ UNCHANGED executed
       \/ /\ pc = "sequential" /\ \A t \in batch : step[t] = "result"
          /\ executed' = batch
    /\ pc' = "returned" /\ outcome' = Outcome(executed')
    /\ UNCHANGED <<plan, completed, batch, step, before, tree, disk, history>>

(* The process is killed, in the dispatch or later in the graph. *)
Crash ==
    /\ pc # "idle" /\ crashes < MaxCrashes
    /\ Forget /\ crashes' = crashes + 1 /\ interrupted' = TRUE
    /\ UNCHANGED <<plan, disk>>

Process ==
    \/ NextBatch \/ Fallback \/ (\E t \in Tasks : ExecuteTask(t) \/ ReplayPatch(t))
    \/ EndBatch \/ EndWithError \/ EndReplay \/ Return

Next == Process \/ Dispatch \/ Crash

Spec == Init /\ [][Next]_vars

(* A dispatch that was started goes on: workers have timeouts, git returns. *)
FairSpec == Spec /\ WF_vars(Process)

-----------------------------------------------------------------------------
(* Every variable has its type. *)
TypeOK ==
    /\ dependsOn \in [Tasks -> SUBSET Tasks] /\ git \in BOOLEAN
    /\ pc \in {"idle", "loop", "batch", "sequential", "replay", "returned"}
    /\ completed \subseteq Tasks /\ executed \subseteq Tasks /\ batch \subseteq Tasks
    /\ outcome \in {"none", "merged", "failed"}
    /\ step \in [Tasks -> Steps]
    /\ before \in [Tasks -> SUBSET Tasks] /\ tree \in [Tasks -> SUBSET Tasks]
    /\ worktrees \subseteq Tasks
    /\ chain \in [Tasks -> {"none", "task", "request"} \cup Results]
    /\ stale \subseteq Tasks
    /\ patch \in [Tasks -> SUBSET Tasks] /\ root \subseteq Tasks
    /\ crashes \in Nat /\ interrupted \in BOOLEAN

Acyclic == \A S \in SUBSET Tasks \ {{}} : \E t \in S : dependsOn[t] \cap S = {}

Working == {t \in batch : pc \in {"batch", "sequential"} /\ step[t] \in {"request", "ran"}}

(* The change of a task is in the project, if it completed with one. *)
Delivered(t) == chain[t] = "completed" /\ patch[t] # {} => t \in root

(* A worker starts when the tasks its task depends on are through: they     *)
(* have a result, and in a dispatch nothing interrupted before their        *)
(* changes are in the project (tasks_in_dependency_order and the ready      *)
(* tasks of a batch).                                                       *)
DependenciesFirst ==
    Acyclic => \A t \in Working : \A d \in dependsOn[t] :
        chain[d] \in Results /\ (~interrupted => Delivered(d))

(* A merged dispatch has every change a completed task made, whatever       *)
(* killed an earlier dispatch of the run (docs/workflow.md: the patches of  *)
(* a batch are replayed once it is complete, and then reported as merged).  *)
MergedIsDelivered == outcome = "merged" => \A t \in Tasks : Delivered(t)

(* A dispatch that was not interrupted reports merged only if every task    *)
(* completed and its change is in the project.                              *)
MergeIsWhole ==
    Acyclic /\ ~interrupted /\ outcome = "merged" =>
        \A t \in Tasks : chain[t] = "completed" /\ Delivered(t)

(* In a Git project a patch holds no edit of another task, so that no task  *)
(* is failed, and no edit replayed, for what another one did.               *)
PatchIsOwn == git => \A t \in Tasks : patch[t] \subseteq {t}

(* While a worker runs in its worktree the project does not change under    *)
(* it.                                                                      *)
ReplayAfterBatch ==
    [][git /\ root' # root => \A t \in batch : step[t] \in {"result", "replayed"}]_vars

(* A worker is never sent again to a task whose completed result is on      *)
(* disk, also when a resume knows nothing of it                             *)
(* (test_parallel_execution_reuses_existing_worker_result_when_checkpoint_lagged). *)
NoRework ==
    [][\A t \in Tasks : step[t] # "ran" /\ step'[t] = "ran" => chain[t] # "completed"]_vars

(* No dispatch returns with a worktree left behind, also not by an earlier  *)
(* one that was killed.                                                     *)
WorktreesRemoved == pc = "returned" => worktrees = {}

(* A dispatch ends, also for a plan no task of which is ever ready.         *)
Terminates == (pc # "idle") ~> (pc \in {"idle", "returned"})
=============================================================================
