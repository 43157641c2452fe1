------------------------ MODULE TaskExecutionProofs ------------------------
(***************************************************************************)
(* What holds of a parallel dispatch for any plan, any pool and any number *)
(* of kills.  NoRework and WorktreesRemoved say what must not be found at  *)
(* one point of the dispatch; Inv says why: at any point, which results on *)
(* disk the process knows of (ResultsKnown) and which tasks may still have *)
(* a worktree (WorktreesOwned).                                            *)
(***************************************************************************)
EXTENDS TaskExecution, TLAPS

Dispatching == {"batch", "sequential", "replay"}
Through == {"result", "replayed"}

(* Edits stay with the task that made them.                                *)
EditsOwned ==
    git => \A t \in Tasks : patch[t] \subseteq {t} /\ tree[t] \subseteq {t}

(* A completed result on disk belongs to a task the loop has done, or to    *)
(* one of the batch that is through.                                       *)
ResultsKnown ==
    /\ pc = "loop" => \A t \in Tasks : chain[t] = "completed" => t \in completed
    /\ pc \in Dispatching =>
          /\ batch \cap completed = {}
          /\ \A t \in Tasks : chain[t] = "completed" /\ t \notin completed =>
                t \in batch /\ step[t] \in Through

(* A worktree is never one of a task that is done.                         *)
WorktreesOwned ==
    /\ \A t \in worktrees : chain[t] # "completed"
    /\ pc \in Dispatching \cup {"loop"} => worktrees \cap completed = {}
    /\ pc \in Dispatching =>
          \A t \in batch : step[t] \in Through \cup {"removed"} => t \notin worktrees

(* The fallback takes all that is left, and a replay begins when all are   *)
(* through.                                                                *)
BatchWhole ==
    /\ pc = "sequential" => batch = Tasks \ completed
    /\ pc = "replay" => \A t \in batch : step[t] \in Through

Inv == TypeOK /\ EditsOwned /\ ResultsKnown /\ WorktreesOwned /\ BatchWhole /\ WorktreesRemoved

-----------------------------------------------------------------------------
LEMMA InitInv == Init => Inv
<1> SUFFICES ASSUME Init PROVE Inv
  OBVIOUS
<1> USE CountAssumption, PlanAssumption DEF Init
<1>1. TypeOK
  BY DEF TypeOK, Steps, Results
<1>2. EditsOwned /\ ResultsKnown /\ WorktreesOwned /\ BatchWhole /\ WorktreesRemoved
  BY DEF EditsOwned, ResultsKnown, WorktreesOwned, BatchWhole, WorktreesRemoved, Dispatching
<1> QED
  BY <1>1, <1>2 DEF Inv

LEMMA DispatchKeeps ==
    ASSUME Inv, Dispatch
    PROVE  Inv'
<1> USE CountAssumption DEF Inv, Dispatch, CompletedOnDisk, plan, loop, disk, history
<1>1. TypeOK'
  BY DEF TypeOK, Steps, Results
<1>2. EditsOwned'
  BY DEF TypeOK, Steps, Results, EditsOwned
<1>3. ResultsKnown'
  BY DEF TypeOK, Steps, Results, ResultsKnown, Dispatching, Through
<1>4. WorktreesOwned'
  BY DEF TypeOK, Steps, Results, WorktreesOwned, ResultsKnown, Dispatching, Through
<1>5. BatchWhole'
  BY DEF TypeOK, Steps, Results, BatchWhole, Through
<1>6. WorktreesRemoved'
  BY DEF TypeOK, Steps, Results, WorktreesRemoved, WorktreesOwned, BatchWhole, Dispatching, Through
<1> QED
  BY <1>1, <1>2, <1>3, <1>4, <1>5, <1>6

LEMMA NextBatchKeeps ==
    ASSUME Inv, NextBatch
    PROVE  Inv'
<1> USE CountAssumption DEF Inv, NextBatch, Submit, Ready, Remaining, plan, loop, disk, history
<1>1. TypeOK'
  BY DEF TypeOK, Steps, Results
<1>2. EditsOwned'
  BY DEF TypeOK, Steps, Results, EditsOwned
<1>3. ResultsKnown'
  BY DEF TypeOK, Steps, Results, ResultsKnown, Dispatching, Through
<1>4. WorktreesOwned'
  BY DEF TypeOK, Steps, Results, WorktreesOwned, ResultsKnown, Dispatching, Through
<1>5. BatchWhole'
  BY DEF TypeOK, Steps, Results, BatchWhole, Through
<1>6. WorktreesRemoved'
  BY DEF TypeOK, Steps, Results, WorktreesRemoved, WorktreesOwned, BatchWhole, Dispatching, Through
<1> QED
  BY <1>1, <1>2, <1>3, <1>4, <1>5, <1>6

LEMMA FallbackKeeps ==
    ASSUME Inv, Fallback
    PROVE  Inv'
<1> USE CountAssumption DEF Inv, Fallback, Submit, Ready, Remaining, plan, loop, disk, history
<1>1. TypeOK'
  BY DEF TypeOK, Steps, Results
<1>2. EditsOwned'
  BY DEF TypeOK, Steps, Results, EditsOwned
<1>3. ResultsKnown'
  BY DEF TypeOK, Steps, Results, ResultsKnown, Dispatching, Through
<1>4. WorktreesOwned'
  BY DEF TypeOK, Steps, Results, WorktreesOwned, ResultsKnown, Dispatching, Through
<1>5. BatchWhole'
  BY DEF TypeOK, Steps, Results, BatchWhole, Through
<1>6. WorktreesRemoved'
  BY DEF TypeOK, Steps, Results, WorktreesRemoved, WorktreesOwned, BatchWhole, Dispatching, Through
<1> QED
  BY <1>1, <1>2, <1>3, <1>4, <1>5, <1>6

LEMMA WriteTaskKeeps ==
    ASSUME Inv, NEW t \in Tasks, WriteTask(t)
    PROVE  Inv'
<1> USE CountAssumption DEF Inv, WriteTask, MayStart, Advance, plan, loop, disk, history
<1>1. TypeOK'
  BY DEF TypeOK, Steps, Results
<1>2. EditsOwned'
  BY DEF TypeOK, Steps, Results, EditsOwned
<1>3. ResultsKnown'
  BY DEF TypeOK, Steps, Results, ResultsKnown, Dispatching, Through
<1>4. WorktreesOwned'
  BY DEF TypeOK, Steps, Results, WorktreesOwned, ResultsKnown, Dispatching, Through
<1>5. BatchWhole'
  BY DEF TypeOK, Steps, Results, BatchWhole, Through
<1>6. WorktreesRemoved'
  BY DEF TypeOK, Steps, Results, WorktreesRemoved, WorktreesOwned, BatchWhole, Dispatching, Through
<1> QED
  BY <1>1, <1>2, <1>3, <1>4, <1>5, <1>6

LEMMA CreateWorktreeKeeps ==
    ASSUME Inv, NEW t \in Tasks, CreateWorktree(t)
    PROVE  Inv'
<1> USE CountAssumption DEF Inv, CreateWorktree, In, Advance, plan, loop, disk, history
<1>1. TypeOK'
  BY DEF TypeOK, Steps, Results
<1>2. EditsOwned'
  BY DEF TypeOK, Steps, Results, EditsOwned
<1>3. ResultsKnown'
  BY DEF TypeOK, Steps, Results, ResultsKnown, Dispatching, Through
<1>4. WorktreesOwned'
  BY DEF TypeOK, Steps, Results, WorktreesOwned, ResultsKnown, Dispatching, Through
<1>5. BatchWhole'
  BY DEF TypeOK, Steps, Results, BatchWhole, Through
<1>6. WorktreesRemoved'
  BY DEF TypeOK, Steps, Results, WorktreesRemoved, WorktreesOwned, BatchWhole, Dispatching, Through
<1> QED
  BY <1>1, <1>2, <1>3, <1>4, <1>5, <1>6

LEMMA WriteRequestKeeps ==
    ASSUME Inv, NEW t \in Tasks, WriteRequest(t)
    PROVE  Inv'
<1> USE CountAssumption DEF Inv, WriteRequest, In, Advance, plan, loop, disk, history
<1>1. TypeOK'
  BY DEF TypeOK, Steps, Results
<1>2. EditsOwned'
  BY DEF TypeOK, Steps, Results, EditsOwned
<1>3. ResultsKnown'
  BY DEF TypeOK, Steps, Results, ResultsKnown, Dispatching, Through
<1>4. WorktreesOwned'
  BY DEF TypeOK, Steps, Results, WorktreesOwned, ResultsKnown, Dispatching, Through
<1>5. BatchWhole'
  BY DEF TypeOK, Steps, Results, BatchWhole, Through
<1>6. WorktreesRemoved'
  BY DEF TypeOK, Steps, Results, WorktreesRemoved, WorktreesOwned, BatchWhole, Dispatching, Through
<1> QED
  BY <1>1, <1>2, <1>3, <1>4, <1>5, <1>6

LEMMA RunWorkerKeeps ==
    ASSUME Inv, NEW t \in Tasks, RunWorker(t)
    PROVE  Inv'
<1> USE CountAssumption DEF Inv, RunWorker, In, Advance, plan, loop, disk, history
<1>1. TypeOK'
  BY DEF TypeOK, Steps, Results
<1>2. EditsOwned'
  BY DEF TypeOK, Steps, Results, EditsOwned
<1>3. ResultsKnown'
  BY DEF TypeOK, Steps, Results, ResultsKnown, Dispatching, Through
<1>4. WorktreesOwned'
  BY DEF TypeOK, Steps, Results, WorktreesOwned, ResultsKnown, Dispatching, Through
<1>5. BatchWhole'
  BY DEF TypeOK, Steps, Results, BatchWhole, Through
<1>6. WorktreesRemoved'
  BY DEF TypeOK, Steps, Results, WorktreesRemoved, WorktreesOwned, BatchWhole, Dispatching, Through
<1> QED
  BY <1>1, <1>2, <1>3, <1>4, <1>5, <1>6

LEMMA TimeOutKeeps ==
    ASSUME Inv, NEW t \in Tasks, TimeOut(t)
    PROVE  Inv'
<1> USE CountAssumption DEF Inv, TimeOut, In, Advance, plan, loop, disk, history
<1>1. TypeOK'
  BY DEF TypeOK, Steps, Results
<1>2. EditsOwned'
  BY DEF TypeOK, Steps, Results, EditsOwned
<1>3. ResultsKnown'
  BY DEF TypeOK, Steps, Results, ResultsKnown, Dispatching, Through
<1>4. WorktreesOwned'
  BY DEF TypeOK, Steps, Results, WorktreesOwned, ResultsKnown, Dispatching, Through
<1>5. BatchWhole'
  BY DEF TypeOK, Steps, Results, BatchWhole, Through
<1>6. WorktreesRemoved'
  BY DEF TypeOK, Steps, Results, WorktreesRemoved, WorktreesOwned, BatchWhole, Dispatching, Through
<1> QED
  BY <1>1, <1>2, <1>3, <1>4, <1>5, <1>6

LEMMA CapturePatchKeeps ==
    ASSUME Inv, NEW t \in Tasks, CapturePatch(t)
    PROVE  Inv'
<1> USE CountAssumption DEF Inv, CapturePatch, In, Advance, plan, loop, disk, history
<1>1. TypeOK'
  BY DEF TypeOK, Steps, Results
<1>2. EditsOwned'
  BY DEF TypeOK, Steps, Results, EditsOwned
<1>3. ResultsKnown'
  BY DEF TypeOK, Steps, Results, ResultsKnown, Dispatching, Through
<1>4. WorktreesOwned'
  BY DEF TypeOK, Steps, Results, WorktreesOwned, ResultsKnown, Dispatching, Through
<1>5. BatchWhole'
  BY DEF TypeOK, Steps, Results, BatchWhole, Through
<1>6. WorktreesRemoved'
  BY DEF TypeOK, Steps, Results, WorktreesRemoved, WorktreesOwned, BatchWhole, Dispatching, Through
<1> QED
  BY <1>1, <1>2, <1>3, <1>4, <1>5, <1>6

LEMMA RemoveWorktreeKeeps ==
    ASSUME Inv, NEW t \in Tasks, RemoveWorktree(t)
    PROVE  Inv'
<1> USE CountAssumption DEF Inv, RemoveWorktree, In, Advance, plan, loop, disk, history
<1>1. TypeOK'
  BY DEF TypeOK, Steps, Results
<1>2. EditsOwned'
  BY DEF TypeOK, Steps, Results, EditsOwned
<1>3. ResultsKnown'
  BY DEF TypeOK, Steps, Results, ResultsKnown, Dispatching, Through
<1>4. WorktreesOwned'
  BY DEF TypeOK, Steps, Results, WorktreesOwned, ResultsKnown, Dispatching, Through
<1>5. BatchWhole'
  BY DEF TypeOK, Steps, Results, BatchWhole, Through
<1>6. WorktreesRemoved'
  BY DEF TypeOK, Steps, Results, WorktreesRemoved, WorktreesOwned, BatchWhole, Dispatching, Through
<1> QED
  BY <1>1, <1>2, <1>3, <1>4, <1>5, <1>6

LEMMA WriteResultKeeps ==
    ASSUME Inv, NEW t \in Tasks, WriteResult(t)
    PROVE  Inv'
<1> USE CountAssumption DEF Inv, WriteResult, In, Advance, PathIssues, plan, loop, disk, history
<1>1. TypeOK'
  BY DEF TypeOK, Steps, Results
<1>2. EditsOwned'
  BY DEF TypeOK, Steps, Results, EditsOwned
<1>3. ResultsKnown'
  BY DEF TypeOK, Steps, Results, ResultsKnown, Dispatching, Through
<1>4. WorktreesOwned'
  BY DEF TypeOK, Steps, Results, WorktreesOwned, ResultsKnown, Dispatching, Through
<1>5. BatchWhole'
  BY DEF TypeOK, Steps, Results, BatchWhole, Through
<1>6. WorktreesRemoved'
  BY DEF TypeOK, Steps, Results, WorktreesRemoved, WorktreesOwned, BatchWhole, Dispatching, Through
<1> QED
  BY <1>1, <1>2, <1>3, <1>4, <1>5, <1>6

LEMMA EndBatchKeeps ==
    ASSUME Inv, EndBatch
    PROVE  Inv'
<1> USE CountAssumption DEF Inv, EndBatch, plan, loop, disk, history
<1>1. TypeOK'
  BY DEF TypeOK, Steps, Results
<1>2. EditsOwned'
  BY DEF TypeOK, Steps, Results, EditsOwned
<1>3. ResultsKnown'
  BY DEF TypeOK, Steps, Results, ResultsKnown, Dispatching, Through
<1>4. WorktreesOwned'
  BY DEF TypeOK, Steps, Results, WorktreesOwned, ResultsKnown, Dispatching, Through
<1>5. BatchWhole'
  BY DEF TypeOK, Steps, Results, BatchWhole, Through
<1>6. WorktreesRemoved'
  BY DEF TypeOK, Steps, Results, WorktreesRemoved, WorktreesOwned, BatchWhole, Dispatching, Through
<1> QED
  BY <1>1, <1>2, <1>3, <1>4, <1>5, <1>6

LEMMA EndWithErrorKeeps ==
    ASSUME Inv, EndWithError
    PROVE  Inv'
<1> USE CountAssumption DEF Inv, EndWithError, Forget, plan, loop, disk, history
<1>1. TypeOK'
  BY DEF TypeOK, Steps, Results
<1>2. EditsOwned'
  BY DEF TypeOK, Steps, Results, EditsOwned
<1>3. ResultsKnown'
  BY DEF TypeOK, Steps, Results, ResultsKnown, Dispatching, Through
<1>4. WorktreesOwned'
  BY DEF TypeOK, Steps, Results, WorktreesOwned, ResultsKnown, Dispatching, Through
<1>5. BatchWhole'
  BY DEF TypeOK, Steps, Results, BatchWhole, Through
<1>6. WorktreesRemoved'
  BY DEF TypeOK, Steps, Results, WorktreesRemoved, WorktreesOwned, BatchWhole, Dispatching, Through
<1> QED
  BY <1>1, <1>2, <1>3, <1>4, <1>5, <1>6

LEMMA ReplayPatchKeeps ==
    ASSUME Inv, NEW t \in Tasks, ReplayPatch(t)
    PROVE  Inv'
<1> USE CountAssumption DEF Inv, ReplayPatch, Advance, plan, loop, disk, history
<1>1. TypeOK'
  BY DEF TypeOK, Steps, Results
<1>2. EditsOwned'
  BY DEF TypeOK, Steps, Results, EditsOwned
<1>3. ResultsKnown'
  BY DEF TypeOK, Steps, Results, ResultsKnown, Dispatching, Through
<1>4. WorktreesOwned'
  BY DEF TypeOK, Steps, Results, WorktreesOwned, ResultsKnown, Dispatching, Through
<1>5. BatchWhole'
  BY DEF TypeOK, Steps, Results, BatchWhole, Through
<1>6. WorktreesRemoved'
  BY DEF TypeOK, Steps, Results, WorktreesRemoved, WorktreesOwned, BatchWhole, Dispatching, Through
<1> QED
  BY <1>1, <1>2, <1>3, <1>4, <1>5, <1>6

LEMMA EndReplayKeeps ==
    ASSUME Inv, EndReplay
    PROVE  Inv'
<1> USE CountAssumption DEF Inv, EndReplay, plan, loop, disk, history
<1>1. TypeOK'
  BY DEF TypeOK, Steps, Results
<1>2. EditsOwned'
  BY DEF TypeOK, Steps, Results, EditsOwned
<1>3. ResultsKnown'
  BY DEF TypeOK, Steps, Results, ResultsKnown, Dispatching, Through
<1>4. WorktreesOwned'
  BY DEF TypeOK, Steps, Results, WorktreesOwned, ResultsKnown, Dispatching, Through
<1>5. BatchWhole'
  BY DEF TypeOK, Steps, Results, BatchWhole, Through
<1>6. WorktreesRemoved'
  BY DEF TypeOK, Steps, Results, WorktreesRemoved, WorktreesOwned, BatchWhole, Dispatching, Through
<1> QED
  BY <1>1, <1>2, <1>3, <1>4, <1>5, <1>6

LEMMA ReturnKeeps ==
    ASSUME Inv, Return
    PROVE  Inv'
<1> USE CountAssumption DEF Inv, Return, Outcome, Remaining, plan, loop, disk, history
<1>1. TypeOK'
  BY DEF TypeOK, Steps, Results
<1>2. EditsOwned'
  BY DEF TypeOK, Steps, Results, EditsOwned
<1>3. ResultsKnown'
  BY DEF TypeOK, Steps, Results, ResultsKnown, Dispatching, Through
<1>4. WorktreesOwned'
  BY DEF TypeOK, Steps, Results, WorktreesOwned, ResultsKnown, Dispatching, Through
<1>5. BatchWhole'
  BY DEF TypeOK, Steps, Results, BatchWhole, Through
<1>6. WorktreesRemoved'
  BY DEF TypeOK, Steps, Results, WorktreesRemoved, WorktreesOwned, BatchWhole, Dispatching, Through
<1> QED
  BY <1>1, <1>2, <1>3, <1>4, <1>5, <1>6

LEMMA CrashKeeps ==
    ASSUME Inv, Crash
    PROVE  Inv'
<1> USE CountAssumption DEF Inv, Crash, Forget, plan, loop, disk, history
<1>1. TypeOK'
  BY DEF TypeOK, Steps, Results
<1>2. EditsOwned'
  BY DEF TypeOK, Steps, Results, EditsOwned
<1>3. ResultsKnown'
  BY DEF TypeOK, Steps, Results, ResultsKnown, Dispatching, Through
<1>4. WorktreesOwned'
  BY DEF TypeOK, Steps, Results, WorktreesOwned, ResultsKnown, Dispatching, Through
<1>5. BatchWhole'
  BY DEF TypeOK, Steps, Results, BatchWhole, Through
<1>6. WorktreesRemoved'
  BY DEF TypeOK, Steps, Results, WorktreesRemoved, WorktreesOwned, BatchWhole, Dispatching, Through
<1> QED
  BY <1>1, <1>2, <1>3, <1>4, <1>5, <1>6

LEMMA StutterKeeps ==
    ASSUME Inv, UNCHANGED vars
    PROVE  Inv'
<1> USE DEF Inv, vars, plan, loop, disk, history
<1>1. TypeOK'
  BY DEF TypeOK
<1>2. EditsOwned' /\ ResultsKnown' /\ WorktreesOwned' /\ BatchWhole' /\ WorktreesRemoved'
  BY DEF EditsOwned, ResultsKnown, WorktreesOwned, BatchWhole, WorktreesRemoved
<1> QED
  BY <1>1, <1>2

LEMMA NextKeeps ==
    ASSUME Inv, [Next]_vars
    PROVE  Inv'
<1>1. CASE Dispatch
  BY <1>1, DispatchKeeps
<1>2. CASE Crash
  BY <1>2, CrashKeeps
<1>3. CASE Process
  <2>1. CASE NextBatch \/ Fallback
    BY <2>1, NextBatchKeeps, FallbackKeeps
  <2>2. ASSUME NEW t \in Tasks, ExecuteTask(t)
        PROVE  Inv'
    <3>1. CASE WriteTask(t) \/ CreateWorktree(t) \/ WriteRequest(t) \/ RunWorker(t)
      BY <3>1, WriteTaskKeeps, CreateWorktreeKeeps, WriteRequestKeeps, RunWorkerKeeps
    <3>2. CASE TimeOut(t) \/ CapturePatch(t) \/ RemoveWorktree(t) \/ WriteResult(t)
      BY <3>2, TimeOutKeeps, CapturePatchKeeps, RemoveWorktreeKeeps, WriteResultKeeps
    <3> QED
      BY <2>2, <3>1, <3>2 DEF ExecuteTask
  <2>3. ASSUME NEW t \in Tasks, ReplayPatch(t)
        PROVE  Inv'
    BY <2>3, ReplayPatchKeeps
  <2>4. CASE EndBatch \/ EndWithError \/ EndReplay \/ Return
    BY <2>4, EndBatchKeeps, EndWithErrorKeeps, EndReplayKeeps, ReturnKeeps
  <2> QED
    BY <1>3, <2>1, <2>2, <2>3, <2>4 DEF Process
<1>4. CASE UNCHANGED vars
  BY <1>4, StutterKeeps
<1> QED
  BY <1>1, <1>2, <1>3, <1>4 DEF Next

THEOREM InvHolds == Spec => []Inv
BY InitInv, NextKeeps, PTL DEF Spec

-----------------------------------------------------------------------------
(* Every variable keeps its type: for any plan, pool and number of kills.  *)
THEOREM TypeCorrect == Spec => []TypeOK
<1>1. Inv => TypeOK
  BY DEF Inv
<1> QED
  BY InvHolds, <1>1, PTL

(* In a Git project a patch never holds an edit of another task, so that    *)
(* ensure_patch and the path check judge a worker by its own edits.        *)
THEOREM PatchesAreOwn == Spec => []PatchIsOwn
<1>1. Inv => PatchIsOwn
  BY DEF Inv, EditsOwned, PatchIsOwn
<1> QED
  BY InvHolds, <1>1, PTL

(* A dispatch that returns leaves no worktree behind, also not one of an    *)
(* earlier dispatch that was killed: that one makes git worktree add fail.  *)
THEOREM WorktreesAreRemoved == Spec => []WorktreesRemoved
<1>1. Inv => WorktreesRemoved
  BY DEF Inv
<1> QED
  BY InvHolds, <1>1, PTL

(* No step sends a worker to a task whose completed result is on disk.     *)
THEOREM NothingIsReworked == Spec => NoRework
<1> DEFINE Step == \A t \in Tasks : step[t] # "ran" /\ step'[t] = "ran" => chain[t] # "completed"
<1>1. Inv /\ [Next]_vars => [Step]_vars
  <2> SUFFICES ASSUME Inv, Next, NEW t \in Tasks, step[t] # "ran", step'[t] = "ran"
               PROVE  chain[t] # "completed"
    OBVIOUS
  <2>1. t \in batch /\ step[t] = "request" /\ pc \in {"batch", "sequential"}
    <3> USE DEF Inv, TypeOK
    <3>1. PICK u \in Tasks : ExecuteTask(u) \/ ReplayPatch(u)
      BY DEF Next, Process, Dispatch, Crash, Forget, NextBatch, Fallback, Submit, EndBatch,
             EndWithError, EndReplay, Return
    <3>2. RunWorker(u) /\ u = t
      BY <3>1 DEF ExecuteTask, ReplayPatch, Advance, WriteTask, CreateWorktree, WriteRequest,
                  RunWorker, TimeOut, CapturePatch, RemoveWorktree, WriteResult
    <3> QED
      BY <3>2 DEF RunWorker, In
  <2>2. t \notin completed
    BY <2>1 DEF Inv, ResultsKnown, Dispatching
  <2> QED
    BY <2>1, <2>2 DEF Inv, ResultsKnown, Dispatching, Through
<1> QED
  BY InvHolds, <1>1, PTL DEF Spec, NoRework

(* Outside the replay of a whole batch no step changes a Git project.      *)
THEOREM ReplaysAfterBatch == Spec => ReplayAfterBatch
<1> DEFINE Step == git /\ root' # root => \A t \in batch : step[t] \in {"result", "replayed"}
<1>1. Inv /\ [Next]_vars => [Step]_vars
  <2> SUFFICES ASSUME Inv, Next, git, root' # root
               PROVE  \A t \in batch : step[t] \in {"result", "replayed"}
    OBVIOUS
  <2>1. pc = "replay"
    <3>1. PICK u \in Tasks : ExecuteTask(u) \/ ReplayPatch(u)
      BY DEF Next, Process, Dispatch, Crash, Forget, NextBatch, Fallback, Submit, EndBatch,
             EndWithError, EndReplay, Return, disk
    <3>2. ~ExecuteTask(u)
      BY DEF ExecuteTask, WriteTask, CreateWorktree, WriteRequest, RunWorker, TimeOut,
             CapturePatch, RemoveWorktree, WriteResult, disk
    <3> QED
      BY <3>1, <3>2 DEF ReplayPatch
  <2> QED
    BY <2>1 DEF Inv, BatchWhole, Through
<1> QED
  BY InvHolds, <1>1, PTL DEF Spec, ReplayAfterBatch

-----------------------------------------------------------------------------
(* What the loop may rely on when it starts a batch, and what it may report *)
(* when it returns.                                                         *)

(* With a plan that is not circular some remaining task is always ready, so *)
(* that nothing is left to the fallback and the list of what was executed   *)
(* is never dropped.                                                        *)
NoneLeftOver == Acyclic => pc # "sequential" /\ executed = completed

(* A task that is through has a result on disk.                             *)
ThroughHaveResults ==
    /\ \A t \in completed : chain[t] \in Results
    /\ pc \in Dispatching => \A t \in batch : step[t] \in Through => chain[t] \in Results

(* No batch is ahead of its dependencies.                                   *)
BatchIsReady == pc \in {"batch", "replay"} => \A t \in batch : dependsOn[t] \subseteq completed

(* Only a task that kept to its paths is completed.                         *)
CompletedAreOwn == \A t \in Tasks : chain[t] = "completed" => patch[t] \subseteq {t}

(* Without Git the workers edit the project itself.                         *)
EditsInProject == ~git => \A t \in Tasks : tree[t] \subseteq root /\ patch[t] \subseteq root

(* The changes of the tasks the loop has done are in the project, unless an *)
(* earlier dispatch lost them.                                              *)
ChangesDelivered ==
    ~interrupted =>
        /\ pc = "idle" => \A t \in Tasks : chain[t] = "none"
        /\ \A t \in completed : Delivered(t)
        /\ pc = "replay" => \A t \in batch : step[t] = "replayed" => Delivered(t)

ReportedAtEnd == outcome # "none" => pc = "returned"

OrderInv ==
    /\ Inv
    /\ NoneLeftOver /\ ThroughHaveResults /\ BatchIsReady
    /\ CompletedAreOwn /\ EditsInProject /\ ChangesDelivered
    /\ ReportedAtEnd /\ MergeIsWhole

(* What every step of a worker leaves alone: the loop, and the results,     *)
(* edits and patches of the other tasks.  It has a batch to work on, and    *)
(* its task was not through.                                                *)
LEMMA WorkerFrame ==
    ASSUME TypeOK, NEW t \in Tasks, ExecuteTask(t)
    PROVE  /\ t \in batch /\ pc \in {"batch", "sequential"} /\ step[t] \notin Through
           /\ UNCHANGED <<plan, loop, history>>
           /\ root \subseteq root'
           /\ \A u \in Tasks \ {t} :
                 step'[u] = step[u] /\ chain'[u] = chain[u] /\ patch'[u] = patch[u] /\ tree'[u] = tree[u]
<1> USE DEF TypeOK, Steps, Through, disk
<1>1. CASE WriteTask(t)
  BY <1>1 DEF WriteTask, MayStart, Advance
<1>2. CASE CreateWorktree(t)
  BY <1>2 DEF CreateWorktree, In, Advance
<1>3. CASE WriteRequest(t)
  BY <1>3 DEF WriteRequest, In, Advance
<1>4. CASE RunWorker(t)
  BY <1>4 DEF RunWorker, In, Advance
<1>5. CASE TimeOut(t)
  BY <1>5 DEF TimeOut, In, Advance
<1>6. CASE CapturePatch(t)
  BY <1>6 DEF CapturePatch, In, Advance
<1>7. CASE RemoveWorktree(t)
  BY <1>7 DEF RemoveWorktree, In, Advance
<1>8. CASE WriteResult(t)
  BY <1>8 DEF WriteResult, In, Advance
<1> QED
  BY <1>1, <1>2, <1>3, <1>4, <1>5, <1>6, <1>7, <1>8 DEF ExecuteTask

(* What a worker does to its own task: it gets through with a result; a     *)
(* completed one has a patch within the paths; without Git its edits and    *)
(* its patch are in the project.                                            *)
LEMMA WorkerOwnTask ==
    ASSUME OrderInv, NEW t \in Tasks, ExecuteTask(t)
    PROVE  /\ step'[t] \in Through => chain'[t] \in Results
           /\ chain'[t] = "completed" => patch'[t] \subseteq {t}
           /\ ~git => tree'[t] \subseteq root' /\ patch'[t] \subseteq root'
<1>1. TypeOK /\ chain[t] # "completed"
  <2>1. t \in batch /\ pc \in {"batch", "sequential"} /\ step[t] \notin Through
    BY WorkerFrame DEF OrderInv, Inv
  <2> QED
    BY <2>1 DEF OrderInv, Inv, ResultsKnown, Dispatching
<1>2. ~git => tree[t] \subseteq root /\ patch[t] \subseteq root
  BY DEF OrderInv, EditsInProject
<1> USE <1>1, <1>2 DEF TypeOK, Steps, Results, Through
<1>3. CASE WriteTask(t)
  BY <1>3 DEF WriteTask, Advance
<1>4. CASE CreateWorktree(t)
  BY <1>4 DEF CreateWorktree, Advance
<1>5. CASE WriteRequest(t)
  BY <1>5 DEF WriteRequest, Advance
<1>6. CASE RunWorker(t)
  BY <1>6 DEF RunWorker, Advance
<1>7. CASE TimeOut(t)
  BY <1>7 DEF TimeOut, Advance
<1>8. CASE CapturePatch(t)
  BY <1>8 DEF CapturePatch, Advance
<1>9. CASE RemoveWorktree(t)
  BY <1>9 DEF RemoveWorktree, Advance, disk
<1>10. CASE WriteResult(t)
  BY <1>10 DEF WriteResult, Advance, PathIssues
<1> QED
  BY <1>3, <1>4, <1>5, <1>6, <1>7, <1>8, <1>9, <1>10 DEF ExecuteTask

(* A task none of whose remaining dependencies is left is ready: the plan   *)
(* always has one, unless it is circular.                                   *)
LEMMA SomeTaskIsReady ==
    ASSUME TypeOK, Acyclic, Remaining # {}
    PROVE  Ready # {}
<1>1. PICK t \in Remaining : dependsOn[t] \cap Remaining = {}
  BY DEF Acyclic, Remaining
<1>2. dependsOn[t] \subseteq completed
  BY <1>1 DEF TypeOK, Remaining
<1> QED
  BY <1>1, <1>2 DEF Ready

LEMMA WorkerKeepsOrder ==
    ASSUME OrderInv, NEW t \in Tasks, ExecuteTask(t)
    PROVE  OrderInv'
<1>1. Inv'
  BY NextKeeps DEF OrderInv, Next, Process
<1>2. TypeOK /\ Inv /\ TypeOK'
  BY <1>1 DEF OrderInv, Inv
<1>3. /\ t \in batch /\ pc \in {"batch", "sequential"} /\ step[t] \notin Through
      /\ UNCHANGED <<plan, loop, history>> /\ root \subseteq root'
      /\ \A u \in Tasks \ {t} :
            step'[u] = step[u] /\ chain'[u] = chain[u] /\ patch'[u] = patch[u] /\ tree'[u] = tree[u]
  BY <1>2, WorkerFrame
<1>4. t \notin completed /\ completed \subseteq Tasks /\ batch \subseteq Tasks
  BY <1>2, <1>3 DEF Inv, ResultsKnown, Dispatching, TypeOK
<1>5. NoneLeftOver' /\ BatchIsReady' /\ ReportedAtEnd'
  BY <1>3 DEF OrderInv, NoneLeftOver, BatchIsReady, ReportedAtEnd, Acyclic, plan, loop
<1>6. ThroughHaveResults'
  BY <1>3, <1>4, WorkerOwnTask DEF OrderInv, ThroughHaveResults, Dispatching, loop
<1>7. CompletedAreOwn'
  BY <1>3, WorkerOwnTask DEF OrderInv, CompletedAreOwn
<1>8. EditsInProject'
  BY <1>3, WorkerOwnTask DEF OrderInv, EditsInProject, plan
<1>9. ChangesDelivered'
  BY <1>3, <1>4 DEF OrderInv, ChangesDelivered, Delivered, loop, history
<1>10. MergeIsWhole'
  BY <1>3 DEF OrderInv, MergeIsWhole, ReportedAtEnd, Acyclic, plan, loop, history
<1> QED
  BY <1>1, <1>5, <1>6, <1>7, <1>8, <1>9, <1>10 DEF OrderInv

(* A patch that is replayed is the change of its task; one that does not    *)
(* apply fails it.                                                          *)
LEMMA ReplayKeepsOrder ==
    ASSUME OrderInv, NEW t \in Tasks, ReplayPatch(t)
    PROVE  OrderInv'
<1>1. Inv'
  BY NextKeeps DEF OrderInv, Next, Process
<1>2. TypeOK /\ Inv /\ TypeOK'
  BY <1>1 DEF OrderInv, Inv
<1>3. /\ t \in batch /\ pc = "replay"
      /\ UNCHANGED <<plan, loop, tree, patch, history>> /\ root \subseteq root'
      /\ step'[t] = "replayed" /\ chain'[t] \in {chain[t], "failed"}
      /\ chain'[t] = "completed" => root' = IF git THEN root \cup patch[t] ELSE root
      /\ \A u \in Tasks \ {t} : step'[u] = step[u] /\ chain'[u] = chain[u]
  BY <1>2 DEF ReplayPatch, Advance, TypeOK, Steps, Results
<1>4. step[t] \in Through /\ t \notin completed /\ completed \subseteq Tasks /\ batch \subseteq Tasks
  BY <1>2, <1>3 DEF Inv, BatchWhole, ResultsKnown, Dispatching, TypeOK
<1>5. NoneLeftOver' /\ BatchIsReady' /\ ReportedAtEnd'
  BY <1>3 DEF OrderInv, NoneLeftOver, BatchIsReady, ReportedAtEnd, Acyclic, plan, loop
<1>6. ThroughHaveResults'
  BY <1>3, <1>4 DEF OrderInv, ThroughHaveResults, Dispatching, Results, loop
<1>7. CompletedAreOwn'
  BY <1>3 DEF OrderInv, CompletedAreOwn
<1>8. EditsInProject'
  BY <1>3 DEF OrderInv, EditsInProject, plan
<1>9. Delivered(t)'
  <2> SUFFICES ASSUME chain'[t] = "completed", patch'[t] # {} PROVE t \in root'
    BY DEF Delivered
  <2>1. chain[t] = "completed" /\ chain'[t] = chain[t] /\ patch[t] # {}
    BY <1>3
  <2>2. patch[t] = {t}
    BY <2>1 DEF OrderInv, CompletedAreOwn
  <2> QED
    BY <1>3, <2>1, <2>2 DEF OrderInv, EditsInProject
<1>10. ChangesDelivered'
  BY <1>3, <1>4, <1>9 DEF OrderInv, ChangesDelivered, Delivered, loop, history
<1>11. MergeIsWhole'
  BY <1>3 DEF OrderInv, MergeIsWhole, ReportedAtEnd, Acyclic, plan, loop, history
<1> QED
  BY <1>1, <1>5, <1>6, <1>7, <1>8, <1>10, <1>11 DEF OrderInv

(* The loop: a batch is made of ready tasks, and returns when none is left. *)
LEMMA LoopKeepsOrder ==
    ASSUME OrderInv, NextBatch \/ Fallback \/ EndBatch \/ EndReplay \/ Return
    PROVE  OrderInv'
<1>1. Inv'
  BY NextKeeps DEF OrderInv, Next, Process
<1>2. TypeOK /\ Inv /\ TypeOK'
  BY <1>1 DEF OrderInv, Inv
<1>3. UNCHANGED <<plan, disk, tree, history>>
  BY DEF NextBatch, Fallback, Submit, EndBatch, EndReplay, Return
<1>4. ASSUME Fallback PROVE ~Acyclic
  BY <1>2, <1>4, SomeTaskIsReady DEF Fallback
<1>5. Acyclic' = Acyclic
  BY <1>3 DEF Acyclic, plan
<1>6. NoneLeftOver'
  <2>1. ASSUME Acyclic, NextBatch \/ EndBatch \/ EndReplay \/ Return
        PROVE  pc' # "sequential" /\ executed' = completed'
    BY <2>1 DEF OrderInv, NoneLeftOver, NextBatch, Submit, EndBatch, EndReplay, Return
  <2> QED
    BY <1>4, <1>5, <2>1 DEF NoneLeftOver
<1>7. ThroughHaveResults'
  <2>1. CASE NextBatch \/ Fallback
    BY <1>2, <1>3, <2>1 DEF OrderInv, ThroughHaveResults, NextBatch, Fallback, Submit, Ready,
                            Remaining, Through, disk, TypeOK
  <2>2. CASE EndBatch \/ EndReplay \/ Return
    BY <1>3, <2>2 DEF OrderInv, ThroughHaveResults, EndBatch, EndReplay, Return, Dispatching,
                      Through, disk
  <2> QED
    BY <2>1, <2>2
<1>8. BatchIsReady'
  BY <1>3 DEF OrderInv, BatchIsReady, NextBatch, Fallback, Submit, Ready, EndBatch, EndReplay,
              Return, plan
<1>9. CompletedAreOwn' /\ EditsInProject'
  BY <1>3 DEF OrderInv, CompletedAreOwn, EditsInProject, plan, disk
<1>10. ChangesDelivered'
  <2>1. \A t : Delivered(t)' = Delivered(t)
    BY <1>3 DEF Delivered, disk
  <2>2. pc' # "idle"
    BY DEF NextBatch, Fallback, EndBatch, EndReplay, Return
  <2>3. ASSUME ~interrupted PROVE \A t \in completed' : Delivered(t)
    BY <2>3 DEF OrderInv, ChangesDelivered, NextBatch, Fallback, Submit, EndBatch, EndReplay, Return
  <2>4. ASSUME ~interrupted, pc' = "replay"
        PROVE  \A t \in batch' : step'[t] # "replayed"
    <3>1. EndBatch
      BY <2>4 DEF NextBatch, Fallback, EndReplay, Return
    <3> QED
      BY <3>1 DEF EndBatch
  <2> QED
    BY <1>3, <2>1, <2>2, <2>3, <2>4 DEF ChangesDelivered, history
<1>11. ReportedAtEnd'
  BY DEF OrderInv, ReportedAtEnd, NextBatch, Fallback, Submit, EndBatch, EndReplay, Return
<1>12. MergeIsWhole'
  <2> SUFFICES ASSUME Acyclic, ~interrupted, outcome' = "merged", NEW t \in Tasks
               PROVE  chain[t] = "completed" /\ Delivered(t)
    BY <1>3, <1>5 DEF MergeIsWhole, Delivered, disk, history
  <2>1. Return
    BY DEF OrderInv, ReportedAtEnd, NextBatch, Fallback, Submit, EndBatch, EndReplay
  <2>2. pc = "loop" /\ Remaining = {} /\ executed' = completed
    BY <2>1 DEF Return, OrderInv, NoneLeftOver
  <2>3. t \in completed /\ chain[t] # "failed"
    BY <2>1, <2>2 DEF Return, Outcome, Remaining
  <2> QED
    BY <2>3 DEF OrderInv, ThroughHaveResults, Results, ChangesDelivered
<1> QED
  BY <1>1, <1>6, <1>7, <1>8, <1>9, <1>10, <1>11, <1>12 DEF OrderInv

(* A dispatch begins, or what the process knew of one is gone.              *)
LEMMA BoundaryKeepsOrder ==
    ASSUME OrderInv, Dispatch \/ EndWithError \/ Crash
    PROVE  OrderInv'
<1>1. Inv'
  BY NextKeeps DEF OrderInv, Next, Process
<1>2. TypeOK
  BY DEF OrderInv, Inv
<1>3. UNCHANGED <<plan, disk>>
  BY DEF Dispatch, EndWithError, Crash
<1>4. NoneLeftOver' /\ ReportedAtEnd' /\ BatchIsReady'
  BY DEF NoneLeftOver, ReportedAtEnd, BatchIsReady, Dispatch, EndWithError, Crash, Forget
<1>5. ThroughHaveResults'
  BY <1>3 DEF ThroughHaveResults, Dispatch, CompletedOnDisk, EndWithError, Crash, Forget, Results,
              Dispatching, disk
<1>6. CompletedAreOwn'
  BY <1>3 DEF OrderInv, CompletedAreOwn, disk
<1>7. EditsInProject'
  BY <1>2, <1>3 DEF OrderInv, EditsInProject, Dispatch, EndWithError, Crash, Forget, plan, disk
<1>8. ChangesDelivered'
  <2>1. CASE Dispatch
    BY <1>3, <2>1 DEF OrderInv, ChangesDelivered, Dispatch, CompletedOnDisk, Delivered, disk, history
  <2>2. CASE EndWithError \/ Crash
    BY <2>2 DEF ChangesDelivered, EndWithError, Crash
  <2> QED
    BY <2>1, <2>2
<1>9. MergeIsWhole'
  BY DEF MergeIsWhole, Dispatch, EndWithError, Crash, Forget
<1> QED
  BY <1>1, <1>4, <1>5, <1>6, <1>7, <1>8, <1>9 DEF OrderInv

LEMMA OrderInvHolds == Spec => []OrderInv
<1>1. Init => OrderInv
  <2> SUFFICES ASSUME Init PROVE OrderInv
    OBVIOUS
  <2>1. NoneLeftOver /\ ThroughHaveResults /\ BatchIsReady /\ ReportedAtEnd /\ MergeIsWhole
    BY DEF Init, NoneLeftOver, ThroughHaveResults, BatchIsReady, ReportedAtEnd, MergeIsWhole,
           Dispatching
  <2>2. CompletedAreOwn /\ EditsInProject /\ ChangesDelivered
    BY DEF Init, CompletedAreOwn, EditsInProject, ChangesDelivered
  <2> QED
    BY <2>1, <2>2, InitInv DEF OrderInv
<1>2. OrderInv /\ [Next]_vars => OrderInv'
  <2> SUFFICES ASSUME OrderInv, [Next]_vars PROVE OrderInv'
    OBVIOUS
  <2>1. CASE UNCHANGED vars
    <3>1. Inv'
      BY NextKeeps DEF OrderInv
    <3> QED
      BY <2>1, <3>1 DEF OrderInv, NoneLeftOver, ThroughHaveResults, BatchIsReady, CompletedAreOwn,
            EditsInProject, ChangesDelivered, ReportedAtEnd, MergeIsWhole, Acyclic, Delivered,
            vars, plan, loop, disk, history
  <2>2. CASE Next
    <3>1. CASE Process
      BY <3>1, WorkerKeepsOrder, ReplayKeepsOrder, LoopKeepsOrder, BoundaryKeepsOrder DEF Process
    <3> QED
      BY <2>2, <3>1, BoundaryKeepsOrder DEF Next
  <2> QED
    BY <2>1, <2>2
<1> QED
  BY <1>1, <1>2, PTL DEF Spec

(* For any plan, pool and number of kills: no worker runs before the tasks  *)
(* its task depends on have a result on disk, nor, in a dispatch nothing    *)
(* interrupted before, before their changes are in the project.             *)
THEOREM DependenciesComeFirst == Spec => []DependenciesFirst
<1>1. ASSUME OrderInv, Acyclic, NEW t \in Working, NEW d \in dependsOn[t]
      PROVE  chain[d] \in Results /\ (~interrupted => Delivered(d))
  <2>1. t \in batch /\ pc = "batch"
    BY <1>1 DEF Working, OrderInv, NoneLeftOver
  <2>2. d \in completed
    BY <1>1, <2>1 DEF OrderInv, BatchIsReady
  <2> QED
    BY <1>1, <2>2 DEF OrderInv, ThroughHaveResults, ChangesDelivered
<1>2. OrderInv => DependenciesFirst
  BY <1>1 DEF DependenciesFirst
<1> QED
  BY OrderInvHolds, <1>2, PTL

(* A dispatch nothing interrupted reports "merged" only with every task     *)
(* completed and every change in the project.                               *)
THEOREM MergesAreWhole == Spec => []MergeIsWhole
<1>1. OrderInv => MergeIsWhole
  BY DEF OrderInv
<1> QED
  BY OrderInvHolds, <1>1, PTL
=============================================================================
