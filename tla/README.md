# Coductor in TLA+

Coductor takes a goal, asks coding agents to specify, plan, implement, check,
repair and review a change, and stops when a person has to decide. It runs for
an hour or more, is driven by several commands and a web console at once, and
is meant to be killed and resumed at any time. These modules say what such a
run promises, model-check it on small instances with TLC and prove part of it
for every instance with TLAPS.

Paths are relative to `src/src/coductor/` unless they start with `docs/`.

## 1. The system

A *run* is a directory of YAML artifacts (`00_goal.yaml` to `07_evidence.yaml`,
plus one directory per task and repair), a row in the SQLite table `runs`, a row in
`workflow_checkpoints` and a LangGraph checkpoint thread. All four outlive the
process; nothing but the order of the writes keeps them in agreement.

| component | state | operations | talks to |
|---|---|---|---|
| workflow graph (`workflow/graph.py`) | `WorkflowState` in the process | 15 nodes and the routes between them | everything below, through `WorkflowRuntimeContext` |
| nodes (`workflow/nodes/`) | none | reuse an artifact or make it, save, return a patch | writer, database, services |
| run service (`services/run_service.py`) | none | `run`, `dry_run`, `resume` | graph, both checkpoint stores, lock |
| checkpoint stores (`workflow/checkpoint.py`, `langgraph_checkpoint.py`) | one row per run; one thread per run | save, load; the thread merges artifact keys | SQLite |
| database (`storage/`) | `runs`, `workflow_checkpoints`, `run_locks`, `events` | one transaction per call | all commands |
| run lock (`storage/database.py`) | a row with an owner and a time | acquire, take over when stale, release | `resume`, control commands, web |
| artifacts (`artifacts/`) | files with revision, hash and cited inputs | write, read, lineage validation | nodes, commands |
| task execution (`services/task_execution_service.py`) | task directories, worktrees | sequential or threaded dispatch, replay of patches | backends, git |
| gates and tool checks (`services/workflow_verification_service.py`, `tool_verification_service.py`, `gates/`) | report, request, result | run commands with timeouts | subprocesses |
| repair (`services/repair_service.py`) | `repairs/R*/` | request, worker, result | backends |
| review and delivery (`services/review_delivery_service.py`, `evidence_service.py`) | review, evidence | parse verdict, completeness rules | backends |
| control commands (`cli.py`) | none | `approve`, `pause`, `stop`, `verify`, `review`, `release` | database, artifacts, both checkpoints |
| web console (`web/`) | threads of one process | the same controls, from buttons | the same |
| planner and validator (`planning/`) | none | pure functions: tasks, strategy, batches, validity | nodes |
| backends (`backends/`) | none | call an external agent | - |
| legacy runner (`workflow/graph_runner.py`) | - | not called by any command | - |

What is hard about it:

* a process may die between any two writes, and `resume` has to make sense of
  artifacts, task directories, a row and two checkpoints of different age;
* `resume` prefers the LangGraph thread, which is written only when an
  invocation starts and ends and by `approve`, to the checkpoint saved after
  every node, so after a crash work is done again over its own results;
* approvals rewrite artifacts that others were derived from, and arrive from
  another process, possibly while a `run` (which takes no lock) is executing;
* repairs lead back into the graph, counted in two counters with one limit,
  while artifacts on disk tempt each node to reuse what predates the repair;
* the lock expires by age and is taken over in three separate transactions;
* `run` takes no lock at all, some commands read the status before they take it, and
  several write artifacts, row and checkpoints one after the other;
* a tool check starts servers and scripts that may be slow, die, or survive the process,
  and uses the same directory in every round;
* the goal is evaluated from what is on disk, which need not come from one round: the graph
  takes a gate report it finds, and the web console checks and evaluates apart.

What makes each part correct:

* graph and nodes: no node is entered without its inputs, nothing is dispatched
  without its approvals, every end is a decision, repairs are bounded, a run
  offered for review has earned it, and what is offered is what was checked;
* run service and checkpoints: what a checkpoint names is on disk;
* lock: two operations never work on the run together, nobody frees a lock that
  is not theirs, a lock left behind is eventually given up;
* task execution: a completed task's change is in the workspace, patches in order;
* control commands and release: a run that was halted stays halted, an approval takes
  hold in every place the run is remembered in, a bundle tells the truth until something
  makes it stale, and the bundle decides what is offered for review and released;
* gates and tool checks: no server is left behind, a check looks at its own page, and a
  goal is satisfied only by results that show it and belong together;
* planner: the batches respect dependencies and paths, the validator rejects
  exactly what breaks the rules.

`PROJECT.json` lists the hazards line by line, with the properties for each.

## 2. The modules

| module | what it is |
|---|---|
| `RunLock` | `run_locks`: one operation per client, one step per database call, a clock |
| `MCRunLock` | small sets and owners for TLC |
| `RunLockProofs` | type correctness, mutual exclusion, and that nobody releases the lock of another |
| `Workflow` | one run: graph, nodes, disk, row, both checkpoints, `run`, `dry_run`, `resume`, `approve`, crashes |
| `Lifecycle` | abstract specification: what a run promises to the person who started it |
| `WorkflowLifecycle` | the refinement mapping from `Workflow` to `Lifecycle` |
| `MCWorkflow` | the module TLC is run on |
| `WorkflowProofs` | type correctness, lemmas about the operators of `Workflow`, and the bounds of the repair loop |
| `ApprovalProofs` | no task is dispatched without its approvals |
| `CheckpointProofs` | what checkpoints name is on disk |
| `DeliveryProofs` | nodes find their inputs, runs end decided, ready runs earned it, and `Workflow` implements `Lifecycle` |
| `TaskExecution` | the dispatch of a parallel plan: batches, threads, worktrees, replay of patches, re-dispatch after a kill |
| `MCTaskExecution` | dependency graphs of three tasks for TLC |
| `TaskExecutionProofs` | seven properties of a parallel dispatch, for any plan |
| `RunControl` | extends `Workflow` by the commands of the CLI and the web console, one write at a time |
| `MCRunControl` | the module TLC is run on |
| `RunControlProofs` | every property of the commands but liveness, and what the workflow keeps under them |
| `Verification` | rounds of gates and tool checks by the graph, `verify` and the web console, the processes a check starts, and goal evaluations with and without a round |
| `MCVerification` | a configuration with a check of every kind |
| `VerificationProofs` | the five safety properties of verification, for any configuration |

`Workflow` is composed with the commands in `RunControl`; `Workflow` implements
`Lifecycle`. `RunLock`, `TaskExecution` and `Verification` are the insides of what
is one variable, one node or one choice there.

### RunLock

`lock` is the row of the run, `pc[c]` the place of client `c` between `idle` and
`held`, `stamp[c]` the time it read before its first query and `now` the clock.
`Ask`, `ReadLock`, `DeleteLock` and `InsertLock` are the steps of
`acquire_run_lock`/`_release_stale_run_lock`. `DeleteLock` removes the row by
`run_id` alone, whatever it has become since it was read, as the SQL does.
`Release` is `delete where run_id = ? and owner = ?`. An operation may hold the lock
for as long as it likes; `aged` remembers that some row got older than `StaleAfter`
(`RUN_LOCK_STALE_AFTER_SECONDS`). Owner strings are a constant function of the client,
since the web console's are `web:<action>:<pid>`: two requests of one server for the
same action have the same.

### Workflow

State of the process: `pc` (node, or a step around the graph), `phase` (how far
the node is), `steps` (nodes entered, for LangGraph's recursion limit), `mem`
(`WorkflowState`), `work` (how far it is with each task). State that survives:
`row`, `wf` (workflow checkpoint), `lg` (LangGraph thread), `files` (artifacts
on disk), `stale` (those an input of which was rewritten since), `doc` (what the
artifacts say, as far as the control flow reads it), `taskFile`/`staleTasks` (the
chain task, request, result of each task), `repairs`. `locked` is the run lock as
`resume` and `approve` see it. The rest is history that properties speak of and no
guard reads.

One action is one write that survives a crash. `write_spec` followed by a save is
`WriteSpec`, then `StopForSpecApproval` or `AcceptSpec`; a crash falls between.
Revisions and hashes are reduced to what the lineage validator decides from them:
writing an artifact makes those that cite it stale (`Write`). Outcomes of external
work (worker, gate, goal evaluation, review, planner) are choices.

The graph is `Graph`: one action per node, the disjuncts of each being its steps.
The routes are `RouteAfterStop`, `RouteAfterGates`, `RouteAfterSatisfaction` and
`RouteAfterReview`. `Start`, `Enter`, `Finish`, `Exit` are the saves of
`_run_contextual_graph` around the graph, `ExceedRecursion` is
`GraphRecursionError`, `Crash` the loss of `pc`, `mem` and `work`. `Run`, `DryRun`,
`Resume` and `Approve` are the commands. `LockExpires` stands for the take-over
`RunLock` models in detail.

A node that raises ends the command like a kill, only that the lock is released at
once: `Crash` and `LockExpires` stand for it too. This is not rare: a worker that
exceeds its time raises `subprocess.TimeoutExpired`, which nothing catches.

### Lifecycle and WorkflowLifecycle

`Lifecycle` knows neither graph nor files: a `status`, the approvals that are `open`, the
tasks that were `started` and the `bundle`. Work starts only while nothing is open,
nothing is asked for once work began, the bundle is made once and from all tasks, and
only a complete bundle makes the run ready. `WorkflowLifecycle` maps the row, the
approval fields of the artifacts, the worker requests and `07_evidence.yaml` to these;
every single write, save, command and crash of `Workflow` has to be one of its steps
or a stutter. `Deliver` happens once because `prepare_evidence` reuses a bundle:
`stale_evidence` below is the other side of that.

### RunControl

`op` is the command that has the lock, `step` how far it is, `seen` the status that
`release` and the two reruns of the web console read before they had it, `manifest` what
the release manifest says. `Take` is the lock and the status check of `control_run`,
`Ask`/`TakeAsked`/`Refuse` those of the deferred commands. `approve` is seven actions, one
per write; `verify` writes the report, requests, results and the row; `review` the
review, the bundle and the row. `KillCommand` ends a command between any two of them, or
stands for an exception in it; its lock expires. `KillProcess` is `Crash` next to commands. `ProcessStep` interleaves every step of
`Workflow` with all that, `ResumeRun` takes the same lock as the commands.

`overruled` marks what the code lets decide instead of the bundle: `verify`, a rerun that
restores an older status, the last save of a `run` that was leaving while `review` wrote,
a kill between bundle and row, and a resumed process that is killed before it is back at the
bundle: its first save (`Start`) put the status it remembers in the row, over what `review`
decided since (`Undoes`). `EvidenceDecides` is about everything else. `Undisturbed`
leaves out two interleavings whose effect is inside one artifact: a rerun of the tool
checks while the node runs them itself, and an evaluation between a node's report and
its verdict.

### Verification

`by` is who is at work on the run: the graph, or a command, which is `verify` or the
console's rerun-tool-checks; they end, the graph goes on. `pc` is the place in a round (gates,
report, then per check request, execution and result) or of the graph around it. The ways
the code gets to a goal evaluation are actions of their own:

| code | action |
|---|---|
| `run`, or a `resume` that the lineage check lets through | `Enter`: before the gates, at an evaluation on disk, or after both; `Intact` is the lineage check |
| the gate report on disk is taken, and no check is run (`nodes/verify.py:22-45`) | `ReuseReport`; `ReusesReport` needs a state that names no repair |
| a round of the graph, or of `verify`, which evaluates nothing | `BeginRound` |
| rerun-tool-checks, a round without gates | `RerunChecks` |
| `evaluate_goal_satisfaction`, after a round (`pc = "evaluate"`) or without one (`"reuse"`) | `Evaluate`, or `ReuseVerdict` for an evaluation on disk |
| rerun-satisfaction, over whatever is on disk, also next to a `run` | `RerunSatisfaction` |
| a repair, made or taken from disk, and the end of the graph | `Repair`, `Leave` |
| a kill, and `Popen` raising outside the `try` | `Kill`, `MissServer`, which share `Stop` |

`Stop` may forget that a repair was made: a resume loads the LangGraph thread, saved only when
a process starts and ends and by `approve`, while the repair is in the checkpoint saved after
the node. `changed` is the round a repair came after, `broken` that the graph was cut off.

The directory of a check survives the round, so `result`, `summary` (`browser_summary.json`)
and `produced` are those of the last writer. `asked` is the round of the last request and
`Answered(c)` that the result is that request's, `cites` and `citesDisk` say what the
evaluation on disk cites and whether it is still so. The browser runner is `StartServer`,
`Answer` or `GiveUp`, `Smoke` or `SmokeFails`, and `StopServer` as the `finally`;
`DieInScript` is the script that ends before it writes a summary, where an older one has the
last word. `Kill` leaves a server that is up as an `orphan`, which keeps its port and answers
in the next round. `CriterionStatus` and `Verdict` are the cascade of
`write_goal_satisfaction`, `Tool` and `Cited` the verification plan. The checks of a round are
taken in some fixed order, and the configuration does not change between rounds.

### TaskExecution

The inside of `dispatch_tasks` for strategy `parallel`, finer than in `Workflow`: any
dependency graph, a pool of `MaxWorkers`, with Git or without. `pc` is the place in
`execute_parallel_plan_tasks`: `Dispatch` reads what is on disk, `NextBatch` submits the
ready tasks, `EndBatch` waits for all futures, `ReplayPatch` applies one patch,
`EndReplay` moves the batch to `completed`; `Fallback` is the sequential rest when
nothing is ready. `step[t]` is the place of a thread in `execute_plan_task`. On disk are
`worktrees`, `chain` (task, request, result), `stale`, `patch` and `root`, the project.
An edit is represented by the task that made it, which is what isolation, replay and
the path check are about. `EndWithError` is an exception in a thread: the pool waits for
the others, then the command ends. `Crash` may follow the dispatch as well, since a
crash later in the graph makes `resume` dispatch again from the older checkpoint.

A kill leaves the worktrees of the running workers. The next dispatch rewrites
`task.yaml` (`WriteTask`), fails in `git worktree add` (`CreateWorktree`) and ends; the
old request is now stale, and `Dispatch` is never enabled again: each later
`resume` is refused. The model shows this, no property does, as no document says that
a resume must succeed.

Operators whose comment starts with *Mutant of* are a likely mistake in the
definition that follows them. No specification uses them: `PROJECT.json` names the
property each one breaks, which shows that the property can fail.

## 3. The runs

| run | shows |
|---|---|
| `lock` | two requests of one web server and one more operation, crashes, no limit on holding: `TypeOK`, `MutualExclusion`, `ReleaseIsOwn`, `ExpiredLockYields` |
| `lock_stolen` | violation of `FreshHoldersExclude` by three operations at a stale row |
| `workflow_run` | without crashes: `TypeOK`, `InputsPresent`, `EndsDecided`, `ReadyIsFresh`, `RepairsBounded`, `LoopsOnlyByReuse`, `ImplementsLifecycle`, `Terminates` |
| `workflow_crash` | killed up to twice anywhere: `InputsPresent`, `NoUnapprovedDispatch`, `CheckpointsNameDisk`, `ReadyIsEarned`, `ImplementsLifecycle` |
| `run_control` | two commands of eight against a live run, one kill of its process, and `resume`: `ControlTypeOK`, `InputsPresent`, `NoUnapprovedDispatch`, `FreshBundleIsTrue`, `ManifestMatchesBundle`, `EvidenceDecides`, `StaysHalted`, `ApprovalTakesHold`, `LockFreed` |
| `verified_only` | violation of `ReadyOnlyByEvidence` by `verify` |
| `verification` | two rounds, by the graph or a command, repairs, reuse of what is on disk, evaluations by the console, a kill anywhere: `TypeOK`, `NoServerLeft`, `OwnPage`, `EvaluatedFresh`, `SatisfiedIsShown`, `Terminates` |
| `parallel_dispatch` | three tasks, two threads, a kill anywhere, any worker timing out: `TypeOK`, `DependenciesFirst`, `MergeIsWhole`, `PatchIsOwn`, `WorktreesRemoved`, `ReplayAfterBatch`, `NoRework`, `Terminates` |
| `lost_patch` | violation of `MergedIsDelivered` when one worker of a batch times out |
| `repair_loop` | violation of `RepairLoopEnds` with two repairs |
| `invalid_plan` | violation of `OnlyValidPlansDispatched` |
| `stale_evidence` | violation of `ReadyIsEarned` with `RepairAfterReview` and one crash |

### Bounds

* `NumTasks = 2`: order, partial completion, a failure after a success and a patch
  that does not apply need two tasks, and no task looks at more than those before it.
* `MaxRepairs = 1`, and `2` (the default) in `repair_loop`. Limit reached and limit
  not reached both happen with 1. With 2 the second entry into the repair node is
  the one that takes an old repair for a new one, and then the loop is unbounded.
* `RecursionLimit = 25` is LangGraph's default; `Goto` counts, `At` enforces it.
* `Fingerprints`: two in `workflow_run`, so that "the same failure again" and
  "another failure" both occur; one elsewhere.
* `MaxCrashes = 2` in `workflow_crash`: the second crash is needed to reach a
  resume that reuses what the first one left, in particular the early save of
  `ReuseSpec`. `workflow_run` has none, as some of its properties are about
  uninterrupted runs only. Without a crash the number of commands is not bounded.
* `repairsRun` stops one above `MaxRepairs`, which is where the property decides.
* `ToolChecks` is on in `workflow_run` and off in `workflow_crash`; with it on and
  two crashes the state space grows without a new kind of interruption.
* `RunLock`: three clients, two of which share an owner string: the dangerous order needs
  one that holds, one that decided to delete and one that inserts between. The clock is
  long enough for a lock to be taken, expire and be taken over.
* `run_control`: two commands, one task, no repair, one crash of the process, both strategies, invalid plans and spec approvals on and off, tool checks on.
  Each property is about one command and one other actor - the process, `resume`, or a
  second command - and two commands are given in any order, overlapping where the code
  lets them. A kill of a command is not counted: there are only as many as commands.
* `verification`: two rounds, since a leftover of a round matters in the next and no
  further, and one kill; entries, repairs and evaluations are not bounded. A browser check
  with a server, one with no target, a command with evidence, an empty command, a tool nobody
  knows, and an implicit image check; required ones and others; a page, a logo and a manual
  criterion. 582,404 states. A page without a server of its own takes steps of the other
  browser check only, multiplies the states, and is left to the proofs.
* `TaskExecution`: three tasks that are independent, a chain, a join, and circular
  but for one. Three independent tasks on two threads are the least with a queue; they
  are checked with Git only, as without Git, where snapshots of one project overlap,
  they have a million states more and no action more. One kill, any number of time-outs.

Deadlock is not checked: a run that is ready, or refused, stops, and the bounded
clock stops too.

### Fairness

`Workflow` assumes weak fairness of `Process`, the steps of a started process:
workers, gates and tool checks run under timeouts, and a save that fails ends the
process. No command is fair, nobody has to type `resume` or `approve`.
`TaskExecution` assumes the same of a dispatch that was started, `Verification` of `Step`, a
round or an evaluation that was begun
(a gate, a command, node and the wait for a page all have timeouts, and `terminate` is
followed by `kill`; a check starts no program it waits for without one). `RunControl` assumes
it of the command that has the lock, which never waits for the process, and that a lock
nobody holds expires.
`RunLock` assumes that an operation that has asked goes on with its queries. A
person need not ask, and an operation need not release.

### What the properties mean

* `InputsPresent`: wherever a checkpoint lets the graph be entered, the node finds
  the artifacts it reads without asking, and a repair finds a worker result.
* `NoUnapprovedDispatch`: the two validate nodes do not validate; the status alone
  keeps an unapproved run from its tasks. It does, also across crashes, *because*
  `resume` prefers the LangGraph thread: the checkpoint saved after each node may stand
  past an approval. The mutant that loads the newer checkpoint breaks the property.
* `EndsDecided`: no invocation leaves the graph still `running`. `human_required` is a
  decision here, also where only stale artifacts led to it.
* `ReadyIsEarned`: ready means gates passed, goal satisfied, no blocking finding,
  complete bundle. With `repair_after_blocking_review` and a crash it fails, see below.
* `ReadyIsFresh`: in an uninterrupted run, ready means that nothing is stale, every
  change is in the workspace and the gates saw the last one.
* `RepairsBounded`, `LoopsOnlyByReuse`: two counters and one limit together bound
  the workers; the only endless loop is the one that reuses a repair.
* `CheckpointsNameDisk`: a save comes after the writes it records. `Resume` relies
  on it when it skips the per-artifact existence test.

* `ImplementsLifecycle`: see `Lifecycle` above. It holds with crashes because `resume`
  prefers the LangGraph thread, as for `NoUnapprovedDispatch`.
* `MutualExclusion`: until a row has aged, only one operation works on the run, although
  two may share an owner string. `FreshHoldersExclude` asks the same of operations
  that have just asked, whatever aged before, and fails.
* `FreshBundleIsTrue`: `prepare_evidence` and `review` build the bundle from different
  inputs - only the former cites the goal evaluation - and reruns rewrite these; whatever
  the bundle cites makes it stale when it no longer is what it was built from.
* `ManifestMatchesBundle`: `release` decides on a status that may be out of date, but the
  manifest is made from the bundle it finds under the lock.
* `EvidenceDecides`, `ReadyOnlyByEvidence`: the bundle decides what is offered for review,
  except in the five cases of `overruled`; `verify` is the one a document denies. So
  `EvidenceDecides` does not find the overwriting of the row by a live run's last save, a
  rerun of the web console, a kill in `review` or the first save of a resume, which are what
  the code does: it says that these are the only ways.
* `StaysHalted`: a run at rest that was paused or stopped is not executed again. It says
  nothing of a run that is executing, nor of the status a rerun of the web console writes
  back: see the observations.
* `ApprovalTakesHold`: when an approval ends, the row and the state `resume` will load
  agree. The mutant that forgets the LangGraph thread breaks it, as `resume` prefers it.
* `LockFreed`: a command ends or its lock expires.
* `NoServerLeft`, `OwnPage`: the `finally` stops the server on every way out, and without
  a kill of the process no server of an earlier check answers on its port. The server is the
  process `Popen` started: `terminate` and `kill` reach that one only, not what a wrapper
  (`npm run dev`) started in its turn, and `kill` is not waited for.
* `EvaluatedFresh`, `SatisfiedIsShown`: results of several rounds lie side by side. After a
  round of its own, all the graph evaluates is of that round. Without one, it evaluates what
  is on disk: then each result still answers the last request of its check, because the
  lineage check of `resume` refuses anything else (this is what holds after `Popen` raised),
  and is of after the last repair, because a state that names a repair takes no report
  from disk - unless the graph was cut off, when both can be lost. The mutant that takes any
  report breaks the property without a kill.
  Of an evaluation by the web console only what the disk says is claimed: each required check
  cited has passed, with its evidence and its image, in whichever round.
* What these two leave out is what the code does not do: with `~broken` removed, TLC finds
  both violated (see the observations). That a browser check passed rests on
  `browser_summary.json`, and no more is claimed: the summary may be of an earlier smoke test.

* `DependenciesFirst`: a worker starts when the tasks its task depends on have a result
  and, if nothing was interrupted, their changes are in the project.
* `MergeIsWhole`: an uninterrupted merge means every task completed and is in the project.
* `PatchIsOwn`, `ReplayAfterBatch`: isolation of the workers, in a Git project. Without
  Git the snapshot of one worker does see the edits of another, and fails its task.
* `NoRework`, `WorktreesRemoved`: what a re-dispatch finds and what it leaves.

### Disagreements between code and documents

1. `repair_loop`: `docs/workflow.md:19` promises a finite repair loop. From its
   second entry on, `repair_failure` looks up the repair numbered by the attempts
   already made, finds it complete, counts nothing and returns to the gates, which
   fail again, until LangGraph gives up.
2. `lock_stolen`: the inventory calls `run_locks` a mutex with release of stale locks. The
   take-over reads, deletes and inserts in three transactions, and the deletion does not
   look at what it deletes: of two operations that found the same stale row, the second
   deletes the fresh row of the first, and both work on the run.
3. `invalid_plan`: approving a parallel plan that failed validation dispatches it.
4. `stale_evidence`: `prepare_evidence` reuses any bundle. A run killed after writing
   a ready one forgets its repairs, is resumed, repairs and reviews again, and is
   offered for review on the old bundle although the new review blocks.
5. `lost_patch`: `docs/workflow.md:19` says that the patches of a batch are replayed
   when it is complete and reported as merged. When one worker times out, the exception
   skips the replay; `resume` takes the completed results of the others as done, never
   replays their patches, and reports all tasks as merged.
6. `verified_only`: `docs/workflow.md:29` calls the evidence the source of the final status
   and `docs/security.md:27` says that gates, review and bundle decide. `verify` sets
   `ready_for_human_review` when the gates pass, in a run that stopped at an invalid plan
   before any worker was started.

### Observations without a run

What the models show and no document promises otherwise in so many words:

* The lock is never refreshed and stale after 30 minutes (`cli.py`, `run_service.py`), while
  one worker may take `budgets.max_run_minutes = 45`: a live `resume` can lose it.
* `pause` and `stop` set the row only. A run that is executing overwrites it at its next
  save and goes on; a paused run at rest can never be continued, as no command accepts it.
* The reruns of the web console write back the status they read before they had the lock,
  over whatever a command set in between.
* A `review` given while a `run` is leaving is undone by that run's last save.
* A kill within the approval of a specification, after the artifact and before the
  checkpoints, leaves a run no command moves on: `approve` finds it approved already and, with
  no plan to approve yet, only confirms; `resume` loads `human_required` and ends.
* `dry_run` tells the user to resume, and the resumed run ends where it stood.
* A `browser_summary.json` of an earlier smoke test overrides the exit code of a script
  that died; a server of a killed round answers for that of the next.
* A crash between the gate report and the tool checks leaves an evaluation of the round
  before stale, and the resumed run at `human_required`, which nothing in the run repairs.
* Where there was no evaluation yet, nothing marks the results as old: round 1 fails in its
  gates while its checks pass, the run is repaired, round 2 passes its gates and writes the
  report, and the process is killed before the checks run again. The resume has forgotten the
  repair, takes the report, runs no check, and may call the goal satisfied on results of before
  the repair. The documents describe a verification after every repair
  (`docs/architecture/diagram-content-model.md:91`, "进入 repair loop，随后重新验证") and a
  gate that runs again when there is a repair result (`architecture_inventory.md:429`). The
  web console's rerun-satisfaction does the same without a resume, and also after `Popen` raised.
* rerun-satisfaction next to a `run` in its first round leaves an evaluation that this
  run's own `evaluate_goal_satisfaction` then takes for its own (`ReuseVerdict`), although its
  checks went on after it.

## 4. The proofs

| theorem | states | assumes |
|---|---|---|
| `RunLockProofs!TypeCorrect` | `Spec => []TypeOK` | the constants' types |
| `RunLockProofs!LockExcludes` | `Spec => []MutualExclusion` | the constants' types |
| `RunLockProofs!ReleasesAreOwn` | `Spec => ReleaseIsOwn` | the constants' types |
| `WorkflowProofs!TypeCorrect` | `Spec => []TypeOK` | the constants' types |
| `WorkflowProofs!RepairsAreBounded` | `Spec => []RepairsBounded` | the constants' types |
| `WorkflowProofs!LoopsNeedReuse` | `Spec => []LoopsOnlyByReuse` | `RecursionLimit >= 18` |
| `ApprovalProofs!NothingUnapproved` | `Spec => []NoUnapprovedDispatch` | the LangGraph saver is installed |
| `CheckpointProofs!CheckpointsTrue` | `Spec => []CheckpointsNameDisk` | the constants' types |
| `DeliveryProofs!RunsEndDecided` | `Spec => []EndsDecided` | the constants' types |
| `DeliveryProofs!NodesFindInputs` | `Spec => []InputsPresent` | a plan has a task |
| `DeliveryProofs!WorkflowImplementsLifecycle` | `Spec => ImplementsLifecycle` | the saver is installed, a plan has a task |
| `DeliveryProofs!ReadyRunsEarnedIt` | `Spec => []ReadyIsEarned` | the saver is installed, blocking reviews are not repaired |
| `DeliveryProofs!ReadyRunsAreFresh` | `Spec => []ReadyIsFresh` | the saver is installed |
| `TaskExecutionProofs!TypeCorrect` | `Spec => []TypeOK` | the constants' types |
| `TaskExecutionProofs!PatchesAreOwn` | `Spec => []PatchIsOwn` | the constants' types |
| `TaskExecutionProofs!WorktreesAreRemoved` | `Spec => []WorktreesRemoved` | the constants' types |
| `TaskExecutionProofs!NothingIsReworked` | `Spec => NoRework` | the constants' types |
| `TaskExecutionProofs!ReplaysAfterBatch` | `Spec => ReplayAfterBatch` | the constants' types |
| `TaskExecutionProofs!DependenciesComeFirst` | `Spec => []DependenciesFirst` | the constants' types |
| `TaskExecutionProofs!MergesAreWhole` | `Spec => []MergeIsWhole` | the constants' types |
| `VerificationProofs!TypeCorrect` | `Spec => []TypeOK` | the bounds are numbers |
| `VerificationProofs!ServersStopped` | `Spec => []NoServerLeft` | the bounds are numbers |
| `VerificationProofs!PagesAreOwn` | `Spec => []OwnPage` | the bounds are numbers |
| `VerificationProofs!EvaluationsAreFresh` | `Spec => []EvaluatedFresh` | the bounds are numbers |
| `VerificationProofs!SatisfiedWasShown` | `Spec => SatisfiedIsShown` | the bounds are numbers |
| `RunControlProofs!ControlTypeCorrect` | `ControlSpec => []ControlTypeOK` | the constants' types |
| `RunControlProofs!HaltedRunsStayHalted` | `ControlSpec => StaysHalted` | the constants' types |
| `RunControlProofs!ApprovalsTakeHold` | `ControlSpec => ApprovalTakesHold` | the constants' types |
| `RunControlProofs!FreshBundlesTrue` | `ControlSpec => []FreshBundleIsTrue` | the constants' types |
| `RunControlProofs!ManifestsTrue` | `ControlSpec => []ManifestMatchesBundle` | the constants' types |
| `RunControlProofs!CommandsLeaveInputs` | `ControlSpec => []InputsPresent` | a plan has a task |
| `RunControlProofs!CommandsApproveFirst` | `ControlSpec => []NoUnapprovedDispatch` | the saver is installed |
| `RunControlProofs!TheBundleDecides` | `ControlSpec => []EvidenceDecides` | the constants' types |

They hold for any number of tasks, repairs, crashes, threads, clients, commands, rounds
and checks, for any dependency graph and any configuration of gates, checks and criteria.
The four assumptions beyond the constants' types:

* *The LangGraph saver is installed* (`SaverAvailable`). `pyproject.toml` requires the
  package, the code tolerates its absence. Without it a resume loads the checkpoint saved
  after each node, and the early save of `ReuseSpec` stands past an approval.
* *A plan has a task* (`NumTasks # 0`). The planner makes at least one; with none, a repair
  would find no worker result.
* *Blocking reviews are not repaired* (`~RepairAfterReview`, the default of
  `workflow.repair_after_blocking_review`). With it, `stale_evidence` refutes the property.
* *`RecursionLimit >= 18`.* 14 nodes lie on the longest way and one repair goes four back;
  LangGraph's default is 25.

*Lock.* That at most one client is at `held` is not inductive. `Inv` adds, for as long as
no row has aged, that the row is the holder's, that a row has a holder, and that nobody
reaches `delete`, because a row that is not older than the bound is not stale for anybody
whose timestamp is not from the future. `ReleaseIsOwn` needs none of that, as it holds of
stolen locks too: `NamedInv` says that a row with the owner string of a client that shares
it with nobody is the one this client inserted and has not released.

*Types.* `Save` sets the row's status and the checkpoint in one transaction;
`RowIsSaved` (a run with a row has a checkpoint) is what makes `Remembered` a state
when `Resume` loads it.

*Repair loop.* Neither property of it is inductive. `RepairInv` numbers the nodes by the
longest way that leads to them (`Position`), and bounds `steps` by that number plus four once
there is nothing left to repair with (`StepsCounted`): the second time the repair is entered it
reuses, which is the exception of `LoopsOnlyByReuse`. For the workers it keeps, in an
uninterrupted run, that a state without attempts means a run without repairs and that the
number of the attempts of any other is that of a repair on disk (`Counted`) - also of the
state a resume would load, which is where the saver and approvals come in (`AttemptsKept`).
So a run without crashes makes one repair at most, which is the finding of `repair_loop`
seen from the other side, and none without an allowance (`RepairsAllowed`).

*Approvals.* A stage is kept in the node being executed, in the state of the process
and in the states a resume may load. `ApprovalInv` says for each that if it stands
past the specification or the plan, that artifact is on disk and approved or the
status closes the route. The workflow checkpoint is held to it only while there is no
LangGraph thread, because `ReuseSpec` saves the next stage before the approval is looked
at.

*Checkpoints.* A node saves what it has in memory, so `OnDiskInv` also says that
the state of the process names only what is on disk, that a node past its write has
its artifact, and that a task past its result has one.

*Delivery.* A resume may enter the graph at the stage of any checkpoint, so `DeliveryInv`
says what a node relies on (`Stands`) not of the node being executed only but of every state
kept anywhere that names it (`MayEnter`): the artifacts behind it, made in order, its
status, and the tasks it takes for done. `EndsDecided` and `InputsPresent` follow.
`LifeInv` adds what the life cycle is about: a status ready anywhere comes with a ready
bundle (`SavedReady`), work with its approvals, the bundle with the work of all tasks. Each
action then is a step of `Lifecycle` or a stutter under the mapping (`LifeStep`).
For `ReadyIsEarned` it remains that nothing is evaluated again once a ready bundle is on
disk. `EarnedInv` shows where a process that remembers a repair can be (`RepairedStates`), at
which stages a resume enters (`EntryStages`), and that an approval given twice, which makes
plan or integration stale, keeps every later resume from the graph (`Blocked`).
`FreshInv`, for `ReadyIsFresh`, says what is so as long as nothing was broken off: one process
works on the run from its first task to its bundle, with nothing stale and nothing
produced yet before the dispatch (`FreshBefore`), the changes and results of the tasks done
in step (`FreshWork`), and all of them there at the integration (`FreshIntegration`). What a
new gate report or tool check makes stale is made again on the way to the bundle
(`FreshChecks`, `StaleByPlace`), because nothing is reused without a repair
(`NothingReused`). Outside the graph, a state that a resume could enter anywhere but at the
end belongs to a run not worked on yet, or to one that an approval made stale for good (`Reached`).

*Dispatch.* `NoRework` and `WorktreesRemoved` speak of one point of a dispatch. `Inv`
says for every point which results on disk the process knows (`ResultsKnown`: a
completed result belongs to a task that is done or through) and whose worktree may
exist (`WorktreesOwned`: never that of a task that is done or past its removal).
`OrderInv` adds what the loop relies on between batches: a batch is made of tasks whose
dependencies are through (`BatchIsReady`), those through have results and, if nothing was
interrupted, their changes are in the project (`ChangesDelivered`), and with a plan that is
not circular nothing is left to the fallback, because some remaining task is always ready
(`SomeTaskIsReady`).

*Verification.* Both properties speak of one moment, but of results recorded many steps, and
perhaps several processes, before it. `Inv` says of every check that is settled in this round
that its result is of this round (`Fresh`) and of every other that it is of an earlier one
(`Older`), so that a check being executed never has an answer yet. For evaluations without a
round, where nothing of this round is known, it says what the disk says by itself: outside a
round of its own the graph finds every result answered (`Answering`, from `Intact` on), and
all results are of after the last repair, unless the graph was cut off or remembers the repair
and is verifying it (`Dated`). What a result that answers its request rests on is still
there (`Grounded`): images are never taken away, and a summary is written only by the check
whose it is, which is not answered then. The report a round ends with is that of its
gates (`Reported`). `RenewedByEvaluation` reduces `SatisfiedIsShown` to the two evaluations.

*Commands.* `CommandInv` types the commands and says that one is given only to a run that
has a row. `HoldInv` follows an approval that met no process to its end, and a run that
rests. For the bundle and the manifest each step is reduced to the artifacts it writes and
the verdicts it changes (`FilesMove`, `OutcomesMove`): a verdict changes only with its artifact,
and that makes the bundle stale, or the bundle is the one written. `OrderInv` proves
`DeliveryInv` again, for writes of a command between any two steps of the process:
commands add artifacts and take none away, and what `approve` saves names a node whose inputs
are there (`ApproveProgress`). `DecideInv` says when the row may be ready without the bundle
saying so: while `review` has written the bundle and not yet the row, and while a resumed
process that remembers the status is on its way back to the bundle (`Returning`).

Only model-checked: liveness (`Terminates`, `ExpiredLockYields`, `LockFreed`), since it
depends on fairness.

## 5. What is abstracted or not modelled

* `Workflow` has tasks without dependencies and one threaded batch; `TaskExecution` has
  the batches. Repository contracts are not modelled yet, nor that the diff of a
  sequential task is taken in the project and includes the edits of the tasks before.
* In `TaskExecution` allowed paths are those of a valid parallel plan: an edit of one
  task is outside the paths of another. The plan lists tasks in the order of their ids.
* A task goes from `work` to `work` in one process; the commands of another process
  see only the disk. Two processes executing the same graph (`run` and a `resume`
  after a stolen lock) are not modelled.
* `approve` is one step in `Workflow` and seven in `RunControl`.
* The gate runs, checks and verdicts of a run are choices in `Workflow` and `RunControl`, and
  one tool check stands for the list; `Verification` has the list, in rounds of its own.
* In `Verification` a criterion and its implicit image check have the same name, and a node
  process that outlives a killed round is not modelled: it could only write a summary.
  An evaluation is one step, a timeout is a failure, and the verification plan is there when
  the goal is evaluated.
* Also there, `verify` and rerun-tool-checks do not run at the same time as a round of a `run`,
  though `run` takes no lock; rerun-satisfaction does. A review or a bundle on disk, and the
  report rewritten when a gate failure stops the run (`nodes/verify.py:55`), would make
  `resume` refuse more often than `Intact` does. The project is changed by repairs only, not
  by a person between rounds, and the port of a page is never taken by a server of the
  developer's own.
* Checks that name each other's evidence files, and commands that change the project while
  others look at it, are not modelled.
* The window in which the web console refuses a repeated click (`_check_action_window`) only
  takes behaviours away; its threads share no other state. `read_service`, `app`, `server`
  and the front end read and render.
* Planner and plan validator are choices of their results. They are pure functions of text
  and path globs; a model of them would copy string matching character by character.
* The event log is append-only and no decision reads it. Backends, prompts,
  configuration parsing, repository inspection and rendering are I/O or text.
* The legacy runner is not reached from any command.

## 6. Plan

Done: the modules and theorems above. What is left, in this order:

1. Proofs: `ReadyIsEarned` under the commands of `RunControl`.
2. Sequential plans in `TaskExecution`: contracts, and the diff that accumulates.
3. `Planning`: task order and batches as functions over abstract tasks, checked against
   reference definitions (topological order, disjoint paths).
