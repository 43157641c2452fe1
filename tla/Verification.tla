---------------------------- MODULE Verification ----------------------------
(***************************************************************************)
(* Checking a run: the quality gates (gates/runner.py), the tool checks    *)
(* (tool_verification_service.py, with the browser and the image runner)   *)
(* and the evaluation of the goal from what they left on disk              *)
(* (artifact_writer.py).                                                   *)
(*                                                                         *)
(* A round is one pass of the checks.  The graph runs gates and checks in  *)
(* it, unless it takes the report it finds (nodes/verify.py), and goes on  *)
(* to the evaluation when the gates passed; `verify` runs both and does    *)
(* not evaluate; the web console reruns the checks without the gates, and  *)
(* evaluates without a round (control_service.py).  Between two rounds of  *)
(* the graph a repair changes the project.                                 *)
(*                                                                         *)
(* The directory of a tool check is used again in every round, so that a   *)
(* result, a summary or an evidence file of an earlier round may be found  *)
(* by a later one.  A browser check may start a server; when the process   *)
(* is killed that server goes on and keeps its port.                       *)
(***************************************************************************)
EXTENDS Naturals, FiniteSets

CONSTANTS
    Gates, RequiredGates,  \* quality_gates
    Configured,            \* tool_checks
    ConfiguredKind,        \* how a configured check is executed
    RequiredConfigured,    \* those that are required
    CriterionIds,          \* the criteria each is for; {} means all
    WithTarget,            \* browser checks with a url or a static path
    WithServer,            \* browser checks with a start command
    WithEvidence,          \* checks that name an evidence file of their own
    Criteria, RequiredCriteria,
    Automated,             \* criteria whose verification is automated
    AboutImages,           \* criteria whose statement asks for an image
    MaxRounds,             \* bound: rounds
    MaxKills               \* bound: how often the process is killed

Kinds == {"unsupported", "empty", "command", "browser", "image"}

ASSUME ConfigAssumption ==
    /\ RequiredGates \subseteq Gates
    /\ ConfiguredKind \in [Configured -> Kinds] /\ RequiredConfigured \subseteq Configured
    /\ CriterionIds \in [Configured -> SUBSET Criteria]
    /\ WithTarget \subseteq Configured /\ WithServer \subseteq Configured
    /\ WithEvidence \subseteq Configured
    /\ RequiredCriteria \subseteq Criteria /\ Automated \subseteq Criteria
    /\ AboutImages \subseteq Criteria
    /\ Configured \cap Criteria = {}
ASSUME BoundAssumption == MaxRounds \in Nat /\ MaxKills \in Nat

-----------------------------------------------------------------------------
(* The verification plan: for every criterion the tool that shows it and    *)
(* the checks whose results it cites (write_verification_plan).            *)

ImageCriteria == Automated \cap AboutImages

(* implicit_image_check_for_item: a check for every image criterion, named  *)
(* here by the criterion.                                                  *)
Checks == Configured \cup ImageCriteria

Kind(c) == IF c \in ImageCriteria THEN "image" ELSE ConfiguredKind[c]

ImageChecks == {c \in Checks : Kind(c) = "image"}

Required(c) == c \in RequiredConfigured \cup RequiredCriteria

ChecksFor(criterion) ==
    {c \in Configured : CriterionIds[c] = {} \/ criterion \in CriterionIds[c]}

Tool(criterion) ==
    IF criterion \notin Automated THEN "manual"
    ELSE IF criterion \in AboutImages THEN "image_generation"
    ELSE IF ChecksFor(criterion) # {} THEN "quality_gate+tool_check" ELSE "quality_gate"

Cited(criterion) ==
    CASE Tool(criterion) = "manual" -> {}
      [] Tool(criterion) = "image_generation" -> {criterion}
      [] OTHER -> ChecksFor(criterion)

-----------------------------------------------------------------------------
(* Nothing tells a timeout from a failure. *)
GateResults == {"none", "passed", "failed"}
CheckStatuses == {"passed", "failed", "skipped"}
Verdicts == {"none", "satisfied", "not_satisfied", "uncertain"}

(* A tool_result.yaml: its status, whether it asks for a person, the round  *)
(* whose request it answers.                                               *)
ToolResult == [status : CheckStatuses \cup {"none"}, human : BOOLEAN, round : 0..MaxRounds]

NoResult == [status |-> "none", human |-> FALSE, round |-> 0]

VARIABLES
    by,        \* who is at work: "none", the "graph", or a "command", `verify` or the
               \* web console's rerun-tool-checks
    pc,        \* "idle"; the graph before the gates, "begin", and after its verification,
               \* "settle"; where a round is; about to evaluate, "evaluate" after a round
               \* of its own and "reuse" without one
    round,     \* rounds begun
    remembers, \* the graph's state names a repair
    gate,      \* the outcome of each gate in this round
    report,    \* 05_gate_report.yaml: none, passed or failed
    todo,      \* checks of this round that are not requested yet
    current,   \* the check being executed
    outcome,   \* what its execution found
    asked,     \* the round of the last tool_request.yaml of each check
    result,    \* the tool_result.yaml of each check
    produced,  \* checks whose own evidence file exists
    summary,   \* browser_summary.json of each check: none, passed or failed
    asset,     \* the image files that exist
    server,    \* the server of the current check: none, up or down
    verdict,   \* 07_goal_satisfaction.yaml
    citesDisk, \* that report cites the gate report and the results as they are
    cites,     \* the results it cites, while that is so
    (* history *)
    changed,   \* the last round before a repair changed the project; 0 before any
    broken,    \* the graph was killed or raised: it may have forgotten a repair, and may
               \* dispatch tasks again
    orphan,    \* a server of a killed round still has the port
    foreign,   \* such a server answers for the page of the current check
    kills

goal == <<verdict, cites, citesDisk>>
files == <<report, asked, result, produced, summary, asset, goal>>
actor == <<by, remembers>>
edits == <<changed, broken>>
history == <<edits, orphan, foreign, kills>>
vvars == <<actor, pc, round, gate, todo, current, outcome, server, files, history>>

NoCheck == "no check"

Init ==
    /\ by = "none" /\ remembers = FALSE /\ pc = "idle" /\ round = 0
    /\ gate = [g \in Gates |-> "none"] /\ report = "none"
    /\ todo = {} /\ current = NoCheck /\ outcome = NoResult
    /\ asked = [c \in Checks |-> 0] /\ result = [c \in Checks |-> NoResult]
    /\ produced = {} /\ summary = [c \in Checks |-> "none"]
    /\ asset \in SUBSET ImageChecks
    /\ server = "none" /\ verdict = "none" /\ cites = {} /\ citesDisk = FALSE
    /\ changed = 0 /\ broken = FALSE
    /\ orphan = FALSE /\ foreign = FALSE /\ kills = 0

-----------------------------------------------------------------------------
(* The graph, before and between its rounds. *)

(* A result belongs to the last request of its check. *)
Answered(c) == result[c].round = asked[c]

(* _validate_resume_artifacts: no artifact cites another that was rewritten *)
(* since; a result that was never written cites nothing.                   *)
Intact ==
    /\ \A c \in Checks : result[c].status = "none" \/ Answered(c)
    /\ verdict = "none" \/ citesDisk

(* `run`, or a `resume` that is not refused.  It goes on where the         *)
(* checkpoint says: before the gates, with an evaluation it has written,   *)
(* or after it.                                                            *)
Enter ==
    /\ by = "none" /\ Intact
    /\ by' = "graph"
    /\ \/ pc' = "begin"
       \/ pc' = "reuse" /\ verdict # "none"
       \/ pc' = "settle" /\ report # "none"
    /\ UNCHANGED <<remembers, round, gate, todo, current, outcome, server, files, history>>

(* repair_failure: a worker changes the project, or the result of an        *)
(* earlier repair is taken; either way the state names a repair.           *)
Repair ==
    /\ by = "graph" /\ pc = "settle"
    /\ pc' = "begin" /\ remembers' = TRUE /\ changed' \in {changed, round}
    /\ UNCHANGED <<by, round, gate, todo, current, outcome, server, files, broken, orphan, foreign,
                   kills>>

Leave ==
    /\ by = "graph" /\ pc = "settle"
    /\ by' = "none" /\ pc' = "idle"
    /\ UNCHANGED <<remembers, round, gate, todo, current, outcome, server, files, history>>

-----------------------------------------------------------------------------
(* The quality gates, and their report. *)

(* Mutant of ReusesReport: the report of before a repair is taken. *)
ReusesAnyReport == report # "none"

(* run_quality_gates_node *)
ReusesReport == report # "none" /\ ~remembers

ReuseReport ==
    /\ by = "graph" /\ pc = "begin" /\ ReusesReport
    /\ pc' = IF report = "passed" THEN "reuse" ELSE "settle"
    /\ UNCHANGED <<actor, round, gate, todo, current, outcome, server, files, history>>

(* run_gates, of the graph or of `verify`. *)
BeginRound ==
    /\ round < MaxRounds
    /\ \/ by = "graph" /\ pc = "begin" /\ ~ReusesReport /\ UNCHANGED by
       \/ by = "none" /\ by' = "command"
    /\ pc' = "gates" /\ round' = round + 1
    /\ gate' = [g \in Gates |-> "none"]
    /\ UNCHANGED <<remembers, todo, current, outcome, server, files, history>>

(* rerun-tool-checks *)
RerunChecks ==
    /\ by = "none" /\ round < MaxRounds
    /\ by' = "command" /\ pc' = "checks" /\ round' = round + 1 /\ todo' = Checks
    /\ UNCHANGED <<remembers, gate, current, outcome, server, files, history>>

(* An executable that is not found is a failed gate. *)
RunGate(g) ==
    /\ pc = "gates" /\ gate[g] = "none"
    /\ \E r \in GateResults \ {"none"} : gate' = [gate EXCEPT ![g] = r]
    /\ UNCHANGED <<actor, pc, round, todo, current, outcome, server, files, history>>

RequiredPassed == \A g \in RequiredGates : gate[g] = "passed"

(* The report is written before the tool checks, which run whatever it says. *)
WriteGateReport ==
    /\ pc = "gates" /\ \A g \in Gates : gate[g] # "none"
    /\ report' = IF RequiredPassed THEN "passed" ELSE "failed"
    /\ cites' = {} /\ citesDisk' = FALSE
    /\ pc' = "checks" /\ todo' = Checks
    /\ UNCHANGED <<actor, round, gate, current, outcome, server, asked, result, produced, summary,
                   asset, verdict, history>>

-----------------------------------------------------------------------------
(* A tool check: request, execution, result. *)

(* The configured checks in some fixed order, then the implicit ones. *)
NextCheck ==
    CHOOSE c \in todo : c \in Configured \/ todo \cap Configured = {}

(* Mutant of RequestCheck: the request counts the next round. *)
RequestAhead(c) ==
    /\ pc = "checks" /\ todo # {} /\ c = NextCheck
    /\ asked' = [asked EXCEPT ![c] = round + 1]
    /\ todo' = todo \ {c} /\ current' = c /\ pc' = "execute"
    /\ UNCHANGED <<actor, round, gate, outcome, server, report, result, produced, summary, asset,
                   goal, history>>

RequestCheck(c) ==
    /\ pc = "checks" /\ todo # {} /\ c = NextCheck
    /\ asked' = [asked EXCEPT ![c] = round]
    /\ todo' = todo \ {c} /\ current' = c /\ pc' = "execute"
    /\ UNCHANGED <<actor, round, gate, outcome, server, report, result, produced, summary, asset,
                   goal, history>>

Executing(kind) == pc = "execute" /\ Kind(current) = kind

Found(status, human) ==
    outcome' = [status |-> status, human |-> human, round |-> asked[current]]

(* The execution is over; what it found is recorded next. *)
Conclude(status, human) ==
    /\ Found(status, human) /\ pc' = "record"
    /\ UNCHANGED <<actor, round, gate, todo, current, report, asked, result, goal, edits,
                   orphan, kills>>

SkipUnsupported ==
    /\ Executing("unsupported") /\ Conclude("skipped", FALSE)
    /\ UNCHANGED <<produced, summary, asset, server, foreign>>

FailEmptyCommand ==
    /\ Executing("empty") /\ Conclude("failed", FALSE)
    /\ UNCHANGED <<produced, summary, asset, server, foreign>>

(* The command may leave its evidence file whatever its outcome; a timeout  *)
(* and an executable that is not found are failures.                       *)
RunCommand ==
    /\ Executing("command")
    /\ \E status \in {"passed", "failed"} : Conclude(status, FALSE)
    /\ produced' \in {produced, produced \cup ({current} \cap WithEvidence)}
    /\ UNCHANGED <<summary, asset, server, foreign>>

(* No image is generated: the file is there, or a person is asked for it.   *)
CheckImage ==
    /\ Executing("image")
    /\ IF current \in asset THEN Conclude("passed", FALSE) ELSE Conclude("skipped", TRUE)
    /\ UNCHANGED <<produced, summary, asset, server, foreign>>

ProvideImage ==
    /\ \E c \in ImageChecks \ asset : asset' = asset \cup {c}
    /\ UNCHANGED <<actor, pc, round, gate, todo, current, outcome, server, report, asked, result,
                   produced, summary, goal, history>>

-----------------------------------------------------------------------------
(* The browser runner. *)

MissTarget ==
    /\ Executing("browser") /\ current \notin WithTarget /\ Conclude("failed", FALSE)
    /\ UNCHANGED <<produced, summary, asset, server, foreign>>

(* A page without a server of its own is looked at at once.  A server       *)
(* cannot have a port that is taken; it ends.                              *)
StartServer ==
    /\ Executing("browser") /\ current \in WithTarget
    /\ server' = IF current \notin WithServer THEN "none" ELSE IF orphan THEN "down" ELSE "up"
    /\ pc' = IF current \in WithServer THEN "ready" ELSE "smoke"
    /\ UNCHANGED <<actor, round, gate, todo, current, outcome, files, history>>

(* An exception or a kill ends the process.  The checkpoint the graph is    *)
(* resumed from may be of before a repair.                                 *)
Stop ==
    /\ by' = "none" /\ pc' = "idle"
    /\ remembers' \in (IF by = "graph" THEN {FALSE, remembers} ELSE {remembers})
    /\ broken' = (broken \/ by = "graph")
    /\ current' = NoCheck /\ outcome' = NoResult /\ todo' = {}

(* Popen does not find the executable: the exception leaves the node. *)
MissServer ==
    /\ Executing("browser") /\ current \in WithTarget \cap WithServer
    /\ Stop
    /\ UNCHANGED <<round, gate, server, files, changed, orphan, foreign, kills>>

(* A server may end by itself. *)
ServerEnds ==
    /\ server = "up" /\ server' = "down"
    /\ UNCHANGED <<actor, pc, round, gate, todo, current, outcome, files, history>>

(* _wait_for_url: whoever has the port answers. *)
Answer ==
    /\ pc = "ready" /\ (server = "up" \/ orphan)
    /\ pc' = "smoke"
    /\ foreign' = (server # "up")
    /\ UNCHANGED <<actor, round, gate, todo, current, outcome, server, files, edits, orphan,
                   kills>>

(* Mutant of GiveUp: the early return is outside of the try. *)
GiveUpAtOnce ==
    /\ pc = "ready" /\ Conclude("failed", FALSE)
    /\ UNCHANGED <<produced, summary, asset, server, foreign>>

(* Mutant of GiveUp: the wait has no deadline. *)
NeverGiveUp == pc = "ready" /\ UNCHANGED vvars

(* The deadline passes, also when a slow server comes up later. *)
GiveUp ==
    /\ pc = "ready"
    /\ Found("failed", FALSE) /\ pc' = "stop"
    /\ UNCHANGED <<actor, round, gate, todo, current, server, files, history>>

(* The node script of the runner writes its summary and exits with it.      *)
FinishScript(s) ==
    /\ Found(s, FALSE)
    /\ summary' = [summary EXCEPT ![current] = s]

(* The script dies before it writes one: a summary of an earlier smoke test *)
(* is still there, and has the last word on the status.                    *)
DieInScript ==
    /\ Found(IF summary[current] = "none" THEN "failed" ELSE summary[current], FALSE)
    /\ UNCHANGED summary

Smoke ==
    /\ pc = "smoke" /\ pc' = "stop"
    /\ (\E s \in {"passed", "failed"} : FinishScript(s)) \/ DieInScript
    /\ UNCHANGED <<actor, round, gate, todo, current, server, report, asked, result, produced,
                   asset, goal, edits, orphan, foreign, kills>>

(* node runs into its timeout, perhaps with its summary written, or is not  *)
(* installed: the summary is not read.                                     *)
SmokeFails ==
    /\ pc = "smoke" /\ pc' = "stop"
    /\ Found("failed", FALSE)
    /\ \E s \in {summary[current], "passed", "failed"} : summary' = [summary EXCEPT ![current] = s]
    /\ UNCHANGED <<actor, round, gate, todo, current, server, report, asked, result, produced,
                   asset, goal, edits, orphan, foreign, kills>>

(* Mutant of StopServer: a server that ignores the request to end stays. *)
StopPolitely ==
    /\ pc = "stop" /\ pc' = "record"
    /\ server' = "none" /\ foreign' = FALSE /\ orphan' \in {orphan, orphan \/ server = "up"}
    /\ UNCHANGED <<actor, round, gate, todo, current, outcome, files, edits, kills>>

(* finally: terminate, and kill what does not end within five seconds.      *)
(* Both reach the process that was started, which is the server here, and   *)
(* not what a wrapper started in its turn.                                 *)
StopServer ==
    /\ pc = "stop" /\ pc' = "record"
    /\ server' = "none" /\ foreign' = FALSE
    /\ produced' \in {produced, produced \cup ({current} \cap WithEvidence)}
    /\ UNCHANGED <<actor, round, gate, todo, current, outcome, report, asked, result, summary,
                   asset, goal, edits, orphan, kills>>

-----------------------------------------------------------------------------
(* The result, and the evaluation of the goal. *)

RecordResult ==
    /\ pc = "record"
    /\ result' = [result EXCEPT ![current] = outcome]
    /\ \/ current \notin cites /\ UNCHANGED <<cites, citesDisk>>
       \/ current \in cites /\ cites' = {} /\ citesDisk' = FALSE
    /\ pc' = "checks" /\ current' = NoCheck /\ outcome' = NoResult
    /\ UNCHANGED <<actor, round, gate, todo, server, report, asked, produced, summary, asset,
                   verdict, history>>

(* The graph goes on to the evaluation when the gates passed. *)
FinishChecks ==
    /\ pc = "checks" /\ todo = {}
    /\ by' = IF by = "graph" THEN by ELSE "none"
    /\ pc' = IF by # "graph" THEN "idle" ELSE IF report = "passed" THEN "evaluate" ELSE "settle"
    /\ UNCHANGED <<remembers, round, gate, todo, current, outcome, server, files, history>>

(* Planned evidence that does not exist. *)
Missing(criterion) ==
    \/ Tool(criterion) \in {"quality_gate", "quality_gate+tool_check"} /\ report = "none"
    \/ \E c \in Cited(criterion) :
          result[c].status = "none" \/ (c \in WithEvidence /\ c \notin produced)

NeedsHuman(criterion) == \E c \in Cited(criterion) : Required(c) /\ result[c].human

Failing(criterion) ==
    \E c \in Cited(criterion) : Required(c) /\ result[c].status # "passed"

(* Mutant of CriterionStatus: results that exist are taken for results that passed. *)
CriterionStatusByPresence(criterion) ==
    IF Tool(criterion) = "manual" THEN "uncertain"
    ELSE IF Missing(criterion) \/ (Tool(criterion) # "image_generation" /\ report # "passed")
    THEN "not_satisfied"
    ELSE IF NeedsHuman(criterion) THEN "uncertain" ELSE "satisfied"

CriterionStatus(criterion) ==
    IF Tool(criterion) = "manual" THEN "uncertain"
    ELSE IF Missing(criterion) \/ (Tool(criterion) # "image_generation" /\ report # "passed")
    THEN "not_satisfied"
    ELSE IF NeedsHuman(criterion) THEN "uncertain"
    ELSE IF Failing(criterion) THEN "not_satisfied" ELSE "satisfied"

(* Criteria that are not required have no say. *)
Verdict ==
    LET required == {CriterionStatus(criterion) : criterion \in RequiredCriteria}
    IN  IF "not_satisfied" \in required THEN "not_satisfied"
        ELSE IF "uncertain" \in required THEN "uncertain" ELSE "satisfied"

(* write_goal_satisfaction *)
WriteEvaluation ==
    /\ verdict' = Verdict /\ citesDisk' = TRUE
    /\ cites' = {c \in Checks : /\ result[c].status # "none"
                               /\ \E criterion \in Criteria : c \in Cited(criterion)}

(* evaluate_goal_satisfaction_node *)
Evaluate ==
    /\ pc \in {"evaluate", "reuse"} /\ (verdict = "none" \/ remembers)
    /\ WriteEvaluation /\ pc' = "settle"
    /\ UNCHANGED <<actor, round, gate, todo, current, outcome, server, report, asked, result,
                   produced, summary, asset, history>>

(* As long as no repair is remembered an evaluation that exists is taken.  *)
ReuseVerdict ==
    /\ pc \in {"evaluate", "reuse"} /\ verdict # "none" /\ ~remembers
    /\ pc' = "settle"
    /\ UNCHANGED <<actor, round, gate, todo, current, outcome, server, files, history>>

(* rerun-satisfaction: what is on disk is evaluated, in whatever order it   *)
(* came there, also while a run is at work.                                *)
RerunSatisfaction ==
    /\ by \in {"none", "graph"} /\ report # "none"
    /\ WriteEvaluation
    /\ UNCHANGED <<actor, pc, round, gate, todo, current, outcome, server, report, asked, result,
                   produced, summary, asset, history>>

(* The process is killed: the server it started is not. *)
Kill ==
    /\ by # "none" /\ kills < MaxKills
    /\ kills' = kills + 1 /\ orphan' = (orphan \/ server = "up")
    /\ Stop /\ server' = "none" /\ foreign' = FALSE
    /\ UNCHANGED <<round, gate, files, changed>>

-----------------------------------------------------------------------------
RunBrowser ==
    \/ MissTarget \/ StartServer \/ MissServer \/ Answer \/ GiveUp
    \/ Smoke \/ SmokeFails \/ StopServer

Step ==
    \/ (\E g \in Gates : RunGate(g)) \/ WriteGateReport
    \/ (\E c \in Checks : RequestCheck(c))
    \/ SkipUnsupported \/ FailEmptyCommand \/ RunCommand \/ CheckImage \/ RunBrowser
    \/ RecordResult \/ FinishChecks \/ Evaluate \/ ReuseVerdict

Next ==
    \/ Step \/ Enter \/ ReuseReport \/ BeginRound \/ RerunChecks \/ Repair \/ Leave
    \/ RerunSatisfaction \/ ProvideImage \/ ServerEnds \/ Kill

Spec == Init /\ [][Next]_vvars

(* Every program a round starts has a timeout, so a round goes on. *)
FairSpec == Spec /\ WF_vvars(Step)

-----------------------------------------------------------------------------
(* Where the work on a round, or on an evaluation, is not over. *)
Working == {"execute", "ready", "smoke", "stop", "record"}
Begun == Working \cup {"checks", "evaluate"}

(* Every variable has its type. *)
TypeOK ==
    /\ by \in {"none", "graph", "command"} /\ remembers \in BOOLEAN
    /\ pc \in Begun \cup {"idle", "begin", "gates", "reuse", "settle"}
    /\ round \in 0..MaxRounds /\ gate \in [Gates -> GateResults]
    /\ report \in {"none", "passed", "failed"}
    /\ todo \subseteq Checks /\ current \in Checks \cup {NoCheck} /\ outcome \in ToolResult
    /\ asked \in [Checks -> 0..MaxRounds] /\ result \in [Checks -> ToolResult]
    /\ produced \subseteq WithEvidence /\ summary \in [Checks -> {"none", "passed", "failed"}]
    /\ asset \subseteq ImageChecks /\ server \in {"none", "up", "down"}
    /\ verdict \in Verdicts /\ cites \subseteq Checks /\ citesDisk \in BOOLEAN
    /\ changed \in 0..MaxRounds /\ broken \in BOOLEAN
    /\ orphan \in BOOLEAN /\ foreign \in BOOLEAN
    /\ kills \in 0..MaxKills

(* A check leaves no server behind, on whichever way it ends: timeout of    *)
(* the wait, of node, node missing, or the smoke test done                  *)
(* (browser_validation_runner.py, the finally of run).                     *)
NoServerLeft == server # "none" => pc \in {"ready", "smoke", "stop"}

(* As long as no process was killed, the page of a browser check is that of *)
(* the server the check started, not of one of an earlier check or round.   *)
OwnPage == kills = 0 => ~foreign /\ ~orphan

(* The graph evaluates what belongs together (nodes/verify.py,             *)
(* run_service.py). After a round of its own every check has an answer of  *)
(* this round to a request of this round, and the gates passed in it.      *)
(* Without one no request is newer than its result, because a resume looks *)
(* at what the results cite, and they are of after the last repair, unless *)
(* the graph was killed or raised, which can make it forget one.           *)
EvaluatedFresh ==
    /\ pc = "evaluate" =>
          /\ RequiredPassed
          /\ \A c \in Checks : asked[c] = round /\ result[c].round = round
    /\ pc = "reuse" =>
          \A c \in Checks : result[c].status # "none" =>
             Answered(c) /\ (~broken => result[c].round > changed)

(* An evaluation is written that says something new. *)
Renewed == verdict' # verdict \/ (citesDisk' /\ ~citesDisk)

(* What shows a criterion: it is not manual, the gates passed unless it is  *)
(* about an image, and every required check it cites passed and has left    *)
(* its evidence and its image. Where the graph evaluates it, each of these  *)
(* results moreover answers the last request of its check, was found after  *)
(* the last change of the project unless the graph was killed or raised,    *)
(* and is what the summary says, be it of an earlier smoke test.            *)
Shown(criterion) ==
    /\ criterion \in Automated
    /\ criterion \notin AboutImages => report = "passed"
    /\ \A c \in Cited(criterion) : Required(c) =>
          /\ result[c].status = "passed"
          /\ c \in WithEvidence => c \in produced
          /\ Kind(c) = "image" => c \in asset
          /\ pc \in {"evaluate", "reuse"} =>
               /\ Answered(c) /\ (~broken => result[c].round > changed)
               /\ Kind(c) = "browser" => summary[c] = "passed"

(* When a goal is called satisfied, by the graph or by the web console,    *)
(* every required criterion is shown by what is on disk (artifact_writer.py *)
(* over the results of tool_verification_service.py, whatever of them was   *)
(* reused).                                                                *)
SatisfiedIsShown ==
    [][Renewed /\ verdict' = "satisfied" =>
          \A criterion \in RequiredCriteria : Shown(criterion)]_vvars

(* A round, and an evaluation, ends. *)
Terminates == (pc \in Begun \cup {"gates", "reuse"}) ~> (pc \in {"idle", "settle"})
=============================================================================
