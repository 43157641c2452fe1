------------------------- MODULE VerificationProofs -------------------------
(***************************************************************************)
(* What verification shows, for any gates, checks and criteria and any     *)
(* number of rounds and kills.  The properties are about results that were *)
(* recorded many steps, and perhaps processes, before the evaluation.  So   *)
(* Inv says of every check that is settled in this round that its result is *)
(* of this round (Fresh), of every other that it is of an earlier one       *)
(* (Older), and of every result that answers the last request of its check  *)
(* that it rests on what is on disk (Grounded); and it says when the        *)
(* results on disk are those of the last requests (Answering) and of after  *)
(* the last repair (Dated), which is what an evaluation without a round     *)
(* depends on.                                                             *)
(***************************************************************************)
EXTENDS Verification, TLAPS

(* Who is where. *)
Control ==
    /\ pc = "idle" <=> by = "none"
    /\ pc \in {"begin", "evaluate", "reuse", "settle"} => by = "graph"
    /\ pc = "evaluate" => todo = {} /\ report = "passed"

(* The check being executed is one, and was requested in this round. *)
Busy == pc \in Working => current \in Checks \ todo /\ asked[current] = round

(* Only a browser check waits for a page or looks at it. *)
InBrowser == pc \in {"ready", "smoke"} => Kind(current) = "browser"

(* The result of c in this round is on disk. *)
Settled(c) == pc \in Begun /\ c \notin todo /\ (pc \in Working => c # current)

InRound == pc \in Begun \cup {"gates"}

(* What is not settled in this round has a result of an earlier one.  A     *)
(* repair is of before the round.                                          *)
Older ==
    /\ \A c \in Checks : result[c].round <= round
    /\ InRound => \A c \in Checks : Settled(c) \/ result[c].round < round
    /\ changed <= round
    /\ InRound => changed < round

Fresh ==
    /\ \A c \in Checks : Settled(c) => asked[c] = round /\ result[c].round = round
    /\ pc \in {"stop", "record"} => outcome.round = round

(* Every result that exists answers the last request of its check. *)
AllAnswered == \A c \in Checks : result[c].status = "none" \/ Answered(c)

Answering == pc \in {"begin", "reuse", "settle"} => AllAnswered

(* Every result that exists is of after the last repair. *)
Recent == \A c \in Checks : result[c].status = "none" \/ result[c].round > changed

(* Where a repair is not verified yet; the graph remembers it there. *)
Renewing == by = "graph" /\ remembers /\ pc \in (Begun \cup {"begin", "gates"}) \ {"evaluate"}

Dated == broken \/ Recent \/ Renewing

(* A status of c that rests on what is on disk. *)
Pictured(status, c) == status = "passed" /\ Kind(c) = "image" => c \in asset

Rests(status, c) ==
    /\ Pictured(status, c)
    /\ status = "passed" /\ Kind(c) = "browser" => summary[c] = "passed"

Grounded ==
    /\ \A c \in Checks : Pictured(result[c].status, c)
    /\ \A c \in Checks : Answered(c) => Rests(result[c].status, c)
    /\ pc \in {"stop", "record"} => Rests(outcome.status, current)

(* The report the graph finds after its round is that of its gates. *)
Reported == by = "graph" /\ pc \in Begun => (report = "passed" <=> RequiredPassed)

Inv ==
    /\ TypeOK /\ Control /\ Busy /\ InBrowser /\ Older /\ Fresh /\ Answering /\ Dated
    /\ Grounded /\ Reported

-----------------------------------------------------------------------------
(* Initial states. *)

(* Every variable has its type at first. *)
LEMMA TypeInit == Init => TypeOK
<1> SUFFICES ASSUME Init PROVE TypeOK
  OBVIOUS
<1>1. NoResult \in ToolResult
  BY BoundAssumption DEF NoResult, ToolResult
<1>2. /\ remembers \in BOOLEAN /\ citesDisk \in BOOLEAN /\ broken \in BOOLEAN
      /\ orphan \in BOOLEAN /\ foreign \in BOOLEAN
  BY Zenon DEF Init
<1>3. /\ asked \in [Checks -> 0..MaxRounds] /\ result \in [Checks -> ToolResult]
      /\ round \in 0..MaxRounds /\ changed \in 0..MaxRounds /\ kills \in 0..MaxKills
      /\ outcome \in ToolResult
  BY <1>1, BoundAssumption DEF Init
<1>4. /\ gate \in [Gates -> GateResults] /\ summary \in [Checks -> {"none", "passed", "failed"}]
      /\ verdict \in Verdicts
  BY DEF Init, GateResults, Verdicts
<1> QED
  BY <1>2, <1>3, <1>4 DEF Init, TypeOK

(* The invariant holds at first: nothing has begun. *)
LEMMA InvInit == Init => Inv
<1> SUFFICES ASSUME Init PROVE Inv
  OBVIOUS
<1>1. /\ pc = "idle" /\ by = "none" /\ round = 0 /\ changed = 0
      /\ \A c \in Checks : result[c] = NoResult
  BY DEF Init
<1>2. Control /\ Busy /\ InBrowser /\ Fresh /\ Answering /\ Reported
  BY <1>1 DEF Control, Busy, InBrowser, Fresh, Answering, Reported, Settled, Working, Begun
<1>3. Older
  BY <1>1 DEF Older, InRound, Settled, NoResult, Begun, Working
<1>4. Recent /\ Grounded
  BY <1>1 DEF Recent, Grounded, Pictured, Rests, NoResult
<1> QED
  BY TypeInit, <1>2, <1>3, <1>4 DEF Inv, Dated

-----------------------------------------------------------------------------
(* The kinds of steps, and what each kind leaves alone. *)

(* Steps within the execution of a check. *)
Executions ==
    \/ SkipUnsupported \/ FailEmptyCommand \/ RunCommand \/ CheckImage \/ MissTarget
    \/ StartServer \/ Answer \/ GiveUp \/ Smoke \/ SmokeFails \/ StopServer

(* Steps of the graph outside of a round. *)
Moves == Enter \/ Repair \/ Leave \/ ReuseReport \/ Evaluate \/ ReuseVerdict

(* Ends of a process. *)
Halts == MissServer \/ Kill

(* Steps of others. *)
Others == ProvideImage \/ ServerEnds \/ RerunSatisfaction \/ UNCHANGED vvars

(* Every step is of one of these kinds. *)
LEMMA StepKinds ==
    ASSUME [Next]_vvars
    PROVE  \/ Executions \/ Moves \/ Halts \/ Others \/ BeginRound \/ RerunChecks
           \/ (\E g \in Gates : RunGate(g)) \/ WriteGateReport
           \/ (\E c \in Checks : RequestCheck(c)) \/ RecordResult \/ FinishChecks
  BY DEF Next, Step, RunBrowser, Executions, Moves, Halts, Others

(* The steps of an execution stay within it. *)
LEMMA ExecutionsKeep ==
    ASSUME Executions
    PROVE  /\ pc \in Working /\ pc' \in Working
           /\ UNCHANGED <<by, remembers, round, gate, todo, current, report, asked, result, goal,
                          changed, broken>>
  BY DEF Executions, SkipUnsupported, FailEmptyCommand, RunCommand, CheckImage, MissTarget,
         StartServer, Answer, GiveUp, Smoke, SmokeFails, StopServer, Executing, Conclude, files,
         history, edits, actor, Working

(* The graph leaves the results alone outside of its rounds. *)
LEMMA MovesKeep ==
    ASSUME Moves
    PROVE  /\ Control => pc \in {"idle", "begin", "settle", "evaluate", "reuse"}
           /\ pc' \in {"idle", "begin", "settle", "reuse"}
           /\ UNCHANGED <<round, gate, todo, current, outcome, server, report, asked, result,
                          produced, summary, asset, broken, orphan, foreign, kills>>
  BY DEF Moves, Enter, Repair, Leave, ReuseReport, Evaluate, ReuseVerdict, files, history, edits,
     Control

(* The end of a process leaves the disk as it is. *)
LEMMA HaltsKeep ==
    ASSUME Halts
    PROVE  /\ pc' = "idle" /\ by' = "none"
           /\ UNCHANGED <<round, gate, files, changed>>
  BY DEF Halts, MissServer, Kill, Stop

(* Others do not write results. *)
LEMMA OthersKeep ==
    ASSUME Others
    PROVE  /\ UNCHANGED <<by, remembers, pc, round, gate, todo, current, outcome, report, asked,
                          result, produced, summary, changed, broken, kills, orphan,
                          foreign>>
           /\ asset \subseteq asset'
  BY DEF Others, ProvideImage, ServerEnds, RerunSatisfaction, vvars, files, history, edits, actor

-----------------------------------------------------------------------------
(* Types. *)

(* What the execution of a check finds is a result of its request. *)
LEMMA FoundType ==
    ASSUME TypeOK, current \in Checks, NEW status \in CheckStatuses, NEW human \in BOOLEAN,
           Found(status, human)
    PROVE  outcome' \in ToolResult
  BY DEF Found, TypeOK, ToolResult

(* An execution keeps the type of every variable. *)
LEMMA TypeExecutions == TypeOK /\ Busy /\ Executions => TypeOK'
<1> SUFFICES ASSUME TypeOK, Busy, Executions PROVE TypeOK'
  OBVIOUS
<1>1. /\ current \in Checks /\ pc' \in Working
      /\ UNCHANGED <<by, remembers, round, gate, todo, current, report, asked, result, goal,
                     changed, broken>>
  BY ExecutionsKeep DEF Busy
<1>2. outcome' \in ToolResult
  <2>1. CASE StartServer \/ Answer \/ StopServer
    BY <2>1 DEF StartServer, Answer, StopServer, TypeOK
  <2>2. CASE ~(StartServer \/ Answer \/ StopServer)
    <3>1. \E status \in CheckStatuses, human \in BOOLEAN : Found(status, human)
      BY <1>1, <2>2 DEF Executions, SkipUnsupported, FailEmptyCommand, RunCommand, CheckImage,
         MissTarget, GiveUp, Smoke, SmokeFails, FinishScript, DieInScript, Conclude, CheckStatuses,
         TypeOK
    <3> QED
      BY <1>1, <3>1, FoundType
  <2> QED
    BY <2>1, <2>2
<1>3. produced' \subseteq WithEvidence /\ asset' = asset /\ kills' = kills
  BY DEF Executions, SkipUnsupported, FailEmptyCommand, RunCommand, CheckImage, MissTarget,
     StartServer, Answer, GiveUp, Smoke, SmokeFails, StopServer, Conclude, files, history, TypeOK
<1>4. summary' \in [Checks -> {"none", "passed", "failed"}]
  BY <1>1 DEF Executions, SkipUnsupported, FailEmptyCommand, RunCommand, CheckImage, MissTarget,
     StartServer, Answer, GiveUp, Smoke, SmokeFails, FinishScript, DieInScript, StopServer, Conclude,
     files, history, TypeOK
<1>5. server' \in {"none", "up", "down"} /\ orphan' = orphan
  BY DEF Executions, SkipUnsupported, FailEmptyCommand, RunCommand, CheckImage, MissTarget,
     StartServer, Answer, GiveUp, Smoke, SmokeFails, StopServer, Conclude, files, history, TypeOK
<1>6. foreign' \in BOOLEAN
  <2>1. CASE Answer
    BY <2>1, Zenon DEF Answer
  <2>2. CASE StopServer
    BY <2>2, Zenon DEF StopServer
  <2>3. CASE ~Answer /\ ~StopServer
    <3>1. foreign' = foreign
      BY <2>3 DEF Executions, SkipUnsupported, FailEmptyCommand, RunCommand, CheckImage, MissTarget,
         StartServer, GiveUp, Smoke, SmokeFails, Conclude, history
    <3> QED
      BY <3>1 DEF TypeOK
  <2> QED
    BY <2>1, <2>2, <2>3
<1> QED
  BY <1>1, <1>2, <1>3, <1>4, <1>5, <1>6 DEF TypeOK, Begun, goal

(* So does what the graph does outside of its rounds. *)
LEMMA TypeMoves == TypeOK /\ Moves => TypeOK'
<1> SUFFICES ASSUME TypeOK, Moves PROVE TypeOK'
  OBVIOUS
<1>1. /\ pc' \in {"idle", "begin", "settle", "reuse"}
      /\ UNCHANGED <<round, gate, todo, current, outcome, server, report, asked, result,
                     produced, summary, asset, broken, orphan, foreign, kills>>
  BY MovesKeep
<1>2. by' \in {"none", "graph", "command"} /\ changed' \in 0..MaxRounds
  BY DEF Moves, Enter, Repair, Leave, ReuseReport, Evaluate, ReuseVerdict, history, edits, actor,
     TypeOK
<1>3. remembers' \in BOOLEAN
  <2>1. CASE Repair
    BY <2>1, Zenon DEF Repair
  <2>2. CASE ~Repair
    <3>1. remembers' = remembers
      BY <2>2 DEF Moves, Enter, Leave, ReuseReport, Evaluate, ReuseVerdict, actor
    <3> QED
      BY <3>1 DEF TypeOK
  <2> QED
    BY <2>1, <2>2
<1>4. verdict' \in Verdicts /\ cites' \subseteq Checks
  BY DEF Moves, Enter, Repair, Leave, ReuseReport, Evaluate, ReuseVerdict, WriteEvaluation, Verdict,
     Verdicts, files, goal, TypeOK
<1>5. citesDisk' \in BOOLEAN
  <2>1. CASE Evaluate
    BY <2>1, Zenon DEF Evaluate, WriteEvaluation
  <2>2. CASE ~Evaluate
    <3>1. citesDisk' = citesDisk
      BY <2>2 DEF Moves, Enter, Repair, Leave, ReuseReport, ReuseVerdict, files, goal
    <3> QED
      BY <3>1 DEF TypeOK
  <2> QED
    BY <2>1, <2>2
<1> QED
  BY <1>1, <1>2, <1>3, <1>4, <1>5 DEF TypeOK

(* And the end of a process. *)
LEMMA TypeHalts == TypeOK /\ Halts => TypeOK'
<1> SUFFICES ASSUME TypeOK, Halts PROVE TypeOK'
  OBVIOUS
<1>1. /\ pc' = "idle" /\ by' = "none"
      /\ UNCHANGED <<round, gate, files, changed>>
  BY HaltsKeep
<1>2. current' = NoCheck /\ outcome' = NoResult /\ todo' = {}
  BY DEF Halts, MissServer, Kill, Stop
<1>3. NoResult \in ToolResult
  BY BoundAssumption DEF NoResult, ToolResult
<1>4. server' \in {"none", "up", "down"} /\ kills' \in 0..MaxKills
  BY BoundAssumption DEF Halts, MissServer, Kill, TypeOK
<1>5. remembers' \in BOOLEAN
  <2>1. remembers' = FALSE \/ remembers' = remembers
    BY DEF Halts, MissServer, Kill, Stop
  <2> QED
    BY <2>1, Zenon DEF TypeOK
<1>6. broken' \in BOOLEAN /\ orphan' \in BOOLEAN /\ foreign' \in BOOLEAN
  BY Zenon DEF Halts, MissServer, Kill, Stop, TypeOK
<1> QED
  BY <1>1, <1>2, <1>3, <1>4, <1>5, <1>6 DEF TypeOK, files, goal

(* And what others do. *)
LEMMA TypeOthers == TypeOK /\ Others => TypeOK'
<1> SUFFICES ASSUME TypeOK, Others PROVE TypeOK'
  OBVIOUS
<1>1. UNCHANGED <<by, remembers, pc, round, gate, todo, current, outcome, report, asked, result,
                  produced, summary, changed, broken, kills, orphan, foreign>>
  BY OthersKeep
<1>2. asset' \subseteq ImageChecks /\ server' \in {"none", "up", "down"}
  BY DEF Others, ProvideImage, ServerEnds, RerunSatisfaction, vvars, files, TypeOK
<1>3. verdict' \in Verdicts /\ cites' \subseteq Checks
  BY DEF Others, ProvideImage, ServerEnds, RerunSatisfaction, WriteEvaluation, Verdict, Verdicts,
     vvars, files, goal, TypeOK
<1>4. citesDisk' \in BOOLEAN
  <2>1. CASE RerunSatisfaction
    BY <2>1, Zenon DEF RerunSatisfaction, WriteEvaluation
  <2>2. CASE ~RerunSatisfaction
    <3>1. citesDisk' = citesDisk
      BY <2>2 DEF Others, ProvideImage, ServerEnds, vvars, files, goal
    <3> QED
      BY <3>1 DEF TypeOK
  <2> QED
    BY <2>1, <2>2
<1> QED
  BY <1>1, <1>2, <1>3, <1>4 DEF TypeOK

(* A step keeps the type of every variable. *)
LEMMA TypeStep == TypeOK /\ Busy /\ [Next]_vvars => TypeOK'
<1> SUFFICES ASSUME TypeOK, Busy, [Next]_vvars PROVE TypeOK'
  OBVIOUS
<1> USE BoundAssumption
<1>1. CASE Executions
  BY <1>1, TypeExecutions
<1>2. CASE Moves
  BY <1>2, TypeMoves
<1>3. CASE Halts
  BY <1>3, TypeHalts
<1>4. CASE Others
  BY <1>4, TypeOthers
<1>5. CASE BeginRound
  BY <1>5 DEF BeginRound, files, goal, history, edits, TypeOK, GateResults
<1>6. CASE RerunChecks
  BY <1>6 DEF RerunChecks, files, goal, history, edits, TypeOK, Begun
<1>7. CASE \E g \in Gates : RunGate(g)
  BY <1>7 DEF RunGate, files, goal, history, edits, actor, TypeOK
<1>8. CASE WriteGateReport
  <2>1. citesDisk' \in BOOLEAN
    BY <1>8, Zenon DEF WriteGateReport
  <2> QED
    BY <1>8, <2>1 DEF WriteGateReport, history, edits, actor, TypeOK, Begun
<1>9. CASE \E c \in Checks : RequestCheck(c)
  BY <1>9 DEF RequestCheck, goal, history, edits, actor, TypeOK, Begun, Working
<1>10. CASE RecordResult
  <2>1. NoResult \in ToolResult
    BY DEF NoResult, ToolResult
  <2>2. citesDisk' \in BOOLEAN
    <3>1. citesDisk' = citesDisk \/ citesDisk' = FALSE
      BY <1>10 DEF RecordResult
    <3> QED
      BY <3>1, Zenon DEF TypeOK
  <2> QED
    BY <1>10, <2>1, <2>2 DEF RecordResult, history, edits, actor, TypeOK, Begun
<1>11. CASE FinishChecks
  BY <1>11 DEF FinishChecks, files, goal, history, edits, TypeOK, Begun
<1> QED
  BY <1>1, <1>2, <1>3, <1>4, <1>5, <1>6, <1>7, <1>8, <1>9, <1>10, <1>11, StepKinds

-----------------------------------------------------------------------------
(* The parts of the invariant. *)

(* A step keeps who is where. *)
LEMMA ControlStep == Inv /\ [Next]_vvars => Control'
<1> SUFFICES ASSUME Inv, [Next]_vvars PROVE Control'
  OBVIOUS
<1> USE DEF Inv, Control
<1>1. CASE Executions
  BY <1>1, ExecutionsKeep DEF Working
<1>2. CASE Moves
  BY <1>2 DEF Moves, Enter, Repair, Leave, ReuseReport, Evaluate, ReuseVerdict, actor
<1>3. CASE Halts
  BY <1>3, HaltsKeep
<1>4. CASE Others
  BY <1>4, OthersKeep
<1>5. CASE BeginRound \/ RerunChecks
  BY <1>5 DEF BeginRound, RerunChecks
<1>6. CASE (\E g \in Gates : RunGate(g)) \/ WriteGateReport \/ (\E c \in Checks : RequestCheck(c))
  BY <1>6 DEF RunGate, WriteGateReport, RequestCheck, actor
<1>7. CASE RecordResult \/ FinishChecks
  BY <1>7 DEF RecordResult, FinishChecks, actor, files
<1> QED
  BY <1>1, <1>2, <1>3, <1>4, <1>5, <1>6, <1>7, StepKinds

(* A step keeps the check that is being executed. *)
LEMMA BusyStep == Inv /\ [Next]_vvars => Busy'
<1> SUFFICES ASSUME Inv, [Next]_vvars PROVE Busy'
  OBVIOUS
<1> USE DEF Inv, Busy, Working
<1>1. CASE Executions
  BY <1>1, ExecutionsKeep
<1>2. CASE Moves
  BY <1>2, MovesKeep
<1>3. CASE Halts
  BY <1>3, HaltsKeep
<1>4. CASE Others
  BY <1>4, OthersKeep
<1>5. CASE BeginRound \/ RerunChecks \/ (\E g \in Gates : RunGate(g)) \/ WriteGateReport
  BY <1>5 DEF BeginRound, RerunChecks, RunGate, WriteGateReport
<1>6. CASE \E c \in Checks : RequestCheck(c)
  BY <1>6 DEF RequestCheck, TypeOK
<1>7. CASE RecordResult \/ FinishChecks
  BY <1>7 DEF RecordResult, FinishChecks
<1> QED
  BY <1>1, <1>2, <1>3, <1>4, <1>5, <1>6, <1>7, StepKinds

(* A step keeps a check that waits for a page a browser check. *)
LEMMA InBrowserStep == Inv /\ [Next]_vvars => InBrowser'
<1> SUFFICES ASSUME Inv, [Next]_vvars PROVE InBrowser'
  OBVIOUS
<1> USE DEF Inv, InBrowser
<1>1. CASE StartServer \/ Answer
  BY <1>1 DEF StartServer, Answer, Executing
<1>2. CASE Executions /\ ~StartServer /\ ~Answer
  BY <1>2 DEF Executions, SkipUnsupported, FailEmptyCommand, RunCommand, CheckImage, MissTarget,
     GiveUp, Smoke, SmokeFails, StopServer, Conclude
<1>3. CASE Moves \/ Halts
  BY <1>3, MovesKeep, HaltsKeep
<1>4. CASE Others
  BY <1>4, OthersKeep
<1>5. CASE ~Executions /\ ~Moves /\ ~Halts /\ ~Others
  BY <1>5, StepKinds DEF BeginRound, RerunChecks, RunGate, WriteGateReport, RequestCheck,
     RecordResult, FinishChecks
<1> QED
  BY <1>1, <1>2, <1>3, <1>4, <1>5

(* Nothing that is settled is taken back within the execution of a check.   *)
LEMMA SettledInExecution ==
    ASSUME Executions, NEW c \in Checks
    PROVE  Settled(c)' <=> Settled(c)
  BY ExecutionsKeep DEF Settled, Begun

(* What is not settled is of an earlier round. *)
LEMMA OlderStep == Inv /\ [Next]_vvars => Older'
<1> SUFFICES ASSUME Inv, [Next]_vvars PROVE Older'
  OBVIOUS
<1>1. CASE Executions
  BY <1>1, ExecutionsKeep, SettledInExecution DEF Inv, Older, InRound, Begun
<1>2. CASE Moves
  <2>1. pc' \notin Begun \cup {"gates"} /\ UNCHANGED <<round, result>>
    BY <1>2, MovesKeep DEF Begun, Working
  <2>2. changed' = changed \/ changed' = round
    BY <1>2 DEF Moves, Enter, Repair, Leave, ReuseReport, Evaluate, ReuseVerdict, history, edits
  <2> QED
    BY <2>1, <2>2 DEF Inv, TypeOK, Older, InRound
<1>3. CASE Halts
  BY <1>3, HaltsKeep DEF Inv, Older, InRound, Begun, Working, files
<1>4. CASE Others
  BY <1>4, OthersKeep DEF Inv, Older, InRound, Settled
<1>5. CASE BeginRound \/ RerunChecks
  <2>1. round' = round + 1 /\ UNCHANGED <<result, changed>>
    BY <1>5 DEF BeginRound, RerunChecks, files, history, edits
  <2>2. \A c \in Checks : result'[c].round < round'
    BY <2>1 DEF Inv, Older, TypeOK, ToolResult
  <2>3. changed' < round'
    BY <2>1 DEF Inv, Older, TypeOK
  <2> QED
    BY <2>1, <2>2, <2>3 DEF Inv, TypeOK, ToolResult, Older
<1>6. CASE (\E g \in Gates : RunGate(g)) \/ WriteGateReport
  <2>1. pc = "gates" /\ UNCHANGED <<round, result, changed>>
    BY <1>6 DEF RunGate, WriteGateReport, files, history, edits
  <2>2. \A c \in Checks : result[c].round < round
    BY <2>1 DEF Inv, Older, InRound, Settled, Begun, Working
  <2> QED
    BY <2>1, <2>2 DEF Inv, Older, InRound
<1>7. ASSUME NEW k \in Checks, RequestCheck(k) PROVE Older'
  <2>1. /\ pc = "checks" /\ pc' = "execute" /\ current' = k /\ k \in todo /\ todo' = todo \ {k}
        /\ UNCHANGED <<round, result, changed>>
    <3>1. k \in todo
      BY <1>7 DEF RequestCheck, NextCheck, Inv, TypeOK
    <3> QED
      BY <1>7, <3>1 DEF RequestCheck, history, edits
  <2>2. ASSUME NEW c \in Checks PROVE Settled(c)' \/ result'[c].round < round'
    BY <2>1, <2>2 DEF Inv, Older, InRound, Settled, Begun, Working
  <2> QED
    BY <2>1, <2>2 DEF Inv, Older, InRound, Begun, Working
<1>8. CASE RecordResult
  <2>1. /\ pc = "record" /\ pc' = "checks" /\ current \in Checks
        /\ result' = [result EXCEPT ![current] = outcome] /\ outcome.round = round
        /\ UNCHANGED <<round, todo, changed>>
    BY <1>8 DEF RecordResult, history, edits, Inv, Busy, Fresh, Working
  <2>2. ASSUME NEW c \in Checks, c # current
        PROVE  result'[c] = result[c] /\ (Settled(c) => Settled(c)')
    BY <2>1, <2>2 DEF Settled, Begun, Working, Inv, TypeOK
  <2>3. ASSUME NEW c \in Checks, c = current PROVE result'[c] = outcome /\ Settled(c)'
    BY <2>1, <2>3 DEF Inv, TypeOK, Busy, Settled, Begun, Working
  <2>4. InRound /\ InRound'
    BY <2>1 DEF InRound, Begun, Working
  <2>5. ASSUME NEW c \in Checks
        PROVE  result'[c].round <= round' /\ (Settled(c)' \/ result'[c].round < round')
    BY <2>1, <2>2, <2>3, <2>4, <2>5 DEF Inv, Older, TypeOK
  <2> QED
    BY <2>1, <2>4, <2>5 DEF Inv, Older
<1>9. CASE FinishChecks
  <2>1. /\ pc = "checks" /\ pc' \in {"idle", "evaluate", "settle"} /\ todo = {}
        /\ UNCHANGED <<round, todo, current, result, changed>>
    BY <1>9 DEF FinishChecks, files, history, edits
  <2> QED
    BY <2>1 DEF Inv, Older, InRound, Settled, Begun, Working
<1> QED
  BY <1>1, <1>2, <1>3, <1>4, <1>5, <1>6, <1>7, <1>8, <1>9, StepKinds

(* Those steps that end an execution have an outcome of this round. *)
LEMMA OutcomeOfRound ==
    ASSUME Inv, Executions
    PROVE  pc' \in {"stop", "record"} => outcome'.round = round
<1>1. asked[current] = round
  BY ExecutionsKeep DEF Inv, Busy
<1>2. CASE SkipUnsupported \/ FailEmptyCommand \/ RunCommand \/ CheckImage \/ MissTarget \/ GiveUp
  BY <1>1, <1>2 DEF SkipUnsupported, FailEmptyCommand, RunCommand, CheckImage, MissTarget, GiveUp,
                    Conclude, Found
<1>3. CASE StartServer \/ Answer
  BY <1>3 DEF StartServer, Answer
<1>4. CASE Smoke \/ SmokeFails
  BY <1>1, <1>4 DEF Smoke, SmokeFails, FinishScript, DieInScript, Found
<1>5. CASE StopServer
  BY <1>5 DEF StopServer, Inv, Fresh
<1> QED
  BY <1>2, <1>3, <1>4, <1>5 DEF Executions

(* Every settled result is of this round. *)
LEMMA FreshStep == Inv /\ [Next]_vvars => Fresh'
<1> SUFFICES ASSUME Inv, [Next]_vvars PROVE Fresh'
  OBVIOUS
<1>1. CASE Executions
  BY <1>1, ExecutionsKeep, SettledInExecution, OutcomeOfRound DEF Inv, Fresh
<1>2. CASE Moves \/ Halts
  BY <1>2, MovesKeep, HaltsKeep DEF Fresh, Settled, Begun, Working
<1>3. CASE Others
  BY <1>3, OthersKeep DEF Inv, Fresh, Settled
<1>4. CASE BeginRound \/ (\E g \in Gates : RunGate(g))
  BY <1>4 DEF BeginRound, RunGate, Fresh, Settled, Begun, Working
<1>5. CASE RerunChecks \/ WriteGateReport
  BY <1>5 DEF RerunChecks, WriteGateReport, Fresh, Settled, Begun, Working
<1>6. CASE \E c \in Checks : RequestCheck(c)
  BY <1>6 DEF RequestCheck, Inv, TypeOK, Fresh, Settled, Begun, Working
<1>7. CASE RecordResult
  <2>1. /\ pc = "record" /\ pc' = "checks" /\ current \in Checks /\ asked[current] = round
        /\ result' = [result EXCEPT ![current] = outcome] /\ UNCHANGED <<round, todo, asked>>
        /\ outcome.round = round
    BY <1>7 DEF RecordResult, Inv, Busy, Fresh, Working
  <2>2. ASSUME NEW c \in Checks, Settled(c)', c # current
        PROVE  asked[c] = round /\ result[c].round = round /\ result'[c] = result[c]
    BY <2>1, <2>2 DEF Settled, Inv, Fresh, TypeOK, Begun, Working
  <2>3. ASSUME NEW c \in Checks, c = current PROVE result'[c] = outcome
    BY <2>1, <2>3 DEF Inv, TypeOK
  <2> QED
    BY <2>1, <2>2, <2>3 DEF Fresh
<1>8. CASE FinishChecks
  BY <1>8 DEF FinishChecks, files, Inv, Fresh, Settled, Begun, Working
<1> QED
  BY <1>1, <1>2, <1>3, <1>4, <1>5, <1>6, <1>7, <1>8, StepKinds

(* A round that is over has answered every request. *)
LEMMA RoundAnswers ==
    ASSUME Inv, pc \in {"checks", "evaluate"}, todo = {}, NEW c \in Checks
    PROVE  asked[c] = round /\ result[c].round = round
  BY DEF Inv, Fresh, Settled, Begun, Working

(* The graph starts from results that answer, and leaves none else behind.  *)
LEMMA AnsweringStep == Inv /\ [Next]_vvars => Answering'
<1> SUFFICES ASSUME Inv, [Next]_vvars PROVE Answering'
  OBVIOUS
<1>1. CASE Moves
  <2>1. UNCHANGED <<asked, result>>
    BY <1>1, MovesKeep
  <2>2. CASE Enter
    BY <2>1, <2>2 DEF Enter, Intact, Answering, AllAnswered, Answered
  <2>3. CASE pc = "evaluate"
    <3>1. AllAnswered
      BY <2>3, RoundAnswers DEF Inv, Control, AllAnswered, Answered
    <3> QED
      BY <2>1, <3>1 DEF Answering, AllAnswered, Answered
  <2>4. CASE pc \in {"begin", "reuse", "settle"}
    BY <2>1, <2>4 DEF Inv, Answering, AllAnswered, Answered
  <2> QED
    BY <1>1, <2>2, <2>3, <2>4 DEF Moves, Repair, Leave, ReuseReport, Evaluate, ReuseVerdict
<1>2. CASE Executions \/ Halts
  BY <1>2, ExecutionsKeep, HaltsKeep DEF Answering, Working
<1>3. CASE Others
  BY <1>3, OthersKeep DEF Inv, Answering, AllAnswered, Answered
<1>4. CASE FinishChecks
  <2>1. AllAnswered /\ UNCHANGED <<asked, result>>
    BY <1>4, RoundAnswers DEF FinishChecks, files, AllAnswered, Answered
  <2> QED
    BY <2>1 DEF Answering, AllAnswered, Answered
<1>5. CASE ~Moves /\ ~Executions /\ ~Halts /\ ~Others /\ ~FinishChecks
  BY <1>5, StepKinds DEF BeginRound, RerunChecks, RunGate, WriteGateReport, RequestCheck,
     RecordResult, Answering
<1> QED
  BY <1>1, <1>2, <1>3, <1>4, <1>5

(* As long as the graph was not cut off, results of before a repair are     *)
(* only there while the graph remembers it and verifies it.                *)
LEMMA DatedStep == Inv /\ [Next]_vvars => Dated'
<1> SUFFICES ASSUME Inv, [Next]_vvars PROVE Dated'
  OBVIOUS
<1>1. CASE Executions
  <2>1. UNCHANGED <<by, remembers, result, changed, broken>> /\ pc \in Working /\ pc' \in Working
    BY <1>1, ExecutionsKeep
  <2> QED
    BY <2>1 DEF Inv, Dated, Recent, Renewing, Begun, Working
<1>2. CASE Moves
  <2>1. UNCHANGED <<result, broken>> /\ pc \in {"idle", "begin", "settle", "evaluate", "reuse"}
    BY <1>2, MovesKeep DEF Inv
  <2>2. CASE Repair
    BY <2>1, <2>2, Zenon DEF Repair, Dated, Renewing
  <2>3. ASSUME broken PROVE Dated'
    BY <2>1, <2>3 DEF Dated
  <2>4. ASSUME Recent, ~Repair PROVE Dated'
    <3>1. changed' = changed
      BY <1>2, <2>4 DEF Moves, Enter, Leave, ReuseReport, Evaluate, ReuseVerdict, history, edits
    <3> QED
      BY <2>1, <2>4, <3>1 DEF Dated, Recent
  <2>5. ASSUME Renewing, ~Repair PROVE FALSE
    BY <1>2, <2>1, <2>5 DEF Moves, Enter, Leave, ReuseReport, ReusesReport, Evaluate,
       ReuseVerdict, Renewing, Begun, Working
  <2> QED
    BY <2>2, <2>3, <2>4, <2>5 DEF Inv, Dated
<1>3. CASE Halts
  <2>1. UNCHANGED <<result, changed>>
    BY <1>3, HaltsKeep DEF files
  <2>2. broken' = (broken \/ by = "graph")
    BY <1>3, Zenon DEF Halts, MissServer, Kill, Stop
  <2>3. CASE broken \/ by = "graph"
    BY <2>2, <2>3, Zenon DEF Dated
  <2>4. CASE ~broken /\ by # "graph"
    <3>1. Recent
      BY <2>4 DEF Inv, Dated, Renewing
    <3> QED
      BY <2>1, <3>1 DEF Dated, Recent
  <2> QED
    BY <2>3, <2>4
<1>4. CASE Others
  BY <1>4, OthersKeep DEF Inv, Dated, Recent, Renewing
<1>5. CASE \/ BeginRound \/ RerunChecks \/ (\E g \in Gates : RunGate(g)) \/ WriteGateReport
           \/ (\E c \in Checks : RequestCheck(c))
  <2>1. UNCHANGED <<result, changed, broken, remembers>>
    BY <1>5 DEF BeginRound, RerunChecks, RunGate, WriteGateReport, RequestCheck, files, actor,
       history, edits
  <2>2. Renewing => Renewing'
    <3>1. ASSUME by = "graph" PROVE by' = "graph"
      BY <1>5, <3>1 DEF BeginRound, RerunChecks, RunGate, WriteGateReport, RequestCheck, actor
    <3>2. pc' \in {"gates", "checks", "execute"}
      BY <1>5 DEF BeginRound, RerunChecks, RunGate, WriteGateReport, RequestCheck
    <3> QED
      BY <2>1, <3>1, <3>2 DEF Renewing, Begun, Working
  <2> QED
    BY <2>1, <2>2 DEF Inv, Dated, Recent
<1>6. CASE RecordResult
  <2>1. /\ pc = "record" /\ pc' = "checks" /\ current \in Checks /\ outcome.round = round
        /\ result' = [result EXCEPT ![current] = outcome]
        /\ UNCHANGED <<by, remembers, changed, broken>>
    BY <1>6 DEF RecordResult, actor, history, edits, Inv, Busy, Fresh, Working
  <2>2. changed < round
    BY <2>1 DEF Inv, Older, InRound, Begun, Working
  <2>3. Recent => Recent'
    BY <2>1, <2>2 DEF Recent, Inv, TypeOK
  <2>4. Renewing => Renewing'
    BY <2>1 DEF Renewing, Begun, Working
  <2> QED
    BY <2>1, <2>3, <2>4 DEF Inv, Dated
<1>7. CASE FinishChecks
  <2>1. pc = "checks" /\ todo = {} /\ UNCHANGED <<result, changed>>
    BY <1>7 DEF FinishChecks, files, history, edits
  <2>2. changed < round
    BY <2>1 DEF Inv, Older, InRound, Begun
  <2>3. Recent'
    BY <2>1, <2>2, RoundAnswers DEF Recent
  <2> QED
    BY <2>3 DEF Dated
<1> QED
  BY <1>1, <1>2, <1>3, <1>4, <1>5, <1>6, <1>7, StepKinds

(* What a check's execution finds rests on what is on disk. *)
LEMMA OutcomeRests ==
    ASSUME Inv, Executions
    PROVE  pc' \in {"stop", "record"} => Rests(outcome.status, current)'
<1> USE DEF Rests, Pictured
<1>1. CASE SkipUnsupported \/ FailEmptyCommand \/ MissTarget \/ GiveUp
  <2>1. outcome'.status # "passed"
    BY <1>1 DEF SkipUnsupported, FailEmptyCommand, MissTarget, GiveUp, Conclude, Found
  <2> QED
    BY <2>1
<1>2. CASE RunCommand
  BY <1>2 DEF RunCommand, Executing, Conclude
<1>3. CASE CheckImage
  BY <1>3 DEF CheckImage, Executing, Conclude, Found
<1>4. CASE StartServer \/ Answer
  BY <1>4 DEF StartServer, Answer
<1>5. CASE Smoke \/ SmokeFails
  <2>1. /\ current \in Checks /\ Kind(current) = "browser" /\ current' = current
        /\ summary \in [Checks -> {"none", "passed", "failed"}]
    BY <1>5 DEF Smoke, SmokeFails, Inv, TypeOK, Busy, InBrowser, Working
  <2>2. ASSUME NEW status \in {"passed", "failed"}, FinishScript(status)
        PROVE  outcome'.status = summary'[current]
    BY <2>1, <2>2 DEF FinishScript, Found
  <2>3. ASSUME DieInScript, outcome'.status = "passed" PROVE summary'[current] = "passed"
    BY <2>1, <2>3 DEF DieInScript, Found
  <2>4. ASSUME SmokeFails PROVE outcome'.status # "passed"
    BY <2>4 DEF SmokeFails, Found
  <2>5. outcome'.status = "passed" => summary'[current] = "passed"
    BY <1>5, <2>2, <2>3, <2>4 DEF Smoke
  <2> QED
    BY <2>1, <2>5
<1>6. CASE StopServer
  BY <1>6 DEF StopServer, Inv, Grounded
<1> QED
  BY <1>1, <1>2, <1>3, <1>4, <1>5, <1>6 DEF Executions

(* The summaries and images that a check does not touch are as they were. *)
LEMMA OthersKept ==
    ASSUME Inv, Executions
    PROVE  /\ asset' = asset
           /\ \A c \in Checks \ {current} : summary'[c] = summary[c]
<1>1. CASE Smoke \/ SmokeFails
  <2>1. asset' = asset
    BY <1>1 DEF Smoke, SmokeFails
  <2>2. summary' = summary \/ \E s \in {"none", "passed", "failed"} :
                                  summary' = [summary EXCEPT ![current] = s]
    BY <1>1 DEF Smoke, SmokeFails, FinishScript, DieInScript, Inv, TypeOK, Busy, Working
  <2> QED
    BY <2>1, <2>2 DEF Inv, TypeOK
<1>2. CASE ~(Smoke \/ SmokeFails)
  <2>1. UNCHANGED <<asset, summary>>
    BY <1>2 DEF Executions, SkipUnsupported, FailEmptyCommand, RunCommand, CheckImage, MissTarget,
                StartServer, Answer, GiveUp, StopServer, files, history
  <2> QED
    BY <2>1
<1> QED
  BY <1>1, <1>2

(* The check being executed has not answered its request yet. *)
LEMMA CurrentUnanswered ==
    ASSUME Inv, pc \in Working
    PROVE  current \in Checks /\ asked[current] = round /\ ~Answered(current)
<1>1. current \in Checks /\ asked[current] = round /\ ~Settled(current)
  BY DEF Inv, Busy, Settled
<1>2. result[current].round < round
  BY <1>1 DEF Inv, Older, InRound, Begun
<1> QED
  BY <1>1, <1>2 DEF Inv, TypeOK, ToolResult, Answered

(* A result that answers its request rests on what is on disk. *)
LEMMA GroundedStep == Inv /\ [Next]_vvars => Grounded'
<1> SUFFICES ASSUME Inv, [Next]_vvars PROVE Grounded'
  OBVIOUS
<1>1. CASE Executions
  <2>1. /\ current \in Checks /\ ~Answered(current)
        /\ UNCHANGED <<asked, result, asset, current>>
        /\ \A c \in Checks \ {current} : summary'[c] = summary[c]
    BY <1>1, ExecutionsKeep, CurrentUnanswered, OthersKept
  <2>2. ASSUME NEW c \in Checks PROVE Pictured(result[c].status, c)'
    BY <2>1, <2>2 DEF Inv, Grounded, Pictured
  <2>3. ASSUME NEW c \in Checks, Answered(c)' PROVE Rests(result[c].status, c)'
    BY <2>1, <2>3 DEF Inv, Grounded, Rests, Pictured, Answered
  <2> QED
    BY <1>1, <2>2, <2>3, OutcomeRests DEF Grounded
<1>2. CASE Moves \/ Halts
  <2>1. UNCHANGED <<asked, result, asset, summary>> /\ pc' \notin {"stop", "record"}
    BY <1>2, MovesKeep, HaltsKeep DEF files
  <2> QED
    BY <2>1 DEF Inv, Grounded, Rests, Pictured, Answered
<1>3. CASE Others
  BY <1>3, OthersKeep DEF Inv, Grounded, Rests, Pictured, Answered
<1>4. CASE BeginRound \/ RerunChecks \/ (\E g \in Gates : RunGate(g)) \/ WriteGateReport
  <2>1. /\ UNCHANGED <<asked, result, asset, summary>>
        /\ pc' \notin {"stop", "record"}
    BY <1>4 DEF BeginRound, RerunChecks, RunGate, WriteGateReport, files, history
  <2> QED
    BY <2>1 DEF Inv, Grounded, Rests, Pictured, Answered
<1>5. ASSUME NEW k \in Checks, RequestCheck(k) PROVE Grounded'
  <2>1. /\ pc = "checks" /\ pc' = "execute" /\ k \in todo /\ asked' = [asked EXCEPT ![k] = round]
        /\ UNCHANGED <<result, asset, summary>>
    BY <1>5 DEF RequestCheck, NextCheck, history, Inv, TypeOK
  <2>2. ASSUME NEW c \in Checks, Answered(c)' PROVE Answered(c)
    <3>1. CASE c = k
      <4>1. result[c].round < round /\ asked'[c] = round
        BY <2>1, <3>1 DEF Inv, TypeOK, Older, InRound, Settled, Begun
      <4> QED
        BY <2>1, <2>2, <4>1 DEF Answered, Inv, TypeOK, ToolResult
    <3>2. CASE c # k
      BY <2>1, <2>2, <3>2 DEF Answered, Inv, TypeOK
    <3> QED
      BY <3>1, <3>2
  <2> QED
    BY <2>1, <2>2 DEF Inv, Grounded, Rests, Pictured
<1>6. CASE RecordResult
  <2>1. /\ pc = "record" /\ pc' = "checks" /\ current \in Checks
        /\ result' = [result EXCEPT ![current] = outcome]
        /\ UNCHANGED <<asked, asset, summary>>
        /\ Rests(outcome.status, current)
    BY <1>6 DEF RecordResult, history, Inv, Busy, Grounded, Working
  <2>2. ASSUME NEW c \in Checks, c # current
        PROVE  /\ Pictured(result[c].status, c)'
               /\ Answered(c)' => Rests(result[c].status, c)'
    BY <2>1, <2>2 DEF Inv, TypeOK, Grounded, Pictured, Rests, Answered
  <2>3. ASSUME NEW c \in Checks, c = current PROVE Rests(result[c].status, c)'
    BY <2>1, <2>3 DEF Inv, TypeOK, Pictured, Rests
  <2> QED
    BY <2>1, <2>2, <2>3 DEF Grounded, Rests
<1>7. CASE FinishChecks
  BY <1>7 DEF FinishChecks, files, history, Inv, Grounded, Rests, Pictured, Answered
<1> QED
  BY <1>1, <1>2, <1>3, <1>4, <1>5, <1>6, <1>7, StepKinds

(* The report the graph finds after its round is that of its gates. *)
LEMMA ReportedStep == Inv /\ [Next]_vvars => Reported'
<1> SUFFICES ASSUME Inv, [Next]_vvars PROVE Reported'
  OBVIOUS
<1>1. CASE Executions
  BY <1>1, ExecutionsKeep DEF Inv, Reported, RequiredPassed, Begun
<1>2. CASE Moves \/ Halts
  BY <1>2, MovesKeep, HaltsKeep DEF Reported, Begun, Working
<1>3. CASE Others
  BY <1>3, OthersKeep DEF Inv, Reported, RequiredPassed
<1>4. CASE WriteGateReport
  BY <1>4 DEF WriteGateReport, Reported, RequiredPassed
<1>5. CASE BeginRound \/ RerunChecks \/ (\E g \in Gates : RunGate(g))
  BY <1>5 DEF BeginRound, RerunChecks, RunGate, Reported, Begun, Working
<1>6. CASE (\E c \in Checks : RequestCheck(c)) \/ RecordResult \/ FinishChecks
  <2>1. UNCHANGED <<gate, report>> /\ pc \in Begun /\ (by' = "graph" => by = "graph")
    BY <1>6 DEF RequestCheck, RecordResult, FinishChecks, actor, files, Begun, Working
  <2> QED
    BY <2>1 DEF Inv, Reported, RequiredPassed
<1> QED
  BY <1>1, <1>2, <1>3, <1>4, <1>5, <1>6, StepKinds

(* Each part of the invariant is kept, given all of them. *)
LEMMA InvStep == Inv /\ [Next]_vvars => Inv'
<1>1. Inv /\ [Next]_vvars => TypeOK'
  BY TypeStep DEF Inv
<1> QED
  BY <1>1, ControlStep, BusyStep, InBrowserStep, OlderStep, FreshStep, AnsweringStep, DatedStep,
     GroundedStep, ReportedStep DEF Inv

(* The invariant holds in every reachable state. *)
LEMMA Invariant == Spec => []Inv
  BY InvInit, InvStep, PTL DEF Spec

-----------------------------------------------------------------------------
(* Every variable keeps its type, for any gates, checks and criteria.       *)
THEOREM TypeCorrect == Spec => []TypeOK
<1>1. Inv => TypeOK
  BY DEF Inv
<1> QED
  BY Invariant, <1>1, PTL

(* What the graph evaluates answers its requests, and is of after the last  *)
(* repair unless the graph was cut off.                                    *)
LEMMA EvaluatedAnswers ==
    ASSUME Inv, pc \in {"evaluate", "reuse"}, NEW c \in Checks, result[c].status # "none"
    PROVE  Answered(c) /\ (~broken => result[c].round > changed)
<1>1. Answered(c)
  <2>1. CASE pc = "evaluate"
    BY <2>1, RoundAnswers DEF Inv, Control, Answered
  <2>2. CASE pc = "reuse"
    BY <2>2 DEF Inv, Answering, AllAnswered
  <2> QED
    BY <2>1, <2>2
<1>2. ~Renewing
  BY DEF Renewing, Begun, Working
<1> QED
  BY <1>1, <1>2 DEF Inv, Dated, Recent

(* The graph evaluates results that belong together: after a round all of   *)
(* them are of this round, and without one each answers the last request    *)
(* of its check and, unless the graph was killed or raised, is of after the *)
(* last repair.                                                            *)
THEOREM EvaluationsAreFresh == Spec => []EvaluatedFresh
<1>1. ASSUME Inv, pc = "evaluate"
      PROVE  /\ RequiredPassed
             /\ \A c \in Checks : asked[c] = round /\ result[c].round = round
  <2>1. by = "graph" /\ todo = {} /\ report = "passed"
    BY <1>1 DEF Inv, Control
  <2>2. RequiredPassed
    BY <1>1, <2>1 DEF Inv, Reported, Begun
  <2> QED
    BY <1>1, <2>1, <2>2, RoundAnswers
<1>2. Inv => EvaluatedFresh
  BY <1>1, EvaluatedAnswers DEF EvaluatedFresh
<1> QED
  BY Invariant, <1>2, PTL

(* A browser check leaves no server behind, on whichever way it ends.       *)
THEOREM ServersStopped == Spec => []NoServerLeft
<1>1. Init => NoServerLeft
  BY DEF Init, NoServerLeft
<1>2. Inv /\ NoServerLeft /\ [Next]_vvars => NoServerLeft'
  <2> SUFFICES ASSUME Inv, NoServerLeft, [Next]_vvars PROVE NoServerLeft'
    OBVIOUS
  <2>1. CASE Executions
    BY <2>1 DEF Executions, SkipUnsupported, FailEmptyCommand, RunCommand, CheckImage, MissTarget,
       StartServer, Answer, GiveUp, Smoke, SmokeFails, StopServer, Executing, Conclude, NoServerLeft
  <2>2. CASE Moves
    BY <2>2, MovesKeep DEF Inv, NoServerLeft
  <2>3. CASE Halts
    BY <2>3 DEF Halts, MissServer, Kill, Executing, NoServerLeft
  <2>4. CASE Others
    BY <2>4 DEF Others, ProvideImage, ServerEnds, RerunSatisfaction, NoServerLeft, vvars
  <2>5. CASE ~Executions /\ ~Moves /\ ~Halts /\ ~Others
    <3>1. UNCHANGED server /\ pc \notin {"ready", "smoke", "stop"}
      BY <2>5, StepKinds DEF BeginRound, RerunChecks, RunGate, WriteGateReport, RequestCheck,
         RecordResult, FinishChecks, Inv, Control
    <3> QED
      BY <3>1 DEF NoServerLeft
  <2> QED
    BY <2>1, <2>2, <2>3, <2>4, <2>5
<1> QED
  BY Invariant, <1>1, <1>2, PTL DEF Spec

(* While nothing was killed, a browser check sees the page of its own       *)
(* server.                                                                 *)
THEOREM PagesAreOwn == Spec => []OwnPage
<1>1. Init => OwnPage
  BY DEF Init, OwnPage
<1>2. Inv /\ OwnPage /\ [Next]_vvars => OwnPage'
  <2> SUFFICES ASSUME Inv, OwnPage, [Next]_vvars PROVE OwnPage'
    OBVIOUS
  <2>1. CASE Kill
    BY <2>1 DEF Kill, OwnPage, Inv, TypeOK
  <2>2. CASE Answer
    BY <2>2, Zenon DEF Answer, OwnPage
  <2>3. CASE StopServer
    BY <2>3, Zenon DEF StopServer, OwnPage
  <2>4. CASE ~Kill /\ ~Answer /\ ~StopServer
    <3>1. UNCHANGED <<foreign, orphan, kills>>
      BY <2>4, StepKinds, MovesKeep, OthersKeep DEF Executions, SkipUnsupported, FailEmptyCommand,
         RunCommand, CheckImage, MissTarget, StartServer, GiveUp, Smoke, SmokeFails, Halts,
         MissServer, BeginRound, RerunChecks, RunGate, WriteGateReport, RequestCheck, RecordResult,
         FinishChecks, Conclude, history
    <3> QED
      BY <3>1, Zenon DEF OwnPage
  <2> QED
    BY <2>1, <2>2, <2>3, <2>4
<1> QED
  BY Invariant, <1>1, <1>2, PTL DEF Spec

-----------------------------------------------------------------------------
(* What is on disk when a goal is called satisfied. *)

(* A criterion that is satisfied was shown by every required check it       *)
(* cites, and unless it is about an image by the gates.                     *)
LEMMA CriterionShown ==
    ASSUME NEW criterion, CriterionStatus(criterion) = "satisfied"
    PROVE  /\ criterion \in Automated
           /\ criterion \notin AboutImages => report = "passed"
           /\ \A c \in Cited(criterion) : Required(c) =>
                 result[c].status = "passed" /\ (c \in WithEvidence => c \in produced)
<1>1. Tool(criterion) # "manual" /\ ~Failing(criterion) /\ ~Missing(criterion)
  BY DEF CriterionStatus
<1>2. criterion \in Automated
  BY <1>1 DEF Tool
<1>3. ASSUME criterion \notin AboutImages PROVE report = "passed"
  <2>1. Tool(criterion) # "image_generation"
    BY <1>3 DEF Tool
  <2> QED
    BY <2>1 DEF CriterionStatus
<1> QED
  BY <1>1, <1>2, <1>3 DEF Failing, Missing

(* The checks a criterion cites are checks of the run. *)
LEMMA CitedAreChecks ==
    ASSUME NEW criterion, criterion \in Automated
    PROVE  Cited(criterion) \subseteq Checks
  BY DEF Cited, Tool, ChecksFor, Checks, ImageCriteria

(* Of the verdict of a step, the required criteria were all shown.          *)
LEMMA VerdictShown ==
    ASSUME Verdict = "satisfied", NEW criterion \in RequiredCriteria
    PROVE  CriterionStatus(criterion) = "satisfied"
<1>1. CriterionStatus(criterion) \in {"satisfied", "uncertain", "not_satisfied"}
  BY DEF CriterionStatus
<1>2. CriterionStatus(criterion) \in {CriterionStatus(k) : k \in RequiredCriteria}
  OBVIOUS
<1> QED
  BY <1>1, <1>2 DEF Verdict

(* Only the two evaluations write one. *)
LEMMA RenewedByEvaluation ==
    ASSUME [Next]_vvars, Renewed
    PROVE  /\ verdict' = Verdict
           /\ UNCHANGED <<report, result, asked, produced, summary, asset, changed, broken>>
<1>1. Evaluate \/ RerunSatisfaction \/ UNCHANGED <<verdict, citesDisk>>
                \/ (verdict' = verdict /\ citesDisk' = FALSE)
  <2>1. CASE Executions
    BY <2>1, ExecutionsKeep DEF goal
  <2>2. CASE Moves
    BY <2>2 DEF Moves, Enter, Repair, Leave, ReuseReport, ReuseVerdict, files, goal
  <2>3. CASE Halts \/ Others
    BY <2>3, HaltsKeep DEF Others, ProvideImage, ServerEnds, vvars, files, goal
  <2>4. CASE ~Executions /\ ~Moves /\ ~Halts /\ ~Others
    BY <2>4, StepKinds DEF BeginRound, RerunChecks, RunGate, WriteGateReport, RequestCheck,
       RecordResult, FinishChecks, files, goal
  <2> QED
    BY <2>1, <2>2, <2>3, <2>4
<1>2. Evaluate \/ RerunSatisfaction
  <2>1. ASSUME verdict' = verdict, citesDisk' = FALSE PROVE FALSE
    BY <2>1, Zenon DEF Renewed
  <2>2. ASSUME UNCHANGED <<verdict, citesDisk>> PROVE FALSE
    BY <2>2, Zenon DEF Renewed
  <2> QED
    BY <1>1, <2>1, <2>2
<1> QED
  BY <1>2 DEF Evaluate, RerunSatisfaction, WriteEvaluation, history, edits

(* A goal that is called satisfied was really shown, whoever evaluates it   *)
(* and whatever was reused: its required criteria are automated, the report *)
(* passed, and every required check they cite passed, its evidence and its  *)
(* image there. For the graph the results are moreover answers to the last  *)
(* requests, of after the last repair unless it was cut off, and what the   *)
(* page's summary says.                                                    *)
THEOREM SatisfiedWasShown == Spec => SatisfiedIsShown
<1>1. ASSUME Inv, [Next]_vvars, Renewed, verdict' = "satisfied",
             NEW criterion \in RequiredCriteria
      PROVE  Shown(criterion)
  <2>1. Verdict = "satisfied"
    BY <1>1, RenewedByEvaluation
  <2>2. /\ criterion \in Automated
        /\ criterion \notin AboutImages => report = "passed"
        /\ \A c \in Cited(criterion) : Required(c) =>
              result[c].status = "passed" /\ (c \in WithEvidence => c \in produced)
    BY <2>1, VerdictShown, CriterionShown
  <2>3. ASSUME NEW c \in Cited(criterion), Required(c)
        PROVE  /\ Kind(c) = "image" => c \in asset
               /\ pc \in {"evaluate", "reuse"} =>
                    /\ Answered(c) /\ (~broken => result[c].round > changed)
                    /\ Kind(c) = "browser" => summary[c] = "passed"
    <3>1. c \in Checks /\ result[c].status = "passed"
      BY <2>2, <2>3, CitedAreChecks
    <3>2. Kind(c) = "image" => c \in asset
      BY <1>1, <3>1 DEF Inv, Grounded, Pictured
    <3>3. ASSUME pc \in {"evaluate", "reuse"}
          PROVE  /\ Answered(c) /\ (~broken => result[c].round > changed)
                 /\ Kind(c) = "browser" => summary[c] = "passed"
      <4>1. Answered(c) /\ (~broken => result[c].round > changed)
        BY <1>1, <3>1, <3>3, EvaluatedAnswers
      <4> QED
        BY <1>1, <3>1, <4>1 DEF Inv, Grounded, Rests
    <3> QED
      BY <3>2, <3>3
  <2> QED
    BY <2>2, <2>3 DEF Shown
<1>2. Inv /\ [Next]_vvars =>
        [Renewed /\ verdict' = "satisfied" =>
            \A criterion \in RequiredCriteria : Shown(criterion)]_vvars
  BY <1>1
<1> QED
  BY Invariant, <1>2, PTL DEF Spec, SatisfiedIsShown

=============================================================================
