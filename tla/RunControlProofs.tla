--------------------------- MODULE RunControlProofs ---------------------------
(***************************************************************************)
(* The commands given to a run, whoever executes it meanwhile: what they   *)
(* write keeps its type, a bundle and a manifest that are fresh tell the   *)
(* truth, an approval takes hold, a halted run stays halted - and what     *)
(* the workflow guarantees by itself (its nodes find their inputs, nothing *)
(* is dispatched without approval) survives every write of a command.      *)
(***************************************************************************)
EXTENDS RunControl, DeliveryProofs

Steps == {"begin", "spec_written", "spec_replanned", "plan_written", "spec_marked",
          "plan_marked", "saved", "gates_run", "requested", "checked", "reviewed", "bundled"}

CommandTypes ==
    /\ op \in Controls \cup Deferred \cup {"none", "dead"} /\ step \in Steps
    /\ carry \in State \cup {NoState}
    /\ seen \in [Deferred -> Rows] /\ manifest \in {"none", "ready", "blocked"}
    /\ issued \in Nat /\ alone \in BOOLEAN /\ overruled \in BOOLEAN

(* A command is given to a run that is known, and remembers its status.    *)
RunKnown ==
    /\ op \notin {"none", "dead"} => row # "none"
    /\ \A c \in Deferred : seen[c] # "none" => row # "none"
    /\ op \in Deferred => seen[op] # "none"

(* What approve is about to save.                                          *)
CarryKnown ==
    op = "approve" /\ step = "saved" =>
        /\ carry \in State /\ carry.status = "running"
        /\ carry.stage \in {"create_execution_plan", "validate_execution_plan"}

CommandInv == TypeInv /\ CommandTypes /\ RunKnown /\ CarryKnown

(* An approval that found no process meets none, and what it saved stays.  *)
AloneInv ==
    op = "approve" /\ alone =>
        /\ pc = "idle"
        /\ step \in {"spec_marked", "plan_marked", "saved"} => row = "running"
        /\ step = "saved" => wf = carry

(* The commands other than the reruns are given to a run that goes on.     *)
NotHalted == op \in Controls => row \notin {"paused", "stopped"}

HoldInv == CommandInv /\ AloneInv /\ NotHalted

(* What approve has approved so far.                                       *)
ApproveProgress ==
    op = "approve" =>
        /\ step \in {"spec_written", "spec_replanned", "spec_marked", "plan_written",
                     "plan_marked", "saved"} => SpecAllows
        /\ step \in {"plan_written", "plan_marked"} => PlanAllows
        /\ step = "saved" =>
              /\ carry.stage = "validate_execution_plan" => PlanAllows
              /\ NamesDisk(carry)

OrderInv == CommandInv /\ DeliveryInv /\ RequiredOnDisk /\ ApproveProgress

-----------------------------------------------------------------------------
(* The shapes of a command's writes: artifacts, the row, the checkpoints.  *)

ArtifactStep ==
    \/ ApproveSpecArtifact \/ RewriteVerificationPlan \/ ApprovePlanArtifact
    \/ RunGatesAgain \/ RequestToolChecks \/ RunToolChecks \/ ReviewGates \/ BundleEvidence
    \/ Release \/ EvaluateAgain

RowStep == SetStatus \/ MarkApproved \/ Confirm \/ DecideVerify \/ DecideReview \/ RestoreStatus

Background ==
    UNCHANGED <<control, mem, work, taskFile, repairs, session, reused, repairsRun, applied>>

RowWritten ==
    /\ Background /\ UNCHANGED <<wf, lg, files, stale, doc, staleTasks, verified, manifest>>
    /\ row' \in Rows \ {"none"}

(* What a step makes of the artifacts: those it writes are fresh, those    *)
(* that cite them are stale.                                               *)
FilesMove(S) ==
    /\ files' = files \cup S
    /\ (stale \ S) \cup {b \in files \ S : Cited(b) \cap S # {}} \subseteq stale'

OutcomesMove(S) ==
    /\ doc'.gate = doc.gate \/ "gate" \in S
    /\ doc'.sat = doc.sat \/ "sat" \in S
    /\ doc'.review = doc.review \/ "review" \in S
    /\ (doc'.ready = doc.ready /\ doc'.satCited = doc.satCited) \/ "evidence" \in S

Foundations == {"goal", "snapshot", "spec", "vplan", "plan", "integration"}

ArtifactWritten(S) ==
    /\ Background /\ UNCHANGED saved /\ Write(S) /\ OutcomesMove(S)
    /\ S \cap Foundations \subseteq files
    /\ doc' \in Document /\ staleTasks' \subseteq Tasks /\ verified' \in BOOLEAN
    /\ doc'.strategy = doc.strategy
    /\ doc'.specRequired = doc.specRequired /\ (doc.specApproved => doc'.specApproved)
    /\ doc'.planRequired = doc.planRequired /\ (doc.planApproved => doc'.planApproved)
    /\ "evidence" \in S => BundleEvidence
    /\ "release" \in S => Release
    /\ "release" \notin S => manifest' = manifest

LEMMA ArtifactShapes ==
    ASSUME TypeInv, ArtifactStep
    PROVE  \E S \in SUBSET Names : ArtifactWritten(S)
<1> USE NamesKnown
<1>0. doc \in Document /\ staleTasks \subseteq Tasks /\ verified \in BOOLEAN
  BY DEF TypeInv, TypeOK
<1>1. ASSUME doc' = doc, UNCHANGED <<staleTasks, verified>>
      PROVE  /\ doc' \in Document /\ staleTasks' \subseteq Tasks /\ verified' \in BOOLEAN
             /\ doc'.strategy = doc.strategy
             /\ doc'.specRequired = doc.specRequired /\ (doc.specApproved => doc'.specApproved)
             /\ doc'.planRequired = doc.planRequired /\ (doc.planApproved => doc'.planApproved)
             /\ \A S : OutcomesMove(S)
  BY <1>0, <1>1 DEF OutcomesMove
<1>2. CASE ApproveSpecArtifact
  <2>1. ArtifactWritten({"spec"})
    BY <1>0, <1>2 DEF ApproveSpecArtifact, SpecWaits, Keep, Background, ArtifactWritten,
                      OutcomesMove, Foundations, Document
  <2> QED
    BY <2>1
<1>3. CASE RewriteVerificationPlan
  <2>1. ArtifactWritten({"vplan"})
    BY <1>1, <1>3 DEF RewriteVerificationPlan, Keep, Background, ArtifactWritten, Foundations
  <2> QED
    BY <2>1
<1>4. CASE ApprovePlanArtifact
  <2>1. ArtifactWritten({"plan"})
    BY <1>0, <1>4 DEF ApprovePlanArtifact, PlanWaits, Keep, Background, ArtifactWritten,
                      OutcomesMove, Foundations, Document
  <2> QED
    BY <2>1
<1>5. CASE RunGatesAgain
  <2>1. ArtifactWritten({"gate"})
    BY <1>0, <1>5 DEF RunGatesAgain, Keep, Background, ArtifactWritten, OutcomesMove,
                      Foundations, Document
  <2> QED
    BY <2>1
<1>6. CASE RequestToolChecks
  <2>1. ArtifactWritten({"toolRequest"})
    BY <1>1, <1>6 DEF RequestToolChecks, Keep, Background, ArtifactWritten, Foundations
  <2> QED
    BY <2>1
<1>7. CASE RunToolChecks
  <2>1. ArtifactWritten({"tools"})
    BY <1>1, <1>7 DEF RunToolChecks, Keep, Background, ArtifactWritten, Foundations
  <2> QED
    BY <2>1
<1>8. CASE ReviewGates
  <2>1. ArtifactWritten({"review"})
    BY <1>0, <1>8 DEF ReviewGates, Keep, Background, ArtifactWritten, OutcomesMove,
                      Foundations, Document
  <2> QED
    BY <2>1
<1>9. CASE BundleEvidence
  <2>1. PICK patches \in BOOLEAN :
           doc' = [doc EXCEPT !.ready = BundleReady(patches), !.satCited = FALSE]
    BY <1>9 DEF BundleEvidence
  <2>2. doc' \in Document
    BY <1>0, <2>1 DEF BundleReady, Document
  <2>3. ArtifactWritten({"evidence"})
    BY <1>0, <1>9, <2>1, <2>2 DEF BundleEvidence, Keep, Background, ArtifactWritten,
                      OutcomesMove, Foundations, Document
  <2> QED
    BY <2>3
<1>10. CASE Release
  <2>1. ArtifactWritten({"release"})
    BY <1>1, <1>10 DEF Release, Keep, Background, ArtifactWritten, Foundations
  <2> QED
    BY <2>1
<1>11. CASE EvaluateAgain
  <2>1. PICK verdict \in Verdicts, error \in Fingerprints \cup {NoError} :
           doc' = [doc EXCEPT !.sat = verdict, !.satError = error]
    BY <1>11 DEF EvaluateAgain
  <2>2. ArtifactWritten({"sat"})
    BY <1>0, <1>11, <2>1 DEF EvaluateAgain, Keep, Background, ArtifactWritten, OutcomesMove,
                      Foundations, Document
  <2> QED
    BY <2>2
<1> QED
  BY <1>2, <1>3, <1>4, <1>5, <1>6, <1>7, <1>8, <1>9, <1>10, <1>11 DEF ArtifactStep

LEMMA RowShapes ==
    ASSUME CommandInv, RowStep
    PROVE  RowWritten
<1>1. CASE SetStatus \/ MarkApproved \/ Confirm \/ DecideVerify \/ DecideReview
  BY <1>1 DEF SetStatus, MarkApproved, Confirm, DecideVerify, DecideReview, Keep, Background,
              RowWritten, Rows, Statuses
<1>2. CASE RestoreStatus
  <2>1. op \in Deferred
    BY <1>2 DEF RestoreStatus, Working, Deferred
  <2> QED
    BY <1>2, <2>1 DEF RestoreStatus, Keep, Background, RowWritten, CommandInv, CommandTypes,
                      RunKnown
<1> QED
  BY <1>1, <1>2 DEF RowStep

(* Every step is one of the workflow's, or such a write.                   *)
LEMMA ControlSteps ==
    ASSUME ControlNext
    PROVE  [Next]_vars \/ ArtifactStep \/ RowStep \/ SaveApproved \/ SaveApprovedThread
BY DEF ControlNext, ProcessStep, ResumeRun, KillProcess, Begin, Take, Ask, TakeAsked, Refuse, CommandStep,
       Approving, Verifying, Reviewing, Rerunning, Fail, KillCommand, ExpireCommandLock, Next,
       ArtifactStep, RowStep

(* The state approve resumes from.                                         *)
LEMMA ApprovedState ==
    ASSUME CommandInv, SaveApproved
    PROVE  /\ carry' \in State /\ wf' = carry' /\ row' = "running" /\ lg' = lg
           /\ carry'.status = "running"
           /\ carry' = IF step = "spec_marked" THEN ResumeAt("create_execution_plan", "spec")
                       ELSE ResumeAt("validate_execution_plan", "plan")
           /\ carry'.stage = IF step = "spec_marked" THEN "create_execution_plan"
                             ELSE "validate_execution_plan"
           /\ Background /\ UNCHANGED <<files, stale, doc, staleTasks, verified, manifest>>
<1>1. Remembered \in State
  BY RememberedType DEF CommandInv, TypeInv, RowIsSaved, RunKnown, Remembered, SaveApproved
<1>2. ASSUME NEW stage \in Stages, NEW a \in Names
      PROVE  /\ ResumeAt(stage, a) \in State /\ ResumeAt(stage, a).status = "running"
             /\ ResumeAt(stage, a).stage = stage
  <2>1. "running" \in Statuses
    BY DEF Statuses
  <2>2. ResumeAt(stage, a) \in State
    BY <1>1, <2>1, HaltedNotedType DEF ResumeAt
  <2> QED
    BY <1>1, <2>2 DEF ResumeAt, State
<1>3. /\ {"create_execution_plan", "validate_execution_plan"} \subseteq Stages
      /\ {"spec", "plan"} \subseteq Names
  BY NamesKnown DEF Stages, Nodes
<1>4. /\ carry' = IF step = "spec_marked" THEN ResumeAt("create_execution_plan", "spec")
                  ELSE ResumeAt("validate_execution_plan", "plan")
      /\ Save(carry') /\ Background /\ UNCHANGED <<files, stale, doc, staleTasks, verified, manifest>>
  BY DEF SaveApproved, Keep, Background, Save
<1> QED
  BY <1>2, <1>3, <1>4 DEF Save

-----------------------------------------------------------------------------
(* Types.                                                                  *)

LEMMA ControlKeepsTypes ==
    ASSUME CommandInv, [ControlNext]_allVars
    PROVE  TypeInv' /\ (row # "none" => row' # "none")
<1>0. TypeInv /\ TypeOK /\ RowIsSaved
  BY DEF CommandInv, TypeInv
<1>1. CASE [Next]_vars
  <2>1. row' \in Statuses \cup {row} \/ row' = "approved"
    BY <1>0, <1>1, StatusSteps DEF ApproveRun
  <2> QED
    BY <1>0, <1>1, <2>1, NextTypes DEF Statuses
<1>2. CASE ArtifactStep
  <2>1. PICK S \in SUBSET Names : ArtifactWritten(S)
    BY <1>0, <1>2, ArtifactShapes
  <2>2. files' \subseteq Names /\ stale' \subseteq Names
    BY <1>0, <2>1, WriteTypes DEF ArtifactWritten
  <2> QED
    BY <1>0, <2>1, <2>2 DEF ArtifactWritten, Background, TypeInv, TypeOK, RowIsSaved, control,
                            saved, session
<1>3. CASE RowStep
  <2>1. RowWritten
    BY <1>3, RowShapes
  <2>2. row # "none"
    BY <1>3 DEF RowStep, SetStatus, MarkApproved, Confirm, DecideVerify, DecideReview,
                RestoreStatus, Working, CommandInv, RunKnown
  <2> QED
    BY <1>0, <2>1, <2>2 DEF RowWritten, Background, TypeInv, TypeOK, RowIsSaved, control, session
<1>4. CASE SaveApproved
  <2>1. /\ carry' \in State /\ wf' = carry' /\ row' = "running" /\ lg' = lg
        /\ Background /\ UNCHANGED <<files, stale, doc, staleTasks, verified>>
    BY <1>4, ApprovedState
  <2> QED
    BY <1>0, <2>1, NoStateAssumption
       DEF Background, TypeInv, TypeOK, RowIsSaved, Rows, Statuses, control, session
<1>5. CASE SaveApprovedThread
  <2>1. /\ SaveLangGraph(carry) /\ UNCHANGED <<row, wf>> /\ carry \in State
        /\ Background /\ UNCHANGED <<files, stale, doc, staleTasks, verified>>
    BY <1>5 DEF SaveApprovedThread, Working, Keep, Background, CommandInv, CarryKnown
  <2>2. lg' \in State \cup {NoState}
    BY <1>0, <2>1, SaveLangGraphType
  <2> QED
    BY <1>0, <2>1, <2>2 DEF Background, TypeInv, TypeOK, RowIsSaved, control, session
<1>6. CASE UNCHANGED allVars
  BY <1>1, <1>6 DEF allVars
<1> QED
  BY <1>1, <1>2, <1>3, <1>4, <1>5, <1>6, ControlSteps

(* What a step does to the command.                                        *)
CommandMove ==
    \/ UNCHANGED command
    \/ \E s \in Steps \ {"saved"} : Advance(s)
    \/ \E next \in {"none", "dead"} : Unlock(next)
    \/ SaveApproved
    \/ \E c \in Controls : Take(c)
    \/ \E c \in Deferred : Ask(c) \/ TakeAsked(c) \/ Refuse(c)

LEMMA CommandMoves ==
    ASSUME CommandInv, [ControlNext]_allVars
    PROVE  /\ CommandMove /\ manifest' \in {"none", "ready", "blocked"}
           /\ overruled' \in BOOLEAN
<1>0. manifest \in {"none", "ready", "blocked"} /\ overruled \in BOOLEAN
  BY DEF CommandInv, CommandTypes
<1>1. CASE ProcessStep \/ ResumeRun \/ KillProcess \/ ((Run \/ DryRun \/ LockExpires) /\ Idle)
  BY <1>0, <1>1 DEF ProcessStep, ResumeRun, KillProcess, Idle, CommandMove
<1>2. CASE Begin
  <2>1. UNCHANGED <<manifest, overruled>>
    BY <1>2 DEF Begin, Take, Ask, TakeAsked, Refuse
  <2> QED
    BY <1>0, <1>2, <2>1 DEF Begin, CommandMove
<1>3. CASE KillCommand \/ ExpireCommandLock \/ Fail
  BY <1>0, <1>3 DEF KillCommand, ExpireCommandLock, Fail, CommandMove
<1>4. CASE RowStep
  <2>1. manifest' = manifest
    BY <1>4, RowShapes DEF RowWritten
  <2>2. overruled' \in BOOLEAN
    BY <1>0, <1>4 DEF RowStep, SetStatus, MarkApproved, Confirm, DecideVerify, DecideReview,
                      RestoreStatus, Keep
  <2>3. \/ \E s \in Steps \ {"saved"} : Advance(s)
        \/ Unlock("none")
    BY <1>4 DEF RowStep, SetStatus, MarkApproved, Confirm, DecideVerify, DecideReview,
                RestoreStatus, Steps
  <2> QED
    BY <1>0, <2>1, <2>2, <2>3 DEF CommandMove
<1>5. CASE ArtifactStep
  <2>1. manifest' \in {"none", "ready", "blocked"} /\ overruled' = overruled
    BY <1>0, <1>5 DEF ArtifactStep, ApproveSpecArtifact, RewriteVerificationPlan,
       ApprovePlanArtifact, RunGatesAgain, RequestToolChecks, RunToolChecks, ReviewGates,
       BundleEvidence, Release, EvaluateAgain, Keep
  <2>2. \/ \E s \in Steps \ {"saved"} : Advance(s)
        \/ Unlock("none")
    BY <1>5 DEF ArtifactStep, ApproveSpecArtifact, RewriteVerificationPlan, ApprovePlanArtifact,
       RunGatesAgain, RequestToolChecks, RunToolChecks, ReviewGates, BundleEvidence, Release,
       EvaluateAgain, Steps
  <2> QED
    BY <1>0, <2>1, <2>2 DEF CommandMove
<1>6. CASE SaveApproved \/ SaveApprovedThread
  BY <1>0, <1>6 DEF SaveApproved, SaveApprovedThread, Keep, CommandMove
<1>7. CASE UNCHANGED allVars
  BY <1>0, <1>7 DEF allVars, CommandMove
<1> QED
  BY <1>1, <1>2, <1>3, <1>4, <1>5, <1>6, <1>7
     DEF ControlNext, CommandStep, Approving, Verifying, Reviewing, Rerunning, ArtifactStep,
         RowStep

LEMMA InitCommand == ControlInit => CommandInv
<1> SUFFICES ASSUME ControlInit PROVE CommandInv
  OBVIOUS
<1>1. TypeInv
  BY InitTypes DEF ControlInit
<1>2. CommandTypes
  BY DEF ControlInit, CommandTypes, Steps, Rows
<1> QED
  BY <1>1, <1>2 DEF ControlInit, CommandInv, RunKnown, CarryKnown, Deferred

LEMMA NextCommand == CommandInv /\ [ControlNext]_allVars => CommandInv'
<1> SUFFICES ASSUME CommandInv, [ControlNext]_allVars PROVE CommandInv'
  OBVIOUS
<1>1. /\ TypeInv' /\ (row # "none" => row' # "none") /\ CommandMove
      /\ manifest' \in {"none", "ready", "blocked"} /\ overruled' \in BOOLEAN
  BY ControlKeepsTypes, CommandMoves
<1>0. CommandTypes /\ RunKnown /\ CarryKnown /\ row \in Rows /\ issued + 1 \in Nat
  BY DEF CommandInv, CommandTypes, TypeInv, TypeOK
<1>2. CASE UNCHANGED command
  BY <1>0, <1>1, <1>2 DEF command, CommandInv, CommandTypes, RunKnown, CarryKnown
<1>3. CASE \E s \in Steps \ {"saved"} : Advance(s)
  BY <1>0, <1>1, <1>3 DEF Advance, CommandInv, CommandTypes, RunKnown, CarryKnown
<1>4. CASE \E next \in {"none", "dead"} : Unlock(next)
  <2>1. /\ op' \in {"none", "dead"} /\ step' = "begin" /\ carry' = NoState /\ alone' = FALSE
        /\ seen' = [c \in Deferred |-> IF c = op THEN "none" ELSE seen[c]]
        /\ issued' = issued
    BY <1>4 DEF Unlock
  <2>2. seen' \in [Deferred -> Rows]
    BY <1>0, <2>1 DEF CommandTypes, Rows
  <2>3. CommandTypes'
    BY <1>0, <1>1, <2>1, <2>2 DEF CommandTypes, Steps
  <2>4. RunKnown' /\ CarryKnown'
    BY <1>0, <1>1, <2>1 DEF RunKnown, CarryKnown, Deferred
  <2> QED
    BY <1>1, <2>3, <2>4 DEF CommandInv
<1>5. CASE SaveApproved
  <2>1. /\ carry' \in State /\ carry'.status = "running"
        /\ carry'.stage \in {"create_execution_plan", "validate_execution_plan"}
    BY <1>5, ApprovedState
  <2>2. step' = "saved" /\ UNCHANGED <<op, seen, issued, alone>>
    BY <1>5 DEF SaveApproved
  <2> QED
    BY <1>0, <1>1, <2>1, <2>2 DEF CommandInv, CommandTypes, RunKnown, CarryKnown, Steps
<1>6. CASE \E c \in Controls : Take(c)
  <2>1. PICK c \in Controls : Take(c)
    BY <1>6
  <2>2. /\ op' = c /\ step' = "begin" /\ carry' = NoState /\ alone' \in BOOLEAN
        /\ issued' = issued + 1 /\ seen' = seen
    BY <2>1 DEF Take, Hold
  <2>3. row # "none"
    BY <2>1 DEF Take, Allowed, Controls
  <2> QED
    BY <1>0, <1>1, <2>2, <2>3 DEF CommandInv, CommandTypes, RunKnown, CarryKnown, Steps,
                                  Controls, Deferred
<1>7. CASE \E c \in Deferred : Ask(c) \/ TakeAsked(c) \/ Refuse(c)
  <2>1. PICK c \in Deferred : Ask(c) \/ TakeAsked(c) \/ Refuse(c)
    BY <1>7
  <2>2. CASE Ask(c)
    <3>1. /\ seen' = [seen EXCEPT ![c] = row] /\ issued' = issued + 1 /\ row # "none"
          /\ UNCHANGED <<op, step, carry, alone>> /\ seen[c] = "none"
      BY <2>2 DEF Ask
    <3>2. CommandTypes'
      BY <1>0, <1>1, <3>1 DEF CommandTypes
    <3>3. RunKnown' /\ CarryKnown'
      BY <1>0, <1>1, <3>1 DEF CommandTypes, RunKnown, CarryKnown
    <3> QED
      BY <1>1, <3>2, <3>3 DEF CommandInv
  <2>3. CASE TakeAsked(c)
    <3>1. /\ op' = c /\ step' = "begin" /\ carry' = NoState /\ alone' \in BOOLEAN
          /\ UNCHANGED <<seen, issued>> /\ seen[c] # "none"
      BY <2>3 DEF TakeAsked, Hold
    <3> QED
      BY <1>0, <1>1, <3>1 DEF CommandInv, CommandTypes, RunKnown, CarryKnown, Steps
  <2>4. CASE Refuse(c)
    <3>1. /\ seen' = [seen EXCEPT ![c] = "none"] /\ op # c
          /\ UNCHANGED <<op, step, carry, issued, alone>>
      BY <2>4 DEF Refuse
    <3>2. CommandTypes'
      BY <1>0, <1>1, <3>1 DEF CommandTypes, Rows
    <3>3. RunKnown' /\ CarryKnown'
      BY <1>0, <1>1, <3>1 DEF CommandTypes, RunKnown, CarryKnown
    <3> QED
      BY <1>1, <3>2, <3>3 DEF CommandInv
  <2> QED
    BY <2>1, <2>2, <2>3, <2>4
<1> QED
  BY <1>1, <1>2, <1>3, <1>4, <1>5, <1>6, <1>7 DEF CommandMove

LEMMA CommandInvariant == ControlSpec => []CommandInv
BY InitCommand, NextCommand, PTL DEF ControlSpec

(* Whatever commands are given to a run and whoever executes it meanwhile, *)
(* the run and the commands keep their types.                              *)
THEOREM ControlTypeCorrect == ControlSpec => []ControlTypeOK
<1>1. CommandInv => ControlTypeOK
  BY DEF CommandInv, CommandTypes, TypeInv, TypeOK, ControlTypeOK, Steps
<1> QED
  BY <1>1, CommandInvariant, PTL

-----------------------------------------------------------------------------
(* Halting and approving.  A step executes the run, or changes nothing but  *)
(* who has the lock and what the commands remember, or is one write of a   *)
(* command.                                                                *)
Executing == Process \/ (Resume /\ op = "none") \/ Run \/ DryRun \/ Crash \/ LockExpires

Ends(next) ==
    /\ Unlock(next)
    /\ \/ next = "dead" /\ (Working("review", "bundled") => overruled')
       \/ op = "dead" \/ step = "begin"

CommandOnly ==
    /\ UNCHANGED <<vars, manifest>>
    /\ \/ UNCHANGED command
       \/ \E next \in {"none", "dead"} : Ends(next)
       \/ \E c \in Controls : Take(c)
       \/ \E c \in Deferred : Ask(c) \/ TakeAsked(c) \/ Refuse(c)

LEMMA StepKinds ==
    ASSUME [ControlNext]_allVars
    PROVE  \/ Executing /\ UNCHANGED <<command, manifest>> /\ (Undoes => overruled')
           \/ CommandOnly
           \/ ArtifactStep \/ RowStep \/ SaveApproved \/ SaveApprovedThread
<1>1. CASE ProcessStep \/ ResumeRun \/ KillProcess \/ ((Run \/ DryRun \/ LockExpires) /\ Idle)
  <2>1. Executing /\ UNCHANGED <<command, manifest>>
    BY <1>1 DEF ProcessStep, ResumeRun, KillProcess, Idle, Executing
  <2>2. Undoes => overruled'
    BY <1>1 DEF ProcessStep, ResumeRun, KillProcess, Resume, Run, DryRun, LockExpires, Undoes
  <2> QED
    BY <2>1, <2>2
<1>2. CASE Begin
  <2>1. UNCHANGED <<vars, manifest>>
    BY <1>2 DEF Begin, Take, Ask, TakeAsked, Refuse
  <2> QED
    BY <1>2, <2>1 DEF Begin, CommandOnly
<1>3. CASE KillCommand \/ ExpireCommandLock \/ Fail
  BY <1>3 DEF KillCommand, ExpireCommandLock, Fail, CommandOnly, Ends
<1>4. CASE UNCHANGED allVars
  BY <1>4 DEF allVars, CommandOnly
<1> QED
  BY <1>1, <1>2, <1>3, <1>4 DEF ControlNext, CommandStep, Approving, Verifying, Reviewing,
     Rerunning, ArtifactStep, RowStep

(* A run that is known and executed by nobody is left alone or resumed.    *)
LEMMA IdleStep ==
    ASSUME Executing, pc = "idle", row # "none"
    PROVE  LockExpires \/ (Resume /\ op = "none")
<1>1. "idle" \notin Nodes
  BY DEF Nodes
<1>2. ~Process
  BY <1>1, GraphAtNode DEF Process, Start, Enter, ExceedRecursion, Finish, Exit
<1>3. ~Run /\ ~DryRun /\ ~Crash
  BY DEF Run, DryRun, Crash
<1> QED
  BY <1>2, <1>3 DEF Executing

(* What the writes of a command do to its own state.                       *)
LEMMA WritesAdvance ==
    ASSUME ArtifactStep
    PROVE  \/ Advance(step') /\ step' \notin {"spec_marked", "plan_marked", "saved"}
           \/ Unlock("none")
BY DEF ArtifactStep, ApproveSpecArtifact, RewriteVerificationPlan, ApprovePlanArtifact,
       RunGatesAgain, RequestToolChecks, RunToolChecks, ReviewGates, BundleEvidence, Release,
       EvaluateAgain, Advance

LEMMA RowWritesAdvance ==
    ASSUME RowStep
    PROVE  MarkApproved \/ Unlock("none")
BY DEF RowStep, SetStatus, Confirm, DecideVerify, DecideReview, RestoreStatus

LEMMA HoldAlone == HoldInv /\ [ControlNext]_allVars => AloneInv'
<1> SUFFICES ASSUME HoldInv, [ControlNext]_allVars, op' = "approve", alone'
             PROVE  /\ pc' = "idle"
                    /\ step' \in {"spec_marked", "plan_marked", "saved"} => row' = "running"
                    /\ step' = "saved" => wf' = carry'
  BY DEF AloneInv
<1>0. CommandInv /\ TypeInv /\ RunKnown /\ (op = "approve" /\ alone => pc = "idle")
  BY DEF HoldInv, CommandInv, AloneInv
<1>1. CASE Executing /\ UNCHANGED <<command, manifest>>
  <2>1. op = "approve" /\ alone /\ pc = "idle" /\ UNCHANGED <<step, carry>>
    BY <1>0, <1>1 DEF command
  <2>2. LockExpires
    BY <1>0, <1>1, <2>1, IdleStep DEF RunKnown
  <2> QED
    BY <2>1, <2>2 DEF LockExpires, HoldInv, AloneInv, control, saved
<1>2. CASE CommandOnly
  <2>1. UNCHANGED vars
    BY <1>2 DEF CommandOnly
  <2>2. CASE UNCHANGED command \/ \E c \in Deferred : Ask(c) \/ Refuse(c)
    BY <2>1, <2>2 DEF Ask, Refuse, command, vars, control, saved, HoldInv, AloneInv
  <2>3. ~(\E next \in {"none", "dead"} : Ends(next))
    BY DEF Ends, Unlock
  <2>4. ~(\E c \in Deferred : TakeAsked(c))
    BY DEF TakeAsked, Hold, Deferred
  <2>5. CASE \E c \in Controls : Take(c)
    BY <2>1, <2>5 DEF Take, Hold, vars, control
  <2> QED
    BY <1>2, <2>2, <2>3, <2>4, <2>5 DEF CommandOnly
<1>3. CASE ArtifactStep
  <2>1. PICK S \in SUBSET Names : ArtifactWritten(S)
    BY <1>0, <1>3, ArtifactShapes
  <2> QED
    BY <1>0, <1>3, <2>1, WritesAdvance DEF Advance, Unlock, ArtifactWritten, Background, control
<1>4. CASE RowStep
  <2>1. MarkApproved
    BY <1>4, RowWritesAdvance DEF Unlock
  <2>2. row' = "running" /\ step' \in {"plan_marked", "spec_marked"} /\ UNCHANGED <<op, alone>>
    BY <2>1 DEF MarkApproved, Advance
  <2>3. pc' = pc
    BY <1>0, <1>4, RowShapes DEF RowWritten, Background, control
  <2> QED
    BY <1>0, <2>2, <2>3
<1>5. CASE SaveApproved
  BY <1>0, <1>5, ApprovedState DEF Background, control, SaveApproved
<1>6. CASE SaveApprovedThread
  BY <1>6 DEF SaveApprovedThread, Unlock
<1> QED
  BY <1>1, <1>2, <1>3, <1>4, <1>5, <1>6, StepKinds

LEMMA HoldNotHalted == HoldInv /\ [ControlNext]_allVars => NotHalted'
<1> SUFFICES ASSUME HoldInv, [ControlNext]_allVars, op' \in Controls
             PROVE  row' \notin {"paused", "stopped"}
  BY DEF NotHalted
<1>0. CommandInv /\ TypeInv /\ (op \in Controls => row \notin {"paused", "stopped"})
  BY DEF HoldInv, CommandInv, NotHalted
<1>1. {"none", "dead"} \cap Controls = {} /\ Deferred \cap Controls = {}
  BY DEF Controls, Deferred
<1>2. CASE Executing /\ UNCHANGED <<command, manifest>>
  <2>1. [Next]_vars
    BY <1>2 DEF Executing, Next
  <2>2. row' \in Statuses \cup {row, "approved"}
    BY <1>0, <2>1, StatusSteps DEF ApproveRun
  <2> QED
    BY <1>0, <1>2, <2>2 DEF command, Statuses
<1>3. CASE CommandOnly
  <2>1. row' = row
    BY <1>3 DEF CommandOnly, vars, saved
  <2>2. op' = op \/ op' \in Deferred \cup {"none", "dead"} \/ Take(op')
    BY <1>3 DEF CommandOnly, command, Ends, Unlock, Take, Hold, Ask, TakeAsked, Refuse
  <2>3. CASE Take(op')
    BY <2>1, <2>3 DEF Take, Allowed, Controls
  <2> QED
    BY <1>0, <1>1, <2>1, <2>2, <2>3
<1>4. CASE ArtifactStep
  <2>1. PICK S \in SUBSET Names : ArtifactWritten(S)
    BY <1>0, <1>4, ArtifactShapes
  <2> QED
    BY <1>0, <1>1, <1>4, <2>1, WritesAdvance DEF Advance, Unlock, ArtifactWritten, saved
<1>5. CASE RowStep
  BY <1>1, <1>5, RowWritesAdvance DEF MarkApproved, Unlock
<1>6. CASE SaveApproved
  BY <1>0, <1>6, ApprovedState
<1>7. CASE SaveApprovedThread
  BY <1>1, <1>7 DEF SaveApprovedThread, Unlock
<1> QED
  BY <1>2, <1>3, <1>4, <1>5, <1>6, <1>7, StepKinds

LEMMA HoldInvariant == ControlSpec => []HoldInv
<1>1. ControlInit => HoldInv
  BY InitCommand DEF ControlInit, HoldInv, AloneInv, NotHalted, Controls
<1>2. HoldInv /\ [ControlNext]_allVars => HoldInv'
  BY NextCommand, HoldAlone, HoldNotHalted DEF HoldInv
<1> QED
  BY <1>1, <1>2, PTL DEF ControlSpec

LEMMA HaltedStep == HoldInv /\ [ControlNext]_allVars /\ Halted => Halted' /\ row' = row
<1> SUFFICES ASSUME HoldInv, [ControlNext]_allVars, Halted PROVE Halted' /\ row' = row
  OBVIOUS
<1>0. /\ CommandInv /\ TypeInv /\ CommandTypes /\ RunKnown /\ op \notin Controls
      /\ row \in {"paused", "stopped"} /\ pc = "idle"
      /\ \A c \in Deferred : seen[c] \in {"none", row}
  BY DEF HoldInv, CommandInv, NotHalted, Halted
<1>1. {"approve", "pause", "stop", "verify", "review"} = Controls
  BY DEF Controls
<1>2. SUFFICES /\ UNCHANGED <<row, pc>>
               /\ \A c \in Deferred : seen'[c] \in {"none", row}
  BY <1>0, <1>2 DEF Halted
<1>3. ASSUME UNCHANGED seen \/ (\E next \in {"none", "dead"} : Unlock(next))
      PROVE  \A c \in Deferred : seen'[c] \in {"none", row}
  BY <1>0, <1>3 DEF Unlock
<1>4. CASE Executing /\ UNCHANGED <<command, manifest>>
  <2>1. LockExpires
    BY <1>0, <1>4, IdleStep DEF Resume
  <2> QED
    BY <1>3, <1>4, <2>1 DEF LockExpires, control, saved, command
<1>5. CASE CommandOnly
  <2>1. UNCHANGED <<row, pc>>
    BY <1>5 DEF CommandOnly, vars, saved, control
  <2>2. CASE \E c \in Deferred : Ask(c) \/ Refuse(c)
    <3>1. PICK c \in Deferred : seen' \in {[seen EXCEPT ![c] = row], [seen EXCEPT ![c] = "none"]}
      BY <2>2 DEF Ask, Refuse
    <3>2. \A d \in Deferred : seen'[d] \in {seen[d], row, "none"}
      BY <1>0, <3>1 DEF CommandTypes
    <3> QED
      BY <1>0, <2>1, <3>2
  <2>3. CASE UNCHANGED seen \/ (\E next \in {"none", "dead"} : Unlock(next))
    BY <1>3, <2>1, <2>3
  <2>4. \/ UNCHANGED seen \/ (\E next \in {"none", "dead"} : Unlock(next))
        \/ \E c \in Deferred : Ask(c) \/ Refuse(c)
    BY <1>5 DEF CommandOnly, command, Ends, Take, TakeAsked
  <2> QED
    BY <2>2, <2>3, <2>4
<1>6. CASE ArtifactStep
  <2>1. PICK S \in SUBSET Names : ArtifactWritten(S)
    BY <1>0, <1>6, ArtifactShapes
  <2>2. UNCHANGED seen \/ Unlock("none")
    BY <1>6, WritesAdvance DEF Advance
  <2> QED
    BY <1>3, <2>1, <2>2 DEF ArtifactWritten, Background, control, saved
<1>7. CASE RowStep
  <2>1. RestoreStatus /\ op \in Deferred
    BY <1>0, <1>1, <1>7 DEF RowStep, SetStatus, MarkApproved, Confirm, DecideVerify,
       DecideReview, RestoreStatus, Working, Deferred
  <2>2. row' = row /\ Unlock("none")
    BY <1>0, <2>1 DEF RestoreStatus, RunKnown
  <2>3. pc' = pc
    BY <1>0, <1>7, RowShapes DEF RowWritten, Background, control
  <2> QED
    BY <1>3, <2>2, <2>3
<1>8. ~SaveApproved /\ ~SaveApprovedThread
  BY <1>0, <1>1 DEF SaveApproved, SaveApprovedThread, Working
<1> QED
  BY <1>4, <1>5, <1>6, <1>7, <1>8, StepKinds

(* A run that was paused or stopped while nothing executes it stays so,    *)
(* whatever commands are given: resume refuses it, approve, verify and     *)
(* review are not let in, and a rerun that remembers no other status       *)
(* writes back the one it has (cli.py CONTROL_ALLOWED_STATUSES,            *)
(* RunService.resume, control_service.py).                                 *)
THEOREM HaltedRunsStayHalted == ControlSpec => StaysHalted
<1>1. HoldInv /\ [ControlNext]_allVars => [Halted => Halted' /\ row' = row]_allVars
  BY HaltedStep
<1> QED
  BY <1>1, HoldInvariant, PTL DEF ControlSpec, StaysHalted

LEMMA ApprovalStep ==
    HoldInv /\ [ControlNext]_allVars /\ Working("approve", "saved") /\ alone /\ op' = "none" =>
        /\ row' = "running" /\ Remembered'.status = "running"
        /\ Remembered'.stage \in {"create_execution_plan", "validate_execution_plan"}
<1> SUFFICES ASSUME HoldInv, [ControlNext]_allVars, Working("approve", "saved"), alone,
                    op' = "none"
             PROVE  /\ row' = "running" /\ Remembered'.status = "running"
                    /\ Remembered'.stage \in {"create_execution_plan", "validate_execution_plan"}
  OBVIOUS
<1>0. /\ CommandInv /\ TypeOK /\ row = "running" /\ wf = carry /\ op = "approve" /\ step = "saved"
      /\ carry \in State /\ carry.status = "running"
      /\ carry.stage \in {"create_execution_plan", "validate_execution_plan"}
  BY DEF HoldInv, CommandInv, CarryKnown, AloneInv, TypeInv, Working
<1>1. ~(UNCHANGED <<command, manifest>>)
  BY <1>0 DEF command
<1>2. ~CommandOnly
  BY <1>0 DEF CommandOnly, command, Ends, Unlock, Take, Ask, TakeAsked, Refuse, Hold,
              Controls, Deferred
<1>3. ~ArtifactStep /\ ~SaveApproved
  BY <1>0 DEF ArtifactStep, ApproveSpecArtifact, RewriteVerificationPlan, ApprovePlanArtifact,
     RunGatesAgain, RequestToolChecks, RunToolChecks, ReviewGates, BundleEvidence, Release,
     EvaluateAgain, SaveApproved, Working
<1>4. ~RowStep
  BY <1>0 DEF RowStep, SetStatus, MarkApproved, SpecRewritten, Confirm, DecideVerify,
     DecideReview, RestoreStatus, Working
<1>5. SaveLangGraph(carry) /\ UNCHANGED <<row, wf>>
  BY <1>1, <1>2, <1>3, <1>4, StepKinds DEF SaveApprovedThread
<1>6. /\ lg' \in State \cup {NoState}
      /\ SaverAvailable => lg' \in State /\ lg'.stage = carry.stage /\ lg'.status = carry.status
  BY <1>0, <1>5, SaveLangGraphType
<1>7. Remembered' = IF SaverAvailable /\ lg' # NoState THEN lg' ELSE wf'
  BY DEF Remembered
<1>8. CASE SaverAvailable
  BY <1>0, <1>5, <1>6, <1>7, <1>8, NoStateAssumption
<1>9. CASE ~SaverAvailable
  BY <1>0, <1>5, <1>7, <1>9
<1> QED
  BY <1>8, <1>9

(* An approval that met no process takes hold in the row, the workflow     *)
(* checkpoint and the LangGraph thread, although they are written one      *)
(* after the other (cli.py _approve_run, _approve_spec_if_required).       *)
THEOREM ApprovalsTakeHold == ControlSpec => ApprovalTakesHold
<1>1. HoldInv /\ [ControlNext]_allVars =>
         [Working("approve", "saved") /\ alone /\ op' = "none" =>
              /\ row' = "running" /\ Remembered'.status = "running"
              /\ Remembered'.stage \in {"create_execution_plan", "validate_execution_plan"}]_allVars
  BY ApprovalStep
<1> QED
  BY <1>1, HoldInvariant, PTL DEF ControlSpec, ApprovalTakesHold

-----------------------------------------------------------------------------
(* What a bundle and a manifest say.  Every step writes some artifacts and  *)
(* makes stale what cites them; only the two builders write the bundle,    *)
(* and only they and release change what bundle and manifest say.          *)
Writes(S) ==
    /\ FilesMove(S) /\ OutcomesMove(S)
    /\ "evidence" \in S => BuildEvidence
    /\ "release" \notin S

LEMMA QuietWrites ==
    ASSUME UNCHANGED <<files, stale, doc>>
    PROVE  Writes({})
BY DEF Writes, FilesMove, OutcomesMove

LEMMA GraphWrites ==
    ASSUME TypeInv, Graph
    PROVE  \E S \in SUBSET Names : Writes(S)
<1> USE NamesKnown
<1>0. doc \in Document
  BY DEF TypeInv, TypeOK
<1>1. ASSUME NEW a \in Names \ {"evidence", "release"}, Write({a}), doc' = doc
      PROVE  Writes({a})
  BY <1>1 DEF Writes, Write, FilesMove, OutcomesMove
<1>2. ASSUME UNCHANGED <<files, stale, doc>>
      PROVE  \E S \in SUBSET Names : Writes(S)
  BY <1>2, QuietWrites
<1>3. CASE CollectGoal \/ InspectRepository \/ CreateVerificationPlan \/ IntegrateChanges
  <2>1. ASSUME NEW node, NEW a, NEW stage, NEW next, Record(node, a, stage, next)
        PROVE  \E S \in SUBSET Names : Writes(S)
    BY <1>2, <2>1 DEF Record, Leave
  <2>2. ASSUME NEW node, NEW a \in {"goal", "snapshot", "vplan", "integration"},
               Produce(node, a)
        PROVE  \E S \in SUBSET Names : Writes(S)
    BY <1>1, <2>2 DEF Produce
  <2> QED
    BY <1>3, <2>1, <2>2 DEF CollectGoal, InspectRepository, CreateVerificationPlan,
                            IntegrateChanges
<1>4. CASE DraftSpec \/ ValidateSpec \/ ValidateExecutionPlan
  <2>1. CASE WriteSpec
    <3>1. Writes({"spec"})
      BY <1>0, <2>1 DEF WriteSpec, Writes, Write, FilesMove, OutcomesMove, Document
    <3> QED
      BY <3>1
  <2> QED
    BY <1>2, <1>4, <2>1 DEF DraftSpec, ReuseSpec, StopForSpecApproval, AcceptSpec, Leave,
       ValidateSpec, ValidateExecutionPlan, ValidateStage
<1>5. CASE CreateExecutionPlan
  <2>1. CASE WritePlan
    <3>1. Writes({"plan"})
      BY <1>0, <2>1 DEF WritePlan, Writes, Write, FilesMove, OutcomesMove, Document
    <3> QED
      BY <3>1
  <2>2. CASE WriteMissingVerificationPlan
    BY <1>1, <2>2 DEF WriteMissingVerificationPlan
  <2> QED
    BY <1>2, <1>5, <2>1, <2>2 DEF CreateExecutionPlan, DecidePlan
<1>6. CASE MaterializeTasks \/ DispatchTasks
  <2>1. ASSUME NEW t \in Tasks, RunWorker(t)
        PROVE  Writes({})
    BY <2>1 DEF RunWorker, Writes, FilesMove, OutcomesMove
  <2>2. ASSUME NEW t \in Tasks, DispatchTask(t), ~RunWorker(t)
        PROVE  UNCHANGED <<files, stale, doc>>
    BY <2>2 DEF DispatchTask, WriteTask, WriteWorkerRequest, WriteWorkerResult, RecordDispatch,
                RecordCompletion, ApplyPatch
  <2> QED
    BY <1>2, <1>6, <2>1, <2>2 DEF MaterializeTasks, DispatchTasks, BeginDispatch, StopDispatch,
       FinishDispatch, Leave
<1>7. CASE RunQualityGates
  <2>1. CASE RunGates
    <3>1. Writes({"gate"})
      BY <1>0, <2>1 DEF RunGates, Writes, Write, FilesMove, OutcomesMove, Document
    <3> QED
      BY <3>1
  <2>2. CASE RequestToolCheck \/ RunToolCheck
    BY <1>1, <2>2 DEF RequestToolCheck, RunToolCheck
  <2> QED
    BY <1>2, <1>7, <2>1, <2>2 DEF RunQualityGates, DecideGates, Leave
<1>8. CASE EvaluateSatisfaction
  <2>1. CASE EvaluateGoalSatisfaction
    <3>1. Writes({"sat"})
      BY <1>0, <2>1 DEF EvaluateGoalSatisfaction, Writes, Write, FilesMove, OutcomesMove, Document
    <3> QED
      BY <3>1
  <2> QED
    BY <1>2, <1>8, <2>1 DEF EvaluateSatisfaction, DecideSatisfaction, Leave
<1>9. CASE RunIndependentReview
  <2>1. CASE RunReview
    <3>1. Writes({"review"})
      BY <1>0, <2>1 DEF RunReview, Writes, Write, FilesMove, OutcomesMove, Document
    <3> QED
      BY <3>1
  <2> QED
    BY <1>2, <1>9, <2>1 DEF RunIndependentReview, RecordReview, Leave
<1>10. CASE RepairFailure
  BY <1>2, <1>10 DEF RepairFailure, ReuseRepairResult, BeginRepair, RunRepairWorker,
     WriteRepairResult, RecordRepair, Leave
<1>11. CASE PrepareEvidence
  <2>1. CASE BuildEvidence
    <3>1. Writes({"evidence"})
      BY <1>0, <2>1 DEF BuildEvidence, Writes, Write, FilesMove, OutcomesMove, Document
    <3> QED
      BY <3>1
  <2> QED
    BY <1>2, <1>11, <2>1 DEF PrepareEvidence, RecordEvidence, Leave
<1> QED
  BY <1>3, <1>4, <1>5, <1>6, <1>7, <1>8, <1>9, <1>10, <1>11 DEF Graph

LEMMA ExecutionWrites ==
    ASSUME TypeInv, Executing
    PROVE  \E S \in SUBSET Names : Writes(S)
<1>1. CASE Graph
  BY <1>1, GraphWrites
<1>2. CASE DryRun
  <2>1. Writes({"goal", "snapshot", "spec", "vplan", "plan"})
    BY <1>2 DEF DryRun, Writes, Write, FilesMove, OutcomesMove, TypeInv, TypeOK, Document
  <2> QED
    BY <2>1, NamesKnown
<1>3. CASE Start \/ Enter \/ ExceedRecursion \/ Finish \/ Exit \/ Run \/ Resume \/ Crash
             \/ LockExpires
  <2>1. UNCHANGED <<files, stale, doc>>
    BY <1>3 DEF Start, Enter, ExceedRecursion, Finish, Exit, Run, Resume, Crash, LockExpires
  <2> QED
    BY <2>1, QuietWrites
<1> QED
  BY <1>1, <1>2, <1>3 DEF Executing, Process

(* What a step writes, whoever makes it.                                   *)
WritesAny(S) ==
    /\ FilesMove(S) /\ OutcomesMove(S)
    /\ "evidence" \in S => BuildEvidence \/ BundleEvidence
    /\ "release" \in S => Release
    /\ "release" \notin S => manifest' = manifest

LEMMA StepWrites ==
    ASSUME CommandInv, [ControlNext]_allVars
    PROVE  \E S \in SUBSET Names : WritesAny(S)
<1>0. TypeInv
  BY DEF CommandInv
<1>1. CASE Executing /\ UNCHANGED <<command, manifest>>
  <2>1. PICK S \in SUBSET Names : Writes(S)
    BY <1>0, <1>1, ExecutionWrites
  <2>2. WritesAny(S)
    BY <1>1, <2>1 DEF Writes, WritesAny
  <2> QED
    BY <2>2
<1>2. CASE ArtifactStep
  <2>1. PICK S \in SUBSET Names : ArtifactWritten(S)
    BY <1>0, <1>2, ArtifactShapes
  <2>2. WritesAny(S)
    BY <2>1 DEF ArtifactWritten, WritesAny, Write, FilesMove
  <2> QED
    BY <2>2
<1>3. CASE CommandOnly \/ RowStep \/ SaveApproved \/ SaveApprovedThread
  <2>1. UNCHANGED <<files, stale, doc, manifest>>
    BY <1>3, RowShapes, ApprovedState
       DEF CommandOnly, vars, RowWritten, SaveApprovedThread, Keep
  <2>2. WritesAny({})
    BY <2>1, QuietWrites DEF Writes, WritesAny
  <2> QED
    BY <2>2
<1> QED
  BY <1>1, <1>2, <1>3, StepKinds

LEMMA BundleCites ==
    /\ {"gate", "review"} \subseteq Cited("evidence")
    /\ doc.satCited => "sat" \in Cited("evidence")
    /\ Cited("release") = {"evidence"}
BY DEF Cited, Inputs

LEMMA FreshBundleStep ==
    CommandInv /\ FreshBundleIsTrue /\ [ControlNext]_allVars => FreshBundleIsTrue'
<1> SUFFICES ASSUME CommandInv, FreshBundleIsTrue, [ControlNext]_allVars,
                    "evidence" \in files' \ stale', doc'.ready
             PROVE  /\ doc'.gate /\ doc'.review # "blocking"
                    /\ doc'.satCited => doc'.sat = "satisfied"
  BY DEF FreshBundleIsTrue
<1>0. doc \in Document
  BY DEF CommandInv, TypeInv, TypeOK
<1>1. PICK S \in SUBSET Names : WritesAny(S)
  BY StepWrites
<1>2. CASE "evidence" \notin S
  <2>1. /\ "evidence" \in files \ stale /\ Cited("evidence") \cap S = {}
        /\ doc'.ready = doc.ready /\ doc'.satCited = doc.satCited
    BY <1>1, <1>2 DEF WritesAny, FilesMove, OutcomesMove
  <2>2. "gate" \notin S /\ "review" \notin S /\ (doc.satCited => "sat" \notin S)
    BY <2>1, BundleCites
  <2> QED
    BY <1>1, <2>1, <2>2 DEF WritesAny, OutcomesMove, FreshBundleIsTrue
<1>3. CASE BuildEvidence
  BY <1>0, <1>3 DEF BuildEvidence, EvidenceReady, Document
<1>4. CASE BundleEvidence
  <2>1. PICK patches \in BOOLEAN :
           doc' = [doc EXCEPT !.ready = BundleReady(patches), !.satCited = FALSE]
    BY <1>4 DEF BundleEvidence
  <2> QED
    BY <1>0, <2>1 DEF BundleReady, Document
<1> QED
  BY <1>1, <1>2, <1>3, <1>4 DEF WritesAny

LEMMA ManifestStep ==
    CommandInv /\ ManifestMatchesBundle /\ [ControlNext]_allVars => ManifestMatchesBundle'
<1> SUFFICES ASSUME CommandInv, ManifestMatchesBundle, [ControlNext]_allVars,
                    "release" \in files' \ stale'
             PROVE  manifest' = "ready" <=> doc'.ready
  BY DEF ManifestMatchesBundle
<1>0. doc \in Document
  BY DEF CommandInv, TypeInv, TypeOK
<1>1. PICK S \in SUBSET Names : WritesAny(S)
  BY StepWrites
<1>2. CASE "release" \notin S
  <2>1. "release" \in files \ stale /\ "evidence" \notin S /\ manifest' = manifest
    BY <1>1, <1>2, BundleCites DEF WritesAny, FilesMove
  <2> QED
    BY <1>1, <2>1 DEF WritesAny, OutcomesMove, ManifestMatchesBundle
<1>3. CASE Release
  BY <1>0, <1>3 DEF Release, Keep, Document
<1> QED
  BY <1>1, <1>2, <1>3 DEF WritesAny

(* Whoever wrote the bundle - prepare_evidence or `review` - and whatever   *)
(* the process and the commands rewrote since: as long as nothing the      *)
(* bundle cites was rewritten, a bundle that says ready is right           *)
(* (evidence_service.py, artifacts/validator.py).                          *)
THEOREM FreshBundlesTrue == ControlSpec => []FreshBundleIsTrue
<1>1. ControlInit => FreshBundleIsTrue
  BY DEF ControlInit, Init, FreshBundleIsTrue
<1> QED
  BY <1>1, CommandInvariant, FreshBundleStep, PTL DEF ControlSpec

(* A release manifest says what the bundle it was made from says, although *)
(* release read the status of the run before it had the lock (cli.py       *)
(* release_run, release_service.py).                                       *)
THEOREM ManifestsTrue == ControlSpec => []ManifestMatchesBundle
<1>1. ControlInit => ManifestMatchesBundle
  BY DEF ControlInit, Init, ManifestMatchesBundle
<1> QED
  BY <1>1, CommandInvariant, ManifestStep, PTL DEF ControlSpec

-----------------------------------------------------------------------------
(* What the workflow guarantees by itself survives the commands.           *)

LEMMA ResultsStay ==
    ASSUME TypeInv, [Next]_vars
    PROVE  WithResult \subseteq WithResult'
<1>1. taskFile \in [Tasks -> TaskFiles]
  BY DEF TypeInv, TypeOK
<1>2. CASE taskFile' = taskFile
  BY <1>2 DEF WithResult
<1>3. ASSUME NEW t \in Tasks, WriteTask(t) \/ WriteWorkerRequest(t)
      PROVE  WithResult \subseteq WithResult'
  <2>1. \/ taskFile' = taskFile
        \/ /\ taskFile[t] \notin Results
           /\ \E f \in {"task", "request"} : taskFile' = [taskFile EXCEPT ![t] = f]
    BY <1>3 DEF WriteTask, WriteWorkerRequest, Results
  <2> QED
    BY <1>1, <2>1 DEF WithResult
<1>4. ASSUME NEW t \in Tasks, WriteWorkerResult(t) \/ ApplyPatch(t)
      PROVE  WithResult \subseteq WithResult'
  <2>1. taskFile' = taskFile \/ \E f \in Results : taskFile' = [taskFile EXCEPT ![t] = f]
    BY <1>4 DEF WriteWorkerResult, ApplyPatch, Results
  <2> QED
    BY <1>1, <2>1 DEF WithResult
<1> QED
  BY <1>2, <1>3, <1>4, Writers DEF TaskFileWritten

(* A write of a command, seen from the workflow.                           *)
Beside ==
    /\ UNCHANGED <<pc, phase, mem, work, taskFile, wf, lg>>
    /\ Kept /\ DiskKept /\ files' \cap Foundations = files \cap Foundations
    /\ doc'.strategy = doc.strategy
    /\ doc'.specRequired = doc.specRequired /\ doc'.planRequired = doc.planRequired

LEMMA FoundationsKept ==
    ASSUME files' \cap Foundations = files \cap Foundations
    PROVE  /\ Ordered(files) => Ordered(files')
           /\ PlanAfterSpec => PlanAfterSpec'
           /\ \A a \in Foundations : a \in files' <=> a \in files
<1>1. \A a \in Foundations : a \in files' <=> a \in files
  OBVIOUS
<1>2. {"goal", "snapshot", "spec", "vplan", "plan", "integration"} \subseteq Foundations
  BY DEF Foundations
<1> QED
  BY <1>1, <1>2 DEF Ordered, PlanAfterSpec

LEMMA CommandBeside ==
    ASSUME CommandInv, RequiredOnDisk, ArtifactStep \/ RowStep
    PROVE  Beside
<1>0. TypeInv
  BY DEF CommandInv
<1>1. CASE ArtifactStep
  <2>1. PICK S \in SUBSET Names : ArtifactWritten(S)
    BY <1>0, <1>1, ArtifactShapes
  <2>2. /\ UNCHANGED <<pc, phase, mem, work, taskFile, wf, lg>> /\ files' = files \cup S
        /\ S \cap Foundations \subseteq files
    BY <2>1 DEF ArtifactWritten, Background, control, saved, Write
  <2>3. /\ doc'.strategy = doc.strategy
        /\ doc'.specRequired = doc.specRequired /\ (doc.specApproved => doc'.specApproved)
        /\ doc'.planRequired = doc.planRequired /\ (doc.planApproved => doc'.planApproved)
    BY <2>1 DEF ArtifactWritten
  <2>4. Kept
    BY <2>2, <2>3 DEF Kept, RequiredOnDisk, SpecAllows, SpecNeedsApproval, PlanAllows
  <2>5. DiskKept
    BY <2>2 DEF DiskKept, WithResult
  <2> QED
    BY <2>2, <2>3, <2>4, <2>5 DEF Beside
<1>2. CASE RowStep
  <2>1. RowWritten
    BY <1>2, RowShapes
  <2>2. UNCHANGED <<pc, phase, mem, work, taskFile, wf, lg, files, doc>>
    BY <2>1 DEF RowWritten, Background, control
  <2> QED
    BY <2>2, QuietStill, SameDisk DEF Beside
<1> QED
  BY <1>1, <1>2

LEMMA BesideDelivery ==
    ASSUME DeliveryInv, TypeInv', Beside
    PROVE  DeliveryInv'
<1>0. OnDiskInv /\ files \subseteq files'
  BY DEF DeliveryInv, Beside, DiskKept
<1>1. OnDiskInv'
  <2>1. StatesOnDisk' /\ WorkOnDisk'
    BY <1>0, StatesStill, WorkStill DEF Beside
  <2>2. WrittenOnDisk'
    BY <1>0 DEF OnDiskInv, WrittenOnDisk, Beside
  <2> QED
    BY <2>1, <2>2 DEF OnDiskInv
<1>2. MadeInOrder'
  BY FoundationsKept DEF Beside, DeliveryInv, MadeInOrder
<1>3. StatesMayEnter' /\ PlaceStands'
  BY <1>0, EnterMonotone, StandsMonotone DEF Beside, DeliveryInv, StatesMayEnter, PlaceStands
<1> QED
  BY <1>1, <1>2, <1>3 DEF Beside, DeliveryInv, DoneIsKnown, Sequential, EndsDecided

(* What approve saves, in the checkpoint and then in the thread.           *)
CarryStands ==
    /\ carry \in State /\ carry.status = "running" /\ NamesDisk(carry) /\ SpecAllows
    /\ carry.stage \in {"create_execution_plan", "validate_execution_plan"}
    /\ carry.stage = "validate_execution_plan" => PlanAllows

LEMMA CarryEnters == CarryStands => MayEnter(carry, files) /\ AllowedState(carry)
<1> SUFFICES ASSUME CarryStands PROVE MayEnter(carry, files) /\ AllowedState(carry)
  OBVIOUS
<1>1. carry.stage \in Nodes \ {"prepare_evidence"}
  BY DEF CarryStands, Nodes
<1>2. Stands(carry.stage, carry, files)
  BY StandsKnown DEF CarryStands, SpecAllows, PlanAllows
<1> QED
  BY <1>1, <1>2, EnterNode DEF CarryStands, AllowedState, Permitted

LEMMA SavedCarry ==
    ASSUME OrderInv, SaveApproved
    PROVE  CarryStands'
<1>0. CommandInv /\ DeliveryInv /\ ApproveProgress /\ op = "approve" /\ TypeOK
  BY DEF OrderInv, SaveApproved, CommandInv, TypeInv
<1>1. /\ carry' \in State /\ carry'.status = "running"
      /\ carry' = IF step = "spec_marked" THEN ResumeAt("create_execution_plan", "spec")
                  ELSE ResumeAt("validate_execution_plan", "plan")
      /\ carry'.stage = IF step = "spec_marked" THEN "create_execution_plan"
                        ELSE "validate_execution_plan"
      /\ UNCHANGED <<files, doc, taskFile>>
  BY <1>0, ApprovedState DEF Background
<1>2. SpecAllows /\ (step # "spec_marked" => PlanAllows)
  BY <1>0 DEF ApproveProgress, SaveApproved
<1>3. Remembered \in State /\ NamesDisk(Remembered)
  <2>1. Remembered # NoState
    BY <1>0 DEF CommandInv, RunKnown, TypeInv, RowIsSaved, Remembered
  <2> QED
    BY <1>0, <2>1, RememberedType DEF Remembered, DeliveryInv, OnDiskInv, StatesOnDisk
<1>4. ASSUME NEW stage, NEW a \in files, carry' = ResumeAt(stage, a)
      PROVE  NamesDisk(carry')
  BY <1>3, <1>4 DEF ResumeAt, NamesDisk, NamesOnly, State
<1>5. NamesDisk(carry')
  BY <1>1, <1>2, <1>4 DEF SpecAllows, PlanAllows
<1>6. NamesDisk(carry)' /\ SpecAllows' /\ (PlanAllows' <=> PlanAllows)
  BY <1>1, <1>2, <1>5 DEF NamesDisk, WithResult, SpecAllows, SpecNeedsApproval, PlanAllows
<1> QED
  BY <1>1, <1>2, <1>6 DEF CarryStands

LEMMA KnownCarry ==
    ASSUME OrderInv, Working("approve", "saved")
    PROVE  CarryStands
BY DEF OrderInv, CommandInv, CarryKnown, ApproveProgress, Working, CarryStands

LEMMA SaveDelivery ==
    ASSUME OrderInv, SaveApproved, TypeInv'
    PROVE  DeliveryInv' /\ RequiredOnDisk'
<1>0. /\ DeliveryInv /\ OnDiskInv /\ RequiredOnDisk
      /\ UNCHANGED <<pc, phase, mem, work, taskFile, lg, files, doc>> /\ wf' = carry'
  BY ApprovedState DEF OrderInv, DeliveryInv, Background, control
<1>1. CarryStands' /\ MayEnter(carry, files)' /\ NamesDisk(carry)'
  <2>1. CarryStands'
    BY SavedCarry
  <2>2. CarryStands' => MayEnter(carry, files)'
    BY CarryEnters, PTL
  <2> QED
    BY <2>1, <2>2 DEF CarryStands
<1>2. StatesOnDisk'
  BY <1>0, <1>1 DEF OnDiskInv, StatesOnDisk, NamesDisk, WithResult
<1>3. OnDiskInv'
  BY <1>0, <1>2 DEF OnDiskInv, WrittenOnDisk, WorkOnDisk, WithResult
<1>4. StatesMayEnter'
  BY <1>0, <1>1 DEF DeliveryInv, StatesMayEnter
<1> QED
  BY <1>0, <1>3, <1>4 DEF DeliveryInv, MadeInOrder, PlaceStands, DoneIsKnown, Sequential,
                          EndsDecided, RequiredOnDisk

LEMMA ThreadDelivery ==
    ASSUME OrderInv, SaveApprovedThread, TypeInv'
    PROVE  DeliveryInv' /\ RequiredOnDisk'
<1>0. /\ DeliveryInv /\ OnDiskInv /\ RequiredOnDisk
      /\ UNCHANGED <<pc, phase, mem, work, taskFile, wf, files, doc>> /\ SaveLangGraph(carry)
  BY DEF OrderInv, DeliveryInv, SaveApprovedThread, Keep, control
<1>1. CarryStands /\ MayEnter(carry, files) /\ carry \in State /\ NamesDisk(carry)
  BY KnownCarry, CarryEnters DEF SaveApprovedThread, CarryStands
<1>2. DiskKept
  BY <1>0, SameDisk
<1>3. lg' # NoState => NamesDisk(lg)'
  BY <1>0, <1>1, <1>2, ThreadNames DEF NamesDisk, WithResult
<1>4. StatesOnDisk'
  BY <1>0, <1>3 DEF OnDiskInv, StatesOnDisk, NamesDisk, WithResult
<1>5. OnDiskInv'
  BY <1>0, <1>4 DEF OnDiskInv, WrittenOnDisk, WorkOnDisk, WithResult
<1>6. lg' # NoState => MayEnter(lg', files)
  BY <1>0, <1>1, <1>5, ThreadEnters
<1>7. StatesMayEnter'
  BY <1>0, <1>6 DEF DeliveryInv, StatesMayEnter
<1> QED
  BY <1>0, <1>5, <1>7 DEF DeliveryInv, MadeInOrder, PlaceStands, DoneIsKnown, Sequential,
                          EndsDecided, RequiredOnDisk

-----------------------------------------------------------------------------
(* The order of the writes, whoever makes them: OrderInv is inductive.     *)

LEMMA WorkflowOrder ==
    ASSUME OrderInv, [Next]_vars
    PROVE  DeliveryInv' /\ RequiredOnDisk' /\ Kept /\ DiskKept
<1>1. TypeInv /\ RequiredOnDisk /\ DeliveryInv
  BY DEF OrderInv, CommandInv
<1>2. DeliveryInv' /\ Kept
  BY <1>1, NextDelivery, NextKept
<1>3. DiskKept
  BY <1>1, <1>2, ResultsStay DEF DiskKept, Kept
<1>4. WrittenOnDisk'
  BY <1>2 DEF DeliveryInv, OnDiskInv
<1> QED
  BY <1>2, <1>3, <1>4 DEF Kept, RequiredOnDisk, WrittenOnDisk

(* Nothing that approve relies on is taken back while it works.            *)
LEMMA ProgressKept ==
    ASSUME OrderInv, Kept, DiskKept, UNCHANGED <<op, step, carry>>
    PROVE  ApproveProgress'
<1>1. op = "approve" /\ step = "saved" => NamesDisk(carry)'
  BY NamesKept DEF OrderInv, ApproveProgress, NamesDisk
<1> QED
  BY <1>1 DEF OrderInv, ApproveProgress, Kept

LEMMA OtherProgress == op' # "approve" \/ step' = "begin" => ApproveProgress'
BY DEF ApproveProgress

LEMMA ProgressStep == OrderInv /\ [ControlNext]_allVars => ApproveProgress'
<1> SUFFICES ASSUME OrderInv, [ControlNext]_allVars PROVE ApproveProgress'
  OBVIOUS
<1>0. CommandInv /\ TypeInv /\ RequiredOnDisk /\ DeliveryInv /\ ApproveProgress /\ doc \in Document
  BY DEF OrderInv, CommandInv, TypeInv, TypeOK
<1>1. CASE Executing /\ UNCHANGED <<command, manifest>>
  <2>1. [Next]_vars
    BY <1>1 DEF Executing, Next
  <2> QED
    BY <1>1, <2>1, WorkflowOrder, ProgressKept DEF command
<1>2. CASE CommandOnly
  <2>1. [Next]_vars
    BY <1>2 DEF CommandOnly
  <2>2. UNCHANGED <<op, step, carry>> \/ op' # "approve" \/ step' = "begin"
    BY <1>2 DEF CommandOnly, command, Ends, Unlock, Take, Hold, Ask, TakeAsked, Refuse
  <2> QED
    BY <2>1, <2>2, WorkflowOrder, ProgressKept, OtherProgress
<1>3. CASE ArtifactStep
  <2>1. Beside
    BY <1>0, <1>3, CommandBeside
  <2>2. CASE ApproveSpecArtifact
    <3>1. step' = "spec_written" /\ SpecAllows'
      BY <1>0, <2>1, <2>2 DEF ApproveSpecArtifact, Advance, SpecWaits, Beside, Kept, SpecAllows,
                              SpecNeedsApproval, Document
    <3> QED
      BY <3>1 DEF ApproveProgress
  <2>3. CASE RewriteVerificationPlan
    <3>1. step' = "spec_replanned" /\ SpecAllows'
      BY <1>0, <2>1, <2>3 DEF RewriteVerificationPlan, Advance, Working, ApproveProgress, Beside,
                              Kept
    <3> QED
      BY <3>1 DEF ApproveProgress
  <2>4. CASE ApprovePlanArtifact
    <3>1. "plan" \in files /\ ~SpecWaits /\ doc'.planApproved /\ step' = "plan_written"
      BY <1>0, <2>4 DEF ApprovePlanArtifact, PlanWaits, Advance, Document
    <3>2. "spec" \in files
      BY <1>0, <3>1 DEF DeliveryInv, MadeInOrder, Ordered
    <3>3. SpecAllows' /\ PlanAllows'
      BY <2>1, <3>1, <3>2 DEF SpecWaits, SpecAllows, PlanAllows, Beside, Kept
    <3> QED
      BY <3>1, <3>3 DEF ApproveProgress
  <2>5. CASE ~ApproveSpecArtifact /\ ~RewriteVerificationPlan /\ ~ApprovePlanArtifact
    <3>1. \/ step' \in {"gates_run", "requested", "checked", "reviewed", "bundled"}
          \/ Unlock("none")
      BY <1>3, <2>5 DEF ArtifactStep, RunGatesAgain, RequestToolChecks, RunToolChecks,
         ReviewGates, BundleEvidence, Release, EvaluateAgain, Advance
    <3> QED
      BY <3>1 DEF ApproveProgress, Unlock
  <2> QED
    BY <2>2, <2>3, <2>4, <2>5
<1>4. CASE RowStep
  <2>1. Beside
    BY <1>0, <1>4, CommandBeside
  <2>2. CASE MarkApproved
    <3>1. /\ SpecAllows' /\ (step' = "plan_marked" => PlanAllows')
          /\ step' \in {"plan_marked", "spec_marked"}
      BY <1>0, <2>1, <2>2 DEF MarkApproved, SpecRewritten, Advance, ApproveProgress, Beside, Kept
    <3> QED
      BY <3>1 DEF ApproveProgress
  <2> QED
    BY <1>4, <2>2, RowWritesAdvance DEF Unlock, ApproveProgress
<1>5. CASE SaveApproved
  <2>1. step' = "saved" /\ CarryStands'
    BY <1>5, SavedCarry DEF SaveApproved
  <2> QED
    BY <2>1 DEF ApproveProgress, CarryStands
<1>6. CASE SaveApprovedThread
  BY <1>6, OtherProgress DEF SaveApprovedThread, Unlock
<1> QED
  BY <1>1, <1>2, <1>3, <1>4, <1>5, <1>6, StepKinds

LEMMA NextOrder == OrderInv /\ [ControlNext]_allVars => OrderInv'
<1> SUFFICES ASSUME OrderInv, [ControlNext]_allVars PROVE DeliveryInv' /\ RequiredOnDisk'
  BY NextCommand, ProgressStep DEF OrderInv
<1>0. CommandInv /\ RequiredOnDisk /\ DeliveryInv /\ TypeInv'
  BY ControlKeepsTypes DEF OrderInv
<1>1. CASE Executing \/ UNCHANGED vars
  BY <1>1, WorkflowOrder DEF Executing, Next
<1>2. CASE ArtifactStep \/ RowStep
  <2>1. Beside
    BY <1>0, <1>2, CommandBeside
  <2>2. RequiredOnDisk'
    BY <1>0, <2>1 DEF Beside, Kept, RequiredOnDisk
  <2> QED
    BY <1>0, <2>1, <2>2, BesideDelivery
<1> QED
  BY <1>0, <1>1, <1>2, SaveDelivery, ThreadDelivery, StepKinds DEF CommandOnly

LEMMA OrderInvariant == ControlSpec => []OrderInv
<1>1. ControlInit => OrderInv
  BY InitCommand, InitDelivery DEF ControlInit, Init, OrderInv, RequiredOnDisk, ApproveProgress
<1> QED
  BY <1>1, NextOrder, PTL DEF ControlSpec

(* No node fails for want of its inputs, whatever commands are given       *)
(* between and during the executions of the run, and whichever of them is  *)
(* killed half-way: no command takes an artifact away, and the state that  *)
(* approve saves names a node whose inputs are there.                      *)
THEOREM CommandsLeaveInputs == NumTasks # 0 => (ControlSpec => []InputsPresent)
<1> SUFFICES ASSUME NumTasks # 0 PROVE ControlSpec => []InputsPresent
  OBVIOUS
<1>1. OrderInv => InputsPresent
  BY InputsFollow DEF OrderInv
<1> QED
  BY <1>1, OrderInvariant, PTL

(* The same for the approvals: what stands past one has it.                *)
LEMMA CommandsAllowed ==
    SaverAvailable /\ OrderInv /\ ApprovalInv /\ [ControlNext]_allVars => ApprovalInv'
<1> SUFFICES ASSUME SaverAvailable, OrderInv, ApprovalInv, [ControlNext]_allVars
             PROVE  ApprovalInv'
  OBVIOUS
<1>0. /\ CommandInv /\ TypeInv /\ RequiredOnDisk /\ PlanAfterSpec /\ PlaceAllowed
      /\ ThreadAllowed /\ TypeInv' /\ RequiredOnDisk'
  BY ControlKeepsTypes, NextOrder DEF OrderInv, CommandInv, ApprovalInv
<1>1. CASE Executing \/ UNCHANGED vars
  BY <1>1, NextApproval DEF Executing, Next
<1>2. CASE ArtifactStep \/ RowStep
  <2>1. Beside
    BY <1>0, <1>2, CommandBeside
  <2>2. PlanAfterSpec'
    BY <1>0, <2>1, FoundationsKept DEF Beside
  <2>3. PlaceAllowed' /\ ThreadAllowed'
    BY <1>0, <2>1, AllowedKept DEF Beside, PlaceAllowed, ThreadAllowed, AllowedState
  <2> QED
    BY <1>0, <2>2, <2>3 DEF ApprovalInv
<1>3. CASE SaveApproved
  <2>1. UNCHANGED <<pc, phase, mem, lg, files, doc>> /\ wf' = carry'
    BY <1>0, <1>3, ApprovedState DEF Background, control
  <2>2. AllowedState(carry)'
    BY <1>3, SavedCarry, CarryEnters, PTL
  <2>3. PlaceAllowed' /\ PlanAfterSpec'
    BY <1>0, <2>1 DEF PlaceAllowed, PlanAfterSpec, AllowedState, SpecAllows, SpecNeedsApproval,
                      PlanAllows
  <2>4. ThreadAllowed'
    BY <1>0, <2>1, <2>2 DEF ThreadAllowed, AllowedState, SpecAllows, SpecNeedsApproval, PlanAllows
  <2> QED
    BY <1>0, <2>3, <2>4 DEF ApprovalInv
<1>4. CASE SaveApprovedThread
  <2>1. UNCHANGED <<pc, phase, mem, wf, files, doc>> /\ SaveLangGraph(carry)
    BY <1>4 DEF SaveApprovedThread, Keep, control
  <2>2. carry \in State /\ AllowedState(carry)
    BY <1>4, KnownCarry, CarryEnters DEF SaveApprovedThread, CarryStands
  <2>3. lg' # NoState /\ AllowedState(lg)'
    BY <1>0, <2>1, <2>2, SavedThread, QuietStill DEF AllowedState
  <2>4. PlaceAllowed' /\ PlanAfterSpec'
    BY <1>0, <2>1 DEF PlaceAllowed, PlanAfterSpec, AllowedState, SpecAllows, SpecNeedsApproval,
                      PlanAllows
  <2> QED
    BY <1>0, <2>3, <2>4 DEF ApprovalInv, ThreadAllowed
<1> QED
  BY <1>1, <1>2, <1>3, <1>4, StepKinds DEF CommandOnly

(* No task is dispatched without the approvals its artifacts ask for,      *)
(* though approve writes artifact, row, checkpoint and thread one after    *)
(* the other, may be killed between any two and may meet a process that    *)
(* executes the run (cli.py _approve_run, workflow/nodes/plan.py).         *)
THEOREM CommandsApproveFirst ==
    SaverAvailable => (ControlSpec => []NoUnapprovedDispatch)
<1> SUFFICES ASSUME SaverAvailable PROVE ControlSpec => []NoUnapprovedDispatch
  OBVIOUS
<1>1. ControlInit => ApprovalInv
  BY InitApproval DEF ControlInit
<1>2. ApprovalInv => NoUnapprovedDispatch
  BY DEF ApprovalInv, PlaceAllowed, Permitted, SpecAllows, PlanAllows, NoUnapprovedDispatch, Nodes
<1>3. OrderInv /\ ApprovalInv /\ [ControlNext]_allVars => ApprovalInv'
  BY CommandsAllowed
<1> QED
  BY <1>1, <1>2, <1>3, OrderInvariant, PTL DEF ControlSpec

-----------------------------------------------------------------------------
(* The bundle decides.  While something that is no part of EvidenceDecides  *)
(* is under way, the row may be ahead of it: `review` has written a bundle *)
(* and not yet the row, or a resumed process is on its way to the bundle.  *)
Returning == pc \in {"enter", "prepare_evidence"} /\ mem.status = "ready_for_human_review"

RowDecided ==
    row = "ready_for_human_review" =>
        /\ "evidence" \in files
        /\ doc.ready \/ Working("review", "bundled") \/ Returning

BundledOnDisk == Working("review", "bundled") => "evidence" \in files

DecideInv == OrderInv /\ BundledOnDisk /\ (~overruled => RowDecided)

LEMMA AtBundle ==
    ASSUME Graph, pc = "prepare_evidence"
    PROVE  BuildEvidence \/ RecordEvidence
BY DEF Graph, At, CollectGoal, InspectRepository, CreateVerificationPlan, IntegrateChanges,
       Produce, Record, DraftSpec, WriteSpec, ReuseSpec, StopForSpecApproval, AcceptSpec,
       ValidateSpec, ValidateExecutionPlan, ValidateStage, CreateExecutionPlan,
       WriteMissingVerificationPlan, WritePlan, DecidePlan, MaterializeTasks, DispatchTasks,
       BeginDispatch, DispatchTask, Dispatching, WriteTask, WriteWorkerRequest, RunWorker,
       WriteWorkerResult, RecordDispatch, RecordCompletion, ApplyPatch, StopDispatch,
       FinishDispatch, RunQualityGates, RunGates, RequestToolCheck, RunToolCheck, DecideGates,
       EvaluateSatisfaction, EvaluateGoalSatisfaction, DecideSatisfaction, RunIndependentReview,
       RunReview, RecordReview, RepairFailure, ReuseRepairResult, BeginRepair, RunRepairWorker,
       WriteRepairResult, RecordRepair, PrepareEvidence

LEMMA OverruledStays ==
    ASSUME [ControlNext]_allVars, ~overruled'
    PROVE  ~overruled
BY DEF ControlNext, ProcessStep, ResumeRun, KillProcess, Idle, Begin, Take, Ask, TakeAsked, Refuse,
       CommandStep, Approving, Verifying, Reviewing, Rerunning, SetStatus, ApproveSpecArtifact,
       RewriteVerificationPlan, ApprovePlanArtifact, MarkApproved, SaveApproved,
       SaveApprovedThread, Confirm, RunGatesAgain, RequestToolChecks, RunToolChecks, DecideVerify,
       ReviewGates, BundleEvidence, DecideReview, Release, EvaluateAgain, RestoreStatus, Fail,
       KillCommand, ExpireCommandLock, Keep, allVars

LEMMA ReadyState ==
    ASSUME DeliveryInv, mem.status = "ready_for_human_review"
    PROVE  /\ "evidence" \in files /\ mem.stage = "prepare_evidence"
           /\ pc \in Nodes => pc = "prepare_evidence"
<1>1. mem.stage = "prepare_evidence" /\ "evidence" \in files
  BY DEF DeliveryInv, StatesMayEnter, MayEnter
<1>2. pc \in Nodes => pc \in Early \cup Late \cup {"prepare_evidence"}
  BY DEF Nodes, Early, Late
<1>3. pc \in Nodes => Stands(pc, mem, files)
  BY DEF DeliveryInv, PlaceStands
<1> QED
  BY <1>1, <1>2, <1>3 DEF Stands

LEMMA GraphDecides ==
    ASSUME DeliveryInv, RowDecided, UNCHANGED command, Graph
    PROVE  RowDecided'
<1>0. TypeInv /\ pc \in Nodes /\ pc # "enter"
  BY GraphAtNode DEF DeliveryInv, OnDiskInv, Nodes
<1>1. CASE RecordEvidence
  <2>1. "evidence" \in files /\ row' = (IF doc.ready THEN "ready_for_human_review"
                                        ELSE "human_required") /\ UNCHANGED <<files, doc>>
    BY <1>0, <1>1 DEF RecordEvidence, Leave, Save, TypeInv, TypeOK, State
  <2> QED
    BY <2>1 DEF RowDecided
<1>2. CASE BuildEvidence
  BY <1>2 DEF BuildEvidence, RowDecided, saved
<1>3. CASE ~RecordEvidence /\ ~BuildEvidence
  <2>1. BundleStill /\ StatusMove
    BY <1>0, <1>3, GraphWriters, GraphStatus
  <2>2. pc # "prepare_evidence" /\ mem.status # "ready_for_human_review"
    BY <1>0, <1>3, AtBundle, ReadyState
  <2>3. row' = "ready_for_human_review" => row = "ready_for_human_review"
    BY <1>3, <2>1, <2>2 DEF StatusMove
  <2> QED
    BY <1>0, <2>1, <2>2, <2>3 DEF RowDecided, Returning, BundleStill, Working, command
<1> QED
  BY <1>1, <1>2, <1>3

LEMMA ExecutionDecides ==
    ASSUME DeliveryInv, RowDecided, UNCHANGED command, Executing, ~Undoes
    PROVE  RowDecided'
<1>1. CASE Graph
  BY <1>1, GraphDecides
<1>2. CASE Start
  <2>1. row' = mem.status /\ mem' = mem /\ pc' = "enter" /\ UNCHANGED <<files, doc>>
    BY <1>2 DEF Start, Save
  <2> QED
    BY <2>1, ReadyState DEF RowDecided, Returning
<1>3. CASE Enter
  <2>1. UNCHANGED <<row, mem, files, doc>> /\ pc = "enter" /\ pc' = EntryNode(mem)
    BY <1>3 DEF Enter, Goto
  <2>2. Returning => Returning'
    BY <2>1, ReadyState DEF Returning, EntryNode, Nodes
  <2> QED
    BY <2>1, <2>2 DEF RowDecided, Working, command
<1>4. CASE Finish
  <2>1. /\ row' = mem.status /\ pc = "finish" /\ UNCHANGED <<files, doc>>
        /\ mem.status = "ready_for_human_review" => row = mem.status
    BY <1>4 DEF Finish, Save, Undoes
  <2> QED
    BY <2>1 DEF RowDecided, Returning, Working, command
<1>5. CASE Exit \/ ExceedRecursion \/ Crash
  <2>1. UNCHANGED <<row, files, doc>> /\ ~Returning
    BY <1>5 DEF Exit, ExceedRecursion, Crash, Forget, saved, Undoes, Returning
  <2> QED
    BY <2>1 DEF RowDecided, Working, command
<1>6. CASE Run \/ DryRun
  BY <1>6 DEF Run, DryRun, saved, RowDecided
<1>7. CASE Resume \/ LockExpires
  <2>1. UNCHANGED <<row, files, doc>> /\ ~Returning
    BY <1>7 DEF Resume, LockExpires, saved, Returning
  <2> QED
    BY <2>1 DEF RowDecided, Working, command
<1> QED
  BY <1>1, <1>2, <1>3, <1>4, <1>5, <1>6, <1>7 DEF Executing, Process

LEMMA BundledStep == DecideInv /\ [ControlNext]_allVars => BundledOnDisk'
<1> SUFFICES ASSUME DecideInv, [ControlNext]_allVars, op' = "review", step' = "bundled"
             PROVE  "evidence" \in files'
  BY DEF BundledOnDisk, Working
<1>0. OrderInv /\ CommandInv /\ TypeInv /\ RequiredOnDisk
  BY DEF DecideInv, OrderInv, CommandInv
<1>1. CASE BundleEvidence
  BY <1>1 DEF BundleEvidence, Write
<1>2. files \subseteq files'
  <2>1. CASE Executing \/ UNCHANGED vars
    BY <1>0, <2>1, WorkflowOrder DEF Executing, Next, Kept
  <2>2. CASE ArtifactStep \/ RowStep
    BY <1>0, <2>2, CommandBeside DEF Beside, Kept
  <2>3. CASE SaveApproved \/ SaveApprovedThread
    BY <2>3 DEF SaveApproved, SaveApprovedThread, Keep
  <2> QED
    BY <2>1, <2>2, <2>3, StepKinds DEF CommandOnly
<1>3. CASE ~BundleEvidence
  <2>1. CASE UNCHANGED command
    BY <1>2, <2>1 DEF command, DecideInv, BundledOnDisk, Working
  <2>2. ~ArtifactStep
    BY <1>3 DEF ArtifactStep, ApproveSpecArtifact, RewriteVerificationPlan, ApprovePlanArtifact,
       RunGatesAgain, RequestToolChecks, RunToolChecks, ReviewGates, Release, EvaluateAgain,
       Advance, Unlock
  <2>3. ~RowStep /\ ~SaveApproved /\ ~SaveApprovedThread
    BY RowWritesAdvance DEF MarkApproved, Advance, Unlock, SaveApproved, SaveApprovedThread
  <2>4. CASE CommandOnly
    <3>1. CASE \E c \in Deferred : Ask(c) \/ Refuse(c)
      BY <1>2, <3>1 DEF Ask, Refuse, DecideInv, BundledOnDisk, Working
    <3> QED
      BY <2>1, <2>4, <3>1 DEF CommandOnly, Ends, Unlock, Take, TakeAsked, Hold
  <2> QED
    BY <2>1, <2>2, <2>3, <2>4, StepKinds
<1> QED
  BY <1>1, <1>3

LEMMA RowDecidedStep ==
    DecideInv /\ [ControlNext]_allVars => (~overruled' => RowDecided')
<1> SUFFICES ASSUME DecideInv, [ControlNext]_allVars, ~overruled' PROVE RowDecided'
  OBVIOUS
<1>0. /\ OrderInv /\ CommandInv /\ TypeInv /\ RequiredOnDisk /\ DeliveryInv /\ BundledOnDisk
      /\ RowDecided /\ doc \in Document
  BY OverruledStays DEF DecideInv, OrderInv, CommandInv, TypeInv, TypeOK
<1>1. CASE Executing /\ UNCHANGED <<command, manifest>> /\ (Undoes => overruled')
  BY <1>0, <1>1, ExecutionDecides
<1>2. CASE CommandOnly
  <2>1. UNCHANGED <<row, files, doc, pc, mem>>
    BY <1>2 DEF CommandOnly, vars, saved, control
  <2>2. Working("review", "bundled") => Working("review", "bundled")'
    BY <1>2 DEF CommandOnly, command, Ends, Take, Ask, TakeAsked, Refuse, Hold, LockFree, Working
  <2> QED
    BY <1>0, <2>1, <2>2 DEF RowDecided, Returning
<1>3. CASE ArtifactStep
  <2>1. PICK S \in SUBSET Names : ArtifactWritten(S)
    BY <1>0, <1>3, ArtifactShapes
  <2>2. UNCHANGED <<row, pc, mem>> /\ files \subseteq files' /\ OutcomesMove(S)
    BY <2>1 DEF ArtifactWritten, Background, control, saved, Write
  <2>3. CASE BundleEvidence
    BY <2>3 DEF BundleEvidence, Write, Working, Advance, RowDecided
  <2>4. CASE ~BundleEvidence
    <3>1. doc'.ready = doc.ready
      BY <2>1, <2>4 DEF ArtifactWritten, OutcomesMove
    <3>2. ~Working("review", "bundled")
      BY <1>3, <2>4 DEF ArtifactStep, ApproveSpecArtifact, RewriteVerificationPlan,
         ApprovePlanArtifact, RunGatesAgain, RequestToolChecks, RunToolChecks, ReviewGates,
         Release, EvaluateAgain, Working
    <3> QED
      BY <1>0, <2>2, <3>1, <3>2 DEF RowDecided, Returning
  <2> QED
    BY <2>3, <2>4
<1>4. CASE RowStep
  <2>1. UNCHANGED <<files, doc, pc, mem>>
    BY <1>0, <1>4, RowShapes DEF RowWritten, Background, control
  <2>2. CASE DecideReview
    BY <1>0, <2>1, <2>2 DEF DecideReview, RowDecided, BundledOnDisk
  <2>3. CASE RestoreStatus
    <3>1. row' = row /\ op # "review"
      BY <2>3 DEF RestoreStatus, Working
    <3> QED
      BY <1>0, <2>1, <3>1 DEF RowDecided, Returning, Working
  <2>4. CASE SetStatus \/ MarkApproved \/ Confirm
    BY <2>4 DEF SetStatus, MarkApproved, Confirm, RowDecided
  <2> QED
    BY <1>4, <2>2, <2>3, <2>4 DEF RowStep, DecideVerify
<1>5. CASE SaveApproved
  BY <1>0, <1>5, ApprovedState DEF RowDecided
<1>6. CASE SaveApprovedThread
  <2>1. UNCHANGED <<row, files, doc, pc, mem>> /\ op = "approve"
    BY <1>6 DEF SaveApprovedThread, Keep, control, Working
  <2> QED
    BY <1>0, <2>1 DEF RowDecided, Returning, Working
<1> QED
  BY <1>1, <1>2, <1>3, <1>4, <1>5, <1>6, StepKinds

(* A run that rests and is offered for review has a bundle that says so,   *)
(* unless one of the things EvidenceDecides excludes happened before -      *)
(* however commands, kills and a process without the lock interleave       *)
(* (cli.py _rerun_review, workflow/nodes/deliver.py).                      *)
THEOREM TheBundleDecides == ControlSpec => []EvidenceDecides
<1>1. ControlInit => DecideInv
  BY InitCommand, InitDelivery DEF ControlInit, Init, OrderInv, RequiredOnDisk, ApproveProgress,
     DecideInv, BundledOnDisk, RowDecided, Working
<1>2. DecideInv /\ [ControlNext]_allVars => DecideInv'
  BY NextOrder, BundledStep, RowDecidedStep DEF DecideInv
<1>3. DecideInv => EvidenceDecides
  BY DEF DecideInv, RowDecided, Working, Returning, EvidenceDecides
<1> QED
  BY <1>1, <1>2, <1>3, PTL DEF ControlSpec
=============================================================================
