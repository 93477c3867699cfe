--------------------------- MODULE AgentLoopProofs ---------------------------
(***************************************************************************)
(* Proofs about loops sharing an output directory, for any set of loops,   *)
(* any --max-iterations and any number of edits.                           *)
(***************************************************************************)
EXTENDS AgentLoop, TLAPS

------------------------------------------------------------------------------
(* The evaluator *)

\* The five ranks, and when each action is demanded.
LEMMA Ranks ==
  /\ Action = {"record_environment_blocker", "rerun_validation",
               "dispatch_fix_with_evidence", "attach_missing_evidence",
               "none_complete"}
  /\ Precedence["record_environment_blocker"] = 1
  /\ Precedence["rerun_validation"] = 2
  /\ Precedence["dispatch_fix_with_evidence"] = 3
  /\ Precedence["attach_missing_evidence"] = 4
  /\ Precedence["none_complete"] = 5
  BY DEF Action, Precedence

\* What each action is demanded for.
LEMMA WhenDemanded ==
  ASSUME NEW e \in Evidence
  PROVE  /\ Demanded(e) \subseteq Action
         /\ "record_environment_blocker" \in Demanded(e)
              <=> Classification(e) = "toolchain_failure"
         /\ "rerun_validation" \in Demanded(e) <=> e.pending
         /\ "dispatch_fix_with_evidence" \in Demanded(e)
              <=> Classification(e) = "scenario_validation_failure" /\ HasExcerpt(e)
         /\ "attach_missing_evidence" \in Demanded(e)
              <=> e.failed /\ (~HasExcerpt(e) \/ Classification(e) = "unattributed_failure")
         /\ "none_complete" \in Demanded(e) <=> ~e.failed
<1> HIDE DEF Classification, HasExcerpt
<1>1. /\ e.pending \in BOOLEAN /\ e.failed \in BOOLEAN  BY DEF Evidence
<1> QED  BY <1>1, Ranks DEF Demanded

\* Every evidence demands a step, and FirstStep is the most urgent of them.
LEMMA AStepIsDemanded ==
  ASSUME NEW e \in Evidence
  PROVE  /\ FirstStep(e) \in Demanded(e)
         /\ \A b \in Demanded(e) : Precedence[FirstStep(e)] <= Precedence[b]
<1> DEFINE Most(a) == a \in Demanded(e)
                      /\ \A b \in Demanded(e) : Precedence[a] <= Precedence[b]
<1>1. \E a : Most(a)
  <2>1. CASE Classification(e) = "toolchain_failure"
    <3>1. Most("record_environment_blocker")  BY <2>1, Ranks, WhenDemanded
    <3> QED  BY <3>1
  <2>2. CASE Classification(e) # "toolchain_failure" /\ e.pending
    <3>1. Most("rerun_validation")  BY <2>2, Ranks, WhenDemanded
    <3> QED  BY <3>1
  <2>3. CASE /\ Classification(e) = "scenario_validation_failure"
             /\ ~e.pending /\ HasExcerpt(e)
    <3>1. Most("dispatch_fix_with_evidence")  BY <2>3, Ranks, WhenDemanded
    <3> QED  BY <3>1
  <2>4. CASE /\ Classification(e) # "toolchain_failure" /\ ~e.pending /\ e.failed
             /\ \/ Classification(e) # "scenario_validation_failure"
                \/ ~HasExcerpt(e)
    <3>1. Classification(e) \in {"unclassified", "unattributed_failure",
                                 "scenario_validation_failure"}
      BY <2>4 DEF Classification, Evidence
    <3>2. Classification(e) = "unclassified" => ~HasExcerpt(e)
      BY <2>4 DEF Classification, HasExcerpt, Evidence
    <3>3. Most("attach_missing_evidence")
      BY <2>4, <3>1, <3>2, Ranks, WhenDemanded
    <3> QED  BY <3>3
  <2>5. CASE ~e.failed /\ ~e.pending
    <3>1. Classification(e) = "first_pass_success"
      BY <2>5 DEF Classification, Evidence
    <3>2. Most("none_complete")  BY <2>5, <3>1, Ranks, WhenDemanded
    <3> QED  BY <3>2
  <2> QED  BY <2>1, <2>2, <2>3, <2>4, <2>5 DEF Evidence
<1>2. FirstStep(e) = CHOOSE a \in Demanded(e) :
                       \A b \in Demanded(e) : Precedence[a] <= Precedence[b]
  BY DEF FirstStep
<1> QED  BY <1>1, <1>2

\* What the two verdicts that let a loop go on or succeed rest on.
LEMMA VerdictRests ==
  ASSUME NEW e \in Evidence
  PROVE  /\ FirstStep(e) \in Action
         /\ FirstStep(e) = "none_complete" => ~e.failed /\ ~e.pending
         /\ FirstStep(e) = "dispatch_fix_with_evidence"
              => /\ e.failed /\ ~e.pending /\ HasExcerpt(e)
                 /\ "target" \in e.says /\ "signature" \notin e.says
<1>1. /\ FirstStep(e) \in Demanded(e)
      /\ \A b \in Demanded(e) : Precedence[FirstStep(e)] <= Precedence[b]
  BY AStepIsDemanded
<1>2. FirstStep(e) \in Action  BY <1>1, WhenDemanded
<1>3. e.pending => "rerun_validation" \in Demanded(e)  BY WhenDemanded
<1>4. ASSUME FirstStep(e) \in {"none_complete", "dispatch_fix_with_evidence"}
      PROVE  ~e.pending
  BY <1>1, <1>3, <1>4, Ranks DEF Evidence
<1>5. ASSUME FirstStep(e) = "none_complete"  PROVE ~e.failed
  BY <1>1, <1>5, WhenDemanded
<1>6. ASSUME FirstStep(e) = "dispatch_fix_with_evidence"
      PROVE  HasExcerpt(e) /\ Classification(e) = "scenario_validation_failure"
  BY <1>1, <1>6, WhenDemanded
<1>7. ASSUME HasExcerpt(e), Classification(e) = "scenario_validation_failure"
      PROVE  e.failed /\ "target" \in e.says /\ "signature" \notin e.says
  BY <1>7 DEF HasExcerpt, Classification, Evidence
<1> QED  BY <1>2, <1>4, <1>5, <1>6, <1>7

------------------------------------------------------------------------------
(* The inductive invariant *)

Early == {"idle", "check", "mkdirs", "prepare"}

\* What a loop's own step says of its iteration, exit code and prompt.
Placed(l) ==
  /\ at[l] \in Early => iter[l] = 0
  /\ at[l] \in (Trying \ {"next"}) \cup {"compare"} => iter[l] > 0
  /\ at[l] \in Early \cup Trying
       => exit[l] = 1 /\ outcome[l] = "iteration_cap_red"
  /\ at[l] = "compare" => exit[l] = 0
  /\ outcome[l] \in Green => iter[l] > 0
  /\ prompt[l].raw => at[l] \in Trying \cup {"killed"} \/ l \in Stuck

\* The output directory is a loop's own from mkdir on, and after it ended.
Holds(l) == \/ at[l] \in {"prepare", "compare", "summary"} \cup Trying
            \/ iter[l] > 0

Apart ==
  /\ \A k, l \in Loop : InProgress(k) /\ InProgress(l) => k = l
  /\ \A k, l \in Loop : Holds(k) /\ Holds(l) => k = l
  /\ \A l \in Loop : /\ Holds(l) => dir = "used"
                     /\ at[l] = "mkdirs" => dir = "empty"
  /\ dir = "empty" => \A i \in Iteration : ~red[i]

\* An honest red of the validation of iteration iter[l].
HonestRed(l) ==
  /\ run[l].events = "failure" /\ run[l].status = "failed"
  /\ {"target", "marker"} \subseteq run[l].says /\ "signature" \notin run[l].says

\* The failure rows of the newest group are those of the run just ingested, and
\* the verdict is about them.
Recorded(l) ==
  /\ Holds(l) => \A i \in Iteration : i > iter[l] => ~red[i]
  /\ at[l] \in {"agent", "apply", "validate", "record", "ingest"} => ~red[iter[l]]
  /\ at[l] \in {"record", "ingest", "evaluate"} => CanRun(run[l].status, run[l].events)
  /\ at[l] \in {"ingest", "evaluate"} => run[l].status \in {"completed", "failed"}
  /\ at[l] = "evaluate" => /\ run[l].events # "none"
                           /\ red[iter[l]] = (run[l].events = "failure")
  /\ at[l] = "branch" /\ Complete(l) => run[l].events = "clean" /\ ~red[iter[l]]
  /\ at[l] = "branch" /\ Fixable(Demands(l))
       => HonestRed(l) /\ verdict[iter[l]].excerpt = Answer(l, iter[l])
  /\ at[l] = "next" /\ iter[l] > 0
       => /\ Fixable(Demands(l)) /\ HonestRed(l)
          /\ excerpt[l] = Answer(l, iter[l])

\* Outcome and exit code are those of the last verdict.
Judged(l) ==
  /\ at[l] = "compare" => /\ outcome[l] \in Green /\ Complete(l)
  /\ at[l] \in {"summary", "exited"} /\ exit[l] = 0
       => /\ outcome[l] \in Green /\ iter[l] > 0 /\ Complete(l)
          /\ iter[l] > 1 => compared[l]
  /\ at[l] \in {"summary", "exited"} /\ exit[l] = 1
       => /\ outcome[l] = "iteration_cap_red" /\ iter[l] = MaxIterations
          /\ iter[l] > 0 /\ Fixable(Demands(l))

\* Nobody else writes the workspace: what is validated is what was answered.
Validated(l) ==
  /\ at[l] = "apply" => response[iter[l]] = Answer(l, iter[l])
  /\ at[l] \in {"validate", "record", "ingest", "evaluate", "branch"} /\ edits = 0
       => workspace = Answer(l, iter[l])
  /\ at[l] \in {"record", "ingest", "evaluate", "branch"} /\ edits = 0
       => run[l].built = Answer(l, iter[l])
  /\ outcome[l] \in Green /\ edits = 0
       => /\ ~red[iter[l]] /\ run[l].events = "clean"
          /\ run[l].built = Answer(l, iter[l]) /\ workspace = run[l].built

Alone(l) == Recorded(l) /\ Judged(l) /\ Validated(l)

IInv ==
  /\ TypeOK
  /\ \A l \in Loop : Placed(l)
  /\ ~Overlap /\ MaxIterations > 0 => Apart /\ \A l \in Loop : Alone(l)

Step(l) == Start(l) \/ LoopStep(l) \/ Raise(l) \/ Kill(l)

------------------------------------------------------------------------------
(* Types *)

\* The values the actions assign have the types of what they are assigned to.
LEMMA Typed ==
  /\ Nobody \in Source /\ Source \subseteq Content
  /\ {Template, Gone} \subseteq Content
  /\ \A k \in 1 .. MaxEdits : Edited(k) \in Content
  /\ \A l \in Loop, i \in Iteration : Answer(l, i) \in Source
  /\ NoPrompt \in Prompt /\ NoRun \in Run
  /\ Green \subseteq Outcome /\ {"blocked", "refused", "iteration_cap_red"} \subseteq Outcome
  /\ {"fixed_and_green", "green_first_pass"} \subseteq Outcome
  /\ 0 \in 0 .. MaxIterations /\ {0, 1, 2} \subseteq 0 .. 2
  /\ Trying \subseteq Working
  /\ {"check", "mkdirs", "prepare", "compare", "summary"} \subseteq Working
  /\ {"next", "agent", "apply", "validate", "record", "ingest", "evaluate", "branch"}
       \subseteq Working
  /\ Ended = {"exited", "raised", "killed"}
<1>1. Nobody \in Source /\ Source \subseteq Content /\ {Template, Gone} \subseteq Content
  BY DEF Source, Content
<1>2. NoPrompt \in Prompt  BY <1>1 DEF NoPrompt, Prompt
<1>3. NoRun \in Run  BY <1>1 DEF NoRun, Run
<1>4. \A l \in Loop, i \in Iteration : Answer(l, i) \in Source
  BY DEF Source, Answer
<1>5. \A k \in 1 .. MaxEdits : Edited(k) \in Content  BY DEF Content
<1>6. 0 \in 0 .. MaxIterations /\ {0, 1, 2} \subseteq 0 .. 2  BY LoopAssumption
<1> QED  BY <1>1, <1>2, <1>3, <1>4, <1>5, <1>6 DEF Green, Outcome, Trying, Working, Ended

\* What the evaluator is handed is evidence.
LEMMA EvidenceIsTyped ==
  ASSUME TypeOK, NEW l \in Loop, iter[l] \in Iteration
  PROVE  EvidenceOf(l) \in Evidence
  BY DEF TypeOK, EvidenceOf, Evidence, Run

\* Each step of a loop keeps the types.
LEMMA TypeStep ==
  ASSUME TypeOK, NEW l \in Loop, Placed(l), Step(l)
  PROVE  TypeOK'
<1> USE DEF TypeOK, shared, locals
<1>0. /\ iter[l] \in 0 .. MaxIterations
      /\ at[l] \in (Trying \ {"next"}) => iter[l] \in Iteration
  BY LoopAssumption DEF Placed, Iteration
<1>1. CASE Start(l)
  BY <1>1, Typed DEF Start, Goto
<1>2. CASE Raise(l)
  BY <1>2, Typed DEF Raise, Goto, OnException, DropScratch
<1>3. CASE Kill(l)
  BY <1>3, Typed DEF Kill, Goto
<1>4. CASE CheckDir(l)
  BY <1>4, Typed DEF CheckDir, Goto, Refuse
<1>5. CASE MakeDirs(l)
  BY <1>5, Typed DEF MakeDirs, Goto
<1>6. CASE Prepare(l)
  BY <1>6, Typed DEF Prepare, Goto
<1>7. CASE CannotPrepare(l)
  BY <1>7, Typed DEF CannotPrepare, Goto, Refuse
<1>8. CASE CallAgent(l)
  <2>1. Following(l) \in 0 .. MaxIterations
    BY <1>8, <1>0, LoopAssumption DEF CallAgent, Capped, Following
  <2>2. PromptOf(l) \in Prompt  BY DEF PromptOf, Prompt
  <2> QED  BY <1>8, <2>1, <2>2, Typed DEF CallAgent, Goto
<1>9. CASE ReachCap(l)
  BY <1>9, Typed DEF ReachCap, Goto, DropScratch
<1>10. CASE AgentAnswers(l)
  <2>1. Answer(l, iter[l]) \in Source
    BY <1>10, <1>0, Typed DEF AgentAnswers, Trying
  <2> QED  BY <1>10, <2>1, Typed DEF AgentAnswers, Goto
<1>11. CASE AgentFails(l)
  BY <1>11, Typed DEF AgentFails, Goto, Block, DropScratch
<1>12. CASE Apply(l)
  <2>1. response[iter[l]] \in Content
    BY <1>12, <1>0, Typed DEF Apply, Trying
  <2> QED  BY <1>12, <2>1, Typed DEF Apply, Goto
<1>13. CASE Unusable(l)
  BY <1>13, Typed DEF Unusable, Goto, Block, DropScratch
<1>14. CASE Validate(l)
  <2>1. PICK s \in RunStatus, b \in {"none", "clean", "failure"},
             w \in SUBSET Saying :
          run' = [run EXCEPT ![l] = [status |-> s, events |-> b, says |-> w,
                                     built |-> workspace]]
    BY <1>14 DEF Validate
  <2>2. [status |-> s, events |-> b, says |-> w, built |-> workspace] \in Run
    BY DEF Run
  <2>3. run' \in [Loop -> Run]  BY <2>1, <2>2
  <2> QED  BY <1>14, <2>3, Typed DEF Validate, Goto
<1>15. CASE NoMetadata(l)
  BY <1>15, Typed DEF NoMetadata, Goto, Block, DropScratch
<1>16. CASE RecordRun(l)
  <2>1. after' \in [Iteration -> Content]  BY <1>16 DEF RecordRun
  <2>2. CASE run[l].status \in {"completed", "failed"}
    BY <1>16, <2>1, <2>2, Typed DEF RecordRun, Goto
  <2>3. CASE run[l].status \notin {"completed", "failed"}
    <3>1. Block(l)  BY <1>16, <2>3 DEF RecordRun
    <3>2. /\ dir' = dir /\ workspace' = workspace /\ edits' = edits
          /\ response' = response /\ red' = red /\ verdict' = verdict
      BY <1>16 DEF RecordRun
    <3> QED  BY <2>1, <3>1, <3>2, Typed DEF Goto, Block, DropScratch
  <2> QED  BY <2>2, <2>3
<1>17. CASE Ingest(l)
  BY <1>17, Typed DEF Ingest, Goto, FailureRows
<1>18. CASE CannotIngest(l)
  BY <1>18, Typed DEF CannotIngest, Goto, Block, DropScratch
<1>19. CASE Evaluate(l)
  <2> DEFINE v == [action |-> FirstStep(EvidenceOf(l)),
                   excerpt |-> IF HasExcerpt(EvidenceOf(l)) THEN Answer(l, iter[l])
                                                            ELSE Nobody]
  <2>1. iter[l] \in Iteration  BY <1>19, <1>0 DEF Evaluate, Trying
  <2>2. FirstStep(EvidenceOf(l)) \in Action
    BY <2>1, EvidenceIsTyped, VerdictRests
  <2>3. v \in [action : Action \cup {"none"}, excerpt : Source]
    BY <2>1, <2>2, Typed
  <2>4. verdict' = [verdict EXCEPT ![iter[l]] = v]  BY <1>19 DEF Evaluate
  <2>5. verdict' \in [Iteration -> [action : Action \cup {"none"}, excerpt : Source]]
    BY <2>3, <2>4
  <2> HIDE DEF v
  <2> QED  BY <1>19, <2>5, Typed DEF Evaluate, Goto
<1>20. CASE CannotEvaluate(l)
  BY <1>20, Typed DEF CannotEvaluate, Goto, Block, DropScratch
<1>21. CASE DispatchFix(l)
  <2>1. verdict[iter[l]].excerpt \in Source
    <3>1. iter[l] \in Iteration  BY <1>21, <1>0 DEF DispatchFix, Trying
    <3> QED  BY <3>1
  <2> QED  BY <1>21, <2>1, Typed DEF DispatchFix, Goto
<1>22. CASE Succeed(l)
  BY <1>22, Typed DEF Succeed, Goto, DropScratch, AfterSuccess
<1>23. CASE StopHonestly(l)
  BY <1>23, Typed DEF StopHonestly, Goto, Block, DropScratch
<1>24. CASE ExportCompare(l)
  BY <1>24, Typed DEF ExportCompare, Goto, CompareOutcome
<1>25. CASE WriteSummary(l)
  BY <1>25, Typed DEF WriteSummary, Goto
<1>26. CASE CannotReadFix(l)
  BY <1>26, Typed DEF CannotReadFix, Goto, OnException, DropScratch
<1> QED  BY <1>1, <1>2, <1>3, <1>4, <1>5, <1>6, <1>7, <1>8, <1>9, <1>10,
     <1>11, <1>12, <1>13, <1>14, <1>15, <1>16, <1>17, <1>18, <1>19, <1>20,
     <1>21, <1>22, <1>23, <1>24, <1>25, <1>26 DEF Step, LoopStep

\* So does an edit.
LEMMA EditStep ==
  ASSUME TypeOK, Edit
  PROVE  TypeOK'
<1>1. edits + 1 \in 1 .. MaxEdits /\ edits' \in 0 .. MaxEdits
  BY LoopAssumption DEF TypeOK, Edit
<1> QED  BY <1>1, Typed DEF TypeOK, Edit, locals

------------------------------------------------------------------------------
(* Each loop steps for itself *)

\* The facts of this part follow from the actions, taken one by one.
USE DEF TypeOK, shared, locals, Goto, Step, LoopStep, Start, Raise, Kill,
        CheckDir, MakeDirs, Prepare, CannotPrepare, CallAgent, ReachCap,
        AgentAnswers, AgentFails, Apply, Unusable, Validate, NoMetadata,
        RecordRun, Ingest, CannotIngest, Evaluate, CannotEvaluate,
        DispatchFix, CannotReadFix, Succeed, StopHonestly, ExportCompare,
        WriteSummary,
        Block, Refuse, DropScratch, OnException, CompareOutcome

\* A step of one loop leaves the variables of every other one alone.
LEMMA Others ==
  ASSUME TypeOK, NEW l \in Loop, Step(l), NEW k \in Loop, k # l
  PROVE  /\ at'[k] = at[k] /\ iter'[k] = iter[k] /\ run'[k] = run[k]
         /\ excerpt'[k] = excerpt[k] /\ prompt'[k] = prompt[k]
         /\ outcome'[k] = outcome[k] /\ exit'[k] = exit[k]
         /\ compared'[k] = compared[k]
<1>1. at'[k] = at[k]  OBVIOUS
<1>2. iter'[k] = iter[k]  OBVIOUS
<1>3. run'[k] = run[k]  OBVIOUS
<1>4. excerpt'[k] = excerpt[k]  OBVIOUS
<1>5. prompt'[k] = prompt[k]  OBVIOUS
<1>6. outcome'[k] = outcome[k]  OBVIOUS
<1>7. exit'[k] = exit[k]  OBVIOUS
<1>8. compared'[k] = compared[k]  OBVIOUS
<1> QED  BY <1>1, <1>2, <1>3, <1>4, <1>5, <1>6, <1>7, <1>8

\* A loop's own steps keep its iteration, exit code and prompt in place.
LEMMA PlacedStep ==
  ASSUME TypeOK, NEW l \in Loop, Placed(l), Step(l)
  PROVE  Placed(l)'
<1> USE LoopAssumption DEF Early, Trying, Working, Ended, Placed
<1>1. (at[l] \in Early => iter[l] = 0)'  BY DEF AfterSuccess
<1>2. (at[l] \in (Trying \ {"next"}) \cup {"compare"} => iter[l] > 0)'
  BY DEF Following, AfterSuccess
<1>3. (at[l] \in Early \cup Trying
        => exit[l] = 1 /\ outcome[l] = "iteration_cap_red")'
  BY DEF AfterSuccess
<1>4. (at[l] = "compare" => exit[l] = 0)'
  OBVIOUS
<1>5. (outcome[l] \in Green => iter[l] > 0)'
  BY DEF Green
<1>6. (prompt[l].raw => at[l] \in Trying \cup {"killed"} \/ l \in Stuck)'
  BY DEF Prompt, NoPrompt, AfterSuccess
<1> QED  BY <1>1, <1>2, <1>3, <1>4, <1>5, <1>6

------------------------------------------------------------------------------
(* One loop at a time *)

\* Loops that do not overlap stay apart: only an empty directory is taken.
LEMMA ApartStep ==
  ASSUME TypeOK, \A k \in Loop : Placed(k), Apart, ~Overlap,
         NEW l \in Loop, Step(l), \A k \in Loop : Placed(k)'
  PROVE  Apart'
<1>1. InProgress(l)' => InProgress(l) \/ at[l] = "idle"
  BY DEF InProgress, Trying, Working, Ended, AfterSuccess
<1>2. ASSUME NEW k \in Loop, k # l, InProgress(k), InProgress(l)'
      PROVE  FALSE
  BY <1>1, <1>2 DEF Apart, InProgress, Working, Trying
<1>3. (\A j, k \in Loop : InProgress(j) /\ InProgress(k) => j = k)'
  BY <1>2, Others DEF Apart, InProgress
<1>4. Holds(l)' => Holds(l) \/ at[l] = "mkdirs"
  BY DEF Holds, Placed, Trying, Early, AfterSuccess
<1>5. Holds(l)' => dir' = "used"
  <2>1. dir = "used" => dir' = "used"  OBVIOUS
  <2>2. at[l] = "mkdirs" /\ ~Holds(l) /\ Holds(l)' => dir' = "used"
    BY DEF Holds, Trying
  <2> QED  BY <1>4, <2>1, <2>2 DEF Apart
<1>6. \A k \in Loop : k # l => (Holds(k)' <=> Holds(k))
  BY Others DEF Holds
<1>7. (\A j, k \in Loop : Holds(j) /\ Holds(k) => j = k)'
  BY <1>4, <1>6 DEF Apart
<1>8. (\A k \in Loop : Holds(k) => dir = "used")'
  <2>1. dir = "used" => dir' = "used"  OBVIOUS
  <2> QED  BY <2>1, <1>5, <1>6 DEF Apart
<1>9. (\A k \in Loop : at[k] = "mkdirs" => dir = "empty")'
  BY <1>2, <1>3, Others DEF Apart, InProgress, Working, Trying, MayUse, AfterSuccess
<1>10. (dir = "empty" => \A i \in Iteration : ~red[i])'
  <2>1. dir' = "empty" => dir = "empty" /\ ~Holds(l) /\ red' = red
    BY DEF Apart, Holds, Trying
  <2> QED  BY <2>1 DEF Apart
<1> QED  BY <1>3, <1>7, <1>8, <1>9, <1>10 DEF Apart

\* Only the loop that holds the directory writes in it.
LEMMA Quiet ==
  ASSUME TypeOK, Apart, NEW l \in Loop, Step(l), NEW k \in Loop, k # l, Holds(k)
  PROVE  UNCHANGED shared
<1>1. ~Holds(l) /\ at[l] # "mkdirs"  BY DEF Apart
<1> QED  BY <1>1 DEF Holds, Trying

\* So what is known of another loop stays true.
LEMMA AloneOther ==
  ASSUME TypeOK, Apart, NEW l \in Loop, Step(l),
         NEW k \in Loop, k # l, Placed(k), Alone(k)
  PROVE  Alone(k)'
<1>1. Holds(k)' <=> Holds(k)  BY Others DEF Holds
<1>2. CASE Holds(k)
  <2>1. UNCHANGED shared  BY <1>2, Quiet
  <2> QED  BY <1>1, <2>1, Others
           DEF Alone, Recorded, Judged, Validated, shared, Demands, Complete, Fixable, HonestRed
<1>3. CASE ~Holds(k)
  BY <1>1, <1>3, Others
    DEF Alone, Recorded, Judged, Validated, Holds, Trying, Placed
<1> QED  BY <1>2, <1>3

------------------------------------------------------------------------------
(* What a loop knows of its own iteration *)

\* The rows of a new group start clean and become those of its run.
LEMMA RecordedStep ==
  ASSUME TypeOK, Apart, NEW l \in Loop, Placed(l), Recorded(l), Step(l)
  PROVE  Recorded(l)'
<1>0. /\ iter[l] \in 0 .. MaxIterations
      /\ at[l] \in (Trying \ {"next"}) => iter[l] \in Iteration
  BY LoopAssumption DEF TypeOK, Placed, Iteration
<1>1. (Holds(l) => \A i \in Iteration : i > iter[l] => ~red[i])'
  <2>1. CASE MakeDirs(l)
    BY <2>1 DEF Apart, MakeDirs
  <2>2. CASE ~MakeDirs(l) /\ Holds(l)
    <3>1. iter'[l] \in Nat /\ iter'[l] >= iter[l]
      BY <1>0, LoopAssumption DEF Following
    <3>2. red' = red \/ \E b : red' = [red EXCEPT ![iter[l]] = b]
      OBVIOUS
    <3>3. \A i \in Iteration : i > iter'[l] => i > iter[l] /\ i # iter[l]
      BY <1>0, <3>1 DEF Iteration
    <3>4. \A i \in Iteration : i # iter[l] => red'[i] = red[i]
      BY <3>2 DEF TypeOK
    <3> QED  BY <2>2, <3>3, <3>4 DEF Recorded
  <2>3. CASE ~MakeDirs(l) /\ ~Holds(l)
    <3>1. ~Holds(l)'  BY <2>3, <1>0 DEF Holds, Trying, AfterSuccess
    <3> QED  BY <3>1
  <2> QED  BY <2>1, <2>2, <2>3
<1> USE LoopAssumption, <1>0 DEF Recorded, Trying, AfterSuccess
<1>2. (at[l] \in {"agent", "apply", "validate", "record", "ingest"} => ~red[iter[l]])'
  <2>1. CASE CallAgent(l)
    BY <2>1 DEF Following, Capped, Iteration, Holds
  <2>2. CASE ~CallAgent(l)
    BY <2>2
  <2> QED  BY <2>1, <2>2
<1>3. (at[l] \in {"record", "ingest", "evaluate"}
        => CanRun(run[l].status, run[l].events))'
  BY DEF Run
<1>4. (at[l] \in {"ingest", "evaluate"} => run[l].status \in {"completed", "failed"})'
  BY DEF Run
<1>5. (at[l] = "evaluate" => /\ run[l].events # "none"
                            /\ red[iter[l]] = (run[l].events = "failure"))'
  BY DEF FailureRows
<1>6. (at[l] = "branch" /\ Complete(l) => run[l].events = "clean" /\ ~red[iter[l]])'
  <2>1. CASE Evaluate(l)
    BY <2>1, EvidenceIsTyped, VerdictRests DEF EvidenceOf, Complete, Demands, Run
  <2>2. at'[l] = "branch" => Evaluate(l)
    OBVIOUS
  <2> QED  BY <2>1, <2>2
<1>7. (at[l] = "branch" /\ Fixable(Demands(l))
       => HonestRed(l) /\ verdict[iter[l]].excerpt = Answer(l, iter[l]))'
  <2>1. CASE Evaluate(l)
    BY <2>1, EvidenceIsTyped, VerdictRests
      DEF EvidenceOf, Fixable, Demands, Run, HonestRed, CanRun, HasExcerpt
  <2>2. at'[l] = "branch" => Evaluate(l)
    OBVIOUS
  <2> QED  BY <2>1, <2>2
<1>8. (at[l] = "next" /\ iter[l] > 0
        => /\ Fixable(Demands(l)) /\ HonestRed(l)
           /\ excerpt[l] = Answer(l, iter[l]))'
  BY DEF Demands, HonestRed, Placed, Early
<1> QED  BY <1>1, <1>2, <1>3, <1>4, <1>5, <1>6, <1>7, <1>8

\* Outcome and exit code are set together with the step that is taken.
LEMMA JudgedStep ==
  ASSUME TypeOK, NEW l \in Loop, Placed(l), Recorded(l), Judged(l), Step(l),
         MaxIterations > 0
  PROVE  Judged(l)'
<1> USE LoopAssumption DEF Judged, Trying, AfterSuccess, Placed, Early
<1>1. (at[l] = "compare" => outcome[l] \in Green /\ Complete(l))'
  BY DEF Complete, Demands, Green
<1>2. (at[l] \in {"summary", "exited"} /\ exit[l] = 0
        => /\ outcome[l] \in Green /\ iter[l] > 0 /\ Complete(l)
           /\ iter[l] > 1 => compared[l])'
  BY DEF Complete, Demands, Green
<1>3. (at[l] \in {"summary", "exited"} /\ exit[l] = 1
        => /\ outcome[l] = "iteration_cap_red" /\ iter[l] = MaxIterations
           /\ iter[l] > 0 /\ Fixable(Demands(l)))'
  BY DEF Recorded, Demands, Capped
<1> QED  BY <1>1, <1>2, <1>3

\* The answer is what is applied, built and judged.
LEMMA ValidatedStep ==
  ASSUME TypeOK, NEW l \in Loop, Placed(l), Recorded(l), Validated(l), Step(l)
  PROVE  Validated(l)'
<1>0. /\ iter[l] \in 0 .. MaxIterations
      /\ at[l] \in (Trying \ {"next"}) => iter[l] \in Iteration
  BY LoopAssumption DEF TypeOK, Placed, Iteration
<1> USE LoopAssumption, <1>0 DEF Validated, Trying, AfterSuccess, Placed, Early
<1>1. (at[l] = "apply" => response[iter[l]] = Answer(l, iter[l]))'
  OBVIOUS
<1>2. (/\ at[l] \in {"validate", "record", "ingest", "evaluate", "branch"} /\ edits = 0
       => workspace = Answer(l, iter[l]))'
  OBVIOUS
<1>3. (/\ at[l] \in {"record", "ingest", "evaluate", "branch"} /\ edits = 0
       => run[l].built = Answer(l, iter[l]))'
  OBVIOUS
<1>4. (outcome[l] \in Green /\ edits = 0
       => /\ ~red[iter[l]] /\ run[l].events = "clean"
          /\ run[l].built = Answer(l, iter[l]) /\ workspace = run[l].built)'
  BY DEF Recorded, Green
<1> QED  BY <1>1, <1>2, <1>3, <1>4

\* Which action makes the moves the step properties are about.
LEMMA WhoMoves ==
  ASSUME TypeOK, NEW l \in Loop, Step(l)
  PROVE  /\ at[l] = "evaluate" /\ at'[l] = "branch" => Evaluate(l)
         /\ at[l] = "next" /\ at'[l] = "agent" => CallAgent(l)
         /\ CallAgent(l) \/ iter' = iter
  BY DEF AfterSuccess

HIDE DEF TypeOK, shared, locals, Goto, Step, LoopStep, Start, Raise, Kill,
         CheckDir, MakeDirs, Prepare, CannotPrepare, CallAgent, ReachCap,
         AgentAnswers, AgentFails, Apply, Unusable, Validate, NoMetadata,
         RecordRun, Ingest, CannotIngest, Evaluate, CannotEvaluate,
         DispatchFix, CannotReadFix, Succeed, StopHonestly, ExportCompare,
        WriteSummary,
         Block, Refuse, DropScratch, OnException, CompareOutcome

------------------------------------------------------------------------------
(* The invariant is inductive *)

\* The invariant holds before any loop has started.
THEOREM Initially == Init => IInv
<1> SUFFICES ASSUME Init PROVE IInv
  OBVIOUS
<1> USE LoopAssumption DEF Init
<1>1. TypeOK
  <2>1. NoVerdict \in [action : Action \cup {"none"}, excerpt : Source]
    BY Typed DEF NoVerdict
  <2> QED  BY <2>1, Typed DEF TypeOK
<1>2. \A l \in Loop : Placed(l)
  BY DEF Placed, Early, Trying, Green, NoPrompt
<1>3. Apart
  BY DEF Apart, InProgress, Working, Holds, Trying
<1>4. \A l \in Loop : Alone(l)
  BY DEF Alone, Recorded, Judged, Validated, Holds, Trying, Green
<1> QED  BY <1>1, <1>2, <1>3, <1>4 DEF IInv

\* An edit touches the workspace alone.
LEMMA EditKeeps ==
  ASSUME IInv, Edit
  PROVE  IInv'
<1>1. TypeOK'  BY EditStep DEF IInv
<1>2. edits' # 0  BY LoopAssumption DEF IInv, TypeOK, Edit
<1>3. \A l \in Loop : Placed(l)'
  BY DEF IInv, Edit, locals, Placed
<1>4. Apart => Apart'
  BY DEF Edit, locals, Apart, InProgress, Holds
<1>5. ASSUME NEW l \in Loop, Alone(l)  PROVE Alone(l)'
  BY <1>2, <1>5 DEF Edit, locals, Alone, Recorded, Judged, Validated, Holds,
                    Complete, Fixable, Demands, HonestRed
<1> QED  BY <1>1, <1>3, <1>4, <1>5 DEF IInv

\* A step of a loop keeps the invariant for itself and the others.
LEMMA StepKeeps ==
  ASSUME IInv, NEW l \in Loop, Step(l)
  PROVE  IInv'
<1>1. TypeOK'  BY TypeStep DEF IInv
<1>2. \A k \in Loop : Placed(k)'
  <2>1. Placed(l)'  BY PlacedStep DEF IInv
  <2>2. ASSUME NEW k \in Loop, k # l  PROVE Placed(k)'
    BY <2>2, Others DEF IInv, Placed
  <2> QED  BY <2>1, <2>2
<1>3. ASSUME ~Overlap, MaxIterations > 0
      PROVE  Apart' /\ \A k \in Loop : Alone(k)'
  <2>1. Apart'  BY <1>2, <1>3, ApartStep DEF IInv
  <2>2. Alone(l)'
    BY <1>3, RecordedStep, JudgedStep, ValidatedStep DEF IInv, Alone
  <2>3. ASSUME NEW k \in Loop, k # l  PROVE Alone(k)'
    BY <1>3, <2>3, AloneOther DEF IInv
  <2> QED  BY <2>1, <2>2, <2>3
<1> QED  BY <1>1, <1>2, <1>3 DEF IInv

\* The invariant is inductive.
THEOREM Inductive == IInv /\ [Next]_vars => IInv'
<1> SUFFICES ASSUME IInv, [Next]_vars PROVE IInv'
  OBVIOUS
<1>1. CASE Edit  BY <1>1, EditKeeps
<1>2. CASE \E l \in Loop : Step(l)  BY <1>2, StepKeeps
<1>3. CASE UNCHANGED vars
  BY <1>3 DEF vars, shared, locals, IInv, TypeOK, Placed, Apart, InProgress, Holds, Alone,
              Recorded, Judged, Validated, Complete, Fixable, Demands, HonestRed
<1> QED  BY <1>1, <1>2, <1>3 DEF Next, Step

\* So it holds of every reachable state.
THEOREM Invariance == Spec => []IInv
  BY Initially, Inductive, PTL DEF Spec

------------------------------------------------------------------------------
(* The properties *)

\* Types are kept: iterations stay within --max-iterations, exit codes are
\* 0, 1 or 2, whatever loops and edits do.
THEOREM TypeCorrect == Spec => []TypeOK
<1>1. IInv => TypeOK  BY DEF IInv
<1> QED  BY <1>1, Invariance, PTL

\* No prompt is left in the scratch directory when the command returns or
\* raises, also with loops that overlap.
THEOREM NoPromptIsLeft == Spec => []PromptsAreGone
<1>1. IInv => PromptsAreGone
  BY DEF IInv, Placed, PromptsAreGone, Trying
<1> QED  BY <1>1, Invariance, PTL

\* Loops that do not overlap never work in one tree.
THEOREM TreesAreFresh == Spec => [](~Overlap => FreshTree)
<1>1. IInv => (~Overlap => FreshTree)
  <2> SUFFICES ASSUME IInv, ~Overlap, NEW k \in Loop, NEW l \in Loop,
                      InTree(k), InTree(l)
               PROVE  k = l
    BY DEF FreshTree
  <2>1. MaxIterations > 0
    BY LoopAssumption DEF IInv, TypeOK, InTree
  <2> QED  BY <2>1 DEF IInv, Apart, Holds, InTree
<1> QED  BY <1>1, Invariance, PTL

\* The premise of the remaining results: loops on a directory follow one
\* another, and each of them may call its agent.
OneByOne == ~Overlap /\ MaxIterations > 0

\* A green loop validated what its agent wrote last, without a failure row.
THEOREM GreenWasValidated == Spec => [](OneByOne => GreenIsValidated)
<1>1. IInv => (OneByOne => GreenIsValidated)
  BY DEF IInv, OneByOne, Alone, Validated, GreenIsValidated
<1> QED  BY <1>1, Invariance, PTL

\* The exit code is that of the last verdict.
THEOREM OutcomeIsTheVerdicts == Spec => [](OneByOne => OutcomeMatchesVerdict)
<1>1. IInv => (OneByOne => OutcomeMatchesVerdict)
  BY DEF IInv, OneByOne, Alone, Judged, OutcomeMatchesVerdict, Complete, Demands
<1> QED  BY <1>1, Invariance, PTL

\* A verdict that accepts or dispatches was made on the recorded workspace, or
\* on a file that is gone or never got a hash; for overlapping loops too.
THEOREM GreenWasSettled == Spec => GreenIsSettled
<1> DEFINE Settled(l) ==
      /\ at[l] = "evaluate" /\ at'[l] = "branch"
      /\ verdict'[iter[l]].action \in {"none_complete", "dispatch_fix_with_evidence"}
      => workspace \in {after[iter[l]], Gone} \/ after[iter[l]] = Nobody
<1>1. ASSUME IInv, NEW l \in Loop, Step(l)  PROVE Settled(l)
  <2> SUFFICES ASSUME at[l] = "evaluate", at'[l] = "branch"  PROVE Settled(l)
    OBVIOUS
  <2>1. Evaluate(l)
    BY <1>1, WhoMoves DEF IInv
  <2>2. iter[l] \in Iteration
    <3>1. iter[l] \in 0 .. MaxIterations /\ iter[l] > 0
      BY <1>1 DEF IInv, TypeOK, Placed, Trying
    <3> QED  BY <3>1, LoopAssumption DEF Iteration
  <2>3. verdict'[iter[l]].action = FirstStep(EvidenceOf(l))
    BY <2>1, <2>2, <1>1 DEF Evaluate, IInv, TypeOK
  <2>4. EvidenceOf(l) \in Evidence
    BY <1>1, <2>2, EvidenceIsTyped DEF IInv
  <2>5. EvidenceOf(l).pending
          = (workspace \notin {Gone, after[iter[l]]} /\ after[iter[l]] # Nobody)
    BY DEF EvidenceOf
  <2> QED  BY <2>3, <2>4, <2>5, VerdictRests
<1>2. ASSUME IInv, NEW k \in Loop, Step(k), NEW l \in Loop, l # k  PROVE Settled(l)
  BY <1>2, Others DEF IInv
<1>3. ASSUME UNCHANGED vars \/ Edit, NEW l \in Loop  PROVE Settled(l)
  BY <1>3 DEF vars, Edit
<1>4. IInv /\ [Next]_vars => [\A l \in Loop : Settled(l)]_vars
  BY <1>1, <1>2, <1>3 DEF Next, Step
<1> HIDE DEF Settled
<1>5. [\A l \in Loop : Settled(l)]_vars
        => [\A l \in Loop :
              /\ at[l] = "evaluate" /\ at'[l] = "branch"
              /\ verdict'[iter[l]].action
                   \in {"none_complete", "dispatch_fix_with_evidence"}
              => workspace \in {after[iter[l]], Gone} \/ after[iter[l]] = Nobody]_vars
  BY DEF Settled
<1> QED  BY <1>4, <1>5, Invariance, PTL DEF Spec, GreenIsSettled

\* An agent is called again on the evidence of the very run that failed.
THEOREM DispatchesOnEvidence == OneByOne => (Spec => DispatchOnEvidence)
<1> SUFFICES ASSUME OneByOne  PROVE Spec => DispatchOnEvidence
  OBVIOUS
<1> DEFINE Handed(l) ==
      at[l] = "next" /\ at'[l] = "agent" /\ iter[l] > 0
        => /\ prompt'[l].excerpt = Answer(l, iter[l])
           /\ run[l].events = "failure" /\ run[l].status = "failed"
           /\ {"target", "marker"} \subseteq run[l].says
           /\ "signature" \notin run[l].says
<1>1. ASSUME IInv, NEW l \in Loop, Step(l)  PROVE Handed(l)
  <2> SUFFICES ASSUME at[l] = "next", at'[l] = "agent", iter[l] > 0
               PROVE  Handed(l)
    OBVIOUS
  <2>1. CallAgent(l)
    BY <1>1, WhoMoves DEF IInv
  <2>2. prompt'[l].excerpt = excerpt[l]
    BY <2>1, <1>1 DEF IInv, TypeOK, CallAgent, PromptOf
  <2>3. HonestRed(l) /\ excerpt[l] = Answer(l, iter[l])
    BY <1>1 DEF IInv, OneByOne, Alone, Recorded
  <2> QED  BY <2>2, <2>3 DEF HonestRed
<1>2. ASSUME IInv, NEW k \in Loop, Step(k), NEW l \in Loop, l # k  PROVE Handed(l)
  BY <1>2, Others DEF IInv
<1>3. ASSUME UNCHANGED vars \/ Edit, NEW l \in Loop  PROVE Handed(l)
  BY <1>3 DEF vars, Edit
<1>4. IInv /\ [Next]_vars => [\A l \in Loop : Handed(l)]_vars
  BY <1>1, <1>2, <1>3 DEF Next, Step
<1> HIDE DEF Handed
<1>5. [\A l \in Loop : Handed(l)]_vars
        => [\A l \in Loop :
              at[l] = "next" /\ at'[l] = "agent" /\ iter[l] > 0
                => /\ prompt'[l].excerpt = Answer(l, iter[l])
                   /\ run[l].events = "failure" /\ run[l].status = "failed"
                   /\ {"target", "marker"} \subseteq run[l].says
                   /\ "signature" \notin run[l].says]_vars
  BY DEF Handed
<1> QED  BY <1>4, <1>5, Invariance, PTL DEF Spec, DispatchOnEvidence

------------------------------------------------------------------------------
(* The contract *)

View == [l \in Loop |-> Standing(l)]

\* A step of loop l is a step of the contract, or leaves its view as it was.
LEMMA StandingStep ==
  ASSUME IInv, NEW l \in Loop, Step(l)
  PROVE  \/ Contract!Call(l) \/ Contract!Judge(l) \/ Contract!Accept(l)
         \/ Contract!Stop(l) \/ UNCHANGED <<View, iter>>
<1>1. \A k \in Loop : k # l => Standing(k)' = Standing(k)
  BY Others DEF IInv, Standing
<1>2. View' = [View EXCEPT ![l] = Standing(l)']
  BY <1>1 DEF View
<1>3. View[l] = Standing(l)  BY DEF View
<1>4. CASE CallAgent(l)
  <2>1. Standing(l) \in {"open", "red"}
    BY <1>4 DEF CallAgent, Standing
  <2>2. Standing(l)' = "called"
    BY <1>4 DEF CallAgent, Goto, IInv, TypeOK, Standing, Trying
  <2>3. iter' = [iter EXCEPT ![l] = @ + 1] /\ iter[l] < MaxIterations
    BY <1>4, LoopAssumption DEF CallAgent, Following, Capped, IInv, TypeOK
  <2> QED  BY <1>2, <1>3, <2>1, <2>2, <2>3
           DEF Contract!Call, Contract!Becomes, View
<1>5. CASE ~CallAgent(l)
  <2>1. iter' = iter
    BY <1>5, WhoMoves DEF IInv
  <2>2. \/ Standing(l)' = Standing(l)
        \/ Standing(l) = "called" /\ Standing(l)' \in {"red", "green"}
        \/ Standing(l) = "green" /\ Standing(l)' = "accepted"
        \/ Standing(l) \notin {"accepted", "stopped"} /\ Standing(l)' = "stopped"
    <3> USE <2>1 DEF IInv, TypeOK, Placed, Standing, Early, Trying, Goto, locals
    <3>1. CASE Start(l) \/ CheckDir(l) \/ MakeDirs(l) \/ Prepare(l) \/ CannotPrepare(l)
      BY <3>1 DEF Start, CheckDir, MakeDirs, Prepare, CannotPrepare, Refuse
    <3>2. CASE \/ AgentFails(l) \/ Unusable(l) \/ NoMetadata(l) \/ CannotIngest(l)
               \/ CannotEvaluate(l) \/ StopHonestly(l)
      BY <3>2 DEF AgentFails, Unusable, NoMetadata, CannotIngest, CannotEvaluate,
                  StopHonestly, Block
    <3>3. CASE AgentAnswers(l) \/ Apply(l) \/ Validate(l) \/ Ingest(l) \/ Evaluate(l)
      BY <3>3 DEF AgentAnswers, Apply, Validate, Ingest, Evaluate
    <3>4. CASE RecordRun(l)
      BY <3>4 DEF RecordRun, Block
    <3>5. CASE DispatchFix(l) \/ Succeed(l)
      BY <3>5 DEF DispatchFix, Succeed, AfterSuccess
    <3>6. CASE ReachCap(l) \/ ExportCompare(l) \/ WriteSummary(l)
      BY <3>6 DEF ReachCap, ExportCompare, CompareOutcome, WriteSummary
    <3>7. CASE CannotReadFix(l) \/ Raise(l) \/ Kill(l)
      BY <3>7 DEF CannotReadFix, Raise, Kill, InProgress, Working
    <3> QED
      BY <1>5, <3>1, <3>2, <3>3, <3>4, <3>5, <3>6, <3>7 DEF Step, LoopStep
  <2>3. CASE Standing(l)' = Standing(l)
    <3>1. View' = View  BY <1>1, <2>3 DEF View
    <3> QED  BY <3>1, <2>1
  <2> QED  BY <1>2, <1>3, <2>1, <2>2, <2>3
           DEF Contract!Judge, Contract!Accept, Contract!Stop, Contract!Becomes, View
<1> QED  BY <1>4, <1>5

\* Every loop keeps the closed-loop contract: it calls, judges what it called
\* for, goes on only after a red, accepts only after a green, and stops for good
\* otherwise; for any number of loops, overlapping or not.
THEOREM ContractIsKept == Spec => ContractSpec
<1>1. Init => Contract!Init
  BY DEF Init, Contract!Init, Standing
<1>2. IInv /\ [Next]_vars => [Contract!Next]_<<View, iter>>
  <2> SUFFICES ASSUME IInv, [Next]_vars
               PROVE  Contract!Next \/ UNCHANGED <<View, iter>>
    OBVIOUS
  <2>1. ASSUME NEW l \in Loop, Step(l)
        PROVE  Contract!Next \/ UNCHANGED <<View, iter>>
    BY <2>1, StandingStep DEF Contract!Next
  <2>2. CASE Edit
    BY <2>2 DEF Edit, locals, View, Standing
  <2>3. CASE UNCHANGED vars
    BY <2>3 DEF vars, locals, View, Standing
  <2> QED  BY <2>1, <2>2, <2>3 DEF Next, Step
<1>3. IInv /\ [Next]_vars
        => [Contract!Next]_<<[l \in Loop |-> Standing(l)], iter>>
  BY <1>2 DEF View
<1> QED  BY <1>1, <1>3, Invariance, PTL DEF Spec, ContractSpec, Contract!Spec
==============================================================================
