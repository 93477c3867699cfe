------------------------ MODULE EvidenceCommandsProofs ------------------------
(***************************************************************************)
(* Proofs about the commands that add evidence to a run, for any number of *)
(* each, any groups, and any number of attempts and collections.           *)
(***************************************************************************)
EXTENDS EvidenceCommands, TLAPS

USE CommandsAssumption, NothingAssumption

------------------------------------------------------------------------------
(* Types *)

\* A run has the life of the last insert, and rows are a run's.
Lives ==
  /\ run # Nothing => run.life = lives
  /\ run = Nothing => lives < MaxLives /\ \A k \in Kind : rows[k] = Nothing
  /\ \A c \in Command : since[c] <= lives /\ joined[c] <= lives

\* The rows of an ingest.
IngestKind == {"target", "failure", "reference", "worker-readiness", "worker-admin",
               "build-tool", "cas-probe"}

\* Where a role can be, once it is under way.
Roles ==
  \A c \in Command :
    /\ step[c] \in {"parsed", "free"} \cup IngestKind => c \in Ingest
    /\ step[c] \in {"status", "failures", "newest", "evaluation"} => c \in Evaluate
    /\ step[c] \in {"artifact", "agent_provenance"} => c \in Import
    /\ step[c] \in {"cleared", "copied", "hashed", "patched", "simulated", "provenance",
                    "writing", "written", "stable", "filling"} \cup SimulationKind
         => c \in Simulate
    /\ step[c] = "writing" => root # Nothing
    /\ step[c] = "filling" => stable # Nothing

Sound == TypeOK /\ Lives /\ Roles

LEMMA WriteIsSound ==
  ASSUME Sound, NEW c \in Command, NEW k \in Kind, NEW a \in Step \cup Ended, Write(c, k, a),
         a \in {"done"} \cup (IF c \in Ingest THEN IngestKind
           ELSE IF c \in Import THEN {"agent_provenance"}
           ELSE IF c \in Simulate THEN SimulationKind \cup {"stable"} ELSE {})
  PROVE  Sound'
<1> USE DEF Sound, Write, Goto, Stored, Kept, files
<1>1. TypeOK'
  <2>1. [by |-> c, try |-> tries[c], since |-> since[c],
         joined |-> joined[c], says |-> view[c]] \in Row
    BY DEF TypeOK, Row
  <2>2. rows' \in [Kind -> {Nothing} \cup Row]
    BY <2>1 DEF TypeOK
  <2>3. step' \in [Command -> Step \cup Ended]
    BY DEF TypeOK, Ended
  <2>4. alone' \in [Evaluate -> BOOLEAN]
    <3>1. alone' = alone \/ Disturb(c)  OBVIOUS
    <3> HIDE DEF Write
    <3> QED  BY <3>1 DEF TypeOK, Disturb
  <2> QED  BY <2>2, <2>3, <2>4 DEF TypeOK
<1>2. Lives'
  BY DEF Lives, TypeOK
<1>3. Roles'
  BY DEF Roles, TypeOK, IngestKind, SimulationKind, SimulationOrder
<1> QED  BY <1>1, <1>2, <1>3

\* Every step of a command: a write of a row, or one of these.
LEMMA CommandSteps ==
  ASSUME NEW c \in Command, CommandStep(c) \/ Begin(c)
  PROVE  \/ c \in Ingest /\ (Parse(c) \/ CheckGroup(c) \/ InsertRun(c) \/ EvidenceFails(c))
         \/ c \in Ingest /\ \E i \in 1..7, j \in 1..8 :
              Follows(c, i, j) /\ Write(c, IngestOrder[i], IngestOrder[j])
         \/ c \in Evaluate /\ (Look(c, "status") \/ ReadStatus(c) \/ ReadFailures(c)
                                 \/ PickRun(c) \/ Write(c, "evaluation", "done"))
         \/ c \in Import /\ (Look(c, "artifact") \/ RefuseReceipt(c)
                               \/ Write(c, "artifact", "agent_provenance")
                               \/ Write(c, "agent_provenance", "done"))
         \/ c \in Simulate /\ (ClearWorkspace(c) \/ CopyWorkspace(c) \/ HashBefore(c)
                                 \/ RefusePatch(c) \/ ApplyPatch(c) \/ HashAfter(c)
                                 \/ SimulateOnlyRun(c) \/ CreateProvenance(c)
                                 \/ FinishProvenance(c) \/ FindRun(c)
                                 \/ OpenStable(c) \/ FillStable(c)
                                 \/ Write(c, "change", "sim_artifact")
                                 \/ Write(c, "sim_artifact", "sim_provenance")
                                 \/ Write(c, "sim_provenance", "stable"))
<1>1. CASE Begin(c)
  BY <1>1 DEF Begin, ImportOrder
<1>2. CASE c \in Ingest /\ IngestStep(c)
  BY <1>2 DEF IngestStep, StoreBundle
<1>3. CASE c \in Evaluate /\ EvaluateStep(c)
  BY <1>3 DEF EvaluateStep
<1>4. CASE c \in Import /\ ImportStep(c)
  BY <1>4 DEF ImportStep, ImportOrder
<1>5. CASE c \in Simulate /\ SimulateStep(c)
  BY <1>5 DEF SimulateStep, SimulationOrder
<1> QED  BY <1>1, <1>2, <1>3, <1>4, <1>5 DEF CommandStep

LEMMA OrderIs ==
  /\ IngestKind = {IngestOrder[i] : i \in 1..7} /\ IngestOrder[8] = "done"
  /\ \A i \in 1..7 : IngestOrder[i] \in IngestKind /\ IngestOrder[i] \in Kind
  /\ \A i, j \in 1..8 : IngestOrder[i] = IngestOrder[j] => i = j
<1>1. /\ IngestOrder[1] = "target" /\ IngestOrder[2] = "failure"
      /\ IngestOrder[3] = "reference" /\ IngestOrder[4] = "worker-readiness"
      /\ IngestOrder[5] = "worker-admin" /\ IngestOrder[6] = "build-tool"
      /\ IngestOrder[7] = "cas-probe" /\ IngestOrder[8] = "done"
  BY DEF IngestOrder
<1>2. IngestKind = {IngestOrder[i] : i \in 1..7}  BY <1>1 DEF IngestKind
<1>3. \A i \in 1..7 : IngestOrder[i] \in IngestKind /\ IngestOrder[i] \in Kind
  BY <1>1 DEF IngestKind, Kind, BlockKind
<1>4. \A i, j \in 1..8 : IngestOrder[i] = IngestOrder[j] => i = j  BY <1>1
<1> QED  BY <1>1, <1>2, <1>3, <1>4

\* upsert_run: whoever made the row, it has the life of the last insert.
LEMMA RunInserted ==
  ASSUME Sound, NEW c \in Command,
         IF run = Nothing
           THEN /\ run' = [group |-> GroupOf[c], life |-> lives + 1]
                /\ lives' = lives + 1
                /\ Disturb(c)
           ELSE UNCHANGED <<run, lives, alone>>
  PROVE  /\ run' \in RunRow /\ run' # Nothing /\ run'.life = lives'
         /\ lives' \in 0..MaxLives /\ lives <= lives'
         /\ alone' \in [Evaluate -> BOOLEAN]
<1>1. CASE run = Nothing
  <2>1. lives + 1 \in 1..MaxLives /\ lives' = lives + 1
    BY <1>1 DEF Sound, TypeOK, Lives
  <2>2. run' \in RunRow /\ run'.life = lives'
    BY <1>1, <2>1 DEF RunRow
  <2>3. alone' \in [Evaluate -> BOOLEAN]
    BY <1>1 DEF Disturb, Sound, TypeOK
  <2>4. run' # Nothing  BY <2>2
  <2>5. lives <= lives' /\ lives' \in 0..MaxLives
    BY <2>1 DEF Sound, TypeOK
  <2> QED  BY <2>2, <2>3, <2>4, <2>5
<1>2. CASE run # Nothing
  BY <1>2 DEF Sound, TypeOK, Lives
<1> QED  BY <1>1, <1>2

LEMMA IngestIsSound ==
  ASSUME Sound, NEW c \in Ingest,
         Parse(c) \/ CheckGroup(c) \/ InsertRun(c) \/ EvidenceFails(c)
  PROVE  Sound'
<1> USE DEF Sound, Goto, files
<1> USE DEF IngestKind
<1> c \in Command  BY DEF Command
<1>1. CASE Parse(c)
  <2>1. \E p \in Presence : view' = [view EXCEPT ![c].presence = p]
    BY <1>1 DEF Parse, Presence
  <2>2. view' \in [Command -> View]
    BY <2>1 DEF TypeOK, View
  <2>3. TypeOK'  BY <1>1, <2>2 DEF Parse, Start, TypeOK, Step
  <2> QED  BY <1>1, <2>3 DEF Parse, Start, TypeOK, Lives, Roles, SimulationKind, SimulationOrder
<1>2. CASE CheckGroup(c)
  BY <1>2 DEF CheckGroup, TypeOK, Lives, Roles, Step, Ended, SimulationKind, SimulationOrder
<1>3. CASE InsertRun(c)
  <2>1. /\ run' \in RunRow /\ run' # Nothing /\ run'.life = lives'
        /\ lives' \in 0..MaxLives /\ lives <= lives'
        /\ alone' \in [Evaluate -> BOOLEAN]
    BY <1>3, RunInserted DEF InsertRun
  <2>2. joined' = [joined EXCEPT ![c] = lives']  BY <1>3, <2>1 DEF InsertRun
  <2>3. TypeOK' /\ Lives'
    BY <1>3, <2>1, <2>2 DEF InsertRun, TypeOK, Lives, Step, Kind
  <2>4. Roles'
    BY <1>3 DEF InsertRun, TypeOK, Roles, SimulationKind, SimulationOrder
  <2> QED  BY <2>3, <2>4
<1>4. CASE EvidenceFails(c)
  BY <1>4 DEF EvidenceFails, TypeOK, Lives, Roles, Ended, SimulationKind, SimulationOrder
<1> QED  BY <1>1, <1>2, <1>3, <1>4

LEMMA ReadersAreSound ==
  ASSUME Sound, NEW c \in Evaluate \cup Import,
         \/ c \in Evaluate /\ (Look(c, "status") \/ ReadStatus(c) \/ ReadFailures(c) \/ PickRun(c))
         \/ c \in Import /\ (Look(c, "artifact") \/ RefuseReceipt(c))
  PROVE  Sound'
<1> USE DEF Sound, Goto, files, IngestKind
<1> c \in Command  BY DEF Command
<1> Blank \in View  BY DEF Blank, View, Presence, Copy
<1>1. CASE \E s \in {"status", "artifact"} :
             Look(c, s) /\ (s = "status" => c \in Evaluate) /\ (s = "artifact" => c \in Import)
  <2>1. joined'[c] \in 0..lives /\ \A d \in Command \ {c} : joined'[d] = joined[d]
    BY <1>1 DEF Look, OfGroup, TypeOK, Lives, RunRow
  <2>2. TypeOK'
    BY <1>1 DEF Look, Start, OfGroup, TypeOK, Step, Ended, Kind, RunRow
  <2> QED  BY <1>1, <2>1, <2>2 DEF Look, Start, TypeOK, Lives, Roles, SimulationKind, SimulationOrder
<1>2. CASE ReadStatus(c) /\ c \in Evaluate
  <2>1. Failed(c) \in BOOLEAN  BY DEF Failed, OfGroup
  <2>2. TypeOK'  BY <1>2, <2>1 DEF ReadStatus, TypeOK, View, Step
  <2> QED  BY <1>2, <2>2 DEF ReadStatus, TypeOK, Lives, Roles, SimulationKind, SimulationOrder
<1>3. CASE ReadFailures(c) /\ c \in Evaluate
  <2>1. TypeOK'  BY <1>3 DEF ReadFailures, Stored, TypeOK, View, Step
  <2> QED  BY <1>3, <2>1 DEF ReadFailures, TypeOK, Lives, Roles, SimulationKind, SimulationOrder
<1>4. CASE PickRun(c) /\ c \in Evaluate
  BY <1>4 DEF PickRun, TypeOK, Lives, Roles, Step, Ended, Kind, SimulationKind, SimulationOrder
<1>5. CASE RefuseReceipt(c)
  BY <1>5 DEF RefuseReceipt, Start, TypeOK, Lives, Roles, Ended, SimulationKind, SimulationOrder
<1> QED  BY <1>1, <1>2, <1>3, <1>4, <1>5

LEMMA SimulateIsSound ==
  ASSUME Sound, NEW c \in Simulate,
         \/ ClearWorkspace(c) \/ CopyWorkspace(c) \/ HashBefore(c) \/ RefusePatch(c)
         \/ ApplyPatch(c) \/ HashAfter(c) \/ SimulateOnlyRun(c) \/ CreateProvenance(c)
         \/ FinishProvenance(c) \/ FindRun(c) \/ OpenStable(c) \/ FillStable(c)
  PROVE  Sound'
<1> USE DEF Sound, Goto, files, IngestKind
<1> c \in Command  BY DEF Command
<1> Blank \in View  BY DEF Blank, View, Presence, Copy
<1>1. CASE ClearWorkspace(c)
  BY <1>1 DEF ClearWorkspace, Start, TypeOK, Lives, Roles, Copy, Step, Ended, SimulationKind, SimulationOrder
<1>2. CASE CopyWorkspace(c)
  <2> [by |-> c, try |-> tries[c], patched |-> FALSE] \in Copy
    BY DEF TypeOK, Copy, Workspace
  <2>1. workspace' \in Copy
    BY <1>2 DEF CopyWorkspace, TypeOK
  <2>2. TypeOK'  BY <1>2, <2>1 DEF CopyWorkspace, TypeOK, Step, Ended
  <2> QED  BY <1>2, <2>2 DEF CopyWorkspace, TypeOK, Lives, Roles, SimulationKind, SimulationOrder
<1>3. CASE HashBefore(c)
  <2>1. TypeOK'  BY <1>3 DEF HashBefore, TypeOK, View, Step
  <2> QED  BY <1>3, <2>1 DEF HashBefore, TypeOK, Lives, Roles, SimulationKind, SimulationOrder
<1>4. CASE ApplyPatch(c)
  <2>1. workspace' \in Copy
    BY <1>4 DEF ApplyPatch, PatchApplies, TypeOK, Copy, Workspace
  <2>2. TypeOK'  BY <1>4, <2>1 DEF ApplyPatch, TypeOK, Step, Ended
  <2> QED  BY <1>4, <2>2 DEF ApplyPatch, TypeOK, Lives, Roles, SimulationKind, SimulationOrder
<1>5. CASE HashAfter(c)
  <2>1. TypeOK'  BY <1>5 DEF HashAfter, TypeOK, View, Step
  <2> QED  BY <1>5, <2>1 DEF HashAfter, TypeOK, Lives, Roles, SimulationKind, SimulationOrder
<1>6. CASE SimulateOnlyRun(c)
  <2>1. /\ run' \in RunRow /\ run' # Nothing /\ run'.life = lives'
        /\ lives' \in 0..MaxLives /\ lives <= lives'
        /\ alone' \in [Evaluate -> BOOLEAN]
    BY <1>6, RunInserted DEF SimulateOnlyRun
  <2>2. TypeOK' /\ Lives'
    BY <1>6, <2>1 DEF SimulateOnlyRun, TypeOK, Lives, Step, Kind
  <2> QED  BY <1>6, <2>2 DEF SimulateOnlyRun, TypeOK, Roles, SimulationKind, SimulationOrder
<1>7. CASE CreateProvenance(c)
  <2> [by |-> c, try |-> tries[c], whole |-> FALSE, says |-> view[c]] \in Provenance
    BY DEF TypeOK, Provenance
  <2>1. ~RootTaken => root' \in Provenance
    BY <1>7 DEF CreateProvenance
  <2>2. TypeOK'  BY <1>7, <2>1 DEF CreateProvenance, TypeOK, Step, Ended
  <2>3. step'[c] = "writing" => root' # Nothing
    BY <1>7, <2>1 DEF CreateProvenance, TypeOK
  <2> QED  BY <1>7, <2>2, <2>3 DEF CreateProvenance, TypeOK, Lives, Roles, SimulationKind, SimulationOrder
<1>8. CASE FinishProvenance(c)
  <2>1. root' \in Provenance
    BY <1>8 DEF FinishProvenance, TypeOK, Roles, Provenance
  <2>2. TypeOK'  BY <1>8, <2>1 DEF FinishProvenance, TypeOK, Step
  <2>3. root' # Nothing  BY <2>1
  <2> QED  BY <1>8, <2>2, <2>3 DEF FinishProvenance, TypeOK, Lives, Roles, SimulationKind, SimulationOrder
<1>9. CASE FindRun(c)
  <2>1. TypeOK' /\ Lives'
    BY <1>9 DEF FindRun, TypeOK, Lives, RunRow, Step, Kind, Ended, SimulationKind, SimulationOrder
  <2> QED  BY <1>9, <2>1 DEF FindRun, TypeOK, Roles, SimulationKind, SimulationOrder
<1>10. CASE RefusePatch(c)
  BY <1>10 DEF RefusePatch, TypeOK, Lives, Roles, Ended, SimulationKind, SimulationOrder
<1>11. CASE OpenStable(c)
  <2> [by |-> c, try |-> tries[c], whole |-> FALSE, says |-> view[c]] \in Provenance
    BY DEF TypeOK, Provenance
  <2>1. stable' \in Provenance /\ stable' # Nothing
    BY <1>11 DEF OpenStable
  <2>2. TypeOK'  BY <1>11, <2>1 DEF OpenStable, TypeOK, Step
  <2> QED  BY <1>11, <2>1, <2>2 DEF OpenStable, TypeOK, Lives, Roles, SimulationKind, SimulationOrder
<1>12. CASE FillStable(c)
  <2>1. stable' \in Provenance
    BY <1>12 DEF FillStable, TypeOK, Roles, Provenance
  <2>2. TypeOK'  BY <1>12, <2>1 DEF FillStable, TypeOK, Ended
  <2>3. stable' # Nothing  BY <2>1
  <2> QED  BY <1>12, <2>2, <2>3 DEF FillStable, TypeOK, Lives, Roles, SimulationKind, SimulationOrder
<1> QED  BY <1>1, <1>2, <1>3, <1>4, <1>5, <1>6, <1>7, <1>8, <1>9, <1>10, <1>11, <1>12

LEMMA StepIsSound ==
  ASSUME Sound, [Next]_vars
  PROVE  Sound'
<1>1. CASE UNCHANGED vars
  BY <1>1 DEF vars, files, Sound, TypeOK, Lives, Roles
<1>2. ASSUME NEW c \in Command, Begin(c) \/ CommandStep(c)
      PROVE  Sound'
  <2> Kind \subseteq Step /\ "done" \in Ended  BY DEF Step, Ended
  <2>1. CASE c \in Ingest /\ (Parse(c) \/ CheckGroup(c) \/ InsertRun(c) \/ EvidenceFails(c))
    BY <2>1, IngestIsSound
  <2>2. ASSUME c \in Ingest, NEW i \in 1..7, NEW j \in 1..8,
               Write(c, IngestOrder[i], IngestOrder[j])
        PROVE  Sound'
    <3>1. IngestOrder[i] \in Kind /\ IngestOrder[j] \in IngestKind \cup {"done"}
      BY OrderIs
    <3>2. IngestOrder[j] \in Step \cup Ended
      BY <3>1 DEF IngestKind, Step, Kind, BlockKind, Ended
    <3> QED  BY <2>2, <3>1, <3>2, WriteIsSound
  <2>3. CASE c \in Ingest /\ \E i \in 1..7, j \in 1..8 :
               Follows(c, i, j) /\ Write(c, IngestOrder[i], IngestOrder[j])
    BY <2>2, <2>3
  <2>4. CASE c \in Evaluate /\ (Look(c, "status") \/ ReadStatus(c) \/ ReadFailures(c) \/ PickRun(c))
    BY <2>4, ReadersAreSound
  <2>5. CASE c \in Evaluate /\ Write(c, "evaluation", "done")
    BY <2>5, WriteIsSound DEF Kind
  <2>6. CASE c \in Import /\ (Look(c, "artifact") \/ RefuseReceipt(c))
    BY <2>6, ReadersAreSound
  <2>7. CASE c \in Import /\ (\/ Write(c, "artifact", "agent_provenance")
                             \/ Write(c, "agent_provenance", "done"))
    BY <2>7, WriteIsSound DEF Kind
  <2>8. CASE c \in Simulate /\ (\/ Write(c, "change", "sim_artifact")
                               \/ Write(c, "sim_artifact", "sim_provenance")
                               \/ Write(c, "sim_provenance", "stable"))
    BY <2>8, WriteIsSound DEF Kind, Step, SimulationKind, SimulationOrder
  <2>9. CASE c \in Simulate /\ (\/ ClearWorkspace(c) \/ CopyWorkspace(c) \/ HashBefore(c)
                               \/ RefusePatch(c) \/ ApplyPatch(c) \/ HashAfter(c)
                               \/ SimulateOnlyRun(c) \/ CreateProvenance(c)
                               \/ FinishProvenance(c) \/ FindRun(c)
                               \/ OpenStable(c) \/ FillStable(c))
    BY <2>9, SimulateIsSound
  <2> QED  BY <1>2, <2>1, <2>2, <2>3, <2>4, <2>5, <2>6, <2>7, <2>8, <2>9, CommandSteps
<1>3. ASSUME NEW c \in Command, Kill(c)
      PROVE  Sound'
  BY <1>3 DEF Kill, Goto, files, Sound, TypeOK, Lives, Roles, Ended, IngestKind, SimulationKind,
       SimulationOrder
<1>4. CASE Collect
  BY <1>4 DEF Collect, files, Sound, TypeOK, Lives, Roles
<1> QED  BY <1>1, <1>2, <1>3, <1>4 DEF Next

LEMMA InitIsSound == Init => Sound
<1> SUFFICES ASSUME Init PROVE Sound  OBVIOUS
<1>1. Blank \in View  BY DEF Blank, View, Presence, Copy
<1>2. TypeOK  BY <1>1 DEF Init, TypeOK, Copy, Step
<1> QED  BY <1>2 DEF Init, Sound, Lives, Roles, IngestKind, SimulationKind, SimulationOrder

\* The types, for any number of commands of each sort, any attempts and any collections.
THEOREM TypeCorrect == Spec => []TypeOK
<1>1. Sound /\ [Next]_vars => Sound'  BY StepIsSound
<1>2. Sound => TypeOK  BY DEF Sound
<1> QED  BY <1>1, <1>2, InitIsSound, PTL DEF Spec
------------------------------------------------------------------------------
(* What a step does to run and rows *)

\* A command begins.
Begun(c) == Parse(c) \/ Look(c, "status") \/ Look(c, "artifact")
              \/ RefuseReceipt(c) \/ ClearWorkspace(c)

\* A command goes on without touching run or rows.
Quiet(c) ==
  \/ c \in Evaluate /\ (ReadStatus(c) \/ ReadFailures(c) \/ PickRun(c))
  \/ c \in Simulate /\ (\/ CopyWorkspace(c) \/ HashBefore(c) \/ ApplyPatch(c) \/ HashAfter(c)
                        \/ CreateProvenance(c) \/ FinishProvenance(c) \/ FindRun(c))

\* A command ends by itself or by a kill, with nothing changed but its step.
Stops(c) == Kill(c) \/ (c \in Ingest /\ EvidenceFails(c)) \/ (c \in Simulate /\ RefusePatch(c))

\* A simulation writes the second of its files.
Publishes(c) == c \in Simulate /\ (OpenStable(c) \/ FillStable(c))

\* The writes of each role.
Writes(c, k, a) ==
  /\ Write(c, k, a)
  /\ \/ /\ c \in Ingest
        /\ \E i \in 1..7, j \in 1..8 :
             Follows(c, i, j) /\ k = IngestOrder[i] /\ a = IngestOrder[j]
     \/ c \in Evaluate /\ k = "evaluation" /\ a = "done"
     \/ c \in Import /\ k = "artifact" /\ a = "agent_provenance"
     \/ c \in Import /\ k = "agent_provenance" /\ a = "done"
     \/ c \in Simulate /\ k = "change" /\ a = "sim_artifact"
     \/ c \in Simulate /\ k = "sim_artifact" /\ a = "sim_provenance"
     \/ c \in Simulate /\ k = "sim_provenance" /\ a = "stable"

Inserts(c) == (c \in Ingest /\ InsertRun(c)) \/ (c \in Simulate /\ SimulateOnlyRun(c))

LEMMA StepIs ==
  ASSUME Next
  PROVE  \/ \E c \in Command :
              \/ Begun(c) \/ Quiet(c) \/ Inserts(c) \/ Stops(c) \/ Publishes(c)
              \/ c \in Ingest /\ CheckGroup(c)
              \/ \E k \in Kind : \E a \in Step \cup Ended : Writes(c, k, a)
         \/ Collect
<1>1. ASSUME NEW c \in Command, Begin(c) \/ CommandStep(c)
      PROVE  \/ Begun(c) \/ Quiet(c) \/ Inserts(c) \/ Stops(c) \/ Publishes(c)
             \/ c \in Ingest /\ CheckGroup(c)
             \/ \E k \in Kind : \E a \in Step \cup Ended : Writes(c, k, a)
  <2>1. ASSUME NEW i \in 1..7, NEW j \in 1..8, c \in Ingest, Follows(c, i, j),
               Write(c, IngestOrder[i], IngestOrder[j])
        PROVE  \E n \in Kind : \E a \in Step \cup Ended : Writes(c, n, a)
    <3>1. IngestOrder[i] \in Kind /\ IngestOrder[j] \in Step \cup Ended
      BY OrderIs DEF Step, Ended
    <3> QED  BY <2>1, <3>1 DEF Writes
  <2>2. ASSUME NEW k \in Kind, NEW a \in Kind \cup {"done", "stable"}, Writes(c, k, a)
        PROVE  \E n \in Kind : \E b \in Step \cup Ended : Writes(c, n, b)
    BY <2>2 DEF Step, Ended
  <2>4. CASE c \in Evaluate /\ Write(c, "evaluation", "done")
    BY <2>2, <2>4 DEF Writes, Kind
  <2>5. CASE c \in Import /\ (\/ Write(c, "artifact", "agent_provenance")
                             \/ Write(c, "agent_provenance", "done"))
    BY <2>2, <2>5 DEF Writes, Kind
  <2>6. CASE c \in Simulate /\ (\/ Write(c, "change", "sim_artifact")
                               \/ Write(c, "sim_artifact", "sim_provenance")
                               \/ Write(c, "sim_provenance", "stable"))
    BY <2>2, <2>6 DEF Writes, Kind
  <2>7. CASE c \in Ingest /\ \E i \in 1..7, j \in 1..8 :
               Follows(c, i, j) /\ Write(c, IngestOrder[i], IngestOrder[j])
    BY <2>1, <2>7
  <2>8. CASE \/ c \in Ingest /\ (Parse(c) \/ CheckGroup(c) \/ InsertRun(c) \/ EvidenceFails(c))
             \/ Look(c, "status") \/ Look(c, "artifact") \/ RefuseReceipt(c)
             \/ c \in Evaluate /\ (ReadStatus(c) \/ ReadFailures(c) \/ PickRun(c))
             \/ c \in Simulate /\ (\/ ClearWorkspace(c) \/ CopyWorkspace(c) \/ HashBefore(c)
                                    \/ RefusePatch(c) \/ ApplyPatch(c) \/ HashAfter(c)
                                    \/ SimulateOnlyRun(c) \/ CreateProvenance(c)
                                    \/ FinishProvenance(c) \/ FindRun(c)
                                    \/ OpenStable(c) \/ FillStable(c))
    BY <2>8 DEF Begun, Quiet, Inserts, Stops, Publishes
  <2> QED  BY <1>1, <2>4, <2>5, <2>6, <2>7, <2>8, CommandSteps
<1> QED  BY <1>1 DEF Next, Stops

LEMMA StopsEffect ==
  ASSUME NEW c \in Command, Stops(c)
  PROVE  /\ UNCHANGED <<run, lives, rows, tries, view, since, joined, alone, files>>
         /\ \E s \in {"killed", "raised", "refused"} :
              step' = [step EXCEPT ![c] = s] /\ (s = "refused" => c \in Simulate)
  BY DEF Stops, Kill, EvidenceFails, RefusePatch, Goto

LEMMA PublishesEffect ==
  ASSUME NEW c \in Command, Publishes(c)
  PROVE  /\ UNCHANGED <<run, lives, rows, tries, view, since, joined, alone,
                        workspace, root, given>>
         /\ c \in Simulate
         /\ \/ /\ step[c] = "stable" /\ step' = [step EXCEPT ![c] = "filling"]
               /\ stable' = [by |-> c, try |-> tries[c], whole |-> FALSE, says |-> view[c]]
            \/ /\ step[c] = "filling" /\ step' = [step EXCEPT ![c] = "done"]
               /\ stable' = [stable EXCEPT !.whole = TRUE]
  BY DEF Publishes, OpenStable, FillStable, Goto

LEMMA QuietEffect ==
  ASSUME NEW c \in Command, Quiet(c)
  PROVE  /\ UNCHANGED <<run, lives, rows, tries, since, stable, given>> /\ c \notin Ingest
         /\ \E s : step' = [step EXCEPT ![c] = s]
  BY DEF Quiet, ReadStatus, ReadFailures, PickRun, CopyWorkspace, HashBefore, ApplyPatch,
         HashAfter, CreateProvenance, FinishProvenance, FindRun, Goto, files

LEMMA BegunEffect ==
  ASSUME Sound, NEW c \in Command, Begun(c)
  PROVE  /\ UNCHANGED <<run, lives, rows, since, root, stable, given>>
         /\ tries' = [tries EXCEPT ![c] = @ + 1] /\ step[c] \in {"idle"} \cup Ended
         /\ \E s \in {"parsed", "status", "artifact", "refused", "cleared"} :
              step' = [step EXCEPT ![c] = s]
  BY DEF Begun, Parse, Look, RefuseReceipt, ClearWorkspace, Start, Goto, files

LEMMA InsertEffect ==
  ASSUME Sound, NEW c \in Command, Inserts(c)
  PROVE  /\ UNCHANGED <<rows, tries, view, since, files>>
         /\ run = Nothing => /\ run'.group = GroupOf[c] /\ run'.life = lives + 1
                             /\ lives' = lives + 1
         /\ run # Nothing => UNCHANGED <<run, lives, alone>>
         /\ run' \in RunRow /\ run' # Nothing
         /\ \/ c \in Ingest /\ step[c] = "free" /\ step' = [step EXCEPT ![c] = "target"]
            \/ /\ c \in Simulate /\ step[c] = "simulated"
               /\ step' = [step EXCEPT ![c] = "provenance"]
<1>1. IF run = Nothing
        THEN /\ run' = [group |-> GroupOf[c], life |-> lives + 1]
             /\ lives' = lives + 1
             /\ Disturb(c)
        ELSE UNCHANGED <<run, lives, alone>>
  BY DEF Inserts, InsertRun, SimulateOnlyRun
<1>2. run' \in RunRow /\ run' # Nothing  BY <1>1, RunInserted
<1> QED  BY <1>1, <1>2 DEF Inserts, InsertRun, SimulateOnlyRun, Goto

\* The row a write adds.
Added(c) == [by |-> c, try |-> tries[c], since |-> since[c],
             joined |-> joined[c], says |-> view[c]]

LEMMA WriteEffect ==
  ASSUME Sound, NEW c \in Command, NEW k \in Kind, NEW a \in Step \cup Ended, Writes(c, k, a)
  PROVE  /\ UNCHANGED <<run, lives, tries, view, since, joined, files>> /\ step[c] = k
         /\ \/ run = Nothing /\ rows' = rows /\ step' = [step EXCEPT ![c] = "raised"]
            \/ run # Nothing /\ Stored(k) /\ rows' = rows /\ step' = [step EXCEPT ![c] = a]
            \/ /\ run # Nothing /\ ~Stored(k) /\ rows' = [rows EXCEPT ![k] = Added(c)]
               /\ step' = [step EXCEPT ![c] = a] /\ Disturb(c)
         /\ Added(c) \in Row /\ Added(c) # Nothing
         /\ a \in Kind \cup {"done", "stable"}
<1>1. Added(c) \in Row  BY DEF Added, Row, Sound, TypeOK
<1>2. a \in Kind \cup {"done", "stable"}  BY OrderIs DEF Writes, Kind
<1> QED  BY <1>1, <1>2 DEF Writes, Write, Goto, Stored, Kept, Added, files

------------------------------------------------------------------------------
(* Refusals *)

\* What an ingest found when it looked for the key, while it still goes by it; and
\* rows of an attempt are written after that.
Checked ==
  /\ \A c \in Ingest :
       /\ step[c] \in {"free"} \cup IngestKind
       /\ run # Nothing /\ run.group # GroupOf[c]
       => since[c] < run.life
  /\ \A k \in Kind : Stored(k) /\ rows[k].by \in Ingest =>
       /\ rows[k].try <= tries[rows[k].by]
       /\ step[rows[k].by] \in {"parsed", "free", "refused"}
            => rows[k].try < tries[rows[k].by]

LEMMA RefusalStep ==
  ASSUME Sound, Sound', Checked, RefusalHolds, [Next]_vars
  PROVE  Checked' /\ RefusalHolds'
<1> USE DEF Checked, RefusalHolds, Stored
<1> \A c \in Ingest : c \in Command  BY DEF Command
<1>1. CASE UNCHANGED vars
  BY <1>1 DEF vars, files
<1>2. CASE Collect
  BY <1>2 DEF Collect
<1>3. ASSUME NEW c \in Command, Begun(c)
      PROVE  Checked' /\ RefusalHolds'
  <2>1. /\ UNCHANGED <<run, rows, since>> /\ tries' = [tries EXCEPT ![c] = @ + 1]
        /\ \A d \in Command \ {c} : step'[d] = step[d]
        /\ step'[c] \notin {"free"} \cup IngestKind
    BY <1>3, BegunEffect DEF Sound, TypeOK, IngestKind
  <2>2. \A d \in Command : tries[d] \in Nat /\ tries'[d] >= tries[d]
    BY <2>1 DEF Sound, TypeOK
  <2>3. tries'[c] = tries[c] + 1  BY <2>1 DEF Sound, TypeOK
  <2>4. \A n \in Kind : rows[n] # Nothing => rows[n].try \in Nat /\ rows[n].by \in Command
    BY DEF Sound, TypeOK, Row
  <2>5. Checked'
    <3>1. ASSUME NEW n \in Kind, rows[n] # Nothing, rows[n].by \in Ingest
          PROVE  /\ rows[n].try <= tries'[rows[n].by]
                 /\ step'[rows[n].by] \in {"parsed", "free", "refused"}
                      => rows[n].try < tries'[rows[n].by]
      <4>1. rows[n].try <= tries[rows[n].by]  BY <3>1
      <4>2. CASE rows[n].by = c  BY <2>2, <2>3, <2>4, <3>1, <4>1, <4>2
      <4>3. CASE rows[n].by # c
        <5>1. /\ step'[rows[n].by] = step[rows[n].by]
              /\ tries'[rows[n].by] = tries[rows[n].by]
          BY <2>1, <2>4, <3>1, <4>3 DEF Sound, TypeOK
        <5> QED  BY <3>1, <4>1, <5>1
      <4> QED  BY <4>2, <4>3
    <3>2. \A d \in Ingest : step'[d] \in {"free"} \cup IngestKind => step'[d] = step[d]
      BY <2>1
    <3> QED  BY <2>1, <3>1, <3>2
  <2>6. RefusalHolds'
    <3>1. ASSUME NEW n \in Kind, rows[n] # Nothing, rows[n].by \in Ingest,
                 step'[rows[n].by] = "refused"
          PROVE  rows[n].try < tries'[rows[n].by]
      BY <2>1, <2>5, <3>1
    <3> QED  BY <2>1, <3>1
  <2> QED  BY <2>5, <2>6
<1>4. ASSUME NEW c \in Command, Quiet(c)
      PROVE  Checked' /\ RefusalHolds'
  BY <1>4, QuietEffect DEF Sound, TypeOK, Row
<1>5. ASSUME NEW c \in Command, Inserts(c)
      PROVE  Checked' /\ RefusalHolds'
  BY <1>5, InsertEffect DEF Sound, TypeOK, Lives, Row
<1>6. ASSUME NEW c \in Command, Stops(c)
      PROVE  Checked' /\ RefusalHolds'
  BY <1>6, StopsEffect DEF IngestKind, Sound, TypeOK, Row
<1>7. ASSUME NEW c \in Ingest, CheckGroup(c)
      PROVE  Checked' /\ RefusalHolds'
  BY <1>7 DEF CheckGroup, Conflict, Goto, files, Sound, TypeOK, Lives, Row, IngestKind
<1>8. ASSUME NEW c \in Command, NEW k \in Kind, NEW a \in Step \cup Ended, Writes(c, k, a)
      PROVE  Checked' /\ RefusalHolds'
  <2>1. /\ Added(c).by = c /\ Added(c).try = tries[c] /\ Added(c).since = since[c]
        /\ c \in Ingest => step[c] \in IngestKind
    <3>1. c \in Ingest => k \in IngestKind
      BY <1>8, OrderIs DEF Writes
    <3>2. step[c] = k  BY <1>8, WriteEffect
    <3> QED  BY <3>1, <3>2 DEF Added
  <2>2. /\ UNCHANGED <<run, tries, since>>
        /\ \E s \in Kind \cup {"done", "stable", "raised"} : step' = [step EXCEPT ![c] = s]
        /\ Added(c) # Nothing
    BY <1>8, WriteEffect
  <2>3. \A d \in Ingest :
          /\ (step'[d] \in {"parsed", "free", "refused"} => step'[d] = step[d])
          /\ (step'[d] \in {"free"} \cup IngestKind => step[d] \in {"free"} \cup IngestKind)
    BY <2>1, <2>2 DEF Sound, TypeOK, Kind, BlockKind
  <2>4. CASE rows' = rows
    <3>1. run' = run /\ tries' = tries /\ since' = since  BY <2>2
    <3> QED  BY <2>3, <2>4, <3>1
  <2>5. CASE rows' = [rows EXCEPT ![k] = Added(c)] /\ run # Nothing
    <3>1. \A n \in Kind \ {k} : rows'[n] = rows[n]
      BY <2>5 DEF Sound, TypeOK
    <3>2. rows'[k] = Added(c)  BY <2>5 DEF Sound, TypeOK
    <3>3. c \in Ingest => step'[c] \notin {"parsed", "free", "refused"}
      BY <2>2 DEF Sound, TypeOK, Kind, BlockKind
    <3>4. tries[c] \in Nat  BY DEF Sound, TypeOK
    <3>5. Checked'
      BY <2>1, <2>2, <2>3, <3>1, <3>2, <3>3, <3>4 DEF Sound, TypeOK, Row
    <3>6. RefusalHolds'
      <4>1. ASSUME NEW n \in Kind, n # k, rows'[n] # Nothing
            PROVE  /\ run' # Nothing
                   /\ rows'[n].by \in Ingest /\ GroupOf[rows'[n].by] # run'.group
                        => rows'[n].since < run'.life
                   /\ rows'[n].by \in Ingest /\ step'[rows'[n].by] = "refused"
                        => rows'[n].try < tries'[rows'[n].by]
        <5>1. run' = run /\ tries' = tries /\ rows'[n] = rows[n]  BY <2>2, <3>1, <4>1
        <5> QED  BY <2>3, <4>1, <5>1
      <4>2. c \in Ingest /\ GroupOf[c] # run.group => since[c] < run.life
        BY <2>1, <2>5
      <4> QED  BY <2>1, <2>2, <2>5, <3>2, <3>3, <4>1, <4>2
    <3> QED  BY <3>5, <3>6
  <2> QED  BY <1>8, <2>4, <2>5, WriteEffect
<1>9. ASSUME NEW c \in Command, Publishes(c)
      PROVE  Checked' /\ RefusalHolds'
  BY <1>9, PublishesEffect DEF IngestKind, Sound, TypeOK, Row
<1> QED  BY <1>1, <1>2, <1>3, <1>4, <1>5, <1>6, <1>7, <1>8, <1>9, StepIs

\* Every conflict check, insertion, collection and repetition apart: evidence of a
\* group is in a run of another only if the run came after the ingest had looked,
\* and a refused ingest has written nothing.
THEOREM RefusalsHold == Spec => []RefusalHolds
<1>1. Init => Checked /\ RefusalHolds
  BY DEF Init, Checked, RefusalHolds, Stored, Command
<1>2. Sound /\ Sound' /\ Checked /\ RefusalHolds /\ [Next]_vars => Checked' /\ RefusalHolds'
  BY RefusalStep
<1>3. Sound /\ [Next]_vars => Sound'  BY StepIsSound
<1> QED  BY <1>1, <1>2, <1>3, InitIsSound, PTL DEF Spec

------------------------------------------------------------------------------
(* Whole sets of rows *)

\* The kinds an ingest has passed at a step, stored or not.
Earlier(s) == {IngestOrder[n] : n \in {m \in 1..7 : \E i \in 1..7 : s = IngestOrder[i] /\ m < i}}

\* The rows a command has behind it at a step.
Behind(c, s) ==
  CASE s \in IngestKind -> Earlier(s) \cap Carried(c)
    [] s = "agent_provenance" -> {"artifact"}
    [] s = "sim_artifact" -> {"change"}
    [] s = "sim_provenance" -> {"change", "sim_artifact"}
    [] s \in {"stable", "filling"} -> SimulationKind
    [] s = "done" -> Promised(c)
    [] OTHER -> {}

Current(c) == run # Nothing /\ run.life = joined[c]

Progress ==
  /\ \A c \in Command : Current(c) => \A k \in Behind(c, step[c]) : Stored(k)
  /\ Stored("agent_provenance") /\ rows["agent_provenance"].joined = run.life
       => Stored("artifact")

\* A write moves on with its row behind it.
LEMMA BehindGrows ==
  ASSUME NEW c \in Command, NEW k \in Kind, NEW a \in Step \cup Ended, Writes(c, k, a)
  PROVE  Behind(c, a) \subseteq Behind(c, k) \cup {k}
<1> USE DEF Behind, IngestKind
<1>1. ASSUME c \in Ingest, NEW i \in 1..7, NEW j \in 1..8, Follows(c, i, j),
             k = IngestOrder[i], a = IngestOrder[j]
      PROVE  Behind(c, a) \subseteq Behind(c, k) \cup {k}
  <2>1. Behind(c, k) = Earlier(k) \cap Carried(c)
    BY <1>1, OrderIs
  <2>2. \A m \in 1..7 : m < i => IngestOrder[m] \in Earlier(k)
    BY <1>1 DEF Earlier
  <2>3. \A m \in 1..7 : m < j /\ IngestOrder[m] \in Carried(c)
                     => IngestOrder[m] \in Behind(c, k) \cup {k}
    <3> SUFFICES ASSUME NEW m \in 1..7, m < j, IngestOrder[m] \in Carried(c)
                 PROVE  m < i \/ m = i
      BY <1>1, <2>1, <2>2
    <3> QED  BY <1>1 DEF Follows
  <2>4. CASE j = 8
    <3>1. a = "done" /\ Behind(c, a) = Carried(c)
      BY <1>1, <2>4, OrderIs DEF Promised
    <3>2. \A x \in Carried(c) : x \in IngestKind
      BY <1>1 DEF Carried
    <3>3. \A x \in Carried(c) : \E m \in 1..7 : x = IngestOrder[m] /\ m < j
      <4> HIDE DEF IngestKind
      <4> QED  BY <2>4, <3>2, OrderIs
    <3> HIDE DEF Behind
    <3> QED  BY <2>3, <3>1, <3>3
  <2>5. CASE j # 8
    <3>1. a \in IngestKind  BY <1>1, <2>5, OrderIs
    <3>2. Behind(c, a) = Earlier(a) \cap Carried(c)  BY <3>1
    <3>3. \A x \in Earlier(a) : \E m \in 1..7 : x = IngestOrder[m] /\ m < j
      BY <1>1, OrderIs DEF Earlier
    <3> QED  BY <2>3, <3>2, <3>3
  <2> QED  BY <2>4, <2>5
<1>3. CASE c \in Evaluate /\ k = "evaluation" /\ a = "done"
  BY <1>3 DEF Promised
<1>4. CASE c \in Import /\ (\/ (k = "artifact" /\ a = "agent_provenance")
                           \/ (k = "agent_provenance" /\ a = "done"))
  BY <1>4 DEF Promised
<1>5. CASE c \in Simulate /\ (\/ (k = "change" /\ a = "sim_artifact")
                             \/ (k = "sim_artifact" /\ a = "sim_provenance")
                             \/ (k = "sim_provenance" /\ a = "stable"))
  BY <1>5 DEF SimulationKind, SimulationOrder
<1> QED  BY <1>1, <1>3, <1>4, <1>5 DEF Writes

LEMMA ProgressStep ==
  ASSUME Sound, Sound', Progress, [Next]_vars
  PROVE  Progress'
<1> USE DEF Progress, Stored, Current
<1> DEFINE Nowhere == {"parsed", "free", "target", "status", "failures", "newest",
                       "evaluation", "artifact", "refused", "raised", "killed", "cleared",
                       "copied", "hashed", "patched", "simulated", "provenance",
                       "writing", "written", "change"}
<1>0. \A c \in Command, s \in Nowhere : Behind(c, s) = {}
  <2>1. Earlier("target") = {}
    <3>1. \A i \in 1..7 : IngestOrder[i] = "target" => i = 1
      BY DEF IngestOrder
    <3> QED  BY <3>1 DEF Earlier
  <2> QED  BY <2>1 DEF Behind, IngestKind
<1>1. CASE UNCHANGED vars
  BY <1>1 DEF vars, files
<1>2. CASE Collect
  BY <1>2 DEF Collect, Kind, Sound, TypeOK
<1>3. ASSUME NEW c \in Command, UNCHANGED <<run, rows>>,
             \A d \in Command \ {c} : joined'[d] = joined[d] /\ step'[d] = step[d],
             step'[c] \in Nowhere
      PROVE  Progress'
  <2>1. \A d \in Command : Current(d)' => \A k \in Behind(d, step'[d]) : rows'[k] # Nothing
    <3>1. ASSUME NEW d \in Command, d # c, Current(d)'
          PROVE  \A k \in Behind(d, step'[d]) : rows'[k] # Nothing
      BY <1>3, <3>1
    <3> QED  BY <1>0, <1>3, <3>1
  <2> QED  BY <1>3, <2>1
<1>4. ASSUME NEW c \in Command, Begun(c) \/ Quiet(c) \/ Stops(c) \/ CheckGroup(c)
      PROVE  Progress'
  <2>1. /\ UNCHANGED <<run, rows>>
        /\ \A d \in Command \ {c} : joined'[d] = joined[d] /\ step'[d] = step[d]
        /\ step'[c] \in Nowhere
    <3>1. CASE Begun(c)
      BY <3>1 DEF Begun, Parse, Look, RefuseReceipt, ClearWorkspace, Goto, files, Sound, TypeOK
    <3>2. CASE Quiet(c)
      BY <3>2 DEF Quiet, ReadStatus, ReadFailures, PickRun, CopyWorkspace, HashBefore,
         ApplyPatch, HashAfter, CreateProvenance, FinishProvenance, FindRun, Goto, files,
         Sound, TypeOK, SimulationOrder
    <3>3. CASE Stops(c)
      BY <3>3, StopsEffect DEF Sound, TypeOK
    <3>4. CASE CheckGroup(c)
      BY <3>4 DEF CheckGroup, Goto, files, Sound, TypeOK
    <3> QED  BY <1>4, <3>1, <3>2, <3>3, <3>4
  <2> QED  BY <1>3, <2>1
<1>5. ASSUME NEW c \in Command, Inserts(c)
      PROVE  Progress'
  <2>1. /\ rows' = rows /\ step'[c] \in Nowhere
        /\ \A d \in Command \ {c} : joined'[d] = joined[d] /\ step'[d] = step[d]
    BY <1>5 DEF Inserts, InsertRun, SimulateOnlyRun, Goto, files, Sound, TypeOK
  <2>2. CASE run # Nothing
    BY <1>3, <1>5, <2>1, <2>2, InsertEffect
  <2>3. CASE run = Nothing
    <3>1. \A d \in Command \ {c} : ~Current(d)'
      BY <1>5, <2>1, <2>3, InsertEffect DEF Sound, Lives, TypeOK
    <3>2. rows'["agent_provenance"] = Nothing
      BY <2>1, <2>3 DEF Sound, Lives, Kind
    <3> QED  BY <1>0, <2>1, <3>1, <3>2
  <2> QED  BY <2>2, <2>3
<1>6. ASSUME NEW c \in Command, NEW k \in Kind, NEW a \in Step \cup Ended, Writes(c, k, a)
      PROVE  Progress'
  <2>1. /\ run' = run /\ joined' = joined /\ step[c] = k /\ a \in Step \cup Ended
        /\ Added(c).joined = joined[c] /\ Added(c) # Nothing
        /\ (k = "agent_provenance" => Behind(c, k) = {"artifact"})
    BY <1>6, WriteEffect DEF Behind, IngestKind, Added
  <2>2. CASE run = Nothing /\ rows' = rows /\ step' = [step EXCEPT ![c] = "raised"]
    BY <2>1, <2>2 DEF Sound, Lives, Kind
  <2>3. CASE /\ run # Nothing /\ step' = [step EXCEPT ![c] = a]
             /\ \/ (Stored(k) /\ rows' = rows)
                \/ (~Stored(k) /\ rows' = [rows EXCEPT ![k] = Added(c)])
    <3>1. /\ rows'[k] # Nothing
          /\ \A n \in Kind : rows[n] # Nothing => rows'[n] = rows[n]
          /\ \A n \in Kind \ {k} : rows'[n] = rows[n]
      BY <2>1, <2>3 DEF Sound, TypeOK
    <3>2. \A d \in Command : Behind(d, step[d]) \subseteq Kind
      <4>1. \A d \in Ingest : Carried(d) \subseteq Kind
        BY DEF Carried, Kind, BlockKind
      <4>2. Earlier(k) \subseteq Kind /\ \A x : Earlier(x) \subseteq Kind
        BY OrderIs DEF Earlier
      <4>3. SimulationKind \subseteq Kind
        BY DEF SimulationKind, SimulationOrder, Kind
      <4> QED  BY <4>1, <4>2, <4>3 DEF Behind, Promised, Kind
    <3>3. ASSUME NEW d \in Command, d # c, Current(d)'
          PROVE  \A n \in Behind(d, step'[d]) : rows'[n] # Nothing
      <4>1. step'[d] = step[d] /\ Current(d)
        BY <2>1, <2>3, <3>3 DEF Sound, TypeOK
      <4> QED  BY <3>1, <3>2, <4>1
    <3>4. ASSUME Current(c)'
          PROVE  \A n \in Behind(c, step'[c]) : rows'[n] # Nothing
      <4>1. step'[c] = a /\ Current(c)  BY <2>1, <2>3, <3>4 DEF Sound, TypeOK
      <4>2. Behind(c, a) \subseteq Behind(c, step[c]) \cup {k}
        BY <1>6, <2>1, BehindGrows
      <4> QED  BY <3>1, <3>2, <4>1, <4>2
    <3>5. rows'["agent_provenance"] # Nothing /\ rows'["agent_provenance"].joined = run'.life
            => rows'["artifact"] # Nothing
      <4>1. CASE rows["agent_provenance"] # Nothing
        BY <2>1, <3>1, <4>1 DEF Kind
      <4>2. CASE rows["agent_provenance"] = Nothing /\ k = "agent_provenance"
        <5>1. rows'["agent_provenance"] = Added(c)
          BY <2>3, <4>2 DEF Sound, TypeOK, Kind
        <5>2. Current(c) => rows["artifact"] # Nothing
          BY <2>1, <4>2
        <5> QED  BY <2>1, <2>3, <3>1, <5>1, <5>2 DEF Kind
      <4>3. CASE rows["agent_provenance"] = Nothing /\ k # "agent_provenance"
        BY <3>1, <4>3 DEF Kind
      <4> QED  BY <4>1, <4>2, <4>3
    <3> QED  BY <3>3, <3>4, <3>5
  <2> QED  BY <1>6, <2>2, <2>3, WriteEffect
<1>7. ASSUME NEW c \in Command, Publishes(c)
      PROVE  Progress'
  <2>1. /\ UNCHANGED <<run, rows, joined>> /\ c \in Simulate
        /\ \A d \in Command \ {c} : step'[d] = step[d]
        /\ step[c] \in {"stable", "filling"} /\ step'[c] \in {"filling", "done"}
    BY <1>7, PublishesEffect DEF Sound, TypeOK
  <2>2. Behind(c, step[c]) = SimulationKind /\ Behind(c, step'[c]) = SimulationKind
    <3>1. c \notin Ingest \cup Evaluate \cup Import  BY <2>1
    <3>2. Promised(c) = SimulationKind  BY <3>1 DEF Promised
    <3> QED  BY <2>1, <3>2 DEF Behind, IngestKind
  <2>3. \A d \in Command : Current(d)' => \A k \in Behind(d, step'[d]) : rows'[k] # Nothing
    BY <2>1, <2>2
  <2> QED  BY <2>1, <2>3
<1> QED  BY <1>1, <1>2, <1>4, <1>5, <1>6, <1>7, StepIs

------------------------------------------------------------------------------
(* Simulations *)

Owned(c, copy) == copy # Nothing /\ copy.by = c /\ copy.try = tries[c]

\* A copy of its own that an attempt has found, and patched since.
Template(c) == Owned(c, view[c].before) /\ ~view[c].before.patched

\* The copy of an attempt, once replaced, never comes back; and only a copy that is
\* not patched yet takes the patch.
Patching(c) ==
  /\ step[c] = "hashed" /\ Owned(c, workspace) /\ ~workspace.patched => Template(c)
  /\ step[c] = "patched" /\ Owned(c, workspace) => workspace.patched /\ Template(c)
  /\ step[c] \in {"simulated", "provenance"} /\ Owned(c, view[c].after)
       => view[c].after.patched /\ Template(c)

\* The provenance file is of the one attempt that goes by it.
Holding(c) ==
  /\ step[c] \in {"writing", "written", "stable", "filling", "done"} \cup SimulationKind =>
       /\ root # Nothing /\ root.by = c /\ root.try = tries[c] /\ root.says = view[c]
       /\ step[c] = "writing" \/ root.whole
  /\ step[c] \in {"filling", "done"} => stable # Nothing
  /\ step[c] = "done" => stable.whole

Simulated == \A c \in Simulate : Patching(c) /\ Holding(c)

LEMMA OthersStay ==
  ASSUME Sound, Simulated, NEW c \in Simulate,
         tries'[c] = tries[c], view'[c] = view[c], step'[c] = step[c],
         workspace' \in {workspace, Nothing}, root' = root, stable' = stable
  PROVE  Patching(c)' /\ Holding(c)'
  BY DEF Simulated, Patching, Holding, Owned, Template

LEMMA QuietSimulation ==
  ASSUME Sound, Simulated, NEW c \in Command, Quiet(c)
  PROVE  Simulated'
<1> SUFFICES ASSUME NEW d \in Simulate  PROVE Patching(d)' /\ Holding(d)'
  BY DEF Simulated
<1> \A e \in Simulate : e \in Command  BY DEF Command
<1> Patching(d) /\ Holding(d)  BY DEF Simulated
<1> stable' = stable  BY QuietEffect
<1> USE DEF Sound, TypeOK, Goto, files
<1>1. CASE c \in Evaluate /\ (ReadStatus(c) \/ ReadFailures(c) \/ PickRun(c))
  BY <1>1, OthersStay DEF ReadStatus, ReadFailures, PickRun
<1>2. CASE c \in Simulate /\ CopyWorkspace(c)
  <2>1. CASE d = c
    BY <1>2, <2>1 DEF CopyWorkspace, Patching, Holding, SimulationKind, SimulationOrder
  <2>2. CASE d # c
    BY <1>2, <2>2 DEF CopyWorkspace, Patching, Holding, Owned, Template
  <2> QED  BY <2>1, <2>2
<1>3. CASE c \in Simulate /\ HashBefore(c)
  <2>1. CASE d = c
    <3>1. step'[c] = "hashed" /\ view'[c].before = workspace /\ UNCHANGED <<workspace, tries>>
      BY <1>3 DEF HashBefore, View
    <3> QED  BY <2>1, <3>1 DEF Patching, Holding, Owned, Template, SimulationKind, SimulationOrder
  <2>2. CASE d # c
    BY <1>3, <2>2, OthersStay DEF HashBefore
  <2> QED  BY <2>1, <2>2
<1>4. CASE c \in Simulate /\ ApplyPatch(c)
  <2>1. UNCHANGED <<tries, view, root>>  BY <1>4 DEF ApplyPatch
  <2>2. CASE ~PatchApplies
    BY <1>4, <2>1, <2>2, OthersStay
      DEF ApplyPatch, Patching, Holding, SimulationKind, SimulationOrder
  <2>3. CASE PatchApplies
    <3>1. /\ workspace # Nothing /\ ~workspace.patched /\ step[c] = "hashed"
          /\ step' = [step EXCEPT ![c] = "patched"]
          /\ workspace' # Nothing /\ workspace'.patched
          /\ workspace'.by = workspace.by /\ workspace'.try = workspace.try
      <4>1. /\ workspace \in Workspace /\ ~workspace.patched /\ step[c] = "hashed"
            /\ step' = [step EXCEPT ![c] = "patched"]
            /\ workspace' = [workspace EXCEPT !.patched = TRUE]
        BY <1>4, <2>3 DEF ApplyPatch, PatchApplies, Copy
      <4>2. workspace' \in Workspace  BY <4>1 DEF Workspace
      <4> QED  BY <4>1, <4>2 DEF Workspace
    <3>2. CASE d = c
      BY <2>1, <3>1, <3>2 DEF Patching, Holding, Owned, Template, SimulationKind, SimulationOrder
    <3>3. CASE d # c
      BY <2>1, <3>1, <3>3 DEF Patching, Holding, Owned, Template
    <3> QED  BY <3>2, <3>3
  <2> QED  BY <2>2, <2>3
<1>5. CASE c \in Simulate /\ HashAfter(c)
  <2>1. CASE d = c
    <3>1. /\ step[c] = "patched" /\ step'[c] = "simulated"
          /\ view'[c].after = workspace /\ view'[c].before = view[c].before
          /\ UNCHANGED <<workspace, tries>>
      BY <1>5 DEF HashAfter, View
    <3> QED  BY <2>1, <3>1 DEF Patching, Holding, Owned, Template, SimulationKind, SimulationOrder
  <2>2. CASE d # c
    BY <1>5, <2>2, OthersStay DEF HashAfter
  <2> QED  BY <2>1, <2>2
<1>6. CASE c \in Simulate /\ CreateProvenance(c)
  <2>1. UNCHANGED <<tries, view, workspace>>  BY <1>6 DEF CreateProvenance
  <2>2. CASE RootTaken
    BY <1>6, <2>1, <2>2, OthersStay
      DEF CreateProvenance, Patching, Holding, SimulationKind, SimulationOrder
  <2>3. CASE ~RootTaken
    <3>1. /\ root = Nothing /\ step' = [step EXCEPT ![c] = "writing"]
          /\ root' = [by |-> c, try |-> tries[c], whole |-> FALSE, says |-> view[c]]
      BY <1>6, <2>3 DEF CreateProvenance, RootTaken
    <3>2. root' # Nothing
      <4>1. [by |-> c, try |-> tries[c], whole |-> FALSE, says |-> view[c]] \in Provenance
        BY <1>6 DEF Provenance
      <4> QED  BY <3>1, <4>1
    <3>3. CASE d = c
      BY <2>1, <3>1, <3>2, <3>3 DEF Patching, Holding, SimulationKind, SimulationOrder
    <3>4. CASE d # c
      BY <2>1, <3>1, <3>4 DEF Patching, Holding, Owned, Template
    <3> QED  BY <3>3, <3>4
  <2> QED  BY <2>2, <2>3
<1>7. CASE c \in Simulate /\ FinishProvenance(c)
  <2>1. /\ step[c] = "writing" /\ step' = [step EXCEPT ![c] = "written"] /\ root # Nothing
        /\ UNCHANGED <<tries, view, workspace>>
    BY <1>7 DEF FinishProvenance, Roles
  <2>2. /\ root' # Nothing /\ root'.by = root.by /\ root'.try = root.try
        /\ root'.says = root.says /\ root'.whole
    <3>1. root \in Provenance /\ root' = [root EXCEPT !.whole = TRUE]
      BY <1>7, <2>1 DEF FinishProvenance
    <3>2. root' \in Provenance  BY <3>1 DEF Provenance
    <3> QED  BY <3>1, <3>2 DEF Provenance
  <2>3. root.by = c  BY <2>1, <1>7 DEF Simulated, Holding
  <2> QED  BY <2>1, <2>2, <2>3 DEF Patching, Holding, Owned, Template, SimulationKind, SimulationOrder
<1>8. CASE c \in Simulate /\ FindRun(c)
  BY <1>8, OthersStay DEF FindRun, Patching, Holding, SimulationKind, SimulationOrder
<1> QED  BY <1>1, <1>2, <1>3, <1>4, <1>5, <1>6, <1>7, <1>8 DEF Quiet

LEMMA SimulatedStep ==
  ASSUME Sound, Sound', Simulated, [Next]_vars
  PROVE  Simulated'
<1> \A c \in Simulate : c \in Command  BY DEF Command
<1>1. CASE UNCHANGED vars \/ Collect
  BY <1>1, OthersStay DEF vars, files, Collect, Simulated
<1>2. ASSUME NEW c \in Command, Begun(c)
      PROVE  Simulated'
  <2>1. /\ step'[c] \in {"parsed", "status", "artifact", "refused", "cleared"}
        /\ UNCHANGED <<root, stable>> /\ workspace' \in {workspace, Nothing}
        /\ \A d \in Command \ {c} : tries'[d] = tries[d] /\ view'[d] = view[d] /\ step'[d] = step[d]
    BY <1>2 DEF Begun, Parse, Look, RefuseReceipt, ClearWorkspace, Start, Goto, files, Sound, TypeOK
  <2>2. Patching(c)' /\ Holding(c)'
    BY <2>1 DEF Patching, Holding, SimulationKind, SimulationOrder
  <2> QED  BY <2>1, <2>2, OthersStay DEF Simulated
<1>3. ASSUME NEW c \in Command,
             Inserts(c) \/ Stops(c) \/ (c \in Ingest /\ CheckGroup(c))
      PROVE  Simulated'
  <2>1. /\ UNCHANGED <<root, stable, workspace, tries, view>>
        /\ \A d \in Command \ {c} : step'[d] = step[d]
        /\ \/ c \in Ingest
           \/ step[c] = "simulated" /\ step'[c] = "provenance"
           \/ step'[c] \in {"killed", "raised", "refused"}
    BY <1>3, StopsEffect DEF Inserts, InsertRun, SimulateOnlyRun, CheckGroup, Goto, files,
         Sound, TypeOK
  <2>2. ASSUME c \in Simulate  PROVE Patching(c)' /\ Holding(c)'
    BY <2>1, <2>2 DEF Simulated, Patching, Holding, Owned, Template, SimulationKind, SimulationOrder
  <2> QED  BY <2>1, <2>2, OthersStay DEF Simulated
<1>4. ASSUME NEW c \in Command, NEW k \in Kind, NEW a \in Step \cup Ended, Writes(c, k, a)
      PROVE  Simulated'
  <2>1. /\ UNCHANGED <<root, stable, workspace, tries, view>> /\ step[c] = k
        /\ \A d \in Command \ {c} : step'[d] = step[d]
        /\ c \in Simulate => /\ k \in SimulationKind
                             /\ step'[c] \in SimulationKind \cup {"stable", "raised"}
    BY <1>4, WriteEffect
      DEF Writes, files, SimulationKind, SimulationOrder, Sound, TypeOK
  <2>2. ASSUME c \in Simulate  PROVE Patching(c)' /\ Holding(c)'
    BY <2>1, <2>2 DEF Simulated, Patching, Holding, SimulationKind, SimulationOrder
  <2> QED  BY <2>1, <2>2, OthersStay DEF Simulated
<1>5. ASSUME NEW c \in Command, Publishes(c)
      PROVE  Simulated'
  <2>1. /\ UNCHANGED <<root, workspace, tries, view>> /\ c \in Simulate
        /\ \A d \in Command \ {c} : step'[d] = step[d]
    BY <1>5, PublishesEffect DEF Sound, TypeOK
  <2>2. /\ step[c] \in {"stable", "filling"} /\ step'[c] \in {"filling", "done"}
        /\ step'[c] = "done" => step[c] = "filling"
    BY <1>5, PublishesEffect DEF Sound, TypeOK
  <2>3. root # Nothing /\ root.by = c /\ root.try = tries[c] /\ root.says = view[c] /\ root.whole
    BY <2>1, <2>2 DEF Simulated, Holding
  <2>4. stable' # Nothing /\ (step'[c] = "done" => stable'.whole)
    <3>1. CASE step[c] = "stable"
      <4>1. /\ stable' = [by |-> c, try |-> tries[c], whole |-> FALSE, says |-> view[c]]
            /\ step'[c] # "done"
        BY <1>5, <2>2, <3>1, PublishesEffect
      <4>2. stable' \in Provenance  BY <2>1, <4>1 DEF Sound, TypeOK, Provenance
      <4> QED  BY <4>1, <4>2
    <3>2. CASE step[c] = "filling"
      <4>1. stable' = [stable EXCEPT !.whole = TRUE] /\ stable \in Provenance
        BY <1>5, <2>1, <3>2, PublishesEffect DEF Simulated, Holding, Sound, TypeOK
      <4>2. stable' \in Provenance /\ stable'.whole  BY <4>1 DEF Provenance
      <4> QED  BY <4>2
    <3> QED  BY <2>2, <3>1, <3>2
  <2>5. Patching(c)' /\ Holding(c)'
    BY <2>1, <2>2, <2>3, <2>4 DEF Patching, Holding
  <2>6. ASSUME NEW d \in Simulate, d # c  PROVE Patching(d)' /\ Holding(d)'
    <3>1. Patching(d) /\ Holding(d) /\ step'[d] = step[d]  BY <2>1, <2>6 DEF Simulated
    <3>2. Patching(d)'  BY <2>1, <3>1 DEF Patching, Owned, Template
    <3>3. step[d] \notin {"filling", "done"}  BY <2>3, <2>6, <3>1 DEF Holding
    <3>4. Holding(d)'  BY <2>1, <3>1, <3>3 DEF Holding
    <3> QED  BY <3>2, <3>4
  <2> QED  BY <2>5, <2>6 DEF Simulated
<1> QED  BY <1>1, <1>2, <1>3, <1>4, <1>5, QuietSimulation, StepIs

LEMMA InitIsSimulated == Init => Simulated
  BY DEF Init, Simulated, Patching, Holding, Command, SimulationKind, SimulationOrder

\* A command that exits 0 leaves all its rows, and a simulation the file it names, and
\* no provenance block cites a receipt the run has no artifact of, for any kills,
\* repetitions and collections.
THEOREM DoneAreWhole == Spec => []DoneIsWhole
<1>1. Init => Progress
  BY DEF Init, Progress, Stored, Current, Kind, Behind, IngestKind
<1>2. Sound /\ Sound' /\ Progress /\ [Next]_vars => Progress'  BY ProgressStep
<1>3. Sound /\ [Next]_vars => Sound'  BY StepIsSound
<1>4. Progress /\ Simulated => DoneIsWhole
  <2> SUFFICES ASSUME Progress, Simulated PROVE DoneIsWhole  OBVIOUS
  <2>1. \A c \in Command : Behind(c, "done") = Promised(c)  BY DEF Behind, IngestKind
  <2>2. \A c \in Simulate : step[c] = "done" => stable # Nothing /\ stable.whole
    BY DEF Simulated, Holding
  <2> QED  BY <2>1, <2>2 DEF Progress, DoneIsWhole, Current
<1>5. Sound /\ Sound' /\ Simulated /\ [Next]_vars => Simulated'  BY SimulatedStep
<1> QED  BY <1>1, <1>2, <1>3, <1>4, <1>5, InitIsSound, InitIsSimulated, PTL DEF Spec

\* What is kept of a simulation goes by its provenance file.
LEMMA OneSimulationStep ==
  ASSUME Sound, Sound', Simulated, OneSimulation, [Next]_vars
  PROVE  OneSimulation'
<1> DEFINE Agrees(k, r, f) ==
      /\ f # Nothing /\ f.whole
      /\ [by |-> r.by, try |-> r.try, says |-> r.says]
           = [by |-> f.by, try |-> f.try, says |-> f.says]
           Own(seen, f) == seen # Nothing /\ seen.by = f.by /\ seen.try = f.try
           Told(f) == Own(f.says.after, f) =>
             f.says.after.patched /\ Own(f.says.before, f) /\ ~f.says.before.patched
<1>1. OneSimulation <=> /\ \A k \in SimulationKind :
                             rows[k] # Nothing => Agrees(k, rows[k], root)
                        /\ stable # Nothing => Agrees("stable", stable, root)
                        /\ root # Nothing => Told(root)
  BY DEF OneSimulation, Stored
<1>2. OneSimulation' <=> /\ \A k \in SimulationKind :
                             rows'[k] # Nothing => Agrees(k, rows'[k], root')
                         /\ stable' # Nothing => Agrees("stable", stable', root')
                         /\ root' # Nothing => Told(root')
  BY DEF OneSimulation, Stored
<1> HIDE DEF Agrees, Told, Own
<1>3. ASSUME root' = root, stable' = stable, \A k \in SimulationKind : rows'[k] \in {rows[k], Nothing}
      PROVE  OneSimulation'
  BY <1>1, <1>2, <1>3
<1>4. CASE UNCHANGED vars \/ Collect
  BY <1>3, <1>4 DEF vars, files, Collect, Kind, SimulationKind, SimulationOrder
<1>5. ASSUME NEW c \in Command, Begun(c) \/ Inserts(c) \/ Stops(c) \/ CheckGroup(c)
      PROVE  OneSimulation'
  BY <1>3, <1>5, StopsEffect DEF Begun, Parse, Look, RefuseReceipt, ClearWorkspace, Start, Inserts, InsertRun,
       SimulateOnlyRun, CheckGroup, files
<1>6. ASSUME NEW c \in Simulate, CreateProvenance(c), ~RootTaken
      PROVE  OneSimulation'
  <2>1. /\ root' = [by |-> c, try |-> tries[c], whole |-> FALSE, says |-> view[c]]
        /\ root = Nothing /\ rows' = rows /\ stable' = stable /\ step[c] = "provenance"
    BY <1>6 DEF CreateProvenance, RootTaken
  <2>2. stable = Nothing /\ \A k \in SimulationKind : rows[k] = Nothing
    BY <1>1, <2>1 DEF Agrees
  <2>3. Told(root')
    <3>1. Owned(c, view[c].after) => view[c].after.patched /\ Template(c)
      BY <2>1 DEF Simulated, Patching
    <3>2. root'.says = view[c] /\ root'.by = c /\ root'.try = tries[c]  BY <2>1
    <3> QED  BY <3>1, <3>2 DEF Told, Own, Owned, Template
  <2> QED  BY <1>2, <2>1, <2>2, <2>3
<1>7. ASSUME NEW c \in Simulate, FinishProvenance(c)
      PROVE  OneSimulation'
  <2>1. /\ root # Nothing /\ rows' = rows /\ stable' = stable
    BY <1>7 DEF FinishProvenance, Sound, Roles, Command
  <2>2. /\ root' # Nothing /\ root'.by = root.by /\ root'.try = root.try
        /\ root'.says = root.says /\ root'.whole
    BY <1>7, <2>1 DEF FinishProvenance, Sound, TypeOK, Provenance
  <2>3. Told(root')  BY <1>1, <2>1, <2>2 DEF Told, Own
  <2>4. /\ \A k \in SimulationKind : rows'[k] # Nothing => Agrees(k, rows'[k], root')
        /\ stable' # Nothing => Agrees("stable", stable', root')
    BY <1>1, <2>1, <2>2 DEF Agrees
  <2> QED  BY <1>2, <2>3, <2>4
<1>8. ASSUME NEW c \in Command, Quiet(c)
      PROVE  OneSimulation'
  <2>1. CASE \E d \in Simulate : (CreateProvenance(d) /\ ~RootTaken) \/ FinishProvenance(d)
    BY <1>6, <1>7, <2>1
  <2>2. CASE root' = root /\ rows' = rows
    BY <1>3, <1>8, <2>2, QuietEffect
  <2>3. \/ \E d \in Simulate : (CreateProvenance(d) /\ ~RootTaken) \/ FinishProvenance(d)
        \/ root' = root
    BY <1>8 DEF Quiet, ReadStatus, ReadFailures, PickRun, CopyWorkspace, HashBefore,
         ApplyPatch, HashAfter, CreateProvenance, FindRun, files
  <2> QED  BY <1>8, <2>1, <2>2, <2>3, QuietEffect
<1>9. ASSUME NEW c \in Command, NEW k \in Kind, NEW a \in Step \cup Ended, Writes(c, k, a)
      PROVE  OneSimulation'
  <2>1. /\ root' = root /\ stable' = stable /\ step[c] = k
        /\ rows' = rows \/ rows' = [rows EXCEPT ![k] = Added(c)]
        /\ k \in SimulationKind => c \in Simulate
    BY <1>9, WriteEffect, OrderIs DEF Writes, files, IngestKind, SimulationKind, SimulationOrder
  <2>2. CASE rows' = rows \/ k \notin SimulationKind
    <3>1. \A n \in SimulationKind : rows'[n] = rows[n]
      BY <2>1, <2>2 DEF Sound, TypeOK, Kind, SimulationKind, SimulationOrder
    <3> QED  BY <1>3, <2>1, <3>1
  <2>3. CASE rows' = [rows EXCEPT ![k] = Added(c)] /\ k \in SimulationKind
    <3>1. /\ root # Nothing /\ root.by = c /\ root.try = tries[c] /\ root.says = view[c]
          /\ root.whole
      BY <2>1, <2>3 DEF Simulated, Holding, SimulationKind, SimulationOrder
    <3>2. /\ rows'[k] = Added(c) /\ \A n \in Kind \ {k} : rows'[n] = rows[n]
      BY <2>3 DEF Sound, TypeOK
    <3>3. Agrees(k, Added(c), root)  BY <3>1 DEF Agrees, Added
    <3>4. \A n \in SimulationKind : rows'[n] # Nothing => Agrees(n, rows'[n], root)
      BY <1>1, <3>2, <3>3 DEF Agrees, Kind, SimulationKind, SimulationOrder
    <3> QED  BY <1>1, <1>2, <2>1, <3>4
  <2> QED  BY <2>1, <2>2, <2>3
<1>10. ASSUME NEW c \in Command, Publishes(c)
      PROVE  OneSimulation'
  <2>1. /\ root' = root /\ rows' = rows /\ c \in Simulate
        /\ step[c] \in {"stable", "filling"}
    BY <1>10, PublishesEffect
  <2>2. root # Nothing /\ root.by = c /\ root.try = tries[c] /\ root.says = view[c] /\ root.whole
    BY <2>1 DEF Simulated, Holding
  <2>3. Agrees("stable", stable', root)
    <3>1. CASE step[c] = "stable"
      BY <1>10, <2>2, <3>1, PublishesEffect DEF Agrees
    <3>2. CASE step[c] = "filling"
      <4>1. /\ stable' = [stable EXCEPT !.whole = TRUE] /\ stable \in Provenance
        BY <1>10, <2>1, <3>2, PublishesEffect DEF Simulated, Holding, Sound, TypeOK
      <4>2. Agrees("stable", stable, root)  BY <1>1, <4>1
      <4>3. stable'.by = stable.by /\ stable'.try = stable.try /\ stable'.says = stable.says
        BY <4>1 DEF Provenance
      <4> QED  BY <4>2, <4>3 DEF Agrees
    <3> QED  BY <2>1, <3>1, <3>2
  <2> QED  BY <1>1, <1>2, <2>1, <2>3
<1> QED  BY <1>4, <1>5, <1>8, <1>9, <1>10, StepIs

\* The rows of a simulation and its two provenance files are of one attempt and say the
\* same, and a change measured on a copy of its own is the patch.
THEOREM SimulationsAreOne == Spec => []OneSimulation
<1>1. Init => Simulated /\ OneSimulation
  BY InitIsSimulated DEF Init, OneSimulation, Stored, Kind, SimulationKind, SimulationOrder
<1>2. Sound /\ Sound' /\ Simulated /\ OneSimulation /\ [Next]_vars
        => Simulated' /\ OneSimulation'
  BY SimulatedStep, OneSimulationStep
<1>3. Sound /\ [Next]_vars => Sound'  BY StepIsSound
<1> QED  BY <1>1, <1>2, <1>3, InitIsSound, PTL DEF Spec

------------------------------------------------------------------------------
(* Verdicts *)

\* What an evaluation has read so far, of the run it found and of what is there now.
Reads(c) ==
  /\ alone[c] => OfGroup(c)
  /\ step[c] # "status" =>
       /\ (alone[c] => view[c].failed = Stored("failure"))
       /\ (Current(c) /\ view[c].failed => Stored("failure"))
  /\ step[c] \in {"newest", "evaluation"} =>
       /\ (alone[c] => view[c].listed = Stored("failure"))
       /\ (Current(c) /\ view[c].listed => Stored("failure"))

Reading ==
  \A c \in Evaluate :
    step[c] \in {"status", "failures", "newest", "evaluation"} => Reads(c)

LEMMA ReadingStep ==
  ASSUME Sound, Sound', Reading, [Next]_vars
  PROVE  Reading'
<1> USE DEF Reading, Reads, Current
<1> \A c \in Evaluate : c \in Command  BY DEF Command
<1> DEFINE Same(d) == /\ step'[d] = step[d] /\ view'[d] = view[d]
                      /\ joined'[d] = joined[d] /\ alone'[d] = alone[d]
           Outside == {"parsed", "refused", "cleared", "artifact", "raised", "done", "killed"}
<1>1. CASE UNCHANGED vars
  BY <1>1 DEF vars, files, OfGroup, Stored
<1>2. CASE Collect
  BY <1>2 DEF Collect, files
<1>3. ASSUME NEW c \in Command, UNCHANGED <<run, rows>>,
             \A d \in Evaluate \ {c} : Same(d),
             c \in Evaluate => step'[c] \in Outside
      PROVE  Reading'
  BY <1>3 DEF OfGroup, Stored
<1>4. ASSUME NEW c \in Command, Begun(c)
      PROVE  Reading'
  <2>1. UNCHANGED <<run, rows>> /\ \A d \in Evaluate \ {c} : Same(d)
    BY <1>4 DEF Begun, Parse, Look, RefuseReceipt, ClearWorkspace, Start, Goto, files,
         Sound, TypeOK
  <2>2. step'[c] \in {"parsed", "status", "artifact", "refused", "cleared"}
    BY <1>4, BegunEffect DEF Sound, TypeOK
  <2>3. CASE step'[c] # "status"
    BY <1>3, <2>1, <2>2, <2>3
  <2>4. CASE step'[c] = "status"
    <3>1. OfGroup(c)'
      BY <1>4, <2>4 DEF Begun, Parse, Look, RefuseReceipt, ClearWorkspace, Start, OfGroup, Goto,
           files, Sound, TypeOK
    <3> QED  BY <2>1, <2>4, <3>1 DEF OfGroup, Stored
  <2> QED  BY <2>3, <2>4
<1>5. ASSUME NEW c \in Command, Inserts(c) \/ Stops(c) \/ (c \in Ingest /\ CheckGroup(c))
      PROVE  Reading'
  <2>1. CASE run = Nothing /\ Inserts(c)
    <3>1. /\ run' # Nothing /\ run'.life = lives + 1 /\ c \notin Evaluate /\ rows' = rows
          /\ \A d \in Evaluate : ~alone'[d] /\ step'[d] = step[d]
          /\ \A d \in Evaluate : joined'[d] = joined[d]
      BY <1>5, <2>1, InsertEffect
        DEF Inserts, InsertRun, SimulateOnlyRun, Disturb, Goto, Sound, TypeOK
    <3>2. \A d \in Evaluate : ~Current(d)'
      BY <3>1 DEF Sound, Lives, TypeOK
    <3> QED  BY <3>1, <3>2
  <2>2. CASE ~(run = Nothing /\ Inserts(c))
    <3>1. /\ UNCHANGED <<run, rows>> /\ \A d \in Evaluate \ {c} : Same(d)
          /\ c \in Evaluate => step'[c] \in Outside
      BY <1>5, <2>2, StopsEffect DEF Inserts, InsertRun, SimulateOnlyRun, CheckGroup, Goto,
           files, Sound, TypeOK
    <3> QED  BY <1>3, <3>1
  <2> QED  BY <2>1, <2>2
<1>6. ASSUME NEW c \in Command, Quiet(c)
      PROVE  Reading'
  <2>1. UNCHANGED <<run, rows, alone>> /\ \A d \in Evaluate \ {c} : Same(d)
    BY <1>6 DEF Quiet, ReadStatus, ReadFailures, PickRun, CopyWorkspace, HashBefore,
         ApplyPatch, HashAfter, CreateProvenance, FinishProvenance, FindRun, Goto, files,
         Sound, TypeOK
  <2>2. CASE c \notin Evaluate
    BY <1>3, <2>1, <2>2
  <2>3. CASE c \in Evaluate /\ ReadStatus(c)
    <3>1. /\ step[c] = "status" /\ step'[c] = "failures" /\ joined'[c] = joined[c]
          /\ view'[c].failed = Failed(c)
      BY <2>3 DEF ReadStatus, Goto, View, Sound, TypeOK
    <3>2. Failed(c) = (OfGroup(c) /\ Stored("failure"))  BY DEF Failed
    <3>3. Stored("failure") \in BOOLEAN /\ OfGroup(c) \in BOOLEAN  BY DEF Stored, OfGroup
    <3>4. Reads(c)'  BY <2>1, <2>3, <3>1, <3>2, <3>3 DEF OfGroup, Stored
    <3> QED  BY <2>1, <3>4 DEF OfGroup, Stored
  <2>4. CASE c \in Evaluate /\ ReadFailures(c)
    <3>1. /\ step[c] = "failures" /\ step'[c] = "newest" /\ joined'[c] = joined[c]
          /\ view'[c].failed = view[c].failed /\ view'[c].listed = Stored("failure")
      BY <2>4 DEF ReadFailures, Goto, View, Sound, TypeOK
    <3>2. Reads(c)'  BY <2>1, <2>4, <3>1 DEF OfGroup, Stored
    <3> QED  BY <2>1, <3>2 DEF OfGroup, Stored
  <2>5. CASE c \in Evaluate /\ PickRun(c)
    <3>1. /\ step[c] = "newest" /\ joined'[c] = joined[c] /\ view'[c] = view[c]
          /\ step'[c] \in {"evaluation", "raised"}
      BY <2>5 DEF PickRun, Goto, Sound, TypeOK
    <3> QED  BY <2>1, <2>5, <3>1 DEF OfGroup, Stored
  <2> QED  BY <1>6, <2>2, <2>3, <2>4, <2>5 DEF Quiet
<1>7. ASSUME NEW c \in Command, NEW k \in Kind, NEW a \in Step \cup Ended, Writes(c, k, a)
      PROVE  Reading'
  <2>1. /\ UNCHANGED <<run, view, joined>>
        /\ \A d \in Evaluate \ {c} : step'[d] = step[d]
        /\ c \in Evaluate => step'[c] \in Outside
    BY <1>7, WriteEffect DEF Writes, Sound, TypeOK
  <2>2. CASE rows' = rows /\ alone' = alone
    BY <1>3, <2>1, <2>2
  <2>3. CASE rows' = [rows EXCEPT ![k] = Added(c)] /\ Disturb(c)
    <3>1. \A d \in Evaluate \ {c} : ~alone'[d]
      BY <2>3 DEF Disturb
    <3>2. Stored("failure") => Stored("failure")'
      <4>1. Added(c) # Nothing  BY <1>7, WriteEffect
      <4>2. rows'["failure"] \in {rows["failure"], Added(c)}
        BY <2>3 DEF Sound, TypeOK, Kind
      <4> QED  BY <4>1, <4>2 DEF Stored
    <3> QED  BY <2>1, <3>1, <3>2
  <2>4. (rows' = rows /\ alone' = alone) \/ (rows' = [rows EXCEPT ![k] = Added(c)] /\ Disturb(c))
    BY <1>7 DEF Writes, Write, Added
  <2> QED  BY <2>2, <2>3, <2>4
<1>8. ASSUME NEW c \in Command, Publishes(c)
      PROVE  Reading'
  BY <1>3, <1>8, PublishesEffect DEF Sound, TypeOK
<1> QED  BY <1>1, <1>2, <1>4, <1>5, <1>6, <1>7, <1>8, StepIs

\* A recorded verdict is of the evidence it is stored with when nobody wrote beside the
\* evaluation, and is never a red without a failure.
THEOREM VerdictsFit == Spec => VerdictFitsEvidence
<1> DEFINE Fits ==
  \A c \in Evaluate :
       ~Stored("evaluation") /\ Stored("evaluation")' /\ rows'["evaluation"].by = c
       => LET v == rows'["evaluation"].says
              red == Stored("failure")
          IN  /\ alone[c] => v.failed = red /\ v.listed = red
              /\ joined[c] = run.life /\ (v.failed \/ v.listed) => red
<1>1. Init => Reading
  BY DEF Init, Reading, Command
<1>2. Sound /\ Sound' /\ Reading /\ [Next]_vars => Reading'  BY ReadingStep
<1>3. Sound /\ [Next]_vars => Sound'  BY StepIsSound
<1>4. Sound /\ Reading /\ [Next]_vars => [Fits]_vars
  <2> SUFFICES ASSUME Sound, Reading, Next,
                      NEW e \in Evaluate, ~Stored("evaluation"), Stored("evaluation")',
                      rows'["evaluation"].by = e
               PROVE  LET v == rows'["evaluation"].says
                          red == Stored("failure")
                      IN  /\ (alone[e] => v.failed = red /\ v.listed = red)
                          /\ (joined[e] = run.life /\ (v.failed \/ v.listed) => red)
    OBVIOUS
  <2>1. rows' # rows  BY DEF Stored
  <2>2. ~Collect  BY DEF Collect, Stored, Kind
  <2>3. PICK c \in Command : \E k \in Kind : \E a \in Step \cup Ended : Writes(c, k, a)
    <3>1. ASSUME NEW c \in Command,
                 \/ Begun(c) \/ Quiet(c) \/ Inserts(c) \/ Stops(c) \/ Publishes(c)
                 \/ c \in Ingest /\ CheckGroup(c)
          PROVE  rows' = rows
      BY <3>1, BegunEffect, QuietEffect, InsertEffect, StopsEffect, PublishesEffect
        DEF CheckGroup
    <3> QED  BY <2>1, <2>2, <3>1, StepIs
  <2>4. PICK k \in Kind, a \in Step \cup Ended : Writes(c, k, a)  BY <2>3
  <2>5. rows' = [rows EXCEPT ![k] = Added(c)] /\ run # Nothing /\ step[c] = k
    BY <2>1, <2>4, WriteEffect
  <2>6. k = "evaluation"
    BY <2>5 DEF Stored, Sound, TypeOK, Kind
  <2>7. rows'["evaluation"] = Added(c)
    BY <2>5, <2>6 DEF Sound, TypeOK
  <2>8. c = e /\ rows'["evaluation"].says = view[c]
    BY <2>7 DEF Added
  <2>9. Reads(e)  BY <2>5, <2>6, <2>8 DEF Reading
  <2> QED  BY <2>5, <2>6, <2>8, <2>9 DEF Reads, Current
<1> QED  BY <1>1, <1>2, <1>3, <1>4, InitIsSound, PTL DEF Spec, VerdictFitsEvidence
==============================================================================
