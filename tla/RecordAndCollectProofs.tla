------------------------- MODULE RecordAndCollectProofs -------------------------
(***************************************************************************)
(* Proofs about recorders and collectors on one evidence directory, for    *)
(* any runs, groups, timestamps, collectors and requests.                  *)
(***************************************************************************)
EXTENDS RecordAndCollect, FiniteSetTheorems, WellFoundedInduction, TLAPS

\* A recorder stands at a step of its own script.
OnScript == \A r \in Run : Recording(r) => at[r] \in DOMAIN Then[mode[r]]

\* From the end of the wrapped command on, the run has a terminal status.
Early == {"tree", "insert", "execute"}
HasOutcome == \A r \in Run : at[r] \in Step \ Early => outcome[r] \in Terminal

\* A run has no row before its insert.
Fresh == \A r \in Run : at[r] \in {"idle", "tree", "insert"} => row[r] = "none"

Safe == TypeOK /\ OnScript /\ HasOutcome /\ Fresh /\ ChildrenHaveRuns

\* A collector about to delete has chosen by the rules, from what it read.
Selecting(c) == phase[c] \in {"discover", "select", "delete"}
ChosenByRule ==
  \A c \in Gc : phase[c] = "delete" =>
    /\ request[c].apply
    /\ chosen[c] = Selected(request[c], index[c])
    /\ ~Missing(request[c], index[c])
    /\ ~WouldEmpty(request[c], chosen[c], index[c])
    /\ chosen[c] # {}

\* Unless collectors may overlap there is one at a time, and what it read is
\* still there when it deletes.
OneAtATime == ~Overlap => \A c, d \in Gc : InProgress(c) /\ InProgress(d) => c = d
IndexCurrent == ~Overlap => \A c \in Gc : Selecting(c) => index[c] \subseteq Recorded

\* The scripts lead from step to step, to the end.
LEMMA ScriptsLead ==
  \A m \in Mode : \A s \in DOMAIN Then[m] :
    /\ s \in Step
    /\ Then[m][s] \in Step \cup Halted
    /\ Then[m][s] \in Step => Then[m][s] \in DOMAIN Then[m]
<1> SUFFICES ASSUME NEW m \in Mode, NEW s \in DOMAIN Then[m]
             PROVE /\ s \in Step
                   /\ Then[m][s] \in Step \cup Halted
                   /\ Then[m][s] \in Step => Then[m][s] \in DOMAIN Then[m]
  OBVIOUS
<1>1. CASE m = "record"
  <2>1. Then[m] = Then.record  BY <1>1 DEF Then
  <2>2. s \in {"tree", "insert", "execute", "target", "reference", "run_json",
               "update", "invocation", "failure", "artifact", "export"}
    BY <2>1 DEF Then
  <2> QED  BY <2>1, <2>2 DEF Then, Step, Part, Halted
<1>2. CASE m = "run"
  <2>1. Then[m] = Then.run  BY <1>2 DEF Then
  <2>2. s \in {"tree", "insert", "execute", "run_json", "change", "proof",
               "update", "invocation", "artifact"}
    BY <2>1 DEF Then
  <2> QED  BY <2>1, <2>2 DEF Then, Step, Part, Halted
<1>3. CASE m = "generic"
  <2>1. Then[m] = Then.generic  BY <1>3 DEF Then
  <2>2. s \in {"tree", "insert", "execute", "change", "run_json", "proof",
               "failure", "update", "invocation", "artifact"}
    BY <2>1 DEF Then
  <2> QED  BY <2>1, <2>2 DEF Then, Step, Part, Halted
<1> QED  BY <1>1, <1>2, <1>3 DEF Mode

\* Every script makes the tree, inserts the row and executes the command.
LEMMA ScriptsStart ==
  \A m \in Mode : /\ "tree" \in DOMAIN Then[m]
                  /\ Then[m]["tree"] = "insert"
                  /\ Then[m]["insert"] = "execute"
  BY DEF Mode, Then
\* Only the first step of a script leads to the insert, and none to the start.
LEMMA ScriptsGoOn ==
  \A m \in Mode : \A s \in DOMAIN Then[m] :
    s # "tree" => Then[m][s] \notin {"idle", "tree", "insert"}
<1> SUFFICES ASSUME NEW m \in Mode, NEW s \in DOMAIN Then[m], s # "tree"
             PROVE Then[m][s] \notin {"idle", "tree", "insert"}
  OBVIOUS
<1>1. CASE m = "record"
  <2>1. Then[m] = Then.record  BY <1>1 DEF Then
  <2> QED  BY <2>1 DEF Then
<1>2. CASE m = "run"
  <2>1. Then[m] = Then.run  BY <1>2 DEF Then
  <2> QED  BY <2>1 DEF Then
<1>3. CASE m = "generic"
  <2>1. Then[m] = Then.generic  BY <1>3 DEF Then
  <2> QED  BY <2>1 DEF Then
<1> QED  BY <1>1, <1>2, <1>3 DEF Mode

------------------------------------------------------------------------------
(* Recorder steps *)

\* What advancing the script keeps.
LEMMA AdvanceKeeps ==
  ASSUME NEW r \in Run, TypeOK, OnScript, Recording(r), Advance(r),
         mode' = mode
  PROVE  /\ at' \in [Run -> {"idle"} \cup Step \cup Halted]
         /\ OnScript'
<1> DEFINE next == Then[mode[r]][at[r]]
<1>1. mode[r] \in Mode  BY DEF TypeOK, RecorderTypeOK
<1>2. at[r] \in DOMAIN Then[mode[r]]  BY DEF OnScript
<1>3. /\ next \in Step \cup Halted
      /\ next \in Step => next \in DOMAIN Then[mode[r]]
  BY <1>1, <1>2, ScriptsLead
<1>4. at' = [at EXCEPT ![r] = next]  BY DEF Advance, Goto
<1> HIDE DEF next
<1>5. at' \in [Run -> {"idle"} \cup Step \cup Halted]
  BY <1>3, <1>4 DEF TypeOK, RecorderTypeOK
<1>6. ASSUME NEW s \in Run, Recording(s)'  PROVE (at[s] \in DOMAIN Then[mode[s]])'
  <2>1. CASE s = r
    BY <1>3, <1>4, <1>6, <2>1 DEF Recording, TypeOK, RecorderTypeOK
  <2>2. CASE s # r
    <3>1. at'[s] = at[s]  BY <1>4, <2>2 DEF TypeOK, RecorderTypeOK
    <3> QED  BY <1>6, <3>1 DEF Recording, OnScript
  <2> QED  BY <2>1, <2>2
<1> QED  BY <1>5, <1>6 DEF OnScript

\* Halting, or going nowhere, needs no script.
LEMMA HaltKeeps ==
  ASSUME NEW r \in Run, TypeOK, OnScript, Goto(r, "died"), mode' = mode
  PROVE  /\ at' \in [Run -> {"idle"} \cup Step \cup Halted]
         /\ OnScript'
  BY DEF TypeOK, RecorderTypeOK, OnScript, Goto, Recording, Halted, Step, Part

\* A step of a recorder keeps the types, its script and the foreign keys; it
\* takes no run out of the store and touches nothing of the collectors.
RecorderKeeps ==
  /\ Safe'
  /\ \A s \in Run : /\ InStore(s) => InStore(s)'
                    /\ row[s] # "none" => row'[s] # "none"
                    /\ row'[s] = "deleted" => row[s] = "deleted"

LEMMA BeginKeeps ==
  ASSUME Safe, NEW r \in Run, Begin(r), UNCHANGED gcVars
  PROVE  RecorderKeeps
<1> USE DEF Safe, Begin, Goto, store, gcVars
<1>1. StoreTypeOK' /\ GcTypeOK' /\ ChildrenHaveRuns'
  BY DEF TypeOK, StoreTypeOK, GcTypeOK, ChildrenHaveRuns, InStore, Event
<1>2. PICK m \in Mode, w \in {{}, {"changes"}, {"changes", "sidecar"},
                              {"bad_sidecar"}} :
        /\ mode' = [mode EXCEPT ![r] = m]
        /\ wants' = [wants EXCEPT ![r] = w]
  OBVIOUS
<1>3. "tree" \in Step  BY DEF Step
<1>4. RecorderTypeOK'
  BY <1>2, <1>3 DEF TypeOK, RecorderTypeOK, Optional
<1>5. OnScript'
  <2> SUFFICES ASSUME NEW s \in Run, Recording(s)'
               PROVE (at[s] \in DOMAIN Then[mode[s]])'
    BY DEF OnScript
  <2>1. CASE s = r
    <3>1. at'[s] = "tree" /\ mode'[s] = m
      BY <1>2, <2>1 DEF TypeOK, RecorderTypeOK
    <3> QED  BY <3>1, ScriptsStart
  <2>2. CASE s # r
    <3>1. at'[s] = at[s] /\ mode'[s] = mode[s]
      BY <1>2, <2>2 DEF TypeOK, RecorderTypeOK
    <3> QED  BY <3>1 DEF Recording, OnScript
  <2> QED  BY <2>1, <2>2
<1>6. HasOutcome'
  BY <1>2 DEF TypeOK, RecorderTypeOK, HasOutcome, Early
<1>7. Fresh'  BY <1>2 DEF TypeOK, RecorderTypeOK, Fresh
<1> QED  BY <1>1, <1>4, <1>5, <1>6, <1>7 DEF RecorderKeeps, TypeOK, InStore

LEMMA StepKeeps ==
  ASSUME Safe, NEW r \in Run, RecorderStep(r) \/ Die(r), UNCHANGED gcVars
  PROVE  RecorderKeeps
<1> USE DEF Safe, store, gcVars
<1>0. /\ Recording(r)
      /\ mode' = mode
      /\ Advance(r) \/ Goto(r, "died")
  BY DEF RecorderStep, Die, Recording, MakeTree, InsertRow, Execute, Settle,
         WriteRunJson, SkipPart, WritePart, FailPart, Export, Step
<1>1. /\ at' \in [Run -> {"idle"} \cup Step \cup Halted]
      /\ OnScript'
  BY <1>0, AdvanceKeeps, HaltKeeps
<1>2. GcTypeOK' /\ report' = report
  BY DEF RecorderStep, Die, MakeTree, InsertRow, Execute, Settle, WriteRunJson,
         SkipPart, WritePart, FailPart, Export, TypeOK, GcTypeOK
<1>3. /\ wants' \in [Run -> SUBSET Optional]
      /\ outcome' \in [Run -> {"none"} \cup Terminal]
  <2>1. CASE Execute(r)
    <3>1. PICK t \in Terminal, extra \in SUBSET {"bep", "failed"} :
            /\ outcome' = [outcome EXCEPT ![r] = t]
            /\ wants' = [wants EXCEPT ![r] = @ \cup extra]
      BY <2>1 DEF Execute
    <3> QED  BY <3>1 DEF TypeOK, RecorderTypeOK, Optional
  <2>2. CASE ~Execute(r)
    BY <2>2 DEF RecorderStep, Die, MakeTree, InsertRow, Settle, WriteRunJson,
         SkipPart, WritePart, FailPart, Export, TypeOK, RecorderTypeOK
  <2> QED  BY <2>1, <2>2
<1>4. RecorderTypeOK'
  BY <1>0, <1>1, <1>3 DEF TypeOK, RecorderTypeOK
<1>5. /\ StoreTypeOK' /\ ChildrenHaveRuns'
      /\ \A s \in Run : /\ InStore(s) => InStore(s)'
                        /\ row[s] # "none" => row'[s] # "none"
                        /\ row'[s] = "deleted" => row[s] = "deleted"
  <2> USE DEF TypeOK, StoreTypeOK, ChildrenHaveRuns, InStore, Absent
  <2>1. CASE MakeTree(r)  BY <2>1 DEF MakeTree, TreeState
  <2>2. CASE InsertRow(r)
    BY <2>2 DEF InsertRow, InsertRun, Terminal
  <2>3. CASE Execute(r)  BY <2>3 DEF Execute
  <2>4. CASE WriteRunJson(r)  BY <2>4 DEF WriteRunJson, TreeState
  <2>5. CASE Settle(r)
    <3>1. outcome[r] \in Terminal  BY <2>5 DEF Settle, HasOutcome, Step, Early
    <3> QED  BY <2>5, <3>1 DEF Settle, SetStatus, Terminal
  <2>6. CASE SkipPart(r)  BY <2>6 DEF SkipPart
  <2>7. CASE WritePart(r)
    BY <2>7 DEF WritePart, ChildAccepted, InsertChild, Revived, TreeState
  <2>8. CASE FailPart(r)  BY <2>8 DEF FailPart, Revived, TreeState
  <2>9. CASE Export(r) \/ Die(r)  BY <2>9 DEF Export, Die
  <2> QED
    BY <2>1, <2>2, <2>3, <2>4, <2>5, <2>6, <2>7, <2>8, <2>9 DEF RecorderStep
<1>6. HasOutcome'
  <2> SUFFICES ASSUME NEW s \in Run, at'[s] \in Step \ Early
               PROVE  outcome'[s] \in Terminal
    BY DEF HasOutcome
  <2> USE DEF TypeOK, RecorderTypeOK, Early
  <2>1. CASE s # r
    <3>1. at'[s] = at[s] /\ outcome'[s] = outcome[s]
      BY <1>0, <2>1 DEF Advance, Goto, RecorderStep, Die, MakeTree, InsertRow,
         Execute, Settle, WriteRunJson, SkipPart, WritePart, FailPart, Export
    <3> QED  BY <3>1 DEF HasOutcome
  <2>2. CASE s = r /\ Execute(r)  BY <2>2 DEF Execute
  <2>3. CASE s = r /\ (MakeTree(r) \/ InsertRow(r))
    <3>1. at'[r] = Then[mode[r]][at[r]] /\ at[r] \in {"tree", "insert"}
      BY <2>3 DEF MakeTree, InsertRow, Advance, Goto
    <3> QED  BY <2>3, <3>1, ScriptsStart
  <2>4. CASE s = r /\ ~(Execute(r) \/ MakeTree(r) \/ InsertRow(r))
    <3>1. CASE Die(r)  BY <2>4, <3>1 DEF Die, Goto, Step, Part
    <3>2. CASE ~Die(r)
      BY <2>4, <3>2 DEF HasOutcome, RecorderStep, Settle, WriteRunJson, SkipPart,
         WritePart, FailPart, Export, Step, Part
    <3> QED  BY <3>1, <3>2
  <2> QED  BY <2>1, <2>2, <2>3, <2>4
<1>7. Fresh'
  <2> SUFFICES ASSUME NEW s \in Run, at'[s] \in {"idle", "tree", "insert"}
               PROVE  row'[s] = "none"
    BY DEF Fresh
  <2> USE DEF TypeOK, RecorderTypeOK, StoreTypeOK, Fresh
  <2>1. CASE s # r
    <3>1. at'[s] = at[s] /\ row'[s] = row[s]
      BY <1>0, <2>1 DEF Advance, Goto, RecorderStep, Die, MakeTree, InsertRow,
         Execute, Settle, WriteRunJson, SkipPart, WritePart, FailPart, Export,
         InsertRun, SetStatus
    <3> QED  BY <3>1
  <2>2. CASE s = r /\ MakeTree(r)  BY <2>2 DEF MakeTree
  <2>3. CASE s = r /\ Goto(r, "died")  BY <2>3 DEF Goto
  <2>4. CASE s = r /\ Advance(r) /\ ~MakeTree(r)
    <3>1. at'[r] = Then[mode[r]][at[r]] /\ at[r] \in DOMAIN Then[mode[r]]
      BY <1>0, <2>4 DEF Advance, Goto, OnScript
    <3>2. at[r] # "tree"
      BY <1>0, <2>4, <3>1, ScriptsStart DEF RecorderStep, Die, InsertRow,
         Execute, Settle, WriteRunJson, SkipPart, WritePart, FailPart, Export, Goto,
         Part
    <3> QED  BY <2>4, <3>1, <3>2, ScriptsGoOn
  <2> QED  BY <1>0, <2>1, <2>2, <2>3, <2>4
<1> QED  BY <1>1, <1>2, <1>4, <1>5, <1>6, <1>7 DEF RecorderKeeps, TypeOK
------------------------------------------------------------------------------
(* Collector steps *)

\* The steps of a collector before and after its DELETE.
QuietStep(c) ==
  \/ StartGc(c) \/ LoadIndex(c) \/ Discover(c) \/ Refuse(c) \/ Select(c)
  \/ RemoveTree(c) \/ TreesRemoved(c) \/ Vacuum(c) \/ ReadReport(c)
  \/ WriteReport(c) \/ Kill(c)

\* The rows it deletes are rows it read, of groups it chose.
LEMMA DoomedAreRuns == ASSUME TypeOK, NEW c \in Gc PROVE Doomed(c) \in SUBSET Run
  BY DEF TypeOK, GcTypeOK, Doomed

\* Whatever a selection picks is a set of groups.
LEMMA SelectedAreGroups ==
  ASSUME NEW q \in Request, NEW ids \in SUBSET Run
  PROVE  Selected(q, ids) \in SUBSET Group
<1>1. q \in Options  BY GcAssumption
<1>2. Rankable(ids) \subseteq Group  BY DEF Rankable, GroupsOf, Group
<1>3. q.kind \in Kind /\ q.names \subseteq Group  BY <1>1 DEF Options
<1> QED  BY <1>2, <1>3 DEF Selected, Kind

LEMMA CollectorTypes ==
  ASSUME Safe, NEW c \in Gc, StartGc(c) \/ GcStep(c) \/ Kill(c),
         UNCHANGED recorderVars
  PROVE  Safe'
<1> USE DEF Safe, store, recorderVars
<1>1. RecorderTypeOK' /\ OnScript' /\ HasOutcome'
  BY DEF TypeOK, RecorderTypeOK, OnScript, HasOutcome, Recording
<1>2. phase' \in [Gc -> {"idle"} \cup Working \cup Ended] /\ request' = request
  BY DEF TypeOK, GcTypeOK, GcStep, StartGc, LoadIndex, Discover, Refuse, Select,
         DeleteRows, RemoveTree, TreesRemoved, Vacuum, ReadReport, WriteReport,
         Kill, Enter, Working, Ended
<1>3. StoreTypeOK' /\ ChildrenHaveRuns'
  <2> USE DEF TypeOK, StoreTypeOK, ChildrenHaveRuns, InStore, Absent
  <2>1. CASE DeleteRows(c)
    BY <2>1 DEF DeleteRows, DeleteRuns, Cascade, Recorded
  <2>2. CASE RemoveTree(c)
    <3>1. PICK r \in pending[c], left \in TreeState :
            tree' = [tree EXCEPT ![r] = left]
      BY <2>2 DEF RemoveTree
    <3> QED  BY <2>2, <3>1 DEF RemoveTree
  <2>3. CASE ~(DeleteRows(c) \/ RemoveTree(c))
    <3>1. row' = row /\ kids' = kids /\ tree' = tree
      BY <2>3 DEF GcStep, StartGc, LoadIndex, Discover, Refuse, Select, TreesRemoved,
         Vacuum, ReadReport, WriteReport, Kill
    <3> QED  BY <3>1
  <2> QED  BY <2>1, <2>2, <2>3
<1>4. Fresh'
  <2>1. CASE DeleteRows(c)
    BY <2>1 DEF DeleteRows, DeleteRuns, Recorded, InStore, Absent, Fresh
  <2>2. CASE ~DeleteRows(c)
    <3>1. row' = row
      BY <2>2 DEF GcStep, StartGc, LoadIndex, Discover, Refuse, Select, RemoveTree,
         TreesRemoved, Vacuum, ReadReport, WriteReport, Kill
    <3> QED  BY <3>1 DEF Fresh
  <2> QED  BY <2>1, <2>2
<1>5. GcTypeOK'
  <2> USE DEF TypeOK, GcTypeOK
  <2>1. CASE StartGc(c) \/ Refuse(c) \/ TreesRemoved(c) \/ Vacuum(c) \/ Kill(c)
    BY <1>2, <2>1 DEF StartGc, Refuse, TreesRemoved, Vacuum, Kill
  <2>2. CASE LoadIndex(c) \/ Discover(c)
    BY <1>2, <2>2 DEF LoadIndex, Discover, Recorded
  <2>3. CASE Select(c)
    <3>1. Selected(request[c], index[c]) \in SUBSET Group  BY SelectedAreGroups
    <3>2. chosen' = [chosen EXCEPT ![c] = Selected(request[c], index[c])]
      BY <2>3 DEF Select
    <3> QED  BY <1>2, <2>3, <3>1, <3>2 DEF Select
  <2>4. CASE DeleteRows(c)
    <3>1. TreesOf(c) \in SUBSET Run  BY DEF TreesOf
    <3> QED  BY <1>2, <2>4, <3>1 DEF DeleteRows
  <2>5. CASE RemoveTree(c)
    <3>1. PICK r \in pending[c] :
            pending' = [pending EXCEPT ![c] = Remaining(c, r)]
      BY <2>5 DEF RemoveTree
    <3> QED  BY <1>2, <2>5, <3>1 DEF RemoveTree, Remaining
  <2>6. CASE ReadReport(c)  BY <1>2, <2>6 DEF ReadReport, Known
  <2>7. CASE WriteReport(c)
    <3>1. EventOf(c) \in Event  BY DoomedAreRuns DEF EventOf, Event
    <3>2. report' = document[c] \cup {EventOf(c)}  BY <2>7 DEF WriteReport
    <3>3. report' \in SUBSET Event  BY <3>1, <3>2
    <3> QED  BY <1>2, <2>7, <3>3 DEF WriteReport
  <2> QED  BY <2>1, <2>2, <2>3, <2>4, <2>5, <2>6, <2>7 DEF GcStep
<1> QED  BY <1>1, <1>3, <1>4, <1>5 DEF TypeOK

------------------------------------------------------------------------------
(* Types, scripts and foreign keys *)

LEMMA SafeHolds == Spec => []Safe
<1>1. Init => Safe
  <2> SUFFICES ASSUME Init PROVE Safe  OBVIOUS
  <2> USE DEF Init, StoreInit, RecorderInit, GcInit
  <2>1. StoreTypeOK /\ ChildrenHaveRuns
    BY DEF StoreTypeOK, ChildrenHaveRuns, InStore, Absent, Terminal, Part, TreeState
  <2>2. RecorderTypeOK /\ OnScript /\ HasOutcome
    BY DEF RecorderTypeOK, OnScript, HasOutcome, Recording, Mode, Halted, Step, Part
  <2>3. GcTypeOK  BY DEF GcTypeOK
  <2>4. Fresh  BY DEF Fresh, Past
  <2> QED  BY <2>1, <2>2, <2>3, <2>4 DEF Safe, TypeOK
<1>2. Safe /\ [Next]_vars => Safe'
  <2> SUFFICES ASSUME Safe, [Next]_vars PROVE Safe'  OBVIOUS
  <2>1. ASSUME NEW r \in Run, Begin(r) \/ RecorderStep(r) \/ Die(r), UNCHANGED gcVars
        PROVE  Safe'
    BY <2>1, BeginKeeps, StepKeeps DEF RecorderKeeps
  <2>2. ASSUME NEW c \in Gc, StartGc(c) \/ GcStep(c) \/ Kill(c), UNCHANGED recorderVars
        PROVE  Safe'
    BY <2>2, CollectorTypes
  <2>3. CASE UNCHANGED vars
    BY <2>3 DEF vars, store, recorderVars, gcVars, Safe, TypeOK, StoreTypeOK,
       RecorderTypeOK, GcTypeOK, OnScript, HasOutcome, Fresh, Recording,
       ChildrenHaveRuns, InStore
  <2> QED  BY <2>1, <2>2, <2>3 DEF Next
<1> QED  BY <1>1, <1>2, PTL DEF Spec

\* Every variable keeps its type, whoever runs at the same time.
THEOREM TypeCorrect == Spec => []TypeOK
<1>1. Safe => TypeOK  BY DEF Safe
<1> QED  BY <1>1, SafeHolds, PTL

\* No child row outlives its run: a gc that deletes a run under a recorder that
\* is still writing leaves nothing behind, and nothing is added afterwards.
THEOREM NoOrphanedRows == Spec => []ChildrenHaveRuns
<1>1. Safe => ChildrenHaveRuns  BY DEF Safe
<1> QED  BY <1>1, SafeHolds, PTL
------------------------------------------------------------------------------
(* What a collection decides still holds when it deletes *)

\* A collector at work is not overtaken, unless collectors may overlap: the
\* rest of the invariant is about what it knows.
Decided == ChosenByRule /\ OneAtATime /\ IndexCurrent

LEMMA RecorderDecided ==
  ASSUME Safe, Decided, RecorderKeeps, UNCHANGED gcVars
  PROVE  Decided'
<1> USE DEF Decided, gcVars
<1>1. ChosenByRule'  BY DEF ChosenByRule
<1>2. OneAtATime'  BY DEF OneAtATime, InProgress
<1>3. IndexCurrent'
  BY DEF IndexCurrent, Selecting, Recorded, RecorderKeeps, InStore
<1> QED  BY <1>1, <1>2, <1>3

LEMMA QuietDecided ==
  ASSUME Safe, Decided, NEW c \in Gc, QuietStep(c), UNCHANGED recorderVars
  PROVE  Decided' /\ row' = row /\ request' = request
<1> USE DEF Decided, store
<1>1. /\ row' = row /\ request' = request
      /\ \A d \in Gc : d # c => /\ phase'[d] = phase[d] /\ index'[d] = index[d]
                                /\ chosen'[d] = chosen[d]
  BY DEF QuietStep, StartGc, LoadIndex, Discover, Refuse, Select, RemoveTree,
         TreesRemoved, Vacuum, ReadReport, WriteReport, Kill, Enter, Safe, TypeOK,
         GcTypeOK
<1>2. CASE LoadIndex(c)
  <2>1. phase'[c] = "discover" /\ index'[c] = Recorded
    BY <1>2 DEF LoadIndex, Enter, Safe, TypeOK, GcTypeOK
  <2>2. ChosenByRule'  BY <1>1, <2>1 DEF ChosenByRule
  <2>3. OneAtATime'
    BY <1>1, <1>2, <2>1 DEF OneAtATime, InProgress, LoadIndex, Working
  <2>4. IndexCurrent'
    BY <1>1, <2>1 DEF IndexCurrent, Selecting, Recorded, InStore
  <2> QED  BY <1>1, <2>2, <2>3, <2>4
<1>3. CASE Select(c)
  <2>1. /\ phase[c] = "select" /\ phase'[c] \in {"delete", "done"}
        /\ index' = index
        /\ chosen'[c] = Selected(request[c], index[c])
        /\ phase'[c] = "delete" => request[c].apply /\ chosen'[c] # {}
        /\ ~Refuses(request[c], index[c], found[c])
    BY <1>3 DEF Select, Enter, Safe, TypeOK, GcTypeOK
  <2>2. ChosenByRule'
    BY <1>1, <2>1 DEF ChosenByRule, Refuses
  <2>3. IndexCurrent'
    BY <1>1, <2>1 DEF IndexCurrent, Selecting, Recorded, InStore
  <2>4. OneAtATime'  BY <1>1, <2>1 DEF OneAtATime, InProgress, Working
  <2> QED  BY <1>1, <2>2, <2>3, <2>4
<1>4. CASE StartGc(c)
  <2>1. /\ phase'[c] = "index" /\ index' = index
        /\ ~Overlap => \A d \in Gc : ~InProgress(d)
    BY <1>4 DEF StartGc, Enter, Safe, TypeOK, GcTypeOK
  <2>2. OneAtATime'  BY <1>1, <2>1 DEF OneAtATime, InProgress
  <2>3. ChosenByRule' /\ IndexCurrent'
    BY <1>1, <2>1 DEF ChosenByRule, IndexCurrent, Selecting, Recorded,
       InStore
  <2> QED  BY <1>1, <2>2, <2>3
<1>5. CASE ~(LoadIndex(c) \/ Select(c) \/ StartGc(c))
  <2>1. /\ index' = index
        /\ phase'[c] \in Working => phase[c] \in Working
        /\ Selecting(c)' => Selecting(c)
        /\ phase'[c] = "delete" => phase[c] = "delete" /\ chosen' = chosen
    BY <1>5 DEF QuietStep, Discover, Refuse, RemoveTree, TreesRemoved, Vacuum,
       ReadReport, WriteReport, Kill, Enter, Selecting, InProgress, Working, Safe,
       TypeOK, GcTypeOK
  <2>2. OneAtATime'  BY <1>1, <2>1 DEF OneAtATime, InProgress
  <2>3. IndexCurrent'
    BY <1>1, <2>1 DEF IndexCurrent, Selecting, Recorded, InStore
  <2>4. ChosenByRule'  BY <1>1, <2>1 DEF ChosenByRule
  <2> QED  BY <1>1, <2>2, <2>3, <2>4
<1> QED  BY <1>2, <1>3, <1>4, <1>5

\* The rows a DELETE takes: a set of recorded runs, not empty, and not all that
\* are left unless the operator allowed it.
LEMMA DeleteTakes ==
  ASSUME Safe, Decided, ~Overlap, NEW c \in Gc, DeleteRows(c)
  PROVE  /\ Doomed(c) \subseteq Recorded /\ Doomed(c) # {}
         /\ Doomed(c) # Recorded \/ request[c].allow_empty
<1> USE DEF Decided, Safe, TypeOK, GcTypeOK
<1>1. phase[c] = "delete"  BY DEF DeleteRows
<1>2. index[c] \subseteq Recorded  BY <1>1 DEF IndexCurrent, Selecting
<1>3. /\ chosen[c] = Selected(request[c], index[c]) /\ chosen[c] # {}
      /\ ~Missing(request[c], index[c])
      /\ ~WouldEmpty(request[c], chosen[c], index[c])
  BY <1>1 DEF ChosenByRule
<1>4. chosen[c] \subseteq GroupsOf(index[c])
  <2>1. request[c].kind \in Kind  BY GcAssumption DEF Options
  <2>2. Rankable(index[c]) \subseteq GroupsOf(index[c])  BY DEF Rankable
  <2> QED  BY <1>3, <2>1, <2>2 DEF Selected, Missing, Kind
<1>5. PICK g \in chosen[c] : g \in GroupsOf(index[c])  BY <1>3, <1>4
<1>6. PICK r \in index[c] : GroupOf[r] = g  BY <1>5 DEF GroupsOf
<1>7. r \in Doomed(c)  BY <1>6 DEF Doomed
<1>8. ASSUME ~request[c].allow_empty  PROVE Doomed(c) # Recorded
  <2>1. PICK s \in index[c] : GroupOf[s] \notin chosen[c]
    BY <1>3, <1>8 DEF WouldEmpty, GroupsOf
  <2>2. s \in Recorded /\ s \notin Doomed(c)  BY <1>2, <2>1 DEF Doomed
  <2> QED  BY <2>2
<1> QED  BY <1>2, <1>7, <1>8 DEF Doomed

LEMMA DeleteDecided ==
  ASSUME Safe, Decided, NEW c \in Gc, DeleteRows(c), UNCHANGED recorderVars
  PROVE  Decided'
<1> USE DEF Decided, Safe, TypeOK, GcTypeOK
<1>1. /\ phase[c] = "delete" /\ phase' = [phase EXCEPT ![c] = "trees"]
      /\ index' = index /\ chosen' = chosen /\ request' = request
  BY DEF DeleteRows, Enter
<1>2. phase'[c] = "trees" /\ \A d \in Gc : d # c => phase'[d] = phase[d]
  BY <1>1
<1>3. OneAtATime'  BY <1>1, <1>2 DEF OneAtATime, InProgress, Working
<1>4. ChosenByRule'  BY <1>1, <1>2 DEF ChosenByRule
<1>5. IndexCurrent'
  <2> SUFFICES ASSUME ~Overlap, NEW d \in Gc, Selecting(d)'
               PROVE (index[d] \subseteq Recorded)'
    BY DEF IndexCurrent
  <2>1. d # c /\ InProgress(d) /\ InProgress(c)
    BY <1>1, <1>2 DEF Selecting, InProgress, Working
  <2> QED  BY <2>1 DEF OneAtATime
<1> QED  BY <1>3, <1>4, <1>5

LEMMA DecidedHolds == Spec => []Decided
<1>1. Init => Decided
  BY DEF Init, GcInit, Decided, ChosenByRule, OneAtATime, IndexCurrent,
     Selecting, InProgress, Working
<1>2. Safe /\ Decided /\ [Next]_vars => Decided'
  <2> SUFFICES ASSUME Safe, Decided, [Next]_vars PROVE Decided'  OBVIOUS
  <2>1. ASSUME NEW r \in Run, Begin(r) \/ RecorderStep(r) \/ Die(r), UNCHANGED gcVars
        PROVE  Decided'
    BY <2>1, BeginKeeps, StepKeeps, RecorderDecided
  <2>2. ASSUME NEW c \in Gc, StartGc(c) \/ GcStep(c) \/ Kill(c), UNCHANGED recorderVars
        PROVE  Decided'
    BY <2>2, QuietDecided, DeleteDecided DEF GcStep, QuietStep
  <2>3. CASE UNCHANGED vars
    BY <2>3 DEF vars, store, gcVars, Decided, ChosenByRule, OneAtATime,
       IndexCurrent, Selecting, InProgress, Recorded, InStore
  <2> QED  BY <2>1, <2>2, <2>3 DEF Next
<1> QED  BY <1>1, <1>2, SafeHolds, PTL DEF Spec
------------------------------------------------------------------------------
(* What an operator may rely on *)

\* Whoever changes the runs that are there: an insert adds one that was not
\* recorded, a DELETE takes some, nothing else does anything.
LEMMA OnlyInsertsAndDeletes ==
  ASSUME Safe, [Next]_vars
  PROVE  \/ \E r \in Run : row[r] = "none" /\ row' = [row EXCEPT ![r] = "running"]
         \/ \E c \in Gc : DeleteRows(c) /\ request' = request
         \/ /\ \A r \in Run : /\ InStore(r) = InStore(r)'
                             /\ (row[r] = "none") = (row'[r] = "none")
                             /\ (row[r] = "deleted") = (row'[r] = "deleted")
<1> USE DEF Safe, TypeOK, StoreTypeOK, store, InStore, Absent
<1>1. ASSUME NEW r \in Run, Begin(r) \/ RecorderStep(r) \/ Die(r)
      PROVE \/ row[r] = "none" /\ row' = [row EXCEPT ![r] = "running"]
            \/ row' = row
            \/ /\ InStore(r) /\ outcome[r] \in Terminal
               /\ row' = [row EXCEPT ![r] = outcome[r]]
  <2>1. CASE InsertRow(r)  BY <2>1 DEF InsertRow, InsertRun, Fresh
  <2>2. CASE Settle(r)
    BY <2>2 DEF Settle, SetStatus, HasOutcome, Step, Early
  <2>3. CASE ~(InsertRow(r) \/ Settle(r))
    BY <1>1, <2>3 DEF Begin, RecorderStep, Die, MakeTree, Execute, WriteRunJson,
       SkipPart, WritePart, FailPart, Export
  <2> QED  BY <2>1, <2>2, <2>3
<1>2. ASSUME NEW c \in Gc, StartGc(c) \/ GcStep(c) \/ Kill(c)
      PROVE row' = row \/ (DeleteRows(c) /\ request' = request)
  BY <1>2 DEF StartGc, GcStep, Kill, LoadIndex, Discover, Refuse, Select, DeleteRows,
     RemoveTree, TreesRemoved, Vacuum, ReadReport, WriteReport
<1>3. CASE UNCHANGED vars  BY <1>3 DEF vars
<1>4. ASSUME NEW r \in Run, InStore(r), outcome[r] \in Terminal,
             row' = [row EXCEPT ![r] = outcome[r]]
      PROVE \A s \in Run : /\ InStore(s) = InStore(s)'
                          /\ (row[s] = "none") = (row'[s] = "none")
                          /\ (row[s] = "deleted") = (row'[s] = "deleted")
  BY <1>4 DEF Terminal
<1> QED  BY <1>1, <1>2, <1>3, <1>4 DEF Next

\* With one collector at a time, recorders beside it, collections never leave
\* the store empty unless an operator allowed it.
THEOREM StoreIsNeverEmptied == Spec => [](~Overlap => NeverEmptied)
<1> DEFINE Kept == ~Overlap => NeverEmptied
<1>1. Init => Kept
  BY DEF Init, StoreInit, NeverEmptied
<1>2. Safe /\ Decided /\ Kept /\ [Next]_vars => Kept'
  <2> SUFFICES ASSUME Safe, Decided, ~Overlap, NeverEmptied, [Next]_vars
               PROVE  NeverEmptied'
    OBVIOUS
  <2>1. ASSUME NEW r \in Run, row' = [row EXCEPT ![r] = "running"]
        PROVE  NeverEmptied'
    BY <2>1 DEF NeverEmptied, Recorded, InStore, Absent, Safe, TypeOK, StoreTypeOK
  <2>2. ASSUME NEW c \in Gc, DeleteRows(c), request' = request
        PROVE  NeverEmptied'
    <3>1. Doomed(c) # Recorded \/ request[c].allow_empty  BY <2>2, DeleteTakes
    <3>2. Doomed(c) \subseteq Recorded  BY <2>2, DeleteTakes
    <3>3. CASE request[c].allow_empty  BY <2>2, <3>3 DEF NeverEmptied
    <3>4. CASE Doomed(c) # Recorded
      <4>1. PICK r \in Recorded : r \notin Doomed(c)  BY <3>2, <3>4
      <4>2. row'[r] = row[r]
        BY <2>2, <4>1 DEF DeleteRows, DeleteRuns, Recorded
      <4>3. r \in Recorded'  BY <4>1, <4>2 DEF Recorded, InStore
      <4> QED  BY <4>3 DEF NeverEmptied
    <3> QED  BY <3>1, <3>3, <3>4
  <2>3. ASSUME \A r \in Run : /\ InStore(r) = InStore(r)'
                              /\ (row[r] = "deleted") = (row'[r] = "deleted")
        PROVE  NeverEmptied'
    <3>1. request' = request
      BY DEF Next, vars, gcVars, recorderVars, StartGc, GcStep, Kill, LoadIndex,
         Discover, Refuse, Select, DeleteRows, RemoveTree, TreesRemoved, Vacuum,
         ReadReport, WriteReport
    <3> QED  BY <2>3, <3>1 DEF NeverEmptied, Recorded
  <2> QED  BY <2>1, <2>2, <2>3, OnlyInsertsAndDeletes
<1> QED  BY <1>1, <1>2, SafeHolds, DecidedHolds, PTL DEF Spec

\* A run of a group without a single timestamp goes only in a collection that
\* applies and names the group, however many collectors run.
THEOREM UnknownAgeIsNeverPurged == Spec => UnknownAgeIsKept
<1> DEFINE Step1 ==
      \A r \in Run :
        /\ InStore(r) /\ ~InStore(r)'
        /\ \A s \in Members(Run, GroupOf[r]) : Started[s] = 0
        => \E c \in Gc : /\ request[c].apply /\ request[c].kind = "run_group"
                         /\ GroupOf[r] \in request[c].names
<1>1. Safe /\ Decided /\ [Next]_vars => [Step1]_vars
  <2> SUFFICES ASSUME Safe, Decided, [Next]_vars, NEW r \in Run,
                      InStore(r), ~InStore(r)',
                      \A s \in Members(Run, GroupOf[r]) : Started[s] = 0
               PROVE  \E c \in Gc : /\ request[c].apply
                                    /\ request[c].kind = "run_group"
                                    /\ GroupOf[r] \in request[c].names
    OBVIOUS
  <2>1. PICK c \in Gc : DeleteRows(c)
    BY OnlyInsertsAndDeletes DEF InStore, Absent, Safe, TypeOK, StoreTypeOK
  <2>2. r \in Doomed(c)
    BY <2>1 DEF DeleteRows, DeleteRuns, InStore
  <2>3. r \in index[c] /\ GroupOf[r] \in chosen[c]  BY <2>2 DEF Doomed
  <2>4. request[c].apply /\ chosen[c] = Selected(request[c], index[c])
    BY <2>1 DEF Decided, ChosenByRule, DeleteRows
  <2>5. index[c] \subseteq Run /\ request[c] \in Options
    BY GcAssumption DEF Safe, TypeOK, GcTypeOK
  <2>6. GroupOf[r] \notin Rankable(index[c])
    <3>1. Members(index[c], GroupOf[r]) \subseteq Members(Run, GroupOf[r])
      BY <2>5 DEF Members
    <3>2. r \in Members(index[c], GroupOf[r])  BY <2>3 DEF Members
    <3>3. {Started[s] : s \in Members(index[c], GroupOf[r])} = {0}
      BY <3>1, <3>2
    <3>4. LastStarted(index[c], GroupOf[r])
            = CHOOSE t \in {0} : \A s \in Members(index[c], GroupOf[r]) :
                                   Started[s] <= t
      BY <3>3 DEF LastStarted
    <3>5. \A s \in Members(index[c], GroupOf[r]) : Started[s] <= 0
      BY <3>1
    <3>6. LastStarted(index[c], GroupOf[r]) = 0  BY <3>4, <3>5
    <3> QED  BY <3>6 DEF Rankable
  <2>7. request[c].kind = "run_group" /\ GroupOf[r] \in request[c].names
    BY <2>3, <2>4, <2>5, <2>6 DEF Selected, Options, Kind
  <2> QED  BY <2>4, <2>7
<1> QED  BY <1>1, SafeHolds, DecidedHolds, PTL DEF Spec, UnknownAgeIsKept

\* With one collector at a time, recorders and collectors together keep the
\* retention contract: recorded once, collected at most once, never all.
THEOREM ContractIsKept == ~Overlap => (Spec => ContractSpec)
<1> SUFFICES ASSUME ~Overlap PROVE Spec => ContractSpec  OBVIOUS
<1> USE DEF Contract!Init, Contract!Next, Contract!Living, Life
<1>1. Init => Contract!Init
  BY DEF Init, StoreInit
<1>2. Safe /\ Decided /\ [Next]_vars => [Contract!Next]_Life
  <2> SUFFICES ASSUME Safe, Decided, [Next]_vars PROVE [Contract!Next]_Life
    OBVIOUS
  <2>1. ASSUME NEW r \in Run, row[r] = "none", row' = [row EXCEPT ![r] = "running"]
        PROVE  Contract!Record(r)
    <3>1. Life[r] = "absent"  BY <2>1
    <3>2. Life' = [Life EXCEPT ![r] = "recorded"]
      BY <2>1 DEF Safe, TypeOK, StoreTypeOK
    <3> QED  BY <3>1, <3>2 DEF Contract!Record
  <2>2. ASSUME NEW c \in Gc, DeleteRows(c)
        PROVE  Contract!Collect(Doomed(c))
    <3>1. Contract!Living = Recorded
      BY DEF Recorded, InStore, Absent
    <3>2. Doomed(c) \subseteq Recorded /\ Doomed(c) # {}  BY <2>2, DeleteTakes
    <3>3. Doomed(c) # Recorded \/ \E q \in Request : q.allow_empty
      BY <2>2, DeleteTakes DEF Safe, TypeOK, GcTypeOK
    <3>4. Life' = [r \in Run |-> IF r \in Doomed(c) THEN "collected" ELSE Life[r]]
      BY <2>2, <3>2 DEF DeleteRows, DeleteRuns, Recorded
    <3> QED  BY <3>1, <3>2, <3>3, <3>4 DEF Contract!Collect
  <2>3. ASSUME \A r \in Run : /\ (row[r] = "none") = (row'[r] = "none")
                              /\ (row[r] = "deleted") = (row'[r] = "deleted")
        PROVE  Life' = Life
    BY <2>3
  <2>4. CASE \E r \in Run : row[r] = "none" /\ row' = [row EXCEPT ![r] = "running"]
    <3>1. Contract!Next  BY <2>1, <2>4
    <3> QED  BY <3>1
  <2>5. CASE \E c \in Gc : DeleteRows(c) /\ request' = request
    <3>1. PICK c \in Gc : DeleteRows(c)  BY <2>5
    <3>2. Doomed(c) \in SUBSET Run  BY DoomedAreRuns DEF Safe
    <3>3. Contract!Collect(Doomed(c))  BY <2>2, <3>1
    <3>4. Contract!Next  BY <3>2, <3>3 DEF Contract!Collect
    <3> QED  BY <3>4
  <2>6. CASE \A r \in Run : /\ InStore(r) = InStore(r)'
                            /\ (row[r] = "none") = (row'[r] = "none")
                            /\ (row[r] = "deleted") = (row'[r] = "deleted")
    <3>1. Life' = Life  BY <2>3, <2>6
    <3> QED  BY <3>1
  <2> QED  BY <2>4, <2>5, <2>6, OnlyInsertsAndDeletes
<1> QED  BY <1>1, <1>2, SafeHolds, DecidedHolds, PTL
         DEF Spec, ContractSpec, Contract!Spec

------------------------------------------------------------------------------
(* A recording is whole *)

\* The child rows a script has passed when it comes to a step, and the steps
\* that come after the row was settled.
Passed ==
  LET bep == {"target", "reference"}
      evidence == {"change", "proof"}
  IN  [record |-> [tree |-> {}, insert |-> {}, execute |-> {}, target |-> {},
                   reference |-> {"target"}, run_json |-> bep, update |-> bep,
                   invocation |-> bep, failure |-> bep \cup {"invocation"},
                   artifact |-> bep \cup {"invocation", "failure"},
                   export |-> bep \cup {"invocation", "failure", "artifact"},
                   done |-> bep \cup {"invocation", "failure", "artifact"}],
       run |-> [tree |-> {}, insert |-> {}, execute |-> {}, run_json |-> {},
                change |-> {}, proof |-> {"change"}, update |-> evidence,
                invocation |-> evidence, artifact |-> evidence \cup {"invocation"},
                done |-> evidence \cup {"invocation", "artifact"}],
       generic |-> [tree |-> {}, insert |-> {}, execute |-> {}, change |-> {},
                    run_json |-> {"change"}, proof |-> {"change"},
                    failure |-> evidence, update |-> evidence \cup {"failure"},
                    invocation |-> evidence \cup {"failure"},
                    artifact |-> evidence \cup {"failure", "invocation"},
                    done |-> evidence \cup {"failure", "invocation", "artifact"}]]

After(m) == {"invocation", "artifact", "export", "done"}
            \cup (IF m = "record" THEN {"failure"} ELSE {})

\* As long as its run is there a recording has written all it has passed.
Whole ==
  \A r \in Run : at[r] \in Step \cup {"done"} /\ InStore(r) =>
    /\ kids[r] = {p \in Passed[mode[r]][at[r]] : Wanted(r, p)}
    /\ at[r] \in After(mode[r]) => row[r] = outcome[r]

LEMMA ScriptsPass ==
  \A m \in Mode : \A s \in DOMAIN Then[m] :
    /\ Passed[m][Then[m][s]] = Passed[m][s] \cup ({s} \cap Part)
    /\ Then[m][s] \in After(m) <=> s \in After(m) \cup {"update"}
<1> SUFFICES ASSUME NEW m \in Mode, NEW s \in DOMAIN Then[m]
             PROVE  /\ Passed[m][Then[m][s]] = Passed[m][s] \cup ({s} \cap Part)
                    /\ Then[m][s] \in After(m) <=> s \in After(m) \cup {"update"}
  OBVIOUS
<1>1. CASE m = "record"
  <2>1. Then[m] = Then.record /\ Passed[m] = Passed.record  BY <1>1 DEF Then, Passed
  <2>2. s \in {"tree", "insert", "execute", "target", "reference", "run_json",
               "update", "invocation", "failure", "artifact", "export"}
    BY <2>1 DEF Then
  <2>3. Passed[m][Then[m][s]] = Passed[m][s] \cup ({s} \cap Part)
    <3>1. CASE s \in Part
      <4>1. {s} \cap Part = {s}  BY <3>1
      <4>2. Passed[m][Then[m][s]] = Passed[m][s] \cup {s}
        BY <2>1, <2>2, <3>1 DEF Then, Passed, Part
      <4> QED  BY <4>1, <4>2
    <3>2. CASE s \notin Part
      <4>1. {s} \cap Part = {}  BY <3>2
      <4>2. \A p : p \in Passed[m][Then[m][s]] <=> p \in Passed[m][s]
        BY <2>1, <2>2, <3>2 DEF Then, Passed, Part
      <4> QED  BY <4>1, <4>2
    <3> QED  BY <3>1, <3>2
  <2>4. Then[m][s] \in After(m) <=> s \in After(m) \cup {"update"}
    BY <1>1, <2>1, <2>2 DEF Then, After
  <2> QED  BY <2>3, <2>4
<1>2. CASE m = "run"
  <2>1. Then[m] = Then.run /\ Passed[m] = Passed.run  BY <1>2 DEF Then, Passed
  <2>2. s \in {"tree", "insert", "execute", "run_json", "change", "proof",
               "update", "invocation", "artifact"}
    BY <2>1 DEF Then
  <2>3. Passed[m][Then[m][s]] = Passed[m][s] \cup ({s} \cap Part)
    <3>1. CASE s \in Part
      <4>1. {s} \cap Part = {s}  BY <3>1
      <4>2. Passed[m][Then[m][s]] = Passed[m][s] \cup {s}
        BY <2>1, <2>2, <3>1 DEF Then, Passed, Part
      <4> QED  BY <4>1, <4>2
    <3>2. CASE s \notin Part
      <4>1. {s} \cap Part = {}  BY <3>2
      <4>2. \A p : p \in Passed[m][Then[m][s]] <=> p \in Passed[m][s]
        BY <2>1, <2>2, <3>2 DEF Then, Passed, Part
      <4> QED  BY <4>1, <4>2
    <3> QED  BY <3>1, <3>2
  <2>4. Then[m][s] \in After(m) <=> s \in After(m) \cup {"update"}
    BY <1>2, <2>1, <2>2 DEF Then, After
  <2> QED  BY <2>3, <2>4
<1>3. CASE m = "generic"
  <2>1. Then[m] = Then.generic /\ Passed[m] = Passed.generic  BY <1>3 DEF Then, Passed
  <2>2. s \in {"tree", "insert", "execute", "change", "run_json", "proof",
               "failure", "update", "invocation", "artifact"}
    BY <2>1 DEF Then
  <2>3. Passed[m][Then[m][s]] = Passed[m][s] \cup ({s} \cap Part)
    <3>1. CASE s \in Part
      <4>1. {s} \cap Part = {s}  BY <3>1
      <4>2. Passed[m][Then[m][s]] = Passed[m][s] \cup {s}
        BY <2>1, <2>2, <3>1 DEF Then, Passed, Part
      <4> QED  BY <4>1, <4>2
    <3>2. CASE s \notin Part
      <4>1. {s} \cap Part = {}  BY <3>2
      <4>2. \A p : p \in Passed[m][Then[m][s]] <=> p \in Passed[m][s]
        BY <2>1, <2>2, <3>2 DEF Then, Passed, Part
      <4> QED  BY <4>1, <4>2
    <3> QED  BY <3>1, <3>2
  <2>4. Then[m][s] \in After(m) <=> s \in After(m) \cup {"update"}
    BY <1>3, <2>1, <2>2 DEF Then, After
  <2> QED  BY <2>3, <2>4
<1> QED  BY <1>1, <1>2, <1>3 DEF Mode

\* The first steps pass no child row, the last one all that the script has.
LEMMA PassedEnds ==
  ASSUME NEW m \in Mode
  PROVE  /\ Passed[m]["insert"] = {} /\ Passed[m]["execute"] = {}
         /\ Passed[m]["tree"] = {}
         /\ Passed[m]["done"] = {p \in Part : p \in DOMAIN Then[m]}
<1>1. CASE m = "record"
  <2>1. DOMAIN Then[m] = {"tree", "insert", "execute", "target", "reference", "run_json",
               "update", "invocation", "failure", "artifact", "export"}
    BY <1>1 DEF Then
  <2> QED  BY <1>1, <2>1 DEF Passed, Part
<1>2. CASE m = "run"
  <2>1. DOMAIN Then[m] = {"tree", "insert", "execute", "run_json", "change", "proof",
               "update", "invocation", "artifact"}
    BY <1>2 DEF Then
  <2> QED  BY <1>2, <2>1 DEF Passed, Part
<1>3. CASE m = "generic"
  <2>1. DOMAIN Then[m] = {"tree", "insert", "execute", "change", "run_json", "proof",
               "failure", "update", "invocation", "artifact"}
    BY <1>3 DEF Then
  <2> QED  BY <1>3, <2>1 DEF Passed, Part
<1> QED  BY <1>1, <1>2, <1>3 DEF Mode

\* A step of one recorder is none of another's.
LEMMA OthersStand ==
  ASSUME Safe, NEW r \in Run, Begin(r) \/ RecorderStep(r) \/ Die(r), NEW s \in Run, s # r
  PROVE  /\ at'[s] = at[s] /\ mode'[s] = mode[s] /\ wants'[s] = wants[s]
         /\ outcome'[s] = outcome[s] /\ row'[s] = row[s] /\ kids'[s] = kids[s]
<1> USE DEF Safe, TypeOK, StoreTypeOK, RecorderTypeOK, store
<1>1. at'[s] = at[s]
  BY DEF Begin, RecorderStep, Die, MakeTree, InsertRow, Execute, Settle, WriteRunJson,
     SkipPart, WritePart, FailPart, Export, Advance, Goto
<1>2. mode'[s] = mode[s] /\ wants'[s] = wants[s] /\ outcome'[s] = outcome[s]
  BY DEF Begin, RecorderStep, Die, MakeTree, InsertRow, Execute, Settle, WriteRunJson,
     SkipPart, WritePart, FailPart, Export
<1>3. row'[s] = row[s]
  BY DEF Begin, RecorderStep, Die, MakeTree, InsertRow, Execute, Settle, WriteRunJson,
     SkipPart, WritePart, FailPart, Export, InsertRun, SetStatus
<1>4. kids'[s] = kids[s]
  BY DEF Begin, RecorderStep, Die, MakeTree, InsertRow, Execute, Settle, WriteRunJson,
     SkipPart, WritePart, FailPart, Export, InsertChild
<1> QED  BY <1>1, <1>2, <1>3, <1>4

LEMMA RecorderWhole ==
  ASSUME Safe, Whole, NEW r \in Run, Begin(r) \/ RecorderStep(r) \/ Die(r)
  PROVE  Whole'
<1> USE DEF Safe, TypeOK, StoreTypeOK, RecorderTypeOK, store
<1>1. ASSUME NEW s \in Run, s # r, at'[s] \in Step \cup {"done"}, InStore(s)'
      PROVE  /\ kids'[s] = {p \in Passed[mode'[s]][at'[s]] : Wanted(s, p)'}
             /\ at'[s] \in After(mode'[s]) => row'[s] = outcome'[s]
  <2>1. /\ at'[s] = at[s] /\ mode'[s] = mode[s] /\ wants'[s] = wants[s]
        /\ outcome'[s] = outcome[s] /\ row'[s] = row[s] /\ kids'[s] = kids[s]
    BY <1>1, OthersStand
  <2>2. \A p : Wanted(s, p)' <=> Wanted(s, p)  BY <2>1 DEF Wanted
  <2>3. /\ kids[s] = {p \in Passed[mode[s]][at[s]] : Wanted(s, p)}
        /\ at[s] \in After(mode[s]) => row[s] = outcome[s]
    BY <1>1, <2>1 DEF Whole, InStore
  <2>4. {p \in Passed[mode[s]][at[s]] : Wanted(s, p)}
          = {p \in Passed[mode[s]][at[s]] : Wanted(s, p)'}
    BY <2>2
  <2> QED  BY <2>1, <2>3, <2>4
<1>2. ASSUME at'[r] \in Step \cup {"done"}, InStore(r)'
      PROVE  /\ kids'[r] = {p \in Passed[mode'[r]][at'[r]] : Wanted(r, p)'}
             /\ at'[r] \in After(mode'[r]) => row'[r] = outcome'[r]
  <2> DEFINE next == Then[mode[r]][at[r]]
  <2>0. mode[r] \in Mode /\ (Recording(r) => at[r] \in DOMAIN Then[mode[r]])
    BY DEF OnScript
  <2>1. CASE Begin(r)
    BY <1>2, <2>1 DEF Begin, Fresh, InStore, Absent
  <2>2. CASE Die(r) \/ FailPart(r)
    BY <1>2, <2>2 DEF Die, FailPart, Goto, Step, Part
  <2>3. ASSUME Advance(r), Recording(r), mode' = mode
        PROVE  /\ at'[r] = next
               /\ Passed[mode[r]][next] = Passed[mode[r]][at[r]] \cup ({at[r]} \cap Part)
               /\ next \in After(mode[r]) <=> at[r] \in After(mode[r]) \cup {"update"}
    BY <2>0, <2>3, ScriptsPass DEF Advance, Goto
  <2> HIDE DEF next
  <2>4. CASE MakeTree(r)
    BY <1>2, <2>4 DEF MakeTree, Fresh, InStore, Absent
  <2>5. CASE InsertRow(r)
    <3>1. kids[r] = {} /\ at[r] = "insert"
      BY <2>5 DEF InsertRow, Fresh, ChildrenHaveRuns, InStore, Absent
    <3>2. mode' = mode /\ kids' = kids /\ Advance(r) /\ Recording(r)
      BY <2>5 DEF InsertRow, Recording, Step
    <3>3. Passed[mode[r]][next] = {} /\ next \notin After(mode[r])
      BY <2>0, <2>3, <3>1, <3>2, PassedEnds DEF Part, After
    <3> QED  BY <2>3, <3>1, <3>2, <3>3
  <2>6. CASE Execute(r)
    <3>1. /\ at[r] = "execute" /\ mode' = mode /\ kids' = kids /\ Advance(r) /\ Recording(r)
          /\ row' = row
      BY <2>6 DEF Execute, Recording, Step
    <3>2. Passed[mode[r]][next] = {} /\ next \notin After(mode[r])
      BY <2>0, <2>3, <3>1, PassedEnds DEF Part, After
    <3>3. kids[r] = {}
      BY <1>2, <2>0, <3>1, PassedEnds DEF Whole, InStore, Step
    <3> QED  BY <2>3, <3>1, <3>2, <3>3
  <2>7. CASE Settle(r)
    <3>1. /\ at[r] = "update" /\ mode' = mode /\ kids' = kids /\ Advance(r) /\ Recording(r)
          /\ wants' = wants /\ outcome' = outcome
      BY <2>7 DEF Settle, Recording, Step
    <3>2. InStore(r)
      BY <1>2, <2>7 DEF Settle, SetStatus, InStore
    <3>3. row'[r] = outcome[r]
      BY <2>7, <3>2 DEF Settle, SetStatus
    <3>4. kids[r] = {p \in Passed[mode[r]][at[r]] : Wanted(r, p)}
      BY <3>1, <3>2 DEF Whole, Step
    <3>5. Passed[mode[r]][next] = Passed[mode[r]][at[r]]
      BY <2>3, <3>1 DEF Part
    <3>6. \A p : Wanted(r, p)' <=> Wanted(r, p)  BY <3>1 DEF Wanted
    <3> QED  BY <2>3, <3>1, <3>3, <3>4, <3>5, <3>6
  <2>8. ASSUME mode' = mode, wants' = wants, outcome' = outcome, row' = row, Advance(r),
               at[r] \in Step \ {"update"},
               \/ kids' = kids /\ ~(at[r] \in Part /\ Wanted(r, at[r]))
               \/ /\ kids' = [kids EXCEPT ![r] = @ \cup {at[r]}]
                  /\ at[r] \in Part /\ Wanted(r, at[r])
        PROVE  /\ kids'[r] = {p \in Passed[mode'[r]][at'[r]] : Wanted(r, p)'}
               /\ at'[r] \in After(mode'[r]) => row'[r] = outcome'[r]
    <3>1. /\ kids[r] = {p \in Passed[mode[r]][at[r]] : Wanted(r, p)}
          /\ at[r] \in After(mode[r]) => row[r] = outcome[r]
      BY <1>2, <2>8 DEF Whole, InStore
    <3>2. \A p : Wanted(r, p)' <=> Wanted(r, p)  BY <2>8 DEF Wanted
    <3>3. /\ at'[r] = next
          /\ Passed[mode[r]][next] = Passed[mode[r]][at[r]] \cup ({at[r]} \cap Part)
          /\ next \in After(mode[r]) <=> at[r] \in After(mode[r]) \cup {"update"}
      BY <2>3, <2>8 DEF Recording
    <3>4. kids'[r] = {p \in Passed[mode[r]][next] : Wanted(r, p)}
      <4>1. CASE kids' = kids /\ ~(at[r] \in Part /\ Wanted(r, at[r]))
        BY <3>1, <3>3, <4>1
      <4>2. CASE kids' = [kids EXCEPT ![r] = @ \cup {at[r]}] /\ at[r] \in Part /\ Wanted(r, at[r])
        <5>1. kids'[r] = kids[r] \cup {at[r]}  BY <4>2
        <5> QED  BY <3>1, <3>3, <4>2, <5>1
      <4> QED  BY <2>8, <4>1, <4>2
    <3> QED  BY <2>8, <3>1, <3>2, <3>3, <3>4
  <2>9. CASE WriteRunJson(r) \/ Export(r)
    <3>1. at[r] \notin Part /\ at[r] \in Step \ {"update"}
      BY <2>9 DEF WriteRunJson, Export, Part, Step
    <3> QED  BY <2>8, <2>9, <3>1 DEF WriteRunJson, Export
  <2>10. CASE SkipPart(r)
    <3>1. at[r] \in Step \ {"update"}  BY <2>10 DEF SkipPart, Part, Step
    <3> QED  BY <2>8, <2>10, <3>1 DEF SkipPart
  <2>11. CASE WritePart(r)
    <3>1. at[r] \in Step \ {"update"}  BY <2>11 DEF WritePart, Part, Step
    <3> QED  BY <2>8, <2>11, <3>1 DEF WritePart, InsertChild
  <2> QED
    BY <2>1, <2>2, <2>4, <2>5, <2>6, <2>7, <2>9, <2>10, <2>11 DEF RecorderStep
<1> QED  BY <1>1, <1>2 DEF Whole

LEMMA CollectorWhole ==
  ASSUME Safe, Whole, NEW c \in Gc, StartGc(c) \/ GcStep(c) \/ Kill(c), UNCHANGED recorderVars
  PROVE  Whole'
<1> USE DEF Safe, TypeOK, StoreTypeOK, store, recorderVars
<1>1. \A s \in Run : InStore(s)' => InStore(s) /\ row'[s] = row[s] /\ kids'[s] = kids[s]
  <2>1. CASE DeleteRows(c)
    BY <2>1 DEF DeleteRows, DeleteRuns, Cascade, Recorded, InStore, Absent
  <2>2. CASE ~DeleteRows(c)
    <3>1. row' = row /\ kids' = kids
      BY <2>2 DEF GcStep, StartGc, LoadIndex, Discover, Refuse, Select, RemoveTree,
         TreesRemoved, Vacuum, ReadReport, WriteReport, Kill
    <3> QED  BY <3>1 DEF InStore
  <2> QED  BY <2>1, <2>2
<1>2. \A s \in Run : \A p : Wanted(s, p)' <=> Wanted(s, p)  BY DEF Wanted
<1>3. ASSUME NEW s \in Run, at'[s] \in Step \cup {"done"}, InStore(s)'
      PROVE  /\ kids'[s] = {p \in Passed[mode'[s]][at'[s]] : Wanted(s, p)'}
             /\ at'[s] \in After(mode'[s]) => row'[s] = outcome'[s]
  <2>1. /\ kids[s] = {p \in Passed[mode[s]][at[s]] : Wanted(s, p)}
        /\ at[s] \in After(mode[s]) => row[s] = outcome[s]
    BY <1>1, <1>3 DEF Whole
  <2> QED  BY <1>1, <1>2, <1>3, <2>1
<1> QED  BY <1>3 DEF Whole

\* A recording that reported its end and is still there is complete, for any number of
\* recorders and of collectors that overlap.
THEOREM RecordingsAreWhole == Spec => []RecordedWhole
<1>1. Init => Whole
  BY DEF Init, RecorderInit, Whole, Step, Part
<1>2. Safe /\ Whole /\ [Next]_vars => Whole'
  <2> SUFFICES ASSUME Safe, Whole, [Next]_vars PROVE Whole'  OBVIOUS
  <2>1. CASE UNCHANGED vars
    BY <2>1 DEF vars, store, recorderVars, Whole, Wanted, InStore
  <2> QED  BY <2>1, RecorderWhole, CollectorWhole DEF Next
<1>3. Safe /\ Whole => RecordedWhole
  <2> SUFFICES ASSUME Safe, Whole, NEW r \in Run, at[r] = "done", InStore(r)
               PROVE  row[r] = outcome[r] /\ kids[r] = Expected(r)
    BY DEF RecordedWhole
  <2>1. mode[r] \in Mode  BY DEF Safe, TypeOK, RecorderTypeOK
  <2>2. kids[r] = {p \in Passed[mode[r]]["done"] : Wanted(r, p)} /\ row[r] = outcome[r]
    BY DEF Whole, After
  <2>3. Passed[mode[r]]["done"] = {p \in Part : p \in DOMAIN Then[mode[r]]}
    BY <2>1, PassedEnds
  <2> QED  BY <2>2, <2>3 DEF Expected
<1> QED  BY <1>1, <1>2, <1>3, SafeHolds, PTL DEF Spec
------------------------------------------------------------------------------
(* A collection is accounted for *)

\* What the rows of a collection are once it deleted, and what its event rests on.
Cleared(c) == phase[c] \in {"trees", "vacuum", "read_report", "write_report"}
Applied(c) == phase[c] = "done" /\ request[c].apply /\ chosen[c] # {}

Accounted ==
  ~Overlap => \A c \in Gc :
    /\ Cleared(c) \/ Applied(c) => \A r \in Doomed(c) : row[r] = "deleted"
    /\ phase[c] = "write_report" => document[c] = report
    /\ Applied(c) => EventOf(c) \in report

\* A run that was collected never returns, whoever acts.
LEMMA DeletedStays ==
  ASSUME Safe, [Next]_vars, NEW r \in Run, row[r] = "deleted"
  PROVE  row'[r] = "deleted"
<1>1. ASSUME NEW c \in Gc, DeleteRows(c)  PROVE row'[r] = "deleted"
  BY <1>1 DEF DeleteRows, DeleteRuns, Recorded, InStore, Absent
<1>2. ASSUME NEW s \in Run, row[s] = "none", row' = [row EXCEPT ![s] = "running"]
      PROVE  row'[r] = "deleted"
  BY <1>2 DEF Safe, TypeOK, StoreTypeOK
<1> QED  BY <1>1, <1>2, OnlyInsertsAndDeletes

\* A step of one collector leaves what another one knows as it is.
LEMMA OthersAccounted ==
  ASSUME Safe, NEW c \in Gc, StartGc(c) \/ GcStep(c) \/ Kill(c), NEW d \in Gc, d # c
  PROVE  /\ phase'[d] = phase[d] /\ request'[d] = request[d]
         /\ Doomed(d)' = Doomed(d) /\ EventOf(d)' = EventOf(d)
         /\ document'[d] = document[d] /\ chosen'[d] = chosen[d]
<1> USE DEF Safe, TypeOK, GcTypeOK, StartGc, GcStep, Kill, LoadIndex, Discover, Refuse,
            Select, DeleteRows, RemoveTree, TreesRemoved, Vacuum, ReadReport, WriteReport,
            Enter, store
<1>1. phase'[d] = phase[d] /\ request'[d] = request[d]  OBVIOUS
<1>2. index'[d] = index[d] /\ chosen'[d] = chosen[d]  OBVIOUS
<1>3. document'[d] = document[d]  OBVIOUS
<1>4. Doomed(d)' = Doomed(d)  BY <1>2 DEF Doomed
<1>5. EventOf(d)' = EventOf(d)  BY <1>2, <1>4 DEF EventOf
<1> QED  BY <1>1, <1>2, <1>3, <1>4, <1>5

\* What the collector's own step does to its account.
LEMMA OwnAccount ==
  ASSUME Safe, Decided, Accounted, ~Overlap, [Next]_vars,
         NEW c \in Gc, StartGc(c) \/ GcStep(c) \/ Kill(c)
  PROVE  /\ (Cleared(c) \/ Applied(c))' => \A r \in Doomed(c)' : row'[r] = "deleted"
         /\ phase'[c] = "write_report" => document'[c] = report'
         /\ Applied(c)' => (EventOf(c) \in report)'
         /\ report \subseteq report'
         /\ report' # report => InProgress(c)
<1> USE DEF Safe, TypeOK, GcTypeOK, store
<1>1. CASE DeleteRows(c)
  <2>1. /\ phase[c] = "delete" /\ phase'[c] = "trees" /\ report' = report
        /\ index' = index /\ chosen' = chosen
    BY <1>1 DEF DeleteRows, Enter
  <2>2. Doomed(c)' = Doomed(c)  BY <2>1 DEF Doomed
  <2>3. \A r \in Doomed(c) : row'[r] = "deleted"
    BY <1>1, DeleteTakes DEF DeleteRows, DeleteRuns, Recorded
  <2> QED  BY <2>1, <2>2, <2>3 DEF Applied
<1>2. CASE WriteReport(c)
  <2>1. /\ phase[c] = "write_report" /\ phase'[c] = "done"
        /\ report' = report \cup {EventOf(c)}
        /\ index' = index /\ chosen' = chosen
    BY <1>2 DEF WriteReport, Enter, Accounted
  <2>2. Doomed(c)' = Doomed(c) /\ EventOf(c)' = EventOf(c)  BY <2>1 DEF Doomed, EventOf
  <2>3. \A r \in Doomed(c) : row[r] = "deleted"  BY <2>1 DEF Accounted, Cleared
  <2>4. \A r \in Doomed(c) : row'[r] = "deleted"  BY <2>3, DeletedStays DEF Doomed
  <2> QED  BY <2>1, <2>2, <2>4 DEF InProgress, Working
<1>3. CASE ReadReport(c)
  <2>1. /\ phase[c] = "read_report" /\ phase'[c] = "write_report"
        /\ document'[c] = report /\ report' = report
        /\ index' = index /\ chosen' = chosen
    BY <1>3 DEF ReadReport, Enter, Known
  <2>2. Doomed(c)' = Doomed(c)  BY <2>1 DEF Doomed
  <2>3. \A r \in Doomed(c) : row[r] = "deleted"  BY <2>1 DEF Accounted, Cleared
  <2>4. \A r \in Doomed(c) : row'[r] = "deleted"  BY <2>3, DeletedStays DEF Doomed
  <2> QED  BY <2>1, <2>2, <2>4 DEF Applied
<1>4. CASE Select(c)
  <2>1. report' = report /\ ~Cleared(c)' /\ ~Applied(c)' /\ phase'[c] # "write_report"
    BY <1>4 DEF Select, Enter, Cleared, Applied
  <2> QED  BY <2>1
<1>5. CASE RemoveTree(c) \/ TreesRemoved(c) \/ Vacuum(c)
  <2>1. /\ Cleared(c) /\ phase'[c] \in {"trees", "vacuum", "read_report", "error"}
        /\ report' = report /\ index' = index /\ chosen' = chosen
    BY <1>5 DEF RemoveTree, TreesRemoved, Vacuum, Enter, Cleared
  <2>2. Doomed(c)' = Doomed(c)  BY <2>1 DEF Doomed
  <2>3. \A r \in Doomed(c) : row[r] = "deleted"  BY <2>1 DEF Accounted
  <2>4. \A r \in Doomed(c) : row'[r] = "deleted"  BY <2>3, DeletedStays DEF Doomed
  <2> QED  BY <2>1, <2>2, <2>4 DEF Applied
<1>6. CASE StartGc(c) \/ LoadIndex(c) \/ Discover(c) \/ Refuse(c) \/ Kill(c)
  <2>1. report' = report /\ phase'[c] \in {"index", "discover", "select", "refused", "killed"}
    BY <1>6 DEF StartGc, LoadIndex, Discover, Refuse, Kill, Enter
  <2> QED  BY <2>1 DEF Cleared, Applied
<1> QED  BY <1>1, <1>2, <1>3, <1>4, <1>5, <1>6 DEF GcStep

\* Collections that do not overlap are accounted for: the rows are gone, the event is in
\* the report, and later collections keep it there.
THEOREM CollectionsAreReported == Spec => [](~Overlap => AppliedIsReported)
<1>1. Init => Accounted
  BY DEF Init, GcInit, Accounted, Cleared, Applied
<1>2. Safe /\ Decided /\ Accounted /\ [Next]_vars => Accounted'
  <2> SUFFICES ASSUME Safe, Decided, Accounted, ~Overlap, [Next]_vars, NEW d \in Gc
               PROVE  /\ (Cleared(d) \/ Applied(d))'
                           => \A r \in Doomed(d)' : row'[r] = "deleted"
                      /\ phase'[d] = "write_report" => document'[d] = report'
                      /\ Applied(d)' => (EventOf(d) \in report)'
    BY DEF Accounted
  <2>0. \A r \in Run : row[r] = "deleted" => row'[r] = "deleted"  BY DeletedStays
  <2>1. CASE UNCHANGED gcVars /\ report' = report
    <3>1. /\ Cleared(d)' = Cleared(d) /\ Applied(d)' = Applied(d)
          /\ Doomed(d)' = Doomed(d) /\ EventOf(d)' = EventOf(d)
      BY <2>1 DEF gcVars, Cleared, Applied, Doomed, EventOf
    <3>2. Doomed(d) \subseteq Run  BY DEF Doomed, Safe, TypeOK, GcTypeOK
    <3> QED  BY <2>0, <2>1, <3>1, <3>2 DEF Accounted, gcVars
  <2>2. ASSUME NEW c \in Gc, StartGc(c) \/ GcStep(c) \/ Kill(c)
        PROVE  /\ (Cleared(d) \/ Applied(d))'
                    => \A r \in Doomed(d)' : row'[r] = "deleted"
               /\ phase'[d] = "write_report" => document'[d] = report'
               /\ Applied(d)' => (EventOf(d) \in report)'
    <3>1. CASE d = c  BY <2>2, <3>1, OwnAccount
    <3>2. CASE d # c
      <4>1. /\ phase'[d] = phase[d] /\ Doomed(d)' = Doomed(d) /\ EventOf(d)' = EventOf(d)
            /\ document'[d] = document[d]
            /\ Cleared(d)' = Cleared(d) /\ Applied(d)' = Applied(d)
        BY <2>2, <3>2, OthersAccounted DEF Cleared, Applied
      <4>2. report \subseteq report' /\ (report' # report => InProgress(c))
        BY <2>2, OwnAccount
      <4>3. phase[d] = "write_report" => ~InProgress(c)
        BY <3>2 DEF Decided, OneAtATime, InProgress, Working
      <4>4. Doomed(d) \subseteq Run  BY DEF Doomed, Safe, TypeOK, GcTypeOK
      <4> QED  BY <2>0, <4>1, <4>2, <4>3, <4>4 DEF Accounted
    <3> QED  BY <3>1, <3>2
  <2>3. ASSUME NEW r \in Run, Begin(r) \/ RecorderStep(r) \/ Die(r)
        PROVE  report' = report
    BY <2>3 DEF store, Begin, RecorderStep, Die, MakeTree, InsertRow, Execute, Settle,
       WriteRunJson, SkipPart, WritePart, FailPart, Export
  <2>4. CASE UNCHANGED vars  BY <2>1, <2>4 DEF vars, store
  <2> QED  BY <2>1, <2>2, <2>3, <2>4 DEF Next
<1>3. Accounted => (~Overlap => AppliedIsReported)
  BY DEF Accounted, AppliedIsReported, Applied, Recorded, InStore, Absent
<1> QED  BY <1>1, <1>2, <1>3, SafeHolds, DecidedHolds, PTL DEF Spec

------------------------------------------------------------------------------
(* The newest groups *)

LEMMA LeastNatural ==
  ASSUME NEW S \in SUBSET Nat, S # {}
  PROVE  \E m \in S : \A n \in S : m <= n
<1> DEFINE R == OpToRel(<, Nat)
<1>1. IsWellFoundedOn(R, Nat)  BY NatLessThanWellFounded
<1>2. \A x, y \in Nat : y < x => <<y, x>> \in R  BY DEF OpToRel
<1> HIDE DEF R
<1>3. \E x \in S : \A y \in S : ~(<<y, x>> \in R)  BY <1>1, WFMin
<1>4. PICK x \in S : \A y \in S : ~(<<y, x>> \in R)  BY <1>3
<1>5. ASSUME NEW n \in S  PROVE x <= n
  <2>1. ~(n < x)  BY <1>2, <1>4
  <2>2. x \in Nat /\ n \in Nat  OBVIOUS
  <2> QED  BY <2>1, <2>2
<1> QED  BY <1>4, <1>5

LEMMA GroupsAreFinite == IsFiniteSet(Group)
<1> DEFINE f == [r \in Run |-> GroupOf[r]]
<1>1. f \in Surjection(Run, Group)  BY DEF Group, Surjection
<1> QED  BY <1>1, FS_Surjection, EvidenceAssumption

\* The newest timestamp of a group is one of its runs'.
LEMMA LastStartedIs ==
  ASSUME NEW ids \in SUBSET Run, NEW g \in GroupsOf(ids)
  PROVE  /\ \E s \in Members(ids, g) : LastStarted(ids, g) = Started[s]
         /\ \A s \in Members(ids, g) : Started[s] <= LastStarted(ids, g)
         /\ LastStarted(ids, g) \in Nat
<1> DEFINE M == Members(ids, g)
           Above(s) == {u \in M : Started[u] > Started[s]}
           Counts == {Cardinality(Above(s)) : s \in M}
<1>1. IsFiniteSet(M) /\ M \subseteq Run /\ M # {}
  <2>1. M \in SUBSET Run /\ M # {}  BY DEF Members, GroupsOf
  <2> QED  BY <2>1, FS_Subset, EvidenceAssumption
<1>2. \A s \in M : Started[s] \in Nat  BY <1>1, EvidenceAssumption
<1> HIDE DEF M
<1>3. \A s \in M : IsFiniteSet(Above(s)) /\ Cardinality(Above(s)) \in Nat
  <2>1. \A s \in M : Above(s) \in SUBSET M  OBVIOUS
  <2> HIDE DEF Above
  <2> QED  BY <1>1, <2>1, FS_Subset, FS_CardinalityType
<1>4. Counts \in SUBSET Nat /\ Counts # {}  BY <1>1, <1>3
<1>5. PICK m \in Counts : \A n \in Counts : m <= n  BY <1>4, LeastNatural
<1>6. PICK s \in M : m = Cardinality(Above(s))  BY <1>5
<1>7. ASSUME NEW r \in M  PROVE Started[r] <= Started[s]
  <2> SUFFICES ASSUME Started[r] > Started[s] PROVE FALSE  BY <1>2
  <2>1. Above(r) \in SUBSET Above(s) /\ r \in Above(s) /\ r \notin Above(r)
    BY <1>2
  <2>2. Cardinality(Above(s)) <= Cardinality(Above(r))  BY <1>5, <1>6
  <2> HIDE DEF Above
  <2>3. /\ Cardinality(Above(r)) <= Cardinality(Above(s))
        /\ Cardinality(Above(s)) = Cardinality(Above(r)) => Above(s) = Above(r)
    BY <1>3, <2>1, FS_Subset
  <2>4. Cardinality(Above(s)) = Cardinality(Above(r))  BY <1>3, <2>2, <2>3
  <2> QED  BY <2>1, <2>3, <2>4
<1> DEFINE Times == {Started[r] : r \in M}
           Latest(t) == \A r \in M : Started[r] <= t
<1>8. Started[s] \in Times /\ Latest(Started[s])  BY <1>7
<1>9. LastStarted(ids, g) = CHOOSE t \in Times : Latest(t)
  BY DEF LastStarted, M
<1>10. LastStarted(ids, g) \in Times /\ Latest(LastStarted(ids, g))
  <2> HIDE DEF Times, Latest
  <2> QED  BY <1>8, <1>9
<1> QED  BY <1>2, <1>10 DEF M

\* Groups of known age are ranked strictly and totally.
Newer(ids, g) == {h \in Rankable(ids) : Before(ids, h, g)}
LEMMA RankingIsTotal ==
  ASSUME NEW ids \in SUBSET Run
  PROVE  /\ Rankable(ids) \subseteq Group
         /\ \A g \in Rankable(ids) : ~Before(ids, g, g)
         /\ \A g, h \in Rankable(ids) : g = h \/ Before(ids, g, h) \/ Before(ids, h, g)
         /\ \A g, h, k \in Rankable(ids) :
              Before(ids, g, h) /\ Before(ids, h, k) => Before(ids, g, k)
<1>1. Rankable(ids) \subseteq GroupsOf(ids) /\ GroupsOf(ids) \subseteq Group
  BY DEF Rankable, GroupsOf, Group
<1>2. \A g \in Rankable(ids) : LastStarted(ids, g) \in Nat /\ Rank[g] \in Nat
  BY <1>1, LastStartedIs, GcAssumption
<1>3. \A g, h \in Rankable(ids) : Rank[g] = Rank[h] => g = h
  BY <1>1, GcAssumption
<1> QED  BY <1>1, <1>2, <1>3 DEF Before

\* If a group is not among the n newest, there are n that are newer.
LEMMA KeptAreEnough ==
  ASSUME NEW ids \in SUBSET Run, NEW n \in Nat, NEW g \in Rankable(ids),
         Cardinality(Newer(ids, g)) >= n
  PROVE  LET K == {h \in Rankable(ids) : ~(Cardinality(Newer(ids, h)) >= n)}
         IN  /\ n <= Cardinality(K)
             /\ \A h \in K : Before(ids, h, g)
<1> DEFINE S == Rankable(ids)
           C(h) == Cardinality(Newer(ids, h))
           K == {h \in S : ~(C(h) >= n)}
           Counts == {C(h) : h \in S \ K}
<1>1. IsFiniteSet(S)  BY GroupsAreFinite, RankingIsTotal, FS_Subset
<1>2. \A h \in S : IsFiniteSet(Newer(ids, h)) /\ C(h) \in Nat
  <2>1. \A h \in S : Newer(ids, h) \in SUBSET S  BY DEF Newer
  <2> QED  BY <1>1, <2>1, FS_Subset, FS_CardinalityType
<1>3. \A h, k \in S : Before(ids, h, k) => C(h) < C(k)
  <2> SUFFICES ASSUME NEW h \in S, NEW k \in S, Before(ids, h, k) PROVE C(h) < C(k)
    OBVIOUS
  <2>1. /\ Newer(ids, h) \in SUBSET Newer(ids, k)
        /\ h \in Newer(ids, k) /\ h \notin Newer(ids, h)
    BY RankingIsTotal DEF Newer
  <2>2. C(h) <= C(k) /\ (C(k) = C(h) => Newer(ids, k) = Newer(ids, h))
    BY <1>2, <2>1, FS_Subset
  <2> QED  BY <1>2, <2>1, <2>2
<1>4. PICK k \in S \ K : \A h \in S \ K : C(k) <= C(h)
  <2>1. g \in S \ K  OBVIOUS
  <2>2. Counts \in SUBSET Nat /\ Counts # {}  BY <1>2, <2>1
  <2>3. PICK m \in Counts : \A c \in Counts : m <= c  BY <2>2, LeastNatural
  <2> QED  BY <2>3
<1>5. Newer(ids, k) \in SUBSET K
  <2> SUFFICES ASSUME NEW h \in S, Before(ids, h, k), h \notin K PROVE FALSE
    BY DEF Newer
  <2>1. C(h) < C(k) /\ C(k) <= C(h)  BY <1>3, <1>4
  <2> QED  BY <1>2, <2>1
<1>6. IsFiniteSet(K) /\ Cardinality(K) \in Nat
  BY <1>1, FS_Subset, FS_CardinalityType
<1>7. C(k) <= Cardinality(K)  BY <1>5, <1>6, FS_Subset
<1>8. n <= C(k)  BY <1>2, <1>4
<1>9. n <= Cardinality(K)  BY <1>2, <1>6, <1>7, <1>8
<1>10. ASSUME NEW h \in K  PROVE Before(ids, h, g)
  <2>1. ~(C(h) >= n) /\ h \in S  OBVIOUS
  <2>2. ~(C(g) <= C(h))  BY <1>2, <2>1
  <2>3. h # g  BY <2>1
  <2>4. ~Before(ids, g, h)  BY <1>2, <1>3, <2>1, <2>2
  <2> QED  BY <2>1, <2>3, <2>4, RankingIsTotal
<1> QED  BY <1>9, <1>10

\* With one collector at a time, a --keep-last N leaves N groups that are no older
\* than what it takes.
THEOREM TheNewestAreKept == ~Overlap => (Spec => NewestAreKept)
<1> SUFFICES ASSUME ~Overlap PROVE Spec => NewestAreKept  OBVIOUS
<1> DEFINE Step1 ==
      \A c \in Gc, r \in Run :
        /\ phase[c] = "delete" /\ phase'[c] = "trees"
        /\ request[c].kind = "keep_last"
        /\ InStore(r) /\ ~InStore(r)'
        => request[c].bound <=
             Cardinality({g \in Group :
               \E s \in Members(Run, g) : /\ InStore(s)'
                                          /\ Started[s] >= Started[r]})
<1>1. Safe /\ Decided /\ [Next]_vars => [Step1]_vars
  <2> DEFINE Stays(r) ==
        {g \in Group : \E s \in Members(Run, g) : InStore(s)' /\ Started[s] >= Started[r]}
  <2> SUFFICES ASSUME Safe, Decided, [Next]_vars, NEW c \in Gc, NEW r \in Run,
                      phase[c] = "delete", phase'[c] = "trees",
                      request[c].kind = "keep_last", InStore(r), ~InStore(r)'
               PROVE  request[c].bound <= Cardinality(Stays(r))
    OBVIOUS
  <2> DEFINE ids == index[c]
             n == request[c].bound
             K == {h \in Rankable(ids) : ~(Cardinality(Newer(ids, h)) >= n)}
  <2>1. DeleteRows(c)
    <3>1. PICK d \in Gc : DeleteRows(d)
      BY OnlyInsertsAndDeletes DEF InStore, Absent, Safe, TypeOK, StoreTypeOK
    <3>2. phase' = [phase EXCEPT ![d] = "trees"]  BY <3>1 DEF DeleteRows, Enter
    <3>3. c = d  BY <3>2 DEF Safe, TypeOK, GcTypeOK
    <3> QED  BY <3>1, <3>3
  <2>2. ids \in SUBSET Run /\ ids \subseteq Recorded /\ n \in Nat
    BY GcAssumption DEF Safe, TypeOK, GcTypeOK, Decided, IndexCurrent, Selecting, Options
  <2>3. r \in Doomed(c)  BY <2>1 DEF DeleteRows, DeleteRuns, InStore
  <2>4. r \in ids /\ GroupOf[r] \in chosen[c]  BY <2>3 DEF Doomed
  <2>5. chosen[c] = {g \in Rankable(ids) : Cardinality(Newer(ids, g)) >= n}
    <3>1. chosen[c] = Selected(request[c], ids)  BY DEF Decided, ChosenByRule
    <3> QED  BY <3>1 DEF Selected, Newer
  <2> HIDE DEF ids, n
  <2>6. GroupOf[r] \in Rankable(ids) /\ Cardinality(Newer(ids, GroupOf[r])) >= n
    BY <2>4, <2>5
  <2>7. n <= Cardinality(K) /\ \A h \in K : Before(ids, h, GroupOf[r])
    BY <2>2, <2>6, KeptAreEnough
  <2>8. ASSUME NEW h \in K  PROVE h \in Stays(r)
    <3>1. h \in Rankable(ids) /\ h \notin chosen[c]  BY <2>5
    <3>2. h \in GroupsOf(ids) /\ GroupOf[r] \in GroupsOf(ids)  BY <2>6, <3>1 DEF Rankable
    <3>3. PICK s \in Members(ids, h) : LastStarted(ids, h) = Started[s]
      BY <2>2, <3>2, LastStartedIs
    <3>4. LastStarted(ids, h) >= LastStarted(ids, GroupOf[r])
      BY <2>2, <2>7, <3>2, LastStartedIs DEF Before
    <3>5. Started[r] <= LastStarted(ids, GroupOf[r])
      BY <2>2, <2>4, <3>2, LastStartedIs DEF Members
    <3>6. Started[r] \in Nat /\ LastStarted(ids, h) \in Nat
          /\ LastStarted(ids, GroupOf[r]) \in Nat
      BY <2>2, <3>2, LastStartedIs, EvidenceAssumption
    <3>7. Started[s] >= Started[r]  BY <3>3, <3>4, <3>5, <3>6
    <3>8. s \in ids /\ s \in Run /\ GroupOf[s] = h  BY <2>2 DEF Members
    <3>9. s \in Recorded /\ s \notin Doomed(c)  BY <2>2, <3>1, <3>8 DEF Doomed
    <3>10. row'[s] = row[s]  BY <2>1, <3>8, <3>9 DEF DeleteRows, DeleteRuns
    <3>11. InStore(s)'  BY <3>9, <3>10 DEF Recorded, InStore
    <3>12. h \in Group  BY <3>8 DEF Group
    <3>13. s \in Members(Run, h)  BY <3>8 DEF Members
    <3> QED  BY <3>7, <3>11, <3>12, <3>13
  <2>9. K \in SUBSET Stays(r) /\ IsFiniteSet(Stays(r))
    <3>1. Stays(r) \in SUBSET Group  OBVIOUS
    <3>2. IsFiniteSet(Stays(r))  BY <3>1, GroupsAreFinite, FS_Subset
    <3> QED  BY <2>8, <3>2
  <2> HIDE DEF K, Stays
  <2>10. /\ Cardinality(K) <= Cardinality(Stays(r)) /\ Cardinality(K) \in Nat
         /\ Cardinality(Stays(r)) \in Nat
    BY <2>9, FS_Subset, FS_CardinalityType
  <2>11. n <= Cardinality(Stays(r))  BY <2>2, <2>7, <2>10
  <2> QED  BY <2>11 DEF n
<1> QED  BY <1>1, SafeHolds, DecidedHolds, PTL DEF Spec, NewestAreKept
==============================================================================
