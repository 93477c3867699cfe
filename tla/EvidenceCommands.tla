--------------------------- MODULE EvidenceCommands ---------------------------
(***************************************************************************)
(* The commands that add evidence to a run someone already recorded or     *)
(* ingested: `nlfr ingest`, `nlfr evaluate --record`, `nlfr receipt        *)
(* import`, and `nlfr simulate --skip-run`, which makes its run and keeps  *)
(* its files beside the database; and a `nlfr db gc` of the run's group.   *)
(* One database, one run key, one simulated scenario.  Each command is a   *)
(* process of its own, every row it writes is a transaction of its own,    *)
(* and it may be killed between any two and started again.                 *)
(*                                                                         *)
(* A row's id and key are hashes of the run key: a run that is collected   *)
(* and ingested again is the same run to whoever still holds its id.       *)
(***************************************************************************)
EXTENDS Integers

CONSTANTS Ingest,     \* ingest commands, all of the one run key
          Evaluate,   \* evaluate --record commands
          Import,     \* receipt import commands, all of the one receipt
          Simulate,   \* simulate commands of the one scenario and output directory
          Given,      \* which commands may be given together
          Group,
          GroupOf,    \* GroupOf[c]: the run group the command is given
          Probing,    \* ingests with --cas-endpoint
          Failing,    \* ingests whose evidence holds a failure event
          Blocks,     \* Blocks[c]: the proof blocks an ingest has further files for
          Nothing,
          MaxTries,   \* bound: MaxTries[c] is how often c is started
          MaxLives    \* bound: how often the run row is inserted

Command == Ingest \cup Evaluate \cup Import \cup Simulate

ASSUME CommandsAssumption ==
  /\ GroupOf \in [Command -> Group]
  /\ Probing \subseteq Ingest /\ Failing \subseteq Ingest
  /\ Blocks \in [Ingest -> SUBSET {"worker-readiness", "worker-admin", "build-tool"}]
  /\ Ingest \cap Evaluate = {} /\ Ingest \cap Import = {} /\ Evaluate \cap Import = {}
  /\ Simulate \cap (Ingest \cup Evaluate \cup Import) = {}
  /\ Given \subseteq SUBSET Command
  /\ MaxTries \in [Command -> Nat] /\ MaxLives \in Nat \ {0}

VARIABLES run,    \* the runs row of the key: its group and which insert made it
          lives,  \* inserts of the runs row so far
          rows,   \* child rows of the run by kind: who wrote it and what it says
          workspace, \* the scenario's copy of the template: who copied it, patched or not
          root,   \* agent-provenance.json of the scenario: who wrote it, and whether whole
          stable, \* provenance/<scenario>.json, the copy of it a reader is pointed to
          given,  \* the commands of this behaviour
          step,   \* where each command is
          tries,
          view,   \* what the command has read and will write
          since,  \* history: lives when an ingest looked for the key
          joined, \* history: the life of the run it works on
          alone   \* history: nobody else wrote since an evaluation began

files == <<workspace, root, stable, given>>
vars == <<run, lives, rows, workspace, root, stable, given, step, tries, view,
          since, joined, alone>>

\* The kinds of the child rows: a target, a failure and an artifact reference
\* stand for all the rows of a parsed bundle, the others are single rows.
BlockKind == {"worker-readiness", "worker-admin", "build-tool"}
Kind == {"target", "failure", "reference", "cas-probe"} \cup BlockKind \cup
        {"evaluation", "artifact", "agent_provenance",
         "change", "sim_artifact", "sim_provenance"}
SimulationOrder == <<"change", "sim_artifact", "sim_provenance">>
SimulationKind == {SimulationOrder[i] : i \in 1..3}

\* The labels a parse can leave its remote reference with: without an answer of
\* the store, and with one.
Presence == {"unverified_remote_reference", "remote_verified"}

\* The contents of the workspace; Nothing where there is none.
Workspace == [by : Simulate, try : Nat, patched : BOOLEAN]
Copy == {Nothing} \cup Workspace

\* What a command has read: an ingest the presence of its reference, an
\* evaluation the failures, once for its status and once for its list, a
\* simulation the affected files before and after the patch.
View == [presence : Presence, failed : BOOLEAN, listed : BOOLEAN,
         before : Copy, after : Copy]

Blank == [presence |-> "unverified_remote_reference", failed |-> FALSE,
          listed |-> FALSE, before |-> Nothing, after |-> Nothing]

\* The runs row, a child row, and a provenance file.
RunRow == [group : Group, life : 1..MaxLives]
Row == [by : Command, try : Nat, since : 0..MaxLives,
        joined : 0..MaxLives, says : View]
Provenance == [by : Simulate, try : Nat, whole : BOOLEAN, says : View]

ASSUME NothingAssumption ==
  Nothing \notin Workspace \cup RunRow \cup Row \cup Provenance

\* A command at a kind is about to write the row of that kind.
Step == Kind \cup {"idle", "parsed", "free", "status", "failures", "newest",
                   "cleared", "copied", "hashed", "patched", "simulated",
                   "provenance", "writing", "written", "stable", "filling"}
Ended == {"done", "refused", "raised", "killed"}

Init ==
  /\ run = Nothing /\ lives = 0
  /\ rows = [k \in Kind |-> Nothing]
  /\ workspace = Nothing /\ root = Nothing /\ stable = Nothing
  /\ given \in Given
  /\ step = [c \in Command |-> "idle"]
  /\ tries = [c \in Command |-> 0]
  /\ view = [c \in Command |-> Blank]
  /\ since = [c \in Command |-> 0]
  /\ joined = [c \in Command |-> 0]
  /\ alone = [c \in Evaluate |-> FALSE]

------------------------------------------------------------------------------
(* The database *)

Stored(kind) == rows[kind] # Nothing

\* The rows change by a hand other than d's, for every d but c.
Disturb(c) == alone' = [d \in Evaluate |-> d = c /\ alone[d]]

Goto(c, s) == step' = [step EXCEPT ![c] = s]

\* INSERT OR IGNORE: a row with the same stable key stays as it is.
Kept(kind) == Stored(kind)

\* upsert_record of a child row: without its run the foreign key raises.
Write(c, kind, after) ==
  /\ step[c] = kind
  /\ IF run = Nothing THEN Goto(c, "raised") /\ UNCHANGED <<rows, alone>>
     ELSE IF Kept(kind) THEN Goto(c, after) /\ UNCHANGED <<rows, alone>>
     ELSE /\ rows' = [rows EXCEPT ![kind] =
                        [by |-> c, try |-> tries[c], since |-> since[c],
                         joined |-> joined[c], says |-> view[c]]]
          /\ Disturb(c)
          /\ Goto(c, after)
  /\ UNCHANGED <<run, lives, tries, view, since, joined, files>>

\* Any of them may be given again, whatever became of it before.
Start(c) ==
  /\ c \in given
  /\ step[c] \in {"idle"} \cup Ended /\ tries[c] < MaxTries[c]
  /\ tries' = [tries EXCEPT ![c] = @ + 1]

------------------------------------------------------------------------------
(* nlfr ingest *)

\* The files are parsed, and the store is probed, before the database is opened.
Parse(c) ==
  /\ Start(c)
  /\ \E p \in IF c \in Probing THEN Presence ELSE {"unverified_remote_reference"} :
       view' = [view EXCEPT ![c].presence = p]
  /\ Goto(c, "parsed")
  /\ UNCHANGED <<run, lives, rows, since, joined, alone, files>>

\* mutant: a key in use is only reported
Conflict_Tolerated(c) == FALSE

\* _run_group_conflict: the key belongs to another group.
Conflict(c) == run # Nothing /\ run.group # GroupOf[c]

CheckGroup(c) ==
  /\ step[c] = "parsed"
  /\ Goto(c, IF Conflict(c) THEN "refused" ELSE "free")
  /\ since' = [since EXCEPT ![c] = lives]
  /\ UNCHANGED <<run, lives, rows, tries, view, joined, alone, files>>

\* upsert_run: a second transaction, which finds the row of another as its own.
InsertRun(c) ==
  /\ step[c] = "free"
  /\ IF run = Nothing
       THEN /\ run' = [group |-> GroupOf[c], life |-> lives + 1]
            /\ lives' = lives + 1
            /\ Disturb(c)
       ELSE UNCHANGED <<run, lives, alone>>
  /\ joined' = [joined EXCEPT ![c] = run'.life]
  /\ Goto(c, "target")
  /\ UNCHANGED <<rows, tries, view, since, files>>

\* What an ingest has rows for.
Carried(c) == {"target", "reference"} \cup Blocks[c]
              \cup (IF c \in Failing THEN {"failure"} ELSE {})
              \cup (IF c \in Probing THEN {"cas-probe"} ELSE {})

\* The order of ingest_evidence_bundle and of the proof blocks after it.
IngestOrder == <<"target", "failure", "reference", "worker-readiness", "worker-admin",
                 "build-tool", "cas-probe", "done">>

\* mutant: a file that is there may be passed over
Follows_Skipping(c, i, j) == i < j /\ IngestOrder[j] \in Carried(c) \cup {"done"}

\* After the i-th comes the next one there is something for.
Follows(c, i, j) ==
  /\ i < j /\ IngestOrder[j] \in Carried(c) \cup {"done"}
  /\ \A n \in 1..7 : i < n /\ n < j => IngestOrder[n] \notin Carried(c)

StoreBundle(c) ==
  \E i \in 1..7, j \in 1..8 : Follows(c, i, j) /\ Write(c, IngestOrder[i], IngestOrder[j])

\* The files of these blocks are read only now, with the bundle stored already: one
\* that is no JSON object, or cannot be read, raises.
EvidenceFails(c) ==
  /\ step[c] \in BlockKind
  /\ Goto(c, "raised")
  /\ UNCHANGED <<run, lives, rows, tries, view, since, joined, alone, files>>

IngestStep(c) == CheckGroup(c) \/ InsertRun(c) \/ StoreBundle(c) \/ EvidenceFails(c)

------------------------------------------------------------------------------
(* nlfr evaluate --record and nlfr receipt import *)

OfGroup(c) == run # Nothing /\ run.group = GroupOf[c]

\* run_rows of the group: none, and the command says so and stops.
Look(c, found) ==
  /\ Start(c)
  /\ Goto(c, IF OfGroup(c) THEN found ELSE "refused")
  /\ joined' = [joined EXCEPT ![c] = IF OfGroup(c) THEN run.life ELSE 0]
  /\ alone' = [d \in Evaluate |-> d = c \/ alone[d]]
  /\ view' = [view EXCEPT ![c] = Blank]
  /\ UNCHANGED <<run, lives, rows, since, files>>

\* mutant: the status is that of the targets
Failed_ByTarget(c) == OfGroup(c) /\ Stored("target")

\* validation_status of the proof packet: the failures of the group's runs.
Failed(c) == OfGroup(c) /\ Stored("failure")

\* The packet is read first, then the failures once more: no transaction holds
\* the reads of a verdict together.
ReadStatus(c) ==
  /\ step[c] = "status"
  /\ view' = [view EXCEPT ![c].failed = Failed(c)]
  /\ Goto(c, "failures")
  /\ UNCHANGED <<run, lives, rows, tries, since, joined, alone, files>>

ReadFailures(c) ==
  /\ step[c] = "failures"
  /\ view' = [view EXCEPT ![c].listed = Stored("failure")]
  /\ Goto(c, "newest")
  /\ UNCHANGED <<run, lives, rows, tries, since, joined, alone, files>>

\* run_rows(..)[-1]: an IndexError if the group is gone by now.
PickRun(c) ==
  /\ step[c] = "newest"
  /\ Goto(c, IF OfGroup(c) THEN "evaluation" ELSE "raised")
  /\ UNCHANGED <<run, lives, rows, tries, view, since, joined, alone, files>>

EvaluateStep(c) ==
  ReadStatus(c) \/ ReadFailures(c) \/ PickRun(c)
    \/ Write(c, "evaluation", "done")

ImportOrder == <<"artifact", "agent_provenance">>

\* A receipt that is not valid writes nothing: refused before the database.
RefuseReceipt(c) ==
  /\ Start(c)
  /\ Goto(c, "refused")
  /\ UNCHANGED <<run, lives, rows, view, since, joined, alone, files>>

ImportStep(c) ==
  \/ Write(c, ImportOrder[1], ImportOrder[2])
  \/ Write(c, ImportOrder[2], "done")

------------------------------------------------------------------------------
(* nlfr simulate --skip-run *)

\* A scenario or template that is not there: refused.  Otherwise the workspace of an
\* earlier attempt is removed, whatever the rest of the scenario says.
ClearWorkspace(c) ==
  /\ Start(c)
  /\ \/ Goto(c, "refused") /\ UNCHANGED workspace
     \/ Goto(c, "cleared") /\ workspace' = Nothing
  /\ view' = [view EXCEPT ![c] = Blank]
  /\ UNCHANGED <<run, lives, rows, since, joined, alone, root, stable, given>>

\* copytree makes the directory and raises when another attempt has made it.
CopyWorkspace(c) ==
  /\ step[c] = "cleared"
  /\ IF workspace = Nothing
       THEN /\ workspace' = [by |-> c, try |-> tries[c], patched |-> FALSE]
            /\ Goto(c, "copied")
       ELSE Goto(c, "raised") /\ UNCHANGED workspace
  /\ UNCHANGED <<run, lives, rows, tries, view, since, joined, alone, root, stable, given>>

HashBefore(c) ==
  /\ step[c] = "copied"
  /\ view' = [view EXCEPT ![c].before = workspace]
  /\ Goto(c, "hashed")
  /\ UNCHANGED <<run, lives, rows, tries, since, joined, alone, files>>

\* A scenario without a patch, or with none of the format: found out only now.
RefusePatch(c) ==
  /\ step[c] = "hashed"
  /\ Goto(c, "refused")
  /\ UNCHANGED <<run, lives, rows, tries, view, since, joined, alone, files>>

\* git apply fails on files that hold the patch already, or are not there.
PatchApplies == workspace # Nothing /\ ~workspace.patched

ApplyPatch(c) ==
  /\ step[c] = "hashed"
  /\ IF PatchApplies
       THEN workspace' = [workspace EXCEPT !.patched = TRUE] /\ Goto(c, "patched")
       ELSE Goto(c, "refused") /\ UNCHANGED workspace
  /\ UNCHANGED <<run, lives, rows, tries, view, since, joined, alone, root, stable, given>>

HashAfter(c) ==
  /\ step[c] = "patched"
  /\ view' = [view EXCEPT ![c].after = workspace]
  /\ Goto(c, "simulated")
  /\ UNCHANGED <<run, lives, rows, tries, since, joined, alone, files>>

\* upsert_run, as in InsertRun, but nobody asks which group has the key.
SimulateOnlyRun(c) ==
  /\ step[c] = "simulated"
  /\ IF run = Nothing
       THEN /\ run' = [group |-> GroupOf[c], life |-> lives + 1]
            /\ lives' = lives + 1
            /\ Disturb(c)
       ELSE UNCHANGED <<run, lives, alone>>
  /\ Goto(c, "provenance")
  /\ UNCHANGED <<rows, tries, view, since, joined, files>>

\* mutant: the file of an earlier attempt is replaced
RootTaken_Never == FALSE

\* write_artifact with a file or an entry of other bytes: ArtifactExistsError.  The
\* payload names its time, so the bytes of two attempts are never the same.
RootTaken == root # Nothing

CreateProvenance(c) ==
  /\ step[c] = "provenance"
  /\ IF RootTaken THEN Goto(c, "refused") /\ UNCHANGED root
     ELSE /\ root' = [by |-> c, try |-> tries[c], whole |-> FALSE, says |-> view[c]]
          /\ Goto(c, "writing")
  /\ UNCHANGED <<run, lives, rows, tries, view, since, joined, alone, workspace, stable, given>>

\* The bytes are written and the manifest holds the entry.
FinishProvenance(c) ==
  /\ step[c] = "writing"
  /\ root' = [root EXCEPT !.whole = TRUE]
  /\ Goto(c, "written")
  /\ UNCHANGED <<run, lives, rows, tries, view, since, joined, alone, workspace, stable, given>>

\* _record_provenance_in_db: RuntimeError when the run is gone by now.
FindRun(c) ==
  /\ step[c] = "written"
  /\ Goto(c, IF run = Nothing THEN "refused" ELSE SimulationOrder[1])
  /\ joined' = [joined EXCEPT ![c] = IF run = Nothing THEN 0 ELSE run.life]
  /\ UNCHANGED <<run, lives, rows, tries, view, since, alone, files>>

\* The same payload once more, in place of what an earlier simulation left there:
\* write_text empties the file and then fills it.
OpenStable(c) ==
  /\ step[c] = "stable"
  /\ stable' = [by |-> c, try |-> tries[c], whole |-> FALSE, says |-> view[c]]
  /\ Goto(c, "filling")
  /\ UNCHANGED <<run, lives, rows, tries, view, since, joined, alone, workspace, root, given>>

FillStable(c) ==
  /\ step[c] = "filling"
  /\ stable' = [stable EXCEPT !.whole = TRUE]
  /\ Goto(c, "done")
  /\ UNCHANGED <<run, lives, rows, tries, view, since, joined, alone, workspace, root, given>>

SimulateStep(c) ==
  \/ CopyWorkspace(c) \/ HashBefore(c) \/ RefusePatch(c) \/ ApplyPatch(c) \/ HashAfter(c)
  \/ SimulateOnlyRun(c) \/ CreateProvenance(c) \/ FinishProvenance(c) \/ FindRun(c)
  \/ \E i \in 1..2 : Write(c, SimulationOrder[i], SimulationOrder[i + 1])
  \/ Write(c, SimulationOrder[3], "stable")
  \/ OpenStable(c) \/ FillStable(c)

------------------------------------------------------------------------------
Begin(c) ==
  \/ c \in Ingest /\ Parse(c)
  \/ c \in Evaluate /\ Look(c, "status")
  \/ c \in Import /\ (Look(c, ImportOrder[1]) \/ RefuseReceipt(c))
  \/ c \in Simulate /\ ClearWorkspace(c)

CommandStep(c) ==
  \/ c \in Ingest /\ IngestStep(c)
  \/ c \in Evaluate /\ EvaluateStep(c)
  \/ c \in Import /\ ImportStep(c)
  \/ c \in Simulate /\ SimulateStep(c)

Running(c) == step[c] \notin {"idle"} \cup Ended

Kill(c) ==
  /\ Running(c)
  /\ Goto(c, "killed")
  /\ UNCHANGED <<run, lives, rows, tries, view, since, joined, alone, files>>

\* `nlfr db gc` of the group: the run goes, its rows with it (ON DELETE CASCADE).
\* The files of a simulation are none of the collector's.
Collect ==
  /\ run # Nothing /\ lives < MaxLives
  /\ run' = Nothing
  /\ rows' = [k \in Kind |-> Nothing]
  /\ alone' = [c \in Evaluate |-> FALSE]
  /\ UNCHANGED <<lives, step, tries, view, since, joined, files>>

Next ==
  \/ \E c \in Command : Begin(c) \/ CommandStep(c) \/ Kill(c)
  \/ Collect

Spec == Init /\ [][Next]_vars

------------------------------------------------------------------------------
TypeOK ==
  /\ run \in {Nothing} \cup RunRow
  /\ lives \in 0..MaxLives
  /\ rows \in [Kind -> {Nothing} \cup Row]
  /\ workspace \in Copy
  /\ root \in {Nothing} \cup Provenance /\ stable \in {Nothing} \cup Provenance
  /\ given \in Given
  /\ step \in [Command -> Step \cup Ended]
  /\ tries \in [Command -> Nat] /\ \A c \in Command : tries[c] <= MaxTries[c]
  /\ view \in [Command -> View]
  /\ since \in [Command -> 0..MaxLives] /\ joined \in [Command -> 0..MaxLives]
  /\ alone \in [Evaluate -> BOOLEAN]

\* No evidence without its run; evidence of one group gets into a run of another
\* only when that run was not there yet at the moment the ingest checked; and an
\* ingest that was refused has written nothing.
RefusalHolds ==
  \A k \in Kind : Stored(k) =>
    /\ run # Nothing
    /\ rows[k].by \in Ingest /\ GroupOf[rows[k].by] # run.group
         => rows[k].since < run.life
    /\ rows[k].by \in Ingest /\ step[rows[k].by] = "refused"
         => rows[k].try < tries[rows[k].by]

\* The rows a command promises when it exits 0.
Promised(c) ==
  CASE c \in Ingest -> Carried(c)
    [] c \in Evaluate -> {"evaluation"}
    [] c \in Import -> {"artifact", "agent_provenance"}
    [] OTHER -> SimulationKind

\* A command that exits 0 leaves all its rows, after any number of attempts cut
\* short and whatever others wrote of it first, unless its run was collected
\* since it looked; a simulation that does leaves the file it names whole; and at
\* no moment does a provenance block cite a receipt the run has no artifact of,
\* unless the run was collected in between.
DoneIsWhole ==
  /\ \A c \in Command :
       step[c] = "done" /\ run # Nothing /\ run.life = joined[c]
         => \A k \in Promised(c) : Stored(k)
  /\ \A c \in Simulate : step[c] = "done" => stable # Nothing /\ stable.whole
  /\ Stored("agent_provenance") /\ rows["agent_provenance"].joined = run.life
       => Stored("artifact")

\* However often the scenario is simulated, whatever is killed or overlaps, the
\* rows of the simulation and its two provenance files are of one attempt and say the
\* same; and when the copy it hashed last is its own, so is the copy it hashed
\* first, and the change recorded is the patch: the template before and the patched
\* file after, even if another attempt has patched that copy meanwhile.
OneSimulation ==
  /\ \A k \in SimulationKind : Stored(k) =>
       /\ root # Nothing /\ root.whole
       /\ [by |-> rows[k].by, try |-> rows[k].try, says |-> rows[k].says]
            = [by |-> root.by, try |-> root.try, says |-> root.says]
  /\ stable # Nothing =>
       /\ root # Nothing /\ root.whole
       /\ [by |-> stable.by, try |-> stable.try, says |-> stable.says]
            = [by |-> root.by, try |-> root.try, says |-> root.says]
  /\ root # Nothing =>
       LET Own(seen) == seen # Nothing /\ seen.by = root.by /\ seen.try = root.try
       IN  Own(root.says.after) =>
             /\ root.says.after.patched
             /\ Own(root.says.before) /\ ~root.says.before.patched

\* The verdict recorded by an evaluation nobody wrote beside is the verdict on
\* the evidence it is stored with; and even with ingests under way, no red is
\* recorded of a run that has no failure, unless the run was collected and
\* ingested again since the evaluation began.
VerdictFitsEvidence ==
  [][\A c \in Evaluate :
       ~Stored("evaluation") /\ Stored("evaluation")' /\ rows'["evaluation"].by = c
       => LET v == rows'["evaluation"].says
              red == Stored("failure")
          IN  /\ alone[c] => v.failed = red /\ v.listed = red
              /\ joined[c] = run.life /\ (v.failed \/ v.listed) => red]_vars

==============================================================================
