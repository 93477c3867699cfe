------------------------------- MODULE Recorder -------------------------------
(***************************************************************************)
(* The three recording commands: `nlfr record`, the Bazel modes of         *)
(* `nlfr run` and `nlfr run --mode generic`.  Each creates its run tree,   *)
(* inserts a "running" row, executes the wrapped command, and then writes  *)
(* its evidence as a fixed script of separately committed steps; a step    *)
(* that raises, and a kill, end it where it stands.                        *)
(***************************************************************************)
EXTENDS EvidenceStore

VARIABLES mode,      \* the command that records the run
          wants,     \* optional evidence this run turned out to have
          outcome,   \* its terminal status, "none" until the command ended
          at         \* the script's next step

recorderVars == <<mode, wants, outcome, at>>

Mode == {"record", "run", "generic"}
Optional == {"bep", "failed", "changes", "sidecar", "bad_sidecar"}

Step == {"tree", "insert", "execute", "run_json", "update", "export"} \cup Part
Halted == {"past", "done", "died"}

\* mutant: generic mode returns before it settles the row
Then_NeverSettled ==
  [record |-> [tree |-> "insert", insert |-> "execute", execute |-> "target",
               target |-> "reference", reference |-> "run_json",
               run_json |-> "update", update |-> "invocation",
               invocation |-> "failure", failure |-> "artifact",
               artifact |-> "export", export |-> "done"],
   run |-> [tree |-> "insert", insert |-> "execute", execute |-> "run_json",
            run_json |-> "change", change |-> "proof", proof |-> "update",
            update |-> "invocation", invocation |-> "artifact",
            artifact |-> "done"],
   generic |-> [tree |-> "insert", insert |-> "execute", execute |-> "change",
                change |-> "run_json", run_json |-> "proof",
                proof |-> "failure", failure |-> "invocation",
                invocation |-> "artifact", artifact |-> "done"]]

\* The order in which each command writes its evidence.
Then ==
  [record |-> [tree |-> "insert", insert |-> "execute", execute |-> "target",
               target |-> "reference", reference |-> "run_json",
               run_json |-> "update", update |-> "invocation",
               invocation |-> "failure", failure |-> "artifact",
               artifact |-> "export", export |-> "done"],
   run |-> [tree |-> "insert", insert |-> "execute", execute |-> "run_json",
            run_json |-> "change", change |-> "proof", proof |-> "update",
            update |-> "invocation", invocation |-> "artifact",
            artifact |-> "done"],
   generic |-> [tree |-> "insert", insert |-> "execute", execute |-> "change",
                change |-> "run_json", run_json |-> "proof",
                proof |-> "failure", failure |-> "update",
                update |-> "invocation", invocation |-> "artifact",
                artifact |-> "done"]]

RecorderTypeOK ==
  /\ mode \in [Run -> Mode]
  /\ wants \in [Run -> SUBSET Optional]
  /\ outcome \in [Run -> {"none"} \cup Terminal]
  /\ at \in [Run -> {"idle"} \cup Step \cup Halted]

RecorderInit ==
  /\ mode = [r \in Run |-> "record"]
  /\ wants = [r \in Run |-> {}]
  /\ outcome = [r \in Run |-> "none"]
  /\ at = [r \in Run |-> IF r \in Past THEN "past" ELSE "idle"]

Goto(r, step) == at' = [at EXCEPT ![r] = step]
Advance(r) == Goto(r, Then[mode[r]][at[r]])

Recording(r) == at[r] \in Step

\* Is there anything to write at this step of this run?
Wanted(r, part) ==
  CASE part \in {"target", "reference"} -> "bep" \in wants[r]
    [] part = "change" -> "changes" \in wants[r]
    [] part = "proof" -> wants[r] \cap {"sidecar", "bad_sidecar"} # {}
    [] part = "failure" -> "failed" \in wants[r]
    [] OTHER -> TRUE

\* The kinds of child rows a finished recording leaves.
Expected(r) ==
  {p \in Part : p \in DOMAIN Then[mode[r]] /\ Wanted(r, p)}

------------------------------------------------------------------------------
\* The preflight checks have passed; --change-path and --provenance-sidecar
\* are options of the `run` modes.
Begin(r) ==
  /\ at[r] = "idle"
  /\ \E m \in Mode, w \in {{}, {"changes"}, {"changes", "sidecar"},
                           {"bad_sidecar"}} :
       /\ m = "record" => w = {}
       /\ mode' = [mode EXCEPT ![r] = m]
       /\ wants' = [wants EXCEPT ![r] = w]
  /\ Goto(r, "tree")
  /\ UNCHANGED <<store, outcome>>

MakeTree(r) ==
  /\ at[r] = "tree"
  /\ tree' = [tree EXCEPT ![r] = "partial"]
  /\ Advance(r)
  /\ UNCHANGED <<row, kids, report, mode, wants, outcome>>

InsertRow(r) ==
  /\ at[r] = "insert"
  /\ InsertRun(r)
  /\ Advance(r)
  /\ UNCHANGED <<kids, tree, report, mode, wants, outcome>>

\* _terminal_status: a blocker or a timeout of one command outranks the exit
\* code of another, so a run of several commands may hold failures all the same.
CanEnd(m, t, extra) ==
  /\ t = "configuration_blocker" => m = "run"
  /\ t = "timeout" => m # "record"
  /\ t = "failed" => "failed" \in extra
  /\ t # "failed" /\ "failed" \in extra => m = "generic" /\ t # "completed"
  /\ "bep" \in extra => m = "record"

\* The wrapped command runs; only `record` looks for a Build Event file.
Execute(r) ==
  /\ at[r] = "execute"
  /\ \E t \in Terminal, extra \in SUBSET {"bep", "failed"} :
       /\ CanEnd(mode[r], t, extra)
       /\ outcome' = [outcome EXCEPT ![r] = t]
       /\ wants' = [wants EXCEPT ![r] = @ \cup extra]
  /\ Advance(r)
  /\ UNCHANGED <<store, mode>>

\* write_artifact("run.json") creates the directory again if it is gone.
WriteRunJson(r) ==
  /\ at[r] = "run_json"
  /\ tree' = [tree EXCEPT ![r] = "attributed"]
  /\ Advance(r)
  /\ UNCHANGED <<row, kids, report, mode, wants, outcome>>

Settle(r) ==
  /\ at[r] = "update"
  /\ SetStatus(r, outcome[r])
  /\ Advance(r)
  /\ UNCHANGED <<kids, tree, report, mode, wants, outcome>>

SkipPart(r) ==
  /\ at[r] \in Part /\ ~Wanted(r, at[r])
  /\ Advance(r)
  /\ UNCHANGED <<store, mode, wants, outcome>>

\* The provenance step writes its artifacts before its proof block.
Revived(r) ==
  IF at[r] = "proof" /\ tree[r] = "none"
    THEN [tree EXCEPT ![r] = "partial"] ELSE tree

\* A sidecar that fails validation raises before anything is written.
RefusesSidecar(r) == at[r] = "proof" /\ "bad_sidecar" \in wants[r]

WritePart(r) ==
  /\ at[r] \in Part /\ Wanted(r, at[r]) /\ ~RefusesSidecar(r)
  /\ ChildAccepted(r)
  /\ InsertChild(r, at[r])
  /\ tree' = Revived(r)
  /\ Advance(r)
  /\ UNCHANGED <<row, report, mode, wants, outcome>>

\* IntegrityError from the child insert, or ValueError from the sidecar.
FailPart(r) ==
  /\ at[r] \in Part /\ Wanted(r, at[r])
  /\ RefusesSidecar(r) \/ ~ChildAccepted(r)
  /\ tree' = IF RefusesSidecar(r) THEN tree ELSE Revived(r)
  /\ Goto(r, "died")
  /\ UNCHANGED <<row, kids, report, mode, wants, outcome>>

\* Projections are files of their own; the store is only read.
Export(r) ==
  /\ at[r] = "export"
  /\ Advance(r)
  /\ UNCHANGED <<store, mode, wants, outcome>>

\* Ctrl-C, a kill, an unexpected exception.
Die(r) ==
  /\ Recording(r)
  /\ Goto(r, "died")
  /\ UNCHANGED <<store, mode, wants, outcome>>

RecorderStep(r) ==
  \/ MakeTree(r) \/ InsertRow(r) \/ Execute(r) \/ WriteRunJson(r) \/ Settle(r)
  \/ SkipPart(r) \/ WritePart(r) \/ FailPart(r) \/ Export(r)
==============================================================================
