---------------------------- MODULE EvidenceStore ----------------------------
(***************************************************************************)
(* What one evidence directory holds: the runs table with its child rows,  *)
(* the on-disk run trees under runs/<run_id>/, and gc-report.json.  The    *)
(* recorders (Recorder) and `nlfr db gc` (RetentionGc) act on it from      *)
(* separate processes; RecordAndCollect composes them.                     *)
(*                                                                         *)
(* Child rows are kept by kind: every child table references runs(id)      *)
(* ON DELETE CASCADE and connect() turns foreign keys on.  The database is *)
(* at the current schema (SchemaMigration models how it gets there).       *)
(***************************************************************************)
EXTENDS Integers, FiniteSets

CONSTANTS Run,       \* run ids
          GroupOf,   \* GroupOf[r]: the run group of r
          Started,   \* Started[r]: the started_at of r, 0 when it is NULL
          Finished,  \* runs of earlier recordings that ended
          Abandoned, \* runs of earlier recordings that were killed
          Ingested,  \* runs from `nlfr ingest`, which have no tree of their own
          Outside    \* runs whose recorded paths lie outside the evidence root

Group == {GroupOf[r] : r \in Run}
Past == Finished \cup Abandoned \cup Ingested

ASSUME EvidenceAssumption ==
  /\ IsFiniteSet(Run)
  /\ Started \in [Run -> Nat]
  /\ Past \subseteq Run /\ Outside \subseteq Past
  /\ Finished \cap Abandoned = {} /\ (Finished \cup Abandoned) \cap Ingested = {}

VARIABLES row,     \* runs.status, "none" before the insert, "deleted" after
          kids,    \* kinds of the child rows that reference the run
          tree,    \* "none", "partial" or "attributed" (it has run.json)
          report   \* events in gc-report.json

store == <<row, kids, tree, report>>

Part == {"target", "reference", "change", "proof", "invocation", "failure",
         "artifact"}
Terminal == {"completed", "failed", "timeout", "environment_blocker",
             "configuration_blocker"}
Absent == {"none", "deleted"}
TreeState == {"none", "partial", "attributed"}

InStore(r) == row[r] \notin Absent
Recorded == {r \in Run : InStore(r)}

StoreTypeOK ==
  /\ row \in [Run -> Absent \cup {"running"} \cup Terminal]
  /\ kids \in [Run -> SUBSET Part]
  /\ tree \in [Run -> TreeState]

\* A recording that was killed stays "running" for ever, with or without the
\* run.json that ties its tree to a group.
StoreInit ==
  /\ row = [r \in Run |-> CASE r \in Finished \cup Ingested -> "completed"
                            [] r \in Abandoned -> "running"
                            [] OTHER -> "none"]
  /\ kids = [r \in Run |-> IF row[r] = "completed"
                             THEN {"invocation", "artifact"} ELSE {}]
  /\ \E named \in SUBSET Abandoned :
       tree = [r \in Run |-> CASE r \in Finished \cup named -> "attributed"
                               [] r \in Abandoned \ named -> "partial"
                               [] OTHER -> "none"]
  /\ report = {}

\* upsert_run: the stable key of a recorded run holds its timestamp, so the
\* row is new.
InsertRun(r) == row' = [row EXCEPT ![r] = "running"]

\* mutant: INSERT OR REPLACE
SetStatus_Upserts(r, status) == row' = [row EXCEPT ![r] = status]

\* UPDATE runs SET status .. WHERE id = ?: no row, no effect, no error.
SetStatus(r, status) ==
  row' = IF InStore(r) THEN [row EXCEPT ![r] = status] ELSE row

\* mutant: foreign keys left off
ChildAccepted_AnyRun(r) == TRUE

\* INSERT OR IGNORE does not ignore a foreign key that matches no run.
ChildAccepted(r) == InStore(r)

InsertChild(r, part) == kids' = [kids EXCEPT ![r] = @ \cup {part}]

\* ON DELETE CASCADE on every child table.
Cascade(gone) == [r \in Run |-> IF r \in gone THEN {} ELSE kids[r]]

\* DELETE FROM runs WHERE id IN (..), one transaction.
DeleteRuns(ids) ==
  LET gone == ids \cap Recorded
  IN  /\ row' = [r \in Run |-> IF r \in gone THEN "deleted" ELSE row[r]]
      /\ kids' = Cascade(gone)
==============================================================================
