--------------------------- MODULE SchemaMigration ---------------------------
(***************************************************************************)
(* The schema of one NLFR evidence database and the processes that open    *)
(* it: `nlfr db upgrade`, the writers that call initialize(connect(db)),   *)
(* and the readers that go through connect_readonly.                       *)
(*                                                                         *)
(* Each migration is one transaction (BEGIN IMMEDIATE .. COMMIT) that      *)
(* carries its own user_version stamp, so it is one action here.  The      *)
(* version a migrating process compares against is read BEFORE that        *)
(* transaction and kept in a local variable: seen[p].                      *)
(*                                                                         *)
(* Of the tables only artifact_references matters to migrations: versions  *)
(* 3 and 4 rebuild it to widen the CHECK on its presence column.  vocab is *)
(* the version whose vocabulary that CHECK has (0: no such table), and     *)
(* Needs[r] the first version whose CHECK admits reference row r.          *)
(***************************************************************************)
EXTENDS Naturals

CONSTANTS Proc,      \* processes, one command each
          Ref,       \* rows that may be recorded in artifact_references
          Needs,     \* Needs[r]: the version whose presence CHECK admits r
          Command,   \* Command[p]: the command process p runs
          Row        \* Row[p]: the reference row p records if it is a writer

SCHEMA_VERSION == 4

\* The version a database written by a newer nlfr carries.
NewerVersion == SCHEMA_VERSION + 1

ASSUME NeedsAssumption == Needs \in [Ref -> 2..SCHEMA_VERSION]
ASSUME CommandAssumption ==
  /\ Command \in [Proc -> {"upgrade", "writer", "reader"}]
  /\ Row \in [Proc -> Ref]

VARIABLES file,      \* what lies at the --db path
          version,   \* PRAGMA user_version
          vocab,     \* vocabulary of the presence CHECK, 0 without a table
          refs,      \* rows of artifact_references
          pc,        \* where each process stands
          seen,      \* migrate()'s current_version
          met        \* history: the rows recorded when the gate let p in

db == <<file, version, vocab, refs>>
vars == <<file, version, vocab, refs, pc, seen, met>>

Active == {"connect", "before", "version", "migrate", "after",
           "insert", "select", "open", "reading"}
Stopped == {"done", "refused", "error", "stopped"}

TypeOK ==
  /\ file \in {"missing", "empty", "garbage", "sqlite"}
  /\ version \in 0..NewerVersion
  /\ vocab \in {0} \cup 2..NewerVersion
  /\ refs \in SUBSET Ref
  /\ pc \in [Proc -> {"idle"} \cup Active \cup Stopped]
  /\ seen \in [Proc -> 0..SCHEMA_VERSION]
  /\ met \in [Proc -> SUBSET Ref]

\* The vocabulary a database stamped v was created with.
VocabOf(v) == IF v < 2 THEN 0 ELSE v

Admitted(v) == {r \in Ref : Needs[r] <= v}

\* Any file an operator can point --db at, a database of any version included.
Init ==
  /\ file \in {"missing", "empty", "garbage", "sqlite"}
  /\ version \in (IF file = "sqlite" THEN 0..NewerVersion ELSE {0})
  /\ vocab = VocabOf(version)
  /\ refs \in SUBSET Admitted(vocab)
  /\ pc = [p \in Proc |-> "idle"]
  /\ seen = [p \in Proc |-> 0]
  /\ met = [p \in Proc |-> {}]

Goto(p, label) == pc' = [pc EXCEPT ![p] = label]

------------------------------------------------------------------------------
(* Opening the database *)

\* database_defect: upgrade and readers refuse a path that is no database;
\* a writer goes straight to connect().
Start(p) ==
  /\ pc[p] = "idle"
  /\ IF Command[p] # "writer" /\ file # "sqlite"
       THEN Goto(p, "refused")
       ELSE Goto(p, IF Command[p] = "reader" THEN "open" ELSE "connect")
  /\ UNCHANGED <<db, seen, met>>

\* connect: creates the file (the WAL pragma writes its header); a file that
\* is not SQLite is an error.
Connect(p) ==
  /\ pc[p] = "connect"
  /\ IF file = "garbage"
       THEN Goto(p, "error") /\ UNCHANGED file
       ELSE /\ file' = "sqlite"
            /\ Goto(p, IF Command[p] = "upgrade" THEN "before" ELSE "version")
  /\ UNCHANGED <<version, vocab, refs, seen, met>>

GateAdmits_Older == version <= SCHEMA_VERSION      \* mutant

\* connect_readonly: the version gate, which never migrates.
GateAdmits == version = SCHEMA_VERSION

OpenReadonly(p) ==
  /\ pc[p] = "open"
  /\ Goto(p, IF GateAdmits THEN "reading" ELSE "refused")
  /\ met' = [met EXCEPT ![p] = refs]
  /\ UNCHANGED <<db, seen>>

\* The queries of an exporter over its open connection, one after another and
\* in no transaction: each sees the database as it is by then, which is every
\* state of p at "reading".
ReadRows(p) ==
  /\ pc[p] = "reading"
  /\ Goto(p, "done")
  /\ UNCHANGED <<db, seen, met>>

------------------------------------------------------------------------------
(* Migrating *)

TooNew_Ignored == FALSE      \* mutant

\* A database a newer build wrote; nothing here may downgrade it.
TooNew == version > SCHEMA_VERSION

\* db_upgrade's own read of user_version, before it calls migrate().
ReadBefore(p) ==
  /\ pc[p] = "before"
  /\ Goto(p, IF TooNew THEN "refused" ELSE "version")
  /\ UNCHANGED <<db, seen, met>>

\* migrate reads user_version once, outside any transaction.
ReadVersion(p) ==
  /\ pc[p] = "version"
  /\ IF TooNew
       THEN Goto(p, "error") /\ UNCHANGED seen
       ELSE seen' = [seen EXCEPT ![p] = version] /\ Goto(p, "migrate")
  /\ UNCHANGED <<db, met>>

\* The CHECK of the table migration m leaves behind: 1 does not touch it, 2
\* creates it if it does not exist, 3 and 4 rebuild it.
VocabAfter(m) ==
  CASE m = 1 -> vocab
    [] m = 2 -> IF vocab = 0 THEN 2 ELSE vocab
    [] OTHER -> m

\* The rows a rebuild copies; the copy fails unless the new CHECK admits all.
CopyFails_RowsIgnored(m) == FALSE      \* mutant

Copied(m) == IF m \in {3, 4} THEN refs \cap Admitted(m) ELSE refs
CopyFails(m) == m \in {3, 4} /\ ~ refs \subseteq Admitted(m)

Stamp_Final(m) == SCHEMA_VERSION      \* mutant

\* The user_version migration m stamps inside its own transaction.
Stamp(m) == m

\* The loop over MIGRATIONS skips what current_version already covers.
Pending(p) == seen[p] < SCHEMA_VERSION

Advanced_Forgotten(p) == seen      \* mutant

\* current_version after one more migration.
Advanced(p) == [seen EXCEPT ![p] = @ + 1]

\* One atomic_migration_script: the schema change and its stamp commit together.
ApplyMigration(p) ==
  LET m == seen[p] + 1 IN
  /\ pc[p] = "migrate"
  /\ Pending(p)
  /\ ~ CopyFails(m)
  /\ version' = Stamp(m)
  /\ vocab' = VocabAfter(m)
  /\ refs' = Copied(m)
  /\ seen' = Advanced(p)
  /\ UNCHANGED <<file, pc, met>>

\* A row the rebuilt CHECK rejects: the script raises, the transaction rolls back.
MigrationRejected(p) ==
  /\ pc[p] = "migrate"
  /\ Pending(p)
  /\ CopyFails(seen[p] + 1)
  /\ Goto(p, "error")
  /\ UNCHANGED <<db, seen, met>>

MigrationsApplied(p) ==
  /\ pc[p] = "migrate"
  /\ ~ Pending(p)
  /\ Goto(p, IF Command[p] = "upgrade" THEN "after" ELSE "insert")
  /\ UNCHANGED <<db, seen, met>>

\* db_upgrade reads user_version again for its report and exits 0.
ReportUpgrade(p) ==
  /\ pc[p] = "after"
  /\ Goto(p, "done")
  /\ UNCHANGED <<db, seen, met>>

------------------------------------------------------------------------------
(* Recording one artifact reference (upsert_record) *)

\* What the presence CHECK lets in of the row p inserts.
Accepted(p) == {Row[p]} \cap Admitted(vocab)

\* INSERT OR IGNORE, in a transaction of its own: a row the CHECK rejects is
\* skipped without an error.
InsertOrIgnore(p) ==
  /\ pc[p] = "insert"
  /\ refs' = refs \cup Accepted(p)
  /\ Goto(p, "select")
  /\ UNCHANGED <<file, version, vocab, seen, met>>

Found_Assumed(p) == TRUE      \* mutant

\* The SELECT by stable_key that turns a skipped row into a RuntimeError.
Found(p) == Row[p] \in refs

SelectId(p) ==
  /\ pc[p] = "select"
  /\ Goto(p, IF Found(p) THEN "done" ELSE "error")
  /\ UNCHANGED <<db, seen, met>>

------------------------------------------------------------------------------
\* The process is killed, or a statement gives up waiting for the write lock.
\* An open transaction is rolled back, so the database stays as it is.
Stop(p) ==
  /\ pc[p] \in Active
  /\ Goto(p, "stopped")
  /\ UNCHANGED <<db, seen, met>>

Run(p) ==
  \/ Start(p) \/ Connect(p) \/ OpenReadonly(p) \/ ReadRows(p)
  \/ ReadBefore(p) \/ ReadVersion(p)
  \/ ApplyMigration(p) \/ MigrationRejected(p) \/ MigrationsApplied(p)
  \/ ReportUpgrade(p) \/ InsertOrIgnore(p) \/ SelectId(p)

Next == \E p \in Proc : Run(p) \/ Stop(p)

Spec == Init /\ [][Next]_vars

\* Every command is an operating-system process that keeps being scheduled.
FairSpec == Spec /\ \A p \in Proc : WF_vars(Run(p))

------------------------------------------------------------------------------
(* Properties *)

\* The stamp never claims more than the table delivers: a database stamped v
\* has a presence CHECK at least as wide as v's, whatever upgraders interleave
\* and wherever they die.  Readers and gc gate on the stamp alone.
StampHonest == version >= 2 => vocab >= version

\* Every recorded row satisfies the CHECK the table has now, so no later
\* rebuild to the same vocabulary can reject it.
RowsAdmitted == refs \subseteq Admitted(vocab)

\* "preserves every recorded row": no step of any process, a rebuild raced by
\* another upgrader included, removes an artifact reference.
RowsPreserved == [][refs \subseteq refs']_vars

\* A writer that exits normally has its row in the table, though the INSERT OR
\* IGNORE is silent about a row that the CHECK rejected.
NoSilentLoss ==
  \A p \in Proc : Command[p] = "writer" /\ pc[p] = "done" => Row[p] \in refs

\* An exporter the version gate let in works on without looking again, and a
\* stale upgrader may meanwhile rebuild the table back to version 3's CHECK.
\* Whenever one of its queries runs, the table is still there, its CHECK no
\* older than that, and no row recorded when the gate opened is missing: an
\* export is never silently short of evidence, however it is raced.
ReaderMissesNothing ==
  \A p \in Proc : pc[p] = "reading" => vocab >= 3 /\ met[p] \subseteq refs

\* A database of a newer build is never stamped down or rebuilt.
NewerUntouched == [][version = NewerVersion => UNCHANGED db]_vars

\* Every command comes to an end: it reports, refuses, fails or is killed.
EveryCommandEnds ==
  \A p \in Proc : pc[p] = "idle" ~> pc[p] \in Stopped

\* What SchemaVersionError and `nlfr db upgrade` tell the operator: an older
\* database can be upgraded in place.  From version v an upgrade replays the
\* rebuilds of v+1 and later, and the copy into v3 must admit every row.
UpgradeStaysPossible ==
  version < 3 => refs \subseteq Admitted(3)
==============================================================================
