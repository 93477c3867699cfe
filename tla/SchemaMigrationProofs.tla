------------------------ MODULE SchemaMigrationProofs ------------------------
(***************************************************************************)
(* Safety of SchemaMigration for any number of processes and any rows.     *)
(*                                                                         *)
(* StampHonest and RowsAdmitted are inductive once the types are known.    *)
(* That a newer database is left alone also needs what no test looks at:   *)
(* while a database is newer, no process can be past its version check.    *)
(* What the version gate promises a reader is not the vocabulary of this   *)
(* build, which a stale upgrader may take back, but that the table and the *)
(* rows it was opened over stay; a step never takes the CHECK below 3.     *)
(***************************************************************************)
EXTENDS SchemaMigration, TLAPS

PastCheck == {"migrate", "after", "insert", "select"}

\* A newer database exists from the start, and no process that may write is
\* past its version check; any other has at most this build's vocabulary.
NewerIsolated ==
  /\ version = NewerVersion =>
       file = "sqlite" /\ \A p \in Proc : pc[p] \notin PastCheck
  /\ version <= SCHEMA_VERSION => vocab <= SCHEMA_VERSION

IInv == TypeOK /\ StampHonest /\ RowsAdmitted /\ NewerIsolated

USE DEF SCHEMA_VERSION, NewerVersion, Active, Stopped, PastCheck

------------------------------------------------------------------------------
LEMMA InitIInv == Init => IInv
  <1> SUFFICES ASSUME Init PROVE IInv
    OBVIOUS
  <1> USE DEF Init
  <1>1. version \in 0..5 /\ (file # "sqlite" => version = 0)
    OBVIOUS
  <1>2. TypeOK
    BY <1>1, CommandAssumption DEF TypeOK, VocabOf, Admitted
  <1>3. StampHonest
    BY <1>1 DEF StampHonest, VocabOf
  <1>4. RowsAdmitted
    BY DEF RowsAdmitted
  <1>5. NewerIsolated
    BY <1>1 DEF NewerIsolated, VocabOf
  <1> QED
    BY <1>2, <1>3, <1>4, <1>5 DEF IInv

\* The one step that rebuilds a table.
LEMMA ApplyStep ==
  ASSUME IInv, NEW p \in Proc, ApplyMigration(p)
  PROVE  IInv' /\ refs' = refs /\ (vocab >= 3 => vocab' >= 3)
  <1> DEFINE m == seen[p] + 1
  <1> USE DEF IInv
  <1>1. m \in 1..4 /\ seen' = [seen EXCEPT ![p] = m]
    BY DEF TypeOK, ApplyMigration, Pending, Advanced
  <1>2. version \in 0..4 /\ vocab \in {0} \cup 2..4
    BY DEF ApplyMigration, NewerIsolated, TypeOK
  <1>3. version' = m /\ vocab' = VocabAfter(m) /\ refs' = Copied(m)
        /\ ~ CopyFails(m) /\ UNCHANGED <<file, pc, met>>
    BY DEF ApplyMigration, Stamp
  <1>4. refs' = refs
    BY <1>3 DEF Copied, CopyFails
  <1>5. vocab' \in {0} \cup 2..4 /\ (m >= 2 => vocab' >= m)
    BY <1>1, <1>2, <1>3 DEF VocabAfter
  <1>6. refs \subseteq Admitted(vocab')
    <2>1. CASE m \in {3, 4}
      BY <1>3, <2>1 DEF CopyFails, VocabAfter
    <2>2. CASE m \in {1, 2}
      <3>1. vocab' >= vocab
        BY <1>2, <1>3, <2>2 DEF VocabAfter
      <3> QED
        BY <3>1, <1>2, <1>5, NeedsAssumption DEF RowsAdmitted, Admitted, TypeOK
    <2> QED
      BY <1>1, <2>1, <2>2
  <1>7. TypeOK'
    BY <1>1, <1>3, <1>4, <1>5 DEF TypeOK
  <1>8. StampHonest' /\ NewerIsolated'
    BY <1>1, <1>3, <1>5 DEF StampHonest, NewerIsolated
  <1>9. vocab >= 3 => vocab' >= 3
    BY <1>1, <1>2, <1>3 DEF VocabAfter
  <1> QED
    BY <1>4, <1>6, <1>7, <1>8, <1>9 DEF RowsAdmitted

LEMMA NextIInv == IInv /\ [Next]_vars => IInv'
  <1> SUFFICES ASSUME IInv, [Next]_vars PROVE IInv'
    OBVIOUS
  <1> USE DEF IInv
  <1>1. ASSUME NEW p \in Proc, Start(p) PROVE IInv'
    BY <1>1 DEF Start, Goto, db, TypeOK, StampHonest, RowsAdmitted,
                NewerIsolated
  <1>2. ASSUME NEW p \in Proc, Connect(p) PROVE IInv'
    BY <1>2 DEF Connect, Goto, TypeOK, StampHonest, RowsAdmitted,
                NewerIsolated
  <1>3. ASSUME NEW p \in Proc, OpenReadonly(p) PROVE IInv'
    BY <1>3 DEF OpenReadonly, Goto, db, TypeOK, StampHonest, RowsAdmitted,
                NewerIsolated
  <1>4. ASSUME NEW p \in Proc, ReadBefore(p) PROVE IInv'
    BY <1>4 DEF ReadBefore, Goto, db, TypeOK, StampHonest, RowsAdmitted,
                NewerIsolated
  <1>5. ASSUME NEW p \in Proc, ReadVersion(p) PROVE IInv'
    BY <1>5 DEF ReadVersion, TooNew, Goto, db, TypeOK, StampHonest,
                RowsAdmitted, NewerIsolated
  <1>6. ASSUME NEW p \in Proc, ApplyMigration(p) PROVE IInv'
    BY <1>6, ApplyStep
  <1>7. ASSUME NEW p \in Proc, InsertOrIgnore(p) PROVE IInv'
    <2>1. refs' = refs \cup Accepted(p) /\ UNCHANGED <<file, version, vocab, seen, met>>
          /\ pc' = [pc EXCEPT ![p] = "select"] /\ pc[p] = "insert"
      BY <1>7 DEF InsertOrIgnore, Goto
    <2>2. refs' \subseteq Admitted(vocab) /\ refs' \subseteq Ref
      BY <2>1 DEF Accepted, RowsAdmitted, Admitted
    <2> QED
      BY <2>1, <2>2 DEF TypeOK, StampHonest, RowsAdmitted, NewerIsolated
  <1>8. ASSUME NEW p \in Proc,
               \/ ReadRows(p) \/ MigrationRejected(p) \/ MigrationsApplied(p)
               \/ ReportUpgrade(p) \/ SelectId(p) \/ Stop(p)
        PROVE IInv'
    <2>1. UNCHANGED <<file, version, vocab, refs, seen, met>>
      BY <1>8 DEF ReadRows, MigrationRejected, MigrationsApplied,
                  ReportUpgrade, SelectId, Stop, db
    <2>2. PICK to \in {"done", "error", "after", "insert", "stopped"} :
            pc' = [pc EXCEPT ![p] = to] /\ (to \in PastCheck => pc[p] \in PastCheck)
      BY <1>8 DEF ReadRows, MigrationRejected, MigrationsApplied,
                  ReportUpgrade, SelectId, Stop, Goto
    <2> QED
      BY <2>1, <2>2 DEF TypeOK, StampHonest, RowsAdmitted, NewerIsolated
  <1>9. CASE UNCHANGED vars
    BY <1>9 DEF vars, TypeOK, StampHonest, RowsAdmitted, NewerIsolated
  <1> QED
    BY <1>1, <1>2, <1>3, <1>4, <1>5, <1>6, <1>7, <1>8, <1>9 DEF Next, Run

------------------------------------------------------------------------------
(* Theorems *)

\* The inductive invariant holds in every reachable state.
THEOREM Invariance == Spec => []IInv
  <1> QED
    BY InitIInv, NextIInv, PTL DEF Spec

\* db_upgrade and initialize keep every variable of the model within its type.
THEOREM TypeCorrect == Spec => []TypeOK
  <1>1. IInv => TypeOK
    BY DEF IInv
  <1> QED
    BY Invariance, <1>1, PTL

\* A database stamped v has at least v's vocabulary, with any number of
\* upgraders racing from stale version reads.
THEOREM StampIsHonest == Spec => []StampHonest
  <1>1. IInv => StampHonest
    BY DEF IInv
  <1> QED
    BY Invariance, <1>1, PTL

\* Every recorded reference satisfies the table's CHECK.
THEOREM RowsStayAdmitted == Spec => []RowsAdmitted
  <1>1. IInv => RowsAdmitted
    BY DEF IInv
  <1> QED
    BY Invariance, <1>1, PTL

\* What a step of a process may do to the rows: only add.
LEMMA StepKeepsRows == IInv /\ [Next]_vars => refs \subseteq refs'
  <1> SUFFICES ASSUME IInv, [Next]_vars PROVE refs \subseteq refs'
    OBVIOUS
  <1>1. ASSUME NEW p \in Proc, ApplyMigration(p) PROVE refs \subseteq refs'
    BY <1>1, ApplyStep
  <1>2. ASSUME NEW p \in Proc, Run(p) \/ Stop(p), ~ ApplyMigration(p)
        PROVE refs \subseteq refs'
    BY <1>2 DEF Run, Start, Connect, OpenReadonly, ReadRows, ReadBefore,
        ReadVersion, MigrationRejected, MigrationsApplied, ReportUpgrade,
        InsertOrIgnore, SelectId, Stop, db
  <1>3. CASE UNCHANGED vars
    BY <1>3 DEF vars
  <1> QED
    BY <1>1, <1>2, <1>3 DEF Next

\* "preserves every recorded row": no migration, stale, raced or killed, loses
\* an artifact reference.
THEOREM RowsArePreserved == Spec => RowsPreserved
  <1> QED
    BY Invariance, StepKeepsRows, PTL DEF Spec, RowsPreserved

\* The control points a writer never comes to.
WriterPath ==
  \A p \in Proc : Command[p] = "writer" =>
                    pc[p] \notin {"open", "reading", "before", "after"}

\* INSERT OR IGNORE followed by the SELECT: a writer that exits normally has
\* its row recorded, for good.
THEOREM NoRowIsLostSilently == Spec => []NoSilentLoss
  <1>1. Init => NoSilentLoss /\ WriterPath
    BY DEF Init, NoSilentLoss, WriterPath
  <1>2. IInv /\ NoSilentLoss /\ WriterPath /\ [Next]_vars
          => NoSilentLoss' /\ WriterPath'
    <2> SUFFICES ASSUME IInv, NoSilentLoss, WriterPath, [Next]_vars,
                        NEW p \in Proc, Command[p] = "writer"
                 PROVE  /\ pc'[p] = "done" => Row[p] \in refs'
                        /\ pc'[p] \notin {"open", "reading", "before", "after"}
      BY DEF NoSilentLoss, WriterPath
    <2>1. refs \subseteq refs'
      BY StepKeepsRows
    <2>2. pc[p] \notin {"open", "reading", "before", "after"}
          /\ (pc[p] = "done" => Row[p] \in refs)
      BY DEF NoSilentLoss, WriterPath
    <2>3. CASE UNCHANGED vars
      BY <2>2, <2>3 DEF vars
    <2>4. ASSUME NEW q \in Proc, Run(q) \/ Stop(q)
          PROVE  /\ pc'[p] = "done" => pc[p] = "done" \/ Row[p] \in refs
                 /\ pc'[p] \notin {"open", "reading", "before", "after"}
      BY <2>2, <2>4 DEF IInv, TypeOK, Run, Start, Connect, OpenReadonly,
         ReadRows, ReadBefore, ReadVersion, ApplyMigration, MigrationRejected,
         MigrationsApplied, ReportUpgrade, InsertOrIgnore, SelectId, Found,
         Stop, Goto
    <2> QED
      BY <2>1, <2>2, <2>3, <2>4 DEF Next
  <1> QED
    BY <1>1, <1>2, Invariance, PTL DEF Spec

\* An exporter past connect_readonly's gate never finds the table gone or a row
\* missing, however many upgraders, stale ones included, run beside its queries.
THEOREM ReadersMissNothing == Spec => []ReaderMissesNothing
  <1>1. Init => ReaderMissesNothing
    BY DEF Init, ReaderMissesNothing
  <1>2. IInv /\ ReaderMissesNothing /\ [Next]_vars => ReaderMissesNothing'
    <2> SUFFICES ASSUME IInv, ReaderMissesNothing, [Next]_vars,
                        NEW p \in Proc, pc'[p] = "reading"
                 PROVE  vocab' >= 3 /\ met'[p] \subseteq refs'
      BY DEF ReaderMissesNothing
    <2>1. refs \subseteq refs'
      BY StepKeepsRows
    <2>2. CASE UNCHANGED vars
      BY <2>2 DEF vars, ReaderMissesNothing
    <2>3. ASSUME NEW q \in Proc, OpenReadonly(q)
          PROVE  vocab' >= 3 /\ met'[p] \subseteq refs'
      <3>1. CASE q = p
        <4>1. version = SCHEMA_VERSION
          BY <2>3, <3>1 DEF OpenReadonly, GateAdmits, Goto, IInv, TypeOK
        <4> QED
          BY <2>3, <3>1, <4>1 DEF OpenReadonly, db, IInv, TypeOK, StampHonest
      <3>2. CASE q # p
        BY <2>3, <3>2 DEF OpenReadonly, Goto, db, IInv, TypeOK,
                          ReaderMissesNothing
      <3> QED
        BY <3>1, <3>2
    <2>4. ASSUME NEW q \in Proc, ApplyMigration(q)
          PROVE  vocab' >= 3 /\ met'[p] \subseteq refs'
      <3>1. pc[p] = "reading" /\ UNCHANGED met
        BY <2>4 DEF ApplyMigration
      <3> QED
        BY <2>1, <2>4, <3>1, ApplyStep DEF ReaderMissesNothing
    <2>5. ASSUME NEW q \in Proc, Run(q) \/ Stop(q),
                 ~ OpenReadonly(q), ~ ApplyMigration(q)
          PROVE  vocab' >= 3 /\ met'[p] \subseteq refs'
      <3>1. pc[p] = "reading" /\ UNCHANGED <<vocab, met>>
        BY <2>5 DEF IInv, TypeOK, Run, Start, Connect, ReadRows, ReadBefore,
           ReadVersion, MigrationRejected, MigrationsApplied, ReportUpgrade,
           InsertOrIgnore, SelectId, Stop, Goto, db
      <3> QED
        BY <2>1, <3>1 DEF ReaderMissesNothing
    <2> QED
      BY <2>2, <2>3, <2>4, <2>5 DEF Next
  <1> QED
    BY <1>1, <1>2, Invariance, PTL DEF Spec

\* "this build ... will not downgrade it".
THEOREM NewerIsUntouched == Spec => NewerUntouched
  <1>1. IInv /\ [Next]_vars =>
          [version = NewerVersion => UNCHANGED db]_vars
    <2> SUFFICES ASSUME IInv, Next, version = NewerVersion PROVE UNCHANGED db
      OBVIOUS
    <2>1. PICK q \in Proc : Run(q) \/ Stop(q)
      BY DEF Next
    <2>2. pc[q] \notin PastCheck /\ file = "sqlite"
      BY DEF IInv, NewerIsolated
    <2> QED
      BY <2>1, <2>2 DEF Run, Start, Connect, OpenReadonly, ReadRows,
         ReadBefore, ReadVersion, ApplyMigration, MigrationRejected,
         MigrationsApplied, ReportUpgrade, InsertOrIgnore, SelectId, Stop, db
  <1> QED
    BY <1>1, Invariance, PTL DEF Spec, NewerUntouched
==============================================================================
