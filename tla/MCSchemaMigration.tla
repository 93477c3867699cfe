------------------------- MODULE MCSchemaMigration -------------------------
(* SchemaMigration on one process per command and one row per vocabulary. *)
EXTENDS SchemaMigration, TLC

CONSTANTS upgrade, record, export,      \* processes
          checked, present, remote      \* reference rows

MCCommand ==
  (upgrade :> "upgrade") @@ (record :> "writer") @@ (export :> "reader")

\* local_verified is in every vocabulary, local_present came with v3 and the
\* remote_* values with v4.
MCNeeds == (checked :> 2) @@ (present :> 3) @@ (remote :> 4)

\* Only a writer records; remote is the row with the narrowest welcome.
MCRow == [p \in {upgrade, record, export} |-> remote]
============================================================================
