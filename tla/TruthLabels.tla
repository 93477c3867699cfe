----------------------------- MODULE TruthLabels -----------------------------
(***************************************************************************)
(* How the proof packet rolls the truth labels of rows up into the label   *)
(* of a block, and counts what the verification of references concluded.   *)
(* A row is any record with the fields confidence and source_kind.         *)
(***************************************************************************)
EXTENDS Integers, FiniteSets

\* _confidence of a block, _weakest_confidence of a verdict.
WeakestConfidence(rows) ==
  LET values == {r.confidence : r \in rows}
  IN  IF rows = {} THEN "unknown"
      ELSE IF values = {"high"} THEN "high"
      ELSE IF "low" \in values THEN "low" ELSE "medium"

\* _dominant_source_kind: the first of this order that some row carries, so a
\* block that mixes observed and simulated rows says collectable_v1.
Priority == [collectable_v1 |-> 0, derived_v1 |-> 1, simulated_v1 |-> 2]

DominantSourceKind(rows) ==
  LET kinds == {r.source_kind : r \in rows}
  IN  IF rows = {} THEN "future"
      ELSE CHOOSE k \in kinds : \A o \in kinds : Priority[k] <= Priority[o]

\* _downgraded_source_kind: what was not verified is not collected evidence.
Downgraded(kind) == IF kind = "collectable_v1" THEN "derived_v1" ELSE kind

\* The presence labels of a reference, each with a counter of its own in the
\* packet's artifact_verification summary.
LocalTier == {"local_verified", "local_present", "local_mismatch", "missing"}
RemoteTier == {"remote_verified", "remote_present", "remote_mismatch",
               "remote_missing"}
PresenceLabel == LocalTier \cup RemoteTier \cup {"unverified_remote_reference"}

\* _artifact_verification_summary: references by presence.
VerificationSummary(presence) ==
  [p \in PresenceLabel |-> Cardinality({r \in DOMAIN presence : presence[r] = p})]
==============================================================================
