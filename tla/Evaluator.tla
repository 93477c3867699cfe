------------------------------ MODULE Evaluator ------------------------------
(***************************************************************************)
(* The deterministic evaluator: what the recorded evidence of a run group  *)
(* lets NLFR say of a validation, and the step it demands next.            *)
(***************************************************************************)
EXTENDS Naturals

\* What a recorded Bazel log can say: a toolchain or startup signature, the
\* label under test, a failure marker an excerpt can start at.
Saying == {"signature", "target", "marker"}

\* The evidence of one group: failure rows; whether the raw logs are at hand
\* and what they say ("target" needs --attribution-target); whether the
\* workspace differs from the newest recorded after-hash.
Evidence == [failed : BOOLEAN, logs : BOOLEAN, says : SUBSET Saying,
             pending : BOOLEAN]

Classes == {"first_pass_success", "toolchain_failure", "unclassified",
            "unattributed_failure", "scenario_validation_failure"}

Classification(e) ==
  IF ~e.failed THEN "first_pass_success"
  ELSE IF ~e.logs THEN "unclassified"
  ELSE IF "signature" \in e.says THEN "toolchain_failure"
  ELSE IF "target" \in e.says THEN "scenario_validation_failure"
  ELSE "unattributed_failure"

\* failure_excerpt finds a marker to start from.
HasExcerpt(e) == e.failed /\ e.logs /\ "marker" \in e.says

\* NEXT_STEP_PRECEDENCE: the rank of each action.
Precedence ==
  [record_environment_blocker |-> 1, rerun_validation |-> 2,
   dispatch_fix_with_evidence |-> 3, attach_missing_evidence |-> 4,
   none_complete |-> 5]

Action == DOMAIN Precedence

\* mutant: an excerpt is not needed to dispatch
Demanded_NoExcerpt(e) ==
  {a \in Action :
     \/ /\ a = "record_environment_blocker"
        /\ Classification(e) = "toolchain_failure"
     \/ a = "rerun_validation" /\ e.pending
     \/ /\ a = "dispatch_fix_with_evidence"
        /\ Classification(e) = "scenario_validation_failure"
     \/ /\ a = "attach_missing_evidence" /\ e.failed
        /\ ~HasExcerpt(e) \/ Classification(e) = "unattributed_failure"
     \/ a = "none_complete" /\ ~e.failed}

\* The steps _next_steps puts into its result.
Demanded(e) ==
  {a \in Action :
     \/ /\ a = "record_environment_blocker"
        /\ Classification(e) = "toolchain_failure"
     \/ a = "rerun_validation" /\ e.pending
     \/ /\ a = "dispatch_fix_with_evidence"
        /\ Classification(e) = "scenario_validation_failure" /\ HasExcerpt(e)
     \/ /\ a = "attach_missing_evidence" /\ e.failed
        /\ ~HasExcerpt(e) \/ Classification(e) = "unattributed_failure"
     \/ a = "none_complete" /\ ~e.failed}

\* next_steps[0]: the demanded step of the highest precedence.
FirstStep(e) ==
  CHOOSE a \in Demanded(e) : \A b \in Demanded(e) : Precedence[a] <= Precedence[b]
==============================================================================
