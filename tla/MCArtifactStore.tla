-------------------------- MODULE MCArtifactStore --------------------------
(* One run's artifact root: a call, its repetition, the same bytes with     *)
(* other labels, other bytes under the same key, and a second key.          *)
EXTENDS ArtifactStore, TLC

CONSTANTS first, again, relabelled, rewritten, other

MCKeyOf == [c \in {first, again, relabelled, rewritten} |-> "run.json"]
             @@ (other :> "bazel.stdout.txt")
MCDigestOf == [c \in {first, again, relabelled, other} |-> "d1"]
                @@ (rewritten :> "d2")
MCLabelOf == [c \in {first, again, rewritten, other} |-> "l1"]
               @@ (relabelled :> "l2")
============================================================================
