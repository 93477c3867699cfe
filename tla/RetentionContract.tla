-------------------------- MODULE RetentionContract --------------------------
(***************************************************************************)
(* What an operator is promised about recorded runs: a run is recorded     *)
(* once, stays until a collection takes it, never comes back, and, unless  *)
(* the operator allowed it, a collection never takes the last ones.        *)
(***************************************************************************)
CONSTANTS Run, AllowEmpty

VARIABLE life

Living == {r \in Run : life[r] = "recorded"}

Init == life \in [Run -> {"absent", "recorded"}]

Record(r) ==
  /\ life[r] = "absent"
  /\ life' = [life EXCEPT ![r] = "recorded"]

Collect(runs) ==
  /\ runs # {} /\ runs \subseteq Living
  /\ runs # Living \/ AllowEmpty
  /\ life' = [r \in Run |-> IF r \in runs THEN "collected" ELSE life[r]]

Next == (\E r \in Run : Record(r)) \/ (\E runs \in SUBSET Run : Collect(runs))

Spec == Init /\ [][Next]_life
==============================================================================
