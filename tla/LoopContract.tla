----------------------------- MODULE LoopContract -----------------------------
(***************************************************************************)
(* What a closed agent loop promises: the agent is called, its change is   *)
(* judged, and only an honest red leads to another call; green is accepted *)
(* or the loop stops; the calls are bounded.                               *)
(***************************************************************************)
EXTENDS Naturals

CONSTANTS Loop, MaxCalls
VARIABLES standing, calls

Init == standing = [l \in Loop |-> "open"] /\ calls = [l \in Loop |-> 0]

Becomes(l, s) == standing' = [standing EXCEPT ![l] = s]

Call(l) ==
  /\ standing[l] \in {"open", "red"}
  /\ calls[l] < MaxCalls
  /\ Becomes(l, "called")
  /\ calls' = [calls EXCEPT ![l] = @ + 1]

Judge(l) ==
  /\ standing[l] = "called"
  /\ Becomes(l, "red") \/ Becomes(l, "green")
  /\ UNCHANGED calls

Accept(l) ==
  /\ standing[l] = "green"
  /\ Becomes(l, "accepted")
  /\ UNCHANGED calls

Stop(l) ==
  /\ standing[l] \notin {"accepted", "stopped"}
  /\ Becomes(l, "stopped")
  /\ UNCHANGED calls

Next == \E l \in Loop : Call(l) \/ Judge(l) \/ Accept(l) \/ Stop(l)

Spec == Init /\ [][Next]_<<standing, calls>>
==============================================================================
