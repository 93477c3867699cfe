------------------------------ MODULE WriteOnce ------------------------------
(***************************************************************************)
(* What an artifact root promises to everyone who later cites it: evidence *)
(* under a key is published once, with bytes that hash to what the entry   *)
(* says, and neither the entry nor the bytes ever change.                  *)
(***************************************************************************)
CONSTANTS Key,       \* artifact keys
          Entry,     \* manifest entries, each with the sha of its bytes
          Nothing    \* nothing is published under a key

VARIABLE published

\* An artifact as a reader of the root sees it.
Artifact(e) == [entry |-> e, bytes |-> e.sha]

Init == published = [k \in Key |-> Nothing]

Publish(k, e) ==
  /\ published[k] = Nothing
  /\ published' = [published EXCEPT ![k] = Artifact(e)]

Next == \E k \in Key, e \in Entry : Publish(k, e)

Spec == Init /\ [][Next]_published
==============================================================================
