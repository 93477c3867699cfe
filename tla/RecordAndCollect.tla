--------------------------- MODULE RecordAndCollect ---------------------------
(***************************************************************************)
(* Recorders and garbage collectors on one evidence directory, each step   *)
(* of one interleaved with every step of the others, any of them killed    *)
(* anywhere.                                                               *)
(***************************************************************************)
EXTENDS Recorder, RetentionGc

vars == <<store, recorderVars, gcVars>>

Init == StoreInit /\ RecorderInit /\ GcInit

Next ==
  \/ \E r \in Run : /\ Begin(r) \/ RecorderStep(r) \/ Die(r)
                    /\ UNCHANGED gcVars
  \/ \E c \in Gc : /\ StartGc(c) \/ GcStep(c) \/ Kill(c)
                   /\ UNCHANGED recorderVars

Spec == Init /\ [][Next]_vars

\* The operating system runs every process that can run, and the wrapped
\* command ends; nothing obliges a command to be started.
FairSpec ==
  /\ Spec
  /\ \A r \in Run : WF_vars(RecorderStep(r) /\ UNCHANGED gcVars)
  /\ \A c \in Gc : WF_vars(GcStep(c) /\ UNCHANGED recorderVars)

------------------------------------------------------------------------------
TypeOK == StoreTypeOK /\ RecorderTypeOK /\ GcTypeOK

\* No child row without its run, whatever a gc deletes under a recorder that
\* still writes (PRAGMA foreign_keys, ON DELETE CASCADE).
ChildrenHaveRuns == \A r \in Run : kids[r] # {} => InStore(r)

\* A recording that reported its end and whose run is still there is complete:
\* the row settled with the status of the command, every child row written.
RecordedWhole ==
  \A r \in Run :
    at[r] = "done" /\ InStore(r) => /\ row[r] = outcome[r]
                                    /\ kids[r] = Expected(r)

\* A group no run of which has a timestamp goes only when it is named.
UnknownAgeIsKept ==
  [][\A r \in Run :
       /\ InStore(r) /\ ~InStore(r)'
       /\ \A s \in Members(Run, GroupOf[r]) : Started[s] = 0
       => \E c \in Gc : /\ request[c].apply /\ request[c].kind = "run_group"
                        /\ GroupOf[r] \in request[c].names]_vars

\* When --keep-last N deletes a run, N groups stay that are no older than it.
NewestAreKept ==
  [][\A c \in Gc, r \in Run :
       /\ phase[c] = "delete" /\ phase'[c] = "trees"
       /\ request[c].kind = "keep_last"
       /\ InStore(r) /\ ~InStore(r)'
       => request[c].bound <=
            Cardinality({g \in Group :
              \E s \in Members(Run, g) : /\ InStore(s)'
                                         /\ Started[s] >= Started[r]})]_vars

\* A gc that exits 0 after it deleted has its event in gc-report.json, still
\* there after later collections, and every run of the event is gone.
AppliedIsReported ==
  \A c \in Gc :
    phase[c] = "done" /\ request[c].apply /\ chosen[c] # {}
      => EventOf(c) \in report /\ Doomed(c) \cap Recorded = {}

\* Collections never leave the store empty unless --allow-empty was given.
NeverEmptied ==
  (\E r \in Run : row[r] = "deleted") /\ Recorded = {}
    => \E c \in Gc : request[c].allow_empty

\* Every started command comes to an end.
CommandsEnd ==
  /\ \A r \in Run : Recording(r) ~> at[r] \in Halted
  /\ \A c \in Gc : InProgress(c) ~> phase[c] \in Ended

\* The retention contract: a run is recorded once, collected at most once and
\* never returns, and a collection leaves something behind.
Life == [r \in Run |-> CASE row[r] = "none" -> "absent"
                         [] row[r] = "deleted" -> "collected"
                         [] OTHER -> "recorded"]

Contract == INSTANCE RetentionContract
              WITH life <- Life,
                   AllowEmpty <- \E q \in Request : q.allow_empty

ContractSpec == Contract!Spec

==============================================================================
