----------------------------- MODULE RetentionGc -----------------------------
(***************************************************************************)
(* `nlfr db gc`: deletes whole run groups, rows and on-disk trees, that a  *)
(* --run-group, --keep-last or --keep-days selection names, and appends an *)
(* event to gc-report.json.  Everything it decides, it decides on what it  *)
(* read at the start; only the DELETE is a transaction.                    *)
(***************************************************************************)
EXTENDS EvidenceStore

CONSTANTS Gc,        \* gc commands
          Request,   \* the options they may be given
          Rank,      \* Rank[group]: the group's place in name order
          Overlap    \* may two gc commands run at the same time?

VARIABLES phase,     \* how far each gc has come
          request,   \* its options
          index,     \* run ids _load_group_index read
          found,     \* runs whose tree _discover_run_dirs attributed
          chosen,    \* groups selected for deletion
          pending,   \* trees still to be removed
          document   \* gc events it read from gc-report.json

gcVars == <<phase, request, index, found, chosen, pending, document>>

Kind == {"run_group", "keep_last", "keep_days"}
Options == [kind : Kind, names : SUBSET Group, bound : Nat,
            apply : BOOLEAN, allow_empty : BOOLEAN]

\* _validate_selection.
Valid(q) == /\ q.kind = "run_group" => q.names # {}
            /\ q.kind = "keep_last" => q.bound >= 1

ASSUME GcAssumption ==
  /\ Request # {} /\ \A q \in Request : q \in Options /\ Valid(q)
  /\ Rank \in [Group -> Nat]
  /\ \A g, h \in Group : Rank[g] = Rank[h] => g = h
  /\ Overlap \in BOOLEAN

Working == {"index", "discover", "select", "delete", "trees", "vacuum",
            "read_report", "write_report"}
Ended == {"done", "refused", "error", "killed"}

Event == [gc : Gc, runs : SUBSET Run, groups : SUBSET Group]

GcTypeOK ==
  /\ phase \in [Gc -> {"idle"} \cup Working \cup Ended]
  /\ request \in [Gc -> Request]
  /\ index \in [Gc -> SUBSET Run] /\ found \in [Gc -> SUBSET Run]
  /\ chosen \in [Gc -> SUBSET Group] /\ pending \in [Gc -> SUBSET Run]
  /\ report \in SUBSET Event /\ document \in [Gc -> SUBSET Event]

GcInit ==
  /\ phase = [c \in Gc |-> "idle"]
  /\ request \in [Gc -> Request]
  /\ index = [c \in Gc |-> {}] /\ found = [c \in Gc |-> {}]
  /\ chosen = [c \in Gc |-> {}] /\ pending = [c \in Gc |-> {}]
  /\ document = [c \in Gc |-> {}]

Enter(c, p) == phase' = [phase EXCEPT ![c] = p]
InProgress(c) == phase[c] \in Working

------------------------------------------------------------------------------
(* Selection: pure functions of the indexed run ids *)

Members(ids, g) == {r \in ids : GroupOf[r] = g}
GroupsOf(ids) == {GroupOf[r] : r \in ids}

\* last_started_at: the newest started_at of the group, 0 when all are NULL.
LastStarted(ids, g) ==
  CHOOSE t \in {Started[r] : r \in Members(ids, g)} :
    \A r \in Members(ids, g) : Started[r] <= t

\* mutant: groups of unknown age sort last and count as the oldest
Rankable_All(ids) == GroupsOf(ids)

\* Only groups of known age are ranked.  (A started_at that is no timestamp is
\* not among Started: the program writes them itself.)
Rankable(ids) == {g \in GroupsOf(ids) : LastStarted(ids, g) # 0}

\* mutant: sorted oldest first
Before_OldestFirst(ids, g, h) == LastStarted(ids, g) < LastStarted(ids, h)

\* Newest first, ties by name.
Before(ids, g, h) ==
  \/ LastStarted(ids, g) > LastStarted(ids, h)
  \/ LastStarted(ids, g) = LastStarted(ids, h) /\ Rank[g] < Rank[h]

\* _select_groups' delete list.
Selected(q, ids) ==
  CASE q.kind = "run_group" -> q.names
    [] q.kind = "keep_last" ->
         {g \in Rankable(ids) :
            Cardinality({h \in Rankable(ids) : Before(ids, h, g)}) >= q.bound}
    [] q.kind = "keep_days" ->
         {g \in Rankable(ids) : LastStarted(ids, g) < q.bound}

Missing(q, ids) == q.kind = "run_group" /\ ~(q.names \subseteq GroupsOf(ids))

\* _group_escape_reason: an artifact row or a run.json points elsewhere.
Escapes(groups, ids, trees) ==
  \E r \in Outside : /\ GroupOf[r] \in groups
                     /\ r \in trees \/ (r \in ids /\ "artifact" \in kids[r])

\* mutant: the guard is dropped
WouldEmpty_Never(q, groups, ids) == FALSE

\* Neither a kept group nor one of unknown age would remain.
WouldEmpty(q, groups, ids) ==
  groups # {} /\ GroupsOf(ids) \subseteq groups /\ ~q.allow_empty

Refuses(q, ids, trees) ==
  \/ Missing(q, ids)
  \/ Escapes(Selected(q, ids), ids, trees)
  \/ WouldEmpty(q, Selected(q, ids), ids)

------------------------------------------------------------------------------
(* The command *)

StartGc(c) ==
  /\ phase[c] = "idle"
  /\ Overlap \/ \A d \in Gc : ~InProgress(d)
  /\ Enter(c, "index")
  /\ UNCHANGED <<store, request, index, found, chosen, pending, document>>

LoadIndex(c) ==
  /\ phase[c] = "index"
  /\ index' = [index EXCEPT ![c] = Recorded]
  /\ Enter(c, "discover")
  /\ UNCHANGED <<store, request, found, chosen, pending, document>>

\* Any tree whose run.json names a group, whether or not its run is indexed.
Discover(c) ==
  /\ phase[c] = "discover"
  /\ found' = [found EXCEPT ![c] = {r \in Run : tree[r] = "attributed"}]
  /\ Enter(c, "select")
  /\ UNCHANGED <<store, request, index, chosen, pending, document>>

Refuse(c) ==
  /\ phase[c] = "select"
  /\ Refuses(request[c], index[c], found[c])
  /\ Enter(c, "refused")
  /\ UNCHANGED <<store, request, index, found, chosen, pending, document>>

\* A dry run and an empty selection end here, with nothing written.
Select(c) ==
  LET q == request[c]
      groups == Selected(q, index[c])
  IN  /\ phase[c] = "select"
      /\ ~Refuses(q, index[c], found[c])
      /\ chosen' = [chosen EXCEPT ![c] = groups]
      /\ Enter(c, IF q.apply /\ groups # {} THEN "delete" ELSE "done")
      /\ UNCHANGED <<store, request, index, found, pending, document>>

Doomed(c) == {r \in index[c] : GroupOf[r] \in chosen[c]}

TreesOf(c) == {r \in found[c] : GroupOf[r] \in chosen[c]}

DeleteRows(c) ==
  /\ phase[c] = "delete"
  /\ DeleteRuns(Doomed(c))
  /\ pending' = [pending EXCEPT ![c] = TreesOf(c)]
  /\ Enter(c, "trees")
  /\ UNCHANGED <<tree, report, request, index, found, chosen, document>>

\* mutant: the worklist does not get shorter
Remaining_Forgotten(c, r) == pending[c]

Remaining(c, r) == pending[c] \ {r}

\* shutil.rmtree(ignore_errors=True): what it cannot delete stays, silently.
RemoveTree(c) ==
  /\ phase[c] = "trees"
  /\ \E r \in pending[c], left \in TreeState :
       /\ tree[r] = "none" => left = "none"
       /\ tree[r] = "partial" => left # "attributed"
       /\ tree' = [tree EXCEPT ![r] = left]
       /\ pending' = [pending EXCEPT ![c] = Remaining(c, r)]
  /\ UNCHANGED <<row, kids, report, phase, request, index, found, chosen,
                 document>>

TreesRemoved(c) ==
  /\ phase[c] = "trees" /\ pending[c] = {}
  /\ Enter(c, "vacuum")
  /\ UNCHANGED <<store, request, index, found, chosen, pending, document>>

\* VACUUM and the checkpoint; they raise when the database is locked or the
\* disk is full, and nothing catches it.
Vacuum(c) ==
  /\ phase[c] = "vacuum"
  /\ \E p \in {"read_report", "error"} : Enter(c, p)
  /\ UNCHANGED <<store, request, index, found, chosen, pending, document>>

EventOf(c) == [gc |-> c, runs |-> Doomed(c), groups |-> chosen[c]]

\* mutant: starts a new document each time
Known_Fresh(c) == {}

Known(c) == report

ReadReport(c) ==
  /\ phase[c] = "read_report"
  /\ document' = [document EXCEPT ![c] = Known(c)]
  /\ Enter(c, "write_report")
  /\ UNCHANGED <<store, request, index, found, chosen, pending>>

\* Temporary file and os.replace.
WriteReport(c) ==
  /\ phase[c] = "write_report"
  /\ report' = document[c] \cup {EventOf(c)}
  /\ Enter(c, "done")
  /\ UNCHANGED <<row, kids, tree, request, index, found, chosen, pending,
                 document>>

Kill(c) ==
  /\ InProgress(c)
  /\ Enter(c, "killed")
  /\ UNCHANGED <<store, request, index, found, chosen, pending, document>>

GcStep(c) ==
  \/ LoadIndex(c) \/ Discover(c) \/ Refuse(c) \/ Select(c) \/ DeleteRows(c)
  \/ RemoveTree(c) \/ TreesRemoved(c) \/ Vacuum(c) \/ ReadReport(c)
  \/ WriteReport(c)
==============================================================================
