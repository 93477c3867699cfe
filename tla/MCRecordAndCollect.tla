-------------------------- MODULE MCRecordAndCollect --------------------------
EXTENDS RecordAndCollect

CONSTANTS r1, r2, r3, r4

\* Three groups: "a" holds an old run and the one being recorded, "b" a newer
\* run, "u" a run without a timestamp.
MCGroupOf == [r \in Run |-> CASE r = r2 -> "b" [] r = r3 -> "u" [] OTHER -> "a"]
MCStarted == [r \in Run |-> CASE r = r1 -> 1 [] r = r2 -> 2 [] r = r3 -> 0
                              [] OTHER -> 3]
MCRank == [g \in Group |-> CASE g = "a" -> 1 [] g = "b" -> 2 [] OTHER -> 3]

Ask(kind, names, bound, allow) ==
  [kind |-> kind, names |-> names, bound |-> bound, apply |-> TRUE,
   allow_empty |-> allow]

KeepLast(n) == Ask("keep_last", {}, n, FALSE)
KeepSince(t) == Ask("keep_days", {}, t, FALSE)
Named(groups) == Ask("run_group", groups, 0, FALSE)
DryRun(q) == [q EXCEPT !.apply = FALSE]

\* While one run of group "a" is being recorded.
OneGc == {KeepLast(1), Named({"a"})}

\* Collections that follow one another.
Series == {KeepLast(1), KeepSince(2), KeepSince(3), Named({"a"}),
           Named({"b", "u"}), DryRun(KeepLast(1))}
==============================================================================
