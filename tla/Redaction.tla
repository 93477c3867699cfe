------------------------------ MODULE Redaction ------------------------------
(***************************************************************************)
(* `nlfr redact` over an evidence directory: --check reports what the      *)
(* detectors find, a write leaves a redacted mirror, and a check of the    *)
(* mirror is the gate before it is shared.  A file is a tree of JSON nodes *)
(* (a text file is one string), walked with its children before a node,    *)
(* string by string, span by span.  Recording goes on beside the commands  *)
(* and any command may be killed.                                          *)
(***************************************************************************)
EXTENDS RedactionText, FiniteSets

CONSTANTS Name,         \* file names, numbered in sorted order
          Start,        \* the evidence directories to begin with
          Version,      \* contents a recording may give a file meanwhile
          Absent,       \* no such file
          MaxCommands,  \* bound: redact commands
          MaxChanges    \* bound: changes of the evidence

\* A node: up is its parent, 0 for the root, and parents come first.  label is
\* the object's redaction_state ("none": it carries none), key one token that
\* stands for its key, credential that the key is credential-ish.
Label == {"none", "safe", "unknown", "redacted", "blocked"}
Node == [up : Nat, is : {"string", "list", "object"}, text : Seq(Token),
         label : Label, key : Token, credential : BOOLEAN]

Kind == {"json", "text", "binary", "database", "symlink"}
File == [kind : Kind, nodes : Seq(Node)]

\* Parents come first and are no strings; only an object carries a label.
Tree(ns) ==
  \A n \in DOMAIN ns :
    /\ ns[n].up < n /\ (ns[n].up # 0 => ns[ns[n].up].is # "string")
    /\ ns[n].is # "object" => ns[n].label = "none"

ASSUME RedactionAssumption ==
  /\ Name \subseteq Nat
  /\ Start \subseteq [Name -> File \cup {Absent}]
  /\ Version \subseteq File \cup {Absent} /\ Absent \notin File
  /\ \A f \in (Version \cup UNION {{d[n] : n \in Name} : d \in Start}) \ {Absent} :
       Tree(f.nodes) /\ \A m \in DOMAIN f.nodes : WellFormed(f.nodes[m].text)
  /\ MaxCommands \in Nat /\ MaxChanges \in Nat

VARIABLES evidence,  \* the directory
          mirror,    \* the output directory, whatever earlier commands left
          task,      \* the command: what it scans and its options
          pc,        \* "idle", "files", "walk" or "spans"
          files,     \* files of the walk still to be read, fixed at the start
          file,      \* the file being scanned
          body,      \* its contents, rewritten as far as the walk has come
          left,      \* its nodes still to be left
          tainted,   \* nodes whose redacted_in_scope flag went up
          open,      \* candidates of the string at hand still to be considered
          chosen,    \* spans of it chosen so far
          found,     \* findings of the command
          source,    \* history: the contents as they were read
          origin,    \* history: what each file of the mirror was written from
          commands, changes

walkVars == <<file, body, left, tainted, source>>
vars == <<evidence, mirror, task, pc, files, walkVars, open, chosen, found,
          origin, commands, changes>>

Format == {"auto", "json", "text"}

\* pii: the default options, otherwise --no-pii; format: --format, or no such option.
Task == [over : {"evidence", "mirror"}, check : BOOLEAN, pii : BOOLEAN,
         format : Format]

\* How a file of the mirror was written.
Written == [from : File, pii : BOOLEAN, format : Format]

Nothing == [kind |-> "text", nodes |-> <<>>]

Init ==
  /\ evidence \in Start
  /\ mirror = [n \in Name |-> Absent] /\ origin = [n \in Name |-> Absent]
  /\ task = [over |-> "evidence", check |-> TRUE, pii |-> TRUE, format |-> "auto"]
  /\ pc = "idle" /\ files = {} /\ file = 0 /\ body = Nothing /\ source = Nothing
  /\ left = {} /\ tainted = {} /\ open = {} /\ chosen = {} /\ found = {}
  /\ commands = 0 /\ changes = 0

------------------------------------------------------------------------------
(* A directory, file by file *)

Scanned(t) == IF t.over = "mirror" THEN mirror ELSE evidence

\* _walk_tree: every entry that is there now.
Begin ==
  /\ pc = "idle" /\ commands < MaxCommands
  /\ commands' = commands + 1
  /\ task' \in {t \in Task : ~t.check => t.over = "evidence"}
  /\ files' = {n \in Name : Scanned(task')[n] # Absent}
  /\ pc' = "files" /\ found' = {}
  /\ UNCHANGED <<evidence, mirror, walkVars, open, chosen, origin, changes>>

\* _classify: the sniff of binaries and databases outranks --format; links are
\* set apart by the walk; a file --format json cannot parse is passed over.
Skipped(f) ==
  \/ f.kind \in {"binary", "database", "symlink"}
  \/ task.format = "json" /\ f.kind = "text"

\* With --format text a JSON file is scanned as one text: its keys are rewritten
\* like everything else, no key gives a value a context and no label changes.
\* (What reaches from one string into the next is left out: strings are apart.)
AsText(how) == how.format = "text"

\* Whether the key makes a long value a secret; as text it is the marker or nothing.
Context(node, how) == IF AsText(how) THEN node.key = "marker" ELSE node.credential

\* A file that went away since the walk raises, and the command ends there.
OpenFile ==
  /\ pc = "files"
  /\ \E n \in files :
       LET f == Scanned(task)[n]
       IN  /\ \A m \in files : n <= m
           /\ files' = files \ {n}
           /\ IF f = Absent THEN pc' = "idle" /\ UNCHANGED walkVars
              ELSE IF Skipped(f) THEN UNCHANGED <<pc, walkVars>>
              ELSE /\ pc' = "walk" /\ file' = n /\ body' = f /\ source' = f
                   /\ left' = DOMAIN f.nodes /\ tainted' = {}
  /\ UNCHANGED <<evidence, mirror, task, open, chosen, found, origin, commands,
                 changes>>

\* The mirror gets the rewritten file, over whatever was there.
CloseFile ==
  /\ pc = "walk" /\ left = {}
  /\ IF task.check THEN UNCHANGED <<mirror, origin>>
     ELSE /\ mirror' = [mirror EXCEPT ![file] = body]
          /\ origin' = [origin EXCEPT ![file] = [from |-> source, pii |-> task.pii,
                                                format |-> task.format]]
  /\ pc' = "files"
  /\ UNCHANGED <<evidence, task, files, walkVars, open, chosen, found, commands,
                 changes>>

Finish ==
  /\ pc = "files" /\ files = {} /\ pc' = "idle"
  /\ UNCHANGED <<evidence, mirror, task, files, walkVars, open, chosen, found,
                 origin, commands, changes>>

------------------------------------------------------------------------------
(* A file, node by node: walk() *)

Children(n) == {m \in DOMAIN body.nodes : body.nodes[m].up = n}

\* A node is left after everything below it, siblings in order.
AtNode(n, is) ==
  LET ripe == {m \in left : Children(m) \cap left = {}}
  IN  /\ pc = "walk" /\ n \in ripe /\ \A m \in ripe : n <= m
      /\ body.nodes[n].is = is

Finding(n, place, span) == [file |-> file, node |-> n, place |-> place, span |-> span]

Key(n) == <<body.nodes[n].key>>
KeySpans(n) == {s \in Candidates(Key(n), FALSE, task.pii) : ~Contained(Key(n), s)}

\* _scan_key: a key that looks like a secret is reported, and rewritten only as text.
KeyFindings(n) == {Finding(n, "key", s) : s \in KeySpans(n)}

KeyScanned(n) ==
  IF AsText(task) /\ ~task.check /\ KeySpans(n) # {}
    THEN [body EXCEPT !.nodes[n].key = Mark[(CHOOSE s \in KeySpans(n) : TRUE).by]]
  ELSE body

\* _resolve_spans: the candidates that are not inside a placeholder.
Text(n) == body.nodes[n].text
CandidatesOf(n) == Candidates(Text(n), Context(body.nodes[n], task), task.pii)

EnterString(n) ==
  /\ AtNode(n, "string")
  /\ open' = {s \in CandidatesOf(n) : ~Contained(Text(n), s)}
  /\ chosen' = {}
  /\ found' = found \cup KeyFindings(n)
  /\ pc' = "spans"
  /\ UNCHANGED <<evidence, mirror, task, files, walkVars, origin, commands,
                 changes>>

\* The string under resolution is the one that would be entered next.
Current ==
  LET ripe == {m \in left : Children(m) \cap left = {}}
  IN  CHOOSE n \in ripe : \A m \in ripe : n <= m

\* mutant: only the start of the last choice counts
Free_ByStart(s) == \A c \in chosen : s.from > c.from

\* start >= last_end
Free(s) == \A c \in chosen : s.from > c.to

Consider(s) ==
  /\ pc = "spans" /\ s \in open
  /\ \A t \in open \ {s} : Earlier(s, t)
  /\ open' = open \ {s}
  /\ chosen' = IF Free(s) THEN chosen \cup {s} ELSE chosen
  /\ UNCHANGED <<evidence, mirror, task, pc, files, walkVars, found, origin,
                 commands, changes>>

\* Each chosen span is a finding; only a write rewrites the string.
LeaveString ==
  /\ pc = "spans" /\ open = {}
  /\ found' = found \cup {Finding(Current, "value", s) : s \in chosen}
  /\ body' = IF task.check THEN body
             ELSE [KeyScanned(Current) EXCEPT !.nodes[Current].text = Rewritten(@, chosen)]
  /\ tainted' = IF chosen = {} THEN tainted ELSE tainted \cup {Current}
  /\ left' = left \ {Current}
  /\ pc' = "walk"
  /\ UNCHANGED <<evidence, mirror, task, files, file, source, open, chosen,
                 origin, commands, changes>>

RaisesFlag(n) == ~AsText(task) /\ Children(n) \cap tainted # {}

LeaveList(n) ==
  /\ AtNode(n, "list")
  /\ tainted' = IF RaisesFlag(n) THEN tainted \cup {n} ELSE tainted
  /\ left' = left \ {n}
  /\ found' = found \cup KeyFindings(n)
  /\ body' = KeyScanned(n)
  /\ UNCHANGED <<evidence, mirror, task, pc, files, file, source, open, chosen,
                 origin, commands, changes>>

\* _UPGRADEABLE_STATES
Upgraded(label) == IF label \in {"safe", "unknown"} THEN "redacted" ELSE label

\* mutant: the flag goes up through an object that has a label
Bubbles_Always(n) == RaisesFlag(n)

\* An object that carries a label owns what is redacted in its scope.
Bubbles(n) == RaisesFlag(n) /\ body.nodes[n].label = "none"

LeaveObject(n) ==
  /\ AtNode(n, "object")
  /\ tainted' = IF Bubbles(n) THEN tainted \cup {n} ELSE tainted
  /\ body' = IF RaisesFlag(n) /\ ~task.check /\ body.nodes[n].label # "none"
               THEN [body EXCEPT !.nodes[n].label = Upgraded(@)] ELSE KeyScanned(n)
  /\ left' = left \ {n}
  /\ found' = found \cup KeyFindings(n)
  /\ UNCHANGED <<evidence, mirror, task, pc, files, file, source, open, chosen,
                 origin, commands, changes>>

------------------------------------------------------------------------------
Walk ==
  \/ \E n \in left : EnterString(n) \/ LeaveList(n) \/ LeaveObject(n)
  \/ \E s \in open : Consider(s)
  \/ LeaveString

Kill ==
  /\ pc # "idle" /\ pc' = "idle"
  /\ UNCHANGED <<evidence, mirror, task, files, walkVars, open, chosen, found,
                 origin, commands, changes>>

\* A recording adds, grows or replaces a file; a clean-up takes one away.
Record ==
  /\ changes < MaxChanges /\ changes' = changes + 1
  /\ \E n \in Name, v \in Version : evidence' = [evidence EXCEPT ![n] = v]
  /\ UNCHANGED <<mirror, task, pc, files, walkVars, open, chosen, found, origin,
                 commands>>

Next == Begin \/ OpenFile \/ CloseFile \/ Finish \/ Walk \/ Kill \/ Record

Spec == Init /\ [][Next]_vars

------------------------------------------------------------------------------
\* The evidence, the mirror and what a command has in hand of them are documents.
TypeOK ==
  /\ evidence \in [Name -> File \cup {Absent}]
  /\ mirror \in [Name -> File \cup {Absent}] /\ body \in File /\ source \in File
  /\ task \in Task /\ pc \in {"idle", "files", "walk", "spans"}
  /\ files \subseteq Name /\ (pc \in {"walk", "spans"} => file \in Name)
  /\ left \subseteq DOMAIN body.nodes /\ tainted \subseteq DOMAIN body.nodes
  /\ origin \in [Name -> Written \cup {Absent}]
  /\ commands \in 0..MaxCommands /\ changes \in 0..MaxChanges

Overlap(s, t) == s.from <= t.to /\ t.from <= s.to
InsidePlaceholder(text, s) == s.from = s.to /\ text[s.from] \in Placeholder

\* The spans chosen of a string never overlap, so each is replaced on its own;
\* and every candidate is accounted for: unless all of it is a placeholder the
\* engine wrote, some chosen span that starts no later reaches into it.  (What
\* becomes of the text in the span is Replacement's: abs_path copies the name,
\* and whatever is in it.)
SpansHold ==
  pc = "spans" =>
    /\ \A s, t \in chosen : Overlap(s, t) => s = t
    /\ \A s \in CandidatesOf(Current) \ open :
         \/ InsidePlaceholder(Text(Current), s)
         \/ \E c \in chosen : c.from <= s.from /\ Overlap(c, s)

\* The object whose label answers for each node: the nearest one above it that
\* carries a label, 0 if there is none.
Owners(ns) ==
  LET owner[n \in DOMAIN ns] ==
        LET u == ns[n].up
        IN  IF u = 0 \/ ns[u].label # "none" THEN u ELSE owner[u]
  IN  owner

\* In the mirror an object that was safe or unknown says redacted exactly when a
\* string it answers for was rewritten, however deep and through whatever lists;
\* blocked stays blocked, and no object answers for another one's strings.  A
\* document written with --format text keeps every label it had.
LabelsTellRedaction ==
  \A f \in Name : mirror[f] # Absent =>
    LET was == origin[f].from.nodes
        is == mirror[f].nodes
    IN  \A n \in DOMAIN was :
          is[n].label =
            IF /\ ~AsText(origin[f]) /\ was[n].label \in {"safe", "unknown"}
               /\ \E m \in DOMAIN was : /\ Owners(was)[m] = n
                                        /\ is[m].text # was[m].text
              THEN "redacted" ELSE was[n].label

\* A userinfo around a mark: the mark, or its colon, takes part in it.
Engulfs(text, s) ==
  /\ s.by = "url_credentials" /\ s.from < s.to
  /\ \E i \in s.from..s.to : text[i] \in Placeholder \cup {Mark["home_path"]}

\* In the name that abs_path kept.
InKeptName(text, s) ==
  \E k \in 1..(s.from - 1) :
    text[k] = "/" /\ \A i \in (k + 1)..s.to : text[i] \in Basename

\* The rest of a path, whose name is a mark now.
Reopened(text, s) ==
  /\ s.by \in {"home_path", "abs_path"}
  /\ At(text, s.from + 1, Placeholder \cup {Mark["home_path"]})

\* What the gate still refuses of what a write left, like the scan of the write
\* that left it (a check of the mirror, no detector the write had off, the files
\* read as what the write read them as): nothing but keys, which are reported and
\* not rewritten; userinfo that takes in a mark; what a path's kept name is; and
\* a path that a mark has become the name of.
GateAccepts ==
  \A x \in found :
    LET text == mirror[x.file].nodes[x.node].text
    IN  /\ task.over = "mirror" /\ x.place = "value"
        /\ task.pii => origin[x.file].pii
        /\ AsText(task) = AsText(origin[x.file])
        => Engulfs(text, x.span) \/ InKeptName(text, x.span) \/ Reopened(text, x.span)
==============================================================================
