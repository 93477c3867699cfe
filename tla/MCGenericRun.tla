------------------------------ MODULE MCGenericRun ------------------------------
EXTENDS GenericRun

\* One path is recorded as a change and is the first output too; the second output
\* has the same label, and so the same key.
MCChangePath == <<"p">>
MCOutput == <<[file |-> "p", key |-> "out"], [file |-> "q", key |-> "out"]>>

\* Two commands with the same executable.
MCExe == <<"sh", "sh">>

MCDisks == {[p |-> "x", q |-> "x"]}

\* The other file is in no commit and nobody claims it.
Sidecar(c, o) == [claim |-> c, object |-> [p |-> o, q |-> Nothing]]
MCSidecars ==
  {Sidecar(Nothing, Nothing), Sidecar([p |-> "none", q |-> "none"], Nothing)}
    \cup {Sidecar([p |-> "x", q |-> "none"], o) : o \in {Nothing, "x", "y", "unresolvable"}}
    \cup {Sidecar([p |-> Nothing, q |-> "none"], o) : o \in {Nothing, "x"}}

------------------------------------------------------------------------------
\* Answers of the three tools

Counts == [input |-> Nothing, gross |-> 3, cached |-> 2]
Stated == [Counts EXCEPT !.input = 4]
ClaudeAnswer ==
  [response |-> "text", session |-> "s", tokens |-> [m \in {"m1"} |-> Counts],
   usage |-> [input |-> 1, cached |-> 2], error |-> FALSE, code |-> Nothing]
GeminiAnswer ==
  [response |-> "text", session |-> "s", tokens |-> [m \in {"m1"} |-> Counts],
   error |-> FALSE, code |-> Nothing]

Event(type) == [type |-> type, thread |-> Nothing, model |-> Nothing, text |-> Nothing,
                input |-> Nothing, gross |-> 0, cached |-> 0, message |-> Nothing]
Thread == [Event("thread.started") EXCEPT !.thread = "s"]
Message(text) == [Event("agent_message") EXCEPT !.text = text]
Turn(model) == [Event("turn.completed") EXCEPT !.model = model, !.gross = 3, !.cached = 2]
Error(type, message) == [Event(type) EXCEPT !.message = message]

Answers ==
  [claude |-> {Nothing, ClaudeAnswer,
               [ClaudeAnswer EXCEPT !.session = Nothing],
               [ClaudeAnswer EXCEPT !.error = TRUE, !.code = "429"]},
   gemini |-> {GeminiAnswer, [GeminiAnswer EXCEPT !.response = Nothing],
               [GeminiAnswer EXCEPT !.tokens = [m \in {"m1", "m2"} |-> Counts]],
               [GeminiAnswer EXCEPT !.tokens = [m \in {"m1"} |-> Stated]],
               [GeminiAnswer EXCEPT !.error = TRUE]},
   codex |-> {<<Thread, Message("text"), Turn(Nothing)>>,
              <<Thread, Turn("m1"), Message("text"), Message("more"), Turn("m1")>>,
              <<Thread, Turn("m1"), Message("text"), Turn("m2")>>,
              <<Message("text"), Turn("m1")>>,
              <<Thread, Turn("m1"), Message("text"), Message(Nothing)>>,
              <<Thread, Turn("m1"), Message("text"), Error("item_error", "plain")>>,
              <<Thread, Turn("m1"), Message("text"), Error("error", "plain"),
                Error("turn.failed", "429")>>}]

Attempt(family, name, out) ==
  [family |-> family, name |-> name, ran |-> TRUE, exit |-> 0, stdout |-> out]

\* Every answer, a stub in the place of a tool, one that exits 1, one that never ran.
MCAttempts ==
  {Attempt(f, f, out) : f \in {"claude"}, out \in Answers.claude}
    \cup {Attempt("gemini", "gemini", out) : out \in Answers.gemini}
    \cup {Attempt("codex", "codex", out) : out \in Answers.codex}
    \cup {Attempt("claude", "stub", ClaudeAnswer),
          [Attempt("gemini", "gemini", GeminiAnswer) EXCEPT !.exit = 1],
          [Attempt("claude", "claude", Nothing) EXCEPT !.ran = FALSE]}

\* A receipt written by hand that is valid, and one that is not.
MCForged ==
  {[BuildReceipt(Attempt("claude", "claude", ClaudeAnswer)) EXCEPT !.model = m] :
     m \in {"m9", Nothing}}
==============================================================================
