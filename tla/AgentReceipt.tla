------------------------------ MODULE AgentReceipt ------------------------------
(***************************************************************************)
(* Receipts of one call of an agent's command line tool: what `nlfr        *)
(* agent-invoke` makes of the tool's exit code and output, for the three   *)
(* families of tools, and what a reader of the receipt accepts of it.      *)
(*                                                                         *)
(* Texts, model names and session ids are opaque; Nothing is an absent     *)
(* field.  An attempt is [family, name, ran, exit, stdout]; its stdout is  *)
(* Nothing when it does not parse; a document for claude and gemini,       *)
(* [response, session, tokens, error, code] and claude's usage, where      *)
(* tokens maps each model named to its counts, [input, gross, cached]; and *)
(* for codex the events, [type, thread, model, text, input, gross, cached, *)
(* message].  A field of the wrong type, or a code of 0, is Nothing too.   *)
(***************************************************************************)
EXTENDS Integers, Sequences, FiniteSetsExt

CONSTANTS Nothing

Live == {"claude", "gemini", "codex"}

\* The outputs that are told apart.  A document names finitely many models.  Every
\* event of codex is a record of all the fields; one that its type does not have (a
\* model but in a thread's or a turn's, tokens but at the end of a turn) is void.
Numbers(c) == c.gross \in Int /\ c.cached \in Int /\ c.input \in Int \cup {Nothing}

Document(out) ==
  /\ out.error \in BOOLEAN
  /\ IsFiniteSet(DOMAIN out.tokens) /\ \A m \in DOMAIN out.tokens : Numbers(out.tokens[m])

Naming == {"thread.started", "turn.started", "turn.completed"}

EventStream(events) ==
  /\ Len(events) \in Nat /\ DOMAIN events = 1..Len(events)
  /\ \A i \in DOMAIN events :
       /\ Numbers(events[i])
       /\ events[i].input = Nothing
       /\ events[i].type \notin Naming => events[i].model = Nothing
       /\ events[i].type # "turn.completed" => events[i].gross = 0 /\ events[i].cached = 0

\* Cached tokens are reported by themselves: the input is counted without them,
\* unless the tool states it.
Net(c) ==
  LET net == IF c.input = Nothing THEN c.gross - c.cached ELSE c.input
  IN  IF net > 0 THEN net ELSE 0

Parsed(response, models, session, input, cached) ==
  [response |-> response, models |-> models, session |-> session,
   input |-> input, cached |-> cached]

\* Claude names the models it used and counts its input without the cache itself.
NormalizeClaude(out) ==
  Parsed(out.response, DOMAIN out.tokens, out.session, out.usage.input, out.usage.cached)

\* Gemini counts per model, the cached tokens with the others.
NormalizeGemini(out) ==
  Parsed(out.response, DOMAIN out.tokens, out.session,
         MapThenSumSet(LAMBDA m : Net(out.tokens[m]), DOMAIN out.tokens),
         MapThenSumSet(LAMBDA m : out.tokens[m].cached, DOMAIN out.tokens))

(* The event stream of codex *)

Of(events, types) == {i \in DOMAIN events : events[i].type \in types}

Attested(events) ==
  {events[i].model : i \in Of(events, Naming)} \ {Nothing}

Threads(events) == {i \in Of(events, {"thread.started"}) : events[i].thread # Nothing}

\* The last message of the agent that has a text is its answer.
LastMessage(events) ==
  LET said == {i \in Of(events, {"agent_message"}) : events[i].text # Nothing}
  IN  IF said = {} THEN Nothing ELSE events[Max(said)].text

NormalizeCodex(events) ==
  LET turns == Of(events, {"turn.completed"})
  IN  Parsed(LastMessage(events), Attested(events),
             IF Threads(events) = {} THEN Nothing
                                     ELSE events[Min(Threads(events))].thread,
             MapThenSumSet(LAMBDA i : Net(events[i]), turns),
             MapThenSumSet(LAMBDA i : events[i].cached, turns))

\* "item_error" is a completed item of the type error.
Complaints == {"turn.failed", "error", "item_error"}

\* The first message of a turn.failed tells the error, else the first of an error
\* event or item.
ErrorMessage(events) ==
  LET says(types) == {i \in Of(events, types) : events[i].message # Nothing}
      by == IF says({"turn.failed"}) # {} THEN says({"turn.failed"}) ELSE says(Complaints)
  IN  IF by = {} THEN Nothing ELSE events[Min(by)].message

\* A message that is JSON has a status; plain text has none.
CodexError(events) ==
  IF ErrorMessage(events) \in {Nothing, "plain"} THEN Nothing ELSE ErrorMessage(events)

------------------------------------------------------------------------------
(* nlfr agent-invoke *)

Normalized(try) ==
  IF try.stdout = Nothing THEN Parsed(Nothing, {}, Nothing, Nothing, Nothing)
  ELSE CASE try.family = "codex" -> NormalizeCodex(try.stdout)
         [] try.family = "gemini" -> NormalizeGemini(try.stdout)
         [] OTHER -> NormalizeClaude(try.stdout)

ErrorSignal(try) ==
  IF try.family = "codex"
    THEN [error |-> Of(try.stdout, Complaints) # {},
          code |-> CodexError(try.stdout)]
    ELSE [error |-> try.stdout.error, code |-> try.stdout.code]

\* What the call looks like from outside.
Asked(try) ==
  IF ~try.ran THEN "environment_blocker"
  ELSE IF try.stdout = Nothing THEN "invalid_output"
  ELSE LET signal == ErrorSignal(try)
       IN  IF ~signal.error /\ try.exit = 0 THEN "success"
           ELSE IF signal.code # Nothing THEN "api_error" ELSE "cli_error"

\* mutant: several models in one answer resolve to one of them
Resolved_Any(models) == IF models = {} THEN Nothing ELSE CHOOSE m \in models : TRUE

\* More than one model in an answer is no model.
Resolved(models) == IF Cardinality(models) = 1 THEN CHOOSE m \in models : TRUE ELSE Nothing

\* A success without a response, one model and a session is none.
BuildReceipt(try) ==
  LET parsed == Normalized(try)
      model == Resolved(parsed.models)
      status == IF Asked(try) = "success"
                   /\ Nothing \in {parsed.response, model, parsed.session}
                THEN "invalid_output" ELSE Asked(try)
  IN  [status |-> status, name |-> try.name, response |-> parsed.response,
       model |-> model, session |-> parsed.session,
       input |-> parsed.input, cached |-> parsed.cached,
       source_kind |-> IF status = "success" /\ try.name \notin Live
                       THEN "simulated_v1" ELSE "collectable_v1"]

\* validate_receipt: whoever wrote the file.
ValidReceipt(receipt) ==
  receipt.status = "success" =>
    Nothing \notin {receipt.response, receipt.model, receipt.session}

\* A success of a tool that is none of the three by name is a stub's.
IsLiveReceipt(receipt) == receipt.status = "success" /\ receipt.name \in Live

==============================================================================
