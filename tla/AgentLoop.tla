------------------------------ MODULE AgentLoop ------------------------------
(***************************************************************************)
(* `nlfr loop`: call the agent, apply its answer, validate it into a run   *)
(* group of its own, ingest and evaluate the recorded evidence, and branch *)
(* on the verdict's first next step.  The loops of this module share one   *)
(* output directory; an operator may edit its workspace, or delete the    *)
(* target file, meanwhile.                                                 *)
(***************************************************************************)
EXTENDS Evaluator

CONSTANTS Loop,           \* loop commands given the same --output-dir
          MaxIterations,  \* --max-iterations
          MaxEdits,       \* bound: edits of the workspace by others
          Overlap,        \* may a loop start while another one runs?
          Stuck           \* loops whose scratch directory cannot be removed

\* Whoever wrote a file, and which of its writings it is.
Template == [by |-> "template", n |-> 0]
Nobody == [by |-> "nobody", n |-> 0]
Gone == [by |-> "operator", n |-> 0]      \* deleted
Edited(k) == [by |-> "operator", n |-> k]
Answer(l, i) == [by |-> l, n |-> i]

ASSUME LoopAssumption ==
  /\ MaxIterations \in Nat /\ MaxEdits \in Nat /\ Overlap \in BOOLEAN
  /\ Stuck \subseteq Loop
  /\ \A l \in Loop : l \notin {"template", "nobody", "operator"}

VARIABLES dir,       \* the output directory: "empty" or "used"
          workspace, \* content of the target file in <output>/workspace
          edits,     \* edits the operator made
          response,  \* responses/iter<N>-response.md
          after,     \* newest recorded after-hash of run group <prefix>-iter<N>
          red,       \* has that run group a failure row?
          verdict,   \* verdicts/iter<N>-verdict.json
          at,        \* the step each loop is at
          iter,      \* its iteration
          run,       \* the validation run of that iteration
          prior,     \* prior_file_content
          excerpt,   \* evidence_excerpt: the run it was recorded by
          prompt,    \* the newest prompt in the scratch directory
          outcome, exit, compared

shared == <<dir, workspace, edits, response, after, red, verdict>>
locals == <<iter, run, prior, excerpt, prompt, outcome, exit, compared>>
vars == <<shared, at, locals>>

Iteration == 1 .. MaxIterations
Source == [by : Loop, n : Iteration] \cup {Nobody}
Content == Source \cup {Template, Gone} \cup {Edited(k) : k \in 1 .. MaxEdits}

NoPrompt == [prior |-> Nobody, excerpt |-> Nobody, raw |-> FALSE]
Prompt == [prior : Content, excerpt : Source, raw : BOOLEAN]
NoVerdict == [action |-> "none", excerpt |-> Nobody]

\* What `nlfr run` leaves: its status; whether the evidence files Bazel wrote,
\* if any, hold a failure event; what its logs say; the content Bazel built.
NoRun == [status |-> "none", events |-> "none", says |-> {}, built |-> Nobody]
RunStatus == {"completed", "failed", "timeout", "blocked"}
Run == [status : RunStatus \cup {"none"}, events : {"none", "clean", "failure"},
        says : SUBSET Saying, built : Content]

Trying == {"next", "agent", "apply", "validate", "record", "ingest",
           "evaluate", "branch"}
Working == {"check", "mkdirs", "prepare", "compare", "summary"} \cup Trying
Ended == {"exited", "raised", "killed"}

Green == {"green_first_pass", "fixed_and_green"}
Outcome == {"iteration_cap_red", "blocked", "refused"} \cup Green

TypeOK ==
  /\ dir \in {"empty", "used"} /\ workspace \in Content
  /\ edits \in 0 .. MaxEdits
  /\ response \in [Iteration -> Source] /\ after \in [Iteration -> Content]
  /\ red \in [Iteration -> BOOLEAN]
  /\ verdict \in [Iteration -> [action : Action \cup {"none"}, excerpt : Source]]
  /\ at \in [Loop -> {"idle"} \cup Working \cup Ended]
  /\ iter \in [Loop -> 0 .. MaxIterations] /\ run \in [Loop -> Run]
  /\ prior \in [Loop -> Content] /\ excerpt \in [Loop -> Source]
  /\ prompt \in [Loop -> Prompt]
  /\ outcome \in [Loop -> Outcome] /\ exit \in [Loop -> 0 .. 2]
  /\ compared \in [Loop -> BOOLEAN]

Init ==
  /\ dir = "empty" /\ workspace = Nobody /\ edits = 0
  /\ response = [i \in Iteration |-> Nobody]
  /\ after = [i \in Iteration |-> Nobody]
  /\ red = [i \in Iteration |-> FALSE]
  /\ verdict = [i \in Iteration |-> NoVerdict]
  /\ at = [l \in Loop |-> "idle"] /\ iter = [l \in Loop |-> 0]
  /\ run = [l \in Loop |-> NoRun] /\ prior = [l \in Loop |-> Nobody]
  /\ excerpt = [l \in Loop |-> Nobody] /\ prompt = [l \in Loop |-> NoPrompt]
  /\ outcome = [l \in Loop |-> "iteration_cap_red"]
  /\ exit = [l \in Loop |-> 1] /\ compared = [l \in Loop |-> FALSE]

Goto(l, step) == at' = [at EXCEPT ![l] = step]
InProgress(l) == at[l] \in Working

\* The scratch directory, with every raw prompt in it, is removed; a directory
\* that cannot be removed stays, and nothing says so.
DropScratch(l) ==
  prompt' = IF l \in Stuck THEN prompt ELSE [prompt EXCEPT ![l] = NoPrompt]

\* mutant: an exception leaves the scratch directory
OnException_Keep(l) == UNCHANGED prompt

OnException(l) == DropScratch(l)

\* A LoopBlocked: the blocker file is written, the loop left.
Block(l) ==
  /\ outcome' = [outcome EXCEPT ![l] = "blocked"]
  /\ exit' = [exit EXCEPT ![l] = 2]
  /\ DropScratch(l)
  /\ Goto(l, "summary")
  /\ UNCHANGED <<iter, run, prior, excerpt, compared>>

------------------------------------------------------------------------------
(* Before the first iteration *)

Start(l) ==
  /\ at[l] = "idle"
  /\ Overlap \/ \A k \in Loop : ~InProgress(k)
  /\ Goto(l, "check")
  /\ UNCHANGED <<shared, locals>>

MayUse(d) == d = "empty"

Refuse(l) ==
  /\ outcome' = [outcome EXCEPT ![l] = "refused"]
  /\ exit' = [exit EXCEPT ![l] = 2]
  /\ Goto(l, "exited")
  /\ UNCHANGED <<iter, run, prior, excerpt, prompt, compared>>

CheckDir(l) ==
  /\ at[l] = "check"
  /\ IF MayUse(dir) THEN Goto(l, "mkdirs") /\ UNCHANGED locals ELSE Refuse(l)
  /\ UNCHANGED shared

MakeDirs(l) ==
  /\ at[l] = "mkdirs"
  /\ dir' = "used"
  /\ Goto(l, "prepare")
  /\ UNCHANGED <<workspace, edits, response, after, red, verdict, locals>>

\* The template is copied unless a workspace is there; both copying and the
\* scenario's own files may fail.
Prepare(l) ==
  /\ at[l] = "prepare"
  /\ workspace' = IF workspace = Nobody THEN Template ELSE workspace
  /\ Goto(l, "next")
  /\ UNCHANGED <<dir, edits, response, after, red, verdict, locals>>

CannotPrepare(l) == at[l] = "prepare" /\ Refuse(l) /\ UNCHANGED shared

------------------------------------------------------------------------------
(* One iteration *)

PromptOf(l) == [prior |-> prior[l], excerpt |-> excerpt[l], raw |-> TRUE]

Capped(l) == iter[l] >= MaxIterations

\* mutant: a fix is a fresh first iteration
Following_First(l) == 1

Following(l) == iter[l] + 1

CallAgent(l) ==
  /\ at[l] = "next" /\ ~Capped(l)
  /\ iter' = [iter EXCEPT ![l] = Following(l)]
  /\ prompt' = [prompt EXCEPT ![l] = PromptOf(l)]
  /\ Goto(l, "agent")
  /\ UNCHANGED <<shared, run, prior, excerpt, outcome, exit, compared>>

\* The iterations are used up: outcome and exit code are still the initial ones.
ReachCap(l) ==
  /\ at[l] = "next" /\ Capped(l)
  /\ DropScratch(l)
  /\ Goto(l, "summary")
  /\ UNCHANGED <<shared, iter, run, prior, excerpt, outcome, exit, compared>>

\* agent-invoke ends within --agent-timeout, with a response or an exit code.
AgentAnswers(l) ==
  /\ at[l] = "agent"
  /\ response' = [response EXCEPT ![iter[l]] = Answer(l, iter[l])]
  /\ Goto(l, "apply")
  /\ UNCHANGED <<dir, workspace, edits, after, red, verdict, locals>>

AgentFails(l) == at[l] = "agent" /\ Block(l) /\ UNCHANGED shared

Apply(l) ==
  /\ at[l] = "apply"
  /\ workspace' = response[iter[l]]
  /\ Goto(l, "validate")
  /\ UNCHANGED <<dir, edits, response, after, red, verdict, locals>>

\* No fenced code block in the response.
Unusable(l) == at[l] = "apply" /\ Block(l) /\ UNCHANGED shared

\* A failure event comes with a nonzero exit code.  A nonzero exit code need
\* not come with one: the Build Event file may be cut short or missing, and the
\* exit code may be that of the NativeLink process.
CanRun(s, b) == b = "failure" => s # "completed"

Validate(l) ==
  /\ at[l] = "validate"
  /\ \E s \in RunStatus, b \in {"none", "clean", "failure"}, w \in SUBSET Saying :
       /\ CanRun(s, b)
       /\ run' = [run EXCEPT ![l] = [status |-> s, events |-> b, says |-> w,
                                     built |-> workspace]]
  /\ Goto(l, "record")
  /\ UNCHANGED <<shared, iter, prior, excerpt, prompt, outcome, exit, compared>>

\* `nlfr run` gives up before it runs anything: no JSON on stdout.
NoMetadata(l) == at[l] = "validate" /\ Block(l) /\ UNCHANGED shared

\* `nlfr run` hashes --change-path after the validation and prints its status.
\* A file that is gone has no hash, and the newest hash before it still stands.
RecordRun(l) ==
  /\ at[l] = "record"
  /\ after' = IF workspace = Gone THEN after
              ELSE [after EXCEPT ![iter[l]] = workspace]
  /\ UNCHANGED <<dir, workspace, edits, response, red, verdict>>
  /\ IF run[l].status \in {"completed", "failed"}
       THEN Goto(l, "ingest") /\ UNCHANGED locals
       ELSE Block(l)

\* mutant: the failure events are parsed, their rows never written
FailureRows_Lost(l) == red[iter[l]]

\* The failure events become rows of the run group.
FailureRows(l) == red[iter[l]] \/ run[l].events = "failure"

Ingest(l) ==
  /\ at[l] = "ingest" /\ run[l].events # "none"
  /\ red' = [red EXCEPT ![iter[l]] = FailureRows(l)]
  /\ Goto(l, "evaluate")
  /\ UNCHANGED <<dir, workspace, edits, response, after, verdict, locals>>

\* No evidence files, or one that does not parse.
CannotIngest(l) == at[l] = "ingest" /\ Block(l) /\ UNCHANGED shared

\* mutant: the workspace is not compared with the recorded hash
EvidenceOf_NoWorkspace(l) ==
  [failed |-> red[iter[l]], logs |-> TRUE, says |-> run[l].says, pending |-> FALSE]

\* The runner leaves both log files whatever happens.  A recorded path that is
\* no file any more, or never got a hash, is skipped.
EvidenceOf(l) ==
  [failed |-> red[iter[l]], logs |-> TRUE, says |-> run[l].says,
   pending |-> workspace \notin {Gone, after[iter[l]]} /\ after[iter[l]] # Nobody]

Evaluate(l) ==
  /\ at[l] = "evaluate"
  /\ LET e == EvidenceOf(l)
         v == [action |-> FirstStep(e),
               excerpt |-> IF HasExcerpt(e) THEN Answer(l, iter[l]) ELSE Nobody]
     IN  verdict' = [verdict EXCEPT ![iter[l]] = v]
  /\ Goto(l, "branch")
  /\ UNCHANGED <<dir, workspace, edits, response, after, red, locals>>

\* Exit code 2 of `nlfr evaluate`, or an exception in it.
CannotEvaluate(l) == at[l] = "evaluate" /\ Block(l) /\ UNCHANGED shared

------------------------------------------------------------------------------
(* Branch on next_steps[0].action *)

Demands(l) == verdict[iter[l]].action

Fixable(a) == a = "dispatch_fix_with_evidence"

DispatchFix(l) ==
  /\ at[l] = "branch" /\ Fixable(Demands(l)) /\ workspace # Gone
  /\ prior' = [prior EXCEPT ![l] = workspace]
  /\ excerpt' = [excerpt EXCEPT ![l] = verdict[iter[l]].excerpt]
  /\ Goto(l, "next")
  /\ UNCHANGED <<shared, iter, run, prompt, outcome, exit, compared>>

\* The target file cannot be read back: nothing handles that.
CannotReadFix(l) ==
  /\ at[l] = "branch" /\ Fixable(Demands(l)) /\ workspace = Gone
  /\ OnException(l)
  /\ Goto(l, "raised")
  /\ UNCHANGED <<shared, iter, run, prior, excerpt, outcome, exit, compared>>

Complete(l) == Demands(l) = "none_complete"

\* mutant: the loop is not left on success
AfterSuccess_GoesOn(l) == "next"

AfterSuccess(l) == IF iter[l] > 1 THEN "compare" ELSE "summary"

Succeed(l) ==
  /\ at[l] = "branch" /\ Complete(l)
  /\ outcome' = [outcome EXCEPT ![l] = IF iter[l] > 1 THEN "fixed_and_green"
                                                      ELSE "green_first_pass"]
  /\ exit' = [exit EXCEPT ![l] = 0]
  /\ DropScratch(l)
  /\ Goto(l, AfterSuccess(l))
  /\ UNCHANGED <<shared, iter, run, prior, excerpt, compared>>

\* An environment blocker, or evidence too degraded to go on.
StopHonestly(l) ==
  /\ at[l] = "branch" /\ ~Complete(l) /\ ~Fixable(Demands(l))
  /\ Block(l)
  /\ UNCHANGED shared

------------------------------------------------------------------------------
(* After the loop *)

\* mutant: a compare that failed is only left out of the summary
CompareOutcome_Ignored(l, ok) ==
  /\ compared' = [compared EXCEPT ![l] = ok]
  /\ UNCHANGED <<outcome, exit>>

CompareOutcome(l, ok) ==
  /\ compared' = [compared EXCEPT ![l] = ok]
  /\ outcome' = IF ok THEN outcome ELSE [outcome EXCEPT ![l] = "blocked"]
  /\ exit' = IF ok THEN exit ELSE [exit EXCEPT ![l] = 2]

ExportCompare(l) ==
  /\ at[l] = "compare"
  /\ \E ok \in BOOLEAN : CompareOutcome(l, ok)
  /\ Goto(l, "summary")
  /\ UNCHANGED <<shared, iter, run, prior, excerpt, prompt>>

WriteSummary(l) ==
  /\ at[l] = "summary"
  /\ Goto(l, "exited")
  /\ UNCHANGED <<shared, locals>>

\* Ctrl-C or an exception nothing handles: `finally` runs, no summary is written.
Raise(l) ==
  /\ InProgress(l)
  /\ OnException(l)
  /\ Goto(l, "raised")
  /\ UNCHANGED <<shared, iter, run, prior, excerpt, outcome, exit, compared>>

Kill(l) ==
  /\ InProgress(l)
  /\ Goto(l, "killed")
  /\ UNCHANGED <<shared, locals>>

Edit ==
  /\ edits < MaxEdits /\ workspace # Nobody
  /\ edits' = edits + 1
  /\ workspace' \in {Edited(edits + 1), Gone}
  /\ UNCHANGED <<dir, response, after, red, verdict, at, locals>>

LoopStep(l) ==
  \/ CheckDir(l) \/ MakeDirs(l) \/ Prepare(l) \/ CannotPrepare(l)
  \/ CallAgent(l) \/ ReachCap(l) \/ AgentAnswers(l) \/ AgentFails(l)
  \/ Apply(l) \/ Unusable(l) \/ Validate(l) \/ NoMetadata(l) \/ RecordRun(l)
  \/ Ingest(l) \/ CannotIngest(l) \/ Evaluate(l) \/ CannotEvaluate(l)
  \/ DispatchFix(l) \/ CannotReadFix(l) \/ Succeed(l) \/ StopHonestly(l)
  \/ ExportCompare(l) \/ WriteSummary(l)

Next ==
  \/ \E l \in Loop : Start(l) \/ LoopStep(l) \/ Raise(l) \/ Kill(l)
  \/ Edit

Spec == Init /\ [][Next]_vars

\* The process runs; the agent CLI has a timeout and the wrapped Bazel ends.
FairSpec == Spec /\ \A l \in Loop : WF_vars(LoopStep(l))

------------------------------------------------------------------------------
\* Two loops never work in one tree: what one of them records would be read as
\* the other's evidence (loop_cmd.py, run: "a loop run must start from a fresh
\* evidence tree").
InTree(l) == at[l] \in Ended \cup Working /\ iter[l] > 0

FreshTree == \A k, l \in Loop : InTree(k) /\ InTree(l) => k = l

\* A green loop validated the change its agent made last, and the evidence
\* recorded for it holds no failure, whatever earlier iterations recorded.
GreenIsValidated ==
  \A l \in Loop :
    outcome[l] \in Green /\ edits = 0
      => /\ ~red[iter[l]] /\ run[l].events = "clean"
         /\ run[l].built = Answer(l, iter[l]) /\ workspace = run[l].built

\* An edit nobody validated never passes for green or gets a fix dispatched:
\* what is in the workspace when the verdict is made is what the run recorded
\* as its after-state, unless the file is gone by then or was when the run
\* hashed it (evaluator.py, _pending_workspace_edits).
GreenIsSettled ==
  [][\A l \in Loop :
       /\ at[l] = "evaluate" /\ at'[l] = "branch"
       /\ verdict'[iter[l]].action \in {"none_complete", "dispatch_fix_with_evidence"}
       => workspace \in {after[iter[l]], Gone} \/ after[iter[l]] = Nobody]_vars

\* The exit code says what the last verdict said: 0 green and, after a fix,
\* compared; 1 a red that would have been dispatched at the cap.
OutcomeMatchesVerdict ==
  \A l \in Loop :
    at[l] = "exited" =>
      /\ exit[l] = 0 => /\ outcome[l] \in Green /\ iter[l] > 0
                        /\ verdict[iter[l]].action = "none_complete"
                        /\ iter[l] > 1 => compared[l]
      /\ exit[l] = 1 => /\ outcome[l] = "iteration_cap_red"
                        /\ iter[l] = MaxIterations /\ iter[l] > 0
                        /\ Fixable(verdict[iter[l]].action)

\* The agent is called again only for a red of the iteration just validated
\* that names the target and no toolchain signature, and it is handed the
\* excerpt that very run recorded.
DispatchOnEvidence ==
  [][\A l \in Loop :
       at[l] = "next" /\ at'[l] = "agent" /\ iter[l] > 0
         => /\ prompt'[l].excerpt = Answer(l, iter[l])
            /\ run[l].events = "failure" /\ run[l].status = "failed"
            /\ {"target", "marker"} \subseteq run[l].says
            /\ "signature" \notin run[l].says]_vars

\* The prompts are gone when the command returns, by an exception too, unless
\* the scratch directory could not be removed.
PromptsAreGone ==
  \A l \in Loop \ Stuck : at[l] \in {"exited", "raised"} => ~prompt[l].raw

\* A loop that started comes to an end.
LoopsEnd == \A l \in Loop : InProgress(l) ~> at[l] \in Ended

\* The closed-loop contract, for each loop.
Standing(l) ==
  IF at[l] \in {"idle", "check", "mkdirs", "prepare"} THEN "open"
  ELSE IF at[l] = "next" THEN IF iter[l] = 0 THEN "open" ELSE "red"
  ELSE IF at[l] \in Trying THEN "called"
  ELSE IF at[l] \in {"compare", "summary"} /\ exit[l] = 0 THEN "green"
  ELSE IF at[l] = "exited" /\ exit[l] = 0 THEN "accepted"
  ELSE "stopped"

Contract == INSTANCE LoopContract
              WITH standing <- [l \in Loop |-> Standing(l)], calls <- iter,
                   MaxCalls <- MaxIterations

ContractSpec == Contract!Spec

------------------------------------------------------------------------------
\* evaluator.py: "It reads back what the recorder already captured - run
\* status, failures, ..."; its none_complete says "validation is green".
GreenMeansCompleted ==
  \A l \in Loop : outcome[l] \in Green => run[l].status = "completed"
==============================================================================
