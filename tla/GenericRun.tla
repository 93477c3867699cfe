------------------------------- MODULE GenericRun -------------------------------
(***************************************************************************)
(* One `nlfr run --mode generic`: the given commands run in order in a     *)
(* workspace that they and others edit, and the recorder says what changed,*)
(* what each command did, what its outputs were and which agent answered.  *)
(* It hashes, runs and writes one thing at a time, and may be killed       *)
(* anywhere.  Row by row beside a `db gc` the same command is in Recorder. *)
(***************************************************************************)
EXTENDS AgentReceipt

CONSTANTS Content,     \* contents of a file
          File,        \* files of the workspace
          ChangePath,  \* the --change-path options, in their order
          Output,      \* the --artifact options: [file, key], the key made of the label
          Exe,         \* the executable of each --command
          Disks,       \* workspaces to begin with
          Sidecars,    \* [claim, object]: the git_baseline block of a sidecar, Nothing
                       \* without a sidecar, and what git shows at the commits claimed
          Attempts,    \* calls of an agent that may have made the receipt
          Forged,      \* receipts nobody's call made
          MaxEdits,    \* bound: edits of the workspace while the run lasts
          Lingering    \* bound: commands that may leave a process behind

State == {Nothing} \cup Content
Key == {Output[j].key : j \in DOMAIN Output}

ASSUME GenericAssumption ==
  /\ Nothing \notin Content /\ {"none", "unresolvable"} \cap Content = {}
  /\ Disks \subseteq [File -> State]
  /\ Sidecars \subseteq [claim : {Nothing} \cup [File -> State \cup {"none"}],
                       object : [File -> State \cup {"unresolvable"}]]
  /\ ChangePath \in Seq(File) /\ Output \in Seq([file : File, key : STRING])
  /\ Exe \in Seq(STRING) \ {<<>>} /\ MaxEdits \in Nat /\ Lingering \subseteq DOMAIN Exe

ASSUME AttemptsAssumption ==
  \A try \in Attempts :
    /\ try.family \in {"claude", "gemini", "codex"}
    /\ try.stdout # Nothing => IF try.family = "codex" THEN EventStream(try.stdout)
                                                      ELSE Document(try.stdout)

VARIABLES at,        \* the step, and
          pos,       \* which of its commands, paths or outputs is next
          disk,      \* the workspace
          object,    \* what the claimed commits hold
          claim,     \* the sidecar's git_baseline block; Nothing without a sidecar
          before, after, \* the hashes taken
          verdict,   \* what became of each claim
          result,    \* how each command ended so far
          stream,    \* length of each command's output file
          left,      \* commands that left a process behind that still writes
          root,      \* the artifact root: streams as recorded, outputs, JSON files
          receipt,   \* the receipt read, and the attempt that made it
          db,        \* the run's rows
          edits,
          heldBefore, \* history: contents held until the first command began
          heldAfter,  \* history: contents held since the last command ended
          seen       \* history: what each output was when it was looked for

disks == <<disk, edits, heldBefore, heldAfter>>
given == <<object, claim>>
hashes == <<before, after, verdict>>
outcome == <<result, stream, left>>
vars == <<at, pos, disks, given, hashes, outcome, root, receipt, db, seen>>

Outcome == {"completed", "failed", "timeout", "environment_blocker"}

Init ==
  /\ at = "insert" /\ pos = 1
  /\ disk \in Disks /\ edits = 0
  /\ \E s \in Sidecars : claim = s.claim /\ object = s.object
  /\ before = [f \in File |-> Nothing] /\ after = [f \in File |-> Nothing]
  /\ verdict = [f \in File |-> "none"]
  /\ result = <<>> /\ stream = [i \in DOMAIN Exe |-> 0] /\ left = {}
  /\ root = [streams |-> [i \in DOMAIN Exe |-> 0],
             outputs |-> [k \in Key |-> Nothing], json |-> {}]
  /\ receipt = Nothing
  /\ db = [status |-> "none", changes |-> [f \in File |-> Nothing], proof |-> Nothing,
           failures |-> {}, invocations |-> {},
           streams |-> [i \in DOMAIN Exe |-> Nothing],
           outputs |-> [k \in Key |-> Nothing], json |-> {}]
  /\ heldBefore = [f \in File |-> {disk[f]}] /\ heldAfter = [f \in File |-> {}]
  /\ seen = [j \in DOMAIN Output |-> Nothing]

------------------------------------------------------------------------------
(* The order of the steps *)

\* mutant: the files are hashed again before the commands run
Script_HashesFirst ==
  <<"insert", "before", "verify", "after", "run", "changes", "streams", "outputs",
    "run_json", "sidecar", "receipt", "provenance", "proof", "failures",
    "settle", "persist", "artifacts", "done">>

Script ==
  <<"insert", "before", "verify", "run", "after", "changes", "streams", "outputs",
    "run_json", "sidecar", "receipt", "provenance", "proof", "failures",
    "settle", "persist", "artifacts", "done">>

\* How often a step is taken.
Length(step) ==
  CASE step \in {"before", "verify", "after", "changes"} -> Len(ChangePath)
    [] step \in {"run", "streams", "failures", "persist"} -> Len(Exe)
    [] step = "outputs" -> Len(Output)
    [] step \in {"sidecar", "receipt", "provenance", "proof"} ->
         IF claim = Nothing THEN 0 ELSE 1
    [] OTHER -> 1

Place(step) == CHOOSE i \in DOMAIN Script : Script[i] = step
NextStep == Script[Min({i \in DOMAIN Script : i > Place(at) /\ Length(Script[i]) > 0})]

Advance ==
  IF pos < Length(at) THEN pos' = pos + 1 /\ UNCHANGED at
                      ELSE pos' = 1 /\ at' = NextStep

Raise == at' = "died" /\ UNCHANGED pos

InsertRun ==
  /\ at = "insert"
  /\ db' = [db EXCEPT !.status = "running"]
  /\ Advance
  /\ UNCHANGED <<disks, given, hashes, outcome, root, receipt, seen>>

------------------------------------------------------------------------------
(* What changed *)

HashBefore ==
  /\ at = "before"
  /\ before' = [before EXCEPT ![ChangePath[pos]] = disk[ChangePath[pos]]]
  /\ Advance
  /\ UNCHANGED <<disks, given, after, verdict, outcome, root, receipt, db, seen>>

Claimed(f) == IF claim = Nothing THEN "none" ELSE claim[f]

\* _verify_git_baselines: the claim against what git shows at the commit.
Verified(f) ==
  IF Claimed(f) = "none" THEN "none"
  ELSE IF object[f] = "unresolvable" THEN "unverifiable"
  ELSE IF Claimed(f) = object[f] THEN "verified"
  ELSE IF object[f] = Nothing THEN "unverifiable" ELSE "mismatch"

VerifyBaseline ==
  /\ at = "verify"
  /\ verdict' = [verdict EXCEPT ![ChangePath[pos]] = Verified(ChangePath[pos])]
  /\ Advance
  /\ UNCHANGED <<disks, given, before, after, outcome, root, receipt, db, seen>>

HashAfter ==
  /\ at = "after"
  /\ after' = [after EXCEPT ![ChangePath[pos]] = disk[ChangePath[pos]]]
  /\ Advance
  /\ UNCHANGED <<disks, given, before, verdict, outcome, root, receipt, db, seen>>

\* derive_change_details of one path.
ChangeDetail(f) ==
  LET git == verdict[f] = "verified"
      note == IF git THEN IF after[f] # Nothing /\ claim[f] = after[f]
                            THEN "matches baseline" ELSE "none"
              ELSE IF verdict[f] # "none" THEN verdict[f]
              ELSE IF before[f] # after[f] THEN "none"
              ELSE IF before[f] = Nothing THEN "never observed" ELSE "unobservable"
  IN  [before |-> before[f], after |-> after[f],
       basis |-> IF git THEN "git_baseline" ELSE "recorder_window",
       changed |-> after[f] # IF git THEN claim[f] ELSE before[f],
       note |-> note]

\* upsert_change: a path given twice has one row.
RecordChange ==
  /\ at = "changes"
  /\ LET f == ChangePath[pos]
     IN  db' = [db EXCEPT !.changes[f] = [before |-> before[f], after |-> after[f]]]
  /\ Advance
  /\ UNCHANGED <<disks, given, hashes, outcome, root, receipt, seen>>

------------------------------------------------------------------------------
(* What the commands did *)

\* Before and after are eras of the run: until the first command, from the last on.
Edited(d, n) ==
  /\ disk' = d
  /\ heldBefore' = [f \in File |->
       heldBefore[f] \cup IF n = 0 THEN {d[f]} ELSE {}]
  /\ heldAfter' = [f \in File |->
       heldAfter[f] \cup IF n = Len(Exe) THEN {d[f]} ELSE {}]

\* ProcessRunner.run: how it ends, what it does to the workspace, and whether it
\* leaves a process that holds its output file open.
RunCommand ==
  /\ at = "run"
  /\ \E o \in Outcome, stays \in BOOLEAN, d \in {disk} \cup
        (IF edits < MaxEdits THEN {[disk EXCEPT ![f] = c] : f \in File, c \in State} ELSE {}) :
       /\ stays => pos \in Lingering
       /\ o = "environment_blocker" => ~stays /\ d = disk
       /\ result' = Append(result, o)
       /\ stream' = [stream EXCEPT ![pos] = 1]
       /\ left' = IF stays THEN left \cup {pos} ELSE left
       /\ Edited(d, Len(result) + 1)
       /\ edits' = IF d = disk THEN edits ELSE edits + 1
  /\ Advance
  /\ UNCHANGED <<given, hashes, root, receipt, db, seen>>

\* The output file of a command is its own artifact; write_artifact compares it
\* with the bytes read a moment ago.
RecordStream ==
  /\ at = "streams"
  /\ \/ /\ root' = [root EXCEPT !.streams[pos] = stream[pos]]
        /\ Advance /\ UNCHANGED outcome
     \/ /\ pos \in left /\ stream[pos] = 1
        /\ stream' = [stream EXCEPT ![pos] = 2]
        /\ Raise /\ UNCHANGED <<root, result, left>>
  /\ UNCHANGED <<disks, given, hashes, receipt, db, seen>>

\* Other bytes are under the key already: ArtifactExistsError.
Clash(o) == root.outputs[o.key] \notin {Nothing, disk[o.file]}

\* An output that is no file is passed over.
RecordOutput ==
  /\ at = "outputs"
  /\ LET o == Output[pos]
     IN  /\ seen' = [seen EXCEPT ![pos] = disk[o.file]]
         /\ IF disk[o.file] = Nothing THEN Advance /\ UNCHANGED root
            ELSE IF Clash(o) THEN Raise /\ UNCHANGED root
            ELSE /\ root' = [root EXCEPT !.outputs[o.key] =
                               IF @ = Nothing THEN disk[o.file] ELSE @]
                 /\ Advance
  /\ UNCHANGED <<disks, given, hashes, outcome, receipt, db>>

\* mutant: the failure of a command counts only without a blocker or a timeout
FailureRow_OfStatus(i) == result[i] = "failed" /\ ~\E j \in DOMAIN result :
                            result[j] \in {"timeout", "environment_blocker"}

\* An exit code that is neither zero nor absent.
FailureRow(i) == result[i] = "failed"

RecordFailure ==
  /\ at = "failures"
  /\ db' = [db EXCEPT !.failures = IF FailureRow(pos) THEN @ \cup {pos} ELSE @]
  /\ Advance
  /\ UNCHANGED <<disks, given, hashes, outcome, root, receipt, seen>>

\* _terminal_status: the first of these that any command ended with.
TerminalStatus ==
  LET Any(o) == \E i \in DOMAIN result : result[i] = o
  IN  CASE Any("environment_blocker") -> "environment_blocker"
        [] Any("timeout") /\ ~Any("environment_blocker") -> "timeout"
        [] Any("failed") /\ ~Any("timeout") /\ ~Any("environment_blocker") -> "failed"
        [] OTHER -> "completed"

------------------------------------------------------------------------------
(* Who answered *)

WriteRunJson ==
  /\ at = "run_json"
  /\ root' = [root EXCEPT !.json = @ \cup {"run.json"}]
  /\ Advance
  /\ UNCHANGED <<disks, given, hashes, outcome, receipt, db, seen>>

\* The sidecar is read again, and now it must be one: it may have changed meanwhile.
LoadSidecar ==
  /\ at = "sidecar"
  /\ Advance \/ Raise
  /\ UNCHANGED <<disks, given, hashes, outcome, root, receipt, db, seen>>

\* --agent-receipt, a file an agent-invoke wrote or somebody else did.
LoadReceipt ==
  /\ at = "receipt"
  /\ \/ Advance /\ UNCHANGED <<root, receipt>>
     \/ \E r \in {[says |-> BuildReceipt(try), from |-> try] : try \in Attempts}
                 \cup {[says |-> f, from |-> Nothing] : f \in Forged} :
          IF ValidReceipt(r.says)
            THEN /\ receipt' = r
                 /\ root' = [root EXCEPT !.json = @ \cup {"agent-receipt.json"}]
                 /\ Advance
            ELSE Raise /\ UNCHANGED <<root, receipt>>
  /\ UNCHANGED <<disks, given, hashes, outcome, db, seen>>

\* _agent_provenance_payload: whose word the model label is.
Provenance ==
  [details |-> [f \in {ChangePath[j] : j \in DOMAIN ChangePath} |-> ChangeDetail(f)],
   status |-> TerminalStatus,
   class |-> IF receipt = Nothing THEN "operator_asserted_v1"
             ELSE IF IsLiveReceipt(receipt.says) THEN "receipt_verified_v1"
             ELSE "stub_receipt_v1",
   model |-> IF receipt # Nothing /\ IsLiveReceipt(receipt.says)
             THEN receipt.says.model ELSE Nothing]

WriteProvenance ==
  /\ at = "provenance"
  /\ root' = [root EXCEPT !.json = @ \cup {"agent-provenance.json"}]
  /\ Advance
  /\ UNCHANGED <<disks, given, hashes, outcome, receipt, db, seen>>

RecordProof ==
  /\ at = "proof"
  /\ db' = [db EXCEPT !.proof = Provenance]
  /\ Advance
  /\ UNCHANGED <<disks, given, hashes, outcome, root, receipt, seen>>

------------------------------------------------------------------------------
(* _persist_sqlite *)

Settle ==
  /\ at = "settle"
  /\ db' = [db EXCEPT !.status = TerminalStatus]
  /\ Advance
  /\ UNCHANGED <<disks, given, hashes, outcome, root, receipt, seen>>

\* The invocation's key is its executable: of two commands with the same one only
\* the first has a row, and the other's output cites it.  The digest is the one
\* recorded with the stream, the size that of the file now.
Persist ==
  /\ at = "persist"
  /\ db' = [db EXCEPT
       !.invocations = IF \E i \in @ : Exe[i] = Exe[pos] THEN @ ELSE @ \cup {pos},
       !.streams[pos] = [digest |-> root.streams[pos], size |-> stream[pos]]]
  /\ Advance
  /\ UNCHANGED <<disks, given, hashes, outcome, root, receipt, seen>>

Json == <<"run.json", "agent-receipt.json", "agent-provenance.json">>

\* The other entries of the manifest in the order they were written, a row each.
PersistArtifact ==
  /\ at = "artifacts"
  /\ LET outputs == {j \in DOMAIN Output : db.outputs[Output[j].key] # root.outputs[Output[j].key]}
         json == {i \in DOMAIN Json : Json[i] \in root.json \ db.json}
     IN  IF outputs # {}
           THEN LET k == Output[Min(outputs)].key
                IN  db' = [db EXCEPT !.outputs[k] = root.outputs[k]] /\ UNCHANGED <<at, pos>>
         ELSE IF json # {}
           THEN db' = [db EXCEPT !.json = @ \cup {Json[Min(json)]}] /\ UNCHANGED <<at, pos>>
         ELSE Advance /\ UNCHANGED db
  /\ UNCHANGED <<disks, given, hashes, outcome, root, receipt, seen>>

------------------------------------------------------------------------------
Ended == at \in {"done", "died"}

\* Anybody edits the workspace while the recorder reads it: after the outputs it
\* does not look there again.
Edit ==
  /\ ~Ended /\ edits < MaxEdits /\ Place(at) <= Place("outputs")
  /\ \E f \in File : \E c \in State \ {disk[f]} :
       Edited([disk EXCEPT ![f] = c], Len(result))
  /\ edits' = edits + 1
  /\ UNCHANGED <<at, pos, given, hashes, outcome, root, receipt, db, seen>>

\* A process a command left behind writes on.
Grow ==
  /\ ~Ended
  /\ \E i \in left : stream[i] = 1 /\ stream' = [stream EXCEPT ![i] = 2]
  /\ UNCHANGED <<at, pos, disks, given, hashes, result, left, root, receipt, db, seen>>

Die ==
  /\ ~Ended /\ Raise
  /\ UNCHANGED <<disks, given, hashes, outcome, root, receipt, db, seen>>

Next ==
  \/ InsertRun \/ HashBefore \/ VerifyBaseline \/ RunCommand \/ HashAfter
  \/ RecordChange \/ RecordStream \/ RecordOutput \/ WriteRunJson \/ LoadSidecar
  \/ LoadReceipt \/ WriteProvenance \/ RecordProof \/ RecordFailure \/ Settle
  \/ Persist \/ PersistArtifact \/ Edit \/ Grow \/ Die

Spec == Init /\ [][Next]_vars

------------------------------------------------------------------------------
TypeOK ==
  /\ at \in {Script[i] : i \in DOMAIN Script} \cup {"died"}
  /\ pos \in Nat \ {0} /\ edits \in 0..MaxEdits
  /\ disk \in [File -> State] /\ before \in [File -> State] /\ after \in [File -> State]
  /\ verdict \in [File -> {"none", "verified", "mismatch", "unverifiable"}]
  /\ result \in Seq(Outcome) /\ Len(result) <= Len(Exe)
  /\ left \subseteq DOMAIN Exe /\ stream \in [DOMAIN Exe -> 0..2]
  /\ root.outputs \in [Key -> State] /\ db.outputs \in [Key -> State]
  /\ db.failures \subseteq DOMAIN Exe /\ db.invocations \subseteq DOMAIN Exe

\* The change evidence of a run: the two contents it names of a file were held, the
\* one before any command began and the other after all had ended, whoever edited
\* in between; its git baseline is what the commit holds; a claim that is not what
\* the commit holds is told as refused; and what is recorded as unchanged without
\* a word is only a file absent at the commit and absent now.
ChangesWereObserved ==
  db.proof # Nothing => \A f \in DOMAIN db.proof.details :
    LET d == db.proof.details[f] IN
    /\ d.before \in heldBefore[f] /\ d.after \in heldAfter[f]
    /\ db.changes[f] = [before |-> d.before, after |-> d.after]
    /\ d.basis = "git_baseline" => d.changed = (d.after # object[f])
    /\ d.basis = "recorder_window" => d.changed = (d.after # d.before)
    /\ Claimed(f) \notin {"none", object[f]} => d.note \in {"mismatch", "unverifiable"}
    /\ ~d.changed /\ d.note = "none" => Claimed(f) = Nothing /\ d.after = Nothing

\* A run that is settled tells all that happened: a failure of every command that
\* exited with a code, even under a timeout's or a blocker's name and when another
\* command's invocation stands for it; "completed" only if all were; the same
\* outcome as its provenance; and every output it found, byte for byte.  Ended, it
\* has the rows of all it kept, each stream with an invocation of its executable
\* and, unless a process stayed behind, digest and size of the same bytes.
SettledIsWhole ==
  db.status \notin {"none", "running"} =>
    /\ db.failures = {i \in DOMAIN Exe : result[i] = "failed"}
    /\ db.status = "completed" => \A i \in DOMAIN Exe : result[i] = "completed"
    /\ db.proof # Nothing => db.proof.status = db.status
    /\ \A j \in DOMAIN Output : seen[j] # Nothing => root.outputs[Output[j].key] = seen[j]
    /\ at = "done" =>
         /\ db.outputs = root.outputs /\ db.json = root.json
         /\ \A i \in DOMAIN Exe :
              /\ \E j \in db.invocations : Exe[j] = Exe[i]
              /\ i \notin left => db.streams[i].digest = db.streams[i].size

\* A model is recorded as verified by a receipt of agent-invoke only if a tool of
\* that name ran, exited 0 and told of no error, in an answer that has a response
\* and a session and names that model and no other; and a receipt counts no cached
\* token as input once more.
VerifiedIsAnswered ==
  receipt # Nothing /\ receipt.from # Nothing =>
    LET try == receipt.from
        out == try.stdout
        named == IF try.family = "codex"
                 THEN {out[i].model : i \in DOMAIN out} \ {Nothing} ELSE DOMAIN out.tokens
    IN
    /\ db.proof # Nothing /\ db.proof.class = "receipt_verified_v1" =>
         /\ try.ran /\ try.exit = 0 /\ try.name \in Live
         /\ named = {db.proof.model}
         /\ IF try.family = "codex"
              THEN /\ \A i \in DOMAIN out : out[i].type \notin Complaints
                   /\ \E i \in DOMAIN out :
                        /\ out[i].type = "agent_message"
                        /\ out[i].text = receipt.says.response /\ out[i].text # Nothing
                        /\ \A j \in DOMAIN out :
                             j > i /\ out[j].type = "agent_message" => out[j].text = Nothing
              ELSE ~out.error /\ out.response # Nothing /\ out.session # Nothing
    /\ LET counts == IF out = Nothing \/ try.family = "claude" THEN <<>>
                     ELSE IF try.family = "codex" THEN out ELSE out.tokens
       IN  counts # <<>> /\ (\A i \in DOMAIN counts :
                               counts[i].input = Nothing /\ counts[i].cached <= counts[i].gross) =>
             receipt.says.input + receipt.says.cached
               = MapThenSumSet(LAMBDA i : counts[i].gross, DOMAIN counts)

==============================================================================
