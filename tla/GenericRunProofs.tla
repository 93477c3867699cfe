--------------------------- MODULE GenericRunProofs ---------------------------
(***************************************************************************)
(* Proofs about the change evidence and the rows of a generic run, and of  *)
(* whose word its model label is, for any paths, commands, outputs,        *)
(* sidecars, edits and calls of an agent.                                  *)
(***************************************************************************)
EXTENDS GenericRun, FiniteSetTheorems, TLAPS

Steps == {Script[i] : i \in 1..18}

\* The j-th turn of a step is over.
Done(step, j) == Place(at) > Place(step) \/ (at = step /\ pos > j)

Standing == at \in Steps /\ pos \in Nat /\ 1 <= pos /\ pos <= Length(at)

------------------------------------------------------------------------------
(* The script *)

\* Eighteen steps, each with a place of its own.
LEMMA ScriptPlaces ==
  /\ DOMAIN Script = 1..18 /\ Script[18] = "done"
  /\ \A i \in 1..18 : Place(Script[i]) = i
<1>1. DOMAIN Script = 1..18 /\ Script[18] = "done"  BY DEF Script
<1>2. \A i, j \in 1..18 : Script[i] = Script[j] => i = j  BY DEF Script
<1>3. ASSUME NEW i \in 1..18  PROVE Place(Script[i]) = i
  <2>1. \A j \in DOMAIN Script : Script[j] = Script[i] <=> j = i  BY <1>1, <1>2
  <2> QED  BY <1>1, <2>1 DEF Place
<1> QED  BY <1>1, <1>3

LEMMA PlacesAre ==
  /\ Place("before") = 2 /\ Place("verify") = 3 /\ Place("run") = 4
  /\ Place("after") = 5 /\ Place("changes") = 6 /\ Place("proof") = 13
  /\ Place("done") = 18
<1>1. /\ Script[2] = "before" /\ Script[3] = "verify" /\ Script[4] = "run"
      /\ Script[5] = "after" /\ Script[6] = "changes" /\ Script[13] = "proof"
      /\ Script[18] = "done"
  BY DEF Script
<1> QED  BY <1>1, ScriptPlaces

LEMMA LengthsAre ==
  /\ \A step \in Steps : Length(step) \in Nat
  /\ Length("done") = 1
  /\ \A step \in {"before", "verify", "after", "changes"} : Length(step) = Len(ChangePath)
  /\ Length("run") = Len(Exe)
<1>1. Len(ChangePath) \in Nat /\ Len(Exe) \in Nat /\ Len(Output) \in Nat
  BY GenericAssumption
<1> QED  BY <1>1 DEF Length

\* The least of some places is there.
LEMMA LeastPlace ==
  ASSUME NEW S \in SUBSET (1..18), 18 \in S
  PROVE  Min(S) \in S /\ \A i \in S : Min(S) <= i
<1>1. \E m \in S : \A i \in S : m <= i
  OBVIOUS
<1> QED  BY <1>1 DEF Min

\* A turn is over when it was, or when it is the one just taken: what the script
\* passes over has no turn.
LEMMA Onward ==
  ASSUME Standing, at # "done", Advance, claim' = claim
  PROVE  /\ Standing'
         /\ \A step \in Steps, j \in Nat : Done(step, j) => Done(step, j)'
         /\ \A step \in Steps, j \in Nat : j > 0 /\ j <= Length(step) =>
              (Done(step, j)' <=> Done(step, j) \/ (at = step /\ pos = j))
<1>1. PICK a \in 1..18 : at = Script[a]  BY DEF Standing, Steps
<1>2. Place(at) = a  BY <1>1, ScriptPlaces
<1>3. \A step : Length(step)' = Length(step)  BY DEF Length
<1>4. \A step : Place(step)' = Place(step)  BY DEF Place
<1>5. CASE pos < Length(at)
  <2>1. at' = at /\ pos' = pos + 1  BY <1>5 DEF Advance
  <2>2. Standing'  BY <1>3, <1>5, <2>1, LengthsAre DEF Standing
  <2> QED  BY <2>1, <2>2 DEF Done, Standing
<1>6. CASE ~(pos < Length(at))
  <2> DEFINE S == {i \in DOMAIN Script : i > Place(at) /\ Length(Script[i]) > 0}
  <2>1. a # 18  BY <1>1, ScriptPlaces
  <2>2. S \in SUBSET (1..18) /\ 18 \in S
    <3>1. S \subseteq 1..18  BY ScriptPlaces
    <3>2. 18 > Place(at)  BY <1>2, <2>1
    <3>3. Length(Script[18]) > 0  BY ScriptPlaces, LengthsAre
    <3> QED  BY <3>1, <3>2, <3>3, ScriptPlaces
  <2>3. Min(S) \in S /\ \A i \in S : Min(S) <= i  BY <2>2, LeastPlace
  <2>4. at' = Script[Min(S)] /\ pos' = 1  BY <1>6 DEF Advance, NextStep
  <2> DEFINE b == Min(S)
  <2>5. /\ b \in 1..18 /\ b > a /\ Length(Script[b]) > 0
        /\ \A i \in 1..18 : i > a /\ i < b => ~(Length(Script[i]) > 0)
    <3>1. \A i : i \in S <=> i \in 1..18 /\ i > a /\ Length(Script[i]) > 0
      BY <1>2, ScriptPlaces
    <3>2. b \in S /\ \A i \in S : b <= i  BY <2>3
    <3> HIDE DEF S, b
    <3> QED  BY <3>1, <3>2
  <2> HIDE DEF S
  <2>6. at' = Script[b] /\ Place(at') = b  BY <2>4, <2>5, ScriptPlaces
  <2> HIDE DEF b
  <2>7. pos = Length(at)  BY <1>6, LengthsAre DEF Standing
  <2>8. Script[b] \in Steps /\ Length(Script[b]) \in Nat  BY <2>5, LengthsAre DEF Steps
  <2>9. Standing'  BY <1>3, <2>4, <2>5, <2>6, <2>8 DEF Standing
  <2>10. ASSUME NEW step \in Steps, NEW j \in Nat
         PROVE  /\ Done(step, j) => Done(step, j)'
                /\ j > 0 /\ j <= Length(step) =>
                     (Done(step, j)' <=> Done(step, j) \/ (at = step /\ pos = j))
    <3>1. PICK i \in 1..18 : step = Script[i]  BY DEF Steps
    <3>2. Place(step) = i  BY <3>1, ScriptPlaces
    <3>3. at = step <=> i = a  BY <1>1, <1>2, <3>1, <3>2
    <3>4. at' = step <=> i = b  BY <2>5, <2>6, <3>1, <3>2
    <3>5. Done(step, j)' <=> b > i \/ (i = b /\ 1 > j)
      BY <1>4, <2>4, <2>6, <3>2, <3>4 DEF Done
    <3>6. Done(step, j) <=> a > i \/ (i = a /\ pos > j)
      BY <1>2, <3>2, <3>3 DEF Done
    <3>7. Length(step) \in Nat  BY LengthsAre
    <3> QED  BY <2>5, <2>7, <3>1, <3>3, <3>5, <3>6, <3>7
  <2> QED  BY <2>9, <2>10
<1> QED  BY <1>5, <1>6

------------------------------------------------------------------------------
(* What is known while the commands run *)

Typed ==
  /\ disk \in [File -> State]
  /\ before \in [File -> State] /\ after \in [File -> State]
  /\ verdict \in [File -> {"none", "verified", "mismatch", "unverifiable"}]
  /\ heldBefore \in [File -> SUBSET State] /\ heldAfter \in [File -> SUBSET State]
  /\ result \in Seq(Outcome) /\ Len(result) <= Len(Exe)
  /\ {"changes", "proof"} \subseteq DOMAIN db /\ DOMAIN db.changes = File

\* A command has its outcome when its turn is over.
Counted == \A i \in DOMAIN Exe : Done("run", i) <=> i <= Len(result)

\* Before the first command and after the last one the workspace is what is held.
Held ==
  /\ result = <<>> => \A f \in File : disk[f] \in heldBefore[f]
  /\ Len(result) = Len(Exe) => \A f \in File : disk[f] \in heldAfter[f]

\* What a turn has taken down stays as it was taken.
Taken ==
  \A j \in DOMAIN ChangePath : LET f == ChangePath[j] IN
    /\ Done("before", j) => before[f] \in heldBefore[f]
    /\ Done("verify", j) => verdict[f] = Verified(f)
    /\ Done("after", j) => after[f] \in heldAfter[f]
    /\ Done("changes", j) => db.changes[f] = [before |-> before[f], after |-> after[f]]

\* The proof block, and what it rests on.
Paths == {ChangePath[j] : j \in DOMAIN ChangePath}
Told ==
  db.proof # Nothing =>
    /\ at = "died" \/ Done("proof", 1)
    /\ db.proof.details = [f \in Paths |-> ChangeDetail(f)]
    /\ \A f \in Paths :
         /\ before[f] \in heldBefore[f] /\ after[f] \in heldAfter[f]
         /\ verdict[f] = Verified(f)
         /\ db.changes[f] = [before |-> before[f], after |-> after[f]]

Sound == Typed /\ Told /\ (at # "died" => Standing /\ Counted /\ Held /\ Taken)

LEMMA Turns ==
  /\ DOMAIN ChangePath = {j \in Nat : j > 0 /\ j <= Len(ChangePath)}
  /\ DOMAIN Exe = {i \in Nat : i > 0 /\ i <= Len(Exe)} /\ Len(Exe) > 0
  /\ \A j \in DOMAIN ChangePath : ChangePath[j] \in File
  /\ {"before", "verify", "run", "after", "changes", "proof"} \subseteq Steps
  /\ "died" \notin Steps
<1>1. /\ Script[2] = "before" /\ Script[3] = "verify" /\ Script[4] = "run"
      /\ Script[5] = "after" /\ Script[6] = "changes" /\ Script[13] = "proof"
      /\ \A i \in 1..18 : Script[i] # "died"
  BY DEF Script
<1>2. /\ {"before", "verify", "run", "after", "changes", "proof"} \subseteq Steps
      /\ "died" \notin Steps
  BY <1>1 DEF Steps
<1>3. /\ ChangePath \in Seq(File)
      /\ Exe \in Seq(STRING) /\ Exe # <<>>
  BY GenericAssumption
<1>4. /\ DOMAIN ChangePath = {j \in Nat : j > 0 /\ j <= Len(ChangePath)}
      /\ \A j \in DOMAIN ChangePath : ChangePath[j] \in File
  <2>1. DOMAIN ChangePath = 1..Len(ChangePath) /\ Len(ChangePath) \in Nat  BY <1>3
  <2>2. \A j \in DOMAIN ChangePath : ChangePath[j] \in File  BY <1>3
  <2> QED  BY <2>1, <2>2
<1>5. DOMAIN Exe = {i \in Nat : i > 0 /\ i <= Len(Exe)} /\ Len(Exe) > 0
  <2>1. DOMAIN Exe = 1..Len(Exe) /\ Len(Exe) \in Nat  BY <1>3
  <2>2. Len(Exe) > 0  BY <1>3
  <2> QED  BY <2>1, <2>2
<1> QED  BY <1>2, <1>4, <1>5

\* One of the steps that take something down.
LEMMA Elsewhere ==
  ASSUME Standing, at # "done", Advance, claim' = claim,
         NEW step \in {"before", "verify", "run", "after", "changes"}, at # step,
         NEW j, j \in Nat, j > 0, j <= Length(step)
  PROVE  Done(step, j)' <=> Done(step, j)
  BY Onward, Turns

\* A step that takes nothing down and touches no file.
Quiet ==
  /\ UNCHANGED <<disks, given, hashes, result>>
  /\ {"changes", "proof"} \subseteq DOMAIN db'
  /\ db'.changes = db.changes /\ db'.proof = db.proof

LEMMA DetailsStand ==
  ASSUME UNCHANGED <<given, hashes>>
  PROVE  \A f : Verified(f)' = Verified(f) /\ ChangeDetail(f)' = ChangeDetail(f)
  BY DEF given, hashes, Verified, Claimed, ChangeDetail

\* The proof block outlasts every later step.
LEMMA ToldStays ==
  ASSUME Sound, UNCHANGED <<given, hashes>>,
         db'.changes = db.changes, db'.proof = db.proof,
         \A f \in File : heldBefore[f] \subseteq heldBefore'[f]
                         /\ heldAfter[f] \subseteq heldAfter'[f],
         at' = "died" \/ UNCHANGED <<at, pos>> \/ (Advance /\ Standing /\ at # "done")
  PROVE  Told'
<1> SUFFICES ASSUME db.proof # Nothing PROVE Told'  BY DEF Told
<1>1. at' = "died" \/ Done("proof", 1)'
  <2>1. CASE at = "died"
    BY <2>1, Turns DEF Standing
  <2>2. CASE UNCHANGED <<at, pos>>  BY <2>2 DEF Sound, Told, Done, Place
  <2>3. CASE Advance /\ Standing /\ at # "done" /\ at # "died"
    BY <2>3, Onward, Turns DEF Sound, Told, given
  <2> QED  BY <2>1, <2>2, <2>3
<1>2. \A f \in Paths : f \in File  BY Turns DEF Paths
<1>3. Paths' = Paths  BY DEF Paths
<1> QED  BY <1>1, <1>2, <1>3, DetailsStand DEF Sound, Told, hashes

LEMMA QuietIsSound ==
  ASSUME Sound, at # "died", Quiet,
         at' = "died" \/ UNCHANGED <<at, pos>>
           \/ (Advance /\ at \notin {"before", "verify", "run", "after", "changes", "done"})
  PROVE  Sound'
<1> USE DEF Quiet
<1>1. Typed'  BY DEF Sound, Typed, disks, hashes
<1>2. Told'  BY ToldStays DEF Sound, disks
<1>3. CASE at' = "died"  BY <1>1, <1>2, <1>3 DEF Sound
<1>4. CASE UNCHANGED <<at, pos>>
  <2>1. Standing'  BY <1>4 DEF Sound, Standing, Length, given
  <2>2. \A step, j : Done(step, j)' <=> Done(step, j)  BY <1>4 DEF Done, Place
  <2>3. Counted' /\ Held' /\ Taken'
    BY <2>2, DetailsStand DEF Sound, Counted, Held, Taken, disks, hashes
  <2> QED  BY <1>1, <1>2, <2>1, <2>3 DEF Sound
<1>5. CASE Advance /\ at \notin {"before", "verify", "run", "after", "changes", "done"}
  <2>1. Standing'  BY <1>5, Onward DEF Sound, given
  <2>2. \A j \in DOMAIN ChangePath :
          \A step \in {"before", "verify", "after", "changes"} :
            Done(step, j)' <=> Done(step, j)
    BY <1>5, Elsewhere, Turns, LengthsAre DEF Sound, given
  <2>3. \A i \in DOMAIN Exe : Done("run", i)' <=> Done("run", i)
    BY <1>5, Elsewhere, Turns, LengthsAre DEF Sound, given
  <2>4. Counted' /\ Held'  BY <2>3 DEF Sound, Counted, Held, disks
  <2>5. Taken'  BY <2>2, DetailsStand DEF Sound, Taken, disks, hashes
  <2> QED  BY <1>1, <1>2, <2>1, <2>4, <2>5 DEF Sound
<1> QED  BY <1>3, <1>4, <1>5

------------------------------------------------------------------------------
(* The steps that take something down *)

\* While a step of the script is at hand there is no proof block before its turn.
LEMMA NoProofYet ==
  ASSUME Sound, at \in {"before", "verify", "run", "after", "changes"}
  PROVE  db.proof = Nothing
<1>1. at # "died" /\ Place(at) < 13 /\ at # "proof"  BY PlacesAre
<1> QED  BY <1>1, PlacesAre DEF Sound, Told, Done

\* The turn at hand, and what it does to what is over.
LEMMA TakesTurn ==
  ASSUME Sound, Advance, claim' = claim,
         at \in {"before", "verify", "run", "after", "changes"}
  PROVE  /\ Standing' /\ pos \in Nat /\ pos > 0 /\ pos <= Length(at)
         /\ \A step \in {"before", "verify", "after", "changes"}, j \in DOMAIN ChangePath :
              Done(step, j)' <=> Done(step, j) \/ (at = step /\ j = pos)
         /\ \A i \in DOMAIN Exe :
              Done("run", i)' <=> Done("run", i) \/ (at = "run" /\ i = pos)
<1>1. at # "died" /\ at # "done" /\ Standing  BY DEF Sound
<1>2. /\ \A j \in DOMAIN ChangePath : j \in Nat /\ j > 0 /\ j <= Len(ChangePath)
      /\ \A i \in DOMAIN Exe : i \in Nat /\ i > 0 /\ i <= Len(Exe)
  BY Turns
<1>3. \A step \in Steps, j \in Nat : j > 0 /\ j <= Length(step) =>
         (Done(step, j)' <=> Done(step, j) \/ (at = step /\ pos = j))
  BY <1>1, Onward
<1>4. Standing' /\ pos \in Nat /\ pos > 0 /\ pos <= Length(at)
  BY <1>1, Onward DEF Standing
<1>5. ASSUME NEW step \in {"before", "verify", "after", "changes"},
             NEW j \in DOMAIN ChangePath
      PROVE  Done(step, j)' <=> Done(step, j) \/ (at = step /\ j = pos)
  <2>1. Length(step) = Len(ChangePath) /\ step \in Steps  BY LengthsAre, Turns
  <2> QED  BY <1>2, <1>3, <2>1
<1>6. ASSUME NEW i \in DOMAIN Exe
      PROVE  Done("run", i)' <=> Done("run", i) \/ (at = "run" /\ i = pos)
  <2>1. Length("run") = Len(Exe) /\ "run" \in Steps  BY LengthsAre, Turns
  <2> QED  BY <1>2, <1>3, <2>1
<1> QED  BY <1>4, <1>5, <1>6

\* Hashed before any command began.
LEMMA BeforeIsSound == ASSUME Sound, HashBefore PROVE Sound'
<1> DEFINE g == ChangePath[pos]
<1>1. /\ at = "before" /\ before' = [before EXCEPT ![g] = disk[g]] /\ Advance
      /\ UNCHANGED <<disks, given, after, verdict, result, db>>
  BY DEF HashBefore, outcome
<1>2. db.proof = Nothing /\ at # "died"  BY <1>1, NoProofYet
<1>3. /\ Standing' /\ pos \in DOMAIN ChangePath
      /\ \A step \in {"before", "verify", "after", "changes"}, j \in DOMAIN ChangePath :
           Done(step, j)' <=> Done(step, j) \/ (at = step /\ j = pos)
      /\ \A i \in DOMAIN Exe : Done("run", i)' <=> Done("run", i)
  BY <1>1, TakesTurn, LengthsAre, Turns DEF given
<1>4. g \in File  BY <1>3, Turns
<1>5. result = <<>>
  <2>1. ~Done("run", 1)  BY <1>1, PlacesAre DEF Done
  <2>2. ~(1 <= Len(result))  BY <1>2, <2>1, Turns DEF Sound, Counted
  <2> QED  BY <2>2 DEF Sound, Typed
<1>6. disk[g] \in heldBefore[g]  BY <1>2, <1>4, <1>5 DEF Sound, Held
<1>7. Typed' /\ Told'  BY <1>1, <1>2, <1>4 DEF Sound, Typed, Told, disks
<1>8. Counted' /\ Held'  BY <1>1, <1>2, <1>3 DEF Sound, Counted, Held, disks
<1>9. \A j \in DOMAIN ChangePath : ~Done("changes", j)
  BY <1>1, PlacesAre DEF Done
<1>10. Taken'
  <2>1. \A f : Verified(f)' = Verified(f)  BY <1>1 DEF given, Verified, Claimed
  <2>2. \A j \in DOMAIN ChangePath : Done("before", j)' =>
          before'[ChangePath[j]] \in heldBefore'[ChangePath[j]]
    BY <1>1, <1>2, <1>3, <1>4, <1>6, Turns DEF Sound, Typed, Taken, disks
  <2> QED  BY <1>1, <1>2, <1>3, <1>9, <2>1, <2>2 DEF Sound, Taken, disks
<1> QED  BY <1>3, <1>7, <1>8, <1>10 DEF Sound

LEMMA VerifyIsSound == ASSUME Sound, VerifyBaseline PROVE Sound'
<1> DEFINE g == ChangePath[pos]
<1>1. /\ at = "verify" /\ verdict' = [verdict EXCEPT ![g] = Verified(g)] /\ Advance
      /\ UNCHANGED <<disks, given, before, after, result, db>>
  BY DEF VerifyBaseline, outcome
<1>2. db.proof = Nothing /\ at # "died"  BY <1>1, NoProofYet
<1>3. /\ Standing' /\ pos \in DOMAIN ChangePath
      /\ \A step \in {"before", "verify", "after", "changes"}, j \in DOMAIN ChangePath :
           Done(step, j)' <=> Done(step, j) \/ (at = step /\ j = pos)
      /\ \A i \in DOMAIN Exe : Done("run", i)' <=> Done("run", i)
  BY <1>1, TakesTurn, LengthsAre, Turns DEF given
<1>4. g \in File  BY <1>3, Turns
<1>5. Verified(g) \in {"none", "verified", "mismatch", "unverifiable"}  BY DEF Verified
<1>6. Typed' /\ Told'  BY <1>1, <1>2, <1>4, <1>5 DEF Sound, Typed, Told, disks
<1>7. Counted' /\ Held'  BY <1>1, <1>2, <1>3 DEF Sound, Counted, Held, disks
<1>8. Taken'
  <2>1. \A f : Verified(f)' = Verified(f)  BY <1>1 DEF given, Verified, Claimed
  <2>2. \A j \in DOMAIN ChangePath : Done("verify", j)' =>
          verdict'[ChangePath[j]] = Verified(ChangePath[j])
    BY <1>1, <1>2, <1>3, <1>4, Turns DEF Sound, Typed, Taken
  <2> QED  BY <1>1, <1>2, <1>3, <2>1, <2>2 DEF Sound, Taken, disks
<1> QED  BY <1>3, <1>6, <1>7, <1>8 DEF Sound

\* Hashed after all commands have ended.
LEMMA AfterIsSound == ASSUME Sound, HashAfter PROVE Sound'
<1> DEFINE g == ChangePath[pos]
<1>1. /\ at = "after" /\ after' = [after EXCEPT ![g] = disk[g]] /\ Advance
      /\ UNCHANGED <<disks, given, before, verdict, result, db>>
  BY DEF HashAfter, outcome
<1>2. db.proof = Nothing /\ at # "died"  BY <1>1, NoProofYet
<1>3. /\ Standing' /\ pos \in DOMAIN ChangePath
      /\ \A step \in {"before", "verify", "after", "changes"}, j \in DOMAIN ChangePath :
           Done(step, j)' <=> Done(step, j) \/ (at = step /\ j = pos)
      /\ \A i \in DOMAIN Exe : Done("run", i)' <=> Done("run", i)
  BY <1>1, TakesTurn, LengthsAre, Turns DEF given
<1>4. g \in File  BY <1>3, Turns
<1>5. Len(result) = Len(Exe)
  <2>1. Done("run", Len(Exe))  BY <1>1, PlacesAre DEF Done
  <2>2. Len(Exe) \in DOMAIN Exe /\ Len(Exe) \in Nat  BY GenericAssumption
  <2>3. Len(Exe) <= Len(result)  BY <1>2, <2>1, <2>2 DEF Sound, Counted
  <2> QED  BY <2>2, <2>3 DEF Sound, Typed
<1>6. disk[g] \in heldAfter[g]  BY <1>2, <1>4, <1>5 DEF Sound, Held
<1>7. Typed' /\ Told'  BY <1>1, <1>2, <1>4 DEF Sound, Typed, Told, disks
<1>8. Counted' /\ Held'  BY <1>1, <1>2, <1>3 DEF Sound, Counted, Held, disks
<1>9. \A j \in DOMAIN ChangePath : ~Done("changes", j)
  BY <1>1, PlacesAre DEF Done
<1>10. Taken'
  <2>1. \A f : Verified(f)' = Verified(f)  BY <1>1 DEF given, Verified, Claimed
  <2>2. \A j \in DOMAIN ChangePath : Done("after", j)' =>
          after'[ChangePath[j]] \in heldAfter'[ChangePath[j]]
    BY <1>1, <1>2, <1>3, <1>4, <1>6, Turns DEF Sound, Typed, Taken, disks
  <2> QED  BY <1>1, <1>2, <1>3, <1>9, <2>1, <2>2 DEF Sound, Taken, disks
<1> QED  BY <1>3, <1>7, <1>8, <1>10 DEF Sound

LEMMA ChangesAreSound == ASSUME Sound, RecordChange PROVE Sound'
<1> DEFINE g == ChangePath[pos]
<1>1. /\ at = "changes" /\ Advance
      /\ db' = [db EXCEPT !.changes[g] = [before |-> before[g], after |-> after[g]]]
      /\ UNCHANGED <<disks, given, hashes, result>>
  BY DEF RecordChange, outcome
<1>2. db.proof = Nothing /\ at # "died"  BY <1>1, NoProofYet
<1>3. /\ Standing' /\ pos \in DOMAIN ChangePath
      /\ \A step \in {"before", "verify", "after", "changes"}, j \in DOMAIN ChangePath :
           Done(step, j)' <=> Done(step, j) \/ (at = step /\ j = pos)
      /\ \A i \in DOMAIN Exe : Done("run", i)' <=> Done("run", i)
  BY <1>1, TakesTurn, LengthsAre, Turns DEF given
<1>4. g \in File  BY <1>3, Turns
<1>5. /\ db'.proof = db.proof /\ DOMAIN db' = DOMAIN db
      /\ db'.changes = [db.changes EXCEPT ![g] = [before |-> before[g], after |-> after[g]]]
  BY <1>1 DEF Sound, Typed
<1>6. Typed' /\ Told'  BY <1>1, <1>2, <1>4, <1>5 DEF Sound, Typed, Told, disks, hashes
<1>7. Counted' /\ Held'  BY <1>1, <1>2, <1>3 DEF Sound, Counted, Held, disks
<1>8. Taken'
  <2>1. \A f : Verified(f)' = Verified(f)  BY <1>1 DEF given, Verified, Claimed
  <2>2. \A j \in DOMAIN ChangePath : Done("changes", j)' =>
          db'.changes[ChangePath[j]]
            = [before |-> before[ChangePath[j]], after |-> after[ChangePath[j]]]
    BY <1>2, <1>1, <1>3, <1>4, <1>5, Turns DEF Sound, Typed, Taken
  <2> QED  BY <1>1, <1>2, <1>3, <2>1, <2>2 DEF Sound, Taken, disks, hashes
<1> QED  BY <1>3, <1>6, <1>7, <1>8 DEF Sound

\* Another edit of the workspace, in the era it falls into.
LEMMA EditedHolds ==
  ASSUME Typed, NEW d \in [File -> State], NEW n \in Nat, Edited(d, n)
  PROVE  /\ disk' = d /\ disk' \in [File -> State]
         /\ heldBefore' \in [File -> SUBSET State] /\ heldAfter' \in [File -> SUBSET State]
         /\ \A f \in File : /\ heldBefore[f] \subseteq heldBefore'[f]
                            /\ heldAfter[f] \subseteq heldAfter'[f]
                            /\ n = 0 => d[f] \in heldBefore'[f]
                            /\ n = Len(Exe) => d[f] \in heldAfter'[f]
<1>1. disk' = d /\ disk' \in [File -> State]  BY DEF Edited
<1>2. heldBefore' \in [File -> SUBSET State] /\ heldAfter' \in [File -> SUBSET State]
  BY DEF Edited, Typed
<1>3. \A f \in File : /\ heldBefore[f] \subseteq heldBefore'[f]
                      /\ heldAfter[f] \subseteq heldAfter'[f]
                      /\ n = 0 => d[f] \in heldBefore'[f]
                      /\ n = Len(Exe) => d[f] \in heldAfter'[f]
  BY DEF Edited, Typed
<1> QED  BY <1>1, <1>2, <1>3

LEMMA RunIsSound == ASSUME Sound, RunCommand PROVE Sound'
<1>1. PICK o \in Outcome,
           d \in {disk} \cup
             (IF edits < MaxEdits THEN {[disk EXCEPT ![f] = c] : f \in File, c \in State}
                                  ELSE {}) :
        result' = Append(result, o) /\ Edited(d, Len(result) + 1)
  BY DEF RunCommand
<1>2. at = "run" /\ Advance /\ UNCHANGED <<given, hashes, db>>
  BY DEF RunCommand
<1>3. d \in [File -> State]  BY <1>1 DEF Sound, Typed
<1>4. db.proof = Nothing /\ at # "died"  BY <1>2, NoProofYet
<1>5. /\ Standing' /\ pos \in DOMAIN Exe /\ pos \in Nat
      /\ \A step \in {"before", "verify", "after", "changes"}, j \in DOMAIN ChangePath :
           Done(step, j)' <=> Done(step, j)
      /\ \A i \in DOMAIN Exe : Done("run", i)' <=> Done("run", i) \/ i = pos
  BY <1>2, TakesTurn, LengthsAre, Turns DEF given
<1>6. Len(result) = pos - 1
  <2>1. \A i \in DOMAIN Exe : Done("run", i) <=> pos > i  BY <1>2, PlacesAre DEF Done
  <2>2. \A i \in DOMAIN Exe : pos > i <=> i <= Len(result)
    BY <1>4, <2>1 DEF Sound, Counted
  <2>3. Len(result) \in Nat /\ Len(result) <= Len(Exe)  BY DEF Sound, Typed
  <2>4. ~(pos <= Len(result))  BY <1>5, <2>2
  <2>5. CASE pos = 1  BY <2>3, <2>4, <2>5
  <2>6. CASE pos > 1
    <3>1. pos - 1 \in DOMAIN Exe  BY <1>5, <2>6, Turns
    <3> QED  BY <1>5, <2>2, <2>3, <2>4, <3>1
  <2> QED  BY <1>5, <2>5, <2>6, Turns
<1>7. /\ result' \in Seq(Outcome) /\ Len(result') = pos /\ Len(result') <= Len(Exe)
  BY <1>1, <1>5, <1>6, Turns DEF Sound, Typed
<1>8. /\ disk' = d /\ disk' \in [File -> State]
      /\ heldBefore' \in [File -> SUBSET State] /\ heldAfter' \in [File -> SUBSET State]
      /\ \A f \in File : /\ heldBefore[f] \subseteq heldBefore'[f]
                         /\ heldAfter[f] \subseteq heldAfter'[f]
                         /\ Len(result) + 1 = Len(Exe) => d[f] \in heldAfter'[f]
  BY <1>1, <1>3, <1>5, <1>6, EditedHolds DEF Sound
<1>9. Typed' /\ Told'
  BY <1>2, <1>4, <1>7, <1>8 DEF Sound, Typed, Told, hashes
<1>10. Counted'
  BY <1>2, <1>4, <1>5, <1>6, <1>7, Turns DEF Sound, Counted
<1>11. Held'
  <2>1. result' # <<>>  BY <1>5, <1>7, Turns
  <2> QED  BY <1>5, <1>6, <1>7, <1>8, <2>1 DEF Held
<1>12. Taken'
  BY <1>2, <1>4, <1>5, <1>8, Turns, DetailsStand DEF Sound, Taken, hashes
<1> QED  BY <1>5, <1>9, <1>10, <1>11, <1>12 DEF Sound

LEMMA EditIsSound == ASSUME Sound, Edit PROVE Sound'
<1>1. PICK f \in File, c \in State : Edited([disk EXCEPT ![f] = c], Len(result))
  BY DEF Edit
<1>2. at # "died" /\ UNCHANGED <<at, pos, given, hashes, result, db>>
  BY DEF Edit, Ended, outcome
<1>3. [disk EXCEPT ![f] = c] \in [File -> State] /\ Len(result) \in Nat
  BY <1>1 DEF Sound, Typed
<1>4. /\ disk' \in [File -> State]
      /\ heldBefore' \in [File -> SUBSET State] /\ heldAfter' \in [File -> SUBSET State]
      /\ \A g \in File : /\ heldBefore[g] \subseteq heldBefore'[g]
                         /\ heldAfter[g] \subseteq heldAfter'[g]
                         /\ Len(result) = 0 => disk'[g] \in heldBefore'[g]
                         /\ Len(result) = Len(Exe) => disk'[g] \in heldAfter'[g]
  BY <1>1, <1>3, EditedHolds DEF Sound
<1>5. Typed'  BY <1>2, <1>4 DEF Sound, Typed, hashes
<1>6. Told'  BY <1>2, <1>4, ToldStays
<1>7. \A step, j : Done(step, j)' <=> Done(step, j)  BY <1>2 DEF Done, Place
<1>8. Standing'  BY <1>2 DEF Sound, Standing, Length, given
<1>9. Counted' /\ Held'  BY <1>2, <1>4, <1>7 DEF Sound, Counted, Held
<1>10. Taken'  BY <1>2, <1>4, <1>7, Turns, DetailsStand DEF Sound, Taken, hashes
<1> QED  BY <1>5, <1>6, <1>8, <1>9, <1>10 DEF Sound

\* The proof block is made of what has been taken down.
LEMMA ProofIsSound == ASSUME Sound, RecordProof PROVE Sound'
<1>1. /\ at = "proof" /\ db' = [db EXCEPT !.proof = Provenance] /\ Advance
      /\ UNCHANGED <<disks, given, hashes, result>>
  BY DEF RecordProof, outcome
<1>2. /\ db'.changes = db.changes /\ db'.proof = Provenance /\ DOMAIN db' = DOMAIN db
  BY <1>1 DEF Sound, Typed
<1>3. at # "died" /\ at # "done" /\ Standing  BY <1>1 DEF Sound
<1>4. \A step \in {"before", "verify", "after", "changes"}, j \in DOMAIN ChangePath :
        Done(step, j)
  BY <1>1, PlacesAre DEF Done
<1>5. Standing' /\ Done("proof", 1)'
  <2>1. "proof" \in Steps /\ pos = 1 /\ Length("proof") = 1
    BY <1>1, <1>3, Turns DEF Standing, Length
  <2> QED  BY <1>1, <1>3, <2>1, Onward DEF given
<1>6. \A j \in DOMAIN ChangePath :
        \A step \in {"before", "verify", "after", "changes"} :
          Done(step, j)' <=> Done(step, j)
  BY <1>1, <1>3, Elsewhere, Turns, LengthsAre DEF given
<1>7. \A i \in DOMAIN Exe : Done("run", i)' <=> Done("run", i)
  BY <1>1, <1>3, Elsewhere, Turns, LengthsAre DEF given
<1>8. Typed'  BY <1>1, <1>2 DEF Sound, Typed, disks, hashes
<1>9. Counted' /\ Held'  BY <1>1, <1>3, <1>7 DEF Sound, Counted, Held, disks
<1>10. Taken'
  BY <1>1, <1>2, <1>3, <1>6, DetailsStand DEF Sound, Taken, disks, hashes
<1>11. Told'
  <2>1. db'.proof.details = [f \in Paths |-> ChangeDetail(f)]
    BY <1>2 DEF Provenance, Paths
  <2>2. \A f \in Paths :
          /\ before[f] \in heldBefore[f] /\ after[f] \in heldAfter[f]
          /\ verdict[f] = Verified(f)
          /\ db.changes[f] = [before |-> before[f], after |-> after[f]]
    BY <1>3, <1>4 DEF Sound, Taken, Paths
  <2>3. \A f : ChangeDetail(f)' = ChangeDetail(f) /\ Verified(f)' = Verified(f)
    BY <1>1, DetailsStand
  <2>4. Paths' = Paths  BY DEF Paths
  <2> QED  BY <1>1, <1>2, <1>5, <2>1, <2>2, <2>3, <2>4 DEF Told, disks, hashes
<1> QED  BY <1>5, <1>8, <1>9, <1>10, <1>11 DEF Sound

------------------------------------------------------------------------------
LEMMA StepIsSound == Sound /\ [Next]_vars => Sound'
<1> SUFFICES ASSUME Sound, [Next]_vars PROVE Sound'  OBVIOUS
<1>1. CASE HashBefore  BY <1>1, BeforeIsSound
<1>2. CASE VerifyBaseline  BY <1>2, VerifyIsSound
<1>3. CASE RunCommand  BY <1>3, RunIsSound
<1>4. CASE HashAfter  BY <1>4, AfterIsSound
<1>5. CASE RecordChange  BY <1>5, ChangesAreSound
<1>6. CASE RecordProof  BY <1>6, ProofIsSound
<1>7. CASE Edit  BY <1>7, EditIsSound
<1>8. CASE \/ InsertRun \/ RecordStream \/ RecordOutput \/ WriteRunJson \/ LoadSidecar
           \/ LoadReceipt \/ WriteProvenance \/ RecordFailure \/ Settle \/ Persist
           \/ PersistArtifact \/ Grow \/ Die
  <2>1. Quiet
    BY <1>8 DEF InsertRun, RecordStream, RecordOutput, WriteRunJson, LoadSidecar,
       LoadReceipt, WriteProvenance, RecordFailure, Settle, Persist, PersistArtifact,
       Grow, Die, Quiet, outcome, Sound, Typed
  <2>2. /\ at # "died"
        /\ \/ at' = "died" \/ UNCHANGED <<at, pos>>
           \/ Advance /\ at \notin {"before", "verify", "run", "after", "changes", "done"}
    BY <1>8 DEF InsertRun, RecordStream, RecordOutput, WriteRunJson, LoadSidecar,
       LoadReceipt, WriteProvenance, RecordFailure, Settle, Persist, PersistArtifact,
       Grow, Die, Raise, Ended
  <2> QED  BY <2>1, <2>2, QuietIsSound
<1>9. CASE UNCHANGED vars
  <2>1. Quiet  BY <1>9 DEF vars, Quiet, outcome, Sound, Typed
  <2>2. CASE at # "died"  BY <1>9, <2>1, <2>2, QuietIsSound DEF vars
  <2>3. CASE at = "died"
    <3>1. at' = "died" /\ Typed'
      BY <1>9, <2>3 DEF vars, disks, hashes, outcome, Sound, Typed
    <3>2. Told'  BY <1>9, <3>1, ToldStays DEF vars, disks
    <3> QED  BY <3>1, <3>2 DEF Sound
  <2> QED  BY <2>2, <2>3
<1> QED  BY <1>1, <1>2, <1>3, <1>4, <1>5, <1>6, <1>7, <1>8, <1>9 DEF Next

LEMMA InitIsSound == Init => Sound
<1> SUFFICES ASSUME Init PROVE Sound  OBVIOUS
<1>1. Typed
  <2>1. disk \in [File -> State]  BY GenericAssumption DEF Init
  <2> QED  BY <2>1, Turns DEF Init, Typed, State
<1>2. Standing /\ Place(at) = 1
  <2>1. Script[1] = "insert"  BY DEF Script
  <2> QED  BY <2>1, ScriptPlaces DEF Init, Standing, Steps, Length
<1>3. \A step \in {"before", "verify", "run", "after", "changes"}, j \in Nat :
        ~Done(step, j)
  BY <1>2, PlacesAre DEF Done, Init
<1>4. Counted /\ Taken /\ Held  BY <1>1, <1>3, Turns DEF Counted, Taken, Held, Init
<1> QED  BY <1>1, <1>2, <1>4 DEF Sound, Told, Init

\* What a run records of a file it was told about was there, before any of its
\* commands and after all of them, and its note says no more than was compared.
THEOREM RecordedChangesWereObserved == Spec => []ChangesWereObserved
<1>1. Sound => ChangesWereObserved
  <2> SUFFICES ASSUME Sound, db.proof # Nothing, NEW f \in DOMAIN db.proof.details
               PROVE  LET d == db.proof.details[f] IN
                 /\ d.before \in heldBefore[f] /\ d.after \in heldAfter[f]
                 /\ db.changes[f] = [before |-> d.before, after |-> d.after]
                 /\ d.basis = "git_baseline" => d.changed = (d.after # object[f])
                 /\ d.basis = "recorder_window" => d.changed = (d.after # d.before)
                 /\ Claimed(f) \notin {"none", object[f]} => d.note \in {"mismatch", "unverifiable"}
                 /\ ~d.changed /\ d.note = "none" => Claimed(f) = Nothing /\ d.after = Nothing
    BY DEF ChangesWereObserved
  <2>1. f \in Paths /\ db.proof.details[f] = ChangeDetail(f)  BY DEF Sound, Told
  <2>2. /\ before[f] \in heldBefore[f] /\ after[f] \in heldAfter[f]
        /\ verdict[f] = Verified(f)
        /\ db.changes[f] = [before |-> before[f], after |-> after[f]]
    BY <2>1 DEF Sound, Told
  <2>3. ChangeDetail(f).before = before[f] /\ ChangeDetail(f).after = after[f]
    BY DEF ChangeDetail
  <2>4. verdict[f] = "verified" => claim # Nothing /\ Claimed(f) = claim[f] /\ claim[f] = object[f]
    BY <2>2 DEF Verified, Claimed
  <2>5. Claimed(f) \notin {"none", object[f]} => verdict[f] \in {"mismatch", "unverifiable"}
    BY <2>2 DEF Verified
  <2>6. verdict[f] \in {"none", "verified", "mismatch", "unverifiable"}
    BY <2>1, Turns DEF Sound, Typed, Paths
  <2>7. CASE verdict[f] = "verified"
    <3>1. /\ ChangeDetail(f).basis = "git_baseline"
          /\ ChangeDetail(f).changed = (after[f] # object[f])
          /\ ChangeDetail(f).note = IF after[f] # Nothing /\ object[f] = after[f]
                                      THEN "matches baseline" ELSE "none"
      BY <2>4, <2>7 DEF ChangeDetail
    <3> QED  BY <2>1, <2>2, <2>3, <2>4, <2>5, <2>7, <3>1
  <2>8. CASE verdict[f] # "verified"
    <3>1. /\ ChangeDetail(f).basis = "recorder_window"
          /\ ChangeDetail(f).changed = (after[f] # before[f])
          /\ verdict[f] # "none" => ChangeDetail(f).note = verdict[f]
          /\ after[f] = before[f] => ChangeDetail(f).note # "none"
      BY <2>8 DEF ChangeDetail
    <3> QED  BY <2>1, <2>2, <2>3, <2>5, <2>8, <3>1
  <2> QED  BY <2>7, <2>8
<1> QED  BY <1>1, InitIsSound, StepIsSound, PTL DEF Spec

------------------------------------------------------------------------------
(* What a settled run tells *)

Places == {"streams", "outputs", "failures", "settle", "persist", "artifacts"}

LEMMA LaterPlaces ==
  /\ Place("streams") = 7 /\ Place("outputs") = 8 /\ Place("failures") = 14
  /\ Place("settle") = 15 /\ Place("persist") = 16 /\ Place("artifacts") = 17
  /\ Places \subseteq Steps /\ "done" \in Steps
<1>1. /\ Script[7] = "streams" /\ Script[8] = "outputs" /\ Script[14] = "failures"
      /\ Script[15] = "settle" /\ Script[16] = "persist" /\ Script[17] = "artifacts"
      /\ Script[18] = "done"
  BY DEF Script
<1> QED  BY <1>1, ScriptPlaces DEF Steps, Places

LEMMA LaterLengths ==
  /\ Length("streams") = Len(Exe) /\ Length("failures") = Len(Exe)
  /\ Length("persist") = Len(Exe)
  /\ Length("settle") = 1 /\ Length("artifacts") = 1 /\ Length("outputs") = Len(Output)
  /\ Length("insert") = 1
<1>1. Len(Exe) \in Nat /\ Len(Output) \in Nat  BY GenericAssumption
<1> QED  BY <1>1 DEF Length

\* The fields of the run's rows and of its artifact root.
Field == {"status", "changes", "proof", "failures", "invocations", "streams",
          "outputs", "json"}
JsonName == {"run.json", "agent-receipt.json", "agent-provenance.json"}

Shapes ==
  /\ DOMAIN db = Field /\ DOMAIN db.streams = DOMAIN Exe
  /\ DOMAIN root = {"streams", "outputs", "json"} /\ DOMAIN root.streams = DOMAIN Exe
  /\ db.json \subseteq root.json /\ root.json \subseteq JsonName
  /\ DOMAIN seen = DOMAIN Output
  /\ root.outputs \in [Key -> State] /\ db.outputs \in [Key -> State]
  /\ db.failures \subseteq DOMAIN Exe /\ db.invocations \subseteq DOMAIN Exe
  /\ left \subseteq DOMAIN Exe /\ stream \in [DOMAIN Exe -> 0..2]
  /\ edits \in 0..MaxEdits /\ pos \in Nat \ {0} /\ at \in Steps \cup {"died"}

LEMMA ClaimStands == ASSUME Next PROVE claim' = claim
<1> USE DEF given
<1>1. CASE \/ InsertRun \/ HashBefore \/ VerifyBaseline \/ RunCommand \/ HashAfter
           \/ RecordChange \/ RecordStream \/ RecordOutput \/ WriteRunJson \/ LoadSidecar
           \/ LoadReceipt
  BY <1>1 DEF InsertRun, HashBefore, VerifyBaseline, RunCommand, HashAfter, RecordChange,
     RecordStream, RecordOutput, WriteRunJson, LoadSidecar, LoadReceipt
<1>2. CASE \/ WriteProvenance \/ RecordProof \/ RecordFailure \/ Settle \/ Persist
           \/ PersistArtifact \/ Edit \/ Grow \/ Die
  BY <1>2 DEF WriteProvenance, RecordProof, RecordFailure, Settle, Persist,
     PersistArtifact, Edit, Grow, Die
<1> QED  BY <1>1, <1>2 DEF Next

\* Which actions change what.
LEMMA Frame ==
  ASSUME Sound, Shapes, Next
  PROVE  /\ result' = result \/ RunCommand
         /\ stream' = stream \/ RunCommand \/ (RecordStream /\ at' = "died") \/ Grow
         /\ left' = left \/ RunCommand
         /\ \/ root' = root \/ RecordStream \/ RecordOutput
            \/ \E name \in JsonName : root' = [root EXCEPT !.json = @ \cup {name}]
         /\ seen' = seen \/ RecordOutput
         /\ db'.status = db.status \/ InsertRun \/ Settle
         /\ db'.failures = db.failures \/ RecordFailure
         /\ db'.proof = db.proof \/ RecordProof
         /\ (db'.invocations = db.invocations /\ db'.streams = db.streams) \/ Persist
         /\ (db'.outputs = db.outputs /\ db'.json = db.json) \/ PersistArtifact
         /\ DOMAIN db' = DOMAIN db
<1> USE DEF Shapes, Field, outcome
<1>1. CASE \/ HashBefore \/ VerifyBaseline \/ HashAfter \/ LoadSidecar \/ Edit \/ Die
           \/ RunCommand \/ RecordStream \/ RecordOutput \/ Grow
  BY <1>1 DEF HashBefore, VerifyBaseline, HashAfter, LoadSidecar, Edit, Die,
     RunCommand, RecordStream, RecordOutput, Grow, Raise
<1>2. CASE WriteRunJson \/ LoadReceipt \/ WriteProvenance
  BY <1>2 DEF WriteRunJson, LoadReceipt, WriteProvenance, JsonName
<1>3. CASE InsertRun \/ Settle  BY <1>3 DEF InsertRun, Settle
<1>4. CASE RecordChange  BY <1>4 DEF RecordChange
<1>5. CASE RecordProof  BY <1>5 DEF RecordProof
<1>6. CASE RecordFailure  BY <1>6 DEF RecordFailure
<1>7. CASE Persist  BY <1>7 DEF Persist
<1>8. CASE PersistArtifact  BY <1>8 DEF PersistArtifact
<1> QED  BY <1>1, <1>2, <1>3, <1>4, <1>5, <1>6, <1>7, <1>8 DEF Next

\* A recorder that has ended takes no step.
LEMMA Goes == ASSUME Next PROVE at # "died" /\ at # "done"
<1>1. CASE \/ InsertRun \/ HashBefore \/ VerifyBaseline \/ RunCommand \/ HashAfter
           \/ RecordChange \/ RecordStream \/ RecordOutput \/ WriteRunJson \/ LoadSidecar
           \/ LoadReceipt
  BY <1>1 DEF InsertRun, HashBefore, VerifyBaseline, RunCommand, HashAfter, RecordChange,
     RecordStream, RecordOutput, WriteRunJson, LoadSidecar, LoadReceipt
<1>2. CASE \/ WriteProvenance \/ RecordProof \/ RecordFailure \/ Settle \/ Persist
           \/ PersistArtifact \/ Edit \/ Grow \/ Die
  BY <1>2 DEF WriteProvenance, RecordProof, RecordFailure, Settle, Persist,
     PersistArtifact, Edit, Grow, Die, Ended
<1> QED  BY <1>1, <1>2 DEF Next

\* How a step moves the recorder on.
LEMMA Moves ==
  ASSUME Sound, Next, at' # "died"
  PROVE  /\ Standing'
         /\ \A step \in Steps, j \in Nat : Done(step, j) => Done(step, j)'
         /\ \A step \in Steps, j \in Nat : j > 0 /\ j <= Length(step) /\ Done(step, j)' =>
              Done(step, j) \/ (at = step /\ pos = j /\ ~UNCHANGED <<at, pos>>)
<1>0. at # "died" /\ at # "done"  BY Goes
<1>1. claim' = claim /\ (Advance \/ UNCHANGED <<at, pos>>)
  <2> USE DEF given
  <2>1. CASE InsertRun \/ HashBefore \/ VerifyBaseline \/ RunCommand \/ HashAfter \/ RecordChange
    BY <2>1 DEF InsertRun, HashBefore, VerifyBaseline, RunCommand, HashAfter, RecordChange
  <2>2. CASE RecordStream \/ RecordOutput \/ WriteRunJson \/ LoadSidecar \/ LoadReceipt
    BY <2>2 DEF RecordStream, RecordOutput, WriteRunJson, LoadSidecar, LoadReceipt, Raise
  <2>3. CASE WriteProvenance \/ RecordProof \/ RecordFailure \/ Settle \/ Persist
    BY <2>3 DEF WriteProvenance, RecordProof, RecordFailure, Settle, Persist
  <2>4. CASE PersistArtifact  BY <2>4 DEF PersistArtifact
  <2>5. CASE Edit \/ Grow \/ Die  BY <2>5 DEF Edit, Grow, Die, Raise, Ended
  <2> QED  BY <2>1, <2>2, <2>3, <2>4, <2>5 DEF Next
<1>2. Standing  BY <1>0 DEF Sound
<1>3. CASE Advance
  <2> HIDE DEF Done
  <2>1. /\ Standing'
        /\ \A step \in Steps, j \in Nat : Done(step, j) => Done(step, j)'
        /\ \A step \in Steps, j \in Nat : j > 0 /\ j <= Length(step) =>
             (Done(step, j)' <=> Done(step, j) \/ (at = step /\ pos = j))
    BY <1>0, <1>1, <1>2, <1>3, Onward
  <2>2. UNCHANGED <<at, pos>> => \A step, j : Done(step, j)' <=> Done(step, j)
    BY DEF Done, Place
  <2> QED  BY <2>1, <2>2
<1>4. CASE UNCHANGED <<at, pos>>
  <2>1. \A step, j : Done(step, j)' <=> Done(step, j)  BY <1>4 DEF Done, Place
  <2>2. Standing'  BY <1>1, <1>2, <1>4 DEF Standing, Length
  <2> QED  BY <1>1, <2>1, <2>2
<1> QED  BY <1>1, <1>3, <1>4

\* Whose step moves the recorder on from where.
LEMMA Whose ==
  ASSUME Next, at' # "died", ~UNCHANGED <<at, pos>>
  PROVE  /\ at = "streams" => RecordStream
         /\ at = "failures" => RecordFailure
         /\ at = "settle" => Settle
         /\ at = "persist" => Persist
         /\ at = "artifacts" => PersistArtifact
<1>1. CASE \/ InsertRun \/ HashBefore \/ VerifyBaseline \/ RunCommand \/ HashAfter
           \/ RecordChange \/ RecordOutput \/ WriteRunJson \/ LoadSidecar
           \/ LoadReceipt
  BY <1>1 DEF InsertRun, HashBefore, VerifyBaseline, RunCommand, HashAfter, RecordChange,
     RecordOutput, WriteRunJson, LoadSidecar, LoadReceipt
<1>2. CASE \/ WriteProvenance \/ RecordProof \/ Edit \/ Grow \/ Die
  BY <1>2 DEF WriteProvenance, RecordProof, Edit, Grow, Die, Raise
<1>3. CASE RecordStream  BY <1>3 DEF RecordStream
<1>4. CASE RecordFailure  BY <1>4 DEF RecordFailure
<1>5. CASE Settle  BY <1>5 DEF Settle
<1>6. CASE Persist  BY <1>6 DEF Persist
<1>7. CASE PersistArtifact  BY <1>7 DEF PersistArtifact
<1> QED  BY <1>1, <1>2, <1>3, <1>4, <1>5, <1>6, <1>7 DEF Next

\* The turns of commands and of outputs.
LEMMA ExeTurn ==
  ASSUME Sound, at \in {"run", "streams", "failures", "persist"}
  PROVE  pos \in DOMAIN Exe
  BY LaterLengths, LengthsAre, Turns DEF Sound, Standing

LEMMA OutputsAre ==
  /\ DOMAIN Output = {j \in Nat : j > 0 /\ j <= Len(Output)}
  /\ \A j \in DOMAIN Output : Output[j].file \in File /\ Output[j].key \in Key
<1> DEFINE Option == [file : File, key : STRING]
<1>1. Output \in Seq(Option)  BY GenericAssumption
<1> HIDE DEF Option
<1>2. DOMAIN Output = 1..Len(Output) /\ Len(Output) \in Nat  BY <1>1
<1>3. \A j \in DOMAIN Output : Output[j] \in Option  BY <1>1, <1>2
<1>4. \A o \in Option : o.file \in File  BY DEF Option
<1> QED  BY <1>2, <1>3, <1>4 DEF Key

LEMMA OutputTurn == ASSUME Sound, at = "outputs" PROVE pos \in DOMAIN Output
  BY LaterLengths, OutputsAre DEF Sound, Standing

LEMMA EditsAre == ASSUME Next PROVE edits' = edits \/ RunCommand \/ Edit
<1>1. CASE \/ InsertRun \/ HashBefore \/ VerifyBaseline \/ HashAfter
           \/ RecordChange \/ RecordStream \/ RecordOutput \/ WriteRunJson \/ LoadSidecar
           \/ LoadReceipt
  BY <1>1 DEF InsertRun, HashBefore, VerifyBaseline, HashAfter, RecordChange,
     RecordStream, RecordOutput, WriteRunJson, LoadSidecar, LoadReceipt, disks
<1>2. CASE \/ WriteProvenance \/ RecordProof \/ RecordFailure \/ Settle \/ Persist
           \/ PersistArtifact \/ Grow \/ Die
  BY <1>2 DEF WriteProvenance, RecordProof, RecordFailure, Settle, Persist,
     PersistArtifact, Grow, Die, disks
<1> QED  BY <1>1, <1>2 DEF Next

LEMMA DiesInPlace == ASSUME Sound, Shapes, Next, at' = "died" PROVE pos' = pos
<1>1. "died" # at' \/ ~Advance
  <2>1. SUFFICES ASSUME Advance PROVE at' # "died"  OBVIOUS
  <2>2. claim' = claim  BY ClaimStands
  <2> QED  BY <2>1, <2>2, Goes, Onward, Turns DEF Sound, Standing
<1>2. CASE \/ InsertRun \/ HashBefore \/ VerifyBaseline \/ RunCommand \/ HashAfter
           \/ RecordChange \/ RecordStream \/ RecordOutput \/ WriteRunJson \/ LoadSidecar
           \/ LoadReceipt
  BY <1>1, <1>2 DEF InsertRun, HashBefore, VerifyBaseline, RunCommand, HashAfter,
     RecordChange, RecordStream, RecordOutput, WriteRunJson, LoadSidecar, LoadReceipt, Raise
<1>3. CASE \/ WriteProvenance \/ RecordProof \/ RecordFailure \/ Settle \/ Persist
           \/ PersistArtifact \/ Edit \/ Grow \/ Die
  BY <1>1, <1>3 DEF WriteProvenance, RecordProof, RecordFailure, Settle, Persist,
     PersistArtifact, Edit, Grow, Die, Raise
<1> QED  BY <1>2, <1>3 DEF Next

LEMMA ShapesStay == ASSUME Sound, Shapes, Next PROVE Shapes'
<1> USE DEF Shapes, Field
<1>1. /\ DOMAIN db' = Field  BY Frame
<1>2. DOMAIN db'.streams = DOMAIN Exe
  <2>1. CASE Persist  BY <2>1 DEF Persist
  <2> QED  BY <2>1, Frame
<1>3. /\ DOMAIN root' = {"streams", "outputs", "json"} /\ DOMAIN root'.streams = DOMAIN Exe
      /\ root.json \subseteq root'.json /\ root'.json \subseteq JsonName
  <2>1. CASE RecordStream  BY <2>1 DEF RecordStream
  <2>2. CASE RecordOutput  BY <2>2 DEF RecordOutput
  <2>3. ASSUME NEW name \in JsonName, root' = [root EXCEPT !.json = @ \cup {name}]
        PROVE  /\ DOMAIN root' = {"streams", "outputs", "json"}
               /\ DOMAIN root'.streams = DOMAIN Exe
               /\ root.json \subseteq root'.json /\ root'.json \subseteq JsonName
    BY <2>3
  <2> QED  BY <2>1, <2>2, <2>3, Frame
<1>4. db'.json \subseteq root'.json
  <2>1. CASE PersistArtifact
    <3> DEFINE new == {i \in DOMAIN Json : Json[i] \in root.json \ db.json}
    <3>1. db'.json = db.json \/ (new # {} /\ db'.json = db.json \cup {Json[Min(new)]})
      BY <2>1 DEF PersistArtifact
    <3>2. DOMAIN Json = 1..3  BY DEF Json
    <3>3. new # {} => Min(new) \in new
      <4> SUFFICES ASSUME new # {} PROVE Min(new) \in new  OBVIOUS
      <4>1. \E m \in new : \A i \in new : m <= i  BY <3>2
      <4> HIDE DEF new
      <4> QED  BY <4>1 DEF Min
    <3>4. new # {} => Json[Min(new)] \in root.json  BY <3>3
    <3> QED  BY <1>3, <3>1, <3>4
  <2> QED  BY <1>3, <2>1, Frame
<1>5. DOMAIN seen' = DOMAIN Output
  <2>1. CASE RecordOutput  BY <2>1 DEF RecordOutput
  <2> QED  BY <2>1, Frame
<1>6. root'.outputs \in [Key -> State]
  <2>1. CASE RecordOutput
    <3>1. /\ at = "outputs" /\ at # "died"  BY <2>1 DEF RecordOutput
    <3>2. pos \in DOMAIN Output  BY <3>1, OutputTurn
    <3>3. Output[pos].key \in Key /\ disk[Output[pos].file] \in State
      BY <3>2, OutputsAre DEF Sound, Typed
    <3> QED  BY <2>1, <3>3 DEF RecordOutput
  <2>2. CASE RecordStream  BY <2>2 DEF RecordStream
  <2> QED  BY <2>1, <2>2, Frame
<1>7. db'.outputs \in [Key -> State]
  <2>1. CASE PersistArtifact
    <3>1. \/ db'.outputs = db.outputs
          \/ \E k : db'.outputs = [db.outputs EXCEPT ![k] = root.outputs[k]]
      BY <2>1 DEF PersistArtifact
    <3> QED  BY <3>1
  <2> QED  BY <2>1, Frame
<1>8. db'.failures \subseteq DOMAIN Exe
  <2>1. CASE RecordFailure
    <3>1. pos \in DOMAIN Exe  BY <2>1, ExeTurn DEF RecordFailure
    <3> QED  BY <2>1, <3>1 DEF RecordFailure
  <2> QED  BY <2>1, Frame
<1>9. db'.invocations \subseteq DOMAIN Exe
  <2>1. CASE Persist
    <3>1. pos \in DOMAIN Exe  BY <2>1, ExeTurn DEF Persist
    <3> QED  BY <2>1, <3>1 DEF Persist
  <2> QED  BY <2>1, Frame
<1>10. left' \subseteq DOMAIN Exe /\ stream' \in [DOMAIN Exe -> 0..2]
  <2>1. CASE RunCommand
    <3>1. pos \in DOMAIN Exe  BY <2>1, ExeTurn DEF RunCommand
    <3> QED  BY <2>1, <3>1 DEF RunCommand
  <2>2. CASE RecordStream  BY <2>2 DEF RecordStream, outcome
  <2>3. CASE Grow  BY <2>3 DEF Grow
  <2> QED  BY <2>1, <2>2, <2>3, Frame
<1>11. edits' \in 0..MaxEdits
  <2>1. CASE RunCommand
    <3>1. edits' = edits \/ (edits < MaxEdits /\ edits' = edits + 1)
      BY <2>1 DEF RunCommand
    <3> QED  BY <3>1, GenericAssumption
  <2>2. CASE Edit  BY <2>2, GenericAssumption DEF Edit
  <2>3. edits' = edits \/ RunCommand \/ Edit  BY EditsAre
  <2> QED  BY <2>1, <2>2, <2>3
<1>12. pos' \in Nat \ {0} /\ at' \in Steps \cup {"died"}
  <2>1. CASE at' # "died"  BY <2>1, Moves DEF Standing
  <2>2. CASE at' = "died"  BY <2>2, DiesInPlace
  <2> QED  BY <2>1, <2>2
<1> QED  BY <1>1, <1>2, <1>3, <1>4, <1>5, <1>6, <1>7, <1>8, <1>9, <1>10, <1>11, <1>12

\* The status is one of an outcome.
Final == db.status \notin {"none", "running"}

\* A failure for every command that failed, once its turn is over; and a final
\* status only when all turns are.
Failing ==
  /\ \A i \in db.failures : i \in DOMAIN result /\ result[i] = "failed"
  /\ at # "died" => \A i \in DOMAIN Exe :
       Done("failures", i) /\ result[i] = "failed" => i \in db.failures
  /\ Final =>
       /\ at = "died" \/ Done("settle", 1)
       /\ Len(result) = Len(Exe) /\ db.status = TerminalStatus
       /\ \A i \in DOMAIN Exe : result[i] = "failed" => i \in db.failures

\* The proof block has the outcome of all commands.
Agreeing == db.proof # Nothing => db.proof.status = TerminalStatus

\* What was found of the outputs is there.
Found ==
  at # "died" \/ Final =>
    \A j \in DOMAIN Output : seen[j] # Nothing => root.outputs[Output[j].key] = seen[j]

\* The rows of what has been persisted.
Kept ==
  at # "died" =>
    /\ Done("artifacts", 1) => db.outputs = root.outputs /\ db.json = root.json
    /\ \A i \in DOMAIN Exe :
         /\ Done("streams", i) /\ i \notin left => root.streams[i] = stream[i]
         /\ Done("persist", i) =>
              /\ \E j \in db.invocations : Exe[j] = Exe[i]
              /\ i \notin left => db.streams[i].digest = db.streams[i].size

Whole == Sound /\ Shapes /\ Failing /\ Agreeing /\ Found /\ Kept

\* What is settled while the recorder stands has passed all before it.
LEMMA SettledLate ==
  ASSUME Sound, Failing, at # "died", Final
  PROVE  /\ at \notin {"insert", "run", "failures", "settle", "outputs", "streams"}
<1>1. Done("settle", 1)  BY DEF Failing
<1>2. Script[1] = "insert"  BY DEF Script
<1>3. Place("insert") = 1  BY <1>2, ScriptPlaces
<1> QED  BY <1>1, <1>3, LaterPlaces, PlacesAre, LaterLengths DEF Done, Sound, Standing

\* Past the commands every one has its outcome.
LEMMA AllRan ==
  ASSUME Sound, at # "died", Place(at) > Place("run")
  PROVE  Len(result) = Len(Exe) /\ DOMAIN result = DOMAIN Exe
<1>1. Done("run", Len(Exe))  BY DEF Done
<1>2. Len(Exe) \in DOMAIN Exe /\ Len(Exe) \in Nat  BY GenericAssumption, Turns
<1>3. Len(Exe) <= Len(result)  BY <1>1, <1>2 DEF Sound, Counted
<1>4. result \in Seq(Outcome) /\ Len(result) <= Len(Exe)  BY DEF Sound, Typed
<1>5. Len(result) = Len(Exe)  BY <1>2, <1>3, <1>4
<1>6. DOMAIN result = 1..Len(result) /\ DOMAIN Exe = 1..Len(Exe)
  BY <1>4, GenericAssumption
<1> QED  BY <1>5, <1>6

LEMMA FailingStays ==
  ASSUME Whole, Next
  PROVE  Failing'
<1> USE DEF Whole
<1>1. /\ result' = result \/ RunCommand
      /\ db'.status = db.status \/ InsertRun \/ Settle
      /\ db'.failures = db.failures \/ RecordFailure
  BY Frame
<1>2. at # "died" /\ at # "done"  BY Goes
<1>3. ASSUME NEW i \in db'.failures  PROVE i \in DOMAIN result' /\ result'[i] = "failed"
  <2>1. CASE RecordFailure
    <3>1. /\ at = "failures" /\ result' = result
          /\ i \in db.failures \/ (i = pos /\ result[pos] = "failed")
      BY <2>1 DEF RecordFailure, FailureRow, outcome, Shapes, Field
    <3>2. pos \in DOMAIN result
      BY <1>2, <3>1, ExeTurn, AllRan, LaterPlaces, PlacesAre
    <3> QED  BY <3>1, <3>2 DEF Failing
  <2>2. CASE RunCommand
    <3>1. db'.failures = db.failures
      BY <2>2 DEF RunCommand
    <3>2. \E o \in Outcome : result' = Append(result, o)  BY <2>2 DEF RunCommand
    <3>3. i \in DOMAIN result /\ result[i] = "failed"  BY <3>1 DEF Failing
    <3>4. result \in Seq(Outcome)  BY DEF Sound, Typed
    <3> QED  BY <3>2, <3>3, <3>4
  <2>3. CASE ~RecordFailure /\ ~RunCommand  BY <1>1, <2>3 DEF Failing
  <2> QED  BY <2>1, <2>2, <2>3
<1>4. ASSUME at' # "died", NEW i \in DOMAIN Exe, Done("failures", i)', result'[i] = "failed"
      PROVE  i \in db'.failures
  <2>1. Done("failures", i) \/ (at = "failures" /\ pos = i /\ ~UNCHANGED <<at, pos>>)
    BY <1>4, Moves, LaterPlaces, LaterLengths, Turns DEF Places
  <2>2. result' = result
    <3>1. at # "run"  BY <2>1, LaterPlaces, PlacesAre DEF Done
    <3>2. ~RunCommand  BY <3>1 DEF RunCommand
    <3> QED  BY <1>1, <3>2
  <2>3. db.failures \subseteq db'.failures
    <3>1. CASE RecordFailure  BY <3>1 DEF RecordFailure, Shapes, Field
    <3> QED  BY <1>1, <3>1
  <2>4. CASE Done("failures", i)  BY <1>2, <1>4, <2>2, <2>3, <2>4 DEF Failing
  <2>5. CASE at = "failures" /\ pos = i /\ ~UNCHANGED <<at, pos>>
    <3>1. RecordFailure  BY <1>4, <2>5, Whose
    <3> QED  BY <1>4, <2>2, <2>5, <3>1 DEF RecordFailure, FailureRow, Shapes, Field
  <2> QED  BY <2>1, <2>4, <2>5
<1>5. ASSUME Final'
      PROVE  /\ at' = "died" \/ Done("settle", 1)'
             /\ Len(result') = Len(Exe) /\ db'.status = TerminalStatus'
             /\ \A i \in DOMAIN Exe : result'[i] = "failed" => i \in db'.failures
  <2>1. CASE Final
    <3>1. at \notin {"insert", "run", "failures", "settle", "outputs", "streams"}
      BY <1>2, <2>1, SettledLate
    <3>2. result' = result /\ db'.status = db.status /\ db'.failures = db.failures
      BY <1>1, <3>1 DEF RunCommand, InsertRun, Settle, RecordFailure
    <3>3. TerminalStatus' = TerminalStatus  BY <3>2 DEF TerminalStatus
    <3>4. at' = "died" \/ Done("settle", 1)'
      BY <1>2, <2>1, Moves, LaterPlaces DEF Failing, Places
    <3> QED  BY <2>1, <3>2, <3>3, <3>4 DEF Failing
  <2>2. CASE ~Final
    <3>1. Settle
      <4>1. CASE InsertRun  BY <1>5, <4>1 DEF InsertRun, Final, Shapes, Field
      <4> QED  BY <1>1, <1>5, <2>2, <4>1 DEF Final
    <3>2. /\ at = "settle" /\ Advance /\ result' = result /\ db'.failures = db.failures
          /\ db'.status = TerminalStatus
      BY <3>1 DEF Settle, outcome, Shapes, Field
    <3>3. TerminalStatus' = TerminalStatus  BY <3>2 DEF TerminalStatus
    <3>4. Len(result) = Len(Exe)  BY <1>2, <3>2, AllRan, LaterPlaces, PlacesAre
    <3>5. \A i \in DOMAIN Exe : Done("failures", i)
      BY <3>2, LaterPlaces DEF Done
    <3>6. Done("settle", 1)'
      <4>1. pos = 1 /\ Standing  BY <1>2, <3>2, LaterLengths DEF Sound, Standing
      <4>2. Standing /\ "settle" \in Steps  BY <4>1, LaterPlaces DEF Places
      <4> QED  BY <1>2, <3>2, <4>1, <4>2, Onward, LaterLengths, ClaimStands
    <3> QED  BY <1>2, <3>2, <3>3, <3>4, <3>5, <3>6 DEF Failing
  <2> QED  BY <2>1, <2>2
<1> QED  BY <1>3, <1>4, <1>5 DEF Failing

LEMMA AgreeingStays == ASSUME Whole, Next PROVE Agreeing'
<1> USE DEF Whole
<1>1. (result' = result \/ RunCommand) /\ (db'.proof = db.proof \/ RecordProof)
  BY Frame
<1>2. CASE RecordProof
  <2>1. db'.proof = Provenance /\ result' = result
    BY <1>2 DEF RecordProof, outcome, Shapes, Field
  <2>2. TerminalStatus' = TerminalStatus  BY <2>1 DEF TerminalStatus
  <2> QED  BY <2>1, <2>2 DEF Agreeing, Provenance
<1>3. CASE RunCommand
  <2>1. db.proof = Nothing  BY <1>3, NoProofYet DEF RunCommand
  <2>2. db'.proof = db.proof  BY <1>3 DEF RunCommand
  <2> QED  BY <2>1, <2>2 DEF Agreeing
<1>4. CASE ~RecordProof /\ ~RunCommand
  <2>1. TerminalStatus' = TerminalStatus  BY <1>1, <1>4 DEF TerminalStatus
  <2> QED  BY <1>1, <1>4, <2>1 DEF Agreeing
<1> QED  BY <1>2, <1>3, <1>4

LEMMA FoundStays == ASSUME Whole, Next, Failing' PROVE Found'
<1> USE DEF Whole
<1>1. at # "died"  BY Goes
<1>2. \A j \in DOMAIN Output : seen[j] # Nothing => root.outputs[Output[j].key] = seen[j]
  BY <1>1 DEF Found
<1>3. CASE RecordOutput
  <2> DEFINE o == Output[pos]
  <2>1. at = "outputs"  BY <1>3 DEF RecordOutput
  <2>2. pos \in DOMAIN Output /\ o.key \in Key
    BY <2>1, OutputTurn, OutputsAre
  <2>3. ~Final'
    <3>1. db' = db  BY <1>3 DEF RecordOutput
    <3>2. ~Final  BY <1>1, <2>1, SettledLate
    <3> QED  BY <3>1, <3>2 DEF Final
  <2>4. CASE at' = "died"  BY <2>3, <2>4 DEF Found
  <2>5. CASE at' # "died"
    <3>1. seen' = [seen EXCEPT ![pos] = disk[o.file]]  BY <1>3 DEF RecordOutput
    <3>2. CASE disk[o.file] = Nothing
      <4>1. root' = root  BY <1>3, <3>2 DEF RecordOutput
      <4> QED  BY <1>2, <2>2, <3>1, <3>2, <4>1 DEF Found, Shapes
    <3>3. CASE disk[o.file] # Nothing
      <4>1. /\ root.outputs[o.key] \in {Nothing, disk[o.file]}
            /\ root'.outputs = [root.outputs EXCEPT ![o.key] =
                                  IF @ = Nothing THEN disk[o.file] ELSE @]
        BY <1>3, <2>5, <3>3 DEF RecordOutput, Clash, Raise, Shapes
      <4>2. root'.outputs[o.key] = disk[o.file]  BY <2>2, <4>1 DEF Shapes
      <4>3. ASSUME NEW j \in DOMAIN Output, seen'[j] # Nothing
            PROVE  root'.outputs[Output[j].key] = seen'[j]
        <5>1. Output[j].key \in Key  BY OutputsAre
        <5>2. CASE j = pos  BY <2>2, <3>1, <4>2, <5>2 DEF Shapes
        <5>3. CASE j # pos
          <6>1. seen'[j] = seen[j] /\ root.outputs[Output[j].key] = seen[j]
            BY <1>2, <3>1, <4>3, <5>3 DEF Shapes
          <6>2. CASE Output[j].key = o.key  BY <4>1, <4>2, <4>3, <6>1, <6>2
          <6>3. CASE Output[j].key # o.key  BY <4>1, <5>1, <6>1, <6>3 DEF Shapes
          <6> QED  BY <6>2, <6>3
        <5> QED  BY <5>2, <5>3
      <4> QED  BY <4>3 DEF Found
    <3> QED  BY <3>2, <3>3
  <2> QED  BY <2>4, <2>5
<1>4. CASE ~RecordOutput
  <2>1. seen' = seen /\ root'.outputs = root.outputs
    <3>1. CASE RecordStream  BY <1>4, <3>1, Frame DEF RecordStream, Shapes
    <3> QED  BY <1>4, <3>1, Frame DEF Shapes
  <2> QED  BY <1>2, <2>1 DEF Found
<1> QED  BY <1>3, <1>4

LEMMA KeptStays == ASSUME Whole, Next PROVE Kept'
<1> USE DEF Whole
<1> SUFFICES ASSUME at' # "died" PROVE Kept'  BY DEF Kept
<1>1. at # "died" /\ at # "done" /\ Standing  BY Goes DEF Sound
<1>2. ASSUME Done("artifacts", 1)'  PROVE db'.outputs = root'.outputs /\ db'.json = root'.json
  <2>1. ~Done("artifacts", 1)
    <3>1. PICK a \in 1..18 : at = Script[a]  BY <1>1 DEF Standing, Steps
    <3>2. Place(at) = a /\ a # 18  BY <1>1, <3>1, ScriptPlaces
    <3> QED  BY <1>1, <3>2, LaterPlaces, LaterLengths DEF Done, Standing
  <2>2. at = "artifacts" /\ pos = 1 /\ ~UNCHANGED <<at, pos>>
    BY <1>2, <2>1, Moves, LaterPlaces, LaterLengths DEF Places
  <2>3. PersistArtifact  BY <2>2, Whose
  <2> DEFINE outs == {j \in DOMAIN Output : db.outputs[Output[j].key] # root.outputs[Output[j].key]}
             json == {i \in DOMAIN Json : Json[i] \in root.json \ db.json}
  <2>4. outs = {} /\ json = {} /\ db' = db /\ root' = root
    BY <2>2, <2>3 DEF PersistArtifact
  <2>5. \A k \in Key : db.outputs[k] = root.outputs[k]  BY <2>4 DEF Key
  <2>6. db.outputs = root.outputs  BY <2>5 DEF Shapes
  <2>7. \A name \in JsonName : \E i \in DOMAIN Json : Json[i] = name
    <3>1. DOMAIN Json = 1..3 /\ Json[1] = "run.json" /\ Json[2] = "agent-receipt.json"
          /\ Json[3] = "agent-provenance.json"
      BY DEF Json
    <3> QED  BY <3>1 DEF JsonName
  <2>8. db.json = root.json
    <3>1. \A i \in DOMAIN Json : Json[i] \notin root.json \ db.json  BY <2>4
    <3>2. \A name \in root.json : name \in db.json  BY <2>7, <3>1 DEF Shapes
    <3> QED  BY <3>2 DEF Shapes
  <2> QED  BY <2>4, <2>6, <2>8
<1>3. ASSUME NEW i \in DOMAIN Exe, Done("streams", i)', i \notin left'
      PROVE  root'.streams[i] = stream'[i]
  <2>1. Done("streams", i) \/ (at = "streams" /\ pos = i /\ ~UNCHANGED <<at, pos>>)
    BY <1>3, Moves, LaterPlaces, LaterLengths, Turns DEF Places
  <2>2. at # "run" /\ ~RunCommand  BY <2>1, LaterPlaces, PlacesAre DEF Done, RunCommand
  <2>3. left' = left  BY <2>2, Frame
  <2>4. stream'[i] = stream[i]
    <3>1. CASE Grow  BY <1>3, <2>3, <3>1 DEF Grow, Shapes
    <3> QED  BY <2>2, <3>1, Frame
  <2>5. CASE Done("streams", i)
    <3>1. root.streams[i] = stream[i]  BY <1>1, <1>3, <2>3, <2>5 DEF Kept
    <3>2. root'.streams[i] = root.streams[i]
      <4>1. CASE RecordStream
        <5>1. at = "streams" /\ pos # i
          BY <2>5, <4>1, <1>1, LaterPlaces DEF RecordStream, Done, Standing
        <5>2. root'.streams = root.streams
              \/ root'.streams = [root.streams EXCEPT ![pos] = stream[pos]]
          BY <4>1 DEF RecordStream, Shapes
        <5> QED  BY <5>1, <5>2 DEF Shapes
      <4>2. CASE RecordOutput  BY <4>2 DEF RecordOutput, Shapes
      <4> QED  BY <4>1, <4>2, Frame DEF Shapes
    <3> QED  BY <2>4, <3>1, <3>2
  <2>6. CASE at = "streams" /\ pos = i /\ ~UNCHANGED <<at, pos>>
    <3>1. RecordStream  BY <2>6, Whose
    <3>2. root' = [root EXCEPT !.streams[pos] = stream[pos]]
      BY <3>1 DEF RecordStream, Raise
    <3> QED  BY <2>4, <2>6, <3>2 DEF Shapes
  <2> QED  BY <2>1, <2>5, <2>6
<1>4. ASSUME NEW i \in DOMAIN Exe, Done("persist", i)'
      PROVE  /\ \E j \in db'.invocations : Exe[j] = Exe[i]
             /\ i \notin left' => db'.streams[i].digest = db'.streams[i].size
  <2>1. Done("persist", i) \/ (at = "persist" /\ pos = i /\ ~UNCHANGED <<at, pos>>)
    BY <1>4, Moves, LaterPlaces, LaterLengths, Turns DEF Places
  <2>2. at # "run" /\ ~RunCommand  BY <2>1, LaterPlaces, PlacesAre DEF Done, RunCommand
  <2>3. left' = left  BY <2>2, Frame
  <2>4. CASE Persist
    <3>1. /\ at = "persist"
          /\ db'.invocations = IF \E j \in db.invocations : Exe[j] = Exe[pos]
                                 THEN db.invocations ELSE db.invocations \cup {pos}
          /\ db'.streams = [db.streams EXCEPT ![pos] =
                              [digest |-> root.streams[pos], size |-> stream[pos]]]
      BY <2>4 DEF Persist, Shapes, Field
    <3>2. \A j \in DOMAIN Exe : Done("streams", j)
      BY <3>1, LaterPlaces DEF Done
    <3>3. CASE i = pos
      <4>1. \E j \in db'.invocations : Exe[j] = Exe[pos]  BY <3>1
      <4>2. db'.streams[i] = [digest |-> root.streams[i], size |-> stream[i]]
        BY <3>1, <3>3 DEF Shapes
      <4>3. i \notin left => root.streams[i] = stream[i]  BY <1>1, <3>2 DEF Kept
      <4> QED  BY <2>3, <3>3, <4>1, <4>2, <4>3
    <3>4. CASE i # pos
      <4>1. Done("persist", i)  BY <2>1, <3>4
      <4>2. /\ \E j \in db.invocations : Exe[j] = Exe[i]
            /\ i \notin left => db.streams[i].digest = db.streams[i].size
        BY <1>1, <4>1 DEF Kept
      <4>3. db'.streams[i] = db.streams[i]  BY <3>1, <3>4 DEF Shapes
      <4>4. db.invocations \subseteq db'.invocations  BY <3>1
      <4> QED  BY <2>3, <4>2, <4>3, <4>4
    <3> QED  BY <3>3, <3>4
  <2>5. CASE ~Persist
    <3>1. db'.invocations = db.invocations /\ db'.streams = db.streams  BY <2>5, Frame
    <3>2. Done("persist", i)  BY <2>1, <2>5, Whose
    <3> QED  BY <1>1, <2>3, <3>1, <3>2 DEF Kept
  <2> QED  BY <2>4, <2>5
<1> QED  BY <1>2, <1>3, <1>4 DEF Kept

LEMMA StepIsWhole == Whole /\ [Next]_vars => Whole'
<1> SUFFICES ASSUME Whole, [Next]_vars PROVE Whole'  OBVIOUS
<1>1. Sound'  BY StepIsSound DEF Whole
<1>2. CASE Next
  <2>1. Shapes' /\ Failing'  BY <1>2, ShapesStay, FailingStays DEF Whole
  <2> QED  BY <1>1, <1>2, <2>1, AgreeingStays, FoundStays, KeptStays DEF Whole
<1>3. CASE UNCHANGED vars
  <2>1. UNCHANGED <<at, pos, result, stream, left, root, db, seen, edits>>
    BY <1>3 DEF vars, disks, outcome
  <2>2. \A step, j : Done(step, j)' <=> Done(step, j)  BY <2>1 DEF Done, Place
  <2>3. TerminalStatus' = TerminalStatus  BY <2>1 DEF TerminalStatus
  <2>4. Shapes'  BY <2>1 DEF Whole, Shapes
  <2>5. Failing' /\ Agreeing'
    BY <2>1, <2>2, <2>3 DEF Whole, Failing, Agreeing, Final
  <2>6. Found' /\ Kept'  BY <2>1, <2>2 DEF Whole, Found, Kept, Final
  <2> QED  BY <1>1, <2>4, <2>5, <2>6 DEF Whole
<1> QED  BY <1>2, <1>3

LEMMA InitIsWhole == Init => Whole
<1> SUFFICES ASSUME Init PROVE Whole  OBVIOUS
<1>1. Sound  BY InitIsSound
<1>2. Place(at) = 1 /\ at = "insert" /\ at \in Steps
  <2>1. Script[1] = "insert"  BY DEF Script
  <2> QED  BY <2>1, ScriptPlaces DEF Init, Steps
<1>3. Shapes
  <2>1. MaxEdits \in Nat  BY GenericAssumption
  <2>2. [k \in Key |-> Nothing] \in [Key -> State]  BY DEF State
  <2> QED  BY <1>2, <2>1, <2>2 DEF Init, Shapes, Field
<1>4. \A step \in Places, j \in Nat : ~Done(step, j)
  BY <1>2, LaterPlaces DEF Done, Places
<1>5. Failing /\ Agreeing /\ Found
  BY <1>2, <1>4, Turns DEF Init, Failing, Agreeing, Found, Final, Places
<1>6. Kept  BY <1>2, <1>4, Turns DEF Kept, Places
<1> QED  BY <1>1, <1>3, <1>5, <1>6 DEF Whole

\* The recorder's state is of the shape its steps expect.
THEOREM TypeCorrect == Spec => []TypeOK
<1>1. Whole => TypeOK
  <2> SUFFICES ASSUME Whole PROVE TypeOK  OBVIOUS
  <2>1. at \in {Script[i] : i \in DOMAIN Script} \cup {"died"}
    BY ScriptPlaces DEF Whole, Shapes, Steps
  <2>2. /\ pos \in Nat \ {0} /\ edits \in 0..MaxEdits
        /\ left \subseteq DOMAIN Exe /\ stream \in [DOMAIN Exe -> 0..2]
        /\ root.outputs \in [Key -> State] /\ db.outputs \in [Key -> State]
        /\ db.failures \subseteq DOMAIN Exe /\ db.invocations \subseteq DOMAIN Exe
    BY DEF Whole, Shapes
  <2>3. /\ disk \in [File -> State] /\ before \in [File -> State] /\ after \in [File -> State]
        /\ verdict \in [File -> {"none", "verified", "mismatch", "unverifiable"}]
        /\ result \in Seq(Outcome) /\ Len(result) <= Len(Exe)
    BY DEF Whole, Sound, Typed
  <2> QED  BY <2>1, <2>2, <2>3 DEF TypeOK
<1> QED  BY <1>1, InitIsWhole, StepIsWhole, PTL DEF Spec

\* A settled run tells every failure, every output it found and one outcome; ended,
\* it has the rows of all it kept.
THEOREM SettledRunsAreWhole == Spec => []SettledIsWhole
<1>1. Whole => SettledIsWhole
  <2> SUFFICES ASSUME Whole, Final
               PROVE  /\ db.failures = {i \in DOMAIN Exe : result[i] = "failed"}
                      /\ db.status = "completed" => \A i \in DOMAIN Exe : result[i] = "completed"
                      /\ db.proof # Nothing => db.proof.status = db.status
                      /\ \A j \in DOMAIN Output :
                           seen[j] # Nothing => root.outputs[Output[j].key] = seen[j]
                      /\ at = "done" =>
                           /\ db.outputs = root.outputs /\ db.json = root.json
                           /\ \A i \in DOMAIN Exe :
                                /\ \E j \in db.invocations : Exe[j] = Exe[i]
                                /\ i \notin left => db.streams[i].digest = db.streams[i].size
    BY DEF SettledIsWhole, Final
  <2>1. result \in Seq(Outcome) /\ Len(result) = Len(Exe)
    BY DEF Whole, Sound, Typed, Failing
  <2>2. DOMAIN result = DOMAIN Exe
    <3>1. DOMAIN result = 1..Len(result) /\ DOMAIN Exe = 1..Len(Exe)
      BY <2>1, GenericAssumption
    <3> QED  BY <2>1, <3>1
  <2>3. db.failures = {i \in DOMAIN Exe : result[i] = "failed"}
    BY <2>2 DEF Whole, Failing
  <2>4. db.status = "completed" => \A i \in DOMAIN Exe : result[i] = "completed"
    <3>1. db.status = TerminalStatus  BY DEF Whole, Failing
    <3>2. TerminalStatus = "completed" =>
            \A i \in DOMAIN result :
              result[i] \notin {"environment_blocker", "timeout", "failed"}
      BY DEF TerminalStatus
    <3>3. \A i \in DOMAIN result : result[i] \in Outcome  BY <2>1, <2>2
    <3> QED  BY <2>2, <3>1, <3>2, <3>3 DEF Outcome
  <2>5. db.proof # Nothing => db.proof.status = db.status  BY DEF Whole, Agreeing, Failing
  <2>6. \A j \in DOMAIN Output : seen[j] # Nothing => root.outputs[Output[j].key] = seen[j]
    BY DEF Whole, Found
  <2>7. ASSUME at = "done"
        PROVE  /\ db.outputs = root.outputs /\ db.json = root.json
               /\ \A i \in DOMAIN Exe :
                    /\ \E j \in db.invocations : Exe[j] = Exe[i]
                    /\ i \notin left => db.streams[i].digest = db.streams[i].size
    <3>1. \A step \in Places : \A j : Done(step, j)
      BY <2>7, LaterPlaces, PlacesAre DEF Done, Places
    <3> QED  BY <2>7, <3>1 DEF Whole, Kept, Places
  <2> QED  BY <2>3, <2>4, <2>5, <2>6, <2>7
<1> QED  BY <1>1, InitIsWhole, StepIsWhole, PTL DEF Spec

------------------------------------------------------------------------------
(* Least numbers and recursion *)

\* A set of naturals that is not empty has a least one.
LEMMA LeastNatural ==
  ASSUME NEW S \in SUBSET Nat, S # {}
  PROVE  \E m \in S : \A n \in S : m <= n
<1> DEFINE R == OpToRel(<, Nat)
<1>1. IsWellFoundedOn(R, Nat)  BY NatLessThanWellFounded
<1>2. \A x, y \in Nat : y < x => <<y, x>> \in R  BY DEF OpToRel
<1> HIDE DEF R
<1>3. \E x \in S : \A y \in S : ~(<<y, x>> \in R)  BY <1>1, WFMin
<1>4. PICK x \in S : \A y \in S : ~(<<y, x>> \in R)  BY <1>3
<1>5. ASSUME NEW n \in S  PROVE x <= n
  <2>1. ~(n < x)  BY <1>2, <1>4
  <2>2. x \in Nat /\ n \in Nat  OBVIOUS
  <2> QED  BY <2>1, <2>2
<1> QED  BY <1>4, <1>5

Descends(D, B, N, rank, prev) ==
  /\ N \in Nat /\ rank \in [D -> 0..N] /\ B \in SUBSET D /\ prev \in [D \ B -> D]
  /\ \A x \in D \ B : rank[prev[x]] < rank[x]
Computes(V, D, B, base, step) == base \in [B -> V] /\ step \in [D \ B -> [V -> V]]
Solves(g, D, B, prev, base, step) ==
  \A x \in D : g[x] = IF x \in B THEN base[x] ELSE step[x][g[prev[x]]]

\* A recursion that descends to its base has a solution.
LEMMA Recursion ==
  ASSUME NEW D, NEW B, NEW N, NEW rank, NEW prev, Descends(D, B, N, rank, prev),
         NEW V, NEW base, NEW step, Computes(V, D, B, base, step)
  PROVE  \E g \in [D -> V] : Solves(g, D, B, prev, base, step)
<1> USE DEF Descends, Computes, Solves
<1> DEFINE Below(n) == {x \in D : rank[x] < n}
           Good(h, n) == \A x \in Below(n) :
                           h[x] = IF x \in B THEN base[x] ELSE step[x][h[prev[x]]]
           Bad == {n \in 0..(N + 1) : ~\E h \in [Below(n) -> V] : Good(h, n)}
<1>1. Bad = {}
  <2> SUFFICES ASSUME Bad # {} PROVE FALSE  OBVIOUS
  <2>1. PICK n \in Bad : \A m \in Bad : n <= m
    <3>1. Bad \subseteq Nat  OBVIOUS
    <3> HIDE DEF Bad
    <3> QED  BY <3>1, LeastNatural
  <2>2. \A i \in 0..(N + 1) : i \in Bad <=> ~\E h \in [Below(i) -> V] : Good(h, i)
    OBVIOUS
  <2>3. n \in 0..(N + 1) /\ n # 0 /\ n - 1 \in 0..(N + 1) /\ n - 1 \notin Bad
    <3>1. n \in 0..(N + 1)  BY <2>1
    <3>2. 0 \notin Bad
      <4>1. Below(0) = {}  OBVIOUS
      <4> DEFINE nil == [x \in {} |-> x]
      <4>2. nil \in [Below(0) -> V]  BY <4>1
      <4>3. Good(nil, 0)  BY <4>1
      <4>4. 0 \in 0..(N + 1)  OBVIOUS
      <4> HIDE DEF Below, Good, Bad, nil
      <4> QED  BY <2>2, <4>2, <4>3, <4>4
    <3> HIDE DEF Bad
    <3> QED  BY <2>1, <3>1, <3>2
  <2>4. PICK h \in [Below(n - 1) -> V] : Good(h, n - 1)  BY <2>2, <2>3
  <2>5. \A x \in Below(n) \ B : prev[x] \in Below(n - 1)
    BY <2>3
  <2>6. Below(n - 1) \subseteq Below(n)  BY <2>3
  <2> DEFINE k == [x \in Below(n) |-> IF x \in B THEN base[x] ELSE step[x][h[prev[x]]]]
  <2>7. k \in [Below(n) -> V]  BY <2>5
  <2>8. \A x \in Below(n - 1) : k[x] = h[x]  BY <2>4, <2>6
  <2>9. Good(k, n)  BY <2>5, <2>8
  <2> HIDE DEF Below, Good, Bad, k
  <2> QED  BY <2>1, <2>2, <2>3, <2>7, <2>9
<1>2. Below(N + 1) = D  OBVIOUS
<1>3. N + 1 \in 0..(N + 1)  OBVIOUS
<1>4. \E h \in [Below(N + 1) -> V] : Good(h, N + 1)  BY <1>1, <1>3
<1> QED  BY <1>2, <1>4

------------------------------------------------------------------------------
(* Sums over finite sets *)

\* The element a sum takes first.
AnyOf(s) == CHOOSE x \in s : TRUE

\* f is the sum of w over every subset of D, one element after another.
Sums(f, w, D) ==
  f = [s \in SUBSET D |-> IF s = {} THEN 0 ELSE w[AnyOf(s)] + f[s \ {AnyOf(s)}]]

\* What such an f is: first by the element that is chosen, then by any.
AddsOne(f, w, D) ==
  /\ f \in [SUBSET D -> Int] /\ f[{}] = 0
  /\ \A s \in SUBSET D : s # {} => AnyOf(s) \in s /\ f[s] = w[AnyOf(s)] + f[s \ {AnyOf(s)}]
AddsAny(f, w, D) ==
  /\ f \in [SUBSET D -> Int] /\ f[{}] = 0
  /\ \A s \in SUBSET D : \A x \in s : f[s] = w[x] + f[s \ {x}]

\* Taking one element leaves a smaller set.
LEMMA OneLess ==
  ASSUME NEW D, IsFiniteSet(D), NEW s \in SUBSET D, NEW x \in s
  PROVE  /\ s \ {x} \in SUBSET D /\ IsFiniteSet(s)
         /\ Cardinality(s) \in Nat /\ Cardinality(s \ {x}) \in Nat
         /\ Cardinality(s \ {x}) < Cardinality(s) /\ Cardinality(s) <= Cardinality(D)
<1>1. IsFiniteSet(s) /\ Cardinality(s) <= Cardinality(D)  BY FS_Subset
<1>2. IsFiniteSet(s \ {x}) /\ Cardinality(s \ {x}) = Cardinality(s) - 1
  BY <1>1, FS_RemoveElement
<1>3. Cardinality(s) \in Nat /\ Cardinality(s \ {x}) \in Nat
  BY <1>1, <1>2, FS_CardinalityType
<1> QED  BY <1>1, <1>2, <1>3

\* A finite set of integers has a sum.
LEMMA SumsExist ==
  ASSUME NEW D, IsFiniteSet(D), NEW w \in [D -> Int]
  PROVE  \E g \in [SUBSET D -> Int] : Sums(g, w, D)
<1> DEFINE P == SUBSET D
           B == {{}}
           N == Cardinality(D)
           rank == [s \in P |-> Cardinality(s)]
           prev == [s \in P \ B |-> s \ {AnyOf(s)}]
           base == [s \in B |-> 0]
           step == [s \in P \ B |-> [v \in Int |-> w[AnyOf(s)] + v]]
<1>1. ASSUME NEW s \in P \ B
      PROVE  AnyOf(s) \in s /\ s \ {AnyOf(s)} \in P
             /\ Cardinality(s \ {AnyOf(s)}) < Cardinality(s)
  <2>1. AnyOf(s) \in s  BY DEF AnyOf
  <2> QED  BY <2>1, OneLess
<1>2. Descends(P, B, N, rank, prev)
  <2>1. N \in Nat  BY FS_CardinalityType
  <2>2. rank \in [P -> 0..N]
    <3>1. \A s \in P : Cardinality(s) \in Nat /\ Cardinality(s) <= N
      BY FS_Subset, FS_CardinalityType
    <3> QED  BY <2>1, <3>1
  <2>3. B \in SUBSET P /\ prev \in [P \ B -> P]  BY <1>1
  <2>4. \A s \in P \ B : rank[prev[s]] < rank[s]  BY <1>1
  <2> HIDE DEF P, B, N, rank, prev
  <2> QED  BY <2>1, <2>2, <2>3, <2>4 DEF Descends
<1>3. Computes(Int, P, B, base, step)
  <2>1. \A s \in P \ B : w[AnyOf(s)] \in Int  BY <1>1
  <2> QED  BY <2>1 DEF Computes
<1> HIDE DEF P, B, N, rank, prev, base, step
<1>4. PICK g \in [P -> Int] : Solves(g, P, B, prev, base, step)
  BY <1>2, <1>3, Recursion
<1>5. \A s \in P : g[s] = IF s = {} THEN 0 ELSE w[AnyOf(s)] + g[s \ {AnyOf(s)}]
  <2> SUFFICES ASSUME NEW s \in P
               PROVE  g[s] = IF s = {} THEN 0 ELSE w[AnyOf(s)] + g[s \ {AnyOf(s)}]
    OBVIOUS
  <2>1. CASE s = {}
    <3>1. s \in B /\ base[s] = 0  BY <2>1 DEF B, base
    <3> QED  BY <1>4, <2>1, <3>1 DEF Solves
  <2>2. CASE s # {}
    <3>1. s \in P \ B /\ s \notin B  BY <2>2 DEF B
    <3>2. prev[s] = s \ {AnyOf(s)} /\ prev[s] \in P  BY <1>1, <3>1 DEF prev
    <3>3. g[s] = step[s][g[prev[s]]] /\ g[prev[s]] \in Int  BY <1>4, <3>1, <3>2 DEF Solves
    <3>4. step[s][g[prev[s]]] = w[AnyOf(s)] + g[prev[s]]  BY <3>1, <3>3 DEF step
    <3> QED  BY <2>2, <3>2, <3>3, <3>4
  <2> QED  BY <2>1, <2>2
<1> QED  BY <1>5 DEF Sums, P

\* Sums are numbers.
LEMMA SumsAre ==
  ASSUME NEW D, IsFiniteSet(D), NEW w \in [D -> Int], NEW f, Sums(f, w, D)
  PROVE  AddsOne(f, w, D)
<1>1. ASSUME NEW s \in SUBSET D
      PROVE  f[s] = IF s = {} THEN 0 ELSE w[AnyOf(s)] + f[s \ {AnyOf(s)}]
  BY DEF Sums
<1>2. \A s \in SUBSET D : s # {} => AnyOf(s) \in s  BY DEF AnyOf
<1>3. f[{}] = 0  BY <1>1
<1>4. \A s \in SUBSET D : f[s] \in Int
  <2> DEFINE Bad == {n \in Nat : \E s \in SUBSET D : n = Cardinality(s) /\ f[s] \notin Int}
  <2>1. Bad = {}
    <3> SUFFICES ASSUME Bad # {} PROVE FALSE  OBVIOUS
    <3>1. Bad \subseteq Nat  OBVIOUS
    <3>2. PICK n \in Bad : \A m \in Bad : n <= m
      <4> HIDE DEF Bad
      <4> QED  BY <3>1, LeastNatural
    <3>3. PICK s \in SUBSET D : n = Cardinality(s) /\ f[s] \notin Int  BY <3>2
    <3>4. s # {}  BY <1>3, <3>3
    <3> DEFINE x == AnyOf(s)
               t == s \ {x}
    <3>5. x \in s /\ x \in D  BY <1>2, <3>4
    <3>6. f[s] = w[x] + f[t]  BY <1>1, <3>4
    <3> HIDE DEF x
    <3>7. /\ t \in SUBSET D /\ Cardinality(s) \in Nat /\ Cardinality(t) \in Nat
          /\ Cardinality(t) < Cardinality(s)
      BY <3>5, OneLess
    <3> HIDE DEF t
    <3>8. f[t] \notin Int  BY <3>3, <3>5, <3>6
    <3>9. Cardinality(t) \in Bad  BY <3>7, <3>8
    <3> HIDE DEF Bad
    <3> QED  BY <3>2, <3>3, <3>7, <3>9
  <2>2. ASSUME NEW s \in SUBSET D, f[s] \notin Int  PROVE FALSE
    <3>1. IsFiniteSet(s) /\ Cardinality(s) \in Nat  BY FS_Subset, FS_CardinalityType
    <3>2. Cardinality(s) \in Bad  BY <2>2, <3>1
    <3> HIDE DEF Bad
    <3> QED  BY <2>1, <3>2
  <2> QED  BY <2>2
<1>5. DOMAIN f = SUBSET D /\ f = [s \in SUBSET D |-> f[s]]  BY DEF Sums
<1> QED  BY <1>1, <1>2, <1>3, <1>4, <1>5 DEF AddsOne

\* The order does not matter: any element may be taken.
LEMMA SumsTakeAny ==
  ASSUME NEW D, IsFiniteSet(D), NEW w \in [D -> Int], NEW f, Sums(f, w, D)
  PROVE  AddsAny(f, w, D)
<1>0. AddsOne(f, w, D)  BY SumsAre
<1>1. /\ f \in [SUBSET D -> Int]
      /\ \A s \in SUBSET D : s # {} => AnyOf(s) \in s /\ f[s] = w[AnyOf(s)] + f[s \ {AnyOf(s)}]
  BY <1>0 DEF AddsOne
<1> DEFINE Off(s) == \E x \in s : f[s] # w[x] + f[s \ {x}]
           Bad == {n \in Nat : \E s \in SUBSET D : n = Cardinality(s) /\ Off(s)}
<1>2. Bad = {}
  <2> SUFFICES ASSUME Bad # {} PROVE FALSE  OBVIOUS
  <2>1. Bad \subseteq Nat  OBVIOUS
  <2>2. PICK n \in Bad : \A m \in Bad : n <= m
    <3> HIDE DEF Bad
    <3> QED  BY <2>1, LeastNatural
  <2>3. PICK s \in SUBSET D : n = Cardinality(s) /\ Off(s)  BY <2>2
  <2>4. PICK x \in s : f[s] # w[x] + f[s \ {x}]  BY <2>3
  <2> DEFINE y == AnyOf(s)
  <2>5. y \in s /\ f[s] = w[y] + f[s \ {y}]  BY <1>1, <2>4
  <2> HIDE DEF y
  <2>6. ASSUME NEW z \in s
        PROVE  /\ s \ {z} \in SUBSET D /\ f[s \ {z}] \in Int /\ w[z] \in Int
               /\ \A v \in s \ {z} : f[s \ {z}] = w[v] + f[(s \ {z}) \ {v}]
    <3>1. /\ s \ {z} \in SUBSET D /\ Cardinality(s \ {z}) \in Nat
          /\ Cardinality(s \ {z}) < Cardinality(s) /\ Cardinality(s) \in Nat
      BY OneLess
    <3>2. Cardinality(s \ {z}) \notin Bad
      <4> HIDE DEF Bad
      <4> QED  BY <2>2, <2>3, <3>1
    <3>3. ~Off(s \ {z})  BY <3>1, <3>2
    <3>4. w[z] \in Int /\ f[s \ {z}] \in Int  BY <1>1, <3>1
    <3> QED  BY <3>1, <3>3, <3>4
  <2>7. x # y  BY <2>4, <2>5
  <2>8. f[s \ {y}] = w[x] + f[(s \ {y}) \ {x}]  BY <2>4, <2>5, <2>6, <2>7
  <2>9. f[s \ {x}] = w[y] + f[(s \ {x}) \ {y}]  BY <2>4, <2>5, <2>6, <2>7
  <2>10. (s \ {y}) \ {x} = (s \ {x}) \ {y}  OBVIOUS
  <2> DEFINE rest == f[(s \ {x}) \ {y}]
  <2>11. rest \in Int
    <3>1. (s \ {x}) \ {y} \in SUBSET D  OBVIOUS
    <3> QED  BY <1>1, <3>1
  <2>12. w[x] \in Int /\ w[y] \in Int  BY <2>4, <2>5, <2>6
  <2>13. f[s \ {y}] = w[x] + rest /\ f[s \ {x}] = w[y] + rest  BY <2>8, <2>9, <2>10
  <2> HIDE DEF rest
  <2> QED  BY <2>4, <2>5, <2>11, <2>12, <2>13
<1> SUFFICES ASSUME NEW s \in SUBSET D, Off(s)  PROVE FALSE
  BY <1>0 DEF AddsOne, AddsAny
<1>3. IsFiniteSet(s) /\ Cardinality(s) \in Nat  BY FS_Subset, FS_CardinalityType
<1>4. Cardinality(s) \in Bad  BY <1>3
<1> HIDE DEF Bad
<1> QED  BY <1>2, <1>4

\* The sum of what is zero outside T is the sum over T, and the sum of u + v is
\* that of u and that of v.
LEMMA SumsSplit ==
  ASSUME NEW D, IsFiniteSet(D), NEW T \in SUBSET D,
         NEW u \in [T -> Int], NEW v \in [T -> Int], NEW w \in [D -> Int],
         \A x \in T : w[x] = u[x] + v[x], \A x \in D \ T : w[x] = 0,
         NEW f, Sums(f, u, T), NEW g, Sums(g, v, T), NEW h, Sums(h, w, D)
  PROVE  h[D] = f[T] + g[T]
<1>0. IsFiniteSet(T)  BY FS_Subset
<1>1. AddsAny(f, u, T) /\ AddsAny(g, v, T) /\ AddsAny(h, w, D)
  <2>1. AddsAny(f, u, T)  BY <1>0, SumsTakeAny
  <2>2. AddsAny(g, v, T)  BY <1>0, SumsTakeAny
  <2>3. AddsAny(h, w, D)  BY SumsTakeAny
  <2> QED  BY <2>1, <2>2, <2>3
<1>2. /\ f \in [SUBSET T -> Int] /\ f[{}] = 0
      /\ \A s \in SUBSET T : \A x \in s : f[s] = u[x] + f[s \ {x}]
  BY <1>1 DEF AddsAny
<1>3. /\ g \in [SUBSET T -> Int] /\ g[{}] = 0
      /\ \A s \in SUBSET T : \A x \in s : g[s] = v[x] + g[s \ {x}]
  BY <1>1 DEF AddsAny
<1>7. h[{}] = 0 /\ \A s \in SUBSET D : \A x \in s : h[s] = w[x] + h[s \ {x}]
  BY <1>1 DEF AddsAny
<1> DEFINE Bad == {n \in Nat : \E s \in SUBSET D :
                     n = Cardinality(s) /\ h[s] # f[s \cap T] + g[s \cap T]}
<1>4. Bad = {}
  <2> SUFFICES ASSUME Bad # {} PROVE FALSE  OBVIOUS
  <2>1. Bad \subseteq Nat  OBVIOUS
  <2>2. PICK n \in Bad : \A m \in Bad : n <= m
    <3> HIDE DEF Bad
    <3> QED  BY <2>1, LeastNatural
  <2>3. PICK s \in SUBSET D : n = Cardinality(s) /\ h[s] # f[s \cap T] + g[s \cap T]
    BY <2>2
  <2>4. s # {}
    <3> SUFFICES ASSUME s = {} PROVE FALSE  OBVIOUS
    <3>1. s \cap T = {}  OBVIOUS
    <3> QED  BY <1>2, <1>3, <1>7, <2>3, <3>1
  <2>5. PICK x \in s : TRUE  BY <2>4
  <2> DEFINE t == s \ {x}
             a == s \cap T
             b == t \cap T
  <2>11. x \in D /\ h[s] = w[x] + h[t]  BY <1>7
  <2>6. /\ t \in SUBSET D /\ Cardinality(t) \in Nat /\ Cardinality(t) < Cardinality(s)
        /\ Cardinality(s) \in Nat
    BY OneLess
  <2>7. h[t] = f[b] + g[b]
    <3>1. Cardinality(t) \notin Bad
      <4> HIDE DEF Bad, t
      <4> QED  BY <2>2, <2>3, <2>6
    <3> QED  BY <2>6, <3>1
  <2>8. a \in SUBSET T /\ b \in SUBSET T  OBVIOUS
  <2>9. CASE x \in T
    <3>1. x \in a /\ a \ {x} = b  BY <2>9
    <3> HIDE DEF a, b, t
    <3>2. f[a] = u[x] + f[b] /\ g[a] = v[x] + g[b]  BY <1>2, <1>3, <2>8, <3>1
    <3>3. u[x] \in Int /\ v[x] \in Int /\ w[x] = u[x] + v[x]  BY <2>9
    <3>4. f[b] \in Int /\ g[b] \in Int  BY <1>2, <1>3, <2>8
    <3>5. h[s] = f[a] + g[a]  BY <2>11, <2>7, <3>2, <3>3, <3>4
    <3> QED  BY <2>3, <3>5 DEF a
  <2>10. CASE x \notin T
    <3>1. a = b  BY <2>10
    <3> HIDE DEF a, b, t
    <3>2. w[x] = 0  BY <2>11, <2>10
    <3>3. f[b] \in Int /\ g[b] \in Int  BY <1>2, <1>3, <2>8
    <3>4. h[s] = f[a] + g[a]  BY <2>11, <2>7, <3>1, <3>2, <3>3
    <3> QED  BY <2>3, <3>4 DEF a
  <2> QED  BY <2>9, <2>10
<1>5. Cardinality(D) \in Nat /\ Cardinality(D) \notin Bad
  <2>1. Cardinality(D) \in Nat  BY FS_CardinalityType
  <2> HIDE DEF Bad
  <2> QED  BY <1>4, <2>1
<1>6. D \cap T = T  OBVIOUS
<1> QED  BY <1>5, <1>6

\* The sums of a receipt, each over a set of counts.
GrossOf(counts, D) == MapThenSumSet(LAMBDA i : counts[i].gross, D)
CachedOf(counts, D) == MapThenSumSet(LAMBDA i : counts[i].cached, D)
NetOf(counts, D) == MapThenSumSet(LAMBDA i : Net(counts[i]), D)

\* The sums of a receipt, each over a set of counts, are such sums.
LEMMA GrossSum ==
  ASSUME NEW D, IsFiniteSet(D), NEW counts, \A i \in D : counts[i].gross \in Int
  PROVE  \E h : /\ Sums(h, [i \in D |-> counts[i].gross], D)
                /\ GrossOf(counts, D) = h[D]
<1> DEFINE w == [i \in D |-> counts[i].gross]
           F(f) == [s \in SUBSET D |-> IF s = {} THEN 0
                      ELSE counts[CHOOSE x \in s : TRUE].gross
                             + f[s \ {CHOOSE x \in s : TRUE}]]
           h == CHOOSE f : f = F(f)
<1>1. GrossOf(counts, D) = h[D]
  BY DEF GrossOf, MapThenSumSet, MapThenFoldSet
<1>2. \A s \in SUBSET D : s # {} => (CHOOSE x \in s : TRUE) \in D  OBVIOUS
<1>3. PICK g : Sums(g, w, D)
  <2>1. w \in [D -> Int]  OBVIOUS
  <2> HIDE DEF w
  <2> QED  BY <2>1, SumsExist
<1>4. g = F(g)  BY <1>2, <1>3 DEF Sums, AnyOf
<1>5. h = F(h)
  <2> HIDE DEF F
  <2> QED  BY <1>4
<1> HIDE DEF h
<1>6. Sums(h, w, D)  BY <1>2, <1>5 DEF Sums, AnyOf
<1> QED  BY <1>1, <1>6

\* Cached tokens.
LEMMA CachedSum ==
  ASSUME NEW D, IsFiniteSet(D), NEW counts, \A i \in D : counts[i].cached \in Int
  PROVE  \E h : /\ Sums(h, [i \in D |-> counts[i].cached], D)
                /\ CachedOf(counts, D) = h[D]
<1> DEFINE w == [i \in D |-> counts[i].cached]
           F(f) == [s \in SUBSET D |-> IF s = {} THEN 0
                      ELSE counts[CHOOSE x \in s : TRUE].cached
                             + f[s \ {CHOOSE x \in s : TRUE}]]
           h == CHOOSE f : f = F(f)
<1>1. CachedOf(counts, D) = h[D]
  BY DEF CachedOf, MapThenSumSet, MapThenFoldSet
<1>2. \A s \in SUBSET D : s # {} => (CHOOSE x \in s : TRUE) \in D  OBVIOUS
<1>3. PICK g : Sums(g, w, D)
  <2>1. w \in [D -> Int]  OBVIOUS
  <2> HIDE DEF w
  <2> QED  BY <2>1, SumsExist
<1>4. g = F(g)  BY <1>2, <1>3 DEF Sums, AnyOf
<1>5. h = F(h)
  <2> HIDE DEF F
  <2> QED  BY <1>4
<1> HIDE DEF h
<1>6. Sums(h, w, D)  BY <1>2, <1>5 DEF Sums, AnyOf
<1> QED  BY <1>1, <1>6

\* Tokens that were not cached.
LEMMA NetSum ==
  ASSUME NEW D, IsFiniteSet(D), NEW counts, 
         \A i \in D : Numbers(counts[i])
  PROVE  \E h : /\ Sums(h, [i \in D |-> Net(counts[i])], D)
                /\ NetOf(counts, D) = h[D]
<1> DEFINE w == [i \in D |-> Net(counts[i])]
           F(f) == [s \in SUBSET D |-> IF s = {} THEN 0
                      ELSE Net(counts[CHOOSE x \in s : TRUE])
                             + f[s \ {CHOOSE x \in s : TRUE}]]
           h == CHOOSE f : f = F(f)
<1>1. NetOf(counts, D) = h[D]
  BY DEF NetOf, MapThenSumSet, MapThenFoldSet
<1>2. \A s \in SUBSET D : s # {} => (CHOOSE x \in s : TRUE) \in D  OBVIOUS
<1>3. PICK g : Sums(g, w, D)
  <2>1. w \in [D -> Int]  BY DEF Net, Numbers
  <2> HIDE DEF w
  <2> QED  BY <2>1, SumsExist
<1>4. g = F(g)  BY <1>2, <1>3 DEF Sums, AnyOf
<1>5. h = F(h)
  <2> HIDE DEF F
  <2> QED  BY <1>4
<1> HIDE DEF h
<1>6. Sums(h, w, D)  BY <1>2, <1>5 DEF Sums, AnyOf
<1> QED  BY <1>1, <1>6

\* Where no more was cached than counted, what was not cached and what was are all
\* that was counted.
LEMMA NetAndCached ==
  ASSUME NEW D, IsFiniteSet(D), NEW T \in SUBSET D, NEW counts,
         \A i \in D : /\ Numbers(counts[i]) /\ counts[i].input = Nothing
                      /\ counts[i].cached <= counts[i].gross,
         \A i \in D \ T : counts[i].gross = 0
  PROVE  NetOf(counts, T)
           + CachedOf(counts, T)
           = GrossOf(counts, D)
<1> DEFINE u == [i \in T |-> Net(counts[i])]
           v == [i \in T |-> counts[i].cached]
           w == [i \in D |-> counts[i].gross]
<1>1. IsFiniteSet(T)  BY FS_Subset
<1>2. \A i \in D : /\ Numbers(counts[i])
                    /\ counts[i].gross \in Int /\ counts[i].cached \in Int
  BY DEF Numbers
<1>3. PICK f : /\ Sums(f, u, T)
               /\ NetOf(counts, T) = f[T]
  BY <1>1, <1>2, NetSum
<1>4. PICK g : Sums(g, v, T) /\ CachedOf(counts, T) = g[T]
  BY <1>1, <1>2, CachedSum
<1>5. PICK h : Sums(h, w, D) /\ GrossOf(counts, D) = h[D]
  BY <1>2, GrossSum
<1>6. /\ u \in [T -> Int] /\ v \in [T -> Int] /\ w \in [D -> Int]
      /\ \A x \in T : w[x] = u[x] + v[x]
      /\ \A x \in D \ T : w[x] = 0
  BY <1>2 DEF Net
<1>7. h[D] = f[T] + g[T]
  <2> HIDE DEF u, v, w
  <2> QED  BY <1>3, <1>4, <1>5, <1>6, SumsSplit
<1> QED  BY <1>3, <1>4, <1>5, <1>7

------------------------------------------------------------------------------
(* What a receipt of an agent says *)

\* The models a call's output names, and the counts in it.
Named(try) ==
  IF try.family = "codex"
    THEN {try.stdout[i].model : i \in DOMAIN try.stdout} \ {Nothing}
    ELSE DOMAIN try.stdout.tokens

CountsOf(try) ==
  IF try.stdout = Nothing \/ try.family = "claude" THEN <<>>
  ELSE IF try.family = "codex" THEN try.stdout ELSE try.stdout.tokens

\* An answer that is whole: the last message of codex, or a response and a session.
WholeAnswer(try, says) ==
  IF try.family = "codex"
    THEN /\ \A i \in DOMAIN try.stdout : try.stdout[i].type \notin Complaints
         /\ \E i \in DOMAIN try.stdout :
              /\ try.stdout[i].type = "agent_message"
              /\ try.stdout[i].text = says.response /\ try.stdout[i].text # Nothing
              /\ \A j \in DOMAIN try.stdout :
                   j > i /\ try.stdout[j].type = "agent_message" => try.stdout[j].text = Nothing
    ELSE ~try.stdout.error /\ try.stdout.response # Nothing /\ try.stdout.session # Nothing

Answered(try, says) ==
  /\ try.ran /\ try.exit = 0 /\ try.name \in Live
  /\ Named(try) = {says.model} /\ WholeAnswer(try, says)

Derived(c) == c.input = Nothing /\ c.cached <= c.gross

CountsOnce(try, says) ==
  CountsOf(try) # <<>> /\ (\A i \in DOMAIN CountsOf(try) : Derived(CountsOf(try)[i]))
    => says.input + says.cached = GrossOf(CountsOf(try), DOMAIN CountsOf(try))

\* The last of some events.
LEMMA LastOf ==
  ASSUME NEW n \in Nat, NEW S \in SUBSET (1..n), S # {}
  PROVE  Max(S) \in S /\ \A i \in S : i <= Max(S)
<1> DEFINE R == {k \in 0..n : n - k \in S}
<1>1. R \subseteq Nat /\ R # {}
  <2>1. PICK i \in S : TRUE  OBVIOUS
  <2>2. n - i \in 0..n /\ n - (n - i) = i  OBVIOUS
  <2>3. n - i \in R  BY <2>2
  <2>4. R \subseteq Nat  OBVIOUS
  <2> HIDE DEF R
  <2> QED  BY <2>3, <2>4
<1>2. PICK k \in R : \A l \in R : k <= l
  <2> HIDE DEF R
  <2> QED  BY <1>1, LeastNatural
<1>3. n - k \in S /\ k \in Nat  BY <1>2
<1>4. ASSUME NEW i \in S  PROVE i <= n - k
  <2>1. n - i \in 0..n /\ n - (n - i) = i  OBVIOUS
  <2>2. n - i \in R  BY <2>1
  <2>3. k <= n - i  BY <1>2, <2>2
  <2> QED  BY <1>3, <2>3
<1>5. \E m \in S : \A i \in S : m >= i  BY <1>3, <1>4
<1> HIDE DEF R
<1>6. \A m \in S, i \in S : m >= i <=> i <= m  OBVIOUS
<1>7. Max(S) \in S /\ \A i \in S : Max(S) >= i  BY <1>5 DEF Max
<1> QED  BY <1>6, <1>7

\* Models that resolve are one.
LEMMA OneModel ==
  ASSUME NEW models, IsFiniteSet(models), Resolved(models) # Nothing
  PROVE  models = {Resolved(models)}
<1>1. Cardinality(models) = 1 /\ Resolved(models) = CHOOSE m \in models : TRUE
  BY DEF Resolved
<1>2. PICK m : models = {m}  BY <1>1, FS_Singleton
<1> QED  BY <1>1, <1>2

\* A stream names finitely many models.
LEMMA AttestedAreFinite ==
  ASSUME NEW events, EventStream(events)
  PROVE  IsFiniteSet(Attested(events))
<1> DEFINE S == {i \in Of(events, Naming) : events[i].model # Nothing}
           f == [i \in S |-> events[i].model]
<1>1. IsFiniteSet(DOMAIN events)  BY FS_Interval DEF EventStream
<1>2. IsFiniteSet(S)  BY <1>1, FS_Subset DEF Of
<1>3. f \in Surjection(S, Attested(events))
  <2>1. \A i \in S : f[i] \in Attested(events)  BY DEF Attested
  <2>2. \A m \in Attested(events) : \E i \in S : f[i] = m  BY DEF Attested
  <2> QED  BY <2>1, <2>2 DEF Surjection
<1> QED  BY <1>2, <1>3, FS_Surjection

\* What a live receipt says was answered.
LEMMA LiveIsAnswered ==
  ASSUME NEW try \in Attempts, IsLiveReceipt(BuildReceipt(try))
  PROVE  Answered(try, BuildReceipt(try))
<1> DEFINE says == BuildReceipt(try)
           out == try.stdout
           parsed == Normalized(try)
           model == Resolved(parsed.models)
<1>1. /\ says.response = parsed.response /\ says.model = model /\ says.name = try.name
      /\ says.session = parsed.session
      /\ says.status = IF Asked(try) = "success"
                           /\ Nothing \in {parsed.response, model, parsed.session}
                         THEN "invalid_output" ELSE Asked(try)
  BY DEF BuildReceipt
<1>2. says.status = "success" /\ says.name \in Live  BY DEF IsLiveReceipt
<1>3. /\ Asked(try) = "success" /\ parsed.response # Nothing /\ model # Nothing
      /\ parsed.session # Nothing /\ try.name \in Live
  BY <1>1, <1>2
<1> HIDE DEF says, parsed
<1>4. /\ try.ran /\ out # Nothing /\ ~ErrorSignal(try).error /\ try.exit = 0
  BY <1>3 DEF Asked
<1>5. CASE try.family = "codex"
  <2>1. EventStream(out)  BY <1>4, <1>5, AttemptsAssumption
  <2>2. parsed = NormalizeCodex(out)  BY <1>4, <1>5 DEF Normalized, parsed
  <2>3. parsed.models = Attested(out) /\ parsed.response = LastMessage(out)
    BY <2>2 DEF NormalizeCodex, Parsed
  <2>4. Attested(out) = {model}  BY <1>3, <2>1, <2>3, AttestedAreFinite, OneModel
  <2>5. Named(try) = Attested(out)
    BY <1>5, <2>1 DEF Named, Attested, Of, EventStream
  <2>6. Of(out, Complaints) = {}
    <3>1. ErrorSignal(try).error = (Of(out, Complaints) # {})  BY <1>5 DEF ErrorSignal
    <3> QED  BY <1>4, <3>1
  <2> DEFINE said == {i \in Of(out, {"agent_message"}) : out[i].text # Nothing}
  <2>7. said # {} /\ says.response = out[Max(said)].text
    BY <1>1, <1>3, <2>3 DEF LastMessage
  <2>8. said \in SUBSET (1..Len(out)) /\ Len(out) \in Nat  BY <2>1 DEF Of, EventStream
  <2>9. Max(said) \in said /\ \A j \in said : j <= Max(said)
    <3> HIDE DEF said
    <3> QED  BY <2>7, <2>8, LastOf
  <2>10. \A j \in DOMAIN out :
           j > Max(said) /\ out[j].type = "agent_message" => out[j].text = Nothing
    <3>1. \A j \in DOMAIN out : j \in Nat  BY <2>1 DEF EventStream
    <3>3. \A j \in DOMAIN out :
            out[j].type = "agent_message" /\ out[j].text # Nothing => j \in said
      BY DEF Of
    <3> HIDE DEF said
    <3>2. Max(said) \in Nat
      <4>1. Max(said) \in 1..Len(out)  BY <2>8, <2>9
      <4> QED  BY <2>8, <4>1
    <3> SUFFICES ASSUME NEW j \in DOMAIN out, j > Max(said),
                        out[j].type = "agent_message", out[j].text # Nothing
                 PROVE  FALSE
      OBVIOUS
    <3>4. j <= Max(said)  BY <2>9, <3>3
    <3> QED  BY <3>1, <3>2, <3>4
  <2>11. /\ Max(said) \in DOMAIN out /\ out[Max(said)].type = "agent_message"
         /\ out[Max(said)].text # Nothing
    BY <2>9 DEF Of
  <2>12. WholeAnswer(try, says)
    BY <1>5, <2>6, <2>7, <2>10, <2>11 DEF WholeAnswer, Of
  <2> QED  BY <1>1, <1>3, <1>4, <2>4, <2>5, <2>12 DEF Answered, says
<1>6. CASE try.family # "codex"
  <2>1. Document(out)  BY <1>4, <1>6, AttemptsAssumption
  <2>2. parsed = NormalizeGemini(out) \/ parsed = NormalizeClaude(out)
    BY <1>4, <1>6 DEF Normalized, parsed
  <2>3. /\ parsed.models = DOMAIN out.tokens /\ parsed.response = out.response
        /\ parsed.session = out.session
    BY <2>2 DEF NormalizeGemini, NormalizeClaude, Parsed
  <2>4. DOMAIN out.tokens = {model}
    BY <1>3, <2>1, <2>3, OneModel DEF Document
  <2>5. ~out.error  BY <1>4, <1>6 DEF ErrorSignal
  <2>6. WholeAnswer(try, says)  BY <1>3, <1>6, <2>3, <2>5 DEF WholeAnswer
  <2>7. Named(try) = {model}  BY <1>6, <2>4 DEF Named
  <2> QED  BY <1>1, <1>3, <1>4, <2>6, <2>7 DEF Answered, says
<1> QED  BY <1>5, <1>6

\* A receipt counts no cached token as input once more.
LEMMA CountedOnce ==
  ASSUME NEW try \in Attempts
  PROVE  CountsOnce(try, BuildReceipt(try))
<1> DEFINE says == BuildReceipt(try)
           out == try.stdout
           counts == CountsOf(try)
<1>1. says.input = Normalized(try).input /\ says.cached = Normalized(try).cached
  BY DEF BuildReceipt
<1> HIDE DEF says
<1> SUFFICES ASSUME counts # <<>>,
                    \A i \in DOMAIN counts : Derived(counts[i])
             PROVE  says.input + says.cached = GrossOf(counts, DOMAIN counts)
  BY DEF CountsOnce, says
<1>2. out # Nothing /\ try.family # "claude"  BY DEF CountsOf
<1>3. CASE try.family = "codex"
  <2>1. counts = out  BY <1>2, <1>3 DEF CountsOf
  <2>2. EventStream(out)  BY <1>2, <1>3, AttemptsAssumption
  <2> DEFINE turns == Of(out, {"turn.completed"})
  <2>3. Normalized(try).input = NetOf(out, turns) /\ Normalized(try).cached = CachedOf(out, turns)
    BY <1>2, <1>3 DEF Normalized, NormalizeCodex, Parsed, NetOf, CachedOf
  <2>4. IsFiniteSet(DOMAIN out)
    <3>1. Len(out) \in Nat /\ DOMAIN out = 1..Len(out)  BY <2>2 DEF EventStream
    <3> HIDE DEF out
    <3> QED  BY <3>1, FS_Interval
  <2>5. turns \in SUBSET (DOMAIN out) /\ \A i \in DOMAIN out \ turns : out[i].gross = 0
    BY <2>2 DEF EventStream, Of
  <2>6. \A i \in DOMAIN out : /\ Numbers(out[i]) /\ out[i].input = Nothing
                              /\ out[i].cached <= out[i].gross
    BY <2>1, <2>2 DEF EventStream, Derived
  <2> HIDE DEF turns
  <2>7. NetOf(out, turns) + CachedOf(out, turns) = GrossOf(out, DOMAIN out)
    BY <2>4, <2>5, <2>6, NetAndCached
  <2> QED  BY <1>1, <2>1, <2>3, <2>7
<1>4. CASE try.family = "gemini"
  <2> DEFINE tokens == out.tokens
  <2>1. counts = tokens  BY <1>2, <1>4 DEF CountsOf
  <2>2. Document(out)  BY <1>2, <1>4, AttemptsAssumption
  <2>3. /\ Normalized(try).input = NetOf(tokens, DOMAIN tokens)
        /\ Normalized(try).cached = CachedOf(tokens, DOMAIN tokens)
    BY <1>2, <1>4 DEF Normalized, NormalizeGemini, Parsed, NetOf, CachedOf
  <2>4. /\ IsFiniteSet(DOMAIN tokens)
        /\ \A i \in DOMAIN tokens : /\ Numbers(tokens[i]) /\ tokens[i].input = Nothing
                                    /\ tokens[i].cached <= tokens[i].gross
    BY <2>1, <2>2 DEF Document, Derived
  <2> HIDE DEF tokens
  <2>5. NetOf(tokens, DOMAIN tokens) + CachedOf(tokens, DOMAIN tokens)
          = GrossOf(tokens, DOMAIN tokens)
    BY <2>4, NetAndCached
  <2> QED  BY <1>1, <2>1, <2>3, <2>5
<1> QED  BY <1>2, <1>3, <1>4, AttemptsAssumption

------------------------------------------------------------------------------
(* Who answered *)

\* A receipt of an attempt is the one built of it, and a proof block that calls a
\* model verified was made of the live receipt that names it.
Vouched ==
  /\ receipt # Nothing /\ receipt.from # Nothing =>
       receipt.from \in Attempts /\ receipt.says = BuildReceipt(receipt.from)
  /\ db.proof # Nothing /\ db.proof.class = "receipt_verified_v1" =>
       /\ receipt # Nothing /\ IsLiveReceipt(receipt.says)
       /\ db.proof.model = receipt.says.model

\* The receipt is read in one step only.
LEMMA ReadOnce == ASSUME Next PROVE receipt' = receipt \/ LoadReceipt
<1>1. CASE \/ InsertRun \/ HashBefore \/ VerifyBaseline \/ RunCommand \/ HashAfter
           \/ RecordChange \/ RecordStream \/ RecordOutput \/ WriteRunJson \/ LoadSidecar
  BY <1>1 DEF InsertRun, HashBefore, VerifyBaseline, RunCommand, HashAfter, RecordChange,
     RecordStream, RecordOutput, WriteRunJson, LoadSidecar
<1>2. CASE \/ WriteProvenance \/ RecordProof \/ RecordFailure \/ Settle \/ Persist
           \/ PersistArtifact \/ Edit \/ Grow \/ Die
  BY <1>2 DEF WriteProvenance, RecordProof, RecordFailure, Settle, Persist,
     PersistArtifact, Edit, Grow, Die
<1> QED  BY <1>1, <1>2 DEF Next

\* The receipt is read before the proof block is made of it, and neither changes
\* afterwards.
LEMMA VouchedStays == ASSUME Whole, Vouched, Next PROVE Vouched'
<1>1. (receipt' = receipt \/ LoadReceipt) /\ (db'.proof = db.proof \/ RecordProof)
  BY ReadOnce, Frame DEF Whole
<1>2. CASE LoadReceipt
  <2>1. at = "receipt" /\ db' = db  BY <1>2 DEF LoadReceipt
  <2>2. db.proof = Nothing
    <3>1. Script[11] = "receipt"  BY DEF Script
    <3>2. Place(at) = 11 /\ at \in Steps  BY <2>1, <3>1, ScriptPlaces DEF Steps
    <3>3. ~Done("proof", 1) /\ at # "died"
      BY <2>1, <3>2, PlacesAre, Turns DEF Done
    <3> QED  BY <3>3 DEF Whole, Sound, Told
  <2>3. CASE receipt' = receipt  BY <2>1, <2>2, <2>3 DEF Vouched
  <2>4. CASE receipt' # receipt
    <3>1. PICK r \in {[says |-> BuildReceipt(try), from |-> try] : try \in Attempts}
                       \cup {[says |-> f, from |-> Nothing] : f \in Forged} :
            receipt' = r
      BY <1>2, <2>4 DEF LoadReceipt
    <3>2. receipt'.from # Nothing =>
            receipt'.from \in Attempts /\ receipt'.says = BuildReceipt(receipt'.from)
      BY <3>1
    <3> QED  BY <2>1, <2>2, <3>2 DEF Vouched
  <2> QED  BY <2>3, <2>4
<1>3. CASE RecordProof
  <2>1. receipt' = receipt  BY <1>3 DEF RecordProof
  <2>2. db'.proof = Provenance  BY <1>3 DEF RecordProof, Whole, Shapes, Field
  <2>3. Provenance.class = "receipt_verified_v1" =>
          /\ receipt # Nothing /\ IsLiveReceipt(receipt.says)
          /\ Provenance.model = receipt.says.model
    BY DEF Provenance
  <2> QED  BY <2>1, <2>2, <2>3 DEF Vouched
<1>4. CASE receipt' = receipt /\ db'.proof = db.proof  BY <1>4 DEF Vouched
<1> QED  BY <1>1, <1>2, <1>3, <1>4

\* Before a receipt is read nothing is verified.
LEMMA InitIsVouched == Init => Vouched
  BY DEF Init, Vouched

\* A model that is recorded as verified was named, alone, by a whole answer of a tool
\* of that name that ran to its end; and a receipt adds no cached token to its input
\* that its gross count holds already.
THEOREM VerifiedWasAnswered == Spec => []VerifiedIsAnswered
<1>1. Vouched => VerifiedIsAnswered
  <2> SUFFICES ASSUME Vouched, receipt # Nothing, receipt.from # Nothing
               PROVE  VerifiedIsAnswered
    BY DEF VerifiedIsAnswered
  <2> DEFINE try == receipt.from
  <2>1. try \in Attempts /\ receipt.says = BuildReceipt(try)  BY DEF Vouched
  <2>2. CountsOnce(try, receipt.says)  BY <2>1, CountedOnce
  <2>3. ASSUME db.proof # Nothing, db.proof.class = "receipt_verified_v1"
        PROVE  Answered(try, receipt.says) /\ db.proof.model = receipt.says.model
    <3>1. IsLiveReceipt(receipt.says) /\ db.proof.model = receipt.says.model
      BY <2>3 DEF Vouched
    <3> QED  BY <2>1, <3>1, LiveIsAnswered
  <2> HIDE DEF try
  <2>4. ASSUME db.proof # Nothing, db.proof.class = "receipt_verified_v1"
        PROVE  /\ try.ran /\ try.exit = 0 /\ try.name \in Live
               /\ (IF try.family = "codex"
                     THEN {try.stdout[i].model : i \in DOMAIN try.stdout} \ {Nothing}
                     ELSE DOMAIN try.stdout.tokens) = {db.proof.model}
               /\ IF try.family = "codex"
                    THEN /\ \A i \in DOMAIN try.stdout : try.stdout[i].type \notin Complaints
                         /\ \E i \in DOMAIN try.stdout :
                              /\ try.stdout[i].type = "agent_message"
                              /\ try.stdout[i].text = receipt.says.response
                              /\ try.stdout[i].text # Nothing
                              /\ \A j \in DOMAIN try.stdout :
                                   j > i /\ try.stdout[j].type = "agent_message"
                                     => try.stdout[j].text = Nothing
                    ELSE /\ ~try.stdout.error /\ try.stdout.response # Nothing
                         /\ try.stdout.session # Nothing
    BY <2>3, <2>4 DEF Answered, Named, WholeAnswer
  <2> DEFINE counts == IF try.stdout = Nothing \/ try.family = "claude" THEN <<>>
                       ELSE IF try.family = "codex" THEN try.stdout ELSE try.stdout.tokens
  <2>5. counts # <<>> /\ (\A i \in DOMAIN counts : Derived(counts[i])) =>
          receipt.says.input + receipt.says.cached
            = MapThenSumSet(LAMBDA i : counts[i].gross, DOMAIN counts)
    BY <2>2 DEF CountsOnce, CountsOf, GrossOf
  <2> QED  BY <2>4, <2>5 DEF VerifiedIsAnswered, Derived, try
<1>2. Whole /\ Vouched /\ [Next]_vars => Vouched'
  <2> SUFFICES ASSUME Whole, Vouched, [Next]_vars PROVE Vouched'  OBVIOUS
  <2>1. CASE UNCHANGED vars  BY <2>1 DEF vars, Vouched
  <2> QED  BY <2>1, VouchedStays
<1> QED  BY <1>1, <1>2, InitIsVouched, InitIsWhole, StepIsWhole, PTL DEF Spec
==============================================================================
