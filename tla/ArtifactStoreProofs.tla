------------------------- MODULE ArtifactStoreProofs -------------------------
(***************************************************************************)
(* Safety of an artifact root for any calls, keys and payloads.            *)
(*                                                                         *)
(* That a readable manifest is backed and files are immutable holds with   *)
(* writers that overlap: exclusive creation gives each torn file one       *)
(* writer, and whatever a call has read, or writes into the file it holds  *)
(* open, only names files that were complete.  That entries stay, and that *)
(* the manifest can be read at all, needs calls that follow one another:   *)
(* what a call has read is then what it replaces, and the temporary file   *)
(* it has emptied is there for it alone.                                   *)
(***************************************************************************)
EXTENDS ArtifactStore, TLAPS

Backed(m) ==
  Readable(m) => \A k \in Key : m[k] # NoEntry => files[k] = m[k].sha

\* What a call knows of the file under its key.
Kept(c) ==
  /\ Backed(snapshot[c])
  /\ pc[c] \in {"append", "write", "replace"} => files[KeyOf[c]] = DigestOf[c]
  /\ pc[c] = "writing" => files[KeyOf[c]] = Torn

\* A torn file has at most one writer that is still alive.
OneWriter ==
  \A c, d \in Call :
    pc[c] = "writing" /\ pc[d] = "writing" /\ KeyOf[c] = KeyOf[d] => c = d

\* Calls that follow one another: the manifest a call read is still there.
Current(c) ==
  /\ pc[c] \in Active => snapshot[c] = manifest
  /\ pc[c] \in Active \ {"reuse"} => manifest[KeyOf[c]] = NoEntry
  /\ pc[c] = "reuse" => manifest[KeyOf[c]] # NoEntry
  /\ pc[c] = "create" => files[KeyOf[c]] = Absent
  /\ pc[c] = "write" => temp = Blank /\ opened[c] = "temp"
  /\ pc[c] = "replace" => temp = Appended(c)
  /\ pc[c] = "done" => manifest[KeyOf[c]] = EntryOf(c)

InSequence ==
  /\ Readable(manifest)
  /\ \A c, d \in Call : pc[c] \in Active /\ pc[d] \in Active => c = d
  /\ \A c \in Call : Current(c)

IInv ==
  /\ TypeOK /\ ManifestBacked
  /\ temp # NoFile => Backed(temp)
  /\ \A c \in Call : Kept(c)
  /\ OneWriter
  /\ ~overlap => InSequence

Step(c) == Write(c) \/ Crash(c)

USE ArgumentAssumption, MarkerAssumption

------------------------------------------------------------------------------
\* The entry of a call is an entry, and appending it gives a manifest.
LEMMA EntryIsTyped ==
  ASSUME TypeOK, NEW c \in Call
  PROVE  /\ EntryOf(c) \in Entry /\ Appended(c) \in Manifest
         /\ \A m : Over(m, c) \subseteq ManifestFile
<1>1. EntryOf(c) \in Entry /\ Appended(c) \in Manifest
  BY DEF TypeOK, EntryOf, Entry, Appended, Manifest
<1> QED  BY <1>1 DEF Over, ManifestFile

\* Each step keeps the types.
LEMMA TypeStep ==
  ASSUME TypeOK, NEW c \in Call, Step(c)
  PROVE  TypeOK'
<1>1. \A m : Over(m, c) \subseteq ManifestFile  BY EntryIsTyped
<1>2. \A x \in {"idle"} \cup Active \cup Stopped :
        Goto(c, x) => pc' \in [Call -> {"idle"} \cup Active \cup Stopped]
  BY DEF TypeOK, Goto
<1>3. pc' \in [Call -> {"idle"} \cup Active \cup Stopped]
  BY <1>2 DEF Step, Write, Crash, ReadManifest, ReuseEntry, CheckDestination,
              CreateExclusive, FinishWrite, OpenTemp, WriteTemp, ReplaceManifest, Active, Stopped
<1>4. files' \in [Key -> Digest \cup {Absent, Torn}]
  BY DEF TypeOK, Step, Write, Crash, ReadManifest, ReuseEntry, CheckDestination,
         CreateExclusive, FinishWrite, OpenTemp, WriteTemp, ReplaceManifest
<1>5. manifest' \in ManifestFile /\ temp' \in ManifestFile \cup {NoFile}
  BY <1>1 DEF TypeOK, Step, Write, Crash, ReadManifest, ReuseEntry, CheckDestination,
              CreateExclusive, FinishWrite, OpenTemp, WriteTemp, ReplaceManifest,
              ManifestFile
<1>6. snapshot' \in [Call -> Manifest]
  BY DEF TypeOK, Step, Write, Crash, ReadManifest, ReuseEntry, CheckDestination,
         CreateExclusive, FinishWrite, OpenTemp, WriteTemp, ReplaceManifest,
         ManifestFile, Readable
<1>7. opened' \in [Call -> {"none", "temp", "manifest", "unlinked"}]
  BY DEF TypeOK, Step, Write, Crash, ReadManifest, ReuseEntry, CheckDestination,
         CreateExclusive, FinishWrite, OpenTemp, WriteTemp, ReplaceManifest, Moved
<1>8. overlap' = overlap
  BY DEF Step, Write, Crash, ReadManifest, ReuseEntry, CheckDestination,
         CreateExclusive, FinishWrite, OpenTemp, WriteTemp, ReplaceManifest
<1> QED  BY <1>3, <1>4, <1>5, <1>6, <1>7, <1>8 DEF TypeOK

\* Exclusive creation and its one writer leave complete files alone.
LEMMA FilesStay ==
  ASSUME IInv, NEW c \in Call, Step(c), NEW k \in Key, files[k] \in Digest
  PROVE  files'[k] = files[k]
<1>1. CASE CreateExclusive(c)
  BY <1>1 DEF CreateExclusive, CanCreate, IInv, TypeOK
<1>2. CASE FinishWrite(c)
  BY <1>2 DEF FinishWrite, IInv, TypeOK, Kept
<1>3. CASE ~CreateExclusive(c) /\ ~FinishWrite(c)
  BY <1>3 DEF Step, Write, Crash, ReadManifest, ReuseEntry, CheckDestination,
              OpenTemp, WriteTemp, ReplaceManifest
<1> QED  BY <1>1, <1>2, <1>3

\* So a manifest that was backed stays so.
LEMMA BackedStays ==
  ASSUME IInv, NEW c \in Call, Step(c), NEW m \in ManifestFile, Backed(m)
  PROVE  Backed(m)'
<1> SUFFICES ASSUME Readable(m), NEW k \in Key, m[k] # NoEntry
             PROVE  files'[k] = m[k].sha
  BY DEF Backed
<1>1. m[k] \in Entry  BY DEF Manifest, ManifestFile, Readable
<1>2. m[k].sha \in Digest  BY <1>1 DEF Entry
<1> QED  BY <1>2, FilesStay DEF Backed

\* What a call appends is backed, its own entry included.
LEMMA AppendedIsBacked ==
  ASSUME IInv, NEW c \in Call, pc[c] = "write"
  PROVE  \A m : \A n \in Over(m, c) : Backed(n)
<1>0. ASSUME Backed(Appended(c))  PROVE \A m : \A n \in Over(m, c) : Backed(n)
  BY <1>0 DEF Over, Backed, Readable
<1> SUFFICES Backed(Appended(c))
  BY <1>0
<1> SUFFICES ASSUME NEW k \in Key, Appended(c)[k] # NoEntry
             PROVE  files[k] = Appended(c)[k].sha
  BY DEF Backed
<1>9. snapshot[c] \in Manifest /\ Readable(snapshot[c])
  BY DEF IInv, TypeOK, Readable
<1>1. CASE k = KeyOf[c]
  BY <1>9, <1>1 DEF Appended, EntryOf, IInv, Kept, Manifest
<1>2. CASE k # KeyOf[c]
  BY <1>9, <1>2 DEF Appended, IInv, Kept, Backed, Manifest
<1> QED  BY <1>1, <1>2

------------------------------------------------------------------------------
\* The invariant holds in an empty root.
THEOREM Initially == Init => IInv
<1> SUFFICES ASSUME Init PROVE IInv
  OBVIOUS
<1>1. EmptyManifest \in Manifest /\ \A k \in Key : EmptyManifest[k] = NoEntry
  BY DEF EmptyManifest, Manifest
<1>2. TypeOK  BY <1>1 DEF Init, TypeOK, ManifestFile
<1>3. ManifestBacked /\ Backed(EmptyManifest)
  BY <1>1 DEF Init, ManifestBacked, Backed
<1>4. \A c \in Call : Kept(c)  BY <1>3 DEF Init, Kept
<1>5. OneWriter /\ InSequence
  BY <1>1 DEF Init, OneWriter, InSequence, Current, Active, Readable
<1> QED  BY <1>2, <1>3, <1>4, <1>5 DEF IInv, Init

\* Every manifest, read, prepared or in place, stays backed.
LEMMA ManifestsStep ==
  ASSUME IInv, NEW c \in Call, Step(c)
  PROVE  /\ ManifestBacked' /\ (temp # NoFile => Backed(temp))'
         /\ \A d \in Call : Backed(snapshot[d])'
<1>1. /\ manifest \in ManifestFile /\ Backed(manifest)
      /\ temp # NoFile => temp \in ManifestFile /\ Backed(temp)
      /\ \A d \in Call : snapshot[d] \in ManifestFile /\ Backed(snapshot[d])
  BY DEF IInv, TypeOK, ManifestBacked, Backed, Kept, ManifestFile
<1>2. Backed(manifest)' /\ (temp # NoFile => Backed(temp))'
  <2>1. CASE OpenTemp(c)
    <3>1. temp' = Blank /\ files' = files /\ manifest' = manifest
      BY <2>1 DEF OpenTemp
    <3> QED  BY <3>1, <1>1 DEF Backed, Readable
  <2>2. CASE WriteTemp(c)
    <3>1. \A m : \A n \in Over(m, c) : Backed(n)
      BY <2>2, AppendedIsBacked DEF WriteTemp
    <3>2. /\ manifest' = manifest \/ manifest' \in Over(manifest, c)
          /\ temp' = temp \/ temp' \in Over(temp, c)
          /\ files' = files
      BY <2>2 DEF WriteTemp
    <3>3. Backed(manifest')
      BY <3>1, <3>2, <1>1
    <3>4. temp' # NoFile => Backed(temp')
      BY <3>1, <3>2, <1>1
    <3> QED  BY <3>2, <3>3, <3>4 DEF Backed
  <2>3. CASE ReplaceManifest(c)
    BY <2>3, <1>1 DEF ReplaceManifest, Backed
  <2>4. CASE ~OpenTemp(c) /\ ~WriteTemp(c) /\ ~ReplaceManifest(c)
    <3>1. manifest' = manifest /\ temp' = temp
      BY <2>4 DEF Step, Write, Crash, ReadManifest, ReuseEntry, CheckDestination,
                  CreateExclusive, FinishWrite
    <3>2. \A m \in ManifestFile : Backed(m) /\ Readable(m)
            => \A k \in Key : m[k] # NoEntry => files'[k] = m[k].sha
      BY BackedStays DEF Backed
    <3> QED  BY <1>1, <3>1, <3>2 DEF Backed
  <2> QED  BY <2>1, <2>2, <2>3, <2>4
<1>3. ASSUME NEW d \in Call  PROVE Backed(snapshot[d])'
  <2>1. snapshot'[d] \in {snapshot[d], manifest}
    BY DEF Step, Write, Crash, ReadManifest, ReuseEntry, CheckDestination,
           CreateExclusive, FinishWrite, OpenTemp, WriteTemp, ReplaceManifest, IInv, TypeOK
  <2>2. \A m \in ManifestFile : Backed(m) /\ Readable(m)
          => \A k \in Key : m[k] # NoEntry => files'[k] = m[k].sha
    BY BackedStays DEF Backed
  <2> QED  BY <1>1, <2>1, <2>2 DEF Backed
<1> QED  BY <1>2, <1>3 DEF ManifestBacked, Backed

\* A call keeps what it knows of its file, and a torn file its one writer.
LEMMA KeptStep ==
  ASSUME IInv, NEW c \in Call, Step(c)
  PROVE  OneWriter' /\ \A d \in Call : Kept(d)'
<1> USE DEF Goto
<1>1. \A d \in Call : d # c => pc'[d] = pc[d]
  BY DEF Step, Write, Crash, ReadManifest, ReuseEntry, CheckDestination, IInv, TypeOK,
         CreateExclusive, FinishWrite, OpenTemp, WriteTemp, ReplaceManifest
<1>2. ASSUME NEW d \in Call, pc'[d] \in {"append", "write", "replace"}
      PROVE  files'[KeyOf[d]] = DigestOf[d]
  <2>1. CASE pc[d] \in {"append", "write", "replace"}
    BY <2>1, FilesStay DEF IInv, Kept
  <2>2. CASE pc[d] \notin {"append", "write", "replace"}
    BY <1>1, <1>2, <2>2 DEF Step, Write, Crash, ReadManifest, ReuseEntry, MayAdopt,
         CheckDestination, CreateExclusive, FinishWrite, OpenTemp, WriteTemp, ReplaceManifest,
         IInv, TypeOK
  <2> QED  BY <2>1, <2>2
<1>3. ASSUME NEW d \in Call, pc'[d] = "writing"
      PROVE  files'[KeyOf[d]] = Torn
  <2>1. CASE d = c
    BY <1>3, <2>1 DEF Step, Write, Crash, ReadManifest, ReuseEntry,
         CheckDestination, CreateExclusive, FinishWrite, OpenTemp, WriteTemp, ReplaceManifest,
         IInv, TypeOK
  <2>2. CASE d # c
    <3>1. pc[d] = "writing" /\ files[KeyOf[d]] = Torn
      BY <1>1, <1>3, <2>2 DEF IInv, Kept
    <3>2. CASE FinishWrite(c)
      BY <2>2, <3>1, <3>2 DEF FinishWrite, IInv, OneWriter, TypeOK
    <3>3. CASE CreateExclusive(c)
      BY <2>2, <3>1, <3>3 DEF CreateExclusive, CanCreate, IInv, TypeOK
    <3>4. CASE ~FinishWrite(c) /\ ~CreateExclusive(c)
      BY <3>1, <3>4 DEF Step, Write, Crash, ReadManifest, ReuseEntry,
           CheckDestination, OpenTemp, WriteTemp, ReplaceManifest
    <3> QED  BY <3>2, <3>3, <3>4
  <2> QED  BY <2>1, <2>2
<1>4. OneWriter'
  <2>1. CASE CreateExclusive(c)
    BY <1>1, <2>1 DEF CreateExclusive, CanCreate, IInv, OneWriter, Kept, TypeOK, Absent, Torn
  <2>2. CASE ~CreateExclusive(c)
    <3>1. pc'[c] # "writing"
      BY <2>2 DEF Step, Write, Crash, ReadManifest, ReuseEntry, CheckDestination,
           FinishWrite, OpenTemp, WriteTemp, ReplaceManifest, IInv, TypeOK
    <3> QED  BY <1>1, <3>1 DEF IInv, OneWriter
  <2> QED  BY <2>1, <2>2
<1> QED  BY <1>2, <1>3, <1>4, ManifestsStep DEF Kept

\* Calls that follow one another replace the manifest they read.
LEMMA InSequenceStep ==
  ASSUME IInv, NEW c \in Call, Step(c), ~overlap
  PROVE  InSequence'
<1> USE DEF Goto
<1>1. \A d \in Call : d # c => pc'[d] = pc[d] /\ snapshot'[d] = snapshot[d]
  BY DEF Step, Write, Crash, ReadManifest, ReuseEntry, CheckDestination, IInv, TypeOK,
         CreateExclusive, FinishWrite, OpenTemp, WriteTemp, ReplaceManifest
<1>2. \A d \in Call : d # c /\ (pc[c] \in Active \/ pc'[c] \in Active)
        => pc[d] \notin Active
  BY DEF Step, Write, Crash, ReadManifest, ReuseEntry, CheckDestination, IInv, TypeOK,
         CreateExclusive, FinishWrite, OpenTemp, WriteTemp, ReplaceManifest, InSequence, Active
<1>0. /\ manifest \in Manifest /\ snapshot[c] \in Manifest /\ Current(c)
      /\ Appended(c) \in Manifest
  BY EntryIsTyped DEF IInv, TypeOK, InSequence, ManifestFile, Readable
<1>6. Readable(manifest)'
  BY <1>0 DEF Step, Write, Crash, ReadManifest, ReuseEntry, CheckDestination,
         CreateExclusive, FinishWrite, OpenTemp, WriteTemp, ReplaceManifest,
         InSequence, Current, Readable, IInv
<1>3. Current(c)'
  <2>1. CASE ReadManifest(c)
    BY <2>1, <1>0 DEF ReadManifest, IInv, TypeOK, Current, Active, InSequence
  <2>2. CASE \/ ReuseEntry(c) \/ CheckDestination(c) \/ CreateExclusive(c)
             \/ FinishWrite(c) \/ Crash(c)
    BY <2>2, <1>0 DEF ReuseEntry, CheckDestination, CreateExclusive, CanCreate,
         FinishWrite, Crash, SameEvidence, IInv, TypeOK, Current, Active
  <2>3. CASE OpenTemp(c)
    BY <2>3, <1>0 DEF OpenTemp, IInv, TypeOK, Current, Active
  <2>4. CASE WriteTemp(c)
    <3>1. temp' = Appended(c) /\ manifest' = manifest /\ snapshot' = snapshot
      BY <2>4, <1>0 DEF WriteTemp, Current, Over
    <3>2. Appended(c)' = Appended(c)
      BY <3>1 DEF Appended
    <3> QED  BY <2>4, <3>1, <3>2, <1>0 DEF WriteTemp, IInv, TypeOK, Current, Active
  <2>5. CASE ReplaceManifest(c)
    <3>1. temp = Appended(c) /\ pc' = [pc EXCEPT ![c] = "done"] /\ manifest' = temp
      BY <2>5, <1>0 DEF ReplaceManifest, Current
    <3>2. manifest'[KeyOf[c]] = EntryOf(c)
      BY <3>1, <1>0 DEF Appended, Manifest
    <3> QED  BY <3>1, <3>2 DEF IInv, TypeOK, Current, Active, EntryOf
  <2> QED  BY <2>1, <2>2, <2>3, <2>4, <2>5 DEF Step, Write
<1>4. ASSUME NEW d \in Call, d # c  PROVE Current(d)'
  <2>1. pc'[d] \notin Active
    BY <1>1, <1>2, <1>4 DEF Step, Write, Crash, ReadManifest, ReuseEntry,
         CheckDestination, CreateExclusive, FinishWrite, OpenTemp, WriteTemp, ReplaceManifest,
         IInv, TypeOK, Active
  <2>2. pc[d] = "done" => manifest'[KeyOf[d]] = manifest[KeyOf[d]]
    <3>1. CASE ReplaceManifest(c)
      <4>1. temp = Appended(c) /\ snapshot[c] = manifest /\ manifest[KeyOf[c]] = NoEntry
        BY <3>1 DEF ReplaceManifest, IInv, InSequence, Current, Active
      <4>2. pc[d] = "done" => KeyOf[d] # KeyOf[c]
        BY <4>1, EntryIsTyped DEF IInv, InSequence, Current
      <4>3. manifest' = manifest \/ manifest' = [manifest EXCEPT ![KeyOf[c]] = EntryOf(c)]
        BY <3>1, <4>1 DEF ReplaceManifest, Appended
      <4> QED  BY <1>0, <4>2, <4>3 DEF Manifest
    <3>2. CASE ~ReplaceManifest(c)
      BY <3>2 DEF Step, Write, Crash, ReadManifest, ReuseEntry, CheckDestination,
           CreateExclusive, FinishWrite, OpenTemp, WriteTemp, IInv,
           InSequence, Current
    <3> QED  BY <3>1, <3>2
  <2> QED  BY <1>1, <1>4, <2>1, <2>2 DEF IInv, InSequence, Current, Active, EntryOf
<1>5. (\A d, e \in Call : pc[d] \in Active /\ pc[e] \in Active => d = e)'
  BY <1>1, <1>2 DEF IInv, InSequence
<1> QED  BY <1>3, <1>4, <1>5, <1>6 DEF InSequence

\* The invariant is inductive.
THEOREM Inductive == IInv /\ [Next]_vars => IInv'
<1> SUFFICES ASSUME IInv, [Next]_vars PROVE IInv'
  OBVIOUS
<1>1. ASSUME NEW c \in Call, Step(c)  PROVE IInv'
  <2>1. overlap' = overlap
    BY <1>1 DEF Step, Write, Crash, ReadManifest, ReuseEntry, CheckDestination,
         CreateExclusive, FinishWrite, OpenTemp, WriteTemp, ReplaceManifest
  <2> QED
    BY <1>1, <2>1, TypeStep, ManifestsStep, KeptStep, InSequenceStep DEF IInv
<1>2. CASE UNCHANGED vars
  BY <1>2 DEF vars, IInv, TypeOK, ManifestBacked, Backed, Kept, OneWriter, InSequence,
              Current, Appended
<1> QED  BY <1>1, <1>2 DEF Next, Step

\* So it holds of every reachable root.
THEOREM Invariance == Spec => []IInv
  BY Initially, Inductive, PTL DEF Spec

------------------------------------------------------------------------------
\* The types of root and calls, whoever dies when.
THEOREM TypeCorrect == Spec => []TypeOK
<1>1. IInv => TypeOK  BY DEF IInv
<1> QED  BY <1>1, Invariance, PTL

\* write_artifact never lets a manifest that can be read vouch for a missing,
\* torn or different file, though overlapping writers empty and overwrite the
\* temporary file each other opened and rename it while it is half written.
THEOREM ManifestIsBacked == Spec => []ManifestBacked
<1>1. IInv => ManifestBacked  BY DEF IInv
<1> QED  BY <1>1, Invariance, PTL

\* No call, refused or killed, changes a complete file.
THEOREM FilesAreImmutable == Spec => FilesImmutable
<1> DEFINE Same == \A k \in Key : files[k] \in Digest => files'[k] = files[k]
<1>1. IInv /\ [Next]_vars => [Same]_vars
  BY FilesStay DEF Next, Step, vars
<1> QED  BY <1>1, Invariance, PTL DEF Spec, FilesImmutable

\* When calls follow one another the manifest can always be read, and what a
\* call returned is in it for good.
THEOREM ReturnedStays == Spec => []ReturnedIsRecorded
<1>1. IInv => ReturnedIsRecorded
  BY DEF IInv, InSequence, Current, ReturnedIsRecorded
<1> QED  BY <1>1, Invariance, PTL

\* Why a refused call is no repetition, in terms that stay: another entry was
\* published, other bytes are complete, or nobody is left to complete the file.
RefusedFor(c) ==
  \/ manifest[KeyOf[c]] \notin {NoEntry, EntryOf(c)}
  \/ files[KeyOf[c]] \in Digest \ {DigestOf[c]}
  \/ /\ files[KeyOf[c]] = Torn
     /\ \A d \in Call : pc[d] = "writing" => KeyOf[d] # KeyOf[c]

RefusalsStand == ~overlap => \A c \in Call : pc[c] = "refused" => RefusedFor(c)

\* A call is refused for one of these reasons.
LEMMA RefusalHasReason ==
  ASSUME IInv, ~overlap, NEW c \in Call, Step(c), pc[c] # "refused",
         pc'[c] = "refused"
  PROVE  RefusedFor(c)'
<1>1. \A d \in Call : d # c => pc[d] \notin Active
  BY DEF Step, Write, Crash, ReadManifest, ReuseEntry, CheckDestination, IInv,
         TypeOK, CreateExclusive, FinishWrite, OpenTemp, WriteTemp,
         ReplaceManifest, InSequence, Active, Goto
<1>2. /\ ReuseEntry(c) \/ CheckDestination(c) \/ CreateExclusive(c)
      /\ pc' = [pc EXCEPT ![c] = "refused"] /\ UNCHANGED <<files, manifest>>
  BY DEF Step, Write, Crash, ReadManifest, ReuseEntry, CheckDestination, IInv,
         TypeOK, CreateExclusive, FinishWrite, OpenTemp, WriteTemp,
         ReplaceManifest, Goto
<1>3. \A d \in Call : pc'[d] # "writing"
  BY <1>1, <1>2 DEF IInv, TypeOK, Active
<1>4. manifest \in Manifest /\ Current(c) /\ EntryOf(c)' = EntryOf(c)
  BY DEF IInv, TypeOK, InSequence, ManifestFile, Readable, EntryOf
<1>5. CASE ReuseEntry(c)
  <2>1. manifest[KeyOf[c]] # NoEntry /\ ~SameEvidence(c) /\ snapshot[c] = manifest
    BY <1>2, <1>4, <1>5 DEF ReuseEntry, Current, Active, IInv, TypeOK, Goto
  <2>2. files[KeyOf[c]] = manifest[KeyOf[c]].sha
    BY <2>1 DEF IInv, InSequence, ManifestBacked
  <2>3. manifest[KeyOf[c]] # EntryOf(c)
    BY <2>1, <2>2 DEF SameEvidence, EntryOf
  <2> QED  BY <2>1, <2>3, <1>2, <1>4 DEF RefusedFor
<1>6. CASE CheckDestination(c)
  <2>1. files[KeyOf[c]] \notin {Absent, DigestOf[c]}
    BY <1>2, <1>6 DEF CheckDestination, MayAdopt, IInv, TypeOK, Goto
  <2> QED  BY <2>1, <1>2, <1>3 DEF RefusedFor, IInv, TypeOK
<1>7. CASE CreateExclusive(c)
  BY <1>2, <1>4, <1>7 DEF CreateExclusive, CanCreate, Current, IInv, TypeOK, Goto
<1> QED  BY <1>2, <1>5, <1>6, <1>7

\* None of them goes away again.
LEMMA ReasonStays ==
  ASSUME IInv, ~overlap, NEW c \in Call, NEW d \in Call, Step(d), RefusedFor(c)
  PROVE  RefusedFor(c)'
<1>1. EntryOf(c)' = EntryOf(c)  BY DEF EntryOf
<1>2. CASE manifest[KeyOf[c]] \notin {NoEntry, EntryOf(c)}
  <2>1. CASE ReplaceManifest(d)
    <3>1. temp = Appended(d) /\ snapshot[d] = manifest /\ manifest[KeyOf[d]] = NoEntry
      BY <2>1 DEF ReplaceManifest, IInv, InSequence, Current, Active
    <3>2. manifest \in Manifest
      BY DEF IInv, TypeOK, InSequence, ManifestFile, Readable
    <3>3. manifest'[KeyOf[c]] = manifest[KeyOf[c]]
      BY <1>2, <2>1, <3>1, <3>2 DEF ReplaceManifest, Appended, Manifest
    <3> QED  BY <1>1, <1>2, <3>3 DEF RefusedFor
  <2>2. CASE ~ReplaceManifest(d)
    <3>1. manifest' = manifest
      BY <2>2 DEF Step, Write, Crash, ReadManifest, ReuseEntry, CheckDestination,
           CreateExclusive, FinishWrite, OpenTemp, WriteTemp, IInv, InSequence,
           Current
    <3> QED  BY <1>1, <1>2, <3>1 DEF RefusedFor
  <2> QED  BY <2>1, <2>2
<1>3. CASE files[KeyOf[c]] \in Digest \ {DigestOf[c]}
  BY <1>3, FilesStay DEF RefusedFor
<1>4. CASE /\ files[KeyOf[c]] = Torn
           /\ \A e \in Call : pc[e] = "writing" => KeyOf[e] # KeyOf[c]
  <2>1. files'[KeyOf[c]] = Torn
    BY <1>4 DEF Step, Write, Crash, ReadManifest, ReuseEntry, CheckDestination,
         CreateExclusive, CanCreate, FinishWrite, OpenTemp, WriteTemp,
         ReplaceManifest, IInv, TypeOK
  <2>2. ASSUME NEW e \in Call, pc'[e] = "writing"  PROVE KeyOf[e] # KeyOf[c]
    BY <1>4, <2>2 DEF Step, Write, Crash, ReadManifest, ReuseEntry,
         CheckDestination, CreateExclusive, CanCreate, FinishWrite, OpenTemp,
         WriteTemp, ReplaceManifest, IInv, TypeOK, Goto, Absent, Torn
  <2> QED  BY <2>1, <2>2 DEF RefusedFor
<1> QED  BY <1>2, <1>3, <1>4 DEF RefusedFor

\* The exact repetition of a call that returned, or that died with its file
\* complete, is not refused, when calls follow one another.
THEOREM RepetitionsAreNotRefused == Spec => []RepetitionsAreReused
<1>1. Init => RefusalsStand
  BY DEF Init, RefusalsStand
<1>2. IInv /\ RefusalsStand /\ [Next]_vars => RefusalsStand'
  <2> SUFFICES ASSUME IInv, RefusalsStand, [Next]_vars, ~overlap',
                      NEW c \in Call, pc'[c] = "refused"
               PROVE  RefusedFor(c)'
    BY DEF RefusalsStand
  <2>1. CASE UNCHANGED vars
    BY <2>1 DEF vars, RefusalsStand, RefusedFor, EntryOf
  <2>2. ASSUME NEW d \in Call, Step(d)  PROVE RefusedFor(c)'
    <3>1. overlap' = overlap
      BY <2>2 DEF Step, Write, Crash, ReadManifest, ReuseEntry, CheckDestination,
           CreateExclusive, FinishWrite, OpenTemp, WriteTemp, ReplaceManifest
    <3>2. CASE pc[c] = "refused"
      BY <2>2, <3>1, <3>2, ReasonStays DEF RefusalsStand
    <3>3. CASE pc[c] # "refused"
      <4>1. d = c
        BY <2>2, <3>3 DEF Step, Write, Crash, ReadManifest, ReuseEntry,
             CheckDestination, CreateExclusive, FinishWrite, OpenTemp, WriteTemp,
             ReplaceManifest, IInv, TypeOK, Goto
      <4> QED  BY <2>2, <3>1, <3>3, <4>1, RefusalHasReason
    <3> QED  BY <3>2, <3>3
  <2> QED  BY <2>1, <2>2 DEF Next, Step
<1>3. RefusalsStand => RepetitionsAreReused
  BY DEF RefusalsStand, RefusedFor, RepetitionsAreReused, Repeats
<1> QED  BY <1>1, <1>2, <1>3, Invariance, PTL DEF Spec

------------------------------------------------------------------------------
\* Replacing the manifest publishes one entry with its bytes.
LEMMA ReplacePublishes ==
  ASSUME IInv, ~overlap, NEW c \in Call, ReplaceManifest(c)
  PROVE  Ledger!Publish(KeyOf[c], EntryOf(c))
<1>1. /\ temp = Appended(c) /\ snapshot[c] = manifest
      /\ manifest[KeyOf[c]] = NoEntry /\ files[KeyOf[c]] = DigestOf[c]
  BY DEF ReplaceManifest, IInv, InSequence, Current, Active, Kept
<1>2. temp # NoFile /\ manifest \in Manifest /\ overlap' = overlap
  BY <1>1, EntryIsTyped
     DEF IInv, TypeOK, InSequence, ManifestFile, Readable, ReplaceManifest
<1>3. /\ manifest' = [manifest EXCEPT ![KeyOf[c]] = EntryOf(c)] /\ files' = files
  BY <1>1, <1>2 DEF ReplaceManifest, Appended
<1>4. manifest \in Manifest /\ EntryOf(c) \in Entry /\ KeyOf[c] \in Key
  BY <1>2, EntryIsTyped DEF IInv
<1>5. View[KeyOf[c]] = NoEntry  BY <1>1, <1>4 DEF View
<1>6. View' = [View EXCEPT ![KeyOf[c]] = [entry |-> EntryOf(c), bytes |-> files[KeyOf[c]]]]
  BY <1>2, <1>3, <1>4 DEF View, Manifest
<1> QED  BY <1>1, <1>5, <1>6 DEF Ledger!Publish, Ledger!Artifact, EntryOf

\* Every other step leaves what readers see as it was.
LEMMA OthersAreInvisible ==
  ASSUME IInv, ~overlap, NEW c \in Call, Step(c), ~ReplaceManifest(c)
  PROVE  View' = View
<1>1. manifest' = manifest /\ overlap' = overlap
  BY DEF Step, Write, Crash, ReadManifest, ReuseEntry, CheckDestination,
         CreateExclusive, FinishWrite, OpenTemp, WriteTemp, IInv, InSequence, Current
<1>2. ASSUME NEW k \in Key, manifest[k] # NoEntry  PROVE files'[k] = files[k]
  <2>1. manifest[k] \in Entry
    BY <1>2 DEF IInv, TypeOK, InSequence, ManifestFile, Readable, Manifest
  <2>2. files[k] \in Digest
    BY <1>2, <2>1 DEF IInv, InSequence, ManifestBacked, Entry
  <2> QED  BY <2>2, FilesStay
<1> QED  BY <1>1, <1>2 DEF View

\* An artifact root whose calls follow one another is a write-once ledger: an
\* entry is published once, with its bytes, and stays.
THEOREM RootIsALedger == Spec => WriteOnceSpec
<1>1. Init => Ledger!Init
  BY DEF Init, EmptyManifest, Ledger!Init, View
<1>2. IInv /\ [Next]_vars => [Ledger!Next]_View
  <2> SUFFICES ASSUME IInv, [Next]_vars  PROVE Ledger!Next \/ View' = View
    OBVIOUS
  <2>1. CASE UNCHANGED vars  BY <2>1 DEF vars, View
  <2>2. ASSUME NEW c \in Call, Step(c)  PROVE Ledger!Next \/ View' = View
    <3>1. overlap' = overlap
      BY <2>2 DEF Step, Write, Crash, ReadManifest, ReuseEntry, CheckDestination,
           CreateExclusive, FinishWrite, OpenTemp, WriteTemp, ReplaceManifest
    <3>2. CASE overlap
      BY <3>1, <3>2 DEF View
    <3>3. CASE ~overlap /\ ReplaceManifest(c)
      <4>1. KeyOf[c] \in Key /\ EntryOf(c) \in Entry
        BY EntryIsTyped DEF IInv
      <4> QED  BY <3>3, <4>1, ReplacePublishes DEF Ledger!Next
    <3>4. CASE ~overlap /\ ~ReplaceManifest(c)
      BY <2>2, <3>4, OthersAreInvisible
    <3> QED  BY <3>2, <3>3, <3>4
  <2> QED  BY <2>1, <2>2 DEF Next, Step
<1> QED  BY <1>1, <1>2, Invariance, PTL DEF Spec, WriteOnceSpec, Ledger!Spec
==============================================================================
