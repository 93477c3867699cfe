---------------------------- MODULE ArtifactStore ----------------------------
(***************************************************************************)
(* One artifact root: the files under it and artifact_manifest.json, as    *)
(* write_artifact() changes them.  A call reads the manifest, decides, and *)
(* then touches the disk: it creates and writes the artifact file, opens   *)
(* (and so empties) the temporary manifest, writes it, and renames it over *)
(* the manifest.  The process can die between any two of these.            *)
(*                                                                         *)
(* All writers of a root use one temporary name.  A writer keeps the file  *)
(* it has opened, wherever a rename has put that file since: opened[c].    *)
(*                                                                         *)
(* A payload is named by its digest.  A manifest holds at most one entry   *)
(* per key, so it is a function from keys.                                 *)
(***************************************************************************)
EXTENDS FiniteSets

CONSTANTS Call,      \* calls of write_artifact, each made at most once
          Key,       \* artifact keys
          Digest,    \* digests of the payloads
          Label,     \* the rest of an entry: producer, refs, truth labels
          KeyOf,     \* KeyOf[c], DigestOf[c], LabelOf[c]: arguments of call c
          DigestOf,
          LabelOf,
          NoEntry,   \* no entry under a key
          NoFile,    \* no temporary manifest
          Blank,     \* a manifest file that is opened and not yet written
          Garbled    \* a manifest file two writers wrote over each other

ASSUME ArgumentAssumption ==
  /\ KeyOf \in [Call -> Key]
  /\ DigestOf \in [Call -> Digest]
  /\ LabelOf \in [Call -> Label]

Absent == "absent"       \* no file at the destination
Torn == "torn"           \* a file whose payload is not completely written

VARIABLES files,     \* the artifact file of each key
          manifest,  \* artifact_manifest.json
          temp,      \* artifact_manifest.json.tmp
          opened,    \* where the temporary file a call has opened is by now
          overlap,   \* whether calls of several processes overlap on this root
          pc,        \* where each call stands
          snapshot   \* the manifest a call read

vars == <<files, manifest, temp, opened, overlap, pc, snapshot>>

Entry == [key : Key, sha : Digest, label : Label]

\* The entry call c builds before it looks at the disk.
EntryOf(c) == [key |-> KeyOf[c], sha |-> DigestOf[c], label |-> LabelOf[c]]

Manifest == [Key -> Entry \cup {NoEntry}]
EmptyManifest == [k \in Key |-> NoEntry]

\* A manifest file as a reader finds it: JSON, or not.
Readable(m) == m \notin {Blank, Garbled}
ManifestFile == Manifest \cup {Blank, Garbled}

\* Absences and broken files are told apart from what they are not.
ASSUME MarkerAssumption ==
  /\ {Absent, Torn} \cap Digest = {}
  /\ NoEntry \notin Entry
  /\ {NoFile, Blank, Garbled} \cap Manifest = {}
  /\ NoFile \notin {Blank, Garbled} /\ Blank # Garbled

Active == {"lookup", "reuse", "create", "writing", "append", "write", "replace"}
Stopped == {"done", "refused", "error", "crashed"}

TypeOK ==
  /\ files \in [Key -> Digest \cup {Absent, Torn}]
  /\ manifest \in ManifestFile
  /\ temp \in ManifestFile \cup {NoFile}
  /\ opened \in [Call -> {"none", "temp", "manifest", "unlinked"}]
  /\ overlap \in BOOLEAN
  /\ pc \in [Call -> {"idle"} \cup Active \cup Stopped]
  /\ snapshot \in [Call -> Manifest]

Init ==
  /\ files = [k \in Key |-> Absent]
  /\ manifest = EmptyManifest
  /\ temp = NoFile
  /\ opened = [c \in Call |-> "none"]
  /\ overlap \in BOOLEAN
  /\ pc = [c \in Call |-> "idle"]
  /\ snapshot = [c \in Call |-> EmptyManifest]

Goto(c, label) == pc' = [pc EXCEPT ![c] = label]

\* read_manifest: an absent manifest reads as an empty one, and one that is
\* no JSON raises.
ReadManifest(c) ==
  /\ pc[c] = "idle"
  /\ overlap \/ \A d \in Call : pc[d] \notin Active
  /\ IF Readable(manifest)
       THEN /\ snapshot' = [snapshot EXCEPT ![c] = manifest]
            /\ Goto(c, IF manifest[KeyOf[c]] = NoEntry THEN "lookup" ELSE "reuse")
       ELSE Goto(c, "error") /\ UNCHANGED snapshot
  /\ UNCHANGED <<files, manifest, temp, opened, overlap>>

\* _reuse_existing_entry: the recorded entry must equal the requested one in
\* every field, and the file must still hash to it.
SameEvidence(c) ==
  /\ snapshot[c][KeyOf[c]] = EntryOf(c)
  /\ files[KeyOf[c]] = DigestOf[c]

ReuseEntry(c) ==
  /\ pc[c] = "reuse"
  /\ Goto(c, IF SameEvidence(c) THEN "done" ELSE "refused")
  /\ UNCHANGED <<files, manifest, temp, opened, overlap, snapshot>>

MayAdopt_AnyFile(c) == files[KeyOf[c]] # Absent      \* mutant
MayAdopt_Never(c) == FALSE                           \* mutant

\* destination.exists(): a file that is there must already hold the payload.
MayAdopt(c) == files[KeyOf[c]] = DigestOf[c]

CheckDestination(c) ==
  /\ pc[c] = "lookup"
  /\ Goto(c, IF files[KeyOf[c]] = Absent THEN "create"
             ELSE IF MayAdopt(c) THEN "append" ELSE "refused")
  /\ UNCHANGED <<files, manifest, temp, opened, overlap, snapshot>>

CanCreate_Truncates(c) == TRUE      \* mutant

\* open("xb"): exclusive creation, an error if the file has appeared since.
CanCreate(c) == files[KeyOf[c]] = Absent

CreateExclusive(c) ==
  /\ pc[c] = "create"
  /\ IF CanCreate(c)
       THEN files' = [files EXCEPT ![KeyOf[c]] = Torn] /\ Goto(c, "writing")
       ELSE Goto(c, "refused") /\ UNCHANGED files
  /\ UNCHANGED <<manifest, temp, opened, overlap, snapshot>>

FinishWrite(c) ==
  /\ pc[c] = "writing"
  /\ files' = [files EXCEPT ![KeyOf[c]] = DigestOf[c]]
  /\ Goto(c, "append")
  /\ UNCHANGED <<manifest, temp, opened, overlap, snapshot>>

Appended_ToNothing(c) == [EmptyManifest EXCEPT ![KeyOf[c]] = EntryOf(c)]   \* mutant

\* The manifest with c's entry appended: the one c READ, not the one there now.
Appended(c) == [snapshot[c] EXCEPT ![KeyOf[c]] = EntryOf(c)]

\* _write_manifest, open("w"): the file under the temporary name is emptied, or
\* created, whoever else has it open.
OpenTemp(c) ==
  /\ pc[c] = "append"
  /\ temp' = Blank
  /\ opened' = [opened EXCEPT ![c] = "temp"]
  /\ Goto(c, "write")
  /\ UNCHANGED <<files, manifest, overlap, snapshot>>

\* What one write leaves in a file that held m: over another writer's longer
\* text some of that stays behind.
Over(m, c) == IF m = Blank THEN {Appended(c)} ELSE {Appended(c), Garbled}

\* The write goes to the file c opened, which may be the manifest by now, or
\* a file that has no name any more.
WriteTemp(c) ==
  /\ pc[c] = "write"
  /\ IF opened[c] = "temp" THEN temp' \in Over(temp, c) ELSE UNCHANGED temp
  /\ IF opened[c] = "manifest" THEN manifest' \in Over(manifest, c)
                               ELSE UNCHANGED manifest
  /\ opened' = [opened EXCEPT ![c] = "none"]
  /\ Goto(c, "replace")
  /\ UNCHANGED <<files, overlap, snapshot>>

\* A rename moves the file under the temporary name to the manifest, and takes
\* the name from the one that was there.
Moved ==
  [c \in Call |-> CASE opened[c] = "temp" -> "manifest"
                    [] opened[c] = "manifest" -> "unlinked"
                    [] OTHER -> opened[c]]

\* os.replace: whatever has the temporary name becomes the manifest; an error
\* if another writer has renamed it away.
ReplaceManifest(c) ==
  /\ pc[c] = "replace"
  /\ IF temp = NoFile
       THEN Goto(c, "error") /\ UNCHANGED <<manifest, temp, opened>>
       ELSE /\ manifest' = temp /\ temp' = NoFile /\ opened' = Moved
            /\ Goto(c, "done")
  /\ UNCHANGED <<files, overlap, snapshot>>

\* The process is killed or a write fails; what is on disk stays there.
Crash(c) ==
  /\ pc[c] \in Active
  /\ opened' = [opened EXCEPT ![c] = "none"]
  /\ Goto(c, "crashed")
  /\ UNCHANGED <<files, manifest, temp, overlap, snapshot>>

Write(c) ==
  \/ ReadManifest(c) \/ ReuseEntry(c) \/ CheckDestination(c)
  \/ CreateExclusive(c) \/ FinishWrite(c)
  \/ OpenTemp(c) \/ WriteTemp(c) \/ ReplaceManifest(c)

Next == \E c \in Call : Write(c) \/ Crash(c)

Spec == Init /\ [][Next]_vars

------------------------------------------------------------------------------
(* Properties *)

\* Every entry of a readable manifest is backed by a complete file with the
\* digest it names, after a crash at any point and with writers who empty and
\* overwrite each other's temporary file: the manifest may lose entries, and
\* become unreadable, but never vouches for missing, torn or different bytes.
ManifestBacked ==
  Readable(manifest) =>
    \A k \in Key : manifest[k] # NoEntry => files[k] = manifest[k].sha

\* Recorded evidence is immutable: once a payload is complete on disk no call
\* changes or removes it, the calls that are refused included.
FilesImmutable ==
  [][\A k \in Key : files[k] \in Digest => files'[k] = files[k]]_vars

\* When calls follow one another, killed ones included, the manifest can be
\* read at every moment, and a call that returns an entry has it there for good.
ReturnedIsRecorded ==
  ~overlap =>
    /\ Readable(manifest)
    /\ \A c \in Call : pc[c] = "done" => manifest[KeyOf[c]] = EntryOf(c)

\* The root already holds what c asks for: its bytes, and under its key the
\* very entry it would append or none.
Repeats(c) ==
  files[KeyOf[c]] = DigestOf[c] /\ manifest[KeyOf[c]] \in {NoEntry, EntryOf(c)}

\* When calls follow one another, the exact repetition of a call that returned,
\* or that died with its file complete, is never refused.  (The same bytes
\* with other labels are: see SameBytesAreReused.)
RepetitionsAreReused ==
  ~overlap => \A c \in Call : pc[c] = "refused" => ~Repeats(c)

\* artifact-manifest-v1.md: "Same `artifact_key` + same SHA-256 -> idempotent
\* reuse."  The code compares the whole entry, so it is not.
SameBytesAreReused ==
  \A c, d \in Call :
    /\ pc[c] = "done" /\ pc[d] = "refused"
    => ~(KeyOf[c] = KeyOf[d] /\ DigestOf[c] = DigestOf[d])

\* The artifact root as its readers see it implements the write-once ledger.
\* Writers who overlap lose entries, so of their root nothing is claimed here.
View ==
  [k \in Key |-> IF overlap \/ manifest[k] = NoEntry THEN NoEntry
                 ELSE [entry |-> manifest[k], bytes |-> files[k]]]

Ledger == INSTANCE WriteOnce WITH published <- View, Nothing <- NoEntry

WriteOnceSpec == Ledger!Spec

==============================================================================
