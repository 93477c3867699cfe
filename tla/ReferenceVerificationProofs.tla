---------------------- MODULE ReferenceVerificationProofs ----------------------
(***************************************************************************)
(* Proofs about the verification of references, for any stream of file     *)
(* payloads, any options and any changes of disk and store.                *)
(***************************************************************************)
EXTENDS ReferenceVerification, FiniteSetTheorems, TLAPS

USE VerificationAssumption, NoneAssumption

------------------------------------------------------------------------------
(* Types *)

\* Between its two looks the verifier is at a file, or at a blob of the store.
Positions ==
  /\ pc \in {"found", "present"} => index <= Len(stream)
  /\ pc = "found" => Entry.place = "file"
  /\ pc = "present" => Entry.place = "blob" /\ probing
  /\ pc = "parsed" => index > Len(stream)

Sound == TypeOK /\ Positions

LEMMA StreamIs ==
  ASSUME TypeOK
  PROVE  /\ stream \in Seq(Payload) /\ Len(stream) \in Nat
         /\ \A n \in 1..Len(stream) : stream[n] \in Payload
  BY DEF TypeOK

LEMMA EntryIs ==
  ASSUME TypeOK, index <= Len(stream)
  PROVE  /\ Entry \in Payload /\ index \in 1..Len(stream) /\ Entry = stream[index]
         /\ Entry.place \in {"file", "symlink", "blob"} => Entry.at \in Spot
<1>1. index \in 1..Len(stream)  BY StreamIs DEF TypeOK
<1> QED  BY <1>1, StreamIs DEF Entry, TypeOK

LEMMA KindsAre ==
  /\ Downgraded(SourceKind) \in {"collectable_v1", "simulated_v1", "derived_v1"}
  /\ SourceKind \in {"collectable_v1", "simulated_v1", "derived_v1"}
  BY DEF Downgraded

LEMMA ConcludeIs ==
  ASSUME NEW p \in PresenceLabel, NEW m \in {"yes", "no", "unknown"},
         NEW s \in Content \cup {None}, NEW f \in {"high", "medium", "low"}
  PROVE  /\ Conclude(p, m, s, f) \in Conclusion
         /\ Conclude(p, m, s, f).presence = p /\ Conclude(p, m, s, f).matches = m
         /\ Conclude(p, m, s, f).confidence = f
  BY KindsAre DEF Conclude, Conclusion

------------------------------------------------------------------------------
(* What a conclusion says of a payload *)

\* All that is concluded of payload e was seen, the way it was shown by then.
Tells(e, c) ==
  /\ c.matches = "yes" => Comparable(e.declared) /\ Witnessed(e, e.declared.of)
  /\ c.matches = "no" => /\ Comparable(e.declared)
                         /\ \E b \in Content \ {e.declared.of} : Witnessed(e, b)
  /\ c.presence \in {"missing", "remote_missing"} => Witnessed(e, None)
  /\ c.presence \in RemoteTier => probing /\ e.place = "blob"
  /\ c.confidence = "high" => c.matches = "yes"

LEMMA ComparedIs ==
  ASSUME NEW d, NEW sha
  PROVE  /\ Compared(d, sha) \in {"yes", "no", "unknown"}
         /\ Compared(d, sha) = "yes" => Comparable(d) /\ d.of = sha
         /\ Compared(d, sha) = "no" => Comparable(d) /\ d.of # sha
         /\ Compared(d, sha) = "unknown" <=> ~Comparable(d)
  BY DEF Compared

LEMMA LabelsAre ==
  /\ {"local_verified", "local_present", "local_mismatch", "missing", "remote_verified",
      "remote_present", "remote_mismatch", "remote_missing", "unverified_remote_reference"}
       \subseteq PresenceLabel
  /\ RemoteTier = {"remote_verified", "remote_present", "remote_mismatch", "remote_missing"}
  BY DEF PresenceLabel, LocalTier, RemoteTier

LEMMA LocalTells ==
  ASSUME NEW e \in Payload, NEW b \in Content, Witnessed(e, b)
  PROVE  LocalConclusion(e.declared, b) \in Conclusion /\ Tells(e, LocalConclusion(e.declared, b))
<1> DEFINE d == e.declared
<1>1. CASE d = None
  <2>1. LocalConclusion(e.declared, b) = Conclude("local_verified", "unknown", b, "medium")
    BY <1>1, ComparedIs DEF LocalConclusion, Comparable
  <2> QED  BY <2>1, ConcludeIs, LabelsAre DEF Tells
<1>2. CASE d # None /\ Compared(d, b) = "yes"
  BY <1>2, ConcludeIs, ComparedIs, LabelsAre DEF LocalConclusion, Tells
<1>3. CASE d # None /\ Compared(d, b) = "no"
  BY <1>3, ConcludeIs, ComparedIs, LabelsAre DEF LocalConclusion, Tells
<1>4. CASE d # None /\ Compared(d, b) = "unknown"
  BY <1>4, ConcludeIs, LabelsAre DEF LocalConclusion, Present, Tells
<1> QED  BY <1>1, <1>2, <1>3, <1>4, ComparedIs

LEMMA RemoteTells ==
  ASSUME NEW e \in Payload, NEW b \in Content \cup {None}, e.place = "blob", probing,
         b # None => Witnessed(e, b)
  PROVE  RemoteConclusion(e.declared, b) \in Conclusion /\ Tells(e, RemoteConclusion(e.declared, b))
<1> DEFINE d == e.declared
<1>1. CASE b = None \/ Compared(d, b) = "unknown"
  BY <1>1, ConcludeIs, LabelsAre DEF RemoteConclusion, Tells
<1>2. CASE b # None /\ Compared(d, b) = "yes"
  BY <1>2, ConcludeIs, ComparedIs, LabelsAre DEF RemoteConclusion, Tells
<1>3. CASE b # None /\ Compared(d, b) = "no"
  <2>1. RemoteConclusion(d, b) = Conclude("remote_mismatch", "no", b, "low")
    BY <1>3 DEF RemoteConclusion
  <2> QED  BY <1>3, <2>1, ConcludeIs, ComparedIs, LabelsAre DEF Tells
<1> QED  BY <1>1, <1>2, <1>3, ComparedIs

LEMMA OthersTell ==
  ASSUME NEW e \in Payload
  PROVE  /\ Unverified \in Conclusion /\ Tells(e, Unverified)
         /\ Missing \in Conclusion /\ (Witnessed(e, None) => Tells(e, Missing))
         /\ Present(None) \in Conclusion /\ Tells(e, Present(None))
         /\ LET c == Conclude("remote_missing", "unknown", None, "low")
            IN  c \in Conclusion
                /\ (probing /\ e.place = "blob" /\ Witnessed(e, None) => Tells(e, c))
  BY ConcludeIs, LabelsAre DEF Unverified, Missing, Present, Tells

------------------------------------------------------------------------------
(* Rows *)

\* The rows so far: the first payload of each key, and what was told of it; and what
\* a place holds it has shown.
Rowed ==
  /\ \A n \in 1..(index - 1) : stream[n].key \in Known
  /\ \A k \in Known :
       /\ references[k].from \in 1..(index - 1) /\ stream[references[k].from].key = k
       /\ \A n \in 1..(references[k].from - 1) : stream[n].key # k
       /\ Tells(stream[references[k].from], references[k].is)
  /\ \A s \in Spot : bytes[s] \in shown[s]

\* One payload is settled on a conclusion that tells what was seen of it.
LEMMA SettleRows ==
  ASSUME Sound, Rowed, NEW c \in Conclusion, index <= Len(stream), Settle(c), Tells(Entry, c),
         Fixed, stats' \in [Counter -> Nat]
  PROVE  Sound' /\ Rowed'
<1> USE DEF Settle, Fixed
<1>1. /\ index \in 1..Len(stream) /\ Entry = stream[index] /\ Entry.key \in Key
      /\ Len(stream) \in Nat
  BY EntryIs, StreamIs DEF Sound, Payload
<1>2. [from |-> index, is |-> c] # None /\ [from |-> index, is |-> c] \in [from : 1..index, is : Conclusion]
  <2>1. [from |-> index, is |-> c] \in Row  BY <1>1 DEF Row
  <2> QED  BY <1>1, <2>1
<1>3. references' \in [Key -> {None} \cup [from : 1..index, is : Conclusion]]
  <2>1. references \in [Key -> {None} \cup [from : 1..index, is : Conclusion]]
    BY <1>1 DEF Sound, TypeOK
  <2> QED  BY <1>1, <1>2, <2>1 DEF Observed
<1>4. Sound'
  <2>1. index' = index + 1 /\ index' - 1 = index /\ index' \in 1..(Len(stream) + 1)
    BY <1>1
  <2> QED  BY <1>3, <2>1 DEF Sound, TypeOK, Positions, Entry
<1>5. /\ \A k \in Key \ {Entry.key} : references'[k] = references[k]
      /\ references[Entry.key] # None => references'[Entry.key] = references[Entry.key]
      /\ references[Entry.key] = None => references'[Entry.key] = [from |-> index, is |-> c]
  BY <1>1 DEF Observed, Sound, TypeOK
<1>6. \A e, o : Tells(e, o)' <=> Tells(e, o)
  BY DEF Tells, Comparable, Witnessed
<1>7. Known' = Known \cup {Entry.key}
  BY <1>1, <1>2, <1>5 DEF Known
<1>8. \A n \in 1..(index' - 1) : stream[n].key \in Known'
  BY <1>1, <1>7 DEF Rowed
<1>9. ASSUME NEW k \in Known'
      PROVE  /\ references'[k].from \in 1..(index' - 1) /\ stream[references'[k].from].key = k
             /\ \A n \in 1..(references'[k].from - 1) : stream[n].key # k
             /\ Tells(stream[references[k].from], references[k].is)'
  <2>1. CASE k \in Known
    <3>1. references'[k] = references[k]  BY <1>1, <1>5, <2>1 DEF Known
    <3> QED  BY <1>1, <1>6, <2>1, <3>1 DEF Rowed
  <2>2. CASE k \notin Known
    <3>1. k = Entry.key /\ references'[k] = [from |-> index, is |-> c]
      BY <1>1, <1>5, <1>7, <2>2 DEF Known
    <3>2. \A n \in 1..(index - 1) : stream[n].key # k
      BY <2>2 DEF Rowed
    <3> QED  BY <1>1, <1>6, <3>1, <3>2
  <2> QED  BY <2>1, <2>2
<1>10. Rowed'
  BY <1>8, <1>9 DEF Rowed
<1> QED  BY <1>4, <1>10

LEMMA CountIs ==
  ASSUME Sound, NEW counters, Count(counters)
  PROVE  stats' \in [Counter -> Nat]
  BY DEF Count, Sound, TypeOK

LEMMA VerifyRows ==
  ASSUME Sound, Rowed, Verify
  PROVE  Sound' /\ Rowed'
<1> stats \in [Counter -> Nat]  BY DEF Sound, TypeOK
<1>0. ASSUME index <= Len(stream)
      PROVE  Entry \in Payload /\ (Entry.place \in {"file", "symlink", "blob"} => Entry.at \in Spot)
  BY <1>0, EntryIs DEF Sound
<1>1. CASE VerifyInline
  <2>1. index <= Len(stream) /\ Entry.place = "inline"  BY <1>1 DEF VerifyInline, At
  <2>2. CASE Entry.at = None
    BY <1>0, <1>1, <2>1, <2>2, OthersTell, SettleRows DEF VerifyInline, Witnessed
  <2>3. CASE Entry.at # None
    <3>1. Entry.at \in Content /\ Witnessed(Entry, Entry.at)
      BY <2>1, <2>3, EntryIs, StreamIs DEF Witnessed, Sound, TypeOK
    <3> QED  BY <1>0, <1>1, <2>1, <2>3, <3>1, LocalTells, SettleRows DEF VerifyInline
  <2> QED  BY <2>2, <2>3
<1>2. CASE VerifySymlink
  <2>1. index <= Len(stream) /\ Entry.place = "symlink"  BY <1>2 DEF VerifySymlink, At
  <2>2. ~Exists(Entry.at) => Witnessed(Entry, None)
    BY <1>0, <2>1 DEF Rowed, Witnessed, Exists
  <2> QED  BY <1>0, <1>2, <2>1, <2>2, OthersTell, SettleRows DEF VerifySymlink
<1>3. CASE LookForFile
  <2>1. index <= Len(stream) /\ Entry.place = "file" /\ pc = "next"  BY <1>3 DEF LookForFile, At
  <2>2. ~Exists(Entry.at) => Witnessed(Entry, None)
    BY <1>0, <2>1 DEF Rowed, Witnessed, Exists
  <2>3. CASE pc' = "found" /\ UNCHANGED <<references, index>>
    BY <1>3, <2>1, <2>3
      DEF LookForFile, Fixed, Sound, TypeOK, Positions, Rowed, Known, Tells, Comparable, Witnessed, Entry
  <2>4. CASE ~Exists(Entry.at) /\ Settle(Missing)
    BY <1>0, <1>3, <2>1, <2>2, <2>4, OthersTell, SettleRows DEF LookForFile
  <2>5. CASE Settle(Present(None))
    BY <1>0, <1>3, <2>1, <2>5, OthersTell, SettleRows DEF LookForFile
  <2> QED  BY <1>3, <2>3, <2>4, <2>5 DEF LookForFile
<1>4. CASE HashFile
  <2>1. index <= Len(stream) /\ Entry.place = "file" /\ pc = "found"
    BY <1>4 DEF HashFile, Sound, Positions
  <2>2. bytes[Entry.at] \in Content /\ Witnessed(Entry, bytes[Entry.at])
    BY <1>0, <1>4, <2>1 DEF HashFile, Exists, Rowed, Witnessed, Sound, TypeOK
  <2> QED  BY <1>0, <1>4, <2>1, <2>2, LocalTells, SettleRows DEF HashFile
<1>5. CASE NotProbed
  BY <1>0, <1>5, OthersTell, SettleRows DEF NotProbed, At
<1>6. CASE UnsupportedUri
  BY <1>0, <1>6, OthersTell, SettleRows, CountIs DEF UnsupportedUri, At
<1>7. CASE FindMissing
  <2>1. index <= Len(stream) /\ Entry.place = "blob" /\ pc = "next" /\ probing
    BY <1>7 DEF FindMissing, NoVerdict, At
  <2>2. stats' \in [Counter -> Nat]  BY <1>7, CountIs DEF FindMissing, NoVerdict
  <2>3. CASE Settle(Unverified)
    BY <1>0, <1>7, <2>1, <2>2, <2>3, OthersTell, SettleRows DEF FindMissing, NoVerdict
  <2>4. CASE bytes[Entry.at] = None /\ Settle(Conclude("remote_missing", "unknown", None, "low"))
    <3>1. Witnessed(Entry, None)  BY <1>0, <2>1, <2>4 DEF Rowed, Witnessed
    <3> QED  BY <1>0, <1>7, <2>1, <2>2, <2>4, <3>1, OthersTell, SettleRows DEF FindMissing, NoVerdict
  <2>5. CASE Settle(RemoteConclusion(Entry.declared, None))
    BY <1>0, <1>7, <2>1, <2>2, <2>5, RemoteTells, SettleRows DEF FindMissing, NoVerdict
  <2>6. CASE pc' = "present" /\ UNCHANGED <<references, index>>
    BY <1>7, <2>1, <2>2, <2>6
      DEF FindMissing, NoVerdict, Fixed, Sound, TypeOK, Positions, Rowed, Known, Tells, Comparable, Witnessed, Entry
  <2> QED  BY <1>7, <2>3, <2>4, <2>5, <2>6 DEF FindMissing, NoVerdict
<1>8. CASE ReadBlob
  <2>1. index <= Len(stream) /\ Entry.place = "blob" /\ probing
    BY <1>8 DEF ReadBlob, NoVerdict, Sound, Positions
  <2>2. stats' \in [Counter -> Nat]  BY <1>8, CountIs DEF ReadBlob, NoVerdict
  <2>3. CASE Settle(Unverified)
    BY <1>0, <1>8, <2>1, <2>2, <2>3, OthersTell, SettleRows DEF ReadBlob, NoVerdict
  <2>4. CASE bytes[Entry.at] # None /\ Settle(RemoteConclusion(Entry.declared, bytes[Entry.at]))
    <3>1. bytes[Entry.at] \in Content /\ Witnessed(Entry, bytes[Entry.at])
      BY <1>0, <2>1, <2>4 DEF Rowed, Witnessed, Sound, TypeOK
    <3> QED  BY <1>0, <1>8, <2>1, <2>2, <2>4, <3>1, RemoteTells, SettleRows DEF ReadBlob, NoVerdict
  <2> QED  BY <1>8, <2>3, <2>4 DEF ReadBlob, NoVerdict
<1>9. CASE Finish
  BY <1>9, StreamIs
    DEF Finish, Fixed, Sound, TypeOK, Positions, Rowed, Known, Tells, Comparable, Witnessed, Entry
<1>10. CASE LocalFails
  <2>1. Positions  BY DEF Sound
  <2> QED
    BY <1>10, <2>1
      DEF LocalFails, Escapes, Fixed, Sound, TypeOK, Positions, Rowed, Known, Tells, Comparable,
          Witnessed, Entry
<1> QED  BY <1>1, <1>2, <1>3, <1>4, <1>5, <1>6, <1>7, <1>8, <1>9, <1>10 DEF Verify

\* Disk and store go on showing what they showed.
LEMMA ElsewhereRows ==
  ASSUME Sound, Rowed, Elsewhere
  PROVE  Sound' /\ Rowed'
<1>1. PICK s \in Spot, b \in Content \cup {None} :
        /\ bytes' = [bytes EXCEPT ![s] = b] /\ shown' = [shown EXCEPT ![s] = @ \cup {b}]
  BY DEF Elsewhere
<1>2. UNCHANGED <<stream, digestFn, probing, index, pc, references, stats>>
      /\ changes' \in 0..MaxChanges
  BY DEF Elsewhere, Sound, TypeOK
<1>3. Sound'
  BY <1>1, <1>2 DEF Sound, TypeOK, Positions, Entry
<1>4. \A t \in Spot : shown[t] \subseteq shown'[t] /\ bytes'[t] \in shown'[t]
  BY <1>1 DEF Sound, TypeOK, Rowed
<1>5. ASSUME NEW e \in Payload, NEW c, Tells(e, c),
             e.place \in {"file", "symlink", "blob"} => e.at \in Spot
      PROVE  Tells(e, c)'
  BY <1>2, <1>4, <1>5 DEF Tells, Comparable, Witnessed
<1>6. ASSUME NEW k \in Known
      PROVE  Tells(stream[references[k].from], references[k].is)'
  <2>1. references[k].from \in 1..Len(stream)
    <3>1. references[k].from \in 1..(index - 1)  BY <1>6 DEF Rowed
    <3> QED  BY <3>1, StreamIs DEF Sound, TypeOK
  <2>2. /\ stream[references[k].from] \in Payload
        /\ stream[references[k].from].place \in {"file", "symlink", "blob"}
             => stream[references[k].from].at \in Spot
    BY <2>1, StreamIs DEF Sound, TypeOK
  <2>3. Tells(stream[references[k].from], references[k].is)  BY <1>6 DEF Rowed
  <2>4. \A e, c : e \in Payload /\ e = stream[references[k].from] /\ c = references[k].is => Tells(e, c)'
    BY <1>5, <2>2, <2>3
  <2> QED  BY <1>2, <2>2, <2>4 DEF Tells, Comparable, Witnessed
<1>7. Rowed'
  BY <1>2, <1>4, <1>6 DEF Rowed, Known
<1> QED  BY <1>3, <1>7

LEMMA Initially == Init => Sound /\ Rowed
<1> SUFFICES ASSUME Init PROVE Sound /\ Rowed  OBVIOUS
<1>1. stream \in Seq(Payload) /\ Len(stream) \in Nat  BY DEF Init
<1>2. TypeOK  BY <1>1 DEF Init, TypeOK
<1>3. Known = {}  BY DEF Init, Known
<1> QED  BY <1>1, <1>2, <1>3 DEF Init, Sound, Positions, Rowed

LEMMA Steps ==
  ASSUME Sound, Rowed, [Next]_vars
  PROVE  Sound' /\ Rowed'
<1>1. CASE UNCHANGED vars
  BY <1>1 DEF vars, Sound, TypeOK, Positions, Rowed, Known, Tells, Comparable, Witnessed, Entry
<1> QED  BY <1>1, VerifyRows, ElsewhereRows DEF Next

------------------------------------------------------------------------------
(* Counters *)

\* The counters agree with one another and with the rows.
Counted ==
  /\ IsFiniteSet(Known)
  /\ stats["probed_references"] = Outcomes + (IF pc = "present" THEN 1 ELSE 0)
  /\ Recorded({"remote_verified", "remote_mismatch"}) <= stats["present_digest_recomputed"]
  /\ Recorded({"remote_missing"}) <= stats["missing"]
  /\ Recorded({"remote_verified", "remote_present", "remote_mismatch"})
       <= stats["present_not_read"] + stats["present_digest_recomputed"]
  /\ NoEcho => /\ Recorded({"remote_missing"}) = stats["missing"]
               /\ Recorded({"remote_verified", "remote_present", "remote_mismatch"})
                    = stats["present_not_read"] + stats["present_digest_recomputed"]

LEMMA RecordedIs ==
  ASSUME IsFiniteSet(Known), NEW L
  PROVE  IsFiniteSet({k \in Known : references[k].is.presence \in L}) /\ Recorded(L) \in Nat
  BY FS_Subset, FS_CardinalityType DEF Recorded

\* A row more with a label counts one more, and there is a row more if no payload
\* named the key before.
LEMMA SettleCounts ==
  ASSUME Sound, Rowed, IsFiniteSet(Known), NEW c \in Conclusion, index <= Len(stream),
         Settle(c), stream' = stream
  PROVE  /\ IsFiniteSet(Known') /\ pc' = "next"
         /\ \A L : Recorded(L)' = IF references[Entry.key] = None /\ c.presence \in L
                                  THEN Recorded(L) + 1 ELSE Recorded(L)
         /\ NoEcho => references[Entry.key] = None
<1>1. /\ index \in 1..Len(stream) /\ Entry = stream[index] /\ Entry.key \in Key
      /\ Len(stream) \in Nat
  BY EntryIs, StreamIs DEF Sound, Payload
<1>2. [from |-> index, is |-> c] # None
  <2>1. [from |-> index, is |-> c] \in Row  BY <1>1 DEF Row
  <2> QED  BY <2>1
<1>3. /\ \A k \in Key \ {Entry.key} : references'[k] = references[k]
      /\ references[Entry.key] # None => references' = references
      /\ references[Entry.key] = None => references'[Entry.key] = [from |-> index, is |-> c]
  BY <1>1 DEF Settle, Observed, Sound, TypeOK
<1>4. Known' = Known \cup {Entry.key}
  BY <1>1, <1>2, <1>3 DEF Known
<1>5. ASSUME NEW L
      PROVE  Recorded(L)' = IF references[Entry.key] = None /\ c.presence \in L
                            THEN Recorded(L) + 1 ELSE Recorded(L)
  <2> DEFINE S == {k \in Known : references[k].is.presence \in L}
             T == {k \in Known' : references'[k].is.presence \in L}
  <2>1. IsFiniteSet(S) /\ Recorded(L) = Cardinality(S) /\ Recorded(L)' = Cardinality(T)
    BY RecordedIs DEF Recorded
  <2>2. CASE references[Entry.key] = None /\ c.presence \in L
    <3>1. T = S \cup {Entry.key} /\ Entry.key \notin S
      BY <1>1, <1>3, <1>4, <2>2 DEF Known
    <3> HIDE DEF S, T
    <3> QED  BY <2>1, <2>2, <3>1, FS_AddElement
  <2>3. CASE ~(references[Entry.key] = None /\ c.presence \in L)
    <3>1. T = S
      BY <1>1, <1>3, <1>4, <2>3 DEF Known
    <3> QED  BY <2>1, <2>3, <3>1
  <2> QED  BY <2>2, <2>3
<1>6. ASSUME NoEcho, references[Entry.key] # None
      PROVE  FALSE
  <2>1. Entry.key \in Known  BY <1>1, <1>6 DEF Known
  <2>2. /\ references[Entry.key].from \in 1..(index - 1)
        /\ stream[references[Entry.key].from].key = Entry.key
    BY <2>1 DEF Rowed
  <2>3. references[Entry.key].from \in 1..Len(stream) /\ references[Entry.key].from # index
    BY <1>1, <2>2
  <2> QED  BY <1>1, <1>6, <2>2, <2>3 DEF NoEcho
<1>7. IsFiniteSet(Known')  BY <1>4, FS_AddElement
<1> QED  BY <1>5, <1>6, <1>7 DEF Settle

LEMMA Numbers ==
  ASSUME NEW f \in [Counter -> Nat]
  PROVE  /\ f["probed_references"] \in Nat /\ f["missing"] \in Nat
         /\ f["present_not_read"] \in Nat /\ f["present_digest_recomputed"] \in Nat
         /\ f["unsupported_uri"] \in Nat /\ f["inconclusive"] \in Nat
<1>1. /\ "probed_references" \in Counter /\ "missing" \in Counter
      /\ "present_not_read" \in Counter /\ "present_digest_recomputed" \in Counter
      /\ "unsupported_uri" \in Counter /\ "inconclusive" \in Counter
  BY DEF Counter, Outcome
<1> QED  BY <1>1

LEMMA OutcomesIs ==
  ASSUME Sound
  PROVE  Outcomes \in Nat /\ (stats' \in [Counter -> Nat] => Outcomes' \in Nat)
<1>1. ASSUME NEW a \in Nat, NEW b \in Nat, NEW c \in Nat, NEW d \in Nat, NEW e \in Nat
      PROVE  a + b + c + d + e \in Nat
  OBVIOUS
<1>2. Outcomes \in Nat
  <2>1. stats \in [Counter -> Nat]  BY DEF Sound, TypeOK
  <2> QED  BY <1>1, <2>1, Numbers DEF Outcomes
<1>3. ASSUME stats' \in [Counter -> Nat]
      PROVE  Outcomes' \in Nat
  BY <1>1, <1>3, Numbers DEF Outcomes
<1> QED  BY <1>2, <1>3

\* A settled payload whose label and counters go together.
LEMMA SettleCounted ==
  ASSUME Sound, Rowed, Counted, NEW c \in Conclusion, index <= Len(stream), Settle(c), Fixed,
         stats' \in [Counter -> Nat],
         stats'["probed_references"] - stats["probed_references"]
           = (Outcomes' - Outcomes) - (IF pc = "present" THEN 1 ELSE 0),
         stats'["missing"] = stats["missing"] + (IF c.presence = "remote_missing" THEN 1 ELSE 0),
         stats'["present_digest_recomputed"] >= stats["present_digest_recomputed"]
           + (IF c.presence \in {"remote_verified", "remote_mismatch"} THEN 1 ELSE 0),
         stats'["present_not_read"] + stats'["present_digest_recomputed"]
           = stats["present_not_read"] + stats["present_digest_recomputed"]
             + (IF c.presence \in {"remote_verified", "remote_present", "remote_mismatch"}
                THEN 1 ELSE 0)
  PROVE  Counted'
<1>1. stream' = stream /\ NoEcho' = NoEcho  BY DEF Fixed, NoEcho
<1>2. /\ IsFiniteSet(Known') /\ pc' = "next"
      /\ \A L : Recorded(L)' = IF references[Entry.key] = None /\ c.presence \in L
                               THEN Recorded(L) + 1 ELSE Recorded(L)
      /\ NoEcho => references[Entry.key] = None
  BY <1>1, SettleCounts DEF Counted
<1> DEFINE M == {"remote_missing"}
           H == {"remote_verified", "remote_mismatch"}
           P == {"remote_verified", "remote_present", "remote_mismatch"}
           a == stats["probed_references"]  b == stats'["probed_references"]
           mi == stats["missing"]           mj == stats'["missing"]
           rd == stats["present_digest_recomputed"]  re == stats'["present_digest_recomputed"]
           nr == stats["present_not_read"]  ns == stats'["present_not_read"]
           o == Outcomes                    q == Outcomes'
           rm == Recorded(M)  rh == Recorded(H)  rp == Recorded(P)
           sm == Recorded(M)'  sh == Recorded(H)'  sp == Recorded(P)'
           un == references[Entry.key] = None
<1>3. rm \in Nat /\ rh \in Nat /\ rp \in Nat  BY RecordedIs DEF Counted
<1>4. /\ a \in Nat /\ mi \in Nat /\ rd \in Nat /\ nr \in Nat
      /\ b \in Nat /\ mj \in Nat /\ re \in Nat /\ ns \in Nat
  BY Numbers DEF Sound, TypeOK
<1>5. o \in Nat /\ q \in Nat
  BY OutcomesIs
<1>6. /\ sm = IF un /\ c.presence \in M THEN rm + 1 ELSE rm
      /\ sh = IF un /\ c.presence \in H THEN rh + 1 ELSE rh
      /\ sp = IF un /\ c.presence \in P THEN rp + 1 ELSE rp
  BY <1>2
<1>7. /\ a = o + (IF pc = "present" THEN 1 ELSE 0)
      /\ rh <= rd /\ rm <= mi /\ rp <= nr + rd
      /\ NoEcho => rm = mi /\ rp = nr + rd
  BY DEF Counted
<1>8. /\ b - a = (q - o) - (IF pc = "present" THEN 1 ELSE 0)
      /\ mj = mi + (IF c.presence \in M THEN 1 ELSE 0)
      /\ re >= rd + (IF c.presence \in H THEN 1 ELSE 0)
      /\ ns + re = nr + rd + (IF c.presence \in P THEN 1 ELSE 0)
  OBVIOUS
<1>9. NoEcho => un  BY <1>2
<1> HIDE DEF M, H, P, a, b, mi, mj, rd, re, nr, ns, o, q, rm, rh, rp, sm, sh, sp, un
<1>10. b = q  BY <1>4, <1>5, <1>7, <1>8
<1>11. sh <= re /\ sm <= mj /\ sp <= ns + re  BY <1>3, <1>4, <1>6, <1>7, <1>8
<1>12. NoEcho => sm = mj /\ sp = ns + re  BY <1>3, <1>4, <1>6, <1>7, <1>8, <1>9
<1> USE DEF M, H, P, a, b, mi, mj, rd, re, nr, ns, o, q, rm, rh, rp, sm, sh, sp, un
<1>13. b = q + (IF pc' = "present" THEN 1 ELSE 0)  BY <1>2, <1>5, <1>10
<1> QED  BY <1>1, <1>2, <1>11, <1>12, <1>13 DEF Counted

\* A label no probe gives, and no counter moved.
LEMMA UnprobedCounted ==
  ASSUME Sound, Rowed, Counted, NEW c \in Conclusion, index <= Len(stream), Settle(c), Fixed,
         stats' = stats, pc # "present", c.presence \notin RemoteTier
  PROVE  Counted'
<1>1. /\ stats["probed_references"] \in Nat /\ stats["missing"] \in Nat
      /\ stats["present_not_read"] \in Nat /\ stats["present_digest_recomputed"] \in Nat
  BY Numbers DEF Sound, TypeOK
<1>2. Outcomes' = Outcomes /\ Outcomes \in Nat  BY OutcomesIs DEF Outcomes
<1>3. stats' \in [Counter -> Nat]  BY DEF Sound, TypeOK
<1>4. c.presence \notin {"remote_missing", "remote_verified", "remote_present", "remote_mismatch"}
  BY LabelsAre
<1> QED  BY <1>1, <1>2, <1>3, <1>4, SettleCounted

LEMMA CountEffect ==
  ASSUME Sound, NEW counters \in SUBSET Counter, Count(counters)
  PROVE  /\ stats' \in [Counter -> Nat] /\ stats \in [Counter -> Nat]
         /\ \A x \in Counter : stats'[x] = IF x \in counters THEN stats[x] + 1 ELSE stats[x]
  BY DEF Count, Sound, TypeOK

\* A probe of one outcome.
LEMMA ProbedCounted ==
  ASSUME Sound, Rowed, Counted, NEW c \in Conclusion, index <= Len(stream), Settle(c), Fixed,
         NEW o \in Outcome,
         \/ pc # "present" /\ Count({"probed_references", o})
         \/ pc = "present" /\ Count({o}),
         o \in {"unsupported_uri", "inconclusive"} => c.presence = "unverified_remote_reference",
         o = "missing" => c.presence = "remote_missing",
         o = "present_not_read" => c.presence = "remote_present",
         o = "present_digest_recomputed"
           => c.presence \in {"remote_verified", "remote_present", "remote_mismatch"}
  PROVE  Counted'
<1>0. /\ {o, "probed_references"} \subseteq Counter /\ o # "probed_references"
      /\ "missing" \in Counter /\ "present_not_read" \in Counter
      /\ "present_digest_recomputed" \in Counter /\ "unsupported_uri" \in Counter
      /\ "inconclusive" \in Counter
  BY DEF Counter, Outcome
<1>1. /\ stats' \in [Counter -> Nat] /\ stats \in [Counter -> Nat]
      /\ \A x \in Counter \ {"probed_references"} :
           stats'[x] = IF x = o THEN stats[x] + 1 ELSE stats[x]
      /\ stats'["probed_references"]
           = IF pc = "present" THEN stats["probed_references"] ELSE stats["probed_references"] + 1
  <2>1. CASE pc # "present" /\ Count({"probed_references", o})  BY <1>0, <2>1, CountEffect
  <2>2. CASE pc = "present" /\ Count({o})  BY <1>0, <2>2, CountEffect
  <2> QED  BY <2>1, <2>2
<1>2. /\ stats["probed_references"] \in Nat /\ stats["missing"] \in Nat
      /\ stats["present_not_read"] \in Nat /\ stats["present_digest_recomputed"] \in Nat
      /\ stats["unsupported_uri"] \in Nat /\ stats["inconclusive"] \in Nat
  BY <1>1, Numbers
<1>3. /\ stats'["missing"] = IF o = "missing" THEN stats["missing"] + 1 ELSE stats["missing"]
      /\ stats'["present_not_read"]
           = IF o = "present_not_read" THEN stats["present_not_read"] + 1
                                       ELSE stats["present_not_read"]
      /\ stats'["present_digest_recomputed"]
           = IF o = "present_digest_recomputed" THEN stats["present_digest_recomputed"] + 1
                                                ELSE stats["present_digest_recomputed"]
      /\ stats'["unsupported_uri"]
           = IF o = "unsupported_uri" THEN stats["unsupported_uri"] + 1
                                      ELSE stats["unsupported_uri"]
      /\ stats'["inconclusive"]
           = IF o = "inconclusive" THEN stats["inconclusive"] + 1 ELSE stats["inconclusive"]
  BY <1>0, <1>1
<1>4. \/ o = "unsupported_uri" \/ o = "missing" \/ o = "present_digest_recomputed"
      \/ o = "present_not_read" \/ o = "inconclusive"
  BY DEF Outcome
<1>5. Outcomes' = Outcomes + 1 /\ Outcomes \in Nat
  <2> DEFINE u == stats["unsupported_uri"]           v == stats'["unsupported_uri"]
             m == stats["missing"]                   n == stats'["missing"]
             p == stats["present_not_read"]          q == stats'["present_not_read"]
             r == stats["present_digest_recomputed"] s == stats'["present_digest_recomputed"]
             i == stats["inconclusive"]              j == stats'["inconclusive"]
  <2>1. Outcomes = u + m + p + r + i /\ Outcomes' = v + n + q + s + j  BY DEF Outcomes
  <2>2. u \in Nat /\ m \in Nat /\ p \in Nat /\ r \in Nat /\ i \in Nat  BY <1>2
  <2>3. \/ v = u + 1 /\ n = m /\ q = p /\ s = r /\ j = i
        \/ v = u /\ n = m + 1 /\ q = p /\ s = r /\ j = i
        \/ v = u /\ n = m /\ q = p + 1 /\ s = r /\ j = i
        \/ v = u /\ n = m /\ q = p /\ s = r + 1 /\ j = i
        \/ v = u /\ n = m /\ q = p /\ s = r /\ j = i + 1
    BY <1>3, <1>4
  <2>4. v + n + q + s + j = (u + m + p + r + i) + 1 /\ u + m + p + r + i \in Nat
    <3> HIDE DEF u, v, m, n, p, q, r, s, i, j
    <3>1. CASE v = u + 1 /\ n = m /\ q = p /\ s = r /\ j = i  BY <2>2, <3>1
    <3>2. CASE v = u /\ n = m + 1 /\ q = p /\ s = r /\ j = i  BY <2>2, <3>2
    <3>3. CASE v = u /\ n = m /\ q = p + 1 /\ s = r /\ j = i  BY <2>2, <3>3
    <3>4. CASE v = u /\ n = m /\ q = p /\ s = r + 1 /\ j = i  BY <2>2, <3>4
    <3>5. CASE v = u /\ n = m /\ q = p /\ s = r /\ j = i + 1  BY <2>2, <3>5
    <3> QED  BY <2>3, <3>1, <3>2, <3>3, <3>4, <3>5
  <2> QED  BY <2>1, <2>4
<1>6. stats'["probed_references"] - stats["probed_references"]
        = (Outcomes' - Outcomes) - (IF pc = "present" THEN 1 ELSE 0)
  BY <1>1, <1>2, <1>5
<1>7. /\ stats'["missing"] = stats["missing"] + (IF c.presence = "remote_missing" THEN 1 ELSE 0)
      /\ stats'["present_digest_recomputed"] >= stats["present_digest_recomputed"]
           + (IF c.presence \in {"remote_verified", "remote_mismatch"} THEN 1 ELSE 0)
      /\ stats'["present_not_read"] + stats'["present_digest_recomputed"]
           = stats["present_not_read"] + stats["present_digest_recomputed"]
             + (IF c.presence \in {"remote_verified", "remote_present", "remote_mismatch"}
                THEN 1 ELSE 0)
  <2>1. CASE o = "unsupported_uri"  BY <1>2, <1>3, <2>1
  <2>2. CASE o = "missing"  BY <1>2, <1>3, <2>2
  <2>3. CASE o = "present_digest_recomputed"  BY <1>2, <1>3, <2>3
  <2>4. CASE o = "present_not_read"  BY <1>2, <1>3, <2>4
  <2>5. CASE o = "inconclusive"  BY <1>2, <1>3, <2>5
  <2> QED  BY <1>4, <2>1, <2>2, <2>3, <2>4, <2>5
<1> QED  BY <1>1, <1>6, <1>7, SettleCounted

\* No row and no counter but the one of a probe under way.
LEMMA UnsettledCounted ==
  ASSUME Sound, Counted, references' = references, stream' = stream,
         \/ pc # "present" /\ pc' # "present" /\ stats' = stats
         \/ pc # "present" /\ pc' = "present" /\ Count({"probed_references"})
         \/ pc' = pc /\ stats' = stats
  PROVE  Counted'
<1>1. Known' = Known /\ (\A L : Recorded(L)' = Recorded(L)) /\ NoEcho' = NoEcho
  BY DEF Known, Recorded, NoEcho
<1>2. CASE stats' = stats /\ (pc' = "present" <=> pc = "present")
  <2>1. Outcomes' = Outcomes  BY <1>2 DEF Outcomes
  <2> QED  BY <1>1, <1>2, <2>1 DEF Counted
<1>3. CASE pc # "present" /\ pc' = "present" /\ Count({"probed_references"})
  <2>0. /\ "probed_references" \in Counter
        /\ "missing" \in Counter /\ "present_not_read" \in Counter
        /\ "present_digest_recomputed" \in Counter /\ "unsupported_uri" \in Counter
        /\ "inconclusive" \in Counter
    BY DEF Counter, Outcome
  <2>1. /\ stats'["probed_references"] = stats["probed_references"] + 1
        /\ stats'["missing"] = stats["missing"]
        /\ stats'["present_not_read"] = stats["present_not_read"]
        /\ stats'["present_digest_recomputed"] = stats["present_digest_recomputed"]
        /\ stats'["unsupported_uri"] = stats["unsupported_uri"]
        /\ stats'["inconclusive"] = stats["inconclusive"]
    BY <1>3, <2>0, CountEffect
  <2>2. Outcomes' = Outcomes /\ Outcomes \in Nat  BY <2>1, OutcomesIs DEF Outcomes
  <2>3. stats'["probed_references"] = Outcomes' + (IF pc' = "present" THEN 1 ELSE 0)
    BY <1>3, <2>1, <2>2 DEF Counted
  <2> QED  BY <1>1, <2>1, <2>3 DEF Counted
<1> QED  BY <1>2, <1>3

LEMMA OtherLabels ==
  /\ Unverified.presence = "unverified_remote_reference" /\ Unverified \in Conclusion
  /\ Missing.presence \notin RemoteTier /\ Missing \in Conclusion
  /\ Present(None).presence \notin RemoteTier /\ Present(None) \in Conclusion
  /\ "unverified_remote_reference" \notin RemoteTier
  /\ LET c == Conclude("remote_missing", "unknown", None, "low")
     IN  c \in Conclusion /\ c.presence = "remote_missing"
  BY ConcludeIs, LabelsAre DEF Unverified, Missing, Present

LEMMA LocalLabels ==
  ASSUME NEW e \in Payload, NEW b \in Content
  PROVE  LocalConclusion(e.declared, b) \in Conclusion /\ LocalConclusion(e.declared, b).presence \notin RemoteTier
<1> DEFINE d == e.declared
<1>1. CASE d = None
  <2>1. LocalConclusion(e.declared, b) = Conclude("local_verified", "unknown", b, "medium")
    BY <1>1, ComparedIs DEF LocalConclusion, Comparable
  <2> QED  BY <2>1, ConcludeIs, LabelsAre
<1>2. CASE d # None /\ Compared(d, b) = "yes"
  BY <1>2, ConcludeIs, LabelsAre DEF LocalConclusion
<1>3. CASE d # None /\ Compared(d, b) = "no"
  BY <1>3, ConcludeIs, LabelsAre DEF LocalConclusion
<1>4. CASE d # None /\ Compared(d, b) = "unknown"
  BY <1>4, ConcludeIs, LabelsAre DEF LocalConclusion, Present
<1> QED  BY <1>1, <1>2, <1>3, <1>4, ComparedIs

LEMMA RemoteLabels ==
  ASSUME NEW e \in Payload, NEW b \in Content \cup {None}
  PROVE  /\ RemoteConclusion(e.declared, b) \in Conclusion
         /\ RemoteConclusion(e.declared, b).presence
              \in {"remote_verified", "remote_present", "remote_mismatch"}
         /\ b = None => RemoteConclusion(e.declared, b).presence = "remote_present"
<1> DEFINE d == e.declared
<1>1. CASE b = None \/ Compared(d, b) = "unknown"
  BY <1>1, ConcludeIs, LabelsAre DEF RemoteConclusion
<1>2. CASE b # None /\ Compared(d, b) = "yes"
  BY <1>2, ConcludeIs, LabelsAre DEF RemoteConclusion
<1>3. CASE b # None /\ Compared(d, b) = "no"
  <2>1. RemoteConclusion(d, b) = Conclude("remote_mismatch", "no", b, "low")
    BY <1>3 DEF RemoteConclusion
  <2> QED  BY <1>3, <2>1, ConcludeIs, LabelsAre
<1> QED  BY <1>1, <1>2, <1>3, ComparedIs

LEMMA VerifyCounted ==
  ASSUME Sound, Rowed, Counted, Verify
  PROVE  Counted'
<1>0. ASSUME index <= Len(stream)
      PROVE  Entry \in Payload /\ (Entry.place \in {"file", "symlink", "blob"} => Entry.at \in Spot)
  BY <1>0, EntryIs DEF Sound
<1>1. CASE VerifyInline
  <2>1. index <= Len(stream) /\ Entry.place = "inline" /\ pc # "present"
    BY <1>1 DEF VerifyInline, At
  <2>2. CASE Entry.at = None
    BY <1>1, <2>1, <2>2, OtherLabels, UnprobedCounted DEF VerifyInline
  <2>3. CASE Entry.at # None
    <3>1. Entry.at \in Content
      BY <2>1, <2>3, EntryIs, StreamIs DEF Sound, TypeOK
    <3> QED  BY <1>0, <1>1, <2>1, <2>3, <3>1, LocalLabels, UnprobedCounted DEF VerifyInline
  <2> QED  BY <2>2, <2>3
<1>2. CASE VerifySymlink
  BY <1>2, OtherLabels, UnprobedCounted DEF VerifySymlink, At
<1>3. CASE LookForFile
  <2>1. index <= Len(stream) /\ pc = "next"  BY <1>3 DEF LookForFile, At
  <2>2. CASE pc' = "found" /\ UNCHANGED <<references, index>>
    BY <1>3, <2>1, <2>2, UnsettledCounted DEF LookForFile, Fixed
  <2>3. CASE Settle(Missing)
    BY <1>3, <2>1, <2>3, OtherLabels, UnprobedCounted DEF LookForFile
  <2>4. CASE Settle(Present(None))
    BY <1>3, <2>1, <2>4, OtherLabels, UnprobedCounted DEF LookForFile
  <2> QED  BY <1>3, <2>2, <2>3, <2>4 DEF LookForFile
<1>4. CASE HashFile
  <2>1. index <= Len(stream) /\ Entry.place = "file" /\ pc = "found"
    BY <1>4 DEF HashFile, Sound, Positions
  <2>2. bytes[Entry.at] \in Content
    BY <1>0, <1>4, <2>1 DEF HashFile, Exists, Sound, TypeOK
  <2> QED  BY <1>0, <1>4, <2>1, <2>2, LocalLabels, UnprobedCounted DEF HashFile
<1>5. CASE NotProbed
  BY <1>5, OtherLabels, UnprobedCounted DEF NotProbed, At
<1>6. CASE UnsupportedUri
  <2>1. "unsupported_uri" \in Outcome  BY DEF Outcome
  <2> QED  BY <1>6, <2>1, OtherLabels, ProbedCounted DEF UnsupportedUri, At
<1>7. CASE FindMissing
  <2>1. index <= Len(stream) /\ Entry.place = "blob" /\ pc = "next" /\ probing
    BY <1>7 DEF FindMissing, NoVerdict, At
  <2>2. "inconclusive" \in Outcome /\ "missing" \in Outcome /\ "present_not_read" \in Outcome
    BY DEF Outcome
  <2>3. CASE Count({"probed_references", "inconclusive"}) /\ Settle(Unverified)
    BY <1>7, <2>1, <2>2, <2>3, OtherLabels, ProbedCounted DEF FindMissing, NoVerdict
  <2>4. CASE /\ Count({"probed_references", "missing"})
             /\ Settle(Conclude("remote_missing", "unknown", None, "low"))
    BY <1>7, <2>1, <2>2, <2>4, OtherLabels, ProbedCounted DEF FindMissing, NoVerdict
  <2>5. CASE /\ Count({"probed_references", "present_not_read"})
             /\ Settle(RemoteConclusion(Entry.declared, None))
    BY <1>0, <1>7, <2>1, <2>2, <2>5, RemoteLabels, ProbedCounted DEF FindMissing, NoVerdict
  <2>6. CASE Count({"probed_references"}) /\ pc' = "present" /\ UNCHANGED <<references, index>>
    BY <1>7, <2>1, <2>6, UnsettledCounted DEF FindMissing, NoVerdict, Fixed
  <2> QED  BY <1>7, <2>3, <2>4, <2>5, <2>6 DEF FindMissing, NoVerdict
<1>8. CASE ReadBlob
  <2>1. index <= Len(stream) /\ Entry.place = "blob" /\ pc = "present"
    BY <1>8 DEF ReadBlob, NoVerdict, Sound, Positions
  <2>2. "inconclusive" \in Outcome /\ "present_digest_recomputed" \in Outcome  BY DEF Outcome
  <2>3. CASE Count({ReadFails}) /\ Settle(Unverified)
    BY <1>8, <2>1, <2>2, <2>3, OtherLabels, ProbedCounted DEF ReadBlob, NoVerdict, ReadFails
  <2>4. CASE /\ bytes[Entry.at] # None /\ Count({"present_digest_recomputed"})
             /\ Settle(RemoteConclusion(Entry.declared, bytes[Entry.at]))
    <3>1. bytes[Entry.at] \in Content  BY <1>0, <2>1, <2>4 DEF Sound, TypeOK
    <3> QED  BY <1>0, <1>8, <2>1, <2>2, <2>4, <3>1, RemoteLabels, ProbedCounted DEF ReadBlob, NoVerdict
  <2> QED  BY <1>8, <2>3, <2>4 DEF ReadBlob, NoVerdict
<1>9. CASE Finish
  BY <1>9, UnsettledCounted DEF Finish, Fixed
<1>10. CASE LocalFails
  <2>1. pc # "present"  BY <1>10 DEF LocalFails, At
  <2> QED  BY <1>10, <2>1, UnsettledCounted DEF LocalFails, Escapes, Fixed
<1> QED  BY <1>1, <1>2, <1>3, <1>4, <1>5, <1>6, <1>7, <1>8, <1>9, <1>10 DEF Verify

LEMMA NoCounts == Init => Counted
<1> SUFFICES ASSUME Init PROVE Counted  OBVIOUS
<1>1. Known = {}  BY DEF Init, Known
<1>2. \A L : Recorded(L) = 0
  BY <1>1, FS_EmptySet DEF Recorded
<1>3. /\ stats["probed_references"] = 0 /\ stats["missing"] = 0 /\ stats["present_not_read"] = 0
      /\ stats["present_digest_recomputed"] = 0 /\ stats["unsupported_uri"] = 0
      /\ stats["inconclusive"] = 0
  BY DEF Init, Counter, Outcome
<1>4. Outcomes = 0 /\ pc # "present"  BY <1>3 DEF Outcomes, Init
<1> QED  BY <1>1, <1>2, <1>3, <1>4, FS_EmptySet DEF Counted

LEMMA StepsCount ==
  ASSUME Sound, Rowed, Counted, [Next]_vars
  PROVE  Counted'
<1>1. CASE UNCHANGED vars
  BY <1>1, UnsettledCounted DEF vars
<1>2. CASE Elsewhere
  BY <1>2, UnsettledCounted DEF Elsewhere
<1> QED  BY <1>1, <1>2, VerifyCounted DEF Next

------------------------------------------------------------------------------
(* Theorems *)

\* The types, for any stream, options and changes.
THEOREM TypeCorrect == Spec => []TypeOK
<1>1. Sound => TypeOK  BY DEF Sound
<1> QED  BY <1>1, Initially, Steps, PTL DEF Spec

\* The row of a key is the conclusion on the first payload that names it, and no
\* payload that was verified is left without a row.
THEOREM FirstStands == Spec => []FirstObservationStands
<1>1. Rowed => FirstObservationStands  BY DEF Rowed, FirstObservationStands
<1> QED  BY <1>1, Initially, Steps, PTL DEF Spec

\* What is written down of a reference was seen while the ingest ran, whatever disk and
\* store do meanwhile; and high confidence in a packet is a match of every payload.
THEOREM LabelsAreObserved == Spec => []LabelsWereObserved
<1>1. Sound /\ Rowed => LabelsWereObserved
  <2> SUFFICES ASSUME Sound, Rowed  PROVE LabelsWereObserved  OBVIOUS
  <2>1. ASSUME pc = "parsed", WeakestConfidence(Rows) = "high", NEW n \in 1..Len(stream)
        PROVE  references[stream[n].key].is.matches = "yes"
    <3>1. stream[n].key \in Known
      BY <2>1, StreamIs DEF Sound, Positions, Rowed, TypeOK
    <3>2. references[stream[n].key].is \in Rows  BY <3>1 DEF Rows
    <3>3. references[stream[n].key].is.confidence = "high"
      BY <2>1, <3>2 DEF WeakestConfidence
    <3> QED  BY <3>1, <3>3 DEF Rowed, Tells
  <2> QED  BY <2>1 DEF LabelsWereObserved, Rowed, Tells
<1> QED  BY <1>1, Initially, Steps, PTL DEF Spec

\* The cas-probe block agrees with itself, and with the rows stored beside it: a label
\* has no more rows than the probes that lead to it, and as many if no file is named
\* twice; the packet's summary is the count of the rows.
THEOREM CountsMatch == Spec => []CountsMatchRows
<1>1. Counted => CountsMatchRows
  <2> SUFFICES ASSUME Counted PROVE CountsMatchRows  OBVIOUS
  <2>1. ASSUME NEW p \in PresenceLabel
        PROVE  PresenceCounts[p] = Recorded({p})
    <3>1. {k \in Known : references[k].is.presence = p}
            = {k \in Known : references[k].is.presence \in {p}}
      OBVIOUS
    <3> QED  BY <3>1 DEF PresenceCounts, VerificationSummary, Recorded
  <2> QED  BY <2>1 DEF CountsMatchRows, Counted
<1>2. Init => Sound /\ Rowed /\ Counted  BY Initially, NoCounts
<1>3. Sound /\ Rowed /\ Counted /\ [Next]_vars => (Sound /\ Rowed /\ Counted)'
  BY Steps, StepsCount
<1> QED  BY <1>1, <1>2, <1>3, PTL DEF Spec
==============================================================================
