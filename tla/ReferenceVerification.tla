------------------------ MODULE ReferenceVerification ------------------------
(***************************************************************************)
(* How `nlfr ingest` checks the files a Build Event stream refers to: the  *)
(* references one after another, each against the local disk, its inline   *)
(* bytes, or (with --cas-endpoint) a remote store asked over two calls.    *)
(* Disk and store change while that happens, and every call may fail.      *)
(*                                                                         *)
(* The SHA-256 of some bytes is named by the bytes.  Nothing is written to *)
(* the database here: parsing comes before it is opened.                   *)
(***************************************************************************)
EXTENDS TruthLabels, Sequences

CONSTANTS Path,     \* local files a reference may name
          Content,  \* bytes, and so digests; a blob's URI names its digest
          None,
          Key,      \* reference keys: owner label and file name
          Streams,  \* the sequences of file payloads a run may be given
          SourceKind, \* --source-kind
          MaxChanges  \* bound: changes of the disk and the store

Spot == Path \cup Content

\* A declared digest: 64 hex digits with no prefix or sha256:, or any other.
Digest == [fn : {"sha256", "other"}, of : Content]

\* A file payload.  "blob" is a bytestream URI the probe can parse, "opaque" a
\* remote URI it cannot, "nowhere" a payload with a name only; "at" is None for
\* these two and for inline contents that do not decode.  big: a compressed
\* resource, or one above the read limit.
Payload == [key : Key, at : Spot \cup {None}, declared : Digest \cup {None},
            place : {"file", "symlink", "inline", "blob", "opaque", "nowhere"},
            big : BOOLEAN]

ASSUME VerificationAssumption ==
  /\ None \notin Spot
  /\ Streams \subseteq Seq(Payload)
  /\ SourceKind \in {"collectable_v1", "simulated_v1"}
  /\ MaxChanges \in Nat
  /\ \A s \in Streams : \A n \in 1..Len(s) :
       /\ s[n].place \in {"file", "symlink", "blob"} => s[n].at \in Spot
       /\ s[n].place = "inline" => s[n].at \in Content \cup {None}

VARIABLES stream,     \* the file payloads of this ingest, in order
          digestFn,   \* "other" if the options name a function that is not
                      \* SHA-256; naming none, or hiding them, is as SHA-256
          probing,    \* --cas-endpoint was given
          index,      \* the payload under verification
          pc,         \* "next", "found", "present", "parsed" or "raised"
          references, \* by key, what was concluded of it
          stats,      \* ProbeStats
          bytes,      \* what the disk and the store hold
          shown,      \* history: what they have held since the start
          changes

vars == <<stream, digestFn, probing, index, pc, references, stats, bytes,
          shown, changes>>

Outcome == {"unsupported_uri", "missing", "present_digest_recomputed",
            "present_not_read", "inconclusive"}
Counter == Outcome \cup {"probed_references"}

Conclusion ==
  [presence : PresenceLabel, matches : {"yes", "no", "unknown"},
   sha : Content \cup {None}, confidence : {"high", "medium", "low"},
   source_kind : {"collectable_v1", "simulated_v1", "derived_v1"}]

\* A row: what was concluded, and from which payload.
Row == [from : Nat, is : Conclusion]

ASSUME NoneAssumption == None \notin Digest \cup Row

\* The places the payloads from the n-th on name; what others hold is ignored.
Named(n) == {stream[m].at : m \in n..Len(stream)}

Init ==
  /\ stream \in Streams
  /\ digestFn \in {"sha256", "other"}
  /\ probing \in BOOLEAN
  /\ index = 1
  /\ pc = "next"
  /\ references = [k \in Key |-> None]
  /\ stats = [c \in Counter |-> 0]
  /\ bytes \in [Spot -> Content \cup {None}]
  /\ \A s \in Spot : IF s \in Named(1) THEN s \in Content => bytes[s] \in {s, None}
                                        ELSE bytes[s] = None
  /\ shown = [s \in Spot |-> {bytes[s]}]
  /\ changes = 0

------------------------------------------------------------------------------
(* What may be concluded *)

Conclude(presence, matches, sha, confidence) ==
  [presence |-> presence, matches |-> matches, sha |-> sha,
   confidence |-> confidence,
   source_kind |-> IF confidence = "low" THEN Downgraded(SourceKind)
                                         ELSE SourceKind]

Unverified == Conclude("unverified_remote_reference", "unknown", None, "low")
Missing == Conclude("missing", "unknown", None, "low")
Present(sha) == Conclude("local_present", "unknown", sha, "medium")

\* Only a digest that can be a SHA-256 is compared with one.
Comparable(d) == d # None /\ digestFn # "other" /\ d.fn = "sha256"

\* mutant: a digest of any function is compared
Compared_Blindly(d, sha) == IF d # None /\ d.of # sha THEN "no" ELSE "yes"

Compared(d, sha) ==
  IF ~Comparable(d) THEN "unknown" ELSE IF d.of = sha THEN "yes" ELSE "no"

\* The bytes of a local file or inline contents were hashed to sha.  Without a
\* declared digest the label is local_verified all the same, self-attested.
LocalConclusion(d, sha) ==
  CASE d = None -> Conclude("local_verified", "unknown", sha, "medium")
    [] Compared(d, sha) = "yes" -> Conclude("local_verified", "yes", sha, "high")
    [] Compared(d, sha) = "no" -> Conclude("local_mismatch", "no", sha, "low")
    [] OTHER -> Present(sha)

\* The probe reported the blob present; sha is None if it did not read it.
RemoteConclusion(d, sha) ==
  IF sha = None \/ Compared(d, sha) = "unknown"
    THEN Conclude("remote_present", "unknown", sha, "medium")
  ELSE IF Compared(d, sha) = "yes"
    THEN Conclude("remote_verified", "yes", sha, "high")
  ELSE Conclude("remote_mismatch", "no", sha, "low")
------------------------------------------------------------------------------
(* The verifier *)

Entry == stream[index]
At(place) == pc = "next" /\ index <= Len(stream) /\ Entry.place = place

\* mutant: a later event overwrites the row
Observed_Last(k, c) == [references EXCEPT ![k] = [from |-> index, is |-> c]]

\* references.setdefault: the first observation of a key stands.
Observed(k, c) ==
  IF references[k] = None
    THEN [references EXCEPT ![k] = [from |-> index, is |-> c]] ELSE references

Settle(c) ==
  /\ references' = Observed(Entry.key, c)
  /\ index' = index + 1
  /\ pc' = "next"

Fixed == UNCHANGED <<stream, digestFn, probing, bytes, shown, changes>>

Exists(p) == bytes[p] # None

VerifyInline ==
  /\ At("inline")
  /\ Settle(IF Entry.at = None THEN Missing
            ELSE LocalConclusion(Entry.declared, Entry.at))
  /\ Fixed /\ UNCHANGED stats

VerifySymlink ==
  /\ At("symlink")
  /\ Settle(IF Exists(Entry.at) THEN Present(None) ELSE Missing)
  /\ Fixed /\ UNCHANGED stats

\* exists() and is_file(); the file is opened only if there is something to
\* compare its digest with, or nothing to compare at all.
LookForFile ==
  /\ At("file")
  /\ IF ~Exists(Entry.at) THEN Settle(Missing)
     ELSE IF Entry.declared # None /\ ~Comparable(Entry.declared)
       THEN Settle(Present(None))
     ELSE pc' = "found" /\ UNCHANGED <<references, index>>
  /\ Fixed /\ UNCHANGED stats

HashFile ==
  /\ pc = "found" /\ Exists(Entry.at)
  /\ Settle(LocalConclusion(Entry.declared, bytes[Entry.at]))
  /\ Fixed /\ UNCHANGED stats

Escapes == pc' = "raised" /\ UNCHANGED <<references, index>>

\* The look at a local path, or the opening and reading of a file that was there,
\* fails: it went away, is not readable, or the disk has an error.  Nobody
\* handles the exception.
LocalFails ==
  /\ pc = "found" \/ At("file") \/ At("symlink")
  /\ Escapes
  /\ Fixed /\ UNCHANGED stats

\* A reference without a URI is never handed to the probe, with a probe or not.
NotProbed ==
  /\ \/ At("nowhere")
     \/ ~probing /\ (At("blob") \/ At("opaque"))
  /\ Settle(Unverified)
  /\ Fixed /\ UNCHANGED stats

Count(counters) ==
  stats' = [c \in Counter |-> IF c \in counters THEN stats[c] + 1 ELSE stats[c]]

UnsupportedUri ==
  /\ probing /\ At("opaque")
  /\ Count({"probed_references", "unsupported_uri"})
  /\ Settle(Unverified)
  /\ Fixed

\* _read_skip_reason: it knows the shape of the digest, not the digest function
\* the build was configured with.
ReadSkipped(e) == e.declared = None \/ e.big \/ e.declared.fn # "sha256"

\* mutant: the error of a call to the store is not caught
NoVerdict_Escapes == Escapes

\* The probe catches whatever a call to the store raises.
NoVerdict == Settle(Unverified)

\* FindMissingBlobs: an error or timeout gives no verdict.
FindMissing ==
  /\ probing /\ At("blob")
  /\ \/ /\ Count({"probed_references", "inconclusive"})
        /\ NoVerdict
     \/ /\ bytes[Entry.at] = None
        /\ Count({"probed_references", "missing"})
        /\ Settle(Conclude("remote_missing", "unknown", None, "low"))
     \/ /\ bytes[Entry.at] # None /\ ReadSkipped(Entry)
        /\ Count({"probed_references", "present_not_read"})
        /\ Settle(RemoteConclusion(Entry.declared, None))
     \/ /\ bytes[Entry.at] # None /\ ~ReadSkipped(Entry)
        /\ Count({"probed_references"})
        /\ pc' = "present" /\ UNCHANGED <<references, index>>
  /\ Fixed

\* mutant: a read that fails is counted as a read
ReadFails_AsPresent == "present_not_read"

\* A failed read does not round up to presence, whatever FindMissing said.
ReadFails == "inconclusive"

\* ByteStream.Read: only a completed stream has a digest.
ReadBlob ==
  /\ pc = "present"
  /\ \/ Count({ReadFails}) /\ NoVerdict
     \/ /\ bytes[Entry.at] # None
        /\ Count({"present_digest_recomputed"})
        /\ Settle(RemoteConclusion(Entry.declared, bytes[Entry.at]))
  /\ Fixed

Finish ==
  /\ pc = "next" /\ index > Len(stream)
  /\ pc' = "parsed"
  /\ Fixed /\ UNCHANGED <<index, references, stats>>

Verify ==
  \/ VerifyInline \/ VerifySymlink \/ LookForFile \/ HashFile
  \/ LocalFails \/ NotProbed \/ UnsupportedUri \/ FindMissing \/ ReadBlob \/ Finish

\* A build or an operator rewrites a file; the store takes, loses or damages a
\* blob.
Elsewhere ==
  /\ pc \notin {"parsed", "raised"} /\ changes < MaxChanges
  /\ changes' = changes + 1
  /\ \E s \in Spot \cap Named(index) : \E b \in Content \cup {None} :
       /\ b # bytes[s]
       /\ bytes' = [bytes EXCEPT ![s] = b]
       /\ shown' = [shown EXCEPT ![s] = @ \cup {b}]
  /\ UNCHANGED <<stream, digestFn, probing, index, pc, references, stats>>

Next == Verify \/ Elsewhere

Spec == Init /\ [][Next]_vars

\* Every call has a deadline, so the verifier always goes on.
FairSpec == Spec /\ WF_vars(Verify)

------------------------------------------------------------------------------
Known == {k \in Key : references[k] # None}
Rows == {references[k].is : k \in Known}

\* _cas_probe_provenance, and the packet's summary: references by presence.
PresenceCounts == VerificationSummary([k \in Known |-> references[k].is.presence])

TypeOK ==
  /\ stream \in Streams /\ digestFn \in {"sha256", "other"}
  /\ probing \in BOOLEAN /\ index \in 1..(Len(stream) + 1)
  /\ pc \in {"next", "found", "present", "parsed", "raised"}
  /\ references \in [Key -> {None} \cup [from : 1..(index - 1), is : Conclusion]]
  /\ stats \in [Counter -> Nat]
  /\ bytes \in [Spot -> Content \cup {None}]
  /\ shown \in [Spot -> SUBSET (Content \cup {None})]
  /\ changes \in 0..MaxChanges

\* The payload's own bytes, or its place at some time during this ingest, were b.
Witnessed(e, b) ==
  CASE e.place = "inline" -> b = e.at
    [] e.place \in {"file", "symlink", "blob"} -> b \in shown[e.at]
    [] OTHER -> FALSE

\* What is written down of a reference was seen while this ingest ran: a match
\* or a mismatch on bytes that were there, an absence on a place that was empty,
\* whatever disk and store do between the two calls; and a packet is labelled
\* high only if every payload of the stream has such a match.
LabelsWereObserved ==
  /\ \A k \in Known :
       LET e == stream[references[k].from]
           c == references[k].is
       IN  /\ c.matches = "yes" => Comparable(e.declared) /\ Witnessed(e, e.declared.of)
           /\ c.matches = "no" => /\ Comparable(e.declared)
                                  /\ \E b \in Content \ {e.declared.of} : Witnessed(e, b)
           /\ c.presence \in {"missing", "remote_missing"} => Witnessed(e, None)
           /\ c.presence \in RemoteTier => probing /\ e.place = "blob"
  /\ pc = "parsed" /\ WeakestConfidence(Rows) = "high"
       => \A n \in 1..Len(stream) : references[stream[n].key].is.matches = "yes"

\* The row of a key is the conclusion on the first payload that names it, and no
\* payload that was verified is left without a row.
FirstObservationStands ==
  /\ \A n \in 1..(index - 1) : stream[n].key \in Known
  /\ \A k \in Known : /\ stream[references[k].from].key = k
                      /\ \A n \in 1..(references[k].from - 1) : stream[n].key # k

Recorded(labels) ==
  Cardinality({k \in Known : references[k].is.presence \in labels})

Outcomes == stats["unsupported_uri"] + stats["missing"] + stats["present_not_read"]
            + stats["present_digest_recomputed"] + stats["inconclusive"]

NoEcho == \A m, n \in 1..Len(stream) : stream[m].key = stream[n].key => m = n

\* The cas-probe block agrees with itself and with the rows stored beside it:
\* each probe has one outcome, no label has more rows than the probes that
\* can lead to it, and as many when no file is named twice.
CountsMatchRows ==
  LET absent == Recorded({"remote_missing"})
      present == Recorded({"remote_verified", "remote_present", "remote_mismatch"})
      hashed == Recorded({"remote_verified", "remote_mismatch"})
  IN  /\ stats["probed_references"] = Outcomes + (IF pc = "present" THEN 1 ELSE 0)
      /\ hashed <= stats["present_digest_recomputed"]
      /\ absent <= stats["missing"]
      /\ present <= stats["present_not_read"] + stats["present_digest_recomputed"]
      /\ NoEcho => /\ absent = stats["missing"]
                   /\ present = stats["present_not_read"]
                                + stats["present_digest_recomputed"]
      /\ \A p \in PresenceLabel : PresenceCounts[p] = Recorded({p})

\* Verification comes to an end, and with an exception only over a local path:
\* no answer of the store, late, wrong or none at all, can end the ingest.
ParseEnds ==
  <>(pc = "parsed" \/ (pc = "raised" /\ Entry.place \in {"file", "symlink"}))

==============================================================================
