---------------------------- MODULE RedactionText ----------------------------
(***************************************************************************)
(* What the detectors of nlfr/redaction.py see in one string.  A string is *)
(* a sequence of tokens, each a stretch of characters the detectors tell   *)
(* apart; a detector reports spans, and a span is replaced by a mark that  *)
(* the same detectors will read when the text is scanned again.            *)
(***************************************************************************)
EXTENDS Integers, Sequences

\* Marks: what a span of each detector becomes.  "token" stands for the
\* detectors of one known prefix (AKIA, ghp_, github_pat_, glpat-, xox), email
\* for the personal ones a command can switch off.
Mark == [home_path |-> "${HOME}", private_key_pem |-> "[private_key_pem]",
         token |-> "[token]", jwt |-> "[jwt]",
         url_credentials |-> "[url_credentials]",
         authorization_credential |-> "[authorization_credential]",
         aws_secret_access_key |-> "[aws_secret_access_key]",
         abs_path |-> "[abs_path]", email |-> "[email]"]

Detector == DOMAIN Mark

\* _PLACEHOLDER_RE knows the tokens of the form [REDACTED:<name>] only.
Placeholder == {Mark[d] : d \in Detector \ {"home_path"}}

\* DETECTORS: registry order, the last tie-break.
Rank == [home_path |-> 1, private_key_pem |-> 2, token |-> 3, jwt |-> 4,
         url_credentials |-> 5, authorization_credential |-> 6,
         aws_secret_access_key |-> 7, abs_path |-> 8, email |-> 9]

\* "user:" ends with the colon, "marker" is secret_access_key=, "long" 40
\* characters with a slash that are no digest, "tail" what follows a token without
\* being part of it (".x"), "word" a word between spaces.  Paths are quoted:
\* "/dir/" is the quote and the directory of one, whose name the next tokens are,
\* "/home/" the quote and a home directory without a name, "home" one with a name
\* up to the closing quote (it has no opening one of its own behind "/dir/" and
\* "/home/"), "/" the slash before the name that abs_path keeps.
Plain == {"word", "tail", "begin", "end", "token", "jwt", "://", "user:", "pass",
          "@", "host", "bearer", "secret", "marker", "long", "home", "/home/",
          "/dir/", "/"}

Token == Plain \cup Placeholder \cup {Mark["home_path"]}

LocalPart == {"pass", "tail", "token", "jwt", "secret"}

\* A placeholder holds a colon of its own.
Colon == Placeholder \cup {"user:"}

\* What the last segment of a path is made of: neither slash nor colon.
Basename == LocalPart \cup {"host", "@"}

\* Word characters on both sides of a seam would run together into something
\* else than the two tokens; a "tail" and a "/" have something before them.
Word == {"token", "jwt", "long", "pass", "secret", "host"}

Seam(a, b) ==
  /\ a \in Word \cup {"begin", "end"} => b \notin Word \cup {"user:", "begin", "end"}
  /\ b = "tail" => a \in Word \cup Placeholder
  /\ b = "/" => a = "[abs_path]"
  /\ b = "long" => a \in {"marker", "bearer", "word"}
  /\ a = "bearer" => b # "marker"
  /\ a = "/dir/" => b # "/dir/"
  /\ a = "/home/" => b \in {"word", "home", Mark["home_path"]}

\* Nor does the name of a path run on into a token that is more than a name.
WellFormed(text) ==
  /\ text # <<>> => text[1] \notin {"tail", "/"}
  /\ \A i \in 1..(Len(text) - 1) : Seam(text[i], text[i + 1])
  /\ \A i, j \in 1..Len(text) :
       text[i] = "/dir/" /\ i < j /\ (\A k \in (i + 1)..(j - 1) : text[k] \in Basename)
         => text[j] \notin {"begin", "end", "marker", "://"}

Span(i, j, d) == [from |-> i, to |-> j, by |-> d]

------------------------------------------------------------------------------
(* The finders.  Each takes the text and returns its spans. *)

At(text, i, tokens) == i \in 1..Len(text) /\ text[i] \in tokens

\* The stretches of adjacent tokens of one class that end nowhere earlier.
Runs(text, tokens) ==
  {r \in (1..Len(text)) \X (1..Len(text)) :
     /\ r[1] <= r[2] /\ \A k \in r[1]..r[2] : text[k] \in tokens
     /\ ~At(text, r[2] + 1, tokens)}

Single(text, token, d) == {Span(i, i, d) : i \in {k \in 1..Len(text) : text[k] = token}}

\* A home directory's name may be what an earlier redaction left.
HomeSpans(text) ==
  Single(text, "home", "home_path") \cup
  {Span(i, i + 1, "home_path") :
     i \in {i \in 1..Len(text) : /\ text[i] = "/home/"
                               /\ At(text, i + 1, {Mark["home_path"]})}}

\* A directory and a name, which goes on as far as it can; of a mark or "user:"
\* only the beginning belongs to it.
AbsSpans(text) ==
  {Span(r[1], r[2], "abs_path") : r \in
     {r \in (1..Len(text)) \X (1..Len(text)) :
        /\ text[r[1]] = "/dir/" /\ r[1] <= r[2]
        /\ \A k \in (r[1] + 1)..r[2] : text[k] \in Basename
        /\ ~At(text, r[2] + 1, Basename)
        /\ r[1] < r[2] \/ At(text, r[1] + 1, Colon \cup {Mark["home_path"]})}}

\* Up to the first footer, or the header alone.
PemSpans(text) ==
  {Span(r[1], r[2], "private_key_pem") : r \in
     {r \in (1..Len(text)) \X (1..Len(text)) :
        LET ends == {k \in r[1]..Len(text) : text[k] = "end"}
        IN  /\ text[r[1]] = "begin"
            /\ IF ends = {} THEN r[2] = r[1]
               ELSE r[2] \in ends /\ \A k \in ends : r[2] <= k}}

\* Between :// and @, with one colon that has something on both sides.
UserInfo == Colon \cup LocalPart \cup {"host", Mark["home_path"]}

UrlSpans(text) ==
  {Span(r[1], r[2], "url_credentials") : r \in
     {r \in Runs(text, UserInfo) :
        /\ At(text, r[1] - 1, {"://"}) /\ At(text, r[2] + 1, {"@"})
        /\ text[r[2]] # "user:"
        /\ \E k \in r[1]..r[2] :
             /\ text[k] \in Colon
             /\ \A l \in (r[1]..r[2]) \ {k} : text[l] \notin Colon}}

\* At least 12 characters.
AuthorizationSpans(text) ==
  {Span(r[1], r[2], "authorization_credential") : r \in
     {r \in Runs(text, LocalPart \cup {"long", "host"}) :
        /\ At(text, r[1] - 1, {"bearer"})
        /\ \E k \in r[1]..r[2] : text[k] \in {"secret", "jwt", "token", "long", "host"}}}

\* Under a credential-ish key, or behind a marker in the text.
AwsSpans(text, credential) ==
  {s \in Single(text, "long", "aws_secret_access_key") :
     credential \/ At(text, s.from - 1, {"marker"})}

EmailSpans(text) ==
  {Span(r[1], r[2] + 2, "email") : r \in
     {r \in Runs(text, LocalPart) :
        /\ ~At(text, r[1] - 1, LocalPart)
        /\ At(text, r[2] + 1, {"@"}) /\ At(text, r[2] + 2, {"host"})}}

\* All candidates of the detectors that are enabled.
Candidates(text, credential, pii) ==
  HomeSpans(text) \cup PemSpans(text)
    \cup Single(text, "token", "token") \cup Single(text, "jwt", "jwt")
    \cup UrlSpans(text) \cup AuthorizationSpans(text)
    \cup AwsSpans(text, credential) \cup AbsSpans(text)
    \cup (IF pii THEN EmailSpans(text) ELSE {})

------------------------------------------------------------------------------
(* Resolution and rewriting *)

\* mutant: nothing is dropped
Contained_Never(text, s) == FALSE

\* _contained_in_any: a span inside one placeholder, which is one token here.
Contained(text, s) == s.from = s.to /\ text[s.from] \in Placeholder

\* Earliest first, then the longest, then the first of the registry.
Earlier(s, t) ==
  \/ s.from < t.from
  \/ s.from = t.from /\ s.to > t.to
  \/ s.from = t.from /\ s.to = t.to /\ Rank[s.by] < Rank[t.by]

\* _abs_path_replacement: the name behind the last slash is kept as it is.
Replacement(d) == IF d = "abs_path" THEN <<Mark[d], "/">> ELSE <<Mark[d]>>

\* The last token of a span that its replacement stands for.
Taken(s) == IF s.by = "abs_path" THEN s.from ELSE s.to

\* redact_string: where a chosen span starts its replacement, nothing for the
\* rest of what it takes, and everything else is copied.
Piece(text, spans, i) ==
  IF \E s \in spans : s.from = i
    THEN Replacement((CHOOSE s \in spans : s.from = i).by)
  ELSE IF \E s \in spans : i \in s.from..Taken(s) THEN <<>>
  ELSE <<text[i]>>

Rewritten(text, spans) ==
  LET upto[n \in 0..Len(text)] ==
        IF n = 0 THEN <<>> ELSE upto[n - 1] \o Piece(text, spans, n)
  IN  upto[Len(text)]
==============================================================================
