----------------------------- MODULE MCRedaction -----------------------------
EXTENDS Redaction

String(up, text, credential) ==
  [up |-> up, is |-> "string", text |-> text, label |-> "none", key |-> "word",
   credential |-> credential]
Holder(up, is, label) ==
  [up |-> up, is |-> is, text |-> <<>>, label |-> label, key |-> "word",
   credential |-> FALSE]

TextFile(text) == [kind |-> "text", nodes |-> <<String(0, text, FALSE)>>]

\* Two tokens of any kind, two between :// and a host with or without a top-level
\* domain, what may follow bearer, a PEM block around something, names behind a
\* directory and home directories behind each other.
Joined == {"user:", "pass", "tail", "token", "jwt", "[token]", "[url_credentials]"}

MCTexts ==
  {t \in {<<a, b>> : a \in Plain, b \in Token}
           \cup {<<"://", a, b, "@", h>> : a, b \in Joined, h \in {"host", "word"}}
           \cup {<<"bearer", a, b, "word">> : a \in Word, b \in Joined}
           \cup {<<"user:", a, b, "@", "host">> : a, b \in Joined}
           \cup {<<"begin", a, "end", b, "@">> : a \in {"word", "jwt", "[email]"},
                                                 b \in Token}
           \cup {<<"/dir/", a, "@", b>> : a \in LocalPart, b \in {"host", "word"}}
           \cup {<<"/dir/", a, b>> : a \in Basename, b \in {"tail", "/home/", "[email]"}}
           \cup {<<a, "home", "@", "host">> : a \in {"://", "/dir/", "/home/"}}
           \cup {<<"://", "user:", "home", "@", "host">>,
                 <<"/dir/", "/home/", "home", "pass">>} : WellFormed(t)}

\* A labelled object with a list below it, an unlabelled object and a labelled
\* one, each with a string, and a key that looks like a token.
Document(outer, inner, a, b, c) ==
  [kind |-> "json",
   nodes |-> <<Holder(0, "object", outer),
               Holder(1, "list", "none"), String(2, a, FALSE),
               Holder(1, "object", "none"), String(4, b, TRUE),
               [Holder(1, "object", inner) EXCEPT !.key = "token"],
               String(6, c, FALSE)>>]

Samples == {<<"word">>, <<"long">>}

Labels == {<<"safe", "none">>, <<"safe", "blocked">>, <<"none", "unknown">>,
           <<"blocked", "unknown">>, <<"unknown", "safe">>}

MCDocuments ==
  {Document(l[1], l[2], a, b, c) :
     l \in Labels,
     a \in {<<"word">>, <<"jwt">>}, b \in Samples, c \in {<<"word">>, <<"home">>}}

Other(kind) == [kind |-> kind, nodes |-> <<>>]

MCStart ==
  {<<TextFile(t), Absent>> : t \in MCTexts} \cup {<<d, Absent>> : d \in MCDocuments}
    \cup {<<TextFile(<<"pass", "@", "host">>), Other(k)>> : k \in Kind \ {"json", "text"}}
    \cup {<<TextFile(<<"pass", "@", "host">>), TextFile(<<"bearer", "jwt", "tail">>)>>}

MCVersion == {Absent, TextFile(<<"/dir/", "pass">>)}
==============================================================================
