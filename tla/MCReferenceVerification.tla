----------------------- MODULE MCReferenceVerification -----------------------
EXTENDS ReferenceVerification

CONSTANTS p1, c1, c2, k1, k2

Sha(c) == [fn |-> "sha256", of |-> c]
File(place, at, declared) ==
  [key |-> k1, at |-> at, declared |-> declared, place |-> place, big |-> FALSE]

\* Each way a payload can be verified; the blob's URI names c1.
Files == {File("file", p1, Sha(c1)), File("file", p1, None),
          File("symlink", p1, None), File("inline", c1, Sha(c2)),
          File("inline", None, None), File("opaque", None, Sha(c1)),
          File("nowhere", None, None), File("blob", c1, Sha(c1)),
          File("blob", c1, [fn |-> "other", of |-> c1]),
          [File("blob", c1, Sha(c1)) EXCEPT !.big = TRUE]}

Renamed(f) == [f EXCEPT !.key = k2]

\* Two references, of two names or of one.
MCStreams == {<<f, g>> : f \in Files, g \in Files \cup {Renamed(h) : h \in Files}}

==============================================================================
