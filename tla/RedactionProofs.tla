--------------------------- MODULE RedactionProofs ---------------------------
(***************************************************************************)
(* Proofs about `nlfr redact`, for any texts and documents, any recording  *)
(* beside the command and any commands before it: the spans it chooses, the*)
(* labels it writes and what a later check of the mirror reports.          *)
(*                                                                         *)
(* The rewriting of a text and the owner of a node are recursive           *)
(* functions.  That such a function exists and solves its equation is      *)
(* shown once (Recursion), from a rank that every call lowers; whatever    *)
(* then holds of all its values is shown of a counterexample of least rank.*)
(***************************************************************************)
EXTENDS Redaction, WellFoundedInduction, TLAPS

------------------------------------------------------------------------------
(* Least numbers and recursion *)

\* A set of naturals that is not empty has a least one.
LEMMA LeastNatural ==
  ASSUME NEW S \in SUBSET Nat, S # {}
  PROVE  \E m \in S : \A n \in S : m <= n
<1> DEFINE R == OpToRel(<, Nat)
<1>1. IsWellFoundedOn(R, Nat)  BY NatLessThanWellFounded
<1>2. \A x, y \in Nat : y < x => <<y, x>> \in R  BY DEF OpToRel
<1> HIDE DEF R
<1>3. \E x \in S : \A y \in S : ~(<<y, x>> \in R)  BY <1>1, WFMin
<1>4. PICK x \in S : \A y \in S : ~(<<y, x>> \in R)  BY <1>3
<1>5. ASSUME NEW n \in S  PROVE x <= n
  <2>1. ~(n < x)  BY <1>2, <1>4
  <2>2. x \in Nat /\ n \in Nat  OBVIOUS
  <2> QED  BY <2>1, <2>2
<1> QED  BY <1>4, <1>5

Descends(D, B, N, rank, prev) ==
  /\ N \in Nat /\ rank \in [D -> 0..N] /\ B \in SUBSET D /\ prev \in [D \ B -> D]
  /\ \A x \in D \ B : rank[prev[x]] < rank[x]
Computes(V, D, B, base, step) == base \in [B -> V] /\ step \in [D \ B -> [V -> V]]
Solves(g, D, B, prev, base, step) ==
  \A x \in D : g[x] = IF x \in B THEN base[x] ELSE step[x][g[prev[x]]]

\* A recursion that descends to its base has a solution.
LEMMA Recursion ==
  ASSUME NEW D, NEW B, NEW N, NEW rank, NEW prev, Descends(D, B, N, rank, prev),
         NEW V, NEW base, NEW step, Computes(V, D, B, base, step)
  PROVE  \E g \in [D -> V] : Solves(g, D, B, prev, base, step)
<1> USE DEF Descends, Computes, Solves
<1> DEFINE Below(n) == {x \in D : rank[x] < n}
           Good(h, n) == \A x \in Below(n) :
                           h[x] = IF x \in B THEN base[x] ELSE step[x][h[prev[x]]]
           Bad == {n \in 0..(N + 1) : ~\E h \in [Below(n) -> V] : Good(h, n)}
<1>1. Bad = {}
  <2> SUFFICES ASSUME Bad # {} PROVE FALSE  OBVIOUS
  <2>1. PICK n \in Bad : \A m \in Bad : n <= m
    <3>1. Bad \subseteq Nat  OBVIOUS
    <3> HIDE DEF Bad
    <3> QED  BY <3>1, LeastNatural
  <2>2. \A i \in 0..(N + 1) : i \in Bad <=> ~\E h \in [Below(i) -> V] : Good(h, i)
    OBVIOUS
  <2>3. n \in 0..(N + 1) /\ n # 0 /\ n - 1 \in 0..(N + 1) /\ n - 1 \notin Bad
    <3>1. n \in 0..(N + 1)  BY <2>1
    <3>2. 0 \notin Bad
      <4>1. Below(0) = {}  OBVIOUS
      <4> DEFINE nil == [x \in {} |-> x]
      <4>2. nil \in [Below(0) -> V]  BY <4>1
      <4>3. Good(nil, 0)  BY <4>1
      <4>4. 0 \in 0..(N + 1)  OBVIOUS
      <4> HIDE DEF Below, Good, Bad, nil
      <4> QED  BY <2>2, <4>2, <4>3, <4>4
    <3> HIDE DEF Bad
    <3> QED  BY <2>1, <3>1, <3>2
  <2>4. PICK h \in [Below(n - 1) -> V] : Good(h, n - 1)  BY <2>2, <2>3
  <2>5. \A x \in Below(n) \ B : prev[x] \in Below(n - 1)
    BY <2>3
  <2>6. Below(n - 1) \subseteq Below(n)  BY <2>3
  <2> DEFINE k == [x \in Below(n) |-> IF x \in B THEN base[x] ELSE step[x][h[prev[x]]]]
  <2>7. k \in [Below(n) -> V]  BY <2>5
  <2>8. \A x \in Below(n - 1) : k[x] = h[x]  BY <2>4, <2>6
  <2>9. Good(k, n)  BY <2>5, <2>8
  <2> HIDE DEF Below, Good, Bad, k
  <2> QED  BY <2>1, <2>2, <2>3, <2>7, <2>9
<1>2. Below(N + 1) = D  OBVIOUS
<1>3. N + 1 \in 0..(N + 1)  OBVIOUS
<1>4. \E h \in [Below(N + 1) -> V] : Good(h, N + 1)  BY <1>1, <1>3
<1> QED  BY <1>2, <1>4

SpanOf(text, s) ==
  /\ s.from \in 1..Len(text) /\ s.to \in 1..Len(text) /\ s.from <= s.to

------------------------------------------------------------------------------
(* What a rewritten text looks like *)

Marks == Placeholder \cup {"${HOME}"}

\* The marks, and that no token of a text is one by accident.
LEMMA MarksAre ==
  /\ Placeholder = {"[private_key_pem]", "[token]", "[jwt]", "[url_credentials]",
                    "[authorization_credential]", "[aws_secret_access_key]",
                    "[abs_path]", "[email]"}
  /\ \A d \in Detector : Mark[d] \in Marks
  /\ Marks \subseteq Token /\ Marks \cap Plain = {} /\ Plain \subseteq Token
<1>1. Detector = {"home_path", "private_key_pem", "token", "jwt", "url_credentials",
                  "authorization_credential", "aws_secret_access_key", "abs_path", "email"}
  BY DEF Detector, Mark
<1>2. Placeholder = {"[private_key_pem]", "[token]", "[jwt]", "[url_credentials]",
                    "[authorization_credential]", "[aws_secret_access_key]",
                    "[abs_path]", "[email]"}
  <2>1. /\ Mark["private_key_pem"] = "[private_key_pem]" /\ Mark["token"] = "[token]"
        /\ Mark["jwt"] = "[jwt]" /\ Mark["url_credentials"] = "[url_credentials]"
        /\ Mark["authorization_credential"] = "[authorization_credential]"
        /\ Mark["aws_secret_access_key"] = "[aws_secret_access_key]"
        /\ Mark["abs_path"] = "[abs_path]" /\ Mark["email"] = "[email]"
    BY DEF Mark
  <2>2. Detector \ {"home_path"} =
          {"private_key_pem", "token", "jwt", "url_credentials",
           "authorization_credential", "aws_secret_access_key", "abs_path", "email"}
    BY <1>1
  <2> QED  BY <2>1, <2>2 DEF Placeholder
<1>3. Mark["home_path"] = "${HOME}"  BY DEF Mark
<1>4. \A d \in Detector : Mark[d] \in Marks  BY <1>1, <1>3 DEF Marks, Placeholder
<1>5. Marks \cap Plain = {}  BY <1>2 DEF Marks, Plain
<1>6. Marks \subseteq Token  BY <1>3 DEF Token, Marks
<1> QED  BY <1>2, <1>4, <1>5, <1>6 DEF Token

\* Spans of a text by known detectors, no two of which overlap.
Apart(text, spans) ==
  /\ \A s \in spans : SpanOf(text, s) /\ s.by \in Detector
  /\ \A s, t \in spans : Overlap(s, t) => s = t

\* A token no span takes.
Kept(spans, i) == ~\E s \in spans : i \in s.from..Taken(s)

\* What stands in a rewritten text for one token of the text.
LEMMA PieceIs ==
  ASSUME NEW text \in Seq(Token), NEW spans, Apart(text, spans), NEW i \in 1..Len(text)
  PROVE  /\ Piece(text, spans, i) \in Seq(Token)
         /\ Kept(spans, i) => Piece(text, spans, i) = <<text[i]>>
         /\ \A s \in spans : s.from = i =>
              /\ Len(Piece(text, spans, i)) \in {1, 2} /\ Piece(text, spans, i)[1] = Mark[s.by]
              /\ s.by = "abs_path" => Len(Piece(text, spans, i)) = 2
              /\ Len(Piece(text, spans, i)) = 2 =>
                   Mark[s.by] = "[abs_path]" /\ Piece(text, spans, i)[2] = "/"
         /\ \A s \in spans : s.from < i /\ i <= Taken(s) => Piece(text, spans, i) = <<>>
<1> USE DEF Apart, SpanOf, Overlap, Taken
<1>1. Len(text) \in Nat /\ i \in Nat /\ text[i] \in Token  OBVIOUS
<1>2. CASE \E s \in spans : s.from = i
  <2> DEFINE first == CHOOSE s \in spans : s.from = i
  <2>1. first \in spans /\ first.from = i  BY <1>2
  <2>2. \A s \in spans : i \in s.from..s.to => s = first  BY <1>1, <2>1
  <2>3. Piece(text, spans, i) = Replacement(first.by)  BY <1>2 DEF Piece
  <2>4. first.by \in Detector  BY <2>1
  <2> HIDE DEF first
  <2>5. Mark["abs_path"] = "[abs_path]"  BY DEF Mark
  <2>6. Mark[first.by] \in Token /\ "/" \in Token  BY <2>4, MarksAre DEF Plain
  <2>7. CASE first.by = "abs_path"
    <3>1. Piece(text, spans, i) = <<Mark["abs_path"], "/">>  BY <2>3, <2>7 DEF Replacement
    <3>2. /\ Piece(text, spans, i) \in Seq(Token) /\ Len(Piece(text, spans, i)) = 2
          /\ Piece(text, spans, i)[1] = "[abs_path]" /\ Piece(text, spans, i)[2] = "/"
      BY <2>5, <2>6, <2>7, <3>1
    <3>3. \A s \in spans : s.from = i => s = first
      BY <1>1, <2>2
    <3>4. ~Kept(spans, i)
      <4>1. i \in first.from..Taken(first)  BY <1>1, <2>1, <2>7
      <4> QED  BY <2>1, <4>1 DEF Kept
    <3>5. \A s \in spans : ~(s.from < i /\ i <= Taken(s))
      <4> SUFFICES ASSUME NEW s \in spans, s.from < i, i <= Taken(s) PROVE FALSE  OBVIOUS
      <4>1. s.from \in Nat /\ s.to \in Nat /\ s.from <= s.to  OBVIOUS
      <4>2. i \in s.from..s.to  BY <1>1, <4>1
      <4> QED  BY <1>1, <2>1, <2>2, <4>1, <4>2
    <3> HIDE DEF Apart, SpanOf, Overlap, Taken
    <3> QED  BY <2>5, <2>7, <3>2, <3>3, <3>4, <3>5
  <2>8. CASE first.by # "abs_path"
    <3>1. Piece(text, spans, i) = <<Mark[first.by]>>  BY <2>3, <2>8 DEF Replacement
    <3>2. /\ Piece(text, spans, i) \in Seq(Token) /\ Len(Piece(text, spans, i)) = 1
          /\ Piece(text, spans, i)[1] = Mark[first.by]
      BY <2>6, <3>1
    <3>3. \A s \in spans : s.from = i => s = first
      BY <1>1, <2>2
    <3>4. ~Kept(spans, i)
      <4>1. i \in first.from..Taken(first)  BY <1>1, <2>1, <2>8
      <4> QED  BY <2>1, <4>1 DEF Kept
    <3>5. \A s \in spans : ~(s.from < i /\ i <= Taken(s))
      <4> SUFFICES ASSUME NEW s \in spans, s.from < i, i <= Taken(s) PROVE FALSE  OBVIOUS
      <4>1. s.from \in Nat /\ s.to \in Nat /\ s.from <= s.to  OBVIOUS
      <4>2. i \in s.from..s.to  BY <1>1, <4>1
      <4> QED  BY <1>1, <2>1, <2>2, <4>1, <4>2
    <3> HIDE DEF Apart, SpanOf, Overlap, Taken
    <3> QED  BY <2>8, <3>2, <3>3, <3>4, <3>5
  <2> QED  BY <2>7, <2>8
<1>3. CASE ~\E s \in spans : s.from = i
  <2>1. CASE Kept(spans, i)
    <3>1. Piece(text, spans, i) = <<text[i]>>  BY <1>3, <2>1 DEF Piece, Kept
    <3> QED  BY <1>1, <1>3, <2>1, <3>1 DEF Kept
  <2>2. CASE ~Kept(spans, i)
    <3>1. Piece(text, spans, i) = <<>>  BY <1>3, <2>2 DEF Piece, Kept
    <3> QED  BY <1>3, <2>2, <3>1
  <2> QED  BY <2>1, <2>2
<1> QED  BY <1>2, <1>3

\* The rewritten text is its pieces one after the other: at[i] tokens of it
\* stand for the first i tokens of the text.
Layout(text, spans, at) ==
  /\ at \in [0..Len(text) -> Nat] /\ at[0] = 0
  /\ \A i \in 1..Len(text) : at[i] = at[i - 1] + Len(Piece(text, spans, i))
  /\ Rewritten(text, spans) \in Seq(Token)
  /\ Len(Rewritten(text, spans)) = at[Len(text)]
  /\ \A i \in 1..Len(text) : \A k \in 1..Len(Piece(text, spans, i)) :
       /\ at[i - 1] + k \in 1..at[Len(text)]
       /\ Rewritten(text, spans)[at[i - 1] + k] = Piece(text, spans, i)[k]
  /\ \A p \in 1..at[Len(text)] : \E i \in 1..Len(text) : at[i - 1] < p /\ p <= at[i]

\* The pieces put together so far.
LEMMA PrefixesExist ==
  ASSUME NEW text \in Seq(Token), NEW spans, Apart(text, spans)
  PROVE  \E upto \in [0..Len(text) -> Seq(Token)] :
           /\ upto[0] = <<>> /\ Rewritten(text, spans) = upto[Len(text)]
           /\ \A n \in 1..Len(text) : upto[n] = upto[n - 1] \o Piece(text, spans, n)
<1> DEFINE D == 0..Len(text)
           B == {0}
           V == Seq(Token)
           P(n) == Piece(text, spans, n)
           rank == [n \in D |-> n]
           prev == [n \in D \ B |-> n - 1]
           base == [n \in B |-> <<>>]
           step == [n \in D \ B |-> [v \in V |-> v \o P(n)]]
<1>1. Len(text) \in Nat  OBVIOUS
<1>2. \A n \in D \ B : P(n) \in V  BY PieceIs
<1> HIDE DEF P
<1>3. PICK g \in [D -> V] : Solves(g, D, B, prev, base, step)
  <2>1. Descends(D, B, Len(text), rank, prev)  BY <1>1 DEF Descends
  <2>2. Computes(V, D, B, base, step)  BY <1>2 DEF Computes
  <2> HIDE DEF D, rank, prev, base, step, B, V
  <2> QED BY <2>1, <2>2, Recursion
<1>4. ASSUME NEW n \in D  PROVE g[n] = IF n = 0 THEN <<>> ELSE g[n - 1] \o P(n)
  <2>1. CASE n = 0  BY <1>3, <2>1 DEF Solves
  <2>2. CASE n # 0
    <3>1. n \in D \ B /\ prev[n] = n - 1 /\ n - 1 \in D  BY <1>1, <2>2
    <3>2. g[n - 1] \in V  BY <3>1
    <3>3. g[n] = step[n][g[n - 1]]  BY <1>3, <3>1 DEF Solves
    <3> QED  BY <2>2, <3>1, <3>2, <3>3
  <2> QED  BY <2>1, <2>2
<1> DEFINE u == CHOOSE f : f = [n \in 0..Len(text) |-> IF n = 0 THEN <<>> ELSE f[n - 1] \o P(n)]
<1>5. g = [n \in D |-> IF n = 0 THEN <<>> ELSE g[n - 1] \o P(n)]  BY <1>4
<1>6. u = [n \in D |-> IF n = 0 THEN <<>> ELSE u[n - 1] \o P(n)]  BY <1>5
<1>7. Rewritten(text, spans) = u[Len(text)]  BY DEF Rewritten, P
<1>8. \A n \in D : u[n] = IF n = 0 THEN <<>> ELSE u[n - 1] \o P(n)  BY <1>6
<1> HIDE DEF u
<1>9. \A n \in D : u[n] \in V
  <2> DEFINE Bad == {n \in D : u[n] \notin V}
  <2> SUFFICES ASSUME Bad # {} PROVE FALSE  OBVIOUS
  <2>1. Bad \subseteq Nat  BY <1>1
  <2>2. PICK n \in Bad : \A m \in Bad : n <= m
    <3> HIDE DEF Bad
    <3> QED  BY <2>1, LeastNatural
  <2>3. n # 0
    <3>1. u[0] = <<>>  BY <1>1, <1>8
    <3>2. <<>> \in V  OBVIOUS
    <3>3. u[n] \notin V  BY <2>2
    <3> QED  BY <3>1, <3>2, <3>3
  <2>4. n - 1 \in D /\ n - 1 \notin Bad /\ n \in D \ B  BY <1>1, <2>2, <2>3
  <2>5. u[n] = u[n - 1] \o P(n)  BY <1>8, <2>3
  <2>6. u[n - 1] \in V /\ P(n) \in V  BY <1>2, <2>4
  <2>7. u[n] \notin V  BY <2>2
  <2> QED  BY <2>5, <2>6, <2>7
<1>10. DOMAIN u = D  BY <1>6
<1>11. u \in [D -> V]  BY <1>6, <1>9, <1>10
<1>12. u[0] = <<>>  BY <1>1, <1>8
<1>13. ASSUME NEW n \in 1..Len(text)  PROVE u[n] = u[n - 1] \o P(n)
  <2>1. n \in D /\ n # 0  BY <1>1
  <2> QED  BY <1>8, <2>1
<1> QED  BY <1>7, <1>11, <1>12, <1>13 DEF P

\* A sequence with one more piece at its end.
LEMMA Joining ==
  ASSUME NEW V, NEW s \in Seq(V), NEW t \in Seq(V)
  PROVE  /\ Len(s \o t) = Len(s) + Len(t) /\ Len(t) \in Nat
         /\ \A q \in 1..Len(s) : (s \o t)[q] = s[q]
         /\ \A k \in 1..Len(t) : (s \o t)[Len(s) + k] = t[k]
  OBVIOUS

\* Where in the rewritten text the piece of each token ends.
LEMMA LayoutExists ==
  ASSUME NEW text \in Seq(Token), NEW spans, Apart(text, spans)
  PROVE  \E at : Layout(text, spans, at)
<1> DEFINE L == Len(text)
           P(n) == Piece(text, spans, n)
<1>1. PICK u \in [0..L -> Seq(Token)] :
           /\ u[0] = <<>> /\ Rewritten(text, spans) = u[L]
           /\ \A n \in 1..L : u[n] = u[n - 1] \o P(n)
  BY PrefixesExist
<1>2. L \in Nat /\ \A n \in 1..L : P(n) \in Seq(Token) /\ n - 1 \in 0..L /\ n \in 0..L
  BY PieceIs
<1> HIDE DEF P, L
<1> DEFINE at == [n \in 0..L |-> Len(u[n])]
<1>3. at \in [0..L -> Nat] /\ at[0] = 0
  <2>1. \A n \in 0..L : Len(u[n]) \in Nat  BY <1>1
  <2>2. 0 \in 0..L /\ Len(u[0]) = 0  BY <1>1, <1>2
  <2> QED  BY <2>1, <2>2
<1>4. ASSUME NEW i \in 1..L
      PROVE  /\ at[i] = at[i - 1] + Len(P(i)) /\ Len(P(i)) \in Nat
             /\ \A q \in 1..at[i - 1] : u[i][q] = u[i - 1][q]
             /\ \A k \in 1..Len(P(i)) : u[i][at[i - 1] + k] = P(i)[k]
  <2>1. u[i] = u[i - 1] \o P(i) /\ u[i - 1] \in Seq(Token) /\ P(i) \in Seq(Token)
    BY <1>1, <1>2
  <2>2. at[i - 1] = Len(u[i - 1]) /\ at[i] = Len(u[i])  BY <1>2
  <2> HIDE DEF at
  <2> QED  BY <2>1, <2>2, Joining
<1> HIDE DEF at
\* what is there stays there
<1>5. ASSUME NEW i \in 0..L, NEW j \in 0..L, i <= j
      PROVE  at[i] <= at[j] /\ \A q \in 1..at[i] : u[j][q] = u[i][q]
  <2> DEFINE Bad == {m \in i..L : ~(at[i] <= at[m] /\ \A q \in 1..at[i] : u[m][q] = u[i][q])}
  <2>1. Bad = {}
    <3> SUFFICES ASSUME Bad # {} PROVE FALSE  OBVIOUS
    <3>1. Bad \subseteq Nat  BY <1>2
    <3>2. PICK m \in Bad : \A k \in Bad : m <= k
      <4> HIDE DEF Bad
      <4> QED  BY <3>1, LeastNatural
    <3>3. m \in i..L /\ ~(at[i] <= at[m] /\ \A q \in 1..at[i] : u[m][q] = u[i][q])
      BY <3>2
    <3>4. m # i  BY <1>3, <3>3
    <3>5. m - 1 \in i..L /\ m \in 1..L /\ m - 1 \in 0..L  BY <1>2, <3>3, <3>4
    <3>6. m - 1 \notin Bad  BY <1>2, <3>2, <3>5
    <3>7. at[i] <= at[m - 1] /\ \A q \in 1..at[i] : u[m - 1][q] = u[i][q]
      BY <3>5, <3>6
    <3>8. at[i] \in Nat /\ at[m - 1] \in Nat  BY <1>3, <3>5
    <3>9. at[i] <= at[m]  BY <1>4, <3>5, <3>7, <3>8
    <3>10. ASSUME NEW q \in 1..at[i]  PROVE u[m][q] = u[i][q]
      <4>1. q \in 1..at[m - 1]  BY <3>7, <3>8
      <4> QED  BY <1>4, <3>5, <3>7, <4>1
    <3> QED  BY <3>3, <3>9, <3>10
  <2>2. j \in i..L  BY <1>2, <1>5
  <2> QED  BY <2>1, <2>2
<1>6. L \in 0..L  BY <1>2
<1>7. Rewritten(text, spans) \in Seq(Token) /\ Len(Rewritten(text, spans)) = at[L]
  BY <1>1, <1>6 DEF at
<1>8. ASSUME NEW i \in 1..L, NEW k \in 1..Len(P(i))
      PROVE  /\ at[i - 1] + k \in 1..at[L]
             /\ Rewritten(text, spans)[at[i - 1] + k] = P(i)[k]
  <2>1. i \in 0..L /\ i - 1 \in 0..L /\ i <= L  BY <1>2
  <2>2. at[i - 1] \in Nat /\ at[i] \in Nat /\ at[L] \in Nat  BY <1>3, <1>6, <2>1
  <2>3. at[i - 1] + k \in 1..at[i]  BY <1>4, <2>2
  <2>4. at[i] <= at[L] /\ u[L][at[i - 1] + k] = u[i][at[i - 1] + k]
    BY <1>5, <1>6, <2>1, <2>3
  <2> QED  BY <1>1, <1>4, <2>2, <2>3, <2>4
<1>9. ASSUME NEW p \in 1..at[L]
      PROVE  \E i \in 1..L : at[i - 1] < p /\ p <= at[i]
  <2> DEFINE Past == {i \in 0..L : p <= at[i]}
  <2>1. Past \subseteq Nat /\ L \in Past  BY <1>2, <1>3, <1>6
  <2>2. PICK i \in Past : \A j \in Past : i <= j
    <3> HIDE DEF Past
    <3> QED  BY <2>1, LeastNatural
  <2>3. i # 0  BY <1>3, <2>2
  <2>4. i \in 1..L /\ i - 1 \in 0..L /\ i - 1 \notin Past /\ p <= at[i]
    BY <1>2, <2>2, <2>3
  <2>5. at[i - 1] \in Nat  BY <1>3, <2>4
  <2> QED  BY <2>4, <2>5
<1>10. \A i \in 1..L : at[i] = at[i - 1] + Len(P(i))  BY <1>4
<1>11. Layout(text, spans, at)
  BY <1>3, <1>7, <1>8, <1>9, <1>10 DEF Layout, L, P
<1> QED  BY <1>11

------------------------------------------------------------------------------
(* What a rewritten text is made of *)

\* Token p of the rewritten text is the kept token i of the text.
CopyOf(text, spans, at, p, i) ==
  /\ i \in 1..Len(text) /\ Kept(spans, i) /\ at[i] = p /\ at[i - 1] = p - 1
  /\ p \in 1..Len(Rewritten(text, spans)) /\ Rewritten(text, spans)[p] = text[i]

\* A token outside all spans is in the rewritten text.
LEMMA KeptIsCopied ==
  ASSUME NEW text \in Seq(Token), NEW spans, Apart(text, spans),
         NEW at, Layout(text, spans, at), NEW i \in 1..Len(text), Kept(spans, i)
  PROVE  CopyOf(text, spans, at, at[i - 1] + 1, i)
<1>1. Len(text) \in Nat /\ i - 1 \in 0..Len(text) /\ at[i - 1] \in Nat  BY DEF Layout
<1>2. Piece(text, spans, i) = <<text[i]>>  BY PieceIs
<1>3. Len(Piece(text, spans, i)) = 1 /\ Piece(text, spans, i)[1] = text[i]  BY <1>2
<1>4. at[i] = at[i - 1] + 1  BY <1>3 DEF Layout
<1>5. /\ at[i - 1] + 1 \in 1..at[Len(text)]
      /\ Rewritten(text, spans)[at[i - 1] + 1] = Piece(text, spans, i)[1]
  <2>1. 1 \in 1..Len(Piece(text, spans, i))  BY <1>3
  <2> QED  BY <1>3, <2>1 DEF Layout
<1>6. Len(Rewritten(text, spans)) = at[Len(text)]  BY DEF Layout
<1> QED  BY <1>1, <1>3, <1>4, <1>5, <1>6 DEF CopyOf

\* A token is copied, or a mark, or the slash behind one.
LEMMA TokenComesFrom ==
  ASSUME NEW text \in Seq(Token), NEW spans, Apart(text, spans),
         NEW at, Layout(text, spans, at), NEW p \in 1..Len(Rewritten(text, spans))
  PROVE  \/ \E i \in 1..Len(text) : CopyOf(text, spans, at, p, i)
         \/ Rewritten(text, spans)[p] \in Marks
         \/ /\ Rewritten(text, spans)[p] = "/" /\ p - 1 \in 1..Len(Rewritten(text, spans))
            /\ Rewritten(text, spans)[p - 1] = "[abs_path]"
<1> DEFINE P(i) == Piece(text, spans, i)
           T == Rewritten(text, spans)
<1>1. PICK i \in 1..Len(text) : at[i - 1] < p /\ p <= at[i]  BY DEF Layout
<1>2. Len(text) \in Nat /\ i - 1 \in 0..Len(text) /\ at[i - 1] \in Nat
  <2>1. at \in [0..Len(text) -> Nat]  BY DEF Layout
  <2> QED  BY <2>1
<1>3. P(i) \in Seq(Token) /\ at[i] = at[i - 1] + Len(P(i))  BY PieceIs DEF Layout
<1>4. \A k \in 1..Len(P(i)) : at[i - 1] + k \in 1..Len(T) /\ T[at[i - 1] + k] = P(i)[k]
  BY DEF Layout
<1>5. CASE Kept(spans, i)
  <2>1. P(i) = <<text[i]>>  BY <1>5, PieceIs
  <2>2. Len(P(i)) = 1  BY <2>1
  <2>3. p = at[i - 1] + 1  BY <1>1, <1>2, <1>3, <2>2
  <2> QED  BY <1>5, <2>3, KeptIsCopied
<1>6. ASSUME NEW s \in spans, s.from = i  PROVE T[p] \in Marks \/ (T[p] = "/" /\ p - 1 \in 1..Len(T) /\ T[p - 1] = "[abs_path]")
  <2>1. /\ Len(P(i)) \in {1, 2} /\ P(i)[1] = Mark[s.by]
        /\ Len(P(i)) = 2 => Mark[s.by] = "[abs_path]" /\ P(i)[2] = "/"
    BY <1>6, PieceIs
  <2>2. Mark[s.by] \in Marks  BY MarksAre DEF Apart
  <2>3. p = at[i - 1] + 1 \/ (Len(P(i)) = 2 /\ p = at[i - 1] + 2)
    <3> DEFINE l == Len(P(i))
    <3>1. l \in {1, 2} /\ at[i] = at[i - 1] + l  BY <1>3, <2>1
    <3>2. at[i] \in Nat  BY DEF Layout
    <3> HIDE DEF l
    <3>3. p \in Nat  OBVIOUS
    <3>4. p = at[i - 1] + 1 \/ (l = 2 /\ p = at[i - 1] + 2)  BY <1>1, <1>2, <3>1, <3>3
    <3> QED  BY <3>4 DEF l
  <2>4. 1 \in 1..Len(P(i)) /\ (Len(P(i)) = 2 => 2 \in 1..Len(P(i)))  BY <2>1
  <2>5. at[i - 1] + 1 \in 1..Len(T) /\ T[at[i - 1] + 1] = Mark[s.by]
    BY <1>4, <2>1, <2>4
  <2>6. CASE p = at[i - 1] + 1  BY <2>2, <2>5, <2>6
  <2>7. CASE Len(P(i)) = 2 /\ p = at[i - 1] + 2
    <3>1. T[p] = "/"  BY <1>4, <2>1, <2>4, <2>7
    <3>2. p - 1 = at[i - 1] + 1  BY <1>2, <2>7
    <3> QED  BY <2>1, <2>5, <2>7, <3>1, <3>2
  <2> QED  BY <2>3, <2>6, <2>7
<1>7. ASSUME NEW s \in spans, i \in s.from..Taken(s), s.from # i  PROVE FALSE
  <2>1. SpanOf(text, s)  BY DEF Apart
  <2>2. s.from < i /\ i <= Taken(s)  BY <1>7, <2>1 DEF SpanOf, Taken
  <2>3. P(i) = <<>>  BY <2>2, PieceIs
  <2>4. Len(P(i)) = 0  BY <2>3
  <2> QED  BY <1>1, <1>2, <1>3, <2>4
<1> QED  BY <1>5, <1>6, <1>7 DEF Kept

\* What stands behind a copied token is copied from behind it, or a mark.
LEMMA NextIsCopied ==
  ASSUME NEW text \in Seq(Token), NEW spans, Apart(text, spans),
         NEW at, Layout(text, spans, at), NEW p, NEW i, CopyOf(text, spans, at, p, i),
         p + 1 \in 1..Len(Rewritten(text, spans)),
         Rewritten(text, spans)[p + 1] \notin Marks
  PROVE  CopyOf(text, spans, at, p + 1, i + 1)
<1> DEFINE P(j) == Piece(text, spans, j)
           T == Rewritten(text, spans)
<1>1. Len(text) \in Nat /\ i \in 1..Len(text) /\ at[i] = p /\ p \in 1..Len(T)
  BY DEF CopyOf
<1>2. i + 1 \in 1..Len(text)
  <2>1. CASE i = Len(text)
    <3>1. Len(T) = p  BY <1>1, <2>1 DEF Layout
    <3> QED  BY <1>1, <3>1
  <2> QED  BY <1>1, <2>1
<1>3. CASE Kept(spans, i + 1)
  <2>1. CopyOf(text, spans, at, at[(i + 1) - 1] + 1, i + 1)  BY <1>2, <1>3, KeptIsCopied
  <2>2. (i + 1) - 1 = i  BY <1>1
  <2> QED  BY <1>1, <2>1, <2>2
<1>4. CASE ~Kept(spans, i + 1)
  <2>1. PICK s \in spans : i + 1 \in s.from..Taken(s)  BY <1>4 DEF Kept
  <2>2. SpanOf(text, s) /\ s.by \in Detector  BY DEF Apart
  <2>3. ~(i \in s.from..Taken(s))  BY DEF CopyOf, Kept
  <2>4. s.from = i + 1  BY <1>1, <2>1, <2>2, <2>3 DEF SpanOf, Taken
  <2>5. Len(P(i + 1)) \in {1, 2} /\ P(i + 1)[1] = Mark[s.by]  BY <1>2, <2>4, PieceIs
  <2>6. 1 \in 1..Len(P(i + 1))  BY <2>5
  <2>7. T[at[(i + 1) - 1] + 1] = P(i + 1)[1]  BY <1>2, <2>6 DEF Layout
  <2>8. (i + 1) - 1 = i  BY <1>1
  <2>9. T[p + 1] = Mark[s.by]  BY <1>1, <2>5, <2>7, <2>8
  <2> QED  BY <2>2, <2>9, MarksAre
<1> QED  BY <1>3, <1>4

\* A stretch of tokens without a mark.
Unmarked(text, p, q) == q \in p..Len(text) /\ \A k \in p..q : text[k] \notin Marks

\* A stretch without a mark is copied as a whole.
LEMMA StretchIsCopied ==
  ASSUME NEW text \in Seq(Token), NEW spans, Apart(text, spans),
         NEW at, Layout(text, spans, at), NEW p, NEW i, CopyOf(text, spans, at, p, i),
         NEW q, Unmarked(Rewritten(text, spans), p, q)
  PROVE  \A k \in p..q : CopyOf(text, spans, at, k, i + (k - p))
<1> DEFINE T == Rewritten(text, spans)
           Bad == {k \in p..q : ~CopyOf(text, spans, at, k, i + (k - p))}
<1>1. Len(T) \in Nat /\ p \in 1..Len(T) /\ i \in Nat
  BY DEF CopyOf, Layout
<1>0. q \in p..Len(T) /\ \A k \in p..q : T[k] \notin Marks  BY DEF Unmarked
<1>2. Bad \subseteq Nat  BY <1>0, <1>1
<1> SUFFICES ASSUME Bad # {} PROVE FALSE  OBVIOUS
<1>3. PICK k \in Bad : \A m \in Bad : k <= m
  <2> HIDE DEF Bad
  <2> QED  BY <1>2, LeastNatural
<1>4. k \in p..q /\ ~CopyOf(text, spans, at, k, i + (k - p))  BY <1>3
<1>5. k # p
  <2>1. i + (p - p) = i  BY <1>1
  <2> QED  BY <1>4, <2>1
<1>6. k - 1 \in p..q /\ k - 1 \notin Bad /\ (k - 1) + 1 = k /\ k \in 1..Len(T)
  BY <1>0, <1>1, <1>3, <1>4, <1>5
<1>7. CopyOf(text, spans, at, k - 1, i + ((k - 1) - p))  BY <1>6
<1>8. (i + ((k - 1) - p)) + 1 = i + (k - p)  BY <1>0, <1>1, <1>4
<1>9. T[(k - 1) + 1] \notin Marks /\ (k - 1) + 1 \in 1..Len(T)  BY <1>0, <1>4, <1>6
<1>10. CopyOf(text, spans, at, (k - 1) + 1, (i + ((k - 1) - p)) + 1)
  BY <1>7, <1>9, NextIsCopied
<1> QED  BY <1>4, <1>6, <1>8, <1>10

\* Nothing chosen, nothing changed.
LEMMA NoSpansNoChange ==
  ASSUME NEW text \in Seq(Token)
  PROVE  Rewritten(text, {}) = text
<1>1. Apart(text, {})  BY DEF Apart
<1>2. PICK at : Layout(text, {}, at)  BY <1>1, LayoutExists
<1>3. \A i \in 1..Len(text) : CopyOf(text, {}, at, at[i - 1] + 1, i)
  BY <1>1, <1>2, KeptIsCopied DEF Kept
<1> DEFINE Bad == {i \in 0..Len(text) : at[i] # i}
<1>4. Bad = {}
  <2> SUFFICES ASSUME Bad # {} PROVE FALSE  OBVIOUS
  <2>1. Bad \subseteq Nat  OBVIOUS
  <2>2. PICK i \in Bad : \A j \in Bad : i <= j
    <3> HIDE DEF Bad
    <3> QED  BY <2>1, LeastNatural
  <2>3. i # 0  BY <1>2, <2>2 DEF Layout
  <2>4. i \in 1..Len(text) /\ i - 1 \in 0..Len(text) /\ i - 1 \notin Bad  BY <2>2, <2>3
  <2>5. at[i] = at[i - 1] + 1  BY <1>3, <2>4 DEF CopyOf
  <2> QED  BY <2>2, <2>4, <2>5
<1>5. Len(text) \in Nat /\ Rewritten(text, {}) \in Seq(Token)
  /\ Len(Rewritten(text, {})) = Len(text)
  BY <1>2, <1>4 DEF Layout
<1>6. ASSUME NEW i \in 1..Len(text)  PROVE Rewritten(text, {})[i] = text[i]
  <2>1. i - 1 \in 0..Len(text)  OBVIOUS
  <2>2. at[i - 1] + 1 = i  BY <1>4, <2>1
  <2> QED  BY <1>3, <2>2 DEF CopyOf
<1> QED  BY <1>5, <1>6

------------------------------------------------------------------------------
(* Candidates and the spans that resolve them *)

\* Every detector returns spans of the text it was given.
LEMMA CandidatesAreSpans ==
  ASSUME NEW text \in Seq(Token), NEW credential, NEW pii,
         NEW s \in Candidates(text, credential, pii)
  PROVE  SpanOf(text, s)
<1> USE DEF SpanOf, Span
<1>1. Len(text) \in Nat  OBVIOUS
<1>2. ASSUME NEW token, NEW d, s \in Single(text, token, d)  PROVE SpanOf(text, s)
  BY <1>1, <1>2 DEF Single
<1>3. ASSUME NEW tokens, NEW r \in Runs(text, tokens)
      PROVE  /\ r[1] \in 1..Len(text) /\ r[2] \in 1..Len(text) /\ r[1] <= r[2]
             /\ r = <<r[1], r[2]>>
  BY <1>1, <1>3 DEF Runs
<1>4. CASE s \in PemSpans(text)  BY <1>1, <1>4 DEF PemSpans
<1>5. CASE s \in UrlSpans(text)
  <2>1. PICK r \in Runs(text, UserInfo) :
          s = Span(r[1], r[2], "url_credentials")
    BY <1>5 DEF UrlSpans
  <2> QED  BY <1>3, <2>1
<1>6. CASE s \in AuthorizationSpans(text)
  <2>1. PICK r \in Runs(text, LocalPart \cup {"long", "host"}) :
          s = Span(r[1], r[2], "authorization_credential")
    BY <1>6 DEF AuthorizationSpans
  <2> QED  BY <1>3, <2>1
<1>7. CASE s \in EmailSpans(text)
  <2>1. PICK r \in Runs(text, LocalPart) : /\ s = Span(r[1], r[2] + 2, "email")
                                           /\ At(text, r[2] + 2, {"host"})
    BY <1>7 DEF EmailSpans
  <2> QED  BY <1>1, <1>3, <2>1 DEF At
<1>8. CASE s \in AwsSpans(text, credential)
  BY <1>2, <1>8 DEF AwsSpans
<1>9. CASE s \in HomeSpans(text)
  BY <1>1, <1>2, <1>9 DEF HomeSpans, At
<1>10. CASE s \in AbsSpans(text)
  BY <1>1, <1>10 DEF AbsSpans
<1> QED  BY <1>2, <1>4, <1>5, <1>6, <1>7, <1>8, <1>9, <1>10 DEF Candidates

\* What the resolution of one string leaves chosen.
Resolved(text, credential, pii, spans) ==
  /\ spans \subseteq {s \in Candidates(text, credential, pii) : ~Contained(text, s)}
  /\ \A s, t \in spans : Overlap(s, t) => s = t
  /\ \A s \in Candidates(text, credential, pii) :
       Contained(text, s) \/ \E c \in spans : (c = s \/ Earlier(c, s)) /\ Overlap(c, s)

\* A span is named by its detector.
LEMMA SpansAreNamed ==
  ASSUME NEW text, NEW credential, NEW pii, NEW s \in Candidates(text, credential, pii)
  PROVE  s.by \in Detector
<1> USE DEF Span
<1>1. Detector = {"home_path", "private_key_pem", "token", "jwt", "url_credentials",
                  "authorization_credential", "aws_secret_access_key", "abs_path", "email"}
  BY DEF Detector, Mark
<1>2. \A token, d : s \in Single(text, token, d) => s.by = d  BY DEF Single
<1>3. CASE s \in HomeSpans(text)  BY <1>1, <1>2, <1>3 DEF HomeSpans
<1>4. CASE s \in PemSpans(text)  BY <1>1, <1>4 DEF PemSpans
<1>5. CASE s \in UrlSpans(text)  BY <1>1, <1>5 DEF UrlSpans
<1>6. CASE s \in AuthorizationSpans(text)  BY <1>1, <1>6 DEF AuthorizationSpans
<1>7. CASE s \in AwsSpans(text, credential)  BY <1>1, <1>2, <1>7 DEF AwsSpans
<1>8. CASE s \in AbsSpans(text)  BY <1>1, <1>8 DEF AbsSpans
<1>9. CASE s \in EmailSpans(text)  BY <1>1, <1>9 DEF EmailSpans
<1> QED
  BY <1>1, <1>2, <1>3, <1>4, <1>5, <1>6, <1>7, <1>8, <1>9 DEF Candidates

\* A key that is the marker is no candidate.
LEMMA MarkerIsNoSecret ==
  ASSUME NEW pii
  PROVE  Candidates(<<"marker">>, FALSE, pii) = {}
<1> DEFINE text == <<"marker">>
<1>1. Len(text) = 1 /\ text[1] = "marker"  OBVIOUS
<1>2. \A i \in 1..Len(text) : text[i] = "marker"  BY <1>1
<1>3. \A tokens : "marker" \notin tokens => Runs(text, tokens) = {}
  BY <1>1, <1>2 DEF Runs
<1> HIDE DEF text
<1>4. \A token, d : token # "marker" => Single(text, token, d) = {}
  BY <1>2 DEF Single
<1>5. HomeSpans(text) = {} /\ Single(text, "token", "token") = {}
      /\ Single(text, "jwt", "jwt") = {} /\ AwsSpans(text, FALSE) = {}
  <2>1. {i \in 1..Len(text) : /\ text[i] = "/home/"
                              /\ At(text, i + 1, {Mark["home_path"]})} = {}
    BY <1>2
  <2> QED  BY <1>4, <2>1 DEF HomeSpans, AwsSpans
<1>6. PemSpans(text) = {} /\ AbsSpans(text) = {}
  BY <1>2 DEF PemSpans, AbsSpans
<1>7. UrlSpans(text) = {}
  <2>1. "marker" \notin UserInfo
    BY MarksAre DEF UserInfo, Colon, LocalPart, Mark
  <2> QED  BY <1>3, <2>1 DEF UrlSpans
<1>8. AuthorizationSpans(text) = {} /\ EmailSpans(text) = {}
  <2>1. "marker" \notin LocalPart \cup {"long", "host"} /\ "marker" \notin LocalPart
    BY DEF LocalPart
  <2> QED  BY <1>3, <2>1 DEF AuthorizationSpans, EmailSpans
<1>9. Candidates(text, FALSE, pii) = {}
  BY <1>5, <1>6, <1>7, <1>8 DEF Candidates
<1> QED  BY <1>9 DEF text

\* Resolved spans are spans of the text and do not overlap.
LEMMA ResolvedIsApart ==
  ASSUME NEW text \in Seq(Token), NEW credential, NEW pii, NEW spans,
         Resolved(text, credential, pii, spans)
  PROVE  Apart(text, spans)
  BY CandidatesAreSpans, SpansAreNamed DEF Resolved, Apart

\* A path is a directory and then its name.
LEMMA AbsSpanIs ==
  ASSUME NEW text \in Seq(Token), NEW credential, NEW pii,
         NEW s \in Candidates(text, credential, pii), s.by = "abs_path"
  PROVE  /\ s \in AbsSpans(text) /\ text[s.from] = "/dir/"
         /\ \A k \in (s.from + 1)..s.to : text[k] \in Basename
         /\ ~At(text, s.to + 1, Basename)
<1>1. s \in AbsSpans(text)
  BY DEF Candidates, Single, HomeSpans, PemSpans, UrlSpans, AuthorizationSpans,
         AwsSpans, EmailSpans, Span
<1>2. PICK r \in (1..Len(text)) \X (1..Len(text)) :
        /\ s = Span(r[1], r[2], "abs_path") /\ text[r[1]] = "/dir/"
        /\ \A k \in (r[1] + 1)..r[2] : text[k] \in Basename
        /\ ~At(text, r[2] + 1, Basename)
  BY <1>1 DEF AbsSpans
<1>3. s.from = r[1] /\ s.to = r[2]  BY <1>2 DEF Span
<1> QED  BY <1>1, <1>2, <1>3

\* The start of a candidate does not survive, unless it is inside a placeholder
\* or in the name that a path keeps.
LEMMA KeptStart ==
  ASSUME NEW text \in Seq(Token), NEW credential, NEW pii, NEW spans,
         Resolved(text, credential, pii, spans),
         NEW s \in Candidates(text, credential, pii), ~Contained(text, s),
         Kept(spans, s.from)
  PROVE  \E c \in spans :
           /\ c.by = "abs_path" /\ c.from < s.from /\ s.from <= c.to
           /\ text[s.from] \in Basename
           /\ text[s.from - 1] \in Basename \cup {"/dir/"}
<1>1. PICK c \in spans : (c = s \/ Earlier(c, s)) /\ Overlap(c, s)  BY DEF Resolved
<1>2. SpanOf(text, s) /\ SpanOf(text, c) /\ c \in Candidates(text, credential, pii)
  BY CandidatesAreSpans DEF Resolved
<1>3. c.from <= s.from /\ s.from <= c.to  BY <1>1, <1>2 DEF Earlier, Overlap, SpanOf
<1>4. ~(s.from \in c.from..Taken(c))  BY DEF Kept
<1>5. c.by = "abs_path" /\ c.from < s.from  BY <1>2, <1>3, <1>4 DEF Taken, SpanOf
<1>6. s.from \in (c.from + 1)..c.to /\ (s.from - 1 = c.from \/ s.from - 1 \in (c.from + 1)..c.to)
  BY <1>2, <1>3, <1>5 DEF SpanOf
<1>7. text[c.from] = "/dir/" /\ \A k \in (c.from + 1)..c.to : text[k] \in Basename
  BY <1>2, <1>5, AbsSpanIs
<1> QED  BY <1>3, <1>5, <1>6, <1>7

\* How a candidate may start.
LEMMA StartsOf ==
  ASSUME NEW text \in Seq(Token), NEW credential, NEW pii,
         NEW s \in Candidates(text, credential, pii)
  PROVE  text[s.from] # "@" /\ (text[s.from] \in Marks => s \in UrlSpans(text))
<1> USE DEF Span
<1>1. CASE s \in HomeSpans(text) \cup Single(text, "token", "token")
             \cup Single(text, "jwt", "jwt") \cup AbsSpans(text)
             \cup AwsSpans(text, credential)
  <2>1. text[s.from] \in {"home", "/home/", "token", "jwt", "/dir/", "long"}
    BY <1>1 DEF Single, HomeSpans, AwsSpans, AbsSpans
  <2> QED  BY <2>1, MarksAre DEF Plain
<1>2. CASE s \in PemSpans(text)
  <2>1. text[s.from] = "begin"  BY <1>2 DEF PemSpans
  <2> QED  BY <2>1, MarksAre DEF Plain
<1>3. ASSUME NEW tokens, NEW r \in Runs(text, tokens)
      PROVE  text[r[1]] \in tokens
  BY <1>3 DEF Runs
<1>4. CASE s \in UrlSpans(text)
  <2>1. PICK r \in Runs(text, UserInfo) :
          s = Span(r[1], r[2], "url_credentials")
    BY <1>4 DEF UrlSpans
  <2>2. text[s.from] \in UserInfo  BY <1>3, <2>1
  <2> QED  BY <1>4, <2>2, MarksAre DEF UserInfo, Colon, LocalPart, Mark
<1>5. CASE s \in AuthorizationSpans(text)
  <2>1. PICK r \in Runs(text, LocalPart \cup {"long", "host"}) :
          s = Span(r[1], r[2], "authorization_credential")
    BY <1>5 DEF AuthorizationSpans
  <2>2. text[s.from] \in LocalPart \cup {"long", "host"}  BY <1>3, <2>1
  <2> QED  BY <2>2, MarksAre DEF LocalPart, Plain
<1>6. CASE s \in EmailSpans(text)
  <2>1. PICK r \in Runs(text, LocalPart) : s = Span(r[1], r[2] + 2, "email")
    BY <1>6 DEF EmailSpans
  <2>2. text[s.from] \in LocalPart  BY <1>3, <2>1
  <2> QED  BY <2>2, MarksAre DEF LocalPart, Plain
<1> QED  BY <1>1, <1>2, <1>4, <1>5, <1>6 DEF Candidates

\* A url credential starts behind :// and ends before @.
LEMMA UrlSpanIs ==
  ASSUME NEW text \in Seq(Token), NEW s \in UrlSpans(text)
  PROVE  /\ s.by = "url_credentials" /\ At(text, s.from - 1, {"://"})
         /\ s.to + 1 \in 1..Len(text) /\ text[s.to + 1] = "@"
         /\ \A k \in s.from..s.to : text[k] # "@" /\ text[k] \in UserInfo
<1>1. PICK r \in Runs(text, UserInfo) :
        /\ s = Span(r[1], r[2], "url_credentials")
        /\ At(text, r[1] - 1, {"://"}) /\ At(text, r[2] + 1, {"@"})
  BY DEF UrlSpans
<1>2. \A k \in r[1]..r[2] : text[k] \in UserInfo
  BY DEF Runs
<1>3. "@" \notin UserInfo  BY MarksAre DEF UserInfo, Colon, LocalPart, Mark
<1>4. s.by = "url_credentials" /\ s.from = r[1] /\ s.to = r[2]  BY <1>1 DEF Span
<1> QED  BY <1>1, <1>2, <1>3, <1>4 DEF At

\* What was rewritten is not what it was.
LEMMA SpansChange ==
  ASSUME NEW text \in Seq(Token), NEW credential, NEW pii, NEW spans,
         Resolved(text, credential, pii, spans), spans # {}
  PROVE  Rewritten(text, spans) # text
<1> SUFFICES ASSUME Rewritten(text, spans) = text PROVE FALSE  OBVIOUS
<1>1. Apart(text, spans)  BY ResolvedIsApart
<1>2. PICK at : Layout(text, spans, at)  BY <1>1, LayoutExists
<1> DEFINE Froms == {s.from : s \in spans}
<1>3. PICK s \in spans : \A t \in spans : s.from <= t.from
  <2>1. Froms \subseteq Nat /\ Froms # {}  BY <1>1 DEF Apart, SpanOf
  <2>2. PICK i \in Froms : \A j \in Froms : i <= j
    <3> HIDE DEF Froms
    <3> QED  BY <2>1, LeastNatural
  <2> QED  BY <2>2
<1>4. SpanOf(text, s) /\ s.by \in Detector /\ s \in Candidates(text, credential, pii)
      /\ ~Contained(text, s)
  BY <1>1 DEF Apart, Resolved
<1>5. Len(text) \in Nat /\ at \in [0..Len(text) -> Nat] /\ at[0] = 0
  <2>1. at \in [0..Len(text) -> Nat] /\ at[0] = 0  BY <1>2 DEF Layout
  <2>2. Len(text) \in Nat  OBVIOUS
  <2> QED  BY <2>1, <2>2
<1>6. \A i \in 0..(s.from - 1) : at[i] = i
  <2> DEFINE Bad == {i \in 0..(s.from - 1) : at[i] # i}
  <2> SUFFICES ASSUME Bad # {} PROVE FALSE  OBVIOUS
  <2>1. Bad \subseteq Nat  BY <1>4 DEF SpanOf
  <2>2. PICK i \in Bad : \A j \in Bad : i <= j
    <3> HIDE DEF Bad
    <3> QED  BY <2>1, LeastNatural
  <2>3. i # 0  BY <1>5, <2>2
  <2>4. i \in 1..Len(text) /\ i < s.from /\ i - 1 \in 0..(s.from - 1) /\ i - 1 \notin Bad
    <3>1. s.from \in Nat /\ s.from <= Len(text) /\ i \in 0..(s.from - 1)
      BY <1>4, <1>5, <2>2 DEF SpanOf
    <3>2. i \in Nat /\ i - 1 \in 0..(s.from - 1) /\ i \in 1..Len(text) /\ i < s.from
      BY <1>5, <2>3, <3>1
    <3>3. ~(i <= i - 1)  BY <3>2
    <3> HIDE DEF Bad
    <3> QED  BY <2>2, <3>2, <3>3
  <2>5. Kept(spans, i)
    <3>1. \A t \in spans : t.from \in Nat /\ Taken(t) \in Nat
      BY <1>1 DEF Apart, SpanOf, Taken
    <3> QED  BY <1>3, <1>4, <2>4, <3>1 DEF Kept
  <2>6. at[i] = at[i - 1] + 1  BY <1>1, <1>2, <2>4, <2>5, KeptIsCopied DEF CopyOf
  <2> QED  BY <2>2, <2>4, <2>6
<1>7. s.from \in 1..Len(text) /\ s.from - 1 \in 0..(s.from - 1) /\ s.to \in 1..Len(text)
  BY <1>4 DEF SpanOf
<1>8. /\ Len(Piece(text, spans, s.from)) \in {1, 2}
      /\ Piece(text, spans, s.from)[1] = Mark[s.by]
      /\ Len(Piece(text, spans, s.from)) = 2 => Mark[s.by] = "[abs_path]"
  BY <1>1, <1>7, PieceIs
<1>9. text[s.from] = Mark[s.by]
  <2>1. 1 \in 1..Len(Piece(text, spans, s.from))  BY <1>8
  <2>2. Rewritten(text, spans)[at[s.from - 1] + 1] = Mark[s.by]
    BY <1>2, <1>7, <1>8, <2>1 DEF Layout
  <2>3. at[s.from - 1] + 1 = s.from  BY <1>6, <1>7
  <2> QED  BY <2>2, <2>3
<1>10. s \in UrlSpans(text)  BY <1>4, <1>9, StartsOf, MarksAre
<1>11. s.by = "url_credentials" /\ Mark[s.by] = "[url_credentials]"
  <2>1. s.by = "url_credentials"  BY <1>10, UrlSpanIs
  <2>2. Mark["url_credentials"] = "[url_credentials]"  BY DEF Mark
  <2> QED  BY <2>1, <2>2
<1>12. at[s.from] = s.from
  <2>1. Len(Piece(text, spans, s.from)) = 1  BY <1>8, <1>11
  <2>2. at[s.from] = at[s.from - 1] + 1  BY <1>2, <1>7, <2>1 DEF Layout
  <2> QED  BY <1>6, <1>7, <2>2
<1>13. s.from < s.to
  <2>1. text[s.from] \in Placeholder  BY <1>9, <1>11, MarksAre
  <2> QED  BY <1>4, <2>1 DEF Contained, SpanOf
<1>14. \A i \in s.from..s.to : at[i] = s.from
  <2> DEFINE Bad == {i \in s.from..s.to : at[i] # s.from}
  <2> SUFFICES ASSUME Bad # {} PROVE FALSE  OBVIOUS
  <2>1. Bad \subseteq Nat  BY <1>7
  <2>2. PICK i \in Bad : \A j \in Bad : i <= j
    <3> HIDE DEF Bad
    <3> QED  BY <2>1, LeastNatural
  <2>3. i # s.from  BY <1>12, <2>2
  <2>4. i \in 1..Len(text) /\ s.from < i /\ i <= s.to /\ i - 1 \in s.from..s.to /\ i - 1 \notin Bad
    BY <1>7, <2>2, <2>3
  <2>9. i <= Taken(s)  BY <1>11, <2>4 DEF Taken
  <2>5. Piece(text, spans, i) = <<>>  BY <1>1, <2>4, <2>9, PieceIs
  <2>6. Len(Piece(text, spans, i)) = 0  BY <2>5
  <2>7. at[i] = at[i - 1] + 0  BY <1>2, <2>4, <2>6 DEF Layout
  <2>8. at[i - 1] = s.from  BY <2>4
  <2> QED  BY <1>7, <2>2, <2>7, <2>8
<1>15. s.to + 1 \in 1..Len(text) /\ text[s.to + 1] = "@"  BY <1>10, UrlSpanIs
<1>16. Kept(spans, s.to + 1)
  <2> SUFFICES ASSUME NEW t \in spans, s.to + 1 \in t.from..t.to PROVE FALSE
    <3>1. \A t \in spans : SpanOf(text, t)  BY <1>1 DEF Apart
    <3>2. \A t \in spans : s.to + 1 \in t.from..Taken(t) => s.to + 1 \in t.from..t.to
      BY <1>7, <3>1 DEF Taken, SpanOf
    <3> QED  BY <3>2 DEF Kept
  <2>1. SpanOf(text, t) /\ t \in Candidates(text, credential, pii)
    BY <1>1 DEF Apart, Resolved
  <2>2. t # s  BY <1>4, <1>7
  <2>3. ~Overlap(t, s)  BY <1>1, <2>2 DEF Apart
  <2>4. t.from = s.to + 1  BY <1>3, <1>4, <2>1, <2>3 DEF Overlap, SpanOf
  <2> QED  BY <1>15, <2>1, <2>4, StartsOf
<1>17. text[s.from + 1] = "@"
  <2>1. Rewritten(text, spans)[at[(s.to + 1) - 1] + 1] = text[s.to + 1]
    BY <1>1, <1>2, <1>15, <1>16, KeptIsCopied DEF CopyOf
  <2>2. (s.to + 1) - 1 = s.to /\ s.to \in s.from..s.to  BY <1>7, <1>13
  <2> QED  BY <1>14, <1>15, <2>1, <2>2
<1>18. s.from + 1 \in s.from..s.to  BY <1>7, <1>13
<1> QED  BY <1>10, <1>17, <1>18, UrlSpanIs

------------------------------------------------------------------------------
(* What a scan of a rewritten text finds *)

\* What a scan of a text finds that a write left, beside placeholders: userinfo
\* around a mark, the name of a path, and a path whose name is a mark.
Excused(text, s) == Engulfs(text, s) \/ InKeptName(text, s) \/ Reopened(text, s)

Clean(text, credential, pii) ==
  \A s \in Candidates(text, credential, pii) : Contained(text, s) \/ Excused(text, s)

\* A run of tokens of one class goes on to a last one.
LEMMA RunGoesOn ==
  ASSUME NEW text \in Seq(Token), NEW tokens, NEW i \in 1..Len(text), text[i] \in tokens
  PROVE  \E m \in i..Len(text) : /\ \A k \in i..m : text[k] \in tokens
                                 /\ ~At(text, m + 1, tokens)
<1> DEFINE Stops == {m \in i..Len(text) : ~At(text, m + 1, tokens)}
<1>1. Len(text) \in Nat /\ Stops \subseteq Nat  OBVIOUS
<1>2. Len(text) \in Stops  BY <1>1 DEF At
<1>3. PICK m \in Stops : \A n \in Stops : m <= n
  <2> HIDE DEF Stops
  <2> QED  BY <1>1, <1>2, LeastNatural
<1>4. m \in i..Len(text) /\ ~At(text, m + 1, tokens)  BY <1>3
<1>5. ASSUME NEW k \in i..m  PROVE text[k] \in tokens
  <2>1. CASE k = i  BY <2>1
  <2>2. CASE k # i
    <3>1. k - 1 \in i..Len(text) /\ k - 1 < m /\ (k - 1) + 1 = k  BY <1>1, <1>4, <2>2
    <3>2. k - 1 \notin Stops
      <4>1. k - 1 \in Nat /\ m \in Nat  BY <1>1, <1>4, <3>1
      <4> HIDE DEF Stops
      <4> QED  BY <1>3, <3>1, <4>1
    <3>3. At(text, k, tokens)  BY <3>1, <3>2
    <3> QED  BY <3>3 DEF At
  <2> QED  BY <2>1, <2>2
<1> QED  BY <1>4, <1>5

\* A run of tokens of one class comes from a first one.
LEMMA RunComesFrom ==
  ASSUME NEW text \in Seq(Token), NEW tokens, NEW i \in 1..Len(text), text[i] \in tokens
  PROVE  \E y \in 1..i : /\ \A k \in y..i : text[k] \in tokens
                         /\ ~At(text, y - 1, tokens)
<1> DEFINE Starts == {y \in 1..i : \A k \in y..i : text[k] \in tokens}
<1>1. Len(text) \in Nat /\ Starts \subseteq Nat /\ i \in Starts  OBVIOUS
<1>2. PICK y \in Starts : \A n \in Starts : y <= n
  <2> HIDE DEF Starts
  <2> QED  BY <1>1, LeastNatural
<1>3. y \in 1..i /\ \A k \in y..i : text[k] \in tokens  BY <1>2
<1>4. ~At(text, y - 1, tokens)
  <2> SUFFICES ASSUME At(text, y - 1, tokens) PROVE FALSE  OBVIOUS
  <2>1. y - 1 \in 1..i /\ text[y - 1] \in tokens  BY <1>3 DEF At
  <2>2. \A k \in (y - 1)..i : k = y - 1 \/ k \in y..i  BY <1>3
  <2>3. y - 1 \in Starts  BY <1>3, <2>1, <2>2
  <2> QED  BY <1>2, <1>3, <2>3
<1> QED  BY <1>3, <1>4

\* A token of the rewritten text that is no mark and no slash is a kept one.
LEMMA PlainIsCopied ==
  ASSUME NEW text \in Seq(Token), NEW spans, Apart(text, spans),
         NEW at, Layout(text, spans, at), NEW p \in 1..Len(Rewritten(text, spans)),
         Rewritten(text, spans)[p] \in Plain \ {"/"}
  PROVE  \E i \in 1..Len(text) : CopyOf(text, spans, at, p, i)
  BY TokenComesFrom, MarksAre

\* The name of a path stands behind a slash in the rewritten text.
LEMMA NameStands ==
  ASSUME NEW text \in Seq(Token), NEW credential, NEW pii, NEW spans,
         Resolved(text, credential, pii, spans),
         NEW at, Layout(text, spans, at), NEW p, NEW i, CopyOf(text, spans, at, p, i),
         NEW c \in spans, c.by = "abs_path", c.from < i, i <= c.to
  PROVE  \E k \in 1..(p - 1) : /\ Rewritten(text, spans)[k] = "/"
                               /\ \A l \in (k + 1)..p : Rewritten(text, spans)[l] \in Basename
<1> DEFINE T == Rewritten(text, spans)
           k == at[c.from]
<1>1. Apart(text, spans)  BY ResolvedIsApart
<1>2. SpanOf(text, c) /\ c \in Candidates(text, credential, pii)
  BY <1>1 DEF Apart, Resolved
<1>3. \A j \in (c.from + 1)..c.to : text[j] \in Basename  BY <1>2, AbsSpanIs
<1>4. /\ c.from \in 1..Len(text) /\ c.to \in 1..Len(text) /\ Len(text) \in Nat /\ i \in Nat
      /\ i \in (c.from + 1)..c.to
  BY <1>2 DEF SpanOf, CopyOf
<1>5. at \in [0..Len(text) -> Nat] /\ c.from - 1 \in 0..Len(text) /\ c.from \in 0..Len(text)
  <2>1. at \in [0..Len(text) -> Nat]  BY DEF Layout
  <2>2. c.from \in Nat /\ c.from >= 1 /\ c.from <= Len(text)  BY <1>4
  <2> QED  BY <1>4, <2>1, <2>2
<1>6. k \in Nat /\ k = at[c.from - 1] + 2 /\ at[c.from - 1] \in Nat /\ T[k] = "/"
  <2>1. Len(Piece(text, spans, c.from)) = 2 /\ Piece(text, spans, c.from)[2] = "/"
    BY <1>1, <1>4, PieceIs
  <2>2. 2 \in 1..Len(Piece(text, spans, c.from))  BY <2>1
  <2>3. T[at[c.from - 1] + 2] = "/"  BY <1>4, <2>1, <2>2 DEF Layout
  <2>4. at[c.from] = at[c.from - 1] + 2  BY <1>4, <2>1 DEF Layout
  <2> QED  BY <1>5, <2>3, <2>4
<1>7. ASSUME NEW j \in (c.from + 1)..c.to
      PROVE  /\ j \in 1..Len(text) /\ at[j] = at[j - 1] + 1 /\ T[at[j]] = text[j]
  <2>1. j \in 1..Len(text)  BY <1>4
  <2>2. Kept(spans, j)
    <3> SUFFICES ASSUME NEW t \in spans, j \in t.from..Taken(t) PROVE FALSE  BY DEF Kept
    <3>1. SpanOf(text, t)  BY <1>1 DEF Apart
    <3>2. Overlap(c, t)  BY <1>2, <1>4, <2>1, <3>1 DEF Overlap, SpanOf, Taken
    <3>3. t = c  BY <1>1, <3>2 DEF Apart
    <3> QED  BY <1>4, <3>3 DEF Taken
  <2>3. CopyOf(text, spans, at, at[j - 1] + 1, j)  BY <1>1, <2>1, <2>2, KeptIsCopied
  <2> QED  BY <2>1, <2>3 DEF CopyOf
<1> HIDE DEF T, k
<1>8. \A j \in c.from..c.to : at[j] = k + (j - c.from)
  <2> DEFINE Bad == {j \in c.from..c.to : at[j] # k + (j - c.from)}
  <2> SUFFICES ASSUME Bad # {} PROVE FALSE  OBVIOUS
  <2>1. Bad \subseteq Nat  BY <1>4
  <2>2. PICK j \in Bad : \A m \in Bad : j <= m
    <3> HIDE DEF Bad
    <3> QED  BY <2>1, LeastNatural
  <2>3. j \in c.from..c.to /\ at[j] # k + (j - c.from)  BY <2>2
  <2>4. j # c.from
    <3>1. k + (c.from - c.from) = k  BY <1>4, <1>6
    <3> QED  BY <2>3, <3>1 DEF k
  <2>5. j \in (c.from + 1)..c.to /\ j - 1 \in c.from..c.to /\ ~(j <= j - 1)  BY <1>4, <2>3, <2>4
  <2>6. j - 1 \notin Bad
    <3> HIDE DEF Bad
    <3> QED  BY <2>2, <2>5
  <2>7. at[j - 1] = k + ((j - 1) - c.from)  BY <2>5, <2>6
  <2>8. at[j] = at[j - 1] + 1  BY <1>7, <2>5
  <2> HIDE DEF Bad
  <2>9. j \in Int /\ c.from \in Int /\ k \in Int  BY <1>4, <1>6, <2>3
  <2>10. at[j] = (k + ((j - 1) - c.from)) + 1  BY <2>7, <2>8
  <2>11. (k + ((j - 1) - c.from)) + 1 = k + (j - c.from)  BY <2>9
  <2> QED  BY <2>3, <2>10, <2>11
<1>9. p = k + (i - c.from)
  <2>1. at[i] = p  BY DEF CopyOf
  <2> QED  BY <1>4, <1>8, <2>1
<1>10. k \in 1..(p - 1)
  <2>1. k \in Nat /\ k >= 1  BY <1>6
  <2>2. c.from \in Int /\ i \in Int /\ i >= c.from + 1  BY <1>4
  <2> QED  BY <1>9, <2>1, <2>2
<1>11. ASSUME NEW l \in (k + 1)..p  PROVE T[l] \in Basename
  <2> DEFINE j == c.from + (l - k)
  <2>1. j \in (c.from + 1)..c.to /\ k + (j - c.from) = l
    <3>1. /\ k \in Nat /\ c.from \in Nat /\ i \in Nat /\ c.to \in Nat /\ i <= c.to
      BY <1>4, <1>6
    <3>2. l \in Int /\ l >= k + 1 /\ l <= k + (i - c.from)  BY <1>9, <3>1
    <3>3. j \in Int /\ j = c.from + (l - k)  BY <3>1, <3>2
    <3> HIDE DEF j
    <3>4. k + (j - c.from) = l  BY <3>1, <3>2, <3>3
    <3>5. c.from + 1 <= j /\ j <= c.to  BY <3>1, <3>2, <3>3
    <3> QED  BY <3>1, <3>3, <3>4, <3>5
  <2>2. at[j] = l  BY <1>4, <1>8, <2>1
  <2> HIDE DEF j
  <2>3. T[l] = text[j]  BY <1>7, <2>1, <2>2
  <2> QED  BY <1>3, <2>1, <2>3
<1> QED  BY <1>6, <1>10, <1>11 DEF T

\* A token that is a secret by itself is not left, except in the name of a path.
LEMMA NoSecretTokenStays ==
  ASSUME NEW text \in Seq(Token), NEW credential, NEW pii, NEW spans,
         Resolved(text, credential, pii, spans),
         NEW p \in 1..Len(Rewritten(text, spans)),
         Rewritten(text, spans)[p] \in {"home", "token", "jwt"}
  PROVE  /\ Rewritten(text, spans)[p] # "home"
         /\ \E k \in 1..(p - 1) :
              /\ Rewritten(text, spans)[k] = "/"
              /\ \A l \in (k + 1)..p : Rewritten(text, spans)[l] \in Basename
<1>1. Apart(text, spans)  BY ResolvedIsApart
<1>2. PICK at : Layout(text, spans, at)  BY <1>1, LayoutExists
<1>3. PICK i \in 1..Len(text) : CopyOf(text, spans, at, p, i)
  BY <1>1, <1>2, PlainIsCopied DEF Plain
<1>4. /\ text[i] \in {"home", "token", "jwt"} /\ Kept(spans, i)
      /\ Rewritten(text, spans)[p] = text[i]
  BY <1>3 DEF CopyOf
<1> DEFINE d == IF text[i] = "home" THEN "home_path" ELSE text[i]
           s == Span(i, i, d)
<1>5. s \in Candidates(text, credential, pii)
  <2>1. s \in Single(text, text[i], d)  BY DEF Single
  <2> QED  BY <1>4, <2>1 DEF Candidates, HomeSpans
<1>6. s.from = i /\ ~Contained(text, s)
  BY <1>4, MarksAre DEF Span, Contained, Plain
<1> HIDE DEF s
<1>7. PICK c \in spans : /\ c.by = "abs_path" /\ c.from < i /\ i <= c.to
                         /\ text[i] \in Basename
  BY <1>4, <1>5, <1>6, KeptStart
<1>8. "home" \notin Basename  BY DEF Basename, LocalPart
<1>9. \E k \in 1..(p - 1) : /\ Rewritten(text, spans)[k] = "/"
                            /\ \A l \in (k + 1)..p : Rewritten(text, spans)[l] \in Basename
  BY <1>2, <1>3, <1>7, NameStands
<1> QED  BY <1>4, <1>7, <1>8, <1>9

\* No header of a private key is left.
LEMMA NoBeginStays ==
  ASSUME NEW text \in Seq(Token), NEW credential, NEW pii, NEW spans,
         Resolved(text, credential, pii, spans),
         NEW p \in 1..Len(Rewritten(text, spans))
  PROVE  Rewritten(text, spans)[p] # "begin"
<1> SUFFICES ASSUME Rewritten(text, spans)[p] = "begin" PROVE FALSE  OBVIOUS
<1>1. Apart(text, spans)  BY ResolvedIsApart
<1>2. PICK at : Layout(text, spans, at)  BY <1>1, LayoutExists
<1>3. PICK i \in 1..Len(text) : CopyOf(text, spans, at, p, i)
  BY <1>1, <1>2, PlainIsCopied DEF Plain
<1>4. text[i] = "begin" /\ Kept(spans, i)  BY <1>3 DEF CopyOf
<1> DEFINE ends == {k \in i..Len(text) : text[k] = "end"}
<1>5. \E j \in i..Len(text) : IF ends = {} THEN j = i ELSE j \in ends /\ \A k \in ends : j <= k
  <2>1. CASE ends = {}  BY <2>1
  <2>2. CASE ends # {}
    <3>1. ends \subseteq Nat  OBVIOUS
    <3>2. PICK j \in ends : \A k \in ends : j <= k
      <4> HIDE DEF ends
      <4> QED  BY <2>2, <3>1, LeastNatural
    <3> QED  BY <2>2, <3>2
  <2> QED  BY <2>1, <2>2
<1>6. PICK j \in i..Len(text) :
        IF ends = {} THEN j = i ELSE j \in ends /\ \A k \in ends : j <= k
  BY <1>5
<1> DEFINE r == <<i, j>>
           s == Span(i, j, "private_key_pem")
<1>7. s \in Candidates(text, credential, pii)
  <2>1. r \in (1..Len(text)) \X (1..Len(text)) /\ r[1] = i /\ r[2] = j  OBVIOUS
  <2>2. s = Span(r[1], r[2], "private_key_pem")  OBVIOUS
  <2>3. s \in PemSpans(text)  BY <1>4, <1>6, <2>1, <2>2 DEF PemSpans
  <2> QED  BY <2>3 DEF Candidates
<1>8. s.from = i /\ ~Contained(text, s)
  BY <1>4, MarksAre DEF Span, Contained, Plain
<1> HIDE DEF s
<1>9. text[i] \in Basename  BY <1>4, <1>7, <1>8, KeptStart
<1> QED  BY <1>4, <1>9 DEF Basename, LocalPart

\* No key behind a marker or under a credential-ish key is left.
LEMMA NoAwsKeyStays ==
  ASSUME NEW text \in Seq(Token), NEW credential \in BOOLEAN, NEW pii, NEW spans,
         Resolved(text, credential, pii, spans)
  PROVE  AwsSpans(Rewritten(text, spans), credential) = {}
<1> DEFINE T == Rewritten(text, spans)
<1> SUFFICES ASSUME NEW t \in AwsSpans(T, credential) PROVE FALSE  OBVIOUS
<1>1. Apart(text, spans)  BY ResolvedIsApart
<1>2. PICK at : Layout(text, spans, at)  BY <1>1, LayoutExists
<1>3. PICK p \in 1..Len(T) : T[p] = "long" /\ (credential \/ At(T, p - 1, {"marker"}))
  BY DEF AwsSpans, Single, Span
<1> DEFINE Marked(i) == credential \/ At(text, i - 1, {"marker"})
<1> HIDE DEF Marked
<1>4. \E i \in 1..Len(text) : CopyOf(text, spans, at, p, i) /\ Marked(i)
  <2>1. CASE credential
    <3>1. PICK i \in 1..Len(text) : CopyOf(text, spans, at, p, i)
      BY <1>1, <1>2, <1>3, PlainIsCopied DEF Plain
    <3>2. Marked(i)  BY <2>1 DEF Marked
    <3> QED  BY <3>1, <3>2
  <2>2. CASE At(T, p - 1, {"marker"})
    <3>1. p - 1 \in 1..Len(T) /\ T[p - 1] = "marker" /\ (p - 1) + 1 = p  BY <2>2 DEF At
    <3>2. PICK h \in 1..Len(text) : CopyOf(text, spans, at, p - 1, h)
      BY <1>1, <1>2, <3>1, PlainIsCopied DEF Plain
    <3>3. T[p] \notin Marks  BY <1>3, MarksAre DEF Plain
    <3>4. CopyOf(text, spans, at, p, h + 1)  BY <1>1, <1>2, <3>1, <3>2, <3>3, NextIsCopied
    <3>5. text[h] = "marker" /\ h \in 1..Len(text)  BY <3>1, <3>2 DEF CopyOf
    <3>6. (h + 1) - 1 = h /\ h + 1 \in 1..Len(text)  BY <3>4, <3>5 DEF CopyOf
    <3>7. Marked(h + 1)  BY <3>5, <3>6 DEF At, Marked
    <3> QED  BY <3>4, <3>6, <3>7
  <2> QED  BY <1>3, <2>1, <2>2
<1>5. PICK i \in 1..Len(text) : CopyOf(text, spans, at, p, i) /\ Marked(i)
  BY <1>4
<1>6. text[i] = "long" /\ Kept(spans, i)
  <2> HIDE DEF T
  <2>1. CopyOf(text, spans, at, p, i)  BY <1>5
  <2>2. T[p] = text[i] /\ Kept(spans, i)  BY <2>1 DEF CopyOf, T
  <2> QED  BY <1>3, <2>2
<1> DEFINE s == Span(i, i, "aws_secret_access_key")
<1>7. s \in Candidates(text, credential, pii)
  <2>1. s \in Single(text, "long", "aws_secret_access_key")  BY <1>6 DEF Single
  <2>2. s.from = i  BY DEF Span
  <2> QED  BY <1>5, <2>1, <2>2 DEF Candidates, AwsSpans, Marked
<1>8. s.from = i /\ ~Contained(text, s)
  BY <1>6, MarksAre DEF Span, Contained, Plain
<1> HIDE DEF s
<1>9. text[i] \in Basename  BY <1>6, <1>7, <1>8, KeptStart
<1> QED  BY <1>6, <1>9 DEF Basename, LocalPart

\* A stretch of tokens without a mark stands in the text as it is.
LEMMA StretchStands ==
  ASSUME NEW text \in Seq(Token), NEW spans, Apart(text, spans),
         NEW at, Layout(text, spans, at), NEW p, NEW i, CopyOf(text, spans, at, p, i),
         NEW q, Unmarked(Rewritten(text, spans), p, q)
  PROVE  /\ p \in 1..q /\ i \in 1..Len(text) /\ i + (q - p) \in i..Len(text) /\ Kept(spans, i)
         /\ \A j \in i..(i + (q - p)) : text[j] = Rewritten(text, spans)[p + (j - i)]
         /\ \A k \in p..q : text[i + (k - p)] = Rewritten(text, spans)[k]
<1> DEFINE T == Rewritten(text, spans)
<1>1. p \in 1..Len(T) /\ i \in 1..Len(text) /\ Kept(spans, i) /\ T[p] = text[i]
  BY DEF CopyOf
<1>0. q \in p..Len(T)  BY DEF Unmarked
<1>2. p \in Nat /\ q \in Nat /\ i \in Nat /\ p \in 1..q  BY <1>0, <1>1
<1>3. \A k \in p..q : CopyOf(text, spans, at, k, i + (k - p))  BY StretchIsCopied
<1>4. \A k \in p..q : text[i + (k - p)] = T[k] /\ i + (k - p) \in 1..Len(text)
  BY <1>3 DEF CopyOf
<1> HIDE DEF T
<1>5. i + (q - p) \in i..Len(text)  BY <1>2, <1>4
<1>6. ASSUME NEW j \in i..(i + (q - p))  PROVE text[j] = T[p + (j - i)]
  <2>1. p + (j - i) \in p..q /\ i + ((p + (j - i)) - p) = j  BY <1>2
  <2> QED  BY <1>4, <2>1
<1> QED  BY <1>1, <1>2, <1>4, <1>5, <1>6 DEF T

\* Nothing is left that could follow a bearer.
LEMMA NoAuthorizationStays ==
  ASSUME NEW text \in Seq(Token), NEW credential, NEW pii, NEW spans,
         Resolved(text, credential, pii, spans)
  PROVE  AuthorizationSpans(Rewritten(text, spans)) = {}
<1> DEFINE T == Rewritten(text, spans)
           C == LocalPart \cup {"long", "host"}
           Strong == {"secret", "jwt", "token", "long", "host"}
<1> SUFFICES ASSUME NEW t \in AuthorizationSpans(T) PROVE FALSE  OBVIOUS
<1>1. Apart(text, spans)  BY ResolvedIsApart
<1>2. PICK at : Layout(text, spans, at)  BY <1>1, LayoutExists
<1>3. PICK r \in Runs(T, C) : /\ At(T, r[1] - 1, {"bearer"})
                              /\ \E k \in r[1]..r[2] : T[k] \in Strong
  BY DEF AuthorizationSpans
<1> DEFINE p == r[1]
           q == r[2]
           b == p - 1
<1>4. p \in 1..Len(T) /\ q \in 1..Len(T) /\ p <= q /\ \A k \in p..q : T[k] \in C
  BY DEF Runs
<1>5. p - 1 \in 1..Len(T) /\ T[p - 1] = "bearer"  BY <1>3 DEF At
<1>0. b + 1 = p /\ b \in 1..Len(T) /\ T[b] = "bearer"  BY <1>4, <1>5
<1> HIDE DEF p, q, b
<1>6. C \cap Marks = {} /\ "bearer" \notin Marks  BY MarksAre DEF LocalPart, Plain
<1>7. PICK h \in 1..Len(text) : CopyOf(text, spans, at, b, h)
  BY <1>1, <1>2, <1>0, PlainIsCopied DEF Plain
<1>8. q \in b..Len(T) /\ \A k \in b..q : T[k] \notin Marks
  <2>1. \A k \in b..q : k = b \/ k \in p..q  BY <1>4, <1>0
  <2> QED  BY <1>4, <1>0, <1>6, <2>1
<1>21. Unmarked(T, b, q)  BY <1>8 DEF Unmarked
<1> HIDE DEF C, T
<1>9. /\ h + (q - b) \in h..Len(text)
      /\ \A j \in h..(h + (q - b)) : text[j] = T[b + (j - h)]
      /\ \A k \in b..q : text[h + (k - b)] = T[k]
  <2>1. Unmarked(Rewritten(text, spans), b, q)  BY <1>21 DEF T
  <2>2. CopyOf(text, spans, at, b, h)  BY <1>7
  <2>3. h + (q - b) \in h..Len(text)  BY <1>1, <1>2, <2>1, <2>2, StretchStands
  <2>4. \A j \in h..(h + (q - b)) : text[j] = Rewritten(text, spans)[b + (j - h)]
    BY <1>1, <1>2, <2>1, <2>2, StretchStands
  <2>5. \A k \in b..q : text[h + (k - b)] = Rewritten(text, spans)[k]
    BY <1>1, <1>2, <2>1, <2>2, StretchStands
  <2> QED  BY <2>3, <2>4, <2>5 DEF T
<1>10. /\ h \in Nat /\ p \in Nat /\ q \in Nat /\ b \in Nat /\ Len(text) \in Nat
       /\ b + 1 = p /\ p <= q
  BY <1>0, <1>4
<1>11. text[h] = "bearer"
  <2>1. h + (b - b) = h /\ b \in b..q  BY <1>4, <1>10
  <2> QED  BY <1>0, <1>9, <2>1
<1>12. h + 1 \in 1..Len(text) /\ (h + 1) - 1 = h  BY <1>4, <1>9, <1>10
<1>13. \A j \in (h + 1)..(h + (q - b)) : text[j] \in C
  <2>1. ASSUME NEW j \in (h + 1)..(h + (q - b))
        PROVE  j \in h..(h + (q - b)) /\ b + (j - h) \in p..q
    BY <1>10
  <2> QED  BY <1>4, <1>9, <2>1
<1>14. text[h + 1] \in C  BY <1>4, <1>10, <1>13
<1>15. PICK m \in (h + 1)..Len(text) : /\ \A k \in (h + 1)..m : text[k] \in C
                                      /\ ~At(text, m + 1, C)
  BY <1>12, <1>14, RunGoesOn
<1>16. h + (q - b) <= m
  <2> SUFFICES ASSUME m < h + (q - b) PROVE FALSE  BY <1>10, <1>15
  <2>1. m + 1 \in (h + 1)..(h + (q - b)) /\ m + 1 \in 1..Len(text)
    BY <1>9, <1>10, <1>15
  <2> QED  BY <1>13, <1>15, <2>1 DEF At
<1>17. \E k \in (h + 1)..m : text[k] \in Strong
  <2>1. PICK k \in p..q : T[k] \in Strong  BY <1>3 DEF p, q
  <2>2. k \in b..q /\ h + (k - b) \in (h + 1)..m  BY <1>4, <1>10, <1>16
  <2> QED  BY <1>9, <2>1, <2>2
<1> DEFINE u == <<h + 1, m>>
           s == Span(h + 1, m, "authorization_credential")
<1>18. s \in Candidates(text, credential, pii)
  <2>1. u \in (1..Len(text)) \X (1..Len(text)) /\ u[1] = h + 1 /\ u[2] = m
    BY <1>10, <1>12, <1>15
  <2>2. u \in Runs(text, C)  BY <1>15, <2>1 DEF Runs
  <2>3. At(text, u[1] - 1, {"bearer"})  BY <1>11, <1>12, <2>1 DEF At
  <2>4. s = Span(u[1], u[2], "authorization_credential")  BY <2>1
  <2>5. s \in AuthorizationSpans(text)
    BY <1>17, <2>1, <2>2, <2>3, <2>4 DEF AuthorizationSpans, C
  <2> QED  BY <2>5 DEF Candidates
<1>19. s.from = h + 1 /\ ~Contained(text, s)
  <2>1. text[h + 1] \notin Placeholder  BY <1>6, <1>14 DEF Marks
  <2> QED  BY <2>1 DEF Span, Contained
<1>20. Kept(spans, h + 1)
  <2>1. p \in b..q /\ h + (p - b) = h + 1  BY <1>4, <1>10
  <2>2. CopyOf(text, spans, at, p, h + (p - b))
    BY <1>1, <1>2, <1>7, <1>21, <2>1, StretchIsCopied DEF T
  <2> QED  BY <2>1, <2>2 DEF CopyOf
<1> HIDE DEF s
<1>22. text[(h + 1) - 1] \in Basename \cup {"/dir/"}  BY <1>18, <1>19, <1>20, KeptStart
<1> QED  BY <1>11, <1>12, <1>22 DEF Basename, LocalPart

\* A longer candidate does not end between two tokens of a local part.
LEMMA EndsOf ==
  ASSUME NEW text \in Seq(Token), NEW credential, NEW pii,
         NEW s \in Candidates(text, credential, pii), s.from # s.to,
         text[s.to] \in LocalPart
  PROVE  ~At(text, s.to + 1, LocalPart)
<1> USE DEF Span
<1>1. CASE s \in Single(text, "token", "token") \cup Single(text, "jwt", "jwt")
             \cup AwsSpans(text, credential)
  BY <1>1 DEF Single, AwsSpans
<1>7. CASE s \in HomeSpans(text)
  <2>1. CASE s \in Single(text, "home", "home_path")
    BY <2>1 DEF Single
  <2>2. CASE s \notin Single(text, "home", "home_path")
    <3>1. PICK h \in 1..Len(text) :
            s = Span(h, h + 1, "home_path") /\ At(text, h + 1, {Mark["home_path"]})
      BY <1>7, <2>2 DEF HomeSpans
    <3>2. text[s.to] \in Marks  BY <3>1 DEF At, Marks, Mark
    <3> QED  BY <3>2, MarksAre DEF LocalPart, Plain
  <2> QED  BY <2>1, <2>2
<1>8. CASE s \in AbsSpans(text)
  <2>1. ~At(text, s.to + 1, Basename)  BY <1>8 DEF AbsSpans
  <2> QED  BY <2>1 DEF At, Basename
<1>2. CASE s \in PemSpans(text)
  <2>1. text[s.to] = "end"  BY <1>2 DEF PemSpans
  <2> QED  BY <2>1 DEF LocalPart
<1>3. ASSUME NEW tokens, NEW r \in Runs(text, tokens), LocalPart \subseteq tokens
      PROVE  ~At(text, r[2] + 1, LocalPart)
  BY <1>3 DEF Runs, At
<1>4. CASE s \in UrlSpans(text)
  <2>1. PICK r \in Runs(text, UserInfo) :
          s = Span(r[1], r[2], "url_credentials")
    BY <1>4 DEF UrlSpans
  <2>2. LocalPart \subseteq UserInfo  BY DEF UserInfo
  <2>3. s.to = r[2]  BY <2>1
  <2> QED  BY <1>3, <2>1, <2>2, <2>3
<1>5. CASE s \in AuthorizationSpans(text)
  <2>1. PICK r \in Runs(text, LocalPart \cup {"long", "host"}) :
          s = Span(r[1], r[2], "authorization_credential")
    BY <1>5 DEF AuthorizationSpans
  <2> QED  BY <1>3, <2>1
<1>6. CASE s \in EmailSpans(text)
  <2>1. PICK r \in Runs(text, LocalPart) : /\ s = Span(r[1], r[2] + 2, "email")
                                           /\ At(text, r[2] + 2, {"host"})
    BY <1>6 DEF EmailSpans
  <2>2. text[s.to] = "host"  BY <2>1 DEF At
  <2> QED  BY <2>2 DEF LocalPart
<1> QED  BY <1>1, <1>2, <1>4, <1>5, <1>6, <1>7, <1>8 DEF Candidates

\* No email is left but in the name of a path, nor does the rewriting put one together.
LEMMA EmailsAreNames ==
  ASSUME NEW text \in Seq(Token), NEW credential, NEW pii, pii, NEW spans,
         Resolved(text, credential, pii, spans),
         NEW t \in EmailSpans(Rewritten(text, spans))
  PROVE  InKeptName(Rewritten(text, spans), t)
<1> DEFINE T == Rewritten(text, spans)
<1>1. Apart(text, spans)  BY ResolvedIsApart
<1>2. PICK at : Layout(text, spans, at)  BY <1>1, LayoutExists
<1>3. PICK r \in Runs(T, LocalPart) : /\ t = Span(r[1], r[2] + 2, "email")
                                 /\ At(T, r[2] + 1, {"@"}) /\ At(T, r[2] + 2, {"host"})
  BY DEF EmailSpans
<1> DEFINE p == r[1]
           q == r[2]
           e == q + 2
<1>4. p \in 1..Len(T) /\ q \in 1..Len(T) /\ p <= q /\ \A k \in p..q : T[k] \in LocalPart
  BY DEF Runs
<1>5. /\ q + 1 \in 1..Len(T) /\ T[q + 1] = "@" /\ e \in 1..Len(T) /\ T[e] = "host"
  BY <1>3 DEF At
<1>0. t.from = p /\ t.to = e  BY <1>3 DEF Span
<1> HIDE DEF p, q
<1>6. LocalPart \subseteq Plain \ {"/"} /\ LocalPart \cap Marks = {} /\ "@" \notin Marks
      /\ "host" \notin Marks /\ "@" \notin LocalPart /\ "host" \notin LocalPart
      /\ LocalPart \cap Placeholder = {}
  BY MarksAre DEF LocalPart, Plain, Marks
<1>7. T[p] \in Plain \ {"/"}  BY <1>4, <1>6
<1>8. PICK i \in 1..Len(text) : CopyOf(text, spans, at, p, i)
  BY <1>1, <1>2, <1>4, <1>7, PlainIsCopied
<1>9. e \in p..Len(T) /\ \A k \in p..e : T[k] \notin Marks
  <2>1. \A k \in p..e : k = e \/ k = q + 1 \/ k \in p..q  BY <1>4
  <2> QED  BY <1>4, <1>5, <1>6, <2>1
<1>25. Unmarked(T, p, e)  BY <1>9 DEF Unmarked
<1> HIDE DEF T, e
<1>10. /\ Kept(spans, i) /\ i + (e - p) \in i..Len(text)
       /\ \A j \in i..(i + (e - p)) : text[j] = T[p + (j - i)]
       /\ \A k \in p..e : text[i + (k - p)] = T[k]
  BY <1>1, <1>2, <1>8, <1>25, StretchStands DEF T
<1> DEFINE j == i + (q - p)
<1>11. /\ i \in Nat /\ p \in Nat /\ q \in Nat /\ e = q + 2 /\ p <= q /\ Len(text) \in Nat
  BY <1>4 DEF e
<1>12. j \in i..Len(text) /\ j + 1 \in 1..Len(text) /\ j + 2 \in 1..Len(text) /\ j \in Nat
  BY <1>10, <1>11
<1>13. text[j + 1] = "@" /\ text[j + 2] = "host"
  <2>1. i + ((q + 1) - p) = j + 1 /\ i + (e - p) = j + 2 /\ q + 1 \in p..e /\ e \in p..e
    BY <1>11
  <2> QED  BY <1>5, <1>10, <2>1
<1>14. \A k \in i..j : text[k] \in LocalPart
  <2>1. ASSUME NEW k \in i..j  PROVE k \in i..(i + (e - p)) /\ p + (k - i) \in p..q
    BY <1>11
  <2> QED  BY <1>4, <1>10, <2>1
<1>15. i \in i..j /\ i <= j  BY <1>11
<1> HIDE DEF j
<1>16. PICK y \in 1..i : (\A k \in y..i : text[k] \in LocalPart) /\ ~At(text, y - 1, LocalPart)
  BY <1>14, <1>15, RunComesFrom
<1> DEFINE u == <<y, j>>
           s == Span(y, j + 2, "email")
<1>17. s \in Candidates(text, credential, pii)
  <2>1. u \in (1..Len(text)) \X (1..Len(text)) /\ u[1] = y /\ u[2] = j /\ y <= j
    BY <1>11, <1>12, <1>15
  <2>2. \A k \in y..j : k \in y..i \/ k \in i..j  BY <1>11, <1>12
  <2>3. \A k \in y..j : text[k] \in LocalPart  BY <1>14, <1>16, <2>2
  <2>4. ~At(text, j + 1, LocalPart)  BY <1>6, <1>13 DEF At
  <2>5. u \in Runs(text, LocalPart)  BY <2>1, <2>3, <2>4 DEF Runs
  <2>6. At(text, u[2] + 1, {"@"}) /\ At(text, u[2] + 2, {"host"}) /\ ~At(text, u[1] - 1, LocalPart)
    BY <1>12, <1>13, <1>16, <2>1 DEF At
  <2>7. s = Span(u[1], u[2] + 2, "email")  BY <2>1
  <2>8. s \in EmailSpans(text)  BY <2>5, <2>6, <2>7 DEF EmailSpans
  <2> QED  BY <2>8 DEF Candidates
<1>18. s.from = y /\ s.to = j + 2 /\ ~Contained(text, s)
  <2>1. text[y] \in LocalPart  BY <1>16
  <2> QED  BY <1>6, <2>1 DEF Span, Contained
<1> HIDE DEF s
\* what took its start ended before the part that was copied
<1>19. PICK c \in spans : (c = s \/ Earlier(c, s)) /\ Overlap(c, s)
  BY <1>17, <1>18 DEF Resolved
<1>20. SpanOf(text, c) /\ c \in Candidates(text, credential, pii)
  BY <1>1 DEF Apart, Resolved
<1>21. ~(i \in c.from..Taken(c))  BY <1>10 DEF Kept
<1>22. /\ c.from \in Nat /\ c.to \in Nat /\ y \in Nat /\ y <= i /\ y <= c.to /\ c.from <= y
  <2>1. c.from \in Nat /\ c.to \in Nat /\ y \in Nat /\ y <= i /\ y <= c.to
    BY <1>11, <1>18, <1>19, <1>20 DEF SpanOf, Overlap
  <2> QED  BY <1>18, <1>19, <2>1 DEF Earlier
<1>23. c.to >= i
  <2> SUFFICES ASSUME c.to < i PROVE FALSE  BY <1>11, <1>22
  <2>1. c.from # y
    <3> SUFFICES ASSUME c.from = y PROVE FALSE  OBVIOUS
    <3>1. c.to >= j + 2  BY <1>11, <1>12, <1>18, <1>19, <1>22 DEF Earlier
    <3> QED  BY <1>11, <1>12, <1>15, <1>22, <3>1
  <2>2. text[c.to] \in LocalPart /\ At(text, c.to + 1, LocalPart)
    <3>1. c.to \in y..i /\ c.to + 1 \in y..i /\ c.to + 1 \in 1..Len(text)
      BY <1>11, <1>20, <1>22 DEF SpanOf
    <3> QED  BY <1>16, <3>1 DEF At
  <2>3. c.from # c.to  BY <1>22, <2>1
  <2> QED  BY <1>20, <2>2, <2>3, EndsOf
<1>24. c.by = "abs_path" /\ c.from < i
  BY <1>11, <1>21, <1>22, <1>23 DEF Taken
<1>26. PICK k \in 1..(p - 1) : /\ Rewritten(text, spans)[k] = "/"
                              /\ \A l \in (k + 1)..p : Rewritten(text, spans)[l] \in Basename
  BY <1>2, <1>8, <1>23, <1>24, NameStands
<1>27. \A l \in (k + 1)..e : T[l] \in Basename
  <2>1. \A l \in (k + 1)..e : l \in (k + 1)..p \/ l \in p..q \/ l = q + 1 \/ l = e
    BY <1>11
  <2>2. \A l \in (k + 1)..p : T[l] \in Basename  BY <1>26 DEF T
  <2> QED  BY <1>4, <1>5, <2>1, <2>2 DEF Basename
<1> QED  BY <1>0, <1>26, <1>27 DEF InKeptName, T

\* A url credential that is left takes in a mark.
LEMMA UrlsEngulf ==
  ASSUME NEW text \in Seq(Token), NEW credential, NEW pii, NEW spans,
         Resolved(text, credential, pii, spans),
         NEW t \in UrlSpans(Rewritten(text, spans))
  PROVE  Contained(Rewritten(text, spans), t) \/ Engulfs(Rewritten(text, spans), t)
<1> DEFINE T == Rewritten(text, spans)
           U == UserInfo
<1>1. Apart(text, spans)  BY ResolvedIsApart
<1>2. PICK at : Layout(text, spans, at)  BY <1>1, LayoutExists
<1>3. PICK r \in Runs(T, U) :
        /\ t = Span(r[1], r[2], "url_credentials")
        /\ At(T, r[1] - 1, {"://"}) /\ At(T, r[2] + 1, {"@"})
        /\ T[r[2]] # "user:"
        /\ \E k \in r[1]..r[2] :
             /\ T[k] \in Colon
             /\ \A l \in (r[1]..r[2]) \ {k} : T[l] \notin Colon
  BY DEF UrlSpans
<1> DEFINE p == r[1]
           q == r[2]
           b == p - 1
           e == q + 1
<1>4. p \in 1..Len(T) /\ q \in 1..Len(T) /\ p <= q /\ \A k \in p..q : T[k] \in U
  BY DEF Runs
<1>5. /\ b \in 1..Len(T) /\ T[b] = "://" /\ e \in 1..Len(T) /\ T[e] = "@"
      /\ b + 1 = p /\ e = q + 1
  BY <1>3, <1>4 DEF At
<1>6. t.from = p /\ t.to = q /\ t.by = "url_credentials"  BY <1>3 DEF Span
<1>7. PICK x \in p..q : T[x] \in Colon /\ \A l \in (p..q) \ {x} : T[l] \notin Colon
  BY <1>3
<1>8. T[q] # "user:"  BY <1>3
<1> HIDE DEF p, q, b, e, T
<1>9. CASE \E k \in p..q : T[k] \in Marks
  <2>1. CASE p = q
    <3>1. T[p] \in Marks /\ T[p] \in Colon  BY <1>4, <1>7, <1>9, <2>1
    <3>2. "${HOME}" \notin Colon  BY MarksAre DEF Colon
    <3>3. T[p] \in Placeholder  BY <3>1, <3>2 DEF Marks
    <3> QED  BY <1>6, <2>1, <3>3 DEF Contained, T
  <2>2. CASE p # q
    <3>1. Mark["home_path"] = "${HOME}"  BY DEF Mark
    <3>2. Marks = Placeholder \cup {Mark["home_path"]}  BY <3>1 DEF Marks
    <3>3. t.from < t.to  BY <1>4, <1>6, <2>2
    <3>4. \E k \in t.from..t.to : T[k] \in Placeholder \cup {Mark["home_path"]}
      BY <1>6, <1>9, <3>2
    <3> QED  BY <1>6, <3>3, <3>4 DEF Engulfs, T
  <2> QED  BY <2>1, <2>2
<1>10. CASE \A k \in p..q : T[k] \notin Marks
  <2>1. /\ "://" \notin Marks /\ "@" \notin Marks
        /\ "@" \notin U /\ "://" \in Plain \ {"/"}
    BY MarksAre DEF UserInfo, Colon, LocalPart, Plain, Marks, Mark
  <2> HIDE DEF U
  <2>2. PICK h \in 1..Len(text) : CopyOf(text, spans, at, b, h)
    BY <1>1, <1>2, <1>5, <2>1, PlainIsCopied DEF T
  <2>3. /\ b \in Nat /\ p \in Nat /\ q \in Nat /\ e \in Nat /\ h \in Nat /\ Len(text) \in Nat
        /\ p = b + 1 /\ e = q + 1 /\ p <= q /\ Len(T) \in Nat /\ e <= Len(T)
    BY <1>4, <1>5
  <2>4. e \in b..Len(T)  BY <2>3
  <2>5. \A k \in b..e : T[k] \notin Marks
    <3>1. \A k \in b..e : k = b \/ k = e \/ k \in p..q  BY <2>3
    <3> QED  BY <1>4, <1>5, <1>10, <2>1, <3>1
  <2>18. Unmarked(T, b, e)  BY <2>4, <2>5 DEF Unmarked
  <2>6. /\ h + (e - b) \in h..Len(text)
        /\ \A j \in h..(h + (e - b)) : text[j] = T[b + (j - h)]
        /\ \A k \in b..e : text[h + (k - b)] = T[k]
    BY <1>1, <1>2, <2>2, <2>18, StretchStands DEF T
  <2> DEFINE i == h + 1
             j == h + (q - b)
  <2>7. /\ i \in 1..Len(text) /\ j \in 1..Len(text) /\ i <= j /\ j + 1 \in 1..Len(text)
        /\ i - 1 = h
    BY <2>3, <2>6
  <2>8. text[h] = "://"
    <3>1. h + (b - b) = h /\ b \in b..e  BY <2>3
    <3> QED  BY <1>5, <2>6, <3>1
  <2>9. text[j + 1] = "@"
    <3>1. h + (e - b) = j + 1 /\ e \in b..e  BY <2>3
    <3> QED  BY <1>5, <2>6, <3>1
  <2>10. ASSUME NEW k \in i..j
         PROVE  p + (k - i) \in p..q /\ text[k] = T[p + (k - i)]
    <3>1. k \in h..(h + (e - b)) /\ b + (k - h) = p + (k - i) /\ p + (k - i) \in p..q
      BY <2>3
    <3> QED  BY <2>6, <3>1
  <2>11. \A k \in i..j : text[k] \in U /\ text[k] \notin Marks
    BY <1>4, <1>10, <2>10
  <2>12. text[j] # "user:"
    <3>1. j \in i..j /\ p + (j - i) = q  BY <2>3
    <3> QED  BY <1>8, <2>10, <3>1
  <2> DEFINE z == i + (x - p)
  <2>13. z \in i..j /\ text[z] \in Colon /\ \A l \in (i..j) \ {z} : text[l] \notin Colon
    <3>1. z \in i..j /\ p + (z - i) = x  BY <2>3
    <3>2. \A l \in (i..j) \ {z} : p + (l - i) \in (p..q) \ {x}  BY <2>3, <2>10
    <3> QED  BY <1>7, <2>10, <3>1, <3>2
  <2>14. Kept(spans, i)
    <3>1. p \in b..e /\ h + (p - b) = i  BY <2>3
    <3>2. CopyOf(text, spans, at, p, h + (p - b))
      BY <1>1, <1>2, <2>2, <2>18, <3>1, StretchIsCopied DEF T
    <3> QED  BY <3>1, <3>2 DEF CopyOf
  <2>15. i \in i..j  BY <2>3
  <2> HIDE DEF i, j, z
  <2> DEFINE u == <<i, j>>
             s == Span(i, j, "url_credentials")
  <2>16. s \in Candidates(text, credential, pii)
    <3>1. u \in (1..Len(text)) \X (1..Len(text)) /\ u[1] = i /\ u[2] = j  BY <2>7
    <3>2. ~At(text, j + 1, U)  BY <2>1, <2>9 DEF At
    <3>3. u \in Runs(text, U)  BY <2>7, <2>11, <3>1, <3>2 DEF Runs
    <3>4. At(text, u[1] - 1, {"://"}) /\ At(text, u[2] + 1, {"@"})
      BY <2>7, <2>8, <2>9, <3>1 DEF At
    <3>5. s = Span(u[1], u[2], "url_credentials")  BY <3>1
    <3>6. \E k \in u[1]..u[2] : /\ text[k] \in Colon
                                /\ \A l \in (u[1]..u[2]) \ {k} : text[l] \notin Colon
      BY <2>13, <3>1
    <3>7. text[u[2]] # "user:"  BY <2>12, <3>1
    <3> HIDE DEF u, s
    <3>8. s \in UrlSpans(text)  BY <3>3, <3>4, <3>5, <3>6, <3>7 DEF UrlSpans, U
    <3> QED  BY <3>8 DEF Candidates
  <2>17. s.from = i /\ ~Contained(text, s)  BY <2>11, <2>15 DEF Span, Contained, Marks
  <2> HIDE DEF s
  <2>19. text[i - 1] \in Basename \cup {"/dir/"}  BY <2>14, <2>16, <2>17, KeptStart
  <2> QED  BY <2>7, <2>8, <2>19 DEF Basename, LocalPart
<1> QED  BY <1>9, <1>10

\* A path that is left has a mark for its name.
LEMMA PathsAreReopened ==
  ASSUME NEW text \in Seq(Token), NEW credential, NEW pii, NEW spans,
         Resolved(text, credential, pii, spans),
         NEW t \in AbsSpans(Rewritten(text, spans))
  PROVE  Reopened(Rewritten(text, spans), t)
<1> DEFINE T == Rewritten(text, spans)
           p == t.from
           Opens == Basename \cup {"user:"}
<1>1. Apart(text, spans)  BY ResolvedIsApart
<1>2. PICK at : Layout(text, spans, at)  BY <1>1, LayoutExists
<1>3. /\ t.by = "abs_path" /\ p \in 1..Len(T) /\ T[p] = "/dir/"
      /\ p + 1 \in 1..Len(T) /\ T[p + 1] \in Basename \cup Colon \cup {Mark["home_path"]}
  <2>1. PICK r \in (1..Len(T)) \X (1..Len(T)) :
          /\ t = Span(r[1], r[2], "abs_path")
          /\ T[r[1]] = "/dir/" /\ r[1] <= r[2]
          /\ \A k \in (r[1] + 1)..r[2] : T[k] \in Basename
          /\ r[1] < r[2] \/ At(T, r[1] + 1, Colon \cup {Mark["home_path"]})
    BY DEF AbsSpans
  <2>2. t.by = "abs_path" /\ p = r[1]  BY <2>1 DEF Span
  <2>3. r[1] \in 1..Len(T) /\ r[2] \in 1..Len(T) /\ Len(T) \in Nat
    BY <1>2, <2>1 DEF Layout
  <2> HIDE DEF T
  <2>4. CASE r[1] < r[2]
    <3>1. r[1] + 1 \in (r[1] + 1)..r[2] /\ r[1] + 1 \in 1..Len(T)  BY <2>3, <2>4
    <3> QED  BY <2>1, <2>2, <2>3, <3>1
  <2>5. CASE At(T, r[1] + 1, Colon \cup {Mark["home_path"]})
    BY <2>1, <2>2, <2>3, <2>5 DEF At
  <2> QED  BY <2>1, <2>4, <2>5
<1> HIDE DEF p, T
<1>4. CASE T[p + 1] \in Marks
  BY <1>3, <1>4 DEF Reopened, At, Marks, Mark, T, p
<1>5. CASE T[p + 1] \notin Marks
  <2>1. T[p + 1] \in Opens  BY <1>3, <1>5 DEF Colon, Marks, Mark
  <2>2. PICK i \in 1..Len(text) : CopyOf(text, spans, at, p, i)
    <3>1. T[p] \in Plain \ {"/"}  BY <1>3 DEF Plain
    <3> QED  BY <1>1, <1>2, <1>3, <3>1, PlainIsCopied DEF T
  <2>3. CopyOf(text, spans, at, p + 1, i + 1)
    BY <1>1, <1>2, <1>3, <1>5, <2>2, NextIsCopied DEF T
  <2>4. /\ text[i] = "/dir/" /\ Kept(spans, i) /\ i + 1 \in 1..Len(text)
        /\ text[i + 1] \in Opens
    BY <1>3, <2>1, <2>2, <2>3 DEF CopyOf, T
  <2>5. \E m \in i..Len(text) : Span(i, m, "abs_path") \in AbsSpans(text)
    <3>1. Len(text) \in Nat /\ i \in Nat  OBVIOUS
    <3>2. CASE text[i + 1] \in Basename
      <4>1. PICK m \in (i + 1)..Len(text) : /\ \A k \in (i + 1)..m : text[k] \in Basename
                                            /\ ~At(text, m + 1, Basename)
        BY <2>4, <3>2, RunGoesOn
      <4> DEFINE u == <<i, m>>
      <4>2. u \in (1..Len(text)) \X (1..Len(text)) /\ u[1] = i /\ u[2] = m /\ i < m
        BY <3>1, <4>1
      <4>3. Span(i, m, "abs_path") = Span(u[1], u[2], "abs_path")  BY <4>2
      <4> HIDE DEF u
      <4>5. /\ text[u[1]] = "/dir/" /\ u[1] <= u[2] /\ u[1] < u[2]
            /\ \A k \in (u[1] + 1)..u[2] : text[k] \in Basename
            /\ ~At(text, u[2] + 1, Basename)
        BY <2>4, <3>1, <4>1, <4>2
      <4>4. Span(i, m, "abs_path") \in AbsSpans(text)
        BY <4>2, <4>3, <4>5 DEF AbsSpans
      <4> QED  BY <3>1, <4>1, <4>4
    <3>3. CASE text[i + 1] \notin Basename
      <4>1. text[i + 1] = "user:"  BY <2>4, <3>3
      <4> DEFINE u == <<i, i>>
      <4>2. u \in (1..Len(text)) \X (1..Len(text)) /\ u[1] = i /\ u[2] = i  OBVIOUS
      <4>3. Span(i, i, "abs_path") = Span(u[1], u[2], "abs_path")  BY <4>2
      <4> HIDE DEF u
      <4>4. At(text, i + 1, Colon) /\ ~At(text, i + 1, Basename)
        BY <2>4, <3>3, <4>1 DEF At, Colon
      <4>5. At(text, i + 1, Colon \cup {Mark["home_path"]})  BY <4>4 DEF At
      <4>6. \A k \in (i + 1)..i : FALSE  BY <3>1
      <4>7. Span(i, i, "abs_path") \in AbsSpans(text)
        <5>1. /\ text[u[1]] = "/dir/" /\ u[1] <= u[2]
              /\ \A k \in (u[1] + 1)..u[2] : text[k] \in Basename
              /\ ~At(text, u[2] + 1, Basename)
              /\ At(text, u[1] + 1, Colon \cup {Mark["home_path"]})
          BY <2>4, <3>1, <4>2, <4>4, <4>5, <4>6
        <5> QED  BY <4>2, <4>3, <5>1 DEF AbsSpans
      <4> QED  BY <3>1, <4>7
    <3> QED  BY <3>2, <3>3
  <2>6. PICK m \in i..Len(text) : Span(i, m, "abs_path") \in AbsSpans(text)  BY <2>5
  <2> DEFINE s == Span(i, m, "abs_path")
  <2>7. s \in Candidates(text, credential, pii)  BY <2>6 DEF Candidates
  <2>8. s.from = i /\ ~Contained(text, s)
    <3>1. text[i] \notin Placeholder  BY <2>4, MarksAre DEF Plain, Marks
    <3> QED  BY <3>1 DEF Span, Contained
  <2> HIDE DEF s
  <2>9. text[i] \in Basename  BY <2>4, <2>7, <2>8, KeptStart
  <2> QED  BY <2>4, <2>9 DEF Basename, LocalPart
<1> QED  BY <1>4, <1>5

\* A scan of a rewritten text finds nothing but placeholders, userinfo around a
\* mark, the name of a path and a path whose name is a mark.
THEOREM RewrittenIsClean ==
  ASSUME NEW text \in Seq(Token), NEW credential \in BOOLEAN, NEW pii \in BOOLEAN, NEW spans,
         Resolved(text, credential, pii, spans)
  PROVE  Clean(Rewritten(text, spans), credential, pii)
<1> DEFINE T == Rewritten(text, spans)
<1> SUFFICES ASSUME NEW s \in Candidates(T, credential, pii)
             PROVE  Contained(T, s) \/ Excused(T, s)
  BY DEF Clean
<1>1. CASE s \in HomeSpans(T)
  <2>1. Single(T, "home", "home_path") = {}  BY NoSecretTokenStays DEF Single
  <2>2. s.by = "home_path" /\ At(T, s.from + 1, {Mark["home_path"]})
    <3>1. PICK h \in 1..Len(T) :
            s = Span(h, h + 1, "home_path") /\ At(T, h + 1, {Mark["home_path"]})
      BY <1>1, <2>1 DEF HomeSpans
    <3> QED  BY <3>1 DEF Span
  <2> QED  BY <2>2 DEF Excused, Reopened, At
<1>2. CASE s \in Single(T, "token", "token") \cup Single(T, "jwt", "jwt")
  <2>1. s.from \in 1..Len(T) /\ s.to = s.from /\ T[s.from] \in {"home", "token", "jwt"}
    BY <1>2 DEF Single, Span
  <2>2. InKeptName(T, s)  BY <2>1, NoSecretTokenStays DEF InKeptName
  <2> QED  BY <2>2 DEF Excused
<1>3. PemSpans(T) = {}
  <2>1. \A p \in 1..Len(T) : T[p] # "begin"  BY NoBeginStays
  <2> QED  BY <2>1 DEF PemSpans
<1>4. AwsSpans(T, credential) = {}  BY NoAwsKeyStays
<1>5. AuthorizationSpans(T) = {}  BY NoAuthorizationStays
<1>6. CASE s \in UrlSpans(T)  BY <1>6, UrlsEngulf DEF Excused
<1>7. CASE s \in AbsSpans(T)  BY <1>7, PathsAreReopened DEF Excused
<1>8. CASE pii /\ s \in EmailSpans(T)  BY <1>8, EmailsAreNames DEF Excused
<1> QED  BY <1>1, <1>2, <1>3, <1>4, <1>5, <1>6, <1>7, <1>8 DEF Candidates

------------------------------------------------------------------------------
(* The walk of a document *)

\* A document on the way of a write: was as it was read, is as it is now, rest
\* the nodes still to come, flags those whose flag is up, how the options.
Below(was, n) == {m \in DOMAIN was : was[m].up = n}
Flagged(was, flags, how, n) == ~AsText(how) /\ Below(was, n) \cap flags # {}

WalkedString(was, is, flags, how, n) ==
  /\ is[n].label = was[n].label
  /\ n \in flags <=> is[n].text # was[n].text
  /\ Clean(is[n].text, Context(is[n], how), how.pii)

WalkedList(was, is, flags, how, n) ==
  /\ is[n].text = was[n].text /\ is[n].label = was[n].label
  /\ n \in flags <=> Flagged(was, flags, how, n)

WalkedObject(was, is, flags, how, n) ==
  /\ is[n].text = was[n].text
  /\ n \in flags <=> was[n].label = "none" /\ Flagged(was, flags, how, n)
  /\ is[n].label = IF Flagged(was, flags, how, n) THEN Upgraded(was[n].label)
                   ELSE was[n].label

Walked(was, is, flags, how, n) ==
  /\ was[n].is = "string" => WalkedString(was, is, flags, how, n)
  /\ was[n].is = "list" => WalkedList(was, is, flags, how, n)
  /\ was[n].is = "object" => WalkedObject(was, is, flags, how, n)

OnTheWay(was, is, rest, flags, how) ==
  /\ DOMAIN is = DOMAIN was
  /\ \A n \in DOMAIN was : /\ is[n].up = was[n].up /\ is[n].is = was[n].is
                           /\ is[n].credential = was[n].credential
  /\ \A n \in DOMAIN was \cap rest : is[n] = was[n] /\ n \notin flags
  /\ \A n \in DOMAIN was \ rest : /\ Below(was, n) \cap rest = {}
                                  /\ Walked(was, is, flags, how, n)

\* What the labels say when the walk is over.
Tells(was, is, how) ==
  \A n \in DOMAIN was :
    is[n].label =
      IF /\ ~AsText(how) /\ was[n].label \in {"safe", "unknown"}
         /\ \E m \in DOMAIN was : Owners(was)[m] = n /\ is[m].text # was[m].text
        THEN "redacted" ELSE was[n].label

\* The owner of a node is found by going up.
LEMMA OwnersAre ==
  ASSUME NEW was \in Seq(Node), Tree(was)
  PROVE  \A n \in DOMAIN was :
           /\ Owners(was)[n] \in Nat
           /\ Owners(was)[n] = IF was[n].up = 0 \/ was[was[n].up].label # "none"
                                 THEN was[n].up ELSE Owners(was)[was[n].up]
<1> DEFINE D == DOMAIN was
           N == Len(was)
           Ends(n) == was[n].up = 0 \/ was[was[n].up].label # "none"
           B == {n \in D : Ends(n)}
           rank == [n \in D |-> n]
           prev == [n \in D \ B |-> was[n].up]
           base == [n \in B |-> was[n].up]
           step == [n \in D \ B |-> [v \in Nat |-> v]]
<1>1. D = 1..N /\ N \in Nat /\ \A n \in D : was[n] \in Node  OBVIOUS
<1>2. \A n \in D : was[n].up \in Nat /\ was[n].up < n  BY <1>1 DEF Tree, Node
<1> HIDE DEF D, N
<1>3. \A n \in D \ B : was[n].up \in D /\ was[n].up < n
  <2> SUFFICES ASSUME NEW n \in D \ B PROVE was[n].up \in D /\ was[n].up < n  OBVIOUS
  <2>1. was[n].up # 0  OBVIOUS
  <2> QED  BY <1>1, <1>2, <2>1
<1>4. PICK g \in [D -> Nat] : Solves(g, D, B, prev, base, step)
  <2>1. Descends(D, B, N, rank, prev)
    <3>1. rank \in [D -> 0..N]  BY <1>1
    <3>2. prev \in [D \ B -> D]  BY <1>3
    <3>3. \A x \in D \ B : rank[prev[x]] < rank[x]  BY <1>3
    <3> HIDE DEF rank, prev, Ends
    <3> QED  BY <1>1, <3>1, <3>2, <3>3 DEF Descends
  <2>2. Computes(Nat, D, B, base, step)  BY <1>2 DEF Computes
  <2> HIDE DEF B, rank, prev, base, step
  <2> QED  BY <2>1, <2>2, Recursion
<1>5. ASSUME NEW n \in D
      PROVE  g[n] = IF was[n].up = 0 \/ was[was[n].up].label # "none" THEN was[n].up ELSE g[was[n].up]
  <2>1. CASE n \in B
    <3>1. g[n] = was[n].up  BY <1>4, <2>1 DEF Solves
    <3> QED  BY <2>1, <3>1
  <2>2. CASE n \notin B
    <3>1. n \in D \ B /\ prev[n] = was[n].up /\ was[n].up \in D  BY <1>3, <2>2
    <3>2. g[n] = step[n][g[prev[n]]] /\ g[was[n].up] \in Nat  BY <1>4, <2>2, <3>1 DEF Solves
    <3>3. g[n] = g[was[n].up]  BY <3>1, <3>2
    <3> QED  BY <2>2, <3>3
  <2> QED  BY <2>1, <2>2
<1> DEFINE Val(f, n) == IF was[n].up = 0 \/ was[was[n].up].label # "none" THEN was[n].up ELSE f[was[n].up]
           Fun(f) == [n \in D |-> Val(f, n)]
           o == CHOOSE f : f = Fun(f)
<1>6. Owners(was) = o  BY DEF Owners, D
<1>7. g = Fun(g)  BY <1>5
<1>8. o = Fun(o)
  <2> HIDE DEF Fun
  <2> QED  BY <1>7
<1> HIDE DEF o
<1>9. \A n \in D : o[n] = Val(o, n)  BY <1>8
<1>10. \A n \in D : o[n] \in Nat
  <2> DEFINE Bad == {n \in D : o[n] \notin Nat}
  <2> SUFFICES ASSUME Bad # {} PROVE FALSE  OBVIOUS
  <2>1. Bad \subseteq Nat  BY <1>1
  <2>2. PICK n \in Bad : \A m \in Bad : n <= m
    <3> HIDE DEF Bad
    <3> QED  BY <2>1, LeastNatural
  <2>3. n \in D /\ o[n] \notin Nat /\ n \in Nat  BY <1>1, <2>2
  <2>4. CASE n \in B  BY <1>2, <1>9, <2>3, <2>4
  <2>5. CASE n \notin B
    <3>1. was[n].up \in D /\ was[n].up < n  BY <1>3, <2>3, <2>5
    <3>2. o[n] = o[was[n].up]  BY <1>9, <2>3, <2>5
    <3>3. was[n].up \in Bad /\ was[n].up \in Nat  BY <1>1, <2>3, <3>1, <3>2
    <3> QED  BY <2>2, <2>3, <3>1, <3>3
  <2> QED  BY <2>4, <2>5
<1> QED  BY <1>6, <1>9, <1>10 DEF D

\* When the walk is over, a label was upgraded for what its object answers for.
LEMMA WalkTells ==
  ASSUME NEW was \in Seq(Node), NEW is \in Seq(Node), Tree(was), NEW flags, NEW how,
         flags \subseteq DOMAIN was, OnTheWay(was, is, {}, flags, how)
  PROVE  Tells(was, is, how)
<1> DEFINE D == DOMAIN was
           own == Owners(was)
           Changed(m) == is[m].text # was[m].text
           Flag(n) == Flagged(was, flags, how, n)
<1>1. \A n \in D : n \in Nat \ {0} /\ was[n] \in Node /\ n <= Len(was)  OBVIOUS
<1>2. /\ \A n \in D : was[n].up \in Nat /\ was[n].up < n
      /\ \A n \in D : was[n].up # 0 => was[n].up \in D /\ was[was[n].up].is # "string"
      /\ \A n \in D : was[n].is # "object" => was[n].label = "none"
      /\ \A n \in D : was[n].is \in {"string", "list", "object"}
  <2>1. \A n \in D : was[n].up \in Nat /\ was[n].up < n  BY <1>1 DEF Tree, Node
  <2>2. \A n \in D : was[n].up # 0 => was[n].up \in D  BY <1>1, <2>1
  <2> QED  BY <1>1, <2>1, <2>2 DEF Tree, Node
<1>3. \A n \in D : Walked(was, is, flags, how, n)  BY DEF OnTheWay
<1>0. CASE AsText(how)
  <2>1. \A n \in D : is[n].label = was[n].label
    BY <1>0, <1>2, <1>3 DEF Walked, WalkedString, WalkedList, WalkedObject, Flagged
  <2> QED  BY <1>0, <2>1 DEF Tells
<1> SUFFICES ASSUME ~AsText(how) PROVE Tells(was, is, how)  BY <1>0
<1>4. \A n \in D : own[n] = IF was[n].up = 0 \/ was[was[n].up].label # "none"
                              THEN was[n].up ELSE own[was[n].up]
  BY OwnersAre
<1> HIDE DEF own
<1>5. \A n \in D : was[n].is = "string" => (n \in flags <=> Changed(n))
  BY <1>3 DEF Walked, WalkedString
<1>6. \A n \in D : Changed(n) => n \in flags
  BY <1>2, <1>3, <1>5 DEF Walked, WalkedList, WalkedObject
<1>7. \A n \in D : was[n].is # "string" => (n \in flags <=> was[n].label = "none" /\ Flag(n))
  BY <1>2, <1>3 DEF Walked, WalkedList, WalkedObject
\* a flag that is up was raised by a string with the same owner
<1>8. \A n \in flags : \E m \in D : own[m] = own[n] /\ Changed(m)
  <2> DEFINE Bad == {k \in 0..Len(was) : \E n \in flags :
                       n = Len(was) - k /\ ~\E m \in D : own[m] = own[n] /\ Changed(m)}
  <2>1. Bad = {}
    <3> SUFFICES ASSUME Bad # {} PROVE FALSE  OBVIOUS
    <3>1. Bad \subseteq Nat  OBVIOUS
    <3>2. PICK k \in Bad : \A j \in Bad : k <= j
      <4> HIDE DEF Bad
      <4> QED  BY <3>1, LeastNatural
    <3>3. PICK n \in flags : n = Len(was) - k /\ ~\E m \in D : own[m] = own[n] /\ Changed(m)
      BY <3>2
    <3>4. was[n].is # "string"  BY <1>5, <3>3
    <3>5. was[n].label = "none" /\ Flag(n)  BY <1>7, <3>4
    <3>6. PICK c \in D : was[c].up = n /\ c \in flags  BY <3>5 DEF Flagged, Below
    <3>7. own[c] = own[n]  BY <1>1, <1>4, <3>5, <3>6
    <3>8. n < c /\ c <= Len(was) /\ Len(was) \in Nat /\ n \in Nat /\ c \in Nat
      BY <1>1, <1>2, <3>6
    <3>9. Len(was) - c \in 0..Len(was) /\ Len(was) - (Len(was) - c) = c
          /\ Len(was) - c < k /\ k \in Nat
      BY <3>3, <3>8
    <3>10. ~\E m \in D : own[m] = own[c] /\ Changed(m)  BY <3>3, <3>7
    <3>11. Len(was) - c \in Bad  BY <3>6, <3>9, <3>10
    <3> HIDE DEF Bad
    <3> QED  BY <3>2, <3>9, <3>11
  <2>2. SUFFICES ASSUME NEW n \in flags PROVE \E m \in D : own[m] = own[n] /\ Changed(m)
    OBVIOUS
  <2>3. Len(was) - n \in 0..Len(was) /\ n = Len(was) - (Len(was) - n)  BY <1>1
  <2> QED  BY <2>1, <2>3
\* a flag that is up is seen where it stops
<1>9. \A n \in flags : own[n] # 0 => Flag(own[n])
  <2> DEFINE Bad == {n \in flags : own[n] # 0 /\ ~Flag(own[n])}
  <2> SUFFICES ASSUME Bad # {} PROVE FALSE  OBVIOUS
  <2>1. Bad \subseteq Nat  BY <1>1
  <2>2. PICK n \in Bad : \A j \in Bad : n <= j
    <3> HIDE DEF Bad
    <3> QED  BY <2>1, LeastNatural
  <2>3. n \in flags /\ n \in D /\ own[n] # 0 /\ ~Flag(own[n])  BY <2>2
  <2> DEFINE u == was[n].up
  <2>4. Flag(u)  BY <2>3 DEF Flagged, Below
  <2>5. own[n] # u  BY <2>3, <2>4
  <2>6. u # 0 /\ was[u].label = "none" /\ own[n] = own[u]  BY <1>4, <2>3, <2>5
  <2>7. u \in D /\ was[u].is # "string" /\ u < n /\ u \in Nat /\ n \in Nat  BY <1>1, <1>2, <2>3, <2>6
  <2>8. u \in flags  BY <1>7, <2>4, <2>6, <2>7
  <2>9. u \in Bad  BY <2>3, <2>6, <2>8
  <2> HIDE DEF Bad, u
  <2> QED  BY <2>2, <2>7, <2>9
<1>10. ASSUME NEW n \in D, was[n].label # "none"
       PROVE  Flag(n) <=> \E m \in D : own[m] = n /\ Changed(m)
  <2>1. ASSUME Flag(n)  PROVE \E m \in D : own[m] = n /\ Changed(m)
    <3>1. PICK c \in D : was[c].up = n /\ c \in flags  BY <2>1 DEF Flagged, Below
    <3>2. own[c] = n  BY <1>1, <1>4, <1>10, <3>1
    <3> QED  BY <1>8, <3>1, <3>2
  <2>2. ASSUME NEW m \in D, own[m] = n, Changed(m)  PROVE Flag(n)
    BY <1>1, <1>6, <1>9, <2>2
  <2> QED  BY <2>1, <2>2
<1> SUFFICES ASSUME NEW n \in D
    PROVE  is[n].label =
             IF /\ was[n].label \in {"safe", "unknown"}
                /\ \E m \in D : own[m] = n /\ Changed(m)
               THEN "redacted" ELSE was[n].label
  BY DEF Tells, own
<1>11. CASE was[n].is # "object"
  <2>1. was[n].label = "none"  BY <1>2, <1>11
  <2>2. is[n].label = was[n].label
    BY <1>2, <1>3, <1>11 DEF Walked, WalkedString, WalkedList
  <2> QED  BY <2>1, <2>2
<1>12. CASE was[n].is = "object"
  <2>1. is[n].label = IF Flag(n) THEN Upgraded(was[n].label) ELSE was[n].label
    BY <1>3, <1>12 DEF Walked, WalkedObject
  <2>2. CASE was[n].label = "none"  BY <2>1, <2>2 DEF Upgraded
  <2>3. CASE was[n].label # "none"
    <3>1. Flag(n) <=> \E m \in D : own[m] = n /\ Changed(m)  BY <1>10, <2>3
    <3> HIDE DEF Flag, Changed
    <3> QED  BY <2>1, <3>1 DEF Upgraded
  <2> QED  BY <2>2, <2>3
<1> QED  BY <1>11, <1>12

------------------------------------------------------------------------------
(* The command at its place in a document *)

Busy == pc \in {"walk", "spans"}

\* What a command reads of the evidence is a tree; a check leaves it alone, and
\* a check of the mirror has a file of the mirror in hand.
Sourced ==
  /\ \A n \in Name : evidence[n] # Absent => Tree(evidence[n].nodes)
  /\ ~task.check => task.over = "evidence"
  /\ Busy /\ task.check => body = source
  /\ Busy /\ task.over = "evidence" => Tree(source.nodes)
  /\ Busy /\ task.over = "mirror" => mirror[file] = body

\* The string under resolution is the next of those left; what is open comes
\* after what was chosen, and whatever is settled was reached.
Reached(s) ==
  \/ Contained(Text(Current), s)
  \/ \E c \in chosen : (c = s \/ Earlier(c, s)) /\ Overlap(c, s)

Resolving ==
  pc = "spans" =>
    /\ Current \in left /\ Children(Current) \cap left = {}
    /\ body.nodes[Current].is = "string"
    /\ open \cup chosen \subseteq {s \in CandidatesOf(Current) : ~Contained(Text(Current), s)}
    /\ \A c \in chosen, s \in open : Earlier(c, s)
    /\ \A s, t \in chosen : Overlap(s, t) => s = t
    /\ \A s \in CandidatesOf(Current) \ open : Reached(s)

\* A write has rewritten what it has left behind.
Writing ==
  Busy /\ ~task.check => OnTheWay(source.nodes, body.nodes, left, tainted, task)

\* The mirror: its labels tell, and its strings are clean.
Mirrored ==
  \A f \in Name : mirror[f] # Absent =>
    /\ Tells(origin[f].from.nodes, mirror[f].nodes, origin[f])
    /\ \A n \in DOMAIN mirror[f].nodes : mirror[f].nodes[n].is = "string" =>
         Clean(mirror[f].nodes[n].text, Context(mirror[f].nodes[n], origin[f]),
               origin[f].pii)

\* A finding in a value of the mirror is one of its candidates.
IsOfMirror(x) ==
  LET node == mirror[x.file].nodes[x.node]
  IN  /\ x.file \in Name /\ mirror[x.file] # Absent
      /\ x.node \in DOMAIN mirror[x.file].nodes /\ node.is = "string"
      /\ x.span \in Candidates(node.text, Context(node, task), task.pii)
      /\ ~Contained(node.text, x.span)

Reported == task.over = "mirror" => \A x \in found : x.place = "value" => IsOfMirror(x)

Sound == TypeOK /\ Sourced /\ Resolving /\ Writing /\ Mirrored /\ Reported

\* A document with the text or the label of one node changed.
LEMMA NodesAre ==
  ASSUME NEW f \in File, NEW n \in DOMAIN f.nodes
  PROVE  f.nodes \in Seq(Node) /\ n \in Nat /\ f.nodes[n] \in Node
  BY DEF File

WithText(f, n, text) == [f EXCEPT !.nodes[n].text = text]
WithLabel(f, n, label) == [f EXCEPT !.nodes[n].label = label]

\* A document with one text changed.
LEMMA TextChanges ==
  ASSUME NEW f \in File, NEW n \in DOMAIN f.nodes, NEW text \in Seq(Token)
  PROVE  /\ WithText(f, n, text) \in File
         /\ DOMAIN WithText(f, n, text).nodes = DOMAIN f.nodes
         /\ WithText(f, n, text).nodes[n] = [f.nodes[n] EXCEPT !.text = text]
         /\ \A k \in DOMAIN f.nodes : k # n => WithText(f, n, text).nodes[k] = f.nodes[k]
<1> DEFINE g == WithText(f, n, text)
           x == [f.nodes[n] EXCEPT !.text = text]
<1>1. f.nodes \in Seq(Node) /\ f.kind \in Kind /\ f = [kind |-> f.kind, nodes |-> f.nodes]
  BY DEF File
<1>2. f.nodes[n] \in Node  BY <1>1
<1>3. x \in Node  BY <1>2 DEF Node, Label
<1>4. g = [f EXCEPT !.nodes = [f.nodes EXCEPT ![n] = x]]  BY DEF WithText, WithLabel
<1> HIDE DEF x
<1> DEFINE ns == [f.nodes EXCEPT ![n] = x]
<1>5. ns \in Seq(Node) /\ DOMAIN ns = DOMAIN f.nodes /\ ns[n] = x
      /\ \A k \in DOMAIN f.nodes : k # n => ns[k] = f.nodes[k]
  BY <1>1, <1>3
<1> HIDE DEF ns
<1> HIDE DEF g
<1>6. g = [kind |-> f.kind, nodes |-> ns]  BY <1>1, <1>4 DEF ns
<1>7. g.nodes = ns  BY <1>6
<1>8. g \in File  BY <1>1, <1>5, <1>6 DEF File
<1> QED  BY <1>5, <1>7, <1>8 DEF x, g

\* A document with one label changed.
LEMMA LabelChanges ==
  ASSUME NEW f \in File, NEW n \in DOMAIN f.nodes, NEW label \in Label
  PROVE  /\ WithLabel(f, n, label) \in File
         /\ DOMAIN WithLabel(f, n, label).nodes = DOMAIN f.nodes
         /\ WithLabel(f, n, label).nodes[n] = [f.nodes[n] EXCEPT !.label = label]
         /\ \A k \in DOMAIN f.nodes : k # n => WithLabel(f, n, label).nodes[k] = f.nodes[k]
<1> DEFINE g == WithLabel(f, n, label)
           x == [f.nodes[n] EXCEPT !.label = label]
<1>1. f.nodes \in Seq(Node) /\ f.kind \in Kind /\ f = [kind |-> f.kind, nodes |-> f.nodes]
  BY DEF File
<1>2. f.nodes[n] \in Node  BY <1>1
<1>3. x \in Node  BY <1>2 DEF Node, Label
<1>4. g = [f EXCEPT !.nodes = [f.nodes EXCEPT ![n] = x]]  BY DEF WithText, WithLabel
<1> HIDE DEF x
<1> DEFINE ns == [f.nodes EXCEPT ![n] = x]
<1>5. ns \in Seq(Node) /\ DOMAIN ns = DOMAIN f.nodes /\ ns[n] = x
      /\ \A k \in DOMAIN f.nodes : k # n => ns[k] = f.nodes[k]
  BY <1>1, <1>3
<1> HIDE DEF ns
<1> HIDE DEF g
<1>6. g = [kind |-> f.kind, nodes |-> ns]  BY <1>1, <1>4 DEF ns
<1>7. g.nodes = ns  BY <1>6
<1>8. g \in File  BY <1>1, <1>5, <1>6 DEF File
<1> QED  BY <1>5, <1>7, <1>8 DEF x, g

WithKey(f, n, key) == [f EXCEPT !.nodes[n].key = key]

\* A document with one key changed.
LEMMA KeyChanges ==
  ASSUME NEW f \in File, NEW n \in DOMAIN f.nodes, NEW key \in Token
  PROVE  /\ WithKey(f, n, key) \in File
         /\ DOMAIN WithKey(f, n, key).nodes = DOMAIN f.nodes
         /\ WithKey(f, n, key).nodes[n] = [f.nodes[n] EXCEPT !.key = key]
         /\ \A k \in DOMAIN f.nodes : k # n => WithKey(f, n, key).nodes[k] = f.nodes[k]
<1> DEFINE g == WithKey(f, n, key)
           x == [f.nodes[n] EXCEPT !.key = key]
<1>1. f.nodes \in Seq(Node) /\ f.kind \in Kind /\ f = [kind |-> f.kind, nodes |-> f.nodes]
  BY DEF File
<1>2. f.nodes[n] \in Node  BY <1>1
<1>3. x \in Node  BY <1>2 DEF Node, Label
<1>4. g = [f EXCEPT !.nodes = [f.nodes EXCEPT ![n] = x]]  BY DEF WithKey
<1> HIDE DEF x
<1> DEFINE ns == [f.nodes EXCEPT ![n] = x]
<1>5. ns \in Seq(Node) /\ DOMAIN ns = DOMAIN f.nodes /\ ns[n] = x
      /\ \A k \in DOMAIN f.nodes : k # n => ns[k] = f.nodes[k]
  BY <1>1, <1>3
<1> HIDE DEF ns
<1> HIDE DEF g
<1>6. g = [kind |-> f.kind, nodes |-> ns]  BY <1>1, <1>4 DEF ns
<1>7. g.nodes = ns  BY <1>6
<1>8. g \in File  BY <1>1, <1>5, <1>6 DEF File
<1> QED  BY <1>5, <1>7, <1>8 DEF x, g

\* A scanned key stays apart from everything else of its document, and gives the
\* value behind it the context it gave before: a marker is no secret.
LEMMA KeyScannedIs ==
  ASSUME TypeOK, NEW n \in DOMAIN body.nodes
  PROVE  /\ KeyScanned(n) \in File /\ DOMAIN KeyScanned(n).nodes = DOMAIN body.nodes
         /\ \A k \in DOMAIN body.nodes : k # n => KeyScanned(n).nodes[k] = body.nodes[k]
         /\ KeyScanned(n).nodes[n].up = body.nodes[n].up
         /\ KeyScanned(n).nodes[n].is = body.nodes[n].is
         /\ KeyScanned(n).nodes[n].text = body.nodes[n].text
         /\ KeyScanned(n).nodes[n].label = body.nodes[n].label
         /\ KeyScanned(n).nodes[n].credential = body.nodes[n].credential
         /\ Context(KeyScanned(n).nodes[n], task) = Context(body.nodes[n], task)
         /\ task.check => KeyScanned(n) = body
<1>1. body \in File /\ body.nodes[n] \in Node  BY NodesAre DEF TypeOK
<1>2. CASE ~(AsText(task) /\ ~task.check /\ KeySpans(n) # {})
  <2>1. KeyScanned(n) = body  BY <1>2 DEF KeyScanned
  <2> QED  BY <1>1, <2>1
<1>3. CASE AsText(task) /\ ~task.check /\ KeySpans(n) # {}
  <2> DEFINE s == CHOOSE s \in KeySpans(n) : TRUE
             key == Mark[s.by]
             is == body.nodes[n]
             now == KeyScanned(n).nodes[n]
  <2>1. s \in Candidates(Key(n), FALSE, task.pii)
    <3>1. s \in KeySpans(n)  BY <1>3
    <3> QED  BY <3>1 DEF KeySpans
  <2>2. KeyScanned(n) = WithKey(body, n, key)  BY <1>3 DEF KeyScanned, WithKey
  <2> HIDE DEF s
  <2>3. s.by \in Detector  BY <2>1, SpansAreNamed
  <2>4. key \in Token /\ key # "marker"
    <3>1. "marker" \in Plain  BY DEF Plain
    <3> QED  BY <2>3, <3>1, MarksAre
  <2> HIDE DEF key
  <2>5. /\ KeyScanned(n) \in File /\ DOMAIN KeyScanned(n).nodes = DOMAIN body.nodes
        /\ now = [is EXCEPT !.key = key]
        /\ \A k \in DOMAIN body.nodes : k # n => KeyScanned(n).nodes[k] = body.nodes[k]
    BY <1>1, <2>2, <2>4, KeyChanges
  <2>6. is.key # "marker"
    <3>1. is.key \in Token  BY <1>1 DEF Node
    <3> QED  BY <2>1, <3>1, MarkerIsNoSecret DEF Key
  <2> HIDE DEF now
  <2>7. /\ now.key = key /\ now.up = is.up /\ now.is = is.is /\ now.text = is.text
        /\ now.label = is.label /\ now.credential = is.credential
    BY <1>1, <2>5 DEF Node
  <2>8. Context(now, task) = Context(is, task)
    BY <1>3, <2>4, <2>6, <2>7 DEF Context
  <2> QED  BY <1>3, <2>5, <2>7, <2>8 DEF now
<1> QED  BY <1>2, <1>3

\* Entering a string takes up the one that comes first.
LEMMA EnteredIsCurrent ==
  ASSUME TypeOK, NEW n \in left, EnterString(n)
  PROVE  Current = n
<1> DEFINE ripe == {m \in left : Children(m) \cap left = {}}
<1>1. ripe \subseteq Nat  BY DEF TypeOK, File
<1>2. n \in ripe /\ \A m \in ripe : n <= m  BY DEF EnterString, AtNode
<1>3. \A k \in ripe : (\A m \in ripe : k <= m) => k = n  BY <1>1, <1>2
<1> HIDE DEF ripe
<1>4. (CHOOSE k \in ripe : \A m \in ripe : k <= m) = n  BY <1>2, <1>3
<1> QED  BY <1>4 DEF Current, ripe

\* The string under resolution.
LEMMA CurrentIs ==
  ASSUME Sound, pc = "spans"
  PROVE  /\ Current \in DOMAIN body.nodes /\ body.nodes[Current] \in Node
         /\ Text(Current) \in Seq(Token) /\ Context(body.nodes[Current], task) \in BOOLEAN
         /\ task.pii \in BOOLEAN
         /\ \A s \in CandidatesOf(Current) : /\ s.from \in Int /\ s.to \in Int
                                             /\ s.from <= s.to
<1>1. Current \in DOMAIN body.nodes /\ task.pii \in BOOLEAN
  BY DEF Sound, Resolving, TypeOK, Task
<1>2. body.nodes[Current] \in Node  BY <1>1, NodesAre DEF Sound, TypeOK
<1>3. Text(Current) \in Seq(Token) /\ Context(body.nodes[Current], task) \in BOOLEAN
  BY <1>2 DEF Text, Node, Context
<1>4. \A s \in CandidatesOf(Current) : SpanOf(Text(Current), s)
  BY <1>3, CandidatesAreSpans DEF CandidatesOf
<1> QED  BY <1>1, <1>2, <1>3, <1>4 DEF SpanOf

\* All candidates considered: the string is resolved.
LEMMA AllConsidered ==
  ASSUME Sound, pc = "spans", open = {}
  PROVE  Resolved(Text(Current), Context(body.nodes[Current], task), task.pii, chosen)
  BY DEF Sound, Resolving, Reached, CandidatesOf, Resolved

------------------------------------------------------------------------------
(* Types *)

\* Nothing is in hand to begin with.
LEMMA InitIsTyped == Init => TypeOK
<1> SUFFICES ASSUME Init PROVE TypeOK  OBVIOUS
<1>1. evidence \in [Name -> File \cup {Absent}] /\ MaxCommands \in Nat /\ MaxChanges \in Nat
  BY RedactionAssumption DEF Init
<1>2. Nothing \in File  BY DEF Nothing, File, Kind
<1>3. task \in Task  BY DEF Init, Task, Format
<1> QED  BY <1>1, <1>2, <1>3 DEF Init, TypeOK, Nothing

\* From file to file.
LEMMA FilesAreTyped ==
  ASSUME Sound, Begin \/ OpenFile \/ CloseFile \/ Finish
  PROVE  TypeOK'
<1> USE DEF Sound, TypeOK, walkVars
<1>1. CASE Begin
  <2>1. PICK t \in Task : task' = t /\ files' = {n \in Name : Scanned(t)[n] # Absent}
    BY <1>1 DEF Begin
  <2>2. /\ commands' \in 0..MaxCommands /\ changes' = changes
        /\ pc' = "files" /\ task' \in Task /\ files' \subseteq Name
        /\ UNCHANGED <<evidence, mirror, origin, body, left, tainted, source, file>>
    BY <1>1, <2>1, RedactionAssumption DEF Begin
  <2> QED  BY <2>2
<1>2. CASE OpenFile
  <2>1. PICK n \in files :
          /\ files' = files \ {n}
          /\ \/ pc' \in {"idle", "files"} /\ UNCHANGED walkVars
             \/ /\ Scanned(task)[n] # Absent /\ pc' = "walk" /\ file' = n
                /\ body' = Scanned(task)[n] /\ source' = Scanned(task)[n]
                /\ left' = DOMAIN Scanned(task)[n].nodes /\ tainted' = {}
    BY <1>2 DEF OpenFile
  <2>2. UNCHANGED <<evidence, mirror, task, origin, commands, changes>>
    BY <1>2 DEF OpenFile
  <2>3. n \in Name /\ files' \subseteq Name /\ Scanned(task)[n] \in File \cup {Absent}
    BY <2>1 DEF Scanned
  <2>4. CASE pc' \in {"idle", "files"} /\ UNCHANGED walkVars
    BY <2>2, <2>3, <2>4
  <2>5. CASE /\ Scanned(task)[n] # Absent /\ pc' = "walk" /\ file' = n
             /\ body' = Scanned(task)[n] /\ source' = Scanned(task)[n]
             /\ left' = DOMAIN Scanned(task)[n].nodes /\ tainted' = {}
    BY <2>2, <2>3, <2>5
  <2> QED  BY <2>1, <2>4, <2>5
<1>3. CASE CloseFile
  <2>1. /\ pc = "walk" /\ pc' = "files" /\ file \in Name
        /\ UNCHANGED <<evidence, task, files, file, source, body, left, tainted, commands,
                       changes>>
    BY <1>3 DEF CloseFile
  <2>2. CASE task.check  BY <1>3, <2>1, <2>2 DEF CloseFile
  <2>3. CASE ~task.check
    <3>1. /\ mirror' = [mirror EXCEPT ![file] = body]
          /\ origin' = [origin EXCEPT ![file] = [from |-> source, pii |-> task.pii,
                                                     format |-> task.format]]
      BY <1>3, <2>3 DEF CloseFile
    <3>2. task.pii \in BOOLEAN /\ task.format \in Format  BY DEF Task
    <3>3. origin' \in [Name -> Written \cup {Absent}]
      BY <3>1, <3>2 DEF Written
    <3>4. mirror' \in [Name -> File \cup {Absent}]  BY <2>1, <3>1
    <3> QED  BY <2>1, <2>3, <3>3, <3>4
  <2> QED  BY <2>2, <2>3
<1>4. CASE Finish
  BY <1>4 DEF Finish
<1> QED  BY <1>1, <1>2, <1>3, <1>4

\* From node to node.
LEMMA WalkIsTyped ==
  ASSUME Sound, Walk
  PROVE  TypeOK'
<1> USE DEF Sound, TypeOK
<1>1. /\ UNCHANGED <<evidence, mirror, task, files, file, source, origin, commands, changes>>
      /\ pc \in {"walk", "spans"} /\ pc' \in {"walk", "spans"}
  BY DEF Walk, walkVars, EnterString, LeaveList, LeaveObject, Consider, LeaveString, AtNode
<1>2. ASSUME NEW n \in left, EnterString(n)  PROVE TypeOK'
  <2>1. UNCHANGED <<body, left, tainted>>  BY <1>2 DEF EnterString, walkVars
  <2> QED  BY <1>1, <2>1
<1>3. ASSUME NEW n \in left, LeaveList(n)  PROVE TypeOK'
  <2>1. left' = left \ {n} /\ tainted' \subseteq tainted \cup {n} /\ body' = KeyScanned(n)
    BY <1>3 DEF LeaveList
  <2>2. n \in DOMAIN body.nodes  OBVIOUS
  <2>3. body' \in File /\ DOMAIN body'.nodes = DOMAIN body.nodes
    <3>1. TypeOK  OBVIOUS
    <3> HIDE DEF Sound, TypeOK
    <3> QED  BY <2>1, <2>2, <3>1, KeyScannedIs
  <2> QED  BY <1>1, <2>1, <2>2, <2>3
<1>4. ASSUME NEW n \in left, LeaveObject(n)  PROVE TypeOK'
  <2>1. /\ left' = left \ {n} /\ tainted' \subseteq tainted \cup {n}
        /\ \/ body' = KeyScanned(n)
           \/ body' = WithLabel(body, n, Upgraded(body.nodes[n].label))
    BY <1>4 DEF LeaveObject, WithLabel
  <2>2. n \in DOMAIN body.nodes /\ body.nodes[n] \in Node  BY NodesAre
  <2>3. Upgraded(body.nodes[n].label) \in Label  BY <2>2 DEF Upgraded, Node, Label
  <2>4. body' \in File /\ DOMAIN body'.nodes = DOMAIN body.nodes
    <3>1. CASE body' = KeyScanned(n)
      <4>1. TypeOK /\ n \in DOMAIN body.nodes  BY <2>2
      <4> HIDE DEF Sound, TypeOK
      <4> QED  BY <3>1, <4>1, KeyScannedIs
    <3>2. CASE body' = WithLabel(body, n, Upgraded(body.nodes[n].label))
      <4>1. body \in File  OBVIOUS
      <4> HIDE DEF Sound, TypeOK
      <4>2. n \in DOMAIN body.nodes  BY <2>2
      <4> QED  BY <2>3, <3>2, <4>1, <4>2, LabelChanges
    <3> QED  BY <2>1, <3>1, <3>2
  <2> QED  BY <1>1, <2>1, <2>2, <2>4
<1>5. ASSUME NEW s \in open, Consider(s)  PROVE TypeOK'
  <2>1. UNCHANGED <<body, left, tainted, pc>>  BY <1>5 DEF Consider, walkVars
  <2> QED  BY <1>1, <2>1
<1>6. CASE LeaveString
  <2>1. /\ left' = left \ {Current} /\ tainted' \subseteq tainted \cup {Current}
        /\ pc = "spans" /\ open = {}
        /\ \/ body' = body
           \/ body' = [KeyScanned(Current) EXCEPT
                         !.nodes[Current].text = Rewritten(@, chosen)]
    BY <1>6 DEF LeaveString
  <2>2. /\ Current \in DOMAIN body.nodes
        /\ Resolved(Text(Current), Context(body.nodes[Current], task), task.pii, chosen)
        /\ Text(Current) \in Seq(Token)
    BY <2>1, AllConsidered, CurrentIs
  <2>3. Rewritten(body.nodes[Current].text, chosen) \in Seq(Token)
    <3>1. Apart(Text(Current), chosen)  BY <2>2, ResolvedIsApart
    <3>2. PICK at : Layout(Text(Current), chosen, at)  BY <2>2, <3>1, LayoutExists
    <3> QED  BY <3>2 DEF Layout, Text
  <2>4. body' \in File /\ DOMAIN body'.nodes = DOMAIN body.nodes
    <3>1. CASE body' = body  BY <3>1
    <3>2. CASE body' = [KeyScanned(Current) EXCEPT
                          !.nodes[Current].text = Rewritten(@, chosen)]
      <4>1. TypeOK /\ Current \in DOMAIN body.nodes  BY <2>2
      <4> HIDE DEF Sound, TypeOK
      <4>2. /\ KeyScanned(Current) \in File
            /\ DOMAIN KeyScanned(Current).nodes = DOMAIN body.nodes
            /\ KeyScanned(Current).nodes[Current].text = body.nodes[Current].text
        BY <4>1, KeyScannedIs
      <4>3. body' = WithText(KeyScanned(Current), Current,
                             Rewritten(body.nodes[Current].text, chosen))
        BY <3>2, <4>2 DEF WithText
      <4>4. Current \in DOMAIN KeyScanned(Current).nodes  BY <4>1, <4>2
      <4>5. /\ WithText(KeyScanned(Current), Current,
                        Rewritten(body.nodes[Current].text, chosen)) \in File
            /\ DOMAIN WithText(KeyScanned(Current), Current,
                               Rewritten(body.nodes[Current].text, chosen)).nodes
                 = DOMAIN KeyScanned(Current).nodes
        BY <2>3, <4>2, <4>4, TextChanges
      <4> QED  BY <4>2, <4>3, <4>5
    <3> QED  BY <2>1, <3>1, <3>2
  <2> QED  BY <1>1, <2>1, <2>2, <2>4
<1> QED  BY <1>2, <1>3, <1>4, <1>5, <1>6 DEF Walk

\* Every step keeps the types.
LEMMA StepIsTyped ==
  ASSUME Sound, [Next]_vars
  PROVE  TypeOK'
<1>1. CASE Begin \/ OpenFile \/ CloseFile \/ Finish  BY <1>1, FilesAreTyped
<1>2. CASE Walk  BY <1>2, WalkIsTyped
<1>3. CASE Kill
  <2>1. /\ pc' = "idle"
        /\ UNCHANGED <<evidence, mirror, task, files, walkVars, origin, commands, changes>>
    BY <1>3 DEF Kill
  <2> QED  BY <2>1 DEF walkVars, Sound, TypeOK
<1>4. CASE Record \/ UNCHANGED vars
  <2>1. UNCHANGED <<mirror, task, pc, files, walkVars, origin, commands>>
    BY <1>4 DEF Record, vars
  <2>2. evidence' \in [Name -> File \cup {Absent}] /\ changes' \in 0..MaxChanges
    BY <1>4, RedactionAssumption DEF Record, vars, Sound, TypeOK
  <2> QED  BY <2>1, <2>2 DEF walkVars, Sound, TypeOK
<1> QED  BY <1>1, <1>2, <1>3, <1>4 DEF Next

\* One more node is left behind.
LEMMA NodeIsLeft ==
  ASSUME NEW was \in Seq(Node), Tree(was), NEW is, NEW now, NEW left0, NEW tainted0,
         NEW tainted1, NEW how, OnTheWay(was, is, left0, tainted0, how),
         NEW n \in DOMAIN was, n \in left0, Below(was, n) \cap left0 = {},
         DOMAIN now = DOMAIN was, \A k \in DOMAIN was : k # n => now[k] = is[k],
         now[n].up = was[n].up, now[n].is = was[n].is,
         now[n].credential = was[n].credential,
         tainted1 \in {tainted0, tainted0 \cup {n}},
         Walked(was, now, tainted1, how, n)
  PROVE  OnTheWay(was, now, left0 \ {n}, tainted1, how)
<1>1. \A k \in DOMAIN was : /\ now[k].up = was[k].up /\ now[k].is = was[k].is
                            /\ now[k].credential = was[k].credential
  BY DEF OnTheWay
<1>2. \A k \in DOMAIN was \cap (left0 \ {n}) : now[k] = was[k] /\ k \notin tainted1
  BY DEF OnTheWay
<1>3. ASSUME NEW k \in DOMAIN was \ (left0 \ {n})
      PROVE  Below(was, k) \cap (left0 \ {n}) = {} /\ Walked(was, now, tainted1, how, k)
  <2>1. CASE k = n  BY <2>1
  <2>2. CASE k # n
    <3>1. Below(was, k) \cap left0 = {} /\ Walked(was, is, tainted0, how, k)
      BY <2>2 DEF OnTheWay
    <3>2. n \notin Below(was, k)  BY <3>1
    <3>3. Flagged(was, tainted1, how, k) <=> Flagged(was, tainted0, how, k)  BY <3>2 DEF Flagged
    <3>4. now[k] = is[k] /\ (k \in tainted1 <=> k \in tainted0)  BY <2>2
    <3> QED  BY <3>1, <3>3, <3>4 DEF Walked, WalkedString, WalkedList, WalkedObject
  <2> QED  BY <2>1, <2>2
<1> QED  BY <1>1, <1>2, <1>3 DEF OnTheWay

\* A write has in hand what it read of the evidence.
LEMMA WriteReads ==
  ASSUME Sound, Busy, ~task.check
  PROVE  /\ source.nodes \in Seq(Node) /\ Tree(source.nodes) /\ body.nodes \in Seq(Node)
         /\ DOMAIN body.nodes = DOMAIN source.nodes
         /\ OnTheWay(source.nodes, body.nodes, left, tainted, task)
         /\ \A n : Children(n) = Below(source.nodes, n)
         /\ \A n \in left : /\ n \in DOMAIN source.nodes /\ source.nodes[n] \in Node
                            /\ body.nodes[n] = source.nodes[n] /\ n \notin tainted
<1>1. source.nodes \in Seq(Node) /\ body.nodes \in Seq(Node)  BY DEF Sound, TypeOK, File
<1>2. Tree(source.nodes)  BY DEF Sound, Sourced
<1>3. OnTheWay(source.nodes, body.nodes, left, tainted, task)  BY DEF Sound, Writing
<1>4. DOMAIN body.nodes = DOMAIN source.nodes  BY <1>3 DEF OnTheWay
<1>5. \A n : Children(n) = Below(source.nodes, n)
  <2>1. \A m \in DOMAIN source.nodes : body.nodes[m].up = source.nodes[m].up
    BY <1>3 DEF OnTheWay
  <2> QED  BY <1>4, <2>1 DEF Children, Below
<1>6. \A n \in left : n \in DOMAIN source.nodes  BY <1>4 DEF Sound, TypeOK
<1>7. \A n \in DOMAIN source.nodes : source.nodes[n] \in Node  BY <1>1
<1>8. \A n \in left : body.nodes[n] = source.nodes[n] /\ n \notin tainted
  BY <1>3, <1>6 DEF OnTheWay
<1> QED  BY <1>1, <1>2, <1>3, <1>4, <1>5, <1>6, <1>7, <1>8

------------------------------------------------------------------------------
(* What is in hand *)

\* Every step keeps in hand what was read.
LEMMA StepIsSourced ==
  ASSUME Sound, [Next]_vars
  PROVE  Sourced'
<1> USE DEF Sound, Sourced, Busy, walkVars
<1>1. CASE Begin
  <2>1. PICK t \in Task : task' = t /\ (~t.check => t.over = "evidence")
    BY <1>1 DEF Begin
  <2>2. pc' = "files" /\ evidence' = evidence  BY <1>1 DEF Begin
  <2> QED  BY <2>1, <2>2
<1>2. CASE OpenFile
  <2>1. UNCHANGED <<evidence, mirror, task>>  BY <1>2 DEF OpenFile
  <2>2. CASE pc' # "walk"
    <3>1. pc' \in {"idle", "files"}  BY <1>2, <2>2 DEF OpenFile
    <3> QED  BY <2>1, <3>1
  <2>3. CASE pc' = "walk"
    <3>1. PICK n \in files : /\ Scanned(task)[n] # Absent /\ file' = n
                             /\ body' = Scanned(task)[n] /\ source' = Scanned(task)[n]
      BY <1>2, <2>3 DEF OpenFile
    <3>2. n \in Name  BY DEF TypeOK
    <3> QED  BY <2>1, <2>3, <3>1, <3>2 DEF Scanned
  <2> QED  BY <2>2, <2>3
<1>3. CASE CloseFile
  BY <1>3 DEF CloseFile
<1>4. CASE Finish \/ Kill
  BY <1>4 DEF Finish, Kill
<1>5. CASE Walk
  <2>1. Busy /\ UNCHANGED <<evidence, mirror, task, file, source>>
    BY <1>5 DEF Walk, EnterString, LeaveList, LeaveObject, Consider, LeaveString, AtNode
  <2>2. task.check => body' = body
    BY <1>5 DEF Walk, EnterString, LeaveList, LeaveObject, Consider, LeaveString, KeyScanned
  <2>3. task.over = "mirror" => body' = body
    <3>1. task.over = "mirror" => task.check  OBVIOUS
    <3> QED  BY <2>2, <3>1
  <2> QED  BY <2>1, <2>2, <2>3
<1>6. CASE Record
  <2>1. PICK n \in Name, v \in Version : evidence' = [evidence EXCEPT ![n] = v]
    BY <1>6 DEF Record
  <2>2. UNCHANGED <<mirror, task, pc, walkVars>>  BY <1>6 DEF Record
  <2>3. \A k \in Name : evidence'[k] # Absent => Tree(evidence'[k].nodes)
    <3>1. v # Absent => Tree(v.nodes)  BY RedactionAssumption
    <3>2. evidence \in [Name -> File \cup {Absent}]  BY DEF TypeOK
    <3> QED  BY <2>1, <3>1, <3>2
  <2> QED  BY <2>2, <2>3
<1>7. CASE UNCHANGED vars
  BY <1>7 DEF vars
<1> QED  BY <1>1, <1>2, <1>3, <1>4, <1>5, <1>6, <1>7 DEF Next

------------------------------------------------------------------------------
(* The resolution of a string *)

\* One candidate is considered: chosen, or reached by one chosen before.
LEMMA ConsiderResolves ==
  ASSUME Sound, NEW s \in open, Consider(s)
  PROVE  Resolving'
<1>0. pc = "spans" /\ pc' = "spans"  BY DEF Consider
<1>1. /\ Current' = Current /\ CandidatesOf(Current)' = CandidatesOf(Current)
      /\ Text(Current)' = Text(Current) /\ left' = left /\ body' = body
      /\ Children(Current)' = Children(Current)
  BY DEF Consider, walkVars, Current, Children, CandidatesOf, Text
<1>2. open \cup chosen \subseteq {t \in CandidatesOf(Current) : ~Contained(Text(Current), t)}
  BY <1>0 DEF Sound, Resolving
<1>3. \A t \in CandidatesOf(Current) : t.from \in Int /\ t.to \in Int /\ t.from <= t.to
  BY <1>0, CurrentIs
<1>4. /\ Current \in left /\ Children(Current) \cap left = {}
      /\ body.nodes[Current].is = "string"
      /\ \A c \in chosen, t \in open : Earlier(c, t)
      /\ \A t, u \in chosen : Overlap(t, u) => t = u
      /\ \A t \in CandidatesOf(Current) \ open : Reached(t)
  BY <1>0 DEF Sound, Resolving
<1>5. open' = open \ {s} /\ \A t \in open' : Earlier(s, t)  BY DEF Consider
<1>6. \A t : Contained(Text(Current), t)' = Contained(Text(Current), t)
  BY <1>1 DEF Contained
<1>7. CASE Free(s)
  <2>1. chosen' = chosen \cup {s}  BY <1>7 DEF Consider
  <2>2. \A c \in chosen', t \in open' : Earlier(c, t)
    BY <1>4, <1>5, <2>1
  <2>3. \A c \in chosen : ~Overlap(c, s) /\ ~Overlap(s, c)
    BY <1>2, <1>3, <1>7 DEF Free, Overlap
  <2>4. \A t, u \in chosen' : Overlap(t, u) => t = u
    BY <1>4, <2>1, <2>3
  <2>5. Overlap(s, s)  BY <1>2, <1>3 DEF Overlap
  <2>6. \A t \in CandidatesOf(Current) \ open' : Reached(t)'
    BY <1>1, <1>4, <1>5, <1>6, <2>1, <2>5 DEF Reached
  <2> QED  BY <1>1, <1>2, <1>4, <1>5, <1>6, <2>1, <2>2, <2>4, <2>6 DEF Resolving
<1>8. CASE ~Free(s)
  <2>1. chosen' = chosen  BY <1>8 DEF Consider
  <2>2. PICK c \in chosen : ~(s.from > c.to)  BY <1>8 DEF Free
  <2>3. Earlier(c, s) /\ Overlap(c, s)
    BY <1>2, <1>3, <1>4, <2>2 DEF Earlier, Overlap
  <2>4. \A t \in CandidatesOf(Current) \ open' : Reached(t)'
    BY <1>1, <1>4, <1>5, <1>6, <2>1, <2>3 DEF Reached
  <2> QED  BY <1>1, <1>2, <1>4, <1>5, <1>6, <2>1, <2>4 DEF Resolving
<1> QED  BY <1>7, <1>8

\* A string that is entered has nothing chosen, and all but placeholders open.
LEMMA EnterResolves ==
  ASSUME Sound, NEW n \in left, EnterString(n)
  PROVE  Resolving'
<1>1. Current = n  BY EnteredIsCurrent DEF Sound
<1>2. /\ Current' = Current /\ CandidatesOf(Current)' = CandidatesOf(Current)
      /\ Text(Current)' = Text(Current) /\ left' = left /\ body' = body
      /\ Children(Current)' = Children(Current)
  BY DEF EnterString, walkVars, Current, Children, CandidatesOf, Text
<1>3. /\ open' = {s \in CandidatesOf(Current) : ~Contained(Text(Current), s)}
      /\ chosen' = {}
  BY <1>1 DEF EnterString
<1>4. /\ n \in left /\ Children(n) \cap left = {} /\ body.nodes[n].is = "string"
  BY DEF EnterString, AtNode
<1>5. \A t : Contained(Text(Current), t)' = Contained(Text(Current), t)
  BY <1>2 DEF Contained
<1>6. \A s \in CandidatesOf(Current) \ open' : Reached(s)'
  BY <1>2, <1>3, <1>5 DEF Reached
<1> QED  BY <1>1, <1>2, <1>3, <1>4, <1>5, <1>6 DEF Resolving

\* Every step keeps what is settled of a string.
LEMMA StepResolves ==
  ASSUME Sound, [Next]_vars
  PROVE  Resolving'
<1>1. CASE pc' # "spans"  BY <1>1 DEF Resolving
<1>2. CASE pc' = "spans"
  <2>1. ASSUME NEW n \in left, EnterString(n)  PROVE Resolving'
    BY <2>1, EnterResolves
  <2>2. ASSUME NEW s \in open, Consider(s)  PROVE Resolving'
    BY <2>2, ConsiderResolves
  <2>3. CASE Record \/ UNCHANGED vars
    <3>1. UNCHANGED <<task, pc, walkVars, open, chosen>>  BY <2>3 DEF Record, vars
    <3>2. /\ Current' = Current /\ CandidatesOf(Current)' = CandidatesOf(Current)
          /\ Text(Current)' = Text(Current) /\ Children(Current)' = Children(Current)
          /\ left' = left /\ body' = body
      BY <3>1 DEF walkVars, Current, Children, CandidatesOf, Text
    <3>3. \A s : Contained(Text(Current), s)' = Contained(Text(Current), s)
      BY <3>2 DEF Contained
    <3>4. \A s : Reached(s)' <=> Reached(s)  BY <3>1, <3>2, <3>3 DEF Reached
    <3> QED  BY <3>1, <3>2, <3>3, <3>4 DEF Sound, Resolving
  <2>4. ~Begin /\ ~OpenFile /\ ~CloseFile /\ ~Finish /\ ~Kill /\ ~LeaveString
    BY <1>2 DEF Begin, OpenFile, CloseFile, Finish, Kill, LeaveString
  <2>5. \A n : ~LeaveList(n) /\ ~LeaveObject(n)
    BY <1>2 DEF LeaveList, LeaveObject, AtNode
  <2> QED  BY <2>1, <2>2, <2>3, <2>4, <2>5 DEF Next, Walk
<1> QED  BY <1>1, <1>2

------------------------------------------------------------------------------
(* What a write has rewritten *)

\* A string that is left: its chosen spans are replaced, and its flag is up
\* exactly when there were some.
LEMMA StringIsWritten ==
  ASSUME Sound, LeaveString, ~task.check
  PROVE  OnTheWay(source.nodes, body'.nodes, left', tainted', task)
<1> DEFINE was == source.nodes
           is == body.nodes
           scanned == KeyScanned(Current).nodes
           now == body'.nodes
           new == Rewritten(Text(Current), chosen)
<1>1. pc = "spans" /\ open = {} /\ Busy  BY DEF LeaveString, Busy
<1>2. /\ was \in Seq(Node) /\ Tree(was) /\ DOMAIN is = DOMAIN was
      /\ OnTheWay(was, is, left, tainted, task)
      /\ Current \in left /\ Below(was, Current) \cap left = {}
      /\ Current \in DOMAIN was /\ was[Current] \in Node /\ is[Current] = was[Current]
      /\ Current \notin tainted /\ was[Current].is = "string"
  BY <1>1, WriteReads DEF Sound, Resolving
<1>3. /\ Resolved(Text(Current), Context(is[Current], task), task.pii, chosen)
      /\ Text(Current) \in Seq(Token) /\ Context(is[Current], task) \in BOOLEAN
      /\ task.pii \in BOOLEAN
  BY <1>1, AllConsidered, CurrentIs
<1>4. new \in Seq(Token)
  <2>1. Apart(Text(Current), chosen)  BY <1>3, ResolvedIsApart
  <2>2. PICK at : Layout(Text(Current), chosen, at)  BY <1>3, <2>1, LayoutExists
  <2> QED  BY <2>2 DEF Layout
<1>5. Clean(new, Context(is[Current], task), task.pii)  BY <1>3, RewrittenIsClean
<1>6. chosen = {} <=> new = Text(Current)  BY <1>3, NoSpansNoChange, SpansChange
<1>7. /\ body' = [KeyScanned(Current) EXCEPT !.nodes[Current].text = Rewritten(@, chosen)]
      /\ tainted' = IF chosen = {} THEN tainted ELSE tainted \cup {Current}
      /\ left' = left \ {Current}
  BY DEF LeaveString
<1>16. /\ KeyScanned(Current) \in File /\ DOMAIN scanned = DOMAIN is
       /\ \A k \in DOMAIN is : k # Current => scanned[k] = is[k]
       /\ scanned[Current].up = was[Current].up /\ scanned[Current].is = was[Current].is
       /\ scanned[Current].text = is[Current].text
       /\ scanned[Current].label = was[Current].label
       /\ scanned[Current].credential = was[Current].credential
       /\ Context(scanned[Current], task) = Context(is[Current], task)
  BY <1>2, KeyScannedIs DEF Sound
<1>17. body' = WithText(KeyScanned(Current), Current, new)
  BY <1>7, <1>16 DEF WithText, Text
<1>18. scanned[Current] \in Node  BY <1>2, <1>16, NodesAre
<1> HIDE DEF new
<1>8. /\ DOMAIN now = DOMAIN scanned
      /\ now[Current] = [scanned[Current] EXCEPT !.text = new]
      /\ \A k \in DOMAIN scanned : k # Current => now[k] = scanned[k]
  BY <1>2, <1>4, <1>16, <1>17, TextChanges
<1> HIDE DEF scanned
<1>9. /\ now[Current].text = new /\ now[Current].label = was[Current].label
      /\ now[Current].up = was[Current].up /\ now[Current].is = was[Current].is
      /\ now[Current].credential = was[Current].credential
      /\ Context(now[Current], task) = Context(is[Current], task)
  <2>1. /\ now[Current].text = new /\ now[Current].label = scanned[Current].label
        /\ now[Current].up = scanned[Current].up /\ now[Current].is = scanned[Current].is
        /\ now[Current].credential = scanned[Current].credential
        /\ now[Current].key = scanned[Current].key
    BY <1>8, <1>18 DEF Node
  <2>2. Context(now[Current], task) = Context(scanned[Current], task)
    BY <2>1 DEF Context
  <2> QED  BY <1>16, <2>1, <2>2
<1>10. tainted' \in {tainted, tainted \cup {Current}}  BY <1>7
<1>11. Current \in tainted' <=> now[Current].text # was[Current].text
  BY <1>2, <1>6, <1>7, <1>9 DEF Text
<1>12. WalkedString(was, now, tainted', task, Current)
  BY <1>2, <1>5, <1>9, <1>11 DEF WalkedString
<1>13. Walked(was, now, tainted', task, Current)  BY <1>2, <1>12 DEF Walked
<1> HIDE DEF was, is, now
<1>14. DOMAIN now = DOMAIN was /\ \A k \in DOMAIN was : k # Current => now[k] = is[k]
  BY <1>2, <1>8, <1>16
<1>15. OnTheWay(was, now, left \ {Current}, tainted', task)
  BY <1>2, <1>14, <1>9, <1>10, <1>13, NodeIsLeft
<1> QED  BY <1>7, <1>15 DEF was, now

\* A list that is left passes the flag on.
LEMMA ListIsWritten ==
  ASSUME Sound, NEW n \in left, LeaveList(n), ~task.check
  PROVE  OnTheWay(source.nodes, body'.nodes, left', tainted', task)
<1> DEFINE was == source.nodes
           is == body.nodes
           now == body'.nodes
<1>1. /\ Busy /\ Children(n) \cap left = {} /\ is[n].is = "list"
      /\ body' = KeyScanned(n) /\ left' = left \ {n}
      /\ tainted' = IF RaisesFlag(n) THEN tainted \cup {n} ELSE tainted
  BY DEF LeaveList, AtNode, Busy
<1>2. /\ was \in Seq(Node) /\ Tree(was) /\ DOMAIN is = DOMAIN was
      /\ OnTheWay(was, is, left, tainted, task) /\ Children(n) = Below(was, n)
      /\ n \in DOMAIN was /\ was[n] \in Node /\ is[n] = was[n] /\ n \notin tainted
  BY <1>1, WriteReads
<1>3. tainted' \in {tainted, tainted \cup {n}}  BY <1>1
<1>4. n \notin Below(was, n)
  <2>1. was[n].up < n /\ was[n].up \in Nat  BY <1>2 DEF Tree, Node
  <2> QED  BY <2>1 DEF Below
<1>5. /\ Flagged(was, tainted', task, n) <=> Flagged(was, tainted, task, n)
      /\ Flagged(was, tainted, task, n) <=> RaisesFlag(n)
  BY <1>2, <1>3, <1>4 DEF Flagged, RaisesFlag
<1>6. n \in tainted' <=> Flagged(was, tainted', task, n)  BY <1>1, <1>2, <1>5
<1>7. /\ DOMAIN now = DOMAIN is /\ now[n].label = was[n].label /\ now[n].text = was[n].text
      /\ now[n].up = was[n].up /\ now[n].is = was[n].is
      /\ now[n].credential = was[n].credential
      /\ \A k \in DOMAIN is : k # n => now[k] = is[k]
  BY <1>1, <1>2, KeyScannedIs DEF Sound
<1>8. Walked(was, now, tainted', task, n)  BY <1>1, <1>2, <1>6, <1>7 DEF Walked, WalkedList
<1> HIDE DEF was, is, now
<1>9. OnTheWay(was, now, left \ {n}, tainted', task)
  BY <1>1, <1>2, <1>3, <1>7, <1>8, NodeIsLeft
<1> QED  BY <1>1, <1>9 DEF was, now

\* An object that is left: a label of its own takes the flag, no label passes it on.
LEMMA ObjectIsWritten ==
  ASSUME Sound, NEW n \in left, LeaveObject(n), ~task.check
  PROVE  OnTheWay(source.nodes, body'.nodes, left', tainted', task)
<1> DEFINE was == source.nodes
           is == body.nodes
           now == body'.nodes
           raised == RaisesFlag(n)
<1>1. /\ Busy /\ Children(n) \cap left = {} /\ is[n].is = "object" /\ left' = left \ {n}
      /\ tainted' = IF raised /\ is[n].label = "none" THEN tainted \cup {n} ELSE tainted
  BY DEF LeaveObject, AtNode, Busy, Bubbles
<1>2. /\ was \in Seq(Node) /\ Tree(was) /\ DOMAIN is = DOMAIN was
      /\ OnTheWay(was, is, left, tainted, task) /\ Children(n) = Below(was, n)
      /\ n \in DOMAIN was /\ was[n] \in Node /\ is[n] = was[n] /\ n \notin tainted
  BY <1>1, WriteReads
<1>3. tainted' \in {tainted, tainted \cup {n}}  BY <1>1
<1>4. n \notin Below(was, n)
  <2>1. was[n].up < n /\ was[n].up \in Nat  BY <1>2 DEF Tree, Node
  <2> QED  BY <2>1 DEF Below
<1>5. /\ Flagged(was, tainted', task, n) <=> Flagged(was, tainted, task, n)
      /\ Flagged(was, tainted, task, n) <=> raised
  BY <1>2, <1>3, <1>4 DEF Flagged, RaisesFlag
<1>6. n \in tainted' <=> was[n].label = "none" /\ Flagged(was, tainted', task, n)
  BY <1>1, <1>2, <1>5
<1> DEFINE label == IF raised THEN Upgraded(was[n].label) ELSE was[n].label
<1>7. label \in Label  BY <1>2 DEF Upgraded, Label, Node
<1>8. /\ DOMAIN now = DOMAIN is /\ now[n].label = label /\ now[n].text = was[n].text
      /\ now[n].up = was[n].up /\ now[n].is = was[n].is
      /\ now[n].credential = was[n].credential
      /\ \A k \in DOMAIN is : k # n => now[k] = is[k]
  <2>1. CASE raised /\ is[n].label # "none"
    <3>1. body' = WithLabel(body, n, label)
      BY <1>2, <2>1 DEF LeaveObject, WithLabel
    <3> HIDE DEF label
    <3>2. /\ DOMAIN now = DOMAIN is /\ now[n] = [is[n] EXCEPT !.label = label]
          /\ \A k \in DOMAIN is : k # n => now[k] = is[k]
      BY <1>2, <1>7, <3>1, LabelChanges DEF Sound, TypeOK
    <3> QED  BY <1>2, <3>2 DEF Node
  <2>2. CASE ~(raised /\ is[n].label # "none")
    <3>1. body' = KeyScanned(n)  BY <2>2 DEF LeaveObject
    <3>2. label = was[n].label  BY <1>2, <2>2 DEF Upgraded
    <3> HIDE DEF label
    <3> QED  BY <1>2, <3>1, <3>2, KeyScannedIs DEF Sound
  <2> QED  BY <2>1, <2>2
<1>9. WalkedObject(was, now, tainted', task, n)  BY <1>5, <1>6, <1>8 DEF WalkedObject
<1>10. Walked(was, now, tainted', task, n)  BY <1>1, <1>2, <1>9 DEF Walked
<1> HIDE DEF was, is, now, label, raised
<1>11. OnTheWay(was, now, left \ {n}, tainted', task)
  BY <1>1, <1>2, <1>3, <1>8, <1>10, NodeIsLeft
<1> QED  BY <1>1, <1>11 DEF was, now

\* Every step of a write leaves nodes as they should be.
LEMMA StepIsWriting ==
  ASSUME Sound, [Next]_vars
  PROVE  Writing'
<1> SUFFICES ASSUME Busy', ~task'.check
             PROVE  OnTheWay(source'.nodes, body'.nodes, left', tainted', task')
  BY DEF Writing
<1>1. pc' \in {"walk", "spans"}  BY DEF Busy
<1>2. CASE OpenFile
  <2>1. CASE pc' = pc  BY <1>1, <1>2, <2>1 DEF OpenFile
  <2>2. CASE pc' # pc
    <3>1. PICK n : /\ body' = Scanned(task)[n] /\ source' = Scanned(task)[n]
                   /\ left' = DOMAIN Scanned(task)[n].nodes /\ tainted' = {}
      BY <1>1, <1>2, <2>2 DEF OpenFile
    <3>2. body'.nodes = source'.nodes /\ left' = DOMAIN source'.nodes /\ tainted' = {}
      BY <3>1
    <3> QED  BY <3>2 DEF OnTheWay
  <2> QED  BY <2>1, <2>2
<1>3. ~Begin /\ ~CloseFile /\ ~Finish /\ ~Kill
  BY <1>1 DEF Begin, CloseFile, Finish, Kill
<1>4. CASE Walk
  <2>1. task' = task /\ source' = source /\ Busy /\ ~task.check
    BY <1>4 DEF Walk, EnterString, LeaveList, LeaveObject, Consider, LeaveString, AtNode,
                Busy, walkVars
  <2>2. OnTheWay(source.nodes, body.nodes, left, tainted, task)
    BY <2>1 DEF Sound, Writing
  <2>3. ASSUME NEW n \in left, EnterString(n)
        PROVE  OnTheWay(source.nodes, body'.nodes, left', tainted', task)
    BY <2>2, <2>3 DEF EnterString, walkVars
  <2>4. ASSUME NEW s \in open, Consider(s)
        PROVE  OnTheWay(source.nodes, body'.nodes, left', tainted', task)
    BY <2>2, <2>4 DEF Consider, walkVars
  <2>5. OnTheWay(source.nodes, body'.nodes, left', tainted', task)
    BY <1>4, <2>1, <2>3, <2>4, StringIsWritten, ListIsWritten, ObjectIsWritten DEF Walk
  <2> QED  BY <2>1, <2>5
<1>5. CASE Record \/ UNCHANGED vars
  <2>1. UNCHANGED <<task, pc, walkVars>>  BY <1>5 DEF Record, vars
  <2> QED  BY <2>1 DEF Sound, Writing, Busy, walkVars
<1> QED  BY <1>2, <1>3, <1>4, <1>5 DEF Next

------------------------------------------------------------------------------
(* What a write leaves in the mirror, and what a check of it reports *)

\* What is written to the mirror went through the whole walk.
LEMMA StepIsMirrored ==
  ASSUME Sound, [Next]_vars
  PROVE  Mirrored'
<1>1. CASE CloseFile /\ ~task.check
  <2>1. /\ pc = "walk" /\ left = {} /\ Busy /\ file \in Name
        /\ mirror' = [mirror EXCEPT ![file] = body]
        /\ origin' = [origin EXCEPT ![file] = [from |-> source, pii |-> task.pii,
                                                     format |-> task.format]]
    BY <1>1 DEF CloseFile, Busy, Sound, TypeOK
  <2>2. /\ source.nodes \in Seq(Node) /\ Tree(source.nodes) /\ body.nodes \in Seq(Node)
        /\ DOMAIN body.nodes = DOMAIN source.nodes
        /\ OnTheWay(source.nodes, body.nodes, {}, tainted, task)
    BY <1>1, <2>1, WriteReads
  <2>3. tainted \subseteq DOMAIN source.nodes  BY <2>2 DEF Sound, TypeOK
  <2>4. Tells(source.nodes, body.nodes, task)  BY <2>2, <2>3, WalkTells
  <2>5. ASSUME NEW n \in DOMAIN body.nodes, body.nodes[n].is = "string"
        PROVE  Clean(body.nodes[n].text, Context(body.nodes[n], task), task.pii)
    <3>1. Walked(source.nodes, body.nodes, tainted, task, n)
          /\ source.nodes[n].is = "string"
      BY <2>2, <2>5 DEF OnTheWay
    <3> QED  BY <3>1 DEF Walked, WalkedString
  <2>6. /\ mirror'[file] = body /\ origin'[file].from = source
        /\ origin'[file].pii = task.pii /\ origin'[file].format = task.format
    BY <2>1 DEF Sound, TypeOK
  <2>7. \A f \in Name : f # file => mirror'[f] = mirror[f] /\ origin'[f] = origin[f]
    BY <2>1 DEF Sound, TypeOK
  <2>8. /\ Tells(source.nodes, body.nodes, origin'[file])
        /\ \A n \in DOMAIN body.nodes :
             Context(body.nodes[n], origin'[file]) = Context(body.nodes[n], task)
    BY <2>4, <2>6 DEF Tells, Context, AsText
  <2> QED  BY <2>5, <2>6, <2>7, <2>8 DEF Sound, Mirrored
<1>2. CASE ~(CloseFile /\ ~task.check)
  <2>1. UNCHANGED <<mirror, origin>>
    BY <1>2 DEF Next, Begin, OpenFile, CloseFile, Finish, Walk, EnterString, Consider,
                LeaveString, LeaveList, LeaveObject, Kill, Record, vars
  <2> QED  BY <2>1 DEF Sound, Mirrored
<1> QED  BY <1>1, <1>2

\* What a check of the mirror reports is in the mirror.
LEMMA StepIsReported ==
  ASSUME Sound, [Next]_vars
  PROVE  Reported'
<1>1. CASE Begin  BY <1>1 DEF Begin, Reported
<1>2. CASE ~Begin
  <2>1. task' = task
    BY <1>2 DEF Next, OpenFile, CloseFile, Finish, Walk, EnterString, Consider,
                LeaveString, LeaveList, LeaveObject, Kill, Record, vars
  <2> SUFFICES ASSUME task.over = "mirror", NEW x \in found', x.place = "value"
               PROVE  IsOfMirror(x)'
    BY <2>1 DEF Reported
  <2>2. task.check  BY DEF Sound, Sourced
  <2>3. mirror' = mirror
    BY <1>2, <2>2 DEF Next, OpenFile, CloseFile, Finish, Walk, EnterString, Consider,
                      LeaveString, LeaveList, LeaveObject, Kill, Record, vars
  <2>4. IsOfMirror(x)' <=> IsOfMirror(x)  BY <2>1, <2>3 DEF IsOfMirror
  <2>5. CASE x \in found  BY <2>4, <2>5 DEF Sound, Reported
  <2>6. ASSUME NEW s \in chosen, LeaveString, x = Finding(Current, "value", s)
        PROVE  IsOfMirror(x)
    <3>1. pc = "spans" /\ Busy  BY <2>6 DEF LeaveString, Busy
    <3>2. mirror[file] = body /\ file \in Name
      BY <3>1 DEF Sound, Sourced, TypeOK
    <3>3. Current \in DOMAIN body.nodes  BY <3>1, CurrentIs
    <3>4. /\ s \in Candidates(Text(Current), Context(body.nodes[Current], task), task.pii)
          /\ ~Contained(Text(Current), s) /\ body.nodes[Current].is = "string"
      BY <3>1 DEF Sound, Resolving, CandidatesOf
    <3>5. x.file = file /\ x.node = Current /\ x.span = s  BY <2>6 DEF Finding
    <3>6. body # Absent  BY RedactionAssumption DEF Sound, TypeOK
    <3> QED  BY <3>2, <3>3, <3>4, <3>5, <3>6 DEF IsOfMirror, Text
  <2>7. ASSUME NEW n, x \in KeyFindings(n)  PROVE FALSE
    <3>1. PICK s : x = Finding(n, "key", s)  BY <2>7 DEF KeyFindings
    <3> QED  BY <3>1 DEF Finding
  <2>8. CASE x \notin found
    <3>1. \/ LeaveString /\ \E s \in chosen : x = Finding(Current, "value", s)
          \/ \E n : x \in KeyFindings(n)
      BY <1>2, <2>8 DEF Next, OpenFile, CloseFile, Finish, Walk, EnterString, Consider,
                        LeaveString, LeaveList, LeaveObject, Kill, Record, vars
    <3> QED  BY <2>4, <2>6, <2>7, <3>1
  <2> QED  BY <2>5, <2>8
<1> QED  BY <1>1, <1>2

------------------------------------------------------------------------------
(* The theorems *)

\* The mirror is empty to begin with.
LEMMA InitIsSound == Init => Sound
<1> SUFFICES ASSUME Init PROVE Sound  OBVIOUS
<1>1. TypeOK  BY InitIsTyped
<1>2. Sourced
  <2>1. \A n \in Name : evidence[n] # Absent => Tree(evidence[n].nodes)
    BY RedactionAssumption DEF Init
  <2> QED  BY <2>1 DEF Init, Sourced, Busy
<1>3. Resolving /\ Writing /\ Mirrored /\ Reported
  BY DEF Init, Resolving, Writing, Busy, Mirrored, Reported
<1> QED  BY <1>1, <1>2, <1>3 DEF Sound

\* The invariant is inductive.
LEMMA StepIsSound == Sound /\ [Next]_vars => Sound'
  BY StepIsTyped, StepIsSourced, StepResolves, StepIsWriting, StepIsMirrored,
     StepIsReported DEF Sound

\* The inductive invariant.
THEOREM Soundness == Spec => []Sound
  BY InitIsSound, StepIsSound, PTL DEF Spec

\* Types, for any evidence and any commands: a command is at a node of the document.
THEOREM TypeCorrect == Spec => []TypeOK
<1>1. Sound => TypeOK  BY DEF Sound
<1> QED  BY <1>1, Soundness, PTL

\* Whatever a command reads, the evidence or a mirror: no two spans it chose of a
\* string overlap, and no candidate it considered was left alone.
THEOREM SpansHoldAlways == Spec => []SpansHold
<1>1. Sound => SpansHold
  <2> SUFFICES ASSUME Sound, pc = "spans" PROVE SpansHold  BY DEF SpansHold
  <2>1. \A s, t \in chosen : Overlap(s, t) => s = t  BY DEF Sound, Resolving
  <2>2. ASSUME NEW s \in CandidatesOf(Current) \ open
        PROVE  \/ InsidePlaceholder(Text(Current), s)
               \/ \E c \in chosen : c.from <= s.from /\ Overlap(c, s)
    <3>1. CASE Contained(Text(Current), s)  BY <3>1 DEF Contained, InsidePlaceholder
    <3>2. CASE ~Contained(Text(Current), s)
      <4>1. PICK c \in chosen : (c = s \/ Earlier(c, s)) /\ Overlap(c, s)
        BY <2>2, <3>2 DEF Sound, Resolving, Reached
      <4>2. c \in CandidatesOf(Current)  BY DEF Sound, Resolving
      <4>3. c.from \in Int /\ s.from \in Int  BY <4>2, CurrentIs
      <4>4. c.from <= s.from  BY <4>1, <4>3 DEF Earlier
      <4> QED  BY <4>1, <4>4
    <3> QED  BY <3>1, <3>2
  <2> QED  BY <2>1, <2>2 DEF SpansHold
<1> QED  BY <1>1, Soundness, PTL

\* In a mirror an object whose label can be upgraded is labelled redacted exactly
\* when a string it answers for was rewritten, for any nesting of any depth.
THEOREM LabelsTell == Spec => []LabelsTellRedaction
<1>1. Sound => LabelsTellRedaction
  BY DEF Sound, Mirrored, Tells, LabelsTellRedaction
<1> QED  BY <1>1, Soundness, PTL

\* A check of a mirror finds in its values nothing but userinfo that takes in a
\* mark, what the kept name of a path is and paths whose name is a mark: with
\* the detectors and the format of the write, nothing else is left to report.
THEOREM GateHolds == Spec => []GateAccepts
<1>1. Sound => GateAccepts
  <2> SUFFICES ASSUME Sound, NEW x \in found, task.over = "mirror", x.place = "value",
                      task.pii => origin[x.file].pii,
                      AsText(task) = AsText(origin[x.file])
               PROVE  Excused(mirror[x.file].nodes[x.node].text, x.span)
    BY DEF GateAccepts, Excused
  <2> DEFINE node == mirror[x.file].nodes[x.node]
             how == origin[x.file]
  <2>1. IsOfMirror(x)  BY DEF Sound, Reported
  <2>2. Clean(node.text, Context(node, how), how.pii)
    BY <2>1 DEF IsOfMirror, Sound, Mirrored
  <2>3. x.span \in Candidates(node.text, Context(node, task), task.pii)
        /\ ~Contained(node.text, x.span)
    BY <2>1 DEF IsOfMirror
  <2>4. Context(node, task) = Context(node, how)  BY DEF Context
  <2>5. x.span \in Candidates(node.text, Context(node, how), how.pii)
    BY <2>3, <2>4 DEF Candidates
  <2> QED  BY <2>2, <2>3, <2>5 DEF Clean
<1> QED  BY <1>1, Soundness, PTL
==============================================================================
