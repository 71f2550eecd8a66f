----------------------------- MODULE SearchProofs ----------------------------
(****************************************************************************)
(* Theorems about what a search answers (Search), for any paths, texts,     *)
(* scores, constraints, limits and answers of git.                          *)
(****************************************************************************)
EXTENDS Search, BigramProofs

Statuses == {"none", "deleted", "modified", "untracked"}

------------------------------------------------------------------------------
(****************************************************************************)
(* Constraints.                                                             *)
(****************************************************************************)

\* What matchOne says of a constraint without negation.
LEMMA MatchAtomMeans ==
  ASSUME NEW c, NEW p, NEW attr, git[p] \in Statuses
  PROVE  /\ MatchAtom(c, p, attr) \in BOOLEAN
         /\ IsKnown(c) => (MatchAtom(c, p, attr) <=> Says(c, p, attr))
         /\ ~IsKnown(c) => MatchAtom(c, p, attr)
<1>1. CASE c.kind = "path"
  BY <1>1 DEF MatchAtom, Says, IsKnown
<1>2. CASE c.kind = "meta"
  BY <1>2 DEF MatchAtom, Says, IsKnown
<1>3. CASE c.kind = "status"
  <2>1. MatchAtom(c, p, attr) <=> (IsKnown(c) => MatchGitStatus(p, c.value))
    BY <1>3 DEF MatchAtom, MatchGitStatus
  <2>2. /\ MatchAtom(c, p, attr) \in BOOLEAN
        /\ Says(c, p, attr) <=> git[p] \in CASE c.value = "clean" -> {"none"}
                             [] c.value = "dirty" -> {"modified", "added", "deleted", "renamed"}
                             [] OTHER -> {c.value}
    BY <1>3 DEF MatchAtom, Says
  <2>3. ASSUME IsKnown(c) PROVE MatchGitStatus(p, c.value) <=> Says(c, p, attr)
    BY <1>3, <2>2, <2>3 DEF MatchGitStatus, Status, Statuses, IsKnown, Kinds
  <2> QED BY <2>1, <2>2, <2>3
<1>4. CASE c.kind \notin {"path", "meta", "status"}
  BY <1>4 DEF MatchAtom, IsKnown
<1> QED BY <1>1, <1>2, <1>3, <1>4

\* What it says of any number of negations, a first one of an unknown value
\* being none.
LEMMA MatchOneMeans ==
  ASSUME NEW c, c.nots \in Nat, NEW p, NEW attr, git[p] \in Statuses
  PROVE  /\ IsKnown(c) => (MatchOne(c, p, attr) <=> (Says(c, p, attr) <=> c.nots % 2 = 0))
         /\ ~IsKnown(c) /\ (c.nots = 0 \/ c.nots % 2 = 1) => MatchOne(c, p, attr)
<1> DEFINE k == c.nots
           atom == MatchAtom(c, p, attr)
           known == IsKnown(c)
           Step(f, n) == IF n = 0 THEN atom ELSE (n = 1 /\ ~known) \/ ~f[n - 1]
           match == CHOOSE f : f = [n \in 0 .. k |-> Step(f, n)]
           Means(n) == IF known THEN atom <=> n % 2 = 0 ELSE n = 0 \/ n % 2 = 1
           h == [n \in 0 .. k |-> Means(n)]
<1>1. MatchOne(c, p, attr) = match[k]
  BY DEF MatchOne
<1>2. atom \in BOOLEAN /\ (~known => atom) /\ known \in BOOLEAN
  BY MatchAtomMeans DEF IsKnown
<1>3. k \in Nat
  OBVIOUS
<1> HIDE DEF k, atom, known
<1>4. ASSUME NEW n \in Nat PROVE (n + 1) % 2 = 0 <=> n % 2 = 1
  OBVIOUS
<1>5. \A n \in Nat : n % 2 = 0 <=> ~(n % 2 = 1)
  OBVIOUS
<1>6. ASSUME NEW n \in Nat PROVE Means(n + 1) <=> (n + 1 = 1 /\ ~known) \/ ~Means(n)
  BY <1>2, <1>4, <1>5, n + 1 \in Nat, n + 1 # 0
<1>7. Means(0) <=> atom
  BY <1>2
<1> HIDE DEF Means
<1>8. h = [n \in 0 .. k |-> Step(h, n)]
  <2>1. ASSUME NEW n \in 0 .. k PROVE h[n] = Step(h, n)
    <3>1. CASE n = 0
      BY <1>2, <1>7, <3>1 DEF Means
    <3>2. CASE n # 0
      <4>1. n - 1 \in 0 .. k /\ n - 1 \in Nat /\ (n - 1) + 1 = n
        BY <1>3, <3>2
      <4>2. h[n - 1] = Means(n - 1) /\ h[n] = Means(n)
        BY <4>1
      <4>3. Means(n) <=> (n = 1 /\ ~known) \/ ~Means(n - 1)
        BY <1>6, <4>1
      <4>4. Means(n) \in BOOLEAN
        BY <1>2 DEF Means
      <4> HIDE DEF h
      <4> QED BY <3>2, <4>2, <4>3, <4>4
    <3> QED BY <3>1, <3>2
  <2>2. h = [n \in 0 .. k |-> h[n]]
    OBVIOUS
  <2> HIDE DEF h
  <2> QED BY <2>1, <2>2
<1>9. match = [n \in 0 .. k |-> Step(match, n)]
  <2> HIDE DEF h
  <2> QED BY <1>8
<1> HIDE DEF match
<1> DEFINE S == {n \in Nat : n <= k => (match[n] <=> Means(n))}
<1>10. 0 \in S
  BY <1>3, <1>7, <1>9
<1>11. ASSUME NEW n \in Nat, n \in S PROVE n + 1 \in S
  <2> SUFFICES ASSUME n + 1 <= k PROVE match[n + 1] <=> Means(n + 1)
    OBVIOUS
  <2>1. n + 1 \in 0 .. k /\ n + 1 # 0 /\ (n + 1) - 1 = n /\ n <= k
    BY <1>3
  <2>2. match[n + 1] = ((n + 1 = 1 /\ ~known) \/ ~match[n])
    BY <1>9, <2>1
  <2>3. match[n] <=> Means(n)
    BY <1>11, <2>1
  <2> QED BY <1>6, <2>2, <2>3
<1>12. k \in S
  <2> HIDE DEF S
  <2> QED BY <1>3, <1>10, <1>11, SetInduction
<1>13. MatchOne(c, p, attr) <=> Means(k)
  BY <1>1, <1>3, <1>12
<1>14. known => (atom <=> Says(c, p, attr))
  BY MatchAtomMeans DEF known, atom
<1> QED BY <1>13, <1>14 DEF Means, k, known

------------------------------------------------------------------------------
(****************************************************************************)
(* The text of a query.                                                     *)
(****************************************************************************)

\* A pair of characters that lies within no word contains a blank.
LEMMA JoinGrams ==
  ASSUME NEW a \in Seq(DOMAIN Lower), NEW w \in Seq(DOMAIN Lower)
  PROVE  /\ a \o <<Blank>> \o w \in Seq(DOMAIN Lower)
         /\ QueryGrams(a \o <<Blank>> \o w) \subseteq QueryGrams(a) \cup Grams(w)
<1> DEFINE t == a \o <<Blank>> \o w
           m == Len(a)
           n == Len(w)
<1>1. /\ m \in Nat /\ n \in Nat /\ t \in Seq(DOMAIN Lower) /\ Len(t) = m + 1 + n
      /\ \A i \in 1 .. m : t[i] = a[i]
      /\ t[m + 1] = Blank
      /\ \A i \in 1 .. n : t[m + 1 + i] = w[i]
  BY BlankAssumption
<1>2. DOMAIN a = 1 .. m /\ DOMAIN w = 1 .. n /\ DOMAIN t = 1 .. m + 1 + n
  BY <1>1
<1> HIDE DEF t, m, n
<1>3. /\ Len(Folded(a)) = m /\ Len(Folded(w)) = n /\ Len(Folded(t)) = m + 1 + n
      /\ \A i \in 1 .. m : Folded(a)[i] = Lower[a[i]]
      /\ \A i \in 1 .. n : Folded(w)[i] = Lower[w[i]]
      /\ \A i \in 1 .. m + 1 + n : Folded(t)[i] = Lower[t[i]]
  BY <1>1, <1>2 DEF Folded
<1>4. /\ \A i \in 1 .. m : Folded(t)[i] = Folded(a)[i]
      /\ Folded(t)[m + 1] = Blank
      /\ \A i \in 1 .. n : Folded(t)[m + 1 + i] = Folded(w)[i]
  <2>1. \A i \in 1 .. m : i \in 1 .. m + 1 + n
    BY <1>1
  <2>2. m + 1 \in 1 .. m + 1 + n
    BY <1>1
  <2>3. \A i \in 1 .. n : m + 1 + i \in 1 .. m + 1 + n
    BY <1>1
  <2>4. /\ \A i \in 1 .. m : t[i] = a[i]
        /\ t[m + 1] = Blank
        /\ \A i \in 1 .. n : t[m + 1 + i] = w[i]
    BY <1>1
  <2>5. \A i \in 1 .. m : Folded(t)[i] = Folded(a)[i]
    BY <1>3, <2>1, <2>4
  <2>6. Folded(t)[m + 1] = Blank
    BY <1>3, <2>2, <2>4, BlankAssumption
  <2>7. ASSUME NEW i \in 1 .. n PROVE Folded(t)[m + 1 + i] = Folded(w)[i]
    <3> DEFINE p == m + 1 + i
    <3>1. p \in 1 .. m + 1 + n /\ t[p] = w[i]
      BY <2>3, <2>4
    <3> HIDE DEF p
    <3>2. Folded(t)[p] = Folded(w)[i]
      BY <1>3, <3>1
    <3> QED BY <3>2 DEF p
  <2> QED BY <2>5, <2>6, <2>7
<1>5. ASSUME NEW i \in 1 .. Len(Folded(t)) - 1,
             Blank \notin {Folded(t)[i], Folded(t)[i + 1]}
      PROVE  <<Folded(t)[i], Folded(t)[i + 1]>> \in QueryGrams(a) \cup Grams(w)
  <2>1. i \in 1 .. m + n /\ i \in Nat
    BY <1>1, <1>3
  <2>2. i # m + 1 /\ i + 1 # m + 1
    BY <1>4, <1>5
  <2>3. CASE i + 1 <= m
    <3>1. i \in 1 .. m /\ i + 1 \in 1 .. m /\ i \in 1 .. Len(Folded(a)) - 1
      BY <1>1, <1>3, <2>1, <2>3
    <3>2. Folded(t)[i] = Folded(a)[i] /\ Folded(t)[i + 1] = Folded(a)[i + 1]
      BY <1>4, <3>1
    <3>3. <<Folded(a)[i], Folded(a)[i + 1]>> \in Grams(a)
      BY <3>1 DEF Grams
    <3>4. <<Folded(a)[i], Folded(a)[i + 1]>> \in QueryGrams(a)
      BY <1>5, <3>2, <3>3 DEF QueryGrams
    <3> QED BY <3>2, <3>4
  <2>4. CASE i > m + 1
    <3> DEFINE j == i - (m + 1)
    <3>1. /\ j \in 1 .. n /\ j + 1 \in 1 .. n /\ j \in 1 .. Len(Folded(w)) - 1
          /\ m + 1 + j = i /\ m + 1 + (j + 1) = i + 1
      BY <1>1, <1>3, <2>1, <2>4
    <3> HIDE DEF j
    <3>2. Folded(t)[i] = Folded(w)[j] /\ Folded(t)[i + 1] = Folded(w)[j + 1]
      BY <1>4, <3>1
    <3>3. <<Folded(w)[j], Folded(w)[j + 1]>> \in Grams(w)
      BY <3>1 DEF Grams
    <3> QED BY <3>2, <3>3
  <2> QED BY <1>1, <2>1, <2>2, <2>3, <2>4
<1>6. QueryGrams(t) \subseteq QueryGrams(a) \cup Grams(w)
  <2> SUFFICES ASSUME NEW g \in QueryGrams(t) PROVE g \in QueryGrams(a) \cup Grams(w)
    OBVIOUS
  <2>1. PICK i \in 1 .. Len(Folded(t)) - 1 : g = <<Folded(t)[i], Folded(t)[i + 1]>>
    BY DEF QueryGrams, Grams
  <2>2. Blank \notin {Folded(t)[i], Folded(t)[i + 1]}
    BY <2>1 DEF QueryGrams
  <2> QED BY <1>5, <2>1, <2>2
<1> QED BY <1>1, <1>6 DEF t

\* What Joined computes.
LEMMA JoinedUnfolds ==
  ASSUME NEW words, Len(words) \in Nat
  PROVE  \E f : /\ Joined(words) = f[Len(words)]
                /\ \A n \in 0 .. Len(words) :
                     f[n] = IF n <= 1 THEN IF n = 0 THEN <<>> ELSE words[1]
                            ELSE f[n - 1] \o <<Blank>> \o words[n]
<1> DEFINE k == Len(words)
           Step(f, n) == IF n <= 1 THEN IF n = 0 THEN <<>> ELSE words[1]
                         ELSE f[n - 1] \o <<Blank>> \o words[n]
           joined == CHOOSE f : f = [n \in 0 .. k |-> Step(f, n)]
<1>1. Joined(words) = joined[k]
  BY DEF Joined
<1> DEFINE S == {m \in Nat : \E f : \A n \in 0 .. m : f[n] = Step(f, n)}
<1>2. 0 \in S
  <2> DEFINE f == [n \in 0 .. 0 |-> <<>>]
  <2>1. \A n \in 0 .. 0 : f[n] = Step(f, n)
    OBVIOUS
  <2> QED BY <2>1
<1>3. ASSUME NEW m \in Nat, m \in S PROVE m + 1 \in S
  <2>1. PICK f : \A n \in 0 .. m : f[n] = Step(f, n)
    BY <1>3
  <2> DEFINE g == [n \in 0 .. m + 1 |-> IF n <= m THEN f[n] ELSE Step(f, n)]
  <2>2. \A n \in 0 .. m : g[n] = f[n] /\ n \in 0 .. m + 1
    OBVIOUS
  <2>3. g[m + 1] = Step(f, m + 1)
    <3> HIDE DEF Step
    <3> QED OBVIOUS
  <2> HIDE DEF g
  <2>4. ASSUME NEW n \in 0 .. m + 1 PROVE g[n] = Step(g, n)
    <3>1. Step(f, n) = Step(g, n)
      <4>1. CASE n <= 1
        BY <4>1
      <4>2. CASE n > 1
        <5>1. n - 1 \in 0 .. m
          BY <4>2
        <5> QED BY <2>2, <4>2, <5>1
      <4> QED BY <4>1, <4>2
    <3> HIDE DEF Step
    <3>2. CASE n \in 0 .. m
      BY <2>1, <2>2, <3>1, <3>2
    <3>3. CASE n = m + 1
      BY <2>3, <3>1, <3>3
    <3> QED BY <3>2, <3>3
  <2> HIDE DEF Step
  <2> QED BY <2>4
<1>4. k \in S
  <2> HIDE DEF S
  <2> QED BY <1>2, <1>3, SetInduction
<1>5. PICK f : \A n \in 0 .. k : f[n] = Step(f, n)
  BY <1>4
<1>6. joined = [n \in 0 .. k |-> Step(joined, n)]
  <2> DEFINE g == [n \in 0 .. k |-> f[n]]
  <2>1. ASSUME NEW n \in 0 .. k PROVE f[n] = Step(g, n)
    <3>1. CASE n <= 1
      BY <1>5, <3>1
    <3>2. CASE n > 1
      <4>1. n - 1 \in 0 .. k
        BY <3>2
      <4>2. g[n - 1] = f[n - 1]
        BY <4>1
      <4> QED BY <1>5, <3>2, <4>2
    <3> QED BY <3>1, <3>2
  <2>2. g = [n \in 0 .. k |-> Step(g, n)]
    <3>1. g = [n \in 0 .. k |-> f[n]]
      OBVIOUS
    <3> HIDE DEF g, Step
    <3> QED BY <2>1, <3>1
  <2> HIDE DEF g, Step
  <2> QED BY <2>2
<1>7. \A n \in 0 .. k : joined[n] = Step(joined, n)
  <2> HIDE DEF Step, joined
  <2> QED BY <1>6
<1> HIDE DEF joined
<1> QED BY <1>1, <1>7

\* The pairs of a query lie within its words.
LEMMA JoinedProperties ==
  ASSUME NEW words \in Seq(Seq(DOMAIN Lower))
  PROVE  /\ Joined(words) \in Seq(DOMAIN Lower)
         /\ \A g \in QueryGrams(Joined(words)) : \E i \in DOMAIN words : g \in Grams(words[i])
<1> DEFINE k == Len(words)
<1>1. k \in Nat /\ DOMAIN words = 1 .. k /\ \A i \in 1 .. k : words[i] \in Seq(DOMAIN Lower)
  OBVIOUS
<1>2. PICK f : /\ Joined(words) = f[k]
               /\ \A n \in 0 .. k : f[n] = IF n <= 1 THEN IF n = 0 THEN <<>> ELSE words[1]
                                           ELSE f[n - 1] \o <<Blank>> \o words[n]
  BY <1>1, JoinedUnfolds
<1> HIDE DEF k
<1> DEFINE Within(n) == \A g \in QueryGrams(f[n]) : \E i \in 1 .. n : g \in Grams(words[i])
           S == {n \in Nat : n <= k => f[n] \in Seq(DOMAIN Lower) /\ Within(n)}
<1>3. 0 \in S
  <2> SUFFICES ASSUME 0 <= k PROVE f[0] \in Seq(DOMAIN Lower) /\ Within(0)
    OBVIOUS
  <2>1. f[0] = <<>>
    BY <1>1, <1>2
  <2>2. QueryGrams(<<>>) = {}
    <3>1. Folded(<<>>) = <<>>
      BY DEF Folded
    <3>2. 1 .. Len(<<>>) - 1 = {}
      OBVIOUS
    <3> QED BY <3>1, <3>2 DEF QueryGrams, Grams
  <2>3. <<>> \in Seq(DOMAIN Lower)
    OBVIOUS
  <2> QED BY <2>1, <2>2, <2>3
<1>4. ASSUME NEW n \in Nat, n \in S PROVE n + 1 \in S
  <2> SUFFICES ASSUME n + 1 <= k PROVE f[n + 1] \in Seq(DOMAIN Lower) /\ Within(n + 1)
    OBVIOUS
  <2>1. n + 1 \in 1 .. k /\ n + 1 \in 0 .. k /\ n <= k /\ (n + 1) - 1 = n
    BY <1>1
  <2>2. f[n] \in Seq(DOMAIN Lower) /\ Within(n)
    BY <1>4, <2>1
  <2>3. words[n + 1] \in Seq(DOMAIN Lower)
    BY <1>1, <2>1
  <2>4. CASE n = 0
    <3>1. f[n + 1] = words[n + 1]
      BY <1>2, <2>1, <2>4
    <3>2. QueryGrams(words[n + 1]) \subseteq Grams(words[n + 1])
      BY DEF QueryGrams
    <3>3. n + 1 \in 1 .. n + 1
      OBVIOUS
    <3> QED BY <2>3, <3>1, <3>2, <3>3
  <2>5. CASE n # 0
    <3>1. f[n + 1] = f[n] \o <<Blank>> \o words[n + 1]
      <4>1. ~(n + 1 <= 1)
        BY <2>5
      <4>2. f[n + 1] = f[(n + 1) - 1] \o <<Blank>> \o words[n + 1]
        BY <1>2, <2>1, <4>1
      <4> QED BY <2>1, <4>2
    <3>2. /\ f[n + 1] \in Seq(DOMAIN Lower)
          /\ QueryGrams(f[n + 1]) \subseteq QueryGrams(f[n]) \cup Grams(words[n + 1])
      BY <2>2, <2>3, <3>1, JoinGrams
    <3>3. n + 1 \in 1 .. n + 1 /\ \A i \in 1 .. n : i \in 1 .. n + 1
      OBVIOUS
    <3>4. Within(n + 1)
      BY <2>2, <3>2, <3>3
    <3> QED BY <3>2, <3>4
  <2> QED BY <2>4, <2>5
<1>5. k \in S
  <2> HIDE DEF S
  <2> QED BY <1>1, <1>3, <1>4, SetInduction
<1>6. f[k] \in Seq(DOMAIN Lower) /\ Within(k)
  BY <1>1, <1>5
<1> QED BY <1>1, <1>2, <1>6

------------------------------------------------------------------------------
(****************************************************************************)
(* The order of results.                                                    *)
(****************************************************************************)

Entry == [path : Paths, modified : Int, score : Int]

\* Entries whose paths differ are ordered, one way.
LEMMA BeforeOrders ==
  ASSUME NEW a \in Entry, NEW b \in Entry
  PROVE  /\ ~Before(a, a)
         /\ a.path # b.path => Before(a, b) \/ Before(b, a)
         /\ Before(a, b) => ~Before(b, a)
         /\ \A c \in Entry : Before(a, b) /\ Before(b, c) => Before(a, c)
<1>1. \A e \in Entry : e.path \in Int /\ e.modified \in Int /\ e.score \in Int
  BY TextsAssumption DEF Entry, Paths
<1> QED BY <1>1 DEF Before

\* Sorting entries of different paths: each once, each before the later ones.
LEMMA SortScoredProperties ==
  ASSUME NEW s \in Seq(Entry),
         \A i, j \in DOMAIN s : s[i].path = s[j].path => i = j
  PROVE  /\ SortScored(s) \in Seq(Entry) /\ Len(SortScored(s)) = Len(s)
         /\ \A k \in DOMAIN s : \E i \in DOMAIN s : SortScored(s)[k] = s[i]
         /\ \A i \in DOMAIN s : \E k \in DOMAIN s : SortScored(s)[k] = s[i]
         /\ \A i, j \in DOMAIN s : i < j => Before(SortScored(s)[i], SortScored(s)[j])
         /\ \A i, j \in DOMAIN s : SortScored(s)[i].path = SortScored(s)[j].path => i = j
<1> DEFINE n == Len(s)
           P == DOMAIN s
           Ahead(i, j) == Before(s[i], s[j]) \/ (~Before(s[j], s[i]) /\ i < j)
           ahead == {p \in P \X P : Ahead(p[1], p[2])}
           order == InOrder(P, ahead)
           t == SortScored(s)
<1>1. n \in Nat /\ P = 1 .. n /\ \A i \in P : s[i] \in Entry
  OBVIOUS
<1>2. t = [k \in P |-> s[order[k]]]
  BY DEF SortScored
<1>3. \A i, j \in P : <<i, j>> \in ahead <=> Ahead(i, j)
  OBVIOUS
<1> HIDE DEF n, ahead, t
<1>4. IsFiniteSet(P) /\ Cardinality(P) = n
  <2>1. IsFiniteSet(1 .. n) /\ Cardinality(1 .. n) = n
    BY <1>1, FS_Interval
  <2> QED BY <1>1, <2>1
<1>5. \A i, j \in P : i # j => s[i].path # s[j].path
  OBVIOUS
<1>6. \A i, j \in P : <<i, j>> \in ahead <=> i # j /\ Before(s[i], s[j])
  <2>1. ASSUME NEW i \in P, NEW j \in P, i # j PROVE Ahead(i, j) <=> Before(s[i], s[j])
    BY <1>1, <1>5, <2>1, BeforeOrders
  <2>2. ASSUME NEW i \in P PROVE ~Ahead(i, i)
    BY <1>1, BeforeOrders
  <2> HIDE DEF Ahead
  <2> QED BY <1>3, <2>1, <2>2
<1>7. Orders(ahead, P)
  <2>1. \A i \in P : <<i, i>> \notin ahead
    BY <1>6
  <2>2. \A i, j \in P : i # j => <<i, j>> \in ahead \/ <<j, i>> \in ahead
    BY <1>1, <1>5, <1>6, BeforeOrders
  <2>3. ASSUME NEW i \in P, NEW j \in P, NEW k \in P, <<i, j>> \in ahead, <<j, k>> \in ahead
        PROVE <<i, k>> \in ahead
    <3>1. Before(s[i], s[j]) /\ Before(s[j], s[k])
      BY <1>6, <2>3
    <3>2. Before(s[i], s[k])
      BY <1>1, <3>1, BeforeOrders
    <3>3. i # k
      BY <1>1, <3>2, BeforeOrders
    <3> QED BY <1>6, <3>2, <3>3
  <2> QED BY <2>1, <2>2, <2>3 DEF Orders
<1>8. /\ order \in [1 .. n -> P] /\ \A x \in P : \E k \in 1 .. n : order[k] = x
      /\ \A i, j \in 1 .. n : i < j <=> <<order[i], order[j]>> \in ahead
  <2> HIDE DEF P
  <2> QED BY <1>4, <1>7, InOrderProperties
<1> HIDE DEF order
<1>9. \A k \in P : order[k] \in P /\ t[k] = s[order[k]] /\ t[k] \in Entry
  BY <1>1, <1>2, <1>8
<1>10. t \in Seq(Entry) /\ Len(t) = n
  <2>1. t \in [1 .. n -> Entry]
    BY <1>1, <1>2, <1>9
  <2>2. t \in Seq(Entry)
    BY <1>1, <2>1
  <2> QED BY <1>1, <2>1, <2>2
<1>11. ASSUME NEW i \in P PROVE \E k \in P : t[k] = s[i]
  <2>1. PICK k \in 1 .. n : order[k] = i
    BY <1>8
  <2>2. k \in P
    BY <1>1
  <2> QED BY <1>9, <2>1, <2>2
<1>12. ASSUME NEW i \in P, NEW j \in P, i < j PROVE Before(t[i], t[j])
  <2>1. <<order[i], order[j]>> \in ahead /\ order[i] \in P /\ order[j] \in P
    BY <1>1, <1>8, <1>9, <1>12
  <2> QED BY <1>6, <1>9, <2>1
<1>13. ASSUME NEW i \in P, NEW j \in P, t[i].path = t[j].path PROVE i = j
  <2>1. /\ order[i] \in P /\ order[j] \in P
        /\ s[order[i]].path = s[order[j]].path
    BY <1>9, <1>13
  <2>4. order[i] = order[j]
    BY <1>5, <2>1
  <2>2. <<order[i], order[j]>> \notin ahead /\ <<order[j], order[i]>> \notin ahead
    BY <1>7, <2>1, <2>4 DEF Orders
  <2>3. ~(i < j) /\ ~(j < i)
    BY <1>1, <1>8, <2>2
  <2> QED BY <1>1, <2>3
<1> QED BY <1>9, <1>10, <1>11, <1>12, <1>13 DEF t, n

------------------------------------------------------------------------------
(****************************************************************************)
(* One snapshot and one query.                                              *)
(****************************************************************************)

\* What a scan and git status leave.
Snapshot ==
  /\ files \in Seq([path : Paths, attr : Attributes])
  /\ \A i, j \in DOMAIN files : files[i].path = files[j].path => i = j
  /\ index = Build([i \in DOMAIN files |-> PathText[files[i].path]])
  /\ git \in [Paths -> Statuses]

\* The queries callers ask.
Query(q) == /\ q.words \in Words /\ q.constraints \in Queries
            /\ q.limit \in Limits /\ q.combo \in Combos

\* A file of the snapshot has the attributes of its path.
LEMMA AttrOfFile ==
  ASSUME Snapshot, NEW i \in DOMAIN files
  PROVE  /\ files[i].path \in Paths /\ files[i].path \in Scanned
         /\ files[i].attr \in Attributes /\ AttrOf(files[i].path) = files[i].attr
<1> DEFINE File == [path : Paths, attr : Attributes]
<1>1. files[i] \in File
  <2>1. files \in Seq(File)
    BY DEF Snapshot
  <2> HIDE DEF File
  <2> QED BY <2>1
<1>2. files[i].path \in Paths /\ files[i].attr \in Attributes /\ files[i].path \in Scanned
  BY <1>1 DEF Scanned
<1> DEFINE j == CHOOSE k \in DOMAIN files : files[k].path = files[i].path
<1>3. j \in DOMAIN files /\ files[j].path = files[i].path
  OBVIOUS
<1>4. j = i
  BY <1>3 DEF Snapshot
<1>5. AttrOf(files[i].path) = files[j].attr
  BY <1>2 DEF AttrOf
<1> QED BY <1>2, <1>4, <1>5

\* Its candidates: the files whose paths have every pair of the query.
LEMMA SearchCandidatesExact ==
  ASSUME Snapshot, NEW words \in Words
  PROVE  /\ SearchCandidates(words) \in Seq(DOMAIN files) /\ Sorts(SearchCandidates(words))
         /\ \A i : Has(SearchCandidates(words), i)
                   <=> /\ i \in DOMAIN files
                       /\ QueryGrams(Joined(words)) \subseteq Grams(PathText[files[i].path])
<1> DEFINE text == Joined(words)
           n == Len(files)
           paths == [i \in DOMAIN files |-> PathText[files[i].path]]
           o == CandidateOutcome(index, n, text)
           c == SearchCandidates(words)
<1>1. n \in Nat /\ DOMAIN files = 1 .. n
  BY DEF Snapshot
<1>2. Len(paths) = n
  BY <1>1
<1>3. text \in Seq(DOMAIN Lower)
  BY TextsAssumption, JoinedProperties
<1>4. index = Build(paths)
  BY DEF Snapshot
<1>5. c = IF text = <<>> \/ o.state = "unavailable" THEN Everything ELSE o.candidates
  BY DEF SearchCandidates
<1>6. text = <<>> => QueryGrams(text) = {}
  <2>1. Folded(<<>>) = <<>> /\ 1 .. Len(<<>>) - 1 = {}
    BY DEF Folded
  <2> QED BY <2>1 DEF QueryGrams, Grams
<1> HIDE DEF text, n, c
<1>7. /\ o.state = "unavailable" <=> QueryGrams(text) = {} \/ n = 0
      /\ o.state # "unavailable" =>
           /\ o.candidates \in Seq(1 .. n) /\ Sorts(o.candidates)
           /\ \A i : Has(o.candidates, i) <=> i \in 1 .. n /\ QueryGrams(text) \subseteq Grams(paths[i])
  <2> HIDE DEF paths
  <2> QED BY <1>1, <1>2, <1>3, <1>4, CandidatesExact
<1> HIDE DEF o
<1>8. \A i \in 1 .. n : paths[i] = PathText[files[i].path]
  BY <1>1
<1> HIDE DEF paths
<1>9. CASE text = <<>> \/ o.state = "unavailable"
  <2>1. c = [i \in 1 .. n |-> i] /\ (QueryGrams(text) = {} \/ n = 0)
    BY <1>1, <1>5, <1>6, <1>7, <1>9, Zenon DEF Everything
  <2>2. c \in Seq(1 .. n) /\ DOMAIN c = 1 .. n /\ \A i \in 1 .. n : c[i] = i
    BY <1>1, <2>1
  <2>3. Sorts(c)
    BY <2>2 DEF Sorts
  <2>4. \A i : Has(c, i) <=> i \in 1 .. n
    BY <2>2 DEF Has
  <2>5. \A i \in 1 .. n : QueryGrams(text) \subseteq Grams(PathText[files[i].path])
    BY <1>1, <2>1
  <2> QED BY <1>1, <2>2, <2>3, <2>4, <2>5 DEF c, text
<1>10. CASE ~(text = <<>> \/ o.state = "unavailable")
  <2>1. /\ c \in Seq(1 .. n) /\ Sorts(c)
        /\ \A i : Has(c, i) <=> i \in 1 .. n /\ QueryGrams(text) \subseteq Grams(paths[i])
    BY <1>5, <1>7, <1>10, Zenon
  <2> QED BY <1>1, <1>8, <2>1, Zenon DEF c, text
<1> QED BY <1>9, <1>10

\* Scores are numbers.
LEMMA ScoredType ==
  ASSUME NEW q, Query(q), NEW p \in Paths,
         NEW attr \in [base : Int, modified : Int, binary : BOOLEAN]
  PROVE  Scored(q, p, attr) \in Entry /\ Scored(q, p, attr).path = p
<1> DEFINE words == q.words
           hits == {i \in DOMAIN words : IsIn(words[i], PathText[p])}
           matched == Cardinality(hits)
           fuzzy == CASE IsIn(Joined(words), PathText[p]) -> 100
                      [] Len(words) > 1 /\ matched = Len(words) -> 60
                      [] OTHER -> 10 * matched
           score == ScoreFuzzyPath(p, words, attr.binary)
<1>1. matched \in Nat
  <2>1. words \in Seq(Seq(DOMAIN Lower))
    BY TextsAssumption DEF Query
  <2>2. DOMAIN words = 1 .. Len(words) /\ Len(words) \in Nat
    BY <2>1
  <2>3. IsFiniteSet(1 .. Len(words))
    BY <2>2, FS_Interval
  <2>4. hits \subseteq 1 .. Len(words)
    BY <2>2
  <2> HIDE DEF hits, words
  <2> QED BY <2>3, <2>4, FS_Subset, FS_CardinalityType
<1> HIDE DEF matched
<1>2. fuzzy \in Int
  BY <1>1
<1>3. score = IF words = <<>> THEN 0 ELSE fuzzy - (IF attr.binary THEN 20 ELSE 0)
  BY DEF ScoreFuzzyPath, matched
<1> HIDE DEF fuzzy, score, words
<1>4. score \in Int
  BY <1>2, <1>3
<1>5. q.combo[p] \in Int
  BY ScoresAssumption DEF Query
<1>6. Scored(q, p, attr) = [path |-> p, modified |-> attr.modified,
                            score |-> attr.base + score + q.combo[p]]
  BY DEF Scored, score, words
<1>7. attr.modified \in Int /\ attr.base + score + q.combo[p] \in Int
  BY <1>4, <1>5
<1> QED BY <1>6, <1>7 DEF Entry

\* The paths a query keeps, before the limit.
Kept(q) ==
  {p \in Scanned : /\ QueryGrams(Joined(q.words)) \subseteq Grams(PathText[p])
                   /\ MatchesConstraints(q, p, AttrOf(p))}
  \cup DeletedCandidates(q)

\* What is scored and sorted: the entries of two sequences, one after the other.
LEMMA EntriesOfBoth ==
  ASSUME NEW S, NEW a \in Seq(S), NEW b \in Seq(S)
  PROVE  /\ a \o b \in Seq(S) /\ Len(a \o b) = Len(a) + Len(b)
         /\ \A k \in DOMAIN (a \o b) :
              \/ k \in DOMAIN a /\ (a \o b)[k] = a[k]
              \/ k - Len(a) \in DOMAIN b /\ k > Len(a) /\ (a \o b)[k] = b[k - Len(a)]
         /\ \A k \in DOMAIN a : k \in DOMAIN (a \o b) /\ (a \o b)[k] = a[k]
         /\ \A k \in DOMAIN b : k + Len(a) \in DOMAIN (a \o b) /\ (a \o b)[k + Len(a)] = b[k]
<1> DEFINE c == a \o b
           m == Len(a)
           n == Len(b)
<1>1. /\ m \in Nat /\ n \in Nat /\ c \in Seq(S) /\ Len(c) = m + n
      /\ DOMAIN a = 1 .. m /\ DOMAIN b = 1 .. n /\ DOMAIN c = 1 .. m + n
      /\ \A k \in 1 .. m + n : c[k] = IF k <= m THEN a[k] ELSE b[k - m]
  OBVIOUS
<1> HIDE DEF c, m, n
<1>2. ASSUME NEW k \in 1 .. m + n
      PROVE  \/ k \in 1 .. m /\ c[k] = a[k]
             \/ k - m \in 1 .. n /\ k > m /\ c[k] = b[k - m]
  BY <1>1
<1>3. ASSUME NEW k \in 1 .. m PROVE k \in 1 .. m + n /\ c[k] = a[k]
  BY <1>1
<1>4. ASSUME NEW k \in 1 .. n PROVE k + m \in 1 .. m + n /\ c[k + m] = b[k]
  <2> DEFINE j == k + m
  <2>1. j \in 1 .. m + n /\ ~(j <= m) /\ j - m = k
    BY <1>1
  <2> HIDE DEF j
  <2>2. c[j] = b[k]
    BY <1>1, <2>1
  <2> QED BY <2>1, <2>2 DEF j
<1> QED BY <1>1, <1>2, <1>3, <1>4 DEF c, m, n

\* The scanned files that pass: each with its score, and none missing.
LEMMA ScoreCandidatesExact ==
  ASSUME Snapshot, NEW q, Query(q)
  PROVE  /\ ScoreCandidates(q) \in Seq(Entry)
         /\ \A k \in DOMAIN ScoreCandidates(q) :
              LET e == ScoreCandidates(q)[k]
              IN /\ e.path \in Kept(q) \cap Scanned /\ e = Scored(q, e.path, AttrOf(e.path))
         /\ \A p \in Kept(q) \cap Scanned : \E k \in DOMAIN ScoreCandidates(q) :
              ScoreCandidates(q)[k].path = p
         /\ \A i, j \in DOMAIN ScoreCandidates(q) :
              ScoreCandidates(q)[i].path = ScoreCandidates(q)[j].path => i = j
<1> DEFINE found == SearchCandidates(q.words)
           Matches(i) == MatchesConstraints(q, files[found[i]].path, files[found[i]].attr)
           pass == {i \in DOMAIN found : Matches(i)}
           kept == Those(found, pass)
           Of(k) == Scored(q, files[kept[k]].path, files[kept[k]].attr)
           s == ScoreCandidates(q)
<1>1. /\ found \in Seq(DOMAIN files) /\ Sorts(found)
      /\ \A i : Has(found, i)
                <=> /\ i \in DOMAIN files
                    /\ QueryGrams(Joined(q.words)) \subseteq Grams(PathText[files[i].path])
  BY SearchCandidatesExact DEF Query
<1>2. s = [k \in DOMAIN kept |-> Of(k)]
  BY DEF ScoreCandidates
<1> HIDE DEF found, s
<1>3. pass \in SUBSET DOMAIN found
  OBVIOUS
<1>4. \A i \in DOMAIN found :
        i \in pass <=> MatchesConstraints(q, files[found[i]].path, files[found[i]].attr)
  OBVIOUS
<1> HIDE DEF pass
<1>5. /\ kept \in Seq(DOMAIN files) /\ Sorts(kept)
      /\ \A v : Has(kept, v) <=> \E i \in pass : found[i] = v
  BY <1>1, <1>3, ThoseType, ThoseHas
<1> HIDE DEF kept
<1> DEFINE Passes(i) == /\ i \in DOMAIN files
                        /\ QueryGrams(Joined(q.words)) \subseteq Grams(PathText[files[i].path])
                        /\ MatchesConstraints(q, files[i].path, files[i].attr)
<1>6. \A v : Has(kept, v) <=> Passes(v)
  <2>1. ASSUME NEW v, Has(kept, v) PROVE Passes(v)
    <3>1. PICK i \in pass : found[i] = v
      BY <1>5, <2>1
    <3>2. i \in DOMAIN found /\ Has(found, v)
      BY <1>3, <3>1 DEF Has
    <3> QED BY <1>1, <1>4, <3>1, <3>2
  <2>2. ASSUME NEW v, Passes(v) PROVE Has(kept, v)
    <3>1. Has(found, v)
      BY <1>1, <2>2
    <3>2. PICK i \in DOMAIN found : found[i] = v
      BY <3>1 DEF Has
    <3> QED BY <1>4, <1>5, <2>2, <3>2
  <2> QED BY <2>1, <2>2
<1>7. \A i \in DOMAIN files :
        /\ files[i].path \in Paths \cap Scanned
        /\ files[i].attr \in [base : Int, modified : Int, binary : BOOLEAN]
        /\ AttrOf(files[i].path) = files[i].attr
  BY AttrOfFile, ScoresAssumption
<1>8. DOMAIN kept = 1 .. Len(kept) /\ Len(kept) \in Nat /\ \A k \in DOMAIN kept : kept[k] \in DOMAIN files
  BY <1>5
<1>9. \A k \in DOMAIN kept : Passes(kept[k])
  BY <1>6 DEF Has
<1>10. ASSUME NEW k \in DOMAIN kept
       PROVE  /\ Of(k) \in Entry /\ Of(k).path = files[kept[k]].path
              /\ Of(k).path \in Kept(q) \cap Scanned
              /\ Of(k) = Scored(q, Of(k).path, AttrOf(Of(k).path))
  <2> DEFINE i == kept[k]
             p == files[i].path
  <2>1. /\ i \in DOMAIN files /\ p \in Paths /\ p \in Scanned /\ AttrOf(p) = files[i].attr
        /\ files[i].attr \in [base : Int, modified : Int, binary : BOOLEAN]
    BY <1>7, <1>8
  <2>2. Of(k) \in Entry /\ Of(k).path = p
    BY <2>1, ScoredType
  <2>3. p \in Kept(q)
    BY <1>9, <2>1 DEF Kept
  <2>4. Of(k) = Scored(q, p, AttrOf(p))
    BY <2>1
  <2> HIDE DEF Of
  <2> QED BY <2>1, <2>2, <2>3, <2>4
<1>11. s \in Seq(Entry) /\ DOMAIN s = DOMAIN kept /\ \A k \in DOMAIN kept : s[k] = Of(k)
  <2>1. s \in [1 .. Len(kept) -> Entry]
    BY <1>2, <1>8, <1>10
  <2> QED BY <1>2, <1>8, <2>1
<1>12. ASSUME NEW p \in Kept(q) \cap Scanned PROVE \E k \in DOMAIN kept : Of(k).path = p
  <2>1. PICK i \in DOMAIN files : files[i].path = p
    BY DEF Scanned
  <2>2. p \notin DeletedCandidates(q)
    BY DEF DeletedCandidates
  <2>3. Passes(i)
    BY <1>7, <2>1, <2>2 DEF Kept
  <2>4. PICK k \in DOMAIN kept : kept[k] = i
    BY <1>6, <2>3 DEF Has
  <2> QED BY <1>10, <2>1, <2>4
<1>13. ASSUME NEW i \in DOMAIN kept, NEW j \in DOMAIN kept, Of(i).path = Of(j).path PROVE i = j
  <2>1. files[kept[i]].path = files[kept[j]].path
    BY <1>10, <1>13
  <2>2. kept[i] = kept[j]
    BY <1>8, <2>1 DEF Snapshot
  <2>3. ~(i < j) /\ ~(j < i)
    <3>1. kept[i] \in Int
      <4>1. DOMAIN files = 1 .. Len(files)
        BY DEF Snapshot
      <4> QED BY <1>8, <4>1
    <3> QED BY <1>5, <2>2, <3>1 DEF Sorts
  <2> QED BY <1>8, <2>3
<1> HIDE DEF Of
<1> QED BY <1>10, <1>11, <1>12, <1>13 DEF s

\* A deleted file that only git knows is a path no scan has found.
LEMMA DeletedProperties ==
  ASSUME NEW q, NEW deleted \in SetToSeqs(DeletedCandidates(q))
  PROVE  LET D == DeletedCandidates(q)
         IN /\ D \subseteq Kept(q) /\ D \subseteq Paths /\ D \cap Scanned = {}
            /\ deleted \in Seq(D)
            /\ \A p \in D : \E k \in DOMAIN deleted : deleted[k] = p
            /\ \A i, j \in DOMAIN deleted : deleted[i] = deleted[j] => i = j
<1> DEFINE D == DeletedCandidates(q)
           n == Cardinality(D)
<1>1. D \subseteq Kept(q) /\ D \subseteq Paths /\ D \cap Scanned = {}
  BY DEF Kept, DeletedCandidates
<1>2. IsFiniteSet(D)
  <2>1. Paths = 1 .. Len(PathText) /\ Len(PathText) \in Nat
    BY TextsAssumption DEF Paths
  <2>2. IsFiniteSet(Paths)
    BY <2>1, FS_Interval
  <2> HIDE DEF D
  <2> QED BY <1>1, <2>2, FS_Subset
<1>3. /\ deleted \in [1 .. n -> D]
      /\ \A i, j \in 1 .. n : i # j => deleted[i] # deleted[j]
  BY DEF SetToSeqs, IsInjective
<1> HIDE DEF D
<1>4. n \in Nat
  BY <1>2, FS_CardinalityType
<1>5. deleted \in Injection(1 .. n, D)
  BY <1>3 DEF Injection, IsInjective
<1>6. IsFiniteSet(1 .. n) /\ Cardinality(1 .. n) = n
  BY <1>4, FS_Interval
<1>7. deleted \in Surjection(1 .. n, D)
  <2> DEFINE P == 1 .. n
  <2> HIDE DEF P
  <2>1. IsFiniteSet(P) /\ Cardinality(P) = Cardinality(D) /\ deleted \in Injection(P, D)
    BY <1>5, <1>6 DEF P
  <2>2. deleted \in Surjection(P, D)
    BY <1>2, <2>1, FS_Injection
  <2> QED BY <2>2 DEF P
<1>8. \A p \in D : \E k \in 1 .. n : deleted[k] = p
  BY <1>7 DEF Surjection
<1>9. deleted \in Seq(D) /\ DOMAIN deleted = 1 .. n
  BY <1>3, <1>4
<1> QED BY <1>1, <1>3, <1>8, <1>9 DEF D

\* The entries of all kept paths, in the order they come in.
Full(q, deleted) ==
  ScoreCandidates(q) \o [k \in DOMAIN deleted |-> Scored(q, deleted[k], Virtual)]

\* There is one entry for every kept path, and no other.
LEMMA FullExact ==
  ASSUME Snapshot, NEW q, Query(q), NEW deleted \in SetToSeqs(DeletedCandidates(q))
  PROVE  /\ Full(q, deleted) \in Seq(Entry)
         /\ \A k \in DOMAIN Full(q, deleted) :
              LET e == Full(q, deleted)[k]
              IN e.path \in Kept(q) /\ e = Scored(q, e.path, AttrOf(e.path))
         /\ \A p \in Kept(q) : \E k \in DOMAIN Full(q, deleted) : Full(q, deleted)[k].path = p
         /\ \A i, j \in DOMAIN Full(q, deleted) :
              Full(q, deleted)[i].path = Full(q, deleted)[j].path => i = j
<1> DEFINE D == DeletedCandidates(q)
           a == ScoreCandidates(q)
           Of(k) == Scored(q, deleted[k], Virtual)
           b == [k \in DOMAIN deleted |-> Of(k)]
           c == a \o b
<1>1. /\ a \in Seq(Entry)
      /\ \A k \in DOMAIN a : /\ a[k].path \in Kept(q) /\ a[k].path \in Scanned
                             /\ a[k] = Scored(q, a[k].path, AttrOf(a[k].path))
      /\ \A p \in Kept(q) : p \in Scanned => \E k \in DOMAIN a : a[k].path = p
      /\ \A i, j \in DOMAIN a : a[i].path = a[j].path => i = j
  BY ScoreCandidatesExact
<1> HIDE DEF a
<1>2. /\ D \subseteq Kept(q) /\ D \subseteq Paths /\ D \cap Scanned = {}
      /\ deleted \in Seq(D)
      /\ \A p \in D : \E k \in DOMAIN deleted : deleted[k] = p
      /\ \A i, j \in DOMAIN deleted : deleted[i] = deleted[j] => i = j
  BY DeletedProperties
<1>3. \A p \in Kept(q) : p \in Scanned \/ p \in D
  BY DEF Kept
<1> HIDE DEF D
<1>4. DOMAIN deleted = 1 .. Len(deleted) /\ Len(deleted) \in Nat /\ \A k \in DOMAIN deleted : deleted[k] \in D
  BY <1>2
<1>5. ASSUME NEW k \in DOMAIN deleted
      PROVE  /\ Of(k) \in Entry /\ Of(k).path = deleted[k] /\ Of(k).path \in D
             /\ Of(k) = Scored(q, Of(k).path, AttrOf(Of(k).path))
  <2> DEFINE p == deleted[k]
  <2>1. p \in D /\ p \in Paths /\ p \notin Scanned
    BY <1>2, <1>4
  <2>2. AttrOf(p) = Virtual
    BY <2>1 DEF AttrOf
  <2>3. Virtual \in [base : Int, modified : Int, binary : BOOLEAN]
    BY DEF Virtual
  <2>4. Of(k) \in Entry /\ Of(k).path = p
    BY <2>1, <2>3, ScoredType
  <2>5. Of(k) = Scored(q, p, AttrOf(p))
    BY <2>2
  <2> HIDE DEF Of
  <2> QED BY <2>1, <2>4, <2>5
<1> HIDE DEF Of
<1>6. b \in Seq(Entry) /\ DOMAIN b = DOMAIN deleted /\ \A k \in DOMAIN deleted : b[k] = Of(k)
  <2>1. b \in [1 .. Len(deleted) -> Entry]
    BY <1>4, <1>5
  <2> QED BY <1>4, <2>1
<1> HIDE DEF b
<1>7. /\ c \in Seq(Entry)
      /\ \A k \in DOMAIN c :
           \/ k \in DOMAIN a /\ c[k] = a[k]
           \/ k - Len(a) \in DOMAIN b /\ k > Len(a) /\ c[k] = b[k - Len(a)]
      /\ \A k \in DOMAIN a : k \in DOMAIN c /\ c[k] = a[k]
      /\ \A k \in DOMAIN b : k + Len(a) \in DOMAIN c /\ c[k + Len(a)] = b[k]
  BY <1>1, <1>6, EntriesOfBoth
<1>8. Full(q, deleted) = c
  BY DEF Full, a, b, Of
<1> HIDE DEF c
<1>9. ASSUME NEW k \in DOMAIN c
      PROVE  c[k].path \in Kept(q) /\ c[k] = Scored(q, c[k].path, AttrOf(c[k].path))
  <2>1. CASE k \in DOMAIN a /\ c[k] = a[k]
    BY <1>1, <2>1
  <2>2. CASE k - Len(a) \in DOMAIN b /\ c[k] = b[k - Len(a)]
    <3> DEFINE j == k - Len(a)
    <3>1. j \in DOMAIN deleted /\ c[k] = Of(j)
      BY <1>6, <2>2
    <3> HIDE DEF j
    <3> QED BY <1>2, <1>5, <3>1
  <2> QED BY <1>7, <2>1, <2>2
<1>10. ASSUME NEW p \in Kept(q) PROVE \E k \in DOMAIN c : c[k].path = p
  <2>1. CASE p \in Scanned
    <3>1. PICK k \in DOMAIN a : a[k].path = p
      BY <1>1, <2>1
    <3> QED BY <1>7, <3>1
  <2>2. CASE p \in D
    <3>1. PICK k \in DOMAIN deleted : deleted[k] = p
      BY <1>2, <2>2
    <3>2. k \in DOMAIN b /\ b[k].path = p
      BY <1>5, <1>6, <3>1
    <3> QED BY <1>7, <3>2
  <2> QED BY <1>3, <2>1, <2>2
<1>11. ASSUME NEW i \in DOMAIN c, NEW j \in DOMAIN c, c[i].path = c[j].path PROVE i = j
  <2>1. \A k \in DOMAIN c : \/ k \in DOMAIN a /\ c[k] = a[k] /\ c[k].path \in Scanned
                            \/ /\ k - Len(a) \in DOMAIN deleted /\ c[k].path = deleted[k - Len(a)]
                               /\ c[k].path \notin Scanned
    <3> SUFFICES ASSUME NEW k \in DOMAIN c, ~(k \in DOMAIN a /\ c[k] = a[k])
                 PROVE /\ k - Len(a) \in DOMAIN deleted /\ c[k].path = deleted[k - Len(a)]
                       /\ c[k].path \notin Scanned
      BY <1>1
    <3> DEFINE m == k - Len(a)
    <3>1. m \in DOMAIN deleted /\ c[k] = Of(m)
      BY <1>6, <1>7
    <3> HIDE DEF m
    <3>2. c[k].path = deleted[m] /\ c[k].path \in D
      BY <1>5, <3>1
    <3> QED BY <1>2, <3>1, <3>2 DEF m
  <2>2. CASE c[i].path \in Scanned
    <3>1. i \in DOMAIN a /\ j \in DOMAIN a /\ a[i].path = a[j].path
      BY <1>11, <2>1, <2>2
    <3> QED BY <1>1, <3>1
  <2>3. CASE c[i].path \notin Scanned
    <3>1. /\ i - Len(a) \in DOMAIN deleted /\ j - Len(a) \in DOMAIN deleted
          /\ deleted[i - Len(a)] = deleted[j - Len(a)]
      BY <1>11, <2>1, <2>3
    <3>2. i - Len(a) = j - Len(a)
      BY <1>2, <3>1
    <3>3. i \in Int /\ j \in Int /\ Len(a) \in Int
      BY <1>1, <1>7
    <3> QED BY <3>2, <3>3
  <2> QED BY <2>2, <2>3
<1> QED BY <1>7, <1>8, <1>9, <1>10, <1>11

\* What a search answers: the entries of kept paths, none twice, in order; a
\* kept path is left out only for the limit's worth of paths before it.
LEMMA AnswerExact ==
  ASSUME Snapshot, NEW q, Query(q), NEW deleted \in SetToSeqs(DeletedCandidates(q)),
         NEW a, a = Answer(q, deleted)
  PROVE  /\ a \in Seq(Entry)
         /\ \A i \in DOMAIN a : a[i].path \in Kept(q)
         /\ \A i, j \in DOMAIN a : i < j => Before(a[i], a[j])
         /\ \A i, j \in DOMAIN a : a[i].path = a[j].path => i = j
         /\ \A p \in Kept(q) : \/ \E i \in DOMAIN a : a[i].path = p
                               \/ /\ Len(a) = q.limit
                                  /\ \A i \in DOMAIN a : Before(a[i], Scored(q, p, AttrOf(p)))
<1> DEFINE s == Full(q, deleted)
           t == SortScored(s)
           n == Len(s)
           limit == q.limit
           m == IF Len(t) > limit THEN limit ELSE Len(t)
<1>1. /\ s \in Seq(Entry)
      /\ \A k \in DOMAIN s : s[k].path \in Kept(q) /\ s[k] = Scored(q, s[k].path, AttrOf(s[k].path))
      /\ \A p \in Kept(q) : \E k \in DOMAIN s : s[k].path = p
      /\ \A i, j \in DOMAIN s : s[i].path = s[j].path => i = j
  BY FullExact
<1> HIDE DEF s
<1>2. /\ t \in Seq(Entry) /\ Len(t) = n
      /\ \A k \in DOMAIN s : \E i \in DOMAIN s : t[k] = s[i]
      /\ \A i \in DOMAIN s : \E k \in DOMAIN s : t[k] = s[i]
      /\ \A i, j \in DOMAIN s : i < j => Before(t[i], t[j])
      /\ \A i, j \in DOMAIN s : t[i].path = t[j].path => i = j
  BY <1>1, SortScoredProperties
<1>3. a = SubSeq(t, 1, m)
  BY DEF Answer, ResultsFromScored, Full, s
<1>4. limit \in Nat
  BY ScoresAssumption DEF Query
<1>5. n \in Nat /\ DOMAIN s = 1 .. n
  BY <1>1
<1> HIDE DEF t, n, limit
<1>6. m \in Nat /\ m <= n /\ (m = limit \/ m = n)
  BY <1>2, <1>4, <1>5
<1> HIDE DEF m
<1>7. a \in Seq(Entry) /\ Len(a) = m /\ DOMAIN a = 1 .. m /\ \A i \in 1 .. m : a[i] = t[i]
  BY <1>2, <1>3, <1>5, <1>6
<1>8. \A i \in 1 .. m : i \in DOMAIN s
  BY <1>5, <1>6
<1>9. ASSUME NEW i \in DOMAIN a PROVE a[i].path \in Kept(q)
  <2>1. i \in DOMAIN s /\ a[i] = t[i]
    BY <1>7, <1>8
  <2>2. PICK k \in DOMAIN s : t[i] = s[k]
    BY <1>2, <2>1
  <2> QED BY <1>1, <2>1, <2>2
<1>10. ASSUME NEW p \in Kept(q), ~\E i \in DOMAIN a : a[i].path = p
       PROVE  Len(a) = limit /\ \A i \in DOMAIN a : Before(a[i], Scored(q, p, AttrOf(p)))
  <2>1. PICK j \in DOMAIN s : s[j].path = p
    BY <1>1
  <2>2. PICK k \in DOMAIN s : t[k] = s[j]
    BY <1>2
  <2>3. t[k] = Scored(q, p, AttrOf(p)) /\ t[k].path = p
    BY <1>1, <2>1, <2>2
  <2>4. k \in 1 .. n /\ k \notin 1 .. m
    BY <1>5, <1>7, <1>10, <2>3
  <2>5. m < k /\ m = limit
    BY <1>5, <1>6, <2>4
  <2>6. ASSUME NEW i \in DOMAIN a PROVE Before(a[i], t[k])
    <3>1. i \in 1 .. m /\ i < k
      BY <1>6, <1>7, <2>4, <2>5
    <3> QED BY <1>2, <1>7, <1>8, <3>1
  <2>7. Len(a) = limit
    BY <1>7, <2>5
  <2> QED BY <2>3, <2>6, <2>7
<1>11. ASSUME NEW i \in DOMAIN a, NEW j \in DOMAIN a
       PROVE  /\ i < j => Before(a[i], a[j])
              /\ a[i].path = a[j].path => i = j
  <2>1. i \in DOMAIN s /\ j \in DOMAIN s /\ a[i] = t[i] /\ a[j] = t[j]
    BY <1>7, <1>8
  <2> QED BY <1>2, <2>1
<1> QED BY <1>7, <1>9, <1>10, <1>11 DEF limit

\* A kept path satisfies the constraints and, if it was scanned, has the pairs
\* of the query.
LEMMA KeptMeans ==
  ASSUME Snapshot, NEW q, Query(q), NEW p \in Kept(q)
  PROVE  /\ p \in Paths
         /\ \A c \in Range(q.constraints) :
              IsKnown(c) => (Says(c, p, AttrOf(p)) <=> c.nots % 2 = 0)
         /\ p \in Scanned => QueryGrams(Joined(q.words)) \subseteq Grams(PathText[p])
<1>1. p \in Paths
  <2>1. \A i \in DOMAIN files : files[i].path \in Paths
    BY AttrOfFile
  <2> QED BY <2>1 DEF Kept, Scanned, DeletedCandidates
<1>2. MatchesConstraints(q, p, AttrOf(p))
  <2>1. CASE p \in DeletedCandidates(q)
    <3>1. p \notin Scanned /\ MatchesConstraints(q, p, Virtual)
      BY <2>1 DEF DeletedCandidates
    <3> QED BY <3>1 DEF AttrOf
  <2>2. CASE p \notin DeletedCandidates(q)
    BY <2>2 DEF Kept
  <2> QED BY <2>1, <2>2
<1>3. p \in Scanned => QueryGrams(Joined(q.words)) \subseteq Grams(PathText[p])
  BY DEF Kept, DeletedCandidates
<1>4. git[p] \in Statuses
  BY <1>1 DEF Snapshot
<1>5. \A c \in Range(q.constraints) : c.nots \in Nat
  BY NotsAssumption DEF Query
<1>6. ASSUME NEW c \in Range(q.constraints), IsKnown(c)
      PROVE  Says(c, p, AttrOf(p)) <=> c.nots % 2 = 0
  <2>1. MatchOne(c, p, AttrOf(p))
    BY <1>2 DEF MatchesConstraints
  <2> QED BY <1>4, <1>5, <1>6, <2>1, MatchOneMeans
<1> QED BY <1>1, <1>3, <1>6

\* A path that has a word has its pairs of characters.
LEMMA IsInGrams ==
  ASSUME NEW w \in Seq(DOMAIN Lower), NEW t \in Seq(DOMAIN Lower), IsIn(w, t)
  PROVE  Grams(w) \subseteq Grams(t)
<1> DEFINE l == Folded(w)
           u == Folded(t)
<1>1. /\ l \in Seq(DOMAIN Lower) /\ Len(l) = Len(w) /\ Len(w) \in Nat
      /\ u \in Seq(DOMAIN Lower) /\ Len(u) = Len(t) /\ Len(t) \in Nat
  BY FoldedType
<1>2. PICK i \in 0 .. Len(t) - Len(w) : SubSeq(u, i + 1, i + Len(w)) = l
  BY DEF IsIn
<1> HIDE DEF l, u
<1>3. ASSUME NEW j \in 1 .. Len(l) PROVE l[j] = u[i + j] /\ i + j \in 1 .. Len(u)
  <2> DEFINE b == i + Len(w)
  <2>1. i \in Nat /\ b \in Nat /\ b <= Len(u)
    BY <1>1, <1>2
  <2>2. j \in 1 .. b - i
    BY <1>1, <2>1
  <2> HIDE DEF b
  <2>3. SubSeq(u, i + 1, b)[j] = u[i + j]
    BY <1>1, <2>1, <2>2
  <2>4. l[j] = u[i + j]
    BY <1>2, <2>3 DEF b
  <2> QED BY <2>1, <2>2, <2>4
<1>4. ASSUME NEW j \in 1 .. Len(l) - 1 PROVE <<l[j], l[j + 1]>> \in Grams(t)
  <2> DEFINE k == i + j
  <2>1. j \in 1 .. Len(l) /\ j + 1 \in 1 .. Len(l) /\ i + (j + 1) = k + 1 /\ k \in Int
    BY <1>1
  <2>2. l[j] = u[k] /\ k \in 1 .. Len(u)
    BY <1>3, <2>1
  <2>3. l[j + 1] = u[k + 1] /\ k + 1 \in 1 .. Len(u)
    <3>1. l[j + 1] = u[i + (j + 1)] /\ i + (j + 1) \in 1 .. Len(u)
      BY <1>3, <2>1
    <3> QED BY <2>1, <3>1
  <2> HIDE DEF k
  <2>4. k \in 1 .. Len(u) - 1
    BY <1>1, <2>1, <2>2, <2>3
  <2> QED BY <2>2, <2>3, <2>4 DEF Grams, u
<1> QED BY <1>4 DEF Grams, l

\* A path that is asked for is kept.
LEMMA AskedKept ==
  ASSUME Snapshot, NEW q, Query(q), NEW p \in Paths,
         \A c \in Range(q.constraints) :
           /\ IsKnown(c) => (Says(c, p, AttrOf(p)) <=> c.nots % 2 = 0)
           /\ IsKnown(c) \/ c.nots = 0 \/ c.nots % 2 = 1,
         \A i \in DOMAIN q.words : IsIn(q.words[i], PathText[p]),
         \/ p \in Scanned
         \/ /\ git[p] = "deleted"
            /\ \E c \in Range(q.constraints) : c.kind = "status" /\ IsKnown(c)
            /\ \A c \in Range(q.constraints) : c.kind \notin {"meta", "badage"}
  PROVE  p \in Kept(q)
<1>1. MatchesConstraints(q, p, AttrOf(p))
  <2>1. git[p] \in Statuses
    BY DEF Snapshot
  <2>2. \A c \in Range(q.constraints) : c.nots \in Nat
    BY NotsAssumption DEF Query
  <2>3. ASSUME NEW c \in Range(q.constraints) PROVE MatchOne(c, p, AttrOf(p))
    BY <2>1, <2>2, MatchOneMeans
  <2> QED BY <2>3 DEF MatchesConstraints
<1>2. CASE p \in Scanned
  <2>1. q.words \in Seq(Seq(DOMAIN Lower)) /\ PathText[p] \in Seq(DOMAIN Lower)
    BY TextsAssumption DEF Query, Paths
  <2>2. \A i \in DOMAIN q.words : Grams(q.words[i]) \subseteq Grams(PathText[p])
    <3>1. \A i \in DOMAIN q.words : q.words[i] \in Seq(DOMAIN Lower)
      BY <2>1
    <3> QED BY <2>1, <3>1, IsInGrams
  <2>3. QueryGrams(Joined(q.words)) \subseteq Grams(PathText[p])
    BY <2>1, <2>2, JoinedProperties
  <2> QED BY <1>1, <1>2, <2>3 DEF Kept
<1>3. CASE p \notin Scanned
  <2>1. MatchesConstraints(q, p, Virtual)
    BY <1>1, <1>3 DEF AttrOf
  <2>2. HasGitStatusConstraint(q) /\ SupportsVirtualDeleted(q) /\ git[p] = "deleted"
    BY <1>3 DEF HasGitStatusConstraint, SupportsVirtualDeleted
  <2> QED BY <1>3, <2>1, <2>2 DEF Kept, DeletedCandidates
<1> QED BY <1>2, <1>3

------------------------------------------------------------------------------
(****************************************************************************)
(* Every behaviour.                                                         *)
(****************************************************************************)

\* What a path's constraints and attributes are said to be of a snapshot stays
\* so while the snapshot does.
LEMMA SameSnapshot ==
  ASSUME UNCHANGED <<files, index, git>>
  PROVE  /\ Snapshot => Snapshot'
         /\ Scanned' = Scanned
         /\ \A p : AttrOf(p)' = AttrOf(p)
         /\ \A p : Satisfies(p, AttrOf(p))' <=>
              \A c \in Range(call'.constraints) :
                IsKnown(c) => (Says(c, p, AttrOf(p)) <=> c.nots % 2 = 0)
<1>1. files' = files /\ index' = index /\ git' = git
  OBVIOUS
<1>2. Snapshot => Snapshot'
  BY <1>1 DEF Snapshot
<1>3. Scanned' = Scanned
  BY <1>1 DEF Scanned
<1>4. \A p : AttrOf(p)' = AttrOf(p)
  BY <1>1, <1>3 DEF AttrOf
<1>5. ASSUME NEW p
      PROVE  Satisfies(p, AttrOf(p))' <=>
               \A c \in Range(call'.constraints) :
                 IsKnown(c) => (Says(c, p, AttrOf(p)) <=> c.nots % 2 = 0)
  <2>1. AttrOf(p)' = AttrOf(p)
    BY <1>4
  <2> QED BY <1>1, <2>1 DEF Satisfies, Says
<1> QED BY <1>2, <1>3, <1>4, <1>5

\* A scan lists every path once.
LEMMA InitSnapshot == Init => Snapshot /\ call = NoCall /\ answer = <<>>
<1> SUFFICES ASSUME Init PROVE Snapshot /\ call = NoCall /\ answer = <<>>
  OBVIOUS
<1>1. PICK present \in SUBSET Paths :
        LET found == Those(WalkOrder, {i \in DOMAIN WalkOrder : WalkOrder[i] \in present})
        IN \E a \in [DOMAIN found -> Attributes] :
             files = [i \in DOMAIN found |-> [path |-> found[i], attr |-> a[i]]]
  BY DEF Init
<1> DEFINE places == {i \in DOMAIN WalkOrder : WalkOrder[i] \in present}
           found == Those(WalkOrder, places)
           k == Cardinality(places)
           o == Ascending(places)
<1>2. PICK a \in [DOMAIN found -> Attributes] :
        files = [i \in DOMAIN found |-> [path |-> found[i], attr |-> a[i]]]
  BY <1>1
<1>3. places \in SUBSET DOMAIN WalkOrder /\ WalkOrder \in Seq(Paths)
  BY WalkAssumption
<1> HIDE DEF places
<1>4. found \in Seq(Paths) /\ IsFiniteSet(places) /\ places \in SUBSET Int
  BY <1>3, ThoseType
<1>5. /\ k \in Nat /\ o \in [1 .. k -> places]
      /\ \A i, j \in 1 .. k : i < j <=> o[i] < o[j]
      /\ found = [i \in 1 .. k |-> WalkOrder[o[i]]]
  BY <1>4, ThoseProperties
<1> HIDE DEF found, k, o
<1>6. DOMAIN found = 1 .. k /\ \A i \in 1 .. k : found[i] = WalkOrder[o[i]] /\ found[i] \in Paths
  BY <1>4, <1>5
<1>7. ASSUME NEW i \in 1 .. k, NEW j \in 1 .. k, found[i] = found[j] PROVE i = j
  <2>1. o[i] \in places /\ o[j] \in places
    BY <1>5
  <2>2. o[i] = o[j] /\ o[i] \in Int
    BY <1>3, <1>4, <1>6, <1>7, <2>1, WalkAssumption
  <2> QED BY <1>5, <2>2
<1> DEFINE File == [path : Paths, attr : Attributes]
<1>8. /\ files \in [1 .. k -> File]
      /\ \A i \in 1 .. k : files[i].path = found[i]
  BY <1>2, <1>6
<1>9. DOMAIN files = 1 .. k
  BY <1>8
<1>10. files \in Seq(File)
  <2> HIDE DEF File
  <2> QED BY <1>5, <1>8
<1>11. \A i, j \in DOMAIN files : files[i].path = files[j].path => i = j
  BY <1>7, <1>8, <1>9
<1>12. index = Build([i \in DOMAIN files |-> PathText[files[i].path]])
  BY DEF Init
<1>13. git \in [Paths -> Statuses] /\ call = NoCall /\ answer = <<>>
  BY DEF Init, Statuses
<1> QED BY <1>10, <1>11, <1>12, <1>13 DEF Snapshot

\* The inductive invariant: the snapshot, and what the answer promises of it.
Inv == Snapshot /\ Filtered /\ Ranked /\ OncePerPath /\ NoneLost /\ MissesStayOut

\* Before the first query nothing is promised.
LEMMA InitInv == Init => Inv
<1> SUFFICES ASSUME Init PROVE Inv
  OBVIOUS
<1>1. Snapshot /\ call = NoCall /\ answer = <<>>
  BY InitSnapshot
<1>2. DOMAIN answer = {} /\ Len(answer) = 0 /\ call.limit = 0
  BY <1>1 DEF NoCall
<1>3. Found = {}
  BY <1>2 DEF Found
<1>4. Filtered /\ MissesStayOut
  BY <1>3 DEF Filtered, MissesStayOut
<1>5. Ranked /\ OncePerPath
  BY <1>2 DEF Ranked, OncePerPath
<1>6. NoneLost
  BY <1>2 DEF NoneLost
<1> QED BY <1>1, <1>4, <1>5, <1>6 DEF Inv

\* A search keeps every promise.
LEMMA SearchContextInv == Snapshot /\ SearchContext => Inv'
<1> SUFFICES ASSUME Snapshot, SearchContext PROVE Inv'
  OBVIOUS
<1>1. PICK q, deleted : /\ Query(q) /\ call' = q
                        /\ deleted \in SetToSeqs(DeletedCandidates(q))
                        /\ answer' = Answer(q, deleted)
  <2>1. PICK words \in Words, constraints \in Queries, limit \in Limits, combo \in Combos :
          LET q == [words |-> words, constraints |-> constraints, limit |-> limit, combo |-> combo]
          IN /\ call' = q
             /\ \E deleted \in SetToSeqs(DeletedCandidates(q)) : answer' = Answer(q, deleted)
    BY DEF SearchContext
  <2> DEFINE q == [words |-> words, constraints |-> constraints, limit |-> limit, combo |-> combo]
  <2>2. Query(q)
    BY DEF Query
  <2>3. call' = q /\ \E deleted \in SetToSeqs(DeletedCandidates(q)) : answer' = Answer(q, deleted)
    BY <2>1
  <2> HIDE DEF q
  <2> QED BY <2>2, <2>3
<1>2. UNCHANGED <<files, index, git>>
  BY DEF SearchContext
<1>3. /\ Snapshot' /\ Scanned' = Scanned
      /\ \A p : AttrOf(p)' = AttrOf(p)
      /\ \A p : Satisfies(p, AttrOf(p))' <=>
           \A c \in Range(q.constraints) :
             IsKnown(c) => (Says(c, p, AttrOf(p)) <=> c.nots % 2 = 0)
  BY <1>1, <1>2, SameSnapshot
<1> DEFINE a == answer'
<1>4. /\ a \in Seq(Entry)
      /\ \A i \in DOMAIN a : a[i].path \in Kept(q)
      /\ \A i, j \in DOMAIN a : i < j => Before(a[i], a[j])
      /\ \A i, j \in DOMAIN a : a[i].path = a[j].path => i = j
      /\ \A p \in Kept(q) : \/ \E i \in DOMAIN a : a[i].path = p
                            \/ /\ Len(a) = q.limit
                               /\ \A i \in DOMAIN a : Before(a[i], Scored(q, p, AttrOf(p)))
  BY <1>1, AnswerExact
<1>5. Found' = {a[i].path : i \in DOMAIN a}
  BY DEF Found
<1>6. Ranked' /\ OncePerPath'
  BY <1>4 DEF Ranked, OncePerPath
<1> HIDE DEF a
<1>7. \A p \in Found' : p \in Kept(q)
  BY <1>4, <1>5
<1>8. Filtered'
  <2> SUFFICES ASSUME NEW p \in Found' PROVE Satisfies(p, AttrOf(p))'
    BY DEF Filtered
  <2>1. \A c \in Range(q.constraints) : IsKnown(c) => (Says(c, p, AttrOf(p)) <=> c.nots % 2 = 0)
    BY <1>1, <1>7, KeptMeans
  <2> QED BY <1>3, <2>1
<1>9. MissesStayOut'
  <2> SUFFICES ASSUME NEW p \in Found' \cap Scanned'
               PROVE  QueryGrams(Joined(q.words)) \subseteq Grams(PathText[p])
    BY <1>1 DEF MissesStayOut
  <2> QED BY <1>1, <1>3, <1>7, KeptMeans
<1>10. NoneLost'
  <2> SUFFICES ASSUME NEW p \in Paths, Asked(p)', p \notin Found'
               PROVE  /\ Len(a) = q.limit
                      /\ \A i \in DOMAIN a : Before(a[i], Scored(q, p, AttrOf(p)'))
    BY <1>1 DEF NoneLost, a
  <2>1. /\ Satisfies(p, AttrOf(p))'
        /\ \A c \in Range(q.constraints) : IsKnown(c) \/ c.nots = 0 \/ c.nots % 2 = 1
        /\ \A i \in DOMAIN q.words : IsIn(q.words[i], PathText[p])
        /\ \/ p \in Scanned
           \/ /\ git[p] = "deleted"
              /\ \E c \in Range(q.constraints) : c.kind = "status" /\ IsKnown(c)
              /\ \A c \in Range(q.constraints) : c.kind \notin {"meta", "badage"}
    BY <1>1, <1>2, <1>3 DEF Asked
  <2>2. \A c \in Range(q.constraints) : IsKnown(c) => (Says(c, p, AttrOf(p)) <=> c.nots % 2 = 0)
    BY <1>3, <2>1
  <2>3. p \in Kept(q)
    BY <1>1, <2>1, <2>2, AskedKept
  <2>4. ~\E i \in DOMAIN a : a[i].path = p
    BY <1>5 DEF a
  <2> QED BY <1>3, <1>4, <2>3, <2>4
<1> QED BY <1>3, <1>6, <1>8, <1>9, <1>10 DEF Inv

\* Nor does anything else break one.
LEMMA StepInv == Inv /\ [Next]_vars => Inv'
<1> SUFFICES ASSUME Inv, [Next]_vars PROVE Inv'
  OBVIOUS
<1>1. CASE SearchContext
  BY <1>1, SearchContextInv DEF Inv
<1>2. CASE UNCHANGED vars
  <2>1. /\ files' = files /\ index' = index /\ git' = git /\ call' = call /\ answer' = answer
        /\ UNCHANGED <<files, index, git>>
    BY <1>2 DEF vars
  <2>2. /\ Snapshot' /\ Scanned' = Scanned /\ Found' = Found
        /\ \A p : AttrOf(p)' = AttrOf(p)
        /\ \A p : Satisfies(p, AttrOf(p))' <=> Satisfies(p, AttrOf(p))
    <3>1. Snapshot
      BY DEF Inv
    <3>2. \A p : Satisfies(p, AttrOf(p)) <=>
                   \A c \in Range(call.constraints) :
                     IsKnown(c) => (Says(c, p, AttrOf(p)) <=> c.nots % 2 = 0)
      BY DEF Satisfies
    <3>3. Found' = Found
      BY <2>1 DEF Found
    <3> QED BY <2>1, <3>1, <3>2, <3>3, SameSnapshot
  <2>3. Filtered' /\ MissesStayOut'
    BY <2>1, <2>2 DEF Inv, Filtered, MissesStayOut
  <2>4. Ranked' /\ OncePerPath'
    BY <2>1 DEF Inv, Ranked, OncePerPath
  <2>5. NoneLost'
    <3>1. \A p : Asked(p)' <=> Asked(p)
      BY <2>1, <2>2 DEF Asked
    <3> QED BY <2>1, <2>2, <3>1 DEF Inv, NoneLost
  <2> QED BY <2>2, <2>3, <2>4, <2>5 DEF Inv
<1> QED BY <1>1, <1>2 DEF Next

\* So it holds in every reachable state.
LEMMA InvHolds == Spec => []Inv
<1> QED BY InitInv, StepInv, PTL DEF Spec

\* Every result satisfies every constraint of the query (matchesConstraints,
\* matchOne, deletedCandidates).
THEOREM FilteredHolds == Spec => []Filtered
<1>1. Inv => Filtered
  BY DEF Inv
<1> QED BY InvHolds, <1>1, PTL

\* Results are in the one order their scores, ages and paths give (sortScored).
THEOREM RankedHolds == Spec => []Ranked
<1>1. Inv => Ranked
  BY DEF Inv
<1> QED BY InvHolds, <1>1, PTL

\* No path is two results (deletedCandidates).
THEOREM OncePerPathHolds == Spec => []OncePerPath
<1>1. Inv => OncePerPath
  BY DEF Inv
<1> QED BY InvHolds, <1>1, PTL

\* No path that is asked for is lost but to the limit, which keeps the best
\* (SearchContext from the candidates of the index to resultsFromScored).
THEOREM NoneLostHolds == Spec => []NoneLost
<1>1. Inv => NoneLost
  BY DEF Inv
<1> QED BY InvHolds, <1>1, PTL

\* A scanned path without a pair of characters of the query is no result
\* (searchCandidates).
THEOREM MissesStayOutHolds == Spec => []MissesStayOut
<1>1. Inv => MissesStayOut
  BY DEF Inv
<1> QED BY InvHolds, <1>1, PTL
==============================================================================
