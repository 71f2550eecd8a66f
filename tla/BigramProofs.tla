----------------------------- MODULE BigramProofs ----------------------------
(****************************************************************************)
(* Theorems about the candidate index (Bigram), for any alphabet, paths and *)
(* queries.                                                                 *)
(****************************************************************************)
EXTENDS Bigram, OrderProofs

Sorts(s) == \A i, j \in DOMAIN s : i < j => s[i] < s[j]
Has(s, v) == \E i \in DOMAIN s : s[i] = v

------------------------------------------------------------------------------
(****************************************************************************)
(* Binary search: sortedContains.                                           *)
(****************************************************************************)

\* The ranges a search of a list of n looks at, and one step of it: what is
\* said of a range, given what f says of the narrower ones.
Ranges(n) == (1 .. n + 1) \X (0 .. n)
Probe(s, v, f, p) ==
  LET mid == (p[1] + p[2]) \div 2
  IN /\ p[1] <= p[2]
     /\ \/ s[mid] = v
        \/ s[mid] < v /\ f[<<mid + 1, p[2]>>]
        \/ s[mid] > v /\ f[<<p[1], mid - 1>>]
Width(p) == IF p[1] <= p[2] THEN p[2] - p[1] + 1 ELSE 0

\* The middle of a range is in it, and what is left of it and right of it is
\* narrower.
LEMMA MiddleInside ==
  ASSUME NEW n \in Nat, NEW p \in Ranges(n), p[1] <= p[2]
  PROVE  LET mid == (p[1] + p[2]) \div 2
         IN /\ mid \in 1 .. n /\ p[1] <= mid /\ mid <= p[2]
            /\ <<mid + 1, p[2]>> \in Ranges(n) /\ Width(<<mid + 1, p[2]>>) < Width(p)
            /\ <<p[1], mid - 1>> \in Ranges(n) /\ Width(<<p[1], mid - 1>>) < Width(p)
            /\ Width(p) \in Nat /\ Width(<<mid + 1, p[2]>>) \in Nat /\ Width(<<p[1], mid - 1>>) \in Nat
<1> DEFINE mid == (p[1] + p[2]) \div 2
<1>1. p[1] \in 1 .. n + 1 /\ p[2] \in 0 .. n
  BY DEF Ranges
<1>2. mid \in Int /\ p[1] <= mid /\ mid <= p[2]
  BY <1>1
<1> HIDE DEF mid
<1>3. mid \in 1 .. n /\ mid + 1 \in 1 .. n + 1 /\ mid - 1 \in 0 .. n
  BY <1>1, <1>2
<1>4. <<mid + 1, p[2]>> \in Ranges(n) /\ <<p[1], mid - 1>> \in Ranges(n)
  BY <1>1, <1>3 DEF Ranges
<1>5. /\ Width(<<mid + 1, p[2]>>) < Width(p) /\ Width(<<p[1], mid - 1>>) < Width(p)
      /\ Width(p) \in Nat /\ Width(<<mid + 1, p[2]>>) \in Nat /\ Width(<<p[1], mid - 1>>) \in Nat
  BY <1>1, <1>2, <1>3 DEF Width
<1> QED BY <1>2, <1>3, <1>4, <1>5 DEF mid

\* A step depends only on narrower ranges.
LEMMA ProbeNarrower ==
  ASSUME NEW s, NEW v, NEW n \in Nat, NEW f, NEW g, NEW p \in Ranges(n),
         \A r \in Ranges(n) : Width(r) < Width(p) => f[r] = g[r]
  PROVE  Probe(s, v, f, p) <=> Probe(s, v, g, p)
<1>1. CASE p[1] <= p[2]
  BY <1>1, MiddleInside DEF Probe
<1>2. CASE ~(p[1] <= p[2])
  BY <1>2 DEF Probe
<1> QED BY <1>1, <1>2

\* The search is well defined: it ends.
LEMMA SearchEnds ==
  ASSUME NEW s, NEW v, NEW n \in Nat
  PROVE  \E f : f = [p \in Ranges(n) |-> Probe(s, v, f, p)]
<1> DEFINE Good(f, w) == \A p \in Ranges(n) : Width(p) <= w => f[p] = Probe(s, v, f, p)
           S == {w \in Nat : \E f \in [Ranges(n) -> BOOLEAN] : Good(f, w)}
<1>1. \A p \in Ranges(n) : Width(p) \in 0 .. n
  BY DEF Ranges, Width
<1>2. 0 \in S
  <2> DEFINE f == [p \in Ranges(n) |-> FALSE]
  <2>1. f \in [Ranges(n) -> BOOLEAN]
    OBVIOUS
  <2>2. ASSUME NEW p \in Ranges(n), Width(p) <= 0 PROVE f[p] = Probe(s, v, f, p)
    <3>1. ~(p[1] <= p[2])
      BY <2>2 DEF Ranges, Width
    <3> QED BY <3>1 DEF Probe
  <2> QED BY <2>1, <2>2
<1>3. ASSUME NEW w \in Nat, w \in S PROVE w + 1 \in S
  <2>1. PICK f \in [Ranges(n) -> BOOLEAN] : Good(f, w)
    BY <1>3
  <2> DEFINE g == [p \in Ranges(n) |-> Probe(s, v, f, p)]
  <2>2. g \in [Ranges(n) -> BOOLEAN]
    BY DEF Probe
  <2>3. \A p \in Ranges(n) : Width(p) <= w => g[p] = f[p]
    BY <2>1
  <2>4. ASSUME NEW p \in Ranges(n), Width(p) <= w + 1 PROVE g[p] = Probe(s, v, g, p)
    <3>1. \A r \in Ranges(n) : Width(r) < Width(p) => f[r] = g[r]
      BY <1>1, <2>3, <2>4
    <3>2. Probe(s, v, f, p) <=> Probe(s, v, g, p)
      <4> HIDE DEF g
      <4> QED BY <3>1, ProbeNarrower
    <3>3. g[p] = Probe(s, v, f, p) /\ Probe(s, v, f, p) \in BOOLEAN /\ Probe(s, v, g, p) \in BOOLEAN
      BY DEF Probe
    <3> HIDE DEF g
    <3> QED BY <3>2, <3>3
  <2> HIDE DEF g
  <2> QED BY <2>2, <2>4
<1>4. n \in S
  <2> HIDE DEF S
  <2>1. Nat \subseteq S
    BY <1>2, <1>3, SetInduction
  <2> QED BY <2>1
<1>5. PICK f \in [Ranges(n) -> BOOLEAN] : Good(f, n)
  BY <1>4
<1>6. \A p \in Ranges(n) : f[p] = Probe(s, v, f, p)
  BY <1>1, <1>5
<1> QED BY <1>6

\* What SortedContains computes.
LEMMA SortedContainsUnfolds ==
  ASSUME NEW s, NEW v, Len(s) \in Nat
  PROVE  \E f : /\ SortedContains(s, v) = f[<<1, Len(s)>>]
                /\ f = [p \in Ranges(Len(s)) |-> Probe(s, v, f, p)]
<1> DEFINE f == CHOOSE g : g = [p \in Ranges(Len(s)) |-> Probe(s, v, g, p)]
<1>1. SortedContains(s, v) = f[<<1, Len(s)>>]
  BY DEF SortedContains, Ranges, Probe
<1>2. f = [p \in Ranges(Len(s)) |-> Probe(s, v, f, p)]
  BY SearchEnds
<1> QED BY <1>1, <1>2

\* Whatever the list, what the search finds is there.
THEOREM SortedContainsSound ==
  ASSUME NEW S, NEW s \in Seq(S), NEW v, SortedContains(s, v)
  PROVE  Has(s, v)
<1> DEFINE n == Len(s)
<1>1. n \in Nat /\ DOMAIN s = 1 .. n
  OBVIOUS
<1> HIDE DEF n
<1>2. PICK f : /\ SortedContains(s, v) = f[<<1, n>>]
               /\ f = [p \in Ranges(n) |-> Probe(s, v, f, p)]
  BY <1>1, SortedContainsUnfolds DEF n
<1>3. \A p \in Ranges(n) : f[p] <=> Probe(s, v, f, p)
  BY <1>2
<1> DEFINE S0 == {w \in Nat : \A p \in Ranges(n) : Width(p) <= w /\ f[p] => Has(s, v)}
<1>4. 0 \in S0
  <2> SUFFICES ASSUME NEW p \in Ranges(n), Width(p) <= 0, f[p] PROVE FALSE
    OBVIOUS
  <2>1. ~(p[1] <= p[2])
    BY DEF Ranges, Width
  <2> QED BY <1>3, <2>1 DEF Probe
<1>5. ASSUME NEW w \in Nat, w \in S0 PROVE w + 1 \in S0
  <2> SUFFICES ASSUME NEW p \in Ranges(n), Width(p) <= w + 1, f[p] PROVE Has(s, v)
    OBVIOUS
  <2> DEFINE mid == (p[1] + p[2]) \div 2
  <2>1. /\ p[1] <= p[2]
        /\ \/ s[mid] = v
           \/ f[<<mid + 1, p[2]>>]
           \/ f[<<p[1], mid - 1>>]
    BY <1>3 DEF Probe
  <2>2. /\ mid \in 1 .. n
        /\ <<mid + 1, p[2]>> \in Ranges(n) /\ Width(<<mid + 1, p[2]>>) < Width(p)
        /\ <<p[1], mid - 1>> \in Ranges(n) /\ Width(<<p[1], mid - 1>>) < Width(p)
        /\ Width(p) \in Nat /\ Width(<<mid + 1, p[2]>>) \in Nat /\ Width(<<p[1], mid - 1>>) \in Nat
    BY <1>1, <2>1, MiddleInside
  <2> HIDE DEF mid
  <2>3. Width(<<mid + 1, p[2]>>) <= w /\ Width(<<p[1], mid - 1>>) <= w
    BY <2>2
  <2> QED BY <1>1, <1>5, <2>1, <2>2, <2>3 DEF Has
<1>6. Nat \subseteq S0
  <2> HIDE DEF S0
  <2> QED BY <1>4, <1>5, SetInduction
<1>7. <<1, n>> \in Ranges(n) /\ Width(<<1, n>>) \in Nat
  BY <1>1 DEF Ranges, Width
<1> QED BY <1>2, <1>6, <1>7

\* In an ascending list the search finds what is there.
THEOREM SortedContainsComplete ==
  ASSUME NEW s \in Seq(Int), Sorts(s), NEW v \in Int, Has(s, v)
  PROVE  SortedContains(s, v)
<1> DEFINE n == Len(s)
<1>1. n \in Nat /\ DOMAIN s = 1 .. n /\ \A i \in 1 .. n : s[i] \in Int
  OBVIOUS
<1> HIDE DEF n
<1>2. PICK f : /\ SortedContains(s, v) = f[<<1, n>>]
               /\ f = [p \in Ranges(n) |-> Probe(s, v, f, p)]
  BY <1>1, SortedContainsUnfolds DEF n
<1>3. \A p \in Ranges(n) : f[p] <=> Probe(s, v, f, p)
  BY <1>2
<1>4. PICK i \in 1 .. n : s[i] = v
  BY <1>1 DEF Has
<1> DEFINE S0 == {w \in Nat : \A p \in Ranges(n) : Width(p) <= w /\ p[1] <= i /\ i <= p[2] => f[p]}
<1>5. 0 \in S0
  <2> SUFFICES ASSUME NEW p \in Ranges(n), Width(p) <= 0, p[1] <= i, i <= p[2] PROVE FALSE
    OBVIOUS
  <2> QED BY <1>1 DEF Ranges, Width
<1>6. ASSUME NEW w \in Nat, w \in S0 PROVE w + 1 \in S0
  <2> SUFFICES ASSUME NEW p \in Ranges(n), Width(p) <= w + 1, p[1] <= i, i <= p[2] PROVE f[p]
    OBVIOUS
  <2> DEFINE mid == (p[1] + p[2]) \div 2
  <2>1. p[1] \in Int /\ p[2] \in Int /\ p[1] <= p[2] /\ i \in Int
    BY <1>1 DEF Ranges
  <2>2. /\ mid \in 1 .. n /\ p[1] <= mid /\ mid <= p[2]
        /\ <<mid + 1, p[2]>> \in Ranges(n) /\ Width(<<mid + 1, p[2]>>) < Width(p)
        /\ <<p[1], mid - 1>> \in Ranges(n) /\ Width(<<p[1], mid - 1>>) < Width(p)
        /\ Width(p) \in Nat /\ Width(<<mid + 1, p[2]>>) \in Nat /\ Width(<<p[1], mid - 1>>) \in Nat
    BY <1>1, <2>1, MiddleInside
  <2>3. f[p] <=> \/ s[mid] = v
                 \/ s[mid] < v /\ f[<<mid + 1, p[2]>>]
                 \/ s[mid] > v /\ f[<<p[1], mid - 1>>]
    BY <1>3, <2>1 DEF Probe
  <2> HIDE DEF mid
  <2>8. Width(<<mid + 1, p[2]>>) <= w /\ Width(<<p[1], mid - 1>>) <= w
    BY <2>2
  <2>4. s[mid] \in Int /\ mid \in Int
    BY <1>1, <2>2
  <2>5. CASE i = mid
    BY <1>4, <2>3, <2>5
  <2>6. CASE mid < i
    <3>1. s[mid] < v
      BY <1>1, <1>4, <2>2, <2>6 DEF Sorts
    <3> DEFINE r == <<mid + 1, p[2]>>
    <3>2. r \in Ranges(n) /\ Width(r) <= w /\ r[1] <= i /\ i <= r[2]
      BY <2>1, <2>2, <2>4, <2>6, <2>8
    <3>3. f[<<mid + 1, p[2]>>]
      <4> HIDE DEF r
      <4>1. f[r]
        BY <1>6, <3>2
      <4> QED BY <4>1 DEF r
    <3> QED BY <2>3, <3>1, <3>3
  <2>7. CASE i < mid
    <3>1. s[mid] > v
      BY <1>1, <1>4, <2>2, <2>4, <2>7 DEF Sorts
    <3> DEFINE r == <<p[1], mid - 1>>
    <3>2. r \in Ranges(n) /\ Width(r) <= w /\ r[1] <= i /\ i <= r[2]
      BY <2>1, <2>2, <2>4, <2>7, <2>8
    <3>3. f[<<p[1], mid - 1>>]
      <4> HIDE DEF r
      <4>1. f[r]
        BY <1>6, <3>2
      <4> QED BY <4>1 DEF r
    <3> QED BY <2>3, <3>1, <3>3
  <2> QED BY <2>1, <2>4, <2>5, <2>6, <2>7
<1>7. Nat \subseteq S0
  <2> HIDE DEF S0
  <2> QED BY <1>5, <1>6, SetInduction
<1>8. <<1, n>> \in Ranges(n) /\ Width(<<1, n>>) \in Nat
  BY <1>1 DEF Ranges, Width
<1>9. Width(<<1, n>>) \in S0
  <2> HIDE DEF S0
  <2> QED BY <1>7, <1>8
<1>10. 1 <= i /\ i <= n
  BY <1>1
<1>11. f[<<1, n>>]
  BY <1>8, <1>9, <1>10
<1> QED BY <1>2, <1>11

------------------------------------------------------------------------------
(****************************************************************************)
(* What Build leaves: for each pair of characters the numbers of the paths  *)
(* that contain it, ascending.                                              *)
(****************************************************************************)

Listed(paths, n) == [g \in AllGrams |-> Ascending({i \in 1 .. n : g \in Grams(paths[i])})]

\* The numbers of a list are ascending and are those of the paths that have
\* the pair.
LEMMA ListedProperties ==
  ASSUME NEW paths, NEW n \in Nat, NEW g \in AllGrams
  PROVE  /\ Listed(paths, n)[g] \in Seq(1 .. n)
         /\ Listed(paths, n)[g] \in Seq(Int)
         /\ Sorts(Listed(paths, n)[g])
         /\ \A i : Has(Listed(paths, n)[g], i) <=> i \in 1 .. n /\ g \in Grams(paths[i])
<1> DEFINE S == {i \in 1 .. n : g \in Grams(paths[i])}
           l == Ascending(S)
           k == Cardinality(S)
<1>1. S \in SUBSET (1 .. n) /\ S \in SUBSET Int /\ IsFiniteSet(S)
  <2>1. S \in SUBSET (1 .. n) /\ S \in SUBSET Int
    OBVIOUS
  <2>2. IsFiniteSet(1 .. n)
    BY FS_Interval
  <2> HIDE DEF S
  <2> QED BY <2>1, <2>2, FS_Subset
<1>2. Listed(paths, n)[g] = l /\ \A i : i \in S <=> i \in 1 .. n /\ g \in Grams(paths[i])
  BY DEF Listed
<1> HIDE DEF S
<1>3. /\ k \in Nat /\ l \in [1 .. k -> S] /\ \A x \in S : \E j \in 1 .. k : l[j] = x
      /\ \A i, j \in 1 .. k : i < j <=> l[i] < l[j]
  BY <1>1, AscendingProperties
<1> HIDE DEF l, k
<1>4. DOMAIN l = 1 .. k
  BY <1>3
<1>5. l \in Seq(1 .. n) /\ l \in Seq(Int)
  <2>1. l \in [1 .. k -> 1 .. n] /\ l \in [1 .. k -> Int]
    BY <1>1, <1>3
  <2> QED BY <1>3, <2>1
<1>6. Sorts(l)
  BY <1>3, <1>4 DEF Sorts
<1>7. \A i : Has(l, i) <=> i \in S
  BY <1>3, <1>4 DEF Has
<1> QED BY <1>2, <1>5, <1>6, <1>7

\* Adding the next path lists it.
LEMMA AddToListed ==
  ASSUME NEW paths, NEW n \in Nat
  PROVE  AddTo(Listed(paths, n), n + 1, paths[n + 1]) = Listed(paths, n + 1)
<1> DEFINE t == paths[n + 1]
           L == Listed(paths, n)
           S(g) == {i \in 1 .. n : g \in Grams(paths[i])}
<1>1. ASSUME NEW g \in AllGrams
      PROVE AddTo(L, n + 1, t)[g] = Ascending({i \in 1 .. n + 1 : g \in Grams(paths[i])})
  <2> DEFINE T == {i \in 1 .. n + 1 : g \in Grams(paths[i])}
  <2>1. /\ L[g] = Ascending(S(g)) /\ DOMAIN L = AllGrams
        /\ S(g) \in SUBSET Int /\ IsFiniteSet(S(g)) /\ \A x \in S(g) : x < n + 1
    <3>1. S(g) \in SUBSET (1 .. n) /\ S(g) \in SUBSET Int /\ \A x \in S(g) : x < n + 1
      OBVIOUS
    <3>2. IsFiniteSet(S(g))
      <4>1. IsFiniteSet(1 .. n)
        BY FS_Interval
      <4> HIDE DEF S
      <4> QED BY <3>1, <4>1, FS_Subset
    <3> QED BY <3>1, <3>2 DEF Listed
  <2>2. CASE g \notin Grams(t)
    <3>1. T = S(g)
      BY <2>2
    <3>2. AddTo(L, n + 1, t)[g] = L[g]
      BY <2>1, <2>2 DEF AddTo
    <3> QED BY <2>1, <3>1, <3>2
  <2>3. CASE g \in Grams(t)
    <3>1. T = S(g) \cup {n + 1}
      BY <2>3
    <3>2. ~(L[g] # <<>> /\ Last(L[g]) = n + 1)
      <4> SUFFICES ASSUME L[g] # <<>> PROVE Last(L[g]) # n + 1
        OBVIOUS
      <4>1. L[g] \in Seq(1 .. n)
        BY ListedProperties
      <4>2. Last(L[g]) \in 1 .. n
        BY <4>1 DEF Last
      <4> QED BY <4>2
    <3>3. AddTo(L, n + 1, t)[g] = Append(L[g], n + 1)
      BY <2>1, <2>3, <3>2 DEF AddTo
    <3>4. Ascending(S(g) \cup {n + 1}) = Append(Ascending(S(g)), n + 1)
      <4> HIDE DEF S
      <4> QED BY <2>1, AscendingAppend
    <3> QED BY <2>1, <3>1, <3>3, <3>4
  <2> QED BY <2>2, <2>3
<1>2. DOMAIN L = AllGrams
  BY DEF Listed
<1> HIDE DEF L
<1>3. AddTo(L, n + 1, t) = [g \in AllGrams |-> AddTo(L, n + 1, t)[g]]
  BY <1>2 DEF AddTo
<1> QED BY <1>1, <1>3 DEF Listed, L

\* The recursion of Build has a solution and only one.
THEOREM BuildLists ==
  ASSUME NEW paths, Len(paths) \in Nat
  PROVE  Build(paths) = Listed(paths, Len(paths))
<1> DEFINE k == Len(paths)
           Step(f, n) == IF n = 0 THEN EmptyIndex ELSE AddTo(f[n - 1], n, paths[n])
           built == CHOOSE f : f = [n \in 0 .. k |-> Step(f, n)]
           h == [n \in 0 .. k |-> Listed(paths, n)]
<1>1. Build(paths) = built[k]
  BY DEF Build
<1>2. Listed(paths, 0) = EmptyIndex
  <2>1. \A g \in AllGrams : {i \in 1 .. 0 : g \in Grams(paths[i])} = {}
    OBVIOUS
  <2> QED BY <2>1, AscendingEmpty DEF Listed, EmptyIndex
<1>3. k \in Nat
  OBVIOUS
<1> HIDE DEF k
<1>4. \A n \in 0 .. k : n # 0 => AddTo(Listed(paths, n - 1), n, paths[n]) = Listed(paths, n)
  <2> SUFFICES ASSUME NEW n \in 0 .. k, n # 0
               PROVE AddTo(Listed(paths, n - 1), n, paths[n]) = Listed(paths, n)
    OBVIOUS
  <2>1. n - 1 \in Nat /\ (n - 1) + 1 = n
    BY <1>3
  <2>2. AddTo(Listed(paths, n - 1), (n - 1) + 1, paths[(n - 1) + 1]) = Listed(paths, (n - 1) + 1)
    BY <2>1, AddToListed
  <2> QED BY <2>1, <2>2
<1>5. \A n \in 0 .. k : n # 0 => n - 1 \in 0 .. k
  BY <1>3
<1>6. h = [n \in 0 .. k |-> Step(h, n)]
  <2>1. \A n \in 0 .. k : Listed(paths, n) = Step(h, n)
    BY <1>2, <1>4, <1>5
  <2> HIDE DEF Step
  <2> QED BY <2>1
<1>7. built = [n \in 0 .. k |-> Step(built, n)]
  BY <1>6
<1> HIDE DEF built
<1> DEFINE S == {n \in Nat : n <= k => built[n] = Listed(paths, n)}
<1>8. 0 \in S
  BY <1>2, <1>3, <1>7
<1>9. ASSUME NEW n \in Nat, n \in S PROVE n + 1 \in S
  <2> SUFFICES ASSUME n + 1 <= k PROVE built[n + 1] = Listed(paths, n + 1)
    OBVIOUS
  <2>1. n + 1 \in 0 .. k /\ n + 1 # 0 /\ (n + 1) - 1 = n /\ n <= k
    BY <1>3
  <2>2. built[n + 1] = AddTo(built[n], n + 1, paths[n + 1])
    BY <1>7, <2>1
  <2> QED BY <1>9, <2>1, <2>2, AddToListed
<1>10. k \in S
  <2> HIDE DEF S
  <2> QED BY <1>3, <1>8, <1>9, SetInduction
<1> QED BY <1>1, <1>3, <1>10 DEF k

------------------------------------------------------------------------------
(****************************************************************************)
(* What a query gets from the index.                                        *)
(****************************************************************************)

\* A filtered sequence has what the sequence has at the places that pass, and
\* stays ascending.
LEMMA ThoseHas ==
  ASSUME NEW S, NEW s \in Seq(S), NEW places \in SUBSET DOMAIN s
  PROVE  /\ \A v : Has(Those(s, places), v) <=> \E i \in places : s[i] = v
         /\ Sorts(s) => Sorts(Those(s, places))
<1> DEFINE k == Cardinality(places)
           a == Ascending(places)
<1>1. /\ k \in Nat /\ a \in [1 .. k -> places] /\ \A i \in places : \E j \in 1 .. k : a[j] = i
      /\ \A i, j \in 1 .. k : i < j <=> a[i] < a[j]
      /\ Those(s, places) = [j \in 1 .. k |-> s[a[j]]]
  <2>1. IsFiniteSet(places) /\ places \in SUBSET Int
    BY ThoseType
  <2> QED BY <2>1, ThoseProperties
<1> HIDE DEF k, a
<1>2. ASSUME NEW v PROVE Has(Those(s, places), v) <=> \E i \in places : s[i] = v
  <2>1. DOMAIN Those(s, places) = 1 .. k /\ \A j \in 1 .. k : Those(s, places)[j] = s[a[j]]
    BY <1>1
  <2>2. \A j \in 1 .. k : a[j] \in places
    BY <1>1
  <2>3. Has(Those(s, places), v) <=> \E j \in 1 .. k : s[a[j]] = v
    BY <2>1 DEF Has
  <2> QED BY <1>1, <2>2, <2>3, Zenon
<1>3. Sorts(s) => Sorts(Those(s, places))
  <2> SUFFICES ASSUME Sorts(s), NEW i \in 1 .. k, NEW j \in 1 .. k, i < j
               PROVE s[a[i]] < s[a[j]]
    BY <1>1 DEF Sorts
  <2>1. a[i] \in DOMAIN s /\ a[j] \in DOMAIN s /\ a[i] < a[j]
    BY <1>1
  <2> QED BY <2>1 DEF Sorts
<1> QED BY <1>2, <1>3

\* A text in lower case is one of the alphabet, and as long.
LEMMA FoldedType ==
  ASSUME NEW t \in Seq(DOMAIN Lower)
  PROVE  Folded(t) \in Seq(DOMAIN Lower) /\ Len(Folded(t)) = Len(t) /\ Len(t) \in Nat
<1>1. Folded(t) \in [1 .. Len(t) -> DOMAIN Lower] /\ Len(t) \in Nat
  BY LowerAssumption DEF Folded
<1> QED BY <1>1

\* The pairs of a query over the alphabet have lists.
LEMMA QueryGramsType ==
  ASSUME NEW q \in Seq(DOMAIN Lower)
  PROVE  QueryGrams(q) \subseteq AllGrams
<1> DEFINE l == Folded(q)
<1>1. l \in [1 .. Len(q) -> DOMAIN Lower] /\ Len(q) \in Nat
  BY LowerAssumption DEF Folded
<1>2. Len(l) = Len(q)
  BY <1>1
<1> HIDE DEF l
<1>3. \A i \in 1 .. Len(l) - 1 : l[i] \in DOMAIN Lower /\ l[i + 1] \in DOMAIN Lower
  BY <1>1, <1>2
<1> QED BY <1>3 DEF QueryGrams, Grams, AllGrams, l

\* What a query gets from any lists: only numbers that are in all of them, and
\* all such numbers if the lists are ascending; nothing is looked up only when
\* there is nothing to look up or nothing to look in.
LEMMA OutcomeHas ==
  ASSUME NEW index, NEW fileCount, NEW q, \A g \in QueryGrams(q) : index[g] \in Seq(Int)
  PROVE  LET o == CandidateOutcome(index, fileCount, q)
         IN /\ o.state = "unavailable" <=> QueryGrams(q) = {} \/ fileCount = 0
            /\ o.state = "nomatch" <=> o.state # "unavailable" /\ o.candidates = <<>>
            /\ o.state # "unavailable" =>
                 /\ o.candidates \in Seq(Int)
                 /\ \A v : Has(o.candidates, v) => \A g \in QueryGrams(q) : Has(index[g], v)
                 /\ (\A g \in QueryGrams(q) : Sorts(index[g])) =>
                      /\ Sorts(o.candidates)
                      /\ \A v : (\A g \in QueryGrams(q) : Has(index[g], v)) => Has(o.candidates, v)
<1> DEFINE wanted == QueryGrams(q)
           shortest == CHOOSE g \in wanted : \A h \in wanted : Len(index[g]) <= Len(index[h])
           list == index[shortest]
           kept == {i \in DOMAIN list : \A g \in wanted \ {shortest} :
                                          SortedContains(index[g], list[i])}
           common == Those(list, kept)
           o == CandidateOutcome(index, fileCount, q)
<1>1. o = IF wanted = {} \/ fileCount = 0 THEN Unavailable
          ELSE IF common = <<>> THEN NoMatch
          ELSE [state |-> "found", candidates |-> common]
  BY DEF CandidateOutcome
<1>2. /\ wanted = {} \/ fileCount = 0 => o.state = "unavailable"
      /\ ~(wanted = {} \/ fileCount = 0) => o.candidates = common
      /\ ~(wanted = {} \/ fileCount = 0) /\ common = <<>> => o.state = "nomatch"
      /\ ~(wanted = {} \/ fileCount = 0) /\ common # <<>> => o.state = "found"
  <2> HIDE DEF common, wanted
  <2> QED BY <1>1 DEF Unavailable, NoMatch
<1> HIDE DEF o
<1>3. \A g \in wanted : index[g] \in Seq(Int) /\ Len(index[g]) \in Nat
  OBVIOUS
<1> HIDE DEF wanted
<1>4. ASSUME wanted # {}
      PROVE /\ common \in Seq(Int)
            /\ \A v : Has(common, v) => \A g \in wanted : Has(index[g], v)
            /\ (\A g \in wanted : Sorts(index[g])) =>
                 /\ Sorts(common)
                 /\ \A v : (\A g \in wanted : Has(index[g], v)) => Has(common, v)
  <2>1. shortest \in wanted
    <3> DEFINE T == {Len(index[g]) : g \in wanted}
    <3>1. T \in SUBSET Nat /\ T # {}
      BY <1>3, <1>4
    <3>2. PICK x \in T : \A y \in T : x <= y
      BY <3>1, LeastNumber
    <3> QED BY <3>2
  <2> HIDE DEF shortest
  <2>2. list \in Seq(Int) /\ list = index[shortest]
    BY <1>3, <2>1
  <2>3. kept \subseteq DOMAIN list
    OBVIOUS
  <2>4. \A i \in DOMAIN list :
          i \in kept <=> \A g \in wanted \ {shortest} : SortedContains(index[g], list[i])
    OBVIOUS
  <2> HIDE DEF list, kept
  <2>5. \A i \in DOMAIN list : list[i] \in Int
    BY <2>2
  <2>6. /\ common \in Seq(Int)
        /\ Sorts(list) => Sorts(common)
        /\ \A v : Has(common, v) <=> \E i \in kept : list[i] = v
    BY <2>2, <2>3, ThoseType, ThoseHas
  <2> HIDE DEF common
  <2>7. ASSUME NEW v, Has(common, v), NEW g \in wanted PROVE Has(index[g], v)
    <3>1. PICK i \in kept : list[i] = v
      BY <2>6, <2>7
    <3>2. CASE g = shortest
      BY <2>2, <2>3, <3>1, <3>2 DEF Has
    <3>3. CASE g # shortest
      <4>1. SortedContains(index[g], v)
        BY <2>3, <2>4, <3>1, <3>3
      <4> QED BY <1>3, <4>1, SortedContainsSound
    <3> QED BY <3>2, <3>3
  <2>8. ASSUME \A g \in wanted : Sorts(index[g]), NEW v, \A g \in wanted : Has(index[g], v)
        PROVE  Has(common, v)
    <3>1. PICK i \in DOMAIN list : list[i] = v
      BY <2>1, <2>2, <2>8 DEF Has
    <3>2. ASSUME NEW g \in wanted PROVE SortedContains(index[g], list[i])
      <4>1. index[g] \in Seq(Int) /\ Sorts(index[g]) /\ Has(index[g], v) /\ v \in Int
        BY <1>3, <2>5, <2>8, <3>1
      <4>2. SortedContains(index[g], v)
        BY <4>1, SortedContainsComplete
      <4> QED BY <3>1, <4>2
    <3> QED BY <2>4, <2>6, <3>1, <3>2
  <2>9. (\A g \in wanted : Sorts(index[g])) => Sorts(common)
    BY <2>1, <2>2, <2>6
  <2>10. common \in Seq(Int)
    BY <2>6
  <2> QED BY <2>7, <2>8, <2>9, <2>10, Zenon
<1> HIDE DEF common
<1>5. /\ o.state = "unavailable" <=> wanted = {} \/ fileCount = 0
      /\ o.state = "nomatch" <=> o.state # "unavailable" /\ common = <<>>
  BY <1>2
<1>6. o.state # "unavailable" => wanted # {} /\ o.candidates = common
  BY <1>2, <1>5
<1>7. /\ o.state = "unavailable" <=> wanted = {} \/ fileCount = 0
      /\ o.state = "nomatch" <=> o.state # "unavailable" /\ o.candidates = <<>>
  BY <1>5, <1>6, Zenon
<1>8. o.state # "unavailable" =>
        /\ o.candidates \in Seq(Int)
        /\ \A v : Has(o.candidates, v) => \A g \in wanted : Has(index[g], v)
        /\ (\A g \in wanted : Sorts(index[g])) =>
             /\ Sorts(o.candidates)
             /\ \A v : (\A g \in wanted : Has(index[g], v)) => Has(o.candidates, v)
  BY <1>4, <1>6, Zenon
<1> QED BY <1>7, <1>8, Zenon DEF o, wanted

\* The candidates of a query: the numbers of the paths that contain every pair
\* of it, no other and none missing, ascending; the index is no help only when
\* there is nothing to look up or nothing to look in (QueryCandidates).
THEOREM CandidatesExact ==
  ASSUME NEW paths, Len(paths) \in Nat, NEW q \in Seq(DOMAIN Lower)
  PROVE  LET o == CandidateOutcome(Build(paths), Len(paths), q)
             n == Len(paths)
         IN /\ o.state = "unavailable" <=> QueryGrams(q) = {} \/ n = 0
            /\ o.state = "nomatch" <=> o.state # "unavailable" /\ o.candidates = <<>>
            /\ o.state # "unavailable" =>
                 /\ o.candidates \in Seq(1 .. n) /\ Sorts(o.candidates)
                 /\ \A i : Has(o.candidates, i)
                           <=> i \in 1 .. n /\ QueryGrams(q) \subseteq Grams(paths[i])
<1> DEFINE n == Len(paths)
           index == Build(paths)
           wanted == QueryGrams(q)
           o == CandidateOutcome(Build(paths), Len(paths), q)
<1>1. n \in Nat /\ wanted \subseteq AllGrams /\ index = Listed(paths, n)
  BY QueryGramsType, BuildLists
<1> HIDE DEF n, index
<1>2. \A g \in wanted : /\ index[g] \in Seq(Int) /\ Sorts(index[g])
                        /\ \A i : Has(index[g], i) <=> i \in 1 .. n /\ g \in Grams(paths[i])
  BY <1>1, ListedProperties
<1>3. /\ o.state = "unavailable" <=> wanted = {} \/ n = 0
      /\ o.state = "nomatch" <=> o.state # "unavailable" /\ o.candidates = <<>>
      /\ o.state # "unavailable" =>
           /\ o.candidates \in Seq(Int)
           /\ \A v : Has(o.candidates, v) => \A g \in wanted : Has(index[g], v)
           /\ (\A g \in wanted : Sorts(index[g])) =>
                /\ Sorts(o.candidates)
                /\ \A v : (\A g \in wanted : Has(index[g], v)) => Has(o.candidates, v)
  BY <1>2, OutcomeHas DEF n, index
<1> HIDE DEF o, wanted
<1>4. ASSUME o.state # "unavailable"
      PROVE  /\ o.candidates \in Seq(1 .. n) /\ Sorts(o.candidates)
             /\ \A i : Has(o.candidates, i) <=> i \in 1 .. n /\ wanted \subseteq Grams(paths[i])
  <2> DEFINE c == o.candidates
  <2>1. /\ c \in Seq(Int) /\ Sorts(c) /\ wanted # {}
        /\ \A v : Has(c, v) <=> \A g \in wanted : Has(index[g], v)
    BY <1>2, <1>3, <1>4, Zenon
  <2> HIDE DEF c
  <2>2. \A i : Has(c, i) <=> i \in 1 .. n /\ wanted \subseteq Grams(paths[i])
    BY <1>2, <2>1
  <2>3. DOMAIN c = 1 .. Len(c) /\ Len(c) \in Nat
    BY <2>1
  <2>4. \A k \in 1 .. Len(c) : c[k] \in 1 .. n
    BY <2>2, <2>3 DEF Has
  <2>5. c \in Seq(1 .. n)
    <3>1. c \in [1 .. Len(c) -> 1 .. n]
      <4>1. c = [k \in 1 .. Len(c) |-> c[k]]
        BY <2>1
      <4> HIDE DEF c
      <4> QED BY <2>4, <4>1
    <3>2. n \in Nat
      BY <1>1
    <3> QED BY <2>3, <3>1, <3>2
  <2> QED BY <2>1, <2>2, <2>5 DEF c
<1> QED BY <1>3, <1>4, Zenon DEF o, n, wanted

------------------------------------------------------------------------------
(****************************************************************************)
(* The overlay: Add calls that choose their numbers, and Reset.             *)
(****************************************************************************)

\* A call is <<number, text>>, or <<>> for Reset.
AddSeqs == Seq({<<>>} \cup (Int \X Seq(DOMAIN Lower)))

\* The calls among the first n that no Reset has undone.
Live(adds, n) == {i \in 1 .. n : \A r \in 1 .. n : adds[r] = <<>> => r < i}
InSequence(adds, n) == \A i, j \in Live(adds, n) : i < j => adds[i][1] <= adds[j][1]

\* One more number in a list: it is there, and the list stays ascending if no
\* number of it is greater.
LEMMA AddToHas ==
  ASSUME NEW index, NEW g \in DOMAIN index, index[g] \in Seq(Int), NEW i \in Int, NEW t
  PROVE  /\ AddTo(index, i, t)[g] \in Seq(Int)
         /\ \A v : Has(AddTo(index, i, t)[g], v) <=> Has(index[g], v) \/ (v = i /\ g \in Grams(t))
         /\ Sorts(index[g]) /\ (\A v : Has(index[g], v) => v <= i) => Sorts(AddTo(index, i, t)[g])
<1> DEFINE l == index[g]
           n == Len(l)
           m == AddTo(index, i, t)[g]
<1>1. l \in Seq(Int) /\ n \in Nat /\ DOMAIN l = 1 .. n
  OBVIOUS
<1>2. m = IF g \notin Grams(t) \/ (l # <<>> /\ Last(l) = i) THEN l ELSE Append(l, i)
  BY DEF AddTo
<1> HIDE DEF m, l
<1>3. CASE g \notin Grams(t)
  <2>1. m = l
    BY <1>2, <1>3
  <2> QED BY <1>1, <1>3, <2>1 DEF m, l
<1>4. CASE l # <<>> /\ Last(l) = i
  <2>1. m = l
    BY <1>2, <1>4
  <2>2. n \in 1 .. n
    BY <1>1, <1>4
  <2>3. Has(l, i)
    BY <1>1, <1>4, <2>2 DEF Has, Last
  <2> QED BY <1>1, <2>1, <2>3 DEF m, l
<1>5. CASE g \in Grams(t) /\ ~(l # <<>> /\ Last(l) = i)
  <2>1. m = Append(l, i)
    BY <1>2, <1>5
  <2>2. /\ m \in Seq(Int) /\ DOMAIN m = 1 .. n + 1 /\ m[n + 1] = i
        /\ \A k \in 1 .. n : m[k] = l[k] /\ l[k] \in Int
    BY <1>1, <2>1
  <2> HIDE DEF n
  <2>3. \A k \in 1 .. n + 1 : k \in 1 .. n \/ k = n + 1
    BY <1>1
  <2>4. n + 1 \in 1 .. n + 1 /\ \A k \in 1 .. n : k \in 1 .. n + 1
    BY <1>1
  <2>5. ASSUME NEW v PROVE Has(m, v) <=> Has(l, v) \/ v = i
    BY <1>1, <2>2, <2>3, <2>4, Zenon DEF Has
  <2>6. ASSUME Sorts(l), \A v : Has(l, v) => v <= i PROVE Sorts(m)
    <3>1. ASSUME NEW k \in 1 .. n PROVE l[k] < i
      <4>1. Has(l, l[k]) /\ Has(l, l[n]) /\ n \in 1 .. n /\ k <= n
        <5>1. n \in 1 .. n /\ k <= n
          BY <1>1
        <5>2. n \in DOMAIN l /\ k \in DOMAIN l
          BY <1>1, <5>1
        <5> QED BY <5>1, <5>2, Zenon DEF Has
      <4>2. l # <<>>
        BY <1>1, <4>1
      <4>3. l[n] # i
        BY <1>5, <4>2 DEF Last, n
      <4>4. l[k] <= i /\ l[n] <= i
        BY <2>6, <4>1
      <4>5. l[k] \in Int /\ l[n] \in Int
        BY <2>2, <4>1
      <4>6. k < n => l[k] < l[n]
        BY <1>1, <2>6, <4>1 DEF Sorts
      <4> QED BY <1>1, <4>1, <4>3, <4>4, <4>5, <4>6
    <3>2. ASSUME NEW a \in 1 .. n + 1, NEW b \in 1 .. n + 1, a < b PROVE m[a] < m[b]
      <4>1. a \in 1 .. n
        BY <1>1, <3>2
      <4>2. CASE b = n + 1
        BY <2>2, <3>1, <4>1, <4>2
      <4>3. CASE b \in 1 .. n
        BY <1>1, <2>2, <2>6, <3>2, <4>1, <4>3 DEF Sorts
      <4> QED BY <2>3, <4>2, <4>3
    <3> QED BY <2>2, <3>2 DEF Sorts
  <2> QED BY <1>5, <2>2, <2>5, <2>6 DEF m, l
<1> QED BY <1>3, <1>4, <1>5

\* What Overlay computes.
LEMMA OverlayUnfolds ==
  ASSUME NEW adds, Len(adds) \in Nat
  PROVE  \E f : /\ Overlay(adds) = f[Len(adds)]
                /\ \A n \in 0 .. Len(adds) :
                     f[n] = IF n = 0 \/ adds[n] = <<>> THEN NewOverlay
                            ELSE OverlayAdd(f[n - 1], adds[n][1], adds[n][2])
<1> DEFINE k == Len(adds)
           Step(f, n) == IF n = 0 \/ adds[n] = <<>> THEN NewOverlay
                         ELSE OverlayAdd(f[n - 1], adds[n][1], adds[n][2])
           overlay == CHOOSE f : f = [n \in 0 .. k |-> Step(f, n)]
<1>1. Overlay(adds) = overlay[k]
  BY DEF Overlay
<1> DEFINE S == {m \in Nat : \E f : \A n \in 0 .. m : f[n] = Step(f, n)}
<1>2. 0 \in S
  <2> DEFINE f == [n \in 0 .. 0 |-> NewOverlay]
  <2>1. \A n \in 0 .. 0 : f[n] = Step(f, n)
    OBVIOUS
  <2> QED BY <2>1
<1>3. ASSUME NEW m \in Nat, m \in S PROVE m + 1 \in S
  <2>1. PICK f : \A n \in 0 .. m : f[n] = Step(f, n)
    BY <1>3
  <2> DEFINE g == [n \in 0 .. m + 1 |-> IF n <= m THEN f[n] ELSE Step(f, n)]
  <2>2. \A n \in 0 .. m : g[n] = f[n] /\ n \in 0 .. m + 1
    OBVIOUS
  <2>3. g[m + 1] = Step(f, m + 1)
    <3> HIDE DEF Step
    <3> QED OBVIOUS
  <2> HIDE DEF g
  <2>4. ASSUME NEW n \in 0 .. m + 1 PROVE g[n] = Step(g, n)
    <3>1. Step(f, n) = Step(g, n)
      <4>1. CASE n = 0
        BY <4>1
      <4>2. CASE n # 0
        <5>1. n - 1 \in 0 .. m
          BY <4>2
        <5> QED BY <2>2, <4>2, <5>1
      <4> QED BY <4>1, <4>2
    <3> HIDE DEF Step
    <3>2. CASE n \in 0 .. m
      BY <2>1, <2>2, <3>1, <3>2
    <3>3. CASE n = m + 1
      BY <2>3, <3>1, <3>3
    <3> QED BY <3>2, <3>3
  <2> HIDE DEF Step
  <2> QED BY <2>4
<1>4. k \in S
  <2> HIDE DEF S
  <2> QED BY <1>2, <1>3, SetInduction
<1>5. PICK f : \A n \in 0 .. k : f[n] = Step(f, n)
  BY <1>4
<1>6. overlay = [n \in 0 .. k |-> Step(overlay, n)]
  <2> DEFINE g == [n \in 0 .. k |-> f[n]]
  <2>1. ASSUME NEW n \in 0 .. k PROVE f[n] = Step(g, n)
    <3>1. CASE n = 0
      BY <1>5, <3>1
    <3>2. CASE n # 0
      <4>1. n - 1 \in 0 .. k
        BY <3>2
      <4>2. g[n - 1] = f[n - 1]
        BY <4>1
      <4> QED BY <1>5, <3>2, <4>2
    <3> QED BY <3>1, <3>2
  <2>2. g = [n \in 0 .. k |-> Step(g, n)]
    <3>1. g = [n \in 0 .. k |-> f[n]]
      OBVIOUS
    <3> HIDE DEF g, Step
    <3> QED BY <2>1, <3>1
  <2> HIDE DEF g, Step
  <2> QED BY <2>2
<1>7. \A n \in 0 .. k : overlay[n] = Step(overlay, n)
  <2> HIDE DEF Step, overlay
  <2> QED BY <1>6
<1> HIDE DEF overlay
<1> QED BY <1>1, <1>7

\* What a Reset and an Add make live.
LEMMA LiveSteps ==
  ASSUME NEW adds, NEW n \in Nat
  PROVE  /\ Live(adds, 0) = {}
         /\ adds[n + 1] = <<>> => Live(adds, n + 1) = {}
         /\ adds[n + 1] # <<>> => Live(adds, n + 1) = Live(adds, n) \cup {n + 1}
<1>1. Live(adds, 0) = {}
  BY DEF Live
<1>2. ASSUME adds[n + 1] = <<>> PROVE Live(adds, n + 1) = {}
  <2>1. n + 1 \in 1 .. n + 1 /\ \A i \in 1 .. n + 1 : ~(n + 1 < i)
    OBVIOUS
  <2> QED BY <1>2, <2>1 DEF Live
<1>3. ASSUME adds[n + 1] # <<>> PROVE Live(adds, n + 1) = Live(adds, n) \cup {n + 1}
  <2>1. \A i \in 1 .. n + 1 : i \in 1 .. n \/ i = n + 1
    OBVIOUS
  <2>2. \A i \in 1 .. n : i \in 1 .. n + 1 /\ i < n + 1
    OBVIOUS
  <2>3. n + 1 \in 1 .. n + 1
    OBVIOUS
  <2>4. Live(adds, n + 1) \subseteq Live(adds, n) \cup {n + 1}
    BY <2>1, <2>2, Zenon DEF Live
  <2>5. Live(adds, n) \subseteq Live(adds, n + 1)
    BY <1>3, <2>1, <2>2, Zenon DEF Live
  <2>6. n + 1 \in Live(adds, n + 1)
    BY <1>3, <2>1, <2>2, <2>3, Zenon DEF Live
  <2> QED BY <2>4, <2>5, <2>6
<1> QED BY <1>1, <1>2, <1>3

\* The next of k calls.
LEMMA NextWithin ==
  ASSUME NEW k \in Nat, NEW n \in Nat, n + 1 <= k
  PROVE  n + 1 \in 1 .. k /\ n + 1 \in 0 .. k /\ n + 1 # 0 /\ (n + 1) - 1 = n /\ n <= k
OBVIOUS

\* The lists of an overlay: the numbers of the live calls whose texts have the
\* pair; ascending, if the numbers came in that order.
LEMMA OverlayLists ==
  ASSUME NEW adds \in AddSeqs, NEW g \in AllGrams
  PROVE  LET l == Overlay(adds).index[g]
             live == Live(adds, Len(adds))
         IN /\ l \in Seq(Int)
            /\ \A v : Has(l, v) <=> \E i \in live : adds[i][1] = v /\ g \in Grams(adds[i][2])
            /\ InSequence(adds, Len(adds)) => Sorts(l)
<1> DEFINE k == Len(adds)
<1>1. /\ k \in Nat
      /\ \A i \in 1 .. k : adds[i] # <<>> => adds[i][1] \in Int
  <2> DEFINE Add == Int \X Seq(DOMAIN Lower)
             None == {<<>>}
  <2>1. adds \in Seq(None \cup Add)
    BY DEF AddSeqs
  <2>2. \A a \in Add : a[1] \in Int
    OBVIOUS
  <2>3. \A a \in None : a = <<>>
    OBVIOUS
  <2> HIDE DEF Add, None
  <2>4. k \in Nat /\ \A i \in 1 .. k : adds[i] \in None \cup Add
    BY <2>1
  <2>5. k \in Nat
    BY <2>4
  <2> QED BY <2>2, <2>3, <2>4, <2>5
<1>2. PICK f : /\ Overlay(adds) = f[k]
               /\ \A n \in 0 .. k : f[n] = IF n = 0 \/ adds[n] = <<>> THEN NewOverlay
                                           ELSE OverlayAdd(f[n - 1], adds[n][1], adds[n][2])
  BY <1>1, OverlayUnfolds
<1> HIDE DEF k
<1>3. ASSUME NEW n \in Nat, n + 1 <= k
      PROVE  n + 1 \in 1 .. k /\ n + 1 \in 0 .. k /\ n + 1 # 0 /\ (n + 1) - 1 = n /\ n <= k
  <2>1. k \in Nat
    BY <1>1
  <2> QED BY <1>3, <2>1, NextWithin
<1> DEFINE l(n) == f[n].index[g]
           Right(n) == /\ g \in DOMAIN f[n].index /\ l(n) \in Seq(Int)
                       /\ \A v : Has(l(n), v) <=>
                            \E i \in Live(adds, n) : adds[i][1] = v /\ g \in Grams(adds[i][2])
                       /\ InSequence(adds, n) => Sorts(l(n))
           S == {n \in Nat : n <= k => Right(n)}
<1>4. ASSUME NEW n \in Nat, f[n] = NewOverlay, Live(adds, n) = {} PROVE Right(n)
  <2>1. g \in DOMAIN f[n].index /\ l(n) = <<>>
    BY <1>4 DEF NewOverlay, EmptyIndex
  <2> DEFINE m == l(n)
  <2>2. m = <<>> /\ g \in DOMAIN f[n].index
    BY <2>1
  <2> HIDE DEF m
  <2>3. m \in Seq(Int) /\ DOMAIN m = {}
    BY <2>2
  <2>4. Sorts(m) /\ \A v : ~Has(m, v)
    BY <2>3 DEF Sorts, Has
  <2> QED BY <1>4, <2>2, <2>3, <2>4 DEF m
<1>5. 0 \in S
  <2> HIDE DEF Right
  <2>1. 0 \in 0 .. k /\ Live(adds, 0) = {}
    BY <1>1 DEF Live
  <2>2. f[0] = NewOverlay
    BY <1>2, <2>1
  <2> QED BY <1>4, <2>1, <2>2
<1>6. ASSUME NEW n \in Nat, n \in S PROVE n + 1 \in S
  <2> SUFFICES ASSUME n + 1 <= k PROVE Right(n + 1)
    OBVIOUS
  <2>1. n + 1 \in 1 .. k /\ n + 1 \in 0 .. k /\ n + 1 # 0 /\ (n + 1) - 1 = n /\ n <= k
    <3> HIDE DEF S, Right
    <3> QED BY <1>3
  <2>2. Right(n)
    BY <1>6, <2>1
  <2>3. CASE adds[n + 1] = <<>>
    <3> HIDE DEF S, Right
    <3>1. f[n + 1] = NewOverlay
      BY <1>2, <2>1, <2>3, Zenon
    <3>2. Live(adds, n + 1) = {}
      BY <2>3, LiveSteps, Zenon
    <3>3. n + 1 \in Nat
      OBVIOUS
    <3> QED BY <1>4, <3>1, <3>2, <3>3
  <2>4. CASE adds[n + 1] # <<>>
    <3> DEFINE i == adds[n + 1][1]
               t == adds[n + 1][2]
    <3>1. f[n + 1] = OverlayAdd(f[n], i, t)
      BY <1>2, <2>1, <2>4
    <3>2. f[n + 1].index = AddTo(f[n].index, i, t)
      BY <3>1 DEF OverlayAdd
    <3>3. i \in Int
      BY <1>1, <2>1, <2>4
    <3>4. Live(adds, n + 1) = Live(adds, n) \cup {n + 1}
      BY <2>4, LiveSteps
    <3>5. g \in DOMAIN f[n + 1].index
      BY <2>2, <3>2 DEF AddTo
    <3> DEFINE a == l(n)
               b == l(n + 1)
    <3>6. /\ b \in Seq(Int)
          /\ \A v : Has(b, v) <=> Has(a, v) \/ (v = i /\ g \in Grams(t))
          /\ Sorts(a) /\ (\A v : Has(a, v) => v <= i) => Sorts(b)
      <4> DEFINE index == f[n].index
      <4>1. g \in DOMAIN index /\ index[g] \in Seq(Int) /\ a = index[g]
        BY <2>2
      <4>2. b = AddTo(index, i, t)[g]
        BY <3>2
      <4> HIDE DEF index, a, b, i, t
      <4> QED BY <3>3, <4>1, <4>2, AddToHas
    <3>7. /\ \A v : Has(a, v) <=>
               \E j \in Live(adds, n) : adds[j][1] = v /\ g \in Grams(adds[j][2])
          /\ InSequence(adds, n) => Sorts(a)
      BY <2>2
    <3> HIDE DEF a, b
    <3>8. \A v : Has(b, v) <=>
            \E j \in Live(adds, n + 1) : adds[j][1] = v /\ g \in Grams(adds[j][2])
      BY <3>4, <3>6, <3>7
    <3>9. ASSUME InSequence(adds, n + 1) PROVE Sorts(b)
      <4>1. \A j \in Live(adds, n) : j < n + 1
        BY DEF Live
      <4>2. InSequence(adds, n)
        BY <3>4, <3>9, Zenon DEF InSequence
      <4>3. \A j \in Live(adds, n) : adds[j][1] <= i
        BY <3>4, <3>9, <4>1 DEF InSequence
      <4>4. \A v : Has(a, v) => v <= i
        BY <3>7, <4>3
      <4> QED BY <3>6, <3>7, <4>2, <4>4
    <3> QED BY <3>5, <3>6, <3>8, <3>9 DEF b
  <2> QED BY <2>3, <2>4
<1>7. k \in S
  <2> HIDE DEF S
  <2> QED BY <1>1, <1>5, <1>6, SetInduction
<1>8. Right(k)
  BY <1>1, <1>7
<1> QED BY <1>2, <1>8 DEF k

\* An overlay offers only numbers under which every pair of the query was added
\* since the last Reset; and, if the numbers came in ascending order, every
\* number of a live path that has them all (BigramOverlay.Add, QueryCandidates).
THEOREM OverlayExact ==
  ASSUME NEW adds \in AddSeqs, NEW q \in Seq(DOMAIN Lower),
         OverlayOutcome(Overlay(adds), q).state # "unavailable"
  PROVE  LET c == OverlayOutcome(Overlay(adds), q).candidates
             live == Live(adds, Len(adds))
         IN /\ \A v : Has(c, v) => \A g \in QueryGrams(q) :
                 \E i \in live : adds[i][1] = v /\ g \in Grams(adds[i][2])
            /\ InSequence(adds, Len(adds)) =>
                 \A i \in live : QueryGrams(q) \subseteq Grams(adds[i][2]) => Has(c, adds[i][1])
<1> DEFINE o == Overlay(adds)
           c == OverlayOutcome(o, q).candidates
           live == Live(adds, Len(adds))
<1>1. OverlayOutcome(o, q) = CandidateOutcome(o.index, o.fileCount, q)
  BY DEF OverlayOutcome
<1>2. \A g \in QueryGrams(q) :
        /\ o.index[g] \in Seq(Int)
        /\ \A v : Has(o.index[g], v) <=>
             \E i \in live : adds[i][1] = v /\ g \in Grams(adds[i][2])
        /\ InSequence(adds, Len(adds)) => Sorts(o.index[g])
  BY QueryGramsType, OverlayLists
<1>3. OverlayOutcome(o, q).state # "unavailable"
  OBVIOUS
<1> HIDE DEF o
<1>4. /\ \A v : Has(c, v) => \A g \in QueryGrams(q) : Has(o.index[g], v)
      /\ (\A g \in QueryGrams(q) : Sorts(o.index[g])) =>
           \A v : (\A g \in QueryGrams(q) : Has(o.index[g], v)) => Has(c, v)
  <2> DEFINE out == CandidateOutcome(o.index, o.fileCount, q)
  <2>1. \A g \in QueryGrams(q) : o.index[g] \in Seq(Int)
    BY <1>2
  <2>2. out.state # "unavailable" =>
          /\ \A v : Has(out.candidates, v) => \A g \in QueryGrams(q) : Has(o.index[g], v)
          /\ (\A g \in QueryGrams(q) : Sorts(o.index[g])) =>
               \A v : (\A g \in QueryGrams(q) : Has(o.index[g], v)) => Has(out.candidates, v)
    BY <2>1, OutcomeHas
  <2>3. out.state # "unavailable" /\ c = out.candidates
    BY <1>1, <1>3
  <2> HIDE DEF out, c
  <2> QED BY <2>2, <2>3
<1> HIDE DEF c, live
<1>5. ASSUME NEW v, Has(c, v), NEW g \in QueryGrams(q)
      PROVE  \E i \in live : adds[i][1] = v /\ g \in Grams(adds[i][2])
  <2>1. Has(o.index[g], v)
    BY <1>4, <1>5
  <2>2. \A w : Has(o.index[g], w) <=>
          \E i \in live : adds[i][1] = w /\ g \in Grams(adds[i][2])
    BY <1>2, Zenon
  <2> QED BY <2>1, <2>2, Zenon
<1>6. ASSUME InSequence(adds, Len(adds)), NEW i \in live, QueryGrams(q) \subseteq Grams(adds[i][2])
      PROVE  Has(c, adds[i][1])
  <2>1. \A g \in QueryGrams(q) : Sorts(o.index[g]) /\ Has(o.index[g], adds[i][1])
    BY <1>2, <1>6
  <2> QED BY <1>4, <2>1
<1> QED BY <1>5, <1>6 DEF c, live, o
==============================================================================
