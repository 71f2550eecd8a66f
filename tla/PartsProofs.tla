----------------------------- MODULE PartsProofs -----------------------------
(****************************************************************************)
(* Theorems about the store of paths (Arena), the directory score (DirItem) *)
(* and their module Parts, for any number of goroutines, calls, paths and   *)
(* scores, and any input of the algorithms.                                 *)
(****************************************************************************)
EXTENDS Parts, BigramProofs

\* The map and the list are inverse to each other, and every number given is
\* the one the map holds.  A path once in the map keeps its number.
ArenaTypes ==
  /\ strings \in Seq(Paths)
  /\ pending \in [Threads -> Paths \cup {NoPath}]
  /\ given \in [Threads -> Seq(Paths \X Nat)]

MapInv ==
  /\ \A path \in DOMAIN intern : /\ intern[path] \in Nat /\ intern[path] + 1 \in 1 .. Len(strings)
                                 /\ strings[intern[path] + 1] = path
  /\ \A i \in 1 .. Len(strings) : strings[i] \in DOMAIN intern /\ intern[strings[i]] + 1 = i

Held(number, calls) ==
  \A k \in 1 .. Len(calls) : /\ calls[k][1] \in DOMAIN number
                             /\ number[calls[k][1]] = calls[k][2]
GivenInv == \A t \in Threads : Held(intern, given[t])

ArenaInv == ArenaTypes /\ MapInv /\ GivenInv

\* What a call appends to the history of its thread keeps the last part.
LEMMA GiveKeeps ==
  ASSUME ArenaTypes, NEW t \in Threads, NEW path \in Paths, NEW n \in Nat, Give(t, path, n),
         path \in DOMAIN intern', intern'[path] = n,
         \A s \in Threads : Held(intern', given[s])
  PROVE  given' \in [Threads -> Seq(Paths \X Nat)] /\ GivenInv'
<1> DEFINE call == <<path, n>>
<1>1. /\ call \in Paths \X Nat /\ call[1] = path /\ call[2] = n
      /\ given' = [given EXCEPT ![t] = Append(given[t], call)]
  BY DEF Give
<1> HIDE DEF call
<1>2. given' \in [Threads -> Seq(Paths \X Nat)]
  BY <1>1 DEF ArenaTypes
<1>3. ASSUME NEW s \in Threads PROVE Held(intern', given'[s])
  <2>1. CASE s # t
    BY <1>1, <2>1 DEF ArenaTypes
  <2>2. CASE s = t
    <3>1. given'[s] = Append(given[s], call) /\ given[s] \in Seq(Paths \X Nat)
      BY <1>1, <2>2 DEF ArenaTypes
    <3>2. ASSUME NEW k \in 1 .. Len(given'[s])
          PROVE  given'[s][k][1] \in DOMAIN intern' /\ intern'[given'[s][k][1]] = given'[s][k][2]
      <4>1. CASE k = Len(given[s]) + 1
        BY <1>1, <3>1, <4>1
      <4>2. CASE k \in 1 .. Len(given[s])
        <5>1. given'[s][k] = given[s][k]
          BY <3>1, <4>2
        <5> QED BY <4>2, <5>1 DEF Held
      <4> QED BY <1>1, <3>1, <4>1, <4>2
    <3> QED BY <3>2 DEF Held
  <2> QED BY <2>1, <2>2
<1> QED BY <1>2, <1>3 DEF GivenInv

\* An empty store satisfies the invariant.
LEMMA ArenaInitInv == ArenaInit => ArenaInv
<1> SUFFICES ASSUME ArenaInit PROVE ArenaInv
  OBVIOUS
<1>1. ArenaTypes
  BY DEF ArenaInit, ArenaTypes
<1>2. DOMAIN intern = {} /\ 1 .. Len(strings) = {}
  BY DEF ArenaInit
<1>3. MapInv
  BY <1>2 DEF MapInv
<1>4. ASSUME NEW t \in Threads PROVE 1 .. Len(given[t]) = {}
  <2>1. given[t] = <<>>
    BY DEF ArenaInit
  <2> QED BY <2>1
<1> QED BY <1>1, <1>3, <1>4 DEF ArenaInv, GivenInv, Held

\* A call that finds its path changes nothing but the history.
LEMMA FoundKeeps ==
  ASSUME ArenaInv, NEW t \in Threads, NEW path \in Paths, path \in DOMAIN intern,
         Give(t, path, intern[path]), UNCHANGED <<strings, intern>>,
         pending' \in [Threads -> Paths \cup {NoPath}]
  PROVE  ArenaInv'
<1>1. intern[path] \in Nat
  BY DEF ArenaInv, MapInv
<1>2. ArenaTypes /\ \A s \in Threads : Held(intern', given[s])
  BY DEF ArenaInv, GivenInv
<1>3. given' \in [Threads -> Seq(Paths \X Nat)] /\ GivenInv'
  BY <1>1, <1>2, GiveKeeps
<1>4. MapInv'
  BY DEF ArenaInv, MapInv
<1>5. ArenaTypes'
  BY <1>3 DEF ArenaInv, ArenaTypes
<1> QED BY <1>3, <1>4, <1>5 DEF ArenaInv

\* Both sections of Intern preserve it.
LEMMA ArenaStep == ArenaInv /\ [ArenaNext]_arenaVars => ArenaInv'
<1> SUFFICES ASSUME ArenaInv, [ArenaNext]_arenaVars PROVE ArenaInv'
  OBVIOUS
<1>1. ASSUME NEW t \in Threads, NEW path \in Paths, Intern(t, path) PROVE ArenaInv'
  <2>1. CASE path \in DOMAIN intern
    <3>1. Give(t, path, intern[path]) /\ UNCHANGED <<strings, intern, pending>>
      BY <1>1, <2>1 DEF Intern
    <3>2. pending' \in [Threads -> Paths \cup {NoPath}]
      BY <3>1 DEF ArenaInv, ArenaTypes
    <3> QED BY <2>1, <3>1, <3>2, FoundKeeps
  <2>2. CASE path \notin DOMAIN intern
    <3>1. pending' = [pending EXCEPT ![t] = path] /\ UNCHANGED <<strings, intern, given>>
      BY <1>1, <2>2 DEF Intern
    <3>2. ArenaTypes'
      BY <3>1 DEF ArenaInv, ArenaTypes
    <3>3. MapInv' /\ GivenInv'
      BY <3>1 DEF ArenaInv, MapInv, GivenInv, Held
    <3> QED BY <3>2, <3>3 DEF ArenaInv
  <2> QED BY <2>1, <2>2
<1>2. ASSUME NEW t \in Threads, InternLocked(t) PROVE ArenaInv'
  <2> DEFINE path == pending[t]
  <2>1. path \in Paths /\ pending' \in [Threads -> Paths \cup {NoPath}]
    BY <1>2 DEF InternLocked, ArenaInv, ArenaTypes
  <2>2. CASE path \in DOMAIN intern
    <3>1. Give(t, path, intern[path]) /\ UNCHANGED <<strings, intern>>
      BY <1>2, <2>2 DEF InternLocked
    <3> QED BY <2>1, <2>2, <3>1, FoundKeeps
  <2>3. CASE path \notin DOMAIN intern
    <3>1. /\ strings' = Append(strings, path)
          /\ intern' = Numbered(path)
          /\ Give(t, path, Len(strings))
      BY <1>2, <2>3 DEF InternLocked
    <3> HIDE DEF path
    <3>2. /\ DOMAIN intern' = DOMAIN intern \cup {path}
          /\ intern'[path] = Len(strings)
          /\ \A p \in DOMAIN intern : intern'[p] = intern[p]
      BY <2>3, <3>1 DEF Numbered
    <3>3. /\ strings' \in Seq(Paths) /\ Len(strings') = Len(strings) + 1
          /\ strings'[Len(strings) + 1] = path
          /\ \A i \in 1 .. Len(strings) : strings'[i] = strings[i]
          /\ Len(strings) \in Nat
      BY <2>1, <3>1 DEF ArenaInv, ArenaTypes
    <3>4. ASSUME NEW s \in Threads PROVE Held(intern', given[s])
      <4>1. Held(intern, given[s])
        BY DEF ArenaInv, GivenInv
      <4> QED BY <3>2, <4>1 DEF Held
    <3>5. given' \in [Threads -> Seq(Paths \X Nat)] /\ GivenInv'
      BY <2>1, <3>1, <3>2, <3>3, <3>4, GiveKeeps DEF ArenaInv
    <3>6. \A p \in DOMAIN intern' : /\ intern'[p] \in Nat /\ intern'[p] + 1 \in 1 .. Len(strings')
                                    /\ strings'[intern'[p] + 1] = p
      BY <3>2, <3>3 DEF ArenaInv, MapInv
    <3>7. ASSUME NEW i \in 1 .. Len(strings')
          PROVE  strings'[i] \in DOMAIN intern' /\ intern'[strings'[i]] + 1 = i
      <4>1. CASE i = Len(strings) + 1
        BY <3>2, <3>3, <4>1
      <4>2. CASE i \in 1 .. Len(strings)
        BY <3>2, <3>3, <4>2 DEF ArenaInv, MapInv
      <4> QED BY <3>3, <4>1, <4>2
    <3>8. ArenaTypes'
      BY <2>1, <3>3, <3>5 DEF ArenaTypes
    <3>9. MapInv'
      BY <3>6, <3>7 DEF MapInv
    <3> QED BY <3>5, <3>8, <3>9 DEF ArenaInv
  <2> QED BY <2>2, <2>3
<1>3. ASSUME UNCHANGED arenaVars PROVE ArenaInv'
  BY <1>3 DEF ArenaInv, ArenaTypes, MapInv, GivenInv, Held, arenaVars
<1> QED BY <1>1, <1>2, <1>3 DEF ArenaNext

\* It says what callers rely on.
LEMMA ArenaInvInterned == ArenaInv => Interned
<1> SUFFICES ASSUME ArenaInv PROVE Interned
  OBVIOUS
<1>1. ASSUME NEW t \in Threads, NEW k \in DOMAIN given[t]
      PROVE  LET path == given[t][k][1]  n == given[t][k][2]
             IN Get(n) = path /\ path \in DOMAIN intern /\ intern[path] = n
  <2> DEFINE path == given[t][k][1]
  <2>1. k \in 1 .. Len(given[t]) /\ Len(strings) \in Nat
    BY <1>1 DEF ArenaInv, ArenaTypes
  <2>2. path \in DOMAIN intern /\ intern[path] = given[t][k][2]
    BY <2>1 DEF ArenaInv, GivenInv, Held
  <2> HIDE DEF path
  <2>3. Get(intern[path]) = path
    <3>1. intern[path] \in Nat /\ intern[path] + 1 \in 1 .. Len(strings) /\ strings[intern[path] + 1] = path
      BY <2>2 DEF ArenaInv, MapInv
    <3>2. ~(intern[path] >= Len(strings))
      BY <2>1, <3>1
    <3> QED BY <3>1, <3>2 DEF Get
  <2>4. Get(given[t][k][2]) = path
    BY <2>2, <2>3, Zenon
  <2> QED BY <2>2, <2>4, Zenon DEF path
<1>2. ASSUME NEW i \in DOMAIN strings, NEW j \in DOMAIN strings, strings[i] = strings[j]
      PROVE  i = j
  <2>1. i \in 1 .. Len(strings) /\ j \in 1 .. Len(strings)
    BY <1>2 DEF ArenaInv, ArenaTypes
  <2> QED BY <1>2, <2>1 DEF ArenaInv, MapInv
<1> QED BY <1>1, <1>2 DEF Interned

\* However calls of Intern overlap, one path has one number and reads back as
\* itself (PathArena.Intern, PathArena.Get).
THEOREM InternedHolds == ArenaSpec => []Interned
<1> QED BY ArenaInitInv, ArenaStep, ArenaInvInterned, PTL DEF ArenaSpec

------------------------------------------------------------------------------
\* A goroutine that is about to swap offers more than it has loaded, and the
\* maximum has been offered by a call that has returned.
DirTypes ==
  /\ maxAccessFrecency \in Int
  /\ offer \in [Raisers -> Int] /\ loaded \in [Raisers -> Int]
  /\ raised \in [Raisers -> Seq(Int)]

StageInv ==
  /\ stage \in [Raisers -> {"idle", "load", "swap"}]
  /\ \A g \in Raisers : stage[g] = "swap" => loaded[g] < offer[g]

MaxInv ==
  /\ \A g \in Raisers : \A i \in 1 .. Len(raised[g]) : raised[g][i] <= maxAccessFrecency
  /\ maxAccessFrecency = 0
     \/ \E g \in Raisers : \E i \in 1 .. Len(raised[g]) : raised[g][i] = maxAccessFrecency

DirInv == DirTypes /\ StageInv /\ MaxInv

\* The calls that have returned, after another one has.
LEMMA FinishAdds ==
  ASSUME raised \in [Raisers -> Seq(Int)], offer \in [Raisers -> Int],
         NEW g \in Raisers, Finish(g)
  PROVE  /\ raised' \in [Raisers -> Seq(Int)]
         /\ Len(raised'[g]) = Len(raised[g]) + 1 /\ Len(raised[g]) \in Nat
         /\ raised'[g][Len(raised[g]) + 1] = offer[g]
         /\ \A i \in 1 .. Len(raised[g]) : raised'[g][i] = raised[g][i]
         /\ \A h \in Raisers \ {g} : raised'[h] = raised[h]
<1>1. raised' = [raised EXCEPT ![g] = Append(raised[g], offer[g])]
  BY DEF Finish
<1>2. raised[g] \in Seq(Int) /\ offer[g] \in Int
  OBVIOUS
<1> QED BY <1>1, <1>2

\* Before the first call the invariant holds.
LEMMA DirInitInv == DirInit => DirInv
<1> SUFFICES ASSUME DirInit PROVE DirInv
  OBVIOUS
<1>1. StageInv
  BY DEF DirInit, StageInv
<1>2. /\ maxAccessFrecency = 0 /\ raised = [g \in Raisers |-> <<>>]
      /\ offer = [g \in Raisers |-> 0] /\ loaded = [g \in Raisers |-> 0]
  BY DEF DirInit
<1>3. DirTypes /\ MaxInv
  BY <1>2 DEF DirTypes, MaxInv
<1> QED BY <1>1, <1>3 DEF DirInv

\* A call that returns without changing the maximum.
LEMMA FinishBelow ==
  ASSUME DirTypes, MaxInv, NEW g \in Raisers, Finish(g), offer[g] <= maxAccessFrecency,
         UNCHANGED maxAccessFrecency
  PROVE  MaxInv'
<1>1. ASSUME NEW h \in Raisers, NEW i \in 1 .. Len(raised'[h])
      PROVE  raised'[h][i] <= maxAccessFrecency
  <2>1. CASE h # g
    BY <1>1, <2>1, FinishAdds DEF DirTypes, MaxInv
  <2>2. CASE h = g /\ i \in 1 .. Len(raised[g])
    BY <2>2, FinishAdds DEF DirTypes, MaxInv
  <2>3. CASE h = g /\ i = Len(raised[g]) + 1
    BY <2>3, FinishAdds DEF DirTypes
  <2> QED BY <1>1, <2>1, <2>2, <2>3, FinishAdds DEF DirTypes
<1>2. ASSUME NEW h \in Raisers, NEW i \in 1 .. Len(raised[h])
      PROVE  i \in 1 .. Len(raised'[h]) /\ raised'[h][i] = raised[h][i]
  <2>1. CASE h # g
    BY <1>2, <2>1, FinishAdds DEF DirTypes
  <2>2. CASE h = g
    BY <1>2, <2>2, FinishAdds DEF DirTypes
  <2> QED BY <2>1, <2>2
<1> QED BY <1>1, <1>2 DEF MaxInv

\* A call that returns after it has raised the maximum to its own score.
LEMMA FinishAbove ==
  ASSUME DirTypes, MaxInv, NEW g \in Raisers, Finish(g), maxAccessFrecency < offer[g],
         maxAccessFrecency' = offer[g]
  PROVE  MaxInv'
<1>1. ASSUME NEW h \in Raisers, NEW i \in 1 .. Len(raised[h])
      PROVE  raised[h][i] <= offer[g]
  <2>1. raised[h] \in Seq(Int) /\ raised[h][i] \in Int /\ offer[g] \in Int
    BY <1>1 DEF DirTypes
  <2>2. raised[h][i] <= maxAccessFrecency /\ maxAccessFrecency \in Int
    BY <1>1 DEF DirTypes, MaxInv
  <2> QED BY <2>1, <2>2
<1>2. ASSUME NEW h \in Raisers, NEW i \in 1 .. Len(raised'[h])
      PROVE  raised'[h][i] <= offer[g]
  <2>1. CASE h # g
    BY <1>1, <1>2, <2>1, FinishAdds DEF DirTypes
  <2>2. CASE h = g /\ i \in 1 .. Len(raised[g])
    BY <1>1, <2>2, FinishAdds DEF DirTypes
  <2>3. CASE h = g /\ i = Len(raised[g]) + 1
    BY <2>3, FinishAdds DEF DirTypes
  <2> QED BY <1>2, <2>1, <2>2, <2>3, FinishAdds DEF DirTypes
<1>3. /\ Len(raised[g]) + 1 \in 1 .. Len(raised'[g])
      /\ raised'[g][Len(raised[g]) + 1] = offer[g]
  BY FinishAdds DEF DirTypes
<1> QED BY <1>2, <1>3 DEF MaxInv

\* A call, its load and its swap preserve it.
LEMMA DirStep == DirInv /\ [DirNext]_dirVars => DirInv'
<1> SUFFICES ASSUME DirInv, [DirNext]_dirVars PROVE DirInv'
  OBVIOUS
<1> USE DEF DirInv
<1>1. ASSUME NEW g \in Raisers, NEW v \in Scores, UpdateFrecencyIfLarger(g, v) PROVE DirInv'
  <2>1. offer' = [offer EXCEPT ![g] = v] /\ UNCHANGED <<maxAccessFrecency, loaded, raised>> /\ v \in Int
    BY <1>1, ScoresAssumption DEF UpdateFrecencyIfLarger
  <2>2. DirTypes' /\ MaxInv'
    BY <2>1 DEF DirTypes, MaxInv
  <2>3. StageInv'
    BY <1>1, <2>1 DEF UpdateFrecencyIfLarger, At, DirTypes, StageInv
  <2> QED BY <2>2, <2>3
<1>2. ASSUME NEW g \in Raisers, Load(g) PROVE DirInv'
  <2>1. loaded' = [loaded EXCEPT ![g] = maxAccessFrecency] /\ UNCHANGED <<maxAccessFrecency, offer>>
    BY <1>2 DEF Load
  <2>2. CASE offer[g] <= maxAccessFrecency
    <3>1. Finish(g) /\ At(g, "load", "idle")
      BY <1>2, <2>2 DEF Load
    <3>2. MaxInv'
      BY <2>1, <2>2, <3>1, FinishBelow
    <3>3. raised' \in [Raisers -> Seq(Int)]
      BY <3>1, FinishAdds DEF DirTypes
    <3>4. DirTypes'
      BY <2>1, <3>3 DEF DirTypes
    <3>5. StageInv'
      BY <2>1, <3>1 DEF At, DirTypes, StageInv
    <3> QED BY <3>2, <3>4, <3>5
  <2>3. CASE ~(offer[g] <= maxAccessFrecency)
    <3>1. At(g, "load", "swap") /\ UNCHANGED raised
      BY <1>2, <2>3 DEF Load
    <3>2. DirTypes' /\ MaxInv'
      BY <2>1, <3>1 DEF DirTypes, MaxInv
    <3>3. StageInv'
      BY <2>1, <2>3, <3>1 DEF At, DirTypes, StageInv
    <3> QED BY <3>2, <3>3
  <2> QED BY <2>2, <2>3
<1>3. ASSUME NEW g \in Raisers, CompareAndSwap(g) PROVE DirInv'
  <2>1. UNCHANGED <<offer, loaded>>
    BY <1>3 DEF CompareAndSwap
  <2>2. CASE maxAccessFrecency = loaded[g]
    <3>1. Finish(g) /\ At(g, "swap", "idle") /\ maxAccessFrecency' = offer[g]
      BY <1>3, <2>2 DEF CompareAndSwap
    <3>2. maxAccessFrecency < offer[g]
      BY <2>2, <3>1 DEF At, StageInv
    <3>3. MaxInv'
      BY <3>1, <3>2, FinishAbove
    <3>4. raised' \in [Raisers -> Seq(Int)]
      BY <3>1, FinishAdds DEF DirTypes
    <3>5. DirTypes'
      BY <2>1, <3>1, <3>4 DEF DirTypes
    <3>6. StageInv'
      BY <2>1, <3>1 DEF At, DirTypes, StageInv
    <3> QED BY <3>3, <3>5, <3>6
  <2>3. CASE maxAccessFrecency # loaded[g]
    <3>1. At(g, "swap", "load") /\ UNCHANGED <<maxAccessFrecency, raised>>
      BY <1>3, <2>3 DEF CompareAndSwap
    <3>2. DirTypes' /\ MaxInv'
      BY <2>1, <3>1 DEF DirTypes, MaxInv
    <3>3. StageInv'
      BY <2>1, <3>1 DEF At, DirTypes, StageInv
    <3> QED BY <3>2, <3>3
  <2> QED BY <2>2, <2>3
<1>4. ASSUME UNCHANGED dirVars PROVE DirInv'
  BY <1>4 DEF DirTypes, StageInv, MaxInv, dirVars
<1> QED BY <1>1, <1>2, <1>3, <1>4 DEF DirNext

\* It says that nothing offered by a finished call exceeds the maximum.
LEMMA DirInvHighest == DirInv => Highest
<1> SUFFICES ASSUME DirInv PROVE Highest
  OBVIOUS
<1>1. \A g \in Raisers : DOMAIN raised[g] = 1 .. Len(raised[g])
  BY DEF DirInv, DirTypes
<1>2. maxAccessFrecency # 0 => \E g \in Raisers : maxAccessFrecency \in Range(raised[g])
  BY <1>1 DEF DirInv, MaxInv, Range
<1>3. maxAccessFrecency \in {0} \cup UNION {Range(raised[g]) : g \in Raisers}
  BY <1>2
<1> QED BY <1>1, <1>3 DEF DirInv, MaxInv, Highest

\* No raise of a directory's score is lost, whichever goroutines come between
\* its load and its swap (DirItem.UpdateFrecencyIfLarger).
THEOREM HighestHolds == DirSpec => []Highest
<1> QED BY DirInitInv, DirStep, DirInvHighest, PTL DEF DirSpec

------------------------------------------------------------------------------
(****************************************************************************)
(* Globs: matchGlobSegments.                                                *)
(****************************************************************************)

\* Part k takes up the levels from end[k - 1] to end[k].
Fits(parts, path, end, k) ==
  IF parts[k] = AnyDepth THEN end[k] >= end[k - 1]
  ELSE end[k] = end[k - 1] + 1 /\ <<parts[k], path[end[k]]>> \in Match

\* The parts from the i-th one on can be laid along the levels from the j-th on.
Rest(parts, path, i, j) ==
  \E end \in [i - 1 .. Len(parts) -> 0 .. Len(path)] :
    /\ end[i - 1] = j - 1 /\ end[Len(parts)] = Len(path)
    /\ \A k \in i .. Len(parts) : Fits(parts, path, end, k)

\* A layout without its first part.
LEMMA RestDrop ==
  ASSUME NEW parts, NEW path, Len(parts) \in Nat, Len(path) \in Nat,
         NEW i \in 1 .. Len(parts), NEW end \in [i - 1 .. Len(parts) -> 0 .. Len(path)],
         end[Len(parts)] = Len(path), \A k \in i .. Len(parts) : Fits(parts, path, end, k)
  PROVE  Rest(parts, path, i + 1, end[i] + 1)
<1> DEFINE n == Len(parts)
           m == Len(path)
           e == [x \in i .. n |-> end[x]]
<1>1. i \in i - 1 .. n /\ i \in i .. n /\ n \in i .. n /\ (i + 1) - 1 = i
      /\ \A x \in i .. n : x \in i - 1 .. n
  OBVIOUS
<1>2. end[i] \in 0 .. m /\ (end[i] + 1) - 1 = end[i]
  BY <1>1
<1>3. e \in [(i + 1) - 1 .. n -> 0 .. m] /\ e[(i + 1) - 1] = (end[i] + 1) - 1 /\ e[n] = m
  BY <1>1, <1>2
<1>4. ASSUME NEW k \in i + 1 .. n PROVE Fits(parts, path, e, k)
  <2>1. k \in i .. n /\ k - 1 \in i .. n
    OBVIOUS
  <2>2. e[k] = end[k] /\ e[k - 1] = end[k - 1] /\ Fits(parts, path, end, k)
    BY <2>1
  <2> HIDE DEF e
  <2> QED BY <2>2 DEF Fits
<1> HIDE DEF e
<1> QED BY <1>3, <1>4 DEF Rest

\* A layout with one more part in front.
LEMMA RestAdd ==
  ASSUME NEW parts, NEW path, Len(parts) \in Nat, Len(path) \in Nat,
         NEW i \in 1 .. Len(parts), NEW j \in 1 .. Len(path) + 1, NEW k \in 1 .. Len(path) + 1,
         Rest(parts, path, i + 1, k),
         IF parts[i] = AnyDepth THEN j <= k ELSE k = j + 1 /\ <<parts[i], path[j]>> \in Match
  PROVE  Rest(parts, path, i, j)
<1> DEFINE n == Len(parts)
           m == Len(path)
<1>1. PICK e \in [(i + 1) - 1 .. n -> 0 .. m] :
        /\ e[(i + 1) - 1] = k - 1 /\ e[n] = m
        /\ \A x \in i + 1 .. n : Fits(parts, path, e, x)
  BY DEF Rest
<1>2. /\ (i + 1) - 1 = i /\ i - 1 \in i - 1 .. n /\ n # i - 1 /\ n \in i .. n
      /\ \A x \in i .. n : x # i - 1 /\ x \in i - 1 .. n
      /\ \A x \in i - 1 .. n : x = i - 1 \/ x \in i .. n
  OBVIOUS
<1>3. j - 1 \in 0 .. m
  OBVIOUS
<1> DEFINE end == [x \in i - 1 .. n |-> IF x = i - 1 THEN j - 1 ELSE e[x]]
<1>4. end \in [i - 1 .. n -> 0 .. m]
  BY <1>1, <1>2, <1>3
<1>5. end[i - 1] = j - 1 /\ \A x \in i .. n : end[x] = e[x]
  BY <1>2
<1>6. end[n] = m /\ end[i] = k - 1
  BY <1>1, <1>2, <1>5
<1> HIDE DEF end
<1>7. Fits(parts, path, end, i)
  <2>1. CASE parts[i] = AnyDepth
    <3>1. j <= k
      BY <2>1
    <3>2. end[i] >= end[i - 1]
      BY <1>5, <1>6, <3>1
    <3> QED BY <2>1, <3>2 DEF Fits
  <2>2. CASE parts[i] # AnyDepth
    <3>1. k - 1 = j /\ j = (j - 1) + 1 /\ <<parts[i], path[j]>> \in Match
      BY <2>2
    <3>2. end[i] = end[i - 1] + 1 /\ <<parts[i], path[end[i]]>> \in Match
      BY <1>5, <1>6, <3>1
    <3> QED BY <2>2, <3>2 DEF Fits
  <2> QED BY <2>1, <2>2
<1>8. ASSUME NEW x \in i + 1 .. n PROVE Fits(parts, path, end, x)
  <2>1. x \in i .. n /\ x - 1 \in i .. n
    OBVIOUS
  <2>2. end[x] = e[x] /\ end[x - 1] = e[x - 1] /\ Fits(parts, path, e, x)
    BY <1>1, <1>5, <2>1
  <2> QED BY <2>2 DEF Fits
<1>9. \A x \in i .. n : x = i \/ x \in i + 1 .. n
  OBVIOUS
<1> QED BY <1>4, <1>5, <1>6, <1>7, <1>8, <1>9 DEF Rest

\* One step of the matcher.
Levels(path) == 1 .. Len(path) + 1
Places(parts, path) == (1 .. Len(parts) + 1) \X Levels(path)
MatchStep(parts, path, f, i, j) ==
  IF i > Len(parts) THEN j > Len(path)
  ELSE IF parts[i] = AnyDepth THEN \E k \in j .. Len(path) + 1 : f[<<i + 1, k>>]
  ELSE j <= Len(path) /\ <<parts[i], path[j]>> \in Match /\ f[<<i + 1, j + 1>>]

\* Given what can be laid of the later parts, it says what can be laid from here.
LEMMA RestUnfolds ==
  ASSUME NEW parts, NEW path, Len(parts) \in Nat, Len(path) \in Nat,
         NEW i \in 1 .. Len(parts) + 1, NEW j \in Levels(path), NEW f,
         \A k \in Levels(path) : i <= Len(parts) => (f[<<i + 1, k>>] <=> Rest(parts, path, i + 1, k))
  PROVE  Rest(parts, path, i, j) <=> MatchStep(parts, path, f, i, j)
<1> DEFINE n == Len(parts)
           m == Len(path)
<1> USE DEF Levels
<1>1. CASE i > n
  <2>1. i - 1 = n /\ i - 1 .. n = {n} /\ i .. n = {} /\ n \in {n}
    BY <1>1
  <2>2. ASSUME Rest(parts, path, i, j) PROVE j > m
    BY <2>1, <2>2 DEF Rest
  <2>3. ASSUME j > m PROVE Rest(parts, path, i, j)
    <3> DEFINE end == [x \in {n} |-> m]
    <3>1. j - 1 = m /\ m \in 0 .. m
      BY <2>3
    <3>2. end \in [i - 1 .. n -> 0 .. m] /\ end[n] = m
      BY <2>1, <3>1
    <3> HIDE DEF end
    <3> QED BY <2>1, <3>1, <3>2 DEF Rest
  <2> QED BY <1>1, <2>2, <2>3 DEF MatchStep
<1>2. CASE i <= n
  <2>1. i \in 1 .. n /\ ~(i > n)
    BY <1>2
  <2>2. ASSUME Rest(parts, path, i, j) PROVE MatchStep(parts, path, f, i, j)
    <3>1. PICK end \in [i - 1 .. n -> 0 .. m] :
            /\ end[i - 1] = j - 1 /\ end[n] = m
            /\ \A k \in i .. n : Fits(parts, path, end, k)
      BY <2>2 DEF Rest
    <3>2. Rest(parts, path, i + 1, end[i] + 1)
      BY <2>1, <3>1, RestDrop
    <3>3. end[i] \in 0 .. m /\ end[i] + 1 \in 1 .. m + 1
      BY <2>1, <3>1
    <3>4. f[<<i + 1, end[i] + 1>>]
      BY <1>2, <3>2, <3>3
    <3>5. Fits(parts, path, end, i)
      BY <2>1, <3>1
    <3>6. CASE parts[i] = AnyDepth
      <4>1. end[i] + 1 \in j .. m + 1
        BY <3>1, <3>3, <3>5, <3>6 DEF Fits
      <4> QED BY <2>1, <3>4, <3>6, <4>1 DEF MatchStep
    <3>7. CASE parts[i] # AnyDepth
      <4>1. end[i] = j /\ j <= m /\ <<parts[i], path[j]>> \in Match
        BY <3>1, <3>3, <3>5, <3>7 DEF Fits
      <4> QED BY <2>1, <3>4, <3>7, <4>1 DEF MatchStep
    <3> QED BY <3>6, <3>7
  <2>3. ASSUME MatchStep(parts, path, f, i, j) PROVE Rest(parts, path, i, j)
    <3>1. CASE parts[i] = AnyDepth
      <4>1. PICK k \in j .. m + 1 : f[<<i + 1, k>>]
        BY <2>1, <2>3, <3>1 DEF MatchStep
      <4>2. k \in 1 .. m + 1 /\ j <= k
        OBVIOUS
      <4> QED BY <1>2, <2>1, <3>1, <4>1, <4>2, RestAdd
    <3>2. CASE parts[i] # AnyDepth
      <4>1. j <= m /\ <<parts[i], path[j]>> \in Match /\ f[<<i + 1, j + 1>>]
        BY <2>1, <2>3, <3>2 DEF MatchStep
      <4>2. j + 1 \in 1 .. m + 1
        BY <4>1
      <4> QED BY <1>2, <2>1, <3>2, <4>1, <4>2, RestAdd
    <3> QED BY <3>1, <3>2
  <2> QED BY <2>2, <2>3 DEF MatchStep
<1> QED BY <1>1, <1>2

\* It says yes or no, whatever is remembered of the later parts.
LEMMA MatchStepBoolean ==
  ASSUME NEW parts, NEW path, Len(parts) \in Nat, Len(path) \in Nat,
         NEW f, NEW i \in 1 .. Len(parts) + 1, NEW j \in Levels(path)
  PROVE  MatchStep(parts, path, f, i, j) \in BOOLEAN
<1>1. (j > Len(path)) \in BOOLEAN
  BY DEF Levels
<1>2. (\E k \in j .. Len(path) + 1 : f[<<i + 1, k>>]) \in BOOLEAN
  BY Zenon
<1>3. (j <= Len(path) /\ <<parts[i], path[j]>> \in Match /\ f[<<i + 1, j + 1>>]) \in BOOLEAN
  BY Zenon
<1>4. CASE i > Len(parts)
  <2>1. MatchStep(parts, path, f, i, j) = (j > Len(path))
    BY <1>4, Zenon DEF MatchStep
  <2> QED BY <1>1, <2>1
<1>5. CASE ~(i > Len(parts)) /\ parts[i] = AnyDepth
  <2>1. MatchStep(parts, path, f, i, j) = (\E k \in j .. Len(path) + 1 : f[<<i + 1, k>>])
    BY <1>5, Zenon DEF MatchStep
  <2> QED BY <1>2, <2>1, Zenon
<1>6. CASE ~(i > Len(parts)) /\ parts[i] # AnyDepth
  <2>1. MatchStep(parts, path, f, i, j) =
          (j <= Len(path) /\ <<parts[i], path[j]>> \in Match /\ f[<<i + 1, j + 1>>])
    BY <1>6, Zenon DEF MatchStep
  <2> QED BY <1>3, <2>1, Zenon
<1> QED BY <1>4, <1>5, <1>6

\* The recursion has a solution and only one: what can be laid.
LEMMA MatchSegmentsExact ==
  ASSUME NEW parts, NEW path, Len(parts) \in Nat, Len(path) \in Nat
  PROVE  MatchSegments(parts, path) <=> Rest(parts, path, 1, 1)
<1> DEFINE n == Len(parts)
           m == Len(path)
           Step(f, p) == MatchStep(parts, path, f, p[1], p[2])
           match == CHOOSE f : f = [p \in Places(parts, path) |-> Step(f, p)]
           h == [p \in Places(parts, path) |-> Rest(parts, path, p[1], p[2])]
<1>1. MatchSegments(parts, path) = match[<<1, 1>>]
  BY DEF MatchSegments, MatchStep, Places, Levels
<1>2. ASSUME NEW p \in Places(parts, path) PROVE h[p] = Step(h, p)
  <2>1. p[1] \in 1 .. n + 1 /\ p[2] \in Levels(path)
    BY DEF Places
  <2>2. ASSUME NEW k \in Levels(path), p[1] <= n
        PROVE  h[<<p[1] + 1, k>>] <=> Rest(parts, path, p[1] + 1, k)
    <3>1. <<p[1] + 1, k>> \in Places(parts, path)
      BY <2>1, <2>2 DEF Places
    <3> QED BY <3>1
  <2>3. h[p] = Rest(parts, path, p[1], p[2])
    OBVIOUS
  <2> HIDE DEF h
  <2>4. Rest(parts, path, p[1], p[2]) <=> Step(h, p)
    BY <2>1, <2>2, RestUnfolds
  <2>5. Rest(parts, path, p[1], p[2]) \in BOOLEAN
    BY Zenon DEF Rest
  <2>6. MatchStep(parts, path, h, p[1], p[2]) \in BOOLEAN
    BY <2>1, MatchStepBoolean
  <2> QED BY <2>3, <2>4, <2>5, <2>6
<1>3. h = [p \in Places(parts, path) |-> Step(h, p)]
  <2> HIDE DEF Step
  <2> QED BY <1>2
<1>4. match = [p \in Places(parts, path) |-> Step(match, p)]
  <2> HIDE DEF h, Step
  <2> QED BY <1>3
<1> HIDE DEF match, h
<1>5. ASSUME NEW i \in 1 .. n + 1, NEW j \in Levels(path)
      PROVE  match[<<i, j>>] = MatchStep(parts, path, match, i, j)
  <2>1. <<i, j>> \in Places(parts, path)
    BY DEF Places
  <2> QED BY <1>4, <2>1
<1> DEFINE S == {d \in Nat : \A i \in 1 .. n + 1 : \A j \in Levels(path) :
                   i + d = n + 1 => (match[<<i, j>>] <=> Rest(parts, path, i, j))}
<1>6. 0 \in S
  <2> SUFFICES ASSUME NEW i \in 1 .. n + 1, NEW j \in Levels(path), i + 0 = n + 1
               PROVE  match[<<i, j>>] <=> Rest(parts, path, i, j)
    OBVIOUS
  <2>1. ~(i <= n)
    OBVIOUS
  <2> HIDE DEF S, Step
  <2> QED BY <1>5, <2>1, RestUnfolds
<1>7. ASSUME NEW d \in Nat, d \in S PROVE d + 1 \in S
  <2> SUFFICES ASSUME NEW i \in 1 .. n + 1, NEW j \in Levels(path), i + (d + 1) = n + 1
               PROVE  match[<<i, j>>] <=> Rest(parts, path, i, j)
    OBVIOUS
  <2>1. i + 1 \in 1 .. n + 1 /\ (i + 1) + d = n + 1
    OBVIOUS
  <2>2. \A k \in Levels(path) : match[<<i + 1, k>>] <=> Rest(parts, path, i + 1, k)
    BY <1>7, <2>1
  <2> HIDE DEF S, Step
  <2> QED BY <1>5, <2>2, RestUnfolds
<1>8. n \in S
  <2> HIDE DEF S
  <2> QED BY <1>6, <1>7, SetInduction
<1>9. match[<<1, 1>>] <=> Rest(parts, path, 1, 1)
  <2>1. 1 \in 1 .. n + 1 /\ 1 \in Levels(path) /\ 1 + n = n + 1
    BY DEF Levels
  <2> QED BY <1>8, <2>1
<1> QED BY <1>1, <1>9

\* What matches name by name is laid, each part along its level.
LEMMA WholeLays ==
  ASSUME NEW parts, NEW path, Len(parts) \in Nat, DOMAIN parts = 1 .. Len(parts), Whole(parts, path)
  PROVE  Rest(parts, path, 1, 1)
<1> DEFINE n == Len(parts)
           m == Len(path)
           end == [x \in 1 - 1 .. n |-> x]
<1>1. m = n /\ n \in Nat /\ DOMAIN parts = 1 .. n
  BY DEF Whole
<1> HIDE DEF n, m
<1>2. end \in [1 - 1 .. n -> 0 .. m] /\ end[1 - 1] = 1 - 1 /\ end[n] = m
  BY <1>1
<1>3. ASSUME NEW k \in 1 .. n PROVE Fits(parts, path, end, k)
  <2>1. end[k] = k /\ end[k - 1] = k - 1 /\ k = (k - 1) + 1 /\ k >= k - 1
    BY <1>1
  <2>2. <<parts[k], path[k]>> \in Match
    BY <1>1 DEF Whole
  <2> HIDE DEF end
  <2> QED BY <2>1, <2>2 DEF Fits
<1> HIDE DEF end
<1> QED BY <1>2, <1>3 DEF Rest, n, m

\* Two ways to say that parts can be laid along a path.
LEMMA LaidRest ==
  ASSUME NEW parts, NEW path, Len(parts) \in Nat, DOMAIN parts = 1 .. Len(parts)
  PROVE  Laid(parts, path) <=> Rest(parts, path, 1, 1)
<1>1. 1 - 1 = 0
  OBVIOUS
<1> QED BY <1>1 DEF Laid, Rest, Fits

\* A glob without ** is laid level by level.
LEMMA WholeLaid ==
  ASSUME NEW parts, NEW path, IsSeq(parts), IsSeq(path), AnyDepth \notin Range(parts)
  PROVE  Whole(parts, path) <=> Rest(parts, path, 1, 1)
<1> DEFINE n == Len(parts)
           m == Len(path)
<1>1. n \in Nat /\ m \in Nat /\ DOMAIN parts = 1 .. n /\ DOMAIN path = 1 .. m
  BY DEF IsSeq
<1>2. \A k \in 1 .. n : parts[k] # AnyDepth
  BY <1>1 DEF Range
<1> HIDE DEF n, m
<1>3. ASSUME Whole(parts, path) PROVE Rest(parts, path, 1, 1)
  BY <1>1, <1>3, WholeLays DEF n
<1>4. ASSUME Rest(parts, path, 1, 1) PROVE Whole(parts, path)
  <2>1. PICK end \in [1 - 1 .. n -> 0 .. m] :
          /\ end[1 - 1] = 1 - 1 /\ end[n] = m
          /\ \A k \in 1 .. n : Fits(parts, path, end, k)
    BY <1>4 DEF Rest, n, m
  <2>2. \A k \in 1 .. n : end[k] = end[k - 1] + 1 /\ <<parts[k], path[end[k]]>> \in Match
    BY <1>2, <2>1 DEF Fits
  <2> DEFINE S == {k \in Nat : k <= n => end[k] = k}
  <2>3. 0 \in S
    BY <2>1
  <2>4. ASSUME NEW k \in Nat, k \in S PROVE k + 1 \in S
    <3> SUFFICES ASSUME k + 1 <= n PROVE end[k + 1] = k + 1
      OBVIOUS
    <3>1. end[k] = k
      BY <1>1, <2>4
    <3>2. k + 1 \in 1 .. n /\ (k + 1) - 1 = k
      BY <1>1
    <3> QED BY <2>2, <3>1, <3>2
  <2>5. Nat \subseteq S
    <3> HIDE DEF S
    <3> QED BY <2>3, <2>4, SetInduction
  <2>6. \A k \in 1 .. n : end[k] = k
    BY <2>5
  <2>7. n = m
    BY <1>1, <2>1, <2>5
  <2> QED BY <1>1, <2>2, <2>6, <2>7 DEF Whole, n, m
<1> QED BY <1>3, <1>4

\* matchGlob says of every path what laying the glob along it says.
LEMMA GlobExact ==
  ASSUME NEW glob, NEW path, IsSeq(glob.parts), IsSeq(path)
  PROVE  MatchGlob(glob, path) <=>
           Laid(glob.parts, path) /\ (glob.rooted => AnyDepth \in Range(glob.parts))
<1> DEFINE parts == glob.parts
<1>1. Len(parts) \in Nat /\ Len(path) \in Nat /\ DOMAIN parts = 1 .. Len(parts)
  BY DEF IsSeq
<1>2. Laid(parts, path) <=> Rest(parts, path, 1, 1)
  BY <1>1, LaidRest
<1>3. CASE AnyDepth \in Range(parts)
  BY <1>1, <1>2, <1>3, MatchSegmentsExact DEF MatchGlob
<1>4. CASE AnyDepth \notin Range(parts)
  BY <1>2, <1>4, WholeLaid DEF MatchGlob
<1> QED BY <1>3, <1>4

------------------------------------------------------------------------------
(****************************************************************************)
(* The walk.                                                                *)
(****************************************************************************)

\* The rules of a file, once those that say nothing are left out.
Loaded(rules) == \A i \in DOMAIN rules : IsSeq(rules[i].parts) /\ rules[i].parts # <<>>

\* What loadRootIgnoreRules returns has names in every rule.
LEMMA LoadRulesLoaded ==
  ASSUME NEW gitignore \in IgnoreFiles, NEW ignore \in IgnoreFiles
  PROVE  Loaded(LoadRules(gitignore, ignore))
<1> DEFINE S == Range(gitignore) \cup Range(ignore)
           lines == gitignore \o ignore
           places == {i \in DOMAIN lines : lines[i].mark = "" /\ lines[i].parts # <<>>}
           rules == Those(lines, places)
<1>1. /\ gitignore \in Seq(Range(gitignore)) /\ ignore \in Seq(Range(ignore))
      /\ \A line \in S : IsSeq(line.parts)
  BY TreeAssumption DEF IsSeq
<1>2. gitignore \in Seq(S) /\ ignore \in Seq(S)
  <2>1. ASSUME NEW s, NEW T, s \in Seq(T), NEW U, T \subseteq U PROVE s \in Seq(U)
    BY <2>1
  <2>2. Range(gitignore) \subseteq S /\ Range(ignore) \subseteq S
    OBVIOUS
  <2> HIDE DEF S
  <2> QED BY <1>1, <2>1, <2>2
<1> HIDE DEF S
<1>3. lines \in Seq(S)
  BY <1>2
<1>4. places \in SUBSET DOMAIN lines
  OBVIOUS
<1>5. \A i \in places : lines[i] \in S /\ lines[i].parts # <<>>
  <2>1. \A i \in DOMAIN lines : lines[i] \in S
    <3> HIDE DEF lines
    <3> QED BY <1>3
  <2> QED BY <2>1
<1>6. LoadRules(gitignore, ignore) = rules
  BY Zenon DEF LoadRules
<1> HIDE DEF lines, places
<1>7. ASSUME NEW k \in DOMAIN rules PROVE IsSeq(rules[k].parts) /\ rules[k].parts # <<>>
  <2>1. Has(rules, rules[k])
    BY DEF Has
  <2>2. PICK i \in places : lines[i] = rules[k]
    BY <1>3, <1>4, <2>1, ThoseHas
  <2> QED BY <1>1, <1>5, <2>2
<1> HIDE DEF rules
<1> QED BY <1>6, <1>7 DEF Loaded

\* The directories on the way to a path, and the path itself.
LEMMA Prefix ==
  ASSUME NEW path, IsSeq(path), NEW k \in 1 .. Len(path)
  PROVE  /\ Len(path) \in Nat /\ Len(SubSeq(path, 1, k)) = k
         /\ \A i \in 1 .. k : SubSeq(path, 1, k)[i] = path[i]
         /\ Last(SubSeq(path, 1, k)) = path[k]
         /\ IsSeq(SubSeq(path, 1, k)) /\ SubSeq(path, 1, k) # <<>>
         /\ k = Len(path) => SubSeq(path, 1, k) = path
<1> DEFINE S == Range(path)
           p == SubSeq(path, 1, k)
<1>1. path \in Seq(S)
  BY DEF IsSeq
<1> HIDE DEF S
<1>2. Len(path) \in Nat /\ p \in Seq(S) /\ Len(p) = k /\ \A i \in 1 .. k : p[i] = path[i]
  BY <1>1
<1>3. k = Len(path) => p = path
  BY <1>1, <1>2
<1> HIDE DEF p
<1>4. DOMAIN p = 1 .. k /\ k \in 1 .. k
  BY <1>2
<1>5. p \in Seq(Range(p))
  BY <1>2, <1>4 DEF Range
<1>6. p # <<>>
  BY <1>2
<1> QED BY <1>2, <1>3, <1>4, <1>5, <1>6 DEF Last, IsSeq, p

\* A name that is not the last one of a path is one of a directory on the way.
LEMMA OnTheWay ==
  ASSUME NEW path, IsSeq(path), path # <<>>, NEW name
  PROVE  name \in Range(Front(path)) <=> \E k \in 1 .. Len(path) - 1 : name = path[k]
<1> DEFINE S == Range(path)
           n == Len(path)
           front == SubSeq(path, 1, n - 1)
<1>1. path \in Seq(S)
  BY DEF IsSeq
<1> HIDE DEF S
<1>2. n \in Nat /\ n # 0
  BY <1>1
<1>3. DOMAIN front = 1 .. n - 1 /\ \A i \in 1 .. n - 1 : front[i] = path[i]
  BY <1>1, <1>2
<1>4. Front(path) = front
  BY DEF Front
<1> HIDE DEF front
<1> QED BY <1>3, <1>4 DEF Range

\* A rule has one name or more.
LEMMA OneOrMore ==
  ASSUME NEW n \in Nat \ {0}
  PROVE  n > 1 \/ n = 1
OBVIOUS

\* Without ** git lays a rule level by level.
LEMMA LaidWhole ==
  ASSUME NEW parts, IsSeq(parts), parts # <<>>, AnyDepth \notin Range(parts),
         NEW path, IsSeq(path), LaidByGit(parts, path)
  PROVE  Whole(parts, path)
<1>1. Len(parts) \in Nat \ {0} /\ DOMAIN parts = 1 .. Len(parts)
  BY DEF IsSeq
<1>2. Last(parts) # AnyDepth
  BY <1>1 DEF Last, Range
<1>3. Laid(parts, path)
  BY <1>2 DEF LaidByGit
<1> QED BY <1>1, <1>3, LaidRest, WholeLaid

\* What matches name by name git lays, also if the last name is a **.
LEMMA WholeByGit ==
  ASSUME NEW parts, IsSeq(parts), parts # <<>>, NEW path, IsSeq(path), Whole(parts, path)
  PROVE  LaidByGit(parts, path)
<1> DEFINE n == Len(parts)
           S == Range(parts)
           T == Range(path)
           front == SubSeq(parts, 1, n - 1)
           dir == SubSeq(path, 1, n - 1)
<1>1. n \in Nat \ {0} /\ DOMAIN parts = 1 .. n /\ Len(path) = n
  BY DEF IsSeq, Whole
<1>2. parts \in Seq(S) /\ path \in Seq(T)
  BY DEF IsSeq
<1>3. \A i \in 1 .. n : <<parts[i], path[i]>> \in Match
  BY <1>1 DEF Whole
<1> HIDE DEF n, S, T
<1>4. /\ Len(front) = n - 1 /\ DOMAIN front = 1 .. n - 1
      /\ \A i \in 1 .. n - 1 : front[i] = parts[i]
  BY <1>1, <1>2 DEF n
<1>5. Len(dir) = n - 1 /\ \A i \in 1 .. n - 1 : dir[i] = path[i]
  BY <1>1, <1>2
<1>6. Front(parts) = front
  BY DEF Front, n
<1> HIDE DEF front, dir
<1>7. Whole(front, dir)
  <2>1. \A i \in 1 .. n - 1 : i \in 1 .. n
    BY <1>1
  <2> QED BY <1>3, <1>4, <1>5, <2>1 DEF Whole
<1>8. n - 1 \in Nat /\ n - 1 \in 0 .. Len(path) - 1
  BY <1>1
<1>9. Laid(front, dir)
  BY <1>4, <1>7, <1>8, WholeLays, LaidRest
<1>10. Laid(parts, path)
  BY <1>1, WholeLays, LaidRest DEF n
<1> QED BY <1>6, <1>8, <1>9, <1>10 DEF LaidByGit, dir

\* What git ignores is matched by the rule, but for a ** of another depth.
LEMMA SaysNamed ==
  ASSUME NEW rule, IsSeq(rule.parts), rule.parts # <<>>, NEW path, IsSeq(path), NEW isDir,
         Says(rule, path, isDir), ~Deep(rule, path)
  PROVE  Named(rule, path)
<1>1. Len(rule.parts) \in Nat \ {0} /\ DOMAIN rule.parts = 1 .. Len(rule.parts)
  BY DEF IsSeq
<1>2. Len(rule.parts) > 1 \/ Len(rule.parts) = 1
  BY <1>1, OneOrMore
<1>3. CASE ~Anchored(rule)
  BY <1>2, <1>3 DEF Says, Named, Anchored
<1>4. CASE Anchored(rule)
  <2>1. Whole(rule.parts, path)
    <3>1. CASE AnyDepth \in Range(rule.parts)
      BY <1>4, <3>1 DEF Deep
    <3>2. CASE AnyDepth \notin Range(rule.parts)
      BY <1>4, <3>2, LaidWhole DEF Says
    <3> QED BY <3>1, <3>2
  <2>2. CASE Len(rule.parts) > 1
    BY <2>1, <2>2 DEF Named
  <2>3. CASE Len(rule.parts) = 1
    <3>1. Len(path) = 1 /\ <<rule.parts[1], path[1]>> \in Match
      BY <1>1, <2>1, <2>3 DEF Whole
    <3> QED BY <2>3, <3>1 DEF Named, Last
  <2> QED BY <1>2, <2>2, <2>3
<1> QED BY <1>3, <1>4

\* What the rule matches is ignored by git, or left out beyond that.
LEMMA NamedSays ==
  ASSUME NEW rules, Loaded(rules), NEW i \in DOMAIN rules, NEW path, IsSeq(path),
         NEW k \in 1 .. Len(path), Named(rules[i], SubSeq(path, 1, k)), NEW isDir, rules[i].dir => isDir
  PROVE  Says(rules[i], SubSeq(path, 1, k), isDir) \/ LeftOutMore(rules, path)
<1> DEFINE p == SubSeq(path, 1, k)
           rule == rules[i]
           parts == rule.parts
<1>1. Len(p) = k /\ p[k] = path[k] /\ Last(p) = path[k] /\ k \in Nat \ {0}
  BY Prefix
<1>2. Len(parts) \in Nat \ {0} /\ DOMAIN parts = 1 .. Len(parts)
  BY DEF Loaded, IsSeq
<1>3. k \in DOMAIN path
  BY DEF IsSeq
<1>4. Named(rule, p) /\ (rule.dir => isDir)
  OBVIOUS
<1>5. IsSeq(p) /\ IsSeq(parts) /\ parts # <<>>
  BY Prefix DEF Loaded
<1> HIDE DEF p, rule
<1>6. CASE Len(parts) > 1
  <2>1. Whole(parts, p)
    BY <1>4, <1>6 DEF Named
  <2>2. Says(rule, p, isDir)
    BY <1>4, <1>6, <1>5, <2>1, WholeByGit DEF Says, Anchored
  <2> QED BY <2>2 DEF p, rule
<1>7. CASE Len(parts) = 1
  <2>1. parts[1] = path[k] \/ <<parts[1], path[k]>> \in Match
    BY <1>1, <1>4, <1>7 DEF Named
  <2>2. CASE <<parts[1], path[k]>> \notin Match
    <3>1. parts[1] = path[k] /\ <<path[k], path[k]>> \notin Match
      BY <2>1, <2>2
    <3> QED BY <1>3, <1>7, <3>1 DEF LeftOutMore, rule
  <2>3. CASE <<parts[1], path[k]>> \in Match /\ ~rule.rooted
    <3>1. Says(rule, p, isDir)
      BY <1>1, <1>4, <1>7, <2>3 DEF Says, Anchored
    <3> QED BY <3>1 DEF rule, p
  <2>4. CASE <<parts[1], path[k]>> \in Match /\ rule.rooted /\ k = 1
    <3>1. Whole(parts, p)
      BY <1>1, <1>2, <1>7, <2>4 DEF Whole
    <3>2. Says(rule, p, isDir)
      BY <1>4, <1>5, <2>4, <3>1, WholeByGit DEF Says, Anchored
    <3> QED BY <3>2 DEF rule, p
  <2>5. CASE <<parts[1], path[k]>> \in Match /\ rule.rooted /\ k # 1
    <3>1. k \in 2 .. Len(path)
      BY <1>1, <2>5
    <3> QED BY <1>7, <2>5, <3>1 DEF LeftOutMore, rule
  <2> QED BY <2>2, <2>3, <2>4, <2>5, Zenon
<1>8. Len(parts) > 1 \/ Len(parts) = 1
  BY <1>2, OneOrMore
<1> QED BY <1>6, <1>7, <1>8, Zenon

\* A directory's rule that the path starts with.
LEMMA DirSays ==
  ASSUME NEW rules, Loaded(rules), NEW i \in DOMAIN rules, NEW path, IsSeq(path),
         rules[i].dir, IsPrefix(rules[i].parts, path)
  PROVE  IgnoredByGit(rules, path) \/ LeftOutMore(rules, path)
<1> DEFINE rule == rules[i]
           parts == rule.parts
           k == Len(parts)
<1>1. IsSeq(parts) /\ parts # <<>> /\ k \in Nat \ {0} /\ DOMAIN parts = 1 .. k /\ Len(path) \in Nat
  BY DEF Loaded, IsSeq
<1>2. k <= Len(path) /\ SubSeq(parts, 1, k) = SubSeq(path, 1, k)
  BY DEF IsPrefix
<1>3. k \in 1 .. Len(path) /\ k \in 1 .. k
  BY <1>1, <1>2
<1>4. SubSeq(parts, 1, k) = parts
  <2> HIDE DEF parts
  <2> QED BY <1>1, <1>3, Prefix
<1>5. k = Len(path) => SubSeq(path, 1, k) = path
  BY <1>3, Prefix
<1>6. rule.dir /\ IsPrefix(parts, path)
  OBVIOUS
<1> HIDE DEF rule, k
<1>7. CASE k = Len(path)
  BY <1>2, <1>4, <1>5, <1>6, <1>7 DEF LeftOutMore, rule
<1>8. CASE ~Whole(parts, parts)
  BY <1>6, <1>8 DEF LeftOutMore, rule
<1>9. CASE k # Len(path) /\ Whole(parts, parts)
  <2>1. k < Len(path)
    BY <1>1, <1>2, <1>9
  <2>2. <<parts[1], Last(parts)>> \in Match \/ k > 1
    <3>1. \A x \in 1 .. k : <<parts[x], parts[x]>> \in Match
      BY <1>1, <1>9 DEF Whole
    <3>2. k > 1 \/ k = 1
      BY <1>1
    <3>3. CASE k = 1
      <4>1. Last(parts) = parts[1]
        BY <3>3 DEF Last, k
      <4> QED BY <3>1, <3>3, <4>1
    <3> QED BY <3>2, <3>3
  <2>3. Says(rule, parts, k < Len(path))
    BY <1>1, <1>9, <2>1, <2>2, WholeByGit DEF Says, Anchored, k
  <2> QED BY <1>2, <1>3, <1>4, <2>3 DEF IgnoredByGit, rule
<1> QED BY <1>7, <1>8, <1>9

\* The walk of a directory keeps and leaves out what WalkRight says.
LEMMA WalkExact ==
  ASSUME NEW files, NEW rootName, NEW rules, Loaded(rules), NEW ignoreFn,
         NEW path \in DOMAIN files, files[path] = "regular", IsSeq(path), path # <<>>
  PROVE  LET skipped == \/ Range(Front(path)) \cap SkippedNames # {}
                        \/ path \in ignoreFn \/ rootName \in SkippedNames
             ignored == IgnoredByGit(rules, path)
             kept == path \in Walk(files, rootName, rules, ignoreFn)
         IN /\ kept => ~skipped /\ (ignored => KeptMore(rules, path))
            /\ ~kept => skipped \/ ignored \/ LeftOutMore(rules, path)
<1> DEFINE n == Len(path)
           Dir(k) == SubSeq(path, 1, k)
           Pruned(dir) == Last(dir) \in SkippedNames \/ MatchDir(rules, dir)
           kept == path \in Walk(files, rootName, rules, ignoreFn)
           skipped == \/ Range(Front(path)) \cap SkippedNames # {}
                      \/ path \in ignoreFn \/ rootName \in SkippedNames
           ignored == IgnoredByGit(rules, path)
<1>1. n \in Nat \ {0} /\ n \in 1 .. n
  BY DEF IsSeq
<1>2. kept <=> /\ rootName \notin SkippedNames
               /\ \A k \in 1 .. n - 1 : ~Pruned(Dir(k))
               /\ ~MatchFile(rules, path) /\ path \notin ignoreFn
  BY DEF Walk
<1>3. \A k \in 1 .. n : Last(Dir(k)) = path[k]
  BY Prefix
<1>4. Dir(n) = path
  BY <1>1, Prefix
<1>5. \A k \in 1 .. n - 1 : k \in 1 .. n /\ k < n
  BY <1>1
<1>6. Range(Front(path)) \cap SkippedNames # {} <=> \E k \in 1 .. n - 1 : path[k] \in SkippedNames
  BY OnTheWay
<1>7. \A i \in DOMAIN rules : IsSeq(rules[i].parts) /\ rules[i].parts # <<>>
  BY DEF Loaded
<1> HIDE DEF n, Dir, kept
<1>8. ASSUME kept PROVE ~skipped /\ KeptMore(rules, path)
  <2>1. ASSUME NEW i \in DOMAIN rules, NEW k \in 1 .. n, Says(rules[i], Dir(k), k < n)
        PROVE  Deep(rules[i], Dir(k))
    <3> SUFFICES ASSUME ~Deep(rules[i], Dir(k)) PROVE FALSE
      OBVIOUS
    <3>1. Named(rules[i], Dir(k))
      <4>1. IsSeq(Dir(k))
        BY Prefix DEF Dir, n
      <4> QED BY <1>7, <2>1, <4>1, SaysNamed
    <3>2. CASE k < n
      <4>1. k \in 1 .. n - 1
        BY <1>1, <3>2
      <4>2. MatchDir(rules, Dir(k))
        BY <3>1 DEF MatchDir
      <4> QED BY <1>2, <1>8, <4>1, <4>2
    <3>3. CASE ~(k < n)
      <4>1. k = n
        BY <1>1, <3>3
      <4>2. ~rules[i].dir
        BY <2>1, <3>3 DEF Says
      <4>3. MatchFile(rules, path)
        BY <1>4, <3>1, <4>1, <4>2 DEF MatchFile
      <4> QED BY <1>2, <1>8, <4>3
    <3> QED BY <3>2, <3>3
  <2>2. \A k \in 1 .. n - 1 : path[k] \notin SkippedNames
    BY <1>2, <1>3, <1>5, <1>8
  <2>3. KeptMore(rules, path)
    BY <2>1 DEF KeptMore, Dir, n
  <2> QED BY <1>2, <1>6, <1>8, <2>2, <2>3
<1>9. ASSUME ~kept PROVE skipped \/ ignored \/ LeftOutMore(rules, path)
  <2>1. ASSUME NEW i \in DOMAIN rules, NEW k \in 1 .. n, Named(rules[i], Dir(k)), rules[i].dir => k < n
        PROVE  ignored \/ LeftOutMore(rules, path)
    <3>1. Says(rules[i], Dir(k), k < n) \/ LeftOutMore(rules, path)
      BY <2>1, NamedSays DEF Dir, n
    <3> QED BY <3>1 DEF IgnoredByGit, Dir, n
  <2>2. ASSUME NEW k \in 1 .. n - 1, Pruned(Dir(k)) PROVE skipped \/ ignored \/ LeftOutMore(rules, path)
    <3>1. CASE Last(Dir(k)) \in SkippedNames
      BY <1>3, <1>5, <1>6, <3>1
    <3>2. CASE MatchDir(rules, Dir(k))
      <4>1. PICK i \in DOMAIN rules : Named(rules[i], Dir(k))
        BY <3>2 DEF MatchDir
      <4> QED BY <1>5, <2>1, <4>1
    <3> QED BY <2>2, <3>1, <3>2
  <2>3. ASSUME MatchFile(rules, path) PROVE skipped \/ ignored \/ LeftOutMore(rules, path)
    <3>1. PICK i \in DOMAIN rules :
            IF rules[i].dir THEN IsPrefix(rules[i].parts, path) ELSE Named(rules[i], path)
      BY <2>3 DEF MatchFile
    <3>2. CASE rules[i].dir
      BY <3>1, <3>2, DirSays
    <3>3. CASE ~rules[i].dir
      BY <1>1, <1>4, <2>1, <3>1, <3>3
    <3> QED BY <3>2, <3>3
  <2> QED BY <1>2, <1>9, <2>2, <2>3
<1> QED BY <1>8, <1>9 DEF kept

------------------------------------------------------------------------------
(****************************************************************************)
(* Sequences joined one after the other.                                    *)
(****************************************************************************)

\* The parts, joined one after the other.
Joins(parts, k, out) ==
  \A n \in 0 .. k : out[n] = IF n = 0 THEN <<>> ELSE out[n - 1] \o parts[n]

LEMMA FlattenUnfolds ==
  ASSUME NEW T, NEW parts \in Seq(Seq(T))
  PROVE  \E out : FlattenSeq(parts) = out[Len(parts)] /\ Joins(parts, Len(parts), out)
<1> DEFINE k == Len(parts)
           Step(f, n) == IF n = 1 THEN parts[n] ELSE f[n - 1] \o parts[n]
           all == CHOOSE f : f = [n \in 1 .. k |-> Step(f, n)]
<1>1. k \in Nat /\ \A n \in 1 .. k : parts[n] \in Seq(T)
  OBVIOUS
<1>2. FlattenSeq(parts) = IF k = 0 THEN parts ELSE all[k]
  BY Zenon DEF FlattenSeq
<1> DEFINE S == {m \in Nat : \E f : \A n \in 1 .. m : f[n] = Step(f, n)}
<1>3. 0 \in S
  OBVIOUS
<1>4. ASSUME NEW m \in Nat, m \in S PROVE m + 1 \in S
  <2>1. PICK f : \A n \in 1 .. m : f[n] = Step(f, n)
    BY <1>4
  <2> DEFINE g == [n \in 1 .. m + 1 |-> IF n <= m THEN f[n] ELSE Step(f, n)]
  <2>2. \A n \in 1 .. m : g[n] = f[n] /\ n \in 1 .. m + 1
    OBVIOUS
  <2>3. g[m + 1] = Step(f, m + 1)
    <3> HIDE DEF Step
    <3> QED OBVIOUS
  <2> HIDE DEF g
  <2>4. ASSUME NEW n \in 1 .. m + 1 PROVE g[n] = Step(g, n)
    <3>1. Step(f, n) = Step(g, n)
      <4>1. CASE n = 1
        BY <4>1
      <4>2. CASE n # 1
        <5>1. n - 1 \in 1 .. m
          BY <4>2
        <5> QED BY <2>2, <4>2, <5>1
      <4> QED BY <4>1, <4>2
    <3> HIDE DEF Step
    <3>2. CASE n \in 1 .. m
      BY <2>1, <2>2, <3>1, <3>2
    <3>3. CASE n = m + 1
      BY <2>3, <3>1, <3>3
    <3> QED BY <3>2, <3>3
  <2> HIDE DEF Step
  <2> QED BY <2>4
<1>5. k \in S
  <2> HIDE DEF S
  <2> QED BY <1>1, <1>3, <1>4, SetInduction
<1>6. PICK f : \A n \in 1 .. k : f[n] = Step(f, n)
  BY <1>5
<1>7. all = [n \in 1 .. k |-> Step(all, n)]
  <2> DEFINE g == [n \in 1 .. k |-> f[n]]
  <2>1. ASSUME NEW n \in 1 .. k PROVE f[n] = Step(g, n)
    <3>1. CASE n = 1
      BY <1>6, <3>1
    <3>2. CASE n # 1
      <4>1. n - 1 \in 1 .. k
        BY <3>2
      <4>2. g[n - 1] = f[n - 1]
        BY <4>1
      <4> QED BY <1>6, <3>2, <4>2
    <3> QED BY <3>1, <3>2
  <2>2. g = [n \in 1 .. k |-> Step(g, n)]
    <3>1. g = [n \in 1 .. k |-> f[n]]
      OBVIOUS
    <3> HIDE DEF g, Step
    <3> QED BY <2>1, <3>1
  <2> HIDE DEF g, Step
  <2> QED BY <2>2
<1>8. \A n \in 1 .. k : all[n] = Step(all, n)
  <2> HIDE DEF Step, all
  <2> QED BY <1>7
<1> HIDE DEF all
<1> DEFINE out == [n \in 0 .. k |-> IF n = 0 THEN <<>> ELSE all[n]]
<1>9. out[0] = <<>> /\ \A n \in 1 .. k : out[n] = all[n]
  BY <1>1
<1> HIDE DEF out
<1>10. Joins(parts, k, out)
  <2> SUFFICES ASSUME NEW n \in 0 .. k, n # 0 PROVE out[n] = out[n - 1] \o parts[n]
    BY <1>9, Zenon DEF Joins
  <2>1. n \in 1 .. k /\ out[n] = all[n] /\ all[n] = Step(all, n)
    BY <1>8, <1>9
  <2>2. CASE n = 1
    <3>1. out[n - 1] = <<>> /\ out[n] = parts[n]
      BY <1>9, <2>1, <2>2
    <3>2. parts[n] \in Seq(T)
      BY <1>1, <2>1
    <3> QED BY <3>1, <3>2
  <2>3. CASE n # 1
    <3>1. n - 1 \in 1 .. k
      BY <2>1, <2>3
    <3>2. out[n - 1] = all[n - 1]
      BY <1>9, <3>1
    <3> QED BY <2>1, <2>3, <3>2
  <2> QED BY <2>2, <2>3
<1>11. FlattenSeq(parts) = out[k]
  <2>1. CASE k = 0
    BY <1>2, <1>9, <2>1
  <2>2. CASE k # 0
    BY <1>1, <1>2, <1>9, <2>2
  <2> QED BY <2>1, <2>2
<1> QED BY <1>10, <1>11

\* One sequence after another.
LEMMA Joining ==
  ASSUME NEW T, NEW s \in Seq(T), NEW t \in Seq(T)
  PROVE  /\ s \o t \in Seq(T) /\ Len(s \o t) = Len(s) + Len(t)
         /\ Len(s) \in Nat /\ Len(t) \in Nat
         /\ \A i \in 1 .. Len(s) : (s \o t)[i] = s[i]
         /\ \A i \in 1 .. Len(t) : (s \o t)[Len(s) + i] = t[i]
OBVIOUS

\* More of them begin with what fewer do.
Begins(out, n, m) ==
  Len(out[n]) <= Len(out[m]) /\ \A i \in 1 .. Len(out[n]) : out[m][i] = out[n][i]

LEMMA JoinedGrow ==
  ASSUME NEW T, NEW parts, NEW k \in Nat, \A n \in 1 .. k : parts[n] \in Seq(T),
         NEW out, Joins(parts, k, out)
  PROVE  \A n \in 0 .. k : out[n] \in Seq(T) /\ Begins(out, n, k)
<1> DEFINE S == {m \in Nat : m <= k => out[m] \in Seq(T) /\ \A n \in 0 .. m : Begins(out, n, m)}
<1>1. 0 \in S
  <2>1. out[0] = <<>>
    BY DEF Joins
  <2>2. out[0] \in Seq(T) /\ Len(out[0]) \in Nat
    BY <2>1
  <2>3. \A n \in 0 .. 0 : n = 0
    OBVIOUS
  <2>4. Begins(out, 0, 0)
    BY <2>2 DEF Begins
  <2> QED BY <2>2, <2>3, <2>4
<1>2. ASSUME NEW m \in Nat, m \in S PROVE m + 1 \in S
  <2> SUFFICES ASSUME m + 1 <= k
               PROVE  out[m + 1] \in Seq(T) /\ \A n \in 0 .. m + 1 : Begins(out, n, m + 1)
    OBVIOUS
  <2>1. out[m] \in Seq(T) /\ \A n \in 0 .. m : Begins(out, n, m)
    BY <1>2
  <2>2. m + 1 \in 0 .. k /\ m + 1 \in 1 .. k /\ m + 1 # 0 /\ (m + 1) - 1 = m
    OBVIOUS
  <2>3. out[m + 1] = out[m] \o parts[m + 1] /\ parts[m + 1] \in Seq(T)
    BY <2>2 DEF Joins
  <2>4. /\ out[m + 1] \in Seq(T) /\ Len(out[m]) <= Len(out[m + 1])
        /\ \A i \in 1 .. Len(out[m]) : out[m + 1][i] = out[m][i]
    <3> DEFINE s == out[m]
               t == parts[m + 1]
    <3>1. s \in Seq(T) /\ t \in Seq(T) /\ out[m + 1] = s \o t
      BY <2>1, <2>3
    <3> HIDE DEF s, t
    <3>2. /\ out[m + 1] \in Seq(T) /\ Len(s) <= Len(out[m + 1])
          /\ \A i \in 1 .. Len(s) : out[m + 1][i] = s[i]
      BY <3>1, Joining
    <3> QED BY <3>2 DEF s
  <2>5. ASSUME NEW n \in 0 .. m + 1 PROVE Begins(out, n, m + 1)
    <3>1. CASE n = m + 1
      <4>1. Len(out[m + 1]) \in Nat
        BY <2>4
      <4> QED BY <3>1, <4>1 DEF Begins
    <3>2. CASE n \in 0 .. m
      <4>1. Begins(out, n, m)
        BY <2>1, <3>2
      <4>2. Len(out[n]) \in Nat /\ Len(out[m]) \in Nat /\ Len(out[m + 1]) \in Nat
        BY <2>1, <2>4, <3>2, <1>2 DEF Begins
      <4> QED BY <2>4, <4>1, <4>2 DEF Begins
    <3> QED BY <3>1, <3>2
  <2> QED BY <2>4, <2>5
<1>3. Nat \subseteq S
  <2> HIDE DEF S
  <2> QED BY <1>1, <1>2, SetInduction
<1>4. \A n \in 0 .. k : out[n] \in Seq(T)
  BY <1>3
<1>5. \A n \in 0 .. k : Begins(out, n, k)
  BY <1>3
<1> QED BY <1>4, <1>5

(****************************************************************************)
(* git's output.                                                            *)
(****************************************************************************)

\* What loadGitStatuses computes.
LEMMA ReadUnfolds ==
  ASSUME NEW fields, Len(fields) \in Nat
  PROVE  \E f : /\ LoadGitStatuses(fields) = f[Len(fields)].statuses
                /\ \A n \in 0 .. Len(fields) :
                     f[n] = IF n = 0 THEN NothingRead ELSE ReadField(f[n - 1], fields[n])
<1> DEFINE k == Len(fields)
           Step(f, n) == IF n = 0 THEN NothingRead ELSE ReadField(f[n - 1], fields[n])
           read == CHOOSE f : f = [n \in 0 .. k |-> Step(f, n)]
<1>1. LoadGitStatuses(fields) = read[k].statuses
  BY DEF LoadGitStatuses
<1> DEFINE S == {m \in Nat : \E f : \A n \in 0 .. m : f[n] = Step(f, n)}
<1>2. 0 \in S
  <2> DEFINE f == [n \in 0 .. 0 |-> NothingRead]
  <2>1. \A n \in 0 .. 0 : f[n] = Step(f, n)
    OBVIOUS
  <2> QED BY <2>1
<1>3. ASSUME NEW m \in Nat, m \in S PROVE m + 1 \in S
  <2>1. PICK f : \A n \in 0 .. m : f[n] = Step(f, n)
    BY <1>3
  <2> DEFINE g == [n \in 0 .. m + 1 |-> IF n <= m THEN f[n] ELSE Step(f, n)]
  <2>2. \A n \in 0 .. m : g[n] = f[n] /\ n \in 0 .. m + 1
    OBVIOUS
  <2>3. g[m + 1] = Step(f, m + 1)
    <3> HIDE DEF Step
    <3> QED OBVIOUS
  <2> HIDE DEF g
  <2>4. ASSUME NEW n \in 0 .. m + 1 PROVE g[n] = Step(g, n)
    <3>1. Step(f, n) = Step(g, n)
      <4>1. CASE n = 0
        BY <4>1
      <4>2. CASE n # 0
        <5>1. n - 1 \in 0 .. m
          BY <4>2
        <5> QED BY <2>2, <4>2, <5>1
      <4> QED BY <4>1, <4>2
    <3> HIDE DEF Step
    <3>2. CASE n \in 0 .. m
      BY <2>1, <2>2, <3>1, <3>2
    <3>3. CASE n = m + 1
      BY <2>3, <3>1, <3>3
    <3> QED BY <3>2, <3>3
  <2> HIDE DEF Step
  <2> QED BY <2>4
<1>4. k \in S
  <2> HIDE DEF S
  <2> QED BY <1>2, <1>3, SetInduction
<1>5. PICK f : \A n \in 0 .. k : f[n] = Step(f, n)
  BY <1>4
<1>6. read = [n \in 0 .. k |-> Step(read, n)]
  <2> DEFINE g == [n \in 0 .. k |-> f[n]]
  <2>1. ASSUME NEW n \in 0 .. k PROVE f[n] = Step(g, n)
    <3>1. CASE n = 0
      BY <1>5, <3>1
    <3>2. CASE n # 0
      <4>1. n - 1 \in 0 .. k
        BY <3>2
      <4>2. g[n - 1] = f[n - 1]
        BY <4>1
      <4> QED BY <1>5, <3>2, <4>2
    <3> QED BY <3>1, <3>2
  <2>2. g = [n \in 0 .. k |-> Step(g, n)]
    <3>1. g = [n \in 0 .. k |-> f[n]]
      OBVIOUS
    <3> HIDE DEF g, Step
    <3> QED BY <2>1, <3>1
  <2> HIDE DEF g, Step
  <2> QED BY <2>2
<1>7. \A n \in 0 .. k : read[n] = Step(read, n)
  <2> HIDE DEF Step, read
  <2> QED BY <1>6
<1> HIDE DEF read
<1> QED BY <1>1, <1>7

\* A field that begins an entry.
LEMMA FieldParts ==
  ASSUME NEW x, NEW y, NEW c, NEW path, IsSeq(path), path # <<>>
  PROVE  LET field == <<x, y, c>> \o path
         IN /\ field[1] = x /\ field[2] = y /\ Len(field) \in Nat /\ Len(field) >= 4
            /\ SubSeq(field, 4, Len(field)) = path
<1> DEFINE T == Range(path) \cup {x, y, c}
           field == <<x, y, c>> \o path
<1>1. path \in Seq(T) /\ <<x, y, c>> \in Seq(T)
  <2>1. ASSUME NEW A, path \in Seq(A), NEW B, A \subseteq B PROVE path \in Seq(B)
    BY <2>1
  <2>2. path \in Seq(Range(path)) /\ Range(path) \subseteq T
    BY DEF IsSeq
  <2>3. x \in T /\ y \in T /\ c \in T
    OBVIOUS
  <2> HIDE DEF T
  <2> QED BY <2>1, <2>2, <2>3
<1> HIDE DEF T
<1>2. Len(path) \in Nat /\ Len(path) >= 1
  BY <1>1
<1>3. field \in Seq(T) /\ Len(field) = 3 + Len(path) /\ field[1] = x /\ field[2] = y
  BY <1>1
<1>4. \A i \in 1 .. Len(path) : field[i + 3] = path[i]
  BY <1>1
<1> HIDE DEF field
<1>5. SubSeq(field, 4, Len(field)) = path
  <2> DEFINE s == SubSeq(field, 4, Len(field))
  <2>1. s \in Seq(T) /\ Len(s) = Len(path)
    BY <1>2, <1>3
  <2>2. \A i \in 1 .. Len(path) : s[i] = field[i + 3]
    BY <1>2, <1>3
  <2> HIDE DEF s
  <2>3. s = path
    BY <1>1, <1>4, <2>1, <2>2
  <2> QED BY <2>3 DEF s
<1> QED BY <1>2, <1>3, <1>5 DEF field

LEMMA TwoFields ==
  ASSUME NEW a, NEW b
  PROVE  <<a>> \o <<b>> = <<a, b>>
<1> DEFINE T == {a, b}
           s == <<a>> \o <<b>>
           t == <<a, b>>
<1>1. a \in T /\ b \in T
  OBVIOUS
<1> HIDE DEF T
<1>2. <<a>> \in Seq(T) /\ <<b>> \in Seq(T) /\ t \in Seq(T) /\ Len(t) = 2 /\ t[1] = a /\ t[2] = b
  BY <1>1
<1>3. s \in Seq(T) /\ Len(s) = 2 /\ s[1] = a /\ s[2] = b
  BY <1>2
<1> HIDE DEF s, t
<1>4. s = t
  BY <1>2, <1>3
<1> QED BY <1>4 DEF s, t

\* An entry is one field or two.
LEMMA PrintedParts ==
  ASSUME NEW e, IsSeq(e.path), e.path # <<>>
  PROVE  /\ Printed(e)[1][1] = e.x /\ Printed(e)[1][2] = e.y
         /\ Len(Printed(e)[1]) \in Nat /\ Len(Printed(e)[1]) >= 4
         /\ SubSeq(Printed(e)[1], 4, Len(Printed(e)[1])) = e.path
         /\ \E a, b : Printed(e) = IF IsRenameOrCopy(e.x, e.y) THEN <<a, b>> ELSE <<a>>
<1> DEFINE blank == " "
           field == <<e.x, e.y, blank>> \o e.path
<1> HIDE DEF blank
<1>1. /\ field[1] = e.x /\ field[2] = e.y /\ Len(field) \in Nat /\ Len(field) >= 4
      /\ SubSeq(field, 4, Len(field)) = e.path
  BY FieldParts
<1>2. Printed(e) = <<field>> \o (IF IsRenameOrCopy(e.x, e.y) THEN <<e.from>> ELSE <<>>)
  BY Zenon DEF Printed, blank
<1> HIDE DEF field
<1>3. CASE IsRenameOrCopy(e.x, e.y)
  <2> DEFINE from == e.from
  <2>1. Printed(e) = <<field>> \o <<from>>
    BY <1>2, <1>3, Zenon
  <2> HIDE DEF from
  <2>2. Printed(e) = <<field, from>>
    BY <2>1, TwoFields
  <2>3. \E a, b : Printed(e) = <<a, b>>
    BY <2>2, Zenon
  <2>4. Printed(e)[1] = field
    BY <2>2
  <2> QED BY <1>1, <1>3, <2>3, <2>4, Zenon
<1>4. CASE ~IsRenameOrCopy(e.x, e.y)
  <2>1. Printed(e) = <<field>> \o <<>>
    BY <1>2, <1>4, Zenon
  <2>2. Printed(e) = <<field>>
    BY <2>1
  <2>3. \E a : Printed(e) = <<a>>
    BY <2>2, Zenon
  <2>4. Printed(e)[1] = field
    BY <2>2
  <2> QED BY <1>1, <1>4, <2>3, <2>4, Zenon
<1> QED BY <1>3, <1>4

\* What reading an entry does to the statuses.
Noted(statuses, e) ==
  IF Kind(e.x, e.y) = "clean" THEN statuses ELSE With(statuses, e.path, Kind(e.x, e.y))

Between(statuses) == [statuses |-> statuses, skip |-> FALSE]

LEMMA FirstField ==
  ASSUME NEW statuses, NEW e, IsSeq(e.path), e.path # <<>>,
         IsRenameOrCopy(e.x, e.y) => Kind(e.x, e.y) # "clean"
  PROVE  ReadField(Between(statuses), Printed(e)[1]) =
           [statuses |-> Noted(statuses, e), skip |-> IsRenameOrCopy(e.x, e.y)]
<1> DEFINE field == Printed(e)[1]
           path == SubSeq(field, 4, Len(field))
<1>1. field[1] = e.x /\ field[2] = e.y /\ ~(Len(field) < 4) /\ path = e.path
  BY PrintedParts
<1> HIDE DEF field, path
<1>2. Between(statuses).skip = FALSE /\ Between(statuses).statuses = statuses
  BY DEF Between
<1>3. ReadField(Between(statuses), field) =
        IF Kind(e.x, e.y) = "clean" THEN Between(statuses)
        ELSE [statuses |-> With(statuses, e.path, Kind(e.x, e.y)),
              skip |-> IsRenameOrCopy(e.x, e.y)]
  BY <1>1, <1>2, Zenon DEF ReadField, path
<1>4. IsRenameOrCopy(e.x, e.y) \in BOOLEAN
  BY DEF IsRenameOrCopy
<1>5. CASE Kind(e.x, e.y) = "clean"
  <2>1. IsRenameOrCopy(e.x, e.y) = FALSE
    BY <1>4, <1>5
  <2> QED BY <1>3, <1>5, <2>1 DEF Noted, Between, field
<1>6. CASE Kind(e.x, e.y) # "clean"
  BY <1>3, <1>6 DEF Noted, field
<1> QED BY <1>5, <1>6

LEMMA SecondField ==
  ASSUME NEW statuses, NEW field
  PROVE  ReadField([statuses |-> statuses, skip |-> TRUE], field) = Between(statuses)
<1> DEFINE read == [statuses |-> statuses, skip |-> TRUE]
<1>1. read.skip = TRUE /\ read.statuses = statuses
  OBVIOUS
<1> HIDE DEF read
<1>2. ReadField(read, field) = [statuses |-> read.statuses, skip |-> FALSE]
  BY <1>1, Zenon DEF ReadField
<1> QED BY <1>1, <1>2 DEF read, Between

\* One entry more.
LEMMA StatusesGrow ==
  ASSUME NEW entries, NEW n \in Nat
  PROVE  StatusesUpTo(entries, n + 1) = Noted(StatusesUpTo(entries, n), entries[n + 1])
<1> DEFINE e == entries[n + 1]
           kind(i) == Kind(entries[i].x, entries[i].y)
           old == Known(entries, n)
           new == Known(entries, n + 1)
           LastOf(known, p) == CHOOSE i \in known : /\ entries[i].path = p
                                                    /\ \A j \in known : entries[j].path = p => j <= i
           Paths0(known) == {entries[i].path : i \in known}
           Found(known) == [p \in Paths0(known) |-> kind(LastOf(known, p))]
<1>1. StatusesUpTo(entries, n) = Found(old) /\ StatusesUpTo(entries, n + 1) = Found(new)
  BY DEF StatusesUpTo
<1>2. CASE kind(n + 1) = "clean"
  <2>1. new = old
    BY <1>2 DEF Known
  <2>2. Noted(StatusesUpTo(entries, n), e) = StatusesUpTo(entries, n)
    BY <1>2, Zenon DEF Noted
  <2> HIDE DEF Found, old, new
  <2> QED BY <1>1, <2>1, <2>2
<1>3. CASE kind(n + 1) # "clean"
  <2>1. new = old \cup {n + 1} /\ n + 1 \notin old /\ \A i \in old : i \in Nat /\ i < n + 1
    BY <1>3 DEF Known
  <2> HIDE DEF old, new
  <2>2. Paths0(new) = Paths0(old) \cup {e.path}
    BY <2>1
  <2>3. LastOf(new, e.path) = n + 1
    <3>1. n + 1 \in new /\ \A j \in new : j \in Nat /\ j <= n + 1
      BY <2>1
    <3>2. \A i \in new : (\A j \in new : entries[j].path = e.path => j <= i) => i = n + 1
      BY <3>1
    <3> QED BY <3>1, <3>2
  <2>4. ASSUME NEW p, p # e.path PROVE LastOf(new, p) = LastOf(old, p)
    <3>1. \A i : (/\ i \in new /\ entries[i].path = p /\ \A j \in new : entries[j].path = p => j <= i)
             <=> (/\ i \in old /\ entries[i].path = p /\ \A j \in old : entries[j].path = p => j <= i)
      BY <2>1, <2>4
    <3> QED BY <3>1
  <2> HIDE DEF LastOf, Paths0
  <2>5. Found(new) = With(Found(old), e.path, kind(n + 1))
    <3>1. DOMAIN Found(old) = Paths0(old)
      OBVIOUS
    <3>2. ASSUME NEW p \in Paths0(new)
          PROVE  kind(LastOf(new, p)) = IF p = e.path THEN kind(n + 1) ELSE Found(old)[p]
      <4>1. CASE p = e.path
        BY <2>3, <4>1
      <4>2. CASE p # e.path
        <5>1. p \in Paths0(old)
          BY <2>2, <4>2
        <5> QED BY <2>4, <4>2, <5>1
      <4> QED BY <4>1, <4>2
    <3> HIDE DEF kind
    <3> QED BY <2>2, <3>1, <3>2 DEF With
  <2> QED BY <1>1, <1>3, <2>5 DEF Noted
<1> QED BY <1>2, <1>3

LEMMA WithinMore ==
  ASSUME NEW m \in Nat, NEW x \in 1 .. m
  PROVE  x \in 0 .. m + 1 /\ x # 0
OBVIOUS

\* Entries as git prints them, each with a status that is known if it has two fields.
Readable(entries) ==
  /\ IsSeq(entries)
  /\ \A i \in DOMAIN entries :
       /\ IsSeq(entries[i].path) /\ entries[i].path # <<>>
       /\ IsRenameOrCopy(entries[i].x, entries[i].y) => Kind(entries[i].x, entries[i].y) # "clean"

\* Reading what git prints gives the statuses of the entries.
LEMMA StatusesExact ==
  ASSUME NEW entries, Readable(entries)
  PROVE  LoadGitStatuses(Fields(entries)) = StatusesOf(entries)
<1> DEFINE k == Len(entries)
           T == {Printed(entries[i])[j] : i \in 1 .. k, j \in 1 .. 2} \cup {<<>>}
           Two(i) == IsRenameOrCopy(entries[i].x, entries[i].y)
           fields == Fields(entries)
           parts == [i \in DOMAIN entries |-> Printed(entries[i])]
<1>1. k \in Nat /\ DOMAIN entries = 1 .. k
  BY DEF Readable, IsSeq
<1>2. fields = Append(FlattenSeq(parts), <<>>)
  BY DEF Fields
<1>3. \A n \in 1 .. k : /\ IsSeq(entries[n].path) /\ entries[n].path # <<>>
                        /\ Two(n) => Kind(entries[n].x, entries[n].y) # "clean"
  BY <1>1 DEF Readable
<1>4. ASSUME NEW n \in 1 .. k
      PROVE  Printed(entries[n]) \in Seq(T) /\ Len(Printed(entries[n])) = IF Two(n) THEN 2 ELSE 1
  <2> DEFINE s == Printed(entries[n])
  <2>1. PICK a, b : s = IF Two(n) THEN <<a, b>> ELSE <<a>>
    BY <1>3, PrintedParts
  <2>2. s[1] \in T /\ s[2] \in T
    OBVIOUS
  <2> HIDE DEF s, T, Two
  <2>3. CASE Two(n)
    <3>1. s = <<a, b>>
      BY <2>1, <2>3
    <3> QED BY <2>2, <2>3, <3>1 DEF s
  <2>4. CASE ~Two(n)
    <3>1. s = <<a>>
      BY <2>1, <2>4
    <3> QED BY <2>2, <2>4, <3>1 DEF s
  <2> QED BY <2>3, <2>4
<1>5. <<>> \in T
  OBVIOUS
<1> HIDE DEF k, T, fields
<1>6. parts \in Seq(Seq(T)) /\ Len(parts) = k /\ \A n \in 1 .. k : parts[n] = Printed(entries[n])
  <2>1. parts = [i \in 1 .. k |-> Printed(entries[i])] /\ \A i \in 1 .. k : parts[i] \in Seq(T)
    BY <1>1, <1>4
  <2> HIDE DEF parts
  <2> QED BY <1>1, <2>1
<1> HIDE DEF parts
<1>7. PICK out : fields = Append(out[k], <<>>) /\ Joins(parts, k, out)
  BY <1>2, <1>6, FlattenUnfolds
<1>8. \A n \in 0 .. k : out[n] = IF n = 0 THEN <<>> ELSE out[n - 1] \o Printed(entries[n])
  BY <1>6, <1>7 DEF Joins
<1>9. \A n \in 0 .. k : out[n] \in Seq(T) /\ Begins(out, n, k)
  <2>1. \A n \in 1 .. k : parts[n] \in Seq(T)
    BY <1>4, <1>6
  <2> QED BY <1>1, <1>7, <2>1, JoinedGrow
<1>10. /\ fields \in Seq(T) /\ Len(fields) = Len(out[k]) + 1 /\ fields[Len(fields)] = <<>>
       /\ \A i \in 1 .. Len(out[k]) : fields[i] = out[k][i]
  <2>1. out[k] \in Seq(T)
    BY <1>1, <1>9
  <2> QED BY <1>5, <1>7, <2>1
<1>11. Len(fields) \in Nat
  BY <1>10
<1>12. PICK read : /\ LoadGitStatuses(fields) = read[Len(fields)].statuses
                  /\ \A n \in 0 .. Len(fields) :
                       read[n] = IF n = 0 THEN NothingRead ELSE ReadField(read[n - 1], fields[n])
  BY <1>11, ReadUnfolds
<1>13. \A n \in 0 .. k : Len(out[n]) \in Nat
  BY <1>9
<1> DEFINE Place(n) == Len(out[n])
           Upto(n) == StatusesUpTo(entries, n)
           S == {n \in Nat : n <= k => read[Place(n)] = Between(Upto(n))}
<1>14. 0 \in S
  <2>1. Place(0) = 0
    BY <1>1, <1>8
  <2>2. read[0] = NothingRead
    BY <1>11, <1>12
  <2>3. Upto(0) = [path \in {} |-> "clean"]
    <3>1. Known(entries, 0) = {}
      BY DEF Known
    <3> QED BY <3>1 DEF StatusesUpTo
  <2>4. NothingRead = Between(Upto(0))
    BY <2>3, Zenon DEF NothingRead, Between
  <2> HIDE DEF Upto
  <2> QED BY <2>1, <2>2, <2>4
<1>15. ASSUME NEW n \in Nat, n \in S PROVE n + 1 \in S
  <2> SUFFICES ASSUME n + 1 <= k PROVE read[Place(n + 1)] = Between(Upto(n + 1))
    OBVIOUS
  <2> DEFINE e == entries[n + 1]
             s == Printed(entries[n + 1])
  <2>1. n + 1 \in 1 .. k /\ n + 1 \in 0 .. k /\ n \in 0 .. k /\ n + 1 # 0 /\ (n + 1) - 1 = n
    BY <1>1
  <2>2. read[Place(n)] = Between(Upto(n))
    BY <1>15, <2>1
  <2>3. Upto(n + 1) = Noted(Upto(n), e)
    BY StatusesGrow
  <2>4. s \in Seq(T) /\ Len(s) = (IF Two(n + 1) THEN 2 ELSE 1) /\ out[n + 1] = out[n] \o s
    BY <1>4, <1>8, <2>1
  <2>5. IsSeq(e.path) /\ e.path # <<>> /\ (Two(n + 1) => Kind(e.x, e.y) # "clean")
    BY <1>3, <2>1
  <2>6. ReadField(Between(Upto(n)), s[1]) = [statuses |-> Noted(Upto(n), e), skip |-> Two(n + 1)]
    <3> HIDE DEF Upto
    <3> QED BY <2>5, FirstField
  <2>7. Place(n) \in Nat /\ Place(n + 1) \in Nat /\ Place(n + 1) <= Len(out[k]) /\ Len(out[k]) \in Nat
    BY <1>1, <1>9, <1>13, <2>1 DEF Begins
  <2>8. out[n] \in Seq(T)
    BY <1>9, <2>1
  <2>9. Place(n + 1) = Place(n) + Len(s) /\ \A i \in 1 .. Len(s) : out[n + 1][Place(n) + i] = s[i]
    <3> DEFINE o == out[n]
    <3> HIDE DEF o, s
    <3>1. o \in Seq(T) /\ s \in Seq(T) /\ out[n + 1] = o \o s
      BY <2>4, <2>8 DEF o
    <3>2. Len(out[n + 1]) = Len(o) + Len(s) /\ \A i \in 1 .. Len(s) : out[n + 1][Len(o) + i] = s[i]
      BY <3>1, Joining
    <3> QED BY <3>2 DEF o
  <2>10. \A i \in 1 .. Len(s) : /\ fields[Place(n) + i] = s[i] /\ Place(n) + i \in 0 .. Len(fields)
                                /\ Place(n) + i # 0
    <3> SUFFICES ASSUME NEW i \in 1 .. Len(s)
                 PROVE  /\ fields[Place(n) + i] = s[i] /\ Place(n) + i \in 0 .. Len(fields)
                        /\ Place(n) + i # 0
      OBVIOUS
    <3>1. Place(n) + i \in 1 .. Len(out[n + 1])
      <4>1. i \in Nat /\ 1 <= i /\ i <= Len(s)
        BY <2>4
      <4> HIDE DEF s
      <4>2. Place(n + 1) \in Nat /\ Place(n) \in Nat /\ Place(n + 1) = Place(n) + Len(s)
        BY <2>7, <2>9
      <4>3. Len(s) \in Nat
        BY <2>4
      <4> HIDE DEF Place
      <4>4. Place(n) + i \in 1 .. Place(n + 1)
        BY <4>1, <4>2, <4>3
      <4> QED BY <4>4 DEF Place
    <3>2. Place(n) + i \in 1 .. Len(out[k])
      BY <2>7, <3>1
    <3>3. out[k][Place(n) + i] = out[n + 1][Place(n) + i]
      BY <1>9, <2>1, <3>1 DEF Begins
    <3> HIDE DEF s
    <3>4. fields[Place(n) + i] = s[i]
      BY <1>10, <2>9, <3>2, <3>3
    <3>5. Len(fields) = Len(out[k]) + 1 /\ Len(out[k]) \in Nat
      BY <1>10, <2>7
    <3> HIDE DEF Place
    <3>6. Place(n) + i \in 0 .. Len(fields) /\ Place(n) + i # 0
      BY <3>2, <3>5, WithinMore
    <3> QED BY <3>4, <3>6
  <2> HIDE DEF Upto, Place, e, s
  <2>11. 1 \in 1 .. Len(s)
    BY <2>4
  <2>12. read[Place(n) + 1] = [statuses |-> Noted(Upto(n), e), skip |-> Two(n + 1)]
    <3>1. (Place(n) + 1) - 1 = Place(n)
      BY <2>7 DEF Place
    <3>2. read[Place(n) + 1] = ReadField(read[Place(n)], s[1])
      BY <1>12, <2>10, <2>11, <3>1
    <3> QED BY <2>2, <2>6, <3>2
  <2>13. CASE ~Two(n + 1)
    <3>1. Place(n + 1) = Place(n) + 1
      BY <2>4, <2>9, <2>13
    <3>2. Two(n + 1) = FALSE
      BY <2>13 DEF IsRenameOrCopy
    <3> QED BY <2>3, <2>12, <3>1, <3>2 DEF Between
  <2>14. CASE Two(n + 1)
    <3>1. Place(n + 1) = Place(n) + 2 /\ 2 \in 1 .. Len(s)
      BY <2>4, <2>9, <2>14
    <3>2. (Place(n) + 2) - 1 = Place(n) + 1
      BY <2>7 DEF Place
    <3>3. read[Place(n) + 2] = ReadField(read[Place(n) + 1], s[2])
      BY <1>12, <2>10, <3>1, <3>2
    <3>4. Two(n + 1) = TRUE
      BY <2>14 DEF IsRenameOrCopy
    <3>5. ReadField([statuses |-> Noted(Upto(n), e), skip |-> TRUE], s[2]) = Between(Noted(Upto(n), e))
      BY SecondField
    <3> QED BY <2>3, <2>12, <3>1, <3>3, <3>4, <3>5
  <2> QED BY <2>13, <2>14
<1>16. read[Place(k)] = Between(Upto(k))
  <2>1. k \in S
    <3> HIDE DEF S
    <3> QED BY <1>1, <1>14, <1>15, SetInduction
  <2> HIDE DEF Upto, Place
  <2> QED BY <1>1, <2>1
<1>17. read[Len(fields)] = ReadField(Between(Upto(k)), <<>>)
  <2>1. Len(fields) \in 0 .. Len(fields) /\ Len(fields) # 0 /\ Len(fields) - 1 = Place(k)
    BY <1>1, <1>10, <1>11, <1>13
  <2> HIDE DEF Upto, Place
  <2> QED BY <1>10, <1>12, <1>16, <2>1
<1>18. ReadField(Between(Upto(k)), <<>>) = Between(Upto(k))
  <2> HIDE DEF Upto
  <2>1. Between(Upto(k)).skip = FALSE
    BY DEF Between
  <2>2. Len(<<>>) < 4
    OBVIOUS
  <2> QED BY <2>1, <2>2, Zenon DEF ReadField
<1>19. LoadGitStatuses(fields) = Upto(k)
  <2> HIDE DEF Upto
  <2>1. Between(Upto(k)).statuses = Upto(k)
    BY DEF Between
  <2> QED BY <1>12, <1>17, <1>18, <2>1
<1> QED BY <1>19 DEF StatusesOf, k, fields

------------------------------------------------------------------------------
(****************************************************************************)
(* Lines.  A line is read up to its end however the buffer cuts it, so the  *)
(* places where reading stops are the ends of the spans that LineSpans has; *)
(* by induction from the last line back, the hits found from a line on are  *)
(* the hits among the lines from it on, as many as there is room for.  The  *)
(* ranges of a line go by induction from its last place back.               *)
(****************************************************************************)

\* The least of some numbers.
LEMMA LeastIs ==
  ASSUME NEW S \in SUBSET Nat, S # {}
  PROVE  Least(S) \in S /\ \A i \in S : Least(S) <= i
<1>1. \E i \in S : \A j \in S : i <= j
  BY LeastNumber
<1> QED BY <1>1, Zenon DEF Least

\* A number of the set below which there is none.
LEMMA LeastOne ==
  ASSUME NEW S \in SUBSET Nat, NEW x \in S, \A i \in S : x <= i
  PROVE  Least(S) = x
<1>1. Least(S) \in S /\ Least(S) <= x
  BY LeastIs
<1>2. x <= Least(S) /\ Least(S) \in Nat /\ x \in Nat
  BY <1>1
<1> QED BY <1>1, <1>2

\* The less of two numbers.
LEMMA LeastPair ==
  ASSUME NEW a \in Nat, NEW b \in Nat
  PROVE  Least({a, b}) = IF a <= b THEN a ELSE b
<1>1. CASE a <= b
  BY <1>1, LeastOne
<1>2. CASE ~(a <= b)
  BY <1>2, LeastOne
<1> QED BY <1>1, <1>2

\* Where the line that goes on after place q ends, were nothing cut off.
Breaks(text, q) == {i \in q + 1 .. Len(text) : text[i] = NewLine}
LineEnd(text, q) == Least(Breaks(text, q) \cup {Len(text)})

\* It is the next end of a line, or of the text.
LEMMA LineEndIs ==
  ASSUME NEW text, Len(text) \in Nat, NEW q \in 0 .. Len(text)
  PROVE  /\ LineEnd(text, q) \in Breaks(text, q) \cup {Len(text)}
         /\ LineEnd(text, q) \in q .. Len(text)
         /\ \A i \in Breaks(text, q) \cup {Len(text)} : LineEnd(text, q) <= i
<1> DEFINE S == Breaks(text, q) \cup {Len(text)}
<1>1. S \in SUBSET Nat /\ S # {} /\ \A i \in S : i \in q .. Len(text)
  BY DEF Breaks
<1> HIDE DEF S
<1>2. Least(S) \in S /\ \A i \in S : Least(S) <= i
  BY <1>1, LeastIs
<1> QED BY <1>1, <1>2 DEF LineEnd, S

\* One fragment, when what comes after it is known.
ReadStep(text, bound, f, q) ==
  LET edge == Least({q + ReadSize, Len(text)})
      ends == {i \in q + 1 .. edge : text[i] = NewLine}
      stop == Least(ends \cup {edge})
  IN IF stop >= bound THEN bound
     ELSE IF ends = {} /\ stop = q + ReadSize THEN f[stop] ELSE stop

\* A fragment, and what comes after it, end where the line does.
LEMMA ReadStepEnds ==
  ASSUME NEW text, Len(text) \in Nat, NEW q \in 0 .. Len(text), NEW bound \in Nat, NEW f,
         \A r \in q + 1 .. Len(text) : f[r] = Least({bound, LineEnd(text, r)})
  PROVE  ReadStep(text, bound, f, q) = Least({bound, LineEnd(text, q)})
<1> DEFINE n == Len(text)
           edge == Least({q + ReadSize, n})
           ends == {i \in q + 1 .. edge : text[i] = NewLine}
           stop == Least(ends \cup {edge})
           end == LineEnd(text, q)
<1>1. ReadSize \in Nat \ {0}
  BY LineSizesAssumption
<1>2. edge = IF q + ReadSize <= n THEN q + ReadSize ELSE n
  <2>1. q + ReadSize \in Nat
    BY <1>1
  <2> QED BY <2>1, LeastPair
<1> HIDE DEF edge
<1>3. edge \in q .. n
  BY <1>1, <1>2
<1>4. stop \in ends \cup {edge} /\ stop \in q .. edge /\ \A i \in ends \cup {edge} : stop <= i
  <2> DEFINE S == ends \cup {edge}
  <2>1. S \in SUBSET Nat /\ S # {} /\ \A i \in S : i \in q .. edge
    BY <1>3
  <2> HIDE DEF S
  <2>2. Least(S) \in S /\ \A i \in S : Least(S) <= i
    BY <2>1, LeastIs
  <2> QED BY <2>1, <2>2 DEF S
<1>5. /\ end \in Breaks(text, q) \cup {n} /\ end \in q .. n
      /\ \A i \in Breaks(text, q) \cup {n} : end <= i
  BY LineEndIs
<1>6. ReadStep(text, bound, f, q) =
        IF stop >= bound THEN bound ELSE IF ends = {} /\ stop = q + ReadSize THEN f[stop] ELSE stop
  BY DEF ReadStep, edge
<1>7. \A i \in Breaks(text, q) : i \in ends \/ i > edge
  BY <1>3 DEF Breaks
<1>8. ends \subseteq Breaks(text, q) /\ \A i \in Breaks(text, q) : i \in Nat
  BY <1>3 DEF Breaks
<1>9. \A i \in ends : i <= edge
  BY <1>3
<1> SUFFICES ReadStep(text, bound, f, q) = Least({bound, end})
  OBVIOUS
<1> HIDE DEF ends, stop, end, n
<1>10. n \in Nat /\ end \in Nat /\ stop \in Nat /\ edge \in Nat
  BY <1>3, <1>4, <1>5 DEF n
<1>11. Least({bound, end}) = IF bound <= end THEN bound ELSE end
  BY <1>10, LeastPair
<1>12. CASE ends # {}
  <2>1. stop \in ends
    <3>1. PICK i \in ends : i <= edge
      BY <1>3, <1>8, <1>12, <1>9
    <3>2. stop <= i /\ i \in Nat
      BY <1>4, <1>8
    <3>3. stop = edge => i = edge
      BY <1>10, <3>1, <3>2
    <3> QED BY <1>4, <3>3
  <2>2. end <= stop
    BY <1>5, <1>8, <2>1
  <2>3. stop <= end
    <3>1. CASE end \in ends
      BY <1>4, <3>1
    <3>2. CASE end \notin ends
      <4>1. end = n \/ end > edge
        BY <1>5, <1>7, <3>2
      <4> QED BY <1>3, <1>4, <1>10, <4>1
    <3> QED BY <3>1, <3>2
  <2>4. stop = end
    BY <1>10, <2>2, <2>3
  <2>5. (stop >= bound) <=> (bound <= end)
    BY <1>10, <2>4
  <2> QED BY <1>6, <1>11, <1>12, <2>4, <2>5, Zenon
<1>13. CASE ends = {}
  <2>1. stop = edge
    BY <1>4, <1>13
  <2>2. edge <= end
    <3>1. end = n \/ end > edge
      BY <1>5, <1>7, <1>13
    <3> QED BY <1>3, <1>10, <3>1
  <2>3. CASE stop >= bound
    <3>1. bound <= end
      BY <1>10, <2>1, <2>2, <2>3
    <3> QED BY <1>6, <1>11, <2>3, <3>1, Zenon
  <2>4. CASE ~(stop >= bound) /\ stop = q + ReadSize
    <3>1. stop \in q + 1 .. n
      BY <1>1, <1>3, <1>10, <2>1, <2>4
    <3>2. f[stop] = Least({bound, LineEnd(text, stop)})
      BY <3>1 DEF n
    <3>3. Breaks(text, stop) = Breaks(text, q)
      <4>1. ASSUME NEW i PROVE i \in Breaks(text, q) <=> i \in Breaks(text, stop)
        <5>1. i \in Breaks(text, q) => i > stop
          BY <1>7, <1>13, <2>1
        <5>2. i \in Breaks(text, q) => i \in stop + 1 .. Len(text) /\ text[i] = NewLine
          BY <1>10, <3>1, <5>1 DEF Breaks
        <5>3. i \in Breaks(text, stop) => i \in q + 1 .. Len(text) /\ text[i] = NewLine
          BY <1>10, <3>1 DEF Breaks
        <5> QED BY <5>2, <5>3 DEF Breaks
      <4> QED BY <4>1
    <3>4. LineEnd(text, stop) = end
      BY <3>3 DEF LineEnd, end
    <3> QED BY <1>6, <1>13, <2>4, <3>2, <3>4, Zenon
  <2>5. CASE ~(stop >= bound) /\ stop # q + ReadSize
    <3>1. stop = n
      BY <1>2, <2>1, <2>5 DEF n
    <3>2. end = stop
      BY <1>5, <1>10, <2>1, <2>2, <3>1
    <3>3. ~(bound <= end)
      BY <1>10, <2>5, <3>2
    <3> QED BY <1>6, <1>11, <2>5, <3>2, <3>3, Zenon
  <2> QED BY <2>3, <2>4, <2>5
<1> QED BY <1>12, <1>13, Zenon

\* However the buffer cuts it, a line is read up to its end or to the limit.
LEMMA ReadLineExact ==
  ASSUME NEW text, Len(text) \in Nat, NEW p \in 0 .. Len(text), NEW left \in Nat
  PROVE  ReadLine(text, p, left) = Least({p + left, LineEnd(text, p)})
<1> DEFINE n == Len(text)
           bound == p + left
           Step(f, q) == ReadStep(text, bound, f, q)
           read == CHOOSE f : f = [q \in p .. n |-> Step(f, q)]
           Ends(q) == Least({bound, LineEnd(text, q)})
           h == [q \in p .. n |-> Ends(q)]
<1>1. ReadLine(text, p, left) = read[p]
  BY DEF ReadLine, ReadStep
<1>2. bound \in Nat /\ p \in p .. n /\ \A q \in p .. n : q \in 0 .. n
  OBVIOUS
<1> HIDE DEF bound
<1>3. \A q \in p .. n : Ends(q) = Step(h, q)
  <2> SUFFICES ASSUME NEW q \in p .. n PROVE Ends(q) = Step(h, q)
    OBVIOUS
  <2>1. \A r \in q + 1 .. n : h[r] = Ends(r)
    OBVIOUS
  <2> HIDE DEF h
  <2> QED BY <1>2, <2>1, ReadStepEnds
<1>4. h = [q \in p .. n |-> Step(h, q)]
  <2> HIDE DEF Step, Ends
  <2> QED BY <1>3
<1>5. read = [q \in p .. n |-> Step(read, q)]
  <2> HIDE DEF Step, h
  <2> QED BY <1>4
<1> HIDE DEF read
<1>6. \A q \in p .. n : read[q] = Step(read, q)
  <2> HIDE DEF Step
  <2> QED BY <1>5
<1> DEFINE S == {d \in Nat : \A q \in p .. n : n - q <= d => read[q] = Ends(q)}
<1>7. 0 \in S
  <2> SUFFICES ASSUME NEW q \in p .. n, n - q <= 0 PROVE read[q] = Ends(q)
    OBVIOUS
  <2>1. q \in 0 .. n /\ \A r \in q + 1 .. n : read[r] = Ends(r)
    OBVIOUS
  <2> QED BY <1>2, <1>6, <2>1, ReadStepEnds
<1>8. ASSUME NEW d \in Nat, d \in S PROVE d + 1 \in S
  <2> SUFFICES ASSUME NEW q \in p .. n, n - q <= d + 1 PROVE read[q] = Ends(q)
    OBVIOUS
  <2>1. \A r \in q + 1 .. n : r \in p .. n /\ n - r <= d
    OBVIOUS
  <2>2. q \in 0 .. n /\ \A r \in q + 1 .. n : read[r] = Ends(r)
    BY <1>8, <2>1
  <2> QED BY <1>2, <1>6, <2>2, ReadStepEnds
<1>9. Nat \subseteq S
  <2> HIDE DEF S
  <2> QED BY <1>7, <1>8, SetInduction
<1>10. read[p] = Ends(p)
  <2>1. n - p \in Nat /\ n - p <= n - p
    OBVIOUS
  <2> HIDE DEF Ends
  <2> QED BY <1>2, <1>9, <2>1
<1> QED BY <1>1, <1>10 DEF bound

\* A part of a folded text is the part, folded.
LEMMA FoldedPart ==
  ASSUME NEW A, NEW t \in Seq(A), NEW a \in 1 .. Len(t) + 1, NEW b \in 0 .. Len(t)
  PROVE  /\ Folded(t) = [i \in 1 .. Len(t) |-> Lower[t[i]]] /\ Len(Folded(t)) = Len(t)
         /\ Folded(SubSeq(t, a, b)) = SubSeq(Folded(t), a, b)
<1> DEFINE part == SubSeq(t, a, b)
           fold == [i \in 1 .. Len(t) |-> Lower[t[i]]]
           n == IF a <= b THEN b - a + 1 ELSE 0
<1>1. t \in [1 .. Len(t) -> A] /\ Len(t) \in Nat /\ DOMAIN t = 1 .. Len(t)
  OBVIOUS
<1>2. Folded(t) = fold
  BY <1>1 DEF Folded
<1>3. fold \in Seq({Lower[c] : c \in A}) /\ Len(fold) = Len(t)
  BY <1>1
<1>4. part = [i \in 1 .. n |-> t[a + i - 1]]
  OBVIOUS
<1>5. SubSeq(fold, a, b) = [i \in 1 .. n |-> fold[a + i - 1]]
  <2> HIDE DEF fold
  <2> QED BY <1>3
<1>6. \A i \in 1 .. n : a + i - 1 \in 1 .. Len(t)
  BY <1>1
<1>7. Folded(part) = [i \in 1 .. n |-> Lower[t[a + i - 1]]]
  <2> HIDE DEF part, n
  <2> QED BY <1>4 DEF Folded
<1>8. SubSeq(fold, a, b) = [i \in 1 .. n |-> Lower[t[a + i - 1]]]
  <2>1. \A i \in 1 .. n : fold[a + i - 1] = Lower[t[a + i - 1]]
    BY <1>6
  <2> HIDE DEF fold, n
  <2> QED BY <1>5, <2>1
<1> QED BY <1>2, <1>3, <1>7, <1>8

\* The range r of the line is the token, in whichever case counts.
Shows(line, r, tok, ci) ==
  LET part == SubSeq(line, r[1] + 1, r[2])
  IN part = tok \/ (ci /\ Folded(part) = tok)

\* Where a line matches the token from start on, in whichever case counts.
Nowhere(line, tok, start, ci) ==
  Starts(line, tok, start) = {} /\ (ci => Starts(Folded(line), tok, start) = {})

\* What the search for the token finds from start on: place i.
FoundAt(line, tok, start, ci, i) ==
  /\ FindFirst(line, tok, start, ci) = <<i, i + Len(tok)>>
  /\ Shows(line, <<i, i + Len(tok)>>, tok, ci)
  /\ \A j \in Starts(line, tok, start) : i <= j

\* The search for a token finds a place if there is one.
LEMMA FindFirstExact ==
  ASSUME NEW A, NEW line \in Seq(A), NEW tok \in Seq(A), tok # <<>>,
         NEW ci, ci => Folded(tok) = tok,
         NEW start \in 0 .. Len(line)
  PROVE  /\ FindFirst(line, tok, start, ci) = <<>> <=> Nowhere(line, tok, start, ci)
         /\ FindFirst(line, tok, start, ci) # <<>> =>
              \E i \in start .. Len(line) - Len(tok) : FoundAt(line, tok, start, ci, i)
<1> DEFINE exact == Starts(line, tok, start)
           other == Starts(Folded(line), tok, start)
           folded == IF ci THEN Starts(Folded(line), Folded(tok), start) ELSE {}
           found == IF exact = {} THEN folded ELSE exact
           n == Len(line)
           m == Len(tok)
           first == Least(found)
<1>1. n \in Nat /\ m \in Nat /\ m > 0 /\ Len(Folded(line)) = n
  BY FoldedPart
<1>2. folded = IF ci THEN other ELSE {}
  OBVIOUS
<1>3. FindFirst(line, tok, start, ci) = IF found = {} THEN <<>> ELSE <<first, first + m>>
  BY DEF FindFirst
<1>4. \A i \in exact : i \in start .. n - m /\ SubSeq(line, i + 1, i + m) = tok
  BY DEF Starts
<1>5. \A i \in other : i \in start .. n - m /\ SubSeq(Folded(line), i + 1, i + m) = tok
  BY <1>1 DEF Starts
<1>6. Nowhere(line, tok, start, ci) <=> found = {}
  <2> HIDE DEF exact, other, folded
  <2>1. Nowhere(line, tok, start, ci) <=> exact = {} /\ (ci => other = {})
    BY DEF Nowhere, exact, other
  <2> QED BY <1>2, <2>1, Zenon
<1> HIDE DEF exact, other, folded
<1>7. ASSUME found # {}
      PROVE  first \in found /\ first \in start .. n - m /\ \A j \in found : first <= j
  <2>1. \A i \in found : i \in start .. n - m
    BY <1>2, <1>4, <1>5, Zenon
  <2> HIDE DEF found, n, m
  <2>2. \A i \in found : i \in Nat
    BY <1>1, <2>1 DEF n, m
  <2>3. Least(found) \in found /\ \A j \in found : Least(found) <= j
    BY <1>7, <2>2, LeastIs
  <2> QED BY <2>1, <2>3
<1>8. ASSUME NEW i \in start .. n - m, SubSeq(Folded(line), i + 1, i + m) = tok
      PROVE  Folded(SubSeq(line, i + 1, i + m)) = tok
  <2>1. i + 1 \in 1 .. Len(line) + 1 /\ i + m \in 0 .. Len(line)
    BY <1>1
  <2> QED BY <1>8, <2>1, FoldedPart
<1>9. ASSUME found # {} PROVE Shows(line, <<first, first + m>>, tok, ci)
  <2>1. CASE exact # {}
    <3>1. SubSeq(line, first + 1, first + m) = tok
      BY <1>4, <1>7, <1>9, <2>1
    <3> QED BY <3>1 DEF Shows
  <2>2. CASE exact = {}
    <3>1. ci /\ first \in other
      BY <1>2, <1>7, <1>9, <2>2
    <3>2. Folded(SubSeq(line, first + 1, first + m)) = tok
      BY <1>5, <1>8, <3>1
    <3> HIDE DEF first
    <3> QED BY <3>1, <3>2 DEF Shows
  <2> QED BY <2>1, <2>2
<1>10. ASSUME found # {} PROVE \A j \in exact : first <= j
  <2>1. CASE exact # {}
    BY <1>7, <1>10, <2>1
  <2>2. CASE exact = {}
    BY <2>2
  <2> QED BY <2>1, <2>2
<1>11. CASE found = {}
  BY <1>3, <1>6, <1>11
<1>12. CASE found # {}
  <2> HIDE DEF found, first
  <2>1. FindFirst(line, tok, start, ci) = <<first, first + m>>
    BY <1>3, <1>12
  <2>2. \A j \in Starts(line, tok, start) : first <= j
    BY <1>10, <1>12 DEF exact
  <2>3. FoundAt(line, tok, start, ci, first)
    BY <1>9, <1>12, <2>1, <2>2 DEF FoundAt
  <2>4. FindFirst(line, tok, start, ci) # <<>>
    BY <2>1
  <2> QED BY <1>6, <1>7, <1>12, <2>3, <2>4
<1> QED BY <1>11, <1>12

\* One more element in front.
LEMMA Prepended ==
  ASSUME NEW T, NEW x \in T, NEW rest \in Seq(T)
  PROVE  /\ <<x>> \o rest \in Seq(T)
         /\ Len(<<x>> \o rest) = Len(rest) + 1
         /\ (<<x>> \o rest)[1] = x
         /\ \A k \in 1 .. Len(rest) : (<<x>> \o rest)[k + 1] = rest[k]
OBVIOUS

\* One more match, when what comes after it is known.
FindStep(line, tok, ci, f, start) ==
  LET match == FindFirst(line, tok, start, ci)
  IN IF match = <<>> THEN <<>> ELSE <<match>> \o f[match[2]]

\* One more match depends on what comes after it only.
LEMMA FindStepLater ==
  ASSUME NEW A, NEW line \in Seq(A), NEW tok \in Seq(A), tok # <<>>,
         NEW ci, ci => Folded(tok) = tok,
         NEW start \in 0 .. Len(line), NEW f, NEW g,
         \A s \in start + 1 .. Len(line) : f[s] = g[s]
  PROVE  FindStep(line, tok, ci, f, start) = FindStep(line, tok, ci, g, start)
<1> DEFINE match == FindFirst(line, tok, start, ci)
<1>1. CASE match = <<>>
  BY <1>1 DEF FindStep
<1>2. CASE match # <<>>
  <2>1. PICK i \in start .. Len(line) - Len(tok) : match = <<i, i + Len(tok)>>
    BY <1>2, FindFirstExact DEF FoundAt
  <2>2. match[2] \in start + 1 .. Len(line)
    <3>1. Len(tok) \in Nat /\ Len(tok) > 0
      OBVIOUS
    <3> HIDE DEF match
    <3> QED BY <2>1, <3>1
  <2>3. f[match[2]] = g[match[2]]
    BY <2>2
  <2> HIDE DEF match
  <2> QED BY <2>3 DEF FindStep, match
<1> QED BY <1>1, <1>2

\* The search for every match is what it is defined to be.
LEMMA FindAllUnfolds ==
  ASSUME NEW A, NEW line \in Seq(A), NEW tok \in Seq(A), tok # <<>>, NEW ci, ci => Folded(tok) = tok
  PROVE  \E f : /\ FindAll(line, tok, ci) = f[0]
                /\ \A s \in 0 .. Len(line) : f[s] = FindStep(line, tok, ci, f, s)
<1> DEFINE n == Len(line)
           Step(f, s) == FindStep(line, tok, ci, f, s)
           all == CHOOSE f : f = [s \in 0 .. n |-> Step(f, s)]
           S == {d \in Nat : \E f : \A s \in 0 .. n : n - s < d => f[s] = Step(f, s)}
<1>1. FindAll(line, tok, ci) = all[0]
  BY DEF FindAll, FindStep
<1>2. n \in Nat
  OBVIOUS
<1>3. \A f, g : \A s \in 0 .. n : (\A r \in s + 1 .. n : f[r] = g[r]) => Step(f, s) = Step(g, s)
  BY FindStepLater
<1> HIDE DEF Step, n
<1>4. 0 \in S
  BY <1>2
<1>5. ASSUME NEW d \in Nat, d \in S PROVE d + 1 \in S
  <2>1. PICK f : \A s \in 0 .. n : n - s < d => f[s] = Step(f, s)
    BY <1>5
  <2> DEFINE g == [s \in 0 .. n |-> IF n - s < d THEN f[s] ELSE Step(f, s)]
  <2>2. \A s \in 0 .. n : n - s < d => g[s] = f[s]
    OBVIOUS
  <2>3. \A s \in 0 .. n : g[s] = Step(f, s)
    BY <2>1
  <2> HIDE DEF g
  <2>4. ASSUME NEW s \in 0 .. n, n - s < d + 1 PROVE g[s] = Step(g, s)
    <3>1. \A r \in s + 1 .. n : r \in 0 .. n /\ n - r < d
      BY <1>2, <2>4
    <3>2. Step(g, s) = Step(f, s)
      BY <1>3, <2>2, <3>1
    <3> QED BY <2>3, <3>2
  <2> QED BY <2>4
<1>6. n + 1 \in S
  <2>1. Nat \subseteq S
    <3> HIDE DEF S
    <3> QED BY <1>4, <1>5, SetInduction
  <2> HIDE DEF S
  <2> QED BY <1>2, <2>1
<1>7. PICK f : \A s \in 0 .. n : n - s < n + 1 => f[s] = Step(f, s)
  BY <1>6
<1> DEFINE h == [s \in 0 .. n |-> f[s]]
<1>8. h = [s \in 0 .. n |-> Step(h, s)]
  <2>1. ASSUME NEW s \in 0 .. n PROVE f[s] = Step(h, s)
    <3>1. n - s < n + 1 /\ \A r \in s + 1 .. n : r \in 0 .. n
      BY <1>2
    <3>2. \A r \in s + 1 .. n : h[r] = f[r]
      BY <3>1
    <3> HIDE DEF h
    <3>3. Step(h, s) = Step(f, s)
      BY <1>3, <3>2
    <3> QED BY <1>7, <3>1, <3>3
  <2>2. h = [s \in 0 .. n |-> f[s]]
    OBVIOUS
  <2> HIDE DEF h
  <2> QED BY <2>1, <2>2
<1>9. all = [s \in 0 .. n |-> Step(all, s)]
  <2> HIDE DEF h
  <2> QED BY <1>8
<1>10. \A s \in 0 .. n : all[s] = Step(all, s)
  <2> HIDE DEF all
  <2> QED BY <1>9
<1> HIDE DEF all
<1> QED BY <1>1, <1>10 DEF Step, n

\* Ranges of the line from start on: each shows the token, they come in order
\* without overlapping, and leave no exact occurrence out.
GoodRanges(line, tok, ci, start, ms) ==
  /\ ms \in Seq(Nat \X Nat)
  /\ \A k \in DOMAIN ms : start <= ms[k][1] /\ Shows(line, ms[k], tok, ci)
  /\ \A k \in 2 .. Len(ms) : ms[k - 1][2] <= ms[k][1]
  /\ \A i \in Starts(line, tok, start) :
       \E k \in DOMAIN ms : ms[k][1] < i + Len(tok) /\ i < ms[k][2]
  /\ ms = <<>> => Nowhere(line, tok, start, ci)

\* Every match of a token gives such ranges.
LEMMA FindAllRight ==
  ASSUME NEW A, NEW line \in Seq(A), NEW tok \in Seq(A), tok # <<>>, NEW ci, ci => Folded(tok) = tok
  PROVE  GoodRanges(line, tok, ci, 0, FindAll(line, tok, ci))
<1>1. PICK f : /\ FindAll(line, tok, ci) = f[0]
               /\ \A s \in 0 .. Len(line) : f[s] = FindStep(line, tok, ci, f, s)
  BY FindAllUnfolds
<1> DEFINE n == Len(line)
           m == Len(tok)
           Right(s) == GoodRanges(line, tok, ci, s, f[s])
           S == {d \in Nat : \A s \in 0 .. n : n - s < d => Right(s)}
<1>2. n \in Nat /\ m \in Nat /\ m > 0
  OBVIOUS
<1>3. ASSUME NEW s \in 0 .. n, \A r \in s + 1 .. n : Right(r) PROVE Right(s)
  <2> DEFINE match == FindFirst(line, tok, s, ci)
  <2>1. CASE match = <<>>
    <3>1. f[s] = <<>>
      BY <1>1, <2>1 DEF FindStep
    <3>2. Nowhere(line, tok, s, ci)
      BY <2>1, FindFirstExact
    <3>3. Starts(line, tok, s) = {}
      BY <3>2 DEF Nowhere
    <3>4. f[s] \in Seq(Nat \X Nat) /\ Len(f[s]) = 0 /\ DOMAIN f[s] = {}
      BY <3>1
    <3> QED BY <3>2, <3>3, <3>4 DEF GoodRanges
  <2>2. CASE match # <<>>
    <3>1. PICK i \in s .. n - m :
            /\ match = <<i, i + m>>
            /\ Shows(line, <<i, i + m>>, tok, ci)
            /\ \A j \in Starts(line, tok, s) : i <= j
      BY <2>2, FindFirstExact DEF FoundAt
    <3> DEFINE e == i + m
               rest == f[e]
    <3>2. i \in Nat /\ e \in Nat /\ e \in s + 1 .. n /\ i < e /\ s <= i
      BY <1>2, <3>1
    <3>3. f[s] = <<match>> \o f[match[2]]
      BY <1>1, <2>2 DEF FindStep
    <3>4. f[s] = <<<<i, e>>>> \o rest
      <4> HIDE DEF match
      <4> QED BY <3>1, <3>3
    <3>5. Right(e)
      BY <1>3, <3>2
    <3>6. rest \in Seq(Nat \X Nat) /\ Len(rest) \in Nat /\ DOMAIN rest = 1 .. Len(rest)
      BY <3>5 DEF GoodRanges
    <3> HIDE DEF match, e, rest, n, m
    <3>7. /\ f[s] \in Seq(Nat \X Nat)
          /\ Len(f[s]) = Len(rest) + 1
          /\ f[s][1] = <<i, e>>
          /\ \A k \in 1 .. Len(rest) : f[s][k + 1] = rest[k]
      <4>1. <<i, e>> \in Nat \X Nat
        BY <3>2
      <4> QED BY <3>4, <3>6, <4>1, Prepended
    <3>8. DOMAIN f[s] = 1 .. Len(rest) + 1 /\ f[s] # <<>>
      BY <3>6, <3>7
    <3>9. /\ \A k \in 1 .. Len(rest) : e <= rest[k][1] /\ Shows(line, rest[k], tok, ci)
          /\ \A k \in 2 .. Len(rest) : rest[k - 1][2] <= rest[k][1]
          /\ \A j \in Starts(line, tok, e) :
               \E k \in 1 .. Len(rest) : rest[k][1] < j + m /\ j < rest[k][2]
      BY <3>5, <3>6 DEF GoodRanges, rest, m
    <3>10. \A k \in 2 .. Len(rest) + 1 : k - 1 \in 1 .. Len(rest) /\ f[s][k] = rest[k - 1]
      <4>1. ASSUME NEW k \in 2 .. Len(rest) + 1
            PROVE  k - 1 \in 1 .. Len(rest) /\ f[s][k] = rest[k - 1]
        <5>1. k - 1 \in 1 .. Len(rest) /\ k - 1 + 1 = k
          BY <3>6
        <5>2. f[s][k - 1 + 1] = rest[k - 1]
          BY <3>7, <5>1
        <5> QED BY <5>1, <5>2
      <4> QED BY <4>1
    <3>11. ASSUME NEW k \in DOMAIN f[s] PROVE s <= f[s][k][1] /\ Shows(line, f[s][k], tok, ci)
      <4>1. CASE k = 1
        <5>1. f[s][k] = <<i, e>> /\ f[s][k][1] = i
          BY <3>7, <4>1
        <5>2. Shows(line, <<i, e>>, tok, ci)
          BY <3>1, Zenon DEF e
        <5> QED BY <3>2, <5>1, <5>2
      <4>2. CASE k # 1
        <5>1. k \in 2 .. Len(rest) + 1
          BY <3>6, <3>8, <4>2
        <5>2. k - 1 \in 1 .. Len(rest) /\ f[s][k] = rest[k - 1]
          BY <3>10, <5>1
        <5>3. e <= rest[k - 1][1] /\ Shows(line, rest[k - 1], tok, ci)
          BY <3>9, <5>2
        <5>4. rest[k - 1][1] \in Nat
          BY <3>6, <5>2
        <5> QED BY <3>2, <5>2, <5>3, <5>4
      <4> QED BY <4>1, <4>2
    <3>12. ASSUME NEW k \in 2 .. Len(rest) + 1 PROVE f[s][k - 1][2] <= f[s][k][1]
      <4>1. k - 1 \in 1 .. Len(rest) /\ f[s][k] = rest[k - 1]
        BY <3>10
      <4>2. CASE k = 2
        <5>1. f[s][k - 1] = <<i, e>>
          BY <3>7, <4>2
        <5> QED BY <3>9, <4>1, <5>1
      <4>3. CASE k # 2
        <5>1. k - 1 \in 2 .. Len(rest) + 1 /\ k - 1 \in 2 .. Len(rest)
          BY <3>6, <4>3
        <5>2. f[s][k - 1] = rest[k - 1 - 1]
          BY <3>10, <5>1
        <5>3. rest[k - 1 - 1][2] <= rest[k - 1][1]
          BY <3>9, <5>1
        <5> QED BY <4>1, <5>2, <5>3
      <4> QED BY <4>2, <4>3
    <3>13. ASSUME NEW j \in Starts(line, tok, s)
           PROVE  \E k \in DOMAIN f[s] : f[s][k][1] < j + m /\ j < f[s][k][2]
      <4>1. j \in s .. n - m /\ SubSeq(line, j + 1, j + m) = tok /\ i <= j
        BY <3>1 DEF Starts, n, m
      <4>2. CASE j < e
        <5>1. 1 \in DOMAIN f[s] /\ i < j + m
          BY <1>2, <3>2, <3>6, <3>8, <4>1
        <5>2. f[s][1][1] = i /\ f[s][1][2] = e
          BY <3>7
        <5> QED BY <4>2, <5>1, <5>2
      <4>3. CASE ~(j < e)
        <5>1. j \in e .. n - m
          BY <1>2, <3>2, <4>1, <4>3
        <5>2. j \in Starts(line, tok, e)
          BY <4>1, <5>1 DEF Starts, n, m
        <5>3. PICK k \in 1 .. Len(rest) : rest[k][1] < j + m /\ j < rest[k][2]
          BY <3>9, <5>2
        <5>4. f[s][k + 1] = rest[k] /\ k + 1 \in DOMAIN f[s]
          BY <3>6, <3>7, <3>8
        <5> QED BY <5>3, <5>4
      <4> QED BY <4>2, <4>3
    <3> QED BY <3>7, <3>8, <3>11, <3>12, <3>13 DEF GoodRanges, m
  <2> QED BY <2>1, <2>2
<1> HIDE DEF Right, n
<1>4. 0 \in S
  BY <1>2
<1>5. ASSUME NEW d \in Nat, d \in S PROVE d + 1 \in S
  <2> SUFFICES ASSUME NEW s \in 0 .. n, n - s < d + 1 PROVE Right(s)
    OBVIOUS
  <2>1. \A r \in s + 1 .. n : r \in 0 .. n /\ n - r < d
    BY <1>2
  <2> QED BY <1>3, <1>5, <2>1
<1>6. Nat \subseteq S
  <2> HIDE DEF S
  <2> QED BY <1>4, <1>5, SetInduction
<1>7. Right(0)
  <2>1. n + 1 \in S
    <3> HIDE DEF S
    <3> QED BY <1>2, <1>6
  <2>2. 0 \in 0 .. n /\ n - 0 < n + 1
    BY <1>2
  <2> QED BY <2>1, <2>2
<1> QED BY <1>1, <1>7 DEF Right

\* The line has every token, in whichever case counts.
Hit(line, tokens, ci) ==
  \A i \in DOMAIN tokens : Starts(IF ci THEN Folded(line) ELSE line, tokens[i], 0) # {}

\* Tokens are words, in lower case if the case does not count.
Tokens(tokens, ci, A) ==
  /\ tokens \in Seq(Seq(A))
  /\ \A i \in DOMAIN tokens : tokens[i] # <<>> /\ (ci => Folded(tokens[i]) = tokens[i])

\* A line is a hit if it has every token, and its ranges show them.
LEMMA SearchLineRight ==
  ASSUME NEW A, NEW line \in Seq(A), NEW ci, NEW tokens, Tokens(tokens, ci, A), tokens # <<>>,
         NEW no
  PROVE  IF Hit(line, tokens, ci)
         THEN \E ms : LET hit == [no |-> no, text |-> line, matches |-> ms]
                      IN SearchLine(no, line, tokens, ci) = <<hit>> /\ RangesRight(hit, tokens, ci)
         ELSE SearchLine(no, line, tokens, ci) = <<>>
<1> DEFINE all == FindAll(line, tokens[1], ci)
           firsts == [i \in DOMAIN tokens |-> FindFirst(line, tokens[i], 0, ci)]
           ms == IF Len(tokens) = 1 THEN all ELSE firsts
           hit == [no |-> no, text |-> line, matches |-> ms]
<1>1. tokens \in Seq(Seq(A)) /\ Len(tokens) \in Nat \ {0} /\ DOMAIN tokens = 1 .. Len(tokens)
  BY DEF Tokens
<1>2. \A i \in DOMAIN tokens :
        tokens[i] \in Seq(A) /\ tokens[i] # <<>> /\ (ci => Folded(tokens[i]) = tokens[i])
  BY <1>1 DEF Tokens
<1>3. SearchLine(no, line, tokens, ci) = IF Hit(line, tokens, ci) THEN <<hit>> ELSE <<>>
  <2> HIDE DEF all, firsts
  <2>1. Hit(line, tokens, ci) \/ \E i \in DOMAIN tokens :
          Starts(IF ci THEN Folded(line) ELSE line, tokens[i], 0) = {}
    BY Zenon DEF Hit
  <2>2. CASE Hit(line, tokens, ci)
    <3>1. ~\E i \in DOMAIN tokens : Starts(IF ci THEN Folded(line) ELSE line, tokens[i], 0) = {}
      BY <2>2, Zenon DEF Hit
    <3> QED BY <2>2, <3>1 DEF SearchLine, all, firsts
  <2>3. CASE ~Hit(line, tokens, ci)
    BY <2>1, <2>3 DEF SearchLine
  <2> QED BY <2>2, <2>3
<1>4. ASSUME Hit(line, tokens, ci), NEW i \in DOMAIN tokens
      PROVE  ~Nowhere(line, tokens[i], 0, ci)
  BY <1>4 DEF Hit, Nowhere
<1>5. 0 \in 0 .. Len(line)
  OBVIOUS
<1>6. ASSUME Hit(line, tokens, ci), Len(tokens) > 1 PROVE RangesRight(hit, tokens, ci)
  <2>1. ms = firsts
    BY <1>1, <1>6
  <2>2. ASSUME NEW i \in DOMAIN tokens PROVE Shows(line, firsts[i], tokens[i], ci)
    <3> DEFINE tok == tokens[i]
    <3>1. FindFirst(line, tok, 0, ci) # <<>>
      BY <1>2, <1>4, <1>5, <1>6, FindFirstExact
    <3>2. PICK j \in 0 .. Len(line) - Len(tok) : FoundAt(line, tok, 0, ci, j)
      BY <1>2, <1>5, <3>1, FindFirstExact
    <3>3. firsts[i] = <<j, j + Len(tok)>>
      BY <3>2 DEF FoundAt
    <3> HIDE DEF firsts
    <3> QED BY <3>2, <3>3 DEF FoundAt
  <2>3. Len(firsts) = Len(tokens) /\ DOMAIN firsts = DOMAIN tokens
    BY <1>1
  <2> HIDE DEF firsts, ms
  <2>4. hit.text = line /\ hit.matches = firsts
    BY <2>1
  <2> HIDE DEF hit
  <2> QED BY <1>6, <2>2, <2>3, <2>4 DEF RangesRight, Shows
<1>7. ASSUME Hit(line, tokens, ci), ~(Len(tokens) > 1) PROVE RangesRight(hit, tokens, ci)
  <2> DEFINE tok == tokens[1]
  <2>1. 1 \in DOMAIN tokens /\ ms = all
    BY <1>1, <1>7
  <2>2. GoodRanges(line, tok, ci, 0, all)
    BY <1>2, <2>1, FindAllRight
  <2>3. ~Nowhere(line, tok, 0, ci)
    BY <1>4, <1>7, <2>1
  <2> HIDE DEF all, ms, tok
  <2>4. hit.text = line /\ hit.matches = all
    BY <2>1
  <2> HIDE DEF hit
  <2>5. all # <<>> /\ \A k \in DOMAIN all : Shows(line, all[k], tok, ci)
    BY <2>2, <2>3 DEF GoodRanges
  <2>6. (\A k \in 2 .. Len(all) : all[k - 1][2] <= all[k][1]) /\ Covered(all, line, tok)
    BY <2>2 DEF GoodRanges, Covered
  <2> QED BY <1>7, <2>4, <2>5, <2>6 DEF RangesRight, Shows, tok
<1> HIDE DEF ms
<1>8. CASE Hit(line, tokens, ci)
  <2>1. RangesRight(hit, tokens, ci)
    <3> HIDE DEF hit
    <3> QED BY <1>6, <1>7, <1>8
  <2> QED BY <1>3, <1>8, <2>1
<1> QED BY <1>3, <1>8

\* Spans with different beginnings are put in order.
LEMMA SortedProperties ==
  ASSUME NEW n \in Nat, NEW spans \in SUBSET ((0 .. n) \X (0 .. n)),
         \A s, t \in spans : s[1] = t[1] => s = t
  PROVE  /\ Cardinality(spans) \in Nat
         /\ Sorted(spans) \in [1 .. Cardinality(spans) -> spans]
         /\ \A x \in spans : \E k \in 1 .. Cardinality(spans) : Sorted(spans)[k] = x
         /\ \A i, j \in 1 .. Cardinality(spans) :
              i < j <=> Sorted(spans)[i][1] < Sorted(spans)[j][1]
<1> DEFINE less == {p \in spans \X spans : p[1][1] < p[2][1]}
<1>1. \A x, y \in spans : <<x, y>> \in less <=> x[1] < y[1]
  OBVIOUS
<1> HIDE DEF less
<1>2. Orders(less, spans)
  <2>1. \A x \in spans : x[1] \in Int
    OBVIOUS
  <2> QED BY <1>1, <2>1 DEF Orders
<1>3. IsFiniteSet(spans)
  <2>1. IsFiniteSet(0 .. n)
    BY FS_Interval
  <2>2. IsFiniteSet((0 .. n) \X (0 .. n))
    BY <2>1, FS_Product
  <2> QED BY <2>2, FS_Subset
<1>4. /\ Cardinality(spans) \in Nat
      /\ InOrder(spans, less) \in [1 .. Cardinality(spans) -> spans]
      /\ \A x \in spans : \E k \in 1 .. Cardinality(spans) : InOrder(spans, less)[k] = x
      /\ \A i, j \in 1 .. Cardinality(spans) :
           i < j <=> <<InOrder(spans, less)[i], InOrder(spans, less)[j]>> \in less
  BY <1>2, <1>3, InOrderProperties
<1>5. Sorted(spans) = InOrder(spans, less)
  BY DEF Sorted, less
<1> QED BY <1>1, <1>4, <1>5

\* The words of a query are not empty, and in lower case if the query is.
LEMMA WordsRight ==
  ASSUME NEW q \in Seq(DOMAIN Lower), NEW ci, ci => Folded(q) = q
  PROVE  Tokens(Words(q), ci, DOMAIN Lower)
<1> DEFINE n == Len(q)
           edges == {0, n + 1} \cup {i \in DOMAIN q : q[i] = Blank}
           between == {s \in edges \X edges :
                         s[1] + 1 < s[2] /\ \A i \in edges : i <= s[1] \/ i >= s[2]}
           word == Sorted(between)
           c == Cardinality(between)
           part(k) == SubSeq(q, word[k][1] + 1, word[k][2] - 1)
<1>1. n \in Nat /\ DOMAIN q = 1 .. n
  OBVIOUS
<1>2. Words(q) = [k \in DOMAIN word |-> part(k)]
  BY DEF Words
<1>3. edges \subseteq 0 .. n + 1
  BY <1>1
<1> HIDE DEF edges
<1>4. between \in SUBSET ((0 .. n + 1) \X (0 .. n + 1))
  BY <1>3
<1>5. \A s \in between : /\ s = <<s[1], s[2]>> /\ s[2] \in edges /\ s[1] < s[2]
                          /\ \A i \in edges : i <= s[1] \/ i >= s[2]
  <2> SUFFICES ASSUME NEW s \in between
               PROVE  /\ s = <<s[1], s[2]>> /\ s[2] \in edges /\ s[1] < s[2]
                      /\ \A i \in edges : i <= s[1] \/ i >= s[2]
    OBVIOUS
  <2>1. s \in edges \X edges /\ s[1] + 1 < s[2] /\ \A i \in edges : i <= s[1] \/ i >= s[2]
    OBVIOUS
  <2>2. s[1] \in Nat /\ s[2] \in Nat
    BY <1>1, <1>4
  <2> QED BY <2>1, <2>2
<1>6. ASSUME NEW s \in between, NEW t \in between, s[1] = t[1] PROVE s = t
  <2>1. s = <<s[1], s[2]>> /\ s[1] < s[2] /\ (s[2] <= t[1] \/ s[2] >= t[2])
    BY <1>5
  <2>2. t = <<t[1], t[2]>> /\ t[1] < t[2] /\ (t[2] <= s[1] \/ t[2] >= s[2])
    BY <1>5
  <2>3. s[1] \in Nat /\ s[2] \in Nat /\ t[1] \in Nat /\ t[2] \in Nat
    BY <1>1, <1>4
  <2>4. s[2] = t[2]
    BY <1>6, <2>1, <2>2, <2>3
  <2> QED BY <1>6, <2>1, <2>2, <2>4
<1> HIDE DEF n
<1>7. c \in Nat /\ word \in [1 .. c -> between]
  <2> HIDE DEF between
  <2>1. n + 1 \in Nat
    BY <1>1
  <2> QED BY <1>4, <1>6, <2>1, SortedProperties
<1>8. ASSUME NEW k \in 1 .. c
      PROVE  part(k) \in Seq(DOMAIN Lower) /\ part(k) # <<>> /\ (ci => Folded(part(k)) = part(k))
  <2> DEFINE a == word[k][1] + 1
             b == word[k][2] - 1
  <2>1. word[k] \in between
    BY <1>7
  <2>2. word[k][1] \in 0 .. n + 1 /\ word[k][2] \in 0 .. n + 1 /\ word[k][1] + 1 < word[k][2]
    BY <1>4, <2>1
  <2>3. a \in 1 .. n + 1 /\ b \in 0 .. n /\ a <= b
    <3>1. \A x, y \in 0 .. n + 1 :
            x + 1 < y => x + 1 \in 1 .. n + 1 /\ y - 1 \in 0 .. n /\ x + 1 <= y - 1
      BY <1>1
    <3> QED BY <2>2, <3>1
  <2> HIDE DEF a, b
  <2>4. SubSeq(q, a, b) \in Seq(DOMAIN Lower) /\ Len(SubSeq(q, a, b)) = b - a + 1
    BY <1>1, <2>3 DEF n
  <2>5. SubSeq(q, a, b) # <<>>
    BY <1>1, <2>3, <2>4
  <2>6. Folded(SubSeq(q, a, b)) = SubSeq(Folded(q), a, b)
    BY <2>3, FoldedPart DEF n
  <2>7. part(k) = SubSeq(q, a, b)
    BY DEF a, b
  <2> HIDE DEF part
  <2> QED BY <2>4, <2>5, <2>6, <2>7
<1> HIDE DEF part, c
<1>9. Words(q) = [k \in 1 .. c |-> part(k)]
  BY <1>2, <1>7
<1>10. Words(q) \in Seq(Seq(DOMAIN Lower)) /\ DOMAIN Words(q) = 1 .. c
  BY <1>7, <1>8, <1>9
<1> QED BY <1>8, <1>9, <1>10 DEF Tokens

\* The part of a text that is read, and where its lines end.
Size(text) == Least({Len(text), MaxBytes})
Chain(text) == Sorted(LineSpans(text))
LineCount(text) == Cardinality(LineSpans(text))

\* Where the k-th line begins, the end being the beginning of one more.
Begin(text, k) == IF k <= LineCount(text) THEN Chain(text)[k][1] ELSE Size(text)

\* The lines follow each other, and each ends where reading it does.
LEMMA ChainRight ==
  ASSUME NEW text, Len(text) \in Nat
  PROVE  /\ Size(text) \in 0 .. Len(text) /\ Size(text) <= MaxBytes
         /\ Size(text) = Len(text) \/ Size(text) = MaxBytes
         /\ LineCount(text) \in Nat
         /\ DOMAIN Chain(text) = 1 .. LineCount(text)
         /\ Begin(text, 1) = 0 /\ Begin(text, LineCount(text) + 1) = Size(text)
         /\ \A k \in 1 .. LineCount(text) :
              /\ Chain(text)[k] = <<Begin(text, k), Begin(text, k + 1)>>
              /\ Begin(text, k) \in 0 .. Size(text) /\ Begin(text, k) < Begin(text, k + 1)
              /\ Begin(text, k + 1) = Least({MaxBytes, LineEnd(text, Begin(text, k))})
<1> DEFINE size == Size(text)
           breaks == {i \in 1 .. size : text[i] = NewLine}
           spans == LineSpans(text)
           n == LineCount(text)
           all == Chain(text)
           begin(k) == Begin(text, k)
<1>1. MaxBytes \in Nat \ {0}
  BY LineSizesAssumption
<1>2. size = IF Len(text) <= MaxBytes THEN Len(text) ELSE MaxBytes
  BY <1>1, LeastPair DEF Size
<1>3. size \in 0 .. Len(text) /\ size <= MaxBytes /\ (size = Len(text) \/ size = MaxBytes)
  BY <1>1, <1>2
<1>4. spans = {s \in ({0} \cup breaks) \X ({size} \cup breaks) :
                 s[1] < s[2] /\ \A i \in breaks : i <= s[1] \/ i >= s[2]}
  BY DEF LineSpans, Size
<1> HIDE DEF size, spans
<1>5. size \in Nat /\ breaks \subseteq 1 .. size /\ breaks \subseteq Nat
  BY <1>3
<1>6. \A s \in spans :
        /\ s = <<s[1], s[2]>> /\ s[1] \in 0 .. size /\ s[2] \in 0 .. size /\ s[1] < s[2]
        /\ s[1] \in {0} \cup breaks /\ s[2] \in {size} \cup breaks
        /\ \A i \in breaks : i <= s[1] \/ i >= s[2]
  BY <1>4, <1>5
<1>7. \A a \in {0} \cup breaks, b \in {size} \cup breaks :
        a < b /\ (\A i \in breaks : i <= a \/ i >= b) => <<a, b>> \in spans
  BY <1>4
<1> HIDE DEF breaks
<1>8. ASSUME NEW s \in spans, NEW t \in spans, s[1] <= t[1] PROVE t[1] >= s[2] \/ s = t
  <2>1. s[1] \in Nat /\ s[2] \in Nat /\ t[1] \in Nat /\ t[2] \in Nat /\ s[2] <= size /\ t[2] <= size
    BY <1>5, <1>6
  <2>2. CASE t[1] = s[1]
    <3>1. s[2] <= t[2]
      <4>1. CASE t[2] = size
        BY <2>1, <4>1
      <4>2. CASE t[2] \in breaks
        BY <1>6, <2>1, <2>2, <4>2
      <4> QED BY <1>6, <4>1, <4>2
    <3>2. t[2] <= s[2]
      <4>1. CASE s[2] = size
        BY <2>1, <4>1
      <4>2. CASE s[2] \in breaks
        BY <1>6, <2>1, <2>2, <4>2
      <4> QED BY <1>6, <4>1, <4>2
    <3>3. s[2] = t[2]
      BY <2>1, <3>1, <3>2
    <3> QED BY <1>6, <2>2, <3>3
  <2>3. CASE t[1] # s[1]
    <3>1. t[1] \in breaks
      <4>1. t[1] # 0
        BY <1>8, <2>1, <2>3
      <4> QED BY <1>6, <4>1
    <3>2. t[1] <= s[1] \/ t[1] >= s[2]
      BY <1>6, <3>1
    <3> QED BY <1>8, <2>1, <2>3, <3>2
  <2> QED BY <2>2, <2>3
<1>9. /\ n \in Nat /\ all \in [1 .. n -> spans]
      /\ \A x \in spans : \E k \in 1 .. n : all[k] = x
      /\ \A i, j \in 1 .. n : i < j <=> all[i][1] < all[j][1]
  <2>1. spans \in SUBSET ((0 .. size) \X (0 .. size))
    BY <1>6
  <2>2. \A s, t \in spans : s[1] = t[1] => s = t
    <3> SUFFICES ASSUME NEW s \in spans, NEW t \in spans, s[1] = t[1] PROVE s = t
      OBVIOUS
    <3>1. s[1] \in Nat /\ s[1] < s[2] /\ s[2] \in Nat
      BY <1>5, <1>6
    <3>2. s[1] <= t[1] /\ ~(t[1] >= s[2])
      BY <3>1
    <3> QED BY <1>8, <3>2
  <2> QED BY <1>5, <2>1, <2>2, SortedProperties DEF LineCount, Chain, spans
<1> HIDE DEF n, all
<1>10. n \in Nat /\ n + 1 \in Nat /\ begin(n + 1) = size /\ \A k \in 1 .. n : begin(k) = all[k][1]
  <2>1. n \in Nat /\ ~(n + 1 <= n) /\ \A k \in 1 .. n : k <= n
    BY <1>9
  <2> QED BY <2>1 DEF Begin, n, all, size
\* From every beginning short of the end there is a line.
<1>11. ASSUME NEW a \in {0} \cup breaks, a < size
       PROVE  \E k \in 1 .. n : all[k][1] = a
  <2> DEFINE S == {i \in breaks : i > a} \cup {size}
             b == Least(S)
  <2>1. S \in SUBSET Nat /\ S # {}
    BY <1>5
  <2> HIDE DEF S
  <2>2. b \in S /\ \A i \in S : b <= i
    BY <2>1, LeastIs
  <2>3. b \in {size} \cup breaks /\ a < b
    BY <1>11, <2>2 DEF S
  <2>4. \A i \in breaks : i <= a \/ i >= b
    <3> SUFFICES ASSUME NEW i \in breaks, ~(i <= a) PROVE i >= b
      OBVIOUS
    <3>1. i \in Nat /\ a \in Nat
      BY <1>5
    <3>3. b \in Nat
      BY <2>1, <2>2
    <3>2. i \in S
      BY <3>1 DEF S
    <3> QED BY <2>2, <3>1, <3>2, <3>3
  <2>5. <<a, b>> \in spans
    BY <1>7, <2>3, <2>4
  <2>6. PICK k \in 1 .. n : all[k] = <<a, b>>
    BY <1>9, <2>5
  <2> QED BY <2>6
<1>12. \A k \in 1 .. n : all[k] \in spans /\ all[k][1] \in Nat /\ all[k][2] \in Nat
  BY <1>5, <1>6, <1>9
<1>13. begin(1) = 0
  <2>1. CASE size = 0
    <3>1. n = 0
      <4> SUFFICES ASSUME 1 \in 1 .. n PROVE FALSE
        BY <1>10
      <4> QED BY <1>6, <1>12, <2>1
    <3> QED BY <1>10, <2>1, <3>1
  <2>2. CASE size # 0
    <3>1. PICK k \in 1 .. n : all[k][1] = 0
      BY <1>5, <1>11, <2>2
    <3>2. 1 \in 1 .. n /\ k \in Nat
      BY <1>10
    <3>3. ~(1 < k)
      BY <1>9, <1>12, <3>1, <3>2
    <3>4. k = 1
      BY <3>2, <3>3
    <3> QED BY <1>10, <3>1, <3>2, <3>4
  <2> QED BY <2>1, <2>2
<1>14. ASSUME NEW k \in 1 .. n PROVE all[k][2] = begin(k + 1)
  <2>1. all[k] \in spans /\ k \in Nat /\ all[k][1] \in Nat /\ all[k][2] \in Nat
    BY <1>12
  <2>2. all[k][2] \in {size} \cup breaks /\ all[k][2] <= size /\ all[k][1] < all[k][2]
    BY <1>5, <1>6, <2>1
  <2>3. CASE all[k][2] = size
    <3>1. k = n
      <4> SUFFICES ASSUME k + 1 \in 1 .. n PROVE FALSE
        BY <1>10
      <4>1. all[k][1] < all[k + 1][1]
        BY <1>9
      <4>2. all[k + 1] \in spans /\ all[k + 1][1] \in Nat /\ all[k + 1][1] < size
        <5>1. all[k + 1] \in spans
          BY <1>12
        <5>2. all[k + 1][1] \in 0 .. size /\ all[k + 1][2] \in 0 .. size /\ all[k + 1][1] < all[k + 1][2]
          BY <1>6, <5>1
        <5> QED BY <1>5, <5>1, <5>2
      <4>3. all[k] # all[k + 1] /\ all[k][1] <= all[k + 1][1]
        BY <2>1, <4>1, <4>2
      <4>4. all[k + 1][1] >= all[k][2]
        BY <1>8, <2>1, <4>2, <4>3
      <4> QED BY <1>5, <2>3, <4>2, <4>4
    <3> QED BY <1>10, <2>3, <3>1
  <2>4. CASE all[k][2] # size
    <3>1. all[k][2] \in breaks /\ all[k][2] < size
      BY <1>5, <2>1, <2>2, <2>4
    <3>2. PICK m \in 1 .. n : all[m][1] = all[k][2]
      BY <1>11, <3>1
    <3>3. k < m /\ m \in Nat
      BY <1>9, <2>1, <2>2, <3>2
    <3>4. k + 1 \in 1 .. n
      BY <1>10, <2>1, <3>3
    <3>5. ~(k + 1 < m)
      <4> SUFFICES ASSUME k + 1 < m PROVE FALSE
        OBVIOUS
      <4>1. all[k + 1][1] < all[m][1]
        BY <1>9, <3>4
      <4>2. all[k][1] < all[k + 1][1]
        BY <1>9, <2>1, <3>4
      <4>3. all[k + 1] \in spans /\ all[k + 1][1] \in Nat
        BY <1>12, <3>4
      <4>4. all[k] # all[k + 1] /\ all[k][1] <= all[k + 1][1]
        BY <2>1, <4>2, <4>3
      <4>5. all[k + 1][1] >= all[k][2]
        BY <1>8, <2>1, <4>3, <4>4
      <4> QED BY <2>1, <3>2, <4>1, <4>3, <4>5
    <3>6. m = k + 1
      BY <2>1, <3>3, <3>5
    <3> QED BY <1>10, <3>2, <3>6
  <2> QED BY <2>3, <2>4
\* Reading the line ends where the line does.
<1>15. ASSUME NEW k \in 1 .. n
       PROVE  all[k][2] = Least({MaxBytes, LineEnd(text, all[k][1])})
  <2> DEFINE a == all[k][1]
             b == all[k][2]
             end == LineEnd(text, a)
  <2>1. /\ a \in 0 .. size /\ b \in 0 .. size /\ a < b /\ b \in {size} \cup breaks
        /\ \A i \in breaks : i <= a \/ i >= b
    <3>1. all[k] \in spans
      BY <1>12
    <3> QED BY <1>6, <3>1
  <2> HIDE DEF a, b
  <2>2. a \in 0 .. Len(text) /\ b \in Nat /\ a \in Nat /\ b <= Len(text)
    BY <1>3, <2>1
  <2>3. /\ end \in Breaks(text, a) \cup {Len(text)} /\ end \in a .. Len(text)
        /\ \A i \in Breaks(text, a) \cup {Len(text)} : end <= i
    BY <2>2, LineEndIs
  <2> HIDE DEF end
  <2>4. end \in Nat
    BY <2>2, <2>3
  <2>5. b <= end
    <3>1. CASE end = Len(text)
      BY <2>2, <3>1
    <3>2. CASE end \in Breaks(text, a) /\ end <= size
      <4>1. end \in a + 1 .. Len(text) /\ text[end] = NewLine
        BY <3>2 DEF Breaks
      <4>2. end \in breaks /\ ~(end <= a)
        BY <1>5, <2>2, <2>4, <3>2, <4>1 DEF breaks
      <4> QED BY <2>1, <2>2, <2>4, <4>2
    <3>3. CASE ~(end <= size)
      BY <1>5, <2>1, <2>2, <2>4, <3>3
    <3> QED BY <2>3, <3>1, <3>2, <3>3
  <2>6. CASE b \in breaks
    <3>1. b \in Breaks(text, a)
      BY <2>1, <2>2, <2>6 DEF Breaks, breaks
    <3>2. end = b
      BY <2>2, <2>3, <2>4, <2>5, <3>1
    <3>3. b <= MaxBytes
      BY <1>1, <1>3, <1>5, <2>1
    <3>4. Least({MaxBytes, end}) = IF MaxBytes <= end THEN MaxBytes ELSE end
      BY <1>1, <2>4, LeastPair
    <3>5. Least({MaxBytes, end}) = b
      BY <1>1, <2>2, <3>2, <3>3, <3>4
    <3> QED BY <3>5 DEF a, b, end
  <2>7. CASE b = size
    <3>1. Least({MaxBytes, end}) = IF MaxBytes <= end THEN MaxBytes ELSE end
      BY <1>1, <2>4, LeastPair
    <3>2. CASE size = MaxBytes
      <4>1. Least({MaxBytes, end}) = b
        BY <1>1, <2>5, <2>7, <3>1, <3>2
      <4> QED BY <4>1 DEF a, b, end
    <3>3. CASE size = Len(text)
      <4>1. end = b
        BY <2>3, <2>4, <2>5, <2>7, <3>3
      <4>2. b <= MaxBytes
        BY <1>3, <2>7
      <4>3. Least({MaxBytes, end}) = b
        BY <1>1, <2>2, <3>1, <4>1, <4>2
      <4> QED BY <4>3 DEF a, b, end
    <3> QED BY <1>3, <3>2, <3>3
  <2> QED BY <2>1, <2>6, <2>7
<1>16. ASSUME NEW k \in 1 .. n
       PROVE  /\ all[k] = <<begin(k), begin(k + 1)>>
              /\ begin(k) \in 0 .. size /\ begin(k) < begin(k + 1)
              /\ begin(k + 1) = Least({MaxBytes, LineEnd(text, begin(k))})
  <2>1. all[k] = <<all[k][1], all[k][2]>> /\ all[k][1] \in 0 .. size /\ all[k][1] < all[k][2]
    BY <1>6, <1>12
  <2>2. begin(k) = all[k][1] /\ begin(k + 1) = all[k][2]
    BY <1>10, <1>14
  <2> HIDE DEF begin
  <2> QED BY <1>15, <2>1, <2>2
<1>17. DOMAIN all = 1 .. n
  BY <1>9
<1> HIDE DEF begin
<1>18. \A k \in 1 .. n :
         /\ all[k] = <<begin(k), begin(k + 1)>>
         /\ begin(k) \in 0 .. size /\ begin(k) < begin(k + 1)
         /\ begin(k + 1) = Least({MaxBytes, LineEnd(text, begin(k))})
  BY <1>16
<1> QED BY <1>3, <1>10, <1>13, <1>17, <1>18 DEF size, n, all, begin

\* A number below all others comes first.
LEMMA AscendingPrepend ==
  ASSUME NEW S \in SUBSET Int, IsFiniteSet(S), NEW m \in Int, \A x \in S : m < x
  PROVE  /\ IsFiniteSet({m} \cup S) /\ Cardinality({m} \cup S) = Cardinality(S) + 1
         /\ Cardinality(S) \in Nat
         /\ Ascending({m} \cup S)[1] = m
         /\ \A k \in 1 .. Cardinality(S) : Ascending({m} \cup S)[k + 1] = Ascending(S)[k]
<1> DEFINE n == Cardinality(S)
           a == Ascending(S)
           T == {m} \cup S
           b == Ascending(T)
           c == [k \in 1 .. n + 1 |-> IF k = 1 THEN m ELSE a[k - 1]]
<1>1. m \notin S
  OBVIOUS
<1>2. IsFiniteSet(T) /\ Cardinality(T) = n + 1 /\ n \in Nat /\ T = S \cup {m}
  BY <1>1, FS_AddElement, FS_CardinalityType
<1>3. /\ a \in [1 .. n -> S] /\ (\A x \in S : \E k \in 1 .. n : a[k] = x)
      /\ \A i, j \in 1 .. n : i < j <=> a[i] < a[j]
  BY AscendingProperties
<1>4. T \in SUBSET Int
  OBVIOUS
<1>5. /\ b \in [1 .. n + 1 -> T] /\ (\A x \in T : \E k \in 1 .. n + 1 : b[k] = x)
      /\ \A i, j \in 1 .. n + 1 : i < j <=> b[i] < b[j]
  <2>1. /\ b \in [1 .. Cardinality(T) -> T]
        /\ \A x \in T : \E k \in 1 .. Cardinality(T) : b[k] = x
        /\ \A i, j \in 1 .. Cardinality(T) : i < j <=> b[i] < b[j]
    <3> HIDE DEF T
    <3> QED BY <1>2, <1>4, AscendingProperties
  <2> HIDE DEF T, n, b
  <2> QED BY <1>2, <2>1
<1> HIDE DEF n, a, b
<1>6. \A k \in 1 .. n + 1 : k # 1 => k - 1 \in 1 .. n /\ a[k - 1] \in S
  BY <1>2, <1>3
<1>7. c \in [1 .. n + 1 -> T]
  BY <1>6
<1>8. \A k \in 1 .. n : k + 1 \in 1 .. n + 1 /\ c[k + 1] = a[k]
  BY <1>2
<1>9. c[1] = m
  BY <1>2
<1>10. \A k \in 1 .. n + 1 : k # 1 => c[k] = a[k - 1]
  OBVIOUS
<1> HIDE DEF c
<1>11. \A x \in T : \E k \in 1 .. n + 1 : c[k] = x
  <2> SUFFICES ASSUME NEW x \in T PROVE \E k \in 1 .. n + 1 : c[k] = x
    OBVIOUS
  <2>1. CASE x = m
    BY <1>2, <1>9, <2>1
  <2>2. CASE x \in S
    <3>1. PICK k \in 1 .. n : a[k] = x
      BY <1>3, <2>2
    <3> QED BY <1>8, <3>1
  <2> QED BY <2>1, <2>2
<1>12. \A i, j \in 1 .. n + 1 : i < j => c[i] < c[j]
  <2> SUFFICES ASSUME NEW i \in 1 .. n + 1, NEW j \in 1 .. n + 1, i < j PROVE c[i] < c[j]
    OBVIOUS
  <2>1. j # 1 /\ j - 1 \in 1 .. n /\ c[j] = a[j - 1] /\ a[j - 1] \in S
    <3>1. j # 1
      BY <1>2
    <3> QED BY <1>6, <1>10, <3>1
  <2>2. CASE i = 1
    BY <1>9, <2>1, <2>2
  <2>3. CASE i # 1
    <3>1. i - 1 \in 1 .. n /\ c[i] = a[i - 1] /\ i - 1 < j - 1
      BY <1>2, <1>6, <1>10, <2>3
    <3> QED BY <1>3, <2>1, <3>1
  <2> QED BY <2>2, <2>3
<1>13. b = c
  <2>1. \A i, j \in 1 .. n + 1 : i < j => b[i] < b[j]
    BY <1>5
  <2>2. n + 1 \in Nat
    BY <1>2
  <2> HIDE DEF T
  <2> QED BY <1>4, <1>5, <1>7, <1>11, <1>12, <2>1, <2>2, AscendingUnique
<1> QED BY <1>2, <1>8, <1>9, <1>13 DEF n, a, b

\* One more line, when what comes after it is known.
LinesStep(text, tokens, ci, f, s) ==
  LET p == s[1]
      no == s[2]
      room == s[3]
      q == ReadLine(text, p, MaxBytes - p)
      hit == SearchLine(no, TrimLineEnding(SubSeq(text, p + 1, q)), tokens, ci)
  IN IF room = 0 \/ p >= MaxBytes \/ q = p THEN <<>>
     ELSE hit \o f[<<q, no + 1, room - Len(hit)>>]

\* A turn: the place, the number of the line, and the room for hits.
Turns(text, limit) == (0 .. Len(text)) \X Nat \X (0 .. limit)

\* Where reading from place p ends.
LEMMA ReadFrom ==
  ASSUME NEW text, Len(text) \in Nat, NEW p \in 0 .. Len(text), p < MaxBytes
  PROVE  /\ ReadLine(text, p, MaxBytes - p) = Least({MaxBytes, LineEnd(text, p)})
         /\ ReadLine(text, p, MaxBytes - p) \in p .. Len(text)
<1>1. MaxBytes \in Nat
  BY LineSizesAssumption
<1>2. MaxBytes - p \in Nat /\ p + (MaxBytes - p) = MaxBytes
  BY <1>1
<1>3. ReadLine(text, p, MaxBytes - p) = Least({MaxBytes, LineEnd(text, p)})
  <2>1. ReadLine(text, p, MaxBytes - p) = Least({p + (MaxBytes - p), LineEnd(text, p)})
    BY <1>2, ReadLineExact
  <2> QED BY <1>2, <2>1
<1>4. LineEnd(text, p) \in p .. Len(text) /\ LineEnd(text, p) \in Nat
  BY LineEndIs
<1>5. Least({MaxBytes, LineEnd(text, p)}) \in {MaxBytes, LineEnd(text, p)}
      /\ Least({MaxBytes, LineEnd(text, p)}) <= LineEnd(text, p)
  <2>1. Least({MaxBytes, LineEnd(text, p)}) =
          IF MaxBytes <= LineEnd(text, p) THEN MaxBytes ELSE LineEnd(text, p)
    BY <1>1, <1>4, LeastPair
  <2> QED BY <1>1, <1>4, <2>1
<1> QED BY <1>1, <1>3, <1>4, <1>5

\* What is left of the room after a line.
LEMMA RoomLeft ==
  ASSUME NEW limit \in Nat, NEW room \in 0 .. limit, room # 0, NEW l \in {0, 1}
  PROVE  room - l \in 0 .. limit
<1>1. CASE l = 0
  BY <1>1
<1>2. CASE l = 1
  BY <1>2
<1> QED BY <1>1, <1>2

\* One more line depends on the places after its beginning only.
LEMMA LinesStepLater ==
  ASSUME NEW text, Len(text) \in Nat, NEW tokens, NEW ci, NEW limit \in Nat,
         NEW s \in Turns(text, limit), NEW f, NEW g,
         \A t \in Turns(text, limit) : s[1] < t[1] => f[t] = g[t]
  PROVE  LinesStep(text, tokens, ci, f, s) = LinesStep(text, tokens, ci, g, s)
<1> DEFINE p == s[1]
           no == s[2]
           room == s[3]
           q == ReadLine(text, p, MaxBytes - p)
           hit == SearchLine(no, TrimLineEnding(SubSeq(text, p + 1, q)), tokens, ci)
           t == <<q, no + 1, room - Len(hit)>>
<1>1. p \in 0 .. Len(text) /\ no \in Nat /\ room \in 0 .. limit /\ MaxBytes \in Nat
  BY LineSizesAssumption DEF Turns
<1>2. CASE room = 0 \/ p >= MaxBytes \/ q = p
  BY <1>2 DEF LinesStep
<1>3. CASE ~(room = 0 \/ p >= MaxBytes \/ q = p)
  <2>1. Len(hit) \in {0, 1}
    <3>1. hit = <<>> \/ \E x : hit = <<x>>
      BY Zenon DEF SearchLine
    <3> HIDE DEF hit
    <3> QED BY <3>1
  <2>2. q \in p .. Len(text) /\ q # p
    <3>1. p < MaxBytes
      BY <1>1, <1>3
    <3> QED BY <1>1, <1>3, <3>1, ReadFrom
  <2> HIDE DEF q, hit, p, no, room
  <2>3. t \in Turns(text, limit) /\ t[1] = q /\ p < q
    <3>1. no + 1 \in Nat /\ room - Len(hit) \in 0 .. limit /\ q \in 0 .. Len(text) /\ p < q
      <4>1. room # 0
        BY <1>3
      <4>2. room - Len(hit) \in 0 .. limit
        BY <1>1, <2>1, <4>1, RoomLeft
      <4>3. q \in 0 .. Len(text) /\ p < q
        BY <1>1, <2>2
      <4> QED BY <1>1, <4>2, <4>3
    <3> QED BY <3>1 DEF Turns
  <2>4. f[t] = g[t]
    <3> HIDE DEF t
    <3> QED BY <2>3 DEF p
  <2>5. ASSUME NEW h PROVE LinesStep(text, tokens, ci, h, s) = hit \o h[t]
    BY <1>3 DEF LinesStep, q, hit, p, no, room
  <2> HIDE DEF t
  <2>6. LinesStep(text, tokens, ci, f, s) = hit \o f[t]
    BY <2>5
  <2>7. LinesStep(text, tokens, ci, g, s) = hit \o g[t]
    BY <2>5
  <2> QED BY <2>4, <2>6, <2>7
<1> QED BY <1>2, <1>3

\* The search of the lines is what it is defined to be.
LEMMA SearchLinesUnfolds ==
  ASSUME NEW text, Len(text) \in Nat, NEW tokens, NEW ci, NEW limit \in Nat
  PROVE  \E f : /\ SearchLines(text, tokens, ci, limit) = f[<<0, 1, limit>>]
                /\ \A s \in Turns(text, limit) : f[s] = LinesStep(text, tokens, ci, f, s)
<1> DEFINE n == Len(text)
           D == Turns(text, limit)
           Step(f, s) == LinesStep(text, tokens, ci, f, s)
           from == CHOOSE f : f = [s \in D |-> Step(f, s)]
           S == {d \in Nat : \E f : \A s \in D : n - s[1] < d => f[s] = Step(f, s)}
<1>1. SearchLines(text, tokens, ci, limit) = from[<<0, 1, limit>>]
  BY DEF SearchLines, LinesStep, Turns
<1>2. n \in Nat /\ \A s \in D : s[1] \in 0 .. n
  BY DEF Turns
<1>3. \A f, g : \A s \in D : (\A t \in D : s[1] < t[1] => f[t] = g[t]) => Step(f, s) = Step(g, s)
  BY LinesStepLater
<1> HIDE DEF Step, n, D
<1>4. 0 \in S
  BY <1>2
<1>5. ASSUME NEW d \in Nat, d \in S PROVE d + 1 \in S
  <2>1. PICK f : \A s \in D : n - s[1] < d => f[s] = Step(f, s)
    BY <1>5
  <2> DEFINE g == [s \in D |-> IF n - s[1] < d THEN f[s] ELSE Step(f, s)]
  <2>2. \A s \in D : n - s[1] < d => g[s] = f[s]
    OBVIOUS
  <2>3. \A s \in D : g[s] = Step(f, s)
    BY <2>1
  <2> HIDE DEF g
  <2>4. ASSUME NEW s \in D, n - s[1] < d + 1 PROVE g[s] = Step(g, s)
    <3>1. \A t \in D : s[1] < t[1] => n - t[1] < d
      BY <1>2, <2>4
    <3>2. Step(g, s) = Step(f, s)
      BY <1>3, <2>2, <3>1
    <3> QED BY <2>3, <3>2
  <2> QED BY <2>4
<1>6. n + 1 \in S
  <2>1. Nat \subseteq S
    <3> HIDE DEF S
    <3> QED BY <1>4, <1>5, SetInduction
  <2> HIDE DEF S
  <2> QED BY <1>2, <2>1
<1>7. PICK f : \A s \in D : n - s[1] < n + 1 => f[s] = Step(f, s)
  BY <1>6
<1> DEFINE h == [s \in D |-> f[s]]
<1>8. h = [s \in D |-> Step(h, s)]
  <2>1. ASSUME NEW s \in D PROVE f[s] = Step(h, s)
    <3>1. n - s[1] < n + 1
      BY <1>2
    <3>2. \A t \in D : h[t] = f[t]
      OBVIOUS
    <3> HIDE DEF h
    <3>3. Step(h, s) = Step(f, s)
      BY <1>3, <3>2
    <3> QED BY <1>7, <3>1, <3>3
  <2>2. h = [s \in D |-> f[s]]
    OBVIOUS
  <2> HIDE DEF h
  <2> QED BY <2>1, <2>2
<1>9. from = [s \in D |-> Step(from, s)]
  <2> HIDE DEF h
  <2> QED BY <1>8
<1>10. \A s \in D : from[s] = Step(from, s)
  <2> HIDE DEF from
  <2> QED BY <1>9
<1> HIDE DEF from
<1> QED BY <1>1, <1>10 DEF Step, D

\* A line without its ending is a text.
LEMMA TrimmedType ==
  ASSUME NEW A, NEW line \in Seq(A)
  PROVE  TrimLineEnding(line) \in Seq(A)
<1> DEFINE Cut(t, c) == IF t # <<>> /\ Last(t) = c THEN Front(t) ELSE t
<1>1. ASSUME NEW t \in Seq(A), NEW c PROVE Cut(t, c) \in Seq(A)
  <2>1. Front(t) \in Seq(A)
    BY DEF Front
  <2> QED BY <2>1
<1>2. TrimLineEnding(line) = Cut(Cut(line, NewLine), Return)
  BY DEF TrimLineEnding
<1> HIDE DEF Cut
<1> QED BY <1>1, <1>2

\* The text of the k-th line, and the lines that have every token.
LineAt(text, k) == TrimLineEnding(SubSeq(text, Chain(text)[k][1] + 1, Chain(text)[k][2]))
HitLines(text, tokens, ci) == {k \in 1 .. LineCount(text) : Hit(LineAt(text, k), tokens, ci)}
Remaining(lines, k) == {i \in lines : i >= k}

\* The first of them, as many as the limit allows.
FirstHits(text, lines, limit) ==
  [k \in 1 .. Least({limit, Len(Ascending(lines))}) |->
     [no |-> Ascending(lines)[k], text |-> LineAt(text, Ascending(lines)[k])]]

\* That is what a search is to find.
LEMMA HitsOfIs ==
  ASSUME NEW text, Len(text) \in Nat, NEW tokens, NEW ci, NEW limit
  PROVE  HitsOf(text, tokens, ci, limit) = FirstHits(text, HitLines(text, tokens, ci), limit)
<1> DEFINE Line(s) == TrimLineEnding(SubSeq(text, s[1] + 1, s[2]))
           Hay(s) == IF ci THEN Folded(Line(s)) ELSE Line(s)
           all == Chain(text)
           hits == {i \in DOMAIN all :
                      \A k \in DOMAIN tokens : Starts(Hay(all[i]), tokens[k], 0) # {}}
           inOrder == Ascending(hits)
<1>1. hits = HitLines(text, tokens, ci)
  <2>1. DOMAIN all = 1 .. LineCount(text)
    BY ChainRight
  <2>2. \A i : Hit(LineAt(text, i), tokens, ci) <=>
                 \A k \in DOMAIN tokens : Starts(Hay(all[i]), tokens[k], 0) # {}
    BY DEF Hit, LineAt
  <2> HIDE DEF Hay, all
  <2> QED BY <2>1, <2>2 DEF HitLines
<1>2. HitsOf(text, tokens, ci, limit) =
        [k \in 1 .. Least({limit, Len(inOrder)}) |->
           [no |-> inOrder[k], text |-> Line(all[inOrder[k]])]]
  BY DEF HitsOf, Chain
<1>3. \A i : Line(all[i]) = LineAt(text, i)
  BY DEF LineAt
<1> HIDE DEF hits, Line, all
<1> QED BY <1>1, <1>2, <1>3 DEF FirstHits

\* Of the lines from the k-th on, the first ones that have every token, as
\* many as there is room for, each with ranges that show the tokens.
HitsFrom(text, tokens, ci, k, room, r) ==
  LET lines == Remaining(HitLines(text, tokens, ci), k)
  IN /\ \E T : r \in Seq(T)
     /\ Len(r) = Least({room, Cardinality(lines)})
     /\ \A j \in 1 .. Len(r) :
          /\ r[j].no = Ascending(lines)[j] /\ r[j].text = LineAt(text, Ascending(lines)[j])
          /\ RangesRight(r[j], tokens, ci)

\* The hits are finitely many.
LEMMA HitLinesFinite ==
  ASSUME NEW text, Len(text) \in Nat, NEW tokens, NEW ci, NEW k
  PROVE  /\ Remaining(HitLines(text, tokens, ci), k) \in SUBSET Int
         /\ IsFiniteSet(Remaining(HitLines(text, tokens, ci), k))
         /\ Cardinality(Remaining(HitLines(text, tokens, ci), k)) \in Nat
<1>1. LineCount(text) \in Nat
  BY ChainRight
<1>2. IsFiniteSet(1 .. LineCount(text))
  BY <1>1, FS_Interval
<1>3. Remaining(HitLines(text, tokens, ci), k) \subseteq 1 .. LineCount(text)
  BY DEF Remaining, HitLines
<1> QED BY <1>1, <1>2, <1>3, FS_Subset, FS_CardinalityType

\* Nothing more is found once there is no room or no line left.
LEMMA NoHitsFrom ==
  ASSUME NEW text, Len(text) \in Nat, NEW tokens, NEW ci, NEW k, NEW room \in Nat,
         room = 0 \/ Remaining(HitLines(text, tokens, ci), k) = {}
  PROVE  HitsFrom(text, tokens, ci, k, room, <<>>)
<1> DEFINE c == Cardinality(Remaining(HitLines(text, tokens, ci), k))
<1>1. c \in Nat /\ (room = 0 \/ c = 0)
  BY HitLinesFinite, FS_EmptySet
<1> HIDE DEF c
<1>2. Least({room, c}) = 0
  BY <1>1, LeastPair
<1>3. <<>> \in Seq({}) /\ Len(<<>>) = 0
  OBVIOUS
<1> QED BY <1>2, <1>3 DEF HitsFrom, c

\* The k-th line and those after it.
LEMMA LineFound ==
  ASSUME NEW A, NEW text \in Seq(A), NEW ci, NEW tokens, Tokens(tokens, ci, A), tokens # <<>>,
         NEW k \in 1 .. LineCount(text), NEW room \in Nat, room # 0, NEW hit, NEW rest,
         hit = SearchLine(k, LineAt(text, k), tokens, ci),
         HitsFrom(text, tokens, ci, k + 1, room - Len(hit), rest)
  PROVE  HitsFrom(text, tokens, ci, k, room, hit \o rest)
<1> DEFINE line == LineAt(text, k)
           lines == HitLines(text, tokens, ci)
           later == Remaining(lines, k + 1)
           c == Cardinality(later)
<1>1. Len(text) \in Nat
  OBVIOUS
<1>2. /\ LineCount(text) \in Nat /\ Size(text) \in 0 .. Len(text)
      /\ Chain(text)[k] = <<Begin(text, k), Begin(text, k + 1)>>
      /\ Begin(text, k) \in 0 .. Size(text)
      /\ k + 1 <= LineCount(text) => Begin(text, k + 1) \in 0 .. Size(text)
      /\ k + 1 = LineCount(text) + 1 => Begin(text, k + 1) = Size(text)
  <2>1. LineCount(text) \in Nat
    BY <1>1, ChainRight
  <2>2. k + 1 <= LineCount(text) => k + 1 \in 1 .. LineCount(text)
    BY <2>1
  <2> QED BY <1>1, <2>2, ChainRight
<1>3. line \in Seq(A)
  <2>1. Begin(text, k) + 1 \in 1 .. Len(text) + 1 /\ Begin(text, k + 1) \in 0 .. Len(text)
    BY <1>1, <1>2
  <2>2. SubSeq(text, Begin(text, k) + 1, Begin(text, k + 1)) \in Seq(A)
    BY <2>1
  <2>3. Chain(text)[k][1] = Begin(text, k) /\ Chain(text)[k][2] = Begin(text, k + 1)
    BY <1>2
  <2>4. line = TrimLineEnding(SubSeq(text, Begin(text, k) + 1, Begin(text, k + 1)))
    BY <2>3 DEF LineAt
  <2> QED BY <2>2, <2>4, TrimmedType
<1>4. /\ later \in SUBSET Int /\ IsFiniteSet(later) /\ c \in Nat
      /\ \A i \in later : k < i
  <2>1. \A i \in lines : i \in Int
    BY DEF HitLines
  <2>2. \A i \in later : k < i
    BY <2>1 DEF Remaining
  <2> QED BY <1>1, <2>2, HitLinesFinite
<1>5. k \in Int /\ k \in Nat /\ \A i \in lines : i \in Int
  BY DEF HitLines
<1>6. /\ \E T : rest \in Seq(T)
      /\ Len(rest) = Least({room - Len(hit), c})
      /\ \A j \in 1 .. Len(rest) :
           /\ rest[j].no = Ascending(later)[j] /\ rest[j].text = LineAt(text, Ascending(later)[j])
           /\ RangesRight(rest[j], tokens, ci)
  BY DEF HitsFrom
<1>7. CASE Hit(line, tokens, ci)
  <2>1. PICK ms : LET x == [no |-> k, text |-> line, matches |-> ms]
                  IN hit = <<x>> /\ RangesRight(x, tokens, ci)
    BY <1>3, <1>7, SearchLineRight
  <2> DEFINE x == [no |-> k, text |-> line, matches |-> ms]
             all == {k} \cup later
             a == Ascending(all)
             r == hit \o rest
  <2>2. hit = <<x>> /\ RangesRight(x, tokens, ci) /\ x.no = k /\ x.text = line
    BY <2>1
  <2>3. Remaining(lines, k) = all
    <3>1. k \in lines
      BY <1>7 DEF HitLines
    <3>2. \A i \in lines : i >= k <=> i = k \/ i >= k + 1
      BY <1>5
    <3> HIDE DEF lines
    <3> QED BY <3>1, <3>2 DEF Remaining
  <2>4. /\ Cardinality(all) = c + 1 /\ a[1] = k
        /\ \A j \in 1 .. c : a[j + 1] = Ascending(later)[j]
    BY <1>4, <1>5, AscendingPrepend
  <2> HIDE DEF x, all, a, later, c, lines, line
  <2>5. PICK T : rest \in Seq(T)
    BY <1>6
  <2>6. rest \in Seq(T \cup {x}) /\ x \in T \cup {x}
    BY <2>5
  <2>7. /\ r \in Seq(T \cup {x}) /\ Len(r) = Len(rest) + 1 /\ r[1] = x
        /\ \A j \in 1 .. Len(rest) : r[j + 1] = rest[j]
    BY <2>2, <2>6, Prepended
  <2>8. Len(hit) = 1
    BY <2>2
  <2>9. Len(rest) \in Nat /\ Len(rest) <= c /\ Len(r) = Least({room, c + 1})
    <3>1. room - 1 \in Nat /\ c + 1 \in Nat
      BY <1>4
    <3>2. Len(rest) = IF room - 1 <= c THEN room - 1 ELSE c
      BY <1>4, <1>6, <2>8, <3>1, LeastPair
    <3>3. Least({room, c + 1}) = IF room <= c + 1 THEN room ELSE c + 1
      BY <3>1, LeastPair
    <3> QED BY <1>4, <2>7, <3>1, <3>2, <3>3
  <2> HIDE DEF r
  <2>10. ASSUME NEW j \in 1 .. Len(r)
         PROVE  r[j].no = a[j] /\ r[j].text = LineAt(text, a[j]) /\ RangesRight(r[j], tokens, ci)
    <3>1. CASE j = 1
      BY <2>2, <2>4, <2>7, <3>1 DEF line
    <3>2. CASE j # 1
      <4>1. j - 1 \in 1 .. Len(rest) /\ j - 1 \in 1 .. c /\ j - 1 + 1 = j
        BY <1>4, <2>7, <2>9, <3>2
      <4>2. r[j] = rest[j - 1] /\ a[j] = Ascending(later)[j - 1]
        <5>1. r[j - 1 + 1] = rest[j - 1] /\ a[j - 1 + 1] = Ascending(later)[j - 1]
          BY <2>4, <2>7, <4>1
        <5> QED BY <4>1, <5>1
      <4> QED BY <1>6, <4>1, <4>2
    <3> QED BY <3>1, <3>2
  <2>11. HitsFrom(text, tokens, ci, k, room, r)
    BY <2>3, <2>4, <2>7, <2>9, <2>10 DEF HitsFrom, lines, a
  <2> QED BY <2>11 DEF r
<1>8. CASE ~Hit(line, tokens, ci)
  <2>1. hit = <<>>
    BY <1>3, <1>8, SearchLineRight
  <2>2. Remaining(lines, k) = later
    <3>1. k \notin lines
      BY <1>8 DEF HitLines
    <3> QED BY <1>5, <3>1 DEF Remaining
  <2>3. Len(hit) = 0 /\ room - 0 = room
    BY <2>1
  <2>4. hit \o rest = rest
    <3>1. PICK T : rest \in Seq(T)
      BY <1>6
    <3> QED BY <2>1, <3>1
  <2>5. HitsFrom(text, tokens, ci, k + 1, room, rest)
    BY <2>3
  <2> QED BY <2>2, <2>4, <2>5 DEF HitsFrom
<1> QED BY <1>7, <1>8

\* The search of a text finds what it is to find.
LEMMA SearchLinesExact ==
  ASSUME NEW A, NEW text \in Seq(A), NEW ci, NEW tokens, Tokens(tokens, ci, A), tokens # <<>>,
         NEW limit \in Nat
  PROVE  HitsFrom(text, tokens, ci, 1, limit, SearchLines(text, tokens, ci, limit))
<1>1. Len(text) \in Nat /\ MaxBytes \in Nat
  BY LineSizesAssumption
<1>2. PICK f : /\ SearchLines(text, tokens, ci, limit) = f[<<0, 1, limit>>]
               /\ \A s \in Turns(text, limit) : f[s] = LinesStep(text, tokens, ci, f, s)
  BY <1>1, SearchLinesUnfolds
<1> DEFINE n == LineCount(text)
           size == Size(text)
           Right(k) == \A room \in 0 .. limit :
                         HitsFrom(text, tokens, ci, k, room, f[<<Begin(text, k), k, room>>])
           S == {d \in Nat : \A k \in 1 .. n + 1 : n + 1 - k <= d => Right(k)}
<1>3. /\ size \in 0 .. Len(text) /\ size <= MaxBytes /\ (size = Len(text) \/ size = MaxBytes)
      /\ n \in Nat /\ Begin(text, 1) = 0 /\ Begin(text, n + 1) = size
      /\ \A k \in 1 .. n :
              /\ Chain(text)[k] = <<Begin(text, k), Begin(text, k + 1)>>
              /\ Begin(text, k) \in 0 .. size /\ Begin(text, k) < Begin(text, k + 1)
              /\ Begin(text, k + 1) = Least({MaxBytes, LineEnd(text, Begin(text, k))})
  BY <1>1, ChainRight
<1>4. \A k \in 1 .. n + 1 : Begin(text, k) \in 0 .. size
  <2> SUFFICES ASSUME NEW k \in 1 .. n + 1 PROVE Begin(text, k) \in 0 .. size
    OBVIOUS
  <2>1. CASE k = n + 1
    BY <1>1, <1>3, <2>1
  <2>2. CASE k # n + 1
    <3>1. k \in 1 .. n
      BY <1>3, <2>2
    <3> QED BY <1>3, <3>1
  <2> QED BY <2>1, <2>2
<1>5. ASSUME NEW k \in 1 .. n + 1, NEW room \in 0 .. limit
      PROVE  /\ <<Begin(text, k), k, room>> \in Turns(text, limit)
             /\ f[<<Begin(text, k), k, room>>] =
                  LinesStep(text, tokens, ci, f, <<Begin(text, k), k, room>>)
  <2>1. Begin(text, k) \in 0 .. Len(text)
    BY <1>1, <1>3, <1>4
  <2>2. <<Begin(text, k), k, room>> \in Turns(text, limit)
    BY <2>1 DEF Turns
  <2> QED BY <1>2, <2>2
<1> HIDE DEF n, size
<1>6. Right(n + 1)
  <2> SUFFICES ASSUME NEW room \in 0 .. limit
               PROVE  HitsFrom(text, tokens, ci, n + 1, room, f[<<Begin(text, n + 1), n + 1, room>>])
    OBVIOUS
  <2> DEFINE s == <<Begin(text, n + 1), n + 1, room>>
  <2>1. Remaining(HitLines(text, tokens, ci), n + 1) = {}
    BY <1>3 DEF Remaining, HitLines, n
  <2>2. CASE size = MaxBytes
    <3>1. LinesStep(text, tokens, ci, f, s) = <<>>
      BY <1>1, <1>3, <2>2 DEF LinesStep
    <3>2. f[s] = <<>>
      BY <1>3, <1>5, <3>1
    <3> QED BY <1>1, <2>1, <3>2, NoHitsFrom
  <2>3. CASE size # MaxBytes
    <3>1. size = Len(text) /\ size < MaxBytes /\ size \in 0 .. Len(text)
      BY <1>1, <1>3, <2>3
    <3>2. ReadLine(text, size, MaxBytes - size) = size
      <4>1. ReadLine(text, size, MaxBytes - size) \in size .. Len(text)
        BY <1>1, <3>1, ReadFrom
      <4> QED BY <1>1, <3>1, <4>1
    <3>3. LinesStep(text, tokens, ci, f, s) = <<>>
      BY <1>3, <3>2 DEF LinesStep
    <3>4. f[s] = <<>>
      BY <1>3, <1>5, <3>3
    <3> QED BY <1>1, <2>1, <3>4, NoHitsFrom
  <2> QED BY <2>2, <2>3
<1>7. ASSUME NEW k \in 1 .. n, Right(k + 1) PROVE Right(k)
  <2> SUFFICES ASSUME NEW room \in 0 .. limit
               PROVE  HitsFrom(text, tokens, ci, k, room, f[<<Begin(text, k), k, room>>])
    OBVIOUS
  <2> DEFINE p == Begin(text, k)
             q == Begin(text, k + 1)
             s == <<p, k, room>>
             hit == SearchLine(k, LineAt(text, k), tokens, ci)
             rest == f[<<q, k + 1, room - Len(hit)>>]
  <2>1. k \in 1 .. n + 1 /\ k + 1 \in 1 .. n + 1 /\ k \in Nat
    BY <1>3
  <2>2. f[s] = LinesStep(text, tokens, ci, f, s)
    BY <1>5, <2>1
  <2>3. CASE room = 0
    <3>1. LinesStep(text, tokens, ci, f, s) = <<>>
      BY <2>3 DEF LinesStep
    <3>2. f[s] = <<>>
      BY <2>2, <3>1
    <3> QED BY <1>1, <2>3, <3>2, NoHitsFrom
  <2>4. CASE room # 0
    <3>1. p \in 0 .. Len(text) /\ p < q /\ p < MaxBytes /\ q \in 0 .. size
      <4>1. p \in 0 .. size /\ q \in 0 .. size /\ p < q
        BY <1>3, <1>4, <2>1
      <4> QED BY <1>1, <1>3, <4>1
    <3>2. ReadLine(text, p, MaxBytes - p) = q
      <4>1. ReadLine(text, p, MaxBytes - p) = Least({MaxBytes, LineEnd(text, p)})
        BY <1>1, <3>1, ReadFrom
      <4> QED BY <1>3, <4>1
    <3>3. LineAt(text, k) = TrimLineEnding(SubSeq(text, p + 1, q))
      <4>1. Chain(text)[k][1] = p /\ Chain(text)[k][2] = q
        <5>1. Chain(text)[k] = <<p, q>>
          BY <1>3
        <5> HIDE DEF p, q
        <5> QED BY <5>1
      <4> QED BY <4>1 DEF LineAt
    <3> HIDE DEF p, q
    <3>4. LinesStep(text, tokens, ci, f, s) = hit \o rest
      <4>1. ~(p >= MaxBytes) /\ q # p
        BY <1>1, <1>3, <3>1
      <4> QED BY <2>4, <3>2, <3>3, <4>1 DEF LinesStep
    <3>5. Len(hit) \in {0, 1}
      <4>1. hit = <<>> \/ \E x : hit = <<x>>
        BY Zenon DEF SearchLine
      <4> HIDE DEF hit
      <4> QED BY <4>1
    <3> HIDE DEF hit
    <3>6. room - Len(hit) \in 0 .. limit /\ room \in Nat
      <4>1. room - Len(hit) \in 0 .. limit
        BY <2>4, <3>5, RoomLeft
      <4> QED BY <4>1
    <3>7. HitsFrom(text, tokens, ci, k + 1, room - Len(hit), rest)
      BY <1>7, <3>6 DEF q
    <3> HIDE DEF rest
    <3>8. HitsFrom(text, tokens, ci, k, room, hit \o rest)
      BY <2>4, <3>6, <3>7, LineFound DEF hit, n
    <3>9. f[s] = hit \o rest
      BY <2>2, <3>4
    <3> QED BY <3>8, <3>9 DEF p
  <2> QED BY <2>3, <2>4
<1> HIDE DEF Right
<1>8. 0 \in S
  <2>1. \A k \in 1 .. n + 1 : n + 1 - k <= 0 => k = n + 1
    BY <1>3
  <2> QED BY <1>6, <2>1
<1>9. ASSUME NEW d \in Nat, d \in S PROVE d + 1 \in S
  <2> SUFFICES ASSUME NEW k \in 1 .. n + 1, n + 1 - k <= d + 1 PROVE Right(k)
    OBVIOUS
  <2>1. CASE k = n + 1
    BY <1>6, <2>1
  <2>2. CASE k # n + 1
    <3>1. k \in 1 .. n /\ k + 1 \in 1 .. n + 1 /\ n + 1 - (k + 1) <= d
      BY <1>3, <2>2
    <3> QED BY <1>7, <1>9, <3>1
  <2> QED BY <2>1, <2>2
<1>10. Nat \subseteq S
  <2> HIDE DEF S
  <2> QED BY <1>8, <1>9, SetInduction
<1>11. Right(1)
  <2>1. n \in S /\ 1 \in 1 .. n + 1 /\ n + 1 - 1 <= n
    <3>1. n \in S
      <4> HIDE DEF S
      <4> QED BY <1>3, <1>10
    <3>2. 1 \in 1 .. n + 1 /\ n + 1 - 1 <= n
      BY <1>3
    <3> QED BY <3>1, <3>2
  <2> QED BY <2>1
<1>12. limit \in 0 .. limit
  OBVIOUS
<1> QED BY <1>2, <1>3, <1>11, <1>12 DEF Right

\* The first bytes tell a binary file, whatever the buffer held before.
LEMMA DetectBinaryExact ==
  ASSUME NEW text, Len(text) \in Nat, DOMAIN text = 1 .. Len(text), NEW old
  PROVE  DetectBinary(old, text) <=> \E i \in DOMAIN text : text[i] = Zero /\ i <= HeadSize
<1> DEFINE n == Least({HeadSize, Len(text)})
           buffer == [i \in 1 .. HeadSize |-> IF i <= n THEN text[i] ELSE old[i]]
<1>1. HeadSize \in Nat \ {0}
  BY LineSizesAssumption
<1>2. n = IF HeadSize <= Len(text) THEN HeadSize ELSE Len(text)
  BY <1>1, LeastPair
<1>3. DetectBinary(old, text) <=> \E i \in 1 .. n : buffer[i] = Zero
  BY DEF DetectBinary
<1> HIDE DEF n
<1>4. n \in Nat /\ \A i \in Nat : i <= n <=> i <= HeadSize /\ i <= Len(text)
  <2>1. CASE HeadSize <= Len(text)
    <3>1. n = HeadSize
      BY <1>2, <2>1
    <3> QED BY <1>1, <2>1, <3>1
  <2>2. CASE ~(HeadSize <= Len(text))
    <3>1. n = Len(text)
      BY <1>2, <2>2
    <3> QED BY <1>1, <2>2, <3>1
  <2> QED BY <2>1, <2>2
<1>5. \A i \in 1 .. n : buffer[i] = text[i]
  BY <1>1, <1>4
<1>6. \A i : i \in 1 .. n <=> i \in DOMAIN text /\ i <= HeadSize
  BY <1>1, <1>4
<1> HIDE DEF buffer
<1> QED BY <1>3, <1>5, <1>6

\* A folded text is not changed by folding it again.
LEMMA FoldedTwice ==
  ASSUME NEW q \in Seq(DOMAIN Lower)
  PROVE  Folded(q) \in Seq(DOMAIN Lower) /\ Folded(Folded(q)) = Folded(q)
<1>1. Folded(q) = [i \in 1 .. Len(q) |-> Lower[q[i]]] /\ Len(q) \in Nat
  BY DEF Folded
<1>2. \A i \in 1 .. Len(q) : q[i] \in DOMAIN Lower
  OBVIOUS
<1>3. \A i \in 1 .. Len(q) : Lower[q[i]] \in DOMAIN Lower /\ Lower[Lower[q[i]]] = Lower[q[i]]
  BY <1>2, LowerAssumption
<1>4. Folded(Folded(q)) = [i \in 1 .. Len(q) |-> Lower[Folded(q)[i]]]
  BY <1>1 DEF Folded
<1>5. Folded(q) \in Seq(DOMAIN Lower)
  BY FoldedType
<1>6. \A i \in 1 .. Len(q) : Lower[Folded(q)[i]] = Lower[q[i]]
  BY <1>1, <1>3
<1>7. Folded(Folded(q)) = [i \in 1 .. Len(q) |-> Lower[q[i]]]
  BY <1>4, <1>6
<1> QED BY <1>1, <1>5, <1>7

\* A query of nothing has no words.
LEMMA NoWords ==
  ASSUME NEW q \in Seq(DOMAIN Lower), q = <<>>
  PROVE  Words(q) = <<>>
<1> DEFINE edges == {0, Len(q) + 1} \cup {i \in DOMAIN q : q[i] = Blank}
           between == {s \in edges \X edges :
                         s[1] + 1 < s[2] /\ \A i \in edges : i <= s[1] \/ i >= s[2]}
           word == Sorted(between)
<1>1. edges = {0, 1}
  OBVIOUS
<1> HIDE DEF edges
<1>2. between = {}
  BY <1>1
<1> HIDE DEF between
<1>3. Cardinality(between) = 0
  BY <1>2, FS_EmptySet
<1>4. DOMAIN word = {}
  BY <1>3 DEF Sorted, InOrder
<1>5. Words(q) = [k \in DOMAIN word |-> SubSeq(q, word[k][1] + 1, word[k][2] - 1)]
  BY DEF Words, between, edges
<1> HIDE DEF word
<1> QED BY <1>4, <1>5

\* An empty file has no lines.
LEMMA NoLines ==
  ASSUME NEW text, Len(text) = 0, NEW tokens, NEW ci, NEW limit \in Nat
  PROVE  HitsOf(text, tokens, ci, limit) = <<>>
<1>1. LineCount(text) = 0
  <2>1. /\ Size(text) \in 0 .. Len(text) /\ LineCount(text) \in Nat
        /\ Begin(text, LineCount(text) + 1) = Size(text)
        /\ \A k \in 1 .. LineCount(text) :
             Begin(text, k) \in 0 .. Size(text) /\ Begin(text, k) < Begin(text, k + 1)
    <3>1. Len(text) \in Nat
      OBVIOUS
    <3> QED BY <3>1, ChainRight
  <2>2. Size(text) = 0
    BY <2>1
  <2>3. ASSUME LineCount(text) # 0 PROVE FALSE
    <3>1. LineCount(text) \in 1 .. LineCount(text)
      BY <2>1, <2>3
    <3>2. Begin(text, LineCount(text)) \in 0 .. 0 /\ Begin(text, LineCount(text)) < 0
      BY <2>1, <2>2, <3>1
    <3> QED BY <3>2
  <2> QED BY <2>3
<1>2. HitLines(text, tokens, ci) = {}
  BY <1>1 DEF HitLines
<1>3. Len(Ascending(HitLines(text, tokens, ci))) = 0
  BY <1>2, AscendingEmpty
<1>4. Least({limit, 0}) = 0
  BY LeastPair
<1> QED BY <1>3, <1>4, HitsOfIs DEF FirstHits

\* Lines without their ranges.
Told(lines) == [i \in DOMAIN lines |-> [no |-> lines[i].no, text |-> lines[i].text]]

\* So the lines found are the hits, and their ranges are right.
LEMMA SearchLinesRight ==
  ASSUME NEW A, NEW text \in Seq(A), NEW ci, NEW tokens, Tokens(tokens, ci, A), tokens # <<>>,
         NEW limit \in Nat
  PROVE  /\ Told(SearchLines(text, tokens, ci, limit)) = HitsOf(text, tokens, ci, limit)
         /\ \A i \in DOMAIN SearchLines(text, tokens, ci, limit) :
              RangesRight(SearchLines(text, tokens, ci, limit)[i], tokens, ci)
<1> DEFINE lines == HitLines(text, tokens, ci)
           r == SearchLines(text, tokens, ci, limit)
           c == Cardinality(lines)
           inOrder == Ascending(lines)
<1>1. Len(text) \in Nat
  OBVIOUS
<1>2. HitsFrom(text, tokens, ci, 1, limit, r)
  BY SearchLinesExact
<1>3. Remaining(lines, 1) = lines
  <2>1. \A i \in lines : i >= 1
    BY DEF HitLines
  <2> QED BY <2>1 DEF Remaining
<1>4. lines \in SUBSET Int /\ IsFiniteSet(lines) /\ c \in Nat
  BY <1>1, <1>3, HitLinesFinite
<1>5. HitsOf(text, tokens, ci, limit) = FirstHits(text, lines, limit)
  BY <1>1, HitsOfIs
<1> HIDE DEF lines, r
<1>6. Len(inOrder) = c
  <2>1. inOrder \in [1 .. c -> lines]
    BY <1>4, AscendingProperties
  <2> HIDE DEF inOrder, c
  <2> QED BY <1>4, <2>1
<1>7. PICK T : r \in Seq(T)
  BY <1>2, <1>3 DEF HitsFrom, lines
<1>8. DOMAIN r = 1 .. Len(r)
  BY <1>7
<1>9. /\ Len(r) = Least({limit, c})
      /\ \A j \in 1 .. Len(r) :
           /\ r[j].no = inOrder[j] /\ r[j].text = LineAt(text, inOrder[j])
           /\ RangesRight(r[j], tokens, ci)
  BY <1>2, <1>3 DEF HitsFrom, lines
<1> HIDE DEF inOrder, c
<1>10. Told(r) = [j \in 1 .. Len(r) |-> [no |-> inOrder[j], text |-> LineAt(text, inOrder[j])]]
  BY <1>8, <1>9 DEF Told
<1>11. Told(r) = FirstHits(text, lines, limit)
  BY <1>6, <1>9, <1>10 DEF FirstHits, inOrder
<1> QED BY <1>5, <1>8, <1>9, <1>11 DEF r

\* What the search of a file is to answer.
AnswerRight(text, query, limit, opts, r) ==
  LET ci == opts.caseInsensitive \/ IsAllLower(query)
      tokens == Words(IF ci THEN Folded(query) ELSE query)
      read == /\ limit > 0 /\ tokens # <<>>
              /\ \/ opts.includeBinary
                 \/ \A i \in DOMAIN text : text[i] = Zero => i > HeadSize
  IN /\ r.error <=> text = <<>> /\ query # <<>> /\ limit > 0
     /\ Told(r.lines) = IF read THEN HitsOf(text, tokens, ci, limit) ELSE <<>>
     /\ \A i \in DOMAIN r.lines : RangesRight(r.lines[i], tokens, ci)

LEMMA SearchFileExact ==
  ASSUME NEW text \in Seq(DOMAIN Lower), NEW query \in Seq(DOMAIN Lower), NEW limit \in Int,
         NEW opts \in [caseInsensitive : BOOLEAN, includeBinary : BOOLEAN], NEW old
  PROVE  AnswerRight(text, query, limit, opts, SearchFile(text, old, query, limit, opts))
<1> DEFINE ci == opts.caseInsensitive \/ IsAllLower(query)
           tokens == Words(IF ci THEN Folded(query) ELSE query)
           read == /\ limit > 0 /\ tokens # <<>>
                   /\ \/ opts.includeBinary
                      \/ \A i \in DOMAIN text : text[i] = Zero => i > HeadSize
           r == SearchFile(text, old, query, limit, opts)
           binary == DetectBinary(old, text)
           found == SearchLines(text, tokens, ci, limit)
           hits == HitsOf(text, tokens, ci, limit)
           none == Lines(<<>>)
<1>1. r = IF query = <<>> \/ limit <= 0 THEN none
          ELSE IF binary /\ ~opts.includeBinary THEN none
          ELSE IF text = <<>> THEN [lines |-> <<>>, error |-> TRUE]
          ELSE IF tokens = <<>> THEN none ELSE Lines(found)
  BY DEF SearchFile
<1> HIDE DEF tokens, read, r
<1>2. binary <=> ~\A i \in DOMAIN text : text[i] = Zero => i > HeadSize
  <2>1. Len(text) \in Nat /\ DOMAIN text = 1 .. Len(text) /\ HeadSize \in Nat
    BY LineSizesAssumption
  <2>2. \A i \in DOMAIN text : i <= HeadSize <=> ~(i > HeadSize)
    BY <2>1
  <2> QED BY <2>1, <2>2, DetectBinaryExact
<1>3. read <=> limit > 0 /\ tokens # <<>> /\ (opts.includeBinary \/ ~binary)
  BY <1>2 DEF read
<1>4. Tokens(tokens, ci, DOMAIN Lower)
  <2>1. CASE ci
    BY <2>1, FoldedTwice, WordsRight DEF tokens
  <2>2. CASE ~ci
    BY <2>2, WordsRight DEF tokens
  <2> QED BY <2>1, <2>2
<1>5. query = <<>> => tokens = <<>>
  <2> SUFFICES ASSUME query = <<>> PROVE tokens = <<>>
    OBVIOUS
  <2>1. Folded(query) = <<>>
    BY DEF Folded
  <2> QED BY <2>1, NoWords DEF tokens
<1>6. text = <<>> /\ limit > 0 => hits = <<>>
  BY NoLines
<1>7. limit > 0 /\ tokens # <<>> =>
        Told(found) = hits /\ \A i \in DOMAIN found : RangesRight(found[i], tokens, ci)
  BY <1>4, SearchLinesRight
<1>8. text = <<>> => ~binary
  BY <1>2
<1>9. limit > 0 <=> ~(limit <= 0)
  OBVIOUS
<1>10. /\ none.lines = <<>> /\ none.error = FALSE
       /\ Lines(found).lines = found /\ Lines(found).error = FALSE
  BY DEF Lines
<1>11. Told(<<>>) = <<>> /\ \A i \in DOMAIN <<>> : RangesRight(<<>>[i], tokens, ci)
  BY DEF Told
<1> SUFFICES /\ r.error <=> text = <<>> /\ query # <<>> /\ limit > 0
             /\ Told(r.lines) = IF read THEN HitsOf(text, tokens, ci, limit) ELSE <<>>
             /\ \A i \in DOMAIN r.lines : RangesRight(r.lines[i], tokens, ci)
  BY Zenon DEF AnswerRight, read, tokens, r
<1> HIDE DEF binary, found, hits, none, ci
<1>12. CASE query = <<>> \/ limit <= 0
  <2>1. r = none /\ ~read
    BY <1>1, <1>3, <1>5, <1>9, <1>12
  <2> QED BY <1>9, <1>10, <1>11, <1>12, <2>1
<1>13. CASE ~(query = <<>> \/ limit <= 0) /\ binary /\ ~opts.includeBinary
  <2>1. r = none /\ ~read /\ text # <<>>
    BY <1>1, <1>3, <1>8, <1>13, Zenon
  <2> QED BY <1>10, <1>11, <2>1
<1>14. CASE ~(query = <<>> \/ limit <= 0) /\ ~(binary /\ ~opts.includeBinary) /\ text = <<>>
  <2>1. r = [lines |-> <<>>, error |-> TRUE]
    BY <1>1, <1>14, Zenon
  <2>2. hits = <<>>
    BY <1>6, <1>9, <1>14
  <2> QED BY <1>9, <1>11, <1>14, <2>1, <2>2 DEF hits
<1>15. CASE ~(query = <<>> \/ limit <= 0) /\ ~(binary /\ ~opts.includeBinary) /\ text # <<>>
  <2>1. CASE tokens = <<>>
    <3>1. r = none /\ ~read
      BY <1>1, <1>3, <1>15, <2>1, Zenon
    <3> QED BY <1>10, <1>11, <1>15, <3>1
  <2>2. CASE tokens # <<>>
    <3>1. r = Lines(found)
      BY <1>1, <1>15, <2>2, Zenon
    <3>2. read
      BY <1>3, <1>9, <1>15, <2>2, Zenon
    <3>3. Told(found) = hits /\ \A i \in DOMAIN found : RangesRight(found[i], tokens, ci)
      BY <1>7, <1>9, <1>15, <2>2
    <3> QED BY <1>10, <1>15, <3>1, <3>2, <3>3 DEF hits
  <2> QED BY <2>1, <2>2
<1> QED BY <1>12, <1>13, <1>14, <1>15, Zenon

------------------------------------------------------------------------------
(****************************************************************************)
(* Queries.  Each kind of item is read as what it stands for, from its      *)
(* first characters on; the places of the text are then the same in the     *)
(* tokens and in the items they were written from.                          *)
(****************************************************************************)

\* What two sequences put together begin and end with.
LEMMA Joined ==
  ASSUME NEW S, NEW a \in Seq(S), NEW b \in Seq(S)
  PROVE  /\ a \o b \in Seq(S) /\ Len(a \o b) = Len(a) + Len(b)
         /\ \A i \in 1 .. Len(a) : (a \o b)[i] = a[i]
         /\ \A i \in 1 .. Len(b) : (a \o b)[Len(a) + i] = b[i]
         /\ SubSeq(a \o b, 1, Len(a)) = a /\ From(a \o b, Len(a) + 1) = b
<1> DEFINE c == a \o b
<1>1. /\ c \in Seq(S) /\ Len(c) = Len(a) + Len(b) /\ Len(a) \in Nat /\ Len(b) \in Nat
      /\ \A i \in 1 .. Len(a) : c[i] = a[i]
      /\ \A i \in 1 .. Len(b) : c[Len(a) + i] = b[i]
  OBVIOUS
<1> HIDE DEF c
<1>2. SubSeq(c, 1, Len(a)) = a
  BY <1>1
<1>3. SubSeq(c, Len(a) + 1, Len(c)) = b
  BY <1>1
<1> QED BY <1>1, <1>2, <1>3 DEF From, c

\* The number of first characters in S.
LEMMA LeadingIs ==
  ASSUME NEW t, NEW S, NEW most \in Int, NEW k \in 0 .. most,
         \A i \in 1 .. k : t[i] \in S, k < most => t[k + 1] \notin S
  PROVE  Leading(t, S, most) = k
<1> DEFINE Leads(m) == (\A i \in 1 .. m : t[i] \in S) /\ (m < most => t[m + 1] \notin S)
<1>1. Leads(k)
  OBVIOUS
<1>2. ASSUME NEW m \in 0 .. most, Leads(m) PROVE m = k
  <2>1. CASE m < k
    <3>1. m + 1 \in 1 .. k /\ m < most
      BY <2>1
    <3> QED BY <1>2, <3>1
  <2>2. CASE k < m
    <3>1. k + 1 \in 1 .. m /\ k < most
      BY <2>2
    <3> QED BY <1>2, <3>1
  <2> QED BY <2>1, <2>2
<1>3. Leading(t, S, most) = CHOOSE m \in 0 .. most : Leads(m)
  BY DEF Leading
<1> HIDE DEF Leads
<1> QED BY <1>1, <1>2, <1>3

\* The characters that the language gives a meaning.
LEMMA CharactersApart ==
  /\ Bang \notin {Star, Slash} \cup Keys /\ Star # Dot
  /\ Slash \notin {Star, Mark} \cup Keys
  /\ Colon \notin {Star, Mark, Slash} \cup Keys
  /\ Keys \cap {Star, Mark} = {}
<1>1. Bang \notin {Star, Slash} \cup Keys /\ Star # Dot
  BY DEF Bang, Star, Dot, Slash, Keys
<1>2. /\ Slash \notin {Star, Mark} \cup Keys
      /\ Colon \notin {Star, Mark, Slash} \cup Keys
  BY DEF Star, Mark, Slash, Colon, Keys
<1>3. Keys \cap {Star, Mark} = {}
  BY DEF Star, Mark, Keys
<1> QED BY <1>1, <1>2, <1>3

\* The characters of a text and those with a meaning.
Symbols(v) == Range(v) \cup Keys \cup Units \cup {Bang, Star, Dot, Slash, Colon, Greater, Less, Equal}

\* A token with its negations: the rest is read as it would be alone.
ReadToken(n, w) ==
  [nots |-> n, of |-> IF ParsePlain(w).kind = "none" /\ n > 0 THEN Constraint("text", w)
                      ELSE ParsePlain(w)]

LEMMA TokenRead ==
  ASSUME NEW S, NEW w \in Seq(S), w # <<>>, Bang \in S, NEW n \in Nat, w[1] # Bang
  PROVE  ParseToken([i \in 1 .. n |-> Bang] \o w) = ReadToken(n, w)
<1>1. ASSUME NEW a \in Seq(S), Len(a) = n, \A i \in 1 .. n : a[i] = Bang
      PROVE  ParseToken(a \o w) = ReadToken(n, w)
  <2>1. /\ Len(a \o w) = Len(a) + Len(w)
        /\ \A i \in 1 .. Len(a) : (a \o w)[i] = a[i]
        /\ \A i \in 1 .. Len(w) : (a \o w)[Len(a) + i] = w[i]
    OBVIOUS
  <2>6. From(a \o w, Len(a) + 1) = w
    BY Joined
  <2>2. 1 \in 1 .. Len(w)
    OBVIOUS
  <2> DEFINE t == a \o w
  <2>3. /\ Len(t) = n + Len(w) /\ Len(w) \in Nat /\ Len(w) >= 1
        /\ \A i \in 1 .. n : t[i] = Bang
        /\ t[n + 1] = w[1] /\ From(t, n + 1) = w
    BY <1>1, <2>1, <2>2, <2>6
  <2> HIDE DEF t
  <2>4. Leading(t, {Bang}, Len(t) - 1) = n
    <3>1. Len(t) - 1 \in Int /\ n \in 0 .. Len(t) - 1
      BY <2>3
    <3> QED BY <2>3, <3>1, LeadingIs
  <2>5. ParseToken(t) = ReadToken(n, w)
    BY <2>3, <2>4 DEF ParseToken, ReadToken
  <2> QED BY <2>5 DEF t
<1> DEFINE a == [i \in 1 .. n |-> Bang]
<1>2. a \in Seq(S) /\ Len(a) = n /\ \A i \in 1 .. n : a[i] = Bang
  OBVIOUS
<1> QED BY <1>1, <1>2

\* A text with two characters in front.
LEMMA TwoInFront ==
  ASSUME NEW S, NEW x \in S, NEW y \in S, NEW v \in Seq(S)
  PROVE  /\ <<x, y>> \o v \in Seq(S) /\ Len(<<x, y>> \o v) = Len(v) + 2
         /\ (<<x, y>> \o v)[1] = x /\ (<<x, y>> \o v)[2] = y
         /\ \A i \in 1 .. Len(v) : (<<x, y>> \o v)[2 + i] = v[i]
         /\ From(<<x, y>> \o v, 3) = v
<1> DEFINE p == <<x, y>>
<1>1. p \in Seq(S) /\ Len(p) = 2 /\ p[1] = x /\ p[2] = y
  OBVIOUS
<1> HIDE DEF p
<1>2. /\ p \o v \in Seq(S) /\ Len(p \o v) = Len(v) + 2
      /\ (p \o v)[1] = x /\ (p \o v)[2] = y
      /\ \A i \in 1 .. Len(v) : (p \o v)[2 + i] = v[i]
  <2>1. /\ p \o v \in Seq(S) /\ Len(p \o v) = Len(p) + Len(v)
        /\ \A i \in 1 .. Len(p) : (p \o v)[i] = p[i]
        /\ \A i \in 1 .. Len(v) : (p \o v)[Len(p) + i] = v[i]
    <3>1. p \in Seq(S)
      BY <1>1
    <3> QED BY <3>1
  <2>2. 1 \in 1 .. 2 /\ 2 \in 1 .. 2 /\ Len(v) \in Nat
    OBVIOUS
  <2> DEFINE c == p \o v
  <2> HIDE DEF c
  <2>3. c[1] = p[1] /\ c[2] = p[2]
    BY <1>1, <2>1, <2>2 DEF c
  <2> QED BY <1>1, <2>1, <2>2, <2>3 DEF c
<1>3. From(p \o v, Len(p) + 1) = v
  BY <1>1, Joined
<1> QED BY <1>1, <1>2, <1>3 DEF p

\* Digits and a unit are read to the end.
LEMMA AmountRead ==
  ASSUME NEW S, NEW v \in Seq(S), v # <<>>, Range(v) \subseteq DOMAIN Digits,
         NEW units, NEW unit \in S, unit \in DOMAIN units, unit \notin DOMAIN Digits
  PROVE  Amount(WithUnit(v, unit), units) =
           IF NumberOf(v) > MaxInt THEN {} ELSE {Wrapped(NumberOf(v) * units[unit])}
<1> DEFINE u == IF unit = NoUnit THEN <<>> ELSE <<unit>>
           t == v \o u
           n == Len(v)
<1>8. \A i \in 1 .. Len(v) : v[i] \in DOMAIN Digits
  BY DEF Range
<1>1. u \in Seq(S) /\ (unit = NoUnit => Len(u) = 0) /\ (unit # NoUnit => Len(u) = 1 /\ u[1] = unit)
  OBVIOUS
<1> HIDE DEF u
<1>2. /\ n \in Nat \ {0} /\ Len(t) \in {n, n + 1} /\ (Len(t) = n <=> unit = NoUnit)
      /\ \A i \in 1 .. n : t[i] \in DOMAIN Digits
      /\ Len(t) # n => t[n + 1] = unit
  <2>1. /\ Len(t) = n + Len(u) /\ n \in Nat \ {0}
        /\ \A i \in 1 .. n : t[i] = v[i]
        /\ \A i \in 1 .. Len(u) : t[n + i] = u[i]
    BY <1>1
  <2> HIDE DEF t, n
  <2>2. n = Len(v)
    BY DEF n
  <2> QED BY <1>1, <1>8, <2>1, <2>2
<1>3. SubSeq(t, 1, n) = v
  BY <1>1, Joined
<1> HIDE DEF t, n
<1>4. Leading(t, DOMAIN Digits, Len(t)) = n
  <2>1. Len(t) \in Int /\ n \in 0 .. Len(t) /\ (n < Len(t) => t[n + 1] \notin DOMAIN Digits)
    BY <1>2
  <2> QED BY <1>2, <2>1, LeadingIs
<1>5. (IF n = Len(t) THEN NoUnit ELSE t[n + 1]) = unit
  BY <1>2
<1>6. n # 0 /\ ~(Len(t) > n + 1)
  BY <1>2
<1>7. Amount(t, units) = IF NumberOf(v) > MaxInt THEN {} ELSE {Wrapped(NumberOf(v) * units[unit])}
  BY <1>3, <1>4, <1>5, <1>6 DEF Amount
<1> QED BY <1>7 DEF t, u, WithUnit

\* Texts of two characters, or of one.
LEMMA SameTwo ==
  ASSUME NEW S, NEW r \in Seq(S), NEW p \in Seq(S), Len(r) = 2, Len(p) = 2, r[1] = p[1], r[2] = p[2]
  PROVE  r = p
<1>1. \A i \in 1 .. 2 : i = 1 \/ i = 2
  OBVIOUS
<1>2. \A i \in 1 .. 2 : r[i] = p[i]
  BY <1>1
<1> QED BY <1>2

LEMMA SameOne ==
  ASSUME NEW S, NEW r \in Seq(S), NEW p \in Seq(S), Len(r) = 1, Len(p) = 1, r[1] = p[1]
  PROVE  r = p
<1>1. \A i \in 1 .. 1 : i = 1
  OBVIOUS
<1>2. \A i \in 1 .. 1 : r[i] = p[i]
  BY <1>1
<1> QED BY <1>2

\* Begins with two characters, or with one.
LEMMA BeginsWithTwo ==
  ASSUME NEW S, NEW p \in Seq(S), Len(p) = 2, NEW t \in Seq(S)
  PROVE  /\ IsPrefix(p, t) <=> Len(t) >= 2 /\ t[1] = p[1] /\ t[2] = p[2]
         /\ Len(t) >= 2 => (SubSeq(t, 1, 2) = p <=> t[1] = p[1] /\ t[2] = p[2])
<1>1. p \in Seq(S) /\ Len(p) = 2
  OBVIOUS
<1>2. Len(t) \in Nat
  OBVIOUS
<1>3. SubSeq(p, 1, Len(p)) = p
  BY <1>1
<1>4. ASSUME Len(t) >= 2 PROVE SubSeq(t, 1, 2) = p <=> t[1] = p[1] /\ t[2] = p[2]
  <2> DEFINE r == SubSeq(t, 1, 2)
  <2>1. r \in Seq(S) /\ Len(r) = 2 /\ \A i \in 1 .. 2 : r[i] = t[i]
    BY <1>2, <1>4
  <2> HIDE DEF r
  <2>2. 1 \in 1 .. 2 /\ 2 \in 1 .. 2
    OBVIOUS
  <2>3. r = p <=> r[1] = p[1] /\ r[2] = p[2]
    BY <1>1, <2>1, SameTwo
  <2> QED BY <1>1, <2>1, <2>2, <2>3 DEF r
<1>5. IsPrefix(p, t) <=> Len(t) >= 2 /\ SubSeq(t, 1, 2) = p
  BY <1>1, <1>2, <1>3 DEF IsPrefix
<1> QED BY <1>4, <1>5

\* So does an extension.
LEMMA BeginsAsExtension ==
  ASSUME NEW S, Star \in S, Dot \in S, NEW t \in Seq(S)
  PROVE  /\ IsPrefix(<<Star, Dot>>, t) <=> Len(t) >= 2 /\ t[1] = Star /\ t[2] = Dot
         /\ Len(t) >= 2 => (SubSeq(t, 1, 2) = <<Star, Dot>> <=> t[1] = Star /\ t[2] = Dot)
<1> DEFINE p == <<Star, Dot>>
<1>1. p \in Seq(S) /\ Len(p) = 2 /\ p[1] = Star /\ p[2] = Dot
  OBVIOUS
<1> HIDE DEF p
<1>2. /\ IsPrefix(p, t) <=> Len(t) >= 2 /\ t[1] = p[1] /\ t[2] = p[2]
      /\ Len(t) >= 2 => (SubSeq(t, 1, 2) = p <=> t[1] = p[1] /\ t[2] = p[2])
  BY <1>1, BeginsWithTwo
<1> QED BY <1>1, <1>2 DEF p

LEMMA BeginsWithOne ==
  ASSUME NEW S, NEW x \in S, NEW t \in Seq(S)
  PROVE  IsPrefix(<<x>>, t) <=> Len(t) >= 1 /\ t[1] = x
<1> DEFINE p == <<x>>
<1>1. p \in Seq(S) /\ Len(p) = 1 /\ p[1] = x
  OBVIOUS
<1>2. Len(t) \in Nat
  OBVIOUS
<1> HIDE DEF p
<1>3. SubSeq(p, 1, Len(p)) = p
  BY <1>1
<1>4. ASSUME Len(t) >= 1 PROVE SubSeq(t, 1, 1) = p <=> t[1] = x
  <2> DEFINE r == SubSeq(t, 1, 1)
  <2>1. r \in Seq(S) /\ Len(r) = 1 /\ r[1] = t[1]
    BY <1>2, <1>4
  <2> HIDE DEF r
  <2>3. r = p <=> r[1] = p[1]
    BY <1>1, <2>1, SameOne
  <2> QED BY <1>1, <2>1, <2>3 DEF r
<1>5. IsPrefix(p, t) <=> Len(t) >= 1 /\ SubSeq(t, 1, 1) = p
  BY <1>1, <1>2, <1>3 DEF IsPrefix
<1> QED BY <1>4, <1>5 DEF p

\* "*." and more is an extension.
LEMMA ExtensionRead ==
  ASSUME NEW S, NEW v \in Seq(S), v # <<>>, Star \in S, Dot \in S
  PROVE  ParsePlain(<<Star, Dot>> \o v) = Constraint("extension", v)
<1> DEFINE t == <<Star, Dot>> \o v
<1>1. t \in Seq(S) /\ Len(t) = Len(v) + 2 /\ t[1] = Star /\ t[2] = Dot /\ From(t, 3) = v
  BY TwoInFront
<1>2. Len(v) \in Nat \ {0}
  OBVIOUS
<1> HIDE DEF t
<1>3. Len(t) > 2 /\ SubSeq(t, 1, 2) = <<Star, Dot>>
  <2>1. Len(t) >= 2 => (SubSeq(t, 1, 2) = <<Star, Dot>> <=> t[1] = Star /\ t[2] = Dot)
    <3>1. t \in Seq(S)
      BY <1>1
    <3> QED BY <3>1, BeginsAsExtension
  <2> QED BY <1>1, <1>2, <2>1
<1>4. ParsePlain(t) = Constraint("extension", v)
  BY <1>1, <1>3, Zenon DEF ParsePlain
<1> QED BY <1>4 DEF t

\* A wildcard anywhere else makes a glob.
LEMMA GlobRead ==
  ASSUME NEW S, NEW t \in Seq(S), Star \in S, Dot \in S, Wild(t), ~IsPrefix(<<Star, Dot>>, t)
  PROVE  ParsePlain(t) = Constraint("glob", t)
<1>1. ~(Len(t) > 2 /\ SubSeq(t, 1, 2) = <<Star, Dot>>)
  <2>1. Len(t) \in Nat
    OBVIOUS
  <2> QED BY <2>1, BeginsAsExtension
<1> QED BY <1>1, Zenon DEF ParsePlain, Wild

\* A key, a colon and a value: the value of a size is read on its own.
LEMMA KeyedRead ==
  ASSUME NEW S, NEW v \in Seq(S), v # <<>>, NEW k \in Keys, k \in S,
         Star \in S, Dot \in S, Colon \in S, ~Wild(<<k, Colon>> \o v)
  PROVE  ParsePlain(<<k, Colon>> \o v) = IF k = "size" THEN ParseSize(v) ELSE Constraint(k, v)
<1> DEFINE t == <<k, Colon>> \o v
<1>1. /\ t \in Seq(S) /\ Len(t) = Len(v) + 2 /\ t[1] = k /\ t[2] = Colon /\ From(t, 3) = v
  BY TwoInFront
<1>2. Len(v) \in Nat \ {0}
  OBVIOUS
<1>3. ~Wild(t)
  OBVIOUS
<1> HIDE DEF t
<1>4. DOMAIN t = 1 .. Len(t) /\ Len(t) \in Nat /\ Len(t) > 2
  BY <1>1, <1>2
<1>5. k # Star /\ k # Slash /\ k # Colon
  BY CharactersApart
<1>6. ~(Len(t) > 2 /\ SubSeq(t, 1, 2) = <<Star, Dot>>)
  <2>1. t \in Seq(S)
    BY <1>1
  <2>2. Len(t) >= 2 => (SubSeq(t, 1, 2) = <<Star, Dot>> <=> t[1] = Star /\ t[2] = Dot)
    BY <2>1, BeginsAsExtension
  <2> QED BY <1>1, <1>4, <1>5, <2>2
<1> DEFINE colons == {i \in DOMAIN t : t[i] = Colon}
<1>7. Min(colons) = 2 /\ colons # {}
  <2>1. 2 \in colons /\ \A i \in colons : i \in Nat /\ i >= 2
    BY <1>1, <1>4, <1>5
  <2> HIDE DEF colons
  <2>2. \A x \in colons : (\A y \in colons : x =< y) => x = 2
    BY <2>1
  <2>3. \A y \in colons : 2 =< y
    BY <2>1
  <2>4. Min(colons) = 2
    BY <2>1, <2>2, <2>3 DEF Min
  <2> QED BY <2>1, <2>4
<1>8. t[1] \in Keys /\ t[1] # Slash
  BY <1>1, <1>5
<1>9. ParsePlain(t) = IF t[1] = "size" THEN ParseSize(From(t, 3)) ELSE Constraint(t[1], From(t, 3))
  BY <1>3, <1>4, <1>6, <1>7, <1>8, Zenon DEF ParsePlain, Wild
<1> QED BY <1>1, <1>9, Zenon DEF t

\* A token with no wildcard, slash or key in front is a size or text.
LEMMA UnkeyedRead ==
  ASSUME NEW S, NEW t \in Seq(S), t # <<>>, Star \in S, Dot \in S, ~Wild(t), t[1] # Slash,
         t[1] \notin Keys
  PROVE  ParsePlain(t) = ParseSize(t)
<1>1. t[1] \in Range(t)
  BY DEF Range
<1>2. t[1] # Star
  BY <1>1 DEF Wild
<1>3. ~(Len(t) > 2 /\ SubSeq(t, 1, 2) = <<Star, Dot>>)
  <2>1. Len(t) >= 2 => (SubSeq(t, 1, 2) = <<Star, Dot>> <=> t[1] = Star /\ t[2] = Dot)
    BY BeginsAsExtension
  <2>2. Len(t) \in Nat
    OBVIOUS
  <2> QED BY <1>2, <2>1, <2>2
<1> QED BY <1>3, Zenon DEF ParsePlain, Wild

\* A comparison has a mark or two.
LEMMA ComparisonType ==
  ASSUME NEW S, NEW op \in Comparisons, Greater \in S, Less \in S, Equal \in S
  PROVE  /\ op \in Seq(S) /\ Len(op) \in {1, 2} /\ op[1] \in {Greater, Less, Equal}
         /\ Len(op) = 2 => op[2] = Equal /\ op[1] # Equal
<1>1. /\ Greater # Less /\ Greater # Equal /\ Less # Equal
  BY DEF Greater, Less, Equal
<1>2. /\ op \in Seq(S) /\ Len(op) \in {1, 2} /\ op[1] \in {Greater, Less, Equal}
      /\ Len(op) = 2 => op[2] = Equal /\ op[1] # Equal
  <2>1. CASE op = <<Greater, Equal>>
    BY <1>1, <2>1
  <2>2. CASE op = <<Less, Equal>>
    BY <1>1, <2>2
  <2>3. CASE op = <<Greater>>
    BY <2>3
  <2>4. CASE op = <<Less>>
    BY <2>4
  <2>5. CASE op = <<Equal>>
    BY <2>5
  <2> QED BY <2>1, <2>2, <2>3, <2>4, <2>5, Zenon DEF Comparisons
<1> QED BY <1>2

\* The comparison that is read is the one that is written.
LEMMA ComparisonRead ==
  ASSUME NEW S, NEW rest \in Seq(S), rest # <<>>, rest[1] # Equal, NEW op \in Comparisons,
         Greater \in S, Less \in S, Equal \in S
  PROVE  /\ op \in Seq(S) /\ Len(op) \in {1, 2} /\ IsPrefix(op, op \o rest)
         /\ \A c \in Comparisons : IsPrefix(c, op \o rest) => c = op \/ Len(c) < Len(op)
<1>2. /\ op \in Seq(S) /\ Len(op) \in {1, 2} /\ op[1] \in {Greater, Less, Equal}
      /\ Len(op) = 2 => op[2] = Equal /\ op[1] # Equal
  BY ComparisonType
<1> DEFINE t == op \o rest
<1>3. t \in Seq(S) /\ SubSeq(t, 1, Len(op)) = op /\ Len(t) = Len(op) + Len(rest)
  BY <1>2, Joined
<1>4. /\ t[1] = op[1] /\ t[Len(op) + 1] = rest[1]
      /\ Len(op) = 2 => t[2] = op[2]
  <2>1. op \in Seq(S) /\ 1 \in 1 .. Len(op) /\ 1 \in 1 .. Len(rest) /\ (Len(op) = 2 => 2 \in 1 .. Len(op))
    BY <1>2
  <2> QED BY <2>1
<1> HIDE DEF t
<1>5. IsPrefix(op, t)
  BY <1>2, <1>3 DEF IsPrefix
<1>6. ASSUME NEW c \in Comparisons, IsPrefix(c, t) PROVE c = op \/ Len(c) < Len(op)
  <2>1. Len(t) >= 1 /\ (Len(t) = 1 => Len(op) = 0) /\ Len(op) \in Nat
    BY <1>2, <1>3
  <2>2. ASSUME NEW x \in {Greater, Less}, c = <<x, Equal>> PROVE c = op
    <3> DEFINE p == <<x, Equal>>
    <3>1. p \in Seq(S) /\ Len(p) = 2 /\ p[1] = x /\ p[2] = Equal
      OBVIOUS
    <3> HIDE DEF p
    <3>2. Len(t) >= 2 /\ t[1] = p[1] /\ t[2] = p[2]
      <4>1. t \in Seq(S) /\ IsPrefix(p, t)
        BY <1>3, <1>6, <2>2 DEF p
      <4> QED BY <3>1, <4>1, BeginsWithTwo
    <3>3. Len(op) # 1
      <4>1. SUFFICES ASSUME Len(op) = 1 PROVE FALSE
        OBVIOUS
      <4>2. t[2] = rest[1]
        BY <1>4, <4>1
      <4> QED BY <3>1, <3>2, <4>2
    <3>4. Len(op) = 2 /\ op[1] = p[1] /\ op[2] = p[2]
      BY <1>2, <1>4, <3>2, <3>3
    <3>5. op = p
      <4>1. op \in Seq(S)
        BY <1>2
      <4> QED BY <3>1, <3>4, <4>1, SameTwo
    <3> QED BY <2>2, <3>5 DEF p
  <2>3. ASSUME NEW x \in {Greater, Less, Equal}, c = <<x>> PROVE c = op \/ Len(c) < Len(op)
    <3> DEFINE p == <<x>>
    <3>1. p \in Seq(S) /\ Len(p) = 1 /\ p[1] = x
      OBVIOUS
    <3> HIDE DEF p
    <3>2. t[1] = x
      <4>1. t \in Seq(S) /\ x \in S /\ IsPrefix(<<x>>, t)
        BY <1>3, <1>6, <2>3
      <4> QED BY <4>1, BeginsWithOne
    <3>3. Len(op) = 1 => op = p
      <4>1. op \in Seq(S) /\ op[1] = p[1]
        BY <1>2, <1>4, <3>1, <3>2
      <4> QED BY <3>1, <4>1, SameOne
    <3> QED BY <1>2, <2>3, <3>1, <3>3 DEF p
  <2> QED BY <2>2, <2>3, Zenon DEF Comparisons
<1> QED BY <1>2, <1>5, <1>6 DEF t

\* A size is read as it is written.
LEMMA SizeRead ==
  ASSUME NEW S, NEW v \in Seq(S), v # <<>>, Range(v) \subseteq DOMAIN Digits,
         NEW unit \in S, unit \in DOMAIN SizeUnits, NumberOf(v) \in Nat, NumberOf(v) <= MaxInt,
         NEW op \in Comparisons, Greater \in S, Less \in S, Equal \in S
  PROVE  ParseSize(op \o WithUnit(v, unit)) =
           [kind |-> "size", value |-> WithUnit(v, unit), op |-> op,
            bytes |-> Wrapped(NumberOf(v) * SizeUnits[unit])]
<1>1. unit \notin DOMAIN Digits /\ Equal \notin DOMAIN Digits
  BY CharactersAssumption DEF Units
<1>13. Amount(WithUnit(v, unit), SizeUnits) =
        IF NumberOf(v) > MaxInt THEN {} ELSE {Wrapped(NumberOf(v) * SizeUnits[unit])}
  BY <1>1, AmountRead
<1> DEFINE u == IF unit = NoUnit THEN <<>> ELSE <<unit>>
           rest == v \o u
           t == op \o rest
           m == Wrapped(NumberOf(v) * SizeUnits[unit])
           ops == {c \in Comparisons : IsPrefix(c, t)}
<1>2. Amount(rest, SizeUnits) = {m}
  <2>1. ~(NumberOf(v) > MaxInt)
    BY UnitsAssumption
  <2> QED BY <1>13, <2>1, Zenon DEF WithUnit
<1>14. \A i \in 1 .. Len(v) : v[i] \in DOMAIN Digits
  BY DEF Range
<1>3. u \in Seq(S)
  OBVIOUS
<1> HIDE DEF u
<1>4. rest \in Seq(S) /\ rest # <<>> /\ rest[1] # Equal /\ Len(rest) \in Nat \ {0}
  <2>1. rest \in Seq(S) /\ Len(rest) = Len(v) + Len(u) /\ \A i \in 1 .. Len(v) : rest[i] = v[i]
    BY <1>3
  <2>2. 1 \in 1 .. Len(v) /\ Len(v) \in Nat /\ Len(u) \in Nat
    BY <1>3
  <2> HIDE DEF rest
  <2>3. rest[1] = v[1] /\ Len(rest) # 0 /\ Len(rest) \in Nat
    BY <2>1, <2>2
  <2> QED BY <1>1, <1>14, <2>1, <2>2, <2>3
<1> HIDE DEF rest
<1>5. /\ op \in Seq(S) /\ Len(op) \in {1, 2} /\ IsPrefix(op, t)
      /\ \A c \in Comparisons : IsPrefix(c, t) => c = op \/ Len(c) < Len(op)
  BY <1>4, ComparisonRead
<1>6. From(t, Len(op) + 1) = rest
  BY <1>4, <1>5, Joined
<1>7. Len(t) >= 2
  <2>1. Len(t) = Len(op) + Len(rest)
    BY <1>4, <1>5
  <2> HIDE DEF t
  <2> QED BY <1>4, <1>5, <2>1
<1> HIDE DEF t
<1>8. op \in ops /\ \A c \in ops : c = op \/ Len(c) < Len(op)
  BY <1>5
<1>9. (CHOOSE c \in ops : \A d \in ops : Len(c) >= Len(d)) = op
  <2> DEFINE Longest(c) == \A d \in ops : Len(c) >= Len(d)
  <2>1. \A c \in ops : Len(c) \in Nat
    BY ComparisonType
  <2>2. Longest(op)
    BY <1>8, <2>1
  <2>3. \A c \in ops : Longest(c) => c = op
    BY <1>8, <2>1
  <2>4. (CHOOSE c \in ops : Longest(c)) = op
    <3> HIDE DEF Longest, ops
    <3> QED BY <1>8, <2>2, <2>3
  <2> QED BY <2>4
<1>10. (CHOOSE x \in Amount(rest, SizeUnits) : TRUE) = m /\ Amount(rest, SizeUnits) # {}
  BY <1>2
<1> HIDE DEF m
<1>11. ops # {} /\ ~(Len(t) < 2)
  BY <1>7, <1>8
<1>12. ParseSize(t) = [kind |-> "size", value |-> rest, op |-> op, bytes |-> m]
  BY <1>6, <1>9, <1>10, <1>11, Zenon DEF ParseSize
<1> QED BY <1>12 DEF t, rest, u, m, WithUnit

\* What spells no size is read as none.
LEMMA NoSizeRead ==
  ASSUME NEW t, ~SpellsSize(t)
  PROVE  ParseSize(t) = NoConstraint
<1> DEFINE ops == {c \in Comparisons : IsPrefix(c, t)}
           op == CHOOSE c \in ops : \A d \in ops : Len(c) >= Len(d)
<1>1. ASSUME ops # {} PROVE op \in Comparisons /\ IsPrefix(op, t)
  <2>1. \A c \in ops : Len(c) \in {1, 2}
    <3> DEFINE S == {Greater, Less, Equal}
    <3>1. Greater \in S /\ Less \in S /\ Equal \in S
      OBVIOUS
    <3> HIDE DEF S
    <3> QED BY <3>1, ComparisonType
  <2>2. \E c \in ops : \A d \in ops : Len(c) >= Len(d)
    <3> HIDE DEF ops
    <3> QED BY <1>1, <2>1
  <2> QED BY <2>2
<1>2. ops = {} \/ Amount(From(t, Len(op) + 1), SizeUnits) = {}
  BY <1>1, Zenon DEF SpellsSize
<1> HIDE DEF ops, op
<1>3. ops = {c \in Comparisons : IsPrefix(c, t)} /\ op = CHOOSE c \in ops : \A d \in ops : Len(c) >= Len(d)
  BY DEF ops, op
<1> QED BY <1>2, <1>3, Zenon DEF ParseSize

\* A segment loses its slashes.
LEMMA SegmentRead ==
  ASSUME NEW S, NEW v \in Seq(S), v # <<>>, Slash \in S, Star \in S, Dot \in S,
         v[1] # Slash, v[Len(v)] # Slash, ~Wild(v)
  PROVE  ParsePlain(<<Slash>> \o v \o <<Slash>>) = Constraint("segment", v)
<1> DEFINE n == Len(v)
           t == <<Slash>> \o v \o <<Slash>>
           kept == {i \in DOMAIN t : t[i] # Slash}
<1>1. n \in Nat \ {0} /\ 1 \in 1 .. n /\ n \in 1 .. n
  OBVIOUS
<1>2. /\ t \in Seq(S) /\ Len(t) = n + 2 /\ t[1] = Slash /\ t[n + 2] = Slash
      /\ \A i \in 1 .. n : t[i + 1] = v[i]
  <2> DEFINE p == <<Slash>>
  <2>1. p \in Seq(S) /\ Len(p) = 1 /\ p[1] = Slash
    OBVIOUS
  <2> HIDE DEF p
  <2>2. /\ p \o v \o p \in Seq(S) /\ Len(p \o v \o p) = n + 2
        /\ (p \o v \o p)[1] = p[1] /\ (p \o v \o p)[n + 2] = p[1]
        /\ \A i \in 1 .. n : (p \o v \o p)[i + 1] = v[i]
    <3>1. p \o v \in Seq(S) /\ Len(p \o v) = n + 1 /\ Len(v) = n
      <4>1. p \in Seq(S)
        BY <2>1
      <4>2. p \o v \in Seq(S) /\ Len(p \o v) = Len(p) + Len(v)
        BY <4>1
      <4>3. Len(v) = n
        BY DEF n
      <4> QED BY <1>1, <2>1, <4>2, <4>3
    <3>2. (p \o v)[1] = p[1] /\ \A i \in 1 .. n : (p \o v)[i + 1] = v[i]
      BY <1>1, <2>1, <3>1
    <3> DEFINE c == p \o v
    <3> HIDE DEF c
    <3>3. /\ c \o p \in Seq(S) /\ Len(c \o p) = n + 2 /\ (c \o p)[n + 2] = p[1]
          /\ \A i \in 1 .. n + 1 : (c \o p)[i] = c[i]
      <4>1. c \in Seq(S) /\ Len(c) = n + 1
        BY <3>1 DEF c
      <4>2. p \in Seq(S)
        BY <2>1
      <4>3. /\ c \o p \in Seq(S) /\ Len(c \o p) = Len(c) + Len(p)
            /\ \A i \in 1 .. Len(p) : (c \o p)[Len(c) + i] = p[i]
            /\ \A i \in 1 .. Len(c) : (c \o p)[i] = c[i]
        BY <4>1, <4>2, SMTT(15)
      <4>4. 1 \in 1 .. Len(p) /\ (n + 1) + 1 = n + 2
        BY <1>1, <2>1
      <4> QED BY <1>1, <2>1, <4>1, <4>3, <4>4
    <3>4. 1 \in 1 .. n + 1 /\ \A i \in 1 .. n : i + 1 \in 1 .. n + 1
      BY <1>1
    <3>5. (c \o p)[1] = p[1] /\ \A i \in 1 .. n : (c \o p)[i + 1] = v[i]
      BY <3>2, <3>3, <3>4 DEF c
    <3> QED BY <3>3, <3>5 DEF c
  <2> QED BY <2>1, <2>2 DEF p
<1> HIDE DEF t, n
<1>3. DOMAIN t = 1 .. n + 2 /\ DOMAIN v = 1 .. n
  BY <1>1, <1>2 DEF n
<1>4. t[2] # Slash /\ t[n + 1] # Slash
  BY <1>1, <1>2 DEF n
<1>5. \A i \in 1 .. n + 2 : t[i] = Slash \/ \E j \in 1 .. n : t[i] = v[j]
  <2> SUFFICES ASSUME NEW i \in 1 .. n + 2, i # 1, i # n + 2 PROVE \E j \in 1 .. n : t[i] = v[j]
    BY <1>2
  <2>1. i - 1 \in 1 .. n /\ (i - 1) + 1 = i
    BY <1>1
  <2> QED BY <1>2, <2>1
<1>6. ~Wild(t)
  <2>1. Slash \notin {Star, Mark}
    BY CharactersApart
  <2>2. \A j \in 1 .. n : v[j] \notin {Star, Mark}
    BY <1>3 DEF Wild, Range
  <2> QED BY <1>3, <1>5, <2>1, <2>2 DEF Wild, Range
<1>7. ~(Len(t) > 2 /\ SubSeq(t, 1, 2) = <<Star, Dot>>)
  <2>1. t \in Seq(S)
    BY <1>2
  <2>2. Len(t) >= 2 => (SubSeq(t, 1, 2) = <<Star, Dot>> <=> t[1] = Star /\ t[2] = Dot)
    BY <2>1, BeginsAsExtension
  <2>3. Slash # Star
    BY CharactersApart
  <2> QED BY <1>1, <1>2, <2>2, <2>3
<1>8. /\ 2 \in kept /\ n + 1 \in kept
      /\ \A i \in kept : i \in Nat /\ 2 =< i /\ n + 1 >= i
  BY <1>1, <1>2, <1>3, <1>4
<1>9. Min(kept) = 2 /\ Max(kept) = n + 1
  <2> HIDE DEF kept
  <2>1. Min(kept) = 2
    <3>1. \A x \in kept : (\A y \in kept : x =< y) => x = 2
      BY <1>8
    <3> QED BY <1>8, <3>1 DEF Min
  <2>2. Max(kept) = n + 1
    <3>1. \A x \in kept : (\A y \in kept : x >= y) => x = n + 1
      BY <1>1, <1>8
    <3> QED BY <1>8, <3>1 DEF Max
  <2> QED BY <2>1, <2>2
<1>10. SubSeq(t, 2, n + 1) = v
  <2>1. Len(v) = n
    BY DEF n
  <2> QED BY <1>1, <1>2, <2>1
<1>11. Trimmed(t) = v
  BY <1>8, <1>9, <1>10, Zenon DEF Trimmed
<1>12. Len(t) >= 3
  BY <1>1, <1>2
<1>13. ParsePlain(t) = Constraint("segment", v)
  BY <1>2, <1>6, <1>7, <1>11, <1>12, Zenon DEF ParsePlain, Wild
<1> QED BY <1>13 DEF t

\* A word is read as no constraint.
LEMMA WordRead ==
  ASSUME NEW S, NEW t \in Seq(S), t # <<>>, Slash \in S, Star \in S, Dot \in S, IsWord(t)
  PROVE  ParsePlain(t).kind = "none"
<1>1. Len(t) \in Nat /\ DOMAIN t = 1 .. Len(t) /\ Len(t) # 0
  OBVIOUS
<1>2. ParseSize(t) = NoConstraint
  BY NoSizeRead DEF IsWord
<1>3. /\ IsPrefix(<<Star, Dot>>, t) <=> Len(t) >= 2 /\ t[1] = Star /\ t[2] = Dot
      /\ Len(t) >= 2 => (SubSeq(t, 1, 2) = <<Star, Dot>> <=> t[1] = Star /\ t[2] = Dot)
  BY BeginsAsExtension
<1>4. NoConstraint.kind = "none"
  BY DEF NoConstraint, Constraint
<1>5. CASE Wild(t)
  <2>1. t = <<Star, Dot>>
    BY <1>5 DEF IsWord
  <2>2. Len(t) = 2 /\ t[1] = Star /\ t[2] = Dot
    BY <2>1
  <2>3. /\ ~(Len(t) > 2) /\ ~(Len(t) >= 3) /\ IsPrefix(<<Star, Dot>>, t)
    BY <1>3, <2>2
  <2>4. ParsePlain(t) = ParseSize(t)
    BY <2>3, Zenon DEF ParsePlain
  <2> QED BY <1>2, <1>4, <2>4
<1>6. CASE ~Wild(t)
  <2>1. t[1] # Star
    BY <1>1, <1>6 DEF Wild, Range
  <2>2. ~(Len(t) > 2 /\ SubSeq(t, 1, 2) = <<Star, Dot>>)
    BY <1>1, <1>3, <2>1
  <2>3. ASSUME Len(t) >= 3, t[1] = Slash PROVE Trimmed(t) = <<>>
    <3>1. Range(t) = {Slash}
      BY <1>1, <2>3 DEF IsWord
    <3>2. {i \in DOMAIN t : t[i] # Slash} = {}
      BY <3>1 DEF Range
    <3> QED BY <3>2, Zenon DEF Trimmed
  <2> DEFINE colons == {i \in DOMAIN t : t[i] = Colon}
             keyed == colons # {} /\ Min(colons) = 2 /\ Len(t) > 2 /\ t[1] \in Keys
  <2>4. ASSUME keyed PROVE t[1] = "size" /\ ParseSize(From(t, 3)) = NoConstraint
    <3>1. \E x \in colons : \A y \in colons : x =< y
      <4>1. colons \in SUBSET Nat
        BY <1>1
      <4> HIDE DEF colons
      <4> QED BY <2>4, <4>1, LeastNumber
    <3>2. Min(colons) \in colons
      BY <3>1 DEF Min
    <3>3. t[2] = Colon
      BY <2>4, <3>2
    <3>4. t[1] = "size" /\ ~SpellsSize(From(t, 3))
      BY <2>4, <3>3, Zenon DEF IsWord
    <3> QED BY <3>4, NoSizeRead
  <2>5. ParsePlain(t) = NoConstraint
    <3>1. CASE keyed
      BY <1>6, <2>2, <2>3, <2>4, <3>1, Zenon DEF ParsePlain, Wild
    <3>2. CASE ~keyed
      BY <1>2, <1>6, <2>2, <2>3, <3>2, Zenon DEF ParsePlain, Wild
    <3> QED BY <3>1, <3>2
  <2> QED BY <1>4, <2>5
<1> QED BY <1>5, <1>6

\* An item without its negations, kind by kind.
LEMMA PlainlySaid ==
  ASSUME NEW item, WellFormed(item)
  PROVE  /\ item.kind = "extension" => Plainly(item) = <<Star, Dot>> \o item.value
         /\ item.kind = "segment" => Plainly(item) = <<Slash>> \o item.value \o <<Slash>>
         /\ item.kind \in {"status", "type"} => Plainly(item) = <<item.kind, Colon>> \o item.value
         /\ item.kind = "modified" =>
              Plainly(item) = <<item.kind, Colon>> \o WithUnit(item.value, item.unit)
         /\ (item.kind = "size" /\ item.keyed) =>
              Plainly(item) = <<item.kind, Colon>> \o (item.op \o WithUnit(item.value, item.unit))
         /\ (item.kind = "size" /\ ~item.keyed) =>
              Plainly(item) = <<>> \o (item.op \o WithUnit(item.value, item.unit))
         /\ item.kind \in {"glob", "text"} => Plainly(item) = item.value
<1> DEFINE e == <<Star, Dot>> \o item.value
           s == <<Slash>> \o item.value \o <<Slash>>
           k == <<item.kind, Colon>> \o item.value
           m == <<item.kind, Colon>> \o WithUnit(item.value, item.unit)
           z == (IF item.keyed THEN <<item.kind, Colon>> ELSE <<>>) \o (item.op \o WithUnit(item.value, item.unit))
<1>1. Plainly(item) = CASE item.kind = "extension" -> e
                        [] item.kind = "segment" -> s
                        [] item.kind \in {"status", "type"} -> k
                        [] item.kind = "modified" -> m
                        [] item.kind = "size" -> z
                        [] OTHER -> item.value
  BY DEF Plainly
<1>2. /\ item.keyed => z = <<item.kind, Colon>> \o (item.op \o WithUnit(item.value, item.unit))
      /\ ~item.keyed => z = <<>> \o (item.op \o WithUnit(item.value, item.unit))
  BY Zenon
<1> HIDE DEF e, s, k, m, z
<1>3. /\ item.kind = "extension" => Plainly(item) = e
      /\ item.kind = "segment" => Plainly(item) = s
      /\ item.kind \in {"status", "type"} => Plainly(item) = k
      /\ item.kind = "modified" => Plainly(item) = m
      /\ item.kind = "size" => Plainly(item) = z
      /\ item.kind \in {"glob", "text"} => Plainly(item) = item.value
  BY <1>1
<1> QED BY <1>2, <1>3, Zenon DEF e, s, k, m

\* A number in 64 bits stays as it is.
LEMMA WrappedSmall ==
  ASSUME NEW n \in Int, -MaxInt - 1 <= n, n <= MaxInt
  PROVE  Wrapped(n) = n
<1> DEFINE m == n + MaxInt + 1
           k == 2 * MaxInt + 2
<1>1. m \in 0 .. k - 1 /\ k \in Nat /\ k > 0
  BY UnitsAssumption
<1>2. MaxInt \in Nat /\ m - MaxInt - 1 = n
  BY UnitsAssumption
<1> HIDE DEF m, k
<1>3. m % k = m
  BY <1>1
<1>4. Wrapped(n) = (m % k) - MaxInt - 1
  BY DEF Wrapped, m, k
<1> QED BY <1>2, <1>3, <1>4

\* What is to be read of an item without its negations.
PlainRight(item, t, c) ==
  /\ t \in Seq(Symbols(item.value)) /\ t # <<>> /\ t[1] # Bang
  /\ item.kind = "text" => t = item.value /\ c.kind = "none"
  /\ item.kind \in {"extension", "glob", "segment", "status", "type"} => c = Constraint(item.kind, item.value)
  /\ item.kind = "modified" => c = Constraint(item.kind, WithUnit(item.value, item.unit))
  /\ item.kind = "size" =>
       c = [kind |-> "size", value |-> WithUnit(item.value, item.unit), op |-> item.op,
            bytes |-> Wrapped(item.number * SizeUnits[item.unit])]

LEMMA SymbolsHave ==
  ASSUME NEW v, v \in Seq(Range(v))
  PROVE  /\ v \in Seq(Symbols(v)) /\ Range(v) \subseteq Symbols(v)
         /\ Keys \subseteq Symbols(v) /\ Units \subseteq Symbols(v)
         /\ Bang \in Symbols(v) /\ Star \in Symbols(v) /\ Dot \in Symbols(v) /\ Slash \in Symbols(v)
         /\ Colon \in Symbols(v) /\ Greater \in Symbols(v) /\ Less \in Symbols(v) /\ Equal \in Symbols(v)
<1>1. /\ Range(v) \subseteq Symbols(v)
      /\ Keys \subseteq Symbols(v) /\ Units \subseteq Symbols(v)
      /\ Bang \in Symbols(v) /\ Star \in Symbols(v) /\ Dot \in Symbols(v) /\ Slash \in Symbols(v)
      /\ Colon \in Symbols(v) /\ Greater \in Symbols(v) /\ Less \in Symbols(v) /\ Equal \in Symbols(v)
  BY DEF Symbols
<1> DEFINE R == Range(v)
           S == Symbols(v)
<1>2. v \in Seq(R) /\ R \subseteq S
  BY <1>1
<1> HIDE DEF R, S
<1>3. v \in Seq(S)
  BY <1>2
<1> QED BY <1>1, <1>3 DEF S

\* Two characters in front of a text with no wildcard add none.
LEMMA StillTame ==
  ASSUME NEW S, NEW x \in S, NEW y \in S, NEW v \in Seq(S), ~Wild(v), x \notin {Star, Mark},
         y \notin {Star, Mark}
  PROVE  ~Wild(<<x, y>> \o v)
<1> DEFINE t == <<x, y>> \o v
<1>1. /\ t \in Seq(S) /\ Len(t) = Len(v) + 2 /\ t[1] = x /\ t[2] = y
      /\ \A i \in 1 .. Len(v) : t[2 + i] = v[i]
  BY TwoInFront
<1>2. Len(v) \in Nat /\ \A i \in 1 .. Len(v) : v[i] \notin {Star, Mark}
  BY DEF Wild, Range
<1> HIDE DEF t
<1>3. ASSUME NEW i \in DOMAIN t PROVE t[i] \notin {Star, Mark}
  <2>1. i \in 1 .. Len(v) + 2
    BY <1>1, <1>2
  <2>2. CASE i \in {1, 2}
    BY <1>1, <2>2
  <2>3. CASE i \notin {1, 2}
    <3>1. i - 2 \in 1 .. Len(v) /\ 2 + (i - 2) = i
      BY <1>2, <2>1, <2>3
    <3> QED BY <1>1, <1>2, <3>1
  <2> QED BY <2>2, <2>3
<1>4. ~Wild(t)
  BY <1>3 DEF Wild, Range
<1> QED BY <1>4 DEF t

\* Digits and a unit: what stands in them.
LEMMA NumberSpelled ==
  ASSUME NEW S, NEW v \in Seq(S), v # <<>>, Range(v) \subseteq DOMAIN Digits, NEW unit \in S, unit \in Units
  PROVE  /\ WithUnit(v, unit) \in Seq(S) /\ WithUnit(v, unit) # <<>> /\ ~Wild(WithUnit(v, unit))
         /\ WithUnit(v, unit)[1] \in DOMAIN Digits
<1> DEFINE u == IF unit = NoUnit THEN <<>> ELSE <<unit>>
           t == v \o u
<1>1. DOMAIN Digits \cap {Star, Mark} = {} /\ unit \notin {Star, Mark}
  BY CharactersAssumption
<1>2. u \in Seq(S) /\ Len(u) \in Nat /\ \A i \in 1 .. Len(u) : u[i] = unit
  OBVIOUS
<1> HIDE DEF u
<1>3. /\ t \in Seq(S) /\ Len(t) = Len(v) + Len(u)
      /\ \A i \in 1 .. Len(v) : t[i] = v[i]
      /\ \A i \in 1 .. Len(u) : t[Len(v) + i] = u[i]
  BY <1>2
<1>4. Len(v) \in Nat \ {0} /\ 1 \in 1 .. Len(v) /\ \A i \in 1 .. Len(v) : v[i] \in DOMAIN Digits
  BY DEF Range
<1> HIDE DEF t
<1>5. t # <<>> /\ t[1] \in DOMAIN Digits
  BY <1>2, <1>3, <1>4
<1>6. ASSUME NEW i \in DOMAIN t PROVE t[i] \notin {Star, Mark}
  <2>1. i \in 1 .. Len(v) + Len(u)
    BY <1>3
  <2>2. CASE i \in 1 .. Len(v)
    BY <1>1, <1>3, <1>4, <2>2
  <2>3. CASE i \notin 1 .. Len(v)
    <3>1. i - Len(v) \in 1 .. Len(u) /\ Len(v) + (i - Len(v)) = i
      BY <1>2, <1>4, <2>1, <2>3
    <3> QED BY <1>1, <1>2, <1>3, <3>1
  <2> QED BY <2>2, <2>3
<1>7. ~Wild(t)
  BY <1>6 DEF Wild, Range
<1> QED BY <1>3, <1>5, <1>7 DEF t, u, WithUnit

\* An item, read without its negations: extensions, segments and globs.
LEMMA PatternsRead ==
  ASSUME NEW item, WellFormed(item), item.kind \in {"extension", "segment", "glob"}
  PROVE  PlainRight(item, Plainly(item), ParsePlain(Plainly(item)))
<1> DEFINE v == item.value
           S == Symbols(v)
           t == Plainly(item)
<1>1. v \in Seq(S) /\ v # <<>> /\ Bang \in S /\ Star \in S /\ Dot \in S /\ Slash \in S
  BY SymbolsHave DEF WellFormed
<1>2. Bang # Star /\ Bang # Slash
  BY CharactersApart
<1> HIDE DEF S
<1>3. CASE item.kind = "extension"
  <2>1. t = <<Star, Dot>> \o v
    BY <1>3, PlainlySaid, Zenon
  <2>2. t \in Seq(S) /\ t # <<>> /\ t[1] # Bang
    <3>1. /\ <<Star, Dot>> \o v \in Seq(S) /\ Len(<<Star, Dot>> \o v) = Len(v) + 2
          /\ (<<Star, Dot>> \o v)[1] = Star
      BY <1>1, TwoInFront
    <3>2. Len(v) \in Nat
      BY <1>1
    <3> HIDE DEF v, t
    <3>3. t \in Seq(S) /\ Len(t) > 0 /\ t[1] = Star
      BY <2>1, <3>1, <3>2
    <3> QED BY <1>2, <3>3
  <2>3. ParsePlain(t) = Constraint("extension", v)
    BY <1>1, <2>1, ExtensionRead
  <2> QED BY <1>3, <2>2, <2>3 DEF PlainRight, S
<1>4. CASE item.kind = "segment"
  <2>1. t = <<Slash>> \o v \o <<Slash>>
    BY <1>4, PlainlySaid, Zenon
  <2>2. v[1] # Slash /\ v[Len(v)] # Slash /\ ~Wild(v)
    BY <1>4 DEF WellFormed
  <2>3. t \in Seq(S) /\ t # <<>> /\ t[1] # Bang
    <3> DEFINE p == <<Slash>>
    <3>1. p \in Seq(S) /\ Len(p) = 1 /\ p[1] = Slash
      BY <1>1
    <3> HIDE DEF p, v, t
    <3>2. p \in Seq(S) /\ v \in Seq(S)
      BY <1>1, <3>1
    <3>3. /\ p \o v \in Seq(S) /\ Len(p \o v) = Len(p) + Len(v)
          /\ \A i \in 1 .. Len(p) : (p \o v)[i] = p[i]
      BY <3>2
    <3>4. p \o v \in Seq(S) /\ 1 \in 1 .. Len(p \o v) /\ (p \o v)[1] = Slash
      BY <3>1, <3>2, <3>3
    <3> DEFINE c == p \o v
    <3> HIDE DEF c
    <3>5. c \o p \in Seq(S) /\ c \o p # <<>> /\ (c \o p)[1] = Slash
      <4>1. c \in Seq(S) /\ 1 \in 1 .. Len(c) /\ c[1] = Slash
        BY <3>4 DEF c
      <4>2. /\ c \o p \in Seq(S) /\ Len(c \o p) = Len(c) + Len(p)
            /\ \A i \in 1 .. Len(c) : (c \o p)[i] = c[i]
        BY <3>2, <4>1
      <4>3. Len(c) \in Nat /\ Len(c) > 0
        BY <4>1
      <4> QED BY <3>1, <4>1, <4>2, <4>3
    <3>6. t = c \o p
      BY <2>1 DEF c, p
    <3> QED BY <1>2, <3>5, <3>6
  <2>4. ParsePlain(t) = Constraint("segment", v)
    BY <1>1, <2>1, <2>2, SegmentRead
  <2> QED BY <1>4, <2>3, <2>4 DEF PlainRight, S
<1>5. CASE item.kind = "glob"
  <2>1. t = v
    BY <1>5, PlainlySaid
  <2>2. Wild(v) /\ ~IsPrefix(<<Star, Dot>>, v) /\ v[1] # Bang
    <3>1. Star \in Range(v)
      BY <1>5 DEF WellFormed, TwoStars, Range
    <3> QED BY <1>5, <3>1 DEF WellFormed, Wild
  <2>3. ParsePlain(t) = Constraint("glob", v)
    BY <1>1, <2>1, <2>2, GlobRead
  <2> QED BY <1>1, <1>5, <2>1, <2>2, <2>3 DEF PlainRight, S
<1> QED BY <1>3, <1>4, <1>5

\* Keys with a value, sizes and words.
LEMMA ValuesRead ==
  ASSUME NEW item, WellFormed(item), item.kind \in {"status", "type", "modified", "size", "text"}
  PROVE  PlainRight(item, Plainly(item), ParsePlain(Plainly(item)))
<1> DEFINE v == item.value
           S == Symbols(v)
           t == Plainly(item)
<1>1. /\ v \in Seq(S) /\ v # <<>> /\ Keys \subseteq S /\ Units \subseteq S
      /\ Bang \in S /\ Star \in S /\ Dot \in S /\ Slash \in S
      /\ Colon \in S /\ Greater \in S /\ Less \in S /\ Equal \in S
  BY SymbolsHave DEF WellFormed
<1> HIDE DEF S, t
<1>2. ASSUME NEW k \in Keys, NEW w \in Seq(S), w # <<>>, ~Wild(w), t = <<k, Colon>> \o w
      PROVE  /\ t \in Seq(S) /\ t # <<>> /\ t[1] # Bang
             /\ ParsePlain(t) = IF k = "size" THEN ParseSize(w) ELSE Constraint(k, w)
  <2>1. k \in S /\ k \notin {Star, Mark} /\ Colon \notin {Star, Mark} /\ k # Bang
    BY <1>1, CharactersApart
  <2>2. ~Wild(<<k, Colon>> \o w)
    BY <1>1, <1>2, <2>1, StillTame
  <2>3. ParsePlain(t) = IF k = "size" THEN ParseSize(w) ELSE Constraint(k, w)
    BY <1>1, <1>2, <2>1, <2>2, KeyedRead
  <2>4. /\ t \in Seq(S) /\ Len(t) = Len(w) + 2 /\ t[1] = k
    BY <1>1, <1>2, <2>1, TwoInFront
  <2>5. Len(w) \in Nat
    OBVIOUS
  <2> QED BY <2>1, <2>3, <2>4, <2>5
<1>3. CASE item.kind \in {"status", "type"}
  <2>1. t = <<item.kind, Colon>> \o v
    BY <1>3, PlainlySaid DEF t
  <2>2. ~Wild(v) /\ item.kind \in Keys /\ item.kind # "size"
    BY <1>3 DEF WellFormed, Keys
  <2>3. t \in Seq(S) /\ t # <<>> /\ t[1] # Bang /\ ParsePlain(t) = Constraint(item.kind, v)
    BY <1>1, <1>2, <2>1, <2>2
  <2> QED BY <1>3, <2>3 DEF PlainRight, S, t
<1> DEFINE w == WithUnit(v, item.unit)
<1>4. ASSUME item.kind \in {"modified", "size"}
      PROVE  w \in Seq(S) /\ w # <<>> /\ ~Wild(w) /\ w[1] \in DOMAIN Digits
  <2>1. Range(v) \subseteq DOMAIN Digits /\ item.unit \in Units
    BY <1>4 DEF WellFormed, Units
  <2> QED BY <1>1, <2>1, NumberSpelled
<1>5. CASE item.kind = "modified"
  <2>1. t = <<item.kind, Colon>> \o w
    BY <1>5, PlainlySaid DEF t
  <2>2. item.kind \in Keys /\ item.kind # "size"
    BY <1>5 DEF Keys
  <2> HIDE DEF w
  <2>3. t \in Seq(S) /\ t # <<>> /\ t[1] # Bang /\ ParsePlain(t) = Constraint(item.kind, w)
    BY <1>2, <1>4, <1>5, <2>1, <2>2
  <2> QED BY <1>5, <2>3 DEF PlainRight, S, t, w
<1>6. CASE item.kind = "size"
  <2> DEFINE z == item.op \o w
             c == [kind |-> "size", value |-> w, op |-> item.op,
                   bytes |-> Wrapped(item.number * SizeUnits[item.unit])]
  <2>1. /\ item.op \in Comparisons /\ item.unit \in DOMAIN SizeUnits /\ item.unit \in Units
        /\ item.number = NumberOf(v) /\ item.number \in Nat /\ item.number <= MaxInt
        /\ Range(v) \subseteq DOMAIN Digits /\ item.keyed \in BOOLEAN
    BY <1>6 DEF WellFormed, Units
  <2>2. ParseSize(z) = c
    BY <1>1, <2>1, SizeRead
  <2>3. z \in Seq(S) /\ z # <<>> /\ z[1] \in {Greater, Less, Equal} /\ ~Wild(z)
    <3>1. /\ item.op \in Seq(S) /\ Len(item.op) \in {1, 2} /\ item.op[1] \in {Greater, Less, Equal}
          /\ Len(item.op) = 2 => item.op[2] = Equal
      BY <1>1, <2>1, ComparisonType
    <3>2. {Greater, Less, Equal} \cap {Star, Mark} = {}
      BY DEF Greater, Less, Equal, Star, Mark
    <3> DEFINE o == item.op
    <3> HIDE DEF o, w
    <3>3. /\ z \in Seq(S) /\ Len(z) = Len(o) + Len(w)
          /\ \A i \in 1 .. Len(o) : z[i] = o[i]
          /\ \A i \in 1 .. Len(w) : z[Len(o) + i] = w[i]
      <4>1. o \in Seq(S) /\ w \in Seq(S)
        BY <1>4, <1>6, <3>1 DEF o
      <4>2. z = o \o w
        BY DEF o
      <4> QED BY <4>1, <4>2
    <3>4. Len(o) \in {1, 2}
      BY <3>1 DEF o
    <3>9. w \in Seq(S) /\ ~Wild(w)
      BY <1>4, <1>6
    <3>10. Len(w) \in Nat /\ \A i \in 1 .. Len(w) : w[i] \notin {Star, Mark}
      BY <3>9, SMTT(15) DEF Wild, Range
    <3>5. o[1] \in {Greater, Less, Equal} /\ (Len(o) = 2 => o[2] = Equal)
      BY <3>1 DEF o
    <3> HIDE DEF z
    <3>6. ASSUME NEW i \in DOMAIN z PROVE z[i] \notin {Star, Mark}
      <4>1. i \in 1 .. Len(o) + Len(w)
        BY <3>3
      <4>2. CASE i \in 1 .. Len(o)
        <5>1. i = 1 \/ (i = 2 /\ Len(o) = 2)
          <6>1. CASE Len(o) = 1
            BY <4>2, <6>1
          <6>2. CASE Len(o) = 2
            BY <4>2, <6>2
          <6> QED BY <3>4, <6>1, <6>2
        <5> QED BY <3>2, <3>3, <3>5, <4>2, <5>1
      <4>3. CASE i \notin 1 .. Len(o)
        <5>1. i - Len(o) \in 1 .. Len(w) /\ Len(o) + (i - Len(o)) = i
          BY <3>4, <3>10, <4>1, <4>3
        <5> QED BY <3>3, <3>10, <5>1
      <4> QED BY <4>2, <4>3
    <3>7. ~Wild(z)
      BY <3>6 DEF Wild, Range
    <3>8. z # <<>> /\ z[1] \in {Greater, Less, Equal}
      BY <3>3, <3>4, <3>5, <3>10
    <3> QED BY <3>3, <3>7, <3>8
  <2>4. CASE item.keyed
    <3>1. t = <<item.kind, Colon>> \o z
      BY <1>6, <2>4, PlainlySaid DEF t
    <3>2. item.kind \in Keys
      BY <1>6 DEF Keys
    <3> HIDE DEF z, c
    <3>3. t \in Seq(S) /\ t # <<>> /\ t[1] # Bang /\ ParsePlain(t) = c
      BY <1>2, <1>6, <2>2, <2>3, <3>1, <3>2
    <3> QED BY <1>6, <3>3 DEF PlainRight, S, t, c
  <2>5. CASE ~item.keyed
    <3>1. t = <<>> \o z
      BY <1>6, <2>5, PlainlySaid DEF t
    <3> HIDE DEF z, c
    <3>2. t = z
      BY <2>3, <3>1
    <3>3. z[1] # Slash /\ z[1] \notin Keys /\ z[1] # Bang
      BY <2>3 DEF Greater, Less, Equal, Slash, Keys, Bang
    <3>4. ParsePlain(t) = c
      BY <1>1, <2>2, <2>3, <3>2, <3>3, UnkeyedRead
    <3> QED BY <1>6, <2>3, <3>2, <3>3, <3>4 DEF PlainRight, S, t, c
  <2> QED BY <2>1, <2>4, <2>5
<1>7. CASE item.kind = "text"
  <2>1. t = v
    BY <1>7, PlainlySaid DEF t
  <2>2. IsWord(v)
    BY <1>7 DEF WellFormed
  <2>3. ParsePlain(v).kind = "none"
    BY <1>1, <2>2, WordRead
  <2>4. v[1] # Bang
    BY <2>2 DEF IsWord
  <2> QED BY <1>1, <1>7, <2>1, <2>3, <2>4 DEF PlainRight, S, t
<1> QED BY <1>3, <1>5, <1>6, <1>7

\* A product is no smaller than its first factor.
LEMMA ProductGrows ==
  ASSUME NEW a \in Nat, NEW b \in Nat \ {0}
  PROVE  a * b \in Nat /\ a <= a * b
OBVIOUS

\* An item with its negations.
LEMMA ItemRead ==
  ASSUME NEW item, WellFormed(item)
  PROVE  /\ ParseToken(Written(item)) = ReadToken(item.nots, Plainly(item))
         /\ PlainRight(item, Plainly(item), ParsePlain(Plainly(item)))
         /\ item.nots = 0 => Written(item) = Plainly(item)
<1> DEFINE w == Plainly(item)
           S == Symbols(item.value)
<1>1. PlainRight(item, w, ParsePlain(w))
  BY PatternsRead, ValuesRead DEF WellFormed
<1>2. w \in Seq(S) /\ w # <<>> /\ w[1] # Bang
  BY <1>1 DEF PlainRight
<1>3. item.nots \in Nat /\ Bang \in S
  BY SymbolsHave DEF WellFormed
<1> HIDE DEF w, S
<1>4. ParseToken([i \in 1 .. item.nots |-> Bang] \o w) = ReadToken(item.nots, w)
  BY <1>2, <1>3, TokenRead
<1>5. ASSUME item.nots = 0 PROVE [i \in 1 .. item.nots |-> Bang] \o w = w
  <2>1. [i \in 1 .. item.nots |-> Bang] = <<>>
    BY <1>5
  <2>2. <<>> \o w = w
    BY <1>2
  <2> QED BY <2>1, <2>2
<1> QED BY <1>1, <1>4, <1>5 DEF Written, w

\* An age is read as it is written.
LEMMA AgeRead ==
  ASSUME NEW S, NEW v \in Seq(S), v # <<>>, Range(v) \subseteq DOMAIN Digits,
         NEW unit \in S, unit \in DOMAIN DurationUnits, NumberOf(v) \in Nat,
         NumberOf(v) * DurationUnits[unit] <= MaxInt
  PROVE  Amount(WithUnit(v, unit), DurationUnits) = {Wrapped(NumberOf(v) * DurationUnits[unit])}
<1>1. unit \notin DOMAIN Digits
  BY CharactersAssumption DEF Units
<1>2. Amount(WithUnit(v, unit), DurationUnits) =
        IF NumberOf(v) > MaxInt THEN {} ELSE {Wrapped(NumberOf(v) * DurationUnits[unit])}
  BY <1>1, AmountRead
<1>3. NumberOf(v) * DurationUnits[unit] \in Nat /\ NumberOf(v) <= NumberOf(v) * DurationUnits[unit]
  BY UnitsAssumption, ProductGrows
<1>4. ~(NumberOf(v) > MaxInt)
  BY <1>3, UnitsAssumption
<1> QED BY <1>2, <1>4, Zenon

IsText(item) == item.kind = "text" /\ item.nots = 0

\* A text stays text, and everything else becomes the constraint it stands for.
LEMMA ItemConveyed ==
  ASSUME NEW item, WellFormed(item), NEW files, files \subseteq [size : Int, modified : Int],
         NEW now \in 0 .. MaxInt
  PROVE  /\ ParseToken(Written(item)).of.kind = "none" <=> IsText(item)
         /\ IsText(item) => Written(item) = item.value
         /\ ~IsText(item) => Conveys(ParseToken(Written(item)), item, files, now)
<1> DEFINE w == Plainly(item)
           p == ParsePlain(w)
           c == ParseToken(Written(item))
<1>1. /\ c = ReadToken(item.nots, w) /\ PlainRight(item, w, p)
      /\ item.nots = 0 => Written(item) = w
  BY ItemRead
<1>2. /\ item.nots \in Nat
      /\ item.kind \in {"extension", "glob", "segment", "status", "type", "size", "modified", "text"}
  BY DEF WellFormed
<1> SUFFICES /\ c.of.kind = "none" <=> IsText(item)
             /\ IsText(item) => Written(item) = item.value
             /\ ~IsText(item) => Conveys(c, item, files, now)
  OBVIOUS
<1> HIDE DEF w, p, c
<1>3. c = [nots |-> item.nots, of |-> IF p.kind = "none" /\ item.nots > 0 THEN Constraint("text", w) ELSE p]
  BY <1>1 DEF ReadToken, p
<1>4. c.nots = item.nots /\ c.of = IF p.kind = "none" /\ item.nots > 0 THEN Constraint("text", w) ELSE p
  BY <1>3
<1>5. CASE item.kind = "text"
  <2>1. w = item.value /\ p.kind = "none"
    BY <1>1, <1>5 DEF PlainRight
  <2>2. CASE item.nots = 0
    <3>1. c.of = p
      BY <1>4, <2>2
    <3> QED BY <1>1, <1>5, <2>1, <2>2, <3>1 DEF IsText
  <2>3. CASE item.nots # 0
    <3>1. c.of = Constraint("text", item.value)
      BY <1>2, <1>4, <2>1, <2>3
    <3>2. c.of.kind = "text" /\ c.of.value = item.value
      BY <3>1 DEF Constraint
    <3>3. Conveys(c, item, files, now)
      BY <1>4, <1>5, <3>2 DEF Conveys
    <3> QED BY <1>5, <2>3, <3>2, <3>3 DEF IsText
  <2> QED BY <2>2, <2>3
<1>6. CASE item.kind \in {"extension", "glob", "segment", "status", "type"}
  <2>1. p.kind = item.kind /\ p.value = item.value
    BY <1>1, <1>6 DEF PlainRight, Constraint
  <2>2. c.of = p
    BY <1>4, <1>6, <2>1
  <2>3. Conveys(c, item, files, now)
    BY <1>4, <1>6, <2>1, <2>2 DEF Conveys
  <2> QED BY <1>6, <2>1, <2>2, <2>3 DEF IsText
<1>7. CASE item.kind = "size"
  <2> DEFINE b == item.number * SizeUnits[item.unit]
  <2>1. p.kind = item.kind /\ p.op = item.op /\ p.bytes = Wrapped(b)
    BY <1>1, <1>7 DEF PlainRight
  <2>2. c.of = p
    BY <1>4, <1>7, <2>1
  <2>3. ASSUME b <= MaxInt, NEW f \in files
        PROVE  Admits(c.of, f, now) <=> Compare(item.op, f.size, b)
    <3>1. b \in Int /\ -MaxInt - 1 <= b
      <4>1. item.number \in Nat /\ SizeUnits[item.unit] \in Nat \ {0}
        BY <1>7, UnitsAssumption DEF WellFormed
      <4>2. b \in Nat
        BY <4>1, ProductGrows
      <4> QED BY <4>2, UnitsAssumption
    <3>2. Wrapped(b) = b
      BY <2>3, <3>1, WrappedSmall
    <3> HIDE DEF b
    <3> QED BY <1>7, <2>1, <2>2, <3>2 DEF Admits
  <2>4. Conveys(c, item, files, now)
    BY <1>4, <1>7, <2>1, <2>2, <2>3 DEF Conveys
  <2> QED BY <1>7, <2>1, <2>2, <2>4 DEF IsText
<1>8. CASE item.kind = "modified"
  <2> DEFINE v == WithUnit(item.value, item.unit)
             b == item.number * DurationUnits[item.unit]
  <2>1. p.kind = item.kind /\ p.value = v
    BY <1>1, <1>8 DEF PlainRight, Constraint
  <2>2. c.of = p
    BY <1>4, <1>8, <2>1
  <2>3. ASSUME b <= MaxInt, NEW f \in files
        PROVE  Admits(c.of, f, now) <=> f.modified \in now - b .. now
    <3> DEFINE n == NumberOf(item.value)
    <3>1. /\ item.number = n /\ n \in Nat /\ DurationUnits[item.unit] \in Nat \ {0}
          /\ item.unit \in DOMAIN DurationUnits /\ item.unit \in Units /\ item.unit \notin DOMAIN Digits
      BY <1>8, UnitsAssumption, CharactersAssumption DEF WellFormed, Units
    <3>2. b \in Nat /\ n <= b
      BY <3>1, ProductGrows
    <3>3. Amount(v, DurationUnits) = {Wrapped(b)}
      <4> DEFINE S == Symbols(item.value)
      <4>1. item.value \in Seq(S) /\ Units \subseteq S
        BY SymbolsHave DEF WellFormed
      <4>2. item.value # <<>> /\ Range(item.value) \subseteq DOMAIN Digits
        BY <1>8 DEF WellFormed
      <4>3. /\ item.unit \in S /\ item.unit \in DOMAIN DurationUnits /\ NumberOf(item.value) \in Nat
            /\ NumberOf(item.value) * DurationUnits[item.unit] <= MaxInt
        BY <2>3, <3>1, <4>1
      <4> HIDE DEF S, n
      <4>4. Amount(v, DurationUnits) = {Wrapped(NumberOf(item.value) * DurationUnits[item.unit])}
        BY <4>1, <4>2, <4>3, AgeRead
      <4> QED BY <3>1, <4>4 DEF n
    <3> HIDE DEF b, v
    <3>4. Wrapped(b) = b /\ Wrapped(now - b) = now - b
      BY <2>3, <3>2, UnitsAssumption, WrappedSmall
    <3>5. f.modified \in Int
      OBVIOUS
    <3>6. p.kind # "size"
      BY <1>8, <2>1
    <3>7. Admits(p, f, now) <=> Wrapped(now - b) <= f.modified /\ f.modified <= now
      BY <2>1, <3>3, <3>4, <3>6, Zenon DEF Admits
    <3> QED BY <2>2, <3>2, <3>4, <3>5, <3>7
  <2>4. Conveys(c, item, files, now)
    BY <1>4, <1>8, <2>1, <2>2, <2>3 DEF Conveys
  <2> QED BY <1>8, <2>1, <2>2, <2>4 DEF IsText
<1> QED BY <1>2, <1>5, <1>6, <1>7, <1>8

\* What the places of a sequence hold, in their order.
LEMMA ThoseAt ==
  ASSUME NEW S, NEW s \in Seq(S), NEW places \in SUBSET DOMAIN s
  PROVE  /\ DOMAIN Those(s, places) = 1 .. Cardinality(places)
         /\ \A k \in 1 .. Cardinality(places) : /\ Those(s, places)[k] = s[Ascending(places)[k]]
                                                /\ Ascending(places)[k] \in places
<1>1. IsFiniteSet(places) /\ places \in SUBSET Int
  BY ThoseType
<1>2. /\ Ascending(places) \in [1 .. Cardinality(places) -> places]
      /\ Those(s, places) = [k \in 1 .. Cardinality(places) |-> s[Ascending(places)[k]]]
  BY <1>1, ThoseProperties
<1> QED BY <1>2

\* A query is read as it was meant.
LEMMA ParseExact ==
  ASSUME NEW items, IsSeq(items), \A item \in Range(items) : WellFormed(item)
  PROVE  LET a == Parse([i \in DOMAIN items |-> Written(items[i])])
             texts == {i \in DOMAIN items : items[i].kind = "text" /\ items[i].nots = 0}
             structured == Those(items, DOMAIN items \ texts)
             words == Those(items, texts)
         IN /\ a.fuzzy = [k \in DOMAIN words |-> words[k].value]
            /\ DOMAIN a.constraints = DOMAIN structured
            /\ \A k \in DOMAIN structured : Conveys(a.constraints[k], structured[k], FileAttributes, Now)
<1> DEFINE tokens == [i \in DOMAIN items |-> Written(items[i])]
           a == Parse(tokens)
           texts == {i \in DOMAIN items : items[i].kind = "text" /\ items[i].nots = 0}
           rest == DOMAIN items \ texts
           structured == Those(items, rest)
           words == Those(items, texts)
<1>1. /\ \A i \in DOMAIN items : items[i] \in Range(items)
      /\ FileAttributes \subseteq [size : Int, modified : Int] /\ Now \in 0 .. MaxInt
  BY QueriesAssumption DEF Range
<1>2. ASSUME NEW i \in DOMAIN items
      PROVE  /\ ParseToken(tokens[i]).of.kind = "none" <=> i \in texts
             /\ i \in texts => tokens[i] = items[i].value
             /\ i \notin texts => Conveys(ParseToken(tokens[i]), items[i], FileAttributes, Now)
  <2>1. WellFormed(items[i]) /\ tokens[i] = Written(items[i])
    BY <1>1
  <2>2. i \in texts <=> IsText(items[i])
    BY DEF IsText
  <2> HIDE DEF tokens, texts
  <2>3. /\ ParseToken(Written(items[i])).of.kind = "none" <=> IsText(items[i])
        /\ IsText(items[i]) => Written(items[i]) = items[i].value
        /\ ~IsText(items[i]) => Conveys(ParseToken(Written(items[i])), items[i], FileAttributes, Now)
    BY <1>1, <2>1, ItemConveyed
  <2> QED BY <2>1, <2>2, <2>3
<1>3. /\ DOMAIN tokens = DOMAIN items /\ \E n \in Nat : DOMAIN items = 1 .. n
      /\ items \in Seq(Range(items))
  BY DEF IsSeq
<1>4. tokens \in Seq({Written(items[i]) : i \in DOMAIN items})
  BY <1>3
<1>5. texts \in SUBSET DOMAIN items /\ rest \in SUBSET DOMAIN items
  OBVIOUS
<1> HIDE DEF tokens
<1>6. {i \in DOMAIN tokens : ParseToken(tokens[i]).of.kind = "none"} = texts
  BY <1>2, <1>3
<1> HIDE DEF texts
<1> DEFINE spelled == Those(tokens, rest)
<1>7. a = [constraints |-> [k \in DOMAIN spelled |-> ParseToken(spelled[k])],
           fuzzy |-> Those(tokens, texts)]
  BY <1>3, <1>6 DEF Parse
<1> HIDE DEF a, rest
<1>8. /\ DOMAIN spelled = 1 .. Cardinality(rest) /\ DOMAIN structured = 1 .. Cardinality(rest)
      /\ \A k \in 1 .. Cardinality(rest) : /\ spelled[k] = tokens[Ascending(rest)[k]]
                                           /\ structured[k] = items[Ascending(rest)[k]]
                                           /\ Ascending(rest)[k] \in rest
  BY <1>3, <1>4, <1>5, ThoseAt
<1>9. /\ DOMAIN Those(tokens, texts) = 1 .. Cardinality(texts) /\ DOMAIN words = 1 .. Cardinality(texts)
      /\ \A k \in 1 .. Cardinality(texts) : /\ Those(tokens, texts)[k] = tokens[Ascending(texts)[k]]
                                            /\ words[k] = items[Ascending(texts)[k]]
                                            /\ Ascending(texts)[k] \in texts
  BY <1>3, <1>4, <1>5, ThoseAt
<1> HIDE DEF spelled, structured, words
<1>10. ASSUME NEW k \in DOMAIN structured PROVE Conveys(a.constraints[k], structured[k], FileAttributes, Now)
  <2>1. a.constraints[k] = ParseToken(spelled[k])
    BY <1>7, <1>8
  <2> DEFINE i == Ascending(rest)[k]
  <2>2. spelled[k] = tokens[i] /\ structured[k] = items[i] /\ i \in rest
    BY <1>8
  <2> HIDE DEF i
  <2>3. i \in DOMAIN items /\ i \notin texts
    BY <2>2 DEF rest
  <2> QED BY <1>2, <2>1, <2>2, <2>3
<1>11. DOMAIN a.constraints = DOMAIN structured
  BY <1>7, <1>8
<1>12. a.fuzzy = [k \in DOMAIN words |-> words[k].value]
  <2> DEFINE f == Those(tokens, texts)
  <2>1. a.fuzzy = f
    BY <1>7
  <2>2. ASSUME NEW k \in 1 .. Cardinality(texts) PROVE f[k] = words[k].value
    <3> DEFINE i == Ascending(texts)[k]
    <3>1. f[k] = tokens[i] /\ words[k] = items[i] /\ i \in texts
      BY <1>9
    <3> HIDE DEF i, f
    <3> QED BY <1>2, <1>5, <3>1
  <2>3. f = [k \in 1 .. Cardinality(texts) |-> f[k]]
    BY <1>9 DEF Those
  <2> HIDE DEF f
  <2> QED BY <1>9, <2>1, <2>2, <2>3
<1> QED BY <1>10, <1>11, <1>12 DEF a, structured, words, rest, texts, tokens

------------------------------------------------------------------------------
(****************************************************************************)
(* The command line.  Reading one argument more is one step of each of the  *)
(* two readings; so what n items leave split and set is known from what one *)
(* item does, and the whole line is what its writer meant.                  *)
(****************************************************************************)

\* What splitFlagArgs computes.
LEMMA SplitUnfolds ==
  ASSUME NEW args, Len(args) \in Nat
  PROVE  \E f : /\ SplitFlagArgs(args) = f[Len(args)]
                /\ \A n \in 0 .. Len(args) :
                     f[n] = IF n = 0 THEN NothingSplit ELSE SplitArg(f[n - 1], args[n])
<1> DEFINE k == Len(args)
           Step(f, n) == IF n = 0 THEN NothingSplit ELSE SplitArg(f[n - 1], args[n])
           split == CHOOSE f : f = [n \in 0 .. k |-> Step(f, n)]
<1>1. SplitFlagArgs(args) = split[k]
  BY DEF SplitFlagArgs
<1> DEFINE S == {m \in Nat : \E f : \A n \in 0 .. m : f[n] = Step(f, n)}
<1>2. 0 \in S
  <2> DEFINE f == [n \in 0 .. 0 |-> NothingSplit]
  <2>1. \A n \in 0 .. 0 : f[n] = Step(f, n)
    OBVIOUS
  <2> QED BY <2>1
<1>3. ASSUME NEW m \in Nat, m \in S PROVE m + 1 \in S
  <2>1. PICK f : \A n \in 0 .. m : f[n] = Step(f, n)
    BY <1>3
  <2> DEFINE g == [n \in 0 .. m + 1 |-> IF n <= m THEN f[n] ELSE Step(f, n)]
  <2>2. \A n \in 0 .. m : g[n] = f[n] /\ n \in 0 .. m + 1
    OBVIOUS
  <2>3. g[m + 1] = Step(f, m + 1)
    <3> HIDE DEF Step
    <3> QED OBVIOUS
  <2> HIDE DEF g
  <2>4. ASSUME NEW n \in 0 .. m + 1 PROVE g[n] = Step(g, n)
    <3>1. Step(f, n) = Step(g, n)
      <4>1. CASE n = 0
        BY <4>1
      <4>2. CASE n # 0
        <5>1. n - 1 \in 0 .. m
          BY <4>2
        <5> QED BY <2>2, <4>2, <5>1
      <4> QED BY <4>1, <4>2
    <3> HIDE DEF Step
    <3>2. CASE n \in 0 .. m
      BY <2>1, <2>2, <3>1, <3>2
    <3>3. CASE n = m + 1
      BY <2>3, <3>1, <3>3
    <3> QED BY <3>2, <3>3
  <2> HIDE DEF Step
  <2> QED BY <2>4
<1>4. k \in S
  <2> HIDE DEF S
  <2> QED BY <1>2, <1>3, SetInduction
<1>5. PICK f : \A n \in 0 .. k : f[n] = Step(f, n)
  BY <1>4
<1>6. split = [n \in 0 .. k |-> Step(split, n)]
  <2> DEFINE g == [n \in 0 .. k |-> f[n]]
  <2>1. ASSUME NEW n \in 0 .. k PROVE f[n] = Step(g, n)
    <3>1. CASE n = 0
      BY <1>5, <3>1
    <3>2. CASE n # 0
      <4>1. n - 1 \in 0 .. k
        BY <3>2
      <4>2. g[n - 1] = f[n - 1]
        BY <4>1
      <4> QED BY <1>5, <3>2, <4>2
    <3> QED BY <3>1, <3>2
  <2>2. g = [n \in 0 .. k |-> Step(g, n)]
    <3>1. g = [n \in 0 .. k |-> f[n]]
      OBVIOUS
    <3> HIDE DEF g, Step
    <3> QED BY <2>1, <3>1
  <2> HIDE DEF g, Step
  <2> QED BY <2>2
<1>7. \A n \in 0 .. k : split[n] = Step(split, n)
  <2> HIDE DEF Step, split
  <2> QED BY <1>6
<1> HIDE DEF split
<1> QED BY <1>1, <1>7

\* What the flag package computes.
LEMMA ParseUnfolds ==
  ASSUME NEW args, Len(args) \in Nat
  PROVE  \E f : /\ ParseFlags(args) = f[Len(args)]
                /\ \A n \in 0 .. Len(args) :
                     f[n] = IF n = 0 THEN NothingSet ELSE ParseFlag(f[n - 1], args[n])
<1> DEFINE k == Len(args)
           Step(f, n) == IF n = 0 THEN NothingSet ELSE ParseFlag(f[n - 1], args[n])
           parse == CHOOSE f : f = [n \in 0 .. k |-> Step(f, n)]
<1>1. ParseFlags(args) = parse[k]
  BY DEF ParseFlags
<1> DEFINE S == {m \in Nat : \E f : \A n \in 0 .. m : f[n] = Step(f, n)}
<1>2. 0 \in S
  <2> DEFINE f == [n \in 0 .. 0 |-> NothingSet]
  <2>1. \A n \in 0 .. 0 : f[n] = Step(f, n)
    OBVIOUS
  <2> QED BY <2>1
<1>3. ASSUME NEW m \in Nat, m \in S PROVE m + 1 \in S
  <2>1. PICK f : \A n \in 0 .. m : f[n] = Step(f, n)
    BY <1>3
  <2> DEFINE g == [n \in 0 .. m + 1 |-> IF n <= m THEN f[n] ELSE Step(f, n)]
  <2>2. \A n \in 0 .. m : g[n] = f[n] /\ n \in 0 .. m + 1
    OBVIOUS
  <2>3. g[m + 1] = Step(f, m + 1)
    <3> HIDE DEF Step
    <3> QED OBVIOUS
  <2> HIDE DEF g
  <2>4. ASSUME NEW n \in 0 .. m + 1 PROVE g[n] = Step(g, n)
    <3>1. Step(f, n) = Step(g, n)
      <4>1. CASE n = 0
        BY <4>1
      <4>2. CASE n # 0
        <5>1. n - 1 \in 0 .. m
          BY <4>2
        <5> QED BY <2>2, <4>2, <5>1
      <4> QED BY <4>1, <4>2
    <3> HIDE DEF Step
    <3>2. CASE n \in 0 .. m
      BY <2>1, <2>2, <3>1, <3>2
    <3>3. CASE n = m + 1
      BY <2>3, <3>1, <3>3
    <3> QED BY <3>2, <3>3
  <2> HIDE DEF Step
  <2> QED BY <2>4
<1>4. k \in S
  <2> HIDE DEF S
  <2> QED BY <1>2, <1>3, SetInduction
<1>5. PICK f : \A n \in 0 .. k : f[n] = Step(f, n)
  BY <1>4
<1>6. parse = [n \in 0 .. k |-> Step(parse, n)]
  <2> DEFINE g == [n \in 0 .. k |-> f[n]]
  <2>1. ASSUME NEW n \in 0 .. k PROVE f[n] = Step(g, n)
    <3>1. CASE n = 0
      BY <1>5, <3>1
    <3>2. CASE n # 0
      <4>1. n - 1 \in 0 .. k
        BY <3>2
      <4>2. g[n - 1] = f[n - 1]
        BY <4>1
      <4> QED BY <1>5, <3>2, <4>2
    <3> QED BY <3>1, <3>2
  <2>2. g = [n \in 0 .. k |-> Step(g, n)]
    <3>1. g = [n \in 0 .. k |-> f[n]]
      OBVIOUS
    <3> HIDE DEF g, Step
    <3> QED BY <2>1, <3>1
  <2> HIDE DEF g, Step
  <2> QED BY <2>2
<1>7. \A n \in 0 .. k : parse[n] = Step(parse, n)
  <2> HIDE DEF Step, parse
  <2> QED BY <1>6
<1> HIDE DEF parse
<1> QED BY <1>1, <1>7

\* One argument more.
LEMMA SplitGrows ==
  ASSUME NEW T, NEW args \in Seq(T), NEW arg \in T
  PROVE  SplitFlagArgs(Append(args, arg)) = SplitArg(SplitFlagArgs(args), arg)
<1> DEFINE more == Append(args, arg)
           k == Len(args)
<1>1. /\ k \in Nat /\ Len(more) = k + 1 /\ more[k + 1] = arg
      /\ \A n \in 1 .. k : more[n] = args[n]
  OBVIOUS
<1>2. PICK f : /\ SplitFlagArgs(args) = f[k]
               /\ \A n \in 0 .. k : f[n] = IF n = 0 THEN NothingSplit ELSE SplitArg(f[n - 1], args[n])
  BY <1>1, SplitUnfolds
<1> HIDE DEF more, k
<1>3. Len(more) \in Nat
  BY <1>1
<1>4. PICK g : /\ SplitFlagArgs(more) = g[Len(more)]
               /\ \A n \in 0 .. Len(more) :
                    g[n] = IF n = 0 THEN NothingSplit ELSE SplitArg(g[n - 1], more[n])
  BY <1>3, SplitUnfolds
<1> DEFINE S == {n \in Nat : n <= k => g[n] = f[n]}
<1>5. 0 \in S
  BY <1>1, <1>2, <1>3, <1>4
<1>6. ASSUME NEW n \in Nat, n \in S PROVE n + 1 \in S
  <2> SUFFICES ASSUME n + 1 <= k PROVE g[n + 1] = f[n + 1]
    OBVIOUS
  <2>1. /\ g[n] = f[n] /\ n + 1 \in 1 .. k /\ n + 1 \in 0 .. k /\ n + 1 \in 0 .. Len(more)
        /\ n + 1 # 0 /\ (n + 1) - 1 = n
    BY <1>1, <1>6
  <2>2. f[n + 1] = SplitArg(f[n], args[n + 1]) /\ g[n + 1] = SplitArg(g[n], more[n + 1])
    BY <1>2, <1>4, <2>1
  <2> QED BY <1>1, <2>1, <2>2
<1>7. g[k] = f[k]
  <2>1. k \in S
    <3> HIDE DEF S
    <3> QED BY <1>1, <1>5, <1>6, SetInduction
  <2> QED BY <1>1, <2>1
<1>8. k + 1 \in 0 .. Len(more) /\ k + 1 # 0 /\ (k + 1) - 1 = k
  BY <1>1
<1>9. g[k + 1] = SplitArg(g[k], arg)
  BY <1>1, <1>4, <1>8
<1> QED BY <1>1, <1>2, <1>4, <1>7, <1>9 DEF more

\* The same for the flags.
LEMMA ParseGrows ==
  ASSUME NEW T, NEW args \in Seq(T), NEW arg \in T
  PROVE  ParseFlags(Append(args, arg)) = ParseFlag(ParseFlags(args), arg)
<1> DEFINE more == Append(args, arg)
           k == Len(args)
<1>1. /\ k \in Nat /\ Len(more) = k + 1 /\ more[k + 1] = arg
      /\ \A n \in 1 .. k : more[n] = args[n]
  OBVIOUS
<1>2. PICK f : /\ ParseFlags(args) = f[k]
               /\ \A n \in 0 .. k : f[n] = IF n = 0 THEN NothingSet ELSE ParseFlag(f[n - 1], args[n])
  BY <1>1, ParseUnfolds
<1> HIDE DEF more, k
<1>3. Len(more) \in Nat
  BY <1>1
<1>4. PICK g : /\ ParseFlags(more) = g[Len(more)]
               /\ \A n \in 0 .. Len(more) :
                    g[n] = IF n = 0 THEN NothingSet ELSE ParseFlag(g[n - 1], more[n])
  BY <1>3, ParseUnfolds
<1> DEFINE S == {n \in Nat : n <= k => g[n] = f[n]}
<1>5. 0 \in S
  BY <1>1, <1>2, <1>3, <1>4
<1>6. ASSUME NEW n \in Nat, n \in S PROVE n + 1 \in S
  <2> SUFFICES ASSUME n + 1 <= k PROVE g[n + 1] = f[n + 1]
    OBVIOUS
  <2>1. /\ g[n] = f[n] /\ n + 1 \in 1 .. k /\ n + 1 \in 0 .. k /\ n + 1 \in 0 .. Len(more)
        /\ n + 1 # 0 /\ (n + 1) - 1 = n
    BY <1>1, <1>6
  <2>2. f[n + 1] = ParseFlag(f[n], args[n + 1]) /\ g[n + 1] = ParseFlag(g[n], more[n + 1])
    BY <1>2, <1>4, <2>1
  <2> QED BY <1>1, <2>1, <2>2
<1>7. g[k] = f[k]
  <2>1. k \in S
    <3> HIDE DEF S
    <3> QED BY <1>1, <1>5, <1>6, SetInduction
  <2> QED BY <1>1, <2>1
<1>8. k + 1 \in 0 .. Len(more) /\ k + 1 # 0 /\ (k + 1) - 1 = k
  BY <1>1
<1>9. g[k + 1] = ParseFlag(g[k], arg)
  BY <1>1, <1>4, <1>8
<1> QED BY <1>1, <1>2, <1>4, <1>7, <1>9 DEF more

\* Before the first argument.
LEMMA NothingYet == SplitFlagArgs(<<>>) = NothingSplit /\ ParseFlags(<<>>) = NothingSet
<1>1. Len(<<>>) = 0 /\ 0 \in Nat /\ 0 \in 0 .. 0
  OBVIOUS
<1>2. PICK f : /\ SplitFlagArgs(<<>>) = f[Len(<<>>)]
               /\ \A n \in 0 .. Len(<<>>) :
                    f[n] = IF n = 0 THEN NothingSplit ELSE SplitArg(f[n - 1], <<>>[n])
  BY <1>1, SplitUnfolds
<1>3. PICK g : /\ ParseFlags(<<>>) = g[Len(<<>>)]
               /\ \A n \in 0 .. Len(<<>>) :
                    g[n] = IF n = 0 THEN NothingSet ELSE ParseFlag(g[n - 1], <<>>[n])
  BY <1>1, ParseUnfolds
<1> QED BY <1>1, <1>2, <1>3

\* The state of the two readings.
Split(flags, rest, next) == [flags |-> flags, rest |-> rest, next |-> next]
Parsed(set, name, next) == [next |-> next, name |-> name, set |-> set]
Ready(set) == Parsed(set, "", "flag")
Setting(set, name, value) ==
  [v \in DOMAIN set \cup {Variable(name)} |-> IF v = Variable(name) THEN value ELSE set[v]]

\* What one argument does to what is split already.
LEMMA SplitFlag ==
  ASSUME NEW f, NEW r, NEW arg, arg # Dashes, IsFlag(arg)
  PROVE  SplitArg(Split(f, r, "any"), arg) =
           Split(Append(f, arg), r, IF IsValueFlag(arg) /\ arg.val = NoValue THEN "value" ELSE "any")
<1> DEFINE g == Append(f, arg)
           s == Split(f, r, "any")
           next == IF IsValueFlag(arg) /\ arg.val = NoValue THEN "value" ELSE "any"
<1>1. s.next = "any" /\ s.flags = f /\ s.rest = r
  BY DEF Split
<1>2. SplitArg(s, arg) = [flags |-> Append(s.flags, arg), rest |-> s.rest, next |-> next]
  <2> HIDE DEF s, next
  <2>1. s.next # "word" /\ s.next # "value"
    BY <1>1
  <2> QED BY <2>1 DEF SplitArg, next
<1> HIDE DEF next
<1>3. SplitArg(s, arg) = [flags |-> g, rest |-> r, next |-> next]
  BY <1>1, <1>2
<1> HIDE DEF g
<1>4. [flags |-> g, rest |-> r, next |-> next] = Split(g, r, next)
  BY DEF Split
<1> QED BY <1>3, <1>4 DEF g, next

\* What follows the name of an option with a value is its value.
LEMMA SplitValue ==
  ASSUME NEW f, NEW r, NEW arg
  PROVE  SplitArg(Split(f, r, "value"), arg) = Split(Append(f, arg), r, "any")
<1> DEFINE g == Append(f, arg)
           s == Split(f, r, "value")
<1>1. s.next = "value" /\ s.flags = f /\ s.rest = r
  BY DEF Split
<1>2. SplitArg(s, arg) = [flags |-> Append(s.flags, arg), rest |-> s.rest, next |-> "any"]
  <2> HIDE DEF s
  <2> QED BY <1>1 DEF SplitArg
<1>3. SplitArg(s, arg) = [flags |-> g, rest |-> r, next |-> "any"]
  BY <1>1, <1>2
<1> HIDE DEF g
<1>4. [flags |-> g, rest |-> r, next |-> "any"] = Split(g, r, "any")
  BY DEF Split
<1> QED BY <1>3, <1>4 DEF g

\* What is no flag is rest, and everything after "--".
LEMMA SplitWord ==
  ASSUME NEW f, NEW r, NEW arg, NEW next \in {"any", "word"},
         next = "any" => arg # Dashes /\ ~IsFlag(arg)
  PROVE  SplitArg(Split(f, r, next), arg) = Split(f, Append(r, arg), next)
<1> DEFINE w == Append(r, arg)
           s == Split(f, r, next)
<1>1. s.next = next /\ s.flags = f /\ s.rest = r
  BY DEF Split
<1>2. SplitArg(s, arg) = [s EXCEPT !.rest = Append(s.rest, arg)]
  <2> HIDE DEF s
  <2>1. CASE next = "any"
    BY <1>1, <2>1 DEF SplitArg
  <2>2. CASE next = "word"
    BY <1>1, <2>2 DEF SplitArg
  <2> QED BY <2>1, <2>2
<1>3. SplitArg(s, arg) = [s EXCEPT !.rest = w]
  BY <1>1, <1>2
<1> HIDE DEF w
<1>4. [s EXCEPT !.rest = w] = Split(f, w, next)
  BY DEF Split
<1> QED BY <1>3, <1>4 DEF w

\* "--" itself is neither.
LEMMA SplitDashes ==
  ASSUME NEW f, NEW r
  PROVE  SplitArg(Split(f, r, "any"), Dashes) = Split(f, r, "word")
<1> DEFINE s == Split(f, r, "any")
<1>1. s.next = "any"
  BY DEF Split
<1>2. SplitArg(s, Dashes) = [s EXCEPT !.next = "word"]
  <2> HIDE DEF s
  <2> QED BY <1>1 DEF SplitArg
<1>3. [s EXCEPT !.next = "word"] = Split(f, r, "word")
  BY DEF Split
<1> QED BY <1>2, <1>3

\* What one argument does to what is set already.
LEMMA ParseStopped ==
  ASSUME NEW set, NEW name, NEW arg
  PROVE  ParseFlag(Parsed(set, name, "error"), arg) = Parsed(set, name, "error")
BY DEF ParseFlag, Parsed

\* A legal value is set.
LEMMA Assigned ==
  ASSUME NEW set, NEW name, NEW next, NEW flag, NEW value, Legal(flag, value)
  PROVE  Assign(Parsed(set, name, next), flag, value) = Ready(Setting(set, flag, value))
<1> DEFINE p == Parsed(set, name, next)
<1>1. p.set = set
  BY DEF Parsed
<1> HIDE DEF p
<1>2. Assign(p, flag, value) =
        [next |-> "flag", name |-> "",
         set |-> [v \in DOMAIN p.set \cup {Variable(flag)} |->
                    IF v = Variable(flag) THEN value ELSE p.set[v]]]
  BY Zenon DEF Assign
<1> QED BY <1>1, <1>2, Zenon DEF Ready, Parsed, Setting, p

\* What is refused stays so.
Refused(parse) == \E set, name : parse = Parsed(set, name, "error")

\* Any other is refused.
LEMMA NotAssigned ==
  ASSUME NEW set, NEW name, NEW next, NEW flag, NEW value, ~Legal(flag, value)
  PROVE  Refused(Assign(Parsed(set, name, next), flag, value))
<1> DEFINE p == Parsed(set, name, next)
<1>1. Assign(p, flag, value) = [p EXCEPT !.next = "error"]
  BY Zenon DEF Assign
<1>2. [p EXCEPT !.next = "error"] = Parsed(set, name, "error")
  BY DEF Parsed
<1> QED BY <1>1, <1>2, Zenon DEF Refused

\* The value of a flag that waits for one.
LEMMA ParseValue ==
  ASSUME NEW set, NEW name, NEW arg
  PROVE  ParseFlag(Parsed(set, name, "value"), arg) = Assign(Parsed(set, name, "value"), name, arg)
BY DEF ParseFlag, Parsed

\* A flag with its value, a switch, and the name of a flag.
LEMMA ParseName ==
  ASSUME NEW set, NEW arg, arg.dash > 0, arg # Dash, arg # Dashes
  PROVE  ParseFlag(Ready(set), arg) =
           IF arg.val # NoValue THEN Assign(Ready(set), arg.name, Word(arg.val))
           ELSE IF arg.name \in BoolFlags THEN Assign(Ready(set), arg.name, Word("true"))
           ELSE Parsed(set, arg.name, IF arg.name \in ValueFlags THEN "value" ELSE "error")
<1> DEFINE p == Ready(set)
           next == IF arg.name \in ValueFlags THEN "value" ELSE "error"
           name == arg.name
<1>1. p.next = "flag" /\ p.set = set
  BY DEF Ready, Parsed
<1>2. arg.dash # 0
  OBVIOUS
<1>3. ParseFlag(p, arg) =
        IF arg.val # NoValue THEN Assign(p, arg.name, Word(arg.val))
        ELSE IF arg.name \in BoolFlags THEN Assign(p, arg.name, Word("true"))
        ELSE [next |-> next, name |-> name, set |-> p.set]
  <2> HIDE DEF p, next
  <2>1. p.next # "nothing" /\ p.next # "error" /\ p.next # "value"
    BY <1>1
  <2> QED BY <1>2, <2>1 DEF ParseFlag, next, name
<1> HIDE DEF next, name
<1>4. [next |-> next, name |-> name, set |-> p.set] = Parsed(set, name, next)
  BY <1>1 DEF Parsed
<1> QED BY <1>3, <1>4, Zenon DEF p, next, name

\* An item is one argument, or a name and its value.
FirstArg(item) ==
  IF item.style = "word" THEN Word(item.text)
  ELSE IF item.style = "switch" THEN [dash |-> 2, name |-> item.name, val |-> NoValue]
  ELSE [dash |-> 1, name |-> item.name,
        val |-> IF item.style = "equals" THEN item.text ELSE NoValue]

\* The arguments of an item begin with the first.
LEMMA ArgsAre ==
  ASSUME NEW item, Typeable(item)
  PROVE  Args(item) = IF item.style = "apart" THEN <<FirstArg(item), item.value>>
                      ELSE <<FirstArg(item)>>
BY DEF Args, FirstArg, Typeable

\* An option begins with a flag.
LEMMA OptionBegins ==
  ASSUME NEW item, Typeable(item), item.style # "word"
  PROVE  /\ FirstArg(item).dash > 0 /\ FirstArg(item) # Dash /\ FirstArg(item) # Dashes
         /\ IsFlag(FirstArg(item)) /\ FirstArg(item).name = item.name
         /\ FirstArg(item).val = IF item.style = "equals" THEN item.text ELSE NoValue
<1> DEFINE a == FirstArg(item)
<1>1. /\ a.dash = IF item.style = "switch" THEN 2 ELSE 1
      /\ a.name = item.name /\ a.val = IF item.style = "equals" THEN item.text ELSE NoValue
  BY DEF FirstArg, Typeable
<1>2. a.name # "" \/ a.val # NoValue
  BY <1>1 DEF Typeable, ValueFlags
<1> HIDE DEF a
<1>3. Dash.name = "" /\ Dash.val = NoValue /\ Dashes.name = "" /\ Dashes.val = NoValue
  BY DEF Dash, Dashes
<1>4. a # Dash /\ a # Dashes
  BY <1>2, <1>3
<1>5. a.dash > 0
  BY <1>1
<1>6. IsFlag(a)
  BY <1>5, Zenon DEF IsFlag
<1> QED BY <1>1, <1>4, <1>5, <1>6 DEF a

\* A word that is not spelled like a flag is none.
LEMMA WordStands ==
  ASSUME NEW item, item.style = "word", ~SpelledLikeFlag(item)
  PROVE  FirstArg(item) = Word(item.text) /\ FirstArg(item) # Dashes /\ ~IsFlag(FirstArg(item))
<1> DEFINE a == Word(item.text)
<1>1. a.dash = 0 /\ a.name = item.text
  BY DEF Word
<1>2. item.text \notin ValueFlags /\ item.text \notin BoolFlags
  BY DEF SpelledLikeFlag
<1>3. FirstArg(item) = a
  BY DEF FirstArg
<1> HIDE DEF a
<1>4. a # Dashes
  <2>1. Dashes.dash = 2
    BY DEF Dashes
  <2> QED BY <1>1, <2>1
<1>5. ~(a.dash > 0)
  BY <1>1
<1>6. ~IsFlag(a)
  BY <1>1, <1>2, <1>5, Zenon DEF IsFlag, IsValueFlag, IsBoolFlag
<1> QED BY <1>3, <1>4, <1>6 DEF a

\* Joining one is appending it.
LEMMA JoinedOne ==
  ASSUME NEW T, NEW s \in Seq(T), NEW a \in T
  PROVE  s \o <<a>> = Append(s, a) /\ Append(s, a) \in Seq(T)
OBVIOUS

\* Joining two is appending one after the other.
LEMMA JoinedPair ==
  ASSUME NEW T, NEW s \in Seq(T), NEW a \in T, NEW b \in T
  PROVE  /\ s \o <<a, b>> = Append(Append(s, a), b) /\ Append(s, a) \in Seq(T)
         /\ Append(Append(s, a), b) \in Seq(T)
OBVIOUS

\* What an item does to what is split already.
LEMMA SplitItem ==
  ASSUME NEW T, NEW args \in Seq(T), NEW f \in Seq(T), NEW r,
         SplitFlagArgs(args) = Split(f, r, "any"),
         NEW item, Typeable(item), ~SpelledLikeFlag(item),
         FirstArg(item) \in T, item.style = "apart" => item.value \in T
  PROVE  /\ SplitFlagArgs(args \o Args(item)) =
              IF item.style = "word" THEN Split(f, Append(r, Word(item.text)), "any")
              ELSE Split(f \o Args(item), r, "any")
         /\ args \o Args(item) \in Seq(T) /\ f \o Args(item) \in Seq(T)
<1> DEFINE a == FirstArg(item)
           value == item.value
<1>1. Args(item) = IF item.style = "apart" THEN <<a, value>> ELSE <<a>>
  BY ArgsAre
<1>2. a \in T
  OBVIOUS
<1> HIDE DEF a
<1>3. SplitFlagArgs(Append(args, a)) = SplitArg(Split(f, r, "any"), a)
  BY <1>2, SplitGrows
<1>4. CASE item.style = "word"
  <2>1. Args(item) = <<a>>
    BY <1>1, <1>4
  <2>2. a = Word(item.text) /\ a # Dashes /\ ~IsFlag(a)
    BY <1>4, WordStands DEF a
  <2>3. SplitArg(Split(f, r, "any"), a) = Split(f, Append(r, a), "any")
    BY <2>2, SplitWord
  <2>4. args \o <<a>> = Append(args, a) /\ Append(args, a) \in Seq(T) /\ f \o <<a>> \in Seq(T)
    BY <1>2, JoinedOne
  <2> QED BY <1>3, <1>4, <2>1, <2>2, <2>3, <2>4, Zenon
<1>5. CASE item.style \in {"switch", "equals"}
  <2>1. Args(item) = <<a>> /\ item.style # "word"
    BY <1>1, <1>5
  <2>2. /\ a # Dashes /\ IsFlag(a) /\ a.name = item.name
        /\ a.val = IF item.style = "equals" THEN item.text ELSE NoValue
    BY <2>1, OptionBegins DEF a
  <2>3. ~(IsValueFlag(a) /\ a.val = NoValue)
    BY <1>5, <2>2 DEF IsValueFlag, Typeable
  <2>4. SplitArg(Split(f, r, "any"), a) = Split(Append(f, a), r, "any")
    <3>1. SplitArg(Split(f, r, "any"), a) =
            Split(Append(f, a), r, IF IsValueFlag(a) /\ a.val = NoValue THEN "value" ELSE "any")
      BY <2>2, SplitFlag
    <3> QED BY <2>3, <3>1, Zenon
  <2>5. args \o <<a>> = Append(args, a) /\ f \o <<a>> = Append(f, a) /\ Append(args, a) \in Seq(T)
        /\ Append(f, a) \in Seq(T)
    BY <1>2, JoinedOne
  <2> QED BY <1>3, <2>1, <2>4, <2>5, Zenon
<1>6. CASE item.style = "apart"
  <2>1. Args(item) = <<a, value>> /\ item.style # "word" /\ value \in T /\ item.style # "equals"
    BY <1>1, <1>6
  <2>2. a # Dashes /\ IsFlag(a) /\ a.name = item.name /\ a.val = NoValue
    BY <2>1, OptionBegins DEF a
  <2>3. IsValueFlag(a) /\ a.val = NoValue
    BY <1>6, <2>2 DEF IsValueFlag, Typeable
  <2>4. SplitArg(Split(f, r, "any"), a) = Split(Append(f, a), r, "value")
    <3>1. SplitArg(Split(f, r, "any"), a) =
            Split(Append(f, a), r, IF IsValueFlag(a) /\ a.val = NoValue THEN "value" ELSE "any")
      BY <2>2, SplitFlag
    <3> QED BY <2>3, <3>1, Zenon
  <2> HIDE DEF value
  <2>5. \A s \in Seq(T) : /\ s \o <<a, value>> = Append(Append(s, a), value)
                           /\ Append(s, a) \in Seq(T)
                           /\ Append(Append(s, a), value) \in Seq(T)
    <3>1. a \in T /\ value \in T
      BY <1>2, <2>1
    <3> QED BY <3>1, JoinedPair
  <2>6. SplitFlagArgs(Append(Append(args, a), value)) = SplitArg(SplitFlagArgs(Append(args, a)), value)
    BY <2>1, <2>5, SplitGrows
  <2>7. SplitArg(Split(Append(f, a), r, "value"), value) = Split(Append(Append(f, a), value), r, "any")
    BY SplitValue
  <2> QED BY <1>3, <2>1, <2>4, <2>5, <2>6, <2>7, Zenon
<1>7. item.style \in {"word", "switch", "equals", "apart"}
  BY DEF Typeable
<1> QED BY <1>4, <1>5, <1>6, <1>7

\* What an option does to what is set already.
LEMMA ParseItem ==
  ASSUME NEW T, NEW f \in Seq(T), NEW item, Typeable(item), item.style # "word",
         FirstArg(item) \in T, item.style = "apart" => item.value \in T, NEW set
  PROVE  /\ ParseFlags(f) = Ready(set) =>
              IF Legal(item.name, ValueOf(item))
              THEN ParseFlags(f \o Args(item)) = Ready(Setting(set, item.name, ValueOf(item)))
              ELSE Refused(ParseFlags(f \o Args(item)))
         /\ Refused(ParseFlags(f)) => Refused(ParseFlags(f \o Args(item)))
<1> DEFINE a == FirstArg(item)
           value == item.value
           after == Setting(set, item.name, ValueOf(item))
           before == Ready(set)
<1>1. Args(item) = IF item.style = "apart" THEN <<a, value>> ELSE <<a>>
  BY ArgsAre
<1>2. /\ a \in T /\ a.dash > 0 /\ a # Dash /\ a # Dashes /\ a.name = item.name
      /\ a.val = IF item.style = "equals" THEN item.text ELSE NoValue
  BY OptionBegins
<1> HIDE DEF a
<1>3. f \o <<a>> = Append(f, a) /\ ParseFlags(Append(f, a)) = ParseFlag(ParseFlags(f), a)
  BY <1>2, JoinedOne, ParseGrows
<1>4. ParseFlag(before, a) =
        IF a.val # NoValue THEN Assign(before, a.name, Word(a.val))
        ELSE IF a.name \in BoolFlags THEN Assign(before, a.name, Word("true"))
        ELSE Parsed(set, a.name, IF a.name \in ValueFlags THEN "value" ELSE "error")
  BY <1>2, ParseName
<1>5. ASSUME NEW p, Refused(p), NEW arg PROVE Refused(ParseFlag(p, arg))
  BY <1>5, ParseStopped DEF Refused
<1>6. ASSUME NEW name, NEW x, Legal(item.name, ValueOf(item))
      PROVE  Assign(Parsed(set, name, x), item.name, ValueOf(item)) = Ready(after)
  <2> DEFINE flag == item.name
             v == ValueOf(item)
  <2>1. Legal(flag, v)
    BY <1>6
  <2> HIDE DEF flag, v
  <2>2. Assign(Parsed(set, name, x), flag, v) = Ready(Setting(set, flag, v))
    BY <2>1, Assigned
  <2> QED BY <2>2 DEF flag, v
<1>7. ASSUME NEW name, NEW x, ~Legal(item.name, ValueOf(item))
      PROVE  Refused(Assign(Parsed(set, name, x), item.name, ValueOf(item)))
  BY <1>7, NotAssigned, Zenon
<1>8. /\ Legal(item.name, ValueOf(item)) => Assign(before, item.name, ValueOf(item)) = Ready(after)
      /\ ~Legal(item.name, ValueOf(item)) => Refused(Assign(before, item.name, ValueOf(item)))
  BY <1>6, <1>7, Zenon DEF Ready
<1> HIDE DEF before, after
<1>9. CASE item.style = "equals"
  <2>1. Args(item) = <<a>>
    BY <1>1, <1>9
  <2>2. a.val = item.text /\ item.text # NoValue /\ ValueOf(item) = Word(item.text)
    BY <1>2, <1>9 DEF Typeable, ValueOf
  <2>3. ParseFlag(before, a) = Assign(before, item.name, ValueOf(item))
    BY <1>2, <1>4, <2>2, Zenon
  <2> QED BY <1>3, <1>5, <1>8, <2>1, <2>3, Zenon DEF before, after
<1>10. CASE item.style = "switch"
  <2>1. Args(item) = <<a>>
    BY <1>1, <1>10
  <2>2. a.val = NoValue /\ item.name \notin ValueFlags /\ ValueOf(item) = Word("true")
    BY <1>2, <1>10 DEF Typeable, ValueOf
  <2>3. CASE item.name \in BoolFlags
    <3>1. ParseFlag(before, a) = Assign(before, item.name, ValueOf(item))
      BY <1>2, <1>4, <2>2, <2>3, Zenon
    <3> QED BY <1>3, <1>5, <1>8, <2>1, <3>1, Zenon DEF before, after
  <2>4. CASE item.name \notin BoolFlags
    <3>1. ParseFlag(before, a) = Parsed(set, item.name, "error")
      BY <1>2, <1>4, <2>2, <2>4, Zenon
    <3>2. ~Legal(item.name, ValueOf(item))
      <4>1. item.name # "limit"
        BY <2>2 DEF ValueFlags
      <4> QED BY <2>2, <2>4, <4>1 DEF Legal
    <3>3. Refused(ParseFlag(before, a))
      BY <3>1, Zenon DEF Refused
    <3> QED BY <1>3, <1>5, <2>1, <3>2, <3>3, Zenon DEF before
  <2> QED BY <2>3, <2>4
<1>11. CASE item.style = "apart"
  <2>1. Args(item) = <<a, value>> /\ value \in T
    BY <1>1, <1>11
  <2>2. a.val = NoValue /\ item.name \in ValueFlags /\ ValueOf(item) = value
    BY <1>2, <1>11 DEF Typeable, ValueOf
  <2>3. item.name \notin BoolFlags
    BY <2>2 DEF ValueFlags, BoolFlags
  <2>4. ParseFlag(before, a) = Parsed(set, item.name, "value")
    BY <1>2, <1>4, <2>2, <2>3, Zenon
  <2>5. ParseFlag(Parsed(set, item.name, "value"), value) =
          Assign(Parsed(set, item.name, "value"), item.name, ValueOf(item))
    BY <2>2, ParseValue
  <2> HIDE DEF value
  <2>6. /\ f \o <<a, value>> = Append(Append(f, a), value) /\ Append(f, a) \in Seq(T)
    BY <1>2, <2>1, JoinedPair
  <2>7. ParseFlags(Append(Append(f, a), value)) = ParseFlag(ParseFlags(Append(f, a)), value)
    BY <2>1, <2>6, ParseGrows
  <2> QED BY <1>3, <1>5, <1>6, <1>7, <2>1, <2>4, <2>5, <2>6, <2>7, Zenon DEF before, after
<1>12. item.style \in {"switch", "equals", "apart"}
  BY DEF Typeable
<1> QED BY <1>9, <1>10, <1>11, <1>12

\* One item more.
LEMMA SetGrows ==
  ASSUME NEW items, NEW n \in Nat
  PROVE  SetUpTo(items, n + 1) =
           IF items[n + 1].style = "word" THEN SetUpTo(items, n)
           ELSE Setting(SetUpTo(items, n), items[n + 1].name, ValueOf(items[n + 1]))
<1> DEFINE var(i) == Variable(items[i].name)
           value(i) == ValueOf(items[i])
           old == OptionsUpTo(items, n)
           new == OptionsUpTo(items, n + 1)
           LastOf(options, v) == CHOOSE i \in options : /\ var(i) = v
                                                        /\ \A j \in options : var(j) = v => j <= i
           Vars(options) == {var(i) : i \in options}
           Found(options) == [v \in Vars(options) |-> value(LastOf(options, v))]
<1>1. SetUpTo(items, n) = Found(old) /\ SetUpTo(items, n + 1) = Found(new)
  BY DEF SetUpTo
<1>2. CASE items[n + 1].style = "word"
  <2>1. new = old
    BY <1>2 DEF OptionsUpTo
  <2> HIDE DEF Found, old, new
  <2> QED BY <1>1, <1>2, <2>1
<1>3. CASE items[n + 1].style # "word"
  <2>1. new = old \cup {n + 1} /\ n + 1 \notin old /\ \A i \in old : i \in Nat /\ i < n + 1
    BY <1>3 DEF OptionsUpTo
  <2> HIDE DEF old, new
  <2>2. Vars(new) = Vars(old) \cup {var(n + 1)}
    BY <2>1
  <2>3. LastOf(new, var(n + 1)) = n + 1
    <3>1. n + 1 \in new /\ \A j \in new : j \in Nat /\ j <= n + 1
      BY <2>1
    <3>2. \A i \in new : (\A j \in new : var(j) = var(n + 1) => j <= i) => i = n + 1
      BY <3>1
    <3> HIDE DEF var
    <3> QED BY <3>1, <3>2
  <2>4. ASSUME NEW v, v # var(n + 1) PROVE LastOf(new, v) = LastOf(old, v)
    <3> HIDE DEF var
    <3>1. \A i : (i \in new /\ var(i) = v /\ \A j \in new : var(j) = v => j <= i)
             <=> (i \in old /\ var(i) = v /\ \A j \in old : var(j) = v => j <= i)
      BY <2>1, <2>4
    <3> QED BY <3>1
  <2> HIDE DEF LastOf, Vars
  <2>5. Found(new) = Setting(Found(old), items[n + 1].name, value(n + 1))
    <3>1. DOMAIN Found(old) = Vars(old)
      OBVIOUS
    <3>2. ASSUME NEW v \in Vars(new)
          PROVE  value(LastOf(new, v)) = IF v = var(n + 1) THEN value(n + 1) ELSE Found(old)[v]
      <4>1. CASE v = var(n + 1)
        BY <2>3, <4>1
      <4>2. CASE v # var(n + 1)
        <5>1. v \in Vars(old)
          BY <2>2, <4>2
        <5> QED BY <2>4, <4>2, <5>1
      <4> QED BY <4>1, <4>2
    <3> HIDE DEF value
    <3> QED BY <2>2, <3>1, <3>2 DEF Setting
  <2> QED BY <1>1, <1>3, <2>5
<1> QED BY <1>2, <1>3

\* A sequence with one element more, place by place.
LEMMA AppendIs ==
  ASSUME NEW U, NEW s \in Seq(U), NEW x \in U
  PROVE  Append(s, x) = [k \in 1 .. Len(s) + 1 |-> IF k = Len(s) + 1 THEN x ELSE s[k]]
<1> DEFINE a == Append(s, x)
<1>1. /\ a \in Seq(U) /\ Len(a) = Len(s) + 1 /\ a[Len(s) + 1] = x /\ Len(s) \in Nat
      /\ \A i \in 1 .. Len(s) : a[i] = s[i]
  OBVIOUS
<1> HIDE DEF a
<1>2. a = [k \in 1 .. Len(s) + 1 |-> a[k]]
  BY <1>1
<1>3. \A k \in 1 .. Len(s) + 1 : a[k] = IF k = Len(s) + 1 THEN x ELSE s[k]
  BY <1>1
<1> QED BY <1>2, <1>3 DEF a

\* The same for the words.
LEMMA WordsGrow ==
  ASSUME NEW items, NEW n \in Nat
  PROVE  WordsUpTo(items, n + 1) =
           IF items[n + 1].style = "word" THEN Append(WordsUpTo(items, n), Word(items[n + 1].text))
           ELSE WordsUpTo(items, n)
<1> DEFINE word(i) == Word(items[i].text)
           old == {i \in 1 .. n : items[i].style = "word"}
           new == {i \in 1 .. n + 1 : items[i].style = "word"}
           Said(place) == [k \in DOMAIN place |-> word(place[k])]
<1>1. WordsUpTo(items, n) = Said(Ascending(old)) /\ WordsUpTo(items, n + 1) = Said(Ascending(new))
  <2>1. ASSUME NEW places
        PROVE  [k \in DOMAIN Those(items, places) |-> Word(Those(items, places)[k].text)]
                 = Said(Ascending(places))
    <3>1. /\ DOMAIN Those(items, places) = DOMAIN Ascending(places)
          /\ \A k \in DOMAIN Ascending(places) : Those(items, places)[k] = items[Ascending(places)[k]]
      BY DEF Those
    <3> QED BY <3>1
  <2> QED BY <2>1 DEF WordsUpTo
<1>2. CASE items[n + 1].style # "word"
  <2>1. new = old
    BY <1>2
  <2> HIDE DEF Said, old, new
  <2> QED BY <1>1, <1>2, <2>1
<1>3. CASE items[n + 1].style = "word"
  <2> DEFINE m == n + 1
             pl == Ascending(old)
             c == Cardinality(old)
  <2>1. new = old \cup {m} /\ old \in SUBSET Int /\ m \in Int /\ \A i \in old : i < m
    BY <1>3
  <2>2. IsFiniteSet(old)
    <3>1. IsFiniteSet(1 .. n) /\ old \subseteq 1 .. n
      BY FS_Interval
    <3> QED BY <3>1, FS_Subset
  <2> HIDE DEF old, new
  <2>3. Ascending(new) = Append(pl, m)
    BY <2>1, <2>2, AscendingAppend
  <2>4. c \in Nat /\ pl \in [1 .. c -> old]
    BY <2>1, <2>2, AscendingProperties
  <2> HIDE DEF pl, m, c
  <2> DEFINE U == {word(i) : i \in Int}
             all == Append(pl, m)
  <2>5. pl \in Seq(Int) /\ Len(pl) = c /\ m \in Int
    <3>1. m \in Int
      BY DEF m
    <3>2. pl \in [1 .. c -> Int]
      BY <2>1, <2>4
    <3> QED BY <2>4, <3>1, <3>2
  <2>6. all = [k \in 1 .. c + 1 |-> IF k = c + 1 THEN m ELSE pl[k]]
    BY <2>5, AppendIs
  <2>7. \A i \in Int : word(i) \in U
    OBVIOUS
  <2> HIDE DEF word, U, all
  <2>8. Said(all) = [k \in 1 .. c + 1 |-> IF k = c + 1 THEN word(m) ELSE word(pl[k])]
    BY <2>6
  <2>9. Said(pl) = [k \in 1 .. c |-> word(pl[k])] /\ Said(pl) \in Seq(U)
    <3>1. Said(pl) = [k \in 1 .. c |-> word(pl[k])]
      BY <2>4
    <3>2. \A k \in 1 .. c : word(pl[k]) \in U
      BY <2>1, <2>4, <2>7
    <3> QED BY <2>4, <3>1, <3>2
  <2> DEFINE s == Said(pl)
             t == Said(all)
  <2>10. t = Append(s, word(m))
    <3>1. s \in Seq(U) /\ Len(s) = c /\ \A k \in 1 .. c : s[k] = word(pl[k])
      BY <2>4, <2>9
    <3>2. word(m) \in U
      BY <2>5, <2>7
    <3> HIDE DEF s
    <3>3. Append(s, word(m)) = [k \in 1 .. c + 1 |-> IF k = c + 1 THEN word(m) ELSE s[k]]
      BY <3>1, <3>2, AppendIs
    <3>4. \A k \in 1 .. c + 1 : k # c + 1 => k \in 1 .. c
      BY <2>4
    <3> QED BY <2>8, <3>1, <3>3, <3>4
  <2> HIDE DEF Said
  <2> QED BY <1>1, <1>3, <2>3, <2>10 DEF s, t, all, m, word, pl
<1> QED BY <1>2, <1>3

\* Joining one more at the end.
LEMMA AppendJoined ==
  ASSUME NEW T, NEW s \in Seq(T), NEW t \in Seq(T), NEW x \in T
  PROVE  s \o Append(t, x) = Append(s \o t, x) /\ s \o t \in Seq(T) /\ Append(t, x) \in Seq(T)
OBVIOUS

\* After "--" all is rest.
LEMMA SplitRest ==
  ASSUME NEW T, NEW s \in Seq(T), NEW t \in Seq(T), NEW r \in Seq(T), NEW f,
         SplitFlagArgs(s) = Split(f, r, "word")
  PROVE  SplitFlagArgs(s \o t) = Split(f, r \o t, "word")
<1> DEFINE k == Len(t)
           p(m) == [i \in 1 .. m |-> t[i]]
           S == {m \in Nat : m <= k => SplitFlagArgs(s \o p(m)) = Split(f, r \o p(m), "word")}
<1>1. k \in Nat /\ p(k) = t /\ \A i \in 1 .. k : t[i] \in T
  OBVIOUS
<1>2. ASSUME NEW m \in Nat, m <= k PROVE p(m) \in Seq(T) /\ Len(p(m)) = m
  <2>1. \A i \in 1 .. m : t[i] \in T
    BY <1>2
  <2> QED BY <2>1
<1>3. ASSUME NEW m \in Nat, m + 1 <= k PROVE p(m + 1) = Append(p(m), t[m + 1])
  <2> DEFINE q == p(m)
  <2>1. q \in Seq(T) /\ Len(q) = m /\ t[m + 1] \in T
    <3>1. m <= k /\ m + 1 \in 1 .. k
      BY <1>1, <1>3
    <3>2. q \in Seq(T) /\ Len(q) = m
      BY <1>2, <3>1
    <3> QED BY <1>1, <3>1, <3>2
  <2>2. \A i \in 1 .. m : q[i] = t[i]
    OBVIOUS
  <2> HIDE DEF q
  <2>3. Append(q, t[m + 1]) = [i \in 1 .. m + 1 |-> IF i = m + 1 THEN t[m + 1] ELSE q[i]]
    BY <2>1, AppendIs
  <2>4. \A i \in 1 .. m + 1 : i # m + 1 => i \in 1 .. m
    OBVIOUS
  <2>5. Append(q, t[m + 1]) = p(m + 1)
    BY <2>2, <2>3, <2>4
  <2> QED BY <2>5 DEF q
<1> HIDE DEF p
<1>4. 0 \in S
  <2>1. p(0) = <<>>
    BY DEF p
  <2>2. s \o <<>> = s /\ r \o <<>> = r
    OBVIOUS
  <2> QED BY <2>1, <2>2
<1>5. ASSUME NEW m \in Nat, m \in S PROVE m + 1 \in S
  <2> SUFFICES ASSUME m + 1 <= k
               PROVE  SplitFlagArgs(s \o p(m + 1)) = Split(f, r \o p(m + 1), "word")
    OBVIOUS
  <2> DEFINE q == p(m)
             x == t[m + 1]
  <2>1. p(m + 1) = Append(q, x) /\ q \in Seq(T) /\ x \in T
    <3>1. m <= k /\ m + 1 \in 1 .. k
      BY <1>1
    <3>2. p(m) \in Seq(T)
      BY <1>2, <3>1
    <3>3. p(m + 1) = Append(p(m), t[m + 1])
      BY <1>3
    <3> QED BY <1>1, <3>1, <3>2, <3>3
  <2>2. SplitFlagArgs(s \o q) = Split(f, r \o q, "word")
    BY <1>1, <1>5
  <2> HIDE DEF q, x
  <2>3. s \o Append(q, x) = Append(s \o q, x) /\ s \o q \in Seq(T)
    BY <2>1, AppendJoined, SMTT(15)
  <2>4. r \o Append(q, x) = Append(r \o q, x)
    BY <2>1, AppendJoined, SMTT(15)
  <2>5. SplitFlagArgs(Append(s \o q, x)) = SplitArg(SplitFlagArgs(s \o q), x)
    BY <2>1, <2>3, SplitGrows
  <2>6. SplitArg(Split(f, r \o q, "word"), x) = Split(f, Append(r \o q, x), "word")
    <3> DEFINE w == r \o q
    <3> HIDE DEF w
    <3>1. "word" \in {"any", "word"} /\ "word" # "any"
      OBVIOUS
    <3>2. SplitArg(Split(f, w, "word"), x) = Split(f, Append(w, x), "word")
      BY <3>1, SplitWord
    <3> QED BY <3>2 DEF w
  <2> QED BY <2>1, <2>2, <2>3, <2>4, <2>5, <2>6, Zenon
<1>6. k \in S
  <2> HIDE DEF S
  <2> QED BY <1>1, <1>4, <1>5, SetInduction
<1> QED BY <1>1, <1>6

\* What has been read when n items have.
AllLegal(items, n) ==
  \A i \in OptionsUpTo(items, n) : Legal(items[i].name, ValueOf(items[i]))
SplitUpTo(items, n, args, flags) ==
  /\ SplitFlagArgs(args) = Split(flags, WordsUpTo(items, n), "any")
  /\ AllLegal(items, n) => ParseFlags(flags) = Ready(SetUpTo(items, n))
  /\ ~AllLegal(items, n) => Refused(ParseFlags(flags))

\* One item more is legal, or it is not.
LEMMA LegalGrows ==
  ASSUME NEW items, NEW n \in Nat
  PROVE  AllLegal(items, n + 1) <=>
           /\ AllLegal(items, n)
           /\ items[n + 1].style # "word" => Legal(items[n + 1].name, ValueOf(items[n + 1]))
<1>1. OptionsUpTo(items, n + 1) =
        OptionsUpTo(items, n) \cup (IF items[n + 1].style # "word" THEN {n + 1} ELSE {})
  BY DEF OptionsUpTo
<1> QED BY <1>1 DEF AllLegal

\* What one item more does to what has been read.
LEMMA SplitItems ==
  ASSUME NEW T, NEW items, NEW n \in Nat,
         Typeable(items[n + 1]), ~SpelledLikeFlag(items[n + 1]),
         FirstArg(items[n + 1]) \in T, items[n + 1].style = "apart" => items[n + 1].value \in T,
         NEW args \in Seq(T), NEW flags \in Seq(T), SplitUpTo(items, n, args, flags)
  PROVE  /\ args \o Args(items[n + 1]) \in Seq(T)
         /\ \E f \in Seq(T) : SplitUpTo(items, n + 1, args \o Args(items[n + 1]), f)
<1> DEFINE item == items[n + 1]
           words == WordsUpTo(items, n)
           set == SetUpTo(items, n)
           more == args \o Args(item)
<1>1. SplitFlagArgs(args) = Split(flags, words, "any")
  BY DEF SplitUpTo
<1>2. /\ SplitFlagArgs(more) =
           IF item.style = "word" THEN Split(flags, Append(words, Word(item.text)), "any")
           ELSE Split(flags \o Args(item), words, "any")
      /\ more \in Seq(T) /\ flags \o Args(item) \in Seq(T)
  <2> HIDE DEF item, words
  <2> QED BY <1>1, SplitItem DEF item
<1>3. CASE item.style = "word"
  <2>1. /\ WordsUpTo(items, n + 1) = Append(words, Word(item.text))
        /\ SetUpTo(items, n + 1) = set
    BY <1>3, WordsGrow, SetGrows
  <2>2. AllLegal(items, n + 1) <=> AllLegal(items, n)
    BY <1>3, LegalGrows
  <2>3. SplitUpTo(items, n + 1, more, flags)
    <3> HIDE DEF more
    <3> QED BY <1>2, <1>3, <2>1, <2>2, Zenon DEF SplitUpTo
  <2> QED BY <1>2, <2>3
<1>4. CASE item.style # "word"
  <2> DEFINE f == flags \o Args(item)
  <2>1. /\ WordsUpTo(items, n + 1) = words
        /\ SetUpTo(items, n + 1) = Setting(set, item.name, ValueOf(item))
    BY <1>4, WordsGrow, SetGrows
  <2>2. AllLegal(items, n + 1) <=> AllLegal(items, n) /\ Legal(item.name, ValueOf(item))
    BY <1>4, LegalGrows
  <2>3. /\ ParseFlags(flags) = Ready(set) =>
             IF Legal(item.name, ValueOf(item))
             THEN ParseFlags(f) = Ready(Setting(set, item.name, ValueOf(item)))
             ELSE Refused(ParseFlags(f))
        /\ Refused(ParseFlags(flags)) => Refused(ParseFlags(f))
    <3> HIDE DEF item, set
    <3> QED BY <1>4, ParseItem DEF item
  <2>4. SplitUpTo(items, n + 1, more, f)
    <3>1. SplitFlagArgs(more) = Split(f, WordsUpTo(items, n + 1), "any")
      BY <1>2, <1>4, <2>1
    <3>2. AllLegal(items, n + 1) => ParseFlags(f) = Ready(SetUpTo(items, n + 1))
      <4> HIDE DEF f, set, item
      <4> QED BY <2>1, <2>2, <2>3, Zenon DEF SplitUpTo, set
    <3>3. ~AllLegal(items, n + 1) => Refused(ParseFlags(f))
      <4> HIDE DEF f, set, item
      <4> QED BY <2>1, <2>2, <2>3, Zenon DEF SplitUpTo, set
    <3> HIDE DEF f, more
    <3> QED BY <3>1, <3>2, <3>3 DEF SplitUpTo
  <2> QED BY <1>2, <2>4
<1> QED BY <1>2, <1>3, <1>4

\* Before the first item there is no word.
LEMMA NoWordsYet ==
  ASSUME NEW items
  PROVE  WordsUpTo(items, 0) = <<>>
<1>1. {i \in 1 .. 0 : items[i].style = "word"} = {}
  OBVIOUS
<1>2. Those(items, {}) = <<>>
  BY AscendingEmpty DEF Those
<1> QED BY <1>1, <1>2 DEF WordsUpTo

\* The words are a sequence.
LEMMA WordsType ==
  ASSUME NEW items, NEW n \in Nat, NEW T,
         \A i \in 1 .. n : items[i].style = "word" => Word(items[i].text) \in T
  PROVE  WordsUpTo(items, n) \in Seq(T)
<1> DEFINE S == {m \in Nat : m <= n => WordsUpTo(items, m) \in Seq(T)}
<1>1. 0 \in S
  <2>1. WordsUpTo(items, 0) = <<>>
    BY NoWordsYet
  <2>2. <<>> \in Seq(T)
    OBVIOUS
  <2> QED BY <2>1, <2>2
<1>2. ASSUME NEW m \in Nat, m \in S PROVE m + 1 \in S
  <2> SUFFICES ASSUME m + 1 <= n PROVE WordsUpTo(items, m + 1) \in Seq(T)
    OBVIOUS
  <2> DEFINE w == WordsUpTo(items, m)
             x == Word(items[m + 1].text)
  <2>1. w \in Seq(T) /\ m + 1 \in 1 .. n
    BY <1>2
  <2>2. CASE items[m + 1].style = "word"
    <3>1. x \in T
      BY <2>1, <2>2
    <3>2. WordsUpTo(items, m + 1) = Append(w, x)
      BY <2>2, WordsGrow
    <3> HIDE DEF w, x
    <3> QED BY <2>1, <3>1, <3>2
  <2>3. CASE items[m + 1].style # "word"
    BY <2>1, <2>3, WordsGrow
  <2> QED BY <2>2, <2>3
<1>3. n \in S
  <2> HIDE DEF S
  <2> QED BY <1>1, <1>2, SetInduction
<1> QED BY <1>3

\* A command line is read as it was meant.
LEMMA RunExact ==
  ASSUME NEW items, IsSeq(items), \A item \in Range(items) : Typeable(item),
         \A i \in DOMAIN items : ~SpelledLikeFlag(items[i]), NEW after, IsSeq(after)
  PROVE  Run(Typed(items, after)) = Wanted(items, after)
<1> DEFINE k == Len(items)
           parts == [i \in DOMAIN items |-> Args(items[i])]
           T == {FirstArg(items[i]) : i \in 1 .. k} \cup {items[i].value : i \in 1 .. k}
                  \cup {Word(items[i].text) : i \in 1 .. k} \cup {Dashes} \cup Range(after)
<1>1. /\ k \in Nat /\ DOMAIN items = 1 .. k
      /\ \A i \in 1 .. k : Typeable(items[i]) /\ ~SpelledLikeFlag(items[i])
  <2>1. DOMAIN items = 1 .. k /\ k \in Nat
    BY DEF IsSeq
  <2> QED BY <2>1 DEF Range
<1>2. /\ \A i \in 1 .. k : FirstArg(items[i]) \in T /\ items[i].value \in T /\ Word(items[i].text) \in T
      /\ Dashes \in T /\ Range(after) \subseteq T
  OBVIOUS
<1> HIDE DEF T
<1>3. after \in Seq(T)
  <2>1. ASSUME NEW A, NEW B, NEW s \in Seq(A), A \subseteq B PROVE s \in Seq(B)
    BY <2>1
  <2> QED BY <1>2, <2>1 DEF IsSeq
<1>4. ASSUME NEW i \in 1 .. k PROVE Args(items[i]) \in Seq(T)
  <2> DEFINE a == FirstArg(items[i])
             value == items[i].value
  <2>1. Args(items[i]) = IF items[i].style = "apart" THEN <<a, value>> ELSE <<a>>
    BY <1>1, ArgsAre
  <2>2. a \in T /\ value \in T
    BY <1>2
  <2> HIDE DEF a, value
  <2>3. <<a, value>> \in Seq(T) /\ <<a>> \in Seq(T)
    BY <2>2
  <2> QED BY <2>1, <2>3
<1>5. parts \in Seq(Seq(T)) /\ Len(parts) = k /\ \A i \in 1 .. k : parts[i] = Args(items[i])
  <2>1. parts = [i \in 1 .. k |-> Args(items[i])] /\ \A i \in 1 .. k : parts[i] \in Seq(T)
    BY <1>1, <1>4
  <2> HIDE DEF parts
  <2> QED BY <1>1, <2>1
<1> HIDE DEF parts
<1>6. PICK out : FlattenSeq(parts) = out[k] /\ Joins(parts, k, out)
  BY <1>5, FlattenUnfolds
<1>7. \A n \in 0 .. k : out[n] = IF n = 0 THEN <<>> ELSE out[n - 1] \o Args(items[n])
  BY <1>5, <1>6 DEF Joins
<1> HIDE DEF k
<1> DEFINE S == {n \in Nat : n <= k => /\ out[n] \in Seq(T)
                                       /\ \E f \in Seq(T) : SplitUpTo(items, n, out[n], f)}
<1>8. 0 \in S
  <2>1. out[0] = <<>> /\ <<>> \in Seq(T)
    BY <1>1, <1>7
  <2>2. OptionsUpTo(items, 0) = {}
    BY DEF OptionsUpTo
  <2>3. WordsUpTo(items, 0) = <<>>
    BY NoWordsYet
  <2>4. SetUpTo(items, 0) = [v \in {} |-> Word("")]
    BY <2>2 DEF SetUpTo
  <2>5. SplitFlagArgs(<<>>) = Split(<<>>, <<>>, "any") /\ ParseFlags(<<>>) = Ready(SetUpTo(items, 0))
    BY <2>4, NothingYet, Zenon DEF NothingSplit, NothingSet, Split, Ready, Parsed
  <2>6. AllLegal(items, 0)
    BY <2>2 DEF AllLegal
  <2>7. SplitUpTo(items, 0, <<>>, <<>>)
    BY <2>3, <2>5, <2>6, Zenon DEF SplitUpTo
  <2> QED BY <2>1, <2>7
<1>9. ASSUME NEW n \in Nat, n \in S PROVE n + 1 \in S
  <2> SUFFICES ASSUME n + 1 <= k
               PROVE  out[n + 1] \in Seq(T) /\ \E f \in Seq(T) : SplitUpTo(items, n + 1, out[n + 1], f)
    OBVIOUS
  <2>1. n + 1 \in 1 .. k /\ n + 1 \in 0 .. k /\ n + 1 # 0 /\ (n + 1) - 1 = n /\ n <= k
    BY <1>1
  <2>2. out[n] \in Seq(T) /\ \E f \in Seq(T) : SplitUpTo(items, n, out[n], f)
    BY <1>9, <2>1
  <2>3. out[n + 1] = out[n] \o Args(items[n + 1])
    BY <1>7, <2>1
  <2>4. PICK f \in Seq(T) : SplitUpTo(items, n, out[n], f)
    BY <2>2
  <2>5. /\ Typeable(items[n + 1]) /\ ~SpelledLikeFlag(items[n + 1])
        /\ FirstArg(items[n + 1]) \in T /\ items[n + 1].value \in T
    BY <1>1, <1>2, <2>1
  <2>6. /\ out[n] \o Args(items[n + 1]) \in Seq(T)
        /\ \E g \in Seq(T) : SplitUpTo(items, n + 1, out[n] \o Args(items[n + 1]), g)
    BY <2>2, <2>4, <2>5, SplitItems
  <2> QED BY <2>6, <2>3
<1>10. out[k] \in Seq(T) /\ \E f \in Seq(T) : SplitUpTo(items, k, out[k], f)
  <2>1. k \in S
    <3> HIDE DEF S
    <3> QED BY <1>1, <1>8, <1>9, SetInduction
  <2> QED BY <1>1, <2>1
<1>11. PICK f \in Seq(T) : SplitUpTo(items, k, out[k], f)
  BY <1>10
<1> DEFINE words == WordsUpTo(items, k)
           line == Typed(items, after)
<1>12. words \in Seq(T)
  BY <1>1, <1>2, WordsType
<1>13. SplitFlagArgs(out[k]) = Split(f, words, "any")
  BY <1>11 DEF SplitUpTo
<1>14. line = out[k] \o (IF after = <<>> THEN <<>> ELSE <<Dashes>> \o after)
  BY <1>6 DEF Typed, parts
<1> HIDE DEF words, line
<1>15. \E next : SplitFlagArgs(line) = Split(f, words \o after, next)
  <2>1. CASE after = <<>>
    <3>1. line = out[k] /\ words \o after = words
      BY <1>10, <1>12, <1>14, <2>1
    <3> QED BY <1>13, <3>1
  <2>2. CASE after # <<>>
    <3> DEFINE s == out[k]
               d == Dashes
               t == Append(s, d)
    <3>1. s \in Seq(T) /\ d \in T
      BY <1>2, <1>10
    <3>2. line = s \o (<<d>> \o after)
      BY <1>14, <2>2
    <3> HIDE DEF s, d
    <3>3. line = t \o after /\ t \in Seq(T)
      BY <1>3, <3>1, <3>2, SMTT(15)
    <3>4. SplitFlagArgs(t) = SplitArg(SplitFlagArgs(s), d)
      BY <3>1, SplitGrows
    <3>5. SplitFlagArgs(t) = Split(f, words, "word")
      BY <1>13, <3>4, SplitDashes DEF s, d
    <3> HIDE DEF t
    <3>6. SplitFlagArgs(t \o after) = Split(f, words \o after, "word")
      BY <1>3, <1>12, <3>3, <3>5, SplitRest
    <3> QED BY <3>3, <3>6
  <2> QED BY <2>1, <2>2
<1> DEFINE rest == words \o after
           flags == ParseFlags(f)
           split == SplitFlagArgs(line)
<1>16. split.flags = f /\ split.rest = rest
  <2> HIDE DEF rest
  <2> QED BY <1>15 DEF Split, rest
<1>17. Run(line) = IF flags.next \in {"value", "error"} THEN Status(2) ELSE Request(flags.set, rest)
  <2> HIDE DEF rest
  <2> QED BY <1>16, Zenon DEF Run
<1> HIDE DEF rest
<1>18. Wanted(items, after) =
         IF AllLegal(items, k) THEN Request(SetUpTo(items, k), rest) ELSE Status(2)
  BY Zenon DEF Wanted, AllLegal, k, rest, words
<1>19. CASE AllLegal(items, k)
  <2>1. flags = Ready(SetUpTo(items, k))
    BY <1>11, <1>19 DEF SplitUpTo
  <2>2. flags.next = "flag" /\ flags.set = SetUpTo(items, k)
    <3> DEFINE set == SetUpTo(items, k)
    <3> HIDE DEF set, flags
    <3>1. flags = Ready(set)
      BY <2>1 DEF set
    <3>2. flags.next = "flag" /\ flags.set = set
      BY <3>1 DEF Ready, Parsed
    <3> QED BY <3>2 DEF set
  <2> HIDE DEF flags
  <2>3. flags.next \notin {"value", "error"}
    BY <2>2
  <2> QED BY <1>17, <1>18, <1>19, <2>2, <2>3, Zenon DEF line
<1>20. CASE ~AllLegal(items, k)
  <2>1. Refused(flags)
    BY <1>11, <1>20 DEF SplitUpTo
  <2>2. flags.next = "error"
    BY <2>1 DEF Refused, Parsed
  <2> QED BY <1>17, <1>18, <1>20, <2>2, Zenon DEF line
<1> QED BY <1>19, <1>20

\* A limit that is set is a number.
LEMMA LimitSet ==
  ASSUME NEW items, NEW n \in Nat, AllLegal(items, n), "limit" \in DOMAIN SetUpTo(items, n)
  PROVE  SetUpTo(items, n)["limit"].name \in DOMAIN Number
<1> DEFINE Good(m) == "limit" \in DOMAIN SetUpTo(items, m) =>
                        SetUpTo(items, m)["limit"].name \in DOMAIN Number
           S == {m \in Nat : AllLegal(items, m) => Good(m)}
<1>1. 0 \in S
  <2>1. OptionsUpTo(items, 0) = {}
    BY DEF OptionsUpTo
  <2>2. DOMAIN SetUpTo(items, 0) = {}
    BY <2>1 DEF SetUpTo
  <2> QED BY <2>2
<1>2. ASSUME NEW m \in Nat, m \in S PROVE m + 1 \in S
  <2> SUFFICES ASSUME AllLegal(items, m + 1) PROVE Good(m + 1)
    OBVIOUS
  <2> DEFINE set == SetUpTo(items, m)
             flag == items[m + 1].name
             value == ValueOf(items[m + 1])
  <2>1. Good(m)
    BY <1>2, LegalGrows
  <2>2. CASE items[m + 1].style = "word"
    BY <2>1, <2>2, SetGrows
  <2>3. CASE items[m + 1].style # "word"
    <3>1. SetUpTo(items, m + 1) = Setting(set, flag, value)
      BY <2>3, SetGrows
    <3>2. Legal(flag, value)
      BY <2>3, LegalGrows
    <3> HIDE DEF set, flag, value
    <3>3. "limit" \in DOMAIN set => set["limit"].name \in DOMAIN Number
      BY <2>1 DEF set
    <3>4. CASE Variable(flag) = "limit"
      <4>1. flag = "limit"
        BY <3>4 DEF Variable
      <4>2. value.name \in DOMAIN Number
        BY <3>2, <4>1 DEF Legal, BoolFlags
      <4>3. Setting(set, flag, value)["limit"] = value
        BY <3>4 DEF Setting
      <4> QED BY <3>1, <4>2, <4>3
    <3>5. CASE Variable(flag) # "limit"
      <4>1. /\ "limit" \in DOMAIN Setting(set, flag, value) => "limit" \in DOMAIN set
            /\ "limit" \in DOMAIN set => Setting(set, flag, value)["limit"] = set["limit"]
        BY <3>5 DEF Setting
      <4> QED BY <3>1, <3>3, <4>1
    <3> QED BY <3>4, <3>5
  <2> QED BY <2>2, <2>3
<1>3. n \in S
  <2> HIDE DEF S
  <2> QED BY <1>1, <1>2, SetInduction
<1> QED BY <1>3

\* What is asked of the library has a limit above zero.
LEMMA WantedLimit ==
  ASSUME NEW items, IsSeq(items), NEW after, "exit" \notin DOMAIN Wanted(items, after)
  PROVE  Wanted(items, after).limit \in Nat \ {0}
<1> DEFINE n == Len(items)
           set == SetUpTo(items, n)
           words == WordsUpTo(items, n) \o after
           request == Request(set, words)
<1>1. n \in Nat
  BY DEF IsSeq
<1>2. \A code : DOMAIN Status(code) = {"exit"}
  BY DEF Status
<1>3. Wanted(items, after) = IF AllLegal(items, n) THEN request ELSE Status(2)
  BY Zenon DEF Wanted, AllLegal
<1>4. AllLegal(items, n) /\ Wanted(items, after) = request /\ "exit" \notin DOMAIN request
  <2> HIDE DEF request, n
  <2> QED BY <1>2, <1>3
<1> HIDE DEF words
<1> DEFINE cfg == [v \in DOMAIN Defaults |-> IF v \in DOMAIN set THEN set[v] ELSE Defaults[v]]
           limit == IF cfg.limit = Word("default") THEN DefaultLimit
                    ELSE IF cfg.limit.dash = 1 THEN -Number[cfg.limit.name] ELSE Number[cfg.limit.name]
           asks == [root |-> cfg.root, score |-> cfg.score, query |-> words, grep |-> cfg.grep,
                    limit |-> IF limit <= 0 THEN DefaultLimit ELSE limit]
<1>5. request = IF cfg.help = Word("true") THEN Status(0)
                ELSE IF words \in {<<>>, <<Word("")>>} /\ cfg.grep = Word("") THEN Status(2)
                ELSE asks
  BY Zenon DEF Request
<1>6. cfg.limit = IF "limit" \in DOMAIN set THEN set["limit"] ELSE Word("default")
  BY DEF Defaults
<1>7. limit \in Int
  <2> DEFINE l == cfg.limit
  <2>1. l = Word("default") \/ l.name \in DOMAIN Number
    <3> HIDE DEF cfg, set
    <3>1. "limit" \in DOMAIN set => set["limit"].name \in DOMAIN Number
      BY <1>1, <1>4, LimitSet DEF set
    <3> QED BY <1>6, <3>1
  <2>2. l.name \in DOMAIN Number => Number[l.name] \in Int
    BY NumberAssumption
  <2> HIDE DEF l, cfg
  <2> QED BY <2>1, <2>2, NumberAssumption DEF l
<1> HIDE DEF limit, cfg
<1>8. asks.limit \in Nat \ {0}
  BY <1>7, NumberAssumption
<1> HIDE DEF asks, request
<1>9. request = asks
  BY <1>2, <1>4, <1>5
<1> QED BY <1>4, <1>8, <1>9

\* The smaller of two numbers.
LEMMA MinOfTwo ==
  ASSUME NEW a \in Nat, NEW b \in Nat
  PROVE  Min({a, b}) \in {a, b} /\ Min({a, b}) <= a /\ Min({a, b}) <= b
<1>1. \E x \in {a, b} : \A y \in {a, b} : x <= y
  <2>1. CASE a <= b
    BY <2>1
  <2>2. CASE b <= a
    BY <2>2
  <2> QED BY <2>1, <2>2
<1>2. Min({a, b}) \in {a, b} /\ \A y \in {a, b} : Min({a, b}) <= y
  BY <1>1 DEF Min
<1> QED BY <1>2

\* Of the targets with hits, cut at the limit, none that comes first is missing.
LEMMA FirstOfThose ==
  ASSUME NEW S, NEW targets \in Seq(S), NEW hits, NEW limit \in Nat
  PROVE  LET those == Those(targets, {i \in DOMAIN targets : targets[i] \in hits})
         IN FirstWithHits(SubSeq(those, 1, Min({limit, Len(those)})), targets, hits, limit)
<1> DEFINE places == {i \in DOMAIN targets : targets[i] \in hits}
           those == Those(targets, places)
           a == Ascending(places)
           n == Cardinality(places)
           most == Min({limit, n})
           printed == SubSeq(those, 1, most)
           place == [k \in 1 .. most |-> a[k]]
<1>1. places \in SUBSET DOMAIN targets
  OBVIOUS
<1>2. \A i \in DOMAIN targets : i \in places <=> targets[i] \in hits
  OBVIOUS
<1> HIDE DEF places
<1>3. IsFiniteSet(places) /\ places \in SUBSET Int /\ those \in Seq(S)
  BY <1>1, ThoseType
<1>4. /\ n \in Nat
      /\ a \in [1 .. n -> places]
      /\ \A i \in places : \E k \in 1 .. n : a[k] = i
      /\ \A i, j \in 1 .. n : i < j <=> a[i] < a[j]
  BY <1>3, AscendingProperties
<1>5. /\ DOMAIN those = 1 .. n
      /\ \A k \in 1 .. n : those[k] = targets[a[k]]
  BY <1>1, ThoseAt
<1> HIDE DEF those, a, n
<1>6. Len(those) = n
  BY <1>3, <1>4, <1>5
<1>7. most \in {limit, n} /\ most <= limit /\ most <= n
  BY <1>4, MinOfTwo
<1>8. most \in Nat
  BY <1>4, <1>7
<1> HIDE DEF most
<1>9. Len(printed) = most /\ DOMAIN printed = 1 .. most /\ \A k \in 1 .. most : printed[k] = those[k]
  BY <1>3, <1>6, <1>7, <1>8
<1> HIDE DEF printed
<1>10. \A k \in 1 .. most : k \in 1 .. n /\ place[k] = a[k] /\ a[k] \in places
  BY <1>4, <1>7, <1>8
<1>11. place \in [DOMAIN printed -> DOMAIN targets]
  BY <1>1, <1>9, <1>10
<1>12. \A j, k \in DOMAIN printed : j < k => place[j] < place[k]
  BY <1>4, <1>9, <1>10
<1>13. \A k \in DOMAIN printed : printed[k] = targets[place[k]] /\ targets[place[k]] \in hits
  BY <1>1, <1>2, <1>5, <1>9, <1>10
<1>14. ASSUME NEW i \in DOMAIN targets \ Range(place), targets[i] \in hits
       PROVE  Len(printed) = limit /\ \A k \in DOMAIN printed : place[k] < i
  <2>1. i \in places
    BY <1>2, <1>14
  <2>2. PICK m \in 1 .. n : a[m] = i
    BY <1>4, <2>1
  <2>3. m \notin 1 .. most
    <3>1. SUFFICES ASSUME m \in 1 .. most PROVE FALSE
      OBVIOUS
    <3>2. place[m] = i /\ m \in DOMAIN place
      BY <2>2, <3>1
    <3> QED BY <1>14, <3>2 DEF Range
  <2>4. most < m /\ most = limit
    BY <1>4, <1>7, <1>8, <2>3
  <2>5. \A k \in 1 .. most : k < m /\ a[k] < a[m]
    BY <1>4, <1>8, <1>10, <2>2, <2>4
  <2> QED BY <1>9, <1>10, <2>2, <2>4, <2>5
<1> HIDE DEF place
<1>15. Len(printed) <= limit
  BY <1>7, <1>9
<1>16. FirstWithHits(printed, targets, hits, limit)
  BY <1>11, <1>12, <1>13, <1>14, <1>15, Zenon DEF FirstWithHits
<1> QED BY <1>6, <1>16 DEF printed, most, those, places

\* The status says whether a call failed, and what is printed is the targets or
\* the first of them that have hits.
LEMMA ExecuteRight ==
  ASSUME NEW request, request.limit \in Nat, NEW lib, IsSeq(lib.found), IsSeq(lib.scanned)
  PROVE  LET result == Execute(request, lib)
             scanning == request.query \in {<<>>, <<Word("")>>}
             listing == IF scanning THEN "scan" ELSE "search"
             targets == IF scanning THEN lib.scanned ELSE lib.found
             grepping == request.grep # Word("")
         IN /\ result.exit = 0 <=> lib.fails # listing /\ (grepping => lib.fails # "grep")
            /\ lib.fails = listing => result.printed = <<>>
            /\ lib.fails # listing =>
                 IF grepping THEN FirstWithHits(result.printed, targets, lib.hits, request.limit)
                 ELSE result.printed = targets
<1> DEFINE scanning == request.query \in {<<>>, <<Word("")>>}
           grepping == request.grep # Word("")
           targets == IF scanning THEN lib.scanned ELSE lib.found
           listing == IF scanning THEN "scan" ELSE "search"
           hits == Those(targets, {i \in DOMAIN targets : targets[i] \in lib.hits})
           few == SubSeq(hits, 1, Min({request.limit, Len(hits)}))
           result == Execute(request, lib)
<1>1. targets = (IF ~scanning THEN lib.found ELSE lib.scanned)
  OBVIOUS
<1>2. listing = (IF ~scanning THEN "search" ELSE "scan")
  OBVIOUS
<1>3. targets \in Seq(Range(targets))
  BY DEF IsSeq
<1>4. result = IF lib.fails = listing THEN [printed |-> <<>>, exit |-> 1]
               ELSE IF ~grepping THEN [printed |-> targets, exit |-> 0]
               ELSE [printed |-> few, exit |-> IF lib.fails = "grep" THEN 1 ELSE 0]
  <2> DEFINE T == IF ~scanning THEN lib.found ELSE lib.scanned
             h == Those(T, {i \in DOMAIN T : T[i] \in lib.hits})
  <2>1. result = IF lib.fails = (IF ~scanning THEN "search" ELSE "scan") THEN [printed |-> <<>>, exit |-> 1]
                 ELSE IF ~grepping THEN [printed |-> T, exit |-> 0]
                 ELSE [printed |-> SubSeq(h, 1, Min({request.limit, Len(h)})),
                       exit |-> IF lib.fails = "grep" THEN 1 ELSE 0]
    BY DEF Execute
  <2> HIDE DEF result, scanning
  <2> QED BY <1>1, <1>2, <2>1, Zenon
<1> HIDE DEF targets, scanning, listing
<1>5. FirstWithHits(few, targets, lib.hits, request.limit)
  BY <1>3, FirstOfThose
<1> HIDE DEF few, result, grepping
<1>6. result.exit = 0 <=> lib.fails # listing /\ (grepping => lib.fails # "grep")
  BY <1>4
<1>7. lib.fails = listing => result.printed = <<>>
  BY <1>4
<1>8. lib.fails # listing =>
        IF grepping THEN FirstWithHits(result.printed, targets, lib.hits, request.limit)
        ELSE result.printed = targets
  <2>1. CASE lib.fails = listing
    BY <2>1
  <2>2. CASE lib.fails # listing /\ ~grepping
    BY <1>4, <2>2
  <2>3. CASE lib.fails # listing /\ grepping
    <3>1. result.printed = few
      BY <1>4, <2>3
    <3> QED BY <1>5, <2>3, <3>1, Zenon
  <2> QED BY <2>1, <2>2, <2>3, Zenon
<1> QED BY <1>6, <1>7, <1>8, Zenon DEF result, scanning, listing, targets, grepping

\* An answer is the one of what was asked about.
OverlayAnswered ==
  asked.part = "overlay" =>
    /\ asked.adds \in AddSeqs /\ asked.query \in Seq(DOMAIN Lower)
    /\ answer = OverlayOutcome(Overlay(asked.adds), asked.query)

LinesAnswered ==
  asked.part = "lines" =>
    /\ asked.text \in Contents /\ asked.query \in GrepQueries
    /\ asked.limit \in LineLimits /\ asked.opts \in GrepOptions
    /\ answer = SearchFile(asked.text, Stale, asked.query, asked.limit, asked.opts)

GlobAnswered ==
  asked.part = "glob" =>
    /\ asked.glob \in Globs /\ asked.path \in GlobPaths
    /\ answer = MatchGlob(asked.glob, asked.path)

WalkAnswered ==
  asked.part = "walk" =>
    /\ \E gitignore, ignore \in IgnoreFiles : asked.rules = LoadRules(gitignore, ignore)
    /\ answer = Walk(Tree, asked.rootName, asked.rules, asked.ignoreFn)

GitAnswered ==
  asked.part = "git" =>
    asked.entries \in Outputs /\ answer = LoadGitStatuses(Fields(asked.entries))

QueryAnswered ==
  asked.part = "query" =>
    /\ asked.items \in Queries
    /\ answer = Parse([i \in DOMAIN asked.items |-> Written(asked.items[i])])

CliAnswered ==
  asked.part = "cli" =>
    /\ asked.items \in CommandLines /\ asked.after \in AfterDashes
    /\ answer = Run(Typed(asked.items, asked.after))

Answered ==
  /\ LinesAnswered /\ OverlayAnswered /\ GlobAnswered /\ WalkAnswered /\ GitAnswered
  /\ QueryAnswered /\ CliAnswered

PartsInv == ArenaInv /\ DirInv /\ Answered

\* A question about one file's lines.
LEMMA LinesQuestion ==
  ASSUME CallSearchFile
  PROVE  UNCHANGED <<arenaVars, dirVars>> /\ Answered'
<1>1. PICK text \in Contents, query \in GrepQueries, limit \in LineLimits, opts \in GrepOptions :
        Call([part |-> "lines", text |-> text, query |-> query, limit |-> limit, opts |-> opts],
             SearchFile(text, Stale, query, limit, opts))
  BY DEF CallSearchFile
<1>2. /\ asked' = [part |-> "lines", text |-> text, query |-> query, limit |-> limit, opts |-> opts]
      /\ answer' = SearchFile(text, Stale, query, limit, opts)
      /\ UNCHANGED <<arenaVars, dirVars>>
  BY <1>1 DEF Call
<1>3. /\ asked'.part = "lines" /\ asked'.text = text /\ asked'.query = query
      /\ asked'.limit = limit /\ asked'.opts = opts
  BY <1>2
<1>4. LinesAnswered'
  BY <1>2, <1>3 DEF LinesAnswered
<1> QED BY <1>2, <1>3, <1>4 DEF Answered, OverlayAnswered, GlobAnswered, WalkAnswered, GitAnswered,
                                QueryAnswered, CliAnswered

\* A question about the overlay.
LEMMA OverlayQuestion ==
  ASSUME CallOverlay
  PROVE  UNCHANGED <<arenaVars, dirVars>> /\ Answered'
<1>1. PICK adds \in AddCalls, query \in OverlayQueries :
        Call([part |-> "overlay", adds |-> adds, query |-> query],
             OverlayOutcome(Overlay(adds), query))
  BY DEF CallOverlay
<1>2. /\ asked' = [part |-> "overlay", adds |-> adds, query |-> query]
      /\ answer' = OverlayOutcome(Overlay(adds), query)
      /\ UNCHANGED <<arenaVars, dirVars>>
  BY <1>1 DEF Call
<1>3. asked'.part = "overlay" /\ asked'.adds = adds /\ asked'.query = query
  BY <1>2
<1>4. adds \in AddSeqs /\ query \in Seq(DOMAIN Lower)
  BY AddsAssumption DEF AddSeqs
<1>5. OverlayAnswered'
  BY <1>2, <1>3, <1>4 DEF OverlayAnswered
<1> QED BY <1>2, <1>3, <1>5 DEF Answered, LinesAnswered, GlobAnswered, WalkAnswered, GitAnswered,
                                QueryAnswered, CliAnswered

\* A question about a glob.
LEMMA GlobQuestion ==
  ASSUME CallMatchGlob
  PROVE  UNCHANGED <<arenaVars, dirVars>> /\ Answered'
<1>1. PICK glob \in Globs, path \in GlobPaths :
        Call([part |-> "glob", glob |-> glob, path |-> path], MatchGlob(glob, path))
  BY DEF CallMatchGlob
<1>2. /\ asked' = [part |-> "glob", glob |-> glob, path |-> path]
      /\ answer' = MatchGlob(glob, path)
      /\ UNCHANGED <<arenaVars, dirVars>>
  BY <1>1 DEF Call
<1>3. asked'.part = "glob" /\ asked'.glob = glob /\ asked'.path = path
  BY <1>2
<1>4. GlobAnswered'
  BY <1>2, <1>3 DEF GlobAnswered
<1> QED BY <1>2, <1>3, <1>4 DEF Answered, LinesAnswered, OverlayAnswered, WalkAnswered, GitAnswered,
                                QueryAnswered, CliAnswered

\* A question about the walk.
LEMMA WalkQuestion ==
  ASSUME CallWalk
  PROVE  UNCHANGED <<arenaVars, dirVars>> /\ Answered'
<1>1. PICK rootName \in RootNames, gitignore \in IgnoreFiles, ignore \in IgnoreFiles, fn \in IgnoreFns :
        Call([part |-> "walk", rootName |-> rootName, rules |-> LoadRules(gitignore, ignore), ignoreFn |-> fn],
             Walk(Tree, rootName, LoadRules(gitignore, ignore), fn))
  BY DEF CallWalk
<1> DEFINE rules == LoadRules(gitignore, ignore)
<1>2. /\ asked' = [part |-> "walk", rootName |-> rootName, rules |-> rules, ignoreFn |-> fn]
      /\ answer' = Walk(Tree, rootName, rules, fn)
      /\ UNCHANGED <<arenaVars, dirVars>>
  BY <1>1 DEF Call
<1>3. \E g, i \in IgnoreFiles : rules = LoadRules(g, i)
  OBVIOUS
<1> HIDE DEF rules
<1>4. asked'.part = "walk" /\ asked'.rootName = rootName /\ asked'.rules = rules /\ asked'.ignoreFn = fn
  BY <1>2
<1>5. WalkAnswered'
  BY <1>2, <1>3, <1>4 DEF WalkAnswered
<1> QED BY <1>2, <1>4, <1>5 DEF Answered, LinesAnswered, OverlayAnswered, GlobAnswered, GitAnswered,
                                QueryAnswered, CliAnswered

\* A question about git's output.
LEMMA GitQuestion ==
  ASSUME CallGitStatus
  PROVE  UNCHANGED <<arenaVars, dirVars>> /\ Answered'
<1>1. PICK entries \in Outputs :
        Call([part |-> "git", entries |-> entries], LoadGitStatuses(Fields(entries)))
  BY DEF CallGitStatus
<1>2. /\ asked' = [part |-> "git", entries |-> entries]
      /\ answer' = LoadGitStatuses(Fields(entries))
      /\ UNCHANGED <<arenaVars, dirVars>>
  BY <1>1 DEF Call
<1>3. asked'.part = "git" /\ asked'.entries = entries
  BY <1>2
<1>4. GitAnswered'
  BY <1>2, <1>3 DEF GitAnswered
<1> QED BY <1>2, <1>3, <1>4 DEF Answered, LinesAnswered, OverlayAnswered, GlobAnswered, WalkAnswered,
                                QueryAnswered, CliAnswered

\* A question about a query.
LEMMA QueryQuestion ==
  ASSUME CallParse
  PROVE  UNCHANGED <<arenaVars, dirVars>> /\ Answered'
<1>1. PICK items \in Queries :
        Call([part |-> "query", items |-> items], Parse([i \in DOMAIN items |-> Written(items[i])]))
  BY DEF CallParse
<1>2. /\ asked' = [part |-> "query", items |-> items]
      /\ answer' = Parse([i \in DOMAIN items |-> Written(items[i])])
      /\ UNCHANGED <<arenaVars, dirVars>>
  BY <1>1 DEF Call
<1>3. asked'.part = "query" /\ asked'.items = items
  BY <1>2
<1>4. QueryAnswered'
  BY <1>2, <1>3 DEF QueryAnswered
<1> QED BY <1>2, <1>3, <1>4 DEF Answered, LinesAnswered, OverlayAnswered, GlobAnswered, WalkAnswered,
                                GitAnswered, CliAnswered

\* A question about a command line.
LEMMA CliQuestion ==
  ASSUME CallRun
  PROVE  UNCHANGED <<arenaVars, dirVars>> /\ Answered'
<1>1. PICK items \in CommandLines, after \in AfterDashes :
        Call([part |-> "cli", items |-> items, after |-> after], Run(Typed(items, after)))
  BY DEF CallRun
<1>2. /\ asked' = [part |-> "cli", items |-> items, after |-> after]
      /\ answer' = Run(Typed(items, after))
      /\ UNCHANGED <<arenaVars, dirVars>>
  BY <1>1 DEF Call
<1>3. asked'.part = "cli" /\ asked'.items = items /\ asked'.after = after
  BY <1>2
<1>4. CliAnswered'
  BY <1>2, <1>3 DEF CliAnswered
<1> QED BY <1>2, <1>3, <1>4 DEF Answered, LinesAnswered, OverlayAnswered, GlobAnswered, WalkAnswered,
                                GitAnswered, QueryAnswered

\* The first state satisfies the invariant.
LEMMA PartsInitInv == Init => PartsInv
<1> SUFFICES ASSUME Init PROVE PartsInv
  OBVIOUS
<1>1. ArenaInv /\ DirInv
  BY ArenaInitInv, DirInitInv DEF Init
<1>2. Answered
  BY DEF Init, Answered, LinesAnswered, OverlayAnswered, GlobAnswered, WalkAnswered,
         GitAnswered, QueryAnswered, CliAnswered
<1> QED BY <1>1, <1>2 DEF PartsInv

\* Every step preserves it.
LEMMA PartsStep == PartsInv /\ [Next]_partsVars => PartsInv'
<1> SUFFICES ASSUME PartsInv, [Next]_partsVars PROVE PartsInv'
  OBVIOUS
<1>1. ASSUME UNCHANGED arenaVars PROVE ArenaInv'
  BY <1>1, ArenaStep DEF PartsInv
<1>2. ASSUME UNCHANGED dirVars PROVE DirInv'
  BY <1>2, DirStep DEF PartsInv
<1>3. ASSUME UNCHANGED questionVars PROVE Answered'
  BY <1>3 DEF PartsInv, Answered, LinesAnswered, OverlayAnswered, GlobAnswered, WalkAnswered,
               GitAnswered, QueryAnswered, CliAnswered, questionVars
<1>4. CASE ArenaMoves
  BY <1>2, <1>3, <1>4, ArenaStep DEF ArenaMoves, PartsInv
<1>5. CASE DirMoves
  BY <1>1, <1>3, <1>5, DirStep DEF DirMoves, PartsInv
<1>6. ASSUME UNCHANGED <<arenaVars, dirVars>>, Answered' PROVE PartsInv'
  BY <1>1, <1>2, <1>6 DEF PartsInv
<1>7. CASE CallSearchFile
  BY <1>6, <1>7, LinesQuestion
<1>8. CASE CallMatchGlob
  BY <1>6, <1>8, GlobQuestion
<1>9. CASE CallWalk
  BY <1>6, <1>9, WalkQuestion
<1>10. CASE CallGitStatus
  BY <1>6, <1>10, GitQuestion
<1>11. CASE CallParse
  BY <1>6, <1>11, QueryQuestion
<1>12. CASE CallRun
  BY <1>6, <1>12, CliQuestion
<1>13. CASE CallOverlay
  BY <1>6, <1>13, OverlayQuestion
<1>14. CASE UNCHANGED partsVars
  BY <1>1, <1>2, <1>3, <1>14 DEF partsVars, PartsInv
<1>15. CASE Over
  BY <1>14, <1>15 DEF Over
<1> QED BY <1>4, <1>5, <1>7, <1>8, <1>9, <1>10, <1>11, <1>12, <1>13, <1>14, <1>15 DEF Next

\* The answer about a file is right.
LEMMA AnsweredLinesRight == Answered => LinesRight
<1> SUFFICES ASSUME Answered, asked.part = "lines" PROVE LinesRight
  BY DEF LinesRight
<1>1. /\ asked.text \in Seq(DOMAIN Lower) /\ asked.query \in Seq(DOMAIN Lower)
      /\ asked.limit \in Int /\ asked.opts \in [caseInsensitive : BOOLEAN, includeBinary : BOOLEAN]
      /\ answer = SearchFile(asked.text, Stale, asked.query, asked.limit, asked.opts)
  BY LinesAssumption DEF Answered, LinesAnswered
<1>2. AnswerRight(asked.text, asked.query, asked.limit, asked.opts, answer)
  BY <1>1, SearchFileExact
<1> QED BY <1>2, Zenon DEF LinesRight, AnswerRight, Told

\* The range of a sequence, and the places of its elements.
LEMMA InRange ==
  ASSUME NEW s, NEW v
  PROVE  v \in Range(s) <=> Has(s, v)
BY DEF Range, Has

\* The answer about the overlay is the promised one.
LEMMA AnsweredFinds == Answered => OverlayFinds
<1> SUFFICES ASSUME Answered, asked.part = "overlay", answer.state # "unavailable" PROVE OverlayFinds
  BY DEF OverlayFinds
<1> DEFINE adds == asked.adds
           q == asked.query
           c == answer.candidates
           live == Live(adds, Len(adds))
           calls == {i \in DOMAIN adds : \A r \in {k \in DOMAIN adds : adds[k] = <<>>} : r < i}
<1>1. adds \in AddSeqs /\ q \in Seq(DOMAIN Lower) /\ answer = OverlayOutcome(Overlay(adds), q)
  BY DEF Answered, OverlayAnswered
<1>2. DOMAIN adds = 1 .. Len(adds)
  BY <1>1 DEF AddSeqs
<1>3. live = calls
  BY <1>2 DEF Live
<1>4. /\ \A v : Has(c, v) => \A g \in QueryGrams(q) :
           \E i \in live : adds[i][1] = v /\ g \in Grams(adds[i][2])
      /\ InSequence(adds, Len(adds)) =>
           \A i \in live : QueryGrams(q) \subseteq Grams(adds[i][2]) => Has(c, adds[i][1])
  <2>1. OverlayOutcome(Overlay(adds), q).state # "unavailable"
    BY <1>1
  <2>2. c = OverlayOutcome(Overlay(adds), q).candidates
    BY <1>1
  <2> HIDE DEF adds, q, c, calls
  <2>3. LET d == OverlayOutcome(Overlay(adds), q).candidates
        IN /\ \A v : Has(d, v) => \A g \in QueryGrams(q) :
                \E i \in live : adds[i][1] = v /\ g \in Grams(adds[i][2])
           /\ InSequence(adds, Len(adds)) =>
                \A i \in live : QueryGrams(q) \subseteq Grams(adds[i][2]) => Has(d, adds[i][1])
    BY <1>1, <2>1, OverlayExact
  <2> QED BY <2>2, <2>3
<1>5. InSequence(adds, Len(adds)) <=> \A i, j \in calls : i < j => adds[i][1] <= adds[j][1]
  BY <1>3 DEF InSequence
<1> HIDE DEF live, calls, adds, q, c
<1>6. \A n \in Range(c) : \A g \in QueryGrams(q) :
        \E i \in calls : adds[i][1] = n /\ g \in Grams(adds[i][2])
  BY <1>3, <1>4, InRange
<1>7. (\A i, j \in calls : i < j => adds[i][1] <= adds[j][1]) =>
        \A i \in calls : QueryGrams(q) \subseteq Grams(adds[i][2]) => adds[i][1] \in Range(c)
  BY <1>3, <1>4, <1>5, InRange
<1> QED BY <1>6, <1>7 DEF OverlayFinds, calls, adds, q, c

\* So is the one about a glob.
LEMMA AnsweredGlobRight == Answered => GlobRight
<1> SUFFICES ASSUME Answered, asked.part = "glob" PROVE GlobRight
  BY DEF GlobRight
<1>1. asked.glob \in Globs /\ asked.path \in GlobPaths /\ answer = MatchGlob(asked.glob, asked.path)
  BY DEF Answered, GlobAnswered
<1>2. IsSeq(asked.glob.parts) /\ IsSeq(asked.path)
  BY <1>1, GlobsAssumption
<1>3. MatchGlob(asked.glob, asked.path) <=>
        Laid(asked.glob.parts, asked.path) /\ (asked.glob.rooted => AnyDepth \in Range(asked.glob.parts))
  BY <1>2, GlobExact
<1> QED BY <1>1, <1>3, Zenon DEF GlobRight

\* So is the one about the walk.
LEMMA AnsweredWalkRight == Answered => WalkRight
<1> SUFFICES ASSUME Answered, asked.part = "walk" PROVE WalkRight
  BY DEF WalkRight
<1>1. Loaded(asked.rules) /\ answer = Walk(Tree, asked.rootName, asked.rules, asked.ignoreFn)
  BY LoadRulesLoaded DEF Answered, WalkAnswered
<1>2. ASSUME NEW path \in DOMAIN Tree, Tree[path] = "regular"
      PROVE  LET skipped == \/ Range(Front(path)) \cap SkippedNames # {}
                            \/ path \in asked.ignoreFn \/ asked.rootName \in SkippedNames
                 ignored == IgnoredByGit(asked.rules, path)
             IN /\ path \in answer => ~skipped /\ (ignored => KeptMore(asked.rules, path))
                /\ path \notin answer => skipped \/ ignored \/ LeftOutMore(asked.rules, path)
  <2>1. IsSeq(path) /\ path # <<>>
    BY TreeAssumption
  <2> QED BY <1>1, <1>2, <2>1, WalkExact
<1>3. answer \subseteq {p \in DOMAIN Tree : Tree[p] = "regular"}
  BY <1>1 DEF Walk
<1> QED BY <1>2, <1>3 DEF WalkRight

\* So is the one about git's output.
LEMMA AnsweredStatusRight == Answered => StatusRight
<1> SUFFICES ASSUME Answered, asked.part = "git",
                    \A e \in Range(asked.entries) : IsRenameOrCopy(e.x, e.y) => Kind(e.x, e.y) # "clean"
             PROVE  answer = StatusesOf(asked.entries)
  BY DEF StatusRight
<1>1. asked.entries \in Outputs /\ answer = LoadGitStatuses(Fields(asked.entries))
  BY DEF Answered, GitAnswered
<1>2. \A i \in DOMAIN asked.entries : asked.entries[i] \in Range(asked.entries)
  BY DEF Range
<1>3. Readable(asked.entries)
  BY <1>1, <1>2, OutputsAssumption DEF Readable
<1> QED BY <1>1, <1>3, StatusesExact

\* So is the one about a query.
LEMMA AnsweredQueryRight == Answered => QueryRight
<1> SUFFICES ASSUME Answered, asked.part = "query" PROVE QueryRight
  BY DEF QueryRight
<1> DEFINE items == asked.items
<1>1. items \in Queries /\ answer = Parse([i \in DOMAIN items |-> Written(items[i])])
  BY DEF Answered, QueryAnswered
<1>2. IsSeq(items) /\ \A item \in Range(items) : WellFormed(item)
  BY <1>1, QueriesAssumption
<1> HIDE DEF items
<1>3. LET texts == {i \in DOMAIN items : items[i].kind = "text" /\ items[i].nots = 0}
          structured == Those(items, DOMAIN items \ texts)
          words == Those(items, texts)
      IN /\ answer.fuzzy = [k \in DOMAIN words |-> words[k].value]
         /\ DOMAIN answer.constraints = DOMAIN structured
         /\ \A k \in DOMAIN structured :
              Conveys(answer.constraints[k], structured[k], FileAttributes, Now)
  BY <1>1, <1>2, ParseExact, ZenonT(40)
<1> QED BY <1>3 DEF QueryRight, items

\* So is the one about a command line.
LEMMA AnsweredFlagsRight == Answered => FlagsRight
<1> SUFFICES ASSUME Answered, asked.part = "cli",
                    \A i \in DOMAIN asked.items : ~SpelledLikeFlag(asked.items[i])
             PROVE  FlagsRight
  BY DEF FlagsRight
<1> DEFINE items == asked.items
           after == asked.after
<1>1. items \in CommandLines /\ after \in AfterDashes /\ answer = Run(Typed(items, after))
  BY DEF Answered, CliAnswered
<1>2. IsSeq(items) /\ IsSeq(after) /\ \A item \in Range(items) : Typeable(item)
  BY <1>1, CommandLinesAssumption
<1>3. \A i \in DOMAIN items : ~SpelledLikeFlag(items[i])
  OBVIOUS
<1> HIDE DEF items, after
<1>4. answer = Wanted(items, after)
  BY <1>1, <1>2, <1>3, RunExact
<1>5. ASSUME "exit" \notin DOMAIN answer PROVE answer.limit \in Nat
  BY <1>2, <1>4, <1>5, WantedLimit
<1>6. ASSUME "exit" \notin DOMAIN answer, NEW lib \in Libraries
      PROVE  LET result == Execute(answer, lib)
                 scanning == answer.query \in {<<>>, <<Word("")>>}
                 listing == IF scanning THEN "scan" ELSE "search"
                 targets == IF scanning THEN lib.scanned ELSE lib.found
                 grepping == answer.grep # Word("")
             IN /\ result.exit = 0 <=> lib.fails # listing /\ (grepping => lib.fails # "grep")
                /\ lib.fails = listing => result.printed = <<>>
                /\ lib.fails # listing =>
                     IF grepping THEN FirstWithHits(result.printed, targets, lib.hits, answer.limit)
                     ELSE result.printed = targets
  BY <1>5, <1>6, CommandLinesAssumption, ExecuteRight
<1> QED BY <1>4, <1>6, Zenon DEF FlagsRight, items, after

\* Every behaviour satisfies the invariant.
LEMMA PartsInvHolds == Spec => []PartsInv
<1> QED BY PartsInitInv, PartsStep, PTL DEF Spec

\* The overlay finds what was added to it since the last Reset, and nothing
\* else (BigramOverlay.Add, Reset, QueryCandidates).
THEOREM OverlayFindsHolds == Spec => []OverlayFinds
<1>1. PartsInv => OverlayFinds
  BY AnsweredFinds DEF PartsInv
<1> QED BY PartsInvHolds, <1>1, PTL

\* A file's hits are exactly the lines that have every word of the query, in
\* their order, however the buffers cut them, and their ranges show the words.
THEOREM LinesRightHolds == Spec => []LinesRight
<1>1. PartsInv => LinesRight
  BY AnsweredLinesRight DEF PartsInv
<1> QED BY PartsInvHolds, <1>1, PTL

\* A glob matches exactly the paths its parts can be laid along (matchGlob and
\* matchGlobSegments).
THEOREM GlobRightHolds == Spec => []GlobRight
<1>1. PartsInv => GlobRight
  BY AnsweredGlobRight DEF PartsInv
<1> QED BY PartsInvHolds, <1>1, PTL

\* A scan keeps no file git ignores, and leaves out no other one but for the
\* reasons named (ScanContext with loadRootIgnoreRules, matchDir and matchFile).
THEOREM WalkRightHolds == Spec => []WalkRight
<1>1. PartsInv => WalkRight
  BY AnsweredWalkRight DEF PartsInv
<1> QED BY PartsInvHolds, <1>1, PTL

\* Every entry git prints is read, and nothing else, the last of a path
\* counting (loadGitStatusesContext), copies of no other known status excepted.
THEOREM StatusRightHolds == Spec => []StatusRight
<1>1. PartsInv => StatusRight
  BY AnsweredStatusRight DEF PartsInv
<1> QED BY PartsInvHolds, <1>1, PTL

\* A query is read as it was meant, each constraint to the byte and the second
\* (QueryParser.Parse, parseConstraintToken, ParseHumanSize, ParseDurationAgo).
THEOREM QueryRightHolds == Spec => []QueryRight
<1>1. PartsInv => QueryRight
  BY AnsweredQueryRight DEF PartsInv
<1> QED BY PartsInvHolds, <1>1, PTL

\* A command line is read as it was meant, and its exit status and what it
\* prints fit what the library answers (splitFlagArgs, run, runSearch, runGrep).
THEOREM FlagsRightHolds == Spec => []FlagsRight
<1>1. PartsInv => FlagsRight
  BY AnsweredFlagsRight DEF PartsInv
<1> QED BY PartsInvHolds, <1>1, PTL

\* The store of paths and the directory score, beside the other parts.
THEOREM PartsInternedHolds == Spec => []Interned
<1>1. PartsInv => Interned
  BY ArenaInvInterned DEF PartsInv
<1> QED BY PartsInvHolds, <1>1, PTL

\* So is the directory score (DirItem.UpdateFrecencyIfLarger).
THEOREM PartsHighestHolds == Spec => []Highest
<1>1. PartsInv => Highest
  BY DirInvHighest DEF PartsInv
<1> QED BY PartsInvHolds, <1>1, PTL
==============================================================================
