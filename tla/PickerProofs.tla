----------------------------- MODULE PickerProofs ----------------------------
(****************************************************************************)
(* Theorems about the picker shared by goroutines (Picker), for any set of  *)
(* goroutines, any number of paths and any number of scans and touches.     *)
(****************************************************************************)
EXTENDS Picker, FiniteSetTheorems, TLAPS

\* The type invariant in three parts: sequences, everything else, and the
\* counters, which need an account of the touches that are still to be stored.
Lists ==
  /\ files \in Seq(File) /\ index \in Seq(Paths)
  /\ walked \in [Procs -> Seq(Paths)]

\* A walk finds at most one file at each path it has looked at, so that the
\* numbers of an index are numbers of paths.
Short ==
  /\ Len(index) <= N
  /\ \A p \in Procs : Len(walked[p]) < cursor[p]

Plain ==
  /\ disk \subseteq Paths /\ edits \in 0 .. MaxEdits /\ scanned \in BOOLEAN
  /\ scans \in 0 .. MaxScans
  /\ pc \in [Procs -> PCs] /\ op \in [Procs -> {"none", "scan", "search", "touch"}]
  /\ cursor \in [Procs -> 1 .. N + 1]
  /\ query \in [Procs -> SUBSET Paths] /\ found \in [Procs -> SUBSET Paths]
  /\ at \in [Procs -> 1 .. N] /\ rel \in [Procs -> Paths \cup {NoPath}]
  /\ \A p \in Procs : pc[p] \in {"touch", "score", "relock", "write"} => rel[p] \in Paths

\* The calls of TouchByIndex that have not reached the frecency tracker.
Pending == {p \in Procs : pc[p] \in {"resolve", "touch"}}
Counters ==
  /\ touches \in 0 .. MaxTouches
  /\ IsFiniteSet(Pending)
  /\ count \in [Paths -> Nat]
  /\ \A f \in Paths : count[f] + Cardinality(Pending) <= touches
  /\ score \in [Procs -> 0 .. MaxTouches]

\* fileMu: the readers are the searches between their lock and their return,
\* and who writes is alone.
Reading == {p \in Procs : pc[p] \in {"locked", "candidates", "results"}}
Lock ==
  /\ readers = Reading
  /\ \A p \in Procs : pc[p] = "index" => readers = {} /\ \A q \in Procs : pc[q] = "index" => p = q

\* Files and index are of one scan but for the moment a writer is between them.
Matching ==
  /\ (\A p \in Procs : pc[p] # "index") => PathsOf(files) = index
  /\ \A p \in Procs : pc[p] = "index" => PathsOf(files) = walked[p]

\* What a search has found is what is published while it holds the lock.
Hits(p) == {i \in DOMAIN index : index[i] \in query[p]}
Found ==
  \A p \in Procs : /\ pc[p] = "candidates" => found[p] = Hits(p)
                   /\ pc[p] = "results" => found[p] = Hits(p) \cap DOMAIN files

\* A search past ensureScanned has seen the flag, which is never cleared.
Fresh == \A p \in Procs : pc[p] \in {"prepare", "locked", "candidates", "results"} => scanned

Inv == Lists /\ Short /\ Plain /\ Counters /\ Lock /\ Matching /\ Found /\ Fresh

------------------------------------------------------------------------------
(****************************************************************************)
(* The sequences.                                                           *)
(****************************************************************************)

\* A walk starts, and is thrown away, with nothing found.
LEMMA ForgetWalk ==
  ASSUME Lists, Short, cursor \in [Procs -> 1 .. N + 1], NEW p \in Procs,
         UNCHANGED <<files, index>>,
         walked' = [walked EXCEPT ![p] = <<>>], cursor' = [cursor EXCEPT ![p] = 1]
  PROVE  Lists' /\ Short'
<1>1. Lists'
  BY DEF Lists
<1>2. ASSUME NEW q \in Procs PROVE Len(walked'[q]) < cursor'[q]
  <2>1. CASE q = p
    <3>1. walked'[q] = <<>> /\ cursor'[q] = 1
      BY <2>1 DEF Lists
    <3> QED BY <3>1
  <2>2. CASE q # p
    BY <2>2 DEF Lists, Short
  <2> QED BY <2>1, <2>2
<1> QED BY <1>1, <1>2 DEF Short

\* A walk finds only paths, one for each it looks at at the most.
LEMMA WalkLists ==
  ASSUME Lists, Short, cursor \in [Procs -> 1 .. N + 1], NEW p \in Procs, Walk(p)
  PROVE  Lists' /\ Short'
<1>1. /\ cursor[p] \in Paths
      /\ cursor' = [cursor EXCEPT ![p] = cursor[p] + 1]
      /\ walked' = [walked EXCEPT ![p] = Append(walked[p], cursor[p])] \/ walked' = walked
      /\ UNCHANGED <<files, index>>
  BY BoundsAssumption DEF Walk, Paths, published
<1>2. /\ Append(walked[p], cursor[p]) \in Seq(Paths)
      /\ Len(Append(walked[p], cursor[p])) = Len(walked[p]) + 1
      /\ Len(walked[p]) \in Nat
  BY <1>1 DEF Lists
<1>3. Lists'
  BY <1>1, <1>2 DEF Lists
<1>4. ASSUME NEW q \in Procs PROVE Len(walked'[q]) < cursor'[q]
  <2>1. CASE q = p
    BY <1>1, <1>2, <2>1 DEF Lists, Short
  <2>2. CASE q # p
    BY <1>1, <2>2 DEF Lists, Short
  <2> QED BY <2>1, <2>2
<1> QED BY <1>1, <1>3, <1>4 DEF Short

\* The files that are published are those the walk has found.
LEMMA ReplaceLists ==
  ASSUME Lists, NEW p \in Procs, Replace(p)
  PROVE  files' \in Seq(File)
<1>1. walked[p] \in Seq(Paths)
  BY DEF Lists
<1>2. \A i \in DOMAIN walked[p] : walked[p][i] \in Paths
  BY <1>1
<1>3. 0 \in 0 .. MaxTouches
  BY BoundsAssumption
<1>4. \A i \in DOMAIN walked[p] : [path |-> walked[p][i], access |-> 0] \in File
  BY <1>2, <1>3 DEF File
<1>5. /\ Len(walked[p]) \in Nat
      /\ DOMAIN walked[p] = 1 .. Len(walked[p])
  BY <1>1
<1>6. files' \in [1 .. Len(walked[p]) -> File]
  BY <1>4, <1>5 DEF Replace
<1> QED BY <1>5, <1>6

\* A score is cached for a file there is.
LEMMA CacheLists ==
  ASSUME Lists, NEW i, NEW n \in 0 .. MaxTouches,
         files' = IF i \in DOMAIN files THEN [files EXCEPT ![i].access = n] ELSE files
  PROVE  files' \in Seq(File)
<1>1. CASE i \notin DOMAIN files
  BY <1>1 DEF Lists
<1>2. CASE i \in DOMAIN files
  <2>1. files[i] \in File
    BY <1>2 DEF Lists
  <2>2. [files[i] EXCEPT !.access = n] \in File
    BY <2>1 DEF File
  <2>3. files' = [files EXCEPT ![i] = [files[i] EXCEPT !.access = n]]
    BY <1>2
  <2> QED BY <1>2, <2>2, <2>3 DEF Lists
<1> QED BY <1>1, <1>2

\* Every step keeps the sequences.
LEMMA ListsStep == Lists /\ Short /\ Plain /\ Counters /\ [Next]_vars => Lists' /\ Short'
<1> SUFFICES ASSUME Lists, Short, Plain, Counters, [Next]_vars PROVE Lists' /\ Short'
  OBVIOUS
<1> DEFINE Same == UNCHANGED <<files, index, walked, cursor>>
<1>1. ASSUME Same PROVE Lists' /\ Short'
  BY <1>1 DEF Lists, Short
<1>2. ASSUME NEW p \in Procs, UNCHANGED <<files, index>>,
             walked' = [walked EXCEPT ![p] = <<>>], cursor' = [cursor EXCEPT ![p] = 1]
      PROVE  Lists' /\ Short'
  BY <1>2, ForgetWalk DEF Plain
<1> HIDE DEF Same
<1>3. CASE \E f \in Paths : Edit(f)
  BY <1>1, <1>3 DEF Edit, published, walking, Same
<1>4. ASSUME NEW p \in Procs, ScanCall(p) \/ SearchCall(p) \/ TouchCall(p)
      PROVE  Lists' /\ Short'
  <2>1. CASE ScanCall(p)
    BY <1>2, <2>1 DEF ScanCall, StartWalk, published
  <2>2. CASE SearchCall(p) \/ TouchCall(p)
    BY <1>1, <2>2 DEF SearchCall, TouchCall, published, walking, Same
  <2> QED BY <1>4, <2>1, <2>2
<1>5. ASSUME NEW p \in Procs, Scan(p) PROVE Lists' /\ Short'
  <2>1. CASE Walk(p)
    BY <2>1, WalkLists DEF Plain
  <2>2. CASE ScanFails(p) \/ StoreScanned(p)
    BY <1>2, <2>2 DEF ScanFails, StoreScanned, published
  <2>3. CASE Built(p) \/ AskPublish(p)
    BY <1>1, <2>3 DEF Built, AskPublish, published, walking, Same
  <2>4. CASE Publish(p)
    <3>1. files' \in Seq(File)
      BY <2>4, ReplaceLists DEF Publish
    <3>2. UNCHANGED <<index, walked, cursor>>
      BY <2>4 DEF Publish, walking
    <3> QED BY <3>1, <3>2 DEF Lists, Short
  <2>5. CASE PublishIndex(p)
    <3>1. UNCHANGED <<files, walked, cursor>> /\ index' = walked[p]
      BY <2>5 DEF PublishIndex, walking
    <3>2. Lists'
      BY <3>1 DEF Lists
    <3>3. Len(walked[p]) \in Nat /\ Len(walked[p]) < cursor[p] /\ cursor[p] \in 1 .. N + 1
      BY DEF Lists, Short, Plain
    <3>4. Len(index') <= N
      BY <3>1, <3>3, BoundsAssumption
    <3> QED BY <3>1, <3>2, <3>4 DEF Short
  <2> QED BY <1>5, <2>1, <2>2, <2>3, <2>4, <2>5 DEF Scan
<1>6. ASSUME NEW p \in Procs, Search(p) PROVE Lists' /\ Short'
  <2>1. CASE EnsureScanned(p)
    <3>1. UNCHANGED <<files, index>> /\ (UNCHANGED walking \/ StartWalk(p))
      BY <2>1 DEF EnsureScanned, published
    <3> QED BY <1>1, <1>2, <3>1 DEF StartWalk, walking, Same
  <2>2. CASE SearchFails(p) \/ ReadLock(p) \/ Candidates(p) \/ Score(p) \/ Results(p)
    BY <1>1, <2>2 DEF SearchFails, ReadLock, Candidates, Score, Results, published, walking, Same
  <2> QED BY <1>6, <2>1, <2>2 DEF Search
<1>7. ASSUME NEW p \in Procs, Touch(p) PROVE Lists' /\ Short'
  <2>1. CASE Resolve(p) \/ FrecencyTouch(p) \/ GetAccessScore(p) \/ AskWrite(p)
    BY <1>1, <2>1 DEF Resolve, FrecencyTouch, GetAccessScore, AskWrite, published, walking, Same
  <2>2. CASE WriteScore(p)
    <3>1. /\ UNCHANGED <<index, walked, cursor>>
          /\ files' = IF at[p] \in DOMAIN files
                      THEN [files EXCEPT ![at[p]].access = score[p]] ELSE files
      BY <2>2 DEF WriteScore, walking
    <3>2. score[p] \in 0 .. MaxTouches
      BY DEF Counters
    <3>3. files' \in Seq(File)
      BY <3>1, <3>2, CacheLists
    <3> QED BY <3>1, <3>3 DEF Lists, Short
  <2> QED BY <1>7, <2>1, <2>2 DEF Touch
<1>8. CASE UNCHANGED vars
  BY <1>1, <1>8 DEF vars, walking, Same
<1> QED BY <1>3, <1>4, <1>5, <1>6, <1>7, <1>8 DEF Next, Step

------------------------------------------------------------------------------
(****************************************************************************)
(* Everything else.                                                         *)
(****************************************************************************)

\* Moving one goroutine to a place there is keeps the places.
LEMMA GotoPlain ==
  ASSUME Plain, NEW p \in Procs, NEW here, NEW there \in PCs, Goto(p, here, there)
  PROVE  /\ pc' \in [Procs -> PCs]
         /\ pc[p] = here /\ pc'[p] = there
         /\ \A q \in Procs : q # p => pc'[q] = pc[q]
BY DEF Goto, Plain

\* A walk starts at the first path.
LEMMA StartPlain ==
  ASSUME Plain, NEW p \in Procs, StartWalk(p)
  PROVE  scans' \in 0 .. MaxScans /\ cursor' \in [Procs -> 1 .. N + 1]
BY BoundsAssumption DEF StartWalk, Plain

\* Every step keeps the rest of the type invariant.
LEMMA PlainStep == Lists /\ Short /\ Plain /\ [Next]_vars => Plain'
<1> SUFFICES ASSUME Lists, Short, Plain, [Next]_vars PROVE Plain'
  OBVIOUS
<1> USE BoundsAssumption DEF Plain, PCs, Paths, Goto
<1>1. ASSUME NEW f \in Paths, Edit(f) PROVE Plain'
  BY <1>1 DEF Edit, published, searching, walking, touching
<1>2. ASSUME NEW p \in Procs, ScanCall(p) \/ SearchCall(p) \/ TouchCall(p) PROVE Plain'
  <2>1. CASE ScanCall(p)
    BY <2>1, StartPlain DEF ScanCall, world, published, searching, touching
  <2>2. CASE SearchCall(p)
    BY <2>2 DEF SearchCall, world, published, walking, touching
  <2>3. CASE TouchCall(p)
    BY <2>3 DEF TouchCall, world, published, walking, searching
  <2> QED BY <1>2, <2>1, <2>2, <2>3
<1>3. ASSUME NEW p \in Procs, Scan(p) PROVE Plain'
  <2>1. CASE Walk(p)
    <3>1. /\ UNCHANGED <<disk, edits, scanned, scans, pc, op, query, found, at, rel>>
          /\ cursor[p] <= N /\ cursor' = [cursor EXCEPT ![p] = cursor[p] + 1]
      BY <2>1 DEF Walk, world, published, searching, touching
    <3> QED BY <3>1
  <2>2. CASE ScanFails(p)
    <3>1. /\ UNCHANGED <<disk, edits, scanned, scans, op, query, found, at, rel>>
          /\ pc' = [pc EXCEPT ![p] = "idle"] /\ cursor' = [cursor EXCEPT ![p] = 1]
      BY <2>2 DEF ScanFails, world, published, searching, touching
    <3> QED BY <3>1
  <2>3. CASE Built(p) \/ AskPublish(p)
    BY <2>3 DEF Built, AskPublish, world, published, walking, searching, touching
  <2>4. CASE Publish(p) \/ PublishIndex(p)
    BY <2>4 DEF Publish, PublishIndex, world, walking, searching, touching
  <2>5. CASE StoreScanned(p)
    <3>1. /\ UNCHANGED <<disk, edits, scans, op, query, found, at, rel>> /\ scanned' = TRUE
          /\ pc' = [pc EXCEPT ![p] = IF op[p] = "scan" THEN "idle" ELSE "prepare"]
          /\ cursor' = [cursor EXCEPT ![p] = 1]
      BY <2>5 DEF StoreScanned, world, searching, touching
    <3> QED BY <3>1
  <2> QED BY <1>3, <2>1, <2>2, <2>3, <2>4, <2>5 DEF Scan
<1>4. ASSUME NEW p \in Procs, Search(p) PROVE Plain'
  <2>1. CASE EnsureScanned(p)
    BY <2>1, StartPlain DEF EnsureScanned, world, published, walking, searching, touching
  <2>2. CASE SearchFails(p) \/ Results(p)
    BY <2>2 DEF SearchFails, Results, Return, world, published, walking, touching
  <2>3. CASE ReadLock(p)
    BY <2>3 DEF ReadLock, world, published, walking, searching, touching
  <2>4. CASE Candidates(p)
    <3>1. Len(index) \in Nat /\ Len(index) <= N /\ DOMAIN index = 1 .. Len(index)
      BY DEF Lists, Short
    <3>2. {i \in DOMAIN index : index[i] \in query[p]} \subseteq 1 .. N
      BY <3>1
    <3> QED BY <2>4, <3>2 DEF Candidates, world, published, walking, touching
  <2>5. CASE Score(p)
    BY <2>5 DEF Score, world, published, walking, touching
  <2> QED BY <1>4, <2>1, <2>2, <2>3, <2>4, <2>5 DEF Search
<1>5. ASSUME NEW p \in Procs, Touch(p) PROVE Plain'
  <2>1. CASE Resolve(p)
    <3>1. at[p] \in DOMAIN files => files[at[p]].path \in 1 .. N
      <4>1. at[p] \in DOMAIN files => files[at[p]] \in File
        BY DEF Lists
      <4> QED BY <4>1 DEF File
    <3> QED BY <2>1, <3>1 DEF Resolve, world, published, walking, searching
  <2>2. CASE FrecencyTouch(p) \/ AskWrite(p)
    BY <2>2 DEF FrecencyTouch, AskWrite, world, published, walking, searching, touching
  <2>3. CASE GetAccessScore(p)
    BY <2>3 DEF GetAccessScore, world, published, walking, searching
  <2>4. CASE WriteScore(p)
    BY <2>4 DEF WriteScore, world, walking, searching, touching
  <2> QED BY <1>5, <2>1, <2>2, <2>3, <2>4 DEF Touch
<1>6. CASE UNCHANGED vars
  BY <1>6 DEF vars
<1> QED BY <1>1, <1>2, <1>3, <1>4, <1>5, <1>6 DEF Next, Step

\* Who moves and is not in TouchByIndex leaves the account as it is.
LEMMA PendingSame ==
  ASSUME Plain, NEW p \in Procs, NEW there,
         pc[p] \notin {"resolve", "touch"}, there \notin {"resolve", "touch"},
         pc' = [pc EXCEPT ![p] = there], UNCHANGED <<touches, count, score>>, Counters
  PROVE  Counters'
<1>1. Pending' = Pending
  BY DEF Plain, Pending
<1> QED BY <1>1 DEF Counters

\* No count is higher than the number of calls that were made.
LEMMA CountersStep == Plain /\ Counters /\ [Next]_vars => Counters'
<1> SUFFICES ASSUME Plain, Counters, [Next]_vars PROVE Counters'
  OBVIOUS
<1> USE DEF Goto
<1>1. ASSUME UNCHANGED <<touches, count, score, pc>> PROVE Counters'
  BY <1>1 DEF Counters, Pending
<1>2. \A f \in Paths : count[f] \in Nat
  BY DEF Counters
<1>3. Cardinality(Pending) \in Nat
  BY FS_CardinalityType DEF Counters
<1>4. ASSUME NEW p \in Procs, ScanCall(p) \/ SearchCall(p) PROVE Counters'
  BY <1>4, PendingSame DEF ScanCall, SearchCall, touching
<1>5. ASSUME NEW p \in Procs, TouchCall(p) PROVE Counters'
  <2>1. /\ pc[p] = "idle" /\ pc' = [pc EXCEPT ![p] = "resolve"]
        /\ touches < MaxTouches /\ touches' = touches + 1
        /\ UNCHANGED <<count, score>>
    BY <1>5 DEF TouchCall
  <2>2. Pending' = Pending \cup {p} /\ p \notin Pending
    BY <2>1 DEF Pending, Plain
  <2>3. IsFiniteSet(Pending') /\ Cardinality(Pending') = Cardinality(Pending) + 1
    BY <2>2, FS_AddElement DEF Counters
  <2> QED BY <1>2, <1>3, <2>1, <2>3, BoundsAssumption DEF Counters
<1>6. ASSUME NEW p \in Procs, Scan(p) PROVE Counters'
  <2>1. CASE Walk(p)
    BY <1>1, <2>1 DEF Walk, touching
  <2>2. CASE ScanFails(p) \/ Built(p) \/ AskPublish(p) \/ Publish(p) \/ PublishIndex(p)
    BY <2>2, PendingSame DEF ScanFails, Built, AskPublish, Publish, PublishIndex, touching
  <2>3. CASE StoreScanned(p)
    BY <2>3, PendingSame DEF StoreScanned, touching
  <2> QED BY <1>6, <2>1, <2>2, <2>3 DEF Scan
<1>7. ASSUME NEW p \in Procs, Search(p) PROVE Counters'
  <2>1. CASE EnsureScanned(p) \/ SearchFails(p)
    BY <2>1, PendingSame DEF EnsureScanned, SearchFails, touching
  <2>2. CASE ReadLock(p) \/ Candidates(p) \/ Score(p) \/ Results(p)
    BY <2>2, PendingSame DEF ReadLock, Candidates, Score, Results, touching
  <2> QED BY <1>7, <2>1, <2>2 DEF Search
<1>8. ASSUME NEW p \in Procs, p \in Pending, Pending' = Pending \ {p}
      PROVE  IsFiniteSet(Pending') /\ Cardinality(Pending') = Cardinality(Pending) - 1
  BY <1>8, FS_RemoveElement DEF Counters
<1>9. ASSUME NEW p \in Procs, Touch(p) PROVE Counters'
  <2>1. CASE Resolve(p)
    <3>1. UNCHANGED <<touches, count, score>>
      BY <2>1 DEF Resolve
    <3>2. CASE pc' = [pc EXCEPT ![p] = "touch"]
      <4>1. Pending' = Pending
        BY <2>1, <3>2 DEF Resolve, Pending, Plain
      <4> QED BY <3>1, <4>1 DEF Counters
    <3>3. CASE pc' = [pc EXCEPT ![p] = "idle"]
      <4>1. p \in Pending /\ Pending' = Pending \ {p}
        BY <2>1, <3>3 DEF Resolve, Pending, Plain
      <4>2. IsFiniteSet(Pending') /\ Cardinality(Pending') = Cardinality(Pending) - 1
        BY <1>8, <4>1
      <4>3. ASSUME NEW f \in Paths PROVE count'[f] + Cardinality(Pending') <= touches'
        <5>1. count[f] + Cardinality(Pending) <= touches /\ touches \in Nat
          BY BoundsAssumption DEF Counters
        <5> QED BY <1>2, <1>3, <3>1, <4>2, <5>1
      <4> QED BY <3>1, <4>2, <4>3 DEF Counters
    <3> QED BY <2>1, <3>2, <3>3 DEF Resolve
  <2>2. CASE FrecencyTouch(p)
    <3>1. /\ pc[p] = "touch" /\ pc' = [pc EXCEPT ![p] = "score"]
          /\ rel[p] \in Paths /\ count' = [count EXCEPT ![rel[p]] = count[rel[p]] + 1]
          /\ UNCHANGED <<touches, score>>
      BY <2>2 DEF FrecencyTouch, touching, Plain
    <3>2. p \in Pending /\ Pending' = Pending \ {p}
      BY <3>1 DEF Pending, Plain
    <3>3. IsFiniteSet(Pending') /\ Cardinality(Pending') = Cardinality(Pending) - 1
      BY <1>8, <3>2
    <3>4. count' \in [Paths -> Nat]
      BY <1>2, <3>1 DEF Counters
    <3>5. ASSUME NEW f \in Paths PROVE count'[f] + Cardinality(Pending') <= touches'
      <4>1. count'[f] = count[f] \/ count'[f] = count[f] + 1
        BY <3>1 DEF Counters
      <4>2. count[f] + Cardinality(Pending) <= touches /\ touches \in Nat
        BY BoundsAssumption DEF Counters
      <4> QED BY <1>2, <1>3, <3>1, <3>3, <4>1, <4>2
    <3> QED BY <3>1, <3>3, <3>4, <3>5 DEF Counters
  <2>3. CASE GetAccessScore(p)
    <3>1. /\ pc[p] = "score" /\ pc' = [pc EXCEPT ![p] = "relock"]
          /\ rel[p] \in Paths /\ score' = [score EXCEPT ![p] = count[rel[p]]]
          /\ UNCHANGED <<touches, count>>
      BY <2>3 DEF GetAccessScore, Plain
    <3>2. Pending' = Pending
      BY <3>1 DEF Pending, Plain
    <3>3. count[rel[p]] \in 0 .. MaxTouches
      BY <1>2, <1>3, <3>1, BoundsAssumption DEF Counters
    <3> QED BY <3>1, <3>2, <3>3 DEF Counters
  <2>4. CASE AskWrite(p) \/ WriteScore(p)
    BY <2>4, PendingSame DEF AskWrite, WriteScore, touching
  <2> QED BY <1>9, <2>1, <2>2, <2>3, <2>4 DEF Touch
<1>10. CASE (\E f \in Paths : Edit(f)) \/ UNCHANGED vars
  BY <1>1, <1>10 DEF Edit, touching, vars
<1> QED BY <1>4, <1>5, <1>6, <1>7, <1>9, <1>10 DEF Next, Step

------------------------------------------------------------------------------
(****************************************************************************)
(* The lock, and what it keeps together.                                    *)
(****************************************************************************)

\* Readers keep writers out, writers keep everybody out.
LEMMA LockStep == Plain /\ Lock /\ [Next]_vars => Lock'
<1> SUFFICES ASSUME Plain, Lock, [Next]_vars PROVE Lock'
  OBVIOUS
<1> USE DEF Goto, Plain, Lock, Reading
<1>1. ASSUME UNCHANGED <<readers, pc>> PROVE Lock'
  BY <1>1
<1>2. ASSUME NEW p \in Procs, ScanCall(p) \/ SearchCall(p) \/ TouchCall(p) PROVE Lock'
  <2>1. /\ UNCHANGED readers /\ pc[p] = "idle"
        /\ \/ pc' = [pc EXCEPT ![p] = "walk"]
           \/ pc' = [pc EXCEPT ![p] = "ensure"]
           \/ pc' = [pc EXCEPT ![p] = "resolve"]
    BY <1>2 DEF ScanCall, SearchCall, TouchCall
  <2> QED BY <2>1
<1>3. ASSUME NEW p \in Procs, Scan(p) PROVE Lock'
  <2>1. CASE Walk(p)
    BY <1>1, <2>1 DEF Walk
  <2>2. CASE ScanFails(p) \/ Built(p) \/ AskPublish(p)
    <3>1. /\ UNCHANGED readers /\ pc[p] \in {"walk", "built"}
          /\ \E there \in {"idle", "built", "publish"} : pc' = [pc EXCEPT ![p] = there]
      BY <2>2 DEF ScanFails, Built, AskPublish
    <3> QED BY <3>1
  <2>3. CASE Publish(p)
    <3>1. /\ UNCHANGED readers /\ pc[p] = "publish" /\ pc' = [pc EXCEPT ![p] = "index"]
          /\ readers = {} /\ \A q \in Procs : pc[q] # "index"
      BY <2>3 DEF Publish, MayWrite
    <3> QED BY <3>1
  <2>4. CASE PublishIndex(p)
    BY <2>4 DEF PublishIndex
  <2>5. CASE StoreScanned(p)
    BY <2>5 DEF StoreScanned
  <2> QED BY <1>3, <2>1, <2>2, <2>3, <2>4, <2>5 DEF Scan
<1>4. ASSUME NEW p \in Procs, Search(p) PROVE Lock'
  <2>1. CASE EnsureScanned(p)
    BY <2>1 DEF EnsureScanned
  <2>2. CASE SearchFails(p) \/ Results(p)
    BY <2>2 DEF SearchFails, Results, Return
  <2>3. CASE ReadLock(p)
    BY <2>3 DEF ReadLock, MayRead
  <2>4. CASE Candidates(p) \/ Score(p)
    BY <2>4 DEF Candidates, Score
  <2> QED BY <1>4, <2>1, <2>2, <2>3, <2>4 DEF Search
<1>5. ASSUME NEW p \in Procs, Touch(p) PROVE Lock'
  BY <1>5 DEF Touch, Resolve, FrecencyTouch, GetAccessScore, AskWrite, WriteScore
<1>6. CASE (\E f \in Paths : Edit(f)) \/ UNCHANGED vars
  BY <1>1, <1>6 DEF Edit, vars
<1> QED BY <1>2, <1>3, <1>4, <1>5, <1>6 DEF Next, Step

\* The index is set to the paths the files were replaced by.
LEMMA ReplacedPaths ==
  ASSUME Lists, NEW p \in Procs, Replace(p)
  PROVE  PathsOf(files') = walked[p]
<1>1. walked[p] = [i \in DOMAIN walked[p] |-> walked[p][i]]
  <2>1. walked[p] \in Seq(Paths)
    BY DEF Lists
  <2> QED BY <2>1
<1> QED BY <1>1 DEF Replace, PathsOf

\* Caching a score renames no file.
LEMMA CachedPaths ==
  ASSUME Lists, NEW i, NEW n,
         files' = IF i \in DOMAIN files THEN [files EXCEPT ![i].access = n] ELSE files
  PROVE  PathsOf(files') = PathsOf(files)
<1>1. \A k \in DOMAIN files : files[k] \in File
  BY DEF Lists
<1>2. DOMAIN files' = DOMAIN files
  BY DEF Lists
<1>3. ASSUME NEW k \in DOMAIN files PROVE files'[k].path = files[k].path
  BY <1>1 DEF File, Lists
<1> QED BY <1>2, <1>3 DEF PathsOf

\* A walk that starts or is thrown away is of no concern to the others.
LEMMA OtherWalks ==
  ASSUME Lists, NEW p \in Procs, NEW q \in Procs, q # p,
         StartWalk(p) \/ ScanFails(p) \/ StoreScanned(p) \/ Walk(p)
  PROVE  walked'[q] = walked[q]
<1>1. \E w : walked' = [walked EXCEPT ![p] = w] \/ walked' = walked
  <2>1. CASE StartWalk(p)
    BY <2>1 DEF StartWalk
  <2>2. CASE ScanFails(p)
    BY <2>2 DEF ScanFails
  <2>3. CASE StoreScanned(p)
    BY <2>3 DEF StoreScanned
  <2>4. CASE Walk(p)
    BY <2>4 DEF Walk
  <2> QED BY <2>1, <2>2, <2>3, <2>4
<1> QED BY <1>1 DEF Lists

\* Nobody sees files and index apart.
LEMMA MatchingStep == Lists /\ Plain /\ Lock /\ Matching /\ [Next]_vars => Matching'
<1> SUFFICES ASSUME Lists, Plain, Lock, Matching, [Next]_vars PROVE Matching'
  OBVIOUS
<1> USE DEF Goto, Plain, Matching
<1>1. ASSUME UNCHANGED <<files, index>>, NEW p \in Procs,
             pc' = pc \/ \E there : there # "index" /\ pc[p] # "index" /\ pc' = [pc EXCEPT ![p] = there],
             \A q \in Procs : pc[q] = "index" => walked'[q] = walked[q]
      PROVE  Matching'
  <2>1. PathsOf(files') = PathsOf(files)
    BY <1>1 DEF PathsOf
  <2>2. \A q \in Procs : pc'[q] = "index" <=> pc[q] = "index"
    BY <1>1
  <2> QED BY <1>1, <2>1, <2>2
<1>2. ASSUME NEW p \in Procs, ScanCall(p) \/ SearchCall(p) \/ TouchCall(p) PROVE Matching'
  <2>1. CASE ScanCall(p)
    <3>1. StartWalk(p)
      BY <2>1 DEF ScanCall
    <3> QED BY <1>1, <2>1, <3>1, OtherWalks DEF ScanCall, published
  <2>2. CASE SearchCall(p) \/ TouchCall(p)
    BY <1>1, <2>2 DEF SearchCall, TouchCall, published, walking
  <2> QED BY <1>2, <2>1, <2>2
<1>3. ASSUME NEW p \in Procs, Scan(p) PROVE Matching'
  <2>1. CASE Walk(p)
    <3>1. \A q \in Procs : pc[q] = "index" => walked'[q] = walked[q]
      BY <2>1, OtherWalks DEF Walk
    <3>2. UNCHANGED <<files, index, pc>>
      BY <2>1 DEF Walk, published
    <3> QED BY <1>1, <3>1, <3>2
  <2>2. CASE ScanFails(p) \/ StoreScanned(p)
    <3>1. \A q \in Procs : q # p => walked'[q] = walked[q]
      BY <2>2, OtherWalks
    <3>2. /\ UNCHANGED <<files, index>>
          /\ \E there : there # "index" /\ pc[p] # "index" /\ pc' = [pc EXCEPT ![p] = there]
      BY <2>2 DEF ScanFails, StoreScanned, published
    <3> QED BY <1>1, <3>1, <3>2
  <2>3. CASE Built(p) \/ AskPublish(p)
    BY <1>1, <2>3 DEF Built, AskPublish, published, walking
  <2>4. CASE Publish(p)
    <3>1. PathsOf(files') = walked[p] /\ UNCHANGED <<index, walked>>
      BY <2>4, ReplacedPaths DEF Publish, walking
    <3>2. \A q \in Procs : pc'[q] = "index" <=> q = p
      BY <2>4 DEF Publish, MayWrite
    <3> QED BY <3>1, <3>2
  <2>5. CASE PublishIndex(p)
    <3>1. PathsOf(files') = PathsOf(files) /\ PathsOf(files) = walked[p] /\ index' = walked[p]
      BY <2>5 DEF PublishIndex, PathsOf
    <3>2. \A q \in Procs : pc'[q] # "index"
      BY <2>5 DEF PublishIndex, Lock
    <3> QED BY <3>1, <3>2
  <2> QED BY <1>3, <2>1, <2>2, <2>3, <2>4, <2>5 DEF Scan
<1>4. ASSUME NEW p \in Procs, Search(p) PROVE Matching'
  <2>1. CASE EnsureScanned(p)
    <3>1. /\ UNCHANGED <<files, index>> /\ (UNCHANGED walked \/ StartWalk(p))
          /\ \E there : there # "index" /\ pc[p] # "index" /\ pc' = [pc EXCEPT ![p] = there]
      BY <2>1 DEF EnsureScanned, published, walking
    <3> QED BY <1>1, <3>1, OtherWalks
  <2>2. CASE SearchFails(p) \/ ReadLock(p) \/ Candidates(p) \/ Score(p) \/ Results(p)
    BY <1>1, <2>2 DEF SearchFails, ReadLock, Candidates, Score, Results, published, walking
  <2> QED BY <1>4, <2>1, <2>2 DEF Search
<1>5. ASSUME NEW p \in Procs, Touch(p) PROVE Matching'
  <2>1. CASE Resolve(p) \/ FrecencyTouch(p) \/ GetAccessScore(p) \/ AskWrite(p)
    BY <1>1, <2>1 DEF Resolve, FrecencyTouch, GetAccessScore, AskWrite, published, walking
  <2>2. CASE WriteScore(p)
    <3>1. PathsOf(files') = PathsOf(files) /\ UNCHANGED <<index, walked>>
      BY <2>2, CachedPaths DEF WriteScore, walking
    <3>2. \A q \in Procs : pc'[q] # "index" /\ pc[q] # "index"
      BY <2>2 DEF WriteScore, MayWrite
    <3> QED BY <3>1, <3>2
  <2> QED BY <1>5, <2>1, <2>2 DEF Touch
<1>6. CASE (\E f \in Paths : Edit(f)) \/ UNCHANGED vars
  <2>1. UNCHANGED <<files, index, walked, pc>>
    BY <1>6 DEF Edit, published, walking, vars
  <2> QED BY <2>1 DEF PathsOf
<1> QED BY <1>2, <1>3, <1>4, <1>5, <1>6 DEF Next, Step

\* What a search has found stays right until it returns.
LEMMA FoundStep == Lists /\ Plain /\ Lock /\ Found /\ [Next]_vars => Found'
<1> SUFFICES ASSUME Lists, Plain, Lock, Found, [Next]_vars PROVE Found'
  OBVIOUS
<1> USE DEF Goto, Plain, Found, Hits
<1>1. ASSUME UNCHANGED <<index, query, found>>, DOMAIN files' = DOMAIN files, NEW p \in Procs,
             pc' = pc \/ \E there : /\ there \notin {"candidates", "results"}
                                    /\ pc' = [pc EXCEPT ![p] = there]
      PROVE  Found'
  BY <1>1
<1>2. ASSUME NEW p \in Procs, ScanCall(p) \/ SearchCall(p) \/ TouchCall(p) PROVE Found'
  <2>1. CASE ScanCall(p) \/ TouchCall(p)
    BY <1>1, <2>1 DEF ScanCall, TouchCall, published, searching
  <2>2. CASE SearchCall(p)
    <3>1. /\ UNCHANGED <<index, files, found>>
          /\ \A q \in Procs : q # p => query'[q] = query[q] /\ pc'[q] = pc[q]
          /\ pc'[p] = "ensure"
      BY <2>2 DEF SearchCall, published
    <3> QED BY <3>1
  <2> QED BY <1>2, <2>1, <2>2
<1>3. ASSUME NEW p \in Procs, Scan(p) PROVE Found'
  <2>1. CASE Walk(p) \/ ScanFails(p) \/ Built(p) \/ AskPublish(p) \/ StoreScanned(p)
    BY <1>1, <2>1 DEF Walk, ScanFails, Built, AskPublish, StoreScanned, published, searching
  <2>2. CASE Publish(p) \/ PublishIndex(p)
    <3>1. \A q \in Procs : pc'[q] \notin {"candidates", "results"}
      BY <2>2 DEF Publish, PublishIndex, MayWrite, Lock, Reading
    <3> QED BY <3>1
  <2> QED BY <1>3, <2>1, <2>2 DEF Scan
<1>4. ASSUME NEW p \in Procs, Search(p) PROVE Found'
  <2>1. CASE EnsureScanned(p) \/ ReadLock(p)
    BY <1>1, <2>1 DEF EnsureScanned, ReadLock, published, searching
  <2>2. CASE SearchFails(p) \/ Results(p)
    <3>1. /\ UNCHANGED <<index, files>>
          /\ \A q \in Procs : q # p => query'[q] = query[q] /\ found'[q] = found[q] /\ pc'[q] = pc[q]
          /\ pc'[p] = "idle"
      BY <2>2 DEF SearchFails, Results, Return, published
    <3> QED BY <3>1
  <2>3. CASE Candidates(p)
    BY <2>3 DEF Candidates, published
  <2>4. CASE Score(p)
    BY <2>4 DEF Score, published
  <2> QED BY <1>4, <2>1, <2>2, <2>3, <2>4 DEF Search
<1>5. ASSUME NEW p \in Procs, Touch(p) PROVE Found'
  <2>1. CASE Resolve(p) \/ FrecencyTouch(p) \/ GetAccessScore(p) \/ AskWrite(p)
    BY <1>1, <2>1 DEF Resolve, FrecencyTouch, GetAccessScore, AskWrite, published, searching
  <2>2. CASE WriteScore(p)
    <3>1. DOMAIN files' = DOMAIN files
      BY <2>2 DEF WriteScore
    <3> QED BY <1>1, <2>2, <3>1 DEF WriteScore, searching
  <2> QED BY <1>5, <2>1, <2>2 DEF Touch
<1>6. CASE (\E f \in Paths : Edit(f)) \/ UNCHANGED vars
  BY <1>6 DEF Edit, published, searching, vars
<1> QED BY <1>2, <1>3, <1>4, <1>5, <1>6 DEF Next, Step

\* The flag a search has seen is never cleared.
LEMMA FreshStep == Plain /\ Fresh /\ [Next]_vars => Fresh'
<1> SUFFICES ASSUME Plain, Fresh, [Next]_vars PROVE Fresh'
  OBVIOUS
<1> USE DEF Goto, Plain, Fresh
<1>1. ASSUME UNCHANGED scanned, NEW p \in Procs,
             pc' = pc \/ \E there : /\ there # "prepare"
                                    /\ there \in {"locked", "candidates", "results"} => scanned
                                    /\ pc' = [pc EXCEPT ![p] = there]
      PROVE  Fresh'
  BY <1>1
<1>2. ASSUME NEW p \in Procs, ScanCall(p) \/ SearchCall(p) \/ TouchCall(p)
      PROVE  Fresh'
  BY <1>1, <1>2 DEF ScanCall, SearchCall, TouchCall, published
<1>3. ASSUME NEW p \in Procs, Scan(p) PROVE Fresh'
  <2>1. CASE Walk(p) \/ ScanFails(p) \/ Built(p) \/ AskPublish(p)
    BY <1>1, <2>1 DEF Walk, ScanFails, Built, AskPublish, published
  <2>2. CASE Publish(p) \/ PublishIndex(p)
    BY <1>1, <2>2 DEF Publish, PublishIndex
  <2>3. CASE StoreScanned(p)
    BY <2>3 DEF StoreScanned
  <2> QED BY <1>3, <2>1, <2>2, <2>3 DEF Scan
<1>4. ASSUME NEW p \in Procs, Search(p) PROVE Fresh'
  <2>1. CASE EnsureScanned(p)
    BY <2>1 DEF EnsureScanned, published
  <2>2. CASE SearchFails(p) \/ Results(p)
    BY <1>1, <2>2 DEF SearchFails, Results, published
  <2>3. CASE ReadLock(p) \/ Candidates(p) \/ Score(p)
    BY <1>1, <2>3 DEF ReadLock, Candidates, Score, published
  <2> QED BY <1>4, <2>1, <2>2, <2>3 DEF Search
<1>5. ASSUME NEW p \in Procs, Touch(p) PROVE Fresh'
  BY <1>1, <1>5 DEF Touch, Resolve, FrecencyTouch, GetAccessScore, AskWrite, WriteScore, published
<1>6. CASE (\E f \in Paths : Edit(f)) \/ UNCHANGED vars
  BY <1>6 DEF Edit, published, vars
<1> QED BY <1>2, <1>3, <1>4, <1>5, <1>6 DEF Next, Step

------------------------------------------------------------------------------
(****************************************************************************)
(* The invariant and what follows from it.                                  *)
(****************************************************************************)

\* A new picker satisfies the invariant.
LEMMA InitInv == Init => Inv
<1> SUFFICES ASSUME Init PROVE Inv
  OBVIOUS
<1>1. Lists /\ Short
  <2>1. Lists
    BY DEF Init, Lists
  <2>2. /\ index = <<>> /\ \A p \in Procs : walked[p] = <<>> /\ cursor[p] = 1
    BY DEF Init
  <2> QED BY <2>1, <2>2, BoundsAssumption DEF Short
<1>2. Plain
  <2>1. /\ disk \in SUBSET Paths /\ edits = 0 /\ scanned = FALSE /\ scans = 0
        /\ pc = [p \in Procs |-> "idle"] /\ op = [p \in Procs |-> "none"]
        /\ cursor = [p \in Procs |-> 1]
        /\ query = [p \in Procs |-> {}] /\ found = [p \in Procs |-> {}]
        /\ at = [p \in Procs |-> 1] /\ rel = [p \in Procs |-> NoPath]
    BY DEF Init
  <2>2. 0 \in 0 .. MaxEdits /\ 0 \in 0 .. MaxScans /\ 1 \in 1 .. N /\ 1 \in 1 .. N + 1
    BY BoundsAssumption
  <2>3. pc \in [Procs -> PCs] /\ op \in [Procs -> {"none", "scan", "search", "touch"}]
    BY <2>1 DEF PCs
  <2>4. \A p \in Procs : pc[p] \in {"touch", "score", "relock", "write"} => rel[p] \in Paths
    BY <2>1
  <2>5. cursor \in [Procs -> 1 .. N + 1] /\ at \in [Procs -> 1 .. N]
    BY <2>1, <2>2
  <2>6. /\ query \in [Procs -> SUBSET Paths] /\ found \in [Procs -> SUBSET Paths]
        /\ rel \in [Procs -> Paths \cup {NoPath}]
    BY <2>1
  <2> QED BY <2>1, <2>2, <2>3, <2>4, <2>5, <2>6, Zenon DEF Plain
<1>3. Counters
  <2>1. Pending = {}
    BY DEF Init, Pending
  <2>2. IsFiniteSet(Pending) /\ Cardinality(Pending) = 0
    BY <2>1, FS_EmptySet
  <2> QED BY <2>2, BoundsAssumption DEF Init, Counters
<1>4. \A p \in Procs : pc[p] = "idle"
  BY DEF Init
<1>5. Lock
  BY <1>4 DEF Init, Lock, Reading
<1>6. Matching
  <2>1. files = <<>> /\ index = <<>>
    BY DEF Init
  <2>2. PathsOf(files) = index
    BY <2>1 DEF PathsOf
  <2> QED BY <1>4, <2>2 DEF Matching
<1>7. Found /\ Fresh
  BY <1>4 DEF Found, Fresh
<1> QED BY <1>1, <1>2, <1>3, <1>5, <1>6, <1>7 DEF Inv

\* It holds in every state there is.
LEMMA InvHolds == Spec => []Inv
<1>1. Inv /\ [Next]_vars => Inv'
  BY ListsStep, PlainStep, CountersStep, LockStep, MatchingStep, FoundStep, FreshStep DEF Inv
<1> QED BY InitInv, <1>1, PTL DEF Spec

\* Every variable keeps its type; no count exceeds the calls that were made and
\* no walk or result leaves the paths there are.
THEOREM TypeOKHolds == Spec => []TypeOK
<1>1. Inv => TypeOK
  <2> SUFFICES ASSUME Inv PROVE TypeOK
    OBVIOUS
  <2>1. count \in [Paths -> 0 .. MaxTouches]
    <3>1. ASSUME NEW f \in Paths PROVE count[f] \in 0 .. MaxTouches
      <4>1. count[f] + Cardinality(Pending) <= touches /\ touches \in 0 .. MaxTouches
        BY DEF Inv, Counters
      <4>2. count[f] \in Nat /\ Cardinality(Pending) \in Nat
        BY FS_CardinalityType DEF Inv, Counters
      <4> QED BY <4>1, <4>2, BoundsAssumption
    <3> QED BY <3>1 DEF Inv, Counters
  <2>2. readers \subseteq Procs
    BY DEF Inv, Lock, Reading
  <2>3. files \in Seq(File) /\ index \in Seq(Paths) /\ walked \in [Procs -> Seq(Paths)]
    BY DEF Inv, Lists
  <2>4. touches \in 0 .. MaxTouches /\ score \in [Procs -> 0 .. MaxTouches]
    BY DEF Inv, Counters
  <2> QED BY <2>1, <2>2, <2>3, <2>4, Zenon DEF Inv, Plain, TypeOK
<1> QED BY InvHolds, <1>1, PTL

\* Whoever holds fileMu for reading finds files and index of one scan.
THEOREM OneScanHolds == Spec => []OneScan
<1>1. Inv => OneScan
  BY DEF Inv, Lock, Matching, OneScan
<1> QED BY InvHolds, <1>1, PTL

\* The results of a search are the published files that match its query.
THEOREM ResultsMatchHolds == Spec => []ResultsMatch
<1>1. Inv => ResultsMatch
  <2> SUFFICES ASSUME Inv, NEW p \in Procs, pc[p] = "results"
               PROVE  {files[i].path : i \in found[p]}
                        = query[p] \cap {files[i].path : i \in DOMAIN files}
    BY DEF ResultsMatch
  <2>1. found[p] = Hits(p) \cap DOMAIN files
    BY DEF Inv, Found
  <2>2. PathsOf(files) = index
    BY DEF Inv, Lock, Reading, Matching
  <2>3. DOMAIN index = DOMAIN files /\ \A i \in DOMAIN files : index[i] = files[i].path
    BY <2>2 DEF PathsOf
  <2> QED BY <2>1, <2>3 DEF Hits
<1> QED BY InvHolds, <1>1, PTL

\* Who reads has a scan behind it.
THEOREM NeverUnscannedHolds == Spec => []NeverUnscanned
<1>1. Inv => NeverUnscanned
  BY DEF Inv, Lock, Reading, Fresh, NeverUnscanned
<1> QED BY InvHolds, <1>1, PTL

\* Neither a scan nor a touch changes what a search is reading.
THEOREM SteadyHolds == Spec => Steady
<1>1. Inv /\ [Next]_vars => [readers # {} => UNCHANGED <<files, index>>]_vars
  <2> SUFFICES ASSUME Inv, Next, readers # {} PROVE UNCHANGED <<files, index>>
    OBVIOUS
  <2>1. CASE \E f \in Paths : Edit(f)
    BY <2>1 DEF Edit, published
  <2>2. CASE \E p \in Procs : ScanCall(p) \/ SearchCall(p) \/ TouchCall(p)
    BY <2>2 DEF ScanCall, SearchCall, TouchCall, StartWalk, published
  <2>3. ASSUME NEW p \in Procs, Scan(p) PROVE UNCHANGED <<files, index>>
    <3>1. pc[p] # "index"
      BY DEF Inv, Lock
    <3>2. ~PublishIndex(p) /\ ~Publish(p)
      BY <3>1 DEF PublishIndex, Publish, Goto, MayWrite
    <3> QED BY <2>3, <3>2 DEF Scan, Walk, ScanFails, Built, AskPublish, StoreScanned, published
  <2>4. ASSUME NEW p \in Procs, Search(p) PROVE UNCHANGED <<files, index>>
    <3>1. CASE EnsureScanned(p) \/ SearchFails(p) \/ ReadLock(p)
      BY <3>1 DEF EnsureScanned, SearchFails, ReadLock, StartWalk, published
    <3>2. CASE Candidates(p) \/ Score(p) \/ Results(p)
      BY <3>2 DEF Candidates, Score, Results, published
    <3> QED BY <2>4, <3>1, <3>2 DEF Search
  <2>5. ASSUME NEW p \in Procs, Touch(p) PROVE UNCHANGED <<files, index>>
    <3>1. ~WriteScore(p)
      BY DEF WriteScore, MayWrite
    <3> QED BY <2>5, <3>1 DEF Touch, Resolve, FrecencyTouch, GetAccessScore, AskWrite, published
  <2> QED BY <2>1, <2>2, <2>3, <2>4, <2>5 DEF Next, Step
<1> QED BY InvHolds, <1>1, PTL DEF Steady, Spec
==============================================================================
