-------------------------------- MODULE Picker -------------------------------
(****************************************************************************)
(* picker.Picker shared by goroutines that scan, search and touch it at the *)
(* same time (picker/picker.go).  A scan walks the tree without a lock and  *)
(* publishes files and bigram index under fileMu; a search holds fileMu for *)
(* reading while it turns candidate numbers into files; TouchByIndex looks  *)
(* its file up, lets go of fileMu, and comes back for writing.              *)
(*                                                                          *)
(* A path is a number, smaller means earlier in the walk.  A query is the   *)
(* set of paths it matches.  fileMu is a Go RWMutex: a goroutine that has   *)
(* asked for writing keeps new readers out and waits for the old ones.      *)
(****************************************************************************)
EXTENDS Integers, Sequences

CONSTANTS Procs,       \* the goroutines
          N,           \* the number of paths
          MaxEdits,    \* bound: how often paths come and go
          MaxScans,    \* bound: how many walks are started
          MaxTouches,  \* bound: how often TouchByIndex is called
          NoPath       \* no path resolved yet

ASSUME BoundsAssumption == N \in Nat \ {0} /\ {MaxEdits, MaxScans, MaxTouches} \subseteq Nat

VARIABLES
  disk,     \* the paths that exist
  edits,    \* how often disk changed
  files,    \* Picker.files: what was scanned, with the cached access score
  index,    \* Picker.bg: the paths the bigram index was built from
  scanned,  \* Picker.scanned
  scans,    \* how many walks were started
  touches,  \* how often TouchByIndex was called
  count,    \* count[f]: the touches of f the frecency tracker has stored
  readers,  \* who holds fileMu for reading
  pc,       \* pc[p]: where goroutine p is
  op,       \* op[p]: the method p is in
  cursor,   \* cursor[p]: the next path p's walk looks at
  walked,   \* walked[p]: what p's walk has found
  query,    \* query[p]: the paths p's search matches
  found,    \* found[p]: candidates, then results, of p's search
  at,       \* at[p]: the number p touches
  rel,      \* rel[p]: the path p resolved that number to
  score     \* score[p]: the score p is about to cache

vars == <<disk, edits, files, index, scanned, scans, touches, count, readers, pc, op,
          cursor, walked, query, found, at, rel, score>>
world == <<disk, edits>>
published == <<files, index, scanned>>
walking == <<cursor, walked>>
searching == <<query, found>>
touching == <<at, rel, score>>

Paths == 1 .. N
File == [path : Paths, access : 0 .. MaxTouches]
PCs == {"idle", "walk", "built", "publish", "index", "store", "ensure", "prepare", "locked", "candidates",
        "results", "resolve", "touch", "score", "relock", "write"}

PathsOf(fs) == [i \in DOMAIN fs |-> fs[i].path]

TypeOK ==
  /\ disk \subseteq Paths /\ edits \in 0 .. MaxEdits
  /\ files \in Seq(File) /\ index \in Seq(Paths) /\ scanned \in BOOLEAN
  /\ scans \in 0 .. MaxScans /\ touches \in 0 .. MaxTouches
  /\ count \in [Paths -> 0 .. MaxTouches]
  /\ readers \subseteq Procs
  /\ pc \in [Procs -> PCs] /\ op \in [Procs -> {"none", "scan", "search", "touch"}]
  /\ cursor \in [Procs -> 1 .. N + 1] /\ walked \in [Procs -> Seq(Paths)]
  /\ query \in [Procs -> SUBSET Paths] /\ found \in [Procs -> SUBSET Paths]
  /\ at \in [Procs -> 1 .. N] /\ rel \in [Procs -> Paths \cup {NoPath}]
  /\ score \in [Procs -> 0 .. MaxTouches]

Init ==
  /\ disk \in SUBSET Paths /\ edits = 0
  /\ files = <<>> /\ index = <<>> /\ scanned = FALSE
  /\ scans = 0 /\ touches = 0
  /\ count = [f \in Paths |-> 0]
  /\ readers = {}
  /\ pc = [p \in Procs |-> "idle"] /\ op = [p \in Procs |-> "none"]
  /\ cursor = [p \in Procs |-> 1] /\ walked = [p \in Procs |-> <<>>]
  /\ query = [p \in Procs |-> {}] /\ found = [p \in Procs |-> {}]
  /\ at = [p \in Procs |-> 1] /\ rel = [p \in Procs |-> NoPath]
  /\ score = [p \in Procs |-> 0]

Goto(p, here, there) == pc[p] = here /\ pc' = [pc EXCEPT ![p] = there]

\* A path is created or removed.
Edit(f) ==
  /\ edits < MaxEdits
  /\ edits' = edits + 1
  /\ disk' = IF f \in disk THEN disk \ {f} ELSE disk \cup {f}
  /\ UNCHANGED <<published, scans, touches, count, readers, pc, op, walking, searching, touching>>

------------------------------------------------------------------------------
\* fileMu.  Who is at "publish" or "write" has asked for writing, who is at
\* "index" is writing.

MayRead == \A q \in Procs : pc[q] \notin {"publish", "write", "index"}
MayWrite == readers = {} /\ \A q \in Procs : pc[q] # "index"

------------------------------------------------------------------------------
\* ScanContext: the walk, the index, and publishing the two together.

StartWalk(p) ==
  /\ scans < MaxScans
  /\ scans' = scans + 1
  /\ cursor' = [cursor EXCEPT ![p] = 1]
  /\ walked' = [walked EXCEPT ![p] = <<>>]

ScanCall(p) ==
  /\ Goto(p, "idle", "walk")
  /\ StartWalk(p)
  /\ op' = [op EXCEPT ![p] = "scan"]
  /\ UNCHANGED <<world, published, touches, count, readers, searching, touching>>

\* Slip: the walk looks at one entry past the last.
WalkPastEnd(p) ==
  /\ pc[p] = "walk"
  /\ cursor[p] <= N + 1
  /\ cursor' = [cursor EXCEPT ![p] = @ + 1]
  /\ walked' = IF cursor[p] \in disk THEN [walked EXCEPT ![p] = Append(@, cursor[p])] ELSE walked
  /\ UNCHANGED <<world, published, scans, touches, count, readers, pc, op, searching, touching>>

Walk(p) ==
  /\ pc[p] = "walk"
  /\ cursor[p] <= N
  /\ cursor' = [cursor EXCEPT ![p] = @ + 1]
  /\ walked' = IF cursor[p] \in disk THEN [walked EXCEPT ![p] = Append(@, cursor[p])] ELSE walked
  /\ UNCHANGED <<world, published, scans, touches, count, readers, pc, op, searching, touching>>

\* Context done or directory unreadable: nothing is published.
ScanFails(p) ==
  /\ Goto(p, "walk", "idle")
  /\ cursor' = [cursor EXCEPT ![p] = 1] /\ walked' = [walked EXCEPT ![p] = <<>>]
  /\ UNCHANGED <<world, published, scans, touches, count, readers, op, searching, touching>>

Built(p) ==
  /\ Goto(p, "walk", "built")
  /\ cursor[p] = N + 1
  /\ UNCHANGED <<world, published, scans, touches, count, readers, op, walking, searching, touching>>

AskPublish(p) ==
  /\ Goto(p, "built", "publish")
  /\ UNCHANGED <<world, published, scans, touches, count, readers, op, walking, searching, touching>>

\* The cached access scores of the new files start at zero.
Replace(p) == files' = [i \in DOMAIN walked[p] |-> [path |-> walked[p][i], access |-> 0]]

\* Slip: the new files are published without waiting for the readers.
PublishUnlocked(p) ==
  /\ Goto(p, "publish", "index")
  /\ Replace(p)
  /\ UNCHANGED <<world, index, scanned, scans, touches, count, readers, op, walking, searching, touching>>

\* fileMu is taken, arena and files are replaced, and then the index.
Publish(p) ==
  /\ Goto(p, "publish", "index")
  /\ MayWrite
  /\ Replace(p)
  /\ UNCHANGED <<world, index, scanned, scans, touches, count, readers, op, walking, searching, touching>>

\* Slip: the index built by the first scan stays.
PublishKeepsIndex(p) ==
  /\ Goto(p, "index", "store")
  /\ index' = IF index = <<>> THEN walked[p] ELSE index
  /\ UNCHANGED <<world, files, scanned, scans, touches, count, readers, op, walking, searching, touching>>

PublishIndex(p) ==
  /\ Goto(p, "index", "store")
  /\ index' = walked[p]
  /\ UNCHANGED <<world, files, scanned, scans, touches, count, readers, op, walking, searching, touching>>

StoreScanned(p) ==
  /\ Goto(p, "store", IF op[p] = "scan" THEN "idle" ELSE "prepare")
  /\ scanned' = TRUE
  /\ cursor' = [cursor EXCEPT ![p] = 1] /\ walked' = [walked EXCEPT ![p] = <<>>]
  /\ UNCHANGED <<world, files, index, scans, touches, count, readers, op, searching, touching>>

------------------------------------------------------------------------------
\* SearchContext.

SearchCall(p) ==
  /\ Goto(p, "idle", "ensure")
  /\ op' = [op EXCEPT ![p] = "search"]
  /\ \E q \in SUBSET Paths : query' = [query EXCEPT ![p] = q]
  /\ UNCHANGED <<world, published, scans, touches, count, readers, walking, found, touching>>

\* Slip: a search does not scan, it answers from whatever is there.
EnsureNothing(p) ==
  /\ Goto(p, "ensure", "prepare")
  /\ UNCHANGED <<world, published, scans, touches, count, readers, op, walking, searching, touching>>

\* ensureScanned: searches that come before the first scan each scan.
EnsureScanned(p) ==
  /\ \/ scanned /\ Goto(p, "ensure", "prepare") /\ UNCHANGED <<scans, walking>>
     \/ ~scanned /\ Goto(p, "ensure", "walk") /\ StartWalk(p)
  /\ UNCHANGED <<world, published, touches, count, readers, op, searching, touching>>

\* The call is over: its local variables are gone.
Return(p) ==
  /\ readers' = readers \ {p}
  /\ query' = [query EXCEPT ![p] = {}]
  /\ found' = [found EXCEPT ![p] = {}]

\* A done context or a git error, before fileMu is taken or while it is held.
SearchFails(p) ==
  /\ \/ Goto(p, "ensure", "idle")
     \/ Goto(p, "prepare", "idle")
     \/ Goto(p, "candidates", "idle")
  /\ Return(p)
  /\ UNCHANGED <<world, published, scans, touches, count, op, walking, touching>>

ReadLock(p) ==
  /\ Goto(p, "prepare", "locked")
  /\ MayRead
  /\ readers' = readers \cup {p}
  /\ UNCHANGED <<world, published, scans, touches, count, op, walking, searching, touching>>

\* The numbers the bigram index has for the query.
Candidates(p) ==
  /\ Goto(p, "locked", "candidates")
  /\ found' = [found EXCEPT ![p] = {i \in DOMAIN index : index[i] \in query[p]}]
  /\ UNCHANGED <<world, published, scans, touches, count, readers, op, walking, query, touching>>

\* Scoring drops only numbers beyond the end of files.
Score(p) ==
  /\ Goto(p, "candidates", "results")
  /\ found' = [found EXCEPT ![p] = @ \cap DOMAIN files]
  /\ UNCHANGED <<world, published, scans, touches, count, readers, op, walking, query, touching>>

\* Slip: sorting asks Result.Path, which takes fileMu for reading once more.
ResultsRelock(p) ==
  /\ Goto(p, "results", "idle")
  /\ MayRead
  /\ Return(p)
  /\ UNCHANGED <<world, published, scans, touches, count, op, walking, touching>>

Results(p) ==
  /\ Goto(p, "results", "idle")
  /\ Return(p)
  /\ UNCHANGED <<world, published, scans, touches, count, op, walking, touching>>

------------------------------------------------------------------------------
\* TouchByIndex, with a number the caller has from some earlier result.

TouchCall(p) ==
  /\ touches < MaxTouches
  /\ touches' = touches + 1
  /\ Goto(p, "idle", "resolve")
  /\ op' = [op EXCEPT ![p] = "touch"]
  /\ \E i \in Paths : at' = [at EXCEPT ![p] = i]
  /\ UNCHANGED <<world, published, scans, count, readers, walking, searching, rel, score>>

Resolve(p) ==
  /\ MayRead
  /\ \/ /\ at[p] \notin DOMAIN files
        /\ Goto(p, "resolve", "idle")
        /\ UNCHANGED rel
     \/ /\ at[p] \in DOMAIN files
        /\ Goto(p, "resolve", "touch")
        /\ rel' = [rel EXCEPT ![p] = files[at[p]].path]
  /\ UNCHANGED <<world, published, scans, touches, count, readers, op, walking, searching, at, score>>

FrecencyTouch(p) ==
  /\ Goto(p, "touch", "score")
  /\ count' = [count EXCEPT ![rel[p]] = @ + 1]
  /\ UNCHANGED <<world, published, scans, touches, readers, op, walking, searching, touching>>

GetAccessScore(p) ==
  /\ Goto(p, "score", "relock")
  /\ score' = [score EXCEPT ![p] = count[rel[p]]]
  /\ UNCHANGED <<world, published, scans, touches, count, readers, op, walking, searching, at, rel>>

AskWrite(p) ==
  /\ Goto(p, "relock", "write")
  /\ UNCHANGED <<world, published, scans, touches, count, readers, op, walking, searching, touching>>

\* Slip: fileMu is taken for reading only, as it was when the number was looked up.
WriteScoreShared(p) ==
  /\ Goto(p, "write", "idle")
  /\ \A q \in Procs : pc[q] # "index"
  /\ files' = IF at[p] \in DOMAIN files
              THEN [files EXCEPT ![at[p]].access = score[p]] ELSE files
  /\ UNCHANGED <<world, index, scanned, scans, touches, count, readers, op, walking, searching, touching>>

\* A number that a scan has put out of range by now is passed over.
WriteScore(p) ==
  /\ Goto(p, "write", "idle")
  /\ MayWrite
  /\ files' = IF at[p] \in DOMAIN files
              THEN [files EXCEPT ![at[p]].access = score[p]] ELSE files
  /\ UNCHANGED <<world, index, scanned, scans, touches, count, readers, op, walking, searching, touching>>

------------------------------------------------------------------------------
Scan(p) == Walk(p) \/ ScanFails(p) \/ Built(p) \/ AskPublish(p) \/ Publish(p) \/ PublishIndex(p)
           \/ StoreScanned(p)
Search(p) == \/ EnsureScanned(p) \/ SearchFails(p) \/ ReadLock(p)
             \/ Candidates(p) \/ Score(p) \/ Results(p)
Touch(p) == \/ Resolve(p) \/ FrecencyTouch(p) \/ GetAccessScore(p)
            \/ AskWrite(p) \/ WriteScore(p)
Step(p) == Scan(p) \/ Search(p) \/ Touch(p)

Next == \/ \E f \in Paths : Edit(f)
        \/ \E p \in Procs : ScanCall(p) \/ SearchCall(p) \/ TouchCall(p) \/ Step(p)

Spec == Init /\ [][Next]_vars

\* Goroutines in a call keep running, and an RWMutex lets the readers in that
\* waited for a writer before the next writer.
FairSpec == Spec /\ \A p \in Procs : WF_vars(Step(p)) /\ SF_vars(ReadLock(p)) /\ SF_vars(Resolve(p))

------------------------------------------------------------------------------
\* Properties.

\* Whoever holds fileMu for reading finds files and bigram index of one scan:
\* candidate numbers mean the same file in both.
OneScan == readers # {} => PathsOf(files) = index

\* The results a search is about to return are the files of one published scan
\* that match its query: none is missing, none is another file under the
\* number of a match, although scans and touches run all the time.
ResultsMatch ==
  \A p \in Procs : pc[p] = "results" =>
    {files[i].path : i \in found[p]} = query[p] \cap {files[i].path : i \in DOMAIN files}

\* No search answers from a picker that was never scanned.
NeverUnscanned == \A p \in readers : scanned \/ \E q \in Procs : pc[q] = "store"

\* What is published stays as it is for as long as anybody reads it: between a
\* search's lock and its return no scan replaces the files or, later, their
\* index, and no touch writes a score that the search may be ranking by.
Steady == [][readers # {} => UNCHANGED <<files, index>>]_vars

\* Every call returns; in particular no goroutine that reads waits for a writer
\* that waits for it.
Termination == \A p \in Procs : pc[p] # "idle" ~> pc[p] = "idle"

\* A cached access score is a score of the file it is cached for: a file nobody
\* touched has none.  (TouchByIndex says that it marks the i-th file.)
ScoreOfOwnFile == \A i \in DOMAIN files : files[i].access <= count[files[i].path]
==============================================================================
