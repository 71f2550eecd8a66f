# Verification of fg

fg is a file finder and grepper: a library (`fg.Index`, `fg.SearchWith`,
`picker`, `grep`) and a command line. This directory holds TLA+ models of its
core, the TLC runs that check them, and theorems about the index, the shared
picker, the search pipeline and its candidate index, the concurrent grep, the
trackers, the store of paths, the directory score, one file's lines, globs, ignore
rules and the reading of git's output, with proofs that TLAPS checks.
Every definition that models code is tied to its lines in `PROJECT.json` ("map").

## 1. Inventory

| Component | State | Operations | Talks to | Hard behaviour | What makes it correct |
|---|---|---|---|---|---|
| `fg.Index` (fg.go) | `picker`, `closed`, under `mu`; mutex `refresh` | Open, SearchWith, SearchContext, Refresh, Close | one Picker per refresh | refresh, search and close overlap; contexts end; scans fail | fresh answers; nothing after Close; every picker released once |
| picker: sharing (picker.go) | `files`, `arena`, `bg` under `fileMu`; `scanned` | Scan, Search, TouchByIndex, handles | the file system, frecency | publication while others read; a touch lets go of the lock in its middle; RWMutex hand-over | numbers are read against the scan they came from |
| picker: search pipeline | none of its own | candidates, constraints, scores, git's deleted files, sort, limit | bigram, git, querytracker | three index states, negation, unknown values, ties | exactly the matching files, in one order |
| bigram | posting lists | Build, CandidateOutcome | picker | ascending lists, binary search | no file is lost |
| bigram overlay | posting lists | Add, Candidates, Reset | (never filled by the picker) | numbers added out of order | as bigram |
| grep, many files | semaphore, wait group, two channels | SearchMany | grep, one file | cancellation, early return, partial failure | complete answer or an error; bounded concurrency; no goroutine stays |
| grep, one file | reader | SearchFile | the file system, PagePool | long lines, byte limit, empty files | line numbers and match ranges |
| frecency | a kv store under `mu` | Touch, GetAccessScore, GetModificationScore, Close | kv | read-modify-write, overflow, decay | nothing lost or counted twice |
| querytracker | a kv store under `mu` | Record, ComboCount, TopCombos, ForEach, Close | kv | two writes per event, one error dropped | last query and counts agree |
| kv: MemStore, BoltStore | a map / a file | Put, Get, ForEach, Close | bbolt | failing writes, crash, use after Close | both stores alike |
| core | arena, items, pool | Intern, Get, flags, maximum | picker, grep | interning under a lock, compare-and-swap maximum | a path stays itself |
| queryparser | none | Parse | picker | negation, sizes, durations | a query means what it says |
| ignore rules, globs, git loader (picker.go) | none | match, load | picker, git | `**`, negated rules, two-path git entries | the files a user expects |
| command line | none | flags, printing | all | exit codes | documented behaviour |

The hazards are listed in `PROJECT.json`, each at the line where it bites, with
the properties aimed at it or the reason why none is yet.

## 2. The modules

```
IndexSpec      what an index promises: a register of snapshots
  ^ implements (Content, Answer in Index)
Index                        fg.go                  MCIndex     IndexProofs
Picker                       picker.go, sharing     MCPicker    PickerProofs
Order                        sorting, filtering                 OrderProofs
Text, Order <- Bigram        bigram.go                          BigramProofs
          Bigram <- Search   picker.go, answering   MCSearch    SearchProofs
Order <- GrepMany            grep.go, SearchMany    (is a root) GrepProofs
FeedbackSpec   what the trackers promise: a call counts in one step
  ^ implements (CountOf, CallOf, OutcomeOf in Feedback)
Feedback                     frecency, querytracker, kv, Picker.Close
                                                    MCFeedback  FeedbackProofs

Parts                        all of the following, side by side   MCParts
  Lines (on Text, Order)     grep.go, one file                  PartsProofs
  Bigram                     its overlay                        PartsProofs
  Rules (on Order)           picker.go, ignore rules and globs  PartsProofs
  Porcelain                  picker.go, git's output            PartsProofs
  Query                      queryparser                        PartsProofs
  Cli                        cmd/fg/main.go                     PartsProofs
  Arena, DirItem             core/path_arena.go, core/types.go  PartsProofs
```

An operator preceded by a comment that begins with "Slip:" is a plausible bug in
the definition that follows it. No behaviour specification uses one; each shows,
put in the place of the real definition, that a property is able to fail.
Variables marked "history" in their comments record what happened and steer
nothing.

### Index and IndexSpec

A goroutine has a program counter, the picker in its local variable, and a
context that `Cancel` may end at any time. Each section under `mu` is one
action: `RefreshReadClosed` (fg.go:132-139), `RefreshSwap` (147-155),
`CloseMark` (162-171), `SearchSnapshot` (111-114). `refresh` is held over the
whole of Refresh and is the variable `lock`; the deferred unlock is part of every
action that ends a refresh. The walk reads one path per step while `Edit` changes
paths, so a snapshot mixes versions. `Open` and `SearchWith` work on a handle
nobody else has (`handle = "private"`); `SearchWith` goes through refresh, search
and close in one call. A picker is named by the number of the call that makes
it: the names are chosen when a call begins, the picker is born at
`RefreshReadClosed`. Closing a picker that is closed already gives the life
"reclosed", which the code does not notice but which frees two trackers twice.
`promised` and `floor` are history: what a refresh that has returned saw at the
least is what was on disk when it began.

`IndexSpec` is what a caller may think: one register that a refresh replaces
by something nowhere older, that a search reads in one step, and that Close
empties for good. `Index` implements it with `Content` (what the published
picker has seen) and `Answer` (what the picker a search holds has seen).

### Picker

Scans, searches and touches over one Picker. The walk takes no lock;
`Publish` and `PublishIndex` (picker.go:252-256) replace `files` and then `index`
while `fileMu` is held for writing; a search holds it for reading from `ReadLock` to `Results`, with
candidates and scoring as separate steps; `TouchByIndex` has two critical
sections with two frecency calls between them. `fileMu` is Go's RWMutex: who is at
"publish" or "write" has asked for writing, which keeps new readers out
(`MayRead`), and gets it when the old readers have left (`MayWrite`); who is at
"index" has it.

### Bigram and Search

Operators for the code between a scanned state and an answer. `Init` of Search
enumerates scanned states, walk order included, and git statuses; the one action
`SearchContext` answers one query. A text is a sequence of characters over six
of them; a predicate on a path or its metadata is a named set (`Accepts`): what a
glob or a size matches is data here, how constraints combine, negate, ignore
unknown values, ask git and decide on deleted files is the code's. Sorting and
filtering are operators of `Order`, shared with GrepMany: an element that *k*
others come before has *k* places in front of it, which is what sort.Slice does
where no two elements tie (numbers of files; scored paths, whose last key is the path).

### GrepMany

`SearchManyContext`: the caller spawns one goroutine per file; each takes a slot
of the semaphore or gives up on a done context, searches, sends its outcome,
releases and signs off (`defer` order: release before `wg.Done`). The caller may
return early while workers run (grep.go:278-280). One file's search is its
outcome: hits, none, an error, interrupted.

### Feedback and FeedbackSpec

The frecency and query trackers, each a mutex held over a read and one or two
writes of a store, over MemStore or BoltStore. `PutFails`: a bbolt transaction
may fail. `PutPanics`: a closed MemStore has a nil map. `Crash`: the process ends
between any two steps; what a bbolt transaction wrote stays. Time is counted in
half-lives, which makes `AccessScore` exact (integer halving is the conversion to
int32 at those points). The highest count is the constant `Max`, 2^31 - 1 in
the code: both trackers start over at one when they reach it.

`FeedbackSpec` is what a goroutine that shares the trackers may think: its touch or
choice counts in one step between call and return, or fails and does not
count; the last query changes in the same step; Close makes memory forget, first the
touches, then the choices; a crash ends the calls and may leave one choice counted
without its query. `Feedback` implements it: a touch counts at its write
(`TouchPut`), a choice at its second write (`RecordLast`) or at the only one
(`RecordPut` of the empty query). Between the two writes the store is ahead of what
has counted, so `CountOf` shows the count that was read. That is sound because
nobody else can read the store there: the mutex is held.

### Arena and DirItem

Arena has Intern as the two critical sections it is: a look-up under the read
lock (`Intern`), and, for a path that was not there, another look-up and the
append under the write lock (`InternLocked`), with anything in between.
DirItem has the compare-and-swap loop of UpdateFrecencyIfLarger with its load
and its swap as separate steps.

### The algorithms: Lines, Rules, Porcelain, Query, Cli, the overlay in Bigram

Each module has the code's algorithm, translated step by step, and below a ruled
line what its answer should be, stated another way:

| Module | The algorithm | What it is compared with |
|---|---|---|
| Lines | fragments of the buffered reader, the byte limit, endings, tokens, ranges (grep.go:86-256, 337-389) | the spans between line breaks (`HitsOf`), and what a range must show (`RangesRight`) |
| Rules | the two matchers of ignore rules and the walk that prunes (picker.go:165-341) | git's reading of the same rules, `**` over any number of levels (`IgnoredByGit`), with the named exceptions `KeptMore` and `LeftOutMore` |
| Rules | the glob matcher by segments (picker.go:819-877) | a layout of the pattern along the path (`Laid`, also used for git's `**`) |
| Porcelain | reading fields one after the other, skipping second paths (picker.go:931-948) | the entries git printed (`StatusesOf`) |
| Query | one token: negations, the forms in their order, amounts with 64-bit products (queryparser) | the item its writer wrote down (`Written`, `Conveys`) |
| Cli | splitFlagArgs, the flag package, run, and what runSearch and runGrep do with an answer | the options and words its writer had in mind (`Wanted`); the targets in their order (`FirstWithHits`) |
| Bigram | Add, Reset, CandidateOutcome of the overlay | which calls added which pairs |

A text is a sequence of characters in Lines, Bigram and Porcelain; a path is a
sequence of names in Rules, where filepath.Match of one name is a relation; a
key or a unit is one element of a token in Query; an argument of Cli is its number of
dashes, its name and its value.

### Parts

The composition of the parts that share no state: Arena runs, or DirItem does,
or one algorithm answers one question. They are one specification because each
is small; they meet in Search, Picker and GrepMany as data (a status for every path, a
set a glob accepts, a list of constraints, the outcome of one file).

## 3. The runs

| Run | Instance | Checks |
|---|---|---|
| `index` | 2 goroutines, 2 files, 1 change of each file, 3 refreshes | type, freshness, late calls, no gap, no resurrection, life cycle, no leak, and that Index implements IndexSpec |
| `index_live` | 2 goroutines, 1 file, 3 refreshes | every call returns |
| `picker` | 2 goroutines, 2 paths, 1 change, 2 walks, 2 touches | one scan per reader, results match, never unscanned, steady under a reader; no deadlock |
| `picker_live` | 2 goroutines, 1 path, 2 walks, 1 touch | every call returns |
| `picker_touch` | 2 goroutines, 2 paths, 1 change, 2 walks, 1 touch | *violated*: a touch marks the file it resolved |
| `grep` | 3 files, 2 at a time | limit, contract of the answer, no panic, none left behind, termination; no deadlock |
| `search` | 3 paths, all subsets, attributes, git statuses; 10 constraint lists, 7 texts, 2 limits | results satisfy constraints, one order, no repetition, none lost, misses stay out |
| `search_deleted` | as `search` | *violated*: no candidate means no result |
| `feedback` | 2 goroutines, 1 file, 2 queries, 4 calls, counts up to 2, both stores | nothing lost or doubled, the last query is the newest, a touch counts, and that Feedback implements FeedbackSpec |
| `feedback_closed` | as `feedback` | *violated*: a closed store refuses writes |
| `parts` | 2 goroutines interning 3 times each, 3 goroutines raising a maximum twice each, and every small input of each algorithm | the nine properties of Parts, Arena and DirItem; no deadlock |
| `grep_occurrences` | as `parts` | *violated*: every occurrence of a single word is recorded |

### Why the bounds are enough

- `index`: three refreshes are an Open, and two that overlap or follow one
  another; the defects the properties are about need an open index and two
  goroutines in it. Two files and one change of each give snapshots that mix
  old and new. The theorems below remove these bounds for the safety properties.
- `picker`: two walks are the first scan and a rescan (or two first ones); with
  two paths and one change the list can shrink, grow or renumber.
- `grep`: three files over a limit of two leave one waiting, so that it can
  be cancelled while it waits. Files are not symmetric (the order of results matters), so no
  symmetry is used.
- `search`: `ab.b`, `ab/A` and `ba`: a walk meets `ab/A` before `ab.b` but
  string order is the other way; they share pairs, so posting lists
  intersect; one has an upper-case letter.
- `feedback`: counts up to 2 reach the wrap-around in two calls; four
  calls make it possible to wrap, record another query and close.

- `parts`: texts of up to five characters over a reader that buffers two, a
  pooled buffer of two and a limit of four bytes: lines end before, at and behind
  each boundary (bufio's 4 KB, the pool's 16 KB, `MaxBytes`). Globs have up to four parts, so
  that two `**` can stand beside ordinary ones, and paths up to three levels.
  Every pair of fourteen ignore rules is tried, in either file or both, on a tree with a directory
  and a file of one name and a file that is gone before its Info is read (of type
  "lost"); three of the rules have a `**`, at the front, between names and at the end. Git's
  output has up to two entries, one of which can
  have a second path that looks like an entry, or both of which can be of one path (a file
  removed from git's index that is still there is printed as deleted, then as untracked). `MaxInt` = 127 stands for
  2^63 - 1, and the units are scaled down with it, so that products overflow
  and stay within TLC's integers. Queries have up to two items, each with up to two
  negations; command lines up to three. Two goroutines are enough for interning:
  a call can only lose to the one that holds the write lock. Three raise the
  maximum, so that a loser of one swap can lose again.

Symmetry is used over goroutines (and files in `index`, queries in `feedback`,
which no rule tells apart) and only in runs of safety properties. Deadlock is
checked in `picker`, `picker_live` and `grep`, where a call that waits for ever
would be one; the `search` and `parts` runs have a stuttering end (`Over` in Parts)
and keep the check on. In
`index`, `index_live` and the two `feedback` runs it is off because the bounded
number of calls runs out and a closed index has nothing left to do.

### Fairness

- `index_live`: weak fairness of the steps of a call: the Go scheduler runs
  every runnable goroutine. Strong fairness of `RefreshLock`: a `sync.Mutex`
  hands over to a waiter after a millisecond (its starvation mode), so a waiter is
  not overtaken for ever. Nothing is assumed of edits, cancellation or new calls.
- `picker_live`: weak fairness of steps; strong fairness of `ReadLock` and
  `Resolve`, because an RWMutex lets the waiting readers in after each writer.
  A writer needs none beyond weak: new readers are kept out while it waits.
- `grep`: weak fairness of every worker and of the caller. No fairness of
  `Cancel`: the context need not be cancelled.

### What the violated runs show

1. `picker_touch`: TouchByIndex(i) resolves file *a*; a scan publishes a list in
   which i is *b*; the touch then writes *a*'s score to *b* (picker.go:130-139).
   It corrects itself at the next scan or touch. The bounds check of line 130 keeps
   it from being a panic and from nothing else.
2. `search_deleted`: deleted files that only git knows are appended without the
   text filter that scanned files pass (picker.go:401), against README.md:114.
3. `grep_occurrences`: ignoring case, `foo` in the line `Foo foo` yields the
   second occurrence only: the exact match is looked for first, in the whole
   rest of the line (grep.go:352-354). searchLine's comment (grep.go:213) says
   that all are recorded. The line itself is found; only its ranges are short.
4. `feedback_closed`: use after Close is an error with bbolt and a panic in memory
   (kv/mem.go:28), against TESTING_AND_SCHEDULE.md:85.

### What the passing properties leave out on purpose

- `RangesRight`, part of `LinesRight`, asks only for the exact occurrences of a
  single word: see `grep_occurrences`.
- `StatusRight` leaves out output with a copy whose letters name no other known
  status: line 939 of picker.go skips the entry before its second field, which is then
  read as an entry.
- `FlagsRight` leaves out command lines with a word that is spelled like a flag:
  `fg root` and `fg --score main limit` take the word for the flag (main.go:102-123).
  What is printed is all of the targets or, with `--grep`, the first of them that have
  hits; with `--grep` and a failing grep the hits that came with the error count.
- `QueryRight` is about items on which the comments of parseConstraintToken and its code
  agree (`WellFormed`). Of these texts they say different things: `*.a/b` is an extension to the
  code and a glob to the comment of line 30 (the guard at line 33 is never reached
  with a slash behind `*.`), and so is `*.a**`; `*a` is a glob to the code, and line 22
  calls it an extension; `*` or `?` without a slash makes a glob, and line 30 asks for one;
  `/a` is a word to the code, and line 40 calls it a segment. Nor does it say anything of
  amounts above 2^63 - 1, which wrap around.
- `WalkRight` names in `KeptMore` where the walk keeps a file that git would ignore: a
  rule with `**` is compared by filepath.Match (picker.go:288, 326), to which it is one name,
  so `**/x` does not leave out `x` or `a/b/x`. It names in
  `LeftOutMore` where the walk ignores more than git would: a
  directory rule also names files at its own path, a malformed pattern is taken
  literally (and so is a directory rule of several names, `sub/[/`, by
  matchFile, picker.go:317-322), and a rooted rule of one name applies at every level. Negated rules are
  not read by the code and do not occur in the comparison either.
- `Filtered` and `NoneLost` hold of any number of negations of a known value. An
  unknown value under one negation is no condition, as without one; two negations of it
  (`!!status:bogus`, a query of the `search` run) match nothing, because
  isNoopConstraint does not look through the inner one (picker.go:709), and every
  even number of them does the same. `Asked`, which says what a query asks for,
  has this as a conjunct of its own.

## 4. The proofs

`IndexProofs` proves of `Index`, for any set of goroutines and files and any bounds:
`TypeCorrect`, `Inductive`, `FreshnessHolds`, `LateCallsHold`,
`NoSnapshotGapHolds`, `NoResurrectionHolds`, `LifecycleHolds`, `NoLeakHolds` and
`IndexImplementsSpec`. The assumptions are those named in Index: the bounds are
natural numbers, and `None` is not a goroutine, a number or a snapshot.

None of the properties is inductive. `IndInv` (in Index, so that TLC can check it
too) is made of:

- `LockInv`, `OpInv`: who holds the refresh mutex and which function a place
  belongs to;
- `HandleInv`: an index that is not shared has exactly one goroutine in it, and
  a shared one is closed if and only if it has no picker (this gives
  `NoResurrection` and `NoSnapshotGap`);
- `OwnerInv`: a goroutine owns the picker it has made until it publishes it, and
  the one it has taken out until it closes it; no picker has two owners and every open
  picker is owned or published (this gives `PickerLifecycle` and `NoLeak`);
- `ScanInv`: what a walk has read is no older than its floor, than what was
  promised and than the published snapshot; the last is where the refresh mutex
  is needed: no other goroutine publishes during the walk;
- `SearchInv`: the promise made to a search holds of the snapshot it takes and
  of the picker it keeps (this gives `Freshness`);
- `LateInv`: a late call never gets past the check of `closed`.

Each action has one step per part it can disturb; parts that an action leaves
alone follow from the frame. The refinement uses the same invariant: `RefreshSwap`
is `Publish`, `CloseMark` is `Shut`, `SearchSnapshot` is `Take`, `OpenCall` is
`Reopen` if an index was closed before, a search that fails is `Drop`, an edit is
`Edit` and every other action is a stutter.

### Picker

`PickerProofs`: `TypeOKHolds`, `OneScanHolds`, `ResultsMatchHolds`,
`NeverUnscannedHolds` and the action property `SteadyHolds` (no
step replaces files or index, or writes a score, while anybody reads), for any goroutines and bounds. From
`BoundsAssumption`: at least one path, which may or may not exist. `Inv` is made of:

- `Lists`, `Short`, `Plain`: types, and that a walk finds at most one file at each path it
  has looked at, so that a list is never longer than `N`;
- `Counters`: a path's count plus the touches that have not reached the tracker is at
  most the touches called; without the second summand the bound would not survive a step;
- `Lock`: `readers` is the set of searches between their lock and their return, and a
  writer is alone. This is the RWMutex as `MayRead` and `MayWrite` describe it;
- `Matching`: files and index are of one scan except while one writer is between
  the two, and then the files are what it has walked (this, with `Lock`, gives `OneScan`);
- `Found`: what a search has found is what is published, which needs `Lock` to
  survive the publications of others (`ResultsMatch`);
- `Fresh` (`NeverUnscanned`).

`Steady` needs `Lock`: a scan publishes, and a touch writes, where `readers` is empty.

### Feedback

`FeedbackProofs`: `TypeOKHolds`, `LastHasComboHolds`, `LastIsNewestHolds`,
`NothingLostHolds` and the action property `TouchCountsHolds`, for any goroutines, files,
queries, highest count, and either store. From assumptions: the highest
count is at least 1, the stores are the two there are, there is a file, and names,
keys and records of different kinds differ. `Inv`:

- `Locks`: each mutex is held from the lock to the unlock of one call;
- `Reads`: what a call has read is still stored when it writes, unless its store was
  closed; this is what the mutex is for;
- `Counted`, `Latest`: the moment between the two writes of Record, which the
  properties step over;
- `Accounts`: for each key, what is stored plus the calls still before their write is at
  most what was begun, and what was acknowledged, plus one if a call has written and not
  returned, is at most what is stored. `NothingLost` is the outer half of it and
  not inductive: it does not say where the difference is.

`FeedbackImplementsSpec` needs one more, `Halfway`: between its two writes a choice
is stored one higher than it was read, its store is open (Close waits for the mutex)
and it will be answered "ok" even if the second write fails. `OneMoves` and
`QuietCounts` say what most steps leave alone; there is one lemma for the calls,
the reads, each write, failures, unlocks, each close and the crash. The step between the
writes is the one that needs `Reads`: what is shown is what was stored before.
No run checks `LastHasCombo`, the inner half of `Counted`: in FeedbackSpec the last
query changes in the step that counts its choice, which is more.

### GrepMany

`GrepProofs`: `TypeOKHolds`, `BoundedHolds`, `ContractHolds`, `NoPanicHolds`,
`NoneBehindHolds`; and two that no run states: `DeliveredHolds` (said without
the sorting operator: ascending, and exactly the files with hits) and
`RoomForAllHolds` (no send ever blocks, though the caller may have left). For any
number of files and any limit. `Inv`:

- `Started`, `Closing`: goroutines are started in order, and the channels closed when all
  are gone;
- `Counted`: the semaphore and the wait group are the numbers of goroutines they
  count (`Bounded`, `NoneBehind`);
- `Messages`: what is in the channels plus the goroutines that have not sent is at
  most `N`, the capacity (`RoomForAll`);
- `Reported`: a goroutine that is done has told what became of its path, and the channels
  hold nothing else (`Contract`, at the collection).

### The candidate index, the overlay and the search

`OrderProofs` has what sorting and filtering do to a finite set: nothing lost or added,
in order, and the only sequence like that. Two lemmas carry all inductions:
`LeastNumber` (from the library's well-foundedness of the natural numbers) and
`SetInduction`, induction over the natural numbers about a *set*, which avoids the
operator parameter of the library's induction theorems. A recursive function of the
model is first shown to exist (its closed form satisfies the recursion, or
`SetInduction` builds it), and then described by induction.

`BigramProofs`, for any alphabet, paths and queries:

- `SortedContainsSound`, `SortedContainsComplete`: binary search finds only what is there
  and, in an ascending list, all of it;
- `BuildLists`: Build gives every pair the numbers of the paths that contain it; they
  are ascending, because a path is added after all smaller numbers, which
  is why the search may be binary;
- `CandidatesExact`: the candidates are the numbers of exactly the paths with all pairs of
  the query, starting from the shortest list or not;
- `OverlayExact`: the overlay, whose callers choose the numbers, offers only numbers of
  live Add calls, and all of them if the numbers came in ascending order. Out of
  order the list is not ascending and binary search may miss: that is why the
  two halves differ.

`SearchProofs` proves all five properties of the `search` run: `FilteredHolds`,
`RankedHolds`, `OncePerPathHolds`, `NoneLostHolds`, `MissesStayOutHolds`. The
state is a scan (`Snapshot`: files of distinct paths, the index built from them, a
status for every path), and the rest is one chain of lemmas about the operators:
`MatchOneMeans` (any number of negations), `JoinedProperties` (pairs of the words
are pairs of the joined query), `SearchCandidatesExact`, `ScoreCandidatesExact`,
`SortScoredProperties` (from `BeforeOrders`: two scored paths that tie in
everything are one path), `DeletedProperties`, and `AnswerExact`, from which the properties
follow. Assumptions: case folding is idempotent and leaves the blank alone, the walk
meets every path once, texts, scores and limits are of their types, and negations are
counted by a natural number.

### Arena, DirItem and Parts

`PartsProofs` proves `InternedHolds` of Arena and `HighestHolds` of DirItem, for any
goroutines, paths, scores and bounds, from `ArenaAssumption` (the empty text is no
path) and `ScoresAssumption`. For Arena the invariant adds to `Interned` that the
list and the map are inverse to each other, which is what makes the second
look-up under the write lock enough: `FoundKeeps` is the case where it succeeds
(or the first one does), the other extends list and map by one and the same
number. For DirItem it adds that a goroutine about to swap offers more than it
loaded, so that a swap that succeeds, on an unchanged value, can only raise it
(`FinishAbove`), and that the maximum is the score of a call that has returned.
`PartsInternedHolds` and `PartsHighestHolds` say the same of the composition, and
`OverlayFindsHolds` carries `OverlayExact` over to it, from `AddsAssumption` (an
Add has a number and a path).

The other algorithms proved are compared with a definition that computes nothing:

- `GlobRightHolds` (`GlobExact`). `Rest(parts, path, i, j)` says that the parts from the
  *i*-th on can be laid along the levels from the *j*-th on. It satisfies the recursion of
  matchGlobSegments (`RestUnfolds`, from `RestDrop` and `RestAdd`: a layout without
  its first part, or with one more), so the recursion has a solution; by induction
  over the parts left it has no other. `WholeLaid` is the glob without `**`.
- `WalkRightHolds` (`WalkExact`). What git ignores by a rule, the rule names unless
  it is `Deep` there (`SaysNamed`); what a rule compares level by level is a layout too,
  with one level for each `**` (`WholeLays`, `LaidRest`, `LaidWhole`, `WholeByGit`); what a rule names, git ignores or `LeftOutMore` excuses
  (`NamedSays`, and `DirSays` for a directory rule the path begins with), for the path
  and for each directory on the way. The proof found one of the excuses: without
  the directory rule that is no pattern of itself the theorem is false, and the
  instance had no such rule.
- `StatusRightHolds` (`StatusesExact`). By induction over the entries: the reader,
  between two entries, has the statuses of those behind it and skips nothing
  (`FirstField`, `SecondField`, `StatusesGrow`); and what is printed of more entries
  begins with what is printed of fewer (`JoinedGrow`).
- `LinesRightHolds` (`SearchFileExact`), for any text, query, limits and buffer
  sizes. A line is read up to its end or the limit on bytes, however the buffer cuts
  it (`ReadLineExact`, by induction from the last place back), so the places where
  reading stops are the ends of the spans of `LineSpans`, which follow each other
  (`ChainRight`). By induction from the last line back, the hits found from a line on
  are the hits among the lines from it on, as many as there is room for (`LineFound`,
  `SearchLinesExact`). The ranges of a word go by induction from the last place of
  the line back (`FindAllRight`): each shows the word, none overlaps the next, and no
  exact occurrence is left out. The words of a query are not empty (`WordsRight`),
  or the search for every match would not end.
- `QueryRightHolds` (`ParseExact`), for any query made of items that can be written
  (`WellFormed`). What the first one or two characters of a written item are
  decides how it is read (`BeginsWithOne`, `BeginsWithTwo`, `BeginsAsExtension`), and
  negations in front change nothing but their number (`TokenRead`); so patterns
  (`PatternsRead`) and keyed values and amounts (`ValuesRead`, with `ComparisonRead`,
  `AmountRead`, `SizeRead`) come out as they were meant (`ItemConveyed`), and the text is made
  of the items that are words, in their order (`ThoseAt`).
- `FlagsRightHolds` (`RunExact`, `ExecuteRight`), for any command line made of items
  that can be typed (`Typeable`). One argument more is one step of splitFlagArgs
  (`SplitGrows`) and of the flag library (`ParseGrows`). By induction over the items
  what is split after *n* of them is the flags and the words of *n* items
  (`SplitItems`), everything after `--` is words (`SplitRest`), and what is set after *n* is
  what *n* items set (`ParseItem`, `SetGrows`); the limit is above zero however it was
  given (`WantedLimit`). What is printed with `--grep` is a prefix of the targets with hits
  taken in ascending order of their places, so each one left out stands behind all of
  those that are printed (`FirstOfThose`).

The assumptions are of types: texts and queries are over the alphabet (`LinesAssumption`),
globs, paths, files of rules and git's output are sequences (`GlobsAssumption`,
`TreeAssumption`, `OutputsAssumption`), and a path is not empty; items of a query can be
written and those of a command line typed (`QueriesAssumption`, `CommandLinesAssumption`);
digits, units and marks are different characters and units are positive
(`CharactersAssumption`, `UnitsAssumption`); a number that is typed for a limit is natural and
the default limit positive (`NumberAssumption`). Which pattern matches which name
(`Match`) is left open.

### Only model-checked

- Liveness (`Termination` and its like), which the prover has no rules for, as for everything
  that speaks of ENABLED.
- Every invariant, action property and refinement that a passing run checks has its theorem. Where
  an algorithm was written with an operator that the provers cannot expand (SelectSeq, FoldLeft,
  recursion over several arguments), its module uses functions of one argument and the operators
  of `Order` instead. One fold is left, and the proof takes it as it is: the number that
  a sequence of digits spells (`NumberOf`), which is the same in a query and in its meaning;
  that it is the decimal one, TLC evaluates.

## 5. What is not modelled

- Handles that outlive their search: `Result.Path`, `PathAt` and `FileAt` look
  their number up again; after a rescan of the same Picker it may name another
  file. A picker of fg.Index is scanned once, so there a handle stays what it was.
- The iteration functions: ForEach of the stores and trackers (which call back
  while the mutex is held, so that a callback must not call the tracker:
  querytracker.go:169), and TopCombosForQuery.
- The values of modification scores, which are parameters of Search, and
  of ComboBoost.
- `ignore.go`, two constant functions; Filename and Dir of the arena.
- Text encoding: a character takes one place everywhere, so that neither a case
  mapping that changes a text's length nor a character cut by a byte limit occurs.
- What git writes to its error stream, which CombinedOutput mixes into the
  output that is read (picker.go:924).
- Read errors and a context that ends in the middle of a file are outcomes of
  one file in GrepMany, not steps of Lines.
- bbolt is modelled by what its transactions promise: each is atomic and durable
  or fails; a database whose file lost its bucket, on which Put does nothing and
  reports no error (kv/bolt.go:52), is left out because opening creates the bucket.

## 6. Plan

What a continuation would take up, in this order:

1. An abstract specification of grep over many files (a set of outcomes answered
   at once), implemented by GrepMany. `Contract` and `DeliveredHolds` say what the
   answer is; the step at which it is decided has no specification yet.
2. Handles that outlive their search in Picker; the iteration functions of the
   stores, with callbacks that call back.
