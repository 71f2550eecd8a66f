-------------------------------- MODULE Search -------------------------------
(****************************************************************************)
(* What Picker.SearchContext answers (picker/picker.go), for one scanned    *)
(* state and one answer of git status: candidates from the bigram index,    *)
(* constraints, scores, deleted files that only git knows, order and limit. *)
(* How it shares that state with scans and touches is module Picker.        *)
(*                                                                          *)
(* A path is its place in string order; PathText is its text.  The scan     *)
(* finds paths in WalkOrder.  What a constraint says of a path or of a      *)
(* file's metadata is a named set; negation, unknown values, git status and *)
(* the order in which things are tried are the code's.                      *)
(****************************************************************************)
EXTENDS Bigram

CONSTANTS PathText,     \* PathText[p]: the text of path p
          WalkOrder,    \* the paths in the order a scan meets them
          Attributes,   \* what a scanned file can be: base, modified, binary
          Words,        \* the sequences of words queries are made of
          Queries,      \* the sequences of constraints queries are made of
          Limits,       \* the limits callers ask for
          Combos,       \* the combo boosts paths can have for a query
          Accepts       \* Accepts[n]: the paths, or metadata, predicate n accepts

Paths == DOMAIN PathText

\* A walk meets every path once.
ASSUME WalkAssumption == /\ WalkOrder \in Seq(Paths) /\ Range(WalkOrder) = Paths
                         /\ \A i, j \in DOMAIN WalkOrder : WalkOrder[i] = WalkOrder[j] => i = j

ASSUME TextsAssumption == /\ PathText \in Seq(Seq(DOMAIN Lower))
                          /\ Words \subseteq Seq(Seq(DOMAIN Lower))

ASSUME ScoresAssumption == /\ Attributes \subseteq [base : Int, modified : Int, binary : BOOLEAN]
                           /\ Combos \subseteq [Paths -> Int] /\ Limits \subseteq Nat

ASSUME NotsAssumption == \A q \in Queries : \A c \in Range(q) : c.nots \in Nat

VARIABLES
  files,   \* Picker.files: path and attributes
  index,   \* Picker.bg: built from the same paths
  git,     \* git[p]: what git status prints for p, "none" if nothing
  call,    \* the query that was asked, once there is one
  answer   \* its results: path, score, modified

vars == <<files, index, git, call, answer>>

Kinds == {"modified", "added", "deleted", "renamed", "untracked"}
NoCall == [words |-> <<>>, constraints |-> <<>>, limit |-> 0, combo |-> [p \in Paths |-> 0]]

Init ==
  /\ \E present \in SUBSET Paths :
       LET found == Those(WalkOrder, {i \in DOMAIN WalkOrder : WalkOrder[i] \in present})
       IN \E a \in [DOMAIN found -> Attributes] :
            files = [i \in DOMAIN found |-> [path |-> found[i], attr |-> a[i]]]
  /\ index = Build([i \in DOMAIN files |-> PathText[files[i].path]])
  /\ git \in [Paths -> {"none", "deleted", "modified", "untracked"}]
  /\ call = NoCall
  /\ answer = <<>>

Scanned == {files[i].path : i \in DOMAIN files}

------------------------------------------------------------------------------
\* Constraints: [nots, kind, value], nots of them being written before the rest.
\* kind "path": extension, known file type, path segment, glob or text;
\* kind "meta": size or age; the others by their names.

IsKnown(c) == \/ c.kind \in {"path", "meta"}
              \/ c.kind = "status" /\ c.value \in Kinds \cup {"clean", "dirty"}

\* A path git does not print is clean.
Status(p) == IF git[p] = "none" THEN "clean" ELSE git[p]

MatchGitStatus(p, want) ==
  IF want = "dirty" THEN Status(p) \in Kinds \ {"untracked"} ELSE Status(p) = want

MatchAtom(c, p, attr) ==
  CASE c.kind = "path" -> p \in Accepts[c.value]
    [] c.kind = "meta" -> attr.modified \in Accepts[c.value]
    [] c.kind = "status" -> IsKnown(c) => MatchGitStatus(p, c.value)
    [] OTHER -> TRUE

\* isNoopConstraint looks at what is negated, not through a second negation.
\* Slip: a second negation is taken for the first.
MatchOneOnce(c, p, attr) ==
  IF c.nots = 0 THEN MatchAtom(c, p, attr) ELSE ~IsKnown(c) \/ ~MatchAtom(c, p, attr)

MatchOne(c, p, attr) ==
  LET match[n \in 0 .. c.nots] ==
        IF n = 0 THEN MatchAtom(c, p, attr)
        ELSE (n = 1 /\ ~IsKnown(c)) \/ ~match[n - 1]
  IN match[c.nots]

MatchesConstraints(q, p, attr) == \A c \in Range(q.constraints) : MatchOne(c, p, attr)

HasGitStatusConstraint(q) == \E c \in Range(q.constraints) : c.kind = "status" /\ IsKnown(c)

SupportsVirtualDeleted(q) == \A c \in Range(q.constraints) : c.kind \notin {"meta", "badage"}

------------------------------------------------------------------------------
\* Candidates.

Joined(words) ==
  LET joined[n \in 0 .. Len(words)] ==
        IF n <= 1 THEN IF n = 0 THEN <<>> ELSE words[1]
        ELSE joined[n - 1] \o <<Blank>> \o words[n]
  IN joined[Len(words)]

Everything == [i \in DOMAIN files |-> i]

\* Slip: the index finding nothing is taken for the index being no help.
SearchCandidatesFallBack(words) ==
  LET text == Joined(words)
      outcome == CandidateOutcome(index, Len(files), text)
  IN IF outcome.state # "found" THEN Everything ELSE outcome.candidates

\* The overlay is empty: nothing in the picker adds to it.
SearchCandidates(words) ==
  LET text == Joined(words)
      outcome == CandidateOutcome(index, Len(files), text)
  IN IF text = <<>> \/ outcome.state = "unavailable" THEN Everything ELSE outcome.candidates

------------------------------------------------------------------------------
\* Scores.

IsIn(s, t) == \E i \in 0 .. Len(t) - Len(s) : SubSeq(Folded(t), i + 1, i + Len(s)) = Folded(s)

ScoreFuzzyPath(p, words, binary) ==
  LET matched == Cardinality({i \in DOMAIN words : IsIn(words[i], PathText[p])})
      fuzzy == CASE IsIn(Joined(words), PathText[p]) -> 100
                 [] Len(words) > 1 /\ matched = Len(words) -> 60
                 [] OTHER -> 10 * matched
  IN IF words = <<>> THEN 0 ELSE fuzzy - (IF binary THEN 20 ELSE 0)

Scored(q, p, attr) ==
  [path |-> p, modified |-> attr.modified,
   score |-> attr.base + ScoreFuzzyPath(p, q.words, attr.binary) + q.combo[p]]

\* No scan marks a file deleted, so none is passed over for that mark.
ScoreCandidates(q) ==
  LET found == SearchCandidates(q.words)
      Matches(i) == MatchesConstraints(q, files[found[i]].path, files[found[i]].attr)
      kept == Those(found, {i \in DOMAIN found : Matches(i)})
  IN [k \in DOMAIN kept |-> Scored(q, files[kept[k]].path, files[kept[k]].attr)]

Virtual == [base |-> 0, modified |-> 0, binary |-> FALSE]

\* The deleted files of git status that no scan knows.
\* Slip: one the last scan still knows is added again.
DeletedCandidatesAll(q) ==
  {p \in Paths : /\ HasGitStatusConstraint(q) /\ SupportsVirtualDeleted(q)
                 /\ git[p] = "deleted" /\ MatchesConstraints(q, p, Virtual)}

DeletedCandidates(q) ==
  {p \in Paths \ Scanned : /\ HasGitStatusConstraint(q) /\ SupportsVirtualDeleted(q)
                           /\ git[p] = "deleted" /\ MatchesConstraints(q, p, Virtual)}

Before(a, b) == \/ a.score > b.score
                \/ a.score = b.score /\ a.modified > b.modified
                \/ a.score = b.score /\ a.modified = b.modified /\ a.path < b.path

\* A stable sort of entries, by what Before leaves undecided the place they had.
\* Slip: ties are left in the order they come in.
SortScoredTies(s) ==
  LET Ahead(i, j) == s[i].score > s[j].score \/ (s[i].score = s[j].score /\ i < j)
      places == DOMAIN s
      order == InOrder(places, {p \in places \X places : Ahead(p[1], p[2])})
  IN [k \in DOMAIN s |-> s[order[k]]]

SortScored(s) ==
  LET Ahead(i, j) == Before(s[i], s[j]) \/ (~Before(s[j], s[i]) /\ i < j)
      places == DOMAIN s
      order == InOrder(places, {p \in places \X places : Ahead(p[1], p[2])})
  IN [k \in DOMAIN s |-> s[order[k]]]

ResultsFromScored(s, limit) == SubSeq(s, 1, IF Len(s) > limit THEN limit ELSE Len(s))

\* The order git's deleted files come in is that of a Go map: any.
Answer(q, deleted) ==
  ResultsFromScored(
    SortScored(ScoreCandidates(q) \o [k \in DOMAIN deleted |-> Scored(q, deleted[k], Virtual)]),
    q.limit)

SearchContext ==
  /\ call = NoCall
  /\ \E words \in Words, constraints \in Queries, limit \in Limits, combo \in Combos :
       LET q == [words |-> words, constraints |-> constraints, limit |-> limit, combo |-> combo]
       IN /\ call' = q
          /\ \E deleted \in SetToSeqs(DeletedCandidates(q)) : answer' = Answer(q, deleted)
  /\ UNCHANGED <<files, index, git>>

Next == SearchContext \/ (call # NoCall /\ UNCHANGED vars)
Spec == Init /\ [][Next]_vars

------------------------------------------------------------------------------
\* Properties.

Found == {answer[i].path : i \in DOMAIN answer}

\* What a constraint says, whatever way it is evaluated, and what a query's
\* constraints mean: each holds as often negated as it says; a value nobody
\* knows says nothing.
Says(c, p, attr) ==
  CASE c.kind = "path" -> p \in Accepts[c.value]
    [] c.kind = "meta" -> attr.modified \in Accepts[c.value]
    [] OTHER -> git[p] \in CASE c.value = "clean" -> {"none"}
                             [] c.value = "dirty" -> {"modified", "added", "deleted", "renamed"}
                             [] OTHER -> {c.value}
Satisfies(p, attr) ==
  \A c \in Range(call.constraints) : IsKnown(c) => (Says(c, p, attr) <=> c.nots % 2 = 0)

AttrOf(p) == IF p \in Scanned
             THEN files[CHOOSE i \in DOMAIN files : files[i].path = p].attr ELSE Virtual

\* Every result satisfies every constraint of the query.
Filtered == \A p \in Found : Satisfies(p, AttrOf(p))

\* Results are ordered by score, age and path, however the candidates came in:
\* the same snapshot and query always give the same sequence.
Ranked == \A i, j \in DOMAIN answer : i < j => Before(answer[i], answer[j])

\* A file git has deleted but the last scan still knows is one result, not two.
OncePerPath == \A i, j \in DOMAIN answer : answer[i].path = answer[j].path => i = j

\* A path a search must find: it satisfies the constraints and contains every
\* word; it was scanned, or it is deleted in git and the query asks for that.
\* Two negations of a value nobody knows are not taken for none, since
\* isNoopConstraint does not look through the inner one: nothing passes them.
Asked(p) ==
  /\ Satisfies(p, AttrOf(p))
  /\ \A c \in Range(call.constraints) : IsKnown(c) \/ c.nots = 0 \/ c.nots % 2 = 1
  /\ \A i \in DOMAIN call.words : IsIn(call.words[i], PathText[p])
  /\ \/ p \in Scanned
     \/ /\ git[p] = "deleted"
        /\ \E c \in Range(call.constraints) : c.kind = "status" /\ IsKnown(c)
        /\ \A c \in Range(call.constraints) : c.kind \notin {"meta", "badage"}

\* A path the query asks for is a result unless the limit's worth of results
\* comes before it: neither the index, nor a constraint, nor cutting the list
\* before it is complete or sorted loses one.
NoneLost ==
  \A p \in Paths : Asked(p) /\ p \notin Found =>
    /\ Len(answer) = call.limit
    /\ \A i \in DOMAIN answer : Before(answer[i], Scored(call, p, AttrOf(p)))

\* A path that lacks a pair of characters of the query is not found, however
\* high it scores otherwise, if a scan found it.
MissesStayOut ==
  \A p \in Found \cap Scanned : QueryGrams(Joined(call.words)) \subseteq Grams(PathText[p])

\* When the candidate index knows that no path matches, nothing is found.
\* (The README and the search-correctness specification say so.)
EmptyOnNoMatch ==
  CandidateOutcome(index, Len(files), Joined(call.words)).state = "nomatch" => answer = <<>>
==============================================================================
