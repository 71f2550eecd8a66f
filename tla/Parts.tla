-------------------------------- MODULE Parts --------------------------------
(****************************************************************************)
(* The parts of fg that share no state with the rest, side by side: the     *)
(* store of paths and the directory score with their concurrent callers,    *)
(* and the algorithms that answer one question each.  A behaviour is one of *)
(* Arena, one of DirItem, or one call of one algorithm.                     *)
(****************************************************************************)
EXTENDS Lines, Bigram, Rules, Porcelain, Query, Cli, Arena, DirItem

\* The inputs of the algorithms.
CONSTANTS
  Contents, Stale, GrepQueries, LineLimits, GrepOptions,   \* one file's lines
  Globs, GlobPaths,
  Tree, RootNames, IgnoreFiles, IgnoreFns,                 \* the walk
  Outputs,                                                 \* of git: sequences of entries
  Queries, FileAttributes, Now,                            \* sequences of items
  CommandLines, AfterDashes, Libraries,                    \* sequences of items
  AddCalls, OverlayQueries

\* Every character of a file and of a query has a lower case.
ASSUME LinesAssumption ==
  /\ Contents \subseteq Seq(DOMAIN Lower) /\ GrepQueries \subseteq Seq(DOMAIN Lower)
  /\ LineLimits \subseteq Int
  /\ GrepOptions \subseteq [caseInsensitive : BOOLEAN, includeBinary : BOOLEAN]

\* Paths, the parts of a glob and of a rule, and the files of rules are sequences.
IsSeq(s) == s \in Seq(Range(s))
ASSUME GlobsAssumption ==
  /\ \A glob \in Globs : IsSeq(glob.parts)
  /\ \A path \in GlobPaths : IsSeq(path)
ASSUME TreeAssumption ==
  /\ \A path \in DOMAIN Tree : IsSeq(path) /\ path # <<>>
  /\ \A file \in IgnoreFiles : IsSeq(file) /\ \A line \in Range(file) : IsSeq(line.parts)

\* git prints entries with a path that is not empty.
ASSUME OutputsAssumption ==
  \A entries \in Outputs :
    IsSeq(entries) /\ \A e \in Range(entries) : IsSeq(e.path) /\ e.path # <<>>

\* What a query's items stand for can be written; sizes and times are whole numbers.
ASSUME QueriesAssumption ==
  /\ \A items \in Queries : IsSeq(items) /\ \A item \in Range(items) : WellFormed(item)
  /\ FileAttributes \subseteq [size : Int, modified : Int] /\ Now \in 0 .. MaxInt

\* What is on a command line can be typed; the library finds and scans sequences.
ASSUME CommandLinesAssumption ==
  /\ \A items \in CommandLines : IsSeq(items) /\ \A item \in Range(items) : Typeable(item)
  /\ \A after \in AfterDashes : IsSeq(after)
  /\ \A lib \in Libraries : IsSeq(lib.found) /\ IsSeq(lib.scanned)

\* Add takes a number and a path, Reset nothing; a query is a text.
ASSUME AddsAssumption ==
  /\ AddCalls \subseteq Seq({<<>>} \cup (Int \X Seq(DOMAIN Lower)))
  /\ OverlayQueries \subseteq Seq(DOMAIN Lower)

VARIABLES asked, answer

questionVars == <<asked, answer>>
partsVars == <<arenaVars, dirVars, questionVars>>

Init == ArenaInit /\ DirInit /\ asked = [part |-> "none"] /\ answer = "none"

\* A call of one algorithm, of nothing else before it.
Idle == ArenaInit /\ DirInit /\ asked.part = "none"
Call(question, result) == asked' = question /\ answer' = result /\ UNCHANGED <<arenaVars, dirVars>>

CallSearchFile ==
  Idle /\ \E text \in Contents, query \in GrepQueries, limit \in LineLimits, opts \in GrepOptions :
    Call([part |-> "lines", text |-> text, query |-> query, limit |-> limit, opts |-> opts],
         SearchFile(text, Stale, query, limit, opts))

CallMatchGlob ==
  Idle /\ \E glob \in Globs, path \in GlobPaths :
    Call([part |-> "glob", glob |-> glob, path |-> path], MatchGlob(glob, path))

CallWalk ==
  Idle /\ \E rootName \in RootNames, gitignore \in IgnoreFiles, ignore \in IgnoreFiles, fn \in IgnoreFns :
    LET rules == LoadRules(gitignore, ignore)
    IN Call([part |-> "walk", rootName |-> rootName, rules |-> rules, ignoreFn |-> fn],
            Walk(Tree, rootName, rules, fn))

CallGitStatus ==
  Idle /\ \E entries \in Outputs :
    Call([part |-> "git", entries |-> entries], LoadGitStatuses(Fields(entries)))

CallParse ==
  Idle /\ \E items \in Queries :
    Call([part |-> "query", items |-> items], Parse([i \in DOMAIN items |-> Written(items[i])]))

CallRun ==
  Idle /\ \E items \in CommandLines, after \in AfterDashes :
    Call([part |-> "cli", items |-> items, after |-> after], Run(Typed(items, after)))

CallOverlay ==
  Idle /\ \E adds \in AddCalls, query \in OverlayQueries :
    Call([part |-> "overlay", adds |-> adds, query |-> query],
         OverlayOutcome(Overlay(adds), query))

ArenaMoves == asked.part = "none" /\ DirInit /\ ArenaNext /\ UNCHANGED <<dirVars, questionVars>>
DirMoves == asked.part = "none" /\ ArenaInit /\ DirNext /\ UNCHANGED <<arenaVars, questionVars>>

Over ==
  /\ \/ asked.part # "none"
     \/ \A t \in Threads : pending[t] = NoPath /\ Len(given[t]) = MaxCalls
     \/ \A g \in Raisers : stage[g] = "idle" /\ Len(raised[g]) = MaxRaises
  /\ UNCHANGED partsVars

Next == \/ ArenaMoves \/ DirMoves
        \/ CallSearchFile \/ CallMatchGlob \/ CallWalk \/ CallGitStatus
        \/ CallParse \/ CallRun \/ CallOverlay \/ Over

Spec == Init /\ [][Next]_partsVars

------------------------------------------------------------------------------
\* Properties: Interned and Highest, of Arena and DirItem, and what each algorithm promises.

\* A file's hits are exactly the lines, within the limits on bytes and hits,
\* that contain every word of the query, under their numbers, however the
\* buffers cut them; each comes with ranges that show the words; the answer is
\* an error only for an empty file; and a binary file has none, whatever the
\* pooled buffer held before.
LinesRight ==
  asked.part = "lines" =>
    LET ci == asked.opts.caseInsensitive \/ IsAllLower(asked.query)
        tokens == Words(IF ci THEN Folded(asked.query) ELSE asked.query)
        hits == answer.lines
        read == /\ asked.limit > 0 /\ tokens # <<>>
                /\ \/ asked.opts.includeBinary
                   \/ \A i \in DOMAIN asked.text : asked.text[i] = Zero => i > HeadSize
    IN /\ answer.error <=> asked.text = <<>> /\ asked.query # <<>> /\ asked.limit > 0
       /\ [i \in DOMAIN hits |-> [no |-> hits[i].no, text |-> hits[i].text]] =
            IF read THEN HitsOf(asked.text, tokens, ci, asked.limit) ELSE <<>>
       /\ \A i \in DOMAIN hits : RangesRight(hits[i], tokens, ci)

\* Every occurrence of a query of one word in a hit is shown by a range.
\* (The comment in searchLine says that all occurrences are recorded.)
AllOccurrences ==
  asked.part = "lines" =>
    LET ci == asked.opts.caseInsensitive \/ IsAllLower(asked.query)
        tokens == Words(IF ci THEN Folded(asked.query) ELSE asked.query)
    IN Len(tokens) = 1 =>
         \A i \in DOMAIN answer.lines :
           LET hit == answer.lines[i]
           IN Covered(hit.matches, IF ci THEN Folded(hit.text) ELSE hit.text, tokens[1])

\* A glob matches a path exactly if its parts can be laid along it, ** taking
\* up no level or any number of them; a rooted one without ** matches nothing.
GlobRight ==
  asked.part = "glob" =>
    (answer <=> /\ Laid(asked.glob.parts, asked.path)
                /\ asked.glob.rooted => AnyDepth \in Range(asked.glob.parts))

\* The walk keeps only regular files it can ask about, and none that a rule, read
\* as git reads it, ignores, but for the rules with ** of KeptMore; it leaves out no
\* other file but for the reasons of LeftOutMore, a directory that is always
\* skipped (the root may be one) or IgnoreFn.
WalkRight ==
  asked.part = "walk" =>
    LET regular == {p \in DOMAIN Tree : Tree[p] = "regular"}
    IN /\ answer \subseteq regular
       /\ \A path \in regular :
            LET skipped == \/ Range(Front(path)) \cap SkippedNames # {}
                           \/ path \in asked.ignoreFn \/ asked.rootName \in SkippedNames
                ignored == IgnoredByGit(asked.rules, path)
            IN /\ path \in answer => ~skipped /\ (ignored => KeptMore(asked.rules, path))
               /\ path \notin answer => skipped \/ ignored \/ LeftOutMore(asked.rules, path)

\* Every entry of git's output whose status is known is read, and nothing
\* else, even if the path a file came from looks like an entry; the last entry
\* of a path counts.  Output with a copy and no other letter fg knows is left
\* out: its second path is read as an entry.
StatusRight ==
  (asked.part = "git" /\ \A e \in Range(asked.entries) :
                           IsRenameOrCopy(e.x, e.y) => Kind(e.x, e.y) # "clean") =>
    answer = StatusesOf(asked.entries)

\* A query is read as it was meant: each item becomes the constraint it names,
\* with its negations and its order, and the rest is the text, in its order.
\* Items are what the comments of constraint_parse.go agree on with the code
\* (WellFormed): texts like *.a/b, *a, a? and /a, where they do not or are silent,
\* are left out, and so are amounts that a 64-bit number does not hold (Conveys).
QueryRight ==
  asked.part = "query" =>
    LET items == asked.items
        texts == {i \in DOMAIN items : items[i].kind = "text" /\ items[i].nots = 0}
        structured == Those(items, DOMAIN items \ texts)
        words == Those(items, texts)
    IN /\ answer.fuzzy = [k \in DOMAIN words |-> words[k].value]
       /\ DOMAIN answer.constraints = DOMAIN structured
       /\ \A k \in DOMAIN structured :
            Conveys(answer.constraints[k], structured[k], FileAttributes, Now)

\* A word that is spelled like a flag without its dashes.
SpelledLikeFlag(item) == item.style = "word" /\ item.text \in ValueFlags \cup BoolFlags

\* The first of the targets with hits, in their order, as many as the limit allows.
FirstWithHits(printed, targets, hits, limit) ==
  /\ Len(printed) <= limit
  /\ \E place \in [DOMAIN printed -> DOMAIN targets] :
       /\ \A j, k \in DOMAIN printed : j < k => place[j] < place[k]
       /\ \A k \in DOMAIN printed : printed[k] = targets[place[k]] /\ targets[place[k]] \in hits
       /\ \A i \in DOMAIN targets \ Range(place) :
            targets[i] \in hits => Len(printed) = limit /\ \A k \in DOMAIN printed : place[k] < i

\* The command line is read as it was meant: wherever they stand, the options
\* are set, the last of a name counting, their values are not taken for words
\* or flags, and the words are the query, in order; a bad value is refused.
\* Whatever the library answers, the status is 0 only if no call failed.  The
\* targets are what the search found or, without a query, all files that were
\* scanned: they are printed or, with --grep, the first of them that have hits,
\* within the limit; nothing is printed if there are no targets for a failure.
\* Command lines with a word spelled like a flag are left out: the word is
\* taken for the flag, and the flags after it are not read.
FlagsRight ==
  (asked.part = "cli" /\ \A i \in DOMAIN asked.items : ~SpelledLikeFlag(asked.items[i])) =>
    /\ answer = Wanted(asked.items, asked.after)
    /\ "exit" \notin DOMAIN answer =>
         \A lib \in Libraries :
           LET result == Execute(answer, lib)
               scanning == answer.query \in {<<>>, <<Word("")>>}
               listing == IF scanning THEN "scan" ELSE "search"
               targets == IF scanning THEN lib.scanned ELSE lib.found
               grepping == answer.grep # Word("")
           IN /\ result.exit = 0 <=> lib.fails # listing /\ (grepping => lib.fails # "grep")
              /\ lib.fails = listing => result.printed = <<>>
              /\ lib.fails # listing =>
                   IF grepping THEN FirstWithHits(result.printed, targets, lib.hits, answer.limit)
                   ELSE result.printed = targets

\* The overlay offers only numbers under which each pair of the query was
\* added; and all numbers of such paths if they were added in ascending order.
OverlayFinds ==
  (asked.part = "overlay" /\ answer.state # "unavailable") =>
    LET resets == {i \in DOMAIN asked.adds : asked.adds[i] = <<>>}
        live == {i \in DOMAIN asked.adds : \A r \in resets : r < i}
        wanted == QueryGrams(asked.query)
        offered == Range(answer.candidates)
    IN /\ \A n \in offered : \A g \in wanted :
            \E i \in live : asked.adds[i][1] = n /\ g \in Grams(asked.adds[i][2])
       /\ (\A i, j \in live : i < j => asked.adds[i][1] <= asked.adds[j][1]) =>
            \A i \in live : wanted \subseteq Grams(asked.adds[i][2]) => asked.adds[i][1] \in offered
==============================================================================
