-------------------------------- MODULE Rules --------------------------------
(****************************************************************************)
(* Which files a scan meets and which ones a glob selects                   *)
(* (picker/picker.go): the walk below the root with its ignore rules, and   *)
(* matchGlob.                                                               *)
(*                                                                          *)
(* A path below the root is a sequence of names.  filepath.Match, which     *)
(* never lets a pattern reach over a slash, is the relation Match between a *)
(* pattern and a name; a longer pattern matches a path name by name.  Globs *)
(* and the paths they are matched with are in lower case already.           *)
(****************************************************************************)
EXTENDS Order, Sequences, SequencesExt

CONSTANTS Match,         \* pairs of a pattern and a name it matches
          SkippedNames,  \* .git, .svn, .hg, .idea and node_modules
          AnyDepth       \* the pattern **

Whole(parts, path) ==
  Len(parts) = Len(path) /\ \A i \in DOMAIN parts : <<parts[i], path[i]>> \in Match

\* The parts can be laid along the path: end[i] levels are used up by the first i
\* parts, one by an ordinary part and any number by **.
Laid(parts, path) ==
  \E end \in [0 .. Len(parts) -> 0 .. Len(path)] :
    /\ end[0] = 0 /\ end[Len(parts)] = Len(path)
    /\ \A i \in DOMAIN parts :
         IF parts[i] = AnyDepth THEN end[i] >= end[i - 1]
         ELSE end[i] = end[i - 1] + 1 /\ <<parts[i], path[end[i]]>> \in Match

------------------------------------------------------------------------------
\* The ignore rules: [mark, dir, rooted, parts] is a line of a file, with mark
\* "#" or "!" in front, a slash in front if rooted and one at its end if dir.

\* loadRootIgnoreRules
LoadRules(gitignore, ignore) ==
  LET lines == gitignore \o ignore
  IN Those(lines, {i \in DOMAIN lines : lines[i].mark = "" /\ lines[i].parts # <<>>})

Named(rule, path) ==
  IF Len(rule.parts) > 1 THEN Whole(rule.parts, path)
  ELSE rule.parts[1] = Last(path) \/ <<rule.parts[1], Last(path)>> \in Match

\* Slip: the whole path is compared also with a rule of one name.
MatchDirWhole(rules, path) == \E i \in DOMAIN rules : Whole(rules[i].parts, path)

MatchDir(rules, path) == \E i \in DOMAIN rules : Named(rules[i], path)

MatchFile(rules, path) ==
  \E i \in DOMAIN rules :
    IF rules[i].dir THEN IsPrefix(rules[i].parts, path) ELSE Named(rules[i], path)

\* The paths a walk of files (from paths to their types) below a directory
\* called rootName keeps.  A directory that is pruned is not entered; a regular
\* file whose Info cannot be had is of type "lost".
Walk(files, rootName, rules, ignoreFn) ==
  LET Pruned(dir) == Last(dir) \in SkippedNames \/ MatchDir(rules, dir)
      Entered(path) == /\ rootName \notin SkippedNames
                       /\ \A k \in 1 .. Len(path) - 1 : ~Pruned(SubSeq(path, 1, k))
  IN {path \in DOMAIN files : /\ Entered(path)
                              /\ files[path] = "regular"
                              /\ ~MatchFile(rules, path)
                              /\ path \notin ignoreFn}

\* What a rule of such a file says of a path, as git reads it: a rule with a slash
\* before its end is laid along the path, ** taking up any number of levels, but one
\* at least if it ends the rule; ** alone is a pattern for a name.
Anchored(rule) == rule.rooted \/ Len(rule.parts) > 1

LaidByGit(parts, path) ==
  IF Last(parts) = AnyDepth THEN \E k \in 0 .. Len(path) - 1 : Laid(Front(parts), SubSeq(path, 1, k))
  ELSE Laid(parts, path)

Says(rule, path, isDir) ==
  /\ rule.dir => isDir
  /\ IF Anchored(rule) THEN LaidByGit(rule.parts, path)
     ELSE <<rule.parts[1], Last(path)>> \in Match

IgnoredByGit(rules, path) ==
  \E i \in DOMAIN rules : \E k \in 1 .. Len(path) :
    Says(rules[i], SubSeq(path, 1, k), k < Len(path))

\* Where the walk keeps more than git would: it takes ** for one name, so it does
\* not see a rule that fits only if ** takes up another number of levels.
Deep(rule, path) == Anchored(rule) /\ AnyDepth \in Range(rule.parts) /\ ~Whole(rule.parts, path)

KeptMore(rules, path) ==
  \A i \in DOMAIN rules : \A k \in 1 .. Len(path) :
    Says(rules[i], SubSeq(path, 1, k), k < Len(path)) => Deep(rules[i], SubSeq(path, 1, k))

\* Where the walk leaves out more than git would.
LeftOutMore(rules, path) ==
  \E i \in DOMAIN rules :
    \/ rules[i].dir /\ rules[i].parts = path
    \/ rules[i].dir /\ IsPrefix(rules[i].parts, path) /\ ~Whole(rules[i].parts, rules[i].parts)
    \/ /\ Len(rules[i].parts) = 1
       /\ \E k \in DOMAIN path : rules[i].parts[1] = path[k] /\ <<path[k], path[k]>> \notin Match
    \/ /\ rules[i].rooted /\ Len(rules[i].parts) = 1
       /\ \E k \in 2 .. Len(path) : <<rules[i].parts[1], path[k]>> \in Match

------------------------------------------------------------------------------
\* Globs: [rooted, parts].

\* matchGlobSegments
\* Slip: ** stands for one level at least.
MatchSegmentsSome(parts, path) ==
  LET match[p \in (1 .. Len(parts) + 1) \X (1 .. Len(path) + 1)] ==
        LET i == p[1]
            j == p[2]
        IN IF i > Len(parts) THEN j > Len(path)
           ELSE IF parts[i] = AnyDepth THEN \E k \in j + 1 .. Len(path) + 1 : match[<<i + 1, k>>]
           ELSE j <= Len(path) /\ <<parts[i], path[j]>> \in Match /\ match[<<i + 1, j + 1>>]
  IN match[<<1, 1>>]

MatchSegments(parts, path) ==
  LET match[p \in (1 .. Len(parts) + 1) \X (1 .. Len(path) + 1)] ==
        LET i == p[1]
            j == p[2]
        IN IF i > Len(parts) THEN j > Len(path)
           ELSE IF parts[i] = AnyDepth THEN \E k \in j .. Len(path) + 1 : match[<<i + 1, k>>]
           ELSE j <= Len(path) /\ <<parts[i], path[j]>> \in Match /\ match[<<i + 1, j + 1>>]
  IN match[<<1, 1>>]

\* matchGlob: a glob without ** keeps its leading slash, which no path has.
MatchGlob(glob, path) ==
  IF AnyDepth \in Range(glob.parts) THEN MatchSegments(glob.parts, path)
  ELSE ~glob.rooted /\ Whole(glob.parts, path)
==============================================================================
