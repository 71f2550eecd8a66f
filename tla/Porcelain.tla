------------------------------ MODULE Porcelain ------------------------------
(****************************************************************************)
(* Reading the output of `git status --porcelain=v1 -z` (picker/picker.go): *)
(* fields that end in a zero byte, an entry being the two status letters, a *)
(* blank and a path, followed, for a rename or a copy, by a field with the  *)
(* path it came from and nothing else.  Fields and paths are sequences of   *)
(* characters, because one may be taken for the other.                      *)
(****************************************************************************)
EXTENDS Integers, SequencesExt

IsRenameOrCopy(x, y) == {x, y} \cap {"R", "C"} # {}

\* parseGitPorcelainKind; "clean" stands for: none of the known ones.
Kind(x, y) ==
  IF x = "?" /\ y = "?" THEN "untracked"
  ELSE IF "R" \in {x, y} THEN "renamed"
  ELSE IF "D" \in {x, y} THEN "deleted"
  ELSE IF "A" \in {x, y} THEN "added"
  ELSE IF "M" \in {x, y} THEN "modified"
  ELSE "clean"

With(statuses, path, kind) ==
  [p \in DOMAIN statuses \cup {path} |-> IF p = path THEN kind ELSE statuses[p]]

\* loadGitStatuses: the statuses so far, and whether the next field is the
\* second one of an entry.
\* Slip: only an entry of a rename has a second field.
ReadFieldRenames(read, field) ==
  LET kind == Kind(field[1], field[2])
  IN IF read.skip THEN [statuses |-> read.statuses, skip |-> FALSE]
     ELSE IF Len(field) < 4 \/ kind = "clean" THEN read
     ELSE [statuses |-> With(read.statuses, SubSeq(field, 4, Len(field)), kind),
           skip |-> field[1] = "R"]

ReadField(read, field) ==
  LET kind == Kind(field[1], field[2])
  IN IF read.skip THEN [statuses |-> read.statuses, skip |-> FALSE]
     ELSE IF Len(field) < 4 \/ kind = "clean" THEN read
     ELSE [statuses |-> With(read.statuses, SubSeq(field, 4, Len(field)), kind),
           skip |-> IsRenameOrCopy(field[1], field[2])]

NothingRead == [statuses |-> [path \in {} |-> "clean"], skip |-> FALSE]

LoadGitStatuses(fields) ==
  LET read[n \in 0 .. Len(fields)] ==
        IF n = 0 THEN NothingRead ELSE ReadField(read[n - 1], fields[n])
  IN read[Len(fields)].statuses

------------------------------------------------------------------------------
\* What git prints for entries [x, y, path, from], and how it is to be read: a
\* file that was removed from git's index and is still there has two entries.
Printed(e) ==
  <<<<e.x, e.y, " ">> \o e.path>> \o (IF IsRenameOrCopy(e.x, e.y) THEN <<e.from>> ELSE <<>>)

Fields(entries) == Append(FlattenSeq([i \in DOMAIN entries |-> Printed(entries[i])]), <<>>)

\* The entries among the first n whose status is known; the last of a path counts.
Known(entries, n) == {i \in 1 .. n : Kind(entries[i].x, entries[i].y) # "clean"}

StatusesUpTo(entries, n) ==
  LET known == Known(entries, n)
  IN [path \in {entries[i].path : i \in known} |->
        LET last == CHOOSE i \in known : /\ entries[i].path = path
                                         /\ \A j \in known : entries[j].path = path => j <= i
        IN Kind(entries[last].x, entries[last].y)]

StatusesOf(entries) == StatusesUpTo(entries, Len(entries))
==============================================================================
