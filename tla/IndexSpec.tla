------------------------------ MODULE IndexSpec ------------------------------
(****************************************************************************)
(* What an fg.Index promises to the goroutines that share its handle: one   *)
(* register that holds a whole snapshot of the tree.  A refresh replaces    *)
(* the snapshot in one step by one that is nowhere older, a search answers  *)
(* from the snapshot it finds in one step, and closing empties the          *)
(* register for good.  How a scan, a swap and a search are carried out is   *)
(* the business of Index.tla, which implements this specification.          *)
(****************************************************************************)
EXTENDS Integers

CONSTANTS Procs,      \* the goroutines that call the index
          Files,      \* the paths below the root
          MaxEdits,   \* bound: how often one path changes
          Nothing     \* "no snapshot" and "no answer"

VARIABLES disk,       \* disk[f]: how often path f has changed
          content,    \* the published snapshot, or Nothing
          closed,     \* the index has been closed
          answer      \* answer[p]: the snapshot p's search answers from

vars == <<disk, content, closed, answer>>

Snapshots == [Files -> 0 .. MaxEdits]

\* Snapshot t is nowhere older than snapshot s.
NotOlder(s, t) == \A f \in Files : s[f] <= t[f]

Init == /\ disk = [f \in Files |-> 0]
        /\ content = Nothing
        /\ closed = FALSE
        /\ answer = [p \in Procs |-> Nothing]

\* The tree changes under the index.
Edit == \E f \in Files : /\ disk[f] < MaxEdits
                         /\ disk' = [disk EXCEPT ![f] = @ + 1]
                         /\ UNCHANGED <<content, closed, answer>>

\* A refresh succeeds: a snapshot no newer than the tree and no older than
\* the one it replaces is published.
Publish == /\ ~closed
           /\ content' \in Snapshots
           /\ NotOlder(content', disk)
           /\ content # Nothing => NotOlder(content, content')
           /\ UNCHANGED <<disk, closed, answer>>

\* A search finds its snapshot.
Take(p) == /\ ~closed
           /\ content # Nothing
           /\ answer' = [answer EXCEPT ![p] = content]
           /\ UNCHANGED <<disk, content, closed>>

\* A search fails, or the answer is no longer of interest.
Drop(p) == /\ answer' = [answer EXCEPT ![p] = Nothing]
           /\ UNCHANGED <<disk, content, closed>>

\* The index is closed.
Shut == /\ ~closed
        /\ closed' = TRUE
        /\ content' = Nothing
        /\ UNCHANGED <<disk, answer>>

\* A new index is opened where an unshared one was closed.
Reopen(p) == /\ closed
             /\ closed' = FALSE
             /\ answer' = [answer EXCEPT ![p] = Nothing]
             /\ UNCHANGED <<disk, content>>

Next == \/ Edit
        \/ Publish
        \/ Shut
        \/ \E p \in Procs : Take(p) \/ Drop(p) \/ Reopen(p)

Spec == Init /\ [][Next]_vars
==============================================================================
