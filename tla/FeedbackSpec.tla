----------------------------- MODULE FeedbackSpec ----------------------------
(****************************************************************************)
(* What the two trackers promise to the goroutines that share them: a touch *)
(* or a choice counts once, at one moment between its call and its return,  *)
(* or reports an error and does not count; the query of a choice is the     *)
(* last one from the moment the choice counts.  How reads and writes of the *)
(* stores add up to that is the business of Feedback.tla, which implements  *)
(* this specification.                                                      *)
(****************************************************************************)
EXTENDS Integers

CONSTANTS Procs,     \* the goroutines that call the trackers
          Files,     \* the paths that are touched or chosen
          Queries,   \* the queries, the empty one apart
          Empty,     \* the empty query
          Stores,    \* which of the stores "mem" and "bolt" there are
          Max,       \* the highest count
          None       \* no query, no call

VARIABLES kind,      \* which store both trackers use
          topen,     \* touches can be counted
          qopen,     \* choices can be counted
          counts,    \* the count of each file, and of each query and file
          last,      \* the last query
          call,      \* call[p]: what p's call under way counts, or None
          outcome    \* outcome[p]: "none" before that moment, then "ok" or "failed"

vars == <<kind, topen, qopen, counts, last, call, outcome>>

Choices == (Queries \cup {Empty}) \X Files
Keys == Files \cup Choices

Init == /\ kind \in Stores /\ topen = TRUE /\ qopen = TRUE
        /\ counts = [k \in Keys |-> 0] /\ last = None
        /\ call = [p \in Procs |-> None] /\ outcome = [p \in Procs |-> "none"]

Under(p) == call[p] # None /\ outcome[p] = "none"
Open(k) == IF k \in Files THEN topen ELSE qopen
OneMore(k) == [counts EXCEPT ![k] = IF @ = Max THEN 1 ELSE @ + 1]

Call(p, k) == /\ call[p] = None
              /\ call' = [call EXCEPT ![p] = k]
              /\ UNCHANGED <<kind, topen, qopen, counts, last, outcome>>

\* The call counts.  Only a file may fail to keep the query.
Effect(p) ==
  /\ Under(p) /\ Open(call[p])
  /\ counts' = OneMore(call[p])
  /\ \/ call[p] \in Queries \X Files /\ last' = call[p][1]
     \/ (call[p] \notin Queries \X Files \/ kind = "bolt") /\ last' = last
  /\ outcome' = [outcome EXCEPT ![p] = "ok"]
  /\ UNCHANGED <<kind, topen, qopen, call>>

\* The call fails: memory only fails when it is closed.
Fail(p) == /\ Under(p)
           /\ kind = "bolt" \/ ~Open(call[p])
           /\ outcome' = [outcome EXCEPT ![p] = "failed"]
           /\ UNCHANGED <<kind, topen, qopen, counts, last, call>>

Return(p) == /\ outcome[p] # "none"
             /\ call' = [call EXCEPT ![p] = None]
             /\ outcome' = [outcome EXCEPT ![p] = "none"]
             /\ UNCHANGED <<kind, topen, qopen, counts, last>>

\* Memory forgets what a file keeps.
Forgetting(keys) ==
  counts' = [k \in Keys |-> IF kind = "mem" /\ k \in keys THEN 0 ELSE counts[k]]

CloseTouches == /\ topen' = FALSE
                /\ Forgetting(Files)
                /\ UNCHANGED <<kind, qopen, last, call, outcome>>

CloseChoices == /\ qopen' = FALSE
                /\ Forgetting(Choices)
                /\ last' = IF kind = "mem" THEN None ELSE last
                /\ UNCHANGED <<kind, topen, call, outcome>>

\* The process dies and another opens the stores; one choice under way may
\* have counted without its query.
Crash == /\ topen' = TRUE /\ qopen' = TRUE
         /\ call' = [p \in Procs |-> None] /\ outcome' = [p \in Procs |-> "none"]
         /\ \/ Forgetting(Keys)
            \/ \E p \in Procs : /\ kind = "bolt" /\ Under(p) /\ call[p] \in Queries \X Files
                                /\ counts' = OneMore(call[p])
         /\ last' = IF kind = "mem" THEN None ELSE last
         /\ UNCHANGED kind

Next == \/ Crash \/ CloseTouches \/ CloseChoices
        \/ \E p \in Procs : \/ \E k \in Keys : Call(p, k)
                            \/ Effect(p) \/ Fail(p) \/ Return(p)

Spec == Init /\ [][Next]_vars
==============================================================================
