------------------------------ MODULE MCFeedback -----------------------------
(* Instances of Feedback for TLC. *)
EXTENDS Feedback, TLC

\* Goroutines and queries are interchangeable.
Symmetry == Permutations(Procs) \cup Permutations(Queries)
==============================================================================
