------------------------------- MODULE MCIndex -------------------------------
(* Instances of Index for TLC. *)
EXTENDS Index, TLC

\* Goroutines and paths are interchangeable: no property names one.
Symmetry == Permutations(Procs) \cup Permutations(Files)
==============================================================================
