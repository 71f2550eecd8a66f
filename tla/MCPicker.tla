------------------------------- MODULE MCPicker ------------------------------
(* Instances of Picker for TLC. *)
EXTENDS Picker, TLC

\* Goroutines are interchangeable; paths are ordered and are not.
Symmetry == Permutations(Procs)
==============================================================================
