--------------------------------- MODULE Order -------------------------------
(****************************************************************************)
(* Sorting and filtering, said so that something can be proved about them.  *)
(****************************************************************************)
EXTENDS Integers, FiniteSets

\* The elements of S in the order of the relation before: an element that k
\* others are before has k places in front of it.
InOrder(S, before) ==
  [k \in 1 .. Cardinality(S) |-> CHOOSE x \in S : Cardinality({y \in S : <<y, x>> \in before}) = k - 1]

Ascending(S) == InOrder(S, {p \in S \X S : p[1] < p[2]})

\* What sequence s has at some places, in the order it has it.
Those(s, places) ==
  LET place == Ascending(places)
  IN [k \in DOMAIN place |-> s[place[k]]]
==============================================================================
