--------------------------------- MODULE Text --------------------------------
(****************************************************************************)
(* Texts, as the matchers and the index see them: sequences of characters,  *)
(* one place each.  Lower folds the case of a character, Blank separates    *)
(* words.                                                                   *)
(****************************************************************************)
EXTENDS Integers, Sequences, FiniteSets, SequencesExt

CONSTANTS Lower,   \* Lower[c]: character c in lower case
          Blank    \* the character between words

ASSUME LowerAssumption ==
  \A c \in DOMAIN Lower : Lower[c] \in DOMAIN Lower /\ Lower[Lower[c]] = Lower[c]

ASSUME BlankAssumption == Blank \in DOMAIN Lower /\ Lower[Blank] = Blank

Folded(t) == [i \in DOMAIN t |-> Lower[t[i]]]
==============================================================================
