-------------------------------- MODULE Query --------------------------------
(****************************************************************************)
(* The query language (queryparser): a query is split into tokens, each     *)
(* token is a constraint or a word of the text that is matched fuzzily.     *)
(*                                                                          *)
(* A token is a sequence of characters, except that a key before its colon  *)
(* and a unit, whose lengths nothing depends on, are one element each; case *)
(* is folded already.  A constraint is [nots, of]: a number of negations of *)
(* [kind, value, op, bytes], where op and bytes are those of a size.        *)
(****************************************************************************)
EXTENDS Order, Sequences, SequencesExt, FiniteSetsExt

CONSTANTS Digits,         \* Digits[c]: the number a digit stands for
          SizeUnits,      \* SizeUnits[u]: the bytes of unit u, "" if there is none
          DurationUnits,  \* DurationUnits[u]: the seconds of unit u
          MaxInt          \* the largest int64

Bang == "!"
Star == "*"
Mark == "?"
Dot == "."
Slash == "/"
Colon == ":"
Greater == ">"
Less == "<"
Equal == "="
NoUnit == ""

Keys == {"status", "type", "size", "modified"}
Comparisons == {<<Greater, Equal>>, <<Less, Equal>>, <<Greater>>, <<Less>>, <<Equal>>}
Units == DOMAIN SizeUnits \cup DOMAIN DurationUnits

ASSUME UnitsAssumption ==
  /\ MaxInt \in Nat /\ NoUnit \in DOMAIN SizeUnits
  /\ \A u \in DOMAIN SizeUnits : SizeUnits[u] \in Nat \ {0}
  /\ \A u \in DOMAIN DurationUnits : DurationUnits[u] \in Nat \ {0}

\* Digits, units and marks are told apart.
ASSUME CharactersAssumption ==
  /\ DOMAIN Digits \cap (Units \cup {Bang, Star, Mark, Equal}) = {}
  /\ Units \cap {Star, Mark} = {}

From(t, i) == SubSeq(t, i, Len(t))
Constraint(kind, value) == [kind |-> kind, value |-> value, op |-> <<>>, bytes |-> 0]
NoConstraint == Constraint("none", <<>>)

\* The product of two int64 is cut to 64 bits.
Wrapped(n) == ((n + MaxInt + 1) % (2 * MaxInt + 2)) - MaxInt - 1

\* How many of the first characters, at most so many, are in S.
Leading(t, S, most) ==
  CHOOSE k \in 0 .. most : (\A i \in 1 .. k : t[i] \in S) /\ (k < most => t[k + 1] \notin S)

NumberOf(digits) == FoldLeft(LAMBDA m, c : 10 * m + Digits[c], 0, digits)

\* ParseHumanSize, ParseDurationAgo: digits and a unit, as a set of at most one number.
Amount(t, units) ==
  LET n == Leading(t, DOMAIN Digits, Len(t))
      number == NumberOf(SubSeq(t, 1, n))
      unit == IF n = Len(t) THEN NoUnit ELSE t[n + 1]
  IN IF n = 0 \/ Len(t) > n + 1 \/ unit \notin DOMAIN units \/ number > MaxInt THEN {}
     ELSE {Wrapped(number * units[unit])}

\* parseSizeConstraint: the longer comparisons are tried first.
ParseSize(t) ==
  LET ops == {c \in Comparisons : IsPrefix(c, t)}
      op == CHOOSE c \in ops : \A d \in ops : Len(c) >= Len(d)
      rest == From(t, Len(op) + 1)
  IN IF Len(t) < 2 \/ ops = {} \/ Amount(rest, SizeUnits) = {} THEN NoConstraint
     ELSE [kind |-> "size", value |-> rest, op |-> op,
           bytes |-> CHOOSE n \in Amount(rest, SizeUnits) : TRUE]

\* strings.Trim(t, "/")
Trimmed(t) ==
  LET kept == {i \in DOMAIN t : t[i] # Slash}
  IN IF kept = {} THEN <<>> ELSE SubSeq(t, Min(kept), Max(kept))

\* A token without negation in front.  A size that cannot be read is text.
ParsePlain(t) ==
  LET extension == Len(t) > 2 /\ SubSeq(t, 1, 2) = <<Star, Dot>>
      glob == Range(t) \cap {Star, Mark} # {} /\ ~IsPrefix(<<Star, Dot>>, t)
      segment == Len(t) >= 3 /\ t[1] = Slash /\ Trimmed(t) # <<>>
      colons == {i \in DOMAIN t : t[i] = Colon}
      keyed == colons # {} /\ Min(colons) = 2 /\ Len(t) > 2 /\ t[1] \in Keys
  IN IF extension THEN Constraint("extension", From(t, 3))
     ELSE IF glob THEN Constraint("glob", t)
     ELSE IF segment THEN Constraint("segment", Trimmed(t))
     ELSE IF ~keyed THEN ParseSize(t)
     ELSE IF t[1] = "size" THEN ParseSize(From(t, 3))
     ELSE Constraint(t[1], From(t, 3))

\* parseConstraintToken: "!" alone is no negation, and negated text is a
\* constraint.
\* Slip: one negation is taken off at most.
ParseTokenOnce(t) ==
  LET nots == IF t[1] = Bang /\ Len(t) > 1 THEN 1 ELSE 0
      rest == From(t, nots + 1)
      c == ParsePlain(rest)
  IN [nots |-> nots, of |-> IF c.kind = "none" /\ nots > 0 THEN Constraint("text", rest) ELSE c]

ParseToken(t) ==
  LET nots == Leading(t, {Bang}, Len(t) - 1)
      rest == From(t, nots + 1)
      c == ParsePlain(rest)
  IN [nots |-> nots, of |-> IF c.kind = "none" /\ nots > 0 THEN Constraint("text", rest) ELSE c]

\* QueryParser.Parse of the tokens.
Parse(tokens) ==
  LET texts == {i \in DOMAIN tokens : ParseToken(tokens[i]).of.kind = "none"}
      structured == Those(tokens, DOMAIN tokens \ texts)
  IN [constraints |-> [k \in DOMAIN structured |-> ParseToken(structured[k])],
      fuzzy |-> Those(tokens, texts)]

\* matchOne of a size and of an age; an age that cannot be read is no filter.
\* Module Search has the negations.
Compare(op, a, b) ==
  CASE op = <<Greater>> -> a > b [] op = <<Greater, Equal>> -> a >= b
    [] op = <<Less>> -> a < b [] op = <<Less, Equal>> -> a <= b [] OTHER -> a = b

Admits(c, file, now) ==
  IF c.kind = "size" THEN Compare(c.op, file.size, c.bytes)
  ELSE \A secs \in Amount(c.value, DurationUnits) :
         Wrapped(now - secs) <= file.modified /\ file.modified <= now

------------------------------------------------------------------------------
\* What a query means: an item is [nots, kind, value] as its writer thinks of
\* it, a size and an age with [op, keyed, number, unit] as well.

WithUnit(value, unit) == value \o (IF unit = NoUnit THEN <<>> ELSE <<unit>>)

Plainly(item) ==
  CASE item.kind = "extension" -> <<Star, Dot>> \o item.value
    [] item.kind = "segment" -> <<Slash>> \o item.value \o <<Slash>>
    [] item.kind \in {"status", "type"} -> <<item.kind, Colon>> \o item.value
    [] item.kind = "modified" -> <<item.kind, Colon>> \o WithUnit(item.value, item.unit)
    [] item.kind = "size" ->
         (IF item.keyed THEN <<item.kind, Colon>> ELSE <<>>) \o (item.op \o WithUnit(item.value, item.unit))
    [] OTHER -> item.value

Written(item) == [i \in 1 .. item.nots |-> Bang] \o Plainly(item)

\* A word that is no constraint: "*." and slashes alone are none.
SpellsSize(t) ==
  \E op \in Comparisons : IsPrefix(op, t) /\ Amount(From(t, Len(op) + 1), SizeUnits) # {}
Wild(t) == Range(t) \cap {Star, Mark} # {}
TwoStars(t) == \E i, j \in DOMAIN t : j = i + 1 /\ t[i] = Star /\ t[j] = Star
IsWord(t) ==
  /\ t[1] # Bang /\ ~SpellsSize(t) /\ (Wild(t) => t = <<Star, Dot>>)
  /\ t[1] = Slash => Range(t) = {Slash}
  /\ (Len(t) > 2 /\ t[1] \in Keys /\ t[2] = Colon) => t[1] = "size" /\ ~SpellsSize(From(t, 3))

\* What stands in an item of each kind, as the comments of parseConstraintToken
\* put it: *.xxx is an extension, a glob has a ** or a * and a slash.  Texts of
\* which they say something else than the code does are none: *.a/b and *.a**,
\* which it reads as extensions, *a and a?, as globs, and /a, as a word.
WellFormed(item) ==
  /\ item.nots \in Nat /\ item.value \in Seq(Range(item.value)) /\ item.value # <<>>
  /\ item.kind \in {"extension", "glob", "segment", "status", "type", "size", "modified", "text"}
  /\ item.kind = "extension" => ~Wild(item.value) /\ Slash \notin Range(item.value)
  /\ item.kind = "glob" => /\ {Star, Slash} \subseteq Range(item.value) \/ TwoStars(item.value)
                           /\ item.value[1] # Bang /\ ~IsPrefix(<<Star, Dot>>, item.value)
  /\ item.kind = "segment" => /\ item.value[1] # Slash /\ item.value[Len(item.value)] # Slash
                              /\ ~Wild(item.value)
  /\ item.kind \in {"status", "type"} => ~Wild(item.value)
  /\ item.kind \in {"size", "modified"} =>
       /\ Range(item.value) \subseteq DOMAIN Digits
       /\ item.number \in Nat /\ item.number = NumberOf(item.value)
  /\ item.kind = "size" => /\ item.op \in Comparisons /\ item.keyed \in BOOLEAN
                           /\ item.unit \in DOMAIN SizeUnits /\ item.number <= MaxInt
  /\ item.kind = "modified" => item.unit \in DOMAIN DurationUnits
  /\ item.kind = "text" => IsWord(item.value)

\* A constraint says what an item means: to the byte and to the second, as far
\* as a 64-bit number reaches.
Conveys(c, item, files, now) ==
  /\ c.nots = item.nots /\ c.of.kind = item.kind
  /\ item.kind \notin {"size", "modified"} => c.of.value = item.value
  /\ (item.kind = "size" /\ item.number * SizeUnits[item.unit] <= MaxInt) =>
       \A f \in files :
         Admits(c.of, f, now) <=> Compare(item.op, f.size, item.number * SizeUnits[item.unit])
  /\ (item.kind = "modified" /\ item.number * DurationUnits[item.unit] <= MaxInt) =>
       \A f \in files :
         Admits(c.of, f, now) <=> f.modified \in now - item.number * DurationUnits[item.unit] .. now
==============================================================================
