---------------------------------- MODULE Cli --------------------------------
(****************************************************************************)
(* The command line (cmd/fg/main.go): which arguments are flags, which are  *)
(* the query, what is run and with which exit status.                       *)
(*                                                                          *)
(* An argument is [dash, name, val]: the number of dashes in front, the     *)
(* word after them up to an equals sign, and what follows that, if there is *)
(* one.  The flag package is modelled as main.go uses it.                   *)
(****************************************************************************)
EXTENDS Order, SequencesExt

CONSTANTS Number,        \* Number[v]: the integer that v spells
          DefaultLimit,  \* defaultLimit
          NoValue        \* there is no equals sign

ASSUME NumberAssumption ==
  /\ \A v \in DOMAIN Number : Number[v] \in Nat
  /\ DefaultLimit \in Nat \ {0}

ValueFlags == {"r", "root", "limit", "grep"}
BoolFlags == {"score", "help", "h"}
Word(w) == [dash |-> 0, name |-> w, val |-> NoValue]
Dash == [dash |-> 1, name |-> "", val |-> NoValue]
Dashes == [dash |-> 2, name |-> "", val |-> NoValue]

\* isValueFlag and isBoolFlag take any number of dashes off, none too.
IsValueFlag(arg) == arg.name \in ValueFlags
IsBoolFlag(arg) == arg.name \in BoolFlags /\ arg.val = NoValue

IsFlag(arg) == IsValueFlag(arg) \/ IsBoolFlag(arg) \/ arg.dash > 0

\* splitFlagArgs, one argument after the other; next is what the next one is
\* taken for.
\* Slip: a value that looks like a flag is not taken to be a value.
SplitArgDashed(split, arg) ==
  CASE split.next = "word" -> [split EXCEPT !.rest = Append(@, arg)]
    [] split.next = "value" /\ arg.dash = 0 ->
         [flags |-> Append(split.flags, arg), rest |-> split.rest, next |-> "any"]
    [] OTHER -> IF arg = Dashes THEN [split EXCEPT !.next = "word"]
                ELSE IF ~IsFlag(arg) THEN [split EXCEPT !.rest = Append(@, arg)]
                ELSE [flags |-> Append(split.flags, arg), rest |-> split.rest,
                      next |-> IF IsValueFlag(arg) /\ arg.val = NoValue THEN "value" ELSE "any"]

SplitArg(split, arg) ==
  CASE split.next = "word" -> [split EXCEPT !.rest = Append(@, arg)]
    [] split.next = "value" -> [flags |-> Append(split.flags, arg), rest |-> split.rest, next |-> "any"]
    [] OTHER -> IF arg = Dashes THEN [split EXCEPT !.next = "word"]
                ELSE IF ~IsFlag(arg) THEN [split EXCEPT !.rest = Append(@, arg)]
                ELSE [flags |-> Append(split.flags, arg), rest |-> split.rest,
                      next |-> IF IsValueFlag(arg) /\ arg.val = NoValue THEN "value" ELSE "any"]

NothingSplit == [flags |-> <<>>, rest |-> <<>>, next |-> "any"]

SplitFlagArgs(args) ==
  LET split[n \in 0 .. Len(args)] ==
        IF n = 0 THEN NothingSplit ELSE SplitArg(split[n - 1], args[n])
  IN split[Len(args)]

\* Two names may set one variable, and the last one wins.
Variable(name) == CASE name = "r" -> "root" [] name = "h" -> "help" [] OTHER -> name

Legal(name, value) ==
  CASE name = "limit" -> value.dash <= 1 /\ value.val = NoValue /\ value.name \in DOMAIN Number
    [] name \in BoolFlags -> value \in {Word("true"), Word("false")}
    [] OTHER -> name \in ValueFlags

\* flag.FlagSet.Parse, one argument after the other, up to the first that is no
\* flag: next is what comes next, name the flag that has no value yet.
Assign(parse, name, value) ==
  IF ~Legal(name, value) THEN [parse EXCEPT !.next = "error"]
  ELSE [next |-> "flag", name |-> "",
        set |-> [v \in DOMAIN parse.set \cup {Variable(name)} |->
                   IF v = Variable(name) THEN value ELSE parse.set[v]]]

ParseFlag(parse, arg) ==
  CASE parse.next \in {"nothing", "error"} -> parse
    [] parse.next = "value" -> Assign(parse, parse.name, arg)
    [] OTHER -> IF arg.dash = 0 \/ arg \in {Dash, Dashes} THEN [parse EXCEPT !.next = "nothing"]
                ELSE IF arg.val # NoValue THEN Assign(parse, arg.name, Word(arg.val))
                ELSE IF arg.name \in BoolFlags THEN Assign(parse, arg.name, Word("true"))
                ELSE [next |-> IF arg.name \in ValueFlags THEN "value" ELSE "error",
                      name |-> arg.name, set |-> parse.set]

NothingSet == [next |-> "flag", name |-> "", set |-> [v \in {} |-> Word("")]]

ParseFlags(args) ==
  LET parse[n \in 0 .. Len(args)] ==
        IF n = 0 THEN NothingSet ELSE ParseFlag(parse[n - 1], args[n])
  IN parse[Len(args)]

Defaults == [root |-> Word("."), limit |-> Word("default"), score |-> Word("false"),
             grep |-> Word(""), help |-> Word("false")]

\* run, up to the call of the library: the status it ends with, or what it asks.
Status(code) == [exit |-> code]
Request(set, words) ==
  LET cfg == [v \in DOMAIN Defaults |-> IF v \in DOMAIN set THEN set[v] ELSE Defaults[v]]
      limit == IF cfg.limit = Word("default") THEN DefaultLimit
               ELSE IF cfg.limit.dash = 1 THEN -Number[cfg.limit.name] ELSE Number[cfg.limit.name]
  IN IF cfg.help = Word("true") THEN Status(0)
     ELSE IF words \in {<<>>, <<Word("")>>} /\ cfg.grep = Word("") THEN Status(2)
     ELSE [root |-> cfg.root, score |-> cfg.score, query |-> words, grep |-> cfg.grep,
           limit |-> IF limit <= 0 THEN DefaultLimit ELSE limit]

Run(args) ==
  LET split == SplitFlagArgs(args)
      flags == ParseFlags(split.flags)
  IN IF flags.next \in {"value", "error"} THEN Status(2) ELSE Request(flags.set, split.rest)

\* runSearch, runGrep, grepTargets and printGrepResults: the files whose lines
\* or paths are printed and the exit status.  lib says what the library makes
\* of the request: the files a search and a scan find, those with hits, and
\* which of the three calls fails.
Execute(request, lib) ==
  LET searching == request.query \notin {<<>>, <<Word("")>>}
      grepping == request.grep # Word("")
      targets == IF searching THEN lib.found ELSE lib.scanned
      hits == Those(targets, {i \in DOMAIN targets : targets[i] \in lib.hits})
  IN IF lib.fails = (IF searching THEN "search" ELSE "scan") THEN [printed |-> <<>>, exit |-> 1]
     ELSE IF ~grepping THEN [printed |-> targets, exit |-> 0]
     ELSE [printed |-> SubSeq(hits, 1, Min({request.limit, Len(hits)})),
           exit |-> IF lib.fails = "grep" THEN 1 ELSE 0]

------------------------------------------------------------------------------
\* A command line as its writer thinks of it: options [style, name] with a value
\* or text, words, and words after "--".

Args(item) ==
  CASE item.style = "word" -> <<Word(item.text)>>
    [] item.style = "switch" -> <<[dash |-> 2, name |-> item.name, val |-> NoValue]>>
    [] item.style = "equals" -> <<[dash |-> 1, name |-> item.name, val |-> item.text]>>
    [] item.style = "apart" -> <<[dash |-> 1, name |-> item.name, val |-> NoValue], item.value>>

\* A switch is none of the options with a value, and those it has no equals sign.
Typeable(item) ==
  /\ item.style \in {"word", "switch", "equals", "apart"}
  /\ item.style = "switch" => item.name \notin ValueFlags \cup {""}
  /\ item.style = "equals" => item.text # NoValue
  /\ item.style = "apart" => item.name \in ValueFlags

ValueOf(item) == CASE item.style = "switch" -> Word("true")
                   [] item.style = "equals" -> Word(item.text)
                   [] OTHER -> item.value

\* What the options among the first n items set, the last of a variable counting.
OptionsUpTo(items, n) == {i \in 1 .. n : items[i].style # "word"}

SetUpTo(items, n) ==
  LET options == OptionsUpTo(items, n)
  IN [v \in {Variable(items[i].name) : i \in options} |->
        LET last == CHOOSE i \in options : /\ Variable(items[i].name) = v
                                           /\ \A j \in options : Variable(items[j].name) = v => j <= i
        IN ValueOf(items[last])]

WordsUpTo(items, n) ==
  LET words == Those(items, {i \in 1 .. n : items[i].style = "word"})
  IN [k \in DOMAIN words |-> Word(words[k].text)]

\* What is to be run for these items and the words after "--".
Wanted(items, after) ==
  LET n == Len(items)
  IN IF \E i \in OptionsUpTo(items, n) : ~Legal(items[i].name, ValueOf(items[i])) THEN Status(2)
     ELSE Request(SetUpTo(items, n), WordsUpTo(items, n) \o after)

\* The arguments that the items are typed as.
Typed(items, after) ==
  FlattenSeq([i \in DOMAIN items |-> Args(items[i])])
    \o (IF after = <<>> THEN <<>> ELSE <<Dashes>> \o after)
==============================================================================
