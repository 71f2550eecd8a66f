-------------------------------- MODULE MCParts ------------------------------
(* Instances of Parts for TLC. *)
EXTENDS Parts

MCLower == [c \in {"a", "b", "A", "nl", "cr", "zero", " "} |-> IF c = "A" THEN "a" ELSE c]

\* Longer than the reader's buffer, the pooled buffer and the bytes read.
MCContents == SeqOf({"a", "A", "nl"}, 5) \cup SeqOf({"a", "A", "nl", "cr", "zero"}, 3)
MCStale == <<"zero", "zero">>
MCGrepQueries == {<<>>, <<" ">>, <<"a">>, <<"A">>, <<"a", "a">>, <<"a", " ", "a", "a">>, <<"A", " ", "a">>}
MCGrepOptions == {[caseInsensitive |-> FALSE, includeBinary |-> FALSE],
                  [caseInsensitive |-> FALSE, includeBinary |-> TRUE],
                  [caseInsensitive |-> TRUE, includeBinary |-> FALSE]}

\* "[" is a malformed pattern and a name.
MCMatch == {<<"a", "a">>, <<"b", "b">>, <<"src", "src">>, <<"build", "build">>, <<"sub", "sub">>}
           \cup {"*", "**"} \X {"a", "b", "src", "build", "sub", "[", "node_modules", "link"}
MCGlobs == [rooted : BOOLEAN, parts : SeqOf({"**", "*", "a", "b"}, 4) \ {<<>>}]
MCGlobPaths == SeqOf({"a", "b"}, 3) \ {<<>>}

MCTree ==
  [p \in {<<"a">>, <<"b">>, <<"[">>, <<"link">>, <<"build", "a">>, <<"src", "a">>, <<"src", "build">>,
          <<"src", "sub", "a">>, <<"sub", "build", "b">>, <<"sub", "[", "a">>, <<"node_modules", "b">>,
          <<"src", "b">>}
     |-> CASE p = <<"link">> -> "symlink" [] p = <<"src", "b">> -> "lost" [] OTHER -> "regular"]
Line(mark, rooted, parts, dir) == [mark |-> mark, rooted |-> rooted, parts |-> parts, dir |-> dir]
MCIgnoreFiles ==
  SeqOf({Line("", FALSE, <<"b">>, FALSE), Line("", TRUE, <<"a">>, FALSE), Line("", FALSE, <<"build">>, TRUE),
         Line("", FALSE, <<"b">>, TRUE), Line("", FALSE, <<"src", "*">>, FALSE), Line("", FALSE, <<"[">>, FALSE),
         Line("", TRUE, <<"src", "sub">>, TRUE), Line("", FALSE, <<"sub", "[">>, TRUE), Line("!", FALSE, <<"a">>, FALSE),
         Line("", FALSE, <<"**", "b">>, FALSE), Line("", FALSE, <<"src", "**", "a">>, FALSE),
         Line("", FALSE, <<"sub", "**">>, FALSE), Line("#", FALSE, <<"a">>, FALSE), Line("", FALSE, <<>>, FALSE)}, 2)
MCIgnoreFns == {{}, {<<"src", "a">>}}

\* Paths that look like entries.
MCPaths == {<<"a">>, <<"M", " ", " ", "a">>, <<"?", "?", " ", "b">>}
MCEntries == [x : {"M", "D", "A", "R", "C", "U", "?", " "}, y : {"M", "U", "?", " "}, path : MCPaths, from : MCPaths]
GitPrints(e) == (e.x = "?" <=> e.y = "?") /\ <<e.x, e.y>> # <<" ", " ">> /\ (IsRenameOrCopy(e.x, e.y) \/ e.from = e.path)
RemovedFromIndex(e, untracked) == e.x = "D" /\ e.y = " " /\ untracked.x = "?"
MCOutputs ==
  {out \in SeqOf({e \in MCEntries : GitPrints(e)}, 2) :
     \A i, j \in DOMAIN out :
       i < j /\ out[i].path = out[j].path => RemovedFromIndex(out[i], out[j])}

MCDigits == [c \in {"0", "1", "9"} |-> CASE c = "0" -> 0 [] c = "1" -> 1 [] c = "9" -> 9]
MCSizeUnits == [u \in {"", "B", "KB", "MB"} |-> CASE u = "KB" -> 4 [] u = "MB" -> 16 [] OTHER -> 1]
MCDurationUnits == [u \in {"s", "h", "d"} |-> CASE u = "s" -> 1 [] u = "h" -> 5 [] u = "d" -> 40]
Item(kind, value) == [nots |-> 0, kind |-> kind, value |-> value, op |-> <<>>, keyed |-> FALSE, number |-> 0, unit |-> ""]
MCNumbers == {<<"1", 1>>, <<"9", 9>>}
MCPlainItems ==
  {Item("extension", <<"a">>), Item("extension", <<"a", ".", "b">>), Item("segment", <<"a">>),
   Item("segment", <<"a", "/", "b">>), Item("glob", <<"*", "*", "/", "*", ".", "a">>),
   Item("glob", <<"/", "a", "*">>), Item("glob", <<"a", "*", "*">>), Item("status", <<"a">>), Item("type", <<":", "a">>),
   Item("text", <<"a">>), Item("text", <<"a", ":", "b">>), Item("text", <<":">>), Item("text", <<"/", "/", "/">>),
   Item("text", <<"*", ".">>), Item("text", <<"size", ":", "9">>), Item("text", <<">", "a">>), Item("text", <<"9", "KB">>)}
  \cup {[Item("size", <<n[1]>>) EXCEPT !.op = op, !.keyed = k, !.number = n[2], !.unit = u] :
          op \in Comparisons, k \in BOOLEAN, n \in MCNumbers, u \in DOMAIN MCSizeUnits}
  \cup {[Item("modified", <<n[1]>>) EXCEPT !.number = n[2], !.unit = u] :
          n \in MCNumbers, u \in DOMAIN MCDurationUnits}
MCItems == {[i EXCEPT !.nots = n] : i \in MCPlainItems, n \in 0 .. 2}
MCQueries == {<<i>> : i \in MCItems} \cup {<<i, j>> : i \in MCItems, j \in {k \in MCItems : k.op = <<>> /\ k.unit = ""}}
MCFileAttributes == [size : {0, 1, 4, 9, 36, 50}, modified : {0, 55, 60, 99, 100, 101}]

MCNumber == [v \in {"0", "3"} |-> IF v = "3" THEN 3 ELSE 0]
Apart(name, value) == [style |-> "apart", name |-> name, value |-> value]
MCOptions ==
  {Apart("r", Word("src")), Apart("root", [dash |-> 2, name |-> "score", val |-> NoValue]),
   Apart("limit", Word("3")), Apart("limit", Word("src")),
   Apart("limit", [dash |-> 1, name |-> "3", val |-> NoValue]), Apart("grep", Word("w")), Apart("grep", Word("")),
   Apart("limit", Dashes), Apart("grep", Dashes),
   [style |-> "equals", name |-> "limit", text |-> "0"], [style |-> "equals", name |-> "root", text |-> "w"],
   [style |-> "equals", name |-> "score", text |-> "false"], [style |-> "equals", name |-> "depth", text |-> "3"],
   [style |-> "switch", name |-> "score"], [style |-> "switch", name |-> "h"]}
MCWords == {[style |-> "word", text |-> w] : w \in {"w", "src", "root", "score"}}
MCCommandLines == SeqOf(MCOptions \cup MCWords, 3)
MCAfterDashes == {<<>>, <<Word("limit")>>, <<[dash |-> 2, name |-> "score", val |-> NoValue], Dashes>>}
MCLibraries ==
  [scanned : {<<1, 2, 3, 4>>}, found : {<<>>, <<4, 2>>}, hits : {{}, {2, 3, 4}, {1, 2, 3, 4}}, fails : {"none", "search", "scan", "grep"}]

MCAddCalls ==
  SeqOf({<<n, t>> : n \in 1 .. 3, t \in {<<"a", "b">>, <<"b", "A", "b">>, <<"b">>, <<"b", "b", "a">>}} \cup {<<>>}, 3)
MCOverlayQueries == {<<"a", "b">>, <<"b", "a", "b">>, <<"b", "b", " ", "b", "A">>, <<"a", " ", "b">>}

MCScores == {-1, 1, 2}
==============================================================================
