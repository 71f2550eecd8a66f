-------------------------------- MODULE Lines --------------------------------
(****************************************************************************)
(* One file's lines (grep/grep.go): SearchFileContext decides from the head *)
(* of the file whether it is binary, then reads it line by line through a   *)
(* buffered reader and searches each line.  Its context stays open here;    *)
(* module GrepMany has what happens when it ends.                           *)
(*                                                                          *)
(* A place in a text is the number of characters before it, as in the code. *)
(****************************************************************************)
EXTENDS Text, Order

CONSTANTS NewLine, Return, Zero,   \* the characters \n, \r and 0
          HeadSize,                \* the size of the pooled buffers
          ReadSize,                \* the size of bufio.Reader's buffer
          MaxBytes                 \* Options.MaxBytes

ASSUME LineSizesAssumption == {HeadSize, ReadSize, MaxBytes} \subseteq Nat \ {0}

Least(S) == CHOOSE i \in S : \A j \in S : i <= j

\* A buffer of the pool comes with the bytes of the file before; the first n
\* are overwritten, and only they are looked at.
DetectBinary(old, text) ==
  LET n == Least({HeadSize, Len(text)})
      buffer == [i \in 1 .. HeadSize |-> IF i <= n THEN text[i] ELSE old[i]]
  IN \E i \in 1 .. n : buffer[i] = Zero

IsAllLower(q) == \A i \in DOMAIN q : Lower[q[i]] = q[i]

\* Spans, pairs of places, in the order of their beginnings.
Sorted(spans) == InOrder(spans, {p \in spans \X spans : p[1][1] < p[2][1]})

\* strings.Fields: what stands between blanks.
Words(q) ==
  LET edges == {0, Len(q) + 1} \cup {i \in DOMAIN q : q[i] = Blank}
      between == {s \in edges \X edges : s[1] + 1 < s[2] /\ \A i \in edges : i <= s[1] \/ i >= s[2]}
      word == Sorted(between)
  IN [k \in DOMAIN word |-> SubSeq(q, word[k][1] + 1, word[k][2] - 1)]

\* readLinePrefix: where the line from p on ends when at most left characters
\* of it may be read.  A fragment that fills the reader's buffer is not the
\* end of the line.  Nothing was read if this is p itself.
\* Slip: a full buffer ends the line.
ReadLineFragment(text, p, left) ==
  LET edge == Least({p + ReadSize, Len(text)})
      ends == {i \in p + 1 .. edge : text[i] = NewLine}
  IN Least({p + left, Least(ends \cup {edge})})

ReadLine(text, p, left) ==
  LET read[q \in p .. Len(text)] ==
        LET edge == Least({q + ReadSize, Len(text)})
            ends == {i \in q + 1 .. edge : text[i] = NewLine}
            stop == Least(ends \cup {edge})
        IN IF stop >= p + left THEN p + left
           ELSE IF ends = {} /\ stop = q + ReadSize THEN read[stop] ELSE stop
  IN read[p]

\* trimLineEnding: one \n, then one \r.
TrimLineEnding(line) ==
  LET Cut(t, c) == IF t # <<>> /\ Last(t) = c THEN Front(t) ELSE t
  IN Cut(Cut(line, NewLine), Return)

\* Where token tok starts in a line, from place start on.
Starts(line, tok, start) ==
  {i \in start .. Len(line) - Len(tok) : SubSeq(line, i + 1, i + Len(tok)) = tok}

\* findFirstMatch, findCaseInsensitiveRange: an exact match anywhere comes
\* before one in another case.
FindFirst(line, tok, start, ci) ==
  LET exact == Starts(line, tok, start)
      folded == IF ci THEN Starts(Folded(line), Folded(tok), start) ELSE {}
      found == IF exact = {} THEN folded ELSE exact
  IN IF found = {} THEN <<>> ELSE <<Least(found), Least(found) + Len(tok)>>

FindAll(line, tok, ci) ==
  LET all[start \in 0 .. Len(line)] ==
        LET match == FindFirst(line, tok, start, ci)
        IN IF match = <<>> THEN <<>> ELSE <<match>> \o all[match[2]]
  IN all[0]

\* searchLine: every match of a single token, the first one of each of several.
SearchLine(no, line, tokens, ci) ==
  LET hay == IF ci THEN Folded(line) ELSE line
  IN IF \E i \in DOMAIN tokens : Starts(hay, tokens[i], 0) = {} THEN <<>>
     ELSE <<[no |-> no, text |-> line,
             matches |-> IF Len(tokens) = 1 THEN FindAll(line, tokens[1], ci)
                         ELSE [i \in DOMAIN tokens |-> FindFirst(line, tokens[i], 0, ci)]]>>

\* searchReaderLines: from place p on, the no-th line, room for so many more.
SearchLines(text, tokens, ci, limit) ==
  LET from[s \in (0 .. Len(text)) \X Nat \X (0 .. limit)] ==
        LET p == s[1]
            no == s[2]
            room == s[3]
            q == ReadLine(text, p, MaxBytes - p)
            hit == SearchLine(no, TrimLineEnding(SubSeq(text, p + 1, q)), tokens, ci)
        IN IF room = 0 \/ p >= MaxBytes \/ q = p THEN <<>>
           ELSE hit \o from[<<q, no + 1, room - Len(hit)>>]
  IN from[<<0, 1, limit>>]

\* SearchFileContext of a file that can be opened.
Lines(lines) == [lines |-> lines, error |-> FALSE]

SearchFile(text, old, query, limit, opts) ==
  LET ci == opts.caseInsensitive \/ IsAllLower(query)
      tokens == Words(IF ci THEN Folded(query) ELSE query)
  IN IF query = <<>> \/ limit <= 0 THEN Lines(<<>>)
     ELSE IF DetectBinary(old, text) /\ ~opts.includeBinary THEN Lines(<<>>)
     ELSE IF text = <<>> THEN [lines |-> <<>>, error |-> TRUE]
     ELSE IF tokens = <<>> THEN Lines(<<>>)
     ELSE Lines(SearchLines(text, tokens, ci, limit))

------------------------------------------------------------------------------
\* What the search is to find, stated without reading.

\* The lines of the part of the text that is read: pairs of their ends.
LineSpans(text) ==
  LET size == Least({Len(text), MaxBytes})
      breaks == {i \in 1 .. size : text[i] = NewLine}
  IN {s \in ({0} \cup breaks) \X ({size} \cup breaks) :
        s[1] < s[2] /\ \A i \in breaks : i <= s[1] \/ i >= s[2]}

HitsOf(text, tokens, ci, limit) ==
  LET Line(s) == TrimLineEnding(SubSeq(text, s[1] + 1, s[2]))
      Hay(s) == IF ci THEN Folded(Line(s)) ELSE Line(s)
      all == Sorted(LineSpans(text))
      hits == {i \in DOMAIN all : \A k \in DOMAIN tokens : Starts(Hay(all[i]), tokens[k], 0) # {}}
      inOrder == Ascending(hits)
  IN [k \in 1 .. Least({limit, Len(inOrder)}) |->
        [no |-> inOrder[k], text |-> Line(all[inOrder[k]])]]

\* Every place where tok starts in the text is touched by a range.
Covered(ranges, text, tok) ==
  \A i \in Starts(text, tok, 0) :
    \E k \in DOMAIN ranges : ranges[k][1] < i + Len(tok) /\ i < ranges[k][2]

\* The ranges of a hit each show their token, in whichever case counts; those
\* of a single token come in order without overlapping and leave no exact
\* occurrence of it out (one in another case may be left out: see
\* AllOccurrences).
RangesRight(hit, tokens, ci) ==
  LET Shown(r, tok) ==
        LET part == SubSeq(hit.text, r[1] + 1, r[2])
        IN part = tok \/ (ci /\ Folded(part) = tok)
      ms == hit.matches
  IN IF Len(tokens) > 1
     THEN Len(ms) = Len(tokens) /\ \A k \in DOMAIN ms : Shown(ms[k], tokens[k])
     ELSE /\ ms # <<>>
          /\ \A k \in DOMAIN ms : Shown(ms[k], tokens[1])
          /\ \A k \in 2 .. Len(ms) : ms[k - 1][2] <= ms[k][1]
          /\ Covered(ms, hit.text, tokens[1])
==============================================================================
