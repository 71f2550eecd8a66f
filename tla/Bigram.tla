-------------------------------- MODULE Bigram -------------------------------
(****************************************************************************)
(* The candidate index (bigram/bigram.go): for every pair of adjacent       *)
(* characters the numbers of the paths that contain it, in the order they   *)
(* were added.                                                              *)
(****************************************************************************)
EXTENDS Text, Order

Grams(t) == LET l == Folded(t) IN {<<l[i], l[i + 1]>> : i \in 1 .. Len(l) - 1}

\* The pairs of a query that lie within a word.
QueryGrams(q) == {g \in Grams(q) : Blank \notin {g[1], g[2]}}

\* Slip: the newest number goes to the front of a list.
AddToFront(index, i, t) ==
  [g \in DOMAIN index |->
     IF g \notin Grams(t) \/ (index[g] # <<>> /\ Head(index[g]) = i)
     THEN index[g] ELSE <<i>> \o index[g]]

\* Adding path t under number i to the lists.  A number is not repeated.
AddTo(index, i, t) ==
  [g \in DOMAIN index |->
     IF g \notin Grams(t) \/ (index[g] # <<>> /\ Last(index[g]) = i)
     THEN index[g] ELSE Append(index[g], i)]

AllGrams == (DOMAIN Lower) \X (DOMAIN Lower)
EmptyIndex == [g \in AllGrams |-> <<>>]

\* Build numbers the paths in the order it is given them.
Build(paths) ==
  LET built[n \in 0 .. Len(paths)] ==
        IF n = 0 THEN EmptyIndex ELSE AddTo(built[n - 1], n, paths[n])
  IN built[Len(paths)]

\* Binary search; the list is taken to be ascending.
\* Slip: the search ends when one number is left, without looking at it.
SortedContainsEarly(s, v) ==
  LET found[p \in (1 .. Len(s) + 1) \X (0 .. Len(s))] ==
        LET lo == p[1]
            hi == p[2]
            mid == (lo + hi) \div 2
        IN /\ lo < hi
           /\ \/ s[mid] = v
              \/ s[mid] < v /\ found[<<mid + 1, hi>>]
              \/ s[mid] > v /\ found[<<lo, mid - 1>>]
  IN found[<<1, Len(s)>>]

SortedContains(s, v) ==
  LET found[p \in (1 .. Len(s) + 1) \X (0 .. Len(s))] ==
        LET lo == p[1]
            hi == p[2]
            mid == (lo + hi) \div 2
        IN /\ lo <= hi
           /\ \/ s[mid] = v
              \/ s[mid] < v /\ found[<<mid + 1, hi>>]
              \/ s[mid] > v /\ found[<<lo, mid - 1>>]
  IN found[<<1, Len(s)>>]

Unavailable == [state |-> "unavailable", candidates |-> <<>>]
NoMatch == [state |-> "nomatch", candidates |-> <<>>]

\* The numbers all lists of the query have in common: the shortest list is
\* filtered by the others.
CandidateOutcome(index, fileCount, q) ==
  LET wanted == QueryGrams(q)
      shortest == CHOOSE g \in wanted : \A h \in wanted : Len(index[g]) <= Len(index[h])
      list == index[shortest]
      common == Those(list, {i \in DOMAIN list : \A g \in wanted \ {shortest} :
                                                   SortedContains(index[g], list[i])})
  IN IF wanted = {} \/ fileCount = 0 THEN Unavailable
     ELSE IF common = <<>> THEN NoMatch
     ELSE [state |-> "found", candidates |-> common]

------------------------------------------------------------------------------
\* BigramOverlay: the same lists, filled by Add calls that choose the numbers.

NewOverlay == [index |-> EmptyIndex, fileCount |-> 0]

OverlayAdd(o, i, t) == [index |-> AddTo(o.index, i, t), fileCount |-> o.fileCount + 1]

\* adds is a sequence of Add calls <<number, path>>, or <<>> for Reset.
Overlay(adds) ==
  LET overlay[n \in 0 .. Len(adds)] ==
        IF n = 0 \/ adds[n] = <<>> THEN NewOverlay
        ELSE OverlayAdd(overlay[n - 1], adds[n][1], adds[n][2])
  IN overlay[Len(adds)]

OverlayOutcome(o, q) == CandidateOutcome(o.index, o.fileCount, q)
==============================================================================
