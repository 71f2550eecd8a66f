------------------------------- MODULE MCSearch ------------------------------
(* Instances of Search for TLC. *)
EXTENDS Search

MCLower == [c \in {"a", "b", "A", ".", "/", " "} |-> IF c = "A" THEN "a" ELSE c]

\* ab.b, ab/A and ba: a walk enters the directory ab before it meets ab.b.
MCPathText == <<<<"a", "b", ".", "b">>, <<"a", "b", "/", "A">>, <<"b", "a">>>>
MCWalkOrder == <<2, 1, 3>>

MCAttributes == {[base |-> 0, modified |-> 1, binary |-> FALSE],
                 [base |-> 40, modified |-> 0, binary |-> TRUE]}
MCCombos == {<<0, 0, 0>>, <<0, 30, 0>>}
MCWords == {<<>>, <<<<"b">>>>, <<<<"A", "b">>>>, <<<<"b", "b">>>>, <<<<"b", "/">>>>,
            <<<<"a", "b">>, <<"/">>>>, <<<<"b", ".">>, <<"A", "b">>>>}

Is(kind, value) == [nots |-> 0, kind |-> kind, value |-> value]
Not(c) == [c EXCEPT !.nots = @ + 1]

MCAccepts == [dotted |-> {1}, recent |-> {1}]
MCQueries == {<<>>, <<Is("path", "dotted")>>, <<Not(Is("path", "dotted"))>>,
              <<Is("status", "deleted")>>, <<Not(Is("status", "modified"))>>,
              <<Is("status", "dirty"), Is("meta", "recent")>>,
              <<Is("status", "clean"), Not(Is("status", "bogus"))>>, <<Not(Not(Is("status", "bogus")))>>,
              <<Is("status", "dirty"), Is("badage", "soon")>>,
              <<Is("status", "dirty"), Not(Not(Is("path", "dotted")))>>}
==============================================================================
