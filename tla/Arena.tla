--------------------------------- MODULE Arena -------------------------------
(****************************************************************************)
(* The store of paths (core/path_arena.go): Intern gives every path one     *)
(* number, looking it up under the read lock and, if it is not there, again *)
(* under the write lock before it appends it.  Get reads it back.  Each of  *)
(* these sections runs under a lock of one RWMutex and is one step.         *)
(****************************************************************************)
EXTENDS Integers, Sequences

CONSTANTS Threads, Paths,
          NoPath,    \* the empty text
          MaxCalls   \* bound: calls of Intern by one thread

ASSUME ArenaAssumption == MaxCalls \in Nat /\ NoPath \notin Paths

VARIABLES
  strings,   \* PathArena.strings; number i is at place i + 1
  intern,    \* PathArena.intern, from paths to numbers
  pending,   \* pending[t]: the path thread t has not found, NoPath outside of a call
  given      \* given[t]: what the calls of t have returned, as <<path, number>>

arenaVars == <<strings, intern, pending, given>>

ArenaInit ==
  /\ strings = <<>> /\ intern = <<>>
  /\ pending = [t \in Threads |-> NoPath]
  /\ given = [t \in Threads |-> <<>>]

Give(t, path, n) == given' = [given EXCEPT ![t] = Append(@, <<path, n>>)]

\* The map with the next number for path.
Numbered(path) ==
  [p \in DOMAIN intern \cup {path} |-> IF p = path THEN Len(strings) ELSE intern[p]]

\* Intern, under RLock.
Intern(t, path) ==
  /\ pending[t] = NoPath /\ Len(given[t]) < MaxCalls
  /\ IF path \in DOMAIN intern
     THEN Give(t, path, intern[path]) /\ UNCHANGED pending
     ELSE pending' = [pending EXCEPT ![t] = path] /\ UNCHANGED given
  /\ UNCHANGED <<strings, intern>>

\* Intern, under Lock.
\* Slip: the path is not looked up again.
InternLockedBlind(t) ==
  LET path == pending[t]
  IN /\ path # NoPath
     /\ pending' = [pending EXCEPT ![t] = NoPath]
     /\ strings' = Append(strings, path)
     /\ intern' = Numbered(path)
     /\ Give(t, path, Len(strings))

InternLocked(t) ==
  LET path == pending[t]
  IN /\ path # NoPath
     /\ pending' = [pending EXCEPT ![t] = NoPath]
     /\ IF path \in DOMAIN intern
        THEN Give(t, path, intern[path]) /\ UNCHANGED <<strings, intern>>
        ELSE /\ strings' = Append(strings, path)
             /\ intern' = Numbered(path)
             /\ Give(t, path, Len(strings))

ArenaNext == \E t \in Threads : InternLocked(t) \/ \E path \in Paths : Intern(t, path)

ArenaSpec == ArenaInit /\ [][ArenaNext]_arenaVars

\* Get: nothing for a number out of range.
Get(n) == IF n >= Len(strings) THEN NoPath ELSE strings[n + 1]

------------------------------------------------------------------------------
\* Two callers never have two numbers for one path, nor one for two, however
\* their calls overlap: each number reads back as its path (Get), is the one
\* the map holds, and no path is stored twice.
Interned ==
  /\ \A t \in Threads : \A k \in DOMAIN given[t] :
       LET path == given[t][k][1]  n == given[t][k][2]
       IN Get(n) = path /\ path \in DOMAIN intern /\ intern[path] = n
  /\ \A i, j \in DOMAIN strings : strings[i] = strings[j] => i = j
==============================================================================
