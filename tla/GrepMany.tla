------------------------------- MODULE GrepMany ------------------------------
(****************************************************************************)
(* GrepMatcher.SearchManyContext (grep/grep.go): one goroutine per path,    *)
(* Concurrency of them searching at a time, results and errors over two     *)
(* buffered channels, the caller collecting them when all are done -- unless*)
(* its context ended while it was still starting them, when it leaves at    *)
(* once and they run on without it.                                         *)
(*                                                                          *)
(* A path is its place in the list.  What SearchFileContext makes of its    *)
(* lines is abstracted to three outcomes.                                   *)
(****************************************************************************)
EXTENDS Order, Sequences, Functions

CONSTANTS N,            \* the number of paths
          Concurrency   \* Options.Concurrency

ASSUME SizesAssumption == N \in Nat \ {0} /\ Concurrency \in Nat \ {0}

VARIABLES
  outcome,    \* outcome[i]: path i has hits, has none, or cannot be read
  cancelled,  \* the caller's context is done
  sem,        \* tokens in the semaphore channel
  wg,         \* the WaitGroup's counter
  results,    \* resultsCh: the paths with hits, in the order they arrived
  errs,       \* errsCh: pairs of a path and the error's cause
  closed,     \* both channels are closed
  worker,     \* worker[i]: where the goroutine of path i is
  caller,     \* where the caller is
  next,       \* the next path the caller starts a goroutine for
  ret         \* what the caller got

vars == <<outcome, cancelled, sem, wg, results, errs, closed, worker, caller, next, ret>>

Ids == 1 .. N
Causes == {"ctx", "file"}
Holding == {"check", "read", "release"}
Workers == Holding \cup {"unborn", "acquire", "wgdone", "gone", "panic"}
Nothing == [files |-> <<>>, failed |-> {}, error |-> "none"]

TypeOK ==
  /\ outcome \in [Ids -> {"hits", "none", "fails"}]
  /\ cancelled \in BOOLEAN /\ closed \in BOOLEAN
  /\ sem \in 0 .. Concurrency /\ wg \in 0 .. N
  /\ results \in Seq(Ids) /\ errs \in Seq(Ids \X Causes)
  /\ worker \in [Ids -> Workers]
  /\ caller \in {"start", "loop", "wait", "collect", "back"}
  /\ next \in 1 .. N + 1
  /\ ret.files \in Seq(Ids) /\ ret.failed \subseteq Ids
  /\ ret.error \in {"none", "ctx", "joined"}

Init ==
  /\ outcome \in [Ids -> {"hits", "none", "fails"}]
  /\ cancelled \in BOOLEAN
  /\ sem = 0 /\ wg = 0
  /\ results = <<>> /\ errs = <<>> /\ closed = FALSE
  /\ worker = [i \in Ids |-> "unborn"]
  /\ caller = "start" /\ next = 1
  /\ ret = Nothing

\* The caller's context is cancelled, or its deadline passes.
Cancel == /\ ~cancelled
          /\ cancelled' = TRUE
          /\ UNCHANGED <<outcome, sem, wg, results, errs, closed, worker, caller, next, ret>>

------------------------------------------------------------------------------
\* A goroutine.

channels == <<results, errs, closed>>
calling == <<caller, next, ret>>
Move(i, here, there) == worker[i] = here /\ worker' = [worker EXCEPT ![i] = there]

\* A send blocks on a full channel and panics on a closed one.
\* Slip: the channels hold as many messages as there are workers at a time.
RoomForWorkers(ch) == Len(ch) < Concurrency
Room(ch) == Len(ch) < N

Send(i, ch, there) ==
  IF closed THEN Move(i, worker[i], "panic") ELSE Room(ch) /\ Move(i, worker[i], there)

\* The select takes either case when both are ready.
\* Slip: the semaphore has room for one more.
AcquireOneMore(i) ==
  /\ Move(i, "acquire", "check")
  /\ sem <= Concurrency
  /\ sem' = sem + 1
  /\ UNCHANGED <<outcome, cancelled, wg, channels, calling>>

Acquire(i) ==
  /\ Move(i, "acquire", "check")
  /\ sem < Concurrency
  /\ sem' = sem + 1
  /\ UNCHANGED <<outcome, cancelled, wg, channels, calling>>

\* Slip: wg.Done is called here, and once more as the deferred call.
GiveUpDone(i) ==
  /\ worker[i] = "acquire"
  /\ cancelled
  /\ Send(i, errs, "wgdone")
  /\ errs' = Append(errs, <<i, "ctx">>)
  /\ wg' = wg - 1
  /\ UNCHANGED <<outcome, cancelled, sem, results, closed, calling>>

GiveUp(i) ==
  /\ worker[i] = "acquire"
  /\ cancelled
  /\ Send(i, errs, "wgdone")
  /\ errs' = Append(errs, <<i, "ctx">>)
  /\ UNCHANGED <<outcome, cancelled, sem, wg, results, closed, calling>>

\* SearchFileContext looks at the context first ...
CheckContext(i) ==
  /\ ~cancelled
  /\ Move(i, "check", "read")
  /\ UNCHANGED <<outcome, cancelled, sem, wg, channels, calling>>

\* ... and again before each line.  Lines found before an error are dropped.
Interrupted(i) ==
  /\ worker[i] \in {"check", "read"}
  /\ cancelled
  /\ Send(i, errs, "release")
  /\ errs' = Append(errs, <<i, "ctx">>)
  /\ UNCHANGED <<outcome, cancelled, sem, wg, results, closed, calling>>

FileError(i) ==
  /\ worker[i] = "read"
  /\ outcome[i] = "fails"
  /\ Send(i, errs, "release")
  /\ errs' = Append(errs, <<i, "file">>)
  /\ UNCHANGED <<outcome, cancelled, sem, wg, results, closed, calling>>

NoHits(i) ==
  /\ outcome[i] = "none"
  /\ Move(i, "read", "release")
  /\ UNCHANGED <<outcome, cancelled, sem, wg, channels, calling>>

Hits(i) ==
  /\ worker[i] = "read"
  /\ outcome[i] = "hits"
  /\ Send(i, results, "release")
  /\ results' = Append(results, i)
  /\ UNCHANGED <<outcome, cancelled, sem, wg, errs, closed, calling>>

Release(i) ==
  /\ Move(i, "release", "wgdone")
  /\ sem' = sem - 1
  /\ UNCHANGED <<outcome, cancelled, wg, channels, calling>>

WgDone(i) ==
  /\ Move(i, "wgdone", "gone")
  /\ wg' = wg - 1
  /\ UNCHANGED <<outcome, cancelled, sem, channels, calling>>

------------------------------------------------------------------------------
\* The caller.

Step(here, there) == caller = here /\ caller' = there
Return(files, failed, error) ==
  ret' = [files |-> files, failed |-> failed, error |-> error]

\* The calls modelled have a query, a limit above zero and a path at least: any
\* other returns nothing at once.
CheckCaller ==
  /\ IF cancelled THEN Step("start", "back") /\ Return(<<>>, {}, "ctx")
                  ELSE Step("start", "loop") /\ UNCHANGED ret
  /\ UNCHANGED <<outcome, cancelled, sem, wg, channels, worker, next>>

\* Slip: the last goroutine is started without being counted.
SpawnUncounted ==
  /\ Step("loop", "loop")
  /\ next <= N /\ ~cancelled
  /\ worker' = [worker EXCEPT ![next] = "acquire"]
  /\ wg' = IF next = N THEN wg ELSE wg + 1
  /\ next' = next + 1
  /\ UNCHANGED <<outcome, cancelled, sem, channels, ret>>

Spawn ==
  /\ Step("loop", "loop")
  /\ next <= N /\ ~cancelled
  /\ worker' = [worker EXCEPT ![next] = "acquire"]
  /\ wg' = wg + 1
  /\ next' = next + 1
  /\ UNCHANGED <<outcome, cancelled, sem, channels, ret>>

\* Slip: closing the channels is deferred, so that leaving early closes them too.
LeaveClosing ==
  /\ Step("loop", "back")
  /\ next <= N /\ cancelled
  /\ Return(<<>>, {}, "ctx")
  /\ closed' = TRUE
  /\ UNCHANGED <<outcome, cancelled, sem, wg, results, errs, worker, next>>

\* The context ended before every goroutine was started.
Leave ==
  /\ Step("loop", "back")
  /\ next <= N /\ cancelled
  /\ Return(<<>>, {}, "ctx")
  /\ UNCHANGED <<outcome, cancelled, sem, wg, channels, worker, next>>

AllStarted ==
  /\ Step("loop", "wait")
  /\ next > N
  /\ UNCHANGED <<outcome, cancelled, sem, wg, channels, worker, next, ret>>

Wait ==
  /\ Step("wait", "collect")
  /\ wg = 0
  /\ closed' = TRUE
  /\ UNCHANGED <<outcome, cancelled, sem, wg, results, errs, worker, next, ret>>

Failed == {e[1] : e \in Range(errs)}
Stopped == \E e \in Range(errs) : e[2] = "ctx"

\* Slip: what arrived before the context ended is returned with its error.
CollectPartial ==
  /\ Step("collect", "back")
  /\ Return(Ascending(Range(results)), Failed,
            IF Stopped \/ cancelled THEN "ctx" ELSE IF errs = <<>> THEN "none" ELSE "joined")
  /\ UNCHANGED <<outcome, cancelled, sem, wg, channels, worker, next>>

\* Both channels are drained and sorted by the paths' places, the errors joined.
Collect ==
  /\ Step("collect", "back")
  /\ IF Stopped \/ cancelled
     THEN Return(<<>>, IF Stopped THEN Failed ELSE {}, "ctx")
     ELSE Return(Ascending(Range(results)), Failed, IF errs = <<>> THEN "none" ELSE "joined")
  /\ UNCHANGED <<outcome, cancelled, sem, wg, channels, worker, next>>

------------------------------------------------------------------------------
Search(i) == \/ CheckContext(i) \/ Interrupted(i) \/ FileError(i) \/ NoHits(i) \/ Hits(i)
             \/ Release(i) \/ WgDone(i)
Caller == CheckCaller \/ Spawn \/ Leave \/ AllStarted \/ Wait \/ Collect

\* The call is over and no goroutine of it runs.
Over == /\ caller = "back"
        /\ \A i \in Ids : worker[i] \in {"unborn", "gone"}
        /\ UNCHANGED vars

Next == \/ Cancel \/ Caller \/ Over
        \/ \E i \in Ids : Acquire(i) \/ GiveUp(i) \/ Search(i)

Spec == Init /\ [][Next]_vars

\* Goroutines run.
FairSpec == /\ Spec
            /\ WF_vars(Caller)
            /\ \A i \in Ids : WF_vars(Search(i)) /\ WF_vars(Acquire(i) \/ GiveUp(i))

------------------------------------------------------------------------------
\* Properties.

\* At no time do more than Concurrency goroutines have a file open.
Bounded == Cardinality({i \in Ids : worker[i] \in Holding}) <= Concurrency

\* The call returns the paths with hits in the order they were given and an
\* error for exactly the paths that could not be read, whatever order the
\* goroutines finish in; or, if its context ended, no result at all.
Contract ==
  caller = "back" =>
    \/ ret.error = "ctx" /\ cancelled /\ ret.files = <<>>
    \/ /\ ret.files = Ascending({i \in Ids : outcome[i] = "hits"})
       /\ ret.failed = {i \in Ids : outcome[i] = "fails"}
       /\ ret.error = IF ret.failed = {} THEN "none" ELSE "joined"

\* No goroutine sends on a closed channel, though the caller may have left.
NoPanic == \A i \in Ids : worker[i] # "panic"

\* Who collects has left no goroutine behind: none can add to the channels.
NoneBehind == closed => \A i \in Ids : worker[i] = "gone"

\* The call returns, and every goroutine it started ends and gives its token
\* back, even if nobody reads the channels any more.
Termination ==
  <>[](caller = "back" /\ sem = 0 /\ \A i \in Ids : worker[i] \in {"unborn", "gone"})
==============================================================================
