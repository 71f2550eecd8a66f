------------------------------ MODULE GrepProofs -----------------------------
(****************************************************************************)
(* Theorems about the concurrent search of many files (GrepMany), for any   *)
(* number of paths and any limit on the searches at a time.                 *)
(****************************************************************************)
EXTENDS GrepMany, OrderProofs

------------------------------------------------------------------------------
(****************************************************************************)
(* Operators of the model: sorting, and what a channel holds.               *)
(****************************************************************************)

\* Sorting numbers loses none and adds none.
LEMMA AscendingRange ==
  ASSUME NEW S \in SUBSET Int, IsFiniteSet(S)
  PROVE  Range(Ascending(S)) = S
<1> DEFINE n == Cardinality(S)
           a == Ascending(S)
<1>1. a \in [1 .. n -> S] /\ \A x \in S : \E k \in 1 .. n : a[k] = x
  BY AscendingProperties
<1> HIDE DEF n, a
<1>2. Range(a) = S
  BY <1>1 DEF Range
<1> QED BY <1>2 DEF a

\* What a channel holds after a send.
LEMMA AppendRange ==
  ASSUME NEW S, NEW ch \in Seq(S), NEW m \in S
  PROVE  /\ Append(ch, m) \in Seq(S)
         /\ Len(ch) \in Nat /\ Len(Append(ch, m)) = Len(ch) + 1
         /\ Range(Append(ch, m)) = Range(ch) \cup {m}
<1>1. /\ DOMAIN ch = 1 .. Len(ch) /\ DOMAIN Append(ch, m) = 1 .. Len(ch) + 1
      /\ Len(ch) \in Nat
      /\ Append(ch, m)[Len(ch) + 1] = m
      /\ \A k \in 1 .. Len(ch) : Append(ch, m)[k] = ch[k]
  OBVIOUS
<1>2. 1 .. Len(ch) + 1 = 1 .. Len(ch) \cup {Len(ch) + 1}
  BY <1>1
<1>3. Range(Append(ch, m)) = Range(ch) \cup {m}
  BY <1>1, <1>2, Zenon DEF Range
<1> QED BY <1>3

------------------------------------------------------------------------------
(****************************************************************************)
(* The inductive invariant.                                                 *)
(****************************************************************************)

At(stages) == {i \in Ids : worker[i] \in stages}
Live == {"acquire", "check", "read", "release", "wgdone"}
Unsent == {"unborn", "acquire", "check", "read"}
Done == {"release", "wgdone", "gone"}

Plain ==
  /\ outcome \in [Ids -> {"hits", "none", "fails"}]
  /\ cancelled \in BOOLEAN /\ closed \in BOOLEAN
  /\ worker \in [Ids -> Live \cup {"unborn", "gone"}]
  /\ caller \in {"start", "loop", "wait", "collect", "back"}
  /\ next \in 1 .. N + 1

\* The goroutines are started in order, before the caller waits.
Started ==
  /\ \A i \in Ids : worker[i] = "unborn" <=> i >= next
  /\ caller = "start" => next = 1
  /\ caller \in {"wait", "collect"} => next = N + 1

\* The channels are closed when everybody is gone, and only then collected.
Closing ==
  /\ closed => \A i \in Ids : worker[i] = "gone"
  /\ caller \in {"start", "loop", "wait"} => ~closed
  /\ caller = "collect" => closed

\* Semaphore and WaitGroup count the goroutines they are there to count.
Counted ==
  /\ sem = Cardinality(At(Holding)) /\ sem <= Concurrency
  /\ wg = Cardinality(At(Live))

\* Every goroutine sends at most once: there is room for all messages.
Messages ==
  /\ results \in Seq(Ids) /\ errs \in Seq(Ids \X Causes)
  /\ Len(results) + Len(errs) + Cardinality(At(Unsent)) <= N

\* A goroutine that is done has told what became of its path, and the channels
\* hold nothing else.
Told(i) ==
  \/ outcome[i] = "none"
  \/ outcome[i] = "hits" /\ i \in Range(results)
  \/ outcome[i] = "fails" /\ <<i, "file">> \in Range(errs)
  \/ <<i, "ctx">> \in Range(errs)
Reported ==
  /\ \A i \in At(Done) : Told(i)
  /\ \A i \in Range(results) : outcome[i] = "hits"
  /\ \A e \in Range(errs) : \/ e[2] = "ctx" /\ cancelled
                            \/ e[2] = "file" /\ outcome[e[1]] = "fails"

Returned ==
  /\ ret.files \in Seq(Ids) /\ ret.failed \subseteq Ids
  /\ ret.error \in {"none", "ctx", "joined"}

Inv == Plain /\ Started /\ Closing /\ Counted /\ Messages /\ Reported /\ Returned /\ Contract

\* What a move of one goroutine does to the number of those at some stages.
LEMMA AtMove ==
  ASSUME Plain, NEW i \in Ids, NEW there, worker' = [worker EXCEPT ![i] = there], NEW stages
  PROVE  /\ IsFiniteSet(At(stages)) /\ Cardinality(At(stages)) \in Nat
         /\ worker[i] \in stages /\ there \notin stages =>
              Cardinality(At(stages)') = Cardinality(At(stages)) - 1
         /\ worker[i] \notin stages /\ there \in stages =>
              Cardinality(At(stages)') = Cardinality(At(stages)) + 1
         /\ (worker[i] \in stages <=> there \in stages) =>
              Cardinality(At(stages)') = Cardinality(At(stages))
<1>1. IsFiniteSet(Ids)
  BY SizesAssumption, FS_Interval DEF Ids
<1>2. IsFiniteSet(At(stages)) /\ Cardinality(At(stages)) \in Nat
  BY <1>1, FS_Subset, FS_CardinalityType DEF At
<1>3. \A k \in Ids : worker'[k] = IF k = i THEN there ELSE worker[k]
  BY DEF Plain
<1>4. ASSUME worker[i] \in stages, there \notin stages
      PROVE  Cardinality(At(stages)') = Cardinality(At(stages)) - 1
  <2>1. i \in At(stages) /\ At(stages)' = At(stages) \ {i}
    BY <1>3, <1>4 DEF At
  <2> QED BY <1>2, <2>1, FS_RemoveElement
<1>5. ASSUME worker[i] \notin stages, there \in stages
      PROVE  Cardinality(At(stages)') = Cardinality(At(stages)) + 1
  <2>1. i \notin At(stages) /\ At(stages)' = At(stages) \cup {i}
    BY <1>3, <1>5 DEF At
  <2> QED BY <1>2, <2>1, FS_AddElement
<1>6. ASSUME worker[i] \in stages <=> there \in stages
      PROVE  Cardinality(At(stages)') = Cardinality(At(stages))
  <2>1. At(stages)' = At(stages)
    BY <1>3, <1>6 DEF At
  <2> QED BY <2>1
<1> QED BY <1>2, <1>4, <1>5, <1>6

\* A goroutine that runs finds the channels open.
LEMMA SendMoves ==
  ASSUME Closing, NEW i \in Ids, worker[i] # "gone", NEW ch, NEW there, Send(i, ch, there)
  PROVE  worker' = [worker EXCEPT ![i] = there]
BY DEF Closing, Send, Move

\* A step of a goroutine is nothing to the caller.
LEMMA MoveKeeps ==
  ASSUME Inv, NEW i \in Ids, worker[i] \in Live, NEW there \in Live \cup {"gone"},
         worker' = [worker EXCEPT ![i] = there], UNCHANGED <<outcome, cancelled, closed, calling>>
  PROVE  Plain' /\ Started' /\ Closing' /\ Returned' /\ Contract'
<1> USE DEF Inv, Live, calling
<1>1. Plain'
  BY DEF Plain
<1>2. Started'
  BY DEF Plain, Started
<1>3. Closing'
  BY DEF Plain, Closing
<1>4. UNCHANGED ret
  OBVIOUS
<1>5. Returned'
  BY <1>4 DEF Returned
<1>6. Contract'
  BY DEF Contract
<1> QED BY <1>1, <1>2, <1>3, <1>5, <1>6

\* A step without a message.
LEMMA SilentKeeps ==
  ASSUME Inv, NEW i \in Ids, worker[i] \in Live, NEW there \in Live \cup {"gone"},
         worker' = [worker EXCEPT ![i] = there], UNCHANGED <<outcome, cancelled, results, errs>>,
         there \in Unsent => worker[i] \in Unsent,
         there \in Done => worker[i] \in Done \/ outcome[i] = "none"
  PROVE  Messages' /\ Reported'
<1>1. Messages'
  <2>1. Cardinality(At(Unsent)) \in Nat
    BY AtMove DEF Inv
  <2>2. \/ Cardinality(At(Unsent)') = Cardinality(At(Unsent))
        \/ Cardinality(At(Unsent)') = Cardinality(At(Unsent)) - 1
    <3>1. CASE worker[i] \in Unsent <=> there \in Unsent
      BY <3>1, AtMove DEF Inv
    <3>2. CASE worker[i] \in Unsent /\ there \notin Unsent
      BY <3>2, AtMove DEF Inv
    <3> QED BY <3>1, <3>2
  <2>3. Len(results) \in Nat /\ Len(errs) \in Nat
    BY DEF Inv, Messages
  <2> QED BY <2>1, <2>2, <2>3, SizesAssumption DEF Inv, Messages
<1>2. Reported'
  <2>1. \A k \in At(Done)' : k \in At(Done) \/ outcome[k] = "none"
    BY DEF At, Inv, Plain
  <2>2. UNCHANGED <<Range(results), Range(errs)>>
    OBVIOUS
  <2> QED BY <2>1, <2>2 DEF Inv, Reported, Told
<1> QED BY <1>1, <1>2

\* A goroutine tells that its path has hits.
LEMMA ResultKeeps ==
  ASSUME Inv, NEW i \in Ids, worker[i] \in Unsent, NEW there \in Done,
         worker' = [worker EXCEPT ![i] = there], UNCHANGED <<outcome, cancelled, errs>>,
         outcome[i] = "hits", results' = Append(results, i)
  PROVE  Messages' /\ Reported'
<1>1. /\ results' \in Seq(Ids) /\ Len(results') = Len(results) + 1
      /\ Len(results) \in Nat /\ Len(errs) \in Nat
      /\ Range(results') = Range(results) \cup {i}
  BY AppendRange DEF Inv, Messages
<1>2. there \notin Unsent
  BY DEF Unsent, Done
<1>3. Cardinality(At(Unsent)') = Cardinality(At(Unsent)) - 1 /\ Cardinality(At(Unsent)) \in Nat
  BY <1>2, AtMove DEF Inv
<1>4. Messages'
  BY <1>1, <1>3, SizesAssumption DEF Inv, Messages
<1>5. Reported'
  <2>1. \A k \in At(Done)' : k \in At(Done) \/ k = i
    BY DEF At, Inv, Plain
  <2> QED BY <1>1, <2>1 DEF Inv, Reported, Told
<1> QED BY <1>4, <1>5

\* A goroutine tells that it could not read its path, or was told to stop.
LEMMA ErrorKeeps ==
  ASSUME Inv, NEW i \in Ids, worker[i] \in Unsent, NEW there \in Done, NEW cause \in Causes,
         worker' = [worker EXCEPT ![i] = there], UNCHANGED <<outcome, cancelled, results>>,
         cause = "ctx" => cancelled, cause = "file" => outcome[i] = "fails",
         errs' = Append(errs, <<i, cause>>)
  PROVE  Messages' /\ Reported'
<1> DEFINE m == <<i, cause>>
<1>1. m \in Ids \X Causes /\ m[1] = i /\ m[2] = cause
  OBVIOUS
<1>2. errs' = Append(errs, m)
  OBVIOUS
<1> HIDE DEF m
<1>3. /\ errs' \in Seq(Ids \X Causes) /\ Len(errs') = Len(errs) + 1
      /\ Len(results) \in Nat /\ Len(errs) \in Nat
      /\ Range(errs') = Range(errs) \cup {m}
  BY <1>1, <1>2, AppendRange DEF Inv, Messages
<1>4. there \notin Unsent
  BY DEF Unsent, Done
<1>5. Cardinality(At(Unsent)') = Cardinality(At(Unsent)) - 1 /\ Cardinality(At(Unsent)) \in Nat
  BY <1>4, AtMove DEF Inv
<1>6. Messages'
  BY <1>3, <1>5, SizesAssumption DEF Inv, Messages
<1>7. Reported'
  <2>1. \A k \in At(Done)' : k \in At(Done) \/ k = i
    BY DEF At, Inv, Plain
  <2>2. cause = "ctx" \/ cause = "file"
    BY DEF Causes
  <2>3. Told(i)'
    BY <1>3, <2>2 DEF Told, m
  <2>4. \A k \in At(Done) : Told(k)'
    BY <1>3 DEF Inv, Reported, Told
  <2>5. \A e \in Range(errs') : \/ e[2] = "ctx" /\ cancelled'
                                \/ e[2] = "file" /\ outcome'[e[1]] = "fails"
    BY <1>1, <1>3, <2>2 DEF Inv, Reported
  <2>6. \A k \in At(Done)' : Told(k)'
    BY <2>1, <2>3, <2>4
  <2>7. \A k \in Range(results') : outcome'[k] = "hits"
    BY DEF Inv, Reported
  <2> QED BY <2>5, <2>6, <2>7 DEF Reported
<1> QED BY <1>6, <1>7

\* A goroutine that keeps, takes or gives back its token.
LEMMA CountedKeeps ==
  ASSUME Inv, NEW i \in Ids, worker[i] \in Live, NEW there \in Live \cup {"gone"},
         worker' = [worker EXCEPT ![i] = there],
         wg' = IF there = "gone" THEN wg - 1 ELSE wg,
         \/ /\ worker[i] \in Holding <=> there \in Holding
            /\ sem' = sem
         \/ /\ worker[i] \notin Holding /\ there \in Holding
            /\ sem < Concurrency /\ sem' = sem + 1
         \/ /\ worker[i] \in Holding /\ there \notin Holding
            /\ sem' = sem - 1
  PROVE  Counted'
<1>1. /\ Cardinality(At(Holding)) \in Nat /\ sem = Cardinality(At(Holding)) /\ sem <= Concurrency
      /\ wg = Cardinality(At(Live))
  BY AtMove DEF Inv, Counted
<1>2. wg' = Cardinality(At(Live)')
  <2>1. CASE there = "gone"
    <3>1. there \notin Live
      BY <2>1 DEF Live
    <3> QED BY <1>1, <2>1, <3>1, AtMove DEF Inv
  <2>2. CASE there # "gone"
    BY <1>1, <2>2, AtMove DEF Inv
  <2> QED BY <2>1, <2>2
<1>3. CASE (worker[i] \in Holding <=> there \in Holding) /\ sem' = sem
  <2>1. sem' = Cardinality(At(Holding)')
    BY <1>1, <1>3, AtMove DEF Inv
  <2> QED BY <1>1, <1>2, <1>3, <2>1 DEF Counted
<1>4. CASE worker[i] \notin Holding /\ there \in Holding /\ sem < Concurrency /\ sem' = sem + 1
  <2>1. sem' = Cardinality(At(Holding)')
    BY <1>1, <1>4, AtMove DEF Inv
  <2>2. sem' <= Concurrency
    BY <1>1, <1>4, SizesAssumption
  <2> QED BY <1>2, <2>1, <2>2 DEF Counted
<1>5. CASE worker[i] \in Holding /\ there \notin Holding /\ sem' = sem - 1
  <2>1. sem' = Cardinality(At(Holding)')
    BY <1>1, <1>5, AtMove DEF Inv
  <2>2. sem' <= Concurrency
    BY <1>1, <1>5, SizesAssumption
  <2> QED BY <1>2, <2>1, <2>2 DEF Counted
<1> QED BY <1>3, <1>4, <1>5

\* Every step of a goroutine.
LEMMA WorkerStep ==
  ASSUME Inv, NEW i \in Ids, Acquire(i) \/ GiveUp(i) \/ Search(i)
  PROVE  Inv'
<1> USE DEF Move, Live, Holding, Unsent, Done, channels, calling
<1>0. Closing
  BY DEF Inv
<1>1. CASE Acquire(i)
  <2>1. /\ worker[i] = "acquire" /\ worker' = [worker EXCEPT ![i] = "check"]
        /\ sem < Concurrency /\ sem' = sem + 1
        /\ UNCHANGED <<outcome, cancelled, wg, channels, calling>>
    BY <1>1 DEF Acquire
  <2>2. Counted'
    BY <2>1, CountedKeeps
  <2> QED BY <2>1, <2>2, SilentKeeps, MoveKeeps DEF Inv
<1>2. CASE GiveUp(i)
  <2>1. /\ worker[i] = "acquire" /\ worker' = [worker EXCEPT ![i] = "wgdone"]
        /\ cancelled /\ errs' = Append(errs, <<i, "ctx">>)
        /\ UNCHANGED <<outcome, cancelled, sem, wg, results, closed, calling>>
    BY <1>0, <1>2, SendMoves DEF GiveUp
  <2>2. Counted'
    BY <2>1, CountedKeeps
  <2>3. Messages' /\ Reported'
    BY <2>1, ErrorKeeps DEF Causes
  <2> QED BY <2>1, <2>2, <2>3, MoveKeeps DEF Inv
<1>3. CASE CheckContext(i)
  <2>1. /\ worker[i] = "check" /\ worker' = [worker EXCEPT ![i] = "read"]
        /\ UNCHANGED <<outcome, cancelled, sem, wg, channels, calling>>
    BY <1>3 DEF CheckContext
  <2>2. Counted'
    BY <2>1, CountedKeeps
  <2> QED BY <2>1, <2>2, SilentKeeps, MoveKeeps DEF Inv
<1>4. CASE Interrupted(i)
  <2>1. /\ worker[i] \in {"check", "read"} /\ worker' = [worker EXCEPT ![i] = "release"]
        /\ cancelled /\ errs' = Append(errs, <<i, "ctx">>)
        /\ UNCHANGED <<outcome, cancelled, sem, wg, results, closed, calling>>
    BY <1>0, <1>4, SendMoves DEF Interrupted
  <2>2. Counted'
    BY <2>1, CountedKeeps
  <2>3. Messages' /\ Reported'
    BY <2>1, ErrorKeeps DEF Causes
  <2> QED BY <2>1, <2>2, <2>3, MoveKeeps DEF Inv
<1>5. CASE FileError(i)
  <2>1. /\ worker[i] = "read" /\ worker' = [worker EXCEPT ![i] = "release"]
        /\ outcome[i] = "fails" /\ errs' = Append(errs, <<i, "file">>)
        /\ UNCHANGED <<outcome, cancelled, sem, wg, results, closed, calling>>
    BY <1>0, <1>5, SendMoves DEF FileError
  <2>2. Counted'
    BY <2>1, CountedKeeps
  <2>3. Messages' /\ Reported'
    BY <2>1, ErrorKeeps DEF Causes
  <2> QED BY <2>1, <2>2, <2>3, MoveKeeps DEF Inv
<1>6. CASE NoHits(i)
  <2>1. /\ worker[i] = "read" /\ worker' = [worker EXCEPT ![i] = "release"]
        /\ outcome[i] = "none"
        /\ UNCHANGED <<outcome, cancelled, sem, wg, channels, calling>>
    BY <1>6 DEF NoHits
  <2>2. Counted'
    BY <2>1, CountedKeeps
  <2> QED BY <2>1, <2>2, SilentKeeps, MoveKeeps DEF Inv
<1>7. CASE Hits(i)
  <2>1. /\ worker[i] = "read" /\ worker' = [worker EXCEPT ![i] = "release"]
        /\ outcome[i] = "hits" /\ results' = Append(results, i)
        /\ UNCHANGED <<outcome, cancelled, sem, wg, errs, closed, calling>>
    BY <1>0, <1>7, SendMoves DEF Hits
  <2>2. Counted'
    BY <2>1, CountedKeeps
  <2>3. Messages' /\ Reported'
    BY <2>1, ResultKeeps
  <2> QED BY <2>1, <2>2, <2>3, MoveKeeps DEF Inv
<1>8. CASE Release(i)
  <2>1. /\ worker[i] = "release" /\ worker' = [worker EXCEPT ![i] = "wgdone"]
        /\ sem' = sem - 1
        /\ UNCHANGED <<outcome, cancelled, wg, channels, calling>>
    BY <1>8 DEF Release
  <2>2. Counted'
    BY <2>1, CountedKeeps
  <2> QED BY <2>1, <2>2, SilentKeeps, MoveKeeps DEF Inv
<1>9. CASE WgDone(i)
  <2>1. /\ worker[i] = "wgdone" /\ worker' = [worker EXCEPT ![i] = "gone"]
        /\ wg' = wg - 1
        /\ UNCHANGED <<outcome, cancelled, sem, channels, calling>>
    BY <1>9 DEF WgDone
  <2>2. Counted'
    BY <2>1, CountedKeeps
  <2> QED BY <2>1, <2>2, SilentKeeps, MoveKeeps DEF Inv
<1> QED BY <1>1, <1>2, <1>3, <1>4, <1>5, <1>6, <1>7, <1>8, <1>9 DEF Search

\* A step of the caller alone is nothing to the goroutines.
LEMMA CallerKeeps ==
  ASSUME Inv, UNCHANGED <<outcome, cancelled, sem, wg, results, errs, worker>>
  PROVE  Counted' /\ Messages' /\ Reported'
<1>1. UNCHANGED <<At(Holding), At(Live), At(Unsent), At(Done)>>
  BY DEF At
<1>2. Counted' /\ Messages'
  BY <1>1 DEF Inv, Counted, Messages
<1>3. UNCHANGED <<Range(results), Range(errs)>>
  OBVIOUS
<1>4. Reported'
  BY <1>1, <1>3 DEF Inv, Reported, Told
<1> QED BY <1>2, <1>4

\* The caller leaves with nothing but its context's error.
LEMMA LeaveKeeps ==
  ASSUME cancelled, UNCHANGED cancelled, Return(<<>>, {}, "ctx")
  PROVE  Returned' /\ Contract'
<1>1. ret'.files = <<>> /\ ret'.failed = {} /\ ret'.error = "ctx"
  BY DEF Return
<1>2. ret'.files \in Seq(Ids)
  BY <1>1
<1> QED BY <1>1, <1>2 DEF Returned, Contract

\* A goroutine is started.
LEMMA SpawnStep == Inv /\ Spawn => Inv'
<1> SUFFICES ASSUME Inv, Spawn PROVE Inv'
  OBVIOUS
<1> USE DEF Live, Holding, Unsent, Done
<1>1. /\ caller = "loop" /\ caller' = "loop" /\ next <= N /\ next' = next + 1
      /\ worker' = [worker EXCEPT ![next] = "acquire"] /\ wg' = wg + 1
      /\ UNCHANGED <<outcome, cancelled, sem, results, errs, closed, ret>>
  BY DEF Spawn, Step, channels
<1>2. next \in Ids /\ worker[next] = "unborn"
  BY <1>1, SizesAssumption DEF Inv, Plain, Started, Ids
<1>3. Plain'
  BY <1>1, <1>2, SizesAssumption DEF Inv, Plain, Ids
<1>4. Started'
  <2>1. ASSUME NEW i \in Ids PROVE worker'[i] = "unborn" <=> i >= next + 1
    BY <1>1, <1>2, SizesAssumption DEF Inv, Plain, Started, Ids
  <2> QED BY <1>1, <2>1 DEF Started
<1>5. Closing'
  BY <1>1 DEF Inv, Closing
<1>6. Counted'
  <2>1. worker[next] \notin Holding /\ "acquire" \notin Holding
    BY <1>2
  <2>2. worker[next] \notin Live /\ "acquire" \in Live
    BY <1>2
  <2> HIDE DEF Holding, Live
  <2>3. Cardinality(At(Holding)') = Cardinality(At(Holding))
    BY <1>1, <1>2, <2>1, AtMove DEF Inv
  <2>4. Cardinality(At(Live)') = Cardinality(At(Live)) + 1
    BY <1>1, <1>2, <2>2, AtMove DEF Inv
  <2> QED BY <1>1, <2>3, <2>4 DEF Inv, Counted
<1>7. Messages'
  <2>1. Cardinality(At(Unsent)') = Cardinality(At(Unsent))
    BY <1>1, <1>2, AtMove DEF Inv
  <2> QED BY <1>1, <2>1 DEF Inv, Messages
<1>8. Reported'
  <2>1. At(Done)' = At(Done)
    BY <1>1, <1>2 DEF At, Inv, Plain
  <2>2. UNCHANGED <<Range(results), Range(errs)>>
    BY <1>1
  <2> QED BY <1>1, <2>1, <2>2 DEF Inv, Reported, Told
<1>9. Returned' /\ Contract'
  BY <1>1 DEF Inv, Returned, Contract
<1> QED BY <1>3, <1>4, <1>5, <1>6, <1>7, <1>8, <1>9 DEF Inv

\* The caller collects when everybody is gone: what the channels hold is what
\* became of every path.
LEMMA CollectStep == Inv /\ Collect => Inv'
<1> SUFFICES ASSUME Inv, Collect PROVE Inv'
  OBVIOUS
<1>1. /\ caller = "collect" /\ caller' = "back"
      /\ UNCHANGED <<outcome, cancelled, sem, wg, results, errs, closed, worker, next>>
  BY DEF Collect, Step, channels
<1>2. Plain' /\ Started' /\ Closing'
  BY <1>1 DEF Inv, Plain, Started, Closing
<1>3. Counted' /\ Messages' /\ Reported'
  BY <1>1, CallerKeeps
<1>4. /\ \A i \in Ids : Told(i)
      /\ \A i \in Range(results) : outcome[i] = "hits"
      /\ \A e \in Range(errs) : \/ e[2] = "ctx" /\ cancelled
                                \/ e[2] = "file" /\ outcome[e[1]] = "fails"
  BY <1>1 DEF Inv, Closing, Reported, At, Done
<1>5. Range(results) \subseteq Ids /\ Range(errs) \subseteq Ids \X Causes
  BY DEF Inv, Messages, Range
<1>6. Failed \subseteq Ids
  BY <1>5 DEF Failed
<1>7. CASE Stopped \/ cancelled
  <2>1. ret'.files = <<>> /\ ret'.failed \subseteq Ids /\ ret'.error = "ctx"
    BY <1>6, <1>7 DEF Collect, Return
  <2>2. cancelled'
    BY <1>1, <1>4, <1>7 DEF Stopped
  <2>3. ret'.files \in Seq(Ids)
    BY <2>1
  <2> QED BY <1>2, <1>3, <2>1, <2>2, <2>3 DEF Inv, Returned, Contract
<1>8. CASE ~Stopped /\ ~cancelled
  <2>1. /\ ret'.files = Ascending(Range(results)) /\ ret'.failed = Failed
        /\ ret'.error = IF errs = <<>> THEN "none" ELSE "joined"
    BY <1>8 DEF Collect, Return
  <2>2. \A e \in Range(errs) : e[2] = "file"
    BY <1>4, <1>8
  <2>3. Range(results) = {i \in Ids : outcome[i] = "hits"}
    <3>1. ASSUME NEW i \in Ids, outcome[i] = "hits" PROVE i \in Range(results)
      <4>1. <<i, "ctx">> \notin Range(errs)
        BY <2>2
      <4> QED BY <1>4, <3>1, <4>1 DEF Told
    <3> QED BY <1>4, <1>5, <3>1
  <2>4. Failed = {i \in Ids : outcome[i] = "fails"}
    <3>1. ASSUME NEW i \in Ids, outcome[i] = "fails" PROVE i \in Failed
      <4>1. <<i, "ctx">> \notin Range(errs)
        BY <2>2
      <4>2. <<i, "file">> \in Range(errs)
        BY <1>4, <3>1, <4>1 DEF Told
      <4> QED BY <4>2 DEF Failed
    <3>2. ASSUME NEW i \in Failed PROVE i \in Ids /\ outcome[i] = "fails"
      <4>1. PICK e \in Range(errs) : i = e[1]
        BY DEF Failed
      <4> QED BY <1>4, <1>6, <2>2, <4>1
    <3> QED BY <3>1, <3>2
  <2>5. errs = <<>> <=> Failed = {}
    <3>1. errs = <<>> <=> Range(errs) = {}
      <4>1. errs \in Seq(Ids \X Causes)
        BY DEF Inv, Messages
      <4>2. errs = <<>> <=> DOMAIN errs = {}
        BY <4>1
      <4> QED BY <4>2 DEF Range
    <3> QED BY <3>1 DEF Failed
  <2>6. ret'.files \in Seq(Ids)
    <3>1. IsFiniteSet(Range(results)) /\ Range(results) \in SUBSET Int
      <4>1. IsFiniteSet(Ids) /\ Ids \in SUBSET Int
        BY SizesAssumption, FS_Interval DEF Ids
      <4>2. Range(results) \in SUBSET Ids
        BY <1>5
      <4> QED BY <4>1, <4>2, FS_Subset
    <3>2. /\ Cardinality(Range(results)) \in Nat
          /\ Ascending(Range(results)) \in [1 .. Cardinality(Range(results)) -> Range(results)]
      BY <3>1, AscendingProperties
    <3>3. Ascending(Range(results)) \in [1 .. Cardinality(Range(results)) -> Ids]
      BY <1>5, <3>2
    <3> QED BY <2>1, <3>2, <3>3
  <2>7. ret'.error \in {"none", "ctx", "joined"}
    BY <2>1
  <2>8. Returned'
    BY <1>6, <2>1, <2>6, <2>7 DEF Returned
  <2>9. ret'.error = IF ret'.failed = {} THEN "none" ELSE "joined"
    BY <2>1, <2>5
  <2>10. Contract'
    BY <1>1, <2>1, <2>3, <2>4, <2>9 DEF Contract
  <2> QED BY <1>2, <1>3, <2>8, <2>10 DEF Inv
<1> QED BY <1>7, <1>8

\* Every other step of the caller.
LEMMA CallerStep == Inv /\ Caller => Inv'
<1> SUFFICES ASSUME Inv, Caller PROVE Inv'
  OBVIOUS
<1> USE DEF Step, channels
<1>1. CASE CheckCaller
  <2>1. /\ UNCHANGED <<outcome, cancelled, sem, wg, results, errs, closed, worker, next>>
        /\ caller = "start"
        /\ \/ caller' = "back" /\ cancelled /\ Return(<<>>, {}, "ctx")
           \/ caller' = "loop" /\ UNCHANGED ret
    BY <1>1 DEF CheckCaller
  <2>2. Counted' /\ Messages' /\ Reported'
    BY <2>1, CallerKeeps
  <2>3. Plain' /\ Started' /\ Closing'
    BY <2>1 DEF Inv, Plain, Started, Closing
  <2>4. CASE Return(<<>>, {}, "ctx") /\ cancelled
    BY <2>1, <2>2, <2>3, <2>4, LeaveKeeps DEF Inv
  <2>5. CASE caller' = "loop" /\ UNCHANGED ret
    BY <2>2, <2>3, <2>5 DEF Inv, Returned, Contract
  <2> QED BY <2>1, <2>4, <2>5
<1>2. CASE Leave
  <2>1. /\ UNCHANGED <<outcome, cancelled, sem, wg, results, errs, closed, worker, next>>
        /\ caller = "loop" /\ caller' = "back" /\ cancelled /\ Return(<<>>, {}, "ctx")
    BY <1>2 DEF Leave
  <2>2. Counted' /\ Messages' /\ Reported'
    BY <2>1, CallerKeeps
  <2>3. Plain' /\ Started' /\ Closing'
    BY <2>1 DEF Inv, Plain, Started, Closing
  <2> QED BY <2>1, <2>2, <2>3, LeaveKeeps DEF Inv
<1>3. CASE AllStarted
  <2>1. /\ UNCHANGED <<outcome, cancelled, sem, wg, results, errs, closed, worker, next, ret>>
        /\ caller = "loop" /\ caller' = "wait" /\ next > N
    BY <1>3 DEF AllStarted
  <2>2. Counted' /\ Messages' /\ Reported'
    BY <2>1, CallerKeeps
  <2>3. Plain' /\ Started' /\ Closing'
    BY <2>1, SizesAssumption DEF Inv, Plain, Started, Closing
  <2> QED BY <2>1, <2>2, <2>3 DEF Inv, Returned, Contract
<1>4. CASE Wait
  <2>1. /\ UNCHANGED <<outcome, cancelled, sem, wg, results, errs, worker, next, ret>>
        /\ caller = "wait" /\ caller' = "collect" /\ wg = 0 /\ closed' = TRUE
    BY <1>4 DEF Wait
  <2>2. Counted' /\ Messages' /\ Reported'
    BY <2>1, CallerKeeps
  <2>3. At(Live) = {}
    <3>1. IsFiniteSet(Ids) /\ At(Live) \in SUBSET Ids
      BY SizesAssumption, FS_Interval DEF Ids, At
    <3>2. IsFiniteSet(At(Live))
      BY <3>1, FS_Subset
    <3> QED BY <2>1, <3>2, FS_EmptySet DEF Inv, Counted
  <2>4. next = N + 1
    BY <2>1 DEF Inv, Started
  <2>5. ASSUME NEW i \in Ids PROVE worker[i] = "gone"
    <3>1. worker[i] # "unborn"
      BY <2>4, SizesAssumption DEF Inv, Started, Ids
    <3> QED BY <2>3, <3>1 DEF Inv, Plain, At
  <2>6. Plain' /\ Started' /\ Closing'
    BY <2>1, <2>5 DEF Inv, Plain, Started, Closing
  <2> QED BY <2>1, <2>2, <2>6 DEF Inv, Returned, Contract
<1> QED BY <1>1, <1>2, <1>3, <1>4, SpawnStep, CollectStep DEF Caller

\* The context ends.
LEMMA CancelStep == Inv /\ Cancel => Inv'
<1> SUFFICES ASSUME Inv, Cancel PROVE Inv'
  OBVIOUS
<1>1. /\ cancelled' = TRUE
      /\ UNCHANGED <<outcome, sem, wg, results, errs, closed, worker, caller, next, ret>>
  BY DEF Cancel
<1>2. Plain' /\ Started' /\ Closing'
  BY <1>1 DEF Inv, Plain, Started, Closing
<1>3. UNCHANGED <<At(Holding), At(Live), At(Unsent), At(Done)>>
  BY <1>1 DEF At
<1>4. Counted' /\ Messages'
  BY <1>1, <1>3 DEF Inv, Counted, Messages
<1>5. UNCHANGED <<Range(results), Range(errs)>>
  BY <1>1
<1>6. Reported'
  BY <1>1, <1>3, <1>5 DEF Inv, Reported, Told
<1>7. Returned' /\ Contract'
  BY <1>1 DEF Inv, Returned, Contract
<1> QED BY <1>2, <1>4, <1>6, <1>7 DEF Inv

\* A call that has not begun satisfies the invariant.
LEMMA InitInv == Init => Inv
<1> SUFFICES ASSUME Init PROVE Inv
  OBVIOUS
<1>1. /\ \A i \in Ids : worker[i] = "unborn"
      /\ results = <<>> /\ errs = <<>> /\ sem = 0 /\ wg = 0 /\ ret = Nothing
  BY DEF Init
<1>2. Plain /\ Started /\ Closing
  <2>1. /\ outcome \in [Ids -> {"hits", "none", "fails"}] /\ cancelled \in BOOLEAN
        /\ closed = FALSE /\ worker = [i \in Ids |-> "unborn"] /\ caller = "start" /\ next = 1
    BY DEF Init
  <2>2. \A i \in Ids : i >= 1
    BY DEF Ids
  <2>3. 1 \in 1 .. N + 1
    BY SizesAssumption
  <2> QED BY <2>1, <2>2, <2>3 DEF Plain, Started, Closing, Live
<1>3. At(Holding) = {} /\ At(Live) = {} /\ At(Done) = {} /\ At(Unsent) = Ids
  BY <1>1 DEF At, Holding, Live, Done, Unsent
<1>4. Cardinality({}) = 0 /\ Cardinality(Ids) = N
  BY SizesAssumption, FS_EmptySet, FS_Interval DEF Ids
<1>5. Counted
  BY <1>1, <1>3, <1>4, SizesAssumption DEF Counted
<1>6. Messages
  <2>1. Len(results) = 0 /\ Len(errs) = 0
    BY <1>1
  <2> QED BY <1>1, <1>3, <1>4, <2>1, SizesAssumption DEF Messages
<1>7. Reported
  <2>1. Range(results) = {} /\ Range(errs) = {}
    BY <1>1 DEF Range
  <2> QED BY <1>3, <2>1 DEF Reported
<1>8. Returned
  <2>1. ret.files = <<>> /\ ret.failed = {} /\ ret.error = "none"
    BY <1>1 DEF Nothing
  <2>2. ret.files \in Seq(Ids)
    BY <2>1
  <2> QED BY <2>1, <2>2 DEF Returned
<1>9. Contract
  BY DEF Init, Contract
<1> QED BY <1>2, <1>5, <1>6, <1>7, <1>8, <1>9 DEF Inv

\* The invariant holds in every state there is.
LEMMA InvHolds == Spec => []Inv
<1>1. Inv /\ [Next]_vars => Inv'
  <2> SUFFICES ASSUME Inv, [Next]_vars PROVE Inv'
    OBVIOUS
  <2>1. CASE Cancel
    BY <2>1, CancelStep
  <2>2. CASE Caller
    BY <2>2, CallerStep
  <2>3. ASSUME NEW i \in Ids, Acquire(i) \/ GiveUp(i) \/ Search(i) PROVE Inv'
    BY <2>3, WorkerStep
  <2>4. CASE UNCHANGED vars
    <3>1. UNCHANGED <<outcome, cancelled, sem, wg, results, errs, closed, worker, caller, next, ret>>
      BY <2>4 DEF vars
    <3>2. Counted' /\ Messages' /\ Reported'
      BY <3>1, CallerKeeps
    <3> QED BY <3>1, <3>2 DEF Inv, Plain, Started, Closing, Returned, Contract
  <2> QED BY <2>1, <2>2, <2>3, <2>4 DEF Next, Over
<1> QED BY InitInv, <1>1, PTL DEF Spec

------------------------------------------------------------------------------
(****************************************************************************)
(* What follows from it.                                                    *)
(****************************************************************************)

\* Every variable keeps its type; neither counter leaves its range.
THEOREM TypeOKHolds == Spec => []TypeOK
<1>1. Inv => TypeOK
  <2> SUFFICES ASSUME Inv PROVE TypeOK
    OBVIOUS
  <2>1. sem \in 0 .. Concurrency /\ wg \in 0 .. N
    <3>1. IsFiniteSet(Ids) /\ Cardinality(Ids) = N
      BY SizesAssumption, FS_Interval DEF Ids
    <3>2. At(Holding) \in SUBSET Ids /\ At(Live) \in SUBSET Ids
      BY DEF At
    <3>3. /\ Cardinality(At(Holding)) \in Nat /\ Cardinality(At(Live)) \in Nat
          /\ Cardinality(At(Live)) <= N
      BY <3>1, <3>2, FS_Subset, FS_CardinalityType
    <3> QED BY <3>3, SizesAssumption DEF Inv, Counted
  <2>2. worker \in [Ids -> Workers]
    BY DEF Inv, Plain, Live, Workers, Holding
  <2>3. results \in Seq(Ids) /\ errs \in Seq(Ids \X Causes)
    BY DEF Inv, Messages
  <2> QED BY <2>1, <2>2, <2>3, Zenon DEF Inv, Plain, Returned, TypeOK
<1> QED BY InvHolds, <1>1, PTL

\* At no time do more than Concurrency goroutines have a file open.
THEOREM BoundedHolds == Spec => []Bounded
<1>1. Inv => Bounded
  BY DEF Inv, Counted, At, Bounded
<1> QED BY InvHolds, <1>1, PTL

\* The call returns what its contract says, in whatever order the goroutines
\* finish and whenever the context ends.
THEOREM ContractHolds == Spec => []Contract
<1>1. Inv => Contract
  BY DEF Inv
<1> QED BY InvHolds, <1>1, PTL

\* No goroutine sends on a closed channel.
THEOREM NoPanicHolds == Spec => []NoPanic
<1>1. Inv => NoPanic
  BY DEF Inv, Plain, Live, NoPanic
<1> QED BY InvHolds, <1>1, PTL

\* Who collects has left no goroutine behind.
THEOREM NoneBehindHolds == Spec => []NoneBehind
<1>1. Inv => NoneBehind
  BY DEF Inv, Closing, NoneBehind
<1> QED BY InvHolds, <1>1, PTL

\* The results of a call that was not interrupted: every path with hits once,
\* in the order of the list.
Delivered ==
  caller = "back" /\ ret.error # "ctx" =>
    /\ \A i, j \in DOMAIN ret.files : i < j => ret.files[i] < ret.files[j]
    /\ Range(ret.files) = {i \in Ids : outcome[i] = "hits"}

\* Every path with hits is delivered once and in order.
THEOREM DeliveredHolds == Spec => []Delivered
<1>1. Inv => Delivered
  <2> SUFFICES ASSUME Inv, caller = "back", ret.error # "ctx"
               PROVE  /\ \A i, j \in DOMAIN ret.files : i < j => ret.files[i] < ret.files[j]
                      /\ Range(ret.files) = {i \in Ids : outcome[i] = "hits"}
    BY DEF Delivered
  <2> DEFINE S == {i \in Ids : outcome[i] = "hits"}
  <2>1. ret.files = Ascending(S)
    BY DEF Inv, Contract
  <2>2. IsFiniteSet(S) /\ S \in SUBSET Int
    <3>1. IsFiniteSet(Ids) /\ Ids \in SUBSET Int /\ S \in SUBSET Ids
      BY SizesAssumption, FS_Interval DEF Ids
    <3> HIDE DEF S
    <3> QED BY <3>1, FS_Subset
  <2> HIDE DEF S
  <2>3. /\ Ascending(S) \in [1 .. Cardinality(S) -> S]
        /\ \A i, j \in 1 .. Cardinality(S) : i < j => Ascending(S)[i] < Ascending(S)[j]
        /\ Range(Ascending(S)) = S
    BY <2>2, AscendingProperties, AscendingRange
  <2> QED BY <2>1, <2>3 DEF S
<1> QED BY InvHolds, <1>1, PTL

\* The channels have room for whoever may still send, whether or not anybody
\* receives: a goroutine whose caller has left does not wait for ever.
RoomForAll == \A i \in Ids : worker[i] \in Unsent => Room(results) /\ Room(errs)

\* No send ever blocks.
THEOREM RoomForAllHolds == Spec => []RoomForAll
<1>1. Inv => RoomForAll
  <2> SUFFICES ASSUME Inv, NEW i \in Ids, worker[i] \in Unsent PROVE Room(results) /\ Room(errs)
    BY DEF RoomForAll
  <2>1. IsFiniteSet(At(Unsent)) /\ i \in At(Unsent)
    <3>1. IsFiniteSet(Ids) /\ At(Unsent) \in SUBSET Ids
      BY SizesAssumption, FS_Interval DEF Ids, At
    <3> QED BY <3>1, FS_Subset DEF At
  <2>2. Cardinality(At(Unsent)) \in Nat /\ Cardinality(At(Unsent)) # 0
    BY <2>1, FS_CardinalityType, FS_EmptySet
  <2>3. Len(results) \in Nat /\ Len(errs) \in Nat
    BY DEF Inv, Messages
  <2> QED BY <2>2, <2>3, SizesAssumption DEF Inv, Messages, Room
<1> QED BY InvHolds, <1>1, PTL
==============================================================================
