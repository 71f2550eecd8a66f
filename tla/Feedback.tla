------------------------------- MODULE Feedback ------------------------------
(****************************************************************************)
(* What users' choices leave behind: frecency.FrecencyTracker counts the    *)
(* touches of a file, querytracker.QueryTracker the choices of a file for a *)
(* query, and the last query.  Each has a mutex, held over a read and one   *)
(* or two writes of a key-value store of its own (kv): in memory, or in a   *)
(* bbolt file, where a write can fail and what was written survives a       *)
(* crash.  Picker.Close closes both while others may be using them.         *)
(*                                                                          *)
(* Time passes in half-lives.                                               *)
(****************************************************************************)
EXTENDS Integers

CONSTANTS Procs,     \* the goroutines
          Files,     \* the paths that are touched or chosen
          Queries,   \* the queries, the empty one apart
          Empty,     \* the empty query
          Stores,    \* which of the stores "mem" and "bolt" there are
          Max,       \* the highest count (2^31 - 1)
          MaxCalls,  \* bound: how many calls are made
          MaxTime,   \* bound: how many half-lives pass
          None       \* no record, no goroutine

ASSUME MaxAssumption == Max \in Nat \ {0} /\ {MaxCalls, MaxTime} \subseteq Nat
ASSUME StoresAssumption == Stores \subseteq {"mem", "bolt"}
ASSUME NamesAssumption == Files # {} /\ Empty \notin Queries /\ None \notin Procs \cup Queries

VARIABLES
  kind,     \* which store both trackers use
  topen,    \* the frecency store is open
  qopen,    \* the query store is open
  access,   \* the frecency store: access[f] is f's count and last touch
  combo,    \* the query store: combo[q, f], zero if absent
  last,     \* the query store: the last query
  now,      \* the clock
  calls,    \* how many calls were made
  tlock,    \* FrecencyTracker.mu
  qlock,    \* QueryTracker.mu
  pc,       \* pc[p]: where goroutine p is
  arg,      \* arg[p]: the file and query of its call
  raw,      \* raw[p]: what its call has read from the store
  ret,      \* ret[p]: what its last call returned
  started,  \* history: touches of f, and choices of f for q, that were begun
  acked,    \* history: ... that returned without an error
  newest,   \* history: the query counted last
  faulted   \* history: a write failed or the process crashed

vars == <<kind, topen, qopen, access, combo, last, now, calls, tlock, qlock, pc, arg, raw, ret,
          started, acked, newest, faulted>>
store == <<kind, topen, qopen, access, combo, last>>
history == <<started, acked, newest, faulted>>

Keys == Files \cup ((Queries \cup {Empty}) \X Files)
Counts == 1 .. Max
Record == [count : Counts, last : 0 .. MaxTime]

\* The key of a file is not that of a choice, and no record is neither a record nor
\* a key.
ASSUME KeysAssumption ==
  Files \cap ((Queries \cup {Empty}) \X Files) = {} /\ None \notin Record \cup Keys

PCs == {"idle", "t_lock", "t_get", "t_put", "t_unlock",
        "q_lock", "q_get", "q_put", "q_last", "q_unlock", "c_touch", "c_query"}

TypeOK ==
  /\ kind \in Stores /\ topen \in BOOLEAN /\ qopen \in BOOLEAN
  /\ access \in [Files -> Record \cup {None}]
  /\ combo \in [(Queries \cup {Empty}) \X Files -> 0 .. Max]
  /\ last \in Queries \cup {None} /\ newest \in Queries \cup {None}
  /\ now \in 0 .. MaxTime /\ calls \in 0 .. MaxCalls
  /\ tlock \in Procs \cup {None} /\ qlock \in Procs \cup {None}
  /\ pc \in [Procs -> PCs]
  /\ arg \in [Procs -> [file : Files, query : Queries \cup {Empty}]]
  /\ raw \in [Procs -> 0 .. Max]
  /\ ret \in [Procs -> {"none", "ok", "err", "panic"}]
  /\ started \in [Keys -> Nat] /\ acked \in [Keys -> Nat] /\ faulted \in BOOLEAN

Blank == [access |-> [f \in Files |-> None],
          combo |-> [k \in (Queries \cup {Empty}) \X Files |-> 0]]

Init ==
  /\ kind \in Stores /\ topen = TRUE /\ qopen = TRUE
  /\ access = Blank.access /\ combo = Blank.combo
  /\ last = None /\ newest = None
  /\ now = 0 /\ calls = 0
  /\ tlock = None /\ qlock = None
  /\ pc = [p \in Procs |-> "idle"]
  /\ arg \in [Procs -> {[file |-> CHOOSE f \in Files : TRUE, query |-> Empty]}]
  /\ raw = [p \in Procs |-> 0]
  /\ ret = [p \in Procs |-> "none"]
  /\ started = [k \in Keys |-> 0] /\ acked = [k \in Keys |-> 0]
  /\ faulted = FALSE

Goto(p, here, there) == pc[p] = here /\ pc' = [pc EXCEPT ![p] = there]
Returns(p, r) == ret' = [ret EXCEPT ![p] = r]
Count(h, k) == [h EXCEPT ![k] = @ + 1]

Tick == /\ now < MaxTime
        /\ now' = now + 1
        /\ UNCHANGED <<store, calls, tlock, qlock, pc, arg, raw, ret, history>>

\* The process dies and another opens the stores: memory is lost, a file is not.
Crash ==
  /\ \E p \in Procs : pc[p] # "idle"
  /\ topen' = TRUE /\ qopen' = TRUE
  /\ tlock' = None /\ qlock' = None
  /\ pc' = [p \in Procs |-> "idle"]
  /\ raw' = [p \in Procs |-> 0] /\ ret' = [p \in Procs |-> "none"]
  /\ IF kind = "bolt" THEN UNCHANGED <<access, combo, last, started, acked, newest>>
     ELSE /\ access' = Blank.access /\ combo' = Blank.combo
          /\ last' = None /\ newest' = None
          /\ started' = [k \in Keys |-> 0] /\ acked' = [k \in Keys |-> 0]
  /\ faulted' = TRUE
  /\ UNCHANGED <<kind, now, calls, arg>>

------------------------------------------------------------------------------
\* FrecencyTracker.Touch.

TouchCall(p, f) ==
  /\ calls < MaxCalls
  /\ calls' = calls + 1
  /\ Goto(p, "idle", "t_lock")
  /\ arg' = [arg EXCEPT ![p] = [file |-> f, query |-> Empty]]
  /\ started' = Count(started, f)
  /\ UNCHANGED <<store, now, tlock, qlock, raw, ret, acked, newest, faulted>>

\* Slip: the mutex is not taken.
TouchLockNot(p) ==
  /\ Goto(p, "t_lock", "t_get")
  /\ UNCHANGED <<store, now, calls, tlock, qlock, arg, raw, ret, history>>

TouchLock(p) ==
  /\ Goto(p, "t_lock", "t_get")
  /\ tlock = None
  /\ tlock' = p
  /\ UNCHANGED <<store, now, calls, qlock, arg, raw, ret, history>>

\* A closed bbolt file answers with an error, a closed MemStore with nothing.
TouchGet(p) ==
  /\ \/ /\ ~topen /\ kind = "bolt"
        /\ Goto(p, "t_get", "t_unlock") /\ Returns(p, "err") /\ UNCHANGED raw
     \/ /\ topen \/ kind = "mem"
        /\ Goto(p, "t_get", "t_put") /\ UNCHANGED ret
        /\ raw' = [raw EXCEPT ![p] =
                     IF ~topen \/ access[arg[p].file] = None THEN 0 ELSE access[arg[p].file].count]
  /\ UNCHANGED <<store, now, calls, tlock, qlock, arg, history>>

\* One more; past the highest count the int32 is negative and starts over.
NextCount(c) == IF c = Max THEN 1 ELSE c + 1

\* Slip: a record that exists keeps the time of its first touch.
TouchPutOldTime(p) ==
  /\ topen
  /\ Goto(p, "t_put", "t_unlock") /\ Returns(p, "ok")
  /\ access' = [access EXCEPT ![arg[p].file] =
                  [count |-> NextCount(raw[p]), last |-> IF @ = None THEN now ELSE @.last]]
  /\ UNCHANGED <<kind, topen, qopen, combo, last, now, calls, tlock, qlock, arg, raw, history>>

TouchPut(p) ==
  /\ topen
  /\ Goto(p, "t_put", "t_unlock") /\ Returns(p, "ok")
  /\ access' = [access EXCEPT ![arg[p].file] = [count |-> NextCount(raw[p]), last |-> now]]
  /\ UNCHANGED <<kind, topen, qopen, combo, last, now, calls, tlock, qlock, arg, raw, history>>

\* Writing to a closed MemStore writes to a nil map.
PutPanics(p) ==
  /\ kind = "mem"
  /\ \/ ~topen /\ Goto(p, "t_put", "t_unlock")
     \/ ~qopen /\ Goto(p, "q_put", "q_unlock")
  /\ Returns(p, "panic")
  /\ UNCHANGED <<store, now, calls, tlock, qlock, arg, raw, history>>

\* The write of a bbolt transaction fails.
PutFails(p) ==
  /\ kind = "bolt"
  /\ Goto(p, "t_put", "t_unlock") \/ Goto(p, "q_put", "q_unlock")
  /\ Returns(p, "err")
  /\ faulted' = TRUE
  /\ UNCHANGED <<store, now, calls, tlock, qlock, arg, raw, started, acked, newest>>

TouchUnlock(p) ==
  /\ Goto(p, "t_unlock", "idle")
  /\ tlock' = None
  /\ raw' = [raw EXCEPT ![p] = 0]
  /\ acked' = IF ret[p] = "ok" THEN Count(acked, arg[p].file) ELSE acked
  /\ UNCHANGED <<store, now, calls, qlock, arg, ret, started, newest, faulted>>

\* Ten points a touch, halved every half-life since the last one.
AccessScore(f) ==
  IF access[f] = None THEN 0
  ELSE LET points == (10 * access[f].count) \div 2 ^ (now - access[f].last)
       IN IF points > 100 THEN 100 ELSE points

------------------------------------------------------------------------------
\* QueryTracker.Record.

ComboKey(p) == <<arg[p].query, arg[p].file>>

RecordCall(p, q, f) ==
  /\ calls < MaxCalls
  /\ calls' = calls + 1
  /\ Goto(p, "idle", "q_lock")
  /\ arg' = [arg EXCEPT ![p] = [file |-> f, query |-> q]]
  /\ started' = Count(started, <<q, f>>)
  /\ UNCHANGED <<store, now, tlock, qlock, raw, ret, acked, newest, faulted>>

RecordLock(p) ==
  /\ Goto(p, "q_lock", "q_get")
  /\ qlock = None
  /\ qlock' = p
  /\ UNCHANGED <<store, now, calls, tlock, arg, raw, ret, history>>

\* Slip: the last query is stored first, before the choice is counted.
RecordGetStoresLast(p) ==
  /\ qopen
  /\ Goto(p, "q_get", "q_put")
  /\ raw' = [raw EXCEPT ![p] = combo[ComboKey(p)]]
  /\ last' = IF arg[p].query = Empty THEN last ELSE arg[p].query
  /\ UNCHANGED <<kind, topen, qopen, access, combo, now, calls, tlock, qlock, arg, ret, history>>

RecordGet(p) ==
  /\ \/ /\ ~qopen /\ kind = "bolt"
        /\ Goto(p, "q_get", "q_unlock") /\ Returns(p, "err") /\ UNCHANGED raw
     \/ /\ qopen \/ kind = "mem"
        /\ Goto(p, "q_get", "q_put") /\ UNCHANGED ret
        /\ raw' = [raw EXCEPT ![p] = IF qopen THEN combo[ComboKey(p)] ELSE 0]
  /\ UNCHANGED <<store, now, calls, tlock, qlock, arg, history>>

\* Slip: the mutex covers the count only.
RecordPutUnlocks(p) ==
  /\ qopen
  /\ Goto(p, "q_put", IF arg[p].query = Empty THEN "q_unlock" ELSE "q_last")
  /\ combo' = [combo EXCEPT ![ComboKey(p)] = NextCount(raw[p])]
  /\ newest' = IF arg[p].query = Empty THEN newest ELSE arg[p].query
  /\ Returns(p, "ok")
  /\ qlock' = None
  /\ UNCHANGED <<kind, topen, qopen, access, last, now, calls, tlock, arg, raw,
                 started, acked, faulted>>

\* Slip: the highest count is counted past.
NextCountUnbounded(c) == c + 1
RecordPutUnbounded(p) ==
  /\ qopen
  /\ Goto(p, "q_put", IF arg[p].query = Empty THEN "q_unlock" ELSE "q_last")
  /\ combo' = [combo EXCEPT ![ComboKey(p)] = NextCountUnbounded(raw[p])]
  /\ newest' = IF arg[p].query = Empty THEN newest ELSE arg[p].query
  /\ Returns(p, "ok")
  /\ UNCHANGED <<kind, topen, qopen, access, last, now, calls, tlock, qlock, arg, raw,
                 started, acked, faulted>>

RecordPut(p) ==
  /\ qopen
  /\ Goto(p, "q_put", IF arg[p].query = Empty THEN "q_unlock" ELSE "q_last")
  /\ combo' = [combo EXCEPT ![ComboKey(p)] = NextCount(raw[p])]
  /\ newest' = IF arg[p].query = Empty THEN newest ELSE arg[p].query
  /\ Returns(p, "ok")
  /\ UNCHANGED <<kind, topen, qopen, access, last, now, calls, tlock, qlock, arg, raw,
                 started, acked, faulted>>

\* That this write failed is not reported.
RecordLast(p) ==
  /\ Goto(p, "q_last", "q_unlock")
  /\ \/ last' = arg[p].query /\ UNCHANGED faulted
     \/ kind = "bolt" /\ UNCHANGED last /\ faulted' = TRUE
  /\ UNCHANGED <<kind, topen, qopen, access, combo, now, calls, tlock, qlock, arg, raw, ret,
                 started, acked, newest>>

RecordUnlock(p) ==
  /\ Goto(p, "q_unlock", "idle")
  /\ qlock' = None
  /\ raw' = [raw EXCEPT ![p] = 0]
  /\ acked' = IF ret[p] = "ok" THEN Count(acked, ComboKey(p)) ELSE acked
  /\ UNCHANGED <<store, now, calls, tlock, arg, ret, started, newest, faulted>>

------------------------------------------------------------------------------
\* Picker.Close closes one tracker after the other, each under its mutex.

CloseCall(p) ==
  /\ calls < MaxCalls
  /\ calls' = calls + 1
  /\ Goto(p, "idle", "c_touch")
  /\ UNCHANGED <<store, now, tlock, qlock, arg, raw, ret, history>>

CloseTouch(p) ==
  /\ Goto(p, "c_touch", "c_query")
  /\ tlock = None
  /\ topen' = FALSE
  /\ access' = IF kind = "mem" THEN Blank.access ELSE access
  /\ started' = [k \in Keys |-> IF kind = "mem" /\ k \in Files THEN 0 ELSE started[k]]
  /\ acked' = [k \in Keys |-> IF kind = "mem" /\ k \in Files THEN 0 ELSE acked[k]]
  /\ UNCHANGED <<kind, qopen, combo, last, now, calls, tlock, qlock, arg, raw, ret,
                 newest, faulted>>

CloseQuery(p) ==
  /\ Goto(p, "c_query", "idle")
  /\ qlock = None
  /\ qopen' = FALSE
  /\ Returns(p, "ok")
  /\ combo' = IF kind = "mem" THEN Blank.combo ELSE combo
  /\ last' = IF kind = "mem" THEN None ELSE last
  /\ newest' = IF kind = "mem" THEN None ELSE newest
  /\ started' = [k \in Keys |-> IF kind = "mem" /\ k \notin Files THEN 0 ELSE started[k]]
  /\ acked' = [k \in Keys |-> IF kind = "mem" /\ k \notin Files THEN 0 ELSE acked[k]]
  /\ UNCHANGED <<kind, topen, access, now, calls, tlock, qlock, arg, raw, faulted>>

------------------------------------------------------------------------------
Next ==
  \/ Tick \/ Crash
  \/ \E p \in Procs :
       \/ \E f \in Files : TouchCall(p, f)
       \/ \E q \in Queries \cup {Empty}, f \in Files : RecordCall(p, q, f)
       \/ TouchLock(p) \/ TouchGet(p) \/ TouchPut(p) \/ TouchUnlock(p)
       \/ RecordLock(p) \/ RecordGet(p) \/ RecordPut(p) \/ RecordLast(p) \/ RecordUnlock(p)
       \/ PutPanics(p) \/ PutFails(p)
       \/ CloseCall(p) \/ CloseTouch(p) \/ CloseQuery(p)

Spec == Init /\ [][Next]_vars

------------------------------------------------------------------------------
\* Properties.

Stored(k) == IF k \notin Files THEN combo[k] ELSE IF access[k] = None THEN 0 ELSE access[k].count

\* A touch or a choice that was acknowledged is counted and none is counted
\* twice, whatever runs at the same time, fails or crashes, up to the highest
\* count.
NothingLost == \A k \in Keys : started[k] <= Max => acked[k] <= Stored(k) /\ Stored(k) <= started[k]

\* The last query is one that was counted: a crash or a failed write between
\* the two writes of Record leaves the choice, not the query, behind.
LastHasCombo == last # None => \E f \in Files : combo[<<last, f>>] > 0

\* Between two calls the last query is the one counted last, unless a write
\* failed or the process crashed.
LastIsNewest == qlock = None /\ ~faulted => last = newest

\* A touch makes a file score at least what a first touch does, however long ago
\* the touches before it were.
TouchCounts ==
  [][\A p \in Procs : pc[p] = "t_put" /\ pc'[p] = "t_unlock" /\ ret'[p] = "ok"
                     => AccessScore(arg[p].file)' >= 10]_vars

\* The trackers implement FeedbackSpec: a call counts, or fails, in one step.
\* That step is the write of a touch, and the second write of a choice: before
\* it, its count is the one it has read.
Counting == qlock # None /\ pc[qlock] = "q_last"
CountOf(k) == IF Counting /\ k = ComboKey(qlock) THEN raw[qlock] ELSE Stored(k)
CallOf(p) == IF pc[p] \in {"t_lock", "t_get", "t_put", "t_unlock"} THEN arg[p].file
             ELSE IF pc[p] \in {"q_lock", "q_get", "q_put", "q_last", "q_unlock"} THEN ComboKey(p)
             ELSE None
OutcomeOf(p) == IF pc[p] \notin {"t_unlock", "q_unlock"} THEN "none"
                ELSE IF ret[p] = "ok" THEN "ok" ELSE "failed"
Abs == INSTANCE FeedbackSpec WITH counts <- [k \in Keys |-> CountOf(k)],
                                  call <- [p \in Procs |-> CallOf(p)],
                                  outcome <- [p \in Procs |-> OutcomeOf(p)]
Implements == Abs!Spec

\* A write after Close is refused and nothing worse, by either store.
\* (The test plan says that Close makes a store unwritable and that both
\* stores behave alike.)
ClosedRefuses == \A p \in Procs : ret[p] # "panic"
==============================================================================
