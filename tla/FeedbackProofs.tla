---------------------------- MODULE FeedbackProofs ---------------------------
(****************************************************************************)
(* Theorems about the trackers (Feedback), for any goroutines, files and    *)
(* queries, any number of calls and half-lives, any highest count and       *)
(* either store; and that they implement FeedbackSpec.                      *)
(****************************************************************************)
EXTENDS Feedback, FiniteSetTheorems, TLAPS

\* The type invariant; the last query is stored only if it is not empty.
Plain ==
  /\ TypeOK
  /\ \A p \in Procs : pc[p] = "q_last" => arg[p].query # Empty

\* Each mutex is held from the lock to the unlock of one call.
TouchHeld == {"t_get", "t_put", "t_unlock"}
QueryHeld == {"q_get", "q_put", "q_last", "q_unlock"}
Locks == \A p \in Procs : /\ pc[p] \in TouchHeld <=> tlock = p
                          /\ pc[p] \in QueryHeld <=> qlock = p

\* What a call has read is still what is stored when it writes.
Reads ==
  \A p \in Procs : /\ pc[p] = "t_put" /\ topen => raw[p] = Stored(arg[p].file)
                   /\ pc[p] = "q_put" /\ qopen => raw[p] = combo[ComboKey(p)]

\* A query is stored as the last one after the choice it was made for.
Counted ==
  /\ LastHasCombo
  /\ \A p \in Procs : pc[p] = "q_last" => combo[ComboKey(p)] > 0

\* Without a fault, the last query is the one counted last, but for the moment
\* between the two writes of Record.
Latest ==
  ~faulted => /\ (\A p \in Procs : pc[p] # "q_last") => last = newest
              /\ \A p \in Procs : pc[p] = "q_last" => newest = arg[p].query

\* The calls for key k: before their write, and after one that succeeded.
Waits(p, k) == \/ pc[p] \in {"t_lock", "t_get", "t_put"} /\ k = arg[p].file
               \/ pc[p] \in {"q_lock", "q_get", "q_put"} /\ k = ComboKey(p)
Waiting(k) == {p \in Procs : Waits(p, k)}
Wrote(p, k) == /\ ret[p] = "ok"
               /\ \/ pc[p] = "t_unlock" /\ k = arg[p].file
                  \/ pc[p] \in {"q_last", "q_unlock"} /\ k = ComboKey(p)

\* The store of key k keeps what is written to it; a MemStore that is closed
\* does not.
Live(k) == kind = "bolt" \/ IF k \in Files THEN topen ELSE qopen

\* Every call that was begun for k is stored, failed, or still before its
\* write, and every write that was or will be acknowledged is stored.
Account(k) ==
  /\ IsFiniteSet(Waiting(k))
  /\ ~Live(k) => Stored(k) = 0
  /\ started[k] <= Max =>
       /\ acked[k] <= Stored(k)
       /\ \A p \in Procs : Wrote(p, k) => acked[k] + 1 <= Stored(k)
       /\ Live(k) => Stored(k) + Cardinality(Waiting(k)) <= started[k]
Accounts == \A k \in Keys : Account(k)

Inv == Plain /\ Locks /\ Reads /\ Counted /\ Latest /\ Accounts

------------------------------------------------------------------------------
(****************************************************************************)
(* Types.                                                                   *)
(****************************************************************************)

\* Counts start at one and do not leave their range.
LEMMA NextCountType == ASSUME NEW c \in 0 .. Max PROVE NextCount(c) \in Counts
  BY MaxAssumption DEF NextCount, Counts

\* A history of counts stays one.
LEMMA CountType ==
  ASSUME NEW h \in [Keys -> Nat], NEW k \in Keys PROVE Count(h, k) \in [Keys -> Nat]
<1>1. h[k] + 1 \in Nat
  OBVIOUS
<1> QED BY <1>1 DEF Count

\* The keys of a call.
LEMMA CallKeys ==
  ASSUME TypeOK, NEW p \in Procs
  PROVE  arg[p].file \in Keys /\ ComboKey(p) \in Keys
  BY DEF TypeOK, ComboKey, Keys

\* The calls keep the types.
LEMMA CallsType ==
  ASSUME Plain, NEW p \in Procs,
         (\E f \in Files : TouchCall(p, f))
           \/ (\E q \in Queries \cup {Empty}, f \in Files : RecordCall(p, q, f)) \/ CloseCall(p)
  PROVE  Plain'
<1>1. CASE \E f \in Files : TouchCall(p, f)
  <2>1. PICK f \in Files : TouchCall(p, f)
    BY <1>1
  <2>2. /\ calls' \in 0 .. MaxCalls /\ pc' \in [Procs -> PCs]
        /\ arg' \in [Procs -> [file : Files, query : Queries \cup {Empty}]]
    BY <2>1, MaxAssumption DEF TouchCall, Goto, Plain, TypeOK, PCs
  <2>3. started' \in [Keys -> Nat]
    BY <2>1, CountType DEF TouchCall, Keys, Plain, TypeOK
  <2>4. TypeOK'
    BY <2>1, <2>2, <2>3, Zenon DEF TouchCall, store, Plain, TypeOK
  <2> QED BY <2>1, <2>4 DEF TouchCall, Goto, Plain, TypeOK
<1>2. CASE \E q \in Queries \cup {Empty}, f \in Files : RecordCall(p, q, f)
  <2>1. PICK q \in Queries \cup {Empty}, f \in Files : RecordCall(p, q, f)
    BY <1>2
  <2>2. /\ calls' \in 0 .. MaxCalls /\ pc' \in [Procs -> PCs]
        /\ arg' \in [Procs -> [file : Files, query : Queries \cup {Empty}]]
    BY <2>1, MaxAssumption DEF RecordCall, Goto, Plain, TypeOK, PCs
  <2>3. started' \in [Keys -> Nat]
    BY <2>1, CountType DEF RecordCall, Keys, Plain, TypeOK
  <2>4. TypeOK'
    BY <2>1, <2>2, <2>3, Zenon DEF RecordCall, store, Plain, TypeOK
  <2> QED BY <2>1, <2>4 DEF RecordCall, Goto, Plain, TypeOK
<1>3. CASE CloseCall(p)
  <2>1. calls' \in 0 .. MaxCalls /\ pc' \in [Procs -> PCs]
    BY <1>3, MaxAssumption DEF CloseCall, Goto, Plain, TypeOK, PCs
  <2>2. TypeOK'
    BY <1>3, <2>1, Zenon DEF CloseCall, store, history, Plain, TypeOK
  <2> QED BY <1>3, <2>2 DEF CloseCall, Goto, Plain, TypeOK
<1> QED BY <1>1, <1>2, <1>3

\* The steps of Touch do.
LEMMA TouchType ==
  ASSUME Plain, NEW p \in Procs,
         TouchLock(p) \/ TouchGet(p) \/ TouchPut(p) \/ TouchUnlock(p)
  PROVE  Plain'
<1>1. pc' \in [Procs -> PCs]
  BY DEF TouchLock, TouchGet, TouchPut, TouchUnlock, Goto, Plain, TypeOK, PCs
<1>2. \A q \in Procs : pc'[q] = "q_last" => arg'[q].query # Empty
  <2>1. /\ arg' = arg /\ pc' = [pc EXCEPT ![p] = pc'[p]] /\ pc'[p] # "q_last"
    BY DEF TouchLock, TouchGet, TouchPut, TouchUnlock, Goto, Plain, TypeOK
  <2> QED BY <2>1 DEF Plain, TypeOK
<1>3. CASE TouchLock(p)
  <2>1. tlock' \in Procs \cup {None}
    BY <1>3 DEF TouchLock
  <2> QED BY <1>1, <1>2, <1>3, <2>1, Zenon DEF TouchLock, store, history, Plain, TypeOK
<1>4. CASE TouchGet(p)
  <2>1. arg[p].file \in Files
    BY DEF Plain, TypeOK
  <2>2. access[arg[p].file] = None \/ access[arg[p].file].count \in 0 .. Max
    BY <2>1, MaxAssumption DEF Plain, TypeOK, Record, Counts
  <2>3. raw' \in [Procs -> 0 .. Max]
    BY <1>4, <2>2, MaxAssumption DEF TouchGet, Plain, TypeOK
  <2>4. ret' \in [Procs -> {"none", "ok", "err", "panic"}]
    BY <1>4 DEF TouchGet, Returns, Plain, TypeOK
  <2> QED BY <1>1, <1>2, <1>4, <2>3, <2>4, Zenon DEF TouchGet, store, history, Plain, TypeOK
<1>5. CASE TouchPut(p)
  <2>1. arg[p].file \in Files /\ raw[p] \in 0 .. Max /\ now \in 0 .. MaxTime
    BY DEF Plain, TypeOK
  <2>2. [count |-> NextCount(raw[p]), last |-> now] \in Record
    BY <2>1, NextCountType DEF Record
  <2>3. access' \in [Files -> Record \cup {None}]
    BY <1>5, <2>1, <2>2 DEF TouchPut, Plain, TypeOK
  <2>4. ret' \in [Procs -> {"none", "ok", "err", "panic"}]
    BY <1>5 DEF TouchPut, Returns, Plain, TypeOK
  <2> QED BY <1>1, <1>2, <1>5, <2>3, <2>4, Zenon DEF TouchPut, history, Plain, TypeOK
<1>6. CASE TouchUnlock(p)
  <2>1. tlock' \in Procs \cup {None}
    BY <1>6 DEF TouchUnlock
  <2>2. raw' \in [Procs -> 0 .. Max]
    BY <1>6, MaxAssumption DEF TouchUnlock, Plain, TypeOK
  <2>3. acked' \in [Keys -> Nat]
    BY <1>6, CallKeys, CountType DEF TouchUnlock, Plain, TypeOK
  <2> QED BY <1>1, <1>2, <1>6, <2>1, <2>2, <2>3, Zenon DEF TouchUnlock, store, Plain, TypeOK
<1> QED BY <1>3, <1>4, <1>5, <1>6

\* The steps of Record do; a query that is stored is not empty.
LEMMA RecordType ==
  ASSUME Plain, NEW p \in Procs,
         RecordLock(p) \/ RecordGet(p) \/ RecordPut(p) \/ RecordLast(p) \/ RecordUnlock(p)
  PROVE  Plain'
<1>1. pc' \in [Procs -> PCs]
  BY DEF RecordLock, RecordGet, RecordPut, RecordLast, RecordUnlock, Goto, Plain, TypeOK, PCs
<1>2. \A q \in Procs : pc'[q] = "q_last" => arg'[q].query # Empty
  <2>1. /\ arg' = arg /\ pc' = [pc EXCEPT ![p] = pc'[p]]
        /\ pc'[p] = "q_last" => arg[p].query # Empty
    <3>1. CASE RecordPut(p)
      BY <3>1 DEF RecordPut, Goto, Plain, TypeOK
    <3>2. CASE RecordLock(p) \/ RecordGet(p)
      BY <3>2 DEF RecordLock, RecordGet, Goto, Plain, TypeOK
    <3>3. CASE RecordLast(p) \/ RecordUnlock(p)
      BY <3>3 DEF RecordLast, RecordUnlock, Goto, Plain, TypeOK
    <3> QED BY <3>1, <3>2, <3>3
  <2> QED BY <2>1 DEF Plain, TypeOK
<1>3. CASE RecordLock(p)
  <2>1. qlock' \in Procs \cup {None}
    BY <1>3 DEF RecordLock
  <2> QED BY <1>1, <1>2, <1>3, <2>1, Zenon DEF RecordLock, store, history, Plain, TypeOK
<1>4. /\ ComboKey(p) \in (Queries \cup {Empty}) \X Files
      /\ combo[ComboKey(p)] \in 0 .. Max /\ raw[p] \in 0 .. Max
      /\ arg[p].query \in Queries \cup {Empty}
  BY DEF Plain, TypeOK, ComboKey
<1>5. CASE RecordGet(p)
  <2>1. raw' \in [Procs -> 0 .. Max]
    BY <1>4, <1>5, MaxAssumption DEF RecordGet, Plain, TypeOK
  <2>2. ret' \in [Procs -> {"none", "ok", "err", "panic"}]
    BY <1>5 DEF RecordGet, Returns, Plain, TypeOK
  <2> QED BY <1>1, <1>2, <1>5, <2>1, <2>2, Zenon DEF RecordGet, store, history, Plain, TypeOK
<1>6. CASE RecordPut(p)
  <2>1. NextCount(raw[p]) \in 0 .. Max
    BY <1>4, NextCountType DEF Counts
  <2>2. combo' \in [(Queries \cup {Empty}) \X Files -> 0 .. Max]
    BY <1>4, <1>6, <2>1 DEF RecordPut, Plain, TypeOK
  <2>3. ret' \in [Procs -> {"none", "ok", "err", "panic"}]
    BY <1>6 DEF RecordPut, Returns, Plain, TypeOK
  <2>4. newest' \in Queries \cup {None}
    BY <1>4, <1>6 DEF RecordPut, Plain, TypeOK
  <2> QED BY <1>1, <1>2, <1>6, <2>2, <2>3, <2>4, Zenon DEF RecordPut, Plain, TypeOK
<1>7. CASE RecordLast(p)
  <2>1. last' \in Queries \cup {None} /\ faulted' \in BOOLEAN
    BY <1>4, <1>7 DEF RecordLast, Goto, Plain, TypeOK
  <2> QED BY <1>1, <1>2, <1>7, <2>1, Zenon DEF RecordLast, Plain, TypeOK
<1>8. CASE RecordUnlock(p)
  <2>1. qlock' \in Procs \cup {None}
    BY <1>8 DEF RecordUnlock
  <2>2. raw' \in [Procs -> 0 .. Max]
    BY <1>8, MaxAssumption DEF RecordUnlock, Plain, TypeOK
  <2>3. acked' \in [Keys -> Nat]
    BY <1>8, CallKeys, CountType DEF RecordUnlock, Plain, TypeOK
  <2> QED BY <1>1, <1>2, <1>8, <2>1, <2>2, <2>3, Zenon DEF RecordUnlock, store, Plain, TypeOK
<1> QED BY <1>3, <1>5, <1>6, <1>7, <1>8

\* The steps of Picker.Close do.
LEMMA CloseType ==
  ASSUME Plain, NEW p \in Procs, CloseTouch(p) \/ CloseQuery(p)
  PROVE  Plain'
<1>1. pc' \in [Procs -> PCs]
  BY DEF CloseTouch, CloseQuery, Goto, Plain, TypeOK, PCs
<1>2. \A q \in Procs : pc'[q] = "q_last" => arg'[q].query # Empty
  BY DEF CloseTouch, CloseQuery, Goto, Plain, TypeOK
<1>3. started' \in [Keys -> Nat] /\ acked' \in [Keys -> Nat]
  BY DEF CloseTouch, CloseQuery, Plain, TypeOK
<1>4. CASE CloseTouch(p)
  <2>1. access' \in [Files -> Record \cup {None}] /\ topen' \in BOOLEAN
    BY <1>4 DEF CloseTouch, Blank, Plain, TypeOK
  <2> QED BY <1>1, <1>2, <1>3, <1>4, <2>1, Zenon DEF CloseTouch, Plain, TypeOK
<1>5. CASE CloseQuery(p)
  <2>1. combo' \in [(Queries \cup {Empty}) \X Files -> 0 .. Max]
    BY <1>5, MaxAssumption DEF CloseQuery, Blank, Plain, TypeOK
  <2>2. /\ last' \in Queries \cup {None} /\ newest' \in Queries \cup {None}
        /\ qopen' \in BOOLEAN
    BY <1>5 DEF CloseQuery, Plain, TypeOK
  <2>3. ret' \in [Procs -> {"none", "ok", "err", "panic"}]
    BY <1>5 DEF CloseQuery, Returns, Plain, TypeOK
  <2> QED BY <1>1, <1>2, <1>3, <1>5, <2>1, <2>2, <2>3, Zenon DEF CloseQuery, Plain, TypeOK
<1> QED BY <1>4, <1>5

\* Every step keeps the types.
LEMMA PlainStep == Plain /\ [Next]_vars => Plain'
<1> SUFFICES ASSUME Plain, [Next]_vars PROVE Plain'
  OBVIOUS
<1>1. CASE Tick
  <2>1. now' \in 0 .. MaxTime
    BY <1>1, MaxAssumption DEF Tick, Plain, TypeOK
  <2> QED BY <1>1, <2>1, Zenon DEF Tick, store, history, Plain, TypeOK
<1>2. CASE Crash
  <2>1. /\ pc' = [p \in Procs |-> "idle"] /\ raw' = [p \in Procs |-> 0]
        /\ ret' = [p \in Procs |-> "none"] /\ topen' \in BOOLEAN /\ qopen' \in BOOLEAN
        /\ tlock' = None /\ qlock' = None /\ faulted' \in BOOLEAN
        /\ UNCHANGED <<kind, now, calls, arg>>
    BY <1>2 DEF Crash
  <2>2. /\ pc' \in [Procs -> PCs] /\ raw' \in [Procs -> 0 .. Max]
        /\ ret' \in [Procs -> {"none", "ok", "err", "panic"}]
    BY <2>1, MaxAssumption DEF PCs
  <2>3. /\ access' \in [Files -> Record \cup {None}]
        /\ combo' \in [(Queries \cup {Empty}) \X Files -> 0 .. Max]
    BY <1>2, MaxAssumption DEF Crash, Blank, Plain, TypeOK
  <2>4. /\ last' \in Queries \cup {None} /\ newest' \in Queries \cup {None}
        /\ started' \in [Keys -> Nat] /\ acked' \in [Keys -> Nat]
    BY <1>2 DEF Crash, Plain, TypeOK
  <2>5. \A p \in Procs : pc'[p] # "q_last"
    BY <2>1
  <2> QED BY <2>1, <2>2, <2>3, <2>4, <2>5, Zenon DEF Plain, TypeOK
<1>3. CASE UNCHANGED vars
  BY <1>3 DEF vars, Plain, TypeOK
<1>4. ASSUME NEW p \in Procs, PutPanics(p) \/ PutFails(p) PROVE Plain'
  <2>1. pc' \in [Procs -> PCs] /\ ret' \in [Procs -> {"none", "ok", "err", "panic"}]
    BY <1>4 DEF PutPanics, PutFails, Goto, Returns, Plain, TypeOK, PCs
  <2>2. faulted' \in BOOLEAN
    BY <1>4 DEF PutPanics, PutFails, history, Plain, TypeOK
  <2>3. \A q \in Procs : pc'[q] = "q_last" => arg'[q].query # Empty
    BY <1>4 DEF PutPanics, PutFails, Goto, Plain, TypeOK
  <2> QED BY <1>4, <2>1, <2>2, <2>3, Zenon DEF PutPanics, PutFails, store, history, Plain, TypeOK
<1> QED BY <1>1, <1>2, <1>3, <1>4, CallsType, TouchType, RecordType, CloseType DEF Next

------------------------------------------------------------------------------
(****************************************************************************)
(* The mutexes, and what a call knows while it holds one.                   *)
(****************************************************************************)

\* Who is past the lock and before the unlock holds the mutex, and nobody else.
LEMMA LocksStep == Plain /\ Locks /\ [Next]_vars => Locks'
<1> SUFFICES ASSUME Plain, Locks, [Next]_vars PROVE Locks'
  OBVIOUS
<1> DEFINE Held == /\ tlock' = tlock /\ qlock' = qlock
                   /\ \A p \in Procs : /\ pc'[p] \in TouchHeld <=> pc[p] \in TouchHeld
                                       /\ pc'[p] \in QueryHeld <=> pc[p] \in QueryHeld
<1>1. ASSUME Held PROVE Locks'
  BY <1>1 DEF Locks
<1>2. CASE Tick \/ UNCHANGED vars
  BY <1>1, <1>2 DEF Tick, vars
<1>3. CASE Crash
  BY <1>3, NamesAssumption DEF Crash, Locks, TouchHeld, QueryHeld
<1>4. ASSUME NEW p \in Procs, TouchLock(p) \/ TouchUnlock(p) PROVE Locks'
  BY <1>4, NamesAssumption
  DEF TouchLock, TouchUnlock, Goto, Locks, TouchHeld, QueryHeld, Plain, TypeOK
<1>5. ASSUME NEW p \in Procs, RecordLock(p) \/ RecordUnlock(p) PROVE Locks'
  BY <1>5, NamesAssumption
  DEF RecordLock, RecordUnlock, Goto, Locks, TouchHeld, QueryHeld, Plain, TypeOK
<1>6. ASSUME NEW p \in Procs, (\E f \in Files : TouchCall(p, f)) \/ CloseCall(p)
               \/ \E q \in Queries \cup {Empty}, f \in Files : RecordCall(p, q, f)
      PROVE Locks'
  BY <1>1, <1>6 DEF TouchCall, RecordCall, CloseCall, Goto, TouchHeld, QueryHeld, Plain, TypeOK
<1>7. ASSUME NEW p \in Procs, TouchGet(p) \/ TouchPut(p) \/ PutPanics(p) \/ PutFails(p)
      PROVE Locks'
  BY <1>1, <1>7
  DEF TouchGet, TouchPut, PutPanics, PutFails, Goto, TouchHeld, QueryHeld, Plain, TypeOK
<1>8. ASSUME NEW p \in Procs, RecordGet(p) \/ RecordPut(p) \/ RecordLast(p) PROVE Locks'
  BY <1>1, <1>8 DEF RecordGet, RecordPut, RecordLast, Goto, TouchHeld, QueryHeld, Plain, TypeOK
<1>9. ASSUME NEW p \in Procs, CloseTouch(p) \/ CloseQuery(p) PROVE Locks'
  BY <1>1, <1>9 DEF CloseTouch, CloseQuery, Goto, TouchHeld, QueryHeld, Plain, TypeOK
<1> QED BY <1>2, <1>3, <1>4, <1>5, <1>6, <1>7, <1>8, <1>9 DEF Next

\* While one call is between its read and its write, no other writes.
LEMMA ReadsStep == Plain /\ Locks /\ Reads /\ [Next]_vars => Reads'
<1> SUFFICES ASSUME Plain, Locks, Reads, [Next]_vars PROVE Reads'
  OBVIOUS
<1> DEFINE Touched(p) == pc[p] = "t_put" /\ topen => raw[p] = Stored(arg[p].file)
           Asked(p) == pc[p] = "q_put" /\ qopen => raw[p] = combo[ComboKey(p)]
<1>1. /\ pc \in [Procs -> PCs] /\ raw \in [Procs -> 0 .. Max]
      /\ arg \in [Procs -> [file : Files, query : Queries \cup {Empty}]]
      /\ access \in [Files -> Record \cup {None}]
      /\ \A p \in Procs : arg[p].file \in Files
  BY DEF Plain, TypeOK
<1>2. /\ \A p \in Procs : pc[p] = "t_put" <=> pc[p] = "t_put" /\ tlock = p
      /\ \A p \in Procs : pc[p] = "q_put" <=> pc[p] = "q_put" /\ qlock = p
  BY DEF Locks, TouchHeld, QueryHeld
<1>3. CASE Tick \/ UNCHANGED vars
  BY <1>3 DEF Tick, vars, store, Reads, Stored, ComboKey
<1>4. CASE Crash
  BY <1>4 DEF Crash, Reads
<1>5. ASSUME NEW p \in Procs, (\E f \in Files : TouchCall(p, f)) \/ CloseCall(p)
               \/ \E q \in Queries \cup {Empty}, f \in Files : RecordCall(p, q, f)
      PROVE Reads'
  <2>1. /\ UNCHANGED <<topen, qopen, access, combo, raw>> /\ pc[p] = "idle"
        /\ pc'[p] \notin {"t_put", "q_put"}
        /\ \A q \in Procs : q # p => pc'[q] = pc[q] /\ arg'[q] = arg[q]
    BY <1>1, <1>5 DEF TouchCall, RecordCall, CloseCall, Goto, store
  <2> QED BY <2>1 DEF Reads, Stored, ComboKey
<1>6. ASSUME NEW p \in Procs, TouchLock(p) \/ RecordLock(p) \/ PutPanics(p) \/ PutFails(p)
      PROVE Reads'
  BY <1>1, <1>6
  DEF TouchLock, RecordLock, PutPanics, PutFails, Goto, store, Reads, Stored, ComboKey
<1>7. ASSUME NEW p \in Procs, TouchGet(p) PROVE Reads'
  BY <1>1, <1>7 DEF TouchGet, Goto, store, Reads, Stored, ComboKey
<1>8. ASSUME NEW p \in Procs, RecordGet(p) PROVE Reads'
  <2>1. CASE ~qopen /\ kind = "bolt" /\ pc'[p] # "q_put"
    BY <1>1, <1>8, <2>1 DEF RecordGet, Goto, store, Reads, Stored, ComboKey
  <2>2. CASE raw' = [raw EXCEPT ![p] = IF qopen THEN combo[ComboKey(p)] ELSE 0]
    BY <1>1, <1>8, <2>2 DEF RecordGet, Goto, store, Reads, Stored, ComboKey
  <2> QED BY <1>1, <1>8, <2>1, <2>2 DEF RecordGet, Goto
<1>9. ASSUME NEW p \in Procs, TouchPut(p) PROVE Reads'
  BY <1>1, <1>2, <1>9 DEF TouchPut, Goto, Reads, Stored, ComboKey
<1>10. ASSUME NEW p \in Procs, RecordPut(p) PROVE Reads'
  <2>1. \A q \in Procs : arg[q].file \notin (Queries \cup {Empty}) \X Files
    BY <1>1, KeysAssumption
  <2> QED BY <1>1, <1>2, <1>10, <2>1 DEF RecordPut, Goto, Reads, Stored, ComboKey
<1>11. ASSUME NEW p \in Procs, TouchUnlock(p) \/ RecordLast(p) \/ RecordUnlock(p) PROVE Reads'
  BY <1>1, <1>11 DEF TouchUnlock, RecordLast, RecordUnlock, Goto, store, Reads, Stored, ComboKey
<1>12. ASSUME NEW p \in Procs, CloseTouch(p) PROVE Reads'
  BY <1>1, <1>2, <1>12, NamesAssumption DEF CloseTouch, Goto, Reads, Stored, ComboKey
<1>13. ASSUME NEW p \in Procs, CloseQuery(p) PROVE Reads'
  BY <1>1, <1>2, <1>13, NamesAssumption DEF CloseQuery, Goto, Reads, Stored, ComboKey
<1> QED BY <1>3, <1>4, <1>5, <1>6, <1>7, <1>8, <1>9, <1>10, <1>11, <1>12, <1>13 DEF Next

\* The last query has a choice: no step but the close of a MemStore, which
\* waits for the mutex and forgets both, takes a choice away.
LEMMA CountedStep == Plain /\ Locks /\ Counted /\ [Next]_vars => Counted'
<1> SUFFICES ASSUME Plain, Locks, Counted, [Next]_vars PROVE Counted'
  OBVIOUS
<1> DEFINE AllKeys == (Queries \cup {Empty}) \X Files
<1>1. /\ pc \in [Procs -> PCs] /\ combo \in [AllKeys -> 0 .. Max]
      /\ arg \in [Procs -> [file : Files, query : Queries \cup {Empty}]]
      /\ last \in Queries \cup {None}
      /\ \A p \in Procs : /\ raw[p] \in 0 .. Max /\ arg[p].file \in Files
                          /\ arg[p].query \in Queries \cup {Empty} /\ ComboKey(p) \in AllKeys
  BY DEF Plain, TypeOK, ComboKey
<1>2. /\ last # None => \E f \in Files : combo[<<last, f>>] > 0
      /\ \A p \in Procs : pc[p] = "q_last" => combo[ComboKey(p)] > 0
  BY DEF Counted, LastHasCombo
<1>3. ASSUME \A k \in AllKeys : combo[k] > 0 => combo'[k] > 0,
             last' = last,
             \A p \in Procs : pc'[p] = "q_last" =>
               \/ combo'[ComboKey(p)'] > 0
               \/ pc[p] = "q_last" /\ ComboKey(p)' = ComboKey(p)
      PROVE Counted'
  <2>1. LastHasCombo'
    BY <1>1, <1>2, <1>3 DEF LastHasCombo
  <2>2. \A p \in Procs : pc'[p] = "q_last" => combo'[ComboKey(p)'] > 0
    BY <1>1, <1>2, <1>3
  <2> QED BY <2>1, <2>2 DEF Counted
<1>4. CASE Tick \/ UNCHANGED vars
  BY <1>3, <1>4 DEF Tick, vars, store, ComboKey
<1>5. CASE Crash
  BY <1>2, <1>5 DEF Crash, Counted, LastHasCombo
<1>6. ASSUME NEW p \in Procs, (\E f \in Files : TouchCall(p, f)) \/ CloseCall(p)
               \/ \E q \in Queries \cup {Empty}, f \in Files : RecordCall(p, q, f)
      PROVE Counted'
  BY <1>1, <1>3, <1>6 DEF TouchCall, RecordCall, CloseCall, Goto, store, ComboKey
<1>7. ASSUME NEW p \in Procs, TouchLock(p) \/ TouchGet(p) \/ TouchPut(p) \/ TouchUnlock(p)
      PROVE Counted'
  BY <1>1, <1>3, <1>7 DEF TouchLock, TouchGet, TouchPut, TouchUnlock, Goto, store, ComboKey
<1>8. ASSUME NEW p \in Procs, RecordLock(p) \/ RecordGet(p) \/ RecordUnlock(p)
               \/ PutPanics(p) \/ PutFails(p) \/ CloseTouch(p)
      PROVE Counted'
  BY <1>1, <1>3, <1>8
  DEF RecordLock, RecordGet, RecordUnlock, PutPanics, PutFails, CloseTouch, Goto, store, ComboKey
<1>9. ASSUME NEW p \in Procs, RecordPut(p) PROVE Counted'
  <2>1. NextCount(raw[p]) > 0
    BY <1>1, NextCountType DEF Counts
  <2>2. /\ combo' = [combo EXCEPT ![ComboKey(p)] = NextCount(raw[p])]
        /\ last' = last /\ arg' = arg /\ pc' = [pc EXCEPT ![p] = pc'[p]]
    BY <1>1, <1>9 DEF RecordPut, Goto
  <2>3. combo'[ComboKey(p)] > 0
    BY <1>1, <2>1, <2>2
  <2>4. \A k \in AllKeys : combo[k] > 0 => combo'[k] > 0
    BY <1>1, <2>1, <2>2
  <2>5. \A q \in Procs : ComboKey(q)' = ComboKey(q)
    BY <2>2 DEF ComboKey
  <2>6. \A q \in Procs : pc'[q] = "q_last" => q = p \/ pc[q] = "q_last"
    BY <1>1, <2>2
  <2> QED BY <1>3, <2>2, <2>3, <2>4, <2>5, <2>6
<1>10. ASSUME NEW p \in Procs, RecordLast(p) PROVE Counted'
  <2>1. combo[<<arg[p].query, arg[p].file>>] > 0
    BY <1>2, <1>10 DEF RecordLast, Goto, ComboKey
  <2>2. LastHasCombo'
    BY <1>1, <1>2, <1>10, <2>1 DEF RecordLast, LastHasCombo
  <2>3. \A q \in Procs : pc'[q] = "q_last" => pc[q] = "q_last"
    BY <1>1, <1>10 DEF RecordLast, Goto
  <2>4. \A q \in Procs : ComboKey(q)' = ComboKey(q)
    BY <1>10 DEF RecordLast, ComboKey
  <2>5. combo' = combo
    BY <1>10 DEF RecordLast
  <2> QED BY <1>2, <2>2, <2>3, <2>4, <2>5 DEF Counted
<1>11. ASSUME NEW p \in Procs, CloseQuery(p) PROVE Counted'
  <2>1. \A q \in Procs : pc[q] # "q_last"
    BY <1>11, NamesAssumption DEF CloseQuery, Locks, QueryHeld
  <2>2. \A q \in Procs : pc'[q] # "q_last"
    BY <1>1, <1>11, <2>1 DEF CloseQuery, Goto
  <2>3. LastHasCombo'
    BY <1>2, <1>11 DEF CloseQuery, LastHasCombo
  <2> QED BY <2>2, <2>3 DEF Counted
<1> QED BY <1>4, <1>5, <1>6, <1>7, <1>8, <1>9, <1>10, <1>11 DEF Next

\* The last query follows the choice counted last, one step behind.
LEMMA LatestStep == Plain /\ Locks /\ Latest /\ [Next]_vars => Latest'
<1> SUFFICES ASSUME Plain, Locks, Latest, [Next]_vars, ~faulted' PROVE Latest'
  BY DEF Latest
<1>1. pc \in [Procs -> PCs] /\ arg \in [Procs -> [file : Files, query : Queries \cup {Empty}]]
  BY DEF Plain, TypeOK
<1>2. ASSUME ~faulted, last' = last, newest' = newest,
             \A p \in Procs : pc'[p] = "q_last" <=> pc[p] = "q_last",
             \A p \in Procs : pc[p] = "q_last" => arg'[p] = arg[p]
      PROVE Latest'
  BY <1>2 DEF Latest
<1>3. CASE Tick \/ UNCHANGED vars
  BY <1>2, <1>3 DEF Tick, vars, store, history
<1>4. CASE Crash
  BY <1>4 DEF Crash
<1>5. ASSUME NEW p \in Procs, (\E f \in Files : TouchCall(p, f)) \/ CloseCall(p)
               \/ \E q \in Queries \cup {Empty}, f \in Files : RecordCall(p, q, f)
      PROVE Latest'
  BY <1>1, <1>2, <1>5 DEF TouchCall, RecordCall, CloseCall, Goto, store, history
<1>6. ASSUME NEW p \in Procs, TouchLock(p) \/ TouchGet(p) \/ TouchPut(p) \/ TouchUnlock(p)
      PROVE Latest'
  BY <1>1, <1>2, <1>6 DEF TouchLock, TouchGet, TouchPut, TouchUnlock, Goto, store, history
<1>7. ASSUME NEW p \in Procs, RecordLock(p) \/ RecordGet(p) \/ RecordUnlock(p)
               \/ PutPanics(p) \/ PutFails(p) \/ CloseTouch(p)
      PROVE Latest'
  BY <1>1, <1>2, <1>7
  DEF RecordLock, RecordGet, RecordUnlock, PutPanics, PutFails, CloseTouch, Goto, store, history
<1>8. ASSUME NEW p \in Procs, RecordPut(p) PROVE Latest'
  <2>1. \A q \in Procs : pc[q] # "q_last"
    BY <1>8 DEF RecordPut, Goto, Locks, QueryHeld
  <2>2. last = newest
    BY <1>8, <2>1 DEF RecordPut, Latest
  <2>3. \A q \in Procs : pc'[q] = "q_last" => q = p /\ arg[p].query # Empty
    BY <1>1, <1>8, <2>1 DEF RecordPut, Goto
  <2>4. arg[p].query # Empty => pc'[p] = "q_last"
    BY <1>1, <1>8 DEF RecordPut, Goto
  <2> QED BY <1>8, <2>2, <2>3, <2>4 DEF RecordPut, Latest
<1>9. ASSUME NEW p \in Procs, RecordLast(p) PROVE Latest'
  <2>1. ~faulted /\ last' = arg[p].query /\ newest = arg[p].query /\ newest' = newest
    BY <1>9 DEF RecordLast, Goto, Latest
  <2>2. \A q \in Procs : pc'[q] # "q_last"
    BY <1>1, <1>9 DEF RecordLast, Goto, Locks, QueryHeld
  <2> QED BY <2>1, <2>2 DEF Latest
<1>10. ASSUME NEW p \in Procs, CloseQuery(p) PROVE Latest'
  <2>1. \A q \in Procs : pc[q] # "q_last"
    BY <1>10, NamesAssumption DEF CloseQuery, Locks, QueryHeld
  <2>2. \A q \in Procs : pc'[q] # "q_last"
    BY <1>1, <1>10, <2>1 DEF CloseQuery, Goto
  <2> QED BY <1>10, <2>1, <2>2 DEF CloseQuery, Latest
<1> QED BY <1>3, <1>4, <1>5, <1>6, <1>7, <1>8, <1>9, <1>10 DEF Next

------------------------------------------------------------------------------
(****************************************************************************)
(* The accounts: what is stored for a key against the calls that were made. *)
(****************************************************************************)

\* What is stored for a key is a count; how many calls wait is a number.
LEMMA AccountTypes ==
  ASSUME Plain, NEW k \in Keys, Account(k)
  PROVE  /\ Stored(k) \in 0 .. Max /\ started[k] \in Nat /\ acked[k] \in Nat
         /\ Cardinality(Waiting(k)) \in Nat
<1>1. k \notin Files => k \in (Queries \cup {Empty}) \X Files
  BY DEF Keys
<1>2. Stored(k) \in 0 .. Max
  BY <1>1, MaxAssumption DEF Stored, Plain, TypeOK, Record, Counts
<1>3. started[k] \in Nat /\ acked[k] \in Nat
  BY DEF Plain, TypeOK
<1> QED BY <1>2, <1>3, FS_CardinalityType DEF Account

\* What a step of p does to the other calls: nothing.
Alone(p) == \A q \in Procs \ {p} : pc'[q] = pc[q] /\ arg'[q] = arg[q] /\ ret'[q] = ret[q]
Kept(k) == Stored(k)' = Stored(k) /\ Live(k)' = Live(k)

LEMMA OthersSame ==
  ASSUME NEW p \in Procs, Alone(p), NEW k, NEW q \in Procs \ {p}
  PROVE  Waits(q, k)' = Waits(q, k) /\ Wrote(q, k)' = Wrote(q, k)
<1>1. pc'[q] = pc[q] /\ arg'[q] = arg[q] /\ ret'[q] = ret[q]
  BY DEF Alone
<1> QED BY <1>1 DEF Waits, Wrote, ComboKey

\* A step that has nothing to do with k, or gives a call for k up.
LEMMA AccountKept ==
  ASSUME Plain, NEW k \in Keys, Account(k), NEW p \in Procs, Alone(p),
         Kept(k), started'[k] = started[k], acked'[k] = acked[k],
         Waits(p, k)' => Waits(p, k), Wrote(p, k)' => Wrote(p, k)
  PROVE  Account(k)'
<1>0. /\ Stored(k) \in 0 .. Max /\ started[k] \in Nat /\ acked[k] \in Nat
      /\ Cardinality(Waiting(k)) \in Nat
  BY AccountTypes
<1>1. Waiting(k)' \subseteq Waiting(k) /\ \A q \in Procs : Wrote(q, k)' => Wrote(q, k)
  BY OthersSame DEF Waiting
<1>2. /\ IsFiniteSet(Waiting(k)') /\ Cardinality(Waiting(k)') <= Cardinality(Waiting(k))
      /\ Cardinality(Waiting(k)') \in Nat
  BY <1>1, FS_Subset, FS_CardinalityType DEF Account
<1>3. Live(k)' /\ started'[k] <= Max
        => Stored(k)' + Cardinality(Waiting(k)') <= started'[k]
  BY <1>0, <1>2 DEF Account, Kept
<1> QED BY <1>1, <1>2, <1>3 DEF Account, Kept

\* A call for k begins.
LEMMA AccountCall ==
  ASSUME Plain, NEW k \in Keys, Account(k), NEW p \in Procs, Alone(p),
         Kept(k), started'[k] = started[k] + 1, acked'[k] = acked[k], ~Wrote(p, k)'
  PROVE  Account(k)'
<1>0. /\ Stored(k) \in 0 .. Max /\ started[k] \in Nat /\ acked[k] \in Nat
      /\ Cardinality(Waiting(k)) \in Nat
  BY AccountTypes
<1>1. Waiting(k)' \subseteq Waiting(k) \cup {p} /\ \A q \in Procs : Wrote(q, k)' => Wrote(q, k)
  BY OthersSame DEF Waiting
<1>2. /\ IsFiniteSet(Waiting(k) \cup {p})
      /\ Cardinality(Waiting(k) \cup {p}) <= Cardinality(Waiting(k)) + 1
  <2>1. IsFiniteSet(Waiting(k))
    BY DEF Account
  <2>2. Cardinality(Waiting(k) \cup {p}) = IF p \in Waiting(k) THEN Cardinality(Waiting(k))
                                           ELSE Cardinality(Waiting(k)) + 1
    BY <2>1, FS_AddElement
  <2> QED BY <1>0, <2>1, <2>2, FS_AddElement
<1>3. /\ IsFiniteSet(Waiting(k)')
      /\ Cardinality(Waiting(k)') <= Cardinality(Waiting(k) \cup {p})
      /\ Cardinality(Waiting(k)') \in Nat /\ Cardinality(Waiting(k) \cup {p}) \in Nat
  BY <1>1, <1>2, FS_Subset, FS_CardinalityType
<1>4. started'[k] <= Max => started[k] <= Max
  BY <1>0, MaxAssumption
<1>5. Live(k)' /\ started'[k] <= Max
        => Stored(k)' + Cardinality(Waiting(k)') <= started'[k]
  BY <1>2, <1>3, <1>4, <1>0 DEF Account, Kept
<1> QED BY <1>1, <1>3, <1>4, <1>5 DEF Account, Kept

\* A call for k writes one more than is stored.
LEMMA AccountWrite ==
  ASSUME Plain, NEW k \in Keys, Account(k), NEW p \in Procs, Alone(p),
         Waits(p, k), ~Waits(p, k)', Live(k), Live(k)', Stored(k)' = NextCount(Stored(k)),
         started'[k] = started[k], acked'[k] = acked[k]
  PROVE  Account(k)'
<1>0. /\ Stored(k) \in 0 .. Max /\ started[k] \in Nat /\ acked[k] \in Nat
      /\ Cardinality(Waiting(k)) \in Nat
  BY AccountTypes
<1>1. /\ Waiting(k)' = Waiting(k) \ {p} /\ p \in Waiting(k)
      /\ \A q \in Procs : Wrote(q, k)' => q = p \/ Wrote(q, k)
  BY OthersSame DEF Waiting
<1>2. /\ IsFiniteSet(Waiting(k)') /\ Cardinality(Waiting(k)') = Cardinality(Waiting(k)) - 1
      /\ Cardinality(Waiting(k)') \in Nat
  BY <1>1, FS_RemoveElement, FS_CardinalityType DEF Account
<1>3. ASSUME started[k] <= Max PROVE Stored(k)' = Stored(k) + 1
  <2>1. Stored(k) + Cardinality(Waiting(k)) <= started[k]
    BY <1>3 DEF Account
  <2>2. Stored(k) < Max
    BY <1>2, <1>3, <2>1, <1>0, MaxAssumption
  <2> QED BY <1>0, <2>2, MaxAssumption DEF NextCount
<1>4. started'[k] <= Max => Stored(k)' + Cardinality(Waiting(k)') <= started'[k]
  BY <1>2, <1>3, <1>0 DEF Account
<1>5. started'[k] <= Max => /\ acked'[k] <= Stored(k)'
                            /\ acked'[k] + 1 <= Stored(k)'
  BY <1>3, <1>0 DEF Account
<1> QED BY <1>2, <1>4, <1>5 DEF Account

\* A call that has written a choice or touch of k, the only one, is acknowledged.
LEMMA AccountAck ==
  ASSUME Plain, NEW k \in Keys, Account(k), NEW p \in Procs, Alone(p),
         Kept(k), Wrote(p, k), \A q \in Procs : ~Wrote(q, k)', ~Waits(p, k)',
         started'[k] = started[k], acked'[k] = acked[k] + 1
  PROVE  Account(k)'
<1>0. /\ Stored(k) \in 0 .. Max /\ started[k] \in Nat /\ acked[k] \in Nat
      /\ Cardinality(Waiting(k)) \in Nat
  BY AccountTypes
<1>1. Waiting(k)' \subseteq Waiting(k)
  BY OthersSame DEF Waiting
<1>2. /\ IsFiniteSet(Waiting(k)') /\ Cardinality(Waiting(k)') <= Cardinality(Waiting(k))
      /\ Cardinality(Waiting(k)') \in Nat
  BY <1>1, FS_Subset, FS_CardinalityType DEF Account
<1>3. Live(k)' /\ started'[k] <= Max
        => Stored(k)' + Cardinality(Waiting(k)') <= started'[k]
  BY <1>0, <1>2 DEF Account, Kept
<1> QED BY <1>2, <1>3 DEF Account, Kept

\* A store forgets everything about k.
LEMMA AccountForgotten ==
  ASSUME NEW k \in Keys, IsFiniteSet(Waiting(k)'), Live(k)' => Waiting(k)' = {},
         Stored(k)' = 0, started'[k] = 0, acked'[k] = 0, \A q \in Procs : ~Wrote(q, k)'
  PROVE  Account(k)'
<1>1. Live(k)' => Cardinality(Waiting(k)') = 0
  BY FS_EmptySet
<1> QED BY <1>1 DEF Account

\* A step of p is a step of p alone.
LEMMA StepAlone ==
  ASSUME Plain, NEW p \in Procs,
         \/ (\E f \in Files : TouchCall(p, f)) \/ CloseCall(p)
              \/ \E q \in Queries \cup {Empty}, f \in Files : RecordCall(p, q, f)
         \/ TouchLock(p) \/ TouchGet(p) \/ TouchPut(p) \/ TouchUnlock(p)
         \/ RecordLock(p) \/ RecordGet(p) \/ RecordPut(p) \/ RecordLast(p) \/ RecordUnlock(p)
         \/ PutPanics(p) \/ PutFails(p) \/ CloseTouch(p) \/ CloseQuery(p)
  PROVE  Alone(p)
<1>1. /\ pc \in [Procs -> PCs] /\ DOMAIN ret = Procs
      /\ arg \in [Procs -> [file : Files, query : Queries \cup {Empty}]]
  BY DEF Plain, TypeOK
<1>2. CASE (\E f \in Files : TouchCall(p, f)) \/ CloseCall(p)
             \/ \E q \in Queries \cup {Empty}, f \in Files : RecordCall(p, q, f)
  BY <1>1, <1>2 DEF TouchCall, RecordCall, CloseCall, Goto, Alone
<1>3. CASE TouchLock(p) \/ TouchGet(p) \/ TouchPut(p) \/ TouchUnlock(p)
  BY <1>1, <1>3 DEF TouchLock, TouchGet, TouchPut, TouchUnlock, Goto, Returns, Alone
<1>4. CASE RecordLock(p) \/ RecordGet(p) \/ RecordPut(p) \/ RecordLast(p) \/ RecordUnlock(p)
  BY <1>1, <1>4
  DEF RecordLock, RecordGet, RecordPut, RecordLast, RecordUnlock, Goto, Returns, Alone
<1>5. CASE PutPanics(p) \/ PutFails(p) \/ CloseTouch(p) \/ CloseQuery(p)
  BY <1>1, <1>5 DEF PutPanics, PutFails, CloseTouch, CloseQuery, Goto, Returns, Alone
<1> QED BY <1>2, <1>3, <1>4, <1>5

\* A key is that of a file or that of a choice.
LEMMA KeysApart ==
  ASSUME Plain, NEW p \in Procs
  PROVE  /\ arg[p].file \in Files /\ ComboKey(p) \notin Files
         /\ ComboKey(p) \in (Queries \cup {Empty}) \X Files
  BY KeysAssumption DEF Plain, TypeOK, ComboKey

\* Only who holds the mutex of k's store can have written to it unacknowledged.
LEMMA WroteAlone ==
  ASSUME Plain, Locks, NEW k, NEW p \in Procs, Wrote(p, k)
  PROVE  IF k \in Files THEN pc[p] = "t_unlock" /\ tlock = p
                        ELSE pc[p] \in {"q_last", "q_unlock"} /\ qlock = p
<1>1. CASE pc[p] = "t_unlock" /\ k = arg[p].file
  BY <1>1, KeysApart DEF Locks, TouchHeld
<1>2. CASE pc[p] \in {"q_last", "q_unlock"} /\ k = ComboKey(p)
  BY <1>2, KeysApart DEF Locks, QueryHeld
<1> QED BY <1>1, <1>2 DEF Wrote

\* The calls.
LEMMA CallAccounts ==
  ASSUME Plain, Accounts, NEW p \in Procs,
         (\E f \in Files : TouchCall(p, f)) \/ CloseCall(p)
           \/ \E q \in Queries \cup {Empty}, f \in Files : RecordCall(p, q, f)
  PROVE  Accounts'
<1> SUFFICES ASSUME NEW k \in Keys PROVE Account(k)'
  BY DEF Accounts
<1>1. /\ pc \in [Procs -> PCs] /\ started \in [Keys -> Nat]
      /\ arg \in [Procs -> [file : Files, query : Queries \cup {Empty}]]
  BY DEF Plain, TypeOK
<1>2. Account(k) /\ Alone(p)
  BY StepAlone DEF Accounts
<1>3. Kept(k) /\ acked'[k] = acked[k]
  <2>1. UNCHANGED store /\ acked' = acked
    BY DEF TouchCall, RecordCall, CloseCall, history
  <2> QED BY <2>1 DEF store, Kept, Stored, Live
<1>4. ~Wrote(p, k)'
  BY <1>1 DEF TouchCall, RecordCall, CloseCall, Goto, Wrote
<1>5. CASE \E f \in Files : TouchCall(p, f)
  <2>1. PICK f \in Files : TouchCall(p, f)
    BY <1>5
  <2>2. CASE k = f
    <3>1. started'[k] = started[k] + 1
      BY <1>1, <2>1, <2>2 DEF TouchCall, Count
    <3> QED BY <1>2, <1>3, <1>4, <3>1, AccountCall
  <2>3. CASE k # f
    <3>1. started'[k] = started[k] /\ ~Waits(p, k)'
      BY <1>1, <2>1, <2>3 DEF TouchCall, Goto, Count, Waits
    <3> QED BY <1>2, <1>3, <1>4, <3>1, AccountKept
  <2> QED BY <2>2, <2>3
<1>6. CASE \E q \in Queries \cup {Empty}, f \in Files : RecordCall(p, q, f)
  <2>1. PICK q \in Queries \cup {Empty}, f \in Files : RecordCall(p, q, f)
    BY <1>6
  <2>2. CASE k = <<q, f>>
    <3>1. started'[k] = started[k] + 1
      BY <1>1, <2>1, <2>2 DEF RecordCall, Count
    <3> QED BY <1>2, <1>3, <1>4, <3>1, AccountCall
  <2>3. CASE k # <<q, f>>
    <3>1. started'[k] = started[k] /\ ~Waits(p, k)'
      BY <1>1, <2>1, <2>3 DEF RecordCall, Goto, Count, Waits, ComboKey
    <3> QED BY <1>2, <1>3, <1>4, <3>1, AccountKept
  <2> QED BY <2>2, <2>3
<1>7. CASE CloseCall(p)
  <2>1. started'[k] = started[k] /\ ~Waits(p, k)'
    BY <1>1, <1>7 DEF CloseCall, Goto, Waits, history
  <2> QED BY <1>2, <1>3, <1>4, <2>1, AccountKept
<1> QED BY <1>5, <1>6, <1>7

\* The locks, the reads, and what fails: nothing is stored or acknowledged.
LEMMA QuietAccounts ==
  ASSUME Plain, Accounts, NEW p \in Procs,
         TouchLock(p) \/ TouchGet(p) \/ RecordLock(p) \/ RecordGet(p) \/ RecordLast(p)
           \/ PutPanics(p) \/ PutFails(p)
  PROVE  Accounts'
<1> SUFFICES ASSUME NEW k \in Keys PROVE Account(k)'
  BY DEF Accounts
<1>1. pc \in [Procs -> PCs] /\ ret \in [Procs -> {"none", "ok", "err", "panic"}]
  BY DEF Plain, TypeOK
<1>2. Account(k) /\ Alone(p)
  BY StepAlone DEF Accounts
<1>3. Kept(k) /\ started'[k] = started[k] /\ acked'[k] = acked[k] /\ arg' = arg
  BY DEF TouchLock, TouchGet, RecordLock, RecordGet, RecordLast, PutPanics, PutFails,
         store, history, Kept, Stored, Live
<1>4. (Waits(p, k)' => Waits(p, k)) /\ (Wrote(p, k)' => Wrote(p, k))
  <2>1. CASE TouchLock(p) \/ TouchGet(p)
    BY <1>1, <1>3, <2>1 DEF TouchLock, TouchGet, Goto, Returns, Waits, Wrote, ComboKey
  <2>2. CASE RecordLock(p) \/ RecordGet(p) \/ RecordLast(p)
    BY <1>1, <1>3, <2>2 DEF RecordLock, RecordGet, RecordLast, Goto, Returns, Waits, Wrote, ComboKey
  <2>3. CASE PutPanics(p) \/ PutFails(p)
    BY <1>1, <1>3, <2>3 DEF PutPanics, PutFails, Goto, Returns, Waits, Wrote, ComboKey
  <2> QED BY <2>1, <2>2, <2>3
<1> QED BY <1>2, <1>3, <1>4, AccountKept

\* The writes: what was read is still stored, so that one more is stored.
LEMMA WriteAccounts ==
  ASSUME Plain, Locks, Reads, Accounts, NEW p \in Procs, TouchPut(p) \/ RecordPut(p)
  PROVE  Accounts'
<1> SUFFICES ASSUME NEW k \in Keys PROVE Account(k)'
  BY DEF Accounts
<1>1. /\ pc \in [Procs -> PCs] /\ access \in [Files -> Record \cup {None}]
      /\ combo \in [(Queries \cup {Empty}) \X Files -> 0 .. Max]
      /\ raw[p] \in 0 .. Max
  BY DEF Plain, TypeOK
<1>2. Account(k) /\ Alone(p)
  BY StepAlone DEF Accounts
<1>3. started'[k] = started[k] /\ acked'[k] = acked[k] /\ arg' = arg /\ Live(k)' = Live(k)
  BY DEF TouchPut, RecordPut, history, Live
<1>4. k \notin Files => k \in (Queries \cup {Empty}) \X Files
  BY DEF Keys
<1>5. CASE TouchPut(p)
  <2>1. /\ pc[p] = "t_put" /\ pc'[p] = "t_unlock" /\ topen /\ combo' = combo
        /\ access' = [access EXCEPT ![arg[p].file] =
                        [count |-> NextCount(raw[p]), last |-> now]]
    BY <1>1, <1>5 DEF TouchPut, Goto
  <2>2. CASE k = arg[p].file
    <3>1. Stored(k) = raw[p]
      BY <2>1, <2>2 DEF Reads
    <3>2. [count |-> NextCount(raw[p]), last |-> now] \in Record
      BY <1>1, NextCountType DEF Record, Plain, TypeOK
    <3>3. k \in Files /\ access'[k] = [count |-> NextCount(raw[p]), last |-> now]
      BY <1>1, <2>1, <2>2, KeysApart
    <3>4. Stored(k)' = NextCount(Stored(k))
      BY <3>1, <3>2, <3>3, KeysAssumption DEF Stored
    <3>5. Waits(p, k) /\ ~Waits(p, k)' /\ Live(k)
      BY <2>1, <2>2, <3>3 DEF Waits, Live
    <3> QED BY <1>2, <1>3, <3>4, <3>5, AccountWrite
  <2>3. CASE k # arg[p].file
    <3>1. Stored(k)' = Stored(k)
      BY <1>1, <1>4, <2>1, <2>3 DEF Stored
    <3>2. ~Waits(p, k)' /\ ~Wrote(p, k)'
      BY <1>3, <2>1, <2>3 DEF Waits, Wrote
    <3> QED BY <1>2, <1>3, <3>1, <3>2, AccountKept DEF Kept
  <2> QED BY <2>2, <2>3
<1>6. CASE RecordPut(p)
  <2>1. /\ pc[p] = "q_put" /\ pc'[p] \in {"q_last", "q_unlock"} /\ qopen /\ access' = access
        /\ combo' = [combo EXCEPT ![ComboKey(p)] = NextCount(raw[p])]
    BY <1>1, <1>6 DEF RecordPut, Goto
  <2>2. ComboKey(p)' = ComboKey(p)
    BY <1>3 DEF ComboKey
  <2>3. CASE k = ComboKey(p)
    <3>1. k \notin Files /\ k \in (Queries \cup {Empty}) \X Files
      BY <2>3, KeysApart
    <3>2. combo[k] = raw[p] /\ combo'[k] = NextCount(raw[p])
      BY <1>1, <2>1, <2>3, <3>1 DEF Reads
    <3>3. Stored(k)' = NextCount(Stored(k))
      BY <3>1, <3>2 DEF Stored
    <3>4. Waits(p, k) /\ ~Waits(p, k)' /\ Live(k)
      BY <2>1, <2>3, <3>1 DEF Waits, Live
    <3> QED BY <1>2, <1>3, <3>3, <3>4, AccountWrite
  <2>4. CASE k # ComboKey(p)
    <3>1. Stored(k)' = Stored(k)
      BY <1>1, <1>4, <2>1, <2>4 DEF Stored
    <3>2. ~Waits(p, k)' /\ ~Wrote(p, k)'
      BY <2>1, <2>2, <2>4 DEF Waits, Wrote
    <3> QED BY <1>2, <1>3, <3>1, <3>2, AccountKept DEF Kept
  <2> QED BY <2>3, <2>4
<1> QED BY <1>5, <1>6

\* The unlocks: what was written is acknowledged.
LEMMA UnlockAccounts ==
  ASSUME Plain, Locks, Accounts, NEW p \in Procs, TouchUnlock(p) \/ RecordUnlock(p)
  PROVE  Accounts'
<1> SUFFICES ASSUME NEW k \in Keys PROVE Account(k)'
  BY DEF Accounts
<1>1. pc \in [Procs -> PCs] /\ acked \in [Keys -> Nat] /\ pc'[p] = "idle"
  BY DEF Plain, TypeOK, TouchUnlock, RecordUnlock, Goto
<1>2. Account(k) /\ Alone(p)
  BY StepAlone DEF Accounts
<1>3. Kept(k) /\ started'[k] = started[k] /\ UNCHANGED <<arg, ret>>
  <2>1. UNCHANGED <<store, started, arg, ret>>
    BY DEF TouchUnlock, RecordUnlock
  <2> QED BY <2>1 DEF store, Kept, Stored, Live
<1>4. ~Waits(p, k)' /\ ~Wrote(p, k)'
  BY <1>1 DEF Waits, Wrote
<1>5. CASE Wrote(p, k)
  <2>1. \A q \in Procs : ~Wrote(q, k)'
    <3> SUFFICES ASSUME NEW q \in Procs, Wrote(q, k)' PROVE FALSE
      OBVIOUS
    <3>1. q # p /\ Wrote(q, k)
      BY <1>2, <1>4, OthersSame
    <3> QED BY <1>5, <3>1, WroteAlone
  <2>2. acked'[k] = acked[k] + 1
    <3>1. CASE TouchUnlock(p)
      BY <1>1, <1>5, <3>1 DEF TouchUnlock, Goto, Wrote, Count
    <3>2. CASE RecordUnlock(p)
      BY <1>1, <1>5, <3>2 DEF RecordUnlock, Goto, Wrote, Count
    <3> QED BY <3>1, <3>2
  <2> QED BY <1>2, <1>3, <1>4, <1>5, <2>1, <2>2, AccountAck
<1>6. CASE ~Wrote(p, k)
  <2>1. acked'[k] = acked[k]
    <3>1. CASE TouchUnlock(p)
      BY <1>1, <1>6, <3>1 DEF TouchUnlock, Goto, Wrote, Count
    <3>2. CASE RecordUnlock(p)
      BY <1>1, <1>6, <3>2 DEF RecordUnlock, Goto, Wrote, Count
    <3> QED BY <3>1, <3>2
  <2> QED BY <1>2, <1>3, <1>4, <2>1, AccountKept
<1> QED BY <1>5, <1>6

\* Picker.Close waits for the mutex: no write to the store it closes is
\* unacknowledged, and a MemStore forgets everything.
LEMMA CloseAccounts ==
  ASSUME Plain, Locks, Accounts, NEW p \in Procs, CloseTouch(p) \/ CloseQuery(p)
  PROVE  Accounts'
<1> SUFFICES ASSUME NEW k \in Keys PROVE Account(k)'
  BY DEF Accounts
<1>1. /\ pc \in [Procs -> PCs] /\ kind \in {"mem", "bolt"} /\ kind' = kind
      /\ access \in [Files -> Record \cup {None}]
  BY StoresAssumption DEF Plain, TypeOK, CloseTouch, CloseQuery
<1>2. Account(k) /\ Alone(p)
  BY StepAlone DEF Accounts
<1>3. /\ arg' = arg /\ pc[p] \in {"c_touch", "c_query"} /\ pc'[p] \in {"c_query", "idle"}
  BY <1>1 DEF CloseTouch, CloseQuery, Goto
<1>4. \A q \in Procs : Wrote(q, k)' => Wrote(q, k)
  BY <1>2, <1>3, OthersSame DEF Wrote
<1>5. ~Waits(p, k)'
  BY <1>3 DEF Waits
<1>6. IsFiniteSet(Waiting(k)')
  <2>1. Waiting(k)' \subseteq Waiting(k)
    BY <1>2, <1>5, OthersSame DEF Waiting
  <2> QED BY <1>2, <2>1, FS_Subset DEF Account
<1>7. k \notin Files => k \in (Queries \cup {Empty}) \X Files
  BY DEF Keys
<1>8. CASE CloseTouch(p) /\ kind = "mem" /\ k \in Files
  <2>1. started'[k] = 0 /\ acked'[k] = 0 /\ ~topen' /\ access'[k] = None
    BY <1>8 DEF CloseTouch, Blank
  <2>2. \A q \in Procs : ~Wrote(q, k)'
    BY <1>4, <1>8, WroteAlone, NamesAssumption DEF CloseTouch
  <2>3. Stored(k)' = 0 /\ ~Live(k)'
    BY <1>1, <1>8, <2>1 DEF Stored, Live
  <2> QED BY <1>6, <2>1, <2>2, <2>3, AccountForgotten
<1>9. CASE CloseQuery(p) /\ kind = "mem" /\ k \notin Files
  <2>1. started'[k] = 0 /\ acked'[k] = 0 /\ ~qopen' /\ combo'[k] = 0
    BY <1>7, <1>9 DEF CloseQuery, Blank
  <2>2. \A q \in Procs : ~Wrote(q, k)'
    BY <1>4, <1>9, WroteAlone, NamesAssumption DEF CloseQuery
  <2>3. Stored(k)' = 0 /\ ~Live(k)'
    BY <1>1, <1>9, <2>1 DEF Stored, Live
  <2> QED BY <1>6, <2>1, <2>2, <2>3, AccountForgotten
<1>10. CASE kind = "bolt" \/ (CloseTouch(p) /\ k \notin Files) \/ (CloseQuery(p) /\ k \in Files)
  <2>1. Kept(k) /\ started'[k] = started[k] /\ acked'[k] = acked[k]
    <3>1. CASE CloseTouch(p)
      BY <1>1, <1>10, <3>1 DEF CloseTouch, CloseQuery, Kept, Stored, Live
    <3>2. CASE CloseQuery(p)
      BY <1>1, <1>10, <3>2 DEF CloseTouch, CloseQuery, Kept, Stored, Live
    <3> QED BY <3>1, <3>2
  <2> QED BY <1>2, <1>4, <1>5, <2>1, AccountKept
<1> QED BY <1>1, <1>8, <1>9, <1>10

\* A crash: no call is left; a file keeps what was written, memory nothing.
LEMMA CrashAccounts == ASSUME Plain, Accounts, Crash PROVE Accounts'
<1> SUFFICES ASSUME NEW k \in Keys PROVE Account(k)'
  BY DEF Accounts
<1>1. \A q \in Procs : pc'[q] = "idle"
  BY DEF Crash
<1>2. Waiting(k)' = {} /\ \A q \in Procs : ~Wrote(q, k)'
  BY <1>1 DEF Waiting, Waits, Wrote
<1>3. IsFiniteSet(Waiting(k)') /\ Cardinality(Waiting(k)') = 0
  BY <1>2, FS_EmptySet
<1>4. CASE kind = "bolt"
  <2>1. /\ Stored(k)' = Stored(k) /\ started'[k] = started[k] /\ acked'[k] = acked[k]
        /\ Live(k) /\ Live(k)'
    BY <1>4 DEF Crash, Stored, Live
  <2>2. /\ Stored(k) \in 0 .. Max /\ started[k] \in Nat /\ Cardinality(Waiting(k)) \in Nat
    BY AccountTypes DEF Accounts
  <2>3. started[k] <= Max => acked[k] <= Stored(k) /\ Stored(k) + Cardinality(Waiting(k)) <= started[k]
    BY <2>1 DEF Accounts, Account
  <2>4. started'[k] <= Max => Stored(k)' + Cardinality(Waiting(k)') <= started'[k]
    BY <1>3, <2>1, <2>2, <2>3
  <2> QED BY <1>2, <1>3, <2>1, <2>3, <2>4 DEF Account
<1>5. CASE kind # "bolt"
  <2>1. started'[k] = 0 /\ acked'[k] = 0
    BY <1>5 DEF Crash
  <2>2. k \notin Files => k \in (Queries \cup {Empty}) \X Files
    BY DEF Keys
  <2>3. Stored(k)' = 0
    BY <1>5, <2>2 DEF Crash, Blank, Stored
  <2> QED BY <1>2, <1>3, <2>1, <2>3, AccountForgotten
<1> QED BY <1>4, <1>5

\* The accounts balance after every step.
LEMMA AccountsStep == Plain /\ Locks /\ Reads /\ Accounts /\ [Next]_vars => Accounts'
<1> SUFFICES ASSUME Plain, Locks, Reads, Accounts, [Next]_vars PROVE Accounts'
  OBVIOUS
<1>1. CASE Tick \/ UNCHANGED vars
  <2>1. UNCHANGED <<kind, topen, qopen, access, combo, started, acked, pc, arg, ret>>
    BY <1>1 DEF Tick, vars, store, history
  <2>2. ASSUME NEW k \in Keys PROVE Account(k)'
    <3>1. /\ Stored(k)' = Stored(k) /\ Waiting(k)' = Waiting(k) /\ Live(k)' = Live(k)
          /\ \A q \in Procs : Wrote(q, k)' = Wrote(q, k)
      BY <2>1 DEF Stored, Waiting, Waits, Wrote, Live, ComboKey
    <3> QED BY <2>1, <3>1 DEF Accounts, Account
  <2> QED BY <2>2 DEF Accounts
<1> QED BY <1>1, CrashAccounts, CallAccounts, QuietAccounts, WriteAccounts, UnlockAccounts,
           CloseAccounts DEF Next

------------------------------------------------------------------------------
(****************************************************************************)
(* The invariant and what follows from it.                                  *)
(****************************************************************************)

\* New trackers satisfy the invariant.
LEMMA InitInv == Init => Inv
<1> SUFFICES ASSUME Init PROVE Inv
  OBVIOUS
<1>1. /\ kind \in Stores /\ topen = TRUE /\ qopen = TRUE
      /\ access = [f \in Files |-> None]
      /\ combo = [k \in (Queries \cup {Empty}) \X Files |-> 0]
      /\ last = None /\ newest = None /\ now = 0 /\ calls = 0
      /\ tlock = None /\ qlock = None /\ pc = [p \in Procs |-> "idle"]
      /\ raw = [p \in Procs |-> 0] /\ ret = [p \in Procs |-> "none"]
      /\ started = [k \in Keys |-> 0] /\ acked = [k \in Keys |-> 0] /\ faulted = FALSE
  BY DEF Init, Blank
<1>2. \A p \in Procs : pc[p] = "idle"
  BY <1>1
<1>3. Plain
  <2>1. arg \in [Procs -> [file : Files, query : Queries \cup {Empty}]]
    BY NamesAssumption DEF Init
  <2>2. 0 \in 0 .. MaxTime /\ 0 \in 0 .. MaxCalls /\ 0 \in 0 .. Max
    BY MaxAssumption
  <2>3. pc \in [Procs -> PCs] /\ ret \in [Procs -> {"none", "ok", "err", "panic"}]
    BY <1>1 DEF PCs
  <2>4. /\ access \in [Files -> Record \cup {None}] /\ raw \in [Procs -> 0 .. Max]
        /\ combo \in [(Queries \cup {Empty}) \X Files -> 0 .. Max]
    BY <1>1, <2>2
  <2>5. started \in [Keys -> Nat] /\ acked \in [Keys -> Nat]
    BY <1>1
  <2>6. TypeOK
    BY <1>1, <2>1, <2>2, <2>3, <2>4, <2>5, Zenon DEF TypeOK
  <2> QED BY <1>2, <2>6 DEF Plain
<1>4. Locks
  BY <1>1, <1>2, NamesAssumption DEF Locks, TouchHeld, QueryHeld
<1>5. Reads
  BY <1>2 DEF Reads
<1>6. Counted /\ Latest
  BY <1>1, <1>2 DEF Counted, LastHasCombo, Latest
<1>7. ASSUME NEW k \in Keys PROVE Account(k)
  <2>1. Waiting(k) = {} /\ \A p \in Procs : ~Wrote(p, k)
    BY <1>2 DEF Waiting, Waits, Wrote
  <2>2. IsFiniteSet(Waiting(k)) /\ Cardinality(Waiting(k)) = 0
    BY <2>1, FS_EmptySet
  <2>3. k \notin Files => k \in (Queries \cup {Empty}) \X Files
    BY DEF Keys
  <2>4. Stored(k) = 0 /\ started[k] = 0 /\ acked[k] = 0
    BY <1>1, <2>3 DEF Stored
  <2> QED BY <2>1, <2>2, <2>4 DEF Account
<1> QED BY <1>3, <1>4, <1>5, <1>6, <1>7 DEF Inv, Accounts

\* It holds in every state there is.
LEMMA InvHolds == Spec => []Inv
<1>1. Inv /\ [Next]_vars => Inv'
  BY PlainStep, LocksStep, ReadsStep, CountedStep, LatestStep, AccountsStep DEF Inv
<1> QED BY InitInv, <1>1, PTL DEF Spec

\* Every variable keeps its type; in particular no count leaves 0 .. Max.
THEOREM TypeOKHolds == Spec => []TypeOK
<1>1. Inv => TypeOK
  BY DEF Inv, Plain
<1> QED BY InvHolds, <1>1, PTL

\* The last query is one that was counted.
THEOREM LastHasComboHolds == Spec => []LastHasCombo
<1>1. Inv => LastHasCombo
  BY DEF Inv, Counted
<1> QED BY InvHolds, <1>1, PTL

\* Without a fault the last query is the one counted last.
THEOREM LastIsNewestHolds == Spec => []LastIsNewest
<1>1. Inv => LastIsNewest
  <2> SUFFICES ASSUME Inv, qlock = None, ~faulted PROVE last = newest
    BY DEF LastIsNewest
  <2>1. \A p \in Procs : pc[p] # "q_last"
    BY NamesAssumption DEF Inv, Locks, QueryHeld
  <2> QED BY <2>1 DEF Inv, Latest
<1> QED BY InvHolds, <1>1, PTL

\* No acknowledged touch or choice is lost and none is counted twice.
THEOREM NothingLostHolds == Spec => []NothingLost
<1>1. Inv => NothingLost
  <2> SUFFICES ASSUME Inv, NEW k \in Keys, started[k] <= Max
               PROVE  acked[k] <= Stored(k) /\ Stored(k) <= started[k]
    BY DEF NothingLost
  <2>1. Plain /\ Account(k)
    BY DEF Inv, Accounts
  <2>2. /\ Stored(k) \in 0 .. Max /\ started[k] \in Nat /\ acked[k] \in Nat
        /\ Cardinality(Waiting(k)) \in Nat
    BY <2>1, AccountTypes
  <2>3. CASE Live(k)
    BY <2>1, <2>2, <2>3 DEF Account
  <2>4. CASE ~Live(k)
    BY <2>1, <2>2, <2>4 DEF Account
  <2> QED BY <2>3, <2>4
<1> QED BY InvHolds, <1>1, PTL

\* A touch makes a file score what a first touch does, or more.
THEOREM TouchCountsHolds == Spec => TouchCounts
<1>1. Inv /\ [Next]_vars =>
        [\A p \in Procs : pc[p] = "t_put" /\ pc'[p] = "t_unlock" /\ ret'[p] = "ok"
                            => AccessScore(arg[p].file)' >= 10]_vars
  <2> SUFFICES ASSUME Inv, Next, NEW p \in Procs,
                      pc[p] = "t_put", pc'[p] = "t_unlock", ret'[p] = "ok"
               PROVE  AccessScore(arg[p].file)' >= 10
    OBVIOUS
  <2>1. Plain /\ TypeOK
    BY DEF Inv, Plain
  <2>2. TouchPut(p)
    <3>1. PICK q \in Procs :
            \/ (\E f \in Files : TouchCall(q, f)) \/ CloseCall(q)
                 \/ \E c \in Queries \cup {Empty}, f \in Files : RecordCall(q, c, f)
            \/ TouchLock(q) \/ TouchGet(q) \/ TouchPut(q) \/ TouchUnlock(q)
            \/ RecordLock(q) \/ RecordGet(q) \/ RecordPut(q) \/ RecordLast(q) \/ RecordUnlock(q)
            \/ PutPanics(q) \/ PutFails(q) \/ CloseTouch(q) \/ CloseQuery(q)
      BY <2>1 DEF Next, Tick, Crash
    <3>2. q = p
      BY <2>1, <3>1, StepAlone DEF Alone
    <3>3. DOMAIN ret = Procs
      BY <2>1 DEF TypeOK
    <3>4. ~PutPanics(p) /\ ~PutFails(p)
      BY <3>3 DEF PutPanics, PutFails, Returns
    <3> QED BY <3>1, <3>2, <3>4 DEF TouchCall, RecordCall, CloseCall, TouchLock, TouchGet,
               TouchUnlock, RecordLock, RecordGet, RecordPut, RecordLast, RecordUnlock,
               CloseTouch, CloseQuery, Goto
  <2>3. /\ arg[p].file \in Files /\ raw[p] \in 0 .. Max /\ now \in Nat /\ now' = now
        /\ access \in [Files -> Record \cup {None}]
    BY <2>1, <2>2, MaxAssumption DEF TypeOK, TouchPut
  <2>4. arg' = arg /\ access'[arg[p].file] = [count |-> NextCount(raw[p]), last |-> now]
    BY <2>2, <2>3 DEF TouchPut
  <2>5. [count |-> NextCount(raw[p]), last |-> now] \in Record
    BY <2>1, <2>3, NextCountType DEF Record, TypeOK
  <2>6. NextCount(raw[p]) \in Nat \ {0}
    BY <2>3, NextCountType, MaxAssumption DEF Counts
  <2>7. (10 * NextCount(raw[p])) \div 2 ^ (now - now) = 10 * NextCount(raw[p])
    BY <2>3, <2>6
  <2>8. access'[arg[p].file] # None
    BY <2>4, <2>5, KeysAssumption
  <2> QED BY <2>3, <2>4, <2>6, <2>7, <2>8 DEF AccessScore
<1> QED BY InvHolds, <1>1, PTL DEF Spec, TouchCounts

------------------------------------------------------------------------------
(****************************************************************************)
(* The trackers implement FeedbackSpec.                                     *)
(****************************************************************************)

\* Between the two writes of a choice, it can be counted, will be answered "ok",
\* and is stored one higher than it was read.
Halfway == \A p \in Procs : pc[p] = "q_last" =>
             qopen /\ ret[p] = "ok" /\ combo[ComboKey(p)] = NextCount(raw[p])

\* The other calls leave what p reads, writes and returns alone, and a close
\* waits for the mutex.
LEMMA HalfwayStep == Plain /\ Locks /\ Halfway /\ [Next]_vars => Halfway'
<1> SUFFICES ASSUME Plain, Locks, Halfway, [Next]_vars PROVE Halfway'
  OBVIOUS
<1> DEFINE AllKeys == (Queries \cup {Empty}) \X Files
<1>1. /\ pc \in [Procs -> PCs] /\ combo \in [AllKeys -> 0 .. Max] /\ DOMAIN ret = Procs
      /\ raw \in [Procs -> 0 .. Max]
      /\ arg \in [Procs -> [file : Files, query : Queries \cup {Empty}]]
      /\ \A p \in Procs : ComboKey(p) \in AllKeys
  BY DEF Plain, TypeOK, ComboKey
<1>2. ASSUME NEW p \in Procs, Alone(p), pc'[p] # "q_last", qopen' = qopen, combo' = combo,
             \A q \in Procs \ {p} : raw'[q] = raw[q]
      PROVE Halfway'
  BY <1>1, <1>2 DEF Halfway, Alone, ComboKey
<1>3. CASE Tick \/ UNCHANGED vars
  BY <1>3 DEF Tick, vars, store, Halfway, ComboKey
<1>4. CASE Crash
  BY <1>4 DEF Crash, Halfway
<1>5. ASSUME NEW p \in Procs, (\E f \in Files : TouchCall(p, f)) \/ CloseCall(p)
               \/ \E q \in Queries \cup {Empty}, f \in Files : RecordCall(p, q, f)
      PROVE Halfway'
  BY <1>1, <1>2, <1>5, StepAlone DEF TouchCall, RecordCall, CloseCall, Goto, store
<1>6. ASSUME NEW p \in Procs, TouchLock(p) \/ TouchGet(p) \/ TouchPut(p) \/ TouchUnlock(p)
      PROVE Halfway'
  BY <1>1, <1>2, <1>6, StepAlone DEF TouchLock, TouchGet, TouchPut, TouchUnlock, Goto, store
<1>7. ASSUME NEW p \in Procs, RecordLock(p) \/ RecordLast(p) \/ RecordUnlock(p)
               \/ PutPanics(p) \/ PutFails(p) \/ CloseTouch(p)
      PROVE Halfway'
  BY <1>1, <1>2, <1>7, StepAlone
  DEF RecordLock, RecordLast, RecordUnlock, PutPanics, PutFails, CloseTouch, Goto, store
<1>8. ASSUME NEW p \in Procs, RecordGet(p) PROVE Halfway'
  <2>1. /\ qopen' = qopen /\ combo' = combo /\ pc'[p] # "q_last"
        /\ \A q \in Procs \ {p} : raw'[q] = raw[q]
    BY <1>1, <1>8 DEF RecordGet, Goto, store
  <2> QED BY <1>2, <1>8, <2>1, StepAlone
<1>9. ASSUME NEW p \in Procs, RecordPut(p) PROVE Halfway'
  <2>1. /\ qopen' /\ raw' = raw /\ ret'[p] = "ok" /\ pc[p] = "q_put"
        /\ combo' = [combo EXCEPT ![ComboKey(p)] = NextCount(raw[p])] /\ arg' = arg
    BY <1>1, <1>9 DEF RecordPut, Goto, Returns
  <2>2. combo'[ComboKey(p)] = NextCount(raw[p])
    BY <1>1, <2>1
  <2>3. ASSUME NEW q \in Procs, pc'[q] = "q_last" PROVE q = p
    <3>1. CASE q # p
      <4>1. pc[q] = "q_last"
        BY <1>9, <2>3, <3>1, StepAlone DEF Alone
      <4> QED BY <2>1, <3>1, <4>1 DEF Locks, QueryHeld
    <3> QED BY <3>1
  <2>4. ComboKey(p)' = ComboKey(p)
    BY <2>1 DEF ComboKey
  <2> QED BY <2>1, <2>2, <2>3, <2>4 DEF Halfway, NextCount
<1>10. ASSUME NEW p \in Procs, CloseQuery(p) PROVE Halfway'
  <2>1. \A q \in Procs : pc[q] # "q_last"
    BY <1>10, NamesAssumption DEF CloseQuery, Locks, QueryHeld
  <2>2. \A q \in Procs : pc'[q] # "q_last"
    BY <1>1, <1>10, <2>1 DEF CloseQuery, Goto
  <2> QED BY <2>2 DEF Halfway
<1> QED BY <1>3, <1>4, <1>5, <1>6, <1>7, <1>8, <1>9, <1>10 DEF Next

\* What FeedbackSpec sees of the trackers.
Tallied == [k \in Keys |-> CountOf(k)]
Called == [p \in Procs |-> CallOf(p)]
Ended == [p \in Procs |-> OutcomeOf(p)]
Same == UNCHANGED <<kind, topen, qopen, Tallied, last, Called, Ended>>

\* A step of p changes the call and the outcome of p only.
LEMMA OneMoves ==
  ASSUME Plain, NEW p \in Procs, Alone(p)
  PROVE  /\ Called' = [Called EXCEPT ![p] = CallOf(p)']
         /\ Ended' = [Ended EXCEPT ![p] = OutcomeOf(p)']
<1>1. \A q \in Procs \ {p} : CallOf(q)' = CallOf(q)
  BY DEF Alone, CallOf, ComboKey
<1>2. \A q \in Procs \ {p} : OutcomeOf(q)' = OutcomeOf(q)
  BY DEF Alone, OutcomeOf
<1> QED BY <1>1, <1>2, Zenon DEF Called, Ended

\* Whose second write the counts wait for, if anybody's.
LEMMA CountingWho ==
  ASSUME Plain, Locks
  PROVE  /\ Counting => qlock \in Procs /\ pc[qlock] = "q_last"
         /\ \A p \in Procs : pc[p] = "q_last" => Counting /\ qlock = p
BY NamesAssumption DEF Plain, TypeOK, Locks, QueryHeld, Counting

\* A step of p that is neither about to write the last query nor past it leaves
\* the count of a key alone for which it stores nothing.
LEMMA QuietTally ==
  ASSUME Plain, Locks, Plain', Locks', NEW p \in Procs, Alone(p),
         pc[p] # "q_last", pc'[p] # "q_last", \A q \in Procs \ {p} : raw'[q] = raw[q],
         NEW k \in Keys, Stored(k)' = Stored(k)
  PROVE  CountOf(k)' = CountOf(k)
<1>1. /\ Counting => qlock \in Procs \ {p} /\ pc[qlock] = "q_last"
      /\ \A q \in Procs : pc[q] = "q_last" => Counting /\ qlock = q
  BY CountingWho
<1>2. /\ Counting' => qlock' \in Procs \ {p} /\ pc'[qlock'] = "q_last"
      /\ \A q \in Procs : pc'[q] = "q_last" => Counting' /\ qlock' = q
  BY NamesAssumption DEF Plain, TypeOK, Locks, QueryHeld, Counting
<1>3. Counting => Counting' /\ qlock' = qlock
  BY <1>1, <1>2 DEF Alone
<1>4. Counting' => Counting
  BY <1>1, <1>2 DEF Alone
<1>5. CASE Counting
  <2>1. ComboKey(qlock)' = ComboKey(qlock) /\ raw'[qlock'] = raw[qlock]
    BY <1>1, <1>3, <1>5 DEF Alone, ComboKey
  <2> QED BY <1>3, <1>5, <2>1 DEF CountOf
<1>6. CASE ~Counting
  BY <1>4, <1>6 DEF CountOf
<1> QED BY <1>5, <1>6

LEMMA QuietCounts ==
  ASSUME Plain, Locks, Plain', Locks', NEW p \in Procs, Alone(p),
         pc[p] # "q_last", pc'[p] # "q_last", \A q \in Procs \ {p} : raw'[q] = raw[q],
         UNCHANGED <<access, combo>>
  PROVE  Tallied' = Tallied
<1>1. \A k \in Keys : Stored(k)' = Stored(k)
  BY DEF Stored
<1>2. \A k \in Keys : CountOf(k)' = CountOf(k)
  BY <1>1, QuietTally
<1> QED BY <1>2, Zenon DEF Tallied

\* A step of p that p's caller does not see.
LEMMA Unseen ==
  ASSUME Plain, NEW p \in Procs, Alone(p), Tallied' = Tallied,
         CallOf(p)' = CallOf(p), OutcomeOf(p)' = OutcomeOf(p),
         UNCHANGED <<kind, topen, qopen, last>>
  PROVE  Same
<1>1. Called[p] = CallOf(p) /\ Ended[p] = OutcomeOf(p)
  BY DEF Called, Ended
<1>2. Called' = Called /\ Ended' = Ended
  <2>1. /\ Called \in [Procs -> {Called[q] : q \in Procs}]
        /\ Ended \in [Procs -> {Ended[q] : q \in Procs}]
    BY DEF Called, Ended
  <2> QED BY <1>1, <2>1, OneMoves
<1> QED BY <1>2 DEF Same

\* A call of p, for key k, counts.
LEMMA CountsOnce ==
  ASSUME Plain, NEW p \in Procs, Alone(p), NEW k \in Keys, CallOf(p) = k, CallOf(p)' = k,
         OutcomeOf(p) = "none", OutcomeOf(p)' = "ok",
         IF k \in Files THEN topen ELSE qopen,
         CountOf(k)' = NextCount(CountOf(k)),
         \A j \in Keys \ {k} : CountOf(j)' = CountOf(j),
         \/ k \in Queries \X Files /\ last' = k[1]
         \/ (k \notin Queries \X Files \/ kind = "bolt") /\ last' = last,
         UNCHANGED <<kind, topen, qopen>>
  PROVE  Abs!Effect(p)
<1>1. Called[p] = k /\ Ended[p] = "none" /\ k # None
  BY KeysAssumption DEF Called, Ended
<1>2. Called' = Called /\ Ended' = [Ended EXCEPT ![p] = "ok"]
  <2>1. Called = [Called EXCEPT ![p] = k]
    BY <1>1 DEF Called
  <2> QED BY <2>1, OneMoves
<1>3. Tallied' = [Tallied EXCEPT ![k] = IF @ = Max THEN 1 ELSE @ + 1]
  <2>1. Tallied[k] = CountOf(k)
    BY DEF Tallied
  <2>2. Tallied' = [j \in Keys |-> IF j = k THEN NextCount(CountOf(k)) ELSE CountOf(j)]
    BY Zenon DEF Tallied
  <2> QED BY <2>1, <2>2 DEF Tallied, NextCount
<1> QED BY <1>1, <1>2, <1>3 DEF Abs!Effect, Abs!Under, Abs!Open, Abs!OneMore, Tallied, Called, Ended

\* What p's caller sees of a step of p.
LEMMA Seen ==
  ASSUME Plain, NEW p \in Procs, Alone(p)
  PROVE  /\ Called[p] = CallOf(p) /\ Ended[p] = OutcomeOf(p)
         /\ CallOf(p)' = CallOf(p) => Called' = Called
         /\ OutcomeOf(p)' = OutcomeOf(p) => Ended' = Ended
<1>1. Called[p] = CallOf(p) /\ Ended[p] = OutcomeOf(p)
  BY DEF Called, Ended
<1>2. Called = [Called EXCEPT ![p] = CallOf(p)]
  BY <1>1, Zenon DEF Called
<1>3. CallOf(p)' = CallOf(p) => Called' = Called
  BY <1>2, OneMoves
<1>4. Ended = [Ended EXCEPT ![p] = OutcomeOf(p)]
  BY <1>1, Zenon DEF Ended
<1>5. OutcomeOf(p)' = OutcomeOf(p) => Ended' = Ended
  BY <1>4, OneMoves
<1> QED BY <1>1, <1>3, <1>5

\* A call of p begins, fails, or returns: the stores are left alone.
LEMMA CallBegins ==
  ASSUME Plain, NEW p \in Procs, Alone(p), Tallied' = Tallied,
         UNCHANGED <<kind, topen, qopen, last>>,
         CallOf(p) = None, CallOf(p)' \in Keys, OutcomeOf(p)' = OutcomeOf(p)
  PROVE  \E k \in Keys : Abs!Call(p, k)
<1>1. Abs!Call(p, CallOf(p)')
  BY Seen, OneMoves DEF Abs!Call, Tallied, Called, Ended
<1> QED BY <1>1

LEMMA CallFails ==
  ASSUME Plain, NEW p \in Procs, Alone(p), Tallied' = Tallied,
         UNCHANGED <<kind, topen, qopen, last>>,
         CallOf(p) \in Keys, CallOf(p)' = CallOf(p),
         OutcomeOf(p) = "none", OutcomeOf(p)' = "failed",
         kind = "bolt" \/ ~(IF CallOf(p) \in Files THEN topen ELSE qopen)
  PROVE  Abs!Fail(p)
<1>1. Called[p] # None
  BY Seen, KeysAssumption
<1> QED BY <1>1, Seen, OneMoves DEF Abs!Fail, Abs!Under, Abs!Open, Tallied, Called, Ended

LEMMA CallReturns ==
  ASSUME Plain, NEW p \in Procs, Alone(p), Tallied' = Tallied,
         UNCHANGED <<kind, topen, qopen, last>>,
         OutcomeOf(p) # "none", CallOf(p)' = None, OutcomeOf(p)' = "none"
  PROVE  Abs!Return(p)
BY Seen, OneMoves DEF Abs!Return, Tallied, Called, Ended

\* Where p is decides what call it has under way and whether that has ended.
LEMMA Places ==
  ASSUME Plain, NEW p \in Procs
  PROVE  /\ pc[p] \in {"t_lock", "t_get", "t_put", "t_unlock"} => CallOf(p) = arg[p].file
         /\ pc[p] \in {"q_lock", "q_get", "q_put", "q_last", "q_unlock"} => CallOf(p) = ComboKey(p)
         /\ pc[p] \in {"idle", "c_touch", "c_query"} => CallOf(p) = None
         /\ pc[p] \notin {"t_unlock", "q_unlock"} => OutcomeOf(p) = "none"
         /\ arg[p].file \in Keys /\ ComboKey(p) \in Keys
BY CallKeys DEF CallOf, OutcomeOf, Plain

\* The calls of the three.
LEMMA CallImplements ==
  ASSUME Plain, Locks, Plain', Locks', NEW p \in Procs,
         (\E f \in Files : TouchCall(p, f)) \/ CloseCall(p)
           \/ \E q \in Queries \cup {Empty}, f \in Files : RecordCall(p, q, f)
  PROVE  (\E k \in Keys : Abs!Call(p, k)) \/ Same
<1>1. /\ pc \in [Procs -> PCs] /\ arg' \in [Procs -> [file : Files, query : Queries \cup {Empty}]]
  BY DEF Plain, TypeOK
<1>2. Alone(p) /\ UNCHANGED <<kind, topen, qopen, last, access, combo, raw>> /\ pc[p] = "idle"
  BY StepAlone DEF TouchCall, RecordCall, CloseCall, Goto, store
<1>3. pc'[p] \in {"t_lock", "q_lock", "c_touch"}
  BY <1>1 DEF TouchCall, RecordCall, CloseCall, Goto
<1>4. Tallied' = Tallied
  BY <1>2, <1>3, QuietCounts
<1>5. /\ CallOf(p) = None /\ OutcomeOf(p) = "none" /\ OutcomeOf(p)' = "none"
      /\ pc'[p] = "c_touch" => CallOf(p)' = None
      /\ pc'[p] # "c_touch" => CallOf(p)' \in {arg'[p].file, ComboKey(p)'}
  BY <1>2, <1>3 DEF CallOf, OutcomeOf
<1>6. arg'[p].file \in Keys /\ ComboKey(p)' \in Keys
  BY <1>1 DEF Keys, ComboKey
<1> QED BY <1>2, <1>4, <1>5, <1>6, Unseen, CallBegins

\* The locks and the reads; a read of a closed file fails.
LEMMA ReadImplements ==
  ASSUME Plain, Locks, Plain', Locks', NEW p \in Procs,
         TouchLock(p) \/ RecordLock(p) \/ TouchGet(p) \/ RecordGet(p)
  PROVE  Same \/ Abs!Fail(p)
<1>1. /\ pc \in [Procs -> PCs] /\ raw \in [Procs -> 0 .. Max] /\ DOMAIN ret = Procs
  BY DEF Plain, TypeOK
<1>2. Alone(p) /\ UNCHANGED <<kind, topen, qopen, last, access, combo, arg>>
  BY StepAlone DEF TouchLock, RecordLock, TouchGet, RecordGet, store
<1>3. /\ pc[p] \in {"t_lock", "q_lock", "t_get", "q_get"}
      /\ \A q \in Procs \ {p} : raw'[q] = raw[q]
      /\ \/ pc[p] = "t_lock" /\ pc'[p] = "t_get"
         \/ pc[p] = "q_lock" /\ pc'[p] = "q_get"
         \/ pc[p] = "t_get" /\ pc'[p] = "t_put"
         \/ pc[p] = "q_get" /\ pc'[p] = "q_put"
         \/ pc[p] = "t_get" /\ pc'[p] = "t_unlock" /\ kind = "bolt" /\ ret'[p] = "err"
         \/ pc[p] = "q_get" /\ pc'[p] = "q_unlock" /\ kind = "bolt" /\ ret'[p] = "err"
  <2>1. CASE TouchLock(p) \/ RecordLock(p)
    BY <1>1, <2>1 DEF TouchLock, RecordLock, Goto
  <2>2. CASE TouchGet(p)
    BY <1>1, <2>2 DEF TouchGet, Goto, Returns
  <2>3. CASE RecordGet(p)
    BY <1>1, <2>3 DEF RecordGet, Goto, Returns
  <2> QED BY <2>1, <2>2, <2>3
<1>4. Tallied' = Tallied
  BY <1>2, <1>3, QuietCounts
<1>5. CallOf(p)' = CallOf(p) /\ CallOf(p) \in Keys /\ OutcomeOf(p) = "none"
  <2>1. ComboKey(p)' = ComboKey(p) /\ arg' = arg
    BY <1>2 DEF ComboKey
  <2>2. CallOf(p)' = CallOf(p)
    BY <1>3, <2>1 DEF CallOf
  <2> QED BY <1>3, <2>2, Places
<1>6. CASE pc'[p] \in {"t_get", "q_get", "t_put", "q_put"}
  <2>1. OutcomeOf(p)' = "none"
    BY <1>6 DEF OutcomeOf
  <2> QED BY <1>2, <1>4, <1>5, <2>1, Unseen
<1>7. CASE pc'[p] \in {"t_unlock", "q_unlock"} /\ kind = "bolt" /\ ret'[p] = "err"
  <2>1. OutcomeOf(p)' = "failed"
    BY <1>7 DEF OutcomeOf
  <2> QED BY <1>2, <1>4, <1>5, <1>7, <2>1, CallFails
<1> QED BY <1>3, <1>6, <1>7

\* The write of a touch counts it.
LEMMA TouchImplements ==
  ASSUME Plain, Locks, Reads, Plain', Locks', NEW p \in Procs, TouchPut(p)
  PROVE  Abs!Effect(p)
<1>1. /\ pc \in [Procs -> PCs] /\ DOMAIN ret = Procs
      /\ access \in [Files -> Record \cup {None}]
      /\ raw[p] \in 0 .. Max /\ now \in 0 .. MaxTime
  BY DEF Plain, TypeOK
<1>2. /\ Alone(p)
      /\ UNCHANGED <<kind, topen, qopen, last, arg, raw, qlock>>
  BY StepAlone DEF TouchPut
<1>3. PICK k \in Files : k = arg[p].file
  BY KeysApart
<1>4. /\ pc[p] = "t_put" /\ pc'[p] = "t_unlock" /\ topen /\ combo' = combo
      /\ access' = [access EXCEPT ![k] = [count |-> NextCount(raw[p]), last |-> now]]
      /\ ret'[p] = "ok"
  BY <1>1, <1>3 DEF TouchPut, Goto, Returns
<1>5. k \in Keys /\ CallOf(p) = k /\ CallOf(p)' = k
  BY <1>2, <1>3, <1>4 DEF CallOf, Keys
<1>6. OutcomeOf(p) = "none" /\ OutcomeOf(p)' = "ok"
  BY <1>4 DEF OutcomeOf
<1>7. [count |-> NextCount(raw[p]), last |-> now] # None
  BY <1>1, NextCountType, KeysAssumption DEF Record
<1>8. Stored(k) = raw[p] /\ Stored(k)' = NextCount(raw[p])
  BY <1>1, <1>3, <1>4, <1>7 DEF Reads, Stored
<1>9. CountOf(k) = Stored(k) /\ CountOf(k)' = Stored(k)'
  <2>1. \A q \in Procs : ComboKey(q) # k /\ ComboKey(q)' = ComboKey(q)
    BY <1>2, KeysApart DEF ComboKey
  <2>2. (Counting => qlock \in Procs) /\ (Counting' => qlock' \in Procs)
    BY NamesAssumption DEF Plain, TypeOK, Counting
  <2> QED BY <1>2, <2>1, <2>2 DEF CountOf
<1>10. ASSUME NEW j \in Keys \ {k} PROVE CountOf(j)' = CountOf(j)
  <2>1. Stored(j)' = Stored(j)
    BY <1>1, <1>4 DEF Stored
  <2> QED BY <1>2, <1>4, <2>1, QuietTally
<1>11. k \notin Queries \X Files
  BY KeysAssumption
<1> QED BY <1>2, <1>4, <1>5, <1>6, <1>8, <1>9, <1>10, <1>11, CountsOnce

\* So does the write of a choice when it is the only one; the first of two writes
\* is not seen.
LEMMA ChoiceImplements ==
  ASSUME Plain, Locks, Reads, Plain', Locks', NEW p \in Procs, RecordPut(p)
  PROVE  Same \/ Abs!Effect(p)
<1>1. /\ pc \in [Procs -> PCs] /\ DOMAIN ret = Procs
      /\ combo \in [(Queries \cup {Empty}) \X Files -> 0 .. Max] /\ raw[p] \in 0 .. Max
  BY DEF Plain, TypeOK
<1>2. Alone(p) /\ UNCHANGED <<kind, topen, qopen, last, arg, raw, access>>
  BY StepAlone DEF RecordPut
<1>3. PICK k \in (Queries \cup {Empty}) \X Files : k = ComboKey(p)
  BY KeysApart
<1>4. /\ pc[p] = "q_put" /\ qopen /\ qlock' = qlock /\ qlock = p
      /\ combo' = [combo EXCEPT ![k] = NextCount(raw[p])]
      /\ ret'[p] = "ok"
      /\ pc'[p] = IF arg[p].query = Empty THEN "q_unlock" ELSE "q_last"
  BY <1>1, <1>3 DEF RecordPut, Goto, Returns, Locks, QueryHeld
<1>5. k \in Keys /\ k \notin Files /\ CallOf(p) = k /\ CallOf(p)' = k /\ ComboKey(p)' = k
  <2>1. ComboKey(p)' = ComboKey(p)
    BY <1>2 DEF ComboKey
  <2>2. CallOf(p) = k /\ CallOf(p)' = ComboKey(p)'
    BY <1>3, <1>4 DEF CallOf
  <2> QED BY <1>3, <2>1, <2>2, KeysApart DEF Keys
<1>6. OutcomeOf(p) = "none"
  BY <1>4 DEF OutcomeOf
<1>7. /\ Stored(k) = raw[p] /\ Stored(k)' = NextCount(raw[p])
      /\ \A j \in Keys \ {k} : Stored(j)' = Stored(j)
  <2>1. \A j \in Keys : j \notin Files => j \in (Queries \cup {Empty}) \X Files
    BY DEF Keys
  <2> QED BY <1>1, <1>2, <1>3, <1>4, <1>5, <2>1 DEF Reads, Stored
<1>8. \A j \in Keys : CountOf(j) = Stored(j)
  BY <1>4, CountingWho DEF CountOf
<1>9. CASE arg[p].query = Empty
  <2>1. \A j \in Keys : CountOf(j)' = Stored(j)'
    BY <1>4, <1>9 DEF CountOf, Counting
  <2>2. k \notin Queries \X Files
    BY <1>3, <1>9, NamesAssumption DEF ComboKey
  <2>3. OutcomeOf(p)' = "ok"
    BY <1>4, <1>9 DEF OutcomeOf
  <2> QED BY <1>2, <1>4, <1>5, <1>6, <1>7, <1>8, <2>1, <2>2, <2>3, CountsOnce
<1>10. CASE arg[p].query # Empty
  <2>1. Counting' /\ qlock' = p
    BY <1>4, <1>10, NamesAssumption DEF Counting
  <2>2. \A j \in Keys : CountOf(j)' = IF j = k THEN raw[p] ELSE Stored(j)'
    BY <1>2, <1>5, <2>1 DEF CountOf
  <2>3. \A j \in Keys : CountOf(j)' = CountOf(j)
    BY <1>7, <1>8, <2>2
  <2>4. Tallied' = Tallied
    BY <2>3, Zenon DEF Tallied
  <2>5. OutcomeOf(p)' = "none"
    BY <1>4, <1>10 DEF OutcomeOf
  <2> QED BY <1>2, <1>5, <1>6, <2>4, <2>5, Unseen
<1> QED BY <1>9, <1>10

\* The second write does, whether or not it keeps the query.
LEMMA LastImplements ==
  ASSUME Plain, Locks, Halfway, Plain', Locks', NEW p \in Procs, RecordLast(p)
  PROVE  Abs!Effect(p)
<1>1. /\ pc \in [Procs -> PCs]
      /\ arg[p].query \in (Queries \cup {Empty}) \ {Empty}
  BY DEF Plain, TypeOK, RecordLast, Goto
<1>2. Alone(p) /\ UNCHANGED <<kind, topen, qopen, arg, raw, ret, access, combo, qlock>>
  BY StepAlone DEF RecordLast
<1>3. PICK k \in Queries \X Files : k = ComboKey(p)
  BY <1>1, KeysApart DEF ComboKey
<1>4. /\ pc[p] = "q_last" /\ pc'[p] = "q_unlock"
      /\ qopen /\ ret[p] = "ok" /\ combo[k] = NextCount(raw[p])
  BY <1>1, <1>3 DEF RecordLast, Goto, Halfway
<1>5. Counting /\ qlock = p /\ ~Counting'
  BY <1>2, <1>4, CountingWho DEF Counting
<1>6. k \in Keys /\ k \notin Files /\ CallOf(p) = k /\ CallOf(p)' = k
  <2>1. ComboKey(p)' = ComboKey(p)
    BY <1>2 DEF ComboKey
  <2>2. CallOf(p) = k /\ CallOf(p)' = ComboKey(p)'
    BY <1>3, <1>4 DEF CallOf
  <2> QED BY <1>3, <2>1, <2>2, KeysApart DEF Keys
<1>7. OutcomeOf(p) = "none" /\ OutcomeOf(p)' = "ok"
  BY <1>2, <1>4 DEF OutcomeOf
<1>8. \A j \in Keys : Stored(j)' = Stored(j)
  BY <1>2 DEF Stored
<1>9. /\ CountOf(k) = raw[p] /\ CountOf(k)' = NextCount(raw[p])
      /\ \A j \in Keys \ {k} : CountOf(j)' = CountOf(j)
  BY <1>3, <1>4, <1>5, <1>6, <1>8 DEF CountOf, Stored
<1>10. last' = k[1] \/ (kind = "bolt" /\ last' = last)
  BY <1>3 DEF RecordLast, ComboKey
<1> QED BY <1>2, <1>3, <1>4, <1>6, <1>7, <1>9, <1>10, CountsOnce

\* A write that is refused or fails, by a store that is closed or a file, fails
\* the call.
LEMMA FailImplements ==
  ASSUME Plain, Locks, Plain', Locks', NEW p \in Procs, PutPanics(p) \/ PutFails(p)
  PROVE  Abs!Fail(p)
<1>1. pc \in [Procs -> PCs] /\ DOMAIN ret = Procs
  BY DEF Plain, TypeOK
<1>2. /\ Alone(p)
      /\ UNCHANGED <<kind, topen, qopen, last, access, combo, arg, raw>>
  BY StepAlone DEF PutPanics, PutFails, store
<1>3. /\ \/ pc[p] = "t_put" /\ pc'[p] = "t_unlock" /\ (kind = "bolt" \/ ~topen)
         \/ pc[p] = "q_put" /\ pc'[p] = "q_unlock" /\ (kind = "bolt" \/ ~qopen)
      /\ ret'[p] \in {"err", "panic"}
  BY <1>1 DEF PutPanics, PutFails, Goto, Returns
<1>4. Tallied' = Tallied
  BY <1>2, <1>3, QuietCounts
<1>5. CallOf(p) \in Keys /\ OutcomeOf(p) = "none"
  BY <1>3, Places
<1>6. CallOf(p)' = CallOf(p)
  <2>1. ComboKey(p)' = ComboKey(p)
    BY <1>2 DEF ComboKey
  <2> QED BY <1>2, <1>3, <2>1 DEF CallOf
<1>7. OutcomeOf(p)' = "failed"
  BY <1>3 DEF OutcomeOf
<1>8. kind = "bolt" \/ ~(IF CallOf(p) \in Files THEN topen ELSE qopen)
  BY <1>3, Places, KeysApart
<1> QED BY <1>2, <1>4, <1>5, <1>6, <1>7, <1>8, CallFails

\* An unlock returns.
LEMMA UnlockImplements ==
  ASSUME Plain, Locks, Plain', Locks', NEW p \in Procs, TouchUnlock(p) \/ RecordUnlock(p)
  PROVE  Abs!Return(p)
<1>1. pc \in [Procs -> PCs] /\ raw \in [Procs -> 0 .. Max]
  BY DEF Plain, TypeOK
<1>2. /\ Alone(p)
      /\ UNCHANGED <<kind, topen, qopen, last, access, combo>>
  BY StepAlone DEF TouchUnlock, RecordUnlock, store
<1>3. /\ pc[p] \in {"t_unlock", "q_unlock"} /\ pc'[p] = "idle"
      /\ \A q \in Procs \ {p} : raw'[q] = raw[q]
  BY <1>1 DEF TouchUnlock, RecordUnlock, Goto
<1>4. Tallied' = Tallied
  BY <1>2, <1>3, QuietCounts
<1>5. OutcomeOf(p) # "none" /\ CallOf(p)' = None /\ OutcomeOf(p)' = "none"
  BY <1>3 DEF CallOf, OutcomeOf
<1> QED BY <1>2, <1>4, <1>5, CallReturns

\* Picker.Close forgets the touches, then the choices.
LEMMA CloseTouchImplements ==
  ASSUME Plain, Locks, Plain', Locks', NEW p \in Procs, CloseTouch(p)
  PROVE  Abs!CloseTouches
<1>1. pc \in [Procs -> PCs] /\ kind \in {"mem", "bolt"}
  BY StoresAssumption DEF Plain, TypeOK
<1>2. /\ Alone(p) /\ topen' = FALSE
      /\ UNCHANGED <<kind, qopen, last, combo, raw, qlock>>
      /\ pc[p] = "c_touch" /\ pc'[p] = "c_query"
      /\ access' = IF kind = "mem" THEN [f \in Files |-> None] ELSE access
  BY <1>1, StepAlone DEF CloseTouch, Goto, Blank
<1>3. Called' = Called /\ Ended' = Ended
  <2>1. CallOf(p)' = CallOf(p) /\ OutcomeOf(p)' = OutcomeOf(p)
    BY <1>2 DEF CallOf, OutcomeOf
  <2> QED BY <1>2, <2>1, Seen
<1>4. ASSUME NEW k \in Keys
      PROVE  CountOf(k)' = IF kind = "mem" /\ k \in Files THEN 0 ELSE CountOf(k)
  <2>1. CASE kind = "mem" /\ k \in Files
    <3>1. Stored(k)' = 0
      BY <1>2, <2>1 DEF Stored
    <3>2. \A q \in Procs : ComboKey(q)' # k
      BY <2>1, KeysAssumption DEF Plain, TypeOK, ComboKey
    <3>3. Counting' => qlock' \in Procs
      BY NamesAssumption DEF Plain, TypeOK, Counting
    <3> QED BY <2>1, <3>1, <3>2, <3>3 DEF CountOf
  <2>2. CASE ~(kind = "mem" /\ k \in Files)
    <3>1. Stored(k)' = Stored(k)
      BY <1>2, <2>2 DEF Stored
    <3>2. CountOf(k)' = CountOf(k)
      BY <1>2, <3>1, QuietTally
    <3> QED BY <2>2, <3>2
  <2> QED BY <2>1, <2>2
<1>5. Tallied' = [k \in Keys |-> IF kind = "mem" /\ k \in Files THEN 0 ELSE Tallied[k]]
  BY <1>4, Zenon DEF Tallied
<1> QED BY <1>2, <1>3, <1>5
        DEF Abs!CloseTouches, Abs!Forgetting, Abs!Keys, Abs!Choices, Keys, Tallied, Called, Ended

LEMMA CloseQueryImplements ==
  ASSUME Plain, Locks, Plain', Locks', NEW p \in Procs, CloseQuery(p)
  PROVE  Abs!CloseChoices
<1>1. /\ pc \in [Procs -> PCs] /\ kind \in {"mem", "bolt"} /\ DOMAIN ret = Procs
  BY StoresAssumption DEF Plain, TypeOK
<1>2. /\ Alone(p) /\ qopen' = FALSE
      /\ UNCHANGED <<kind, topen, access, raw>>
      /\ pc[p] = "c_query" /\ pc'[p] = "idle" /\ qlock = None /\ qlock' = None
      /\ combo' = IF kind = "mem" THEN [k \in (Queries \cup {Empty}) \X Files |-> 0] ELSE combo
      /\ last' = IF kind = "mem" THEN None ELSE last
  BY <1>1, StepAlone DEF CloseQuery, Goto, Blank
<1>3. Called' = Called /\ Ended' = Ended
  <2>1. CallOf(p)' = CallOf(p) /\ OutcomeOf(p)' = OutcomeOf(p)
    BY <1>2 DEF CallOf, OutcomeOf
  <2> QED BY <1>2, <2>1, Seen
<1>4. \A k \in Keys : k \notin Files <=> k \in (Queries \cup {Empty}) \X Files
  BY KeysAssumption DEF Keys
<1>5. \A k \in Keys : CountOf(k) = Stored(k) /\ CountOf(k)' = Stored(k)'
  BY <1>2 DEF CountOf, Counting
<1>6. \A k \in Keys : Stored(k)' = IF kind = "mem" /\ k \notin Files THEN 0 ELSE Stored(k)
  BY <1>2, <1>4 DEF Stored
<1>7. Tallied' = [k \in Keys |-> IF kind = "mem" /\ k \in (Queries \cup {Empty}) \X Files
                                 THEN 0 ELSE Tallied[k]]
  BY <1>4, <1>5, <1>6, Zenon DEF Tallied
<1> QED BY <1>2, <1>3, <1>7
        DEF Abs!CloseChoices, Abs!Forgetting, Abs!Keys, Abs!Choices, Keys, Tallied, Called, Ended

\* A crash loses the calls, and memory everything; a choice whose first write was
\* made in a file counts.
LEMMA CrashImplements == ASSUME Plain, Locks, Halfway, Crash PROVE Abs!Crash
<1>1. kind \in {"mem", "bolt"}
  BY StoresAssumption DEF Plain, TypeOK
<1>2. /\ topen' = TRUE /\ qopen' = TRUE /\ qlock' = None /\ kind' = kind
      /\ \A p \in Procs : pc'[p] = "idle"
      /\ kind = "bolt" => UNCHANGED <<access, combo, last>>
      /\ kind = "mem" => /\ access' = [f \in Files |-> None] /\ last' = None
                         /\ combo' = [k \in (Queries \cup {Empty}) \X Files |-> 0]
  BY DEF Crash, Blank
<1>3. Called' = [p \in Procs |-> None] /\ Ended' = [p \in Procs |-> "none"]
  <2>1. \A p \in Procs : CallOf(p)' = None /\ OutcomeOf(p)' = "none"
    BY <1>2 DEF CallOf, OutcomeOf
  <2> QED BY <2>1, Zenon DEF Called, Ended
<1>4. \A k \in Keys : CountOf(k)' = Stored(k)'
  BY <1>2 DEF CountOf, Counting
<1>5. CASE kind = "mem"
  <2>1. \A k \in Keys : k \notin Files => k \in (Queries \cup {Empty}) \X Files
    BY DEF Keys
  <2>2. \A k \in Keys : Stored(k)' = 0
    BY <1>2, <1>5, <2>1 DEF Stored
  <2>3. Tallied' = [k \in Keys |-> IF kind = "mem" /\ k \in Keys THEN 0 ELSE Tallied[k]]
    BY <1>4, <1>5, <2>2, Zenon DEF Tallied
  <2> QED BY <1>2, <1>3, <1>5, <2>3
          DEF Abs!Crash, Abs!Forgetting, Abs!Keys, Abs!Choices, Keys, Tallied, Called, Ended
<1>6. ASSUME kind = "bolt" PROVE \A k \in Keys : Stored(k)' = Stored(k)
  BY <1>2, <1>6 DEF Stored
<1>7. CASE kind = "bolt" /\ ~Counting
  <2>1. \A k \in Keys : CountOf(k)' = CountOf(k)
    BY <1>4, <1>6, <1>7 DEF CountOf
  <2>2. Tallied' = [k \in Keys |-> IF kind = "mem" /\ k \in Keys THEN 0 ELSE Tallied[k]]
    BY <1>7, <2>1, Zenon DEF Tallied
  <2> QED BY <1>2, <1>3, <1>7, <2>2
          DEF Abs!Crash, Abs!Forgetting, Abs!Keys, Abs!Choices, Keys, Tallied, Called, Ended
<1>8. CASE kind = "bolt" /\ Counting
  <2>1. PICK p \in Procs : p = qlock /\ pc[p] = "q_last"
    BY <1>8, CountingWho
  <2>2. arg[p].query \in Queries
    BY <2>1 DEF Plain, TypeOK
  <2>3. PICK k \in Queries \X Files : k = ComboKey(p)
    BY <2>2, KeysApart DEF ComboKey
  <2>4. k \in Keys /\ k \notin Files /\ CallOf(p) = k /\ OutcomeOf(p) = "none"
    BY <2>1, <2>3, Places, KeysApart
  <2>5. Called[p] = k /\ Ended[p] = "none" /\ k # None
    BY <2>4, KeysAssumption DEF Called, Ended
  <2>6. CountOf(k) = raw[p] /\ \A j \in Keys \ {k} : CountOf(j) = Stored(j)
    BY <1>8, <2>1, <2>3 DEF CountOf
  <2>7. Stored(k) = NextCount(raw[p])
    BY <2>1, <2>3, <2>4 DEF Halfway, Stored
  <2>8. Tallied' = [j \in Keys |-> IF j = k THEN NextCount(raw[p]) ELSE Stored(j)]
    BY <1>4, <1>6, <1>8, <2>7, Zenon DEF Tallied
  <2>9. Tallied' = [Tallied EXCEPT ![k] = IF @ = Max THEN 1 ELSE @ + 1]
    <3>1. Tallied = [j \in Keys |-> IF j = k THEN raw[p] ELSE Stored(j)]
      BY <2>6, Zenon DEF Tallied
    <3> QED BY <2>4, <2>8, <3>1 DEF NextCount
  <2> QED BY <1>2, <1>3, <1>8, <2>5, <2>9
          DEF Abs!Crash, Abs!Under, Abs!OneMore, Tallied, Called, Ended
<1> QED BY <1>1, <1>5, <1>7, <1>8

\* Every step of the trackers is a step of FeedbackSpec or is not seen.
LEMMA StepImplements ==
  Plain /\ Locks /\ Reads /\ Halfway /\ [Next]_vars => [Abs!Next]_Abs!vars
<1> SUFFICES ASSUME Plain, Locks, Reads, Halfway, [Next]_vars PROVE Abs!Next \/ Same
  BY DEF Abs!vars, Same, Tallied, Called, Ended
<1>1. Plain' /\ Locks'
  BY PlainStep, LocksStep
<1>2. CASE Tick \/ UNCHANGED vars
  <2>1. UNCHANGED <<kind, topen, qopen, access, combo, last, qlock, pc, arg, raw, ret>>
    BY <1>2 DEF Tick, vars, store
  <2>2. Tallied' = Tallied
    BY <2>1 DEF Tallied, CountOf, Counting, Stored, ComboKey
  <2>3. Called' = Called /\ Ended' = Ended
    BY <2>1 DEF Called, Ended, CallOf, OutcomeOf, ComboKey
  <2> QED BY <2>1, <2>2, <2>3 DEF Same
<1>3. CASE Crash
  BY <1>3, CrashImplements DEF Abs!Next
<1>4. ASSUME NEW p \in Procs, (\E f \in Files : TouchCall(p, f)) \/ CloseCall(p)
               \/ \E q \in Queries \cup {Empty}, f \in Files : RecordCall(p, q, f)
      PROVE  Abs!Next \/ Same
  <2>1. (\E k \in Keys : Abs!Call(p, k)) \/ Same
    BY <1>1, <1>4, CallImplements
  <2> QED BY <2>1 DEF Abs!Next, Abs!Keys, Abs!Choices, Keys
<1>5. ASSUME NEW p \in Procs,
             TouchLock(p) \/ RecordLock(p) \/ TouchGet(p) \/ RecordGet(p)
      PROVE  Abs!Next \/ Same
  BY <1>1, <1>5, ReadImplements DEF Abs!Next
<1>6. ASSUME NEW p \in Procs, TouchPut(p) \/ RecordPut(p) \/ RecordLast(p)
      PROVE  Abs!Next \/ Same
  BY <1>1, <1>6, TouchImplements, ChoiceImplements, LastImplements DEF Abs!Next
<1>7. ASSUME NEW p \in Procs,
             TouchUnlock(p) \/ RecordUnlock(p) \/ PutPanics(p) \/ PutFails(p)
      PROVE  Abs!Next \/ Same
  BY <1>1, <1>7, UnlockImplements, FailImplements DEF Abs!Next
<1>8. ASSUME NEW p \in Procs, CloseTouch(p) \/ CloseQuery(p)
      PROVE  Abs!Next \/ Same
  BY <1>1, <1>8, CloseTouchImplements, CloseQueryImplements DEF Abs!Next
<1> QED BY <1>2, <1>3, <1>4, <1>5, <1>6, <1>7, <1>8 DEF Next

\* The trackers implement FeedbackSpec: to the goroutines that share them, a touch
\* or a choice counts once, in one step between its call and its return, or fails
\* and does not count.
THEOREM FeedbackImplementsSpec == Spec => Implements
<1>1. Init => Halfway /\ Abs!Init
  <2> SUFFICES ASSUME Init PROVE Halfway /\ Abs!Init
    OBVIOUS
  <2>1. \A p \in Procs : pc[p] = "idle"
    BY DEF Init
  <2>2. Halfway
    BY <2>1 DEF Halfway
  <2>3. \A k \in Keys : CountOf(k) = 0
    <3>1. \A k \in Keys : k \notin Files => k \in (Queries \cup {Empty}) \X Files
      BY DEF Keys
    <3>2. \A k \in Keys : Stored(k) = 0
      BY <3>1 DEF Init, Blank, Stored
    <3>3. ~Counting
      BY DEF Init, Counting
    <3> QED BY <3>2, <3>3 DEF CountOf
  <2>4. \A p \in Procs : CallOf(p) = None /\ OutcomeOf(p) = "none"
    BY <2>1 DEF CallOf, OutcomeOf
  <2>5. /\ Tallied = [k \in Keys |-> 0] /\ Called = [p \in Procs |-> None]
        /\ Ended = [p \in Procs |-> "none"]
    BY <2>3, <2>4, Zenon DEF Tallied, Called, Ended
  <2>6. kind \in Stores /\ topen = TRUE /\ qopen = TRUE /\ last = None
    BY DEF Init
  <2> QED BY <2>2, <2>5, <2>6
          DEF Abs!Init, Abs!Keys, Abs!Choices, Keys, Tallied, Called, Ended
<1>2. Inv => Plain /\ Locks /\ Reads
  BY DEF Inv
<1>3. Plain /\ Locks /\ Halfway /\ [Next]_vars => Halfway'
  BY HalfwayStep
<1>4. Plain /\ Locks /\ Reads /\ Halfway /\ [Next]_vars => [Abs!Next]_Abs!vars
  BY StepImplements
<1> QED BY InvHolds, <1>1, <1>2, <1>3, <1>4, PTL DEF Spec, Implements, Abs!Spec
==============================================================================
