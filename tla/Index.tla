-------------------------------- MODULE Index --------------------------------
(****************************************************************************)
(* fg.Index (fg.go): a handle shared by goroutines that search, refresh     *)
(* and close it concurrently, and the one-shot SearchWith built on it.      *)
(*                                                                          *)
(* Every section that fg.go runs under idx.mu is one action; the refresh    *)
(* mutex is held across many actions and is therefore a variable.  A        *)
(* picker is what one scan produced: for each path the version it read.     *)
(* The walk reads one path at a time while the tree changes under it.       *)
(* Contexts may be cancelled at any moment of a call.                       *)
(****************************************************************************)
EXTENDS Integers

CONSTANTS Procs,         \* the goroutines
          Files,         \* the paths below the root
          MaxEdits,      \* bound: how often one path changes
          MaxRefreshes,  \* bound: how many scans are started
          None           \* no goroutine, no picker, no result

ASSUME BoundsAssumption == /\ MaxEdits \in Nat
                           /\ MaxRefreshes \in Nat
ASSUME NoneAssumption == /\ None \notin Procs
                         /\ None \notin Nat
                         /\ None \notin [Files -> Int]

VARIABLES
  disk,      \* disk[f]: how often path f has changed
  handle,    \* who can call the index: nobody, its opener, everybody
  closed,    \* Index.closed
  current,   \* Index.picker
  lock,      \* holder of Index.refresh
  calls,     \* how many refreshes were started
  life,      \* life[k]: the life of the picker the k-th refresh makes
  seen,      \* seen[k][f]: the version of f that picker k holds
  pc,        \* pc[p]: where goroutine p is
  op,        \* op[p]: the exported function p is in, or was in last
  cancelled, \* cancelled[p]: the context of that call is done
  pk,        \* pk[p]: the picker in a local variable of that call
  ret,       \* ret[p]: the error that call is returning or returned
  got,       \* got[p]: the result that call returned
  floor,     \* history: floor[p][f] is a version p's call may not go below
  late,      \* history: p's call began after a Close had returned
  shut,      \* history: a Close has returned
  promised   \* history: what refreshes that returned have promised

vars == <<disk, handle, closed, current, lock, calls, life, seen, pc, op,
          cancelled, pk, ret, got, floor, late, shut, promised>>

PickerIds == 1 .. MaxRefreshes
Unseen == -1
Versions == 0 .. MaxEdits
Snapshots == [Files -> Versions]

Ops == {"none", "open", "searchwith", "search", "refresh", "close"}
Errors == {"none", "ok", "ctx", "root", "closed", "scan", "nosnapshot", "picker"}
RefreshPCs == {"r_ctx", "r_lock", "r_closed", "r_walk", "r_swap", "r_fail"}
PCs == RefreshPCs \cup
       {"idle", "o_root", "r_closeold", "s_snapshot", "s_picker", "s_map",
        "c_mark", "c_picker"}
Lives == {"unborn", "open", "closed", "reclosed"}

NotOlder(s, t) == \A f \in Files : s[f] <= t[f]
Newest(s, t) == [f \in Files |-> IF s[f] <= t[f] THEN t[f] ELSE s[f]]

\* A goroutine holds a picker wherever its code dereferences one.
PointersOK == \A p \in Procs :
  pk[p] \in PickerIds \/ pc[p] \in {"idle", "s_snapshot", "c_mark", "r_closeold"}

TypeOK ==
  /\ disk \in Snapshots
  /\ handle \in {"none", "private", "shared"}
  /\ closed \in BOOLEAN
  /\ current \in PickerIds \cup {None}
  /\ lock \in Procs \cup {None}
  /\ calls \in 0 .. MaxRefreshes
  /\ life \in [PickerIds -> Lives]
  /\ seen \in [PickerIds -> [Files -> Versions \cup {Unseen}]]
  /\ pc \in [Procs -> PCs]
  /\ op \in [Procs -> Ops]
  /\ cancelled \in [Procs -> BOOLEAN]
  /\ pk \in [Procs -> PickerIds \cup {None}]
  /\ ret \in [Procs -> Errors]
  /\ got \in [Procs -> [Files -> Versions \cup {Unseen}] \cup {None}]
  /\ floor \in [Procs -> Snapshots]
  /\ late \in [Procs -> BOOLEAN]
  /\ shut \in BOOLEAN
  /\ promised \in Snapshots
  /\ PointersOK

Init ==
  /\ disk = [f \in Files |-> 0]
  /\ handle = "none"
  /\ closed = FALSE
  /\ current = None
  /\ lock = None
  /\ calls = 0
  /\ life = [k \in PickerIds |-> "unborn"]
  /\ seen = [k \in PickerIds |-> [f \in Files |-> Unseen]]
  /\ pc = [p \in Procs |-> "idle"]
  /\ op = [p \in Procs |-> "none"]
  /\ cancelled = [p \in Procs |-> FALSE]
  /\ pk = [p \in Procs |-> None]
  /\ ret = [p \in Procs |-> "none"]
  /\ got = [p \in Procs |-> None]
  /\ floor = [p \in Procs |-> [f \in Files |-> 0]]
  /\ late = [p \in Procs |-> FALSE]
  /\ shut = FALSE
  /\ promised = [f \in Files |-> 0]

shared == <<handle, closed, current, lock, life, seen>>
local == <<op, cancelled, pk, floor, late>>
history == <<shut, promised>>

------------------------------------------------------------------------------
\* The world outside: the tree changes, a caller cancels its context.

Edit(f) ==
  /\ disk[f] < MaxEdits
  /\ disk' = [disk EXCEPT ![f] = @ + 1]
  /\ UNCHANGED <<shared, calls, pc, local, ret, got, history>>

\* SearchWith runs under context.Background(), Close takes no context.
Cancel(p) ==
  /\ pc[p] # "idle"
  /\ op[p] \in {"open", "search", "refresh"}
  /\ ~cancelled[p]
  /\ cancelled' = [cancelled EXCEPT ![p] = TRUE]
  /\ UNCHANGED <<disk, shared, calls, pc, op, pk, ret, got, floor, late, history>>

------------------------------------------------------------------------------
\* Calls.  A call that will scan is numbered, and its picker named after it.

Call(p, name, entry, ctx, picker, least) ==
  /\ pc[p] = "idle"
  /\ pc' = [pc EXCEPT ![p] = entry]
  /\ op' = [op EXCEPT ![p] = name]
  /\ cancelled' = [cancelled EXCEPT ![p] = ctx]
  /\ pk' = [pk EXCEPT ![p] = picker]
  /\ floor' = [floor EXCEPT ![p] = least]
  /\ late' = [late EXCEPT ![p] = handle = "shared" /\ shut]
  /\ ret' = [ret EXCEPT ![p] = "none"]
  /\ got' = [got EXCEPT ![p] = None]

\* Slip: the handle is shared before the first refresh is through.
OpenCallShared(p) ==
  /\ handle = "none"
  /\ calls < MaxRefreshes
  /\ Call(p, "open", "o_root", FALSE, calls + 1, disk)
  /\ handle' = "shared"
  /\ calls' = calls + 1
  /\ UNCHANGED <<disk, closed, current, lock, life, seen, history>>

\* Open and SearchWith build a new Index that nobody else can reach yet.
OpenCall(p) ==
  /\ handle = "none"
  /\ calls < MaxRefreshes
  /\ \/ \E ctx \in BOOLEAN : Call(p, "open", "o_root", ctx, calls + 1, disk)
     \/ Call(p, "searchwith", "o_root", FALSE, calls + 1, disk)
  /\ handle' = "private"
  /\ closed' = FALSE
  /\ current' = None
  /\ calls' = calls + 1
  /\ shut' = FALSE
  /\ UNCHANGED <<disk, lock, life, seen, promised>>

SearchCall(p) ==
  /\ handle = "shared"
  /\ \E ctx \in BOOLEAN : Call(p, "search", "s_snapshot", ctx, None, promised)
  /\ UNCHANGED <<disk, shared, calls, history>>

RefreshCall(p) ==
  /\ handle = "shared"
  /\ calls < MaxRefreshes
  /\ \E ctx \in BOOLEAN : Call(p, "refresh", "r_ctx", ctx, calls + 1, disk)
  /\ calls' = calls + 1
  /\ UNCHANGED <<disk, shared, history>>

CloseCall(p) ==
  /\ handle = "shared"
  /\ Call(p, "close", "c_mark", FALSE, None, promised)
  /\ UNCHANGED <<disk, shared, calls, history>>

\* Open checks its context and resolves the root, which may fail.
OpenRoot(p) ==
  /\ pc[p] = "o_root"
  /\ \/ /\ ~cancelled[p]
        /\ pc' = [pc EXCEPT ![p] = "r_ctx"]
        /\ UNCHANGED <<ret, handle>>
     \/ /\ pc' = [pc EXCEPT ![p] = "idle"]
        /\ ret' = [ret EXCEPT ![p] = IF cancelled[p] THEN "ctx" ELSE "root"]
        /\ handle' = "none"
  /\ UNCHANGED <<disk, closed, current, lock, life, seen, calls, local, got, history>>

------------------------------------------------------------------------------
\* Refresh.

\* Picker.Close: a second call on the same picker is told apart.
PickerClose(k) ==
  life' = [life EXCEPT ![k] = IF @ = "open" THEN "closed" ELSE "reclosed"]

\* What a refresh's end means to its caller: Open shares the handle or
\* drops the index, SearchWith goes on to search.
RefreshEnd(p, why) ==
  /\ ret' = [ret EXCEPT ![p] = why]
  /\ pc' = [pc EXCEPT ![p] =
              IF op[p] = "searchwith" /\ why = "ok" THEN "s_snapshot" ELSE "idle"]
  /\ handle' = CASE op[p] = "refresh" -> handle
                 [] op[p] = "open" -> IF why = "ok" THEN "shared" ELSE "none"
                 [] OTHER -> IF why = "ok" THEN "private" ELSE "none"
  /\ promised' = IF why = "ok" THEN Newest(promised, floor[p]) ELSE promised

RefreshCtx(p) ==
  /\ pc[p] = "r_ctx"
  /\ IF cancelled[p]
     THEN RefreshEnd(p, "ctx")
     ELSE /\ pc' = [pc EXCEPT ![p] = "r_lock"]
          /\ UNCHANGED <<ret, handle, promised>>
  /\ UNCHANGED <<disk, closed, current, lock, life, seen, calls, local, got, shut>>

\* Slip: refreshes overlap.
RefreshLockNot(p) ==
  /\ pc[p] = "r_lock"
  /\ pc' = [pc EXCEPT ![p] = "r_closed"]
  /\ UNCHANGED <<disk, shared, calls, local, ret, got, history>>

\* Waiting for the mutex does not watch the context.
RefreshLock(p) ==
  /\ pc[p] = "r_lock"
  /\ lock = None
  /\ lock' = p
  /\ pc' = [pc EXCEPT ![p] = "r_closed"]
  /\ UNCHANGED <<disk, handle, closed, current, life, seen, calls, local, ret, got, history>>

\* Slip: the early return for a closed index comes before the deferred unlock.
RefreshReadClosedKeepsLock(p) ==
  /\ pc[p] = "r_closed"
  /\ IF closed
     THEN RefreshEnd(p, "closed") /\ UNCHANGED life
     ELSE /\ pc' = [pc EXCEPT ![p] = "r_walk"]
          /\ life' = [life EXCEPT ![pk[p]] = "open"]
          /\ UNCHANGED <<ret, handle, promised>>
  /\ UNCHANGED <<disk, closed, current, lock, seen, calls, local, got, shut>>

RefreshReadClosed(p) ==
  /\ pc[p] = "r_closed"
  /\ IF closed
     THEN /\ RefreshEnd(p, "closed")
          /\ lock' = None
          /\ UNCHANGED life
     ELSE /\ pc' = [pc EXCEPT ![p] = "r_walk"]
          /\ life' = [life EXCEPT ![pk[p]] = "open"]
          /\ UNCHANGED <<ret, handle, promised, lock>>
  /\ UNCHANGED <<disk, closed, current, seen, calls, local, got, shut>>

\* One callback of the walk: the context is checked, then one path is read.
RefreshWalk(p) ==
  /\ pc[p] = "r_walk"
  /\ ~cancelled[p]
  /\ \E f \in Files : /\ seen[pk[p]][f] = Unseen
                      /\ seen' = [seen EXCEPT ![pk[p]][f] = disk[f]]
  /\ UNCHANGED <<disk, handle, closed, current, lock, calls, life, pc, local, ret, got, history>>

\* Slip: an incomplete walk counts as a snapshot.
RefreshWalkedPartly(p) ==
  /\ pc[p] = "r_walk"
  /\ pc' = [pc EXCEPT ![p] = "r_swap"]
  /\ UNCHANGED <<disk, shared, calls, local, ret, got, history>>

\* The whole tree was walked and the context is not done.
RefreshWalked(p) ==
  /\ pc[p] = "r_walk"
  /\ ~cancelled[p]
  /\ \A f \in Files : seen[pk[p]][f] # Unseen
  /\ pc' = [pc EXCEPT ![p] = "r_swap"]
  /\ UNCHANGED <<disk, shared, calls, local, ret, got, history>>

\* The context is done, or a directory could not be read.
RefreshScanFails(p) ==
  /\ pc[p] = "r_walk"
  /\ ret' = [ret EXCEPT ![p] = "scan"]
  /\ pc' = [pc EXCEPT ![p] = "r_fail"]
  /\ UNCHANGED <<disk, shared, calls, local, got, history>>

\* Which of the two it was is asked after the picker has been closed.
FailReason(p) == IF ret[p] = "scan" /\ cancelled[p] THEN "ctx" ELSE ret[p]

\* Slip: the picker of a failed scan is dropped, not closed.
RefreshFailLeaks(p) ==
  /\ pc[p] = "r_fail"
  /\ lock' = None
  /\ RefreshEnd(p, FailReason(p))
  /\ UNCHANGED <<disk, closed, current, life, seen, calls, local, got, shut>>

\* The new picker of a refresh that fails is closed on the way out.
RefreshFail(p) ==
  /\ pc[p] = "r_fail"
  /\ PickerClose(pk[p])
  /\ lock' = None
  /\ RefreshEnd(p, FailReason(p))
  /\ UNCHANGED <<disk, closed, current, seen, calls, local, got, shut>>

\* Slip: closed is not read again before publishing.
RefreshSwapBlind(p) ==
  /\ pc[p] = "r_swap"
  /\ pc' = [pc EXCEPT ![p] = "r_closeold"]
  /\ current' = pk[p]
  /\ pk' = [pk EXCEPT ![p] = current]
  /\ UNCHANGED <<disk, handle, closed, lock, calls, life, seen, op, cancelled, ret, got,
                 floor, late, history>>

RefreshSwap(p) ==
  /\ pc[p] = "r_swap"
  /\ IF closed
     THEN /\ pc' = [pc EXCEPT ![p] = "r_fail"]
          /\ ret' = [ret EXCEPT ![p] = "closed"]
          /\ UNCHANGED <<current, pk>>
     ELSE /\ pc' = [pc EXCEPT ![p] = "r_closeold"]
          /\ current' = pk[p]
          /\ pk' = [pk EXCEPT ![p] = current]
          /\ UNCHANGED ret
  /\ UNCHANGED <<disk, handle, closed, lock, calls, life, seen, op, cancelled, got, floor, late, history>>

RefreshCloseOld(p) ==
  /\ pc[p] = "r_closeold"
  /\ IF pk[p] = None THEN UNCHANGED life ELSE PickerClose(pk[p])
  /\ lock' = None
  /\ RefreshEnd(p, "ok")
  /\ UNCHANGED <<disk, closed, current, seen, calls, local, got, shut>>

------------------------------------------------------------------------------
\* Search.  SearchWith closes its index whatever the search returned.

SearchEnd(p, why, result) ==
  /\ ret' = [ret EXCEPT ![p] = why]
  /\ got' = [got EXCEPT ![p] = result]
  /\ pc' = [pc EXCEPT ![p] = IF op[p] = "searchwith" THEN "c_mark" ELSE "idle"]

SnapshotError ==
  CASE closed -> "closed"
    [] ~closed /\ current = None -> "nosnapshot"
    [] OTHER -> "ok"

\* Slip: the snapshot is taken without looking whether there is one.
SearchSnapshotBlind(p) ==
  /\ pc[p] = "s_snapshot"
  /\ pk' = [pk EXCEPT ![p] = current]
  /\ pc' = [pc EXCEPT ![p] = "s_picker"]
  /\ UNCHANGED <<disk, shared, calls, op, cancelled, ret, got, floor, late, history>>

SearchSnapshot(p) ==
  /\ pc[p] = "s_snapshot"
  /\ IF cancelled[p] \/ SnapshotError # "ok"
     THEN /\ SearchEnd(p, IF cancelled[p] THEN "ctx" ELSE SnapshotError, None)
          /\ UNCHANGED pk
     ELSE /\ pk' = [pk EXCEPT ![p] = current]
          /\ pc' = [pc EXCEPT ![p] = "s_picker"]
          /\ UNCHANGED <<ret, got>>
  /\ UNCHANGED <<disk, shared, calls, op, cancelled, floor, late, history>>

\* Picker.SearchContext fails on a done context and on a git error.
SearchPicker(p) ==
  /\ pc[p] = "s_picker"
  /\ \/ /\ ~cancelled[p]
        /\ pc' = [pc EXCEPT ![p] = "s_map"]
        /\ UNCHANGED <<ret, got>>
     \/ SearchEnd(p, IF cancelled[p] THEN "ctx" ELSE "picker", None)
  /\ UNCHANGED <<disk, shared, calls, local, history>>

\* The last context check, then mapResults resolves the paths.
SearchMap(p) ==
  /\ pc[p] = "s_map"
  /\ IF cancelled[p] THEN SearchEnd(p, "ctx", None)
                     ELSE SearchEnd(p, "ok", seen[pk[p]])
  /\ UNCHANGED <<disk, shared, calls, local, history>>

------------------------------------------------------------------------------
\* Close.

CloseEnd(p) ==
  /\ pc' = [pc EXCEPT ![p] = "idle"]
  /\ ret' = IF op[p] = "close" THEN [ret EXCEPT ![p] = "ok"] ELSE ret
  /\ handle' = IF op[p] = "close" THEN handle ELSE "none"
  /\ shut' = TRUE

\* Slip: the flag is set, the pointer stays.
CloseMarkKeepsPicker(p) ==
  /\ pc[p] = "c_mark"
  /\ closed' = TRUE
  /\ IF closed
     THEN CloseEnd(p) /\ UNCHANGED pk
     ELSE /\ pk' = [pk EXCEPT ![p] = current]
          /\ pc' = [pc EXCEPT ![p] = "c_picker"]
          /\ UNCHANGED <<ret, handle, shut>>
  /\ UNCHANGED <<disk, current, lock, calls, life, seen, op, cancelled, got, floor, late,
                 promised>>

\* Slip: the pointer is cleared, the flag is not set.
CloseMarkNoFlag(p) ==
  /\ pc[p] = "c_mark"
  /\ IF current = None
     THEN CloseEnd(p) /\ UNCHANGED <<pk, current>>
     ELSE /\ pk' = [pk EXCEPT ![p] = current]
          /\ current' = None
          /\ pc' = [pc EXCEPT ![p] = "c_picker"]
          /\ UNCHANGED <<ret, handle, shut>>
  /\ UNCHANGED <<disk, closed, lock, calls, life, seen, op, cancelled, got, floor, late,
                 promised>>

CloseMark(p) ==
  /\ pc[p] = "c_mark"
  /\ closed' = TRUE
  /\ IF closed \/ current = None
     THEN /\ CloseEnd(p)
          /\ UNCHANGED <<pk, current>>
     ELSE /\ pk' = [pk EXCEPT ![p] = current]
          /\ current' = None
          /\ pc' = [pc EXCEPT ![p] = "c_picker"]
          /\ UNCHANGED <<ret, handle, shut>>
  /\ UNCHANGED <<disk, lock, calls, life, seen, op, cancelled, got, floor, late, promised>>

ClosePicker(p) ==
  /\ pc[p] = "c_picker"
  /\ PickerClose(pk[p])
  /\ CloseEnd(p)
  /\ UNCHANGED <<disk, closed, current, lock, calls, seen, local, got, promised>>

------------------------------------------------------------------------------
Refresh(p) == \/ RefreshCtx(p) \/ RefreshLock(p) \/ RefreshReadClosed(p)
              \/ RefreshWalk(p) \/ RefreshWalked(p) \/ RefreshScanFails(p)
              \/ RefreshFail(p) \/ RefreshSwap(p) \/ RefreshCloseOld(p)
Search(p) == SearchSnapshot(p) \/ SearchPicker(p) \/ SearchMap(p)
Close(p) == CloseMark(p) \/ ClosePicker(p)

\* The steps a call takes once it has begun.
Step(p) == OpenRoot(p) \/ Refresh(p) \/ Search(p) \/ Close(p)
Start(p) == OpenCall(p) \/ SearchCall(p) \/ RefreshCall(p) \/ CloseCall(p)

Next == \/ \E f \in Files : Edit(f)
        \/ \E p \in Procs : Cancel(p) \/ Start(p) \/ Step(p)

Spec == Init /\ [][Next]_vars

\* A goroutine in a call keeps running, and sync.Mutex hands the lock to a
\* waiter that was overtaken too long: it does not starve.
FairSpec == /\ Spec
            /\ \A p \in Procs : WF_vars(Step(p)) /\ SF_vars(RefreshLock(p))

------------------------------------------------------------------------------
\* Properties.

\* A search that succeeds answers from a snapshot that is nowhere older than
\* what a refresh that returned before the search began had found on disk
\* (Refresh: the refresh mutex keeps an older scan from being published over
\* a newer one); SearchWith answers from a scan of its own.
Freshness == \A p \in Procs : got[p] # None => NotOlder(floor[p], got[p])

\* A search or a refresh that begins after a Close has returned does nothing
\* but report the closed index, or its own cancelled context.
LateCallsFail ==
  \A p \in Procs : late[p] /\ op[p] \in {"search", "refresh"} /\ pc[p] = "idle"
                   => ret[p] \in {"closed", "ctx"}

\* No search ever finds an open index without a snapshot: the handle is shared
\* only after the first refresh, and a refresh swaps snapshots in one step.
NoSnapshotGap == \A p \in Procs : ret[p] # "nosnapshot"

\* A refresh that was under way when the index was closed does not publish.
NoResurrection == closed => current = None

\* No picker is closed twice, and the published one is not closed at all,
\* however refreshes, failures and closes overlap.
PickerLifecycle == /\ \A k \in PickerIds : life[k] # "reclosed"
                   /\ current # None => life[current] = "open"

\* When no call is under way the only picker left open is the one a shared,
\* open index publishes: whatever failed, was superseded or was closed has
\* released its picker, and so has every SearchWith.
NoLeak == (\A p \in Procs : pc[p] = "idle")
            => \A k \in PickerIds : life[k] = "open" => k = current /\ handle = "shared"

------------------------------------------------------------------------------
\* Why the properties hold: an inductive invariant, in parts.

Scanning == {"r_walk", "r_swap", "r_fail"}
Locked == Scanning \cup {"r_closed", "r_closeold"}
Before == {"o_root", "r_ctx", "r_lock", "r_closed"}
Searching == {"s_snapshot", "s_picker", "s_map"}
Closing == {"c_mark", "c_picker"}

\* Goroutine p is responsible for the picker in its local variable.
Owns(p) == \/ pc[p] \in Before \cup Scanning \cup {"c_picker"}
           \/ pc[p] = "r_closeold" /\ pk[p] # None

\* The mutex is held exactly from RefreshLock to the end of the refresh.
LockInv == \A p \in Procs : lock = p <=> pc[p] \in Locked

\* Which function a goroutine at a given place is in, and that a refresh on
\* its error path has an error to return.
OpInv == \A p \in Procs :
           /\ pc[p] = "o_root" => op[p] \in {"open", "searchwith"}
           /\ pc[p] \in RefreshPCs \cup {"r_closeold"}
                => op[p] \in {"open", "searchwith", "refresh"}
           /\ pc[p] = "r_fail" => ret[p] \in {"scan", "closed"}
           /\ pc[p] \in Searching => op[p] \in {"search", "searchwith"}
           /\ pc[p] \in Closing => op[p] \in {"close", "searchwith"}

\* An index that is not shared has one goroutine in it, and is open and empty
\* until the first refresh, open and full until it is closed.
PrivateInv ==
  /\ ~shut
  /\ \E p \in Procs : pc[p] # "idle"
  /\ \A p, q \in Procs : pc[p] # "idle" /\ pc[q] # "idle" => p = q
  /\ \A p \in Procs : pc[p] # "idle" =>
       /\ op[p] \in {"open", "searchwith"}
       /\ pc[p] \in Before \cup Scanning => ~closed /\ current = None
       /\ pc[p] = "r_closeold" => ~closed /\ current # None /\ pk[p] = None
       /\ pc[p] \in Searching \cup {"c_mark"} => ~closed /\ current # None
       /\ pc[p] = "c_picker" => closed /\ current = None

\* A shared index has a snapshot until it is closed.
SharedInv ==
  /\ closed <=> current = None
  /\ shut => closed
  /\ \A p \in Procs : pc[p] # "idle" => op[p] \in {"search", "refresh", "close"}
  /\ \A p \in Procs : pc[p] = "c_picker" => closed

HandleInv ==
  /\ handle = "none" => current = None /\ \A p \in Procs : pc[p] = "idle"
  /\ handle = "private" => PrivateInv
  /\ handle = "shared" => SharedInv

\* A goroutine's own picker exists from the check of closed on, and no other
\* goroutine has it; the published picker is nobody's own.
OwnedInv ==
  \A p \in Procs : Owns(p) =>
    /\ pk[p] \in 1 .. calls
    /\ pk[p] # current
    /\ life[pk[p]] = IF pc[p] \in Before THEN "unborn" ELSE "open"
UniqueInv == \A p, q \in Procs : Owns(p) /\ Owns(q) /\ pk[p] = pk[q] => p = q
PublishedInv == current # None => current <= calls /\ life[current] = "open"

\* Every picker that is open is published or owned.
LifeInv == \A k \in PickerIds :
  /\ k > calls => life[k] = "unborn"
  /\ life[k] # "reclosed"
  /\ life[k] = "open" => k = current \/ \E p \in Procs : Owns(p) /\ pk[p] = k

OwnerInv == OwnedInv /\ UniqueInv /\ PublishedInv /\ LifeInv

\* Promises never run ahead of the tree, and the published snapshot is whole,
\* keeps them and is not ahead of the tree either.
PromiseInv ==
  /\ NotOlder(promised, disk)
  /\ \A p \in Procs : NotOlder(floor[p], disk)
ContentInv == current # None =>
  /\ seen[current] \in Snapshots
  /\ NotOlder(promised, seen[current])
  /\ NotOlder(seen[current], disk)

\* What a scan under way has read is no older than what it must replace.
UnreadInv == \A k \in PickerIds : life[k] = "unborn" => \A f \in Files : seen[k][f] = Unseen
ReadInv == \A p \in Procs : pc[p] \in Scanning =>
  \A f \in Files : seen[pk[p]][f] # Unseen =>
    /\ seen[pk[p]][f] <= disk[f]
    /\ floor[p][f] <= seen[pk[p]][f]
    /\ promised[f] <= seen[pk[p]][f]
    /\ current # None => seen[current][f] <= seen[pk[p]][f]
DoneInv == \A p \in Procs :
  /\ pc[p] = "r_swap" => seen[pk[p]] \in Snapshots
  /\ pc[p] = "r_closeold" /\ current # None => NotOlder(floor[p], seen[current])

ScanInv == PromiseInv /\ ContentInv /\ UnreadInv /\ ReadInv /\ DoneInv

\* A search's snapshot is whole and keeps the promise made to the search.
TakeInv == \A p \in Procs : pc[p] = "s_snapshot" => NotOlder(floor[p], promised)
HoldInv == \A p \in Procs : pc[p] \in {"s_picker", "s_map"} =>
             /\ life[pk[p]] # "unborn"
             /\ seen[pk[p]] \in Snapshots
             /\ NotOlder(floor[p], seen[pk[p]])
SearchInv == TakeInv /\ HoldInv

\* A call that came after a Close never gets beyond the check of closed.
LateInv ==
  \A p \in Procs : late[p] =>
    /\ handle = "shared" /\ shut
    /\ pc[p] \in {"idle", "r_ctx", "r_lock", "r_closed", "s_snapshot", "c_mark"}

IndInv == /\ LockInv /\ OpInv /\ HandleInv /\ OwnerInv /\ ScanInv /\ SearchInv
          /\ LateInv /\ LateCallsFail /\ NoSnapshotGap /\ Freshness

\* The index implements the register of IndexSpec: the published picker is
\* its content, and a search answers from the picker it holds.
Content == IF current = None THEN None ELSE seen[current]
Answer == [p \in Procs |-> IF pc[p] \in {"s_picker", "s_map"} THEN seen[pk[p]] ELSE got[p]]
Abs == INSTANCE IndexSpec WITH Nothing <- None, content <- Content, answer <- Answer
Implements == Abs!Spec

\* Every call returns: no error path keeps the refresh mutex.
Termination == \A p \in Procs : pc[p] # "idle" ~> pc[p] = "idle"
==============================================================================
