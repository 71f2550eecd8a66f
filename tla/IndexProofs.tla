----------------------------- MODULE IndexProofs -----------------------------
(****************************************************************************)
(* Proofs about Index.tla, for every set of goroutines and paths and every  *)
(* bound.  Each part of the inductive invariant is a lemma with one step    *)
(* per action; the theorems combine them.                                   *)
(****************************************************************************)
EXTENDS Index, TLAPS

USE DEF PickerIds, Unseen, Versions, Snapshots

\* A picker's number is never None.
LEMMA NumberIsNotNone == \A k \in PickerIds : k # None
BY NoneAssumption, BoundsAssumption

\* Closing a picker keeps the lives well-formed.
LEMMA PickerCloseType ==
  ASSUME life \in [PickerIds -> Lives], NEW k, PickerClose(k)
  PROVE  life' \in [PickerIds -> Lives]
BY DEF PickerClose, Lives

\* The newer of two snapshots is one.
LEMMA NewestType == \A s, t \in Snapshots : Newest(s, t) \in Snapshots
BY DEF Newest

\* The initial state has the right types.
LEMMA InitType == Init => TypeOK
<1> SUFFICES ASSUME Init PROVE TypeOK
    OBVIOUS
<1>1. PointersOK
      BY DEF Init, PointersOK
<1>2. /\ disk \in Snapshots /\ promised \in Snapshots /\ floor \in [Procs -> Snapshots]
      /\ seen \in [PickerIds -> [Files -> Versions \cup {Unseen}]]
      /\ life \in [PickerIds -> Lives]
      /\ got \in [Procs -> [Files -> Versions \cup {Unseen}] \cup {None}]
      BY BoundsAssumption DEF Init, Lives
<1>3. /\ pc \in [Procs -> PCs] /\ op \in [Procs -> Ops] /\ ret \in [Procs -> Errors]
      /\ cancelled \in [Procs -> BOOLEAN] /\ late \in [Procs -> BOOLEAN]
      /\ pk \in [Procs -> PickerIds \cup {None}]
      BY DEF Init, PCs, Ops, Errors
<1>4. /\ handle \in {"none", "private", "shared"} /\ closed \in BOOLEAN /\ shut \in BOOLEAN
      /\ current \in PickerIds \cup {None} /\ lock \in Procs \cup {None}
      BY DEF Init
<1>5. calls \in 0 .. MaxRefreshes
      BY BoundsAssumption DEF Init
<1> QED
    BY <1>1, <1>2, <1>3, <1>4, <1>5 DEF TypeOK

\* The pointers stay good.
LEMMA StepPointers == TypeOK /\ [Next]_vars => PointersOK'
<1> SUFFICES ASSUME TypeOK, [Next]_vars PROVE PointersOK'
    OBVIOUS
<1>0. /\ pc \in [Procs -> PCs] /\ pk \in [Procs -> PickerIds \cup {None}]
      /\ PointersOK /\ calls \in 0 .. MaxRefreshes /\ current \in PickerIds \cup {None}
      BY DEF TypeOK
<1> USE <1>0, BoundsAssumption DEF PointersOK, shared, local, history
<1>1. ASSUME NEW f \in Files, Edit(f) PROVE PointersOK'
      BY <1>1 DEF Edit
<1>2. ASSUME NEW p \in Procs, Cancel(p) PROVE PointersOK'
      BY <1>2 DEF Cancel
<1>3. ASSUME NEW p \in Procs, OpenCall(p) PROVE PointersOK'
      BY <1>3 DEF OpenCall, Call
<1>4. ASSUME NEW p \in Procs, SearchCall(p) PROVE PointersOK'
      BY <1>4 DEF SearchCall, Call
<1>5. ASSUME NEW p \in Procs, RefreshCall(p) PROVE PointersOK'
      BY <1>5 DEF RefreshCall, Call
<1>6. ASSUME NEW p \in Procs, CloseCall(p) PROVE PointersOK'
      BY <1>6 DEF CloseCall, Call
<1>7. ASSUME NEW p \in Procs, OpenRoot(p) PROVE PointersOK'
      BY <1>7 DEF OpenRoot
<1>8. ASSUME NEW p \in Procs, RefreshCtx(p) PROVE PointersOK'
      BY <1>8 DEF RefreshCtx, RefreshEnd
<1>9. ASSUME NEW p \in Procs, RefreshLock(p) PROVE PointersOK'
      BY <1>9 DEF RefreshLock
<1>10. ASSUME NEW p \in Procs, RefreshReadClosed(p) PROVE PointersOK'
      BY <1>10 DEF RefreshReadClosed, RefreshEnd
<1>11. ASSUME NEW p \in Procs, RefreshWalk(p) PROVE PointersOK'
      BY <1>11 DEF RefreshWalk
<1>12. ASSUME NEW p \in Procs, RefreshWalked(p) PROVE PointersOK'
      BY <1>12 DEF RefreshWalked
<1>13. ASSUME NEW p \in Procs, RefreshScanFails(p) PROVE PointersOK'
      BY <1>13 DEF RefreshScanFails
<1>14. ASSUME NEW p \in Procs, RefreshFail(p) PROVE PointersOK'
      BY <1>14 DEF RefreshFail, RefreshEnd, FailReason
<1>15. ASSUME NEW p \in Procs, RefreshSwap(p) PROVE PointersOK'
      BY <1>15 DEF RefreshSwap
<1>16. ASSUME NEW p \in Procs, RefreshCloseOld(p) PROVE PointersOK'
      BY <1>16 DEF RefreshCloseOld, RefreshEnd
<1>17. ASSUME NEW p \in Procs, SearchSnapshot(p) PROVE PointersOK'
      BY <1>17 DEF SearchSnapshot, SearchEnd, SnapshotError
<1>18. ASSUME NEW p \in Procs, SearchPicker(p) PROVE PointersOK'
      BY <1>18 DEF SearchPicker, SearchEnd
<1>19. ASSUME NEW p \in Procs, SearchMap(p) PROVE PointersOK'
      BY <1>19 DEF SearchMap, SearchEnd
<1>20. ASSUME NEW p \in Procs, CloseMark(p) PROVE PointersOK'
      BY <1>20 DEF CloseMark, CloseEnd
<1>21. ASSUME NEW p \in Procs, ClosePicker(p) PROVE PointersOK'
      BY <1>21 DEF ClosePicker, CloseEnd
<1>22. CASE UNCHANGED vars
      BY <1>22 DEF vars
<1> QED
    BY <1>1, <1>2, <1>3, <1>4, <1>5, <1>6, <1>7, <1>8, <1>9, <1>10, <1>11, <1>12, <1>13,
       <1>14, <1>15, <1>16, <1>17, <1>18, <1>19, <1>20, <1>21, <1>22
    DEF Next, Start, Step, Refresh, Search, Close

\* The types stay right.
LEMMA StepType == TypeOK /\ [Next]_vars => TypeOK'
<1> SUFFICES ASSUME TypeOK, [Next]_vars PROVE TypeOK'
    OBVIOUS
<1>0. PointersOK'
      BY StepPointers
<1> USE <1>0, BoundsAssumption DEF TypeOK, Ops, Errors, PCs, RefreshPCs, Lives, shared, local, history
<1>1. ASSUME NEW f \in Files, Edit(f) PROVE TypeOK'
      BY <1>1 DEF Edit
<1>2. ASSUME NEW p \in Procs, Cancel(p) PROVE TypeOK'
      BY <1>2 DEF Cancel
<1>3. ASSUME NEW p \in Procs, OpenCall(p) PROVE TypeOK'
  <2>1. PICK name \in {"open", "searchwith"}, ctx \in BOOLEAN :
           Call(p, name, "o_root", ctx, calls + 1, disk)
        BY <1>3 DEF OpenCall
  <2>2. /\ pc' \in [Procs -> PCs] /\ op' \in [Procs -> Ops] /\ cancelled' \in [Procs -> BOOLEAN]
        /\ ret' \in [Procs -> Errors] /\ late' \in [Procs -> BOOLEAN]
        BY <2>1 DEF Call
  <2>3. /\ pk' \in [Procs -> PickerIds \cup {None}] /\ floor' \in [Procs -> Snapshots]
        /\ got' \in [Procs -> [Files -> Versions \cup {Unseen}] \cup {None}]
        BY <1>3, <2>1 DEF OpenCall, Call
  <2>4. /\ disk' = disk /\ lock' = lock /\ life' = life /\ seen' = seen /\ promised' = promised
        /\ handle' = "private" /\ closed' = FALSE /\ shut' = FALSE /\ current' = None
        /\ calls' \in 0 .. MaxRefreshes
        BY <1>3 DEF OpenCall
  <2> QED BY <2>2, <2>3, <2>4
<1>4. ASSUME NEW p \in Procs, SearchCall(p) PROVE TypeOK'
      BY <1>4 DEF SearchCall, Call
<1>5. ASSUME NEW p \in Procs, RefreshCall(p) PROVE TypeOK'
      BY <1>5 DEF RefreshCall, Call
<1>6. ASSUME NEW p \in Procs, CloseCall(p) PROVE TypeOK'
      BY <1>6 DEF CloseCall, Call
<1>7. ASSUME NEW p \in Procs, OpenRoot(p) PROVE TypeOK'
      BY <1>7 DEF OpenRoot
<1>8. ASSUME NEW p \in Procs, RefreshCtx(p) PROVE TypeOK'
  <2>1. pc' \in [Procs -> PCs] /\ ret' \in [Procs -> Errors]
    <3>1. PICK next \in {"idle", "r_lock", "s_snapshot"} : pc' = [pc EXCEPT ![p] = next]
          BY <1>8 DEF RefreshCtx, RefreshEnd
    <3>2. ret' = ret \/ ret' = [ret EXCEPT ![p] = "ctx"]
          BY <1>8 DEF RefreshCtx, RefreshEnd
    <3> QED BY <3>1, <3>2
  <2>2. handle' \in {"none", "private", "shared"} /\ promised' \in Snapshots
        BY <1>8 DEF RefreshCtx, RefreshEnd, Newest
  <2> QED BY <1>8, <2>1, <2>2 DEF RefreshCtx
<1>9. ASSUME NEW p \in Procs, RefreshLock(p) PROVE TypeOK'
      BY <1>9 DEF RefreshLock
<1>10. ASSUME NEW p \in Procs, RefreshReadClosed(p) PROVE TypeOK'
  <2>1. pc' \in [Procs -> PCs] /\ ret' \in [Procs -> Errors] /\ lock' \in Procs \cup {None}
        BY <1>10 DEF RefreshReadClosed, RefreshEnd
  <2>2. handle' \in {"none", "private", "shared"} /\ promised' \in Snapshots
        BY <1>10 DEF RefreshReadClosed, RefreshEnd, Newest
  <2>3. life' \in [PickerIds -> Lives]
        BY <1>10 DEF RefreshReadClosed
  <2> QED BY <1>10, <2>1, <2>2, <2>3 DEF RefreshReadClosed
<1>11. ASSUME NEW p \in Procs, RefreshWalk(p) PROVE TypeOK'
  <2>1. pk[p] \in PickerIds
        BY <1>11 DEF RefreshWalk, PointersOK
  <2>2. PICK f \in Files : seen' = [seen EXCEPT ![pk[p]][f] = disk[f]]
        BY <1>11 DEF RefreshWalk
  <2>3. seen' \in [PickerIds -> [Files -> Versions \cup {Unseen}]]
        BY <2>1, <2>2
  <2> QED BY <1>11, <2>3 DEF RefreshWalk
<1>12. ASSUME NEW p \in Procs, RefreshWalked(p) PROVE TypeOK'
      BY <1>12 DEF RefreshWalked
<1>13. ASSUME NEW p \in Procs, RefreshScanFails(p) PROVE TypeOK'
      BY <1>13 DEF RefreshScanFails
<1>14. ASSUME NEW p \in Procs, RefreshFail(p) PROVE TypeOK'
  <2>1. pc' \in [Procs -> PCs] /\ ret' \in [Procs -> Errors]
        BY <1>14 DEF RefreshFail, RefreshEnd, FailReason
  <2>2. handle' \in {"none", "private", "shared"} /\ promised' \in Snapshots
        BY <1>14 DEF RefreshFail, RefreshEnd, Newest
  <2>3. life' \in [PickerIds -> Lives]
        BY <1>14 DEF RefreshFail, PickerClose
  <2> QED BY <1>14, <2>1, <2>2, <2>3 DEF RefreshFail
<1>15. ASSUME NEW p \in Procs, RefreshSwap(p) PROVE TypeOK'
  <2>1. pc' \in [Procs -> PCs] /\ ret' \in [Procs -> Errors]
        BY <1>15 DEF RefreshSwap
  <2>2. pk[p] \in PickerIds
        BY <1>15 DEF RefreshSwap, PointersOK
  <2>3. current' \in PickerIds \cup {None} /\ pk' \in [Procs -> PickerIds \cup {None}]
        BY <1>15, <2>2 DEF RefreshSwap
  <2> QED BY <1>15, <2>1, <2>3 DEF RefreshSwap
<1>16. ASSUME NEW p \in Procs, RefreshCloseOld(p) PROVE TypeOK'
  <2>1. life' \in [PickerIds -> Lives]
    <3>1. CASE pk[p] = None
          BY <1>16, <3>1 DEF RefreshCloseOld
    <3>2. CASE PickerClose(pk[p])
          BY <3>2 DEF PickerClose
    <3> QED BY <1>16, <3>1, <3>2 DEF RefreshCloseOld
  <2>2. promised' \in Snapshots
        BY <1>16 DEF RefreshCloseOld, RefreshEnd, Newest
  <2> QED BY <1>16, <2>1, <2>2 DEF RefreshCloseOld, RefreshEnd
<1>17. ASSUME NEW p \in Procs, SearchSnapshot(p) PROVE TypeOK'
  <2>1. CASE cancelled[p] \/ SnapshotError # "ok"
    <3>1. SnapshotError \in Errors
          BY DEF SnapshotError
    <3>0. ret' \in [Procs -> Errors]
          BY <1>17, <2>1, <3>1 DEF SearchSnapshot, SearchEnd
    <3>2. pc' \in [Procs -> PCs]
      <4>1. PICK next \in {"c_mark", "idle"} : pc' = [pc EXCEPT ![p] = next]
            BY <1>17, <2>1 DEF SearchSnapshot, SearchEnd
      <4> QED BY <4>1
    <3>3. got' \in [Procs -> [Files -> Versions \cup {Unseen}] \cup {None}]
          BY <1>17, <2>1 DEF SearchSnapshot, SearchEnd
    <3> QED BY <1>17, <2>1, <3>0, <3>2, <3>3 DEF SearchSnapshot
  <2>2. CASE ~(cancelled[p] \/ SnapshotError # "ok")
        BY <1>17, <2>2 DEF SearchSnapshot
  <2> QED BY <2>1, <2>2
<1>18. ASSUME NEW p \in Procs, SearchPicker(p) PROVE TypeOK'
      BY <1>18 DEF SearchPicker, SearchEnd
<1>19. ASSUME NEW p \in Procs, SearchMap(p) PROVE TypeOK'
  <2>1. seen[pk[p]] \in [Files -> Versions \cup {Unseen}]
        BY <1>19 DEF SearchMap, PointersOK
  <2>2. CASE cancelled[p]
    <3>0. ret' \in [Procs -> Errors]
          BY <1>19, <2>2 DEF SearchMap, SearchEnd
    <3>1. pc' \in [Procs -> PCs]
      <4>1. PICK next \in {"c_mark", "idle"} : pc' = [pc EXCEPT ![p] = next]
            BY <1>19, <2>2 DEF SearchMap, SearchEnd
      <4> QED BY <4>1
    <3>2. got' \in [Procs -> [Files -> Versions \cup {Unseen}] \cup {None}]
          BY <1>19, <2>2 DEF SearchMap, SearchEnd
    <3> QED BY <1>19, <3>0, <3>1, <3>2 DEF SearchMap
  <2>3. CASE ~cancelled[p]
    <3>1. got' \in [Procs -> [Files -> Versions \cup {Unseen}] \cup {None}]
          BY <1>19, <2>1, <2>3 DEF SearchMap, SearchEnd
    <3> QED BY <1>19, <2>3, <3>1 DEF SearchMap, SearchEnd
  <2> QED BY <2>2, <2>3
<1>20. ASSUME NEW p \in Procs, CloseMark(p) PROVE TypeOK'
  <2>1. pc' \in [Procs -> PCs] /\ ret' \in [Procs -> Errors]
        BY <1>20 DEF CloseMark, CloseEnd
  <2>2. current' \in PickerIds \cup {None} /\ pk' \in [Procs -> PickerIds \cup {None}]
        BY <1>20 DEF CloseMark
  <2>3. handle' \in {"none", "private", "shared"} /\ shut' \in BOOLEAN
        BY <1>20 DEF CloseMark, CloseEnd
  <2> QED BY <1>20, <2>1, <2>2, <2>3 DEF CloseMark
<1>21. ASSUME NEW p \in Procs, ClosePicker(p) PROVE TypeOK'
      BY <1>21 DEF ClosePicker, CloseEnd, PickerClose
<1>22. CASE UNCHANGED vars
      BY <1>22 DEF vars
<1> QED
    BY <1>1, <1>2, <1>3, <1>4, <1>5, <1>6, <1>7, <1>8, <1>9, <1>10, <1>11, <1>12, <1>13,
       <1>14, <1>15, <1>16, <1>17, <1>18, <1>19, <1>20, <1>21, <1>22
    DEF Next, Start, Step, Refresh, Search, Close

\* Every reachable state has the declared types.
THEOREM TypeCorrect == Spec => []TypeOK
<1>1. QED BY InitType, StepType, PTL DEF Spec

\* The mutex has one holder.
LEMMA StepLock == TypeOK /\ LockInv /\ [Next]_vars => LockInv'
<1> SUFFICES ASSUME TypeOK, LockInv, [Next]_vars PROVE LockInv'
    OBVIOUS
<1>0. None \notin Procs /\ pc \in [Procs -> PCs] /\ lock \in Procs \cup {None}
      BY NoneAssumption DEF TypeOK
<1> USE <1>0 DEF LockInv, Locked, Scanning, shared, local, history
<1>1. ASSUME NEW f \in Files, Edit(f) PROVE LockInv'
      BY <1>1 DEF Edit
<1>2. ASSUME NEW p \in Procs, Cancel(p) PROVE LockInv'
      BY <1>2 DEF Cancel
<1>3. ASSUME NEW p \in Procs, OpenCall(p) PROVE LockInv'
      BY <1>3 DEF OpenCall, Call
<1>4. ASSUME NEW p \in Procs, SearchCall(p) PROVE LockInv'
      BY <1>4 DEF SearchCall, Call
<1>5. ASSUME NEW p \in Procs, RefreshCall(p) PROVE LockInv'
      BY <1>5 DEF RefreshCall, Call
<1>6. ASSUME NEW p \in Procs, CloseCall(p) PROVE LockInv'
      BY <1>6 DEF CloseCall, Call
<1>7. ASSUME NEW p \in Procs, OpenRoot(p) PROVE LockInv'
      BY <1>7 DEF OpenRoot
<1>8. ASSUME NEW p \in Procs, RefreshCtx(p) PROVE LockInv'
      BY <1>8 DEF RefreshCtx, RefreshEnd
<1>9. ASSUME NEW p \in Procs, RefreshLock(p) PROVE LockInv'
      BY <1>9 DEF RefreshLock
<1>10. ASSUME NEW p \in Procs, RefreshReadClosed(p) PROVE LockInv'
      BY <1>10 DEF RefreshReadClosed, RefreshEnd
<1>11. ASSUME NEW p \in Procs, RefreshWalk(p) PROVE LockInv'
      BY <1>11 DEF RefreshWalk
<1>12. ASSUME NEW p \in Procs, RefreshWalked(p) PROVE LockInv'
      BY <1>12 DEF RefreshWalked
<1>13. ASSUME NEW p \in Procs, RefreshScanFails(p) PROVE LockInv'
      BY <1>13 DEF RefreshScanFails
<1>14. ASSUME NEW p \in Procs, RefreshFail(p) PROVE LockInv'
      BY <1>14 DEF RefreshFail, RefreshEnd, FailReason
<1>15. ASSUME NEW p \in Procs, RefreshSwap(p) PROVE LockInv'
      BY <1>15 DEF RefreshSwap
<1>16. ASSUME NEW p \in Procs, RefreshCloseOld(p) PROVE LockInv'
      BY <1>16 DEF RefreshCloseOld, RefreshEnd
<1>17. ASSUME NEW p \in Procs, SearchSnapshot(p) PROVE LockInv'
      BY <1>17 DEF SearchSnapshot, SearchEnd, SnapshotError
<1>18. ASSUME NEW p \in Procs, SearchPicker(p) PROVE LockInv'
      BY <1>18 DEF SearchPicker, SearchEnd
<1>19. ASSUME NEW p \in Procs, SearchMap(p) PROVE LockInv'
      BY <1>19 DEF SearchMap, SearchEnd
<1>20. ASSUME NEW p \in Procs, CloseMark(p) PROVE LockInv'
      BY <1>20 DEF CloseMark, CloseEnd
<1>21. ASSUME NEW p \in Procs, ClosePicker(p) PROVE LockInv'
      BY <1>21 DEF ClosePicker, CloseEnd
<1>22. CASE UNCHANGED vars
      BY <1>22 DEF vars
<1> QED
    BY <1>1, <1>2, <1>3, <1>4, <1>5, <1>6, <1>7, <1>8, <1>9, <1>10, <1>11, <1>12, <1>13,
       <1>14, <1>15, <1>16, <1>17, <1>18, <1>19, <1>20, <1>21, <1>22
    DEF Next, Start, Step, Refresh, Search, Close

\* A goroutine's place and the function it is in agree.
LEMMA StepOp == TypeOK /\ OpInv /\ [Next]_vars => OpInv'
<1> SUFFICES ASSUME TypeOK, OpInv, [Next]_vars PROVE OpInv'
    OBVIOUS
<1>0. pc \in [Procs -> PCs] /\ op \in [Procs -> Ops] /\ ret \in [Procs -> Errors]
      BY DEF TypeOK
<1> USE <1>0 DEF OpInv, RefreshPCs, Searching, Closing, Scanning, shared, local, history
<1>1. ASSUME NEW f \in Files, Edit(f) PROVE OpInv'
      BY <1>1 DEF Edit
<1>2. ASSUME NEW p \in Procs, Cancel(p) PROVE OpInv'
      BY <1>2 DEF Cancel
<1>3. ASSUME NEW p \in Procs, OpenCall(p) PROVE OpInv'
      BY <1>3 DEF OpenCall, Call
<1>4. ASSUME NEW p \in Procs, SearchCall(p) PROVE OpInv'
      BY <1>4 DEF SearchCall, Call
<1>5. ASSUME NEW p \in Procs, RefreshCall(p) PROVE OpInv'
      BY <1>5 DEF RefreshCall, Call
<1>6. ASSUME NEW p \in Procs, CloseCall(p) PROVE OpInv'
      BY <1>6 DEF CloseCall, Call
<1>7. ASSUME NEW p \in Procs, OpenRoot(p) PROVE OpInv'
      BY <1>7 DEF OpenRoot
<1>8. ASSUME NEW p \in Procs, RefreshCtx(p) PROVE OpInv'
      BY <1>8 DEF RefreshCtx, RefreshEnd
<1>9. ASSUME NEW p \in Procs, RefreshLock(p) PROVE OpInv'
      BY <1>9 DEF RefreshLock
<1>10. ASSUME NEW p \in Procs, RefreshReadClosed(p) PROVE OpInv'
      BY <1>10 DEF RefreshReadClosed, RefreshEnd
<1>11. ASSUME NEW p \in Procs, RefreshWalk(p) PROVE OpInv'
      BY <1>11 DEF RefreshWalk
<1>12. ASSUME NEW p \in Procs, RefreshWalked(p) PROVE OpInv'
      BY <1>12 DEF RefreshWalked
<1>13. ASSUME NEW p \in Procs, RefreshScanFails(p) PROVE OpInv'
      BY <1>13 DEF RefreshScanFails
<1>14. ASSUME NEW p \in Procs, RefreshFail(p) PROVE OpInv'
      BY <1>14 DEF RefreshFail, RefreshEnd, FailReason
<1>15. ASSUME NEW p \in Procs, RefreshSwap(p) PROVE OpInv'
      BY <1>15 DEF RefreshSwap
<1>16. ASSUME NEW p \in Procs, RefreshCloseOld(p) PROVE OpInv'
      BY <1>16 DEF RefreshCloseOld, RefreshEnd
<1>17. ASSUME NEW p \in Procs, SearchSnapshot(p) PROVE OpInv'
      BY <1>17 DEF SearchSnapshot, SearchEnd, SnapshotError
<1>18. ASSUME NEW p \in Procs, SearchPicker(p) PROVE OpInv'
      BY <1>18 DEF SearchPicker, SearchEnd
<1>19. ASSUME NEW p \in Procs, SearchMap(p) PROVE OpInv'
      BY <1>19 DEF SearchMap, SearchEnd
<1>20. ASSUME NEW p \in Procs, CloseMark(p) PROVE OpInv'
      BY <1>20 DEF CloseMark, CloseEnd
<1>21. ASSUME NEW p \in Procs, ClosePicker(p) PROVE OpInv'
      BY <1>21 DEF ClosePicker, CloseEnd
<1>22. CASE UNCHANGED vars
      BY <1>22 DEF vars
<1> QED
    BY <1>1, <1>2, <1>3, <1>4, <1>5, <1>6, <1>7, <1>8, <1>9, <1>10, <1>11, <1>12, <1>13,
       <1>14, <1>15, <1>16, <1>17, <1>18, <1>19, <1>20, <1>21, <1>22
    DEF Next, Start, Step, Refresh, Search, Close

\* The life of the handle.
LEMMA StepHandle == TypeOK /\ OpInv /\ HandleInv /\ [Next]_vars => HandleInv'
<1> SUFFICES ASSUME TypeOK, OpInv, HandleInv, [Next]_vars PROVE HandleInv'
    OBVIOUS
<1>0. /\ pc \in [Procs -> PCs] /\ op \in [Procs -> Ops] /\ pk \in [Procs -> PickerIds \cup {None}]
      /\ current \in PickerIds \cup {None} /\ handle \in {"none", "private", "shared"}
      /\ closed \in BOOLEAN /\ shut \in BOOLEAN /\ PointersOK
      BY DEF TypeOK
<1> USE <1>0, NumberIsNotNone DEF HandleInv, PrivateInv, SharedInv, OpInv, RefreshPCs, Searching, Closing, Scanning, Before, shared, local, history
<1>1. ASSUME NEW f \in Files, Edit(f) PROVE HandleInv'
      BY <1>1 DEF Edit
<1>2. ASSUME NEW p \in Procs, Cancel(p) PROVE HandleInv'
      BY <1>2 DEF Cancel
<1>3. ASSUME NEW p \in Procs, OpenCall(p) PROVE HandleInv'
      BY <1>3 DEF OpenCall, Call
<1>4. ASSUME NEW p \in Procs, SearchCall(p) PROVE HandleInv'
      BY <1>4 DEF SearchCall, Call
<1>5. ASSUME NEW p \in Procs, RefreshCall(p) PROVE HandleInv'
      BY <1>5 DEF RefreshCall, Call
<1>6. ASSUME NEW p \in Procs, CloseCall(p) PROVE HandleInv'
      BY <1>6 DEF CloseCall, Call
<1>7. ASSUME NEW p \in Procs, OpenRoot(p) PROVE HandleInv'
  <2>1. CASE handle = "private"
        BY <1>7, <2>1 DEF OpenRoot
  <2>2. CASE handle = "shared"
        BY <1>7, <2>2 DEF OpenRoot
  <2> QED BY <1>7, <2>1, <2>2 DEF OpenRoot
<1>8. ASSUME NEW p \in Procs, RefreshCtx(p) PROVE HandleInv'
  <2>1. CASE handle = "private"
        BY <1>8, <2>1 DEF RefreshCtx, RefreshEnd
  <2>2. CASE handle = "shared"
        BY <1>8, <2>2 DEF RefreshCtx, RefreshEnd
  <2> QED BY <1>8, <2>1, <2>2 DEF RefreshCtx
<1>9. ASSUME NEW p \in Procs, RefreshLock(p) PROVE HandleInv'
      BY <1>9 DEF RefreshLock
<1>10. ASSUME NEW p \in Procs, RefreshReadClosed(p) PROVE HandleInv'
  <2>1. CASE handle = "private"
        BY <1>10, <2>1 DEF RefreshReadClosed, RefreshEnd
  <2>2. CASE handle = "shared"
        BY <1>10, <2>2 DEF RefreshReadClosed, RefreshEnd
  <2> QED BY <1>10, <2>1, <2>2 DEF RefreshReadClosed
<1>11. ASSUME NEW p \in Procs, RefreshWalk(p) PROVE HandleInv'
      BY <1>11 DEF RefreshWalk
<1>12. ASSUME NEW p \in Procs, RefreshWalked(p) PROVE HandleInv'
      BY <1>12 DEF RefreshWalked
<1>13. ASSUME NEW p \in Procs, RefreshScanFails(p) PROVE HandleInv'
      BY <1>13 DEF RefreshScanFails
<1>14. ASSUME NEW p \in Procs, RefreshFail(p) PROVE HandleInv'
  <2>1. CASE handle = "private"
        BY <1>14, <2>1 DEF RefreshFail, RefreshEnd, FailReason
  <2>2. CASE handle = "shared"
        BY <1>14, <2>2 DEF RefreshFail, RefreshEnd, FailReason
  <2> QED BY <1>14, <2>1, <2>2 DEF RefreshFail
<1>15. ASSUME NEW p \in Procs, RefreshSwap(p) PROVE HandleInv'
      BY <1>15 DEF RefreshSwap, PointersOK
<1>16. ASSUME NEW p \in Procs, RefreshCloseOld(p) PROVE HandleInv'
  <2>1. CASE handle = "private"
        BY <1>16, <2>1 DEF RefreshCloseOld, RefreshEnd
  <2>2. CASE handle = "shared"
        BY <1>16, <2>2 DEF RefreshCloseOld, RefreshEnd
  <2> QED BY <1>16, <2>1, <2>2 DEF RefreshCloseOld
<1>17. ASSUME NEW p \in Procs, SearchSnapshot(p) PROVE HandleInv'
      BY <1>17 DEF SearchSnapshot, SearchEnd, SnapshotError
<1>18. ASSUME NEW p \in Procs, SearchPicker(p) PROVE HandleInv'
      BY <1>18 DEF SearchPicker, SearchEnd
<1>19. ASSUME NEW p \in Procs, SearchMap(p) PROVE HandleInv'
      BY <1>19 DEF SearchMap, SearchEnd
<1>20. ASSUME NEW p \in Procs, CloseMark(p) PROVE HandleInv'
  <2>1. CASE handle = "private"
        BY <1>20, <2>1 DEF CloseMark, CloseEnd
  <2>2. CASE handle = "shared"
        BY <1>20, <2>2 DEF CloseMark, CloseEnd
  <2> QED BY <1>20, <2>1, <2>2 DEF CloseMark
<1>21. ASSUME NEW p \in Procs, ClosePicker(p) PROVE HandleInv'
  <2>1. CASE handle = "private"
        BY <1>21, <2>1 DEF ClosePicker, CloseEnd
  <2>2. CASE handle = "shared"
        BY <1>21, <2>2 DEF ClosePicker, CloseEnd
  <2> QED BY <1>21, <2>1, <2>2 DEF ClosePicker
<1>22. CASE UNCHANGED vars
      BY <1>22 DEF vars
<1> QED
    BY <1>1, <1>2, <1>3, <1>4, <1>5, <1>6, <1>7, <1>8, <1>9, <1>10, <1>11, <1>12, <1>13,
       <1>14, <1>15, <1>16, <1>17, <1>18, <1>19, <1>20, <1>21, <1>22
    DEF Next, Start, Step, Refresh, Search, Close

\* Every open picker keeps exactly one owner, or is published.
LEMMA StepOwner == TypeOK /\ LockInv /\ HandleInv /\ OwnerInv /\ [Next]_vars => OwnerInv'
<1> SUFFICES ASSUME TypeOK, LockInv, HandleInv, OwnerInv, [Next]_vars PROVE OwnerInv'
    OBVIOUS
<1>0. /\ pc \in [Procs -> PCs] /\ pk \in [Procs -> PickerIds \cup {None}]
      /\ current \in PickerIds \cup {None} /\ calls \in 0 .. MaxRefreshes
      /\ life \in [PickerIds -> Lives] /\ PointersOK
      BY DEF TypeOK
<1> USE <1>0, NumberIsNotNone, BoundsAssumption DEF OwnerInv, OwnedInv, UniqueInv, PublishedInv, LifeInv, Owns, Scanning, Before, shared, local, history
<1>1. ASSUME NEW f \in Files, Edit(f) PROVE OwnerInv'
      BY <1>1 DEF Edit
<1>2. ASSUME NEW p \in Procs, Cancel(p) PROVE OwnerInv'
      BY <1>2 DEF Cancel
<1>3. ASSUME NEW p \in Procs, OpenCall(p) PROVE OwnerInv'
  <2>0. /\ \A q \in Procs : pc[q] = "idle"
        /\ pc' = [pc EXCEPT ![p] = "o_root"] /\ pk' = [pk EXCEPT ![p] = calls + 1]
        /\ current = None /\ current' = None /\ calls' = calls + 1 /\ calls' \in PickerIds
        /\ life' = life
        BY <1>3 DEF OpenCall, Call, HandleInv
  <2>1. OwnedInv'
        BY <2>0
  <2>2. UniqueInv'
        BY <2>0
  <2>3. PublishedInv'
        BY <2>0
  <2>4. LifeInv'
        BY <2>0
  <2> QED BY <2>1, <2>2, <2>3, <2>4
<1>4. ASSUME NEW p \in Procs, SearchCall(p) PROVE OwnerInv'
      BY <1>4 DEF SearchCall, Call
<1>5. ASSUME NEW p \in Procs, RefreshCall(p) PROVE OwnerInv'
      BY <1>5 DEF RefreshCall, Call
<1>6. ASSUME NEW p \in Procs, CloseCall(p) PROVE OwnerInv'
      BY <1>6 DEF CloseCall, Call
<1>7. ASSUME NEW p \in Procs, OpenRoot(p) PROVE OwnerInv'
      BY <1>7 DEF OpenRoot
<1>8. ASSUME NEW p \in Procs, RefreshCtx(p) PROVE OwnerInv'
      BY <1>8 DEF RefreshCtx, RefreshEnd
<1>9. ASSUME NEW p \in Procs, RefreshLock(p) PROVE OwnerInv'
      BY <1>9 DEF RefreshLock
<1>10. ASSUME NEW p \in Procs, RefreshReadClosed(p) PROVE OwnerInv'
  <2>a. /\ pc[p] = "r_closed" /\ Owns(p) /\ UNCHANGED <<pk, current, calls>>
        /\ pk[p] \in PickerIds /\ pk[p] \in 1 .. calls /\ pk[p] # current
        BY <1>10 DEF RefreshReadClosed
  <2>1. CASE closed
    <3>1. PICK next \in {"idle", "s_snapshot"} : pc' = [pc EXCEPT ![p] = next]
          BY <1>10, <2>1 DEF RefreshReadClosed, RefreshEnd
    <3>2. life' = life /\ life[pk[p]] = "unborn"
          BY <1>10, <2>1, <2>a DEF RefreshReadClosed
    <3>3. \A q \in Procs : Owns(q)' <=> Owns(q) /\ q # p
          BY <2>a, <3>1
    <3> QED BY <2>a, <3>1, <3>2, <3>3
  <2>2. CASE ~closed
    <3>1. pc' = [pc EXCEPT ![p] = "r_walk"] /\ life' = [life EXCEPT ![pk[p]] = "open"]
          BY <1>10, <2>2 DEF RefreshReadClosed
    <3>2. \A q \in Procs : Owns(q)' <=> Owns(q)
          BY <2>a, <3>1
    <3>3. OwnedInv'
          BY <2>a, <3>1, <3>2
    <3>4. LifeInv'
          BY <2>a, <3>1, <3>2
    <3> QED BY <2>a, <3>1, <3>2, <3>3, <3>4
  <2> QED BY <2>1, <2>2
<1>11. ASSUME NEW p \in Procs, RefreshWalk(p) PROVE OwnerInv'
      BY <1>11 DEF RefreshWalk
<1>12. ASSUME NEW p \in Procs, RefreshWalked(p) PROVE OwnerInv'
      BY <1>12 DEF RefreshWalked
<1>13. ASSUME NEW p \in Procs, RefreshScanFails(p) PROVE OwnerInv'
      BY <1>13 DEF RefreshScanFails
<1>14. ASSUME NEW p \in Procs, RefreshFail(p) PROVE OwnerInv'
  <2>a. /\ pc[p] = "r_fail" /\ Owns(p)
        /\ pk[p] \in PickerIds /\ pk[p] # current /\ life[pk[p]] = "open"
        BY <1>14 DEF RefreshFail
  <2>b. life' = [life EXCEPT ![pk[p]] = "closed"]
        BY <1>14, <2>a DEF RefreshFail, PickerClose
  <2>c. PICK next \in {"idle", "s_snapshot"} : pc' = [pc EXCEPT ![p] = next]
        BY <1>14 DEF RefreshFail, RefreshEnd, FailReason
  <2>d. UNCHANGED <<pk, current, calls>>
        BY <1>14 DEF RefreshFail
  <2>0. \A q \in Procs : Owns(q)' => Owns(q) /\ q # p /\ pk[q] # pk[p] /\ pc'[q] = pc[q]
        BY <2>a, <2>c, <2>d
  <2>1. OwnedInv'
        BY <2>0, <2>a, <2>b, <2>c, <2>d
  <2>2. UniqueInv'
        BY <2>0, <2>a, <2>b, <2>c, <2>d
  <2>3. PublishedInv'
        BY <2>0, <2>a, <2>b, <2>c, <2>d
  <2>4. LifeInv'
        BY <2>0, <2>a, <2>b, <2>c, <2>d
  <2> QED BY <2>1, <2>2, <2>3, <2>4
<1>15. ASSUME NEW p \in Procs, RefreshSwap(p) PROVE OwnerInv'
  <2>a. /\ pc[p] = "r_swap" /\ Owns(p) /\ UNCHANGED <<calls, life>>
        /\ pk[p] \in 1 .. calls /\ pk[p] # current /\ life[pk[p]] = "open"
        BY <1>15 DEF RefreshSwap
  <2>1. CASE closed
    <3>1. pc' = [pc EXCEPT ![p] = "r_fail"] /\ UNCHANGED <<current, pk>>
          BY <1>15, <2>1 DEF RefreshSwap
    <3>2. \A q \in Procs : Owns(q)' <=> Owns(q)
          BY <2>a, <3>1
    <3>3. OwnedInv'
          BY <2>a, <3>1, <3>2
    <3> QED BY <2>a, <3>1, <3>2, <3>3
  <2>2. CASE ~closed
    <3>1. /\ pc' = [pc EXCEPT ![p] = "r_closeold"]
          /\ current' = pk[p] /\ pk' = [pk EXCEPT ![p] = current]
          BY <1>15, <2>2 DEF RefreshSwap
    <3>2. \A q \in Procs \ {p} : (Owns(q)' <=> Owns(q)) /\ pk'[q] = pk[q] /\ pc'[q] = pc[q]
          BY <2>a, <3>1
    <3>3. pc'[p] = "r_closeold" /\ pk'[p] = current /\ (Owns(p)' <=> current # None)
          BY <3>1
    <3>4. OwnedInv'
          BY <2>a, <3>1, <3>2, <3>3
    <3>5. UniqueInv'
          BY <2>a, <3>1, <3>2, <3>3
    <3>6. PublishedInv'
          BY <2>a, <3>1
    <3>7. LifeInv'
          BY <2>a, <3>1, <3>2, <3>3
    <3> QED BY <3>4, <3>5, <3>6, <3>7
  <2> QED BY <2>1, <2>2
<1>16. ASSUME NEW p \in Procs, RefreshCloseOld(p) PROVE OwnerInv'
  <2>1. pc[p] = "r_closeold" /\ UNCHANGED <<pk, current, calls>>
        BY <1>16 DEF RefreshCloseOld
  <2>2. PICK next \in {"idle", "s_snapshot"} : pc' = [pc EXCEPT ![p] = next]
        BY <1>16 DEF RefreshCloseOld, RefreshEnd
  <2>3. \A q \in Procs : Owns(q)' <=> Owns(q) /\ q # p
        BY <2>1, <2>2
  <2>4. CASE pk[p] = None
    <3>1. life' = life /\ ~Owns(p)
          BY <1>16, <2>1, <2>4 DEF RefreshCloseOld
    <3> QED BY <2>1, <2>2, <2>3, <3>1
  <2>5. CASE pk[p] # None
    <3>1. Owns(p) /\ pk[p] \in PickerIds /\ pk[p] # current /\ life[pk[p]] = "open"
          BY <2>1, <2>5
    <3>2. life' = [life EXCEPT ![pk[p]] = "closed"]
          BY <1>16, <2>5, <3>1 DEF RefreshCloseOld, PickerClose
    <3>3. OwnedInv'
          BY <2>1, <2>2, <2>3, <3>1, <3>2
    <3>4. UniqueInv'
          BY <2>1, <2>3
    <3>5. PublishedInv' /\ LifeInv'
          BY <2>1, <2>3, <3>1, <3>2
    <3> QED BY <3>3, <3>4, <3>5
  <2> QED BY <2>4, <2>5
<1>17. ASSUME NEW p \in Procs, SearchSnapshot(p) PROVE OwnerInv'
  <2>1. /\ pc[p] = "s_snapshot" /\ UNCHANGED <<current, life, calls>>
        /\ \/ UNCHANGED pk /\ pc' = [pc EXCEPT ![p] = IF op[p] = "searchwith" THEN "c_mark" ELSE "idle"]
           \/ pk' = [pk EXCEPT ![p] = current] /\ pc' = [pc EXCEPT ![p] = "s_picker"]
        BY <1>17 DEF SearchSnapshot, SearchEnd
  <2> QED BY <2>1
<1>18. ASSUME NEW p \in Procs, SearchPicker(p) PROVE OwnerInv'
      BY <1>18 DEF SearchPicker, SearchEnd
<1>19. ASSUME NEW p \in Procs, SearchMap(p) PROVE OwnerInv'
      BY <1>19 DEF SearchMap, SearchEnd
<1>20. ASSUME NEW p \in Procs, CloseMark(p) PROVE OwnerInv'
      BY <1>20 DEF CloseMark, CloseEnd
<1>21. ASSUME NEW p \in Procs, ClosePicker(p) PROVE OwnerInv'
      BY <1>21 DEF ClosePicker, CloseEnd, PickerClose
<1>22. CASE UNCHANGED vars
      BY <1>22 DEF vars
<1> QED
    BY <1>1, <1>2, <1>3, <1>4, <1>5, <1>6, <1>7, <1>8, <1>9, <1>10, <1>11, <1>12, <1>13,
       <1>14, <1>15, <1>16, <1>17, <1>18, <1>19, <1>20, <1>21, <1>22
    DEF Next, Start, Step, Refresh, Search, Close

\* A call that came after a Close stays before the check of closed.
LEMMA StepLate == TypeOK /\ OpInv /\ HandleInv /\ LateInv /\ [Next]_vars => LateInv'
<1> SUFFICES ASSUME TypeOK, OpInv, HandleInv, LateInv, [Next]_vars PROVE LateInv'
    OBVIOUS
<1>0. /\ pc \in [Procs -> PCs] /\ late \in [Procs -> BOOLEAN] /\ op \in [Procs -> Ops]
      /\ handle \in {"none", "private", "shared"}
      /\ closed \in BOOLEAN /\ shut \in BOOLEAN /\ current \in PickerIds \cup {None}
      BY DEF TypeOK
<1> USE <1>0 DEF LateInv, OpInv, HandleInv, PrivateInv, SharedInv, Before, Scanning, Searching, Closing, RefreshPCs, shared, local, history
<1>1. ASSUME NEW f \in Files, Edit(f) PROVE LateInv'
      BY <1>1 DEF Edit
<1>2. ASSUME NEW p \in Procs, Cancel(p) PROVE LateInv'
      BY <1>2 DEF Cancel
<1>3. ASSUME NEW p \in Procs, OpenCall(p) PROVE LateInv'
      BY <1>3 DEF OpenCall, Call
<1>4. ASSUME NEW p \in Procs, SearchCall(p) PROVE LateInv'
      BY <1>4 DEF SearchCall, Call
<1>5. ASSUME NEW p \in Procs, RefreshCall(p) PROVE LateInv'
      BY <1>5 DEF RefreshCall, Call
<1>6. ASSUME NEW p \in Procs, CloseCall(p) PROVE LateInv'
      BY <1>6 DEF CloseCall, Call
<1>7. ASSUME NEW p \in Procs, OpenRoot(p) PROVE LateInv'
      BY <1>7 DEF OpenRoot
<1>8. ASSUME NEW p \in Procs, RefreshCtx(p) PROVE LateInv'
      BY <1>8 DEF RefreshCtx, RefreshEnd
<1>9. ASSUME NEW p \in Procs, RefreshLock(p) PROVE LateInv'
      BY <1>9 DEF RefreshLock
<1>10. ASSUME NEW p \in Procs, RefreshReadClosed(p) PROVE LateInv'
      BY <1>10 DEF RefreshReadClosed, RefreshEnd
<1>11. ASSUME NEW p \in Procs, RefreshWalk(p) PROVE LateInv'
      BY <1>11 DEF RefreshWalk
<1>12. ASSUME NEW p \in Procs, RefreshWalked(p) PROVE LateInv'
      BY <1>12 DEF RefreshWalked
<1>13. ASSUME NEW p \in Procs, RefreshScanFails(p) PROVE LateInv'
      BY <1>13 DEF RefreshScanFails
<1>14. ASSUME NEW p \in Procs, RefreshFail(p) PROVE LateInv'
      BY <1>14 DEF RefreshFail, RefreshEnd, FailReason
<1>15. ASSUME NEW p \in Procs, RefreshSwap(p) PROVE LateInv'
      BY <1>15 DEF RefreshSwap
<1>16. ASSUME NEW p \in Procs, RefreshCloseOld(p) PROVE LateInv'
      BY <1>16 DEF RefreshCloseOld, RefreshEnd
<1>17. ASSUME NEW p \in Procs, SearchSnapshot(p) PROVE LateInv'
      BY <1>17 DEF SearchSnapshot, SearchEnd, SnapshotError
<1>18. ASSUME NEW p \in Procs, SearchPicker(p) PROVE LateInv'
      BY <1>18 DEF SearchPicker, SearchEnd
<1>19. ASSUME NEW p \in Procs, SearchMap(p) PROVE LateInv'
      BY <1>19 DEF SearchMap, SearchEnd
<1>20. ASSUME NEW p \in Procs, CloseMark(p) PROVE LateInv'
      BY <1>20 DEF CloseMark, CloseEnd
<1>21. ASSUME NEW p \in Procs, ClosePicker(p) PROVE LateInv'
      BY <1>21 DEF ClosePicker, CloseEnd
<1>22. CASE UNCHANGED vars
      BY <1>22 DEF vars
<1> QED
    BY <1>1, <1>2, <1>3, <1>4, <1>5, <1>6, <1>7, <1>8, <1>9, <1>10, <1>11, <1>12, <1>13,
       <1>14, <1>15, <1>16, <1>17, <1>18, <1>19, <1>20, <1>21, <1>22
    DEF Next, Start, Step, Refresh, Search, Close

\* Two goroutines that hold the mutex are the same.
LEMMA OneLocked ==
  ASSUME LockInv, NEW p \in Procs, NEW q \in Procs, pc[p] \in Locked, pc[q] \in Locked
  PROVE  p = q
BY DEF LockInv

\* A promise is about versions that were on disk.
LEMMA StepPromise == TypeOK /\ OpInv /\ PromiseInv /\ [Next]_vars => PromiseInv'
<1> SUFFICES ASSUME TypeOK, OpInv, PromiseInv, [Next]_vars PROVE PromiseInv'
    OBVIOUS
<1>0. /\ pc \in [Procs -> PCs] /\ pk \in [Procs -> PickerIds \cup {None}]
      /\ current \in PickerIds \cup {None} /\ disk \in Snapshots /\ promised \in Snapshots
      /\ floor \in [Procs -> Snapshots] /\ seen \in [PickerIds -> [Files -> Versions \cup {Unseen}]]
      /\ calls \in 0 .. MaxRefreshes /\ life \in [PickerIds -> Lives] /\ PointersOK
      BY DEF TypeOK
<1> USE <1>0, BoundsAssumption DEF PromiseInv, NotOlder, shared, local, history
<1>1. ASSUME NEW f \in Files, Edit(f) PROVE PromiseInv'
      BY <1>1 DEF Edit
<1>2. ASSUME NEW p \in Procs, Cancel(p) PROVE PromiseInv'
      BY <1>2 DEF Cancel
<1>3. ASSUME NEW p \in Procs, OpenCall(p) PROVE PromiseInv'
  <2>1. floor' = [floor EXCEPT ![p] = disk] /\ UNCHANGED <<disk, promised>>
        BY <1>3 DEF OpenCall, Call
  <2> QED BY <2>1
<1>4. ASSUME NEW p \in Procs, SearchCall(p) PROVE PromiseInv'
      BY <1>4 DEF SearchCall, Call
<1>5. ASSUME NEW p \in Procs, RefreshCall(p) PROVE PromiseInv'
      BY <1>5 DEF RefreshCall, Call
<1>6. ASSUME NEW p \in Procs, CloseCall(p) PROVE PromiseInv'
      BY <1>6 DEF CloseCall, Call
<1>7. ASSUME NEW p \in Procs, OpenRoot(p) PROVE PromiseInv'
      BY <1>7 DEF OpenRoot
<1>8. ASSUME NEW p \in Procs, RefreshCtx(p) PROVE PromiseInv'
      BY <1>8 DEF RefreshCtx, RefreshEnd, Newest
<1>9. ASSUME NEW p \in Procs, RefreshLock(p) PROVE PromiseInv'
      BY <1>9 DEF RefreshLock
<1>10. ASSUME NEW p \in Procs, RefreshReadClosed(p) PROVE PromiseInv'
      BY <1>10 DEF RefreshReadClosed, RefreshEnd, Newest
<1>11. ASSUME NEW p \in Procs, RefreshWalk(p) PROVE PromiseInv'
      BY <1>11 DEF RefreshWalk
<1>12. ASSUME NEW p \in Procs, RefreshWalked(p) PROVE PromiseInv'
      BY <1>12 DEF RefreshWalked
<1>13. ASSUME NEW p \in Procs, RefreshScanFails(p) PROVE PromiseInv'
      BY <1>13 DEF RefreshScanFails
<1>14. ASSUME NEW p \in Procs, RefreshFail(p) PROVE PromiseInv'
      BY <1>14 DEF RefreshFail, RefreshEnd, FailReason, Newest, OpInv
<1>15. ASSUME NEW p \in Procs, RefreshSwap(p) PROVE PromiseInv'
      BY <1>15 DEF RefreshSwap
<1>16. ASSUME NEW p \in Procs, RefreshCloseOld(p) PROVE PromiseInv'
      BY <1>16 DEF RefreshCloseOld, RefreshEnd, Newest
<1>17. ASSUME NEW p \in Procs, SearchSnapshot(p) PROVE PromiseInv'
      BY <1>17 DEF SearchSnapshot, SearchEnd, SnapshotError
<1>18. ASSUME NEW p \in Procs, SearchPicker(p) PROVE PromiseInv'
      BY <1>18 DEF SearchPicker, SearchEnd
<1>19. ASSUME NEW p \in Procs, SearchMap(p) PROVE PromiseInv'
      BY <1>19 DEF SearchMap, SearchEnd
<1>20. ASSUME NEW p \in Procs, CloseMark(p) PROVE PromiseInv'
      BY <1>20 DEF CloseMark, CloseEnd
<1>21. ASSUME NEW p \in Procs, ClosePicker(p) PROVE PromiseInv'
      BY <1>21 DEF ClosePicker, CloseEnd
<1>22. CASE UNCHANGED vars
      BY <1>22 DEF vars
<1> QED
    BY <1>1, <1>2, <1>3, <1>4, <1>5, <1>6, <1>7, <1>8, <1>9, <1>10, <1>11, <1>12, <1>13,
       <1>14, <1>15, <1>16, <1>17, <1>18, <1>19, <1>20, <1>21, <1>22
    DEF Next, Start, Step, Refresh, Search, Close

\* The published snapshot keeps the promises.
LEMMA StepContent == TypeOK /\ OpInv /\ HandleInv /\ PromiseInv /\ ContentInv /\ ReadInv /\ DoneInv /\ [Next]_vars => ContentInv'
<1> SUFFICES ASSUME TypeOK, OpInv, HandleInv, PromiseInv, ContentInv, ReadInv, DoneInv, [Next]_vars PROVE ContentInv'
    OBVIOUS
<1>0. /\ pc \in [Procs -> PCs] /\ pk \in [Procs -> PickerIds \cup {None}]
      /\ current \in PickerIds \cup {None} /\ disk \in Snapshots /\ promised \in Snapshots
      /\ floor \in [Procs -> Snapshots] /\ seen \in [PickerIds -> [Files -> Versions \cup {Unseen}]]
      /\ calls \in 0 .. MaxRefreshes /\ life \in [PickerIds -> Lives] /\ PointersOK
      BY DEF TypeOK
<1> USE <1>0, NumberIsNotNone DEF ContentInv, NotOlder, shared, local, history
<1>1. ASSUME NEW f \in Files, Edit(f) PROVE ContentInv'
      BY <1>1 DEF Edit
<1>2. ASSUME NEW p \in Procs, Cancel(p) PROVE ContentInv'
      BY <1>2 DEF Cancel
<1>3. ASSUME NEW p \in Procs, OpenCall(p) PROVE ContentInv'
      BY <1>3 DEF OpenCall
<1>4. ASSUME NEW p \in Procs, SearchCall(p) PROVE ContentInv'
      BY <1>4 DEF SearchCall, Call
<1>5. ASSUME NEW p \in Procs, RefreshCall(p) PROVE ContentInv'
      BY <1>5 DEF RefreshCall, Call
<1>6. ASSUME NEW p \in Procs, CloseCall(p) PROVE ContentInv'
      BY <1>6 DEF CloseCall, Call
<1>7. ASSUME NEW p \in Procs, OpenRoot(p) PROVE ContentInv'
      BY <1>7 DEF OpenRoot
<1>8. ASSUME NEW p \in Procs, RefreshCtx(p) PROVE ContentInv'
      BY <1>8 DEF RefreshCtx, RefreshEnd, Newest
<1>9. ASSUME NEW p \in Procs, RefreshLock(p) PROVE ContentInv'
      BY <1>9 DEF RefreshLock
<1>10. ASSUME NEW p \in Procs, RefreshReadClosed(p) PROVE ContentInv'
      BY <1>10 DEF RefreshReadClosed, RefreshEnd, Newest
<1>11. ASSUME NEW p \in Procs, RefreshWalk(p) PROVE ContentInv'
      BY <1>11 DEF RefreshWalk
<1>12. ASSUME NEW p \in Procs, RefreshWalked(p) PROVE ContentInv'
      BY <1>12 DEF RefreshWalked
<1>13. ASSUME NEW p \in Procs, RefreshScanFails(p) PROVE ContentInv'
      BY <1>13 DEF RefreshScanFails
<1>14. ASSUME NEW p \in Procs, RefreshFail(p) PROVE ContentInv'
      BY <1>14 DEF RefreshFail, RefreshEnd, FailReason, Newest, OpInv
<1>15. ASSUME NEW p \in Procs, RefreshSwap(p) PROVE ContentInv'
      BY <1>15 DEF RefreshSwap, PointersOK, ReadInv, DoneInv, Scanning
<1>16. ASSUME NEW p \in Procs, RefreshCloseOld(p) PROVE ContentInv'
      BY <1>16 DEF RefreshCloseOld, RefreshEnd, Newest, DoneInv
<1>17. ASSUME NEW p \in Procs, SearchSnapshot(p) PROVE ContentInv'
      BY <1>17 DEF SearchSnapshot, SearchEnd, SnapshotError
<1>18. ASSUME NEW p \in Procs, SearchPicker(p) PROVE ContentInv'
      BY <1>18 DEF SearchPicker, SearchEnd
<1>19. ASSUME NEW p \in Procs, SearchMap(p) PROVE ContentInv'
      BY <1>19 DEF SearchMap, SearchEnd
<1>20. ASSUME NEW p \in Procs, CloseMark(p) PROVE ContentInv'
      BY <1>20 DEF CloseMark, CloseEnd
<1>21. ASSUME NEW p \in Procs, ClosePicker(p) PROVE ContentInv'
      BY <1>21 DEF ClosePicker, CloseEnd
<1>22. CASE UNCHANGED vars
      BY <1>22 DEF vars
<1> QED
    BY <1>1, <1>2, <1>3, <1>4, <1>5, <1>6, <1>7, <1>8, <1>9, <1>10, <1>11, <1>12, <1>13,
       <1>14, <1>15, <1>16, <1>17, <1>18, <1>19, <1>20, <1>21, <1>22
    DEF Next, Start, Step, Refresh, Search, Close

\* A picker that was not made yet holds nothing.
LEMMA StepUnread == TypeOK /\ OwnerInv /\ UnreadInv /\ [Next]_vars => UnreadInv'
<1> SUFFICES ASSUME TypeOK, OwnerInv, UnreadInv, [Next]_vars PROVE UnreadInv'
    OBVIOUS
<1>0. /\ pc \in [Procs -> PCs] /\ pk \in [Procs -> PickerIds \cup {None}]
      /\ current \in PickerIds \cup {None} /\ disk \in Snapshots /\ promised \in Snapshots
      /\ floor \in [Procs -> Snapshots] /\ seen \in [PickerIds -> [Files -> Versions \cup {Unseen}]]
      /\ calls \in 0 .. MaxRefreshes /\ life \in [PickerIds -> Lives] /\ PointersOK
      BY DEF TypeOK
<1> USE <1>0, NumberIsNotNone DEF UnreadInv, shared, local, history
<1>1. ASSUME NEW f \in Files, Edit(f) PROVE UnreadInv'
      BY <1>1 DEF Edit
<1>2. ASSUME NEW p \in Procs, Cancel(p) PROVE UnreadInv'
      BY <1>2 DEF Cancel
<1>3. ASSUME NEW p \in Procs, OpenCall(p) PROVE UnreadInv'
      BY <1>3 DEF OpenCall, Call
<1>4. ASSUME NEW p \in Procs, SearchCall(p) PROVE UnreadInv'
      BY <1>4 DEF SearchCall, Call
<1>5. ASSUME NEW p \in Procs, RefreshCall(p) PROVE UnreadInv'
      BY <1>5 DEF RefreshCall, Call
<1>6. ASSUME NEW p \in Procs, CloseCall(p) PROVE UnreadInv'
      BY <1>6 DEF CloseCall, Call
<1>7. ASSUME NEW p \in Procs, OpenRoot(p) PROVE UnreadInv'
      BY <1>7 DEF OpenRoot
<1>8. ASSUME NEW p \in Procs, RefreshCtx(p) PROVE UnreadInv'
      BY <1>8 DEF RefreshCtx, RefreshEnd
<1>9. ASSUME NEW p \in Procs, RefreshLock(p) PROVE UnreadInv'
      BY <1>9 DEF RefreshLock
<1>10. ASSUME NEW p \in Procs, RefreshReadClosed(p) PROVE UnreadInv'
      BY <1>10 DEF RefreshReadClosed, RefreshEnd
<1>11. ASSUME NEW p \in Procs, RefreshWalk(p) PROVE UnreadInv'
  <2>1. pk[p] \in PickerIds /\ life[pk[p]] = "open"
        BY <1>11 DEF RefreshWalk, OwnerInv, OwnedInv, Owns, Scanning, Before, PointersOK
  <2>2. \A k \in PickerIds : k # pk[p] => seen'[k] = seen[k]
        BY <1>11, <2>1 DEF RefreshWalk
  <2> QED BY <1>11, <2>1, <2>2 DEF RefreshWalk
<1>12. ASSUME NEW p \in Procs, RefreshWalked(p) PROVE UnreadInv'
      BY <1>12 DEF RefreshWalked
<1>13. ASSUME NEW p \in Procs, RefreshScanFails(p) PROVE UnreadInv'
      BY <1>13 DEF RefreshScanFails
<1>14. ASSUME NEW p \in Procs, RefreshFail(p) PROVE UnreadInv'
      BY <1>14 DEF RefreshFail, RefreshEnd, FailReason, PickerClose
<1>15. ASSUME NEW p \in Procs, RefreshSwap(p) PROVE UnreadInv'
      BY <1>15 DEF RefreshSwap
<1>16. ASSUME NEW p \in Procs, RefreshCloseOld(p) PROVE UnreadInv'
      BY <1>16 DEF RefreshCloseOld, RefreshEnd, PickerClose
<1>17. ASSUME NEW p \in Procs, SearchSnapshot(p) PROVE UnreadInv'
      BY <1>17 DEF SearchSnapshot, SearchEnd, SnapshotError
<1>18. ASSUME NEW p \in Procs, SearchPicker(p) PROVE UnreadInv'
      BY <1>18 DEF SearchPicker, SearchEnd
<1>19. ASSUME NEW p \in Procs, SearchMap(p) PROVE UnreadInv'
      BY <1>19 DEF SearchMap, SearchEnd
<1>20. ASSUME NEW p \in Procs, CloseMark(p) PROVE UnreadInv'
      BY <1>20 DEF CloseMark, CloseEnd
<1>21. ASSUME NEW p \in Procs, ClosePicker(p) PROVE UnreadInv'
      BY <1>21 DEF ClosePicker, CloseEnd, PickerClose
<1>22. CASE UNCHANGED vars
      BY <1>22 DEF vars
<1> QED
    BY <1>1, <1>2, <1>3, <1>4, <1>5, <1>6, <1>7, <1>8, <1>9, <1>10, <1>11, <1>12, <1>13,
       <1>14, <1>15, <1>16, <1>17, <1>18, <1>19, <1>20, <1>21, <1>22
    DEF Next, Start, Step, Refresh, Search, Close

\* A scan reads nothing that is older than the published snapshot.
LEMMA StepRead == TypeOK /\ LockInv /\ OpInv /\ HandleInv /\ OwnerInv /\ PromiseInv /\ ContentInv /\ UnreadInv /\ ReadInv /\ [Next]_vars => ReadInv'
<1> SUFFICES ASSUME TypeOK, LockInv, OpInv, HandleInv, OwnerInv, PromiseInv, ContentInv, UnreadInv, ReadInv, [Next]_vars PROVE ReadInv'
    OBVIOUS
<1>0. /\ pc \in [Procs -> PCs] /\ pk \in [Procs -> PickerIds \cup {None}]
      /\ current \in PickerIds \cup {None} /\ disk \in Snapshots /\ promised \in Snapshots
      /\ floor \in [Procs -> Snapshots] /\ seen \in [PickerIds -> [Files -> Versions \cup {Unseen}]]
      /\ calls \in 0 .. MaxRefreshes /\ life \in [PickerIds -> Lives] /\ PointersOK
      BY DEF TypeOK
<1> USE <1>0, NumberIsNotNone DEF ReadInv, Scanning, shared, local, history
<1>1. ASSUME NEW f \in Files, Edit(f) PROVE ReadInv'
  <2>1. \A g \in Files : disk[g] <= disk'[g]
        BY <1>1, BoundsAssumption DEF Edit
  <2>2. UNCHANGED <<seen, pk, pc, current, promised, floor>>
        BY <1>1 DEF Edit
  <2>3. disk' \in [Files -> Int]
        BY <1>1, BoundsAssumption DEF Edit
  <2>4. ASSUME NEW p \in Procs, pc[p] \in Scanning, NEW g \in Files, seen[pk[p]][g] # Unseen
        PROVE  seen[pk[p]][g] <= disk'[g]
    <3>1. pk[p] \in PickerIds
          BY <2>4 DEF PointersOK
    <3>2. seen[pk[p]][g] \in Int /\ disk[g] \in Int /\ disk'[g] \in Int
          BY <2>3, <3>1, BoundsAssumption
    <3>3. seen[pk[p]][g] <= disk[g]
          BY <2>4 DEF ReadInv
    <3> QED BY <2>1, <3>2, <3>3
  <2> QED BY <2>2, <2>4
<1>2. ASSUME NEW p \in Procs, Cancel(p) PROVE ReadInv'
      BY <1>2 DEF Cancel
<1>3. ASSUME NEW p \in Procs, OpenCall(p) PROVE ReadInv'
      BY <1>3 DEF OpenCall, Call
<1>4. ASSUME NEW p \in Procs, SearchCall(p) PROVE ReadInv'
      BY <1>4 DEF SearchCall, Call
<1>5. ASSUME NEW p \in Procs, RefreshCall(p) PROVE ReadInv'
      BY <1>5 DEF RefreshCall, Call
<1>6. ASSUME NEW p \in Procs, CloseCall(p) PROVE ReadInv'
      BY <1>6 DEF CloseCall, Call
<1>7. ASSUME NEW p \in Procs, OpenRoot(p) PROVE ReadInv'
      BY <1>7 DEF OpenRoot
<1>8. ASSUME NEW p \in Procs, RefreshCtx(p) PROVE ReadInv'
  <2>1. UNCHANGED <<seen, pk, current, promised, floor, disk>>
        BY <1>8 DEF RefreshCtx, RefreshEnd
  <2>2. \A q \in Procs : pc'[q] \in Scanning => pc[q] \in Scanning
        BY <1>8 DEF RefreshCtx, RefreshEnd
  <2> QED BY <2>1, <2>2
<1>9. ASSUME NEW p \in Procs, RefreshLock(p) PROVE ReadInv'
      BY <1>9 DEF RefreshLock
<1>10. ASSUME NEW p \in Procs, RefreshReadClosed(p) PROVE ReadInv'
  <2>1. UNCHANGED <<seen, pk, current, promised, floor, disk>>
        BY <1>10 DEF RefreshReadClosed, RefreshEnd
  <2>2. \A q \in Procs : q # p => pc'[q] = pc[q]
        BY <1>10 DEF RefreshReadClosed, RefreshEnd
  <2>3. \A f \in Files : seen[pk[p]][f] = Unseen
        BY <1>10, BoundsAssumption DEF RefreshReadClosed, OwnerInv, OwnedInv, Owns, Before, UnreadInv
  <2> QED BY <2>1, <2>2, <2>3
<1>11. ASSUME NEW p \in Procs, RefreshWalk(p) PROVE ReadInv'
  <2>1. /\ pk[p] \in PickerIds /\ pc[p] \in Locked
        /\ UNCHANGED <<pc, pk, current, promised, floor, disk>>
        BY <1>11 DEF RefreshWalk, PointersOK, Locked
  <2>2. PICK f \in Files : /\ seen[pk[p]][f] = Unseen
                           /\ seen' = [seen EXCEPT ![pk[p]][f] = disk[f]]
        BY <1>11 DEF RefreshWalk
  <2>3. current # None => current # pk[p] /\ seen'[current] = seen[current]
        BY <1>11, <2>1, <2>2 DEF RefreshWalk, OwnerInv, OwnedInv, Owns
  <2>4. current # None => NotOlder(seen[current], disk)
        BY DEF ContentInv
  <2>5. ASSUME NEW q \in Procs, pc[q] \in Scanning, NEW g \in Files, seen'[pk[q]][g] # Unseen
        PROVE  /\ seen'[pk[q]][g] <= disk[g]
               /\ floor[q][g] <= seen'[pk[q]][g]
               /\ promised[g] <= seen'[pk[q]][g]
               /\ current # None => seen'[current][g] <= seen'[pk[q]][g]
    <3>1. q = p
          BY <2>1, <2>5, OneLocked DEF Locked
    <3>2. CASE g = f
          BY <2>1, <2>2, <2>3, <2>4, <3>1, <3>2 DEF PromiseInv, NotOlder
    <3>3. CASE g # f
          BY <2>1, <2>2, <2>3, <2>5, <3>1, <3>3
    <3> QED BY <3>2, <3>3
  <2> QED BY <2>1, <2>5
<1>12. ASSUME NEW p \in Procs, RefreshWalked(p) PROVE ReadInv'
      BY <1>12 DEF RefreshWalked
<1>13. ASSUME NEW p \in Procs, RefreshScanFails(p) PROVE ReadInv'
      BY <1>13 DEF RefreshScanFails
<1>14. ASSUME NEW p \in Procs, RefreshFail(p) PROVE ReadInv'
      BY <1>14 DEF RefreshFail, RefreshEnd, FailReason, Newest, OpInv
<1>15. ASSUME NEW p \in Procs, RefreshSwap(p) PROVE ReadInv'
  <2>1. pc[p] \in Locked /\ UNCHANGED <<seen, promised, floor, disk>>
        BY <1>15 DEF RefreshSwap, Locked
  <2>2. \A q \in Procs : pc'[q] \in Scanning => q = p
        BY <1>15, <2>1, OneLocked DEF RefreshSwap, Locked
  <2>3. pc'[p] \in Scanning => UNCHANGED <<pk, current>>
        BY <1>15 DEF RefreshSwap
  <2>4. pc[p] \in Scanning
        BY <1>15 DEF RefreshSwap
  <2> QED BY <2>1, <2>2, <2>3, <2>4
<1>16. ASSUME NEW p \in Procs, RefreshCloseOld(p) PROVE ReadInv'
  <2>1. pc[p] \in Locked
        BY <1>16 DEF RefreshCloseOld, Locked
  <2>2. \A q \in Procs : pc'[q] \notin Scanning
        BY <1>16, <2>1, OneLocked DEF RefreshCloseOld, RefreshEnd, Locked
  <2> QED BY <2>2
<1>17. ASSUME NEW p \in Procs, SearchSnapshot(p) PROVE ReadInv'
  <2>1. \A q \in Procs : pc'[q] \in Scanning => q # p /\ pc[q] = pc'[q] /\ pk'[q] = pk[q]
        BY <1>17 DEF SearchSnapshot, SearchEnd
  <2>2. UNCHANGED <<seen, disk, floor, promised, current>>
        BY <1>17 DEF SearchSnapshot
  <2> QED BY <2>1, <2>2
<1>18. ASSUME NEW p \in Procs, SearchPicker(p) PROVE ReadInv'
      BY <1>18 DEF SearchPicker, SearchEnd
<1>19. ASSUME NEW p \in Procs, SearchMap(p) PROVE ReadInv'
      BY <1>19 DEF SearchMap, SearchEnd
<1>20. ASSUME NEW p \in Procs, CloseMark(p) PROVE ReadInv'
      BY <1>20 DEF CloseMark, CloseEnd
<1>21. ASSUME NEW p \in Procs, ClosePicker(p) PROVE ReadInv'
      BY <1>21 DEF ClosePicker, CloseEnd
<1>22. CASE UNCHANGED vars
      BY <1>22 DEF vars
<1> QED
    BY <1>1, <1>2, <1>3, <1>4, <1>5, <1>6, <1>7, <1>8, <1>9, <1>10, <1>11, <1>12, <1>13,
       <1>14, <1>15, <1>16, <1>17, <1>18, <1>19, <1>20, <1>21, <1>22
    DEF Next, Start, Step, Refresh, Search, Close

\* What is about to be published is whole.
LEMMA StepDone == TypeOK /\ LockInv /\ OpInv /\ HandleInv /\ OwnerInv /\ PromiseInv /\ ContentInv /\ ReadInv /\ DoneInv /\ [Next]_vars => DoneInv'
<1> SUFFICES ASSUME TypeOK, LockInv, OpInv, HandleInv, OwnerInv, PromiseInv, ContentInv, ReadInv, DoneInv, [Next]_vars PROVE DoneInv'
    OBVIOUS
<1>0. /\ pc \in [Procs -> PCs] /\ pk \in [Procs -> PickerIds \cup {None}]
      /\ current \in PickerIds \cup {None} /\ disk \in Snapshots /\ promised \in Snapshots
      /\ floor \in [Procs -> Snapshots] /\ seen \in [PickerIds -> [Files -> Versions \cup {Unseen}]]
      /\ calls \in 0 .. MaxRefreshes /\ life \in [PickerIds -> Lives] /\ PointersOK
      BY DEF TypeOK
<1> USE <1>0, NumberIsNotNone DEF DoneInv, NotOlder, shared, local, history
<1>1. ASSUME NEW f \in Files, Edit(f) PROVE DoneInv'
      BY <1>1 DEF Edit
<1>2. ASSUME NEW p \in Procs, Cancel(p) PROVE DoneInv'
      BY <1>2 DEF Cancel
<1>3. ASSUME NEW p \in Procs, OpenCall(p) PROVE DoneInv'
      BY <1>3 DEF OpenCall, Call
<1>4. ASSUME NEW p \in Procs, SearchCall(p) PROVE DoneInv'
      BY <1>4 DEF SearchCall, Call
<1>5. ASSUME NEW p \in Procs, RefreshCall(p) PROVE DoneInv'
      BY <1>5 DEF RefreshCall, Call
<1>6. ASSUME NEW p \in Procs, CloseCall(p) PROVE DoneInv'
      BY <1>6 DEF CloseCall, Call
<1>7. ASSUME NEW p \in Procs, OpenRoot(p) PROVE DoneInv'
      BY <1>7 DEF OpenRoot
<1>8. ASSUME NEW p \in Procs, RefreshCtx(p) PROVE DoneInv'
      BY <1>8 DEF RefreshCtx, RefreshEnd
<1>9. ASSUME NEW p \in Procs, RefreshLock(p) PROVE DoneInv'
      BY <1>9 DEF RefreshLock
<1>10. ASSUME NEW p \in Procs, RefreshReadClosed(p) PROVE DoneInv'
      BY <1>10 DEF RefreshReadClosed, RefreshEnd
<1>11. ASSUME NEW p \in Procs, RefreshWalk(p) PROVE DoneInv'
  <2>1. pc[p] = "r_walk" /\ UNCHANGED <<pc, pk, current, floor>>
        BY <1>11 DEF RefreshWalk
  <2>0. \A q \in Procs : pc[q] \in {"r_walk", "r_swap"} => Owns(q)
        BY DEF Owns, Scanning
  <2>2. \A k \in PickerIds : k # pk[p] => seen'[k] = seen[k]
        BY <1>11, <2>1 DEF RefreshWalk
  <2>3. ASSUME NEW q \in Procs, pc'[q] = "r_swap" PROVE seen'[pk'[q]] \in Snapshots
    <3>1. pc[q] = "r_swap" /\ q # p
          BY <2>1, <2>3
    <3>2. Owns(p) /\ Owns(q)
          BY <2>0, <2>1, <3>1
    <3>3. pk[q] # pk[p]
          BY <3>1, <3>2 DEF OwnerInv, UniqueInv
    <3>4. pk[q] \in PickerIds
          BY <3>1 DEF PointersOK
    <3> QED BY <2>1, <2>2, <3>1, <3>3, <3>4
  <2>4. ASSUME NEW q \in Procs, pc'[q] = "r_closeold", current' # None
        PROVE  NotOlder(floor'[q], seen'[current'])
    <3>1. current # pk[p] /\ current \in PickerIds
          BY <2>1, <2>4, <2>0 DEF OwnerInv, OwnedInv
    <3> QED BY <2>1, <2>2, <2>4, <3>1
  <2> QED BY <2>3, <2>4
<1>12. ASSUME NEW p \in Procs, RefreshWalked(p) PROVE DoneInv'
  <2>1. pk[p] \in PickerIds /\ \A f \in Files : seen[pk[p]][f] # Unseen
        BY <1>12 DEF RefreshWalked, PointersOK
  <2>2. seen[pk[p]] \in Snapshots
        BY <2>1
  <2> QED BY <1>12, <2>2 DEF RefreshWalked
<1>13. ASSUME NEW p \in Procs, RefreshScanFails(p) PROVE DoneInv'
      BY <1>13 DEF RefreshScanFails
<1>14. ASSUME NEW p \in Procs, RefreshFail(p) PROVE DoneInv'
      BY <1>14 DEF RefreshFail, RefreshEnd, FailReason
<1>15. ASSUME NEW p \in Procs, RefreshSwap(p) PROVE DoneInv'
  <2>1. pc[p] \in Locked /\ UNCHANGED <<seen, floor>>
        BY <1>15 DEF RefreshSwap, Locked, Scanning
  <2>2. \A q \in Procs : pc'[q] \in {"r_swap", "r_closeold"} => q = p
        BY <1>15, <2>1, OneLocked DEF RefreshSwap, Locked, Scanning
  <2>3. NotOlder(floor[p], seen[pk[p]])
        BY <1>15 DEF RefreshSwap, ReadInv, Scanning, DoneInv
  <2> QED BY <1>15, <2>1, <2>2, <2>3 DEF RefreshSwap
<1>16. ASSUME NEW p \in Procs, RefreshCloseOld(p) PROVE DoneInv'
      BY <1>16 DEF RefreshCloseOld, RefreshEnd
<1>17. ASSUME NEW p \in Procs, SearchSnapshot(p) PROVE DoneInv'
      BY <1>17 DEF SearchSnapshot, SearchEnd, SnapshotError
<1>18. ASSUME NEW p \in Procs, SearchPicker(p) PROVE DoneInv'
      BY <1>18 DEF SearchPicker, SearchEnd
<1>19. ASSUME NEW p \in Procs, SearchMap(p) PROVE DoneInv'
      BY <1>19 DEF SearchMap, SearchEnd
<1>20. ASSUME NEW p \in Procs, CloseMark(p) PROVE DoneInv'
      BY <1>20 DEF CloseMark, CloseEnd
<1>21. ASSUME NEW p \in Procs, ClosePicker(p) PROVE DoneInv'
      BY <1>21 DEF ClosePicker, CloseEnd
<1>22. CASE UNCHANGED vars
      BY <1>22 DEF vars
<1> QED
    BY <1>1, <1>2, <1>3, <1>4, <1>5, <1>6, <1>7, <1>8, <1>9, <1>10, <1>11, <1>12, <1>13,
       <1>14, <1>15, <1>16, <1>17, <1>18, <1>19, <1>20, <1>21, <1>22
    DEF Next, Start, Step, Refresh, Search, Close

\* A search is promised what refreshes that returned have promised.
LEMMA StepTake == TypeOK /\ OpInv /\ TakeInv /\ [Next]_vars => TakeInv'
<1> SUFFICES ASSUME TypeOK, OpInv, TakeInv, [Next]_vars PROVE TakeInv'
    OBVIOUS
<1>0. /\ pc \in [Procs -> PCs] /\ pk \in [Procs -> PickerIds \cup {None}]
      /\ current \in PickerIds \cup {None} /\ disk \in Snapshots /\ promised \in Snapshots
      /\ floor \in [Procs -> Snapshots] /\ seen \in [PickerIds -> [Files -> Versions \cup {Unseen}]]
      /\ life \in [PickerIds -> Lives] /\ PointersOK
      BY DEF TypeOK
<1> USE <1>0, BoundsAssumption DEF TakeInv, NotOlder, shared, local, history
<1>1. ASSUME NEW f \in Files, Edit(f) PROVE TakeInv'
      BY <1>1 DEF Edit
<1>2. ASSUME NEW p \in Procs, Cancel(p) PROVE TakeInv'
      BY <1>2 DEF Cancel
<1>3. ASSUME NEW p \in Procs, OpenCall(p) PROVE TakeInv'
      BY <1>3 DEF OpenCall, Call
<1>4. ASSUME NEW p \in Procs, SearchCall(p) PROVE TakeInv'
      BY <1>4 DEF SearchCall, Call
<1>5. ASSUME NEW p \in Procs, RefreshCall(p) PROVE TakeInv'
      BY <1>5 DEF RefreshCall, Call
<1>6. ASSUME NEW p \in Procs, CloseCall(p) PROVE TakeInv'
      BY <1>6 DEF CloseCall, Call
<1>7. ASSUME NEW p \in Procs, OpenRoot(p) PROVE TakeInv'
      BY <1>7 DEF OpenRoot
<1>8. ASSUME NEW p \in Procs, RefreshCtx(p) PROVE TakeInv'
      BY <1>8 DEF RefreshCtx, RefreshEnd, Newest
<1>9. ASSUME NEW p \in Procs, RefreshLock(p) PROVE TakeInv'
      BY <1>9 DEF RefreshLock
<1>10. ASSUME NEW p \in Procs, RefreshReadClosed(p) PROVE TakeInv'
      BY <1>10 DEF RefreshReadClosed, RefreshEnd, Newest
<1>11. ASSUME NEW p \in Procs, RefreshWalk(p) PROVE TakeInv'
      BY <1>11 DEF RefreshWalk
<1>12. ASSUME NEW p \in Procs, RefreshWalked(p) PROVE TakeInv'
      BY <1>12 DEF RefreshWalked
<1>13. ASSUME NEW p \in Procs, RefreshScanFails(p) PROVE TakeInv'
      BY <1>13 DEF RefreshScanFails
<1>14. ASSUME NEW p \in Procs, RefreshFail(p) PROVE TakeInv'
      BY <1>14 DEF RefreshFail, RefreshEnd, FailReason, Newest, OpInv
<1>15. ASSUME NEW p \in Procs, RefreshSwap(p) PROVE TakeInv'
      BY <1>15 DEF RefreshSwap
<1>16. ASSUME NEW p \in Procs, RefreshCloseOld(p) PROVE TakeInv'
      BY <1>16 DEF RefreshCloseOld, RefreshEnd, Newest
<1>17. ASSUME NEW p \in Procs, SearchSnapshot(p) PROVE TakeInv'
      BY <1>17 DEF SearchSnapshot, SearchEnd, SnapshotError
<1>18. ASSUME NEW p \in Procs, SearchPicker(p) PROVE TakeInv'
      BY <1>18 DEF SearchPicker, SearchEnd
<1>19. ASSUME NEW p \in Procs, SearchMap(p) PROVE TakeInv'
      BY <1>19 DEF SearchMap, SearchEnd
<1>20. ASSUME NEW p \in Procs, CloseMark(p) PROVE TakeInv'
      BY <1>20 DEF CloseMark, CloseEnd
<1>21. ASSUME NEW p \in Procs, ClosePicker(p) PROVE TakeInv'
      BY <1>21 DEF ClosePicker, CloseEnd
<1>22. CASE UNCHANGED vars
      BY <1>22 DEF vars
<1> QED
    BY <1>1, <1>2, <1>3, <1>4, <1>5, <1>6, <1>7, <1>8, <1>9, <1>10, <1>11, <1>12, <1>13,
       <1>14, <1>15, <1>16, <1>17, <1>18, <1>19, <1>20, <1>21, <1>22
    DEF Next, Start, Step, Refresh, Search, Close

\* A search holds a whole snapshot that keeps the promise.
LEMMA StepHold == TypeOK /\ HandleInv /\ OwnerInv /\ ContentInv /\ TakeInv /\ HoldInv /\ [Next]_vars => HoldInv'
<1> SUFFICES ASSUME TypeOK, HandleInv, OwnerInv, ContentInv, TakeInv, HoldInv, [Next]_vars PROVE HoldInv'
    OBVIOUS
<1>0. /\ pc \in [Procs -> PCs] /\ pk \in [Procs -> PickerIds \cup {None}]
      /\ current \in PickerIds \cup {None} /\ disk \in Snapshots /\ promised \in Snapshots
      /\ floor \in [Procs -> Snapshots] /\ seen \in [PickerIds -> [Files -> Versions \cup {Unseen}]]
      /\ life \in [PickerIds -> Lives] /\ PointersOK
      BY DEF TypeOK
<1> USE <1>0, NumberIsNotNone, BoundsAssumption DEF HoldInv, NotOlder, shared, local, history
<1>1. ASSUME NEW f \in Files, Edit(f) PROVE HoldInv'
      BY <1>1 DEF Edit
<1>2. ASSUME NEW p \in Procs, Cancel(p) PROVE HoldInv'
      BY <1>2 DEF Cancel
<1>3. ASSUME NEW p \in Procs, OpenCall(p) PROVE HoldInv'
      BY <1>3 DEF OpenCall, Call
<1>4. ASSUME NEW p \in Procs, SearchCall(p) PROVE HoldInv'
      BY <1>4 DEF SearchCall, Call
<1>5. ASSUME NEW p \in Procs, RefreshCall(p) PROVE HoldInv'
      BY <1>5 DEF RefreshCall, Call
<1>6. ASSUME NEW p \in Procs, CloseCall(p) PROVE HoldInv'
      BY <1>6 DEF CloseCall, Call
<1>7. ASSUME NEW p \in Procs, OpenRoot(p) PROVE HoldInv'
      BY <1>7 DEF OpenRoot
<1>8. ASSUME NEW p \in Procs, RefreshCtx(p) PROVE HoldInv'
  <2>1. \A q \in Procs : pc'[q] \in {"s_picker", "s_map"} => pc[q] = pc'[q]
        BY <1>8 DEF RefreshCtx, RefreshEnd
  <2>2. UNCHANGED <<life, seen, pk, floor>>
        BY <1>8 DEF RefreshCtx
  <2> QED BY <2>1, <2>2
<1>9. ASSUME NEW p \in Procs, RefreshLock(p) PROVE HoldInv'
      BY <1>9 DEF RefreshLock
<1>10. ASSUME NEW p \in Procs, RefreshReadClosed(p) PROVE HoldInv'
  <2>1. \A q \in Procs : pc'[q] \in {"s_picker", "s_map"} => pc[q] \in {"s_picker", "s_map"}
        BY <1>10 DEF RefreshReadClosed, RefreshEnd
  <2>2. \A k \in PickerIds : life[k] # "unborn" => life'[k] # "unborn"
        BY <1>10 DEF RefreshReadClosed
  <2> QED BY <1>10, <2>1, <2>2 DEF RefreshReadClosed, PointersOK
<1>11. ASSUME NEW p \in Procs, RefreshWalk(p) PROVE HoldInv'
      BY <1>11 DEF RefreshWalk
<1>12. ASSUME NEW p \in Procs, RefreshWalked(p) PROVE HoldInv'
      BY <1>12 DEF RefreshWalked
<1>13. ASSUME NEW p \in Procs, RefreshScanFails(p) PROVE HoldInv'
      BY <1>13 DEF RefreshScanFails
<1>14. ASSUME NEW p \in Procs, RefreshFail(p) PROVE HoldInv'
      BY <1>14 DEF RefreshFail, RefreshEnd, FailReason, PickerClose
<1>15. ASSUME NEW p \in Procs, RefreshSwap(p) PROVE HoldInv'
      BY <1>15 DEF RefreshSwap
<1>16. ASSUME NEW p \in Procs, RefreshCloseOld(p) PROVE HoldInv'
  <2>1. \A q \in Procs : pc'[q] \in {"s_picker", "s_map"} => pc[q] \in {"s_picker", "s_map"}
        BY <1>16 DEF RefreshCloseOld, RefreshEnd
  <2>2. \A k \in PickerIds : life[k] # "unborn" => life'[k] # "unborn"
        BY <1>16 DEF RefreshCloseOld, PickerClose
  <2> QED BY <1>16, <2>1, <2>2 DEF RefreshCloseOld, PointersOK
<1>17. ASSUME NEW p \in Procs, SearchSnapshot(p) PROVE HoldInv'
  <2>1. CASE cancelled[p] \/ SnapshotError # "ok"
        BY <1>17, <2>1 DEF SearchSnapshot, SearchEnd
  <2>2. CASE ~(cancelled[p] \/ SnapshotError # "ok")
    <3>1. /\ pc' = [pc EXCEPT ![p] = "s_picker"] /\ pk' = [pk EXCEPT ![p] = current]
          /\ UNCHANGED <<seen, life, floor>>
          BY <1>17, <2>2 DEF SearchSnapshot
    <3>2. current # None
          BY <2>2 DEF SnapshotError
    <3>3. /\ life[current] # "unborn" /\ seen[current] \in Snapshots
          /\ NotOlder(promised, seen[current])
          BY <3>2 DEF OwnerInv, PublishedInv, ContentInv, NotOlder
    <3>4. NotOlder(floor[p], seen[current])
          BY <1>17, <3>2, <3>3 DEF SearchSnapshot, TakeInv
    <3> QED BY <3>1, <3>3, <3>4
  <2> QED BY <2>1, <2>2
<1>18. ASSUME NEW p \in Procs, SearchPicker(p) PROVE HoldInv'
      BY <1>18 DEF SearchPicker, SearchEnd
<1>19. ASSUME NEW p \in Procs, SearchMap(p) PROVE HoldInv'
      BY <1>19 DEF SearchMap, SearchEnd
<1>20. ASSUME NEW p \in Procs, CloseMark(p) PROVE HoldInv'
      BY <1>20 DEF CloseMark, CloseEnd
<1>21. ASSUME NEW p \in Procs, ClosePicker(p) PROVE HoldInv'
      BY <1>21 DEF ClosePicker, CloseEnd, PickerClose
<1>22. CASE UNCHANGED vars
      BY <1>22 DEF vars
<1> QED
    BY <1>1, <1>2, <1>3, <1>4, <1>5, <1>6, <1>7, <1>8, <1>9, <1>10, <1>11, <1>12, <1>13,
       <1>14, <1>15, <1>16, <1>17, <1>18, <1>19, <1>20, <1>21, <1>22
    DEF Next, Start, Step, Refresh, Search, Close

\* A search answers from the snapshot it holds.
LEMMA StepFresh == TypeOK /\ HoldInv /\ Freshness /\ [Next]_vars => Freshness'
<1> SUFFICES ASSUME TypeOK, HoldInv, Freshness, [Next]_vars PROVE Freshness'
    OBVIOUS
<1>0. /\ pc \in [Procs -> PCs] /\ pk \in [Procs -> PickerIds \cup {None}] /\ disk \in Snapshots
      /\ got \in [Procs -> [Files -> Versions \cup {Unseen}] \cup {None}]
      /\ floor \in [Procs -> Snapshots] /\ seen \in [PickerIds -> [Files -> Versions \cup {Unseen}]]
      BY DEF TypeOK
<1> USE <1>0 DEF Freshness, NotOlder, shared, local, history
<1>1. ASSUME NEW f \in Files, Edit(f) PROVE Freshness'
      BY <1>1 DEF Edit
<1>2. ASSUME NEW p \in Procs, Cancel(p) PROVE Freshness'
      BY <1>2 DEF Cancel
<1>3. ASSUME NEW p \in Procs, OpenCall(p) PROVE Freshness'
      BY <1>3 DEF OpenCall, Call
<1>4. ASSUME NEW p \in Procs, SearchCall(p) PROVE Freshness'
      BY <1>4 DEF SearchCall, Call
<1>5. ASSUME NEW p \in Procs, RefreshCall(p) PROVE Freshness'
      BY <1>5 DEF RefreshCall, Call
<1>6. ASSUME NEW p \in Procs, CloseCall(p) PROVE Freshness'
      BY <1>6 DEF CloseCall, Call
<1>7. ASSUME NEW p \in Procs, OpenRoot(p) PROVE Freshness'
      BY <1>7 DEF OpenRoot
<1>8. ASSUME NEW p \in Procs, RefreshCtx(p) PROVE Freshness'
      BY <1>8 DEF RefreshCtx, RefreshEnd
<1>9. ASSUME NEW p \in Procs, RefreshLock(p) PROVE Freshness'
      BY <1>9 DEF RefreshLock
<1>10. ASSUME NEW p \in Procs, RefreshReadClosed(p) PROVE Freshness'
      BY <1>10 DEF RefreshReadClosed, RefreshEnd
<1>11. ASSUME NEW p \in Procs, RefreshWalk(p) PROVE Freshness'
      BY <1>11 DEF RefreshWalk
<1>12. ASSUME NEW p \in Procs, RefreshWalked(p) PROVE Freshness'
      BY <1>12 DEF RefreshWalked
<1>13. ASSUME NEW p \in Procs, RefreshScanFails(p) PROVE Freshness'
      BY <1>13 DEF RefreshScanFails
<1>14. ASSUME NEW p \in Procs, RefreshFail(p) PROVE Freshness'
      BY <1>14 DEF RefreshFail, RefreshEnd, FailReason
<1>15. ASSUME NEW p \in Procs, RefreshSwap(p) PROVE Freshness'
      BY <1>15 DEF RefreshSwap
<1>16. ASSUME NEW p \in Procs, RefreshCloseOld(p) PROVE Freshness'
      BY <1>16 DEF RefreshCloseOld, RefreshEnd
<1>17. ASSUME NEW p \in Procs, SearchSnapshot(p) PROVE Freshness'
      BY <1>17 DEF SearchSnapshot, SearchEnd, SnapshotError
<1>18. ASSUME NEW p \in Procs, SearchPicker(p) PROVE Freshness'
      BY <1>18 DEF SearchPicker, SearchEnd
<1>19. ASSUME NEW p \in Procs, SearchMap(p) PROVE Freshness'
      BY <1>19 DEF SearchMap, SearchEnd, HoldInv
<1>20. ASSUME NEW p \in Procs, CloseMark(p) PROVE Freshness'
      BY <1>20 DEF CloseMark, CloseEnd
<1>21. ASSUME NEW p \in Procs, ClosePicker(p) PROVE Freshness'
      BY <1>21 DEF ClosePicker, CloseEnd
<1>22. CASE UNCHANGED vars
      BY <1>22 DEF vars
<1> QED
    BY <1>1, <1>2, <1>3, <1>4, <1>5, <1>6, <1>7, <1>8, <1>9, <1>10, <1>11, <1>12, <1>13,
       <1>14, <1>15, <1>16, <1>17, <1>18, <1>19, <1>20, <1>21, <1>22
    DEF Next, Start, Step, Refresh, Search, Close

\* A call that came after a Close fails.
LEMMA StepLateCalls == TypeOK /\ OpInv /\ HandleInv /\ LateInv /\ LateCallsFail /\ [Next]_vars => LateCallsFail'
<1> SUFFICES ASSUME TypeOK, OpInv, HandleInv, LateInv, LateCallsFail, [Next]_vars PROVE LateCallsFail'
    OBVIOUS
<1>0. /\ pc \in [Procs -> PCs] /\ op \in [Procs -> Ops] /\ ret \in [Procs -> Errors]
      /\ late \in [Procs -> BOOLEAN] /\ closed \in BOOLEAN /\ cancelled \in [Procs -> BOOLEAN]
      /\ handle \in {"none", "private", "shared"}
      BY DEF TypeOK
<1> USE <1>0 DEF LateCallsFail, LateInv, shared, local, history
<1>1. ASSUME NEW f \in Files, Edit(f) PROVE LateCallsFail'
      BY <1>1 DEF Edit
<1>2. ASSUME NEW p \in Procs, Cancel(p) PROVE LateCallsFail'
      BY <1>2 DEF Cancel
<1>3. ASSUME NEW p \in Procs, OpenCall(p) PROVE LateCallsFail'
      BY <1>3 DEF OpenCall, Call
<1>4. ASSUME NEW p \in Procs, SearchCall(p) PROVE LateCallsFail'
      BY <1>4 DEF SearchCall, Call
<1>5. ASSUME NEW p \in Procs, RefreshCall(p) PROVE LateCallsFail'
      BY <1>5 DEF RefreshCall, Call
<1>6. ASSUME NEW p \in Procs, CloseCall(p) PROVE LateCallsFail'
      BY <1>6 DEF CloseCall, Call
<1>7. ASSUME NEW p \in Procs, OpenRoot(p) PROVE LateCallsFail'
      BY <1>7 DEF OpenRoot
<1>8. ASSUME NEW p \in Procs, RefreshCtx(p) PROVE LateCallsFail'
      BY <1>8 DEF RefreshCtx, RefreshEnd
<1>9. ASSUME NEW p \in Procs, RefreshLock(p) PROVE LateCallsFail'
      BY <1>9 DEF RefreshLock
<1>10. ASSUME NEW p \in Procs, RefreshReadClosed(p) PROVE LateCallsFail'
      BY <1>10 DEF RefreshReadClosed, RefreshEnd, HandleInv, SharedInv
<1>11. ASSUME NEW p \in Procs, RefreshWalk(p) PROVE LateCallsFail'
      BY <1>11 DEF RefreshWalk
<1>12. ASSUME NEW p \in Procs, RefreshWalked(p) PROVE LateCallsFail'
      BY <1>12 DEF RefreshWalked
<1>13. ASSUME NEW p \in Procs, RefreshScanFails(p) PROVE LateCallsFail'
      BY <1>13 DEF RefreshScanFails
<1>14. ASSUME NEW p \in Procs, RefreshFail(p) PROVE LateCallsFail'
      BY <1>14 DEF RefreshFail, RefreshEnd, FailReason
<1>15. ASSUME NEW p \in Procs, RefreshSwap(p) PROVE LateCallsFail'
      BY <1>15 DEF RefreshSwap
<1>16. ASSUME NEW p \in Procs, RefreshCloseOld(p) PROVE LateCallsFail'
      BY <1>16 DEF RefreshCloseOld, RefreshEnd
<1>17. ASSUME NEW p \in Procs, SearchSnapshot(p) PROVE LateCallsFail'
      BY <1>17 DEF SearchSnapshot, SearchEnd, SnapshotError, HandleInv, SharedInv
<1>18. ASSUME NEW p \in Procs, SearchPicker(p) PROVE LateCallsFail'
      BY <1>18 DEF SearchPicker, SearchEnd
<1>19. ASSUME NEW p \in Procs, SearchMap(p) PROVE LateCallsFail'
      BY <1>19 DEF SearchMap, SearchEnd
<1>20. ASSUME NEW p \in Procs, CloseMark(p) PROVE LateCallsFail'
      BY <1>20 DEF CloseMark, CloseEnd, OpInv, Closing
<1>21. ASSUME NEW p \in Procs, ClosePicker(p) PROVE LateCallsFail'
      BY <1>21 DEF ClosePicker, CloseEnd
<1>22. CASE UNCHANGED vars
      BY <1>22 DEF vars
<1> QED
    BY <1>1, <1>2, <1>3, <1>4, <1>5, <1>6, <1>7, <1>8, <1>9, <1>10, <1>11, <1>12, <1>13,
       <1>14, <1>15, <1>16, <1>17, <1>18, <1>19, <1>20, <1>21, <1>22
    DEF Next, Start, Step, Refresh, Search, Close

\* No search finds an open index without a snapshot.
LEMMA StepGap == TypeOK /\ OpInv /\ HandleInv /\ NoSnapshotGap /\ [Next]_vars => NoSnapshotGap'
<1> SUFFICES ASSUME TypeOK, OpInv, HandleInv, NoSnapshotGap, [Next]_vars PROVE NoSnapshotGap'
    OBVIOUS
<1>0. /\ pc \in [Procs -> PCs] /\ op \in [Procs -> Ops] /\ ret \in [Procs -> Errors]
      /\ late \in [Procs -> BOOLEAN] /\ closed \in BOOLEAN /\ cancelled \in [Procs -> BOOLEAN]
      /\ handle \in {"none", "private", "shared"}
      BY DEF TypeOK
<1> USE <1>0 DEF NoSnapshotGap, shared, local, history
<1>1. ASSUME NEW f \in Files, Edit(f) PROVE NoSnapshotGap'
      BY <1>1 DEF Edit
<1>2. ASSUME NEW p \in Procs, Cancel(p) PROVE NoSnapshotGap'
      BY <1>2 DEF Cancel
<1>3. ASSUME NEW p \in Procs, OpenCall(p) PROVE NoSnapshotGap'
      BY <1>3 DEF OpenCall, Call
<1>4. ASSUME NEW p \in Procs, SearchCall(p) PROVE NoSnapshotGap'
      BY <1>4 DEF SearchCall, Call
<1>5. ASSUME NEW p \in Procs, RefreshCall(p) PROVE NoSnapshotGap'
      BY <1>5 DEF RefreshCall, Call
<1>6. ASSUME NEW p \in Procs, CloseCall(p) PROVE NoSnapshotGap'
      BY <1>6 DEF CloseCall, Call
<1>7. ASSUME NEW p \in Procs, OpenRoot(p) PROVE NoSnapshotGap'
      BY <1>7 DEF OpenRoot
<1>8. ASSUME NEW p \in Procs, RefreshCtx(p) PROVE NoSnapshotGap'
      BY <1>8 DEF RefreshCtx, RefreshEnd
<1>9. ASSUME NEW p \in Procs, RefreshLock(p) PROVE NoSnapshotGap'
      BY <1>9 DEF RefreshLock
<1>10. ASSUME NEW p \in Procs, RefreshReadClosed(p) PROVE NoSnapshotGap'
      BY <1>10 DEF RefreshReadClosed, RefreshEnd
<1>11. ASSUME NEW p \in Procs, RefreshWalk(p) PROVE NoSnapshotGap'
      BY <1>11 DEF RefreshWalk
<1>12. ASSUME NEW p \in Procs, RefreshWalked(p) PROVE NoSnapshotGap'
      BY <1>12 DEF RefreshWalked
<1>13. ASSUME NEW p \in Procs, RefreshScanFails(p) PROVE NoSnapshotGap'
      BY <1>13 DEF RefreshScanFails
<1>14. ASSUME NEW p \in Procs, RefreshFail(p) PROVE NoSnapshotGap'
      BY <1>14 DEF RefreshFail, RefreshEnd, FailReason, OpInv
<1>15. ASSUME NEW p \in Procs, RefreshSwap(p) PROVE NoSnapshotGap'
      BY <1>15 DEF RefreshSwap
<1>16. ASSUME NEW p \in Procs, RefreshCloseOld(p) PROVE NoSnapshotGap'
      BY <1>16 DEF RefreshCloseOld, RefreshEnd
<1>17. ASSUME NEW p \in Procs, SearchSnapshot(p) PROVE NoSnapshotGap'
      BY <1>17 DEF SearchSnapshot, SearchEnd, SnapshotError, HandleInv, SharedInv, PrivateInv, Searching
<1>18. ASSUME NEW p \in Procs, SearchPicker(p) PROVE NoSnapshotGap'
      BY <1>18 DEF SearchPicker, SearchEnd
<1>19. ASSUME NEW p \in Procs, SearchMap(p) PROVE NoSnapshotGap'
      BY <1>19 DEF SearchMap, SearchEnd
<1>20. ASSUME NEW p \in Procs, CloseMark(p) PROVE NoSnapshotGap'
      BY <1>20 DEF CloseMark, CloseEnd
<1>21. ASSUME NEW p \in Procs, ClosePicker(p) PROVE NoSnapshotGap'
      BY <1>21 DEF ClosePicker, CloseEnd
<1>22. CASE UNCHANGED vars
      BY <1>22 DEF vars
<1> QED
    BY <1>1, <1>2, <1>3, <1>4, <1>5, <1>6, <1>7, <1>8, <1>9, <1>10, <1>11, <1>12, <1>13,
       <1>14, <1>15, <1>16, <1>17, <1>18, <1>19, <1>20, <1>21, <1>22
    DEF Next, Start, Step, Refresh, Search, Close

\* The inductive invariant holds at first.
LEMMA InitInd == Init => IndInv
<1> SUFFICES ASSUME Init PROVE IndInv
    OBVIOUS
<1>1. LockInv /\ OpInv /\ HandleInv
      BY NoneAssumption
      DEF Init, LockInv, Locked, Scanning, OpInv, RefreshPCs, Searching, Closing, HandleInv
<1>2. OwnerInv
      BY DEF Init, OwnerInv, OwnedInv, UniqueInv, PublishedInv, LifeInv, Owns, Before, Scanning
<1>3. ScanInv
      BY DEF Init, ScanInv, PromiseInv, ContentInv, UnreadInv, ReadInv, DoneInv, NotOlder, Scanning
<1>4. SearchInv /\ LateInv /\ LateCallsFail /\ NoSnapshotGap /\ Freshness
      BY DEF Init, SearchInv, TakeInv, HoldInv, LateInv, LateCallsFail, NoSnapshotGap, Freshness
<1> QED BY <1>1, <1>2, <1>3, <1>4 DEF IndInv

\* Every step keeps it.
LEMMA StepInd == TypeOK /\ IndInv /\ [Next]_vars => IndInv'
<1> SUFFICES ASSUME TypeOK, IndInv, [Next]_vars PROVE IndInv'
    OBVIOUS
<1>0. /\ LockInv /\ OpInv /\ HandleInv /\ OwnerInv /\ ScanInv /\ SearchInv
      /\ LateInv /\ LateCallsFail /\ NoSnapshotGap /\ Freshness
      BY DEF IndInv
<1>1. LockInv' /\ OpInv' /\ HandleInv' /\ OwnerInv'
      BY <1>0, StepLock, StepOp, StepHandle, StepOwner
<1>2. ScanInv'
      BY <1>0, StepPromise, StepContent, StepUnread, StepRead, StepDone DEF ScanInv
<1>3. SearchInv'
      BY <1>0, StepTake, StepHold DEF SearchInv, ScanInv
<1>4. LateInv' /\ LateCallsFail' /\ NoSnapshotGap' /\ Freshness'
      BY <1>0, StepLate, StepLateCalls, StepGap, StepFresh DEF SearchInv
<1> QED BY <1>1, <1>2, <1>3, <1>4 DEF IndInv

\* The inductive invariant holds in every reachable state.
THEOREM Inductive == Spec => [](TypeOK /\ IndInv)
<1>1. Init => TypeOK /\ IndInv
      BY InitType, InitInd
<1>2. TypeOK /\ IndInv /\ [Next]_vars => TypeOK' /\ IndInv'
      BY StepType, StepInd
<1> QED BY <1>1, <1>2, PTL DEF Spec

\* Searches never answer from a snapshot older than a refresh that returned
\* before they began.
THEOREM FreshnessHolds == Spec => []Freshness
<1>1. IndInv => Freshness
      BY DEF IndInv
<1> QED BY <1>1, Inductive, PTL

\* A call that begins after a Close has returned only reports the closed index
\* or its own context.
THEOREM LateCallsHold == Spec => []LateCallsFail
<1>1. IndInv => LateCallsFail
      BY DEF IndInv
<1> QED BY <1>1, Inductive, PTL

\* No search finds an open index without a snapshot.
THEOREM NoSnapshotGapHolds == Spec => []NoSnapshotGap
<1>1. IndInv => NoSnapshotGap
      BY DEF IndInv
<1> QED BY <1>1, Inductive, PTL

\* No refresh publishes into a closed index.
THEOREM NoResurrectionHolds == Spec => []NoResurrection
<1>1. TypeOK /\ IndInv => NoResurrection
  <2> SUFFICES ASSUME TypeOK, IndInv, closed PROVE current = None
      BY DEF NoResurrection
  <2>1. handle \in {"none", "private", "shared"}
        BY DEF TypeOK
  <2>2. CASE handle = "private"
    <3>1. PICK p \in Procs : pc[p] # "idle"
          BY <2>2 DEF IndInv, HandleInv, PrivateInv
    <3>2. pc[p] \in PCs /\ PrivateInv
          BY <2>2 DEF TypeOK, IndInv, HandleInv
    <3> QED BY <3>1, <3>2 DEF PrivateInv, PCs, RefreshPCs, Before, Scanning, Searching
  <2> QED BY <2>1, <2>2 DEF IndInv, HandleInv, SharedInv
<1> QED BY <1>1, Inductive, PTL

\* Every picker is closed at most once, and the published one is open.
THEOREM LifecycleHolds == Spec => []PickerLifecycle
<1>1. IndInv => PickerLifecycle
      BY DEF IndInv, OwnerInv, PublishedInv, LifeInv, PickerLifecycle
<1> QED BY <1>1, Inductive, PTL

\* No picker is left open behind the calls' backs.
THEOREM NoLeakHolds == Spec => []NoLeak
<1>1. TypeOK /\ IndInv => NoLeak
  <2> SUFFICES ASSUME TypeOK, IndInv, \A p \in Procs : pc[p] = "idle",
                      NEW k \in PickerIds, life[k] = "open"
               PROVE  k = current /\ handle = "shared"
      BY DEF NoLeak
  <2>1. \A p \in Procs : ~Owns(p)
        BY DEF Owns, Before, Scanning
  <2>2. k = current
        BY <2>1 DEF IndInv, OwnerInv, LifeInv
  <2>3. handle = "shared"
        BY <2>2, NumberIsNotNone DEF TypeOK, IndInv, HandleInv, PrivateInv
  <2> QED BY <2>2, <2>3
<1> QED BY <1>1, Inductive, PTL

\* The states of the register that a step leaves alone.
Same == UNCHANGED <<disk, closed>> /\ Content' = Content /\ Answer' = Answer

\* A step that changes no answer and no snapshot in use is a stutter.
LEMMA Stutter ==
  ASSUME TypeOK, ContentInv, HoldInv, UNCHANGED <<disk, closed, current, pk, got>>,
         \A q \in Procs : pc'[q] \in {"s_picker", "s_map"} <=> pc[q] \in {"s_picker", "s_map"},
         UNCHANGED seen
  PROVE  Same
BY DEF Same, Content, Answer

\* A goroutine that does not search, before or after, has no answer but what
\* its last call returned.
LEMMA Forgets ==
  ASSUME TypeOK, NEW p \in Procs, got' = [got EXCEPT ![p] = None], UNCHANGED seen,
         pc'[p] \notin {"s_picker", "s_map"},
         \A q \in Procs : q # p => pc'[q] = pc[q] /\ pk'[q] = pk[q]
  PROVE  Answer' = [Answer EXCEPT ![p] = None]
BY DEF Answer, TypeOK

\* Every step of the index is a step of the register or leaves it alone.
LEMMA StepImplements == TypeOK /\ IndInv /\ [Next]_vars => [Abs!Next]_Abs!vars
<1> SUFFICES ASSUME TypeOK, IndInv, [Next]_vars
             PROVE  Abs!Next \/ Same
    BY DEF Abs!vars, Same
<1>0. /\ pc \in [Procs -> PCs] /\ pk \in [Procs -> PickerIds \cup {None}] /\ PointersOK
      /\ current \in PickerIds \cup {None} /\ ContentInv /\ HoldInv
      /\ got \in [Procs -> [Files -> Versions \cup {Unseen}] \cup {None}]
      BY DEF TypeOK, IndInv, ScanInv, SearchInv
<1> USE <1>0 DEF shared, local, history
<1>1. ASSUME NEW p \in Procs, Cancel(p) PROVE Same
      BY <1>1, Stutter DEF Cancel
<1>2. ASSUME NEW p \in Procs, RefreshLock(p) PROVE Same
      BY <1>2, Stutter DEF RefreshLock
<1>3. ASSUME NEW p \in Procs, RefreshWalked(p) PROVE Same
      BY <1>3, Stutter DEF RefreshWalked
<1>4. ASSUME NEW p \in Procs, RefreshScanFails(p) PROVE Same
      BY <1>4, Stutter DEF RefreshScanFails
<1>5. ASSUME NEW p \in Procs, OpenRoot(p) PROVE Same
      BY <1>5, Stutter DEF OpenRoot
<1>6. ASSUME NEW p \in Procs, RefreshCtx(p) PROVE Same
      BY <1>6, Stutter DEF RefreshCtx, RefreshEnd
<1>7. ASSUME NEW p \in Procs, RefreshReadClosed(p) PROVE Same
      BY <1>7, Stutter DEF RefreshReadClosed, RefreshEnd
<1>8. ASSUME NEW p \in Procs, RefreshFail(p) PROVE Same
      BY <1>8, Stutter DEF RefreshFail, RefreshEnd, FailReason
<1>9. ASSUME NEW p \in Procs, ClosePicker(p) PROVE Same
      BY <1>9, Stutter DEF ClosePicker, CloseEnd
<1>10. ASSUME NEW p \in Procs, RefreshCloseOld(p) PROVE Same
      BY <1>10, Stutter DEF RefreshCloseOld, RefreshEnd
<1>11. ASSUME NEW p \in Procs, RefreshWalk(p) PROVE Same
  <2>1. PICK f \in Files : /\ seen[pk[p]][f] = Unseen
                           /\ seen' = [seen EXCEPT ![pk[p]][f] = disk[f]]
        BY <1>11 DEF RefreshWalk
  <2>2. pk[p] \in PickerIds /\ UNCHANGED <<disk, closed, current, pk, got, pc>>
        BY <1>11 DEF RefreshWalk, PointersOK
  <2>3. seen[pk[p]] \notin Snapshots
        BY <2>1, BoundsAssumption
  <2>4. current # None => seen'[current] = seen[current]
        BY <2>1, <2>2, <2>3 DEF ContentInv
  <2>5. \A q \in Procs : pc[q] \in {"s_picker", "s_map"} => seen'[pk[q]] = seen[pk[q]]
        BY <2>1, <2>2, <2>3 DEF HoldInv, PointersOK
  <2> QED BY <2>2, <2>4, <2>5 DEF Same, Content, Answer
<1>12. ASSUME NEW f \in Files, Edit(f) PROVE Abs!Edit
      BY <1>12 DEF Edit, Abs!Edit, Content, Answer
<1>13. ASSUME NEW p \in Procs, OpenCall(p) PROVE Abs!Drop(p) \/ Abs!Reopen(p)
  <2>1. current = None /\ UNCHANGED <<disk, seen>> /\ current' = None /\ closed' = FALSE
        BY <1>13 DEF OpenCall, IndInv, HandleInv
  <2>2. Answer' = [Answer EXCEPT ![p] = None]
        BY <1>13, <2>1, Forgets DEF OpenCall, Call
  <2> QED BY <2>1, <2>2 DEF Abs!Drop, Abs!Reopen, Content, TypeOK
<1>14. ASSUME NEW p \in Procs, SearchCall(p) PROVE Abs!Drop(p)
      BY <1>14, Forgets DEF SearchCall, Call, Abs!Drop, Content
<1>15. ASSUME NEW p \in Procs, RefreshCall(p) PROVE Abs!Drop(p)
      BY <1>15, Forgets DEF RefreshCall, Call, Abs!Drop, Content
<1>16. ASSUME NEW p \in Procs, CloseCall(p) PROVE Abs!Drop(p)
      BY <1>16, Forgets DEF CloseCall, Call, Abs!Drop, Content
<1>17. ASSUME NEW p \in Procs, RefreshSwap(p) PROVE Abs!Publish \/ Same
  <2>1. CASE closed
        BY <1>17, <2>1, Stutter DEF RefreshSwap
  <2>2. CASE ~closed
    <3>1. /\ pc[p] = "r_swap" /\ pk[p] \in PickerIds /\ current' = pk[p]
          /\ UNCHANGED <<disk, closed, seen, got>>
          BY <1>17, <2>2 DEF RefreshSwap, PointersOK
    <3>2. Content' = seen[pk[p]]
          BY <3>1, NumberIsNotNone DEF Content
    <3>3. seen[pk[p]] \in Snapshots
          BY <3>1 DEF IndInv, ScanInv, DoneInv
    <3>4. /\ NotOlder(seen[pk[p]], disk)
          /\ current # None => NotOlder(seen[current], seen[pk[p]])
          BY <3>1, <3>3, BoundsAssumption DEF IndInv, ScanInv, ReadInv, Scanning, NotOlder
    <3>5. Answer' = Answer
          BY <1>17, <2>2, <3>1 DEF RefreshSwap, Answer
    <3> QED BY <2>2, <3>1, <3>2, <3>3, <3>4, <3>5
            DEF Abs!Publish, Abs!Snapshots, Abs!NotOlder, NotOlder, Content
  <2> QED BY <2>1, <2>2
<1>18. ASSUME NEW p \in Procs, SearchSnapshot(p) PROVE Abs!Take(p) \/ Abs!Drop(p)
  <2>1. UNCHANGED <<disk, closed, current, seen>>
        BY <1>18 DEF SearchSnapshot
  <2>2. CASE cancelled[p] \/ SnapshotError # "ok"
        BY <1>18, <2>1, <2>2, Forgets DEF SearchSnapshot, SearchEnd, Abs!Drop, Content
  <2>3. CASE ~(cancelled[p] \/ SnapshotError # "ok")
    <3>1. /\ pk' = [pk EXCEPT ![p] = current] /\ pc' = [pc EXCEPT ![p] = "s_picker"]
          /\ UNCHANGED got
          BY <1>18, <2>3 DEF SearchSnapshot
    <3>2. ~closed /\ current # None
          BY <2>3 DEF SnapshotError, TypeOK
    <3>3. Content = seen[current] /\ Content # None
          BY <3>2, NoneAssumption, BoundsAssumption DEF Content, ContentInv
    <3>4. Answer' = [Answer EXCEPT ![p] = Content]
          BY <2>1, <3>1, <3>3 DEF Answer
    <3> QED BY <2>1, <3>2, <3>3, <3>4 DEF Abs!Take, Content
  <2> QED BY <2>2, <2>3
<1>19. ASSUME NEW p \in Procs, SearchPicker(p) PROVE Abs!Drop(p) \/ Same
  <2>1. CASE pc' = [pc EXCEPT ![p] = "s_map"] /\ UNCHANGED got
        BY <1>19, <2>1, Stutter DEF SearchPicker
  <2>2. CASE SearchEnd(p, IF cancelled[p] THEN "ctx" ELSE "picker", None)
        BY <1>19, <2>2, Forgets DEF SearchPicker, SearchEnd, Abs!Drop, Content
  <2> QED BY <1>19, <2>1, <2>2 DEF SearchPicker
<1>20. ASSUME NEW p \in Procs, SearchMap(p) PROVE Abs!Drop(p) \/ Same
  <2>1. CASE cancelled[p]
        BY <1>20, <2>1, Forgets DEF SearchMap, SearchEnd, Abs!Drop, Content
  <2>2. CASE ~cancelled[p]
    <3>1. /\ got' = [got EXCEPT ![p] = seen[pk[p]]] /\ UNCHANGED <<disk, closed, current, seen, pk>>
          /\ pc[p] = "s_map" /\ pc'[p] \notin {"s_picker", "s_map"}
          /\ \A q \in Procs : q # p => pc'[q] = pc[q]
          BY <1>20, <2>2 DEF SearchMap, SearchEnd
    <3> QED BY <3>1 DEF Same, Content, Answer
  <2> QED BY <2>1, <2>2
<1>21. ASSUME NEW p \in Procs, CloseMark(p) PROVE Abs!Shut \/ Same
  <2>1. UNCHANGED <<disk, seen, got>> /\ closed' = TRUE
        BY <1>21 DEF CloseMark
  <2>2. Answer' = Answer
        BY <1>21, <2>1 DEF CloseMark, CloseEnd, Answer
  <2>3. CASE closed
    <3>1. current' = current
          BY <1>21, <2>3 DEF CloseMark
    <3> QED BY <2>1, <2>2, <2>3, <3>1 DEF Same, Content
  <2>4. CASE ~closed
    <3>1. current' = None
          BY <1>21, <2>4 DEF CloseMark
    <3> QED BY <2>1, <2>2, <2>4, <3>1 DEF Abs!Shut, Content
  <2> QED BY <2>3, <2>4
<1>22. CASE UNCHANGED vars
      BY <1>22 DEF vars, Same, Content, Answer
<1> QED
    BY <1>1, <1>2, <1>3, <1>4, <1>5, <1>6, <1>7, <1>8, <1>9, <1>10, <1>11, <1>12, <1>13,
       <1>14, <1>15, <1>16, <1>17, <1>18, <1>19, <1>20, <1>21, <1>22
    DEF Next, Start, Step, Refresh, Search, Close, Abs!Next

\* The index implements the register.
THEOREM IndexImplementsSpec == Spec => Implements
<1>1. Init => Abs!Init
      BY DEF Init, Abs!Init, Content, Answer
<1>2. TypeOK /\ IndInv /\ [Next]_vars => [Abs!Next]_Abs!vars
      BY StepImplements
<1> QED BY <1>1, <1>2, Inductive, PTL DEF Spec, Implements, Abs!Spec
==============================================================================
