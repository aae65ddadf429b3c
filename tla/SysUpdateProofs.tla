-------------------------- MODULE SysUpdateProofs --------------------------
(***************************************************************************)
(* Proofs about SysUpdate, for any set of versions, any environment and    *)
(* any number of faults, edits and foreign writes.                         *)
(***************************************************************************)
EXTENDS SysUpdate, TLAPS

-----------------------------------------------------------------------------
(* The operators the steps are built from preserve types.                  *)

\* A merge patch of well-typed objects is a well-typed object.
LEMMA MergePatchType ==
  ASSUME NEW s \in Object, NEW b \in Object, NEW o \in Object
  PROVE  MergePatch(s, b, o) \in Object
<1> DEFINE sent       == o.cond # b.cond \/ o.others # b.others
           os         == IF o.os # b.os THEN o.os ELSE s.os
           retry      == IF o.retry # b.retry THEN o.retry ELSE s.retry
           inProgress == IF o.inProgress # b.inProgress THEN o.inProgress
                                                        ELSE s.inProgress
           installed  == IF o.installed # b.installed THEN o.installed
                                                      ELSE s.installed
           cond       == IF sent THEN o.cond ELSE s.cond
           others     == IF sent THEN o.others ELSE s.others
<1>1. /\ os \in Version /\ retry \in Int /\ installed \in Version
      /\ cond \in UpdateReason /\ others \in Nat
  BY DEF Object
<1>2. inProgress \in BOOLEAN
  BY DEF Object
<1>3. MergePatch(s, b, o) =
        [s EXCEPT !.os = os, !.retry = retry, !.inProgress = inProgress,
                  !.installed = installed, !.cond = cond, !.others = others]
  BY Zenon DEF MergePatch, Object
<1> HIDE DEF os, retry, inProgress, installed, cond, others
<1> QED
  BY <1>1, <1>2, <1>3, Zenon DEF Object

\* What Reconcile makes of the result of ReconcileSysUpdate is well typed.
LEMMA AfterSysUpdateType ==
  ASSUME NEW o \in Object, NEW isRunning \in BOOLEAN, NEW err \in BOOLEAN
  PROVE  AfterSysUpdate(o, isRunning, err) \in Object
<1> USE DEF AfterSysUpdate, Object, UpdateReason
<1>1. CASE err = TRUE
  <2>1. o.retry - 1 \in Int
    OBVIOUS
  <2> DEFINE less == o.retry - 1
             after == [o EXCEPT !.retry = less, !.cond = "Stopped",
                                !.inProgress = isRunning]
  <2>2. AfterSysUpdate(o, isRunning, err) = after
    BY <1>1
  <2>3. less \in Int
    BY <2>1
  <2> HIDE DEF less
  <2>4. after \in Object
    BY <2>3
  <2> QED
    BY <2>2, <2>4
<1>2. CASE err = FALSE
  <2>1. CASE isRunning = TRUE
    BY <1>2, <2>1
  <2>2. CASE isRunning = FALSE
    BY <1>2, <2>2
  <2> QED
    BY <2>1, <2>2
<1> QED
  BY <1>1, <1>2

\* The API server stores well-typed objects.
LEMMA PublishType ==
  ASSUME TypeOK, NEW h \in Object, Publish(h)
  PROVE  hv' \in Object /\ undelivered' \subseteq Object
  BY DEF Publish, TypeOK, Object

\* The zero value is an object.
LEMMA ZeroObjectType == ZeroObject \in Object
  BY DEF ZeroObject, Object, Version, UpdateReason

\* Returning from Reconcile leaves well-typed locals.
LEMMA ReturnType ==
  ASSUME Return
  PROVE  /\ pc' = "idle" /\ obj' \in Object /\ base' \in Object
         /\ seen' \in SeenState
  BY ZeroObjectType DEF Return, SeenState, UnitState

\* Counting a fault keeps the counter within its bound.
LEMMA FaultType ==
  ASSUME TypeOK, Fault
  PROVE  faults' \in 0..MaxFaults
  BY ConstantsAssumption DEF TypeOK, Fault

\* A status patch, accepted or refused, leaves well-typed objects.
LEMMA StatusPatchType ==
  ASSUME TypeOK, StatusPatch
  PROVE  hv' \in Object /\ undelivered' \subseteq Object
<1>1. CASE Publish(MergePatch(hv, base, obj))
  <2>1. MergePatch(hv, base, obj) \in Object
    BY MergePatchType DEF TypeOK
  <2> QED
    BY <1>1, <2>1, PublishType
<1>2. CASE UNCHANGED <<hv, undelivered>>
  BY <1>2 DEF TypeOK
<1> QED
  BY <1>1, <1>2 DEF StatusPatch

\* The part of a ReconcileSysUpdate step that the outcomes have in common.
LEMMA SysUpdateReturnsType ==
  ASSUME TypeOK, NEW isRunning \in BOOLEAN, NEW err \in BOOLEAN,
         SysUpdateReturns(isRunning, err)
  PROVE  obj' \in Object
  BY AfterSysUpdateType DEF SysUpdateReturns, TypeOK

-----------------------------------------------------------------------------
(* Type correctness.                                                       *)

\* The initial state is well typed.
LEMMA InitType == Init => TypeOK
<1> SUFFICES ASSUME Init PROVE TypeOK
  OBVIOUS
<1>1. hv \in Object
  <2>1. PICK r \in {0, RetryLimit} : hv = [ZeroObject EXCEPT !.rv = 1, !.retry = r]
    BY DEF Init
  <2>2. r \in Int /\ 1 \in Nat
    BY DEF RetryLimit
  <2> QED
    BY <2>1, <2>2, ZeroObjectType DEF Object
<1>2. "inactive" \in UnitState /\ "inactive" \in SeenState
  BY DEF UnitState, SeenState
<1>3. seen \in SeenState
  BY <1>2 DEF Init
<1>4. faults \in 0..MaxFaults /\ edits \in 0..MaxEdits
  BY ConstantsAssumption DEF Init
<1>5. unit \in [Versions -> UnitState] /\ disk \in SUBSET Versions
  BY <1>2 DEF Init
<1> QED
  BY <1>1, <1>3, <1>4, <1>5, ZeroObjectType DEF Init, TypeOK

\* A step of Reconcile preserves the types.
LEMMA ReconcileType == TypeOK /\ Reconcile => TypeOK'
<1> SUFFICES ASSUME TypeOK, Reconcile PROVE TypeOK'
  OBVIOUS
<1> USE DEF store, host, agent
<1>1. CASE Get
  <2>1. FillOS(cache) \in Object
    BY DEF TypeOK, FillOS, Object, Version
  <2>2. faults' \in 0..MaxFaults
    BY <1>1, FaultType DEF Get, TypeOK
  <2> QED
    BY <1>1, <2>1, <2>2 DEF Get, TypeOK
<1>2. CASE EarlyReturn
  BY <1>2, ReturnType, FaultType DEF EarlyReturn, TypeOK
<1>3. CASE SkipUpdate
  BY <1>3 DEF SkipUpdate, TypeOK
<1>4. CASE RetryLimitReached
  BY <1>4 DEF RetryLimitReached, TypeOK, Object, RetryLimit
<1>5. CASE GetUnitByName
  <2>1. obj.version \in Versions
    BY <1>5 DEF GetUnitByName, TypeOK, WantsUpdate, Object, Version
  <2>2. unit[obj.version] \in UnitState
    BY <2>1 DEF TypeOK
  <2>3. seen' \in SeenState
    BY <1>5, <2>2 DEF GetUnitByName, ActiveState, UnitState, SeenState
  <2> QED
    BY <1>5, <2>3 DEF GetUnitByName, TypeOK
<1>6. CASE GetUnitFails
  BY <1>6, FaultType, SysUpdateReturnsType DEF GetUnitFails, SysUpdateReturns, TypeOK
<1>7. CASE UpdateIsRunning
  <2>1. (seen = "active") \in BOOLEAN
    OBVIOUS
  <2>2. obj' \in Object
    BY <1>7, <2>1, SysUpdateReturnsType DEF UpdateIsRunning
  <2> QED
    BY <1>7, <2>2 DEF UpdateIsRunning, SysUpdateReturns, TypeOK
<1>8. CASE UpdateHasFailed
  BY <1>8, SysUpdateReturnsType DEF UpdateHasFailed, SysUpdateReturns, TypeOK
<1>9. CASE UpdateHasFinished
  <2>1. rebooting' \in BOOLEAN
    BY <1>9 DEF UpdateHasFinished
  <2> QED
    BY <1>9, <2>1, SysUpdateReturnsType DEF UpdateHasFinished, SysUpdateReturns, TypeOK
<1>10. CASE UpdateAlreadyRunning
  BY <1>10, SysUpdateReturnsType DEF UpdateAlreadyRunning, SysUpdateReturns, TypeOK
<1>11. CASE StartUpdate
  <2>1. unit' \in [Versions -> UnitState]
    BY <1>11 DEF StartUpdate, TypeOK, StartedStates, UnitState
  <2> QED
    BY <1>11, <2>1, SysUpdateReturnsType DEF StartUpdate, SysUpdateReturns, TypeOK
<1>12. CASE StartUnitFails
  BY <1>12, FaultType, SysUpdateReturnsType DEF StartUnitFails, SysUpdateReturns, TypeOK
<1>13. CASE PatchRetryReset
  <2>1. hv' \in Object /\ undelivered' \subseteq Object
    BY <1>13, StatusPatchType DEF PatchRetryReset
  <2>2. [hv' EXCEPT !.version = None] \in Object
    BY <2>1 DEF Object, Version
  <2> QED
    BY <1>13, <2>1, <2>2, ReturnType DEF PatchRetryReset, TypeOK
<1>14. CASE PatchUnsetVersion
  BY <1>14, StatusPatchType, ReturnType DEF PatchUnsetVersion, TypeOK
<1>15. CASE PatchStatus
  BY <1>15, StatusPatchType, ReturnType DEF PatchStatus, TypeOK
<1>16. CASE PatchNotSent
  BY <1>16, ReturnType, FaultType DEF PatchNotSent, TypeOK
<1> QED
  BY <1>1, <1>2, <1>3, <1>4, <1>5, <1>6, <1>7, <1>8, <1>9, <1>10, <1>11,
     <1>12, <1>13, <1>14, <1>15, <1>16 DEF Reconcile

\* A step of the environment preserves the types.
LEMMA EnvironmentType == TypeOK /\ Environment => TypeOK'
<1> SUFFICES ASSUME TypeOK, Environment PROVE TypeOK'
  OBVIOUS
<1> USE DEF store, host, agent
<1>1. CASE EditSpec
  <2>1. PICK v \in Version, r \in BOOLEAN :
          Publish([hv EXCEPT !.version = v, !.reboot = r])
    BY <1>1 DEF EditSpec
  <2>2. [hv EXCEPT !.version = v, !.reboot = r] \in Object
    BY DEF TypeOK, Object
  <2>3. hv' \in Object /\ undelivered' \subseteq Object
    BY <2>1, <2>2, PublishType
  <2>4. edits' \in 0..MaxEdits
    BY <1>1, ConstantsAssumption DEF EditSpec, TypeOK
  <2> QED
    BY <1>1, <2>3, <2>4 DEF EditSpec, TypeOK
<1>2. CASE OtherWriter
  <2>1. [hv EXCEPT !.others = @ + 1] \in Object
    BY DEF TypeOK, Object
  <2>2. hv' \in Object /\ undelivered' \subseteq Object
    BY <1>2, <2>1, PublishType DEF OtherWriter
  <2> QED
    BY <1>2, <2>2 DEF OtherWriter, TypeOK
<1>3. CASE CacheSync
  BY <1>3 DEF CacheSync, TypeOK
<1>4. CASE Crash
  BY <1>4, ReturnType, FaultType DEF Crash, TypeOK
<1>5. ASSUME NEW v \in Versions, UnitStarts(v)
      PROVE  TypeOK'
  <2>1. unit' \in [Versions -> UnitState]
    BY <1>5 DEF UnitStarts, TypeOK, StartedStates, UnitState
  <2> QED
    BY <1>5, <2>1 DEF UnitStarts, TypeOK
<1>6. ASSUME NEW v \in Versions, UnitSucceeds(v)
      PROVE  TypeOK'
  BY <1>6 DEF UnitSucceeds, TypeOK, UnitState
<1>7. ASSUME NEW v \in Versions, UnitFails(v)
      PROVE  TypeOK'
  BY <1>7, FaultType DEF UnitFails, TypeOK, UnitState
<1>8. ASSUME Boot, faults' \in 0..MaxFaults
      PROVE  TypeOK'
  <2>1. unit' \in [Versions -> UnitState]
    BY <1>8 DEF Boot, UnitState
  <2> QED
    BY <1>8, <2>1, ReturnType DEF Boot, TypeOK
<1>9. CASE RequestedReboot
  BY <1>8, <1>9 DEF RequestedReboot, TypeOK
<1>10. CASE HostReboot
  BY <1>8, <1>10, FaultType DEF HostReboot
<1> QED
  BY <1>1, <1>2, <1>3, <1>4, <1>5, <1>6, <1>7, <1>9, <1>10 DEF Environment

\* Every variable keeps its type, in every behaviour of agent and environment.
THEOREM TypeCorrect == Spec => []TypeOK
<1>1. TypeOK /\ [Next]_vars => TypeOK'
  <2>1. TypeOK /\ UNCHANGED vars => TypeOK'
    BY DEF TypeOK, vars, store, agent, host
  <2> QED
    BY <2>1, ReconcileType, EnvironmentType DEF Next
<1> QED
  BY <1>1, InitType, PTL DEF Spec

-----------------------------------------------------------------------------
(* The optimistic lock.                                                    *)

\* Publishing a new version keeps every known copy behind it.
LEMMA PublishLock ==
  ASSUME TypeOK, LockSound, NEW h \in Object, Publish(h),
         cache' = cache, base' \in {base, ZeroObject}
  PROVE  LockSound'
<1>1. ZeroObject.rv = 0
  BY DEF ZeroObject
<1>2. CASE h = hv /\ UNCHANGED <<hv, undelivered>>
  BY <1>1, <1>2 DEF LockSound, KnownVersions, TypeOK, Object
<1>3. CASE /\ hv' = [h EXCEPT !.rv = hv.rv + 1]
           /\ undelivered' = undelivered \cup {hv'}
  <2>1. hv.rv \in Nat /\ hv'.rv = hv.rv + 1
    BY <1>3 DEF TypeOK, Object
  <2>2. ASSUME NEW s \in KnownVersions'
        PROVE  s = hv' \/ s.rv <= hv.rv
    BY <1>1, <1>3, <2>1 DEF LockSound, KnownVersions
  <2>3. ASSUME NEW s \in KnownVersions'
        PROVE  s = hv' \/ (s \in Object /\ s.rv \in Nat)
    BY <1>3, ZeroObjectType DEF KnownVersions, TypeOK, Object
  <2>4. ASSUME NEW s \in KnownVersions'
        PROVE  s.rv <= hv'.rv /\ (s.rv = hv'.rv => s = hv')
    BY <2>1, <2>2, <2>3 DEF LockSound
  <2> QED
    BY <2>1, <2>4 DEF LockSound
<1> QED
  BY <1>2, <1>3 DEF Publish

\* Copying the cache, or forgetting a copy, keeps the lock sound.
LEMMA CopyLock ==
  ASSUME TypeOK, LockSound, hv' = hv,
         cache' \in undelivered \cup {cache}, undelivered' \subseteq undelivered,
         base' \in {base, cache, ZeroObject}
  PROVE  LockSound'
<1>1. ZeroObject.rv = 0
  BY DEF ZeroObject
<1>2. hv.rv \in Nat
  BY DEF TypeOK, Object
<1> QED
  BY <1>1, <1>2 DEF LockSound, KnownVersions

\* An accepted patch turns the object into what Reconcile has computed.
LEMMA MergeAccepted ==
  ASSUME TypeOK, LockSound, Locked
  PROVE  MergePatch(hv, base, obj) =
           [hv EXCEPT !.os = obj.os, !.retry = obj.retry,
                      !.inProgress = obj.inProgress,
                      !.installed = obj.installed,
                      !.cond = obj.cond, !.others = obj.others]
<1>1. base = hv
  BY DEF LockSound, Locked, KnownVersions
<1> QED
  BY <1>1 DEF MergePatch, TypeOK, Object

-----------------------------------------------------------------------------
(* The status.                                                             *)

\* A published object with a good status is good wherever it ends up.
LEMMA PublishStatus ==
  ASSUME TypeOK, StatusInv, NEW h \in Object, GoodStatus(h), Publish(h)
  PROVE  GoodStatus(hv') /\ \A s \in undelivered' : GoodStatus(s)
<1>1. CASE UNCHANGED <<hv, undelivered>>
  BY <1>1 DEF StatusInv, KnownVersions
<1>2. CASE /\ hv' = [h EXCEPT !.rv = hv.rv + 1]
           /\ undelivered' = undelivered \cup {hv'}
  <2>1. GoodStatus(hv')
    BY <1>2 DEF GoodStatus, Object
  <2> QED
    BY <1>2, <2>1 DEF StatusInv, KnownVersions
<1> QED
  BY <1>1, <1>2 DEF Publish

\* A status patch, accepted or refused, leaves a good status and takes back no
\* condition of another writer.
LEMMA StatusPatchSafe ==
  ASSUME TypeOK, SafetyInv, StatusPatch
  PROVE  /\ GoodStatus(hv') /\ \A s \in undelivered' : GoodStatus(s)
         /\ hv'.others >= hv.others
         /\ Locked => hv'.others = obj.others
         /\ Locked => hv'.version = hv.version
<1> DEFINE h == MergePatch(hv, base, obj)
<1>1. CASE Locked /\ Publish(h)
  <2>1. h = [hv EXCEPT !.os = obj.os, !.retry = obj.retry,
                       !.inProgress = obj.inProgress,
                       !.installed = obj.installed,
                       !.cond = obj.cond, !.others = obj.others]
    BY <1>1, MergeAccepted DEF SafetyInv
  <2>2. h \in Object
    BY MergePatchType DEF TypeOK
  <2>3. base = hv
    BY <1>1 DEF SafetyInv, LockSound, Locked, KnownVersions
  <2>4. GoodStatus(h)
    BY <2>1 DEF SafetyInv, StatusInv, GoodStatus, TypeOK, Object
  <2>5. h.others = obj.others /\ h.version = hv.version
    BY <2>1 DEF TypeOK, Object
  <2>6. hv'.others = h.others /\ hv'.version = h.version
    <3> HIDE DEF h
    <3> QED
      BY <1>1, <2>2 DEF Publish, Object
  <2>7. obj.others >= hv.others
    BY <2>3 DEF SafetyInv, StatusInv
  <2> HIDE DEF h
  <2> QED
    BY <1>1, <2>2, <2>4, <2>5, <2>6, <2>7, PublishStatus DEF SafetyInv
<1>2. CASE ~Locked /\ UNCHANGED <<hv, undelivered>>
  BY <1>2 DEF SafetyInv, StatusInv, KnownVersions, TypeOK, Object
<1> QED
  BY <1>1, <1>2 DEF StatusPatch

\* ReconcileSysUpdate never reports a running update together with an error;
\* then what Reconcile makes of its result is a good status again.
LEMMA AfterSysUpdateStatus ==
  ASSUME NEW o \in Object, GoodStatus(o), o.retry # 0, o.version # None,
         NEW isRunning \in BOOLEAN, NEW err \in BOOLEAN, ~(isRunning /\ err)
  PROVE  /\ GoodStatus(AfterSysUpdate(o, isRunning, err))
         /\ AfterSysUpdate(o, isRunning, err).others = o.others
         /\ AfterSysUpdate(o, isRunning, err).version = o.version
<1>1. CASE err = TRUE /\ isRunning = FALSE
  <2> DEFINE less == o.retry - 1
  <2>1. AfterSysUpdate(o, isRunning, err) =
          [o EXCEPT !.retry = less, !.cond = "Stopped", !.inProgress = FALSE]
    BY <1>1 DEF AfterSysUpdate, Object
  <2>2. less \in 0..RetryLimit
    BY DEF GoodStatus, RetryLimit
  <2> HIDE DEF less
  <2> QED
    BY <2>1, <2>2 DEF GoodStatus, Object
<1>2. CASE err = FALSE /\ isRunning = FALSE
  <2>1. AfterSysUpdate(o, isRunning, err) =
          [o EXCEPT !.cond = "Completed", !.installed = o.version,
                    !.inProgress = FALSE]
    BY <1>2 DEF AfterSysUpdate, Object
  <2> QED
    BY <2>1 DEF GoodStatus, Object
<1>3. CASE err = FALSE /\ isRunning = TRUE
  <2>1. AfterSysUpdate(o, isRunning, err) =
          [o EXCEPT !.cond = "Running", !.inProgress = TRUE]
    BY <1>3 DEF AfterSysUpdate, Object, GoodStatus
  <2> QED
    BY <2>1 DEF GoodStatus, Object
<1> QED
  BY <1>1, <1>2, <1>3

\* The zero value has a good status.
LEMMA ZeroObjectStatus ==
  GoodStatus(ZeroObject) /\ ZeroObject.others = 0 /\ ZeroObject.version = None
  BY DEF ZeroObject, GoodStatus, RetryLimit

\* Initially the lock is sound and the status good.
LEMMA InitSafety == Init => SafetyInv
<1> SUFFICES ASSUME Init PROVE SafetyInv
  OBVIOUS
<1>1. PICK r \in {0, RetryLimit} : hv = [ZeroObject EXCEPT !.rv = 1, !.retry = r]
  BY DEF Init
<1>2. hv.rv = 1 /\ GoodStatus(hv)
  BY <1>1 DEF ZeroObject, GoodStatus, RetryLimit
<1>3. ZeroObject.rv = 0
  BY DEF ZeroObject
<1>4. LockSound
  BY <1>2, <1>3 DEF Init, LockSound, KnownVersions
<1>5. StatusInv
  BY <1>2, ZeroObjectStatus DEF Init, StatusInv, KnownVersions
<1> QED
  BY <1>4, <1>5 DEF SafetyInv

\* Returning from Reconcile after the store has changed well.
LEMMA ReturnSafety ==
  ASSUME StatusInv, Return, cache' = cache, GoodStatus(hv'),
         \A s \in undelivered' : GoodStatus(s)
  PROVE  StatusInv'
  BY ZeroObjectStatus DEF Return, StatusInv, KnownVersions

\* The step in which ReconcileSysUpdate returns.
LEMMA SysUpdateReturnsSafety ==
  ASSUME TypeOK, SafetyInv, obj.retry # 0, obj.version # None,
         NEW isRunning \in BOOLEAN, NEW err \in BOOLEAN, ~(isRunning /\ err),
         SysUpdateReturns(isRunning, err)
  PROVE  SafetyInv'
<1>1. hv' = hv /\ cache' = cache /\ undelivered' = undelivered /\ base' = base
  BY DEF SysUpdateReturns, store
<1>2. GoodStatus(obj') /\ obj'.others = obj.others
  BY AfterSysUpdateStatus DEF SysUpdateReturns, SafetyInv, StatusInv, TypeOK
<1>3. LockSound'
  BY <1>1, CopyLock DEF SafetyInv
<1>4. StatusInv'
  BY <1>1, <1>2 DEF SysUpdateReturns, SafetyInv, StatusInv, KnownVersions
<1> QED
  BY <1>3, <1>4 DEF SafetyInv

\* Steps that only leave Reconcile.
LEMMA LeaveSafety ==
  ASSUME TypeOK, SafetyInv, Return, UNCHANGED store
  PROVE  SafetyInv'
<1>1. hv' = hv /\ cache' = cache /\ undelivered' = undelivered
  BY DEF store
<1>2. LockSound'
  BY <1>1, CopyLock DEF Return, SafetyInv
<1>3. StatusInv'
  BY <1>1, ReturnSafety DEF SafetyInv, StatusInv, KnownVersions
<1> QED
  BY <1>2, <1>3 DEF SafetyInv

\* A step that sends a patch and then leaves Reconcile.
LEMMA PatchAndLeaveSafety ==
  ASSUME TypeOK, SafetyInv, StatusPatch, Return, cache' = cache
  PROVE  SafetyInv'
<1>1. LockSound'
  <2>1. MergePatch(hv, base, obj) \in Object
    BY MergePatchType DEF TypeOK
  <2>2. CASE Publish(MergePatch(hv, base, obj))
    BY <2>1, <2>2, PublishLock DEF Return, SafetyInv
  <2>3. CASE UNCHANGED <<hv, undelivered>>
    BY <2>3, CopyLock DEF Return, SafetyInv
  <2> QED
    BY <2>2, <2>3 DEF StatusPatch
<1>2. StatusInv'
  BY StatusPatchSafe, ReturnSafety DEF SafetyInv
<1> QED
  BY <1>1, <1>2 DEF SafetyInv

\* A step of Reconcile preserves the invariant.
LEMMA ReconcileSafety == TypeOK /\ SafetyInv /\ Reconcile => SafetyInv'
<1> SUFFICES ASSUME TypeOK, SafetyInv, Reconcile PROVE SafetyInv'
  OBVIOUS
<1>1. CASE Get
  <2>1. GoodStatus(obj') /\ obj'.others = cache.others
        /\ obj'.retry = cache.retry /\ obj'.version = cache.version
    <3>1. GoodStatus(cache)
      BY DEF SafetyInv, StatusInv, KnownVersions
    <3>2. CASE obj' = cache
      BY <3>1, <3>2
    <3>3. CASE obj' = FillOS(cache)
      BY <3>1, <3>3 DEF FillOS, GoodStatus, TypeOK, Object
    <3> QED
      BY <1>1, <3>2, <3>3 DEF Get
  <2>2. LockSound'
    BY <1>1, CopyLock DEF Get, SafetyInv, store
  <2>3. cache.others \in Nat
    BY DEF TypeOK, Object
  <2>4. StatusInv'
    BY <1>1, <2>1, <2>3 DEF Get, SafetyInv, StatusInv, KnownVersions, store
  <2> QED
    BY <2>2, <2>4 DEF SafetyInv
<1>2. CASE EarlyReturn
  BY <1>2, LeaveSafety DEF EarlyReturn
<1>3. CASE SkipUpdate
  <2>1. LockSound'
    BY <1>3, CopyLock DEF SkipUpdate, SafetyInv, store
  <2>2. StatusInv'
    BY <1>3 DEF SkipUpdate, SafetyInv, StatusInv, KnownVersions, store
  <2> QED
    BY <2>1, <2>2 DEF SafetyInv
<1>4. CASE RetryLimitReached
  <2>1. LockSound'
    BY <1>4, CopyLock DEF RetryLimitReached, SafetyInv, store
  <2>2. GoodStatus(obj') /\ obj'.others = obj.others
        /\ obj'.retry = RetryLimit
    BY <1>4 DEF RetryLimitReached, SafetyInv, StatusInv, GoodStatus, TypeOK,
                Object, RetryLimit
  <2>3. obj'.retry # base.retry
    BY <1>4, <2>2 DEF RetryLimitReached, SafetyInv, StatusInv, RetryLimit
  <2>4. StatusInv'
    BY <1>4, <2>2, <2>3 DEF RetryLimitReached, SafetyInv, StatusInv,
                            KnownVersions, store
  <2> QED
    BY <2>1, <2>4 DEF SafetyInv
<1>5. CASE GetUnitByName
  <2>1. LockSound'
    BY <1>5, CopyLock DEF GetUnitByName, SafetyInv, store
  <2>2. StatusInv'
    BY <1>5 DEF GetUnitByName, WantsUpdate, SafetyInv, StatusInv, KnownVersions, store
  <2> QED
    BY <2>1, <2>2 DEF SafetyInv
<1>6. CASE GetUnitFails
  BY <1>6, SysUpdateReturnsSafety DEF GetUnitFails, WantsUpdate
<1>7. CASE UpdateIsRunning
  <2>1. (seen = "active") \in BOOLEAN
    OBVIOUS
  <2> QED
    BY <1>7, <2>1, SysUpdateReturnsSafety DEF UpdateIsRunning, SafetyInv, StatusInv
<1>8. CASE UpdateHasFailed
  BY <1>8, SysUpdateReturnsSafety DEF UpdateHasFailed, SafetyInv, StatusInv
<1>9. CASE UpdateHasFinished
  BY <1>9, SysUpdateReturnsSafety DEF UpdateHasFinished, SafetyInv, StatusInv
<1>10. CASE UpdateAlreadyRunning
  BY <1>10, SysUpdateReturnsSafety DEF UpdateAlreadyRunning, SafetyInv, StatusInv
<1>11. CASE StartUpdate
  BY <1>11, SysUpdateReturnsSafety DEF StartUpdate, SafetyInv, StatusInv
<1>12. CASE StartUnitFails
  BY <1>12, SysUpdateReturnsSafety DEF StartUnitFails, SafetyInv, StatusInv
<1>13. CASE PatchRetryReset
  <2>1. CASE ~Locked /\ Return
    BY <1>13, <2>1, PatchAndLeaveSafety DEF PatchRetryReset
  <2>2. CASE /\ Locked /\ pc' = "unset" /\ base' = base
             /\ obj' = [hv' EXCEPT !.version = None]
    <3> DEFINE h == MergePatch(hv, base, obj)
    <3>1. h \in Object /\ Publish(h)
      BY <1>13, <2>2, MergePatchType DEF PatchRetryReset, StatusPatch, TypeOK
    <3>2. base = hv /\ obj.retry # base.retry
      BY <1>13, <2>2 DEF PatchRetryReset, SafetyInv, LockSound, StatusInv,
                         Locked, KnownVersions
    <3>3. h.retry = obj.retry
      BY <2>2, MergeAccepted DEF SafetyInv, TypeOK, Object
    <3>4. hv'.rv = hv.rv + 1 /\ hv' \in Object
      <4> HIDE DEF h
      <4>1. h # hv
        BY <3>2, <3>3
      <4> QED
        BY <3>1, <4>1, PublishType DEF Publish, Object
    <3>5. LockSound'
      BY <1>13, <2>2, <3>1, PublishLock DEF PatchRetryReset, SafetyInv
    <3>6. /\ GoodStatus(hv') /\ \A s \in undelivered' : GoodStatus(s)
          /\ hv'.others = obj.others
      BY <1>13, <2>2, StatusPatchSafe DEF PatchRetryReset
    <3>7. GoodStatus(obj') /\ obj'.others = obj.others
      BY <2>2, <3>4, <3>6 DEF GoodStatus, Object
    <3>8. base.rv < hv'.rv
      BY <3>2, <3>4 DEF TypeOK, Object
    <3>9. StatusInv'
      BY <1>13, <2>2, <3>6, <3>7, <3>8
      DEF PatchRetryReset, SafetyInv, StatusInv, KnownVersions
    <3> QED
      BY <3>5, <3>9 DEF SafetyInv
  <2> QED
    BY <1>13, <2>1, <2>2 DEF PatchRetryReset
<1>14. CASE PatchUnsetVersion
  BY <1>14, PatchAndLeaveSafety DEF PatchUnsetVersion
<1>15. CASE PatchStatus
  BY <1>15, PatchAndLeaveSafety DEF PatchStatus
<1>16. CASE PatchNotSent
  BY <1>16, LeaveSafety DEF PatchNotSent
<1> QED
  BY <1>1, <1>2, <1>3, <1>4, <1>5, <1>6, <1>7, <1>8, <1>9, <1>10, <1>11,
     <1>12, <1>13, <1>14, <1>15, <1>16 DEF Reconcile

\* A write of someone else that leaves the agent's status fields alone.
LEMMA ForeignWriteSafety ==
  ASSUME TypeOK, SafetyInv, NEW h \in Object, GoodStatus(h), Publish(h),
         cache' = cache, UNCHANGED agent
  PROVE  SafetyInv'
<1>1. LockSound'
  BY PublishLock DEF SafetyInv, agent
<1>2. GoodStatus(hv') /\ \A s \in undelivered' : GoodStatus(s)
  BY PublishStatus DEF SafetyInv
<1>3. hv.rv <= hv'.rv
  BY DEF Publish, TypeOK, Object
<1>4. base.rv \in Nat /\ hv.rv \in Nat /\ hv'.rv \in Nat
  BY PublishType DEF TypeOK, Object
<1>5. pc' = "unset" => base'.rv < hv'.rv
  BY <1>3, <1>4 DEF agent, SafetyInv, StatusInv
<1>6. StatusInv'
  BY <1>2, <1>5 DEF agent, SafetyInv, StatusInv, KnownVersions
<1> QED
  BY <1>1, <1>6 DEF SafetyInv

\* A step of the environment preserves the invariant.
LEMMA EnvironmentSafety == TypeOK /\ SafetyInv /\ Environment => SafetyInv'
<1> SUFFICES ASSUME TypeOK, SafetyInv, Environment PROVE SafetyInv'
  OBVIOUS
<1>0. GoodStatus(hv)
  BY DEF SafetyInv, StatusInv, KnownVersions
<1>1. CASE EditSpec
  <2>1. PICK v \in Version, r \in BOOLEAN :
          Publish([hv EXCEPT !.version = v, !.reboot = r])
    BY <1>1 DEF EditSpec
  <2> DEFINE h == [hv EXCEPT !.version = v, !.reboot = r]
  <2>2. h \in Object /\ GoodStatus(h)
    BY <1>0 DEF TypeOK, Object, GoodStatus
  <2> HIDE DEF h
  <2> QED
    BY <1>1, <2>1, <2>2, ForeignWriteSafety DEF EditSpec, h
<1>2. CASE OtherWriter
  <2> DEFINE h == [hv EXCEPT !.others = @ + 1]
  <2>1. h \in Object /\ GoodStatus(h)
    BY <1>0 DEF TypeOK, Object, GoodStatus
  <2> HIDE DEF h
  <2> QED
    BY <1>2, <2>1, ForeignWriteSafety DEF OtherWriter, h
<1>3. CASE CacheSync
  <2>1. LockSound'
    BY <1>3, CopyLock DEF CacheSync, SafetyInv, agent
  <2>2. StatusInv'
    BY <1>3 DEF CacheSync, SafetyInv, StatusInv, KnownVersions, agent
  <2> QED
    BY <2>1, <2>2 DEF SafetyInv
<1>4. CASE Crash
  BY <1>4, LeaveSafety DEF Crash
<1>5. ASSUME UNCHANGED <<store, agent>>
      PROVE  SafetyInv'
  BY <1>5 DEF SafetyInv, LockSound, StatusInv, KnownVersions, store, agent
<1>6. ASSUME NEW v \in Versions, UnitStarts(v) \/ UnitSucceeds(v) \/ UnitFails(v)
      PROVE  SafetyInv'
  BY <1>5, <1>6 DEF UnitStarts, UnitSucceeds, UnitFails
<1>7. CASE RequestedReboot
  BY <1>7, LeaveSafety DEF RequestedReboot, Boot
<1>8. CASE HostReboot
  BY <1>8, LeaveSafety DEF HostReboot, Boot
<1> QED
  BY <1>1, <1>2, <1>3, <1>4, <1>6, <1>7, <1>8 DEF Environment

\* The inductive invariant: the lock is sound and every copy of the object has
\* a status Reconcile may have written.
THEOREM SafetyInvariant == Spec => []SafetyInv
<1>1. TypeOK /\ SafetyInv /\ [Next]_vars => SafetyInv'
  <2>1. SafetyInv /\ UNCHANGED vars => SafetyInv'
    BY DEF SafetyInv, LockSound, StatusInv, KnownVersions, vars, store, agent
  <2> QED
    BY <2>1, ReconcileSafety, EnvironmentSafety DEF Next
<1> QED
  BY <1>1, InitSafety, TypeCorrect, PTL DEF Spec

\* The retry counter never leaves 0..RetryLimit, for any number of failures.
THEOREM RetryBounded == Spec => []RetryInRange
<1>1. SafetyInv => RetryInRange
  BY DEF SafetyInv, StatusInv, GoodStatus, KnownVersions, RetryInRange
<1> QED
  BY <1>1, SafetyInvariant, PTL

\* In progress and Running go together, Completed comes with a version.
THEOREM StatusIsCoherent == Spec => []StatusCoherent
<1>1. SafetyInv => StatusCoherent
  BY DEF SafetyInv, StatusInv, GoodStatus, KnownVersions, StatusCoherent
<1> QED
  BY <1>1, SafetyInvariant, PTL

\* The patch that is to unset the version at the retry limit never passes.
THEOREM UnsetNeverPasses == Spec => []UnsetPatchIsRefused
<1>1. TypeOK /\ SafetyInv => UnsetPatchIsRefused
  BY DEF SafetyInv, StatusInv, UnsetPatchIsRefused, Locked, TypeOK, Object
<1> QED
  BY <1>1, TypeCorrect, SafetyInvariant, PTL

\* No step takes back a condition another controller has written.
THEOREM ConditionsSurvive == Spec => NoLostCondition
<1>1. TypeOK /\ SafetyInv /\ [Next]_vars => [hv'.others >= hv.others]_hv
  <2> SUFFICES ASSUME TypeOK, SafetyInv, [Next]_vars, hv' # hv
               PROVE  hv'.others >= hv.others
    OBVIOUS
  <2>1. CASE StatusPatch
    BY <2>1, StatusPatchSafe
  <2>2. CASE EditSpec
    <3>1. PICK v \in Version, r \in BOOLEAN :
            Publish([hv EXCEPT !.version = v, !.reboot = r])
      BY <2>2 DEF EditSpec
    <3>2. hv'.others = hv.others
      BY <3>1 DEF Publish, TypeOK, Object
    <3> QED
      BY <3>2 DEF TypeOK, Object
  <2>3. CASE OtherWriter
    <3>1. Publish([hv EXCEPT !.others = @ + 1])
      BY <2>3 DEF OtherWriter
    <3>2. hv.others \in Nat /\ hv.others + 1 \in Nat
      BY DEF TypeOK, Object
    <3>3. hv'.others = hv.others \/ hv'.others = hv.others + 1
      BY <3>1, <3>2 DEF Publish, TypeOK, Object
    <3> QED
      BY <3>2, <3>3
  <2>4. CASE Reconcile
    BY <2>1, <2>4 DEF Reconcile, Get, EarlyReturn, SkipUpdate, RetryLimitReached,
       GetUnitByName, GetUnitFails, UpdateIsRunning, UpdateHasFailed,
       UpdateHasFinished, UpdateAlreadyRunning, StartUpdate, StartUnitFails,
       PatchRetryReset, PatchUnsetVersion, PatchStatus, PatchNotSent,
       SysUpdateReturns, store
  <2>5. CASE Environment
    BY <2>2, <2>3, <2>5 DEF Environment, CacheSync, Crash, UnitStarts,
       UnitSucceeds, UnitFails, RequestedReboot, HostReboot, Boot, store
  <2>6. CASE UNCHANGED vars
    BY <2>6 DEF vars, store
  <2> QED
    BY <2>4, <2>5, <2>6 DEF Next
<1> QED
  BY <1>1, TypeCorrect, SafetyInvariant, PTL DEF Spec, NoLostCondition

-----------------------------------------------------------------------------
(* What is recorded as installed is on the disk, as long as the request is *)
(* made once, a started unit is active at once, and nobody else reboots.   *)

Undisturbed == Env \subseteq {"fastReboot"}

\* A copy that agrees with the disk keeps doing so while the request stays and
\* no update falls back.
LEMMA SnapshotsStay ==
  ASSUME hv'.version = hv.version, disk \subseteq disk',
         \A v \in Versions : Progressing(v) => Progressing(v)'
  PROVE  \A s \in Object : SnapshotOnDisk(s) => SnapshotOnDisk(s)'
  BY DEF SnapshotOnDisk, Object, Version

\* The value an accepted or refused patch leaves agrees with the disk.
LEMMA StatusPatchDisk ==
  ASSUME TypeOK, SafetyInv, DiskInv, StatusPatch, UNCHANGED <<unit, disk>>
  PROVE  /\ hv'.version = hv.version
         /\ SnapshotOnDisk(hv)'
         /\ \A s \in undelivered' : SnapshotOnDisk(s)'
<1> DEFINE h == MergePatch(hv, base, obj)
<1>1. \A v \in Versions : Progressing(v) => Progressing(v)'
  BY DEF Progressing
<1>2. CASE ~Locked \/ pc = "unset"
  <2>1. UNCHANGED <<hv, undelivered>>
    BY <1>2 DEF StatusPatch, SafetyInv, StatusInv, Locked, TypeOK, Object
  <2> QED
    BY <1>1, <2>1 DEF DiskInv, KnownVersions, SnapshotOnDisk, TypeOK, Object, Version
<1>3. CASE Locked /\ pc # "unset"
  <2>1. Publish(h)
    BY <1>3 DEF StatusPatch
  <2>2. h = [hv EXCEPT !.os = obj.os, !.retry = obj.retry,
                       !.inProgress = obj.inProgress,
                       !.installed = obj.installed,
                       !.cond = obj.cond, !.others = obj.others]
    BY <1>3, MergeAccepted DEF SafetyInv
  <2>3. h \in Object
    BY MergePatchType DEF TypeOK
  <2>4. h.version = hv.version /\ h.inProgress = obj.inProgress
        /\ h.installed = obj.installed
    BY <2>2 DEF TypeOK, Object
  <2>5. SnapshotOnDisk(obj)
    BY <1>3 DEF DiskInv
  <2> HIDE DEF h
  <2>6. hv'.version = h.version /\ hv'.inProgress = h.inProgress
        /\ hv'.installed = h.installed
        /\ undelivered' \subseteq undelivered \cup {hv'}
    BY <2>1, <2>3 DEF Publish, Object
  <2>7. SnapshotOnDisk(hv)'
    BY <2>4, <2>5, <2>6 DEF SnapshotOnDisk, Progressing
  <2>8. \A s \in Object : SnapshotOnDisk(s) => SnapshotOnDisk(s)'
    BY <1>1, <2>4, <2>6, SnapshotsStay
  <2>9. ASSUME NEW s \in undelivered' PROVE SnapshotOnDisk(s)'
    <3>1. CASE s = hv'
      BY <2>7, <3>1 DEF SnapshotOnDisk
    <3>2. CASE s \in undelivered
      BY <2>8, <3>2 DEF DiskInv, KnownVersions, TypeOK
    <3> QED
      BY <2>6, <3>1, <3>2
  <2> QED
    BY <2>4, <2>6, <2>7, <2>9
<1> QED
  BY <1>2, <1>3

\* The zero value agrees with any disk.
LEMMA ZeroObjectDisk == SnapshotOnDisk(ZeroObject)
  BY DEF SnapshotOnDisk, ZeroObject

\* Leaving Reconcile: the locals are zero, the rest decides.
LEMMA LeaveDisk ==
  ASSUME TypeOK, DiskInv, Return, cache' = cache, hv'.version = hv.version,
         SnapshotOnDisk(hv)', \A s \in undelivered' : SnapshotOnDisk(s)',
         UNCHANGED host
  PROVE  DiskInv'
<1>1. SnapshotOnDisk(cache)'
  BY DEF DiskInv, KnownVersions, SnapshotOnDisk, Progressing, host
<1>2. SnapshotOnDisk(base)' /\ SnapshotOnDisk(obj)'
  BY DEF Return, SnapshotOnDisk, ZeroObject
<1>3. \A s \in KnownVersions' : SnapshotOnDisk(s)'
  <2> SUFFICES ASSUME NEW s \in KnownVersions' PROVE SnapshotOnDisk(s)'
    OBVIOUS
  <2>1. CASE s = hv'
    BY <2>1 DEF SnapshotOnDisk
  <2>2. CASE s = cache'
    BY <1>1, <2>2 DEF SnapshotOnDisk
  <2>3. CASE s = base'
    BY <1>2, <2>3 DEF SnapshotOnDisk
  <2> QED
    BY <2>1, <2>2, <2>3 DEF KnownVersions
<1> QED
  BY <1>2, <1>3 DEF DiskInv, Return, host

\* Steps that write no object: all copies still agree with the disk.
LEMMA StoreDisk ==
  ASSUME TypeOK, DiskInv, UNCHANGED store, base' \in {base, cache},
         disk \subseteq disk', \A v \in Versions : Progressing(v) => Progressing(v)'
  PROVE  \A s \in KnownVersions' : SnapshotOnDisk(s)'
<1>1. \A s \in Object : SnapshotOnDisk(s) => SnapshotOnDisk(s)'
  BY SnapshotsStay DEF store
<1>2. KnownVersions' \subseteq KnownVersions /\ KnownVersions \subseteq Object
  BY DEF KnownVersions, store, TypeOK
<1> QED
  BY <1>1, <1>2 DEF DiskInv

\* ReconcileSysUpdate returns: a running update is progressing, a finished one
\* is on the disk.
LEMMA SysUpdateReturnsDisk ==
  ASSUME TypeOK, SafetyInv, DiskInv, pc \in {"loaded", "sysupdate"},
         NEW isRunning \in BOOLEAN, NEW err \in BOOLEAN,
         SysUpdateReturns(isRunning, err), ~(isRunning /\ err),
         \A v \in Versions : unit'[v] \in {"inactive", "active", "failed"},
         \A v \in Versions : Progressing(v) => Progressing(v)',
         isRunning => /\ obj.version \in Versions \ {None}
                      /\ \/ Progressing(obj.version)
                         \/ unit'[obj.version] = "active",
         ~isRunning /\ ~err => obj.version \in disk,
         rebooting' => hv.version # None /\ hv.version \in disk
  PROVE  DiskInv'
<1>1. hv' = hv /\ base' = base /\ disk' = disk /\ running' = running
      /\ pc' = "certificate" /\ UNCHANGED store
  BY DEF SysUpdateReturns, store
<1>2. \A s \in KnownVersions' : SnapshotOnDisk(s)'
  BY <1>1, StoreDisk
<1>3. SnapshotOnDisk(obj)
  BY DEF DiskInv
<1>4. obj'.version = obj.version /\ obj'.inProgress = isRunning
      /\ obj'.installed \in {obj.installed, obj.version}
      /\ (obj'.installed = obj.installed \/ (~isRunning /\ ~err))
  BY DEF SysUpdateReturns, AfterSysUpdate, TypeOK, Object
<1>5. isRunning => /\ obj.version # None
                   /\ unit'[obj.version] \in {"active", "failed"} \/ obj.version \in disk
  BY <1>1 DEF Progressing
<1>6. SnapshotOnDisk(obj)'
  BY <1>1, <1>3, <1>4, <1>5 DEF SnapshotOnDisk, Progressing
<1> QED
  BY <1>1, <1>2, <1>6 DEF DiskInv

\* A step of Reconcile preserves the invariant.
LEMMA ReconcileDisk ==
  ASSUME Undisturbed, TypeOK, SafetyInv, DiskInv, Reconcile
  PROVE  DiskInv'
<1>1. CASE UNCHANGED <<store, host>> /\ base' \in {base, cache}
           /\ pc' \in {"loaded", "certificate", "limit", "sysupdate"}
           /\ SnapshotOnDisk(obj)'
           /\ (pc' = "sysupdate" => obj' = obj /\ pc = "loaded" /\ obj.version # None
                                    /\ seen' = ActiveState(unit[obj.version]))
  <2>1. \A v \in Versions : Progressing(v) => Progressing(v)'
    BY <1>1 DEF Progressing, host
  <2>2. \A s \in KnownVersions' : SnapshotOnDisk(s)'
    BY <1>1, <2>1, StoreDisk DEF host
  <2>3. ASSUME pc' = "sysupdate"
        PROVE  /\ seen' = "active" => Progressing(obj.version)
               /\ seen' = "inactive" /\ obj.inProgress => obj.version \in disk
               /\ seen' # "activating"
    <3>1. obj.version \in Versions /\ SnapshotOnDisk(obj)
      BY <1>1, <2>3 DEF TypeOK, Object, Version, DiskInv
    <3>2. seen' = unit[obj.version] /\ seen' \in {"inactive", "active", "failed"}
      BY <1>1, <2>3, <3>1 DEF DiskInv, ActiveState
    <3> QED
      BY <3>1, <3>2 DEF Progressing, SnapshotOnDisk
  <2>4. unit' = unit /\ disk' = disk /\ rebooting' = rebooting
        /\ running' = running /\ hv' = hv
    BY <1>1 DEF host, store
  <2>5. pc' # "unset"
    BY <1>1
  <2> QED
    BY <1>1, <2>2, <2>3, <2>4, <2>5 DEF DiskInv, Progressing
<1>2. CASE Get
  <2>1. SnapshotOnDisk(cache)
    BY DEF DiskInv, KnownVersions
  <2>2. obj'.version = cache.version /\ obj'.inProgress = cache.inProgress
        /\ obj'.installed = cache.installed
    BY <1>2 DEF Get, FillOS, TypeOK, Object
  <2>3. SnapshotOnDisk(obj)'
    BY <1>2, <2>1, <2>2 DEF Get, SnapshotOnDisk, Progressing, store, host
  <2> QED
    BY <1>1, <1>2, <2>3 DEF Get
<1>3. ASSUME Return, UNCHANGED <<store, host>>
      PROVE  DiskInv'
  <2>1. SnapshotOnDisk(hv)' /\ \A s \in undelivered' : SnapshotOnDisk(s)'
    BY <1>3 DEF DiskInv, KnownVersions, SnapshotOnDisk, Progressing, store, host
  <2> QED
    BY <1>3, <2>1, LeaveDisk DEF store
<1>4. CASE EarlyReturn
  BY <1>3, <1>4 DEF EarlyReturn
<1>5. CASE SkipUpdate
  <2>1. SnapshotOnDisk(obj)'
    BY <1>5 DEF SkipUpdate, DiskInv, SnapshotOnDisk, Progressing, store, host
  <2> QED
    BY <1>1, <1>5, <2>1 DEF SkipUpdate
<1>6. CASE RetryLimitReached
  <2>1. SnapshotOnDisk(obj)
    BY <1>6 DEF RetryLimitReached, DiskInv
  <2>2. SnapshotOnDisk(obj)'
    BY <1>6, <2>1 DEF RetryLimitReached, SnapshotOnDisk, Progressing, store, host,
                      TypeOK, Object
  <2> QED
    BY <1>1, <1>6, <2>2 DEF RetryLimitReached
<1>7. CASE GetUnitByName
  <2>1. SnapshotOnDisk(obj)'
    BY <1>7 DEF GetUnitByName, DiskInv, SnapshotOnDisk, Progressing, store, host
  <2> QED
    BY <1>1, <1>7, <2>1 DEF GetUnitByName, WantsUpdate
<1>8. ASSUME UNCHANGED unit
      PROVE  /\ \A v \in Versions : unit'[v] \in {"inactive", "active", "failed"}
             /\ SysUpdateReturns(TRUE, FALSE) \/ SysUpdateReturns(FALSE, TRUE)
                \/ SysUpdateReturns(FALSE, FALSE)
                  => \A v \in Versions : Progressing(v) => Progressing(v)'
  BY <1>8 DEF DiskInv, Progressing, SysUpdateReturns
<1>9. CASE GetUnitFails
  BY <1>8, <1>9, SysUpdateReturnsDisk DEF GetUnitFails, DiskInv
<1>10. CASE UpdateHasFailed
  BY <1>8, <1>10, SysUpdateReturnsDisk DEF UpdateHasFailed, DiskInv
<1>11. CASE StartUnitFails
  BY <1>8, <1>11, SysUpdateReturnsDisk DEF StartUnitFails, DiskInv
<1>12. ASSUME pc = "sysupdate"
       PROVE  obj.version \in Versions /\ obj.version # None /\ SnapshotOnDisk(obj)
  BY <1>12 DEF SafetyInv, StatusInv, TypeOK, Object, Version, DiskInv
<1>13. CASE UpdateIsRunning
  <2>1. seen = "active" /\ Progressing(obj.version)
    BY <1>13 DEF UpdateIsRunning, DiskInv
  <2>2. SysUpdateReturns(TRUE, FALSE)
    BY <1>13, <2>1 DEF UpdateIsRunning
  <2> QED
    BY <1>8, <1>12, <1>13, <2>1, <2>2, SysUpdateReturnsDisk
    DEF UpdateIsRunning, DiskInv
<1>14. CASE UpdateAlreadyRunning
  <2>1. Progressing(obj.version)
    BY <1>14 DEF UpdateAlreadyRunning, DiskInv
  <2> QED
    BY <1>8, <1>12, <1>14, <2>1, SysUpdateReturnsDisk
    DEF UpdateAlreadyRunning, DiskInv
<1>15. CASE UpdateHasFinished
  <2>1. obj.version \in disk
    BY <1>15 DEF UpdateHasFinished, DiskInv
  <2>2. hv.version = obj.version
    BY <1>12, <1>15 DEF UpdateHasFinished, SnapshotOnDisk
  <2>3. hv.version # None /\ hv.version \in disk
    BY <1>12, <1>15, <2>1, <2>2 DEF UpdateHasFinished
  <2> QED
    BY <1>8, <1>15, <2>1, <2>3, SysUpdateReturnsDisk DEF UpdateHasFinished
<1>16. CASE StartUpdate
  <2>1. StartedStates = {"active"}
    BY DEF StartedStates, Undisturbed
  <2>2. unit' = [unit EXCEPT ![obj.version] =
                   IF @ \in {"inactive", "failed"} THEN "active" ELSE @]
    BY <1>16, <2>1 DEF StartUpdate
  <2>3. SysUpdateReturns(TRUE, FALSE) /\ pc = "sysupdate" /\ rebooting' = rebooting
    BY <1>16 DEF StartUpdate
  <2>4. \A v \in Versions : unit'[v] \in {"inactive", "active", "failed"}
    BY <2>2 DEF DiskInv, TypeOK
  <2>5. unit'[obj.version] = "active"
    BY <1>12, <2>2, <2>3 DEF DiskInv, TypeOK
  <2>6. \A v \in Versions : Progressing(v) => Progressing(v)'
    BY <2>2, <2>3 DEF Progressing, SysUpdateReturns, TypeOK
  <2> QED
    BY <1>12, <2>3, <2>4, <2>5, <2>6, SysUpdateReturnsDisk DEF DiskInv
<1>17. ASSUME StatusPatch, Return, cache' = cache, UNCHANGED host
       PROVE  DiskInv'
  BY <1>17, StatusPatchDisk, LeaveDisk DEF host
<1>18. CASE PatchUnsetVersion
  BY <1>17, <1>18 DEF PatchUnsetVersion
<1>19. CASE PatchStatus
  BY <1>17, <1>19 DEF PatchStatus
<1>20. CASE PatchNotSent
  BY <1>3, <1>20 DEF PatchNotSent
<1>21. CASE PatchRetryReset
  <2>1. CASE Return
    BY <1>17, <1>21, <2>1 DEF PatchRetryReset
  <2>2. CASE pc' = "unset" /\ base' = base
    <3>1. hv'.version = hv.version /\ SnapshotOnDisk(hv)'
          /\ \A s \in undelivered' : SnapshotOnDisk(s)'
      BY <1>21, StatusPatchDisk DEF PatchRetryReset, host
    <3>2. unit' = unit /\ disk' = disk /\ rebooting' = rebooting
          /\ running' = running /\ cache' = cache
      BY <1>21 DEF PatchRetryReset, host
    <3>3. ASSUME NEW s \in KnownVersions' PROVE SnapshotOnDisk(s)'
      <4>1. CASE s = hv'
        BY <3>1, <4>1 DEF SnapshotOnDisk
      <4>2. CASE s \in {cache, base}
        BY <3>1, <3>2, <4>2 DEF DiskInv, KnownVersions, SnapshotOnDisk, Progressing
      <4> QED
        BY <2>2, <3>1, <3>2, <4>1, <4>2 DEF KnownVersions
    <3> QED
      BY <2>2, <3>1, <3>2, <3>3 DEF DiskInv
  <2> QED
    BY <1>21, <2>1, <2>2 DEF PatchRetryReset
<1> QED
  BY <1>2, <1>4, <1>5, <1>6, <1>7, <1>9, <1>10, <1>11, <1>13, <1>14, <1>15,
     <1>16, <1>18, <1>19, <1>20, <1>21 DEF Reconcile

\* A step of the environment preserves the invariant.
LEMMA EnvironmentDisk ==
  ASSUME Undisturbed, TypeOK, SafetyInv, DiskInv, Environment
  PROVE  DiskInv'
<1>0. KnownVersions \subseteq Object /\ obj \in Object
  BY DEF TypeOK, KnownVersions
<1>1. CASE EditSpec
  <2>1. PICK v \in Version, r \in BOOLEAN :
          Publish([hv EXCEPT !.version = v, !.reboot = r])
    BY <1>1 DEF EditSpec
  <2>2. hv.version = None
    BY <1>1 DEF EditSpec, Undisturbed
  <2>3. \A s \in KnownVersions :
          /\ s.version = None /\ ~s.inProgress
          /\ s.installed # None => s.installed \in disk
    BY <1>0, <2>2 DEF DiskInv, SnapshotOnDisk, Object
  <2>4. pc # "unset" => /\ obj.version = None /\ ~obj.inProgress
                        /\ obj.installed # None => obj.installed \in disk
    BY <1>0, <2>2 DEF DiskInv, SnapshotOnDisk, Object
  <2>5. ~hv'.inProgress /\ hv'.installed = hv.installed
        /\ undelivered' \subseteq undelivered \cup {hv'}
    <3> DEFINE h == [hv EXCEPT !.version = v, !.reboot = r]
    <3>1. h \in Object /\ ~h.inProgress /\ h.installed = hv.installed
      BY <2>3 DEF KnownVersions, TypeOK, Object
    <3>2. Publish(h)
      BY <2>1
    <3> HIDE DEF h
    <3> QED
      BY <3>1, <3>2 DEF Publish, Object
  <2>6. UNCHANGED <<cache, agent, host>>
    BY <1>1 DEF EditSpec
  <2>7. ASSUME NEW s \in KnownVersions' PROVE SnapshotOnDisk(s)'
    <3>1. CASE s = hv'
      BY <2>3, <2>5, <2>6, <3>1 DEF SnapshotOnDisk, KnownVersions, host
    <3>2. CASE s \in KnownVersions
      BY <2>3, <2>6, <3>2 DEF SnapshotOnDisk, host
    <3> QED
      BY <2>5, <2>6, <3>1, <3>2 DEF KnownVersions, agent
  <2>8. pc' # "unset" => SnapshotOnDisk(obj)'
    BY <2>4, <2>6 DEF SnapshotOnDisk, agent, host
  <2>9. pc # "sysupdate"
    BY <2>4 DEF SafetyInv, StatusInv
  <2> QED
    BY <2>2, <2>6, <2>7, <2>8, <2>9 DEF DiskInv, agent, host
<1>2. CASE OtherWriter
  <2> DEFINE h == [hv EXCEPT !.others = @ + 1]
  <2>1. h.version = hv.version /\ h.inProgress = hv.inProgress
        /\ h.installed = hv.installed /\ h \in Object
    BY DEF TypeOK, Object
  <2>2. Publish(h)
    BY <1>2 DEF OtherWriter
  <2> HIDE DEF h
  <2>3. hv'.version = hv.version /\ hv'.inProgress = hv.inProgress
        /\ hv'.installed = hv.installed
        /\ undelivered' \subseteq undelivered \cup {hv'}
    BY <2>1, <2>2 DEF Publish, Object
  <2>4. UNCHANGED <<cache, agent, host>>
    BY <1>2 DEF OtherWriter
  <2>5. ASSUME NEW s \in KnownVersions' PROVE SnapshotOnDisk(s)'
    <3>1. CASE s = hv'
      BY <2>3, <2>4, <3>1 DEF DiskInv, KnownVersions, SnapshotOnDisk, Progressing, host
    <3>2. CASE s \in KnownVersions
      BY <2>3, <2>4, <3>2 DEF DiskInv, SnapshotOnDisk, Progressing, host
    <3> QED
      BY <2>3, <2>4, <3>1, <3>2 DEF KnownVersions, agent
  <2>6. pc' # "unset" => SnapshotOnDisk(obj)'
    BY <2>3, <2>4 DEF DiskInv, SnapshotOnDisk, Progressing, agent, host
  <2> QED
    BY <2>3, <2>4, <2>5, <2>6 DEF DiskInv, Progressing, agent, host
<1>3. CASE CacheSync
  <2>1. UNCHANGED <<hv, agent, host>>
    BY <1>3 DEF CacheSync
  <2>2. KnownVersions' \subseteq KnownVersions
    BY <1>3, <2>1 DEF CacheSync, KnownVersions, agent
  <2>3. \A s \in KnownVersions' : SnapshotOnDisk(s)'
    BY <2>1, <2>2 DEF DiskInv, SnapshotOnDisk, Progressing, host
  <2>4. pc' # "unset" => SnapshotOnDisk(obj)'
    BY <2>1 DEF DiskInv, SnapshotOnDisk, Progressing, agent, host
  <2> QED
    BY <2>1, <2>3, <2>4 DEF DiskInv, Progressing, agent, host
<1>4. CASE Crash
  <2>1. SnapshotOnDisk(hv)' /\ \A s \in undelivered' : SnapshotOnDisk(s)'
    BY <1>4 DEF Crash, DiskInv, KnownVersions, SnapshotOnDisk, Progressing, store, host
  <2> QED
    BY <1>4, <2>1, LeaveDisk DEF Crash, store
<1>5. ASSUME UNCHANGED <<store, agent, running, rebooting>>, disk \subseteq disk',
             \A v \in Versions : unit'[v] \in {"inactive", "active", "failed"},
             \A v \in Versions : Progressing(v) => Progressing(v)'
      PROVE  DiskInv'
  <2>1. \A s \in KnownVersions' : SnapshotOnDisk(s)'
    BY <1>5, StoreDisk DEF agent
  <2>2. pc' # "unset" => SnapshotOnDisk(obj)'
    BY <1>0, <1>5, SnapshotsStay DEF DiskInv, SnapshotOnDisk, agent, store
  <2>3. pc = "sysupdate" => obj.version \in Versions
    BY DEF SafetyInv, StatusInv, TypeOK, Object, Version
  <2>4. pc' = "sysupdate" /\ seen' = "active" => Progressing(obj.version)'
    BY <1>5, <2>3 DEF DiskInv, agent, Progressing
  <2> QED
    BY <1>5, <2>1, <2>2, <2>4 DEF DiskInv, agent, store
<1>6. ASSUME NEW v \in Versions, UnitStarts(v)
      PROVE  FALSE
  BY <1>6 DEF UnitStarts, DiskInv
<1>7. ASSUME NEW v \in Versions, UnitSucceeds(v)
      PROVE  DiskInv'
  BY <1>5, <1>7 DEF UnitSucceeds, DiskInv, Progressing, TypeOK
<1>8. ASSUME NEW v \in Versions, UnitFails(v)
      PROVE  DiskInv'
  BY <1>5, <1>8 DEF UnitFails, DiskInv, Progressing, TypeOK
<1>9. CASE RequestedReboot
  <2>1. hv.version # None /\ hv.version \in disk /\ Return /\ UNCHANGED <<store, disk>>
        /\ unit' = [v \in Versions |-> "inactive"] /\ running' \in disk
        /\ rebooting' = FALSE
    BY <1>9 DEF RequestedReboot, Boot, DiskInv
  <2>2. ASSUME NEW s \in KnownVersions PROVE SnapshotOnDisk(s)'
    BY <2>1, <2>2 DEF DiskInv, SnapshotOnDisk, Progressing, store
  <2>3. SnapshotOnDisk(base)' /\ SnapshotOnDisk(obj)'
    BY <2>1 DEF Return, SnapshotOnDisk, ZeroObject
  <2>4. ASSUME NEW s \in KnownVersions' PROVE SnapshotOnDisk(s)'
    <3>1. CASE s = base'
      BY <2>3, <3>1 DEF SnapshotOnDisk
    <3> QED
      BY <2>1, <2>2, <3>1 DEF KnownVersions, store
  <2> QED
    BY <2>1, <2>3, <2>4 DEF DiskInv, Return
<1>10. ~HostReboot
  BY DEF HostReboot, Undisturbed
<1> QED
  BY <1>1, <1>2, <1>3, <1>4, <1>6, <1>7, <1>8, <1>9, <1>10 DEF Environment

\* Initially nothing is recorded and nothing runs.
LEMMA InitDisk == Init => DiskInv
<1> SUFFICES ASSUME Init PROVE DiskInv
  OBVIOUS
<1>1. PICK r \in {0, RetryLimit} : hv = [ZeroObject EXCEPT !.rv = 1, !.retry = r]
  BY DEF Init
<1>2. SnapshotOnDisk(hv)
  BY <1>1 DEF SnapshotOnDisk, ZeroObject
<1>3. \A v \in Versions : unit[v] = "inactive"
  BY DEF Init
<1> QED
  BY <1>2, <1>3, ZeroObjectDisk DEF Init, DiskInv, KnownVersions

\* In an undisturbed environment every copy of the object agrees with the disk.
THEOREM DiskInvariant ==
  ASSUME Undisturbed
  PROVE  Spec => []DiskInv
<1>1. TypeOK /\ SafetyInv /\ DiskInv /\ [Next]_vars => DiskInv'
  <2>1. DiskInv /\ UNCHANGED vars => DiskInv'
    BY DEF DiskInv, KnownVersions, SnapshotOnDisk, Progressing, vars, store,
           agent, host
  <2> QED
    BY <2>1, ReconcileDisk, EnvironmentDisk DEF Next
<1> QED
  BY <1>1, InitDisk, TypeCorrect, SafetyInvariant, PTL DEF Spec

\* In an undisturbed environment a version recorded as installed is on disk.
THEOREM InstalledOnDisk ==
  ASSUME Undisturbed
  PROVE  Spec => []InstalledIsOnDisk
<1>1. DiskInv => InstalledIsOnDisk
  BY DEF DiskInv, KnownVersions, SnapshotOnDisk, InstalledIsOnDisk
<1> QED
  BY <1>1, DiskInvariant, PTL

\* In an undisturbed environment ReconcileSysUpdate starts the reboot only when
\* the version Reconcile works on is on the disk, fast reboots included.
THEOREM RebootsAfterInstall ==
  ASSUME Undisturbed
  PROVE  Spec => RebootAfterInstall
<1>1. ASSUME Next, ~rebooting, rebooting'
      PROVE  UpdateHasFinished
  <2>1. Get => rebooting' = rebooting
    BY DEF Get, host
  <2>2. EarlyReturn \/ SkipUpdate => rebooting' = rebooting
    BY DEF EarlyReturn, SkipUpdate, host
  <2>3. RetryLimitReached \/ GetUnitByName => rebooting' = rebooting
    BY DEF RetryLimitReached, GetUnitByName, host
  <2>4. GetUnitFails => rebooting' = rebooting
    BY DEF GetUnitFails, host
  <2>5. UpdateIsRunning \/ UpdateHasFailed => rebooting' = rebooting
    BY DEF UpdateIsRunning, UpdateHasFailed, host
  <2>6. UpdateAlreadyRunning => rebooting' = rebooting
    BY DEF UpdateAlreadyRunning, host
  <2>7. StartUpdate \/ StartUnitFails => rebooting' = rebooting
    BY DEF StartUpdate, StartUnitFails, host
  <2>8. PatchRetryReset \/ PatchUnsetVersion => rebooting' = rebooting
    BY DEF PatchRetryReset, PatchUnsetVersion, host
  <2>9. PatchStatus \/ PatchNotSent => rebooting' = rebooting
    BY DEF PatchStatus, PatchNotSent, host
  <2>10. EditSpec => rebooting' = rebooting
    BY DEF EditSpec, host
  <2>11. OtherWriter => rebooting' = rebooting
    BY DEF OtherWriter, host
  <2>12. CacheSync => rebooting' = rebooting
    BY DEF CacheSync, host
  <2>13. Crash => rebooting' = rebooting
    BY DEF Crash, host
  <2>14. ASSUME NEW v \in Versions
        PROVE  UnitStarts(v) \/ UnitSucceeds(v) \/ UnitFails(v) => rebooting' = rebooting
    BY DEF UnitStarts, UnitSucceeds, UnitFails
  <2>15. RequestedReboot \/ HostReboot => ~rebooting'
    BY DEF RequestedReboot, HostReboot, Boot
  <2>16. CASE Reconcile
    BY <1>1, <2>1, <2>2, <2>3, <2>4, <2>5, <2>6, <2>7, <2>8, <2>9, <2>16, Zenon
       DEF Reconcile
  <2>17. ~Environment
    BY <1>1, <2>10, <2>11, <2>12, <2>13, <2>14, <2>15, Zenon DEF Environment
  <2> QED BY <1>1, <2>16, <2>17 DEF Next
<1>2. ASSUME DiskInv, [Next]_vars
      PROVE  [~rebooting /\ rebooting' => obj.version \in disk]_vars
  <2> SUFFICES ASSUME Next, ~rebooting, rebooting' PROVE obj.version \in disk
    BY <1>2
  <2>1. UpdateHasFinished
    BY <1>1
  <2> QED BY <1>2, <2>1 DEF UpdateHasFinished, DiskInv
<1> QED BY <1>2, DiskInvariant, PTL DEF RebootAfterInstall, Spec

=============================================================================
