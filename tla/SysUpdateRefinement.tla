------------------------ MODULE SysUpdateRefinement ------------------------
(***************************************************************************)
(* SysUpdate implements UpdateCycle, for every set of versions, every      *)
(* environment and every number of faults, edits and foreign writes.       *)
(***************************************************************************)
EXTENDS SysUpdateProofs

\* Reconcile's copy is what a pass may make of the copy it has read.
CycleInv ==
  /\ pc \in {"loaded", "sysupdate"} => View(obj) \in Cycle!Learned(View(base))
  /\ pc = "sysupdate" => WantsUpdate(obj) /\ obj.retry # 0
  /\ pc \in {"limit", "certificate"} => Cycle!Outcome(View(base), View(obj))

LEMMA ViewFields ==
  ASSUME NEW o \in Object
  PROVE  /\ View(o) \in Object
         /\ View(o).version = o.version /\ View(o).os = o.os
         /\ View(o).installed = o.installed /\ View(o).retry = o.retry
         /\ View(o).inProgress = o.inProgress /\ View(o).reboot = o.reboot
         /\ View(o).cond = o.cond /\ View(o).others = o.others
  BY DEF View, Object

LEMMA SameObject ==
  ASSUME NEW a \in Object, NEW b \in Object,
         a.rv = b.rv, a.version = b.version, a.reboot = b.reboot, a.os = b.os,
         a.retry = b.retry, a.inProgress = b.inProgress,
         a.installed = b.installed, a.cond = b.cond, a.others = b.others
  PROVE  a = b
  BY DEF Object

\* The two views of a request agree.
LEMMA DueView ==
  ASSUME NEW o \in Object
  PROVE  WantsUpdate(o) <=> Cycle!Due(View(o))
  BY ViewFields DEF WantsUpdate, Cycle!Due

LEMMA FillOSLearned ==
  ASSUME NEW o \in Object, running \in Versions
  PROVE  View(FillOS(o)) \in Cycle!Learned(View(o))
<1>1. CASE o.os = None
  <2>1. View(FillOS(o)) = [View(o) EXCEPT !.os = running]
    BY <1>1 DEF View, FillOS, Object
  <2> QED
    BY <1>1, <2>1, ViewFields DEF Cycle!Learned
<1>2. CASE o.os # None
  <2>1. FillOS(o) = o
    BY <1>2 DEF FillOS, Object
  <2> QED
    BY <2>1 DEF Cycle!Learned
<1> QED
  BY <1>1, <1>2

\* What Reconcile makes of the result of ReconcileSysUpdate is a step of the cycle;
\* an update that is not running any more has been in progress.
LEMMA AfterSysUpdateOutcome ==
  ASSUME NEW b, NEW o \in Object, View(o) \in Cycle!Learned(b),
         WantsUpdate(o), o.retry # 0, GoodStatus(o),
         NEW isRunning \in BOOLEAN, NEW err \in BOOLEAN, ~(isRunning /\ err),
         isRunning \/ err \/ o.inProgress
  PROVE  Cycle!Outcome(b, View(AfterSysUpdate(o, isRunning, err)))
<1> DEFINE p == AfterSysUpdate(o, isRunning, err)
<1>1. Cycle!Due(View(o)) /\ View(o).retry # 0 /\ View(o).inProgress = o.inProgress
  BY DueView, ViewFields
<1>2. CASE err
  <2>1. isRunning = FALSE /\ err = TRUE
    BY <1>2, Zenon
  <2>2. View(p) = Cycle!Failed(View(o))
    BY <2>1 DEF View, AfterSysUpdate, Cycle!Failed, Object
  <2> QED
    BY <1>1, <2>2 DEF Cycle!Outcome
<1>3. CASE ~err /\ ~isRunning
  <2>1. isRunning = FALSE /\ err = FALSE /\ o.inProgress
    BY <1>3, Zenon
  <2>2. View(p) = Cycle!Finished(View(o))
    BY <2>1 DEF View, AfterSysUpdate, Cycle!Finished, Object
  <2> QED
    BY <1>1, <2>1, <2>2 DEF Cycle!Outcome
<1>4. CASE ~err /\ isRunning
  <2>1. isRunning = TRUE /\ err = FALSE
    BY <1>4, Zenon
  <2>2. CASE o.inProgress
    <3>1. o.inProgress = TRUE
      BY <2>2, Zenon DEF Object
    <3>2. p = o
      BY <2>1, <2>2, <3>1 DEF AfterSysUpdate, Object
    <3> QED
      BY <3>2 DEF Cycle!Outcome
  <2>3. CASE ~o.inProgress
    <3>1. View(p) = Cycle!Started(View(o))
      BY <2>1, <2>3 DEF View, AfterSysUpdate, Cycle!Started, Object
    <3> QED
      BY <1>1, <2>3, <3>1 DEF Cycle!Outcome
  <2> QED
    BY <2>2, <2>3
<1> QED
  BY <1>2, <1>3, <1>4

LEMMA InitCycle == Init => CycleInv /\ Cycle!Init
<1> SUFFICES ASSUME Init PROVE CycleInv /\ Cycle!Init
  OBVIOUS
<1>1. CycleInv
  BY DEF Init, CycleInv
<1>2. PICK r \in {0, RetryLimit} : hv = [ZeroObject EXCEPT !.rv = 1, !.retry = r]
  BY DEF Init
<1> DEFINE fresh == [rv |-> 0, version |-> None, reboot |-> FALSE, os |-> None,
                     retry |-> r, inProgress |-> FALSE, installed |-> None,
                     cond |-> "None", others |-> 0]
<1>3. hv \in Object
  BY InitType DEF TypeOK
<1>4. r \in Int
  BY DEF RetryLimit
<1>5. fresh \in Object
  BY <1>4 DEF Object, Version, UpdateReason
<1>6. /\ View(hv).rv = 0 /\ hv.version = None /\ hv.os = None /\ hv.retry = r
      /\ hv.installed = None /\ hv.cond = "None" /\ hv.others = 0
  BY <1>2, <1>3 DEF View, ZeroObject, Object
<1>7. hv.reboot = FALSE /\ hv.inProgress = FALSE
  BY <1>2, Zenon DEF ZeroObject
<1>8. View(hv) = fresh
  <2>1. fresh.reboot = FALSE /\ fresh.inProgress = FALSE
    BY Zenon
  <2>2. /\ fresh.rv = 0 /\ fresh.version = None /\ fresh.os = None /\ fresh.retry = r
        /\ fresh.installed = None /\ fresh.cond = "None" /\ fresh.others = 0
    OBVIOUS
  <2> HIDE DEF fresh
  <2>3. View(hv).reboot = fresh.reboot /\ View(hv).inProgress = fresh.inProgress
    BY <1>3, <1>7, <2>1, ViewFields, Zenon
  <2> QED
    BY <1>3, <1>5, <1>6, <2>2, <2>3, ViewFields, SameObject
<1> QED
  BY <1>1, <1>8, Zenon DEF Cycle!Init

\* Leaving Reconcile, or leaving its variables alone, keeps the invariant.
LEMMA CycleFrame ==
  ASSUME CycleInv, Return \/ UNCHANGED agent
  PROVE  CycleInv'
<1>1. CASE Return
  BY <1>1 DEF Return, CycleInv
<1>2. CASE UNCHANGED agent
  BY <1>2 DEF agent, CycleInv
<1> QED
  BY <1>1, <1>2

\* Every return of ReconcileSysUpdate leaves an outcome of the pass.
LEMMA ReturnsCycle ==
  ASSUME TypeOK, SafetyInv, CycleInv, pc \in {"loaded", "sysupdate"},
         WantsUpdate(obj), obj.retry # 0,
         NEW isRunning \in BOOLEAN, NEW err \in BOOLEAN, ~(isRunning /\ err),
         isRunning \/ err \/ obj.inProgress,
         SysUpdateReturns(isRunning, err)
  PROVE  CycleInv'
<1>1. /\ pc' = "certificate" /\ base' = base
      /\ obj' = AfterSysUpdate(obj, isRunning, err)
  BY DEF SysUpdateReturns
<1>2. obj \in Object /\ GoodStatus(obj) /\ View(obj) \in Cycle!Learned(View(base))
  BY DEF TypeOK, SafetyInv, StatusInv, CycleInv
<1>3. Cycle!Outcome(View(base), View(AfterSysUpdate(obj, isRunning, err)))
  BY <1>2, AfterSysUpdateOutcome
<1>4. Cycle!Outcome(View(base'), View(obj'))
  BY <1>1, <1>3
<1> QED
  BY <1>1, <1>4 DEF CycleInv

LEMMA ReconcileCycle == TypeOK /\ SafetyInv /\ CycleInv /\ Reconcile => CycleInv'
<1> SUFFICES ASSUME TypeOK, SafetyInv, CycleInv, Reconcile PROVE CycleInv'
  OBVIOUS
<1>1. CASE Get
  <2>1. cache \in Object /\ running \in Versions
    BY DEF TypeOK
  <2>2. pc' = "loaded" /\ base' = cache /\ obj' \in {FillOS(cache), cache}
    BY <1>1 DEF Get
  <2>3. View(FillOS(cache)) \in Cycle!Learned(View(cache))
    BY <2>1, FillOSLearned
  <2>4. View(cache) \in Cycle!Learned(View(cache))
    BY DEF Cycle!Learned
  <2>5. View(obj') \in Cycle!Learned(View(base'))
    BY <2>2, <2>3, <2>4
  <2> QED
    BY <2>2, <2>5 DEF CycleInv
<1>2. CASE EarlyReturn \/ PatchUnsetVersion \/ PatchStatus \/ PatchNotSent
  BY <1>2, CycleFrame DEF EarlyReturn, PatchUnsetVersion, PatchStatus, PatchNotSent
<1>3. CASE SkipUpdate
  <2>1. Cycle!Outcome(View(base), View(obj))
    BY <1>3 DEF SkipUpdate, CycleInv, Cycle!Outcome
  <2>2. pc' = "certificate" /\ base' = base /\ obj' = obj
    BY <1>3 DEF SkipUpdate
  <2>3. Cycle!Outcome(View(base'), View(obj'))
    BY <2>1, <2>2
  <2> QED
    BY <2>2, <2>3 DEF CycleInv
<1>4. CASE RetryLimitReached
  <2>1. /\ pc' = "limit" /\ base' = base /\ obj' = [obj EXCEPT !.retry = RetryLimit]
        /\ WantsUpdate(obj) /\ obj.retry = 0
        /\ View(obj) \in Cycle!Learned(View(base))
    BY <1>4 DEF RetryLimitReached, CycleInv
  <2>2. View([obj EXCEPT !.retry = RetryLimit]) = Cycle!AttemptsRenewed(View(obj))
    BY DEF View, Cycle!AttemptsRenewed, TypeOK, Object
  <2>3. Cycle!Due(View(obj)) /\ View(obj).retry = 0
    BY <2>1, DueView, ViewFields DEF TypeOK
  <2>4. Cycle!Outcome(View(base), View([obj EXCEPT !.retry = RetryLimit]))
    BY <2>1, <2>2, <2>3 DEF Cycle!Outcome
  <2>5. Cycle!Outcome(View(base'), View(obj'))
    BY <2>1, <2>4
  <2> QED
    BY <2>1, <2>5 DEF CycleInv
<1>5. CASE GetUnitByName
  <2>1. /\ pc' = "sysupdate" /\ base' = base /\ obj' = obj
        /\ WantsUpdate(obj) /\ obj.retry # 0
        /\ View(obj) \in Cycle!Learned(View(base))
    BY <1>5 DEF GetUnitByName, CycleInv
  <2>2. View(obj') \in Cycle!Learned(View(base')) /\ WantsUpdate(obj') /\ obj'.retry # 0
    BY <2>1
  <2> QED
    BY <2>1, <2>2 DEF CycleInv
<1>6. CASE GetUnitFails
  BY <1>6, ReturnsCycle DEF GetUnitFails
<1>7. CASE UpdateIsRunning
  <2>1. (seen = "active") \in BOOLEAN
    BY Zenon
  <2> QED
    BY <1>7, <2>1, ReturnsCycle DEF UpdateIsRunning, CycleInv
<1>8. CASE UpdateHasFailed
  BY <1>8, ReturnsCycle DEF UpdateHasFailed, CycleInv
<1>9. CASE UpdateHasFinished
  BY <1>9, ReturnsCycle DEF UpdateHasFinished, CycleInv
<1>10. CASE UpdateAlreadyRunning
  BY <1>10, ReturnsCycle DEF UpdateAlreadyRunning, CycleInv
<1>11. CASE StartUpdate
  BY <1>11, ReturnsCycle DEF StartUpdate, CycleInv
<1>12. CASE StartUnitFails
  BY <1>12, ReturnsCycle DEF StartUnitFails, CycleInv
<1>13. CASE PatchRetryReset
  <2>1. pc' \in {"unset", "idle"}
    BY <1>13 DEF PatchRetryReset, Return
  <2> QED
    BY <2>1 DEF CycleInv
<1> QED
  BY <1>1, <1>2, <1>3, <1>4, <1>5, <1>6, <1>7, <1>8, <1>9, <1>10, <1>11, <1>12, <1>13
     DEF Reconcile

LEMMA EnvironmentCycle == CycleInv /\ Environment => CycleInv'
  BY CycleFrame DEF Environment, EditSpec, OtherWriter, CacheSync, Crash, UnitStarts,
     UnitSucceeds, UnitFails, RequestedReboot, HostReboot, Boot

-----------------------------------------------------------------------------
(* Steps of the object.                                                    *)

\* A pass changes no field of the request.
LEMMA OutcomeKeepsRequest ==
  ASSUME NEW o \in Object, NEW p \in Object, Cycle!Outcome(o, p)
  PROVE  p.version = o.version /\ p.reboot = o.reboot
<1>1. PICK k \in Cycle!Learned(o) :
        p = k \/ p = Cycle!Started(k) \/ p = Cycle!Finished(k) \/ p = Cycle!Failed(k)
          \/ p = Cycle!AttemptsRenewed(k)
  BY DEF Cycle!Outcome
<1>2. k \in Object /\ k.version = o.version /\ k.reboot = o.reboot
  BY DEF Cycle!Learned, Object, Version
<1> QED
  BY <1>1, <1>2 DEF Cycle!Started, Cycle!Finished, Cycle!Failed, Cycle!AttemptsRenewed,
     Object

\* Storing h changes the view of the object to that of h, or not at all.
LEMMA PublishView ==
  ASSUME TypeOK, NEW h \in Object, Publish(h)
  PROVE  View(hv)' = View(h) \/ UNCHANGED hv
<1>1. \A n \in Nat : View([h EXCEPT !.rv = n]) = View(h)
  BY DEF View, Object
<1>2. hv.rv + 1 \in Nat
  BY DEF TypeOK, Object
<1> QED
  BY <1>1, <1>2 DEF Publish

\* A patch that is not refused replaces the object it was computed from.
LEMMA StatusPatchView ==
  ASSUME TypeOK, SafetyInv, CycleInv, pc \in {"limit", "certificate", "unset"}, StatusPatch
  PROVE  Cycle!Reconciled \/ UNCHANGED hv
<1> DEFINE h == MergePatch(hv, base, obj)
<1>1. CASE ~Locked
  BY <1>1 DEF StatusPatch
<1>2. CASE Locked
  <2>1. base = hv /\ pc \in {"limit", "certificate"}
    <3>1. base.rv \in Nat /\ hv.rv \in Nat
      BY DEF TypeOK, Object
    <3>2. base = hv
      BY <1>2 DEF SafetyInv, LockSound, KnownVersions, Locked
    <3>3. pc # "unset"
      BY <1>2, <3>1 DEF SafetyInv, StatusInv, Locked
    <3> QED
      BY <3>2, <3>3
  <2>2. Cycle!Outcome(View(hv), View(obj))
    BY <2>1 DEF CycleInv
  <2>3. hv \in Object /\ obj \in Object /\ h \in Object
    BY MergePatchType DEF TypeOK
  <2>4. obj.version = hv.version /\ obj.reboot = hv.reboot
    BY <2>2, <2>3, ViewFields, OutcomeKeepsRequest
  <2>5. h = [hv EXCEPT !.os = obj.os, !.retry = obj.retry,
                       !.inProgress = obj.inProgress, !.installed = obj.installed,
                       !.cond = obj.cond, !.others = obj.others]
    BY <1>2, MergeAccepted DEF SafetyInv
  <2>6. View(h) = View(obj)
    <3>1. /\ h.version = obj.version /\ h.reboot = obj.reboot /\ h.os = obj.os
          /\ h.retry = obj.retry /\ h.installed = obj.installed
          /\ h.cond = obj.cond /\ h.others = obj.others
          /\ h.inProgress = obj.inProgress
      BY <2>3, <2>4, <2>5 DEF Object
    <3>2. View(h).rv = 0 /\ View(obj).rv = 0
      BY <2>3 DEF View, Object
    <3> HIDE DEF h
    <3> QED
      BY <2>3, <3>1, <3>2, ViewFields, SameObject
  <2>7. View(hv)' = View(h) \/ UNCHANGED hv
    BY <1>2, <2>3, PublishView DEF StatusPatch
  <2> QED
    BY <2>2, <2>6, <2>7 DEF Cycle!Reconciled
<1> QED
  BY <1>1, <1>2

LEMMA StepCycle ==
  TypeOK /\ SafetyInv /\ CycleInv /\ [Next]_vars => [Cycle!Next]_(View(hv))
<1> SUFFICES ASSUME TypeOK, SafetyInv, CycleInv, [Next]_vars
             PROVE  Cycle!Next \/ View(hv)' = View(hv)
  OBVIOUS
<1>1. CASE UNCHANGED hv
  BY <1>1
<1>2. CASE PatchRetryReset \/ PatchUnsetVersion \/ PatchStatus
  <2>1. pc \in {"limit", "certificate", "unset"} /\ StatusPatch
    BY <1>2 DEF PatchRetryReset, PatchUnsetVersion, PatchStatus
  <2> QED
    BY <1>1, <2>1, StatusPatchView DEF Cycle!Next
<1>3. CASE EditSpec
  <2>1. PICK v \in Version, r \in BOOLEAN :
          Publish([hv EXCEPT !.version = v, !.reboot = r])
    BY <1>3 DEF EditSpec
  <2> DEFINE h == [hv EXCEPT !.version = v, !.reboot = r]
  <2>2. h \in Object /\ View(h) = [View(hv) EXCEPT !.version = v, !.reboot = r]
    BY DEF View, TypeOK, Object
  <2>3. View(hv)' = View(h) \/ UNCHANGED hv
    BY <2>1, <2>2, PublishView
  <2> QED
    BY <1>1, <2>2, <2>3 DEF Cycle!Next, Cycle!Requested, Version
<1>4. CASE OtherWriter
  <2> DEFINE h == [hv EXCEPT !.others = @ + 1]
  <2>1. h \in Object /\ View(h) = [View(hv) EXCEPT !.others = @ + 1]
    <3>1. hv \in Object /\ hv.others + 1 \in Nat
      BY DEF TypeOK, Object
    <3>2. \A n \in Nat : /\ [hv EXCEPT !.others = n] \in Object
                        /\ View([hv EXCEPT !.others = n]) = [View(hv) EXCEPT !.others = n]
      BY <3>1 DEF View, Object
    <3> QED
      BY <3>1, <3>2, ViewFields
  <2>2. View(hv)' = View(h) \/ UNCHANGED hv
    BY <1>4, <2>1, PublishView DEF OtherWriter
  <2> QED
    BY <1>1, <2>1, <2>2 DEF Cycle!Next, Cycle!WrittenByOthers
<1>5. Reconcile => UNCHANGED hv \/ PatchRetryReset \/ PatchUnsetVersion \/ PatchStatus
  BY DEF Reconcile, Get, EarlyReturn, SkipUpdate, RetryLimitReached, GetUnitByName,
     GetUnitFails, UpdateIsRunning, UpdateHasFailed, UpdateHasFinished,
     UpdateAlreadyRunning, StartUpdate, StartUnitFails, SysUpdateReturns, PatchNotSent,
     store
<1>6. Environment => UNCHANGED hv \/ EditSpec \/ OtherWriter
  BY DEF Environment, CacheSync, Crash, UnitStarts, UnitSucceeds, UnitFails,
     RequestedReboot, HostReboot, Boot, store
<1>7. UNCHANGED vars => UNCHANGED hv
  BY DEF vars, store
<1> QED
  BY <1>1, <1>2, <1>3, <1>4, <1>5, <1>6, <1>7 DEF Next

\* Whatever the caches hold, whoever else writes, and wherever the agent or the
\* host dies, the Hypervisor object goes through the life cycle of UpdateCycle, one
\* atomic step at a time.
THEOREM RefinesCycle == Spec => ImplementsCycle
<1>1. TypeOK /\ SafetyInv /\ CycleInv /\ [Next]_vars => CycleInv'
  <2>1. CycleInv /\ UNCHANGED vars => CycleInv'
    BY CycleFrame DEF vars
  <2> QED
    BY <2>1, ReconcileCycle, EnvironmentCycle DEF Next
<1>2. Spec => []TypeOK
  BY TypeCorrect
<1>3. Spec => []SafetyInv
  BY SafetyInvariant
<1> QED
  BY <1>1, <1>2, <1>3, InitCycle, StepCycle, PTL DEF Spec, ImplementsCycle, Cycle!Spec

=============================================================================
