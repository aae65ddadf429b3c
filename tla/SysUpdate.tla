----------------------------- MODULE SysUpdate -----------------------------
(***************************************************************************)
(* Operating-system update of the node, as driven by the Hypervisor        *)
(* reconciler (internal/controller/hypervisor_controller.go, Reconcile)    *)
(* and SystemdConn.ReconcileSysUpdate (internal/systemd/systemd.go).       *)
(*                                                                         *)
(* The Hypervisor object lives in the API server (hv), the reconciler      *)
(* reads it from an informer cache that lags behind (cache, undelivered)   *)
(* and writes its status back with JSON merge patches that carry the       *)
(* resource version they were computed from.  StartUnit and the reboot     *)
(* happen before that patch, so their effect survives a failed patch.      *)
(* The sysupdate unit, the host and everyone else who writes the object    *)
(* are external.                                                           *)
(***************************************************************************)
EXTENDS Integers

CONSTANTS
  Versions,    \* operating-system versions (a unit systemd-sysupdate@v each)
  None,        \* the empty string: no version
  Env,         \* what the environment may do, a subset of EnvFeatures
  MaxFaults,   \* bound: failed calls, failed units, crashes, host reboots
  MaxEdits,    \* bound: edits of the spec
  MaxOther     \* bound: status writes of the other controllers

\* "queued": a start job may wait; "activating": a unit may be activating;
\* "respec": a request may be changed; "hostReboot": the host may reboot on its
\* own; "fastReboot": a requested reboot may overtake the rest of Reconcile.
EnvFeatures == {"queued", "activating", "respec", "hostReboot", "fastReboot"}

ASSUME ConstantsAssumption ==
  /\ None \notin Versions
  /\ Env \subseteq EnvFeatures
  /\ MaxFaults \in Nat /\ MaxEdits \in Nat /\ MaxOther \in Nat

VARIABLES
  hv,           \* the Hypervisor object in the API server
  cache,        \* the copy in the agent's informer cache
  undelivered,  \* versions of hv newer than some cache, not yet delivered
  pc,           \* where Reconcile is
  obj,          \* Reconcile's `hypervisor`
  base,         \* Reconcile's `base`
  seen,         \* the ActiveState ReconcileSysUpdate has read
  unit,         \* state of the sysupdate unit of every version
  disk,         \* versions that are installed on the disk
  running,      \* the booted version, r.osDescriptor of this process
  rebooting,    \* systemd-sysupdate-reboot.target has been started
  faults,       \* number of faults so far
  edits         \* number of spec edits so far

agent == <<pc, obj, base, seen>>
store == <<hv, cache, undelivered>>
host  == <<unit, disk, running, rebooting>>
vars  == <<store, agent, host, faults, edits>>

-----------------------------------------------------------------------------
(* The object, as far as the update protocol reads or writes it.           *)

RetryLimit == 3

Version == Versions \cup {None}

UpdateReason == {"None", "Running", "Completed", "Stopped"}

\* cond is the reason of condition OperatingSystemUpdate; others stands for the
\* conditions the other writers own and counts their writes.
Object ==
  [rv : Nat, version : Version, reboot : BOOLEAN, os : Version,
   retry : Int, inProgress : BOOLEAN, installed : Version,
   cond : UpdateReason, others : Nat]

\* The zero value of a Hypervisor variable.
ZeroObject ==
  [rv |-> 0, version |-> None, reboot |-> FALSE, os |-> None, retry |-> 0,
   inProgress |-> FALSE, installed |-> None,
   cond |-> "None", others |-> 0]

\* "queued": the start job waits, the unit is still reported as inactive.
\* "activating" stands for every state the code has no case of its own for.
UnitState == {"inactive", "queued", "activating", "active", "failed"}

SeenState == UnitState \ {"queued"}

\* Mutant: the state of the job is taken for the state of the unit.
ActiveStateOfJob(s) == s

ActiveState(s) == IF s = "queued" THEN "inactive" ELSE s

StartedStates ==
  {"active"} \cup (Env \cap {"queued", "activating"})

WantsUpdate(o) ==
  /\ o.version # None
  /\ o.version # o.os
  /\ o.version # o.installed

\* The OS descriptor is copied into the status once, while it is empty.
FillOS(o) == [o EXCEPT !.os = IF @ = None THEN running ELSE @]

\* Mutant: a failed update stays marked as in progress.
AfterSysUpdateKeepsFlag(o, isRunning, err) ==
  [o EXCEPT
     !.retry = IF err THEN @ - 1 ELSE @,
     !.cond = IF err THEN "Stopped"
              ELSE IF ~isRunning THEN "Completed"
              ELSE IF ~o.inProgress THEN "Running" ELSE @,
     !.installed = IF ~isRunning /\ ~err THEN o.version ELSE @,
     !.inProgress = IF err THEN @ ELSE isRunning]

\* What Reconcile makes of the result of ReconcileSysUpdate.
AfterSysUpdate(o, isRunning, err) ==
  [o EXCEPT
     !.retry = IF err THEN @ - 1 ELSE @,
     !.cond = IF err THEN "Stopped"
              ELSE IF ~isRunning THEN "Completed"
              ELSE IF ~o.inProgress THEN "Running" ELSE @,
     !.installed = IF ~isRunning /\ ~err THEN o.version ELSE @,
     !.inProgress = isRunning]

\* A merge patch holds the status fields that differ from base; the conditions
\* are one list, sent as a whole; the status subresource ignores the spec.
MergePatch(s, b, o) ==
  LET conditionsSent == o.cond # b.cond \/ o.others # b.others
  IN  [s EXCEPT
         !.os         = IF o.os # b.os THEN o.os ELSE @,
         !.retry      = IF o.retry # b.retry THEN o.retry ELSE @,
         !.inProgress = IF o.inProgress # b.inProgress THEN o.inProgress ELSE @,
         !.installed  = IF o.installed # b.installed THEN o.installed ELSE @,
         !.cond       = IF conditionsSent THEN o.cond ELSE @,
         !.others     = IF conditionsSent THEN o.others ELSE @]

\* The API server stores h under the next resource version; a write that
\* changes nothing is dropped.
Publish(h) ==
  LET stored == [h EXCEPT !.rv = hv.rv + 1]
  IN  \/ /\ h # hv
         /\ hv' = stored
         /\ undelivered' = undelivered \cup {stored}
      \/ /\ h = hv
         /\ UNCHANGED <<hv, undelivered>>

\* Mutant: a patch without MergeFromWithOptimisticLock.
NotLocked == TRUE

Locked == base.rv = hv.rv

-----------------------------------------------------------------------------
(* Reconcile.                                                              *)

Fault == faults < MaxFaults /\ faults' = faults + 1

\* Return from Reconcile; the locals die.
Return ==
  /\ pc' = "idle"
  /\ obj' = ZeroObject /\ base' = ZeroObject /\ seen' = "inactive"

\* r.Get from the cache, base, and the systemd section; without a systemd
\* connection the descriptor is not copied.
Get ==
  /\ pc = "idle"
  /\ base' = cache
  /\ \/ obj' = FillOS(cache) /\ UNCHANGED faults
     \/ obj' = cache /\ Fault
  /\ pc' = "loaded"
  /\ UNCHANGED <<store, host, seen, edits>>

\* ListUnitsByNames, the shutdown inhibition or Process fail.
EarlyReturn ==
  /\ pc = "loaded"
  /\ Fault
  /\ Return
  /\ UNCHANGED <<store, host, edits>>

SkipUpdate ==
  /\ pc = "loaded"
  /\ ~WantsUpdate(obj)
  /\ pc' = "certificate"
  /\ UNCHANGED <<store, host, obj, base, seen, faults, edits>>

\* Mutant: the retry count is not reset.
RetryNotReset ==
  /\ pc = "loaded"
  /\ WantsUpdate(obj) /\ obj.retry = 0
  /\ pc' = "limit"
  /\ UNCHANGED <<store, host, obj, base, seen, faults, edits>>

RetryLimitReached ==
  /\ pc = "loaded"
  /\ WantsUpdate(obj) /\ obj.retry = 0
  /\ obj' = [obj EXCEPT !.retry = RetryLimit]
  /\ pc' = "limit"
  /\ UNCHANGED <<store, host, base, seen, faults, edits>>

GetUnitByName ==
  /\ pc = "loaded"
  /\ WantsUpdate(obj) /\ obj.retry # 0
  /\ seen' = ActiveState(unit[obj.version])
  /\ pc' = "sysupdate"
  /\ UNCHANGED <<store, host, obj, base, faults, edits>>

SysUpdateReturns(isRunning, err) ==
  /\ obj' = AfterSysUpdate(obj, isRunning, err)
  /\ pc' = "certificate"
  /\ UNCHANGED <<store, base, seen, disk, running, edits>>

\* Mutant: the retry count is not tested before the attempt.
GetUnitFailsUntested ==
  /\ pc = "loaded"
  /\ WantsUpdate(obj)
  /\ Fault
  /\ SysUpdateReturns(FALSE, TRUE)
  /\ UNCHANGED <<unit, rebooting>>

\* Not connected to systemd, or the unit cannot be queried.
GetUnitFails ==
  /\ pc = "loaded"
  /\ WantsUpdate(obj) /\ obj.retry # 0
  /\ Fault
  /\ SysUpdateReturns(FALSE, TRUE)
  /\ UNCHANGED <<unit, rebooting>>

UpdateIsRunning ==
  /\ pc = "sysupdate"
  /\ obj.inProgress /\ seen \in {"active", "activating"}
  /\ SysUpdateReturns(seen = "active", FALSE)
  /\ UNCHANGED <<unit, rebooting, faults>>

\* Mutant: a failed unit is taken for a finished one.
FailureIgnored ==
  /\ pc = "sysupdate"
  /\ obj.inProgress /\ seen = "failed"
  /\ SysUpdateReturns(FALSE, FALSE)
  /\ UNCHANGED <<unit, rebooting, faults>>

UpdateHasFailed ==
  /\ pc = "sysupdate"
  /\ obj.inProgress /\ seen = "failed"
  /\ SysUpdateReturns(FALSE, TRUE)
  /\ UNCHANGED <<unit, rebooting, faults>>

\* Mutant: an inactive unit counts as finished before the update was started.
FinishedBeforeStart ==
  /\ pc = "sysupdate"
  /\ seen = "inactive"
  /\ rebooting' = (rebooting \/ obj.reboot)
  /\ SysUpdateReturns(FALSE, FALSE)
  /\ UNCHANGED <<unit, faults>>

UpdateHasFinished ==
  /\ pc = "sysupdate"
  /\ obj.inProgress /\ seen = "inactive"
  /\ rebooting' = (rebooting \/ obj.reboot)
  /\ SysUpdateReturns(FALSE, FALSE)
  /\ UNCHANGED <<unit, faults>>

UpdateAlreadyRunning ==
  /\ pc = "sysupdate"
  /\ ~obj.inProgress /\ seen = "active"
  /\ SysUpdateReturns(TRUE, FALSE)
  /\ UNCHANGED <<unit, rebooting, faults>>

\* StartUnit in mode "replace": a unit that is starting or up keeps running.
StartUpdate ==
  /\ pc = "sysupdate"
  /\ ~obj.inProgress /\ seen # "active"
  /\ \E s \in StartedStates :
       unit' = [unit EXCEPT ![obj.version] =
                  IF @ \in {"inactive", "failed"} THEN s ELSE @]
  /\ SysUpdateReturns(TRUE, FALSE)
  /\ UNCHANGED <<rebooting, faults>>

\* Mutant: the error of StartUnit is dropped.
StartErrorDropped ==
  /\ pc = "sysupdate"
  /\ \/ ~obj.inProgress /\ seen # "active"
     \/ obj.inProgress /\ seen = "inactive" /\ obj.reboot
  /\ Fault
  /\ SysUpdateReturns(TRUE, FALSE)
  /\ UNCHANGED <<unit, rebooting>>

\* StartUnit fails, for the update or for the reboot target.
StartUnitFails ==
  /\ pc = "sysupdate"
  /\ \/ ~obj.inProgress /\ seen # "active"
     \/ obj.inProgress /\ seen = "inactive" /\ obj.reboot
  /\ Fault
  /\ SysUpdateReturns(FALSE, TRUE)
  /\ UNCHANGED <<unit, rebooting>>

\* r.Status().Patch: refused unless the object still is the version of base.
StatusPatch ==
  \/ Locked /\ Publish(MergePatch(hv, base, obj))
  \/ ~Locked /\ UNCHANGED <<hv, undelivered>>

\* First patch of the retry-limit branch.  When it succeeds, obj holds the
\* server's answer and base stays what it was.
PatchRetryReset ==
  /\ pc = "limit"
  /\ StatusPatch
  /\ \/ /\ Locked
        /\ pc' = "unset"
        /\ obj' = [hv' EXCEPT !.version = None]
        /\ UNCHANGED <<base, seen>>
     \/ ~Locked /\ Return
  /\ UNCHANGED <<cache, host, faults, edits>>

\* Second patch of that branch, meant to unset the version.
PatchUnsetVersion ==
  /\ pc = "unset"
  /\ StatusPatch
  /\ Return
  /\ UNCHANGED <<cache, host, faults, edits>>

\* The patch at the end of Reconcile.
PatchStatus ==
  /\ pc = "certificate"
  /\ StatusPatch
  /\ Return
  /\ UNCHANGED <<cache, host, faults, edits>>

\* EnsureCertificate fails, or the API server does not answer a patch.
PatchNotSent ==
  /\ pc \in {"certificate", "limit", "unset"}
  /\ Fault
  /\ Return
  /\ UNCHANGED <<store, host, edits>>

\* The agent dies and is restarted.
Crash ==
  /\ pc # "idle"
  /\ Fault
  /\ Return
  /\ UNCHANGED <<store, host, edits>>

Reconcile ==
  \/ Get \/ EarlyReturn \/ SkipUpdate \/ RetryLimitReached
  \/ GetUnitByName \/ GetUnitFails
  \/ UpdateIsRunning \/ UpdateHasFailed \/ UpdateHasFinished
  \/ UpdateAlreadyRunning \/ StartUpdate \/ StartUnitFails
  \/ PatchRetryReset \/ PatchUnsetVersion \/ PatchStatus \/ PatchNotSent

-----------------------------------------------------------------------------
(* The environment.                                                        *)

\* The operator asks for a version.  Without "respec" it does so once.
EditSpec ==
  /\ edits < MaxEdits
  /\ edits' = edits + 1
  /\ \E v \in Version, r \in BOOLEAN :
       /\ hv.version = None \/ "respec" \in Env
       /\ Publish([hv EXCEPT !.version = v, !.reboot = r])
  /\ UNCHANGED <<cache, agent, host, faults>>

\* Another controller sets a condition of its own.
OtherWriter ==
  /\ hv.others < MaxOther
  /\ Publish([hv EXCEPT !.others = @ + 1])
  /\ UNCHANGED <<cache, agent, host, faults, edits>>

\* A watch event, or a relist that skips some, reaches the cache.
CacheSync ==
  /\ \E s \in undelivered :
       /\ cache' = s
       /\ undelivered' = {u \in undelivered : u.rv > s.rv}
  /\ UNCHANGED <<hv, agent, host, faults, edits>>

\* The start job leaves the queue, the unit finishes activation.
UnitStarts(v) ==
  /\ \/ unit[v] = "queued" /\ \E s \in StartedStates \ {"queued"} :
                                 unit' = [unit EXCEPT ![v] = s]
     \/ unit[v] = "activating" /\ unit' = [unit EXCEPT ![v] = "active"]
  /\ UNCHANGED <<store, agent, disk, running, rebooting, faults, edits>>

\* sysupdate has installed v; a oneshot unit does so while "activating".
UnitSucceeds(v) ==
  /\ unit[v] \in {"activating", "active"}
  /\ unit' = [unit EXCEPT ![v] = "inactive"]
  /\ disk' = disk \cup {v}
  /\ UNCHANGED <<store, agent, running, rebooting, faults, edits>>

UnitFails(v) ==
  /\ unit[v] \in {"activating", "active"}
  /\ Fault
  /\ unit' = [unit EXCEPT ![v] = "failed"]
  /\ UNCHANGED <<store, agent, disk, running, rebooting, edits>>

\* The host boots some installed version; the agent is started anew.
Boot ==
  /\ unit' = [v \in Versions |-> "inactive"]
  /\ running' \in disk
  /\ rebooting' = FALSE
  /\ Return
  /\ UNCHANGED <<store, disk, edits>>

RequestedReboot ==
  /\ rebooting
  /\ pc = "idle" \/ "fastReboot" \in Env
  /\ Boot
  /\ UNCHANGED faults

\* A reboot the agent has not asked for.
HostReboot ==
  /\ "hostReboot" \in Env
  /\ Fault
  /\ Boot

Environment ==
  \/ EditSpec \/ OtherWriter \/ CacheSync \/ Crash
  \/ \E v \in Versions : UnitStarts(v) \/ UnitSucceeds(v) \/ UnitFails(v)
  \/ RequestedReboot \/ HostReboot

-----------------------------------------------------------------------------

\* The status of a fresh object is empty: retry is 0, or the CRD's default.
Init ==
  /\ \E r \in {0, RetryLimit} :
       hv = [ZeroObject EXCEPT !.rv = 1, !.retry = r]
  /\ cache = hv /\ undelivered = {}
  /\ pc = "idle" /\ obj = ZeroObject /\ base = ZeroObject /\ seen = "inactive"
  /\ unit = [v \in Versions |-> "inactive"]
  /\ running \in Versions /\ disk = {running} /\ rebooting = FALSE
  /\ faults = 0 /\ edits = 0

Next == Reconcile \/ Environment

Spec == Init /\ [][Next]_vars

\* Reconcile is requeued after a minute or after an error and runs to its
\* end; the informer delivers; a started unit ends; a requested reboot comes.
Fairness ==
  /\ WF_vars(Reconcile)
  /\ WF_vars(CacheSync)
  /\ \A v \in Versions : WF_vars(UnitStarts(v) \/ UnitSucceeds(v) \/ UnitFails(v))
  /\ WF_vars(RequestedReboot)

FairSpec == Spec /\ Fairness

-----------------------------------------------------------------------------
(* Properties.                                                             *)

TypeOK ==
  /\ hv \in Object /\ cache \in Object /\ undelivered \subseteq Object
  /\ pc \in {"idle", "loaded", "sysupdate", "limit", "unset", "certificate"}
  /\ obj \in Object /\ base \in Object
  /\ seen \in SeenState
  /\ unit \in [Versions -> UnitState]
  /\ disk \in SUBSET Versions /\ running \in Versions
  /\ rebooting \in BOOLEAN
  /\ faults \in 0..MaxFaults /\ edits \in 0..MaxEdits

\* The retry counter Reconcile decrements on every failed attempt stays between
\* zero and the limit, whatever stale copy it was computed from: it is tested
\* against zero only, so below zero the limit would never be reached again.
RetryInRange == hv.retry \in 0..RetryLimit

\* The status tells one story: an update is marked in progress exactly when the
\* condition says Running, and a Completed condition names an installed version.
StatusCoherent ==
  /\ hv.inProgress <=> hv.cond = "Running"
  /\ hv.cond = "Completed" => hv.installed # None

\* A condition another controller has written is never taken back by a status
\* patch of Reconcile, which sends the whole list of conditions it has read.
NoLostCondition == [][hv'.others >= hv.others]_hv

\* The patch that is to unset the version reuses the base of the patch before
\* it, so it always carries an outdated resource version and is refused.
UnsetPatchIsRefused == pc = "unset" => ~Locked

\* A version recorded as installed is on the disk: ReconcileSysUpdate reads an
\* inactive unit of an update in progress as "Update has finished successfully".
InstalledIsOnDisk == hv.installed # None => hv.installed \in disk

\* The agent reboots the host only once the requested version is on the disk.
RebootAfterInstall ==
  [][~rebooting /\ rebooting' => obj.version \in disk]_vars

\* A requested version that is not the one in the status is installed, through
\* failures, conflicts, stale reads and crashes, unless the request is changed.
UpdateGetsInstalled ==
  \A v \in Versions :
    hv.version = v ~> \/ hv.installed = v /\ v \in disk
                      \/ hv.os = v
                      \/ hv.version # v

\* Reconcile skips a request as "current running version" only when it is.
SkipsOnlyRunningVersion ==
  pc = "loaded" /\ obj.version # None /\ obj.version = obj.os
    => obj.version = running

\* The object without its resource version.
View(o) == [o EXCEPT !.rv = 0]

Cycle == INSTANCE UpdateCycle WITH object <- View(hv)

\* Stale caches, refused patches, crashes and reboots never show: every change of
\* the object is a request, a write of another controller or one pass of Reconcile
\* over the very object it replaces.
ImplementsCycle == Cycle!Spec

-----------------------------------------------------------------------------
(* Strengthenings of the invariants above, for the proofs.                 *)

KnownVersions == undelivered \cup {hv, cache, base}

\* A copy with the resource version of the object is the object: a patch that
\* passes the optimistic lock is applied to what it was computed from.
LockSound ==
  /\ hv.rv >= 1
  /\ \A s \in KnownVersions : s.rv <= hv.rv /\ (s.rv = hv.rv => s = hv)

GoodStatus(o) ==
  /\ o.retry \in 0..RetryLimit
  /\ o.inProgress <=> o.cond = "Running"
  /\ o.cond = "Completed" => o.installed # None

StatusInv ==
  /\ \A s \in KnownVersions : GoodStatus(s)
  /\ GoodStatus(obj)
  /\ obj.others >= base.others
  /\ pc = "loaded" => obj.retry = base.retry /\ obj.version = base.version
  /\ pc = "sysupdate" => obj.retry # 0 /\ obj.version # None
  /\ pc = "limit" => obj.retry # base.retry
  /\ pc = "unset" => base.rv < hv.rv

SafetyInv == LockSound /\ StatusInv

Progressing(v) == unit[v] \in {"active", "failed"} \/ v \in disk

\* Holds when the environment leaves the request and the update alone.
SnapshotOnDisk(s) ==
  /\ s.version \in {None, hv.version}
  /\ s.inProgress => s.version # None /\ Progressing(s.version)
  /\ s.installed # None => s.installed \in disk

DiskInv ==
  /\ \A v \in Versions : unit[v] \in {"inactive", "active", "failed"}
  /\ \A s \in KnownVersions : SnapshotOnDisk(s)
  /\ pc # "unset" => SnapshotOnDisk(obj)
  /\ pc = "sysupdate" => /\ seen = "active" => Progressing(obj.version)
                         /\ seen = "inactive" /\ obj.inProgress
                              => obj.version \in disk
                         /\ seen # "activating"
  /\ rebooting => hv.version # None /\ hv.version \in disk
  /\ running \in disk

=============================================================================
