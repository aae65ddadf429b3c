------------------------- MODULE SecretInstallProofs ------------------------
(***************************************************************************)
(* Proofs for SecretInstall, for all sets of files and links and without   *)
(* the bounds.                                                             *)
(***************************************************************************)
EXTENDS SecretInstall, TLAPS

USE ConstantsAssumption

\* The two halves of TypeOK.
Flags ==
  /\ certificate \in BOOLEAN /\ present \in BOOLEAN /\ install \in BOOLEAN
  /\ synced \in BOOLEAN /\ queued \in BOOLEAN /\ told \in BOOLEAN

Values ==
  /\ issued \in Nat /\ version \in 0..issued /\ last \in 0..issued /\ saved \in 0..issued
  /\ tls \in Reason /\ seen \in Reason /\ pc \in PC
  /\ todo \subseteq Targets /\ open \in Targets \cup {None}
  /\ files \in [Files -> 0..issued] /\ links \in [Links -> LinkState]
  /\ writes \in Nat /\ faults \in Nat

\* Every action keeps the flags Boolean (all of Next).
LEMMA FlagsStep ==
  ASSUME Flags, [Next]_vars
  PROVE  Flags'
<1> USE DEF Flags, api, status, disk, local
<1>1. CASE Reconcile
  BY <1>1, Zenon DEF Reconcile
<1>2. CASE ReconcileSkips \/ ReconcileFails
  BY <1>2, Zenon DEF ReconcileSkips, ReconcileFails, Fault
<1>3. CASE ReportInstalling
  BY <1>3, Zenon DEF ReportInstalling, SetCondition, Goto
<1>4. CASE ReportFails
  BY <1>4, Zenon DEF ReportFails, SetConditionFails, Returns, Fault
<1>5. ASSUME NEW f \in Files, Truncate(f)
      PROVE  Flags'
  BY <1>5, Zenon DEF Truncate, Turn
<1>6. ASSUME NEW f \in Files, WriteFile(f)
      PROVE  Flags'
  BY <1>6, Zenon DEF WriteFile, Turn
<1>7. ASSUME NEW l \in Links, LinkIsCorrect(l) \/ RemoveLink(l) \/ Symlink(l)
      PROVE  Flags'
  BY <1>7, Zenon DEF LinkIsCorrect, RemoveLink, Symlink, Turn
<1>8. ASSUME NEW t \in Targets, UpdateFails(t)
      PROVE  Flags'
  BY <1>8, Zenon DEF UpdateFails, Turn, Fault
<1>9. CASE UpdateDone
  BY <1>9, Zenon DEF UpdateDone, Goto
<1>10. CASE ReportUpdateFailed
  BY <1>10, Zenon DEF ReportUpdateFailed, SetCondition, Returns
<1>11. CASE StartUpdateTLS \/ StartUpdateTLSFails
  BY <1>11, Zenon DEF StartUpdateTLS, StartUpdateTLSFails, Goto, Fault
<1>12. CASE ReportReloadFailed
  BY <1>12, Zenon DEF ReportReloadFailed, SetCondition, Goto
<1>13. CASE StartLibvirtd \/ StartLibvirtdFails
  BY <1>13, Zenon DEF StartLibvirtd, StartLibvirtdFails, Goto, Returns, Fault
<1>14. CASE Save \/ Remember
  BY <1>14, Zenon DEF Save, Remember, Goto, Fault
<1>15. CASE ReportReady
  BY <1>15, Zenon DEF ReportReady, SetCondition, Returns
<1>16. CASE Crash
  BY <1>16, Zenon DEF Crash, Fault
<1>17. CASE EnsureCertificate \/ DeleteSecret \/ EditSpec \/ OtherWriter \/ CacheSync
  BY <1>17, Zenon DEF EnsureCertificate, DeleteSecret, EditSpec, OtherWriter, CacheSync
<1>18. CASE Issue
  BY <1>18, Zenon DEF Issue
<1>19. CASE UNCHANGED vars
  BY <1>19, Zenon DEF vars
<1> QED
  BY <1>1, <1>2, <1>3, <1>4, <1>5, <1>6, <1>7, <1>8, <1>9, <1>10, <1>11, <1>12,
     <1>13, <1>14, <1>15, <1>16, <1>17, <1>18, <1>19
  DEF Next, Agent, UpdateTLSCertificate

\* Every action keeps the other types (all of Next).
LEMMA ValuesStep ==
  ASSUME Values, [Next]_vars
  PROVE  Values'
<1> USE DEF Values, Targets, api, status, disk, local, Reason, PC, LinkState
<1>1. CASE Reconcile
  BY <1>1 DEF Reconcile
<1>2. CASE ReconcileSkips \/ ReconcileFails
  BY <1>2 DEF ReconcileSkips, ReconcileFails, Fault
<1>3. CASE ReportInstalling
  BY <1>3 DEF ReportInstalling, SetCondition, Goto
<1>4. CASE ReportFails
  BY <1>4 DEF ReportFails, SetConditionFails, Returns, Fault
<1>5. ASSUME NEW f \in Files, Truncate(f)
      PROVE  Values'
  BY <1>5 DEF Truncate, Turn
<1>6. ASSUME NEW f \in Files, WriteFile(f)
      PROVE  Values'
  BY <1>6 DEF WriteFile, Turn
<1>7. ASSUME NEW l \in Links, LinkIsCorrect(l) \/ RemoveLink(l) \/ Symlink(l)
      PROVE  Values'
  BY <1>7 DEF LinkIsCorrect, RemoveLink, Symlink, Turn
<1>8. ASSUME NEW t \in Targets, UpdateFails(t)
      PROVE  Values'
  BY <1>8 DEF UpdateFails, Turn, Fault
<1>9. CASE UpdateDone
  BY <1>9 DEF UpdateDone, Goto
<1>10. CASE ReportUpdateFailed
  BY <1>10 DEF ReportUpdateFailed, SetCondition, Returns
<1>11. CASE StartUpdateTLS \/ StartUpdateTLSFails
  BY <1>11 DEF StartUpdateTLS, StartUpdateTLSFails, Goto, Fault
<1>12. CASE ReportReloadFailed
  BY <1>12 DEF ReportReloadFailed, SetCondition, Goto
<1>13. CASE StartLibvirtd \/ StartLibvirtdFails
  BY <1>13 DEF StartLibvirtd, StartLibvirtdFails, Goto, Returns, Fault
<1>14. CASE Save \/ Remember
  BY <1>14 DEF Save, Remember, Goto, Fault
<1>15. CASE ReportReady
  BY <1>15 DEF ReportReady, SetCondition, Returns
<1>16. CASE Crash
  BY <1>16 DEF Crash, Fault
<1>17. CASE EnsureCertificate \/ DeleteSecret \/ EditSpec \/ OtherWriter \/ CacheSync
  BY <1>17 DEF EnsureCertificate, DeleteSecret, EditSpec, OtherWriter, CacheSync
<1>18. CASE Issue
  <2>1. issued' = issued + 1 /\ 0..issued \subseteq 0..issued'
    BY <1>18 DEF Issue
  <2>2. files' \in [Files -> 0..issued']
    BY <1>18, <2>1 DEF Issue
  <2> QED
    BY <1>18, <2>1, <2>2 DEF Issue
<1>19. CASE UNCHANGED vars
  BY <1>19 DEF vars
<1> QED
  BY <1>1, <1>2, <1>3, <1>4, <1>5, <1>6, <1>7, <1>8, <1>9, <1>10, <1>11, <1>12,
     <1>13, <1>14, <1>15, <1>16, <1>17, <1>18, <1>19
  DEF Next, Agent, UpdateTLSCertificate

\* Every variable keeps its type (the state of SecretReconciler, the files and
\* the objects).
THEOREM TypeCorrect == Spec => []TypeOK
<1>1. TypeOK <=> Flags /\ Values
  BY DEF TypeOK, Flags, Values
<1>2. Init => Flags
  BY Zenon DEF Init, Flags
<1>3. Init => Values
  BY DEF Init, Values, Reason, PC, Targets
<1> QED
  BY <1>1, <1>2, <1>3, FlagsStep, ValuesStep, PTL DEF Spec

\* A patch that passes the lock sets the condition, and the cached object is
\* outdated unless it has it too (setTLSStatusCondition).
LEMMA SetConditionWorks ==
  ASSUME NEW r, SetCondition(r), synced => seen = tls
  PROVE  tls' = r /\ seen' = seen /\ (synced' => seen' = tls')
BY DEF SetCondition, Locked

\* A step that touches neither file, link nor unit leaves what is installed.
LEMMA DiskSame ==
  ASSUME UNCHANGED <<files, links, told>>
  PROVE  \A v : (Whole(v)' <=> Whole(v)) /\ (Installed(v)' <=> Installed(v))
BY DEF Whole, Installed

\* The invariant is inductive relative to the types (all of Next).
LEMMA InstallStep ==
  ASSUME TypeOK, TypeOK', InstallInv, [Next]_vars
  PROVE  InstallInv'
<1> USE DEF InstallInv, ReadyIsInstalled, RecordIsInstalled, NotReadyMeanwhile,
            Progress, RecordsAreOlder, Ready, TypeOK, api, status, disk, local
<1>1. CASE Reconcile
  BY <1>1, DiskSame DEF Reconcile
<1>2. CASE ReconcileSkips \/ ReconcileFails
  BY <1>2, DiskSame DEF ReconcileSkips, ReconcileFails, Fault
<1>3. CASE ReportInstalling
  <2>1. Files \ todo' = {} /\ Links \ todo' = {}
    BY <1>3 DEF ReportInstalling, Targets
  <2> QED
    BY <1>3, <2>1, SetConditionWorks, DiskSame DEF ReportInstalling, Goto
<1>4. CASE ReportFails
  BY <1>4, DiskSame DEF ReportFails, SetConditionFails, Returns, Fault
<1>5. ASSUME NEW f \in Files, Truncate(f)
      PROVE  InstallInv'
  BY <1>5 DEF Truncate, Turn
<1>6. ASSUME NEW f \in Files, WriteFile(f)
      PROVE  InstallInv'
  BY <1>6 DEF WriteFile, Turn
<1>7. ASSUME NEW l \in Links, LinkIsCorrect(l)
      PROVE  InstallInv'
  <2>1. /\ \A f \in Files \ todo' : files'[f] = version'
        /\ \A k \in Links \ todo' : links'[k] = "right"
    BY <1>7 DEF LinkIsCorrect, Turn
  <2> QED
    BY <1>7, <2>1, DiskSame DEF LinkIsCorrect, Turn
<1>8. ASSUME NEW l \in Links, RemoveLink(l)
      PROVE  InstallInv'
  BY <1>8 DEF RemoveLink, Turn
<1>9. ASSUME NEW l \in Links, Symlink(l)
      PROVE  InstallInv'
  BY <1>9 DEF Symlink, Turn
<1>10. ASSUME NEW t \in Targets, UpdateFails(t)
      PROVE  InstallInv'
  BY <1>10, DiskSame DEF UpdateFails, Turn, Fault
<1>11. CASE UpdateDone
  <2>1. Whole(version)
    BY <1>11 DEF UpdateDone, Goto, Whole
  <2> QED
    BY <1>11, <2>1, DiskSame DEF UpdateDone, Goto
<1>12. CASE ReportUpdateFailed
  BY <1>12, SetConditionWorks, DiskSame DEF ReportUpdateFailed, Returns
<1>13. CASE StartUpdateTLS
  <2>1. told'
    BY <1>13, Zenon DEF StartUpdateTLS
  <2>2. \A v : Whole(v) => Installed(v)'
    BY <1>13, <2>1 DEF StartUpdateTLS, Whole, Installed
  <2>3. \A v : Installed(v) => Installed(v)'
    BY <2>2 DEF Installed
  <2> QED
    BY <1>13, <2>2, <2>3 DEF StartUpdateTLS, Goto
<1>14. CASE StartUpdateTLSFails
  BY <1>14, DiskSame DEF StartUpdateTLSFails, Goto, Fault
<1>15. CASE ReportReloadFailed
  BY <1>15, SetConditionWorks, DiskSame DEF ReportReloadFailed, Goto
<1>16. CASE StartLibvirtd
  <2>1. told'
    BY <1>16, Zenon DEF StartLibvirtd
  <2>2. \A v : Whole(v) => Installed(v)'
    BY <1>16, <2>1 DEF StartLibvirtd, Whole, Installed
  <2>3. \A v : Installed(v) => Installed(v)'
    BY <2>2 DEF Installed
  <2> QED
    BY <1>16, <2>2, <2>3 DEF StartLibvirtd, Goto
<1>17. CASE StartLibvirtdFails
  BY <1>17, DiskSame DEF StartLibvirtdFails, Returns, Fault
<1>18. CASE Save
  BY <1>18, DiskSame DEF Save, Goto, Fault
<1>19. CASE Remember
  <2>1. Installed(version) /\ version' = version /\ last' = version /\ saved' = saved
    BY <1>19 DEF Remember, Goto
  <2>2. Installed(version)'
    BY <1>19, <2>1 DEF Remember, Installed, Whole
  <2>3. RecordIsInstalled'
    BY <1>19, <2>1, DiskSame DEF Remember
  <2> QED
    BY <1>19, <2>1, <2>2, <2>3, DiskSame DEF Remember, Goto
<1>20. CASE ReportReady
  BY <1>20, SetConditionWorks, DiskSame DEF ReportReady, Returns
<1>21. CASE Crash
  BY <1>21, DiskSame DEF Crash, Fault
<1>22. CASE EnsureCertificate
  BY <1>22, DiskSame DEF EnsureCertificate
<1>23. CASE Issue
  BY <1>23, DiskSame DEF Issue
<1>24. CASE DeleteSecret
  BY <1>24, DiskSame DEF DeleteSecret
<1>25. CASE EditSpec
  BY <1>25, DiskSame DEF EditSpec
<1>26. CASE OtherWriter
  BY <1>26, DiskSame DEF OtherWriter
<1>27. CASE CacheSync
  BY <1>27, DiskSame DEF CacheSync
<1>28. CASE UNCHANGED vars
  BY <1>28, DiskSame DEF vars
<1> QED
  BY <1>1, <1>2, <1>3, <1>4, <1>5, <1>6, <1>7, <1>8, <1>9, <1>10, <1>11, <1>12, <1>13, <1>14, <1>15, <1>16, <1>17, <1>18, <1>19, <1>20, <1>21, <1>22, <1>23, <1>24, <1>25, <1>26, <1>27, <1>28
  DEF Next, Agent, UpdateTLSCertificate, Targets

\* The inductive invariant of the installation (Reconcile of the Secret,
\* UpdateTLSCertificate, SetupWithManager).
THEOREM InstallInvariant == Spec => []InstallInv
<1>1. Init => InstallInv
  BY DEF Init, InstallInv, ReadyIsInstalled, RecordIsInstalled, NotReadyMeanwhile,
         Progress, RecordsAreOlder, Ready
<1> QED
  BY <1>1, InstallStep, TypeCorrect, PTL DEF Spec

\* A host whose condition says Ready has files of one version, all links, and
\* a unit that was started after the last change (setTLSStatusCondition).
THEOREM ReadyInstalled == Spec => []ReadyIsInstalled
<1>1. InstallInv => ReadyIsInstalled
  BY DEF InstallInv
<1> QED
  BY <1>1, InstallInvariant, PTL

\* The installation is never skipped for a Secret that is not completely
\* installed (lastResourceVersion and its copy on the disk).
THEOREM RecordInstalled == Spec => []RecordIsInstalled
<1>1. InstallInv => RecordIsInstalled
  BY DEF InstallInv
<1> QED
  BY <1>1, InstallInvariant, PTL

=============================================================================
