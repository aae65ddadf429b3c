--------------------------- MODULE SecretInstall ----------------------------
(***************************************************************************)
(* Installation of libvirt's TLS certificate                               *)
(* (internal/controller/secret_controller.go and                           *)
(* internal/certificates/manage_libvirt.go).  cert-manager issues a Secret *)
(* for the Certificate the agent creates.  The reconciler of the Secret    *)
(* writes its keys to several files, sets links, starts a systemd unit,    *)
(* remembers the resource version on the disk and in memory, and reports   *)
(* in the condition TLSCertificateInstalled.  A crash may come between any *)
(* two of these steps.                                                     *)
(***************************************************************************)
EXTENDS Naturals

CONSTANTS
  Files,        \* targets of secretToFileMap
  Links,        \* targets of symLinkMap
  None,         \* no target
  Missing,      \* <<v, f>>: version v of the Secret lacks the key of file f
  MaxVersions,  \* bound: versions of the Secret
  MaxWrites,    \* bound: writes of other controllers, edits of the spec
  MaxFaults     \* bound: failed calls and crashes

ASSUME ConstantsAssumption ==
  /\ Files \cap Links = {} /\ None \notin Files \cup Links
  /\ MaxVersions \in Nat /\ MaxWrites \in Nat /\ MaxFaults \in Nat

VARIABLES
  certificate, \* whether the Certificate exists
  issued,      \* latest version of the Secret the cache has shown
  present,     \* whether the Secret exists
  install,     \* Spec.InstallCertificate
  tls,         \* reason of the condition at the API server
  seen,        \* reason in the cached Hypervisor
  synced,      \* whether the cached Hypervisor is the latest one
  queued,      \* whether a request for the Secret is in the work queue
  pc,          \* where Reconcile is
  version,     \* secret.ResourceVersion of this Reconcile
  todo,        \* targets UpdateTLSCertificate has not finished
  open,        \* the target it is working on
  last,        \* r.lastResourceVersion, 0 for the empty string
  saved,       \* content of .last_resource_version, 0 for none
  files,       \* version in each file, 0 for none or a truncated file
  links,       \* what is at the place of each link
  told,        \* whether a unit was started since a file last changed
  writes, faults

api    == <<certificate, issued, present, install, writes>>
status == <<tls, seen, synced>>
disk   == <<files, links, saved>>
local  == <<version, todo, open>>
vars   == <<api, status, queued, pc, local, last, disk, told, faults>>

\* The reasons of the condition, "None" before the first.
Reason == {"None", "Installing", "FailedToUpdateTLSCertificate",
           "FailedToStartUpdateTLSService", "Ready"}

\* "file" is anything but a link; a "wrong" link points elsewhere.
LinkState == {"absent", "right", "wrong", "file"}

Targets == Files \cup Links

Fault == faults < MaxFaults /\ faults' = faults + 1

Ready == tls = "Ready"

\* All files are of version v and all links in place.
Whole(v) == /\ \A f \in Files : files[f] = v
            /\ \A l \in Links : links[l] = "right"

Installed(v) == Whole(v) /\ told

-----------------------------------------------------------------------------
(* setTLSStatusCondition.                                                  *)

\* Mutant: the patch carries no resource version.
Unlocked == TRUE

\* MergeFromWithOptimisticLock: the patch is refused unless it was computed
\* from the latest Hypervisor.
Locked == synced

\* The patch is the difference to the cached Hypervisor, which is empty when
\* that has the condition already.
SetCondition(reason) ==
  /\ Locked
  /\ tls' = IF seen = reason THEN tls ELSE reason
  /\ synced' = (synced /\ tls' = tls)
  /\ UNCHANGED seen

\* All attempts of RetryOnConflict meet a conflict, or a call fails.
SetConditionFails ==
  /\ \/ ~synced /\ UNCHANGED faults
     \/ Fault
  /\ UNCHANGED status

-----------------------------------------------------------------------------
(* SecretReconciler.Reconcile.                                             *)

Goto(from, to) == pc = from /\ pc' = to

\* A Reconcile without error is over, one with an error is queued again.
Returns(err) == pc' = "idle" /\ queued' = (queued \/ err)

\* Mutant: the resource version is remembered before the installation.
ReconcileRemembers ==
  /\ pc = "idle" /\ queued /\ present /\ install
  /\ pc' = IF issued = last THEN "ready" ELSE "installing"
  /\ queued' = FALSE
  /\ version' = issued
  /\ saved' = issued
  /\ UNCHANGED <<api, status, todo, open, last, files, links, told, faults>>

\* A request is taken from the queue and the Secret read.
Reconcile ==
  /\ pc = "idle" /\ queued /\ present /\ install
  /\ pc' = IF issued = last THEN "ready" ELSE "installing"
  /\ queued' = FALSE
  /\ version' = issued
  /\ UNCHANGED <<api, status, todo, open, last, disk, told, faults>>

\* There is no Secret, or no certificate is to be installed.
ReconcileSkips ==
  /\ pc = "idle" /\ queued /\ ~(present /\ install)
  /\ queued' = FALSE
  /\ UNCHANGED <<api, status, pc, local, last, disk, told, faults>>

\* The Hypervisor cannot be read.
ReconcileFails ==
  /\ pc = "idle" /\ queued /\ present /\ Fault
  /\ UNCHANGED <<api, status, queued, pc, local, last, disk, told>>

ReportInstalling ==
  /\ Goto("installing", "files")
  /\ SetCondition("Installing")
  /\ todo' = Targets
  /\ open' = None
  /\ UNCHANGED <<api, queued, version, last, disk, told, faults>>

\* A report that fails ends Reconcile with its error.
ReportFails ==
  /\ pc \in {"installing", "updateFailed", "reloadFailed", "ready"}
  /\ SetConditionFails
  /\ Returns(TRUE)
  /\ UNCHANGED <<api, local, last, disk, told>>

-----------------------------------------------------------------------------
(* UpdateTLSCertificate.  The maps are walked in no particular order; the  *)
(* links come after the files.                                             *)

Turn(t) ==
  /\ pc = "files" /\ t \in todo /\ open \in {None, t}
  /\ t \in Links => todo \cap Files = {}

\* os.WriteFile first truncates the file.
Truncate(f) ==
  /\ Turn(f) /\ open = None /\ <<version, f>> \notin Missing
  /\ open' = f
  /\ files' = [files EXCEPT ![f] = 0]
  /\ told' = FALSE
  /\ UNCHANGED <<api, status, queued, pc, version, todo, last, links, saved, faults>>

WriteFile(f) ==
  /\ Turn(f) /\ open = f
  /\ files' = [files EXCEPT ![f] = version]
  /\ todo' = todo \ {f}
  /\ open' = None
  /\ UNCHANGED <<api, status, queued, pc, version, last, links, saved, told, faults>>

LinkIsCorrect(l) ==
  /\ Turn(l) /\ links[l] = "right"
  /\ todo' = todo \ {l}
  /\ UNCHANGED <<api, status, queued, pc, version, open, last, disk, told, faults>>

RemoveLink(l) ==
  /\ Turn(l) /\ links[l] = "wrong"
  /\ links' = [links EXCEPT ![l] = "absent"]
  /\ open' = l
  /\ UNCHANGED <<api, status, queued, pc, version, todo, last, files, saved, told, faults>>

Symlink(l) ==
  /\ Turn(l) /\ links[l] = "absent"
  /\ links' = [links EXCEPT ![l] = "right"]
  /\ todo' = todo \ {l}
  /\ open' = None
  /\ UNCHANGED <<api, status, queued, pc, version, last, files, saved, told, faults>>

\* The key is missing, a file is in the place of the link, or a call fails;
\* what was written so far stays.
UpdateFails(t) ==
  /\ Turn(t)
  /\ \/ /\ open = None /\ (<<version, t>> \in Missing \/ (t \in Links /\ links[t] = "file"))
        /\ UNCHANGED faults
     \/ Fault
  /\ pc' = "updateFailed"
  /\ UNCHANGED <<api, status, queued, local, last, disk, told>>

UpdateDone ==
  /\ Goto("files", "reload")
  /\ todo = {}
  /\ UNCHANGED <<api, status, queued, local, last, disk, told, faults>>

\* Mutant: the error is reported as the reason.
ReportErrorAsReason ==
  /\ pc = "updateFailed"
  /\ SetCondition("missing data for secret key")
  /\ Returns(TRUE)
  /\ UNCHANGED <<api, local, last, disk, told, faults>>

\* Reconcile reports the failure and returns it.
ReportUpdateFailed ==
  /\ pc = "updateFailed"
  /\ SetCondition("FailedToUpdateTLSCertificate")
  /\ Returns(TRUE)
  /\ UNCHANGED <<api, local, last, disk, told, faults>>

-----------------------------------------------------------------------------
(* The units, the resource version and the final report.                   *)

StartUpdateTLS ==
  /\ Goto("reload", "save")
  /\ told' = TRUE
  /\ UNCHANGED <<api, status, queued, local, last, disk, faults>>

StartUpdateTLSFails ==
  /\ Goto("reload", "reloadFailed")
  /\ Fault
  /\ UNCHANGED <<api, status, queued, local, last, disk, told>>

ReportReloadFailed ==
  /\ Goto("reloadFailed", "libvirtd")
  /\ SetCondition("FailedToStartUpdateTLSService")
  /\ UNCHANGED <<api, queued, local, last, disk, told, faults>>

\* Instead of the unit that updates the certificate libvirtd is started.
StartLibvirtd ==
  /\ Goto("libvirtd", "save")
  /\ told' = TRUE
  /\ UNCHANGED <<api, status, queued, local, last, disk, faults>>

\* Mutant: the error is logged as that of the first unit is.
StartLibvirtdIgnored ==
  /\ pc = "libvirtd" /\ pc' = "save"
  /\ Fault
  /\ UNCHANGED <<api, status, queued, local, last, disk, told>>

StartLibvirtdFails ==
  /\ pc = "libvirtd"
  /\ Fault
  /\ Returns(TRUE)
  /\ UNCHANGED <<api, status, local, last, disk, told>>

\* A failure, which may leave the file as it was or empty, is only logged.
Save ==
  /\ Goto("save", "remember")
  /\ \/ saved' = version /\ UNCHANGED faults
     \/ saved' \in {saved, 0} /\ Fault
  /\ UNCHANGED <<api, status, queued, local, last, files, links, told>>

Remember ==
  /\ Goto("remember", "ready")
  /\ last' = version
  /\ UNCHANGED <<api, status, queued, local, disk, told, faults>>

ReportReady ==
  /\ pc = "ready"
  /\ SetCondition("Ready")
  /\ Returns(FALSE)
  /\ UNCHANGED <<api, local, last, disk, told, faults>>

\* Mutant: a crash leaves no request behind.
CrashForgets ==
  /\ Fault
  /\ pc' = "idle"
  /\ last' = saved
  /\ open' = None
  /\ UNCHANGED <<api, status, queued, version, todo, disk, told>>

\* The agent dies and starts again: SetupWithManager reads the file, and the
\* first list of the informer queues a request.
Crash ==
  /\ Fault
  /\ pc' = "idle"
  /\ last' = saved
  /\ open' = None
  /\ queued' = present
  /\ UNCHANGED <<api, status, version, todo, disk, told>>

-----------------------------------------------------------------------------
(* The Certificate, cert-manager, the other writers and the cache.         *)

\* The reconciler of the Hypervisor creates the Certificate.
EnsureCertificate ==
  /\ ~certificate /\ certificate' = TRUE
  /\ UNCHANGED <<issued, present, install, writes, status, queued, pc, local, last, disk, told, faults>>

\* The Secret is issued or renewed; its event queues a request.
Issue ==
  /\ certificate /\ issued < MaxVersions
  /\ issued' = issued + 1
  /\ present' = TRUE
  /\ queued' = TRUE
  /\ UNCHANGED <<certificate, install, writes, status, pc, local, last, disk, told, faults>>

DeleteSecret ==
  /\ present /\ writes < MaxWrites
  /\ present' = FALSE
  /\ queued' = TRUE
  /\ writes' = writes + 1
  /\ UNCHANGED <<certificate, issued, install, status, pc, local, last, disk, told, faults>>

\* A change of the spec queues no request for the Secret.
EditSpec ==
  /\ writes < MaxWrites
  /\ install' = ~install
  /\ writes' = writes + 1
  /\ UNCHANGED <<certificate, issued, present, status, queued, pc, local, last, disk, told, faults>>

OtherWriter ==
  /\ synced /\ writes < MaxWrites
  /\ synced' = FALSE
  /\ writes' = writes + 1
  /\ UNCHANGED <<certificate, issued, present, install, tls, seen, queued, pc, local, last, disk, told, faults>>

CacheSync ==
  /\ ~synced /\ synced' = TRUE /\ seen' = tls
  /\ UNCHANGED <<api, tls, queued, pc, local, last, disk, told, faults>>

-----------------------------------------------------------------------------
Init ==
  /\ certificate = FALSE /\ issued = 0 /\ present = FALSE
  /\ install \in BOOLEAN
  /\ tls = "None" /\ seen = "None" /\ synced = TRUE
  /\ queued = FALSE /\ pc = "idle"
  /\ version = 0 /\ todo = {} /\ open = None
  /\ last = 0 /\ saved = 0
  /\ files = [f \in Files |-> 0]
  /\ links \in [Links -> LinkState]
  /\ told = FALSE
  /\ writes = 0 /\ faults = 0

UpdateTLSCertificate ==
  \/ \E f \in Files : Truncate(f) \/ WriteFile(f)
  \/ \E l \in Links : LinkIsCorrect(l) \/ RemoveLink(l) \/ Symlink(l)
  \/ \E t \in Targets : UpdateFails(t)
  \/ UpdateDone

Agent ==
  \/ Reconcile \/ ReconcileSkips \/ ReconcileFails
  \/ ReportInstalling \/ ReportFails
  \/ UpdateTLSCertificate \/ ReportUpdateFailed
  \/ StartUpdateTLS \/ StartUpdateTLSFails \/ ReportReloadFailed
  \/ StartLibvirtd \/ StartLibvirtdFails
  \/ Save \/ Remember \/ ReportReady

Next ==
  \/ Agent \/ Crash
  \/ EnsureCertificate \/ Issue \/ DeleteSecret
  \/ EditSpec \/ OtherWriter \/ CacheSync

Spec == Init /\ [][Next]_vars

\* The worker of the controller runs and requeues, the cache is delivered.
FairSpec == Spec /\ WF_vars(Agent) /\ WF_vars(CacheSync)

-----------------------------------------------------------------------------
(* Properties.                                                             *)

PC == {"idle", "installing", "files", "updateFailed", "reload", "reloadFailed",
       "libvirtd", "save", "remember", "ready"}

\* Every variable has its type; the versions are those that were issued.
TypeOK ==
  /\ certificate \in BOOLEAN /\ present \in BOOLEAN /\ install \in BOOLEAN
  /\ issued \in Nat /\ version \in 0..issued /\ last \in 0..issued /\ saved \in 0..issued
  /\ tls \in Reason /\ seen \in Reason /\ synced \in BOOLEAN
  /\ queued \in BOOLEAN /\ pc \in PC
  /\ todo \subseteq Targets /\ open \in Targets \cup {None}
  /\ files \in [Files -> 0..issued] /\ links \in [Links -> LinkState]
  /\ told \in BOOLEAN /\ writes \in Nat /\ faults \in Nat

\* While the condition says Ready, all files are of one version, all links are
\* in place and a unit was started after the last change, although a renewal,
\* a failure or a crash may have interrupted an installation and the report
\* before it was computed from a cached object (setTLSStatusCondition).
ReadyIsInstalled == Ready => \E v \in 1..issued : Installed(v)

\* The resource version in memory and the one on the disk, by which a
\* reconcile and a restarted agent skip the installation, are never those of
\* the present Secret unless that is installed completely.
RecordIsInstalled ==
  \A v \in {last, saved} : v = 0 \/ v < issued \/ Installed(v)

\* The condition does not say Ready between the first change of a file and the
\* end of the installation.
NotReadyMeanwhile ==
  pc \in {"files", "updateFailed", "reload", "reloadFailed", "libvirtd", "save", "remember"}
    => ~Ready

\* What an installation has done by the time it gets to its next step.
Progress ==
  /\ pc = "files" => /\ \A f \in Files \ todo : files[f] = version
                     /\ \A l \in Links \ todo : links[l] = "right"
  /\ pc \in {"reload", "reloadFailed", "libvirtd"} => Whole(version)
  /\ pc \in {"save", "remember", "ready"} => Installed(version)

\* The records are older than the version that is being installed.
RecordsAreOlder ==
  /\ pc # "idle" => version > 0
  /\ pc \notin {"idle", "ready"} => last < version
  /\ pc = "ready" => last = version
  /\ saved <= IF pc = "remember" THEN version ELSE last

\* The inductive invariant: why neither report nor record runs ahead of the
\* files (Reconcile of the Secret, UpdateTLSCertificate).
InstallInv ==
  /\ ReadyIsInstalled /\ RecordIsInstalled
  /\ NotReadyMeanwhile /\ Progress /\ RecordsAreOlder
  /\ synced => seen = tls
  /\ present => issued > 0

\* As long as installation is wanted and nothing is in the place of a link, a
\* Secret with all its keys is installed and reported Ready, through failures,
\* conflicts and crashes, unless it is replaced or deleted.
CertificateGetsInstalled ==
  [](install /\ \A l \in Links : links[l] # "file") =>
    \A v \in 1..MaxVersions :
      (\A f \in Files : <<v, f>> \notin Missing) =>
        ((present /\ issued = v) ~>
           (~present \/ issued # v \/ (Ready /\ Installed(v))))

=============================================================================
