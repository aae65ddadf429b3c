# kvm-node-agent in TLA+

The agent runs on every KVM node. It reconciles the node's `Hypervisor` object
with the host (operating-system updates, evacuation before a shutdown, TLS
certificates), and follows libvirt's domain events. This directory models the
parts of it in which goroutines, the Kubernetes API, systemd and libvirt meet,
checks them with TLC and proves the main invariants with TLAPS.

## The system

| Part | Source | State | Operations | Module |
|---|---|---|---|---|
| OS update and status patches | `hypervisor_controller.go` Reconcile, `systemd.go` ReconcileSysUpdate | Hypervisor spec and status, informer cache, sysupdate units, running version | read, start unit, read unit, reboot, retry limit, status patch | `SysUpdate` |
| Shutdown inhibition and evacuation | `systemd.go` Enable/DisableShutdownInhibit, Reconcile, `eviction.go` | descriptor, signal channel, stop channel, callback goroutine, Eviction object | enable, disable, signal, callback, release | `ShutdownInhibit` |
| Migration watch | `libvirt_events.go` | Migration object, `migrationJobs`, watch goroutines | iteration, resume, stop, tick, timeout | `MigrationWatch` |
| TLS secret and certificate files | `secret_controller.go`, `manage_libvirt.go` | files, `.last_resource_version`, `lastResourceVersion`, condition | install, skip, report, restart | `SecretInstall` |
| Connection and event loop | `libvirt.go` Connect, runEventLoop, WatchDomainChanges; `hypervisor_controller.go` Start, triggerReconcile, libvirt section of Reconcile | connection, channels, handlers, event loops, work queue, status | connect, subscribe, select, dispatch, panic, report, restart | `LibvirtConn` |
| Report of instances, capacity and allocation | `libvirt.go` Process, `utils.go` MemoryToResource, the XML clients | the status under construction, the domains | list, describe, sum, divide, overcommit | `Process` |
| Kernel, hostname, namespace, mocks, emulators, `main.go` | | none | I/O, fixed answers, wiring | not modelled |

`UpdateCycle` is the abstract specification of an update; `SysUpdate` implements
it. The modules named `MC...` give the constants their values for TLC, the modules
named `...Proofs`, `SysUpdateRefinement` and `ProcessArithmetic` hold the theorems.

How they meet: Reconcile runs the OS update, switches shutdown inhibition and
writes the status of the same object the other controllers patch; the callback
of the inhibition reads the number of instances from that status and waits for
another operator's Eviction; the watch goroutines of two nodes write one
Migration object; libvirt's events wake Reconcile, whose report of the domains
is what the inhibition later reads; the reconciler of the Secret reports in the same Hypervisor
status, and the Certificate it depends on is created by Reconcile.

## SysUpdate

`hv` is the object at the API server, `cache` and `undelivered` the informer.
Reconcile is cut where another actor may come in between: after the read
(`Get`), after the unit was looked up (`GetUnitByName`), before and after the
patches. `obj` and `base` are its locals `hypervisor` and `base`; `Locked` is
the optimistic lock of the merge patch. Everything Reconcile does to systemd
(`StartUnit`, the reboot target) happens before the patch and survives its
failure, a crash or a conflict. `Crash`, `RequestedReboot`, `HostReboot`, unit outcomes,
edits of the request and status writes of other controllers are the
environment; `Env` says which of the harsher ones are possible.

Properties: the retry counter stays within its bounds (`RetryInRange`); the
three places of the status that describe an update agree (`StatusCoherent`);
no patch takes back another controller's condition (`NoLostCondition`); a
version recorded as installed is on the disk (`InstalledIsOnDisk`); the host is
rebooted only after the installation (`RebootAfterInstall`); a request is
eventually installed (`UpdateGetsInstalled`); the patch that should unset the
version never passes the lock (`UnsetPatchIsRefused`).

`InstalledIsOnDisk` needs an environment that starts units at once, never
shows "activating", leaves a request alone and does not reboot the host by
itself: with any of `"queued"`, `"activating"`, `"respec"` (three versions) or
`"hostReboot"` in `Env` TLC finds a behaviour that records a version that is
not there. One of them, "activating", contradicts the code's own comment and
is the run `SysUpdateActivating`.

### What it implements: UpdateCycle

`UpdateCycle` has one variable, the object without its resource version, and no
caches, units, crashes or time. A pass of Reconcile is one step (`Reconciled`): it
may record the running version, then start, finish or fail the update the object
asks for, or renew the attempts, each computed from the object it replaces. The
other steps are a new request and a write of somebody else.
`Cycle == INSTANCE UpdateCycle WITH object <- View(hv)` maps the object at the
API server to it, and `ImplementsCycle` says every step of `SysUpdate` is such a
step or changes nothing. What could break it is a pass that reads an old copy,
talks to systemd for a while and writes a mixture of two objects: without the
optimistic lock (the mutant `NotLocked`) it does.

## ShutdownInhibit

Each call of EnableShutdownInhibit starts a goroutine, a *watcher*.
`shutdownCh` is a rendezvous: `StopWatcher(a, w)` is the joint step of a sender
and a waiting receiver. `pending` counts the signals in the channel of capacity
1 and in the goroutines godbus keeps for those that do not fit;
`RemoveSignal` cancels the latter. logind (`logind`, `lock`), the bus
connection, the eviction operator and the virtual machines are external.

`reported` is `Status.NumInstances`: only the rest of Reconcile (`Report`) brings
it up to date, and a machine may come at any time but during an eviction
(`VMArrives`), also while a shutdown is being prepared or the Eviction of an
earlier one still exists.

Properties: at most one watcher (`AtMostOneWatcher`); while Reconcile takes
inhibition for switched on, the lock is held and the bus connected, a waiting
watcher gets the signals, or it has had one, or Reconcile is switching inhibition
off (`LockIsWatched`); no lock, no routed signal and no flag without a descriptor
(`LockIsOwned`); a disable gives the lock back (`DisableReleasesLock`, violated).
`LockIsWatched` says nothing of a watcher that has reacted and waits at its own
stop message, which `DisableReleasesLock` is about, and nothing of the time after a
failed AddMatchSignal: the lock is then held without a signal, and the flag is off.

`SignalEvacuates`: a signal that a waiting watcher can receive empties the host, or
else one of the outcomes the code permits comes about: `NumInstances` was zero, the
Eviction failed, the ended one of an earlier shutdown was still there, a call of the
callback failed, the watcher was stopped or its process ended. The property names
each of them; what it excludes is a callback that does nothing without a reason, or
waits for ever although none of them holds.

`SuccessMeansEmpty`, that the callback succeeds only on an empty host, does not
hold: `NumInstances` is as old as the last status patch. InhibitStale has the
shortest case, without any fault: a machine comes after the last report, and the
callback ends with "no eviction needed". The other half of the property fails too: an
Eviction that has ended answers for machines that have come after it.

## MigrationWatch

Several nodes, one domain, one Migration object. `cache` and `lag` are each
agent's informer. The event loop of a node handles one event at a time but
selects among one channel per kind, so iterations and lifecycle events may
overtake each other (`iterations`, `lifecycle`). A read and the patch computed
from it are two steps; a patch contains the fields that differ from the copy
that was read (`MergeFrom`) and has no resource version. Cancelling a context
stops a request that is not yet sent and may or may not stop one that is:
`PatchTick` has both. Of a job's statistics the model keeps the type, which is
all that tells a running from an ended migration; the parameter "success"
overrides it whatever its value, as in the code. When the domain has left the node,
libvirt's error says that it is not running, and nothing is patched, or that it is
not found, and the patch goes on with the destination alone (`Answers`): which of
the two depends on how far libvirt has forgotten the domain, so the model has both.

The module models the package against a client that knows the Migration type.
`cmd/main.go` (lines 66-72) does not add that type to the scheme of the
manager, so in the binary as it is built these client calls return an error.

Properties: a goroutine whose context is not done is the registered one, so
there is one per node and a stop reaches it (`LiveLoopIsRegistered`); only
startMigrationWatch writes the origin of an object, a tick or finalisation leaves it
alone however old its copy (`OnlyStartSetsOrigin`); the final status stays (`FinalStatusStays`, violated).

## SecretInstall

`issued` is the version of the Secret the cache shows, 0 before the first;
`files`, `links` and `saved` are the disk, `last` is `lastResourceVersion`.
Reconcile is cut wherever a crash leaves a different disk or status: a file is
truncated before it is written (`Truncate`, `WriteFile`), a wrong link removed
before the right one is made, the unit started before the resource version is
saved, and that before it is remembered and reported. `Crash` goes on with
SetupWithManager: `last` is what is on the disk. Read and patch of
setTLSStatusCondition are one step, because a write that comes in between is
refused by the lock like one that comes before (`Locked`); what is left is that
the patch is the difference to a *cached* object (`seen`). The order of the
targets is free (the code walks maps; the targets of one key are in order, which
the model does not use). `told` says that systemd has accepted a start since a
file last changed.

Properties: Ready means files of one version, links and a started unit
(`ReadyIsInstalled`); the record that lets a Reconcile or a restarted agent skip
the installation is never that of a Secret that is not installed
(`RecordIsInstalled`); a complete Secret is eventually installed and reported
(`CertificateGetsInstalled`), provided that installation is wanted throughout
and no regular file is in the place of a link. Both provisos are needed: a
change of `InstallCertificate` queues no request, and such a file is never
removed.

Assumed: the resource version on the disk can be read when it is there, and a
restarted agent does not see an older Secret than before. Without either, a
record of a version could outlive its files: after a failed read the same
version is installed again while its record is still on the disk.

## LibvirtConn

Three goroutines: Start, Reconcile and the event loop. Start and Reconcile both
call Connect, which looks at the connection (`IsConnected`, `NotConnected`), dials
(`ConnectToURI`), registers its handlers one kind of event at a time (`Watch`) and
starts a loop; no lock is held in between, and `pc` says where each of the two
is. `epoch` counts the connections of the process: `channel[k]` is the connection
a channel of `domEventChs` belongs to, and it is never replaced. A loop
(`loop[l]`) builds its select (`BuildSelect`), waits with the channels it found
then, takes an event and calls the handlers one by one (`CallHandler`); a closed
channel or connection is a panic, after which the process starts again
(`Restart`). Reconcile takes its request from the queue, lists the active and the
inactive domains in two steps and patches under the optimistic lock: `fresh` is
the set of copies that are still current. Start reads the object once and reports
failed attempts from that copy (`ReportConnectFailed`). `MapRace` is the outcome of
the data race between the iteration over the handlers, without the lock, and a new
handler: Go ends the process. libvirtd may stop and come back; calls fail.

The domains have states, not descriptions; the handlers of MigrationWatch are one
handler, `"own"`; the later calls of Process are part of its failure. A read of
the cache that lags behind is a patch that is refused. The object exists throughout
(Reconcile returns without an error when it does not).

Reconcile has much around its libvirt section, and what of it may fail on every pass
is `obstacle`: the section about systemd, which returns before libvirt when the units
cannot be listed or EnableShutdownInhibit says "already enabled" (`SystemdFails`), a
domain or a host that Process cannot use (`ProcessFails`), and EnsureCertificate,
whose error comes before the patch (`CertificateFails`). An obstacle comes at any
time and goes, or stays for ever. Without a connection to systemd the section is
skipped and the stored condition of libvirtd decides, right or wrong: both branches of
`TakeRequest` are then possible. DisableShutdownInhibit may also never return
(`DisableBlocks`, see InhibitRelease); only a restart helps then. An error of Start's
first read ends the manager and the process (`GetHypervisorFails`).

Properties: once the handler of Start is reached by events, a change of a domain
is reported or a wake-up for it exists, wherever it falls between the two lists,
an error and a refused patch (`NoLostWakeup`; `missed` is a history variable for
the changes before that); the handlers of the first Connect meet no loop that
iterates over them (`ConnectRegistersAlone`); a channel of a lost connection ends the
process, also when Reconcile has connected again before the loop looks
(`DeadChannelRestarts`); if from some time on there is no obstacle and Reconcile is not
blocked, the status in the end shows what libvirt has (`StatusCatchesUp`). `ConnectRegistersAlone` is said of the first connection only:
after a reconnection in the same process the former loop may still be calling
handlers while Connect registers them again, and TLC finds it.

## Process

One action per processor of Process and per call of libvirt it makes: three lists
of domains (`List`: active, inactive, all), each followed by a description per
domain (`Describe`) that fails when the domain has gone. `hv` is the status under
construction, `stored` the one in the API server; the instances are kept apart
until both lists are complete (`instances`). An error anywhere leaves `stored`
alone. The domains change state between any two calls; `touched` are those that
have changed since Process was called. Descriptions may lack an element, have an
unknown unit or name a cell the host does not have; memory is a number and a unit
(`Bytes`), the share of a cell an integer quotient (`Share`), and the effective
capacity a product that float64 rounds (`Float`, ties to even) and int64
truncates. Of the domain capabilities the supported modes, devices and features are
kept, not how the lists are written. A missing NumaTune is a nil pointer: the panic is recovered by the
controller's runtime and is an error like the others.

Properties: a domain that does not change is listed once, with its state
(`SteadyDomainListedOnce`); when none changes, the allocation is that of the listed
instances (`AllocationMatchesInstances`); the cells hold the allocation less the
remainders and the domains without a cell (`CellsHoldAllocation`); the cells'
capacities add up, and their effective capacities differ from that of the host by
less than a unit a cell, never upwards, as long as the products are exact, and by
at most one unit a cell, either way, when they are rounded, as long as capacities
and effective capacities are below 2^`Bits` (`CellsPromiseNoMore`). Beyond that
float64 drops whole units and no bound in the number of cells holds; with 53 bits
that is a host of 8 PiB.

## Runs

| Run | Result | Bounds | Shows |
|---|---|---|---|
| SysUpdateSafety | pass | all of `Env`, 2 faults | retry counter, status, lock and foreign conditions survive everything; every step is one of `UpdateCycle` |
| SysUpdateLive | pass | fair, benign `Env`, 2 versions, 4 faults, 2 edits | installed means on disk, reboot only after that, a request is installed |
| SysUpdateActivating | violation | 2 versions | an activating unit is recorded as finished |
| SysUpdateStaleOS | violation | 2 versions, 2 edits | the recorded OS version outlives a reboot, a request is skipped |
| Inhibit | pass | fair, 2 watchers, 2 faults, 2 shutdowns, 2 edits, 2 machines, all of `Env` | lock, descriptor, flag and goroutine stay in step; a signal empties the host |
| InhibitStale | violation | fair, no fault, 1 shutdown, 1 machine | the callback succeeds while a machine runs |
| InhibitRelease | violation | fair, no fault | the lock is not released |
| MigrationSafety | pass | 2 nodes, 2 goroutines each, 2 migrations, 2 events, 1 fault, lag 1 | one registered loop; only a start writes the origin |
| SecretInstall | pass | fair, 2 files, 1 link, 3 versions (the second lacks a key), 3 faults, 2 foreign writes | condition and record never run ahead of the files; a Secret is installed |
| MigrationFinal | violation | 1 migration | a late tick takes the final status back |
| LibvirtConn | pass | fair, 1 domain, 2 loops, 2 kinds of event, 1 change, 1 event of the other kind, 1 fault | no wake-up lost, no channel left dead, the status catches up |
| Process | pass | 2 domains, 7 descriptions, 4 topologies (one empty), 3 overcommits, 1 change, 1 fault | lists, allocation, cells and effective capacity agree |

Why the bounds are enough. Two versions are the running and the requested one,
and the first of two edits may leave the version unset; four faults, in SysUpdateLive, are one more than the retry limit, so it is reached
and passed. SysUpdateSafety, with everything `Env` can do, has two: a failure, and
another one or a crash in the pass that retries; there the limit is reached by a
fresh object whose count is zero, and its theorems hold for any number. Two watchers are enough to see two at once, two edits turn
inhibition on, off and on when it is wanted from the start; two faults are one of a call
and a restart, or two of the same call; its invariants are proved for any number. Two migrations give a stale copy of the first one in
the second, which is what the origin is about. A lag of one version is not the
limit of staleness: a patch computed from a copy may stay unsent while any
number of versions are written. Two files are enough for a mixture of versions,
three versions for an installation that replaces one and one that replaces an
interrupted one; three faults for a failure, a crash during the retry and a
lost report. One fault in LibvirtConn is a stop of libvirtd, a failed subscription,
an obstacle or the map race; two loops are the one of a lost connection and that of the next.
A stop followed by a second one is a new process, which is the first case again. In
Process, `Kibi` = 2 and `Bits` = 5 stand for 1024 and 53: TLC's integers have 32
bits, and with 5 bits of significand the ratio 19/8 is rounded on cells of 5 and
7 CPUs, as 1.4 is with 53 bits on cells of 10 and 80. The theorems hold without the bounds.

Deadlock is checked for SysUpdate and LibvirtConn, which always poll, and for
Process, which can always be called again. The others wait for
signals and events, and InhibitRelease is about a wait without end, so there it
is not.

Fairness. Goroutines that can run do run (the Go scheduler). Reconcile is
requeued after a minute and after errors, that of the Secret after errors and
events; the informer delivers; a started unit
ends; a requested reboot comes; the eviction operator works; logind goes on once the
lock is gone. Failures,
timeouts, edits, crashes, shutdown requests and logind's end of its delay have none. In LibvirtConn also the
ticker of Start or the requeueing of Reconcile fires, and libvirtd, a service that
systemd restarts, comes back; that an obstacle goes, or that a blocked agent is
restarted, is not assumed. SysUpdateLive leaves
out `"fastReboot"`: the reboot is started before the status is written, and if
it wins every time the agent updates and reboots for ever.

## Disagreements between code and text

1. `systemd.go:299`: a unit that is activating counts as finished; the switch
   above treats ACTIVE and ACTIVATING alike (SysUpdateActivating).
2. `hypervisor_controller.go:132`: the running version is recorded once and
   never refreshed, while the update is skipped for "current running version"
   (SysUpdateStaleOS).
3. `systemd.go:206`: the watcher, and Reconcile during a callback, wait on
   `shutdownCh` for a receiver that never comes; the lock is kept until logind's
   delay ends (InhibitRelease).
4. `libvirt_events.go:222`: a tick of the source overwrites "finalize migration
   status" (MigrationFinal); in the package, see above, since the binary does not
   register the type.
5. `eviction.go:52`: "It should migrate all VMs away from the current host" (line 40),
   but a host whose last report counted none is taken for empty (InhibitStale).

Seen while modelling, without a run:

- `hypervisor_controller.go:244`: "unset the version to stop the update" is a
  patch with an outdated resource version, and a status patch at that; that it
  is always refused is proved (`UnsetNeverPasses`).
- `libvirt_events.go:215`: errDomainNotFoud never leaves patchMigration, so the
  branch "stopping migration watch" is dead; the loop of a failed migration goes
  on until its timeout.
- A signal between Inhibit and Signal is missed; a buffered signal, or one that
  announces a cancelled shutdown, starts a callback without a shutdown; after a
  failed AddMatchSignal every Reconcile ends with "already enabled" before it
  writes the status.
- The ProcessFailed condition is set on an object that is not patched
  (`hypervisor_controller.go:216-225`).
- An iteration event that is handled after the stop starts a watch that only the
  timeout ends; after that timeout the entry stays and no iteration starts a
  watch until a stop.
- `libvirt.go:270`: "If an error occurs, the instance is returned unmodified";
  what Process returns has the changes of the processors before the one that
  failed. Reconcile does not write it.
- `libvirt.go:563`: "they are floored" holds of the float64 product, not of the
  product: with the ratio 1.4, cells of 10 and 80 CPUs get 14 and 112, their host 125.
- `libvirt.go:503`: NumaTune is used without the test for nil that CPUTune and
  CPU.Numa have; the error is then a recovered panic.
- `libvirt.go:227`: the handlers are iterated over after the lock is given back;
  Start registers its handler (`hypervisor_controller.go:396`) while the loop runs.

## Proofs

`SysUpdateProofs`. `TypeCorrect`; then `SafetyInv`, which is
inductive relative to the types. `RetryInRange` and `StatusCoherent` are not
inductive: Reconcile computes the next status from a copy. `LockSound` says a
copy with the object's resource version *is* the object, so a patch that passes
the lock is applied to its base; `StatusInv` says every copy, in the cache, on
its way or in Reconcile, is good. From it `RetryBounded`, `StatusIsCoherent`,
`UnsetNeverPasses` and `ConditionsSurvive`. `DiskInvariant`, under the
assumption on `Env` above, ties every copy that claims progress to the unit or
the disk; `InstalledOnDisk` and `RebootsAfterInstall` follow.

`ShutdownInhibitProofs`. `InhibitInv` adds to the three invariants that the
reconciler has a descriptor while it enables or disables, that there is no
watcher while it closes, and that no watcher gets past its own stop message
(`WatcherNeverCloses`, the safety half of disagreement 3). `LockWatched` needs two
more: a connected lock has a goroutine at all, also before the signal is routed, and
Reconcile has removed the signal when it stops that goroutine.

`MigrationWatchProofs`. `WatchInv` adds to `LiveLoopIsRegistered` that nothing
is registered while a start is being patched, and to `OnlyStartSetsOrigin` that
no patch but that of a start has an origin, so that no other action changes one; both hold for every set of nodes and
goroutines (`LiveLoopRegistered`, `OriginKept`).

`SecretInstallProofs`. `InstallInv` adds to `ReadyIsInstalled` that the
condition is not Ready from the report "Installing" to the final one, and to
`RecordIsInstalled` that both records are older than the version that is being
installed; `Progress` says what is done at each step. From it `ReadyInstalled`
and `RecordInstalled`, for every set of files and links.

`SysUpdateRefinement`. `RefinesCycle`: the initial states map to initial states,
and every action to a step of `UpdateCycle` or a stutter. `CycleInv` says that
Reconcile's copy is what one abstract pass may make of its base; `LockSound` of
`SysUpdateProofs` turns that into a step of the object when the patch passes.

`LibvirtConnProofs`. `TypeCorrect`; `FirstConnectionRegistersAlone` from `AloneInv`
(before the first connection there is no loop and nobody registers, with it a
caller that registers is alone); `NoWakeupIsLost` from `WakeInv`, which says of
every place Reconcile may be at that what it has listed so far is what libvirt
has, or a request, an event or a handler call is under way. The invariant of the
quiet agent alone is not inductive: it says nothing while Reconcile holds a list.

`ProcessProofs`. `InstancesOfSteadyDomains` and `AllocationOfInstances`, for every
set of domains, descriptions and topologies, from invariants that say what each
list so far says of the domains that have not changed (`IInv`, `CountInv`).
`TypesOfStatus` from `TypeInv`: the types, of the host's report too, and that its
units are known once addCapabilities has used them.
`CellsShareTheAllocation` and `CellsPromiseWhatTheHostDoes` from `CellInv`, which
says what the numbers of the status are when the last two processors have run, as
functions of the list of domains and of the topology. What is left are facts about sums:
the sum over the domains of the shares of a cell, summed over the cells, is the sum
over the domains of what their cells get (`SumExchange`), and a domain with a
quotient per entry of its list of cells loses the remainder (`SumFibres`,
`SharesOfDomain`).

`ProcessArithmetic` has these facts. The library's induction theorems take an
operator, which the provers cannot instantiate, so induction is done here with the
least counterexample: `Least` (a set of naturals that is not empty has a least
element) gives `NatInductionSet` and `SetInduction`, both about sets. On them rest
the recursion of FoldFunction (`TotalIsSum`, `SumStep`), the sums (`SumPlus`,
`SumTimes`, `SumExchange`, `SumReindex`, `SumBounds`), the powers of two
(`Pow2Step`, `Pow2Divides`) and float64: a product is rounded to a multiple of its
last place (`FloatIs`), exactly when it fits (`FloatExact`), and flooring after the
rounding gives a floor or that plus one (`FloatQuotient`). `FlooredSum` and
`RoundedSum` add that up over the cells.

Assumptions: the named `ASSUME`s of the modules (bounds are naturals, `None` and
`Reconciler` are none of the other values, kinds of event are not labels; amounts
that libvirt reports are naturals, the cells of a host have different numbers,
overcommit ratios are not negative), evaluated by TLC in every run.

Only model-checked: liveness (`UpdateGetsInstalled`, `SignalEvacuates`,
`CertificateGetsInstalled`, `DeadChannelRestarts`, `StatusCatchesUp`), since
fairness is out of the prover's reach. Every invariant and action property of a
passing run is also a theorem.

## Not modelled

- Fields of the status that are copied from the host, certificates in Reconcile
  beyond success or failure, logging and messages.
- What systemd does with a start it has accepted; in particular whether libvirtd
  reads the new certificate when its update unit fails and only libvirtd itself
  is started (`secret_controller.go:108`).
- The XML the clients decode and the formatting of a migration's statistics,
  among it `time_remaining`, a uint32 that is multiplied by 10^6 before it is
  widened (`libvirt_events.go:320`): text that nothing in the agent reads.
- Close of the libvirt connection, which has no caller; kernel parameters, host
  name and namespace, read once; generated mocks, emulators, schemas and
  `cmd/main.go`, which have no state of their own.
