-------------------------- MODULE ShutdownInhibit --------------------------
(***************************************************************************)
(* Evacuation of the node before it shuts down: the inhibition lock and    *)
(* the callback goroutine of internal/systemd/systemd.go, the section of   *)
(* Reconcile in internal/controller/hypervisor_controller.go that turns    *)
(* them on and off, and the callback EvictCurrentHost of                   *)
(* internal/evacuation/eviction.go.                                        *)
(*                                                                         *)
(* Every call of EnableShutdownInhibit starts a goroutine, a "watcher"     *)
(* here.  It meets the reconciler on the unbuffered channel shutdownCh and *)
(* gets the signals of logind through prepareForShutdownSignal, a channel  *)
(* of capacity 1 behind which godbus keeps one goroutine per signal that   *)
(* did not fit.  logind, the eviction operator and the virtual machines    *)
(* are external.                                                           *)
(***************************************************************************)
EXTENDS Integers

CONSTANTS
  Watchers,      \* goroutines EnableShutdownInhibit may start
  Reconciler,    \* the goroutine that runs Reconcile
  Env,           \* what the environment may do, a subset of EnvFeatures
  MaxFaults,     \* bound: failed calls, restarts of the agent
  MaxShutdowns,  \* bound: requests to shut the host down
  MaxToggles,    \* bound: edits of Spec.EvacuateOnReboot
  MaxVMs         \* bound: virtual machines on the host

\* "cancel": a shutdown may be called off; "timeout": InhibitDelayMaxSec may
\* expire; "disconnect": the bus may close the connection.
EnvFeatures == {"cancel", "timeout", "disconnect"}

ASSUME ConstantsAssumption ==
  /\ Reconciler \notin Watchers
  /\ Env \subseteq EnvFeatures
  /\ MaxFaults \in Nat /\ MaxShutdowns \in Nat /\ MaxToggles \in Nat
  /\ MaxVMs \in Nat

VARIABLES
  pc,          \* where the reconciler and every watcher are
  want,        \* Spec.EvacuateOnReboot in the cache
  evac,        \* r.evacuateOnReboot
  fd,          \* s.fd # -1
  lock,        \* logind sees the inhibition lock
  registered,  \* prepareForShutdownSignal is registered with login1conn
  pending,     \* signals in the channel or waiting for room in it
  connected,   \* login1conn is connected
  closed,      \* prepareForShutdownSignal is closed
  logind,      \* whether a shutdown is being prepared
  eviction,    \* the Eviction object of this host
  vms,         \* virtual machines on this host
  reported,    \* Status.NumInstances in the cache
  faults, shutdowns, toggles

agent    == <<pc, evac, fd, lock, registered, pending, connected, closed>>
systemd  == <<evac, fd, lock, registered, pending, connected, closed>>
world    == <<want, logind, eviction, vms, reported>>
counters == <<shutdowns, toggles>>
vars     == <<agent, world, faults, counters>>

-----------------------------------------------------------------------------

Actors == Watchers \cup {Reconciler}

Go(a, l) == pc' = [pc EXCEPT ![a] = l]

Fault == faults < MaxFaults /\ faults' = faults + 1

\* What is left of the signals when the channel is taken from godbus: the one
\* in the buffer.
Buffered == IF pending > 1 THEN 1 ELSE pending

-----------------------------------------------------------------------------
(* EnableShutdownInhibit, called by Reconcile.  It fails and leaves all as *)
(* it is when s.fd is set, or when logind cannot be asked; Reconcile then  *)
(* returns at once.                                                        *)

\* Reconcile finds nothing to switch, or no connection.
NothingToSwitch ==
  /\ pc[Reconciler] = "idle"
  /\ connected => want = evac
  /\ Go(Reconciler, "report")
  /\ UNCHANGED <<systemd, world, faults, counters>>

\* Mutant: a descriptor that is set already does not matter.
InhibitAgain ==
  /\ pc[Reconciler] = "idle" /\ connected
  /\ want /\ ~evac
  /\ fd' = TRUE /\ lock' = TRUE
  /\ \E w \in Watchers :
       /\ pc[w] = "none"
       /\ pc' = [pc EXCEPT ![Reconciler] = "match", ![w] = "waiting"]
  /\ UNCHANGED <<evac, registered, pending, connected, closed, world, faults,
                 counters>>

Inhibit ==
  /\ pc[Reconciler] = "idle" /\ connected
  /\ want /\ ~evac
  /\ ~fd
  /\ fd' = TRUE /\ lock' = TRUE
  /\ \E w \in Watchers :
       /\ pc[w] = "none"
       /\ pc' = [pc EXCEPT ![Reconciler] = "match", ![w] = "waiting"]
  /\ UNCHANGED <<evac, registered, pending, connected, closed, world, faults,
                 counters>>

AddMatchSignal ==
  /\ pc[Reconciler] = "match" /\ connected
  /\ Go(Reconciler, "register")
  /\ UNCHANGED <<systemd, world, faults, counters>>

\* Mutant: the error is logged, not returned.
MatchErrorLogged ==
  /\ pc[Reconciler] = "match"
  /\ Fault \/ (~connected /\ UNCHANGED faults)
  /\ evac' = TRUE
  /\ Go(Reconciler, "report")
  /\ UNCHANGED <<fd, lock, registered, pending, connected, closed, world, counters>>

\* The error return leaves the lock and the watcher behind.
AddMatchSignalFails ==
  /\ pc[Reconciler] = "match"
  /\ Fault \/ (~connected /\ UNCHANGED faults)
  /\ Go(Reconciler, "idle")
  /\ UNCHANGED <<systemd, world, counters>>

\* login1conn.Signal, which a closed connection ignores.
Signal ==
  /\ pc[Reconciler] = "register"
  /\ registered' = connected
  /\ evac' = TRUE
  /\ Go(Reconciler, "report")
  /\ UNCHANGED <<fd, lock, pending, connected, closed, world, faults, counters>>

-----------------------------------------------------------------------------
(* DisableShutdownInhibit, called by Reconcile or by a watcher.            *)

Calls(a) ==
  \/ a = Reconciler /\ pc[a] = "idle" /\ connected /\ ~want /\ evac
  \/ a \in Watchers /\ pc[a] \in {"failed", "release"}

\* Mutant: r.evacuateOnReboot is not updated.
SucceedsUnnoticed(a) ==
  /\ Go(a, IF a = Reconciler THEN "report" ELSE "none")
  /\ UNCHANGED evac

\* After a call without error Reconcile goes on, r.evacuateOnReboot = false.
Succeeds(a) ==
  /\ evac' = IF a = Reconciler THEN FALSE ELSE evac
  /\ Go(a, IF a = Reconciler THEN "report" ELSE "none")

Fails(a) ==
  /\ Go(a, IF a = Reconciler THEN "idle" ELSE "none")
  /\ UNCHANGED evac

RemoveSignal(a) ==
  /\ Calls(a)
  /\ IF fd THEN /\ registered' = FALSE /\ pending' = Buffered
                /\ Go(a, "stop") /\ UNCHANGED evac
           ELSE Succeeds(a) /\ UNCHANGED <<registered, pending>>
  /\ UNCHANGED <<fd, lock, connected, closed, world, faults, counters>>

\* Mutant: shutdownCh is buffered, the send does not wait for the watcher.
StopUnanswered(a, w) ==
  /\ pc[a] = "stop"
  /\ Go(a, "close")
  /\ UNCHANGED <<systemd, world, faults, counters>>

\* The send on shutdownCh meets the select of a watcher.
StopWatcher(a, w) ==
  /\ pc[a] = "stop"
  /\ w # a /\ pc[w] = "waiting"
  /\ pc' = [pc EXCEPT ![a] = "close", ![w] = "none"]
  /\ UNCHANGED <<systemd, world, faults, counters>>

\* syscall.Close; the kernel gives up the descriptor even when it reports an
\* error, after which s.fd keeps its value.
CloseFd(a) ==
  /\ pc[a] = "close"
  /\ lock' = FALSE
  /\ \/ fd' = FALSE /\ Succeeds(a) /\ UNCHANGED faults
     \/ Fault /\ Fails(a) /\ UNCHANGED fd
  /\ UNCHANGED <<registered, pending, connected, closed, world, counters>>

-----------------------------------------------------------------------------
(* The watcher and its callback EvictCurrentHost.                          *)

\* Mutant: a closed channel is taken for a signal.
ReceiveClosed(w) ==
  /\ pc[w] = "waiting" /\ (pending > 0 \/ closed)
  /\ pending' = pending - 1
  /\ Go(w, "lookup")
  /\ UNCHANGED <<evac, fd, lock, registered, connected, closed, world, faults,
                 counters>>

ReceiveSignal(w) ==
  /\ pc[w] = "waiting" /\ pending > 0
  /\ pending' = pending - 1
  /\ Go(w, "lookup")
  /\ UNCHANGED <<evac, fd, lock, registered, connected, closed, world, faults,
                 counters>>

ChannelClosed(w) ==
  /\ pc[w] = "waiting" /\ pending = 0 /\ closed
  /\ Go(w, "none")
  /\ UNCHANGED <<systemd, world, faults, counters>>

\* Mutant: a last virtual machine is not evicted.
FewInstances(w) ==
  /\ pc[w] = "lookup" /\ reported <= 1
  /\ Go(w, "release")
  /\ UNCHANGED <<systemd, world, faults, counters>>

NoInstances(w) ==
  /\ pc[w] = "lookup" /\ reported = 0
  /\ Go(w, "release")
  /\ UNCHANGED <<systemd, world, faults, counters>>

HasInstances(w) ==
  /\ pc[w] = "lookup" /\ reported > 0
  /\ Go(w, "create")
  /\ UNCHANGED <<systemd, world, faults, counters>>

\* An Eviction that already exists is used as it is.
CreateEviction(w) ==
  /\ pc[w] = "create"
  /\ eviction' = IF eviction = "absent" THEN "pending" ELSE eviction
  /\ Go(w, "poll")
  /\ UNCHANGED <<systemd, want, logind, vms, reported, faults, counters>>

\* Any other state is asked for again after ten seconds.
EvictionSucceeded(w) ==
  /\ pc[w] = "poll" /\ eviction = "Succeeded"
  /\ Go(w, "release")
  /\ UNCHANGED <<systemd, world, faults, counters>>

\* An error of the API server, or the Eviction is gone.  The error is logged; the
\* release follows all the same.
CallbackFails(w) ==
  /\ pc[w] \in {"lookup", "create", "poll"}
  /\ \/ Fault
     \/ pc[w] = "poll" /\ eviction = "absent" /\ UNCHANGED faults
  /\ Go(w, "failed")
  /\ UNCHANGED <<systemd, world, counters>>

\* The rest of Reconcile counts the instances and patches the status, or fails.
\* Nothing else updates NumInstances.
Report ==
  /\ pc[Reconciler] = "report"
  /\ \/ reported' = vms /\ UNCHANGED faults
     \/ Fault /\ UNCHANGED reported
  /\ Go(Reconciler, "idle")
  /\ UNCHANGED <<systemd, want, logind, eviction, vms, counters>>

-----------------------------------------------------------------------------
(* The environment.                                                        *)

Toggle ==
  /\ toggles < MaxToggles
  /\ toggles' = toggles + 1
  /\ want' = ~want
  /\ UNCHANGED <<agent, logind, eviction, vms, reported, faults, shutdowns>>

\* PrepareForShutdown; the code does not look at its argument.
Emit == pending' = IF registered THEN pending + 1 ELSE pending

RequestShutdown ==
  /\ shutdowns < MaxShutdowns
  /\ shutdowns' = shutdowns + 1
  /\ logind = "running" /\ logind' = "preparing"
  /\ Emit
  /\ UNCHANGED <<pc, evac, fd, lock, registered, connected, closed, want,
                 eviction, vms, reported, faults, toggles>>

CancelShutdown ==
  /\ "cancel" \in Env
  /\ logind = "preparing" /\ logind' = "running"
  /\ Emit
  /\ UNCHANGED <<pc, evac, fd, lock, registered, connected, closed, want,
                 eviction, vms, reported, faults, counters>>

\* The bus closes the connection; godbus closes the channels it has.
Disconnect ==
  /\ "disconnect" \in Env /\ connected
  /\ Fault
  /\ connected' = FALSE
  /\ closed' = registered
  /\ registered' = FALSE
  /\ pending' = Buffered
  /\ UNCHANGED <<pc, evac, fd, lock, world, counters>>

\* A new process of the agent; the kernel closes the descriptors of the old one.
FreshProcess ==
  /\ pc' = [a \in Actors |-> IF a = Reconciler THEN "idle" ELSE "none"]
  /\ evac' = FALSE /\ fd' = FALSE /\ lock' = FALSE
  /\ registered' = FALSE /\ pending' = 0
  /\ connected' = TRUE /\ closed' = FALSE

AgentRestarts ==
  /\ Fault
  /\ FreshProcess
  /\ UNCHANGED <<world, counters>>

\* logind waits for the lock, at most for InhibitDelayMaxSec.
HostReboots ==
  /\ logind = "preparing" /\ logind' = "running"
  /\ ~lock \/ "timeout" \in Env
  /\ FreshProcess
  /\ UNCHANGED <<want, eviction, vms, reported, faults, counters>>

\* The scheduler gives a host under eviction nothing new.  It does not know of a
\* shutdown, or of an Eviction that has ended and still exists.
VMArrives ==
  /\ vms < MaxVMs /\ eviction # "pending"
  /\ vms' = vms + 1
  /\ UNCHANGED <<agent, want, logind, eviction, reported, faults, counters>>

EvictVM ==
  /\ eviction = "pending" /\ vms > 0
  /\ vms' = vms - 1
  /\ UNCHANGED <<agent, want, logind, eviction, reported, faults, counters>>

EvictionEnds ==
  /\ eviction = "pending"
  /\ \/ vms = 0 /\ eviction' = "Succeeded" /\ UNCHANGED faults
     \/ Fault /\ eviction' = "Failed"
  /\ UNCHANGED <<agent, want, logind, vms, reported, counters>>

EvictionDeleted ==
  /\ eviction \in {"Succeeded", "Failed"}
  /\ eviction' = "absent"
  /\ UNCHANGED <<agent, want, logind, vms, reported, faults, counters>>

-----------------------------------------------------------------------------

Init ==
  /\ pc = [a \in Actors |-> IF a = Reconciler THEN "idle" ELSE "none"]
  /\ want \in BOOLEAN /\ evac = FALSE
  /\ fd = FALSE /\ lock = FALSE /\ registered = FALSE /\ pending = 0
  /\ connected = TRUE /\ closed = FALSE
  /\ logind = "running" /\ eviction = "absent" /\ vms = 0 /\ reported = 0
  /\ faults = 0 /\ shutdowns = 0 /\ toggles = 0

Enable == NothingToSwitch \/ Inhibit \/ AddMatchSignal \/ AddMatchSignalFails \/ Signal

Disable(a) ==
  \/ RemoveSignal(a) \/ CloseFd(a)
  \/ \E w \in Watchers : StopWatcher(a, w)

Callback(w) ==
  \/ ReceiveSignal(w) \/ ChannelClosed(w)
  \/ NoInstances(w) \/ HasInstances(w) \/ CreateEviction(w)
  \/ EvictionSucceeded(w) \/ CallbackFails(w)

Environment ==
  \/ Toggle \/ RequestShutdown \/ CancelShutdown \/ Disconnect
  \/ AgentRestarts \/ HostReboots
  \/ VMArrives \/ EvictVM \/ EvictionEnds \/ EvictionDeleted

Next ==
  \/ Enable \/ Report
  \/ \E a \in Actors : Disable(a)
  \/ \E w \in Watchers : Callback(w)
  \/ Environment

Spec == Init /\ [][Next]_vars

\* Goroutines run, the eviction operator works, logind goes on once the lock is
\* gone.
Fairness ==
  /\ WF_vars(Enable \/ Disable(Reconciler) \/ Report)
  /\ \A w \in Watchers : WF_vars(Disable(w)) /\ WF_vars(Callback(w))
  /\ WF_vars(EvictVM) /\ WF_vars(EvictionEnds)
  /\ WF_vars(~lock /\ HostReboots)

FairSpec == Spec /\ Fairness

-----------------------------------------------------------------------------
(* Properties.                                                             *)

ReconcilerPc == {"idle", "match", "register", "stop", "close", "report"}

WatcherPc ==
  {"none", "waiting", "lookup", "create", "poll", "failed", "release", "stop",
   "close"}

TypeOK ==
  /\ pc \in [Actors -> ReconcilerPc \cup WatcherPc]
  /\ pc[Reconciler] \in ReconcilerPc
  /\ \A w \in Watchers : pc[w] \in WatcherPc
  /\ want \in BOOLEAN /\ evac \in BOOLEAN /\ fd \in BOOLEAN /\ lock \in BOOLEAN
  /\ registered \in BOOLEAN /\ pending \in Nat
  /\ connected \in BOOLEAN /\ closed \in BOOLEAN
  /\ logind \in {"running", "preparing"}
  /\ eviction \in {"absent", "pending", "Succeeded", "Failed"}
  /\ vms \in Nat /\ reported \in Nat
  /\ faults \in 0..MaxFaults /\ shutdowns \in Nat /\ toggles \in Nat

Alive(w) == pc[w] # "none"

\* However often inhibition is turned on and off, fails half-way or is stopped
\* from two sides, at most one callback goroutine exists: two would evict twice
\* and take each other's stop message.
AtMostOneWatcher ==
  \A w1, w2 \in Watchers : Alive(w1) /\ Alive(w2) => w1 = w2

\* The callback has started, or has ended and the release has begun.
HasReacted(w) ==
  pc[w] \in {"lookup", "create", "poll", "failed", "release", "stop"}

\* While Reconcile takes the inhibition for switched on, the lock is held and the
\* bus connected, a shutdown does not pass unseen: a watcher waits and logind's
\* signals are routed to it, or it has had one, or Reconcile is switching the
\* inhibition off.  A failed AddMatchSignal, after which the lock is held and no
\* signal is routed, is never taken for success.  That a watcher ever ends its
\* release is not said: DisableReleasesLock shows that it does not.
LockIsWatched ==
  lock /\ evac /\ connected =>
    \/ pc[Reconciler] \in {"stop", "close"}
    \/ \E w \in Watchers : (pc[w] = "waiting" /\ registered) \/ HasReacted(w)

\* logind never holds a lock whose descriptor the agent has forgotten, and a
\* signal is never routed to an agent that has no descriptor.
LockIsOwned == (lock \/ registered \/ evac) => fd

\* A shutdown signal that a watcher can receive empties the host, through lost
\* connections, shutdowns called off and machines that come meanwhile, unless
\* NumInstances does not count any (eviction.go:52), an Eviction fails or the ended
\* one of an earlier shutdown is still there (:83), a call of the callback fails, or
\* the watcher is stopped or goes down with its process.
SignalEvacuates ==
  \A w \in Watchers :
    pc[w] = "waiting" /\ pending > 0 ~>
      \/ vms = 0 \/ reported = 0
      \/ eviction \in {"Succeeded", "Failed"}
      \/ pc[w] \in {"failed", "none"}

\* The callback ends without error only when the host is empty: "It should migrate
\* all VMs away from the current host."
SuccessMeansEmpty ==
  [][\A w \in Watchers :
       NoInstances(w) \/ EvictionSucceeded(w) => vms = 0]_vars

\* "DisableShutdownInhibit releases the systemd inhibition lock", whoever calls
\* it: Reconcile, or the watcher after its callback, "to continue shutdown".
DisableReleasesLock == \A a \in Actors : pc[a] = "stop" ~> ~lock

-----------------------------------------------------------------------------
(* Strengthening of the invariants above, for the proofs.                  *)

\* No watcher ever gets past its own send on shutdownCh, and a lock has a watcher
\* until Reconcile closes its descriptor or the connection is lost.
InhibitInv ==
  /\ AtMostOneWatcher
  /\ \A w \in Watchers : Alive(w) => fd /\ pc[Reconciler] # "close"
  /\ \A w \in Watchers : pc[w] # "close"
  /\ LockIsOwned
  /\ LockIsWatched
  /\ lock /\ connected => pc[Reconciler] = "close" \/ \E w \in Watchers : Alive(w)
  /\ pc[Reconciler] \in {"match", "register", "stop", "close"} => fd
  /\ pc[Reconciler] \in {"stop", "close"} => ~registered
  /\ closed => ~connected

=============================================================================
