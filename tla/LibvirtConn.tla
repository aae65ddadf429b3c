---------------------------- MODULE LibvirtConn ----------------------------
(***************************************************************************)
(* The connection to libvirt, its event loop and the report of the domains *)
(* in the status of the Hypervisor: Connect, runEventLoop,                 *)
(* WatchDomainChanges and Process of internal/libvirt/libvirt.go, Start,   *)
(* triggerReconcile and the libvirt section of Reconcile of                *)
(* internal/controller/hypervisor_controller.go.                           *)
(*                                                                         *)
(* Start and Reconcile run in two goroutines and both call Connect.  The   *)
(* winner subscribes and starts the event loop, a third goroutine, which   *)
(* panics when the connection is lost; the process is then started anew.   *)
(* libvirtd, the work queue of the controller and the API server are       *)
(* external.                                                               *)
(***************************************************************************)
EXTENDS Integers, Sequences

CONSTANTS
  Domains,     \* domains libvirt may know
  FirstState,  \* the state they are in at the start
  Loops,       \* goroutines runEventLoop may run in
  Watched,     \* the kinds of event Connect subscribes to, in its order
  MaxChanges,  \* bound: changes of a domain
  MaxEvents,   \* bound: events of the other kinds
  MaxFaults    \* bound: failed calls, obstacles, stops of libvirtd, fatal races

Kinds == {Watched[i] : i \in DOMAIN Watched}

DomainState == {"absent", "inactive", "active"}

\* Where Start and Reconcile may be; in Connect also at a kind of event.
Labels == {"get", "connect", "dial", "report", "register", "done", "idle", "blocked",
           "active", "inactive", "patch"}

\* What of Reconcile may fail on every pass: the section about systemd (no
\* connection, units that cannot be listed, "shutdown inhibition already enabled"),
\* Process (a domain or a host it cannot use), the certificate.
Obstacles == {"systemd", "process", "certificate"}

ASSUME ConstantsAssumption ==
  /\ FirstState \in DomainState
  /\ Watched \in Seq(STRING) /\ "lifecycle" \in Kinds /\ Kinds \cap Labels = {}
  /\ Loops \subseteq Nat
  /\ MaxChanges \in Nat /\ MaxEvents \in Nat /\ MaxFaults \in Nat

VARIABLES
  pc,        \* where Start and Reconcile are
  service,   \* libvirtd.service runs
  up,        \* l.virt is connected
  epoch,     \* number of connections this process has made
  handlers,  \* l.domEventChangeHandlers, by kind of event
  channel,   \* l.domEventChs: the connection a channel belongs to, or 0
  pending,   \* lifecycle events waiting in their channel
  loop,      \* the event loops
  queued,    \* a request is in the work queue
  hv,        \* the Hypervisor object in the API server
  fresh,     \* which copies of it carry its current resource version
  copy,      \* the LibVirt condition in Start's `hypervisor`
  result,    \* Reconcile's `hypervisor`
  obstacle,  \* what makes every Reconcile fail, or "none"
  domain,    \* the state of every domain
  missed,    \* a change is not covered by an event (history variable)
  changes, raised, faults

conn     == <<up, epoch, handlers, channel>>
report   == <<hv, fresh, copy>>
world    == <<service, obstacle, domain, changes, raised>>
vars     == <<pc, conn, pending, loop, queued, report, result,
              missed, world, faults>>

-----------------------------------------------------------------------------

Callers == {"start", "reconcile"}

\* "own" stands for the handlers of MigrationWatch.
Handlers == {"own", "reconcile"}

Reason == {"None", "Connected", "ConnectFailed", "LibVirtServiceNotRunning"}

\* instances pairs a domain with its flag Active.
Status == [cond : Reason, instances : SUBSET (Domains \X BOOLEAN)]

EmptyStatus == [cond |-> "None", instances |-> {}]

At(l) == [pc |-> l, cases |-> {}, closes |-> 0, kind |-> "lifecycle", todo |-> {}]

LoopState ==
  [pc : {"none", "top", "select", "dispatch"}, cases : SUBSET Kinds,
   closes : Nat, kind : Kinds, todo : SUBSET Handlers]

Go(c, l) == pc' = [pc EXCEPT ![c] = l]

Fault == faults < MaxFaults /\ faults' = faults + 1

\* The connection of the channel is gone, or it is not the current one.
Dead(e) == e # epoch \/ ~up

Subscribed(k) == channel[k] # 0 /\ ~Dead(channel[k])

Listed(state) == {d \in Domains : domain[d] = state}

Present == {d \in Domains : domain[d] # "absent"}

-----------------------------------------------------------------------------
(* Connect, called by Start and by Reconcile; no lock is held between the  *)
(* look at the connection and the dial.                                    *)

\* Reconcile's object gets a condition and keeps the instances it was read with.
NotListed(reason) == result' = [EmptyStatus EXCEPT !.cond = reason]

AfterConnect(c) == IF c = "start" THEN "register" ELSE "active"

IsConnected(c) ==
  /\ pc[c] = "connect" /\ up
  /\ Go(c, AfterConnect(c))
  /\ UNCHANGED <<conn, pending, loop, queued, report, result, missed,
                 world, faults>>

NotConnected(c) ==
  /\ pc[c] = "connect" /\ ~up
  /\ Go(c, "dial")
  /\ UNCHANGED <<conn, pending, loop, queued, report, result, missed,
                 world, faults>>

\* go l.runEventLoop
StartEventLoop ==
  \E l \in Loops :
    /\ loop[l].pc = "none"
    /\ \A m \in Loops : m < l => loop[m].pc # "none"
    /\ loop' = [loop EXCEPT ![l] = At("top")]

\* Mutant: the event loop is started before the handlers are entered.
LoopBeforeHandlers(c) ==
  /\ pc[c] = "dial" /\ service /\ ~up
  /\ up' = TRUE /\ epoch' = epoch + 1
  /\ Go(c, Watched[1])
  /\ StartEventLoop
  /\ UNCHANGED <<handlers, channel, pending, queued, report, result, missed,
                 world, faults>>

\* ConnectToURI, and the versions, whose errors are only logged.
ConnectToURI(c) ==
  /\ pc[c] = "dial" /\ service /\ ~up
  /\ up' = TRUE /\ epoch' = epoch + 1
  /\ Go(c, Watched[1])
  /\ UNCHANGED <<handlers, channel, pending, loop, queued, report,
                 result, missed, world, faults>>

\* libvirtd does not answer, or the other caller has connected meanwhile.
ConnectFails(c) ==
  /\ pc[c] = "dial" /\ (~service \/ up)
  /\ \/ c = "start" /\ Go(c, "report") /\ UNCHANGED result
     \/ c = "reconcile" /\ Go(c, "patch") /\ NotListed("ConnectFailed")
  /\ UNCHANGED <<conn, pending, loop, queued, report, missed, world,
                 faults>>

\* The handler is entered; a kind without a channel is subscribed to.  An error
\* of SubscribeEvents is logged and leaves the kind without one.
WatchDomainChanges(k, h) ==
  /\ handlers' = [handlers EXCEPT ![k] = @ \cup {h}]
  /\ \/ channel[k] # 0 /\ UNCHANGED <<channel, faults>>
     \/ channel[k] = 0 /\ up /\ channel' = [channel EXCEPT ![k] = epoch]
        /\ UNCHANGED faults
     \/ channel[k] = 0 /\ UNCHANGED channel
        /\ (Fault \/ (~up /\ UNCHANGED faults))

Watch(c, i) ==
  /\ pc[c] = Watched[i]
  /\ WatchDomainChanges(Watched[i], "own")
  /\ \/ i < Len(Watched) /\ Go(c, Watched[i + 1]) /\ UNCHANGED loop
     \/ i = Len(Watched) /\ Go(c, AfterConnect(c)) /\ StartEventLoop
  /\ UNCHANGED <<up, epoch, pending, queued, report, result, missed,
                 world>>

Connect(c) ==
  \/ IsConnected(c) \/ NotConnected(c) \/ ConnectToURI(c) \/ ConnectFails(c)
  \/ \E i \in DOMAIN Watched : Watch(c, i)

-----------------------------------------------------------------------------
(* runEventLoop, goroutine l.                                              *)

\* A loop iterates over the handlers of kind k.
Iterating(k) == \E l \in Loops : loop[l].pc = "dispatch" /\ loop[l].kind = k

\* The select is built anew for every event, from the channels there are now.
BuildSelect(l) ==
  /\ loop[l].pc = "top"
  /\ loop' = [loop EXCEPT ![l] = [At("select") EXCEPT
                !.closes = IF up THEN epoch ELSE 0,
                !.cases = {k \in Kinds : channel[k] # 0}]]
  /\ UNCHANGED <<pc, conn, pending, queued, report, result, missed,
                 world, faults>>

Dispatch(l, k) ==
  loop' = [loop EXCEPT ![l] =
             [At("dispatch") EXCEPT !.kind = k, !.todo = handlers[k]]]

ReceiveLifecycle(l) ==
  /\ loop[l].pc = "select" /\ "lifecycle" \in loop[l].cases /\ pending > 0
  /\ pending' = pending - 1
  /\ Dispatch(l, "lifecycle")
  /\ UNCHANGED <<pc, conn, queued, report, result, missed, world, faults>>

\* An event of another kind occurs and is received.
ReceiveOther(l, k) ==
  /\ raised < MaxEvents /\ raised' = raised + 1
  /\ k # "lifecycle" /\ Subscribed(k)
  /\ loop[l].pc = "select" /\ k \in loop[l].cases
  /\ Dispatch(l, k)
  /\ UNCHANGED <<pc, conn, pending, queued, report, result, missed, service,
                 obstacle, domain, changes, faults>>

\* A loop that has called h, and begins again after the last handler.
Called(r, h) ==
  IF r.todo = {h} THEN At("top") ELSE [r EXCEPT !.todo = r.todo \ {h}]

\* The handlers are called one by one, in no order; triggerReconcile blocks
\* until the controller takes the event and puts the request into its queue.
CallHandler(l, h) ==
  /\ loop[l].pc = "dispatch" /\ h \in loop[l].todo
  /\ queued' = (queued \/ h = "reconcile")
  /\ loop' = [loop EXCEPT ![l] = Called(@, h)]
  /\ UNCHANGED <<pc, conn, pending, report, result, missed, world,
                 faults>>

\* A new process: the caches are filled before anything runs, the controller
\* begins with a request for every object.
Restart ==
  /\ pc' = [c \in Callers |-> IF c = "start" THEN "get" ELSE "idle"]
  /\ up' = FALSE /\ epoch' = 0
  /\ handlers' = [k \in Kinds |-> {}] /\ channel' = [k \in Kinds |-> 0]
  /\ pending' = 0 /\ loop' = [l \in Loops |-> At("none")]
  /\ queued' = TRUE
  /\ fresh' = {} /\ copy' = FALSE /\ result' = EmptyStatus
  /\ missed' = FALSE
  /\ UNCHANGED hv

\* Mutant: a closed channel is not told from an event.
PanicOnDisconnect(l) ==
  /\ loop[l].pc = "select"
  /\ Dead(loop[l].closes)
  /\ Restart
  /\ UNCHANGED <<world, faults>>

\* A closed channel or a closed connection: "libvirt connection closed".
Panic(l) ==
  /\ loop[l].pc = "select"
  /\ Dead(loop[l].closes) \/ \E k \in loop[l].cases : Dead(channel[k])
  /\ Restart
  /\ UNCHANGED <<world, faults>>

RunEventLoop(l) ==
  \/ BuildSelect(l) \/ Panic(l)
  \/ ReceiveLifecycle(l) \/ \E k \in Kinds : ReceiveOther(l, k)
  \/ \E h \in Handlers : CallHandler(l, h)

-----------------------------------------------------------------------------
(* Start.                                                                  *)

\* The object is read once, from the cache.
GetHypervisor ==
  /\ pc["start"] = "get"
  /\ copy' = (hv.cond = "ConnectFailed")
  /\ fresh' = fresh \cup {"start"}
  /\ Go("start", "connect")
  /\ UNCHANGED <<conn, pending, loop, queued, hv, result, missed,
                 world, faults>>

\* Start returns the error, which ends the manager and with it the process.
GetHypervisorFails ==
  /\ pc["start"] = "get" /\ Fault
  /\ Restart
  /\ UNCHANGED world

\* The condition of a failed attempt: nothing is sent for a copy that has it
\* already, an outdated copy is refused, and every later one with it.
ReportConnectFailed ==
  /\ pc["start"] = "report"
  /\ \/ /\ "start" \in fresh /\ ~copy
        /\ hv' = [hv EXCEPT !.cond = "ConnectFailed"]
        /\ fresh' = {"start"}
     \/ /\ "start" \notin fresh \/ copy
        /\ UNCHANGED <<hv, fresh>>
  /\ copy' = TRUE
  /\ Go("start", "connect")
  /\ UNCHANGED <<conn, pending, loop, queued, result, missed, world,
                 faults>>

\* The patch is not answered; the copy keeps the condition it did not send.
ReportFails ==
  /\ pc["start"] = "report" /\ Fault
  /\ copy' = TRUE
  /\ Go("start", "connect")
  /\ UNCHANGED <<conn, pending, loop, queued, hv, fresh, result,
                 missed, world>>

\* The handler that triggers Reconcile, entered while events may already come.
WatchLifecycle ==
  /\ pc["start"] = "register"
  /\ WatchDomainChanges("lifecycle", "reconcile")
  /\ fresh' = fresh \ {"start"} /\ copy' = FALSE
  /\ Go("start", "done")
  /\ UNCHANGED <<up, epoch, pending, loop, queued, hv, result, missed,
                 world>>

\* A handler entered into a map that is being iterated over ends the process.
MapRace ==
  /\ \/ pc["start"] = "register" /\ Iterating("lifecycle")
     \/ \E c \in Callers, k \in Kinds : pc[c] = k /\ Iterating(k)
  /\ Fault
  /\ Restart
  /\ UNCHANGED world

StartStep ==
  \/ GetHypervisor \/ GetHypervisorFails \/ ReportConnectFailed \/ ReportFails
  \/ WatchLifecycle

-----------------------------------------------------------------------------
(* Reconcile, as far as libvirt is concerned.                              *)

\* Mutant: the error is logged and not returned.
ErrorSwallowed ==
  /\ Go("reconcile", "idle")
  /\ result' = EmptyStatus /\ fresh' = fresh \ {"reconcile"}
  /\ UNCHANGED <<conn, pending, loop, queued, hv, copy, missed, world>>

\* An error puts the request back into the queue.
ReturnError ==
  /\ Go("reconcile", "idle")
  /\ queued' = TRUE
  /\ result' = EmptyStatus /\ fresh' = fresh \ {"reconcile"}
  /\ UNCHANGED <<conn, pending, loop, hv, copy, missed, world>>

\* The request leaves the queue, the object is read from the cache; without
\* libvirtd.service no connection is tried.  Without a connection to systemd the
\* stored condition of the service decides, which may be wrong.
TakeRequest ==
  /\ pc["reconcile"] = "idle" /\ queued
  /\ queued' = FALSE
  /\ fresh' = fresh \cup {"reconcile"}
  /\ \/ /\ service \/ obstacle = "systemd"
        /\ Go("reconcile", "connect") /\ UNCHANGED result
     \/ /\ ~service \/ obstacle = "systemd"
        /\ Go("reconcile", "patch") /\ NotListed("LibVirtServiceNotRunning")
  /\ UNCHANGED <<conn, pending, loop, hv, copy, missed, world, faults>>

\* The units cannot be listed, or the inhibition cannot be switched: Reconcile
\* returns before it comes to libvirt.
SystemdFails ==
  /\ pc["reconcile"] = "idle" /\ queued
  /\ obstacle = "systemd" /\ UNCHANGED faults
  /\ ReturnError

\* DisableShutdownInhibit, called while the callback runs, never returns.
DisableBlocks ==
  /\ pc["reconcile"] = "idle" /\ queued /\ Fault
  /\ queued' = FALSE
  /\ Go("reconcile", "blocked")
  /\ UNCHANGED <<conn, pending, loop, report, result, missed, world>>

\* addInstancesInfo: the active domains, then the inactive ones.
ListActive ==
  /\ pc["reconcile"] = "active" /\ up
  /\ result' = [result EXCEPT !.cond = "Connected",
                  !.instances = Listed("active") \X {TRUE}]
  /\ missed' = FALSE
  /\ Go("reconcile", "inactive")
  /\ UNCHANGED <<conn, pending, loop, queued, report, world, faults>>

\* Mutant: the active domains are listed twice.
ListActiveTwice ==
  /\ pc["reconcile"] = "inactive" /\ up /\ obstacle # "process"
  /\ result' = [result EXCEPT !.instances = @ \cup Listed("active") \X {FALSE}]
  /\ Go("reconcile", "patch")
  /\ UNCHANGED <<conn, pending, loop, queued, report, missed, world, faults>>

\* The rest of Process follows: the capabilities and the allocation.
ListInactive ==
  /\ pc["reconcile"] = "inactive" /\ up /\ obstacle # "process"
  /\ result' = [result EXCEPT !.instances = @ \cup Listed("inactive") \X {FALSE}]
  /\ Go("reconcile", "patch")
  /\ UNCHANGED <<conn, pending, loop, queued, report, missed, world,
                 faults>>

\* Mutant: the condition ProcessFailed is written.
ProcessFailsReported ==
  /\ pc["reconcile"] \in {"active", "inactive"}
  /\ Fault \/ ((~up \/ obstacle = "process") /\ UNCHANGED faults)
  /\ Go("reconcile", "patch") /\ NotListed("ProcessFailed")
  /\ UNCHANGED <<conn, pending, loop, queued, report, missed, world>>

\* A call of Process fails, there is no connection, a domain is gone before its
\* description is read, or Process cannot use a domain or the host: a unit it does
\* not know, no CPUTune, NumaTune or CPU.Numa, an unknown cell.  Nothing is written.
ProcessFails ==
  /\ pc["reconcile"] \in {"active", "inactive"}
  /\ Fault \/ ((~up \/ obstacle = "process") /\ UNCHANGED faults)
  /\ ReturnError

\* Reconcile returns the error of EnsureCertificate, before the patch.
CertificateFails ==
  /\ pc["reconcile"] = "patch"
  /\ obstacle = "certificate" /\ UNCHANGED faults
  /\ ReturnError

\* The patch, under the optimistic lock; one that changes nothing is dropped.
PatchStatus ==
  /\ pc["reconcile"] = "patch" /\ obstacle # "certificate" /\ "reconcile" \in fresh
  /\ hv' = IF result.cond = "Connected" THEN result
                                        ELSE [hv EXCEPT !.cond = result.cond]
  /\ fresh' = (IF hv' = hv THEN fresh ELSE {}) \ {"reconcile"}
  /\ missed' = (missed \/ result.cond # "Connected")
  /\ result' = EmptyStatus
  /\ Go("reconcile", "idle")
  /\ UNCHANGED <<conn, pending, loop, queued, copy, world, faults>>

\* Refused or not answered.  A read from a cache that lags behind shows as a
\* refused patch.
PatchRefused ==
  /\ pc["reconcile"] = "patch"
  /\ Fault \/ ("reconcile" \notin fresh /\ UNCHANGED faults)
  /\ ReturnError

Reconcile ==
  \/ TakeRequest \/ SystemdFails \/ DisableBlocks
  \/ ListActive \/ ListInactive \/ ProcessFails
  \/ CertificateFails \/ PatchStatus \/ PatchRefused

-----------------------------------------------------------------------------
(* The environment.                                                        *)

\* The ticker of Start, RequeueAfter, or a change of the object.
Timer ==
  /\ pc["reconcile"] = "idle" /\ ~queued
  /\ queued' = TRUE
  /\ UNCHANGED <<pc, conn, pending, loop, report, result, missed,
                 world, faults>>

\* A lifecycle event would reach triggerReconcile: the handler is there and a
\* loop waits for the channel, or will with its next select.
Heard ==
  /\ Subscribed("lifecycle") /\ "reconcile" \in handlers["lifecycle"]
  /\ \E l \in Loops : /\ loop[l].pc # "none"
                      /\ loop[l].pc = "select" => "lifecycle" \in loop[l].cases

DomainChanges ==
  /\ changes < MaxChanges /\ changes' = changes + 1
  /\ \E d \in Domains, s \in DomainState :
       s # domain[d] /\ domain' = [domain EXCEPT ![d] = s]
  /\ pending' = IF Subscribed("lifecycle") THEN pending + 1 ELSE pending
  /\ missed' = (missed \/ ~Heard)
  /\ UNCHANGED <<pc, conn, loop, queued, report, result, service, obstacle,
                 raised, faults>>

\* libvirtd stops, and with it the connection.
ServiceStops ==
  /\ service /\ Fault
  /\ service' = FALSE /\ up' = FALSE
  /\ UNCHANGED <<pc, epoch, handlers, channel, pending, loop, queued,
                 report, result, missed, obstacle, domain, changes, raised>>

ServiceStarts ==
  /\ ~service /\ service' = TRUE
  /\ UNCHANGED <<pc, conn, pending, loop, queued, report, result,
                 missed, obstacle, domain, changes, raised, faults>>

\* An obstacle comes, and may or may not go.
ObstacleChanges ==
  /\ \/ obstacle = "none" /\ Fault /\ obstacle' \in Obstacles
     \/ obstacle # "none" /\ obstacle' = "none" /\ UNCHANGED faults
  /\ UNCHANGED <<pc, conn, pending, loop, queued, report, result, missed, service,
                 domain, changes, raised>>

\* Somebody restarts an agent that does nothing any more.
AgentReplaced ==
  /\ pc["reconcile"] = "blocked"
  /\ Restart
  /\ UNCHANGED <<world, faults>>

Environment ==
  \/ Timer \/ DomainChanges \/ ObstacleChanges
  \/ ServiceStops \/ ServiceStarts \/ MapRace \/ AgentReplaced

-----------------------------------------------------------------------------

Init ==
  /\ pc = [c \in Callers |-> IF c = "start" THEN "get" ELSE "idle"]
  /\ service = TRUE /\ up = FALSE /\ epoch = 0
  /\ handlers = [k \in Kinds |-> {}] /\ channel = [k \in Kinds |-> 0]
  /\ pending = 0 /\ loop = [l \in Loops |-> At("none")]
  /\ queued = TRUE
  /\ hv = EmptyStatus /\ fresh = {} /\ copy = FALSE
  /\ result = EmptyStatus
  /\ obstacle = "none"
  /\ domain = [d \in Domains |-> FirstState] /\ missed = FALSE
  /\ changes = 0 /\ raised = 0 /\ faults = 0

Next ==
  \/ \E c \in Callers : Connect(c)
  \/ \E l \in Loops : RunEventLoop(l)
  \/ StartStep \/ Reconcile \/ Environment

Spec == Init /\ [][Next]_vars

\* The goroutines run, the cache follows, the timers fire, libvirtd comes back.
Fairness ==
  /\ WF_vars(Connect("start") \/ StartStep)
  /\ WF_vars(Connect("reconcile") \/ Reconcile)
  /\ \A l \in Loops : WF_vars(RunEventLoop(l))
  /\ WF_vars(Timer) /\ WF_vars(ServiceStarts)

FairSpec == Spec /\ Fairness

-----------------------------------------------------------------------------
(* Properties.                                                             *)

TypeOK ==
  /\ pc \in [Callers -> Labels \cup Kinds]
  /\ service \in BOOLEAN /\ up \in BOOLEAN /\ epoch \in Nat
  /\ handlers \in [Kinds -> SUBSET Handlers]
  /\ channel \in [Kinds -> Nat] /\ pending \in Nat
  /\ loop \in [Loops -> LoopState]
  /\ queued \in BOOLEAN
  /\ hv \in Status /\ result \in Status /\ copy \in BOOLEAN
  /\ fresh \subseteq Callers /\ obstacle \in Obstacles \cup {"none"}
  /\ domain \in [Domains -> DomainState] /\ missed \in BOOLEAN
  /\ changes \in 0..MaxChanges /\ raised \in 0..MaxEvents
  /\ faults \in 0..MaxFaults

\* What a report of the domains as they are would say.
Exact(o) ==
  o.instances = {<<d, domain[d] = "active">> : d \in Present}

\* A lifecycle event is in its channel or on its way through the handlers.
EventUnderWay ==
  \/ pending > 0
  \/ \E l \in Loops : loop[l].pc = "dispatch" /\ "reconcile" \in loop[l].todo

\* "Domain lifecycle events impact the list of active/inactive domains": once
\* the handler of Start is reached by the events, no change of a domain is
\* forgotten, wherever it falls between the listings of a Reconcile, its errors
\* and its refused patches.  With no event under way and no Reconcile running
\* or requested, the status shows the domains as they are.
NoLostWakeup ==
  /\ Heard /\ ~missed
  /\ ~EventUnderWay /\ ~queued /\ pc["reconcile"] = "idle"
  => Exact(hv)

\* The handlers Connect enters meet no loop that iterates over the same map, as
\* long as the process has made one connection: the loop starts after them.
ConnectRegistersAlone ==
  \A c \in Callers, k \in Kinds : pc[c] = k /\ epoch = 1 => ~Iterating(k)

DeadChannel == \E k \in Kinds : channel[k] # 0 /\ Dead(channel[k])

\* "give the service a chance to restart and reconnect": a channel of a lost
\* connection, which domEventChs keeps for ever, ends the process, although
\* Reconcile may connect again before the event loop looks.
DeadChannelRestarts == DeadChannel ~> ~DeadChannel

\* Reconcile can get to its end.
Unobstructed == obstacle = "none" /\ pc["reconcile"] # "blocked"

\* Whatever call fails, event is lost or patch is refused on the way, libvirtd's
\* stops and the restarts of the process included, the status ends up showing the
\* domains libvirt has, with libvirt connected, provided that from some time on
\* nothing makes every Reconcile fail: no domain or host that Process cannot use, no
\* inhibition left half switched on, no call of DisableShutdownInhibit that blocks,
\* a certificate that can be ensured.
StatusCatchesUp ==
  <>[]Unobstructed => <>[](Exact(hv) /\ hv.cond = "Connected")

=============================================================================
