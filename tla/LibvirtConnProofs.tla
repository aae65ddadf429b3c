------------------------- MODULE LibvirtConnProofs -------------------------
(***************************************************************************)
(* The connection to libvirt, for every set of domains, every number of    *)
(* goroutines and kinds of event, and every bound.                         *)
(***************************************************************************)
EXTENDS LibvirtConn, TLAPS

\* The values and the flags of the type invariant: the provers treat them apart.
Values ==
  /\ pc \in [Callers -> Labels \cup Kinds] /\ epoch \in Nat
  /\ handlers \in [Kinds -> SUBSET Handlers]
  /\ channel \in [Kinds -> Nat] /\ pending \in Nat
  /\ loop \in [Loops -> LoopState]
  /\ hv \in Status /\ result \in Status
  /\ fresh \subseteq Callers /\ obstacle \in Obstacles \cup {"none"}
  /\ domain \in [Domains -> DomainState]
  /\ changes \in 0..MaxChanges /\ raised \in 0..MaxEvents
  /\ faults \in 0..MaxFaults

Flags ==
  /\ service \in BOOLEAN /\ up \in BOOLEAN /\ queued \in BOOLEAN
  /\ copy \in BOOLEAN /\ missed \in BOOLEAN

LEMMA WatchedKind ==
  /\ \A i \in DOMAIN Watched : Watched[i] \in Kinds
  /\ \A i \in DOMAIN Watched : i < Len(Watched) => i + 1 \in DOMAIN Watched
  /\ 1 \in DOMAIN Watched /\ "lifecycle" \in Kinds /\ Kinds \cap Labels = {}
  BY ConstantsAssumption DEF Kinds

LEMMA StatusType ==
  /\ EmptyStatus \in Status
  /\ \A r \in Reason, o \in Status :
       [o EXCEPT !.cond = r] \in Status /\ [o EXCEPT !.cond = r].instances = o.instances
  BY DEF Status, EmptyStatus, Reason

LEMMA AtType ==
  \A l \in {"none", "top", "select", "dispatch"} : At(l) \in LoopState
  BY WatchedKind DEF At, LoopState

LEMMA GoType ==
  ASSUME pc \in [Callers -> Labels \cup Kinds], NEW c \in Callers,
         NEW l \in Labels \cup Kinds, Go(c, l)
  PROVE  pc' \in [Callers -> Labels \cup Kinds]
  BY DEF Go

LEMMA FaultType ==
  ASSUME faults \in 0..MaxFaults, Fault PROVE faults' \in 0..MaxFaults
  BY ConstantsAssumption DEF Fault

LEMMA InitValues == Init => Values
<1> SUFFICES ASSUME Init PROVE Values
  OBVIOUS
<1>1. pc \in [Callers -> Labels \cup Kinds]
  BY DEF Init, Callers, Labels
<1>2. loop \in [Loops -> LoopState]
  BY AtType DEF Init
<1>3. handlers \in [Kinds -> SUBSET Handlers] /\ channel \in [Kinds -> Nat]
  BY DEF Init
<1>4. domain \in [Domains -> DomainState]
  BY ConstantsAssumption DEF Init
<1> QED
  BY <1>1, <1>2, <1>3, <1>4, StatusType, ConstantsAssumption DEF Init, Values

LEMMA RestartValues ==
  ASSUME Values, Restart, domain' = domain, UNCHANGED <<obstacle, changes, raised>>,
         faults' \in 0..MaxFaults
  PROVE  Values'
<1>1. pc' \in [Callers -> Labels \cup Kinds]
  BY DEF Restart, Callers, Labels
<1>2. loop' \in [Loops -> LoopState]
  BY AtType DEF Restart
<1>3. handlers' \in [Kinds -> SUBSET Handlers] /\ channel' \in [Kinds -> Nat]
  BY DEF Restart
<1> QED
  BY <1>1, <1>2, <1>3, StatusType DEF Restart, Values

LEMMA WatchDomainChangesType ==
  ASSUME Values, NEW k \in Kinds, NEW h \in Handlers, WatchDomainChanges(k, h)
  PROVE  /\ handlers' \in [Kinds -> SUBSET Handlers]
         /\ channel' \in [Kinds -> Nat] /\ faults' \in 0..MaxFaults
<1>1. handlers' \in [Kinds -> SUBSET Handlers]
  BY DEF WatchDomainChanges, Values
<1>2. channel' \in [Kinds -> Nat]
  BY DEF WatchDomainChanges, Values
<1>3. faults' \in 0..MaxFaults
  BY FaultType DEF WatchDomainChanges, Values
<1> QED
  BY <1>1, <1>2, <1>3

LEMMA StartEventLoopType ==
  ASSUME Values, StartEventLoop PROVE loop' \in [Loops -> LoopState]
  BY AtType DEF StartEventLoop, Values

LEMMA ConnectValues ==
  ASSUME Values, NEW c \in Callers, Connect(c) PROVE Values'
<1>1. AfterConnect(c) \in Labels
  BY DEF AfterConnect, Labels
<1>2. {"dial", "report", "patch"} \subseteq Labels
  BY DEF Labels
<1>3. CASE IsConnected(c) \/ NotConnected(c)
  <2>1. pc' \in [Callers -> Labels \cup Kinds]
    BY <1>1, <1>2, <1>3, GoType DEF IsConnected, NotConnected, Values
  <2> QED
    BY <1>3, <2>1 DEF IsConnected, NotConnected, Values, conn, report, world
<1>4. CASE ConnectToURI(c)
  <2>1. pc' \in [Callers -> Labels \cup Kinds]
    BY <1>4, GoType, WatchedKind DEF ConnectToURI, Values
  <2> QED
    BY <1>4, <2>1 DEF ConnectToURI, Values, report, world
<1>5. CASE ConnectFails(c)
  <2>1. pc' \in [Callers -> Labels \cup Kinds]
    BY <1>2, <1>5, GoType DEF ConnectFails, Values
  <2>2. result' \in Status
    BY <1>5, StatusType DEF ConnectFails, NotListed, Reason, Values
  <2> QED
    BY <1>5, <2>1, <2>2 DEF ConnectFails, Values, conn, report, world
<1>6. ASSUME NEW i \in DOMAIN Watched, Watch(c, i) PROVE Values'
  <2>1. pc' \in [Callers -> Labels \cup Kinds]
    BY <1>1, <1>6, GoType, WatchedKind DEF Watch, Values
  <2>2. loop' \in [Loops -> LoopState]
    BY <1>6, StartEventLoopType DEF Watch, Values
  <2>3. WatchDomainChanges(Watched[i], "own") /\ Watched[i] \in Kinds /\ "own" \in Handlers
    BY <1>6, WatchedKind DEF Watch, Handlers
  <2>4. /\ handlers' \in [Kinds -> SUBSET Handlers]
        /\ channel' \in [Kinds -> Nat] /\ faults' \in 0..MaxFaults
    BY <2>3, WatchDomainChangesType
  <2> QED
    BY <1>6, <2>1, <2>2, <2>4 DEF Watch, Values, report, world
<1> QED
  BY <1>3, <1>4, <1>5, <1>6 DEF Connect

LEMMA CalledType ==
  ASSUME NEW r \in LoopState, NEW h PROVE Called(r, h) \in LoopState
<1>1. r.todo \ {h} \subseteq Handlers
  BY DEF LoopState
<1>2. [r EXCEPT !.todo = r.todo \ {h}] \in LoopState
  BY <1>1 DEF LoopState
<1> QED
  BY <1>2, AtType DEF Called

LEMMA RunEventLoopValues ==
  ASSUME Values, NEW l \in Loops, RunEventLoop(l) PROVE Values'
<1>1. CASE BuildSelect(l)
  <2>1. \A n \in Nat, ks \in SUBSET Kinds :
          [At("select") EXCEPT !.closes = n, !.cases = ks] \in LoopState
    BY AtType DEF LoopState
  <2>2. (IF up THEN epoch ELSE 0) \in Nat /\ {k \in Kinds : channel[k] # 0} \in SUBSET Kinds
    BY DEF Values
  <2>3. PICK r \in LoopState : loop' = [loop EXCEPT ![l] = r]
    BY <1>1, <2>1, <2>2 DEF BuildSelect
  <2>4. loop' \in [Loops -> LoopState]
    BY <2>3 DEF Values
  <2> QED
    BY <1>1, <2>4 DEF BuildSelect, Values, conn, report, world
<1>2. \A k \in Kinds : Dispatch(l, k) => loop' \in [Loops -> LoopState]
  <2>1. \A k \in Kinds, hs \in SUBSET Handlers :
          [At("dispatch") EXCEPT !.kind = k, !.todo = hs] \in LoopState
    BY AtType DEF LoopState
  <2>2. ASSUME NEW k \in Kinds, Dispatch(l, k) PROVE loop' \in [Loops -> LoopState]
    <3>1. handlers[k] \in SUBSET Handlers
      BY DEF Values
    <3>2. PICK r \in LoopState : loop' = [loop EXCEPT ![l] = r]
      BY <2>1, <2>2, <3>1 DEF Dispatch
    <3> QED
      BY <3>2 DEF Values
  <2> QED
    BY <2>2
<1>3. CASE ReceiveLifecycle(l)
  BY <1>2, <1>3, WatchedKind DEF ReceiveLifecycle, Values, conn, report, world
<1>4. ASSUME NEW k \in Kinds, ReceiveOther(l, k) PROVE Values'
  BY <1>2, <1>4, ConstantsAssumption DEF ReceiveOther, Values, conn, report, world
<1>5. ASSUME NEW h \in Handlers, CallHandler(l, h) PROVE Values'
  <2>1. loop[l] \in LoopState
    BY DEF Values
  <2>2. Called(loop[l], h) \in LoopState
    BY <2>1, CalledType
  <2>3. loop' \in [Loops -> LoopState]
    BY <1>5, <2>2 DEF CallHandler, Values
  <2> QED
    BY <1>5, <2>3 DEF CallHandler, Values, conn, report, world
<1>6. CASE Panic(l)
  BY <1>6, RestartValues DEF Panic, Values, world
<1> QED
  BY <1>1, <1>3, <1>4, <1>5, <1>6 DEF RunEventLoop

LEMMA StartStepValues == ASSUME Values, StartStep PROVE Values'
<1>1. {"connect", "done"} \subseteq Labels /\ "start" \in Callers
  BY DEF Labels, Callers
<1>2. CASE GetHypervisor \/ ReportConnectFailed \/ ReportFails
  <2>1. pc' \in [Callers -> Labels \cup Kinds]
    BY <1>1, <1>2, GoType DEF GetHypervisor, ReportConnectFailed, ReportFails, Values
  <2>2. hv' \in Status /\ fresh' \subseteq Callers
    BY <1>1, <1>2, StatusType DEF GetHypervisor, ReportConnectFailed, ReportFails, Values,
       Reason
  <2>3. faults' \in 0..MaxFaults
    BY <1>2, FaultType DEF GetHypervisor, ReportConnectFailed, ReportFails, Values
  <2> QED
    BY <1>2, <2>1, <2>2, <2>3 DEF GetHypervisor, ReportConnectFailed, ReportFails, Values,
       conn, world
<1>3. CASE WatchLifecycle
  <2>1. pc' \in [Callers -> Labels \cup Kinds]
    BY <1>1, <1>3, GoType DEF WatchLifecycle, Values
  <2>2. "reconcile" \in Handlers
    BY DEF Handlers
  <2>3. /\ handlers' \in [Kinds -> SUBSET Handlers]
        /\ channel' \in [Kinds -> Nat] /\ faults' \in 0..MaxFaults
    BY <1>3, <2>2, WatchDomainChangesType, WatchedKind DEF WatchLifecycle
  <2> QED
    BY <1>3, <2>1, <2>3 DEF WatchLifecycle, Values, world
<1>4. CASE GetHypervisorFails
  BY <1>4, FaultType, RestartValues DEF GetHypervisorFails, Values, world
<1> QED
  BY <1>2, <1>3, <1>4 DEF StartStep

LEMMA ReconcileValues == ASSUME Values, Reconcile PROVE Values'
<1>1. /\ {"idle", "blocked", "connect", "inactive", "patch"} \subseteq Labels
      /\ "reconcile" \in Callers
  BY DEF Labels, Callers
<1>2. \A s \in DomainState, b \in BOOLEAN : Listed(s) \X {b} \subseteq Domains \X BOOLEAN
  BY DEF Listed
<1>3. CASE TakeRequest
  <2>1. pc' \in [Callers -> Labels \cup Kinds]
    BY <1>1, <1>3, GoType DEF TakeRequest, Values
  <2>2. result' \in Status
    BY <1>3, StatusType DEF TakeRequest, NotListed, Reason, Values
  <2> QED
    BY <1>1, <1>3, <2>1, <2>2 DEF TakeRequest, Values, conn, world
<1>4. CASE ListActive
  <2>1. pc' \in [Callers -> Labels \cup Kinds]
    BY <1>1, <1>4, GoType DEF ListActive, Values
  <2>2. Listed("active") \X {TRUE} \subseteq Domains \X BOOLEAN
    BY <1>2 DEF DomainState
  <2>3. result' \in Status
    BY <1>4, <2>2 DEF ListActive, Values, Status, Reason
  <2> QED
    BY <1>4, <2>1, <2>3 DEF ListActive, Values, conn, report, world
<1>5. CASE ListInactive
  <2>1. pc' \in [Callers -> Labels \cup Kinds]
    BY <1>1, <1>5, GoType DEF ListInactive, Values
  <2>2. Listed("inactive") \X {FALSE} \subseteq Domains \X BOOLEAN
    BY <1>2 DEF DomainState
  <2>3. result' \in Status
    BY <1>5, <2>2 DEF ListInactive, Values, Status
  <2> QED
    BY <1>5, <2>1, <2>3 DEF ListInactive, Values, conn, report, world
<1>6. CASE SystemdFails \/ ProcessFails \/ CertificateFails \/ PatchRefused
  <2>1. ReturnError /\ faults' \in 0..MaxFaults
    BY <1>6, FaultType DEF SystemdFails, ProcessFails, CertificateFails, PatchRefused,
       Values
  <2>2. pc' \in [Callers -> Labels \cup Kinds]
    BY <1>1, <2>1, GoType DEF ReturnError, Values
  <2> QED
    BY <2>1, <2>2, StatusType DEF ReturnError, Values, conn, world
<1>7. CASE PatchStatus
  <2>1. pc' \in [Callers -> Labels \cup Kinds]
    BY <1>1, <1>7, GoType DEF PatchStatus, Values
  <2>2. result.cond \in Reason
    BY DEF Values, Status
  <2>3. hv' \in Status
    BY <1>7, <2>2, StatusType DEF PatchStatus, Values
  <2> QED
    BY <1>7, <2>1, <2>3, StatusType DEF PatchStatus, Values, conn, world
<1>8. CASE DisableBlocks
  <2>1. pc' \in [Callers -> Labels \cup Kinds]
    BY <1>1, <1>8, GoType DEF DisableBlocks, Values
  <2> QED
    BY <1>8, <2>1, FaultType DEF DisableBlocks, Values, conn, report, world
<1> QED
  BY <1>3, <1>4, <1>5, <1>6, <1>7, <1>8 DEF Reconcile

LEMMA EnvironmentValues == ASSUME Values, Environment PROVE Values'
<1>1. CASE Timer \/ ServiceStarts
  BY <1>1 DEF Timer, ServiceStarts, Values, conn, report, world
<1>2. CASE DomainChanges
  <2>1. domain' \in [Domains -> DomainState]
    BY <1>2 DEF DomainChanges, Values
  <2>2. pending' \in Nat
    BY <1>2 DEF DomainChanges, Values
  <2>3. changes' \in 0..MaxChanges
    BY <1>2, ConstantsAssumption DEF DomainChanges, Values
  <2> QED
    BY <1>2, <2>1, <2>2, <2>3 DEF DomainChanges, Values, conn, report
<1>3. CASE ServiceStops
  BY <1>3, FaultType DEF ServiceStops, Values, report
<1>4. CASE MapRace \/ AgentReplaced
  BY <1>4, FaultType, RestartValues DEF MapRace, AgentReplaced, Values, world
<1>5. CASE ObstacleChanges
  BY <1>5, FaultType DEF ObstacleChanges, Values, conn, report
<1> QED
  BY <1>1, <1>2, <1>3, <1>4, <1>5 DEF Environment

LEMMA NextValues == Values /\ [Next]_vars => Values'
<1>1. Values /\ UNCHANGED vars => Values'
  BY DEF vars, conn, report, world, Values
<1> QED
  BY <1>1, ConnectValues, RunEventLoopValues, StartStepValues, ReconcileValues,
     EnvironmentValues DEF Next

LEMMA NextFlags == Flags /\ [Next]_vars => Flags'
<1> SUFFICES ASSUME Flags, [Next]_vars PROVE Flags'
  OBVIOUS
<1>1. ASSUME NEW c \in Callers, Connect(c) PROVE Flags'
  BY <1>1, Zenon DEF Connect, IsConnected, NotConnected, ConnectToURI, ConnectFails, Watch,
     Flags, conn, report, world
<1>2. ASSUME NEW l \in Loops, RunEventLoop(l) PROVE Flags'
  <2>1. CASE BuildSelect(l) \/ ReceiveLifecycle(l) \/ \E k \in Kinds : ReceiveOther(l, k)
    BY <2>1, Zenon DEF BuildSelect, ReceiveLifecycle, ReceiveOther, Flags, conn, report,
       world
  <2>2. CASE Panic(l)
    BY <2>2, Zenon DEF Panic, Restart, Flags, world
  <2>3. ASSUME NEW h \in Handlers, CallHandler(l, h) PROVE Flags'
    BY <2>3, Zenon DEF CallHandler, Flags, conn, report, world
  <2> QED
    BY <1>2, <2>1, <2>2, <2>3, Zenon DEF RunEventLoop
<1>3. CASE StartStep
  <2>1. CASE GetHypervisorFails
    BY <2>1, Zenon DEF GetHypervisorFails, Restart, Flags, world
  <2>2. CASE ~GetHypervisorFails
    BY <1>3, <2>2, Zenon DEF StartStep, GetHypervisor, ReportConnectFailed, ReportFails,
       WatchLifecycle, Flags, conn, world
  <2> QED
    BY <2>1, <2>2
<1>4. CASE Reconcile
  <2>1. CASE TakeRequest \/ DisableBlocks \/ ListActive \/ ListInactive
    BY <2>1, Zenon DEF TakeRequest, DisableBlocks, ListActive, ListInactive, Flags, conn,
       report, world
  <2>2. CASE SystemdFails \/ ProcessFails \/ CertificateFails \/ PatchRefused
    BY <2>2, Zenon DEF SystemdFails, ProcessFails, CertificateFails, PatchRefused,
       ReturnError, Flags, conn, world
  <2>3. CASE PatchStatus
    BY <2>3, Zenon DEF PatchStatus, Flags, conn, world
  <2> QED
    BY <1>4, <2>1, <2>2, <2>3, Zenon DEF Reconcile
<1>5. CASE Environment
  <2>1. CASE Timer \/ ServiceStops \/ ServiceStarts \/ ObstacleChanges
    BY <2>1, Zenon DEF Timer, ServiceStops, ServiceStarts, ObstacleChanges, Flags, conn,
       report, world
  <2>2. CASE DomainChanges
    BY <2>2, Zenon DEF DomainChanges, Flags, conn, report
  <2>3. CASE MapRace \/ AgentReplaced
    BY <2>3, Zenon DEF MapRace, AgentReplaced, Restart, Flags, world
  <2> QED
    BY <1>5, <2>1, <2>2, <2>3, Zenon DEF Environment
<1>6. CASE UNCHANGED vars
  BY <1>6, Zenon DEF vars, conn, report, world, Flags
<1> QED
  BY <1>1, <1>2, <1>3, <1>4, <1>5, <1>6, Zenon DEF Next

\* Every variable of Connect, the event loop, Start and Reconcile has its type.
THEOREM TypeCorrect == Spec => []TypeOK
<1>1. Init => Flags
  BY Zenon DEF Init, Flags
<1>2. Values /\ Flags => TypeOK
  BY Zenon DEF Values, Flags, TypeOK
<1> QED
  BY <1>1, <1>2, InitValues, NextValues, NextFlags, PTL DEF Spec

-----------------------------------------------------------------------------
(* Connect enters its handlers before there is a loop.                     *)

Registering(c) == pc[c] \in Kinds

NoLoop == \A l \in Loops : loop[l].pc = "none"

\* Before the first connection nobody registers and no loop runs; with the first
\* one, a caller that registers is alone, and no loop runs yet.
AloneInv ==
  /\ epoch = 0 => NoLoop /\ \A c \in Callers : ~Registering(c)
  /\ epoch = 1 => \A c \in Callers : Registering(c) =>
                    NoLoop /\ \A b \in Callers \ {c} : ~Registering(b)

\* Registering goes on, the loops and the connection stay as they are.
LEMMA AloneFrame ==
  ASSUME AloneInv, UNCHANGED <<epoch, loop>>,
         \A c \in Callers : Registering(c)' => Registering(c)
  PROVE  AloneInv'
  BY DEF AloneInv, NoLoop

\* A caller that moves to a label registers no longer.
LEMMA GoLabel ==
  ASSUME Values, NEW c \in Callers, NEW l \in Labels, Go(c, l)
  PROVE  /\ ~Registering(c)'
         /\ \A b \in Callers \ {c} : Registering(b)' = Registering(b)
<1>1. l \notin Kinds
  BY WatchedKind
<1> QED
  BY <1>1 DEF Go, Registering, Values

LEMMA RestartAlone == ASSUME Restart PROVE AloneInv'
<1>1. \A c \in Callers : pc'[c] \in Labels
  BY DEF Restart, Labels
<1>2. \A l \in Loops : loop'[l].pc = "none"
  BY DEF Restart, At
<1>3. epoch' = 0
  BY DEF Restart
<1> QED
  BY <1>1, <1>2, <1>3, WatchedKind DEF AloneInv, NoLoop, Registering

\* A loop that runs shows that nobody registers for the first time.
LEMMA LoopStepAlone ==
  ASSUME AloneInv, NEW l \in Loops, loop[l].pc # "none", UNCHANGED <<pc, epoch>>
  PROVE  AloneInv'
  BY DEF AloneInv, NoLoop, Registering

LEMMA StepAlone == Values /\ AloneInv /\ [Next]_vars => AloneInv'
<1> SUFFICES ASSUME Values, AloneInv, [Next]_vars PROVE AloneInv'
  OBVIOUS
<1>1. ASSUME NEW c \in Callers, NEW l \in Labels, Go(c, l), UNCHANGED <<epoch, loop>>
      PROVE  AloneInv'
  BY <1>1, GoLabel, AloneFrame
<1>2. ASSUME NEW c \in Callers, Connect(c) PROVE AloneInv'
  <2>1. {AfterConnect(c), "dial", "report", "patch"} \subseteq Labels
    BY DEF AfterConnect, Labels
  <2>2. CASE IsConnected(c) \/ NotConnected(c) \/ ConnectFails(c)
    BY <1>1, <2>1, <2>2 DEF IsConnected, NotConnected, ConnectFails, conn
  <2>3. CASE ConnectToURI(c)
    <3>1. epoch' = epoch + 1 /\ loop' = loop /\ epoch \in Nat /\ pc[c] \notin Kinds
      BY <2>3, WatchedKind DEF ConnectToURI, Values, Labels
    <3>2. \A b \in Callers \ {c} : Registering(b)' = Registering(b)
      BY <2>3 DEF ConnectToURI, Go, Registering, Values
    <3>3. epoch = 0 => NoLoop' /\ \A b \in Callers \ {c} : ~Registering(b)'
      BY <3>1, <3>2 DEF AloneInv, NoLoop
    <3>4. epoch' # 0 /\ (epoch' = 1 => epoch = 0)
      BY <3>1
    <3> QED
      BY <3>3, <3>4 DEF AloneInv
  <2>4. ASSUME NEW i \in DOMAIN Watched, Watch(c, i) PROVE AloneInv'
    <3>1. Registering(c) /\ epoch' = epoch
      BY <2>4, WatchedKind DEF Watch, Registering
    <3>2. CASE i < Len(Watched) /\ Go(c, Watched[i + 1]) /\ UNCHANGED loop
      <4>1. \A b \in Callers : Registering(b)' => Registering(b)
        BY <3>1, <3>2 DEF Go, Registering, Values
      <4> QED
        BY <3>1, <3>2, <4>1, AloneFrame
    <3>3. CASE Go(c, AfterConnect(c))
      <4>1. ~Registering(c)' /\ \A b \in Callers \ {c} : Registering(b)' = Registering(b)
        BY <2>1, <3>3, GoLabel
      <4>2. epoch # 0 /\ (epoch = 1 => \A b \in Callers \ {c} : ~Registering(b))
        BY <3>1 DEF AloneInv
      <4> QED
        BY <3>1, <4>1, <4>2 DEF AloneInv
    <3> QED
      BY <2>4, <3>2, <3>3 DEF Watch
  <2> QED
    BY <1>2, <2>2, <2>3, <2>4 DEF Connect
<1>3. ASSUME NEW l \in Loops, RunEventLoop(l) PROVE AloneInv'
  <2>1. CASE Panic(l)
    BY <2>1, RestartAlone DEF Panic
  <2>2. CASE ~Panic(l)
    <3>1. loop[l].pc # "none" /\ UNCHANGED <<pc, epoch>>
      BY <1>3, <2>2 DEF RunEventLoop, BuildSelect, ReceiveLifecycle, ReceiveOther,
         CallHandler, conn
    <3> QED
      BY <3>1, LoopStepAlone
  <2> QED
    BY <2>1, <2>2
<1>4. CASE StartStep
  <2>1. {"connect", "done"} \subseteq Labels /\ "start" \in Callers
    BY DEF Labels, Callers
  <2>2. CASE GetHypervisorFails
    BY <2>2, RestartAlone DEF GetHypervisorFails
  <2> QED
    BY <1>1, <1>4, <2>1, <2>2 DEF StartStep, GetHypervisor, ReportConnectFailed,
       ReportFails, WatchLifecycle, conn
<1>5. CASE Reconcile
  <2>1. /\ {"idle", "blocked", "connect", "inactive", "patch"} \subseteq Labels
        /\ "reconcile" \in Callers
    BY DEF Labels, Callers
  <2> QED
    BY <1>1, <1>5, <2>1 DEF Reconcile, TakeRequest, SystemdFails, DisableBlocks,
       ListActive, ListInactive, ProcessFails, CertificateFails, PatchRefused, PatchStatus,
       ReturnError, conn
<1>6. CASE Environment
  <2>1. CASE MapRace \/ AgentReplaced
    BY <2>1, RestartAlone DEF MapRace, AgentReplaced
  <2>2. CASE ~(MapRace \/ AgentReplaced)
    <3>1. UNCHANGED <<pc, epoch, loop>>
      BY <1>6, <2>2 DEF Environment, Timer, DomainChanges, ServiceStops, ServiceStarts,
         ObstacleChanges, conn
    <3> QED
      BY <3>1, AloneFrame DEF Registering
  <2> QED
    BY <2>1, <2>2
<1>7. CASE UNCHANGED vars
  BY <1>7, AloneFrame DEF vars, conn, Registering
<1> QED
  BY <1>2, <1>3, <1>4, <1>5, <1>6, <1>7 DEF Next

\* As long as the process has made one connection, Connect enters its handlers into
\* maps that no event loop iterates over, whichever of Start and Reconcile connects.
THEOREM FirstConnectionRegistersAlone == Spec => []ConnectRegistersAlone
<1>1. Init => AloneInv
  <2> SUFFICES ASSUME Init PROVE AloneInv
    OBVIOUS
  <2>1. (\A c \in Callers : pc[c] \in Labels) /\ epoch = 0
    BY DEF Init, Labels
  <2>2. NoLoop
    BY DEF Init, NoLoop, At
  <2> QED
    BY <2>1, <2>2, WatchedKind DEF AloneInv, Registering
<1>2. AloneInv => ConnectRegistersAlone
  BY DEF AloneInv, ConnectRegistersAlone, Registering, NoLoop, Iterating
<1> QED
  BY <1>1, <1>2, InitValues, NextValues, StepAlone, PTL DEF Spec

-----------------------------------------------------------------------------
(* No change of a domain is forgotten.                                     *)

\* A loop that is about to call triggerReconcile.
Calling(l) == loop[l].pc = "dispatch" /\ "reconcile" \in loop[l].todo

\* Reconcile will run again, or an event that is under way will see to it.
Wake ==
  \/ queued
  \/ pending > 0 /\ "reconcile" \in handlers["lifecycle"]
  \/ \E l \in Loops : Calling(l)

ActiveOnly(o) == o.instances = Listed("active") \X {TRUE}

\* Every change since the domains were listed has left a wake-up behind.
WakeInv ==
  ~missed =>
    /\ pc["reconcile"] = "idle" => Wake \/ Exact(hv)
    /\ pc["reconcile"] = "inactive" => Wake \/ ActiveOnly(result)
    /\ pc["reconcile"] = "patch" /\ result.cond = "Connected" => Wake \/ Exact(result)

\* A step that keeps the wake-ups, and what they are compared with, keeps the
\* invariant.
LEMMA WakeFrame ==
  ASSUME WakeInv, Wake => Wake', missed' = missed, domain' = domain,
         hv'.instances = hv.instances, result' = result,
         pc'["reconcile"] = pc["reconcile"]
  PROVE  WakeInv'
<1>1. Exact(hv)' = Exact(hv) /\ Exact(result)' = Exact(result)
  BY DEF Exact, Present
<1>2. ActiveOnly(result)' = ActiveOnly(result)
  BY DEF ActiveOnly, Listed
<1> QED
  BY <1>1, <1>2 DEF WakeInv

\* Nothing is claimed of a Reconcile that has not begun to list the domains.
LEMMA WakeNotListed ==
  ASSUME \/ pc'["reconcile"] \notin {"idle", "inactive", "patch"}
         \/ pc'["reconcile"] = "patch" /\ result'.cond # "Connected"
         \/ pc'["reconcile"] = "idle" /\ queued'
         \/ Wake'
  PROVE  WakeInv'
  BY DEF WakeInv, Wake

LEMMA StartEventLoopWake ==
  ASSUME Values, StartEventLoop, UNCHANGED <<queued, pending>>,
         "reconcile" \in handlers["lifecycle"] => "reconcile" \in handlers'["lifecycle"],
         Wake
  PROVE  Wake'
<1>1. PICK m \in Loops : loop[m].pc = "none" /\ loop' = [loop EXCEPT ![m] = At("top")]
  BY DEF StartEventLoop
<1>2. \A l \in Loops : Calling(l) => l # m /\ loop'[l] = loop[l]
  BY <1>1 DEF Calling, Values
<1>3. \A l \in Loops : Calling(l) => Calling(l)'
  BY <1>2 DEF Calling
<1> QED
  BY <1>3 DEF Wake

\* A handler that is entered stays.
LEMMA HandlersGrow ==
  ASSUME Values, NEW k \in Kinds, NEW h \in Handlers, WatchDomainChanges(k, h),
         "reconcile" \in handlers["lifecycle"]
  PROVE  "reconcile" \in handlers'["lifecycle"]
  BY WatchedKind DEF WatchDomainChanges, Values

LEMMA ConnectWake ==
  ASSUME Values, WakeInv, NEW c \in Callers, Connect(c) PROVE WakeInv'
<1>1. "reconcile" \in Callers /\ "start" \in Callers /\ c \in {"start", "reconcile"}
  BY DEF Callers
<1>2. Kinds \cap Labels = {} /\ {"idle", "inactive", "patch"} \subseteq Labels
  BY WatchedKind DEF Labels
<1>3. CASE IsConnected(c) \/ NotConnected(c) \/ ConnectToURI(c) \/ ConnectFails(c)
  <2>1. UNCHANGED <<queued, pending, loop, handlers, missed, domain, hv>>
    BY <1>3 DEF IsConnected, NotConnected, ConnectToURI, ConnectFails, conn, report, world
  <2>2. Wake' = Wake
    BY <2>1 DEF Wake, Calling
  <2>3. CASE c = "start"
    <3>1. result' = result /\ pc'["reconcile"] = pc["reconcile"]
      BY <1>1, <1>3, <2>3 DEF IsConnected, NotConnected, ConnectToURI, ConnectFails, Go,
         Values
    <3> QED
      BY <2>1, <2>2, <3>1, WakeFrame
  <2>4. CASE c = "reconcile" /\ ~ConnectFails(c)
    <3>1. pc'["reconcile"] \in {"active", "dial", Watched[1]}
      BY <1>1, <1>3, <2>4 DEF IsConnected, NotConnected, ConnectToURI, Go, Values,
         AfterConnect
    <3>2. Watched[1] \notin {"idle", "inactive", "patch"}
      BY <1>2, WatchedKind
    <3> QED
      BY <3>1, <3>2, WakeNotListed
  <2>5. CASE c = "reconcile" /\ ConnectFails(c)
    <3>1. pc'["reconcile"] = "patch" /\ result'.cond # "Connected"
      BY <1>1, <2>5 DEF ConnectFails, Go, Values, NotListed, EmptyStatus
    <3> QED
      BY <3>1, WakeNotListed
  <2> QED
    BY <1>1, <2>3, <2>4, <2>5
<1>4. ASSUME NEW i \in DOMAIN Watched, Watch(c, i) PROVE WakeInv'
  <2>1. UNCHANGED <<queued, pending, missed, domain, hv, result>>
    BY <1>4 DEF Watch, report, world
  <2>2. "reconcile" \in handlers["lifecycle"] => "reconcile" \in handlers'["lifecycle"]
    BY <1>4, HandlersGrow, WatchedKind DEF Watch, Handlers
  <2>3. Wake => Wake'
    <3>1. CASE StartEventLoop
      BY <2>1, <2>2, <3>1, StartEventLoopWake
    <3>2. CASE UNCHANGED loop
      BY <2>1, <2>2, <3>2 DEF Wake, Calling
    <3> QED
      BY <1>4, <3>1, <3>2 DEF Watch
  <2>4. CASE c = "start"
    <3>1. pc'["reconcile"] = pc["reconcile"]
      BY <1>1, <1>4, <2>4 DEF Watch, Go, Values
    <3> QED
      BY <2>1, <2>3, <3>1, WakeFrame
  <2>5. CASE c = "reconcile"
    <3>1. pc'["reconcile"] \in {"active"} \cup Kinds
      BY <1>1, <1>4, <2>5, WatchedKind DEF Watch, Go, Values, AfterConnect
    <3>2. pc'["reconcile"] \notin {"idle", "inactive", "patch"}
      BY <1>2, <3>1
    <3> QED
      BY <3>2, WakeNotListed
  <2> QED
    BY <1>1, <2>4, <2>5
<1> QED
  BY <1>3, <1>4 DEF Connect

LEMMA RestartWake == ASSUME Restart PROVE WakeInv'
<1>1. queued'
  BY DEF Restart
<1> QED
  BY <1>1, WakeNotListed DEF Wake

\* A step of one loop leaves the others where they are.
LEMMA OtherLoops ==
  ASSUME Values, NEW l \in Loops, NEW r, loop' = [loop EXCEPT ![l] = r]
  PROVE  loop'[l] = r /\ \A m \in Loops \ {l} : Calling(m)' = Calling(m)
  BY DEF Values, Calling

LEMMA RunEventLoopWake ==
  ASSUME Values, WakeInv, NEW l \in Loops, RunEventLoop(l) PROVE WakeInv'
<1>1. CASE Panic(l)
  BY <1>1, RestartWake DEF Panic
<1>2. CASE ~Panic(l)
  <2>1. UNCHANGED <<pc, handlers, missed, domain, hv, result>>
    BY <1>2 DEF RunEventLoop, BuildSelect, ReceiveLifecycle, ReceiveOther,
       CallHandler, conn, report, world
  <2>2. Wake => Wake'
    <3>1. CASE BuildSelect(l)
      <4>1. ~Calling(l) /\ UNCHANGED <<queued, pending, handlers>>
        BY <3>1 DEF BuildSelect, Calling, conn
      <4>2. \A m \in Loops \ {l} : Calling(m)' = Calling(m)
        BY <3>1, OtherLoops DEF BuildSelect
      <4> QED
        BY <4>1, <4>2 DEF Wake
    <3>2. CASE ReceiveLifecycle(l)
      <4> DEFINE r == [At("dispatch") EXCEPT !.kind = "lifecycle",
                                             !.todo = handlers["lifecycle"]]
      <4>1. ~Calling(l) /\ UNCHANGED <<queued, handlers>> /\ loop' = [loop EXCEPT ![l] = r]
        BY <3>2 DEF ReceiveLifecycle, Calling, Dispatch, conn
      <4>2. loop'[l] = r /\ \A m \in Loops \ {l} : Calling(m)' = Calling(m)
        BY <4>1, OtherLoops
      <4>3. r.pc = "dispatch" /\ r.todo = handlers["lifecycle"]
        BY DEF At
      <4>4. "reconcile" \in handlers["lifecycle"] => Calling(l)'
        BY <4>2, <4>3 DEF Calling
      <4> QED
        BY <4>1, <4>2, <4>4 DEF Wake
    <3>3. ASSUME NEW k \in Kinds, ReceiveOther(l, k) PROVE Wake => Wake'
      <4>1. ~Calling(l) /\ UNCHANGED <<queued, pending, handlers>>
        BY <3>3 DEF ReceiveOther, Calling, conn
      <4>2. \A m \in Loops \ {l} : Calling(m)' = Calling(m)
        BY <3>3, OtherLoops DEF ReceiveOther, Dispatch
      <4> QED
        BY <4>1, <4>2 DEF Wake
    <3>4. ASSUME NEW h \in Handlers, CallHandler(l, h) PROVE Wake => Wake'
      <4>1. UNCHANGED <<pending, handlers>> /\ (queued \/ h = "reconcile" => queued')
        BY <3>4 DEF CallHandler, conn
      <4>2. loop'[l] = Called(loop[l], h) /\ \A m \in Loops \ {l} : Calling(m)' = Calling(m)
        BY <3>4, OtherLoops DEF CallHandler
      <4>3. Calling(l) /\ h # "reconcile" => Calling(l)'
        <5> SUFFICES ASSUME Calling(l), h # "reconcile" PROVE Calling(l)'
          OBVIOUS
        <5>1. loop[l] \in LoopState /\ loop[l].todo # {h}
          BY DEF Values, Calling
        <5>2. Called(loop[l], h) = [loop[l] EXCEPT !.todo = loop[l].todo \ {h}]
          BY <5>1 DEF Called
        <5>3. Called(loop[l], h).pc = loop[l].pc
              /\ Called(loop[l], h).todo = loop[l].todo \ {h}
          BY <5>1, <5>2 DEF LoopState
        <5> QED
          BY <4>2, <5>3 DEF Calling
      <4> QED
        BY <4>1, <4>2, <4>3 DEF Wake
    <3> QED
      BY <1>2, <3>1, <3>2, <3>3, <3>4 DEF RunEventLoop
  <2> QED
    BY <2>1, <2>2, WakeFrame
<1> QED
  BY <1>1, <1>2

LEMMA StartStepWake == ASSUME Values, WakeInv, StartStep PROVE WakeInv'
<1>0. CASE GetHypervisorFails
  BY <1>0, RestartWake DEF GetHypervisorFails
<1> SUFFICES ASSUME ~GetHypervisorFails PROVE WakeInv'
  BY <1>0
<1>1. "start" \in Callers /\ "reconcile" \in Callers
  BY DEF Callers
<1>2. /\ UNCHANGED <<queued, pending, loop, missed, domain, result>>
      /\ pc'["reconcile"] = pc["reconcile"]
  BY <1>1 DEF StartStep, GetHypervisor, ReportConnectFailed, ReportFails, WatchLifecycle, Go,
     Values, world
<1>3. hv'.instances = hv.instances
  BY StatusType DEF StartStep, GetHypervisor, ReportConnectFailed, ReportFails,
     WatchLifecycle, Values, Reason
<1>4. "reconcile" \in handlers["lifecycle"] => "reconcile" \in handlers'["lifecycle"]
  <2>1. CASE WatchLifecycle
    BY <2>1, HandlersGrow, WatchedKind DEF WatchLifecycle, Handlers
  <2>2. CASE ~WatchLifecycle
    BY <2>2 DEF StartStep, GetHypervisor, ReportConnectFailed, ReportFails, conn
  <2> QED
    BY <2>1, <2>2
<1>5. Wake => Wake'
  BY <1>2, <1>4 DEF Wake, Calling
<1> QED
  BY <1>2, <1>3, <1>5, WakeFrame

LEMMA PairOf ==
  ASSUME NEW S, NEW b, NEW e \in S \X {b} PROVE e[1] \in S /\ e = <<e[1], b>>
  OBVIOUS

\* The two listings together show every domain as it is.
LEMMA BothListings ==
  ASSUME Values
  PROVE  (Listed("active") \X {TRUE}) \cup (Listed("inactive") \X {FALSE})
           = {<<d, domain[d] = "active">> : d \in Present}
<1>1. \A d \in Domains : domain[d] \in {"absent", "inactive", "active"}
  BY DEF Values, DomainState
<1>2. \A d \in Domains : domain[d] = "active" => (domain[d] = "active") = TRUE
  BY Zenon
<1>3. \A d \in Domains : domain[d] # "active" => (domain[d] = "active") = FALSE
  BY Zenon
<1> DEFINE pairs == {<<d, domain[d] = "active">> : d \in Present}
           union == (Listed("active") \X {TRUE}) \cup (Listed("inactive") \X {FALSE})
<1>4. ASSUME NEW e \in pairs PROVE e \in union
  <2>1. PICK d \in Present : e = <<d, domain[d] = "active">>
    BY <1>4
  <2>2. CASE domain[d] = "active"
    <3>1. e = <<d, TRUE>> /\ d \in Listed("active")
      BY <1>2, <2>1, <2>2, Zenon DEF Listed, Present
    <3> QED
      BY <3>1
  <2>3. CASE domain[d] # "active"
    <3>1. d \in Listed("inactive")
      BY <1>1, <2>1, <2>3 DEF Listed, Present
    <3>2. e = <<d, FALSE>>
      BY <1>3, <2>1, <2>3, Zenon DEF Present
    <3> QED
      BY <3>1, <3>2
  <2> QED
    BY <2>2, <2>3
<1>5. ASSUME NEW e \in union PROVE e \in pairs
  <2>1. CASE e \in Listed("active") \X {TRUE}
    <3>1. PICK d \in Domains : e = <<d, TRUE>> /\ domain[d] = "active"
      <4>1. e[1] \in Listed("active") /\ e = <<e[1], TRUE>>
        BY <2>1, PairOf, Zenon
      <4> QED
        BY <4>1, Zenon DEF Listed
    <3>2. d \in Present /\ e = <<d, domain[d] = "active">>
      BY <1>2, <3>1, Zenon DEF Present
    <3> QED
      BY <3>2, Zenon
  <2>2. CASE e \in Listed("inactive") \X {FALSE}
    <3>1. PICK d \in Domains : e = <<d, FALSE>> /\ domain[d] = "inactive"
      <4>1. e[1] \in Listed("inactive") /\ e = <<e[1], FALSE>>
        BY <2>2, PairOf, Zenon
      <4> QED
        BY <4>1, Zenon DEF Listed
    <3>2. d \in Present /\ domain[d] # "active"
      BY <3>1 DEF Present
    <3>3. e = <<d, domain[d] = "active">>
      BY <1>3, <3>1, <3>2, Zenon
    <3> QED
      BY <3>2, <3>3, Zenon
  <2> QED
    BY <1>5, <2>1, <2>2
<1> HIDE DEF pairs, union
<1>6. union = pairs
  BY <1>4, <1>5
<1> QED
  BY <1>6 DEF pairs, union

LEMMA ReconcileWake == ASSUME Values, WakeInv, Reconcile PROVE WakeInv'
<1>1. "reconcile" \in Callers
  BY DEF Callers
<1>2. CASE TakeRequest
  <2>1. \/ pc'["reconcile"] = "connect"
        \/ pc'["reconcile"] = "patch" /\ result'.cond # "Connected"
    BY <1>1, <1>2 DEF TakeRequest, Go, Values, NotListed, EmptyStatus
  <2> QED
    BY <2>1, WakeNotListed
<1>3. CASE ListActive
  <2>1. pc'["reconcile"] = "inactive" /\ domain' = domain
    BY <1>1, <1>3 DEF ListActive, Go, Values, world
  <2>2. result'.instances = Listed("active") \X {TRUE}
    BY <1>3 DEF ListActive, Values, Status
  <2>3. ActiveOnly(result)'
    BY <2>1, <2>2 DEF ActiveOnly, Listed
  <2> QED
    BY <2>1, <2>3 DEF WakeInv
<1>4. CASE ListInactive
  <2>1. /\ pc["reconcile"] = "inactive" /\ pc'["reconcile"] = "patch" /\ domain' = domain
        /\ missed' = missed /\ UNCHANGED <<queued, pending, handlers, loop>>
    BY <1>1, <1>4 DEF ListInactive, Go, Values, conn, world
  <2>2. Wake' = Wake
    BY <2>1 DEF Wake, Calling
  <2>3. ASSUME ActiveOnly(result) PROVE Exact(result)'
    <3>1. result'.instances
            = (Listed("active") \X {TRUE}) \cup (Listed("inactive") \X {FALSE})
      BY <1>4, <2>3 DEF ListInactive, ActiveOnly, Values, Status
    <3>2. result'.instances = {<<d, domain[d] = "active">> : d \in Present}
      BY <3>1, BothListings, Zenon
    <3> QED
      BY <2>1, <3>2 DEF Exact, Present
  <2> QED
    BY <2>1, <2>2, <2>3 DEF WakeInv
<1>5. CASE SystemdFails \/ ProcessFails \/ CertificateFails \/ PatchRefused
  <2>1. ReturnError
    BY <1>5 DEF SystemdFails, ProcessFails, CertificateFails, PatchRefused
  <2>2. queued'
    BY <2>1 DEF ReturnError
  <2> QED
    BY <2>2, WakeNotListed DEF Wake
<1>6. CASE PatchStatus
  <2>1. /\ pc["reconcile"] = "patch" /\ pc'["reconcile"] = "idle" /\ domain' = domain
        /\ UNCHANGED <<queued, pending, handlers, loop>>
    BY <1>1, <1>6 DEF PatchStatus, Go, Values, conn, world
  <2>2. Wake' = Wake
    BY <2>1 DEF Wake, Calling
  <2>3. CASE result.cond # "Connected"
    <3>1. missed'
      BY <1>6, <2>3 DEF PatchStatus
    <3> QED
      BY <3>1 DEF WakeInv
  <2>4. CASE result.cond = "Connected"
    <3>1. hv' = result /\ (missed => missed')
      BY <1>6, <2>4 DEF PatchStatus
    <3>2. Exact(result) => Exact(hv)'
      BY <2>1, <3>1 DEF Exact, Present
    <3> QED
      BY <2>1, <2>2, <2>4, <3>1, <3>2 DEF WakeInv
  <2> QED
    BY <2>3, <2>4
<1>7. CASE DisableBlocks
  <2>1. pc'["reconcile"] = "blocked"
    BY <1>1, <1>7 DEF DisableBlocks, Go, Values
  <2> QED
    BY <2>1, WakeNotListed
<1> QED
  BY <1>2, <1>3, <1>4, <1>5, <1>6, <1>7 DEF Reconcile

LEMMA EnvironmentWake == ASSUME Values, WakeInv, Environment PROVE WakeInv'
<1>1. CASE MapRace \/ AgentReplaced
  BY <1>1, RestartWake DEF MapRace, AgentReplaced
<1>2. CASE Timer
  BY <1>2, WakeNotListed DEF Timer, Wake
<1>3. CASE ServiceStops \/ ServiceStarts \/ ObstacleChanges
  <2>1. UNCHANGED <<pc, queued, pending, handlers, loop, missed, domain, hv, result>>
    BY <1>3 DEF ServiceStops, ServiceStarts, ObstacleChanges, conn, report
  <2>2. Wake' = Wake
    BY <2>1 DEF Wake, Calling
  <2> QED
    BY <2>1, <2>2, WakeFrame
<1>4. CASE DomainChanges
  <2>1. CASE ~Heard
    <3>1. missed'
      BY <1>4, <2>1 DEF DomainChanges
    <3> QED
      BY <3>1 DEF WakeInv
  <2>2. CASE Heard
    <3>1. Subscribed("lifecycle") /\ "reconcile" \in handlers["lifecycle"]
      BY <2>2 DEF Heard
    <3>2. pending' = pending + 1 /\ handlers' = handlers /\ pending \in Nat
      BY <1>4, <3>1 DEF DomainChanges, conn, Values
    <3>3. pending' > 0
      BY <3>2
    <3> QED
      BY <3>1, <3>2, <3>3, WakeNotListed DEF Wake
  <2> QED
    BY <2>1, <2>2
<1> QED
  BY <1>1, <1>2, <1>3, <1>4 DEF Environment

LEMMA StepWake == Values /\ WakeInv /\ [Next]_vars => WakeInv'
<1>1. ASSUME WakeInv, UNCHANGED vars PROVE WakeInv'
  <2>1. UNCHANGED <<pc, queued, pending, handlers, loop, missed, domain, hv, result>>
    BY <1>1 DEF vars, conn, report, world
  <2>2. Wake' = Wake
    BY <2>1 DEF Wake, Calling
  <2> QED
    BY <1>1, <2>1, <2>2, WakeFrame
<1> QED
  BY <1>1, ConnectWake, RunEventLoopWake, StartStepWake, ReconcileWake, EnvironmentWake
     DEF Next

\* Once the lifecycle events reach triggerReconcile, no change of a domain is
\* forgotten, whatever fails and however the goroutines interleave: with nothing
\* under way, the stored status shows the domains as they are.
THEOREM NoWakeupIsLost == Spec => []NoLostWakeup
<1>1. Init => WakeInv
  BY WakeNotListed DEF Init, WakeInv, Wake
<1>2. WakeInv => NoLostWakeup
  BY DEF WakeInv, NoLostWakeup, Wake, Calling, EventUnderWay
<1> QED
  BY <1>1, <1>2, InitValues, NextValues, StepWake, PTL DEF Spec

=============================================================================
