----------------------- MODULE ShutdownInhibitProofs -----------------------
(***************************************************************************)
(* Proofs about ShutdownInhibit, for every set of goroutines and all       *)
(* bounds: types, the invariant that ties the descriptor, the lock, the    *)
(* reconciler's flag and the callback goroutine together, and what follows *)
(* from it.                                                                *)
(***************************************************************************)
EXTENDS ShutdownInhibit, TLAPS

\* Where a step of Go leads keeps the type of pc.
LEMMA GoType ==
  ASSUME TypeOK, NEW a \in Actors, NEW l, Go(a, l),
         a = Reconciler => l \in ReconcilerPc,
         a # Reconciler => l \in WatcherPc
  PROVE  /\ pc' \in [Actors -> ReconcilerPc \cup WatcherPc]
         /\ pc'[Reconciler] \in ReconcilerPc
         /\ \A w \in Watchers : pc'[w] \in WatcherPc
  BY ConstantsAssumption DEF Go, TypeOK, Actors

\* A fault stays within the bound.
LEMMA FaultType == TypeOK /\ Fault => faults' \in 0..MaxFaults
  BY ConstantsAssumption DEF TypeOK, Fault

\* Taking the channel from godbus leaves a number of signals.
LEMMA BufferedType == TypeOK => Buffered \in Nat
  BY DEF TypeOK, Buffered

\* Init gives every variable its type.
LEMMA InitType == Init => TypeOK
<1> SUFFICES ASSUME Init PROVE TypeOK
  OBVIOUS
<1>1. /\ pc \in [Actors -> ReconcilerPc \cup WatcherPc]
      /\ pc[Reconciler] \in ReconcilerPc
      /\ \A w \in Watchers : pc[w] \in WatcherPc
  BY ConstantsAssumption DEF Init, Actors, ReconcilerPc, WatcherPc
<1>2. faults \in 0..MaxFaults
  BY ConstantsAssumption DEF Init
<1> QED
  BY <1>1, <1>2 DEF Init, TypeOK

\* Switching inhibition on keeps the types.
LEMMA EnableType == TypeOK /\ (Enable \/ Report) => TypeOK'
<1> SUFFICES ASSUME TypeOK, Enable \/ Report PROVE TypeOK'
  OBVIOUS
<1> USE DEF agent, systemd, world, counters
<1>0. Reconciler \in Actors
  BY DEF Actors
<1>1. {"idle", "match", "register", "stop", "close", "report"} = ReconcilerPc
  BY DEF ReconcilerPc
<1>2. CASE NothingToSwitch
  BY <1>0, <1>1, <1>2, GoType DEF NothingToSwitch, TypeOK
<1>3. CASE Inhibit
  <2>1. PICK w \in Watchers :
          pc' = [pc EXCEPT ![Reconciler] = "match", ![w] = "waiting"]
    BY <1>3 DEF Inhibit
  <2>2. /\ pc' \in [Actors -> ReconcilerPc \cup WatcherPc]
        /\ pc'[Reconciler] \in ReconcilerPc
        /\ \A v \in Watchers : pc'[v] \in WatcherPc
    BY <2>1, ConstantsAssumption DEF TypeOK, Actors, ReconcilerPc, WatcherPc
  <2> QED
    BY <1>3, <2>2 DEF Inhibit, TypeOK
<1>4. CASE AddMatchSignal
  BY <1>0, <1>1, <1>4, GoType DEF AddMatchSignal, TypeOK
<1>5. CASE AddMatchSignalFails
  <2>1. faults' \in 0..MaxFaults
    BY <1>5, FaultType DEF AddMatchSignalFails, TypeOK
  <2> QED
    BY <1>0, <1>1, <1>5, <2>1, GoType DEF AddMatchSignalFails, TypeOK
<1>6. CASE Signal
  BY <1>0, <1>1, <1>6, GoType DEF Signal, TypeOK
<1>7. CASE Report
  <2>1. faults' \in 0..MaxFaults /\ reported' \in Nat
    BY <1>7, FaultType DEF Report, TypeOK
  <2> QED
    BY <1>0, <1>1, <1>7, <2>1, GoType DEF Report, TypeOK
<1> QED
  BY <1>2, <1>3, <1>4, <1>5, <1>6, <1>7 DEF Enable

\* Switching it off, by whomever, keeps the types.
LEMMA DisableType ==
  ASSUME TypeOK, NEW a \in Actors, Disable(a)
  PROVE  TypeOK'
<1> USE DEF agent, systemd, world, counters
<1>0. /\ {"idle", "stop", "close", "report"} \subseteq ReconcilerPc
      /\ {"none", "stop", "close"} \subseteq WatcherPc
  BY DEF ReconcilerPc, WatcherPc
<1>1. ASSUME Succeeds(a)
      PROVE  /\ evac' \in BOOLEAN
             /\ pc' \in [Actors -> ReconcilerPc \cup WatcherPc]
             /\ pc'[Reconciler] \in ReconcilerPc
             /\ \A w \in Watchers : pc'[w] \in WatcherPc
  BY <1>0, <1>1, GoType DEF Succeeds, TypeOK
<1>2. CASE RemoveSignal(a)
  <2>1. CASE fd
    BY <1>0, <1>2, <2>1, GoType, BufferedType DEF RemoveSignal, TypeOK
  <2>2. CASE ~fd
    BY <1>1, <1>2, <2>2 DEF RemoveSignal, TypeOK
  <2> QED
    BY <2>1, <2>2
<1>3. CASE CloseFd(a)
  <2>1. CASE Succeeds(a) /\ UNCHANGED faults
    BY <1>1, <1>3, <2>1 DEF CloseFd, TypeOK
  <2>2. CASE Fault /\ Fails(a)
    BY <1>0, <1>3, <2>2, GoType, FaultType DEF CloseFd, Fails, TypeOK
  <2> QED
    BY <1>3, <2>1, <2>2 DEF CloseFd
<1>4. ASSUME NEW w \in Watchers, StopWatcher(a, w)
      PROVE  TypeOK'
  <2>1. /\ pc' \in [Actors -> ReconcilerPc \cup WatcherPc]
        /\ pc'[Reconciler] \in ReconcilerPc
        /\ \A v \in Watchers : pc'[v] \in WatcherPc
    BY <1>0, <1>4, ConstantsAssumption DEF StopWatcher, TypeOK, Actors
  <2> QED
    BY <1>4, <2>1 DEF StopWatcher, TypeOK
<1> QED
  BY <1>2, <1>3, <1>4 DEF Disable

\* The steps of a watcher keep the types.
LEMMA CallbackType ==
  ASSUME TypeOK, NEW w \in Watchers, Callback(w)
  PROVE  TypeOK'
<1> USE DEF agent, systemd, world, counters
<1>0. /\ {"none", "lookup", "create", "poll", "failed", "release"}
           \subseteq WatcherPc
      /\ w \in Actors /\ w # Reconciler
  BY ConstantsAssumption DEF WatcherPc, Actors
<1>1. CASE ReceiveSignal(w)
  <2>1. pending' \in Nat
    BY <1>1 DEF ReceiveSignal, TypeOK
  <2> QED
    BY <1>0, <1>1, <2>1, GoType DEF ReceiveSignal, TypeOK
<1>2. CASE ChannelClosed(w)
  BY <1>0, <1>2, GoType DEF ChannelClosed, TypeOK
<1>3. CASE NoInstances(w)
  BY <1>0, <1>3, GoType DEF NoInstances, TypeOK
<1>4. CASE HasInstances(w)
  BY <1>0, <1>4, GoType DEF HasInstances, TypeOK
<1>5. CASE CreateEviction(w)
  BY <1>0, <1>5, GoType DEF CreateEviction, TypeOK
<1>6. CASE EvictionSucceeded(w)
  BY <1>0, <1>6, GoType DEF EvictionSucceeded, TypeOK
<1>7. CASE CallbackFails(w)
  <2>1. faults' \in 0..MaxFaults
    BY <1>7, FaultType DEF CallbackFails, TypeOK
  <2> QED
    BY <1>0, <1>7, <2>1, GoType DEF CallbackFails, TypeOK
<1> QED
  BY <1>1, <1>2, <1>3, <1>4, <1>5, <1>6, <1>7 DEF Callback

\* The environment keeps the types.
LEMMA EnvironmentType == TypeOK /\ Environment => TypeOK'
<1> SUFFICES ASSUME TypeOK, Environment PROVE TypeOK'
  OBVIOUS
<1> USE DEF agent, systemd, world, counters
<1>0. ASSUME FreshProcess
      PROVE  /\ pc' \in [Actors -> ReconcilerPc \cup WatcherPc]
             /\ pc'[Reconciler] \in ReconcilerPc
             /\ \A w \in Watchers : pc'[w] \in WatcherPc
  BY <1>0, ConstantsAssumption
     DEF FreshProcess, Actors, ReconcilerPc, WatcherPc
<1>1. CASE Toggle
  BY <1>1 DEF Toggle, TypeOK
<1>2. CASE RequestShutdown
  BY <1>2 DEF RequestShutdown, Emit, TypeOK
<1>3. CASE CancelShutdown
  BY <1>3 DEF CancelShutdown, Emit, TypeOK
<1>4. CASE Disconnect
  BY <1>4, BufferedType, FaultType DEF Disconnect, TypeOK
<1>5. CASE AgentRestarts
  BY <1>0, <1>5, FaultType DEF AgentRestarts, FreshProcess, TypeOK
<1>6. CASE HostReboots
  BY <1>0, <1>6 DEF HostReboots, FreshProcess, TypeOK
<1>7. CASE VMArrives
  BY <1>7 DEF VMArrives, TypeOK
<1>8. CASE EvictVM
  BY <1>8 DEF EvictVM, TypeOK
<1>9. CASE EvictionEnds
  BY <1>9, FaultType DEF EvictionEnds, TypeOK
<1>10. CASE EvictionDeleted
  BY <1>10 DEF EvictionDeleted, TypeOK
<1> QED
  BY <1>1, <1>2, <1>3, <1>4, <1>5, <1>6, <1>7, <1>8, <1>9, <1>10
     DEF Environment

\* Every variable keeps its type, for every set of goroutines.
THEOREM TypeCorrect == Spec => []TypeOK
<1>1. TypeOK /\ [Next]_vars => TypeOK'
  <2> SUFFICES ASSUME TypeOK, [Next]_vars PROVE TypeOK'
    OBVIOUS
  <2>1. CASE UNCHANGED vars
    BY <2>1 DEF vars, agent, world, counters, TypeOK
  <2> QED
    BY <2>1, EnableType, DisableType, CallbackType, EnvironmentType DEF Next
<1> QED
  BY <1>1, InitType, PTL DEF Spec

-----------------------------------------------------------------------------
(* The invariant.                                                          *)

\* Where the invariant speaks of pc, a step that moves one goroutine changes
\* one value.
LEMMA Moves ==
  ASSUME TypeOK, NEW a \in Actors, NEW l, Go(a, l)
  PROVE  /\ pc'[Reconciler] = IF a = Reconciler THEN l ELSE pc[Reconciler]
         /\ \A w \in Watchers : pc'[w] = IF a = w THEN l ELSE pc[w]
  BY DEF Go, TypeOK, Actors

\* A fresh process has neither lock nor goroutine.
LEMMA FreshInv == FreshProcess => InhibitInv'
<1> SUFFICES ASSUME FreshProcess PROVE InhibitInv'
  OBVIOUS
<1>1. pc'[Reconciler] = "idle" /\ \A w \in Watchers : pc'[w] = "none"
  BY ConstantsAssumption DEF FreshProcess, Actors
<1> QED
  BY <1>1 DEF FreshProcess, InhibitInv, AtMostOneWatcher, Alive, LockIsOwned,
     LockIsWatched, HasReacted

\* The reconciler's steps that switch inhibition on, and its report.
LEMMA EnableInv == TypeOK /\ InhibitInv /\ (Enable \/ Report) => InhibitInv'
<1> SUFFICES ASSUME TypeOK, InhibitInv, Enable \/ Report PROVE InhibitInv'
  OBVIOUS
<1> USE DEF agent, systemd, world, counters
<1>0. Reconciler \in Actors /\ Reconciler \notin Watchers
  BY ConstantsAssumption DEF Actors
<1>1. ASSUME NEW l, Go(Reconciler, l)
      PROVE  pc'[Reconciler] = l /\ \A w \in Watchers : pc'[w] = pc[w]
  BY <1>0, <1>1, Moves
<1>2. CASE NothingToSwitch
  BY <1>1, <1>2 DEF NothingToSwitch, InhibitInv, AtMostOneWatcher, Alive,
     LockIsOwned, LockIsWatched, HasReacted
<1>3. CASE Inhibit
  <2>1. PICK w \in Watchers :
          pc' = [pc EXCEPT ![Reconciler] = "match", ![w] = "waiting"]
    BY <1>3 DEF Inhibit
  <2>2. /\ pc'[Reconciler] = "match" /\ pc'[w] = "waiting"
        /\ \A v \in Watchers \ {w} : pc'[v] = pc[v]
    BY <1>0, <2>1 DEF TypeOK, Actors
  <2>3. \A v \in Watchers : pc[v] = "none"
    BY <1>3 DEF Inhibit, InhibitInv, Alive
  <2> QED
    BY <1>3, <2>2, <2>3 DEF Inhibit, InhibitInv, AtMostOneWatcher, Alive,
       LockIsOwned, LockIsWatched, HasReacted
<1>4. CASE AddMatchSignal
  BY <1>1, <1>4 DEF AddMatchSignal, InhibitInv, AtMostOneWatcher, Alive,
     LockIsOwned, LockIsWatched, HasReacted
<1>5. CASE AddMatchSignalFails
  BY <1>1, <1>5 DEF AddMatchSignalFails, InhibitInv, AtMostOneWatcher, Alive,
     LockIsOwned, LockIsWatched, HasReacted
<1>6. CASE Signal
  <2>1. /\ pc[Reconciler] = "register" /\ pc'[Reconciler] = "report"
        /\ \A w \in Watchers : pc'[w] = pc[w]
    BY <1>1, <1>6 DEF Signal
  <2>2. LockIsWatched'
    <3> SUFFICES ASSUME lock', connected'
                 PROVE  \E w \in Watchers :
                          (pc'[w] = "waiting" /\ registered') \/ HasReacted(w)'
      BY DEF LockIsWatched
    <3>1. PICK w \in Watchers : Alive(w)
      BY <1>6, <2>1 DEF Signal, InhibitInv
    <3>2. pc[w] = "waiting" \/ HasReacted(w)
      BY <3>1 DEF TypeOK, WatcherPc, InhibitInv, Alive, HasReacted
    <3> QED
      BY <1>6, <2>1, <3>2 DEF Signal, HasReacted
  <2> QED
    BY <1>6, <2>1, <2>2 DEF Signal, InhibitInv, AtMostOneWatcher, Alive, LockIsOwned
<1>7. CASE Report
  BY <1>1, <1>7 DEF Report, InhibitInv, AtMostOneWatcher, Alive, LockIsOwned,
     LockIsWatched, HasReacted
<1> QED
  BY <1>2, <1>3, <1>4, <1>5, <1>6, <1>7 DEF Enable

\* DisableShutdownInhibit always finds the descriptor set.  Called by the
\* watcher it stops at the send, since there is no second watcher to receive.
LEMMA DisableInv ==
  ASSUME TypeOK, InhibitInv, NEW a \in Actors, Disable(a)
  PROVE  InhibitInv'
<1> USE DEF agent, systemd, world, counters
<1>0. Reconciler \in Actors /\ Reconciler \notin Watchers
  BY ConstantsAssumption DEF Actors
<1>1. CASE RemoveSignal(a)
  <2>1. fd
    BY <1>1 DEF RemoveSignal, Calls, InhibitInv, LockIsOwned, Alive
  <2>2. /\ pc'[Reconciler] = IF a = Reconciler THEN "stop" ELSE pc[Reconciler]
        /\ \A w \in Watchers : pc'[w] = IF a = w THEN "stop" ELSE pc[w]
    BY <1>1, <2>1, Moves DEF RemoveSignal
  <2>3. a = Reconciler \/ (a \in Watchers /\ pc[a] \in {"failed", "release"})
    BY <1>1 DEF RemoveSignal, Calls
  <2>4. a = Reconciler => pc[Reconciler] = "idle"
    BY <1>0, <1>1 DEF RemoveSignal, Calls
  <2> QED
    BY <1>0, <1>1, <2>1, <2>2, <2>3, <2>4 DEF RemoveSignal, InhibitInv,
       AtMostOneWatcher, Alive, LockIsOwned, LockIsWatched, HasReacted
<1>2. CASE CloseFd(a)
  <2>1. a = Reconciler /\ pc[Reconciler] = "close"
    BY <1>2 DEF CloseFd, InhibitInv, Actors
  <2>2. \A w \in Watchers : pc[w] = "none"
    BY <2>1 DEF InhibitInv, Alive
  <2>3. \E l \in {"idle", "report"} : Go(Reconciler, l)
    BY <1>2, <2>1 DEF CloseFd, Succeeds, Fails
  <2>4. /\ pc'[Reconciler] \in {"idle", "report"}
        /\ \A w \in Watchers : pc'[w] = "none"
    BY <1>0, <2>2, <2>3, Moves
  <2>5. \/ fd' = FALSE /\ evac' = FALSE
        \/ fd' = fd /\ evac' = evac
    BY <1>2, <2>1 DEF CloseFd, Succeeds, Fails
  <2>6. lock' = FALSE /\ registered' = FALSE /\ (closed' => ~connected')
    BY <1>2, <2>1 DEF CloseFd, InhibitInv, TypeOK
  <2>7. fd
    BY <2>1 DEF InhibitInv
  <2> QED
    BY <2>4, <2>5, <2>6, <2>7 DEF InhibitInv, AtMostOneWatcher, Alive,
       LockIsOwned, LockIsWatched, HasReacted
<1>3. ASSUME NEW w \in Watchers, StopWatcher(a, w)
      PROVE  InhibitInv'
  <2>1. a = Reconciler
    BY <1>3 DEF StopWatcher, InhibitInv, AtMostOneWatcher, Alive, Actors
  <2>2. /\ pc'[Reconciler] = "close" /\ pc'[w] = "none"
        /\ \A v \in Watchers \ {w} : pc'[v] = pc[v]
    BY <1>0, <1>3, <2>1 DEF StopWatcher, TypeOK, Actors
  <2>3. \A v \in Watchers : pc'[v] = "none"
    BY <1>3, <2>2 DEF StopWatcher, InhibitInv, AtMostOneWatcher, Alive
  <2>4. pc[Reconciler] = "stop"
    BY <1>3, <2>1 DEF StopWatcher
  <2> QED
    BY <1>3, <2>2, <2>3, <2>4 DEF StopWatcher, InhibitInv, AtMostOneWatcher,
       Alive, LockIsOwned, LockIsWatched, HasReacted
<1> QED
  BY <1>1, <1>2, <1>3 DEF Disable

\* A watcher's steps up to the release move it within its life; only the closed
\* channel of a lost connection ends it.
LEMMA CallbackInv ==
  ASSUME TypeOK, InhibitInv, NEW w \in Watchers, Callback(w)
  PROVE  InhibitInv'
<1> USE DEF agent, systemd, world, counters
<1>0. w \in Actors /\ w # Reconciler
  BY ConstantsAssumption DEF Actors
<1>1. ASSUME NEW l, Go(w, l)
      PROVE  /\ pc'[Reconciler] = pc[Reconciler]
             /\ \A v \in Watchers : pc'[v] = IF v = w THEN l ELSE pc[v]
  BY <1>0, <1>1, Moves
<1>2. CASE ChannelClosed(w)
  BY <1>1, <1>2 DEF ChannelClosed, InhibitInv, AtMostOneWatcher, Alive,
     LockIsOwned, LockIsWatched, HasReacted
<1>3. CASE ~ChannelClosed(w)
  <2>1. PICK l \in {"lookup", "create", "poll", "failed", "release"} : Go(w, l)
    BY <1>3 DEF Callback, ReceiveSignal, NoInstances, HasInstances,
       CreateEviction, EvictionSucceeded, CallbackFails
  <2>2. Alive(w)
    BY <1>3 DEF Callback, Alive, ReceiveSignal, NoInstances, HasInstances,
       CreateEviction, EvictionSucceeded, CallbackFails
  <2>3. UNCHANGED <<evac, fd, lock, registered, connected, closed>>
    BY <1>3 DEF Callback, ReceiveSignal, NoInstances, HasInstances,
       CreateEviction, EvictionSucceeded, CallbackFails
  <2> QED
    BY <1>1, <2>1, <2>2, <2>3 DEF InhibitInv, AtMostOneWatcher, Alive,
       LockIsOwned, LockIsWatched, HasReacted
<1> QED
  BY <1>2, <1>3

\* The environment takes the process down as a whole or leaves it alone.
LEMMA EnvironmentInv == InhibitInv /\ Environment => InhibitInv'
<1> SUFFICES ASSUME InhibitInv, Environment PROVE InhibitInv'
  OBVIOUS
<1> USE DEF agent, systemd, world, counters
<1>1. CASE AgentRestarts \/ HostReboots
  BY <1>1, FreshInv DEF AgentRestarts, HostReboots
<1>2. CASE Disconnect
  BY <1>2 DEF Disconnect, InhibitInv, AtMostOneWatcher, Alive, LockIsOwned,
     LockIsWatched, HasReacted
<1>3. CASE UNCHANGED <<pc, evac, fd, lock, registered, connected, closed>>
  BY <1>3 DEF InhibitInv, AtMostOneWatcher, Alive, LockIsOwned, LockIsWatched,
     HasReacted
<1> QED
  BY <1>1, <1>2, <1>3 DEF Environment, Toggle, RequestShutdown, CancelShutdown,
     VMArrives, EvictVM, EvictionEnds, EvictionDeleted

\* The lock, the descriptor, the reconciler's flag and the goroutine stay in
\* step through failures, restarts, lost connections and concurrent signals.
THEOREM InhibitInvariant == Spec => []InhibitInv
<1>1. Init => InhibitInv
  <2> SUFFICES ASSUME Init PROVE InhibitInv
    OBVIOUS
  <2>1. pc[Reconciler] = "idle" /\ \A w \in Watchers : pc[w] = "none"
    BY ConstantsAssumption DEF Init, Actors
  <2> QED
    BY <2>1 DEF Init, InhibitInv, AtMostOneWatcher, Alive, LockIsOwned,
       LockIsWatched, HasReacted
<1>2. TypeOK /\ InhibitInv /\ [Next]_vars => InhibitInv'
  <2> SUFFICES ASSUME TypeOK, InhibitInv, [Next]_vars PROVE InhibitInv'
    OBVIOUS
  <2>1. CASE UNCHANGED vars
    BY <2>1 DEF vars, agent, InhibitInv, AtMostOneWatcher, Alive, LockIsOwned,
       LockIsWatched, HasReacted
  <2> QED
    BY <2>1, EnableInv, DisableInv, CallbackInv, EnvironmentInv DEF Next
<1> QED
  BY <1>1, <1>2, TypeCorrect, PTL DEF Spec

\* At most one callback goroutine exists, however EnableShutdownInhibit and
\* DisableShutdownInhibit interleave and fail.
THEOREM OneWatcher == Spec => []AtMostOneWatcher
<1>1. InhibitInv => AtMostOneWatcher
  BY DEF InhibitInv
<1> QED
  BY <1>1, InhibitInvariant, PTL

\* Inhibition that Reconcile takes for switched on is watched: AddMatchSignal and
\* Signal have succeeded for the goroutine that waits, however the steps of the
\* reconciler, the goroutine and the bus interleave and fail.
THEOREM LockWatched == Spec => []LockIsWatched
<1>1. InhibitInv => LockIsWatched
  BY DEF InhibitInv
<1> QED
  BY <1>1, InhibitInvariant, PTL

\* The agent never loses the descriptor of a lock that logind still sees.
THEOREM LockOwned == Spec => []LockIsOwned
<1>1. InhibitInv => LockIsOwned
  BY DEF InhibitInv
<1> QED
  BY <1>1, InhibitInvariant, PTL

\* The call of DisableShutdownInhibit at the end of the callback never reaches
\* syscall.Close: the goroutine would have to receive its own stop message.
THEOREM WatcherNeverCloses ==
  Spec => [](\A w \in Watchers : pc[w] # "close")
<1>1. InhibitInv => \A w \in Watchers : pc[w] # "close"
  BY DEF InhibitInv
<1> QED
  BY <1>1, InhibitInvariant, PTL

=============================================================================
