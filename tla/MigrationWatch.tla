--------------------------- MODULE MigrationWatch ---------------------------
(***************************************************************************)
(* Progress of a live migration in a Migration object                      *)
(* (internal/libvirt/libvirt_events.go).  The agents of the nodes get the  *)
(* libvirt events of one domain.  An iteration starts a watch loop on the  *)
(* source, which patches the object every second; the agent of a node that *)
(* sees the domain resume finalises the object; a stop ends the loop.      *)
(*                                                                         *)
(* All of them read the object from a cache that lags and write the fields *)
(* that differ from what they have read, without a resource version.  The  *)
(* API server, libvirt and the migrations themselves are external.         *)
(***************************************************************************)
EXTENDS Integers, Sequences

CONSTANTS
  Nodes,          \* nodes with an agent, sys.NodeLabelName
  Loops,          \* goroutines watchMigrationLoop a node may start
  None,           \* no node, no goroutine, the empty string
  Env,            \* what the environment may do, a subset of EnvFeatures
  MaxMigrations,  \* bound: migrations of the domain
  MaxEvents,      \* bound: iteration events and resumes without a migration
  MaxLag,         \* bound: versions on their way to a cache
  MaxFaults       \* bound: failed calls and timeouts

\* "timeout": the 60 minutes of a watch may pass; "fail": a migration may fail;
\* "resume": the domain may be resumed without a migration; "success":
\* statistics of a job that has ended have the parameter "success".
EnvFeatures == {"timeout", "fail", "resume", "success"}

ASSUME ConstantsAssumption ==
  /\ None \notin Nodes /\ None \notin Loops
  /\ Env \subseteq EnvFeatures
  /\ MaxMigrations \in Nat /\ MaxEvents \in Nat /\ MaxLag \in Nat /\ MaxFaults \in Nat

VARIABLES
  object,     \* the Migration object at the API server
  cache,      \* the object in each agent's cache
  lag,        \* the versions on their way to each cache, oldest first
  iterations, \* iteration events in the channel of each agent's event loop
  lifecycle,  \* lifecycle events in the other channel, oldest first
  pc,         \* where the event loop is
  patch,      \* the patch its handler is about to send
  jobs,       \* l.migrationJobs of the domain: the goroutine to cancel
  loop,       \* where each goroutine of each agent is
  cancelled,  \* whether its context is done
  tick,       \* the patch it is about to send
  phase,      \* phase of the present or the last migration
  src, dst,   \* its source and its destination
  stats,      \* completed job statistics libvirt keeps on each node
  migrations, raised, faults

api      == <<object, cache, lag>>
channels == <<iterations, lifecycle>>
handler  == <<channels, pc, patch>>
watch    == <<jobs, loop, cancelled, tick>>
domain   == <<phase, src, dst, stats, migrations, raised>>
vars     == <<api, handler, watch, domain, faults>>

-----------------------------------------------------------------------------
(* The object and its patches.                                             *)

\* "unbounded" stands for "bounded" too, "failed" for "cancelled".
JobType == {"unbounded", "completed", "failed", "success"}

Migration ==
  [origin : Nodes \cup {None}, destination : Nodes \cup {None},
   type : JobType \cup {None}]

ASSUME NoneAssumption == None \notin Migration

NewMigration == [origin |-> None, destination |-> None, type |-> None]

\* Mutant: every field that is set is sent.
SendAll(original, m) == [f \in {g \in DOMAIN m : m[g] # None} |-> m[f]]

\* client.MergeFrom: a field is sent when it differs from the original.
MergeFrom(original, m) ==
  [f \in {g \in DOMAIN m : m[g] # original[g]} |-> m[f]]

\* A new version at the API server, which every cache will get.
Store(m) ==
  /\ object' = m
  /\ \/ m = object /\ UNCHANGED lag
     \/ /\ m # object /\ \A n \in Nodes : Len(lag[n]) < MaxLag
        /\ lag' = [n \in Nodes |-> Append(lag[n], m)]
  /\ UNCHANGED cache

\* The API server merges the fields of a patch.
Merge(p) == [f \in DOMAIN object |-> IF f \in DOMAIN p THEN p[f] ELSE object[f]]

Fault == faults < MaxFaults /\ faults' = faults + 1

-----------------------------------------------------------------------------
(* DomainGetJobStats: what libvirt knows of a job of the domain on node n. *)

\* The domain is known on the node it runs on and on both ends of a migration.
Present(n) ==
  \/ n = src /\ phase # "done"
  \/ n = dst /\ phase \in {"copy", "confirm", "done"}

ActiveJob(n) ==
  IF phase = "copy" \/ (phase = "confirm" /\ n = src) THEN "unbounded" ELSE None

JobStats(n, completed) == IF completed THEN stats[n] ELSE ActiveJob(n)

\* Asking for completed statistics removes them.
Reap(n) == stats' = [stats EXCEPT ![n] = None]

\* The type in the status: the parameter "success" overrides it, whatever its value.
StatusType(t) ==
  IF "success" \in Env /\ t \in {"completed", "failed"} THEN "success" ELSE t

\* Mutant: VIR_DOMAIN_JOB_NONE is not an error and clears the type.
PopulateNone(n, completed, answered, original) ==
  [original EXCEPT
     !.destination = n,
     !.type = IF answered THEN JobStats(n, completed) ELSE @]

\* populateDomainJobInfo and the reaped-job quirk of patchMigration.  The
\* destination is set before libvirt answers; an error leaves only that.
Populate(n, completed, answered, original) ==
  [original EXCEPT
     !.destination = n,
     !.type = CASE ~answered -> @
                [] answered /\ JobStats(n, completed) # None ->
                     StatusType(JobStats(n, completed))
                [] answered /\ JobStats(n, completed) = None ->
                     IF completed THEN "completed" ELSE @]

\* patchMigration between its read and its patch, which it goes on to whether
\* or not libvirt answers.
PatchMigration(n, completed, answered) ==
  MergeFrom(cache[n], Populate(n, completed, answered, cache[n]))

\* Libvirt answers when it knows the domain.  An error is a fault, or says that
\* the domain is not found: it has gone to the other node.
Answers(n, answered) ==
  \/ (answered <=> Present(n)) /\ UNCHANGED faults
  \/ ~answered /\ Present(n) /\ Fault

-----------------------------------------------------------------------------
(* The event loop of node n handles one event after the other, from two    *)
(* channels in any order.                                                  *)

ReceiveIteration(n) ==
  /\ pc[n] = "idle" /\ iterations[n] > 0
  /\ iterations' = [iterations EXCEPT ![n] = @ - 1]
  /\ UNCHANGED lifecycle

ReceiveLifecycle(n, e) ==
  /\ pc[n] = "idle" /\ lifecycle[n] # <<>> /\ Head(lifecycle[n]) = e
  /\ lifecycle' = [lifecycle EXCEPT ![n] = Tail(@)]
  /\ UNCHANGED iterations

\* The handler returns to runEventLoop.
Handled(n) ==
  /\ pc' = [pc EXCEPT ![n] = "idle"]
  /\ patch' = [patch EXCEPT ![n] = <<>>]

\* onMigrationIteration: the object is created unless it exists.
CreateMigration(n) ==
  /\ ReceiveIteration(n)
  /\ Store(IF object = None THEN NewMigration ELSE object)
  /\ pc' = [pc EXCEPT ![n] = "start"]
  /\ UNCHANGED <<patch, watch, domain, faults>>

\* The create fails, the cache has no object yet, or the patch fails.
StartFails(n) ==
  /\ \/ ReceiveIteration(n) /\ Fault
     \/ /\ pc[n] = "start" /\ jobs[n] = None /\ cache[n] = None
        /\ UNCHANGED <<channels, faults>>
     \/ pc[n] = "started" /\ Fault /\ UNCHANGED channels
  /\ Handled(n)
  /\ UNCHANGED <<api, watch, domain>>

AlreadyWatched(n) ==
  /\ pc[n] = "start" /\ jobs[n] # None
  /\ Handled(n)
  /\ UNCHANGED <<api, channels, watch, domain, faults>>

\* Mutant: a watch that is running is not looked for.
GetUnchecked(n) ==
  /\ pc[n] = "start" /\ cache[n] # None
  /\ patch' = [patch EXCEPT ![n] =
                 MergeFrom(cache[n], [cache[n] EXCEPT !.origin = n])]
  /\ pc' = [pc EXCEPT ![n] = "started"]
  /\ UNCHANGED <<api, channels, watch, domain, faults>>

GetMigration(n) ==
  /\ pc[n] = "start" /\ jobs[n] = None /\ cache[n] # None
  /\ patch' = [patch EXCEPT ![n] =
                 MergeFrom(cache[n], [cache[n] EXCEPT !.origin = n])]
  /\ pc' = [pc EXCEPT ![n] = "started"]
  /\ UNCHANGED <<api, channels, watch, domain, faults>>

\* The start is recorded, then the goroutine is started under a new context.
StartWatch(n) ==
  /\ pc[n] = "started"
  /\ Store(Merge(patch[n]))
  /\ \E l \in Loops :
       /\ loop[n][l] = "none"
       /\ jobs' = [jobs EXCEPT ![n] = l]
       /\ loop' = [loop EXCEPT ![n][l] = "wait"]
       /\ cancelled' = [cancelled EXCEPT ![n][l] = FALSE]
  /\ Handled(n)
  /\ UNCHANGED <<channels, tick, domain, faults>>

\* DomainEventResumed, as far as the patch.  Nothing is finalised without an
\* object, or when the error is that the domain is not running.
ReadFinal(n) ==
  /\ ReceiveLifecycle(n, "resumed")
  /\ \/ /\ cache[n] # None
        /\ \E answered \in BOOLEAN :
             /\ Answers(n, answered)
             /\ patch' = [patch EXCEPT ![n] = PatchMigration(n, TRUE, answered)]
             /\ IF answered THEN Reap(n) ELSE UNCHANGED stats
        /\ pc' = [pc EXCEPT ![n] = "final"]
     \/ /\ cache[n] = None \/ ~Present(n)
        /\ Handled(n) /\ UNCHANGED <<stats, faults>>
  /\ UNCHANGED <<api, watch, phase, src, dst, migrations, raised>>

PatchFinal(n) ==
  /\ pc[n] = "final"
  /\ \/ Store(Merge(patch[n])) /\ UNCHANGED faults
     \/ Fault /\ UNCHANGED api
  /\ Handled(n)
  /\ UNCHANGED <<channels, watch, domain>>

\* Mutant: the entry is deleted and the context is not cancelled.
StopForgets(n) ==
  /\ ReceiveLifecycle(n, "stopped")
  /\ jobs' = [jobs EXCEPT ![n] = None]
  /\ Handled(n)
  /\ UNCHANGED <<api, cancelled, loop, tick, domain, faults>>

\* DomainEventStopped and DomainEventShutdown.
StopMigrationWatch(n) ==
  /\ ReceiveLifecycle(n, "stopped")
  /\ \/ /\ jobs[n] # None
        /\ cancelled' = [cancelled EXCEPT ![n][jobs[n]] = TRUE]
        /\ jobs' = [jobs EXCEPT ![n] = None]
     \/ jobs[n] = None /\ UNCHANGED <<jobs, cancelled>>
  /\ Handled(n)
  /\ UNCHANGED <<api, loop, tick, domain, faults>>

-----------------------------------------------------------------------------
(* watchMigrationLoop, goroutine l of node n.  A tick that finds no object *)
(* or fails with "domain is not running" changes nothing.                  *)

At(n, l, s) == loop' = [loop EXCEPT ![n][l] = s]

ReadTick(n, l) ==
  /\ loop[n][l] = "wait" /\ ~cancelled[n][l]
  /\ cache[n] # None
  /\ \E answered \in BOOLEAN :
       /\ Answers(n, answered)
       /\ tick' = [tick EXCEPT ![n][l] = PatchMigration(n, FALSE, answered)]
  /\ At(n, l, "patch")
  /\ UNCHANGED <<api, handler, jobs, cancelled, domain>>

\* The request arrives, or it is given up because of an error or because the
\* context was done before it was sent or answered.
PatchTick(n, l) ==
  /\ loop[n][l] = "patch"
  /\ \/ Store(Merge(tick[n][l])) /\ UNCHANGED faults
     \/ cancelled[n][l] /\ UNCHANGED <<api, faults>>
     \/ Fault /\ UNCHANGED api
  /\ tick' = [tick EXCEPT ![n][l] = <<>>]
  /\ At(n, l, "wait")
  /\ UNCHANGED <<handler, jobs, cancelled, domain>>

LoopEnds(n, l) ==
  /\ loop[n][l] = "wait" /\ cancelled[n][l]
  /\ At(n, l, "none")
  /\ UNCHANGED <<api, handler, jobs, cancelled, tick, domain, faults>>

\* The deadline of the context; the entry in migrationJobs stays.
Timeout(n, l) ==
  /\ "timeout" \in Env /\ Fault
  /\ loop[n][l] # "none" /\ ~cancelled[n][l]
  /\ cancelled' = [cancelled EXCEPT ![n][l] = TRUE]
  /\ UNCHANGED <<api, handler, jobs, loop, tick, domain>>

-----------------------------------------------------------------------------
(* The environment: the cache, and libvirt migrating the domain.           *)

CacheSync(n) ==
  /\ lag[n] # <<>>
  /\ cache' = [cache EXCEPT ![n] = Head(lag[n])]
  /\ lag' = [lag EXCEPT ![n] = Tail(@)]
  /\ UNCHANGED <<object, handler, watch, domain, faults>>

Notify(n, e) ==
  /\ lifecycle' = [lifecycle EXCEPT ![n] = Append(@, e)]
  /\ UNCHANGED iterations

\* Where the domain is once no migration is going on.
Home == IF phase = "done" THEN dst ELSE src

MigrationBegins ==
  /\ phase \in {"idle", "done", "failed"} /\ migrations < MaxMigrations
  /\ \E n \in Nodes \ {Home} : dst' = n
  /\ src' = Home
  /\ phase' = "copy" /\ migrations' = migrations + 1
  /\ UNCHANGED <<api, handler, watch, stats, raised, faults>>

Iteration ==
  /\ phase = "copy" /\ raised < MaxEvents
  /\ iterations' = [iterations EXCEPT ![src] = @ + 1]
  /\ raised' = raised + 1
  /\ UNCHANGED <<api, lifecycle, pc, patch, watch, phase, src, dst, stats, migrations, faults>>

\* The destination runs the domain; the source has yet to confirm.
DestinationResumes ==
  /\ phase = "copy" /\ phase' = "confirm"
  /\ Notify(dst, "resumed")
  /\ stats' = [stats EXCEPT ![dst] = "completed"]
  /\ UNCHANGED <<api, pc, patch, watch, src, dst, migrations, raised, faults>>

SourceStops ==
  /\ phase = "confirm" /\ phase' = "done"
  /\ Notify(src, "stopped")
  /\ stats' = [stats EXCEPT ![src] = None]
  /\ UNCHANGED <<api, pc, patch, watch, src, dst, migrations, raised, faults>>

\* The source runs the domain again.
MigrationFails ==
  /\ "fail" \in Env
  /\ phase = "copy" /\ phase' = "failed"
  /\ Notify(src, "resumed")
  /\ stats' = [stats EXCEPT ![src] = "failed"]
  /\ UNCHANGED <<api, pc, patch, watch, src, dst, migrations, raised, faults>>

DomainResumes ==
  /\ "resume" \in Env
  /\ phase \in {"idle", "done", "failed"} /\ raised < MaxEvents
  /\ Notify(Home, "resumed")
  /\ raised' = raised + 1
  /\ UNCHANGED <<api, pc, patch, watch, phase, src, dst, stats, migrations, faults>>

-----------------------------------------------------------------------------

Init ==
  /\ object = None /\ cache = [n \in Nodes |-> None]
  /\ lag = [n \in Nodes |-> <<>>]
  /\ iterations = [n \in Nodes |-> 0] /\ lifecycle = [n \in Nodes |-> <<>>]
  /\ pc = [n \in Nodes |-> "idle"] /\ patch = [n \in Nodes |-> <<>>]
  /\ jobs = [n \in Nodes |-> None]
  /\ loop = [n \in Nodes |-> [l \in Loops |-> "none"]]
  /\ cancelled = [n \in Nodes |-> [l \in Loops |-> FALSE]]
  /\ tick = [n \in Nodes |-> [l \in Loops |-> <<>>]]
  /\ phase = "idle" /\ src \in Nodes /\ dst = None
  /\ stats = [n \in Nodes |-> None]
  /\ migrations = 0 /\ raised = 0 /\ faults = 0

EventLoop(n) ==
  \/ CreateMigration(n) \/ StartFails(n) \/ AlreadyWatched(n)
  \/ GetMigration(n) \/ StartWatch(n)
  \/ ReadFinal(n) \/ PatchFinal(n) \/ StopMigrationWatch(n)

WatchMigrationLoop(n, l) ==
  \/ ReadTick(n, l) \/ PatchTick(n, l) \/ LoopEnds(n, l)

Environment ==
  \/ \E n \in Nodes : CacheSync(n) \/ \E l \in Loops : Timeout(n, l)
  \/ MigrationBegins \/ Iteration \/ DestinationResumes \/ SourceStops
  \/ MigrationFails \/ DomainResumes

Next ==
  \/ \E n \in Nodes :
       EventLoop(n) \/ \E l \in Loops : WatchMigrationLoop(n, l)
  \/ Environment

Spec == Init /\ [][Next]_vars

-----------------------------------------------------------------------------
(* Properties.                                                             *)

Fields == {"origin", "destination", "type"}

Patch ==
  {p \in UNION {[fs -> Nodes \cup JobType] : fs \in SUBSET Fields} :
     \A f \in DOMAIN p : IF f = "type" THEN p[f] \in JobType ELSE p[f] \in Nodes}

TypeOK ==
  /\ object \in Migration \cup {None}
  /\ cache \in [Nodes -> Migration \cup {None}]
  /\ lag \in [Nodes -> Seq(Migration)]
  /\ iterations \in [Nodes -> Nat]
  /\ lifecycle \in [Nodes -> Seq({"resumed", "stopped"})]
  /\ pc \in [Nodes -> {"idle", "start", "started", "final"}]
  /\ patch \in [Nodes -> Patch]
  /\ jobs \in [Nodes -> Loops \cup {None}]
  /\ loop \in [Nodes -> [Loops -> {"none", "wait", "patch"}]]
  /\ cancelled \in [Nodes -> [Loops -> BOOLEAN]]
  /\ tick \in [Nodes -> [Loops -> Patch]]
  /\ phase \in {"idle", "copy", "confirm", "done", "failed"}
  /\ src \in Nodes /\ dst \in Nodes \cup {None}
  /\ stats \in [Nodes -> JobType \cup {None}]
  /\ migrations \in 0..MaxMigrations /\ raised \in 0..MaxEvents
  /\ faults \in 0..MaxFaults

Live(n, l) == loop[n][l] # "none" /\ ~cancelled[n][l]

\* "ensure we have only one job running": a goroutine whose context is not done
\* is the one in migrationJobs, so there is at most one and a stop reaches it.
LiveLoopIsRegistered ==
  \A n \in Nodes, l \in Loops : Live(n, l) => jobs[n] = l

\* Only startMigrationWatch writes the origin of an object: a tick or a
\* finalisation, however old the copy it was computed from, never rewrites it.
OnlyStartSetsOrigin ==
  [][object # None /\ object'.origin # object.origin
       => \E n \in Nodes : StartWatch(n)]_vars

\* The inductive form of the two: no watch is registered while one is about to
\* be started, nothing is in use before the object exists, and no patch but the
\* one of a start has an origin.
WatchInv ==
  /\ TypeOK
  /\ LiveLoopIsRegistered
  /\ phase # "idle" => dst \in Nodes
  /\ \A n \in Nodes :
       /\ pc[n] = "started" => jobs[n] = None
       /\ pc[n] = "final" => "origin" \notin DOMAIN patch[n]
       /\ object = None => cache[n] = None /\ lag[n] = <<>> /\ pc[n] = "idle"
       /\ \A l \in Loops :
            /\ object = None => loop[n][l] = "none"
            /\ "origin" \notin DOMAIN tick[n][l]

\* "incoming migration completed, finalize migration status": within one
\* migration no tick of the source takes the final status back.
FinalStatusStays ==
  [][\A n \in Nodes, l \in Loops :
       PatchTick(n, l) /\ object.type \in {"completed", "success"}
         => object'.type = object.type]_vars

=============================================================================
