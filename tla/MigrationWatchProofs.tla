------------------------ MODULE MigrationWatchProofs ------------------------
(***************************************************************************)
(* WatchInv is inductive, for every set of nodes and goroutines.  From it: *)
(* at most one goroutine per node is live and a stop reaches it, and no    *)
(* tick and no finalisation rewrites the origin.                           *)
(***************************************************************************)
EXTENDS MigrationWatch, TLAPS

-----------------------------------------------------------------------------
(* Patches.                                                                *)

\* The patch of a start is well-formed.
LEMMA StartPatch ==
  ASSUME NEW n \in Nodes, NEW o \in Migration
  PROVE  MergeFrom(o, [o EXCEPT !.origin = n]) \in Patch
<1> DEFINE m == [o EXCEPT !.origin = n]
           p == MergeFrom(o, m)
<1>1. m \in Migration /\ m.origin = n /\ m.destination = o.destination /\ m.type = o.type
  BY DEF Migration
<1>2. DOMAIN m = Fields
  BY <1>1 DEF Migration, Fields
<1>3. DOMAIN p \subseteq {"origin"} /\ \A f \in DOMAIN p : p[f] = n
  BY <1>1, <1>2 DEF MergeFrom, Fields
<1>4. p \in [DOMAIN p -> Nodes \cup JobType]
  BY <1>3 DEF MergeFrom
<1>5. DOMAIN p \in SUBSET Fields
  BY <1>3 DEF Fields
<1> HIDE DEF p
<1>6. p \in Patch
  BY <1>3, <1>4, <1>5 DEF Patch
<1> QED BY <1>6 DEF p

\* The patch of patchMigration is well-formed and has no origin.
LEMMA ProgressPatch ==
  ASSUME NEW n \in Nodes, NEW completed \in BOOLEAN, NEW answered \in BOOLEAN,
         cache[n] \in Migration, stats \in [Nodes -> JobType \cup {None}]
  PROVE  /\ PatchMigration(n, completed, answered) \in Patch
         /\ "origin" \notin DOMAIN PatchMigration(n, completed, answered)
<1> DEFINE o == cache[n]
           m == Populate(n, completed, answered, o)
           p == PatchMigration(n, completed, answered)
<1>1. JobStats(n, completed) \in JobType \cup {None}
  BY DEF JobStats, ActiveJob, JobType
<1>2. /\ m.origin = o.origin /\ m.destination = n
      /\ m.type = o.type \/ m.type \in JobType
      /\ DOMAIN m = Fields
  BY <1>1 DEF Populate, StatusType, Migration, JobType, Fields
<1>3. p = [f \in {g \in Fields : m[g] # o[g]} |-> m[f]]
  BY <1>2 DEF PatchMigration, MergeFrom
<1> HIDE DEF m
<1>4. /\ DOMAIN p \subseteq {"destination", "type"}
      /\ \A f \in DOMAIN p : IF f = "type" THEN p[f] \in JobType ELSE p[f] \in Nodes
  BY <1>2, <1>3 DEF Fields
<1>5. p \in [DOMAIN p -> Nodes \cup JobType]
  BY <1>3, <1>4
<1>6. DOMAIN p \in SUBSET Fields
  BY <1>4 DEF Fields
<1> HIDE DEF p
<1>7. p \in Patch
  BY <1>4, <1>5, <1>6 DEF Patch
<1> QED BY <1>4, <1>7 DEF p

\* A patch without a field, what is left once a patch has been sent.
LEMMA EmptyPatch == <<>> \in Patch /\ "origin" \notin DOMAIN <<>>
<1>1. DOMAIN <<>> = {}
  OBVIOUS
<1>2. <<>> \in [{} -> Nodes \cup JobType]
  OBVIOUS
<1> QED BY <1>1, <1>2 DEF Patch

\* Merging a patch gives a Migration, with the old origin unless the patch has one.
LEMMA MergeType ==
  ASSUME object \in Migration, NEW p \in Patch
  PROVE  /\ Merge(p) \in Migration
         /\ "origin" \notin DOMAIN p => Merge(p).origin = object.origin
<1>1. DOMAIN object = Fields
  BY DEF Migration, Fields
<1>2. /\ DOMAIN p \subseteq Fields
      /\ \A f \in DOMAIN p : IF f = "type" THEN p[f] \in JobType ELSE p[f] \in Nodes
  BY DEF Patch
<1>3. Merge(p) = [f \in Fields |-> IF f \in DOMAIN p THEN p[f] ELSE object[f]]
  BY <1>1 DEF Merge
<1>4. Merge(p) = [origin |-> Merge(p).origin, destination |-> Merge(p).destination,
                  type |-> Merge(p).type]
  BY <1>3 DEF Fields
<1>5. /\ Merge(p).origin \in Nodes \cup {None}
      /\ Merge(p).destination \in Nodes \cup {None}
      /\ Merge(p).type \in JobType \cup {None}
  BY <1>2, <1>3 DEF Fields, Migration
<1> QED BY <1>3, <1>4, <1>5 DEF Fields, Migration

\* Storing a version keeps the types of the object, the caches and the lag.
LEMMA StoreType ==
  ASSUME lag \in [Nodes -> Seq(Migration)], NEW m \in Migration, Store(m)
  PROVE  object' = m /\ lag' \in [Nodes -> Seq(Migration)] /\ cache' = cache
<1>1. object' = m /\ cache' = cache
  BY DEF Store
<1>2. \/ lag' = lag
      \/ lag' = [n \in Nodes |-> Append(lag[n], m)]
  BY DEF Store
<1>3. \A n \in Nodes : Append(lag[n], m) \in Seq(Migration)
  OBVIOUS
<1> QED BY <1>1, <1>2, <1>3

-----------------------------------------------------------------------------
(* Init and the steps.                                                     *)

LEMMA InitInv == Init => WatchInv
<1> SUFFICES ASSUME Init PROVE WatchInv
  OBVIOUS
<1>1. TypeOK
  <2>1. /\ patch \in [Nodes -> Patch]
        /\ tick \in [Nodes -> [Loops -> Patch]]
    BY EmptyPatch DEF Init
  <2>2. /\ lag \in [Nodes -> Seq(Migration)]
        /\ lifecycle \in [Nodes -> Seq({"resumed", "stopped"})]
    BY DEF Init
  <2> QED BY <2>1, <2>2, ConstantsAssumption DEF Init, TypeOK
<1>2. LiveLoopIsRegistered
  BY DEF Init, LiveLoopIsRegistered, Live
<1> QED BY <1>1, <1>2, EmptyPatch DEF Init, WatchInv

\* The event loop takes an event from a channel, or leaves both alone.
LEMMA ReceiveType ==
  ASSUME TypeOK, NEW n \in Nodes,
         \/ ReceiveIteration(n)
         \/ \E e \in {"resumed", "stopped"} : ReceiveLifecycle(n, e)
         \/ UNCHANGED channels
  PROVE  /\ iterations' \in [Nodes -> Nat]
         /\ lifecycle' \in [Nodes -> Seq({"resumed", "stopped"})]
<1>1. /\ iterations \in [Nodes -> Nat]
      /\ lifecycle \in [Nodes -> Seq({"resumed", "stopped"})]
  BY DEF TypeOK
<1>2. CASE ReceiveIteration(n)
  BY <1>1, <1>2 DEF ReceiveIteration
<1>3. ASSUME NEW e \in {"resumed", "stopped"}, ReceiveLifecycle(n, e)
      PROVE  /\ iterations' \in [Nodes -> Nat]
             /\ lifecycle' \in [Nodes -> Seq({"resumed", "stopped"})]
  <2>1. lifecycle[n] \in Seq({"resumed", "stopped"}) /\ lifecycle[n] # <<>>
    BY <1>1, <1>3 DEF ReceiveLifecycle
  <2>2. Tail(lifecycle[n]) \in Seq({"resumed", "stopped"})
    BY <2>1
  <2> QED BY <1>1, <1>3, <2>2 DEF ReceiveLifecycle
<1> QED BY <1>1, <1>2, <1>3 DEF channels

\* The handler returns: its part of the state keeps its type.
LEMMA HandledType ==
  ASSUME WatchInv, NEW n \in Nodes, Handled(n)
  PROVE  /\ pc' \in [Nodes -> {"idle", "start", "started", "final"}]
         /\ patch' \in [Nodes -> Patch]
         /\ pc'[n] = "idle"
         /\ \A k \in Nodes \ {n} : pc'[k] = pc[k] /\ patch'[k] = patch[k]
BY EmptyPatch DEF WatchInv, TypeOK, Handled

\* A handler that returns and has changed nothing but faults and statistics.
LEMMA HandledInv ==
  ASSUME WatchInv, NEW n \in Nodes, Handled(n), TypeOK',
         UNCHANGED <<api, watch, phase, dst>>
  PROVE  WatchInv'
<1>1. LiveLoopIsRegistered'
  BY DEF WatchInv, LiveLoopIsRegistered, Live, watch
<1>2. \A k \in Nodes :
        /\ pc'[k] = "started" => jobs'[k] = None
        /\ pc'[k] = "final" => "origin" \notin DOMAIN patch'[k]
        /\ object' = None => cache'[k] = None /\ lag'[k] = <<>> /\ pc'[k] = "idle"
  BY HandledType DEF WatchInv, api, watch
<1> QED BY <1>1, <1>2 DEF WatchInv, api, watch

LEMMA CreateStep ==
  ASSUME WatchInv, NEW n \in Nodes, CreateMigration(n)
  PROVE  WatchInv'
<1> DEFINE m == IF object = None THEN NewMigration ELSE object
<1>1. m \in Migration
  BY DEF WatchInv, TypeOK, NewMigration, Migration
<1>2. object' = m /\ lag' \in [Nodes -> Seq(Migration)] /\ cache' = cache
  BY <1>1, StoreType DEF CreateMigration, WatchInv, TypeOK
<1>3. object' \in Migration /\ object' # None
  BY <1>1, <1>2, NoneAssumption
<1> HIDE DEF m
<1>4. /\ iterations' \in [Nodes -> Nat]
      /\ lifecycle' \in [Nodes -> Seq({"resumed", "stopped"})]
  BY ReceiveType DEF CreateMigration, WatchInv
<1>5. TypeOK'
  BY <1>2, <1>3, <1>4 DEF CreateMigration, WatchInv, TypeOK, watch, domain
<1>6. UNCHANGED <<patch, jobs, loop, cancelled, tick, domain>>
  BY DEF CreateMigration, watch
<1>7. pc' = [pc EXCEPT ![n] = "start"]
  BY DEF CreateMigration
<1>8. LiveLoopIsRegistered'
  BY <1>6 DEF WatchInv, LiveLoopIsRegistered, Live
<1>9. \A k \in Nodes :
        /\ pc'[k] = "started" => jobs'[k] = None
        /\ pc'[k] = "final" => "origin" \notin DOMAIN patch'[k]
  <2>1. pc \in [Nodes -> {"idle", "start", "started", "final"}]
    BY DEF WatchInv, TypeOK
  <2>2. \A k \in Nodes :
          /\ pc'[k] = "started" => pc[k] = "started"
          /\ pc'[k] = "final" => pc[k] = "final"
    BY <1>7, <2>1
  <2> QED BY <1>6, <2>2 DEF WatchInv
<1> QED BY <1>3, <1>5, <1>6, <1>8, <1>9 DEF WatchInv, domain

LEMMA StartFailsStep ==
  ASSUME WatchInv, NEW n \in Nodes, StartFails(n)
  PROVE  WatchInv'
<1>1. /\ iterations' \in [Nodes -> Nat]
      /\ lifecycle' \in [Nodes -> Seq({"resumed", "stopped"})]
  BY ReceiveType DEF StartFails, WatchInv
<1>2. Handled(n) /\ UNCHANGED <<api, watch, domain>>
  BY DEF StartFails
<1>3. faults' \in 0..MaxFaults
  BY ConstantsAssumption DEF StartFails, Fault, WatchInv, TypeOK
<1>4. TypeOK'
  BY <1>1, <1>2, <1>3, HandledType DEF WatchInv, TypeOK, api, watch, domain
<1> QED BY <1>2, <1>4, HandledInv DEF domain

LEMMA AlreadyWatchedStep ==
  ASSUME WatchInv, NEW n \in Nodes, AlreadyWatched(n)
  PROVE  WatchInv'
<1>1. /\ iterations' \in [Nodes -> Nat]
      /\ lifecycle' \in [Nodes -> Seq({"resumed", "stopped"})]
  BY ReceiveType DEF AlreadyWatched, WatchInv
<1>2. Handled(n) /\ UNCHANGED <<api, watch, domain, faults>>
  BY DEF AlreadyWatched
<1>4. TypeOK'
  BY <1>1, <1>2, HandledType DEF WatchInv, TypeOK, api, watch, domain
<1> QED BY <1>2, <1>4, HandledInv DEF domain

LEMMA GetStep ==
  ASSUME WatchInv, NEW n \in Nodes, GetMigration(n)
  PROVE  WatchInv'
<1> DEFINE p == MergeFrom(cache[n], [cache[n] EXCEPT !.origin = n])
<1>1. p \in Patch
  BY StartPatch DEF GetMigration, WatchInv, TypeOK
<1>2. patch' = [patch EXCEPT ![n] = p] /\ object # None
  BY DEF GetMigration, WatchInv
<1> HIDE DEF p
<1>3. TypeOK'
  BY <1>1, <1>2 DEF GetMigration, WatchInv, TypeOK, api, channels, watch, domain
<1>4. LiveLoopIsRegistered'
  BY DEF GetMigration, WatchInv, LiveLoopIsRegistered, Live, watch
<1>5. \A k \in Nodes :
        /\ pc'[k] = "started" => jobs'[k] = None
        /\ pc'[k] = "final" => "origin" \notin DOMAIN patch'[k]
  BY <1>2 DEF GetMigration, WatchInv, TypeOK, watch
<1> QED BY <1>2, <1>3, <1>4, <1>5 DEF GetMigration, WatchInv, api, watch, domain

LEMMA StartWatchStep ==
  ASSUME WatchInv, NEW n \in Nodes, StartWatch(n)
  PROVE  WatchInv'
<1>0. /\ iterations' \in [Nodes -> Nat]
      /\ lifecycle' \in [Nodes -> Seq({"resumed", "stopped"})]
  BY ReceiveType DEF StartWatch, WatchInv
<1>1. object # None /\ jobs[n] = None /\ Handled(n)
  BY DEF StartWatch, WatchInv
<1>2. Merge(patch[n]) \in Migration
  BY <1>1, MergeType DEF WatchInv, TypeOK
<1>3. object' \in Migration /\ lag' \in [Nodes -> Seq(Migration)] /\ cache' = cache
  BY <1>2, StoreType DEF StartWatch, WatchInv, TypeOK
<1>4. object' # None
  BY <1>3, NoneAssumption
<1>5. PICK l \in Loops :
        /\ loop[n][l] = "none"
        /\ jobs' = [jobs EXCEPT ![n] = l]
        /\ loop' = [loop EXCEPT ![n][l] = "wait"]
        /\ cancelled' = [cancelled EXCEPT ![n][l] = FALSE]
  BY DEF StartWatch
<1>6. UNCHANGED <<tick, domain, faults>>
  BY DEF StartWatch
<1>7. TypeOK'
  BY <1>0, <1>1, <1>3, <1>5, <1>6, HandledType DEF WatchInv, TypeOK, domain
<1>8. LiveLoopIsRegistered'
  BY <1>1, <1>5, ConstantsAssumption DEF WatchInv, TypeOK, LiveLoopIsRegistered, Live
<1>10. \A k \in Nodes : pc'[k] = "started" => jobs'[k] = None
  BY <1>1, <1>5, HandledType DEF WatchInv, TypeOK
<1>11. \A k \in Nodes : pc'[k] = "final" => "origin" \notin DOMAIN patch'[k]
  BY <1>1, HandledType DEF WatchInv
<1> QED BY <1>4, <1>6, <1>7, <1>8, <1>10, <1>11 DEF WatchInv, domain

LEMMA ReadFinalStep ==
  ASSUME WatchInv, NEW n \in Nodes, ReadFinal(n)
  PROVE  WatchInv'
<1>0. /\ iterations' \in [Nodes -> Nat]
      /\ lifecycle' \in [Nodes -> Seq({"resumed", "stopped"})]
  BY ReceiveType DEF ReadFinal, WatchInv
<1>1. UNCHANGED <<api, watch, phase, src, dst, migrations, raised>>
  BY DEF ReadFinal
<1>2. ASSUME cache[n] # None, pc' = [pc EXCEPT ![n] = "final"],
             NEW answered \in BOOLEAN, Answers(n, answered),
             patch' = [patch EXCEPT ![n] = PatchMigration(n, TRUE, answered)],
             IF answered THEN Reap(n) ELSE UNCHANGED stats
      PROVE  WatchInv'
  <2> DEFINE p == PatchMigration(n, TRUE, answered)
  <2>2. p \in Patch /\ "origin" \notin DOMAIN p
    BY <1>2, ProgressPatch DEF WatchInv, TypeOK
  <2>3. patch' = [patch EXCEPT ![n] = p]
    BY <1>2
  <2> HIDE DEF p
  <2>4. pc' = [pc EXCEPT ![n] = "final"] /\ object # None
    BY <1>2 DEF WatchInv
  <2>5. faults' \in 0..MaxFaults
    <3>1. faults' = faults \/ Fault
      BY <1>2 DEF Answers
    <3> QED BY <3>1, ConstantsAssumption DEF Fault, WatchInv, TypeOK
  <2>6. stats' \in [Nodes -> JobType \cup {None}]
    <3>1. stats' = stats \/ stats' = [stats EXCEPT ![n] = None]
      BY <1>2 DEF Reap
    <3>2. stats \in [Nodes -> JobType \cup {None}]
      BY DEF WatchInv, TypeOK
    <3> QED BY <3>1, <3>2
  <2>7. TypeOK'
    BY <1>0, <1>1, <2>2, <2>3, <2>4, <2>5, <2>6 DEF WatchInv, TypeOK, api, watch
  <2>8. LiveLoopIsRegistered'
    BY <1>1 DEF WatchInv, LiveLoopIsRegistered, Live, watch
  <2>9. \A k \in Nodes :
          /\ pc'[k] = "started" => jobs'[k] = None
          /\ pc'[k] = "final" => "origin" \notin DOMAIN patch'[k]
    BY <1>1, <2>2, <2>3, <2>4 DEF WatchInv, TypeOK, watch
  <2> QED BY <1>1, <2>4, <2>7, <2>8, <2>9 DEF WatchInv, api, watch
<1>3. CASE Handled(n) /\ UNCHANGED <<stats, faults>>
  <2>1. TypeOK'
    BY <1>0, <1>1, <1>3, HandledType DEF WatchInv, TypeOK, api, watch
  <2> QED BY <1>1, <1>3, <2>1, HandledInv
<1> QED BY <1>2, <1>3 DEF ReadFinal

LEMMA PatchFinalStep ==
  ASSUME WatchInv, NEW n \in Nodes, PatchFinal(n)
  PROVE  WatchInv' /\ object'.origin = object.origin
<1>0. /\ iterations' \in [Nodes -> Nat]
      /\ lifecycle' \in [Nodes -> Seq({"resumed", "stopped"})]
  BY ReceiveType DEF PatchFinal, WatchInv
<1>1. object # None /\ Handled(n) /\ UNCHANGED <<watch, domain>>
  BY DEF PatchFinal, WatchInv
<1>2. Merge(patch[n]) \in Migration /\ Merge(patch[n]).origin = object.origin
  BY <1>1, MergeType DEF PatchFinal, WatchInv, TypeOK
<1>3. /\ object' \in Migration /\ lag' \in [Nodes -> Seq(Migration)] /\ cache' = cache
      /\ object'.origin = object.origin
  BY <1>1, <1>2, StoreType DEF PatchFinal, WatchInv, TypeOK, api
<1>4. object' # None
  BY <1>3, NoneAssumption
<1>5. faults' \in 0..MaxFaults
  BY ConstantsAssumption DEF PatchFinal, Fault, WatchInv, TypeOK
<1>6. TypeOK'
  BY <1>0, <1>1, <1>3, <1>5, HandledType DEF WatchInv, TypeOK, watch, domain
<1>7. LiveLoopIsRegistered'
  BY <1>1 DEF WatchInv, LiveLoopIsRegistered, Live, watch
<1>8. \A k \in Nodes :
        /\ pc'[k] = "started" => jobs'[k] = None
        /\ pc'[k] = "final" => "origin" \notin DOMAIN patch'[k]
  BY <1>1, HandledType DEF WatchInv, TypeOK, watch, Handled
<1> QED BY <1>1, <1>3, <1>4, <1>6, <1>7, <1>8 DEF WatchInv, watch, domain

LEMMA StopStep ==
  ASSUME WatchInv, NEW n \in Nodes, StopMigrationWatch(n)
  PROVE  WatchInv'
<1>0. /\ iterations' \in [Nodes -> Nat]
      /\ lifecycle' \in [Nodes -> Seq({"resumed", "stopped"})]
  BY ReceiveType DEF StopMigrationWatch, WatchInv
<1>1. Handled(n) /\ UNCHANGED <<api, loop, tick, domain, faults>>
  BY DEF StopMigrationWatch
<1>2. jobs' = [jobs EXCEPT ![n] = None]
  <2>1. jobs' = [jobs EXCEPT ![n] = None] \/ (jobs[n] = None /\ jobs' = jobs)
    BY DEF StopMigrationWatch
  <2>2. jobs \in [Nodes -> Loops \cup {None}]
    BY DEF WatchInv, TypeOK
  <2> QED BY <2>1, <2>2
<1>3. \/ jobs[n] # None /\ cancelled' = [cancelled EXCEPT ![n][jobs[n]] = TRUE]
      \/ jobs[n] = None /\ cancelled' = cancelled
  BY DEF StopMigrationWatch
<1>4. cancelled' \in [Nodes -> [Loops -> BOOLEAN]]
  <2>1. cancelled \in [Nodes -> [Loops -> BOOLEAN]] /\ jobs[n] \in Loops \cup {None}
    BY DEF WatchInv, TypeOK
  <2>2. CASE cancelled' = [cancelled EXCEPT ![n][jobs[n]] = TRUE]
    <3>1. cancelled[n] \in [Loops -> BOOLEAN]
      BY <2>1
    <3>2. [cancelled[n] EXCEPT ![jobs[n]] = TRUE] \in [Loops -> BOOLEAN]
      BY <3>1, Zenon
    <3> QED BY <2>1, <2>2, <3>2, Zenon
  <2> QED BY <1>3, <2>1, <2>2
<1>5. TypeOK'
  BY <1>0, <1>1, <1>2, <1>4, HandledType DEF WatchInv, TypeOK, api, domain
<1>6. LiveLoopIsRegistered'
  <2> SUFFICES ASSUME NEW k \in Nodes, NEW l \in Loops,
                      loop[k][l] # "none", ~cancelled'[k][l]
               PROVE  jobs'[k] = l
    BY <1>1 DEF LiveLoopIsRegistered, Live
  <2>1. cancelled \in [Nodes -> [Loops -> BOOLEAN]] /\ jobs \in [Nodes -> Loops \cup {None}]
    BY DEF WatchInv, TypeOK
  <2>2. ~cancelled[k][l]
    BY <1>3, <2>1
  <2>3. jobs[k] = l
    BY <2>2 DEF WatchInv, LiveLoopIsRegistered, Live
  <2>4. k # n
    <3>1. SUFFICES ASSUME k = n PROVE FALSE
      OBVIOUS
    <3>2. cancelled' = [cancelled EXCEPT ![n][l] = TRUE]
      BY <1>3, <2>3, <3>1, ConstantsAssumption
    <3> QED BY <2>1, <3>1, <3>2
  <2> QED BY <1>2, <2>1, <2>3, <2>4
<1>7. \A k \in Nodes :
        /\ pc'[k] = "started" => jobs'[k] = None
        /\ pc'[k] = "final" => "origin" \notin DOMAIN patch'[k]
  BY <1>1, <1>2, HandledType DEF WatchInv, TypeOK, Handled
<1>8. \A k \in Nodes : object' = None => cache'[k] = None /\ lag'[k] = <<>> /\ pc'[k] = "idle"
  BY <1>1, HandledType DEF WatchInv, api
<1> QED BY <1>1, <1>5, <1>6, <1>7, <1>8 DEF WatchInv, api, domain

\* A step of a goroutine that moves it from one place where it exists to
\* another, or ends it once its context is done.
LEMMA LoopMoves ==
  ASSUME WatchInv, NEW n \in Nodes, NEW l \in Loops,
         NEW s \in {"none", "wait", "patch"}, At(n, l, s),
         loop[n][l] # "none", s = "none" => cancelled[n][l],
         object' # None, UNCHANGED <<handler, jobs, cancelled, domain>>, TypeOK',
         \A i \in Loops \ {l} : tick'[n][i] = tick[n][i],
         \A k \in Nodes \ {n} : tick'[k] = tick[k],
         "origin" \notin DOMAIN tick'[n][l]
  PROVE  WatchInv'
<1>1. LiveLoopIsRegistered'
  BY DEF At, WatchInv, TypeOK, LiveLoopIsRegistered, Live
<1>2. \A k \in Nodes, i \in Loops : "origin" \notin DOMAIN tick'[k][i]
  BY DEF WatchInv
<1> QED BY <1>1, <1>2 DEF WatchInv, handler, channels, domain

LEMMA ReadTickStep ==
  ASSUME WatchInv, NEW n \in Nodes, NEW l \in Loops, ReadTick(n, l)
  PROVE  WatchInv'
<1>1. PICK answered \in BOOLEAN :
        /\ Answers(n, answered)
        /\ tick' = [tick EXCEPT ![n][l] = PatchMigration(n, FALSE, answered)]
  BY DEF ReadTick
<1> DEFINE p == PatchMigration(n, FALSE, answered)
<1>2. p \in Patch /\ "origin" \notin DOMAIN p
  BY ProgressPatch DEF ReadTick, WatchInv, TypeOK
<1>3. tick' = [tick EXCEPT ![n][l] = p]
  BY <1>1
<1> HIDE DEF p
<1>4. /\ At(n, l, "patch") /\ UNCHANGED <<api, handler, jobs, cancelled, domain>>
      /\ loop[n][l] # "none" /\ object # None
  BY DEF ReadTick, WatchInv
<1>5. faults' \in 0..MaxFaults
  <2>1. faults' = faults \/ Fault
    BY <1>1 DEF Answers
  <2> QED BY <2>1, ConstantsAssumption DEF Fault, WatchInv, TypeOK
<1>6. tick \in [Nodes -> [Loops -> Patch]]
  BY DEF WatchInv, TypeOK
<1>7. TypeOK'
  BY <1>2, <1>3, <1>4, <1>5 DEF WatchInv, TypeOK, At, api, handler, channels, domain
<1> QED BY <1>2, <1>3, <1>4, <1>6, <1>7, LoopMoves DEF api

LEMMA PatchTickStep ==
  ASSUME WatchInv, NEW n \in Nodes, NEW l \in Loops, PatchTick(n, l)
  PROVE  WatchInv' /\ object'.origin = object.origin
<1>1. /\ UNCHANGED <<handler, jobs, cancelled, domain>>
      /\ loop[n][l] # "none" /\ object # None /\ At(n, l, "wait")
      /\ tick' = [tick EXCEPT ![n][l] = <<>>]
  BY DEF PatchTick, WatchInv
<1>2. /\ tick \in [Nodes -> [Loops -> Patch]] /\ "origin" \notin DOMAIN tick[n][l]
      /\ loop' \in [Nodes -> [Loops -> {"none", "wait", "patch"}]]
  BY <1>1 DEF WatchInv, TypeOK, At
<1>3. Merge(tick[n][l]) \in Migration /\ Merge(tick[n][l]).origin = object.origin
  BY <1>1, <1>2, MergeType DEF WatchInv, TypeOK
<1>4. /\ object' \in Migration /\ lag' \in [Nodes -> Seq(Migration)] /\ cache' = cache
      /\ object'.origin = object.origin
  BY <1>1, <1>3, StoreType DEF PatchTick, WatchInv, TypeOK, api
<1>5. object' # None
  BY <1>4, NoneAssumption
<1>6. faults' \in 0..MaxFaults
  BY ConstantsAssumption DEF PatchTick, Fault, WatchInv, TypeOK
<1>7. tick' \in [Nodes -> [Loops -> Patch]]
  BY <1>1, <1>2, EmptyPatch
<1>8. TypeOK'
  BY <1>1, <1>2, <1>4, <1>6, <1>7 DEF WatchInv, TypeOK, handler, channels, domain
<1> QED BY <1>1, <1>2, <1>4, <1>5, <1>8, LoopMoves, EmptyPatch

LEMMA LoopEndsStep ==
  ASSUME WatchInv, NEW n \in Nodes, NEW l \in Loops, LoopEnds(n, l)
  PROVE  WatchInv'
<1>1. TypeOK'
  BY DEF LoopEnds, At, WatchInv, TypeOK, api, handler, channels, domain
<1> QED BY <1>1, LoopMoves DEF LoopEnds, WatchInv, api

\* The environment leaves the watch alone, but for a timeout.
LEMMA EnvironmentStep ==
  ASSUME WatchInv, Environment
  PROVE  WatchInv'
<1>1. ASSUME NEW n \in Nodes, CacheSync(n) PROVE WatchInv'
  <2>1. /\ lag[n] # <<>> /\ UNCHANGED <<object, handler, watch, domain, faults>>
        /\ cache' = [cache EXCEPT ![n] = Head(lag[n])]
        /\ lag' = [lag EXCEPT ![n] = Tail(lag[n])]
    BY <1>1 DEF CacheSync
  <2>2. object # None
    BY <2>1 DEF WatchInv
  <2>3. lag[n] \in Seq(Migration)
    BY DEF WatchInv, TypeOK
  <2>4. Head(lag[n]) \in Migration /\ Tail(lag[n]) \in Seq(Migration)
    BY <2>1, <2>3
  <2>5. TypeOK'
    BY <2>1, <2>4 DEF WatchInv, TypeOK, handler, channels, watch, domain
  <2> QED BY <2>1, <2>2, <2>5
          DEF WatchInv, LiveLoopIsRegistered, Live, handler, channels, watch, domain
<1>2. ASSUME NEW n \in Nodes, NEW l \in Loops, Timeout(n, l) PROVE WatchInv'
  <2>1. TypeOK'
    BY <1>2, ConstantsAssumption
       DEF Timeout, Fault, WatchInv, TypeOK, api, handler, channels, domain
  <2>2. LiveLoopIsRegistered'
    BY <1>2 DEF Timeout, WatchInv, TypeOK, LiveLoopIsRegistered, Live
  <2> QED BY <1>2, <2>1, <2>2 DEF Timeout, WatchInv, api, handler, channels, domain
<1>3. CASE MigrationBegins
  <2>1. TypeOK'
    BY <1>3, ConstantsAssumption
       DEF MigrationBegins, Home, WatchInv, TypeOK, api, handler, channels, watch
  <2> QED BY <1>3, <2>1
          DEF MigrationBegins, WatchInv, LiveLoopIsRegistered, Live, api, handler, channels, watch
<1>4. ASSUME UNCHANGED <<api, pc, patch, watch, faults>>,
             iterations' \in [Nodes -> Nat],
             lifecycle' \in [Nodes -> Seq({"resumed", "stopped"})],
             phase' \in {"idle", "copy", "confirm", "done", "failed"},
             phase = "idle" => phase' = "idle",
             UNCHANGED <<src, dst, migrations>>, raised' \in 0..MaxEvents,
             stats' \in [Nodes -> JobType \cup {None}]
      PROVE  WatchInv'
  <2>1. TypeOK'
    BY <1>4 DEF WatchInv, TypeOK, api, watch
  <2> QED BY <1>4, <2>1
          DEF WatchInv, LiveLoopIsRegistered, Live, api, watch
<1>12. ASSUME NEW n \in Nodes, NEW e \in {"resumed", "stopped"}, Notify(n, e)
       PROVE  /\ iterations' \in [Nodes -> Nat]
              /\ lifecycle' \in [Nodes -> Seq({"resumed", "stopped"})]
  <2>1. /\ iterations \in [Nodes -> Nat]
        /\ lifecycle \in [Nodes -> Seq({"resumed", "stopped"})]
    BY DEF WatchInv, TypeOK
  <2>2. Append(lifecycle[n], e) \in Seq({"resumed", "stopped"})
    BY <2>1
  <2> QED BY <1>12, <2>1, <2>2 DEF Notify
<1>5. raised < MaxEvents => raised + 1 \in 0..MaxEvents
  BY ConstantsAssumption DEF WatchInv, TypeOK
<1>6. CASE Iteration
  <2>1. iterations' \in [Nodes -> Nat]
    BY <1>6 DEF Iteration, WatchInv, TypeOK
  <2> QED BY <1>4, <1>5, <1>6, <2>1 DEF Iteration, WatchInv, TypeOK
<1>7. ASSUME NEW n \in Nodes \cup {None}, NEW t \in JobType \cup {None}
      PROVE  [stats EXCEPT ![n] = t] \in [Nodes -> JobType \cup {None}]
  BY DEF WatchInv, TypeOK
<1>8. CASE DestinationResumes
  BY <1>4, <1>7, <1>12, <1>8 DEF DestinationResumes, WatchInv, TypeOK, JobType
<1>9. CASE SourceStops
  BY <1>4, <1>7, <1>12, <1>9 DEF SourceStops, WatchInv, TypeOK
<1>10. CASE MigrationFails
  BY <1>4, <1>7, <1>12, <1>10 DEF MigrationFails, WatchInv, TypeOK, JobType
<1>11. CASE DomainResumes
  BY <1>4, <1>5, <1>12, <1>11 DEF DomainResumes, Home, WatchInv, TypeOK
<1> QED BY <1>1, <1>2, <1>3, <1>6, <1>8, <1>9, <1>10, <1>11 DEF Environment

\* WatchInv is inductive.
LEMMA NextInv == WatchInv /\ [Next]_vars => WatchInv'
<1> SUFFICES ASSUME WatchInv, [Next]_vars PROVE WatchInv'
  OBVIOUS
<1>1. ASSUME NEW n \in Nodes, EventLoop(n) PROVE WatchInv'
  BY <1>1, CreateStep, StartFailsStep, AlreadyWatchedStep, GetStep, StartWatchStep,
     ReadFinalStep, PatchFinalStep, StopStep DEF EventLoop
<1>2. ASSUME NEW n \in Nodes, NEW l \in Loops, WatchMigrationLoop(n, l)
      PROVE  WatchInv'
  BY <1>2, ReadTickStep, PatchTickStep, LoopEndsStep
     DEF WatchMigrationLoop
<1>3. CASE UNCHANGED vars
  <2>1. TypeOK'
    BY <1>3 DEF WatchInv, TypeOK, vars, api, handler, channels, watch, domain
  <2> QED BY <1>3, <2>1
          DEF WatchInv, LiveLoopIsRegistered, Live, vars, api, handler, channels, watch, domain
<1> QED BY <1>1, <1>2, <1>3, EnvironmentStep DEF Next

-----------------------------------------------------------------------------

\* The inductive invariant of the watch (libvirt_events.go) holds.
THEOREM WatchInvariant == Spec => []WatchInv
<1> QED BY InitInv, NextInv, PTL DEF Spec

\* Every variable keeps its type.
THEOREM TypeCorrect == Spec => []TypeOK
<1>1. WatchInv => TypeOK
  BY DEF WatchInv
<1> QED BY <1>1, WatchInvariant, PTL

\* startMigrationWatch and stopMigrationWatch: a goroutine whose context is not
\* done is the registered one, whatever the number of goroutines and nodes.
THEOREM LiveLoopRegistered == Spec => []LiveLoopIsRegistered
<1>1. WatchInv => LiveLoopIsRegistered
  BY DEF WatchInv
<1> QED BY <1>1, WatchInvariant, PTL

\* startMigrationWatch alone writes the origin; patchMigration never does,
\* however stale the copy it read.
THEOREM OriginKept == Spec => OnlyStartSetsOrigin
<1>1. ASSUME WatchInv, [Next]_vars, object # None, object'.origin # object.origin
      PROVE  \E n \in Nodes : StartWatch(n)
  <2>1. object' # object
    BY <1>1
  <2>2. ASSUME NEW n \in Nodes, EventLoop(n) PROVE StartWatch(n)
    <3>1. ~CreateMigration(n)
      BY <1>1, <2>1 DEF CreateMigration, Store
    <3>2. ~StartFails(n) /\ ~AlreadyWatched(n) /\ ~GetMigration(n)
      BY <2>1 DEF StartFails, AlreadyWatched, GetMigration, api
    <3>3. ~ReadFinal(n) /\ ~StopMigrationWatch(n)
      BY <2>1 DEF ReadFinal, StopMigrationWatch, api
    <3>4. ~PatchFinal(n)
      BY <1>1, PatchFinalStep
    <3> QED BY <2>2, <3>1, <3>2, <3>3, <3>4 DEF EventLoop
  <2>3. ASSUME NEW n \in Nodes, NEW l \in Loops, WatchMigrationLoop(n, l) PROVE FALSE
    <3>1. ~ReadTick(n, l) /\ ~LoopEnds(n, l)
      BY <2>1 DEF ReadTick, LoopEnds, api
    <3>2. ~PatchTick(n, l)
      BY <1>1, PatchTickStep
    <3> QED BY <2>3, <3>1, <3>2 DEF WatchMigrationLoop
  <2>4. ~Environment
    <3>1. \A n \in Nodes : ~CacheSync(n) /\ \A l \in Loops : ~Timeout(n, l)
      BY <2>1 DEF CacheSync, Timeout, api
    <3>2. ~MigrationBegins /\ ~Iteration /\ ~DestinationResumes
      BY <2>1 DEF MigrationBegins, Iteration, DestinationResumes, api
    <3>3. ~SourceStops /\ ~MigrationFails /\ ~DomainResumes
      BY <2>1 DEF SourceStops, MigrationFails, DomainResumes, api
    <3> QED BY <3>1, <3>2, <3>3 DEF Environment
  <2>5. ~UNCHANGED vars
    BY <2>1 DEF vars, api
  <2> QED BY <1>1, <2>2, <2>3, <2>4, <2>5 DEF Next
<1>2. WatchInv /\ [Next]_vars
        => [object # None /\ object'.origin # object.origin
              => \E n \in Nodes : StartWatch(n)]_vars
  BY <1>1
<1> QED BY <1>2, WatchInvariant, PTL DEF OnlyStartSetsOrigin, Spec

=============================================================================
