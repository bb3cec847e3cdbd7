-------------------------- MODULE ClusterController --------------------------
(***************************************************************************)
(* The navarkos ClusterController (src/pkg/controller/cluster/             *)
(* clustercontroller.go): two goroutines started by Run share the          *)
(* knownClusterSet and the clusterKubeClientMap without a lock.            *)
(*   - the informer goroutine delivers watch deltas to addToClusterSet,    *)
(*     updateCluster and delFromClusterSet;                                *)
(*   - the wait.Until goroutine runs UpdateClusterStatus, the periodic     *)
(*     pass: List, add the unknown, delete the vanished, then per ready    *)
(*     cluster collect stats, Get, decide (DecisionEngine) and Update.     *)
(* Around them: the federation API server (federation), the member         *)
(* clusters' workloads (pods), an external actor (the scaler/shutdown      *)
(* controllers and the federation itself) and the OnClusterChange          *)
(* consumer.  A panic in either goroutine ends the process; the pod is     *)
(* restarted with empty in-memory state.                                   *)
(*                                                                         *)
(* Granularity: each Go map operation is atomic (the data race on the two  *)
(* maps is listed as a hazard, not modelled); the pass is split at every   *)
(* loop iteration and remote call so that watch deliveries and external    *)
(* writes interleave with it.                                              *)
(***************************************************************************)
EXTENDS DecisionEngine, Sequences, FiniteSets

CONSTANTS
  Names,               \* cluster names
  None,                \* no object / no value
  InitAnnotations,     \* annotations a newly registered cluster may carry
  WorkloadChoices,     \* the workloads a member cluster may run
  ExternalTransitions, \* lifecycle-state changes the external actor makes
  MaxPending,          \* bound on undelivered watch deltas per cluster
  MaxEnvSteps          \* bound on the environment's steps in a behaviour

ASSUME ControllerAssumption ==
  /\ None \notin Annotations
  /\ InitAnnotations \subseteq Annotations
  /\ WorkloadChoices \subseteq Workloads /\ WorkloadChoices # {}
  /\ ExternalTransitions \subseteq
       (LifecycleStates \cup {Absent}) \X LifecycleStates
  /\ MaxPending \in Nat \ {0}
  /\ MaxEnvSteps \in Nat

VARIABLES
  federation,           \* name -> cluster object in the API server, or None
  pods,                 \* name -> what the member cluster runs
  knownClusterSet,      \* cc.knownClusterSet
  clusterKubeClientMap, \* names with a cached client (cc.clusterKubeClientMap)
  clusterStore,         \* the informer's indexer: name -> last delivered view
  deltas,               \* name -> watch deltas not yet delivered
  watching,             \* the reflector's watch is open
  crash,                \* "none", or the panic that ended the process
  ppc,                  \* where UpdateClusterStatus is
  listed,               \* the result of its List call
  todo,                 \* the names its current loop has still to visit
  cur,                  \* the cluster between collect and Update
  newStats,             \* the stats collected for cur
  copy,                 \* the object Get returned for cur
  stale,                \* federation[cur] was written since that Get
  notified,             \* OnClusterChange was called and not yet consumed
  envSteps              \* steps the environment has taken (a model bound)

vars == <<federation, pods, knownClusterSet, clusterKubeClientMap,
          clusterStore, deltas, watching, crash, ppc, listed, todo, cur,
          newStats, copy, stale, notified, envSteps>>
passVars == <<ppc, listed, todo, cur, newStats, copy, stale>>

Objects == [deletionTimestamp : BOOLEAN, ready : BOOLEAN, ann : Annotations]

\* The fields of an object the watch handlers read.
Views == [deletionTimestamp : BOOLEAN, state : LifecycleStates \cup {Absent}]
View(o) == [deletionTimestamp |-> o.deletionTimestamp, state |-> o.ann.state]

\* The fields of a listed object the pass reads.
ListedViews == [deletionTimestamp : BOOLEAN, ready : BOOLEAN,
                state : LifecycleStates \cup {Absent}]
ListedView(o) == [deletionTimestamp |-> o.deletionTimestamp,
                  ready |-> o.ready, state |-> o.ann.state]

\* A watch delta: an added or modified object, a watch Deleted event, or
\* the DeletedFinalStateUnknown tombstone a relist queues for an object
\* that vanished while the watch was down.
Deltas == [kind : {"sync"}, view : Views] \cup [kind : {"deleted", "tombstone"}]

\* isClusterReady (lines 594-604): the ClusterReady condition is True.
isClusterReady(o) == o.ready

Crashes == {"none", "tombstone", "divide"}
Stages  == {"idle", "add", "del", "stats", "refresh", "persist"}

Alive == crash = "none"
Existing == {c \in Names : federation[c] # None}
ListedNames == {c \in Names : listed[c] # None}

\* The deltas the informer queues when it lists: a sync of every object.
InitialDeltas ==
  [c \in Names |-> IF federation[c] = None THEN << >>
                   ELSE << [kind |-> "sync", view |-> View(federation[c])] >>]

(***************************************************************************)
(* Writes to the API server.  A write is seen by the open watch as a delta *)
(* and bumps the resourceVersion, which makes a copy taken by Get stale.   *)
(***************************************************************************)
CanWrite(c) == ~watching \/ Len(deltas[c]) < MaxPending

Write(c, o, d) ==
  /\ federation' = [federation EXCEPT ![c] = o]
  /\ deltas' = IF watching THEN [deltas EXCEPT ![c] = Append(@, d)] ELSE deltas
  /\ stale' = (stale \/ (ppc = "persist" /\ cur = c))

WriteObject(c, o) == Write(c, o, [kind |-> "sync", view |-> View(o)])

(***************************************************************************)
(* The client map.  updateClusterClient (lines 231-240): NewClusterClientSet*)
(* may fail, and then nothing is cached.                                   *)
(***************************************************************************)
updateClusterClient(c) ==
  \/ clusterKubeClientMap' = clusterKubeClientMap \cup {c}
  \/ UNCHANGED clusterKubeClientMap

(***************************************************************************)
(* The watch handlers, used by Deliver and by the pass.                    *)
(***************************************************************************)
\* delFromClusterSetByName (lines 154-163).
delFromClusterSetByName(c) ==
  /\ knownClusterSet' = knownClusterSet \ {c}
  /\ clusterKubeClientMap' = clusterKubeClientMap \ {c}
  /\ notified' = TRUE

\* addToClusterSet (lines 200-217): a client for a Ready or unmanaged one.
addToClusterSet(c, v) ==
  /\ knownClusterSet' = knownClusterSet \cup {c}
  /\ IF v.state \in {Absent, Ready} THEN updateClusterClient(c)
                                    ELSE UNCHANGED clusterKubeClientMap
  /\ UNCHANGED notified

\* updateCluster (lines 165-196).  The insert at line 170 is undone by the
\* deletion branch in the same call.
updateCluster(c, old, v) ==
  IF v.deletionTimestamp THEN delFromClusterSetByName(c)
  ELSE /\ knownClusterSet' = knownClusterSet \cup {c}
       /\ UNCHANGED notified
       /\ IF v.state # Absent /\ old.state # Ready /\ v.state = Ready
            THEN IF c \notin clusterKubeClientMap THEN updateClusterClient(c)
                 ELSE UNCHANGED clusterKubeClientMap
          ELSE IF v.state = Offline
            THEN clusterKubeClientMap' = clusterKubeClientMap \ {c}
          ELSE UNCHANGED clusterKubeClientMap

(***************************************************************************)
(* The informer goroutine (client-go cache.NewInformer, set up at lines    *)
(* 85-101; its code is vendored outside src/).  Deltas of one cluster are  *)
(* delivered in order; deltas of distinct clusters touch disjoint entries  *)
(* of the two maps, so their relative order does not matter.               *)
(***************************************************************************)
Deliver(c) ==
  LET d == Head(deltas[c]) IN
  /\ Alive
  /\ deltas[c] # << >>
  /\ deltas' = [deltas EXCEPT ![c] = Tail(@)]
  /\ \/ /\ d.kind = "tombstone"
        \* delFromClusterSet (lines 147-150): obj.(*v1beta1.Cluster) panics
        \* on a cache.DeletedFinalStateUnknown.
        /\ crash' = "tombstone"
        /\ UNCHANGED <<knownClusterSet, clusterKubeClientMap, clusterStore,
                       notified>>
     \/ /\ d.kind = "deleted"
        /\ delFromClusterSetByName(c)
        /\ clusterStore' = [clusterStore EXCEPT ![c] = None]
        /\ UNCHANGED crash
     \/ /\ d.kind = "sync"
        /\ IF clusterStore[c] = None THEN addToClusterSet(c, d.view)
           ELSE updateCluster(c, clusterStore[c], d.view)
        /\ clusterStore' = [clusterStore EXCEPT ![c] = d.view]
        /\ UNCHANGED crash
  /\ UNCHANGED <<federation, pods, watching, passVars, envSteps>>

\* The watch ends (timeout, connection loss); writes are no longer seen.
WatchDrop ==
  /\ Alive /\ watching
  /\ watching' = FALSE
  /\ UNCHANGED <<federation, pods, knownClusterSet, clusterKubeClientMap,
                 clusterStore, deltas, crash, passVars, notified, envSteps>>

\* The reflector lists again and DeltaFIFO.Replace queues a sync of every
\* listed object and a tombstone for every indexed object not listed.  The
\* model relists once the queue has drained.
Relist ==
  /\ Alive /\ ~watching
  /\ \A c \in Names : deltas[c] = << >>
  /\ watching' = TRUE
  /\ deltas' = [c \in Names |->
                 IF federation[c] # None
                   THEN << [kind |-> "sync", view |-> View(federation[c])] >>
                 ELSE IF clusterStore[c] # None THEN << [kind |-> "tombstone"] >>
                 ELSE << >>]
  /\ UNCHANGED <<federation, pods, knownClusterSet, clusterKubeClientMap,
                 clusterStore, crash, passVars, notified, envSteps>>

(***************************************************************************)
(* The wait.Until goroutine: UpdateClusterStatus (lines 272-361).  A pass  *)
(* whose List fails returns at once (line 276), which is a stutter.        *)
(***************************************************************************)
PassUnchanged == UNCHANGED <<federation, pods, clusterStore, deltas, watching,
                             crash, envSteps>>

\* Lines 275-278: List.
PassList ==
  /\ Alive /\ ppc = "idle"
  /\ listed' = [c \in Names |->
                 IF federation[c] = None THEN None ELSE ListedView(federation[c])]
  /\ todo' = Existing
  /\ ppc' = "add"
  /\ UNCHANGED <<cur, newStats, copy, stale, knownClusterSet,
                 clusterKubeClientMap, notified>>
  /\ PassUnchanged

\* A mutant: the add loop walks the List but adds nothing.
PassAddNothing(c) ==
  /\ Alive /\ ppc = "add" /\ c \in todo
  /\ UNCHANGED <<knownClusterSet, clusterKubeClientMap, notified>>
  /\ todo' = todo \ {c}
  /\ UNCHANGED <<ppc, listed, cur, newStats, copy, stale>>
  /\ PassUnchanged

\* Lines 279-283: one iteration of the loop adding the unknown.
PassAdd(c) ==
  /\ Alive /\ ppc = "add" /\ c \in todo
  /\ IF c \notin knownClusterSet THEN addToClusterSet(c, listed[c])
     ELSE UNCHANGED <<knownClusterSet, clusterKubeClientMap, notified>>
  /\ todo' = todo \ {c}
  /\ UNCHANGED <<ppc, listed, cur, newStats, copy, stale>>
  /\ PassUnchanged

\* A mutant: the difference taken the wrong way round (observed minus known).
PassDiffReversed ==
  /\ Alive /\ ppc = "add" /\ todo = {}
  /\ IF Cardinality(knownClusterSet) # Cardinality(ListedNames)
       THEN ppc' = "del" /\ todo' = ListedNames \ knownClusterSet
       ELSE ppc' = "stats" /\ todo' = ListedNames
  /\ UNCHANGED <<listed, cur, newStats, copy, stale, knownClusterSet,
                 clusterKubeClientMap, notified>>
  /\ PassUnchanged

\* Lines 285-291: compare the lengths, and compute the vanished names.
PassDiff ==
  /\ Alive /\ ppc = "add" /\ todo = {}
  /\ IF Cardinality(knownClusterSet) # Cardinality(ListedNames)
       THEN ppc' = "del" /\ todo' = knownClusterSet \ ListedNames
       ELSE ppc' = "stats" /\ todo' = ListedNames
  /\ UNCHANGED <<listed, cur, newStats, copy, stale, knownClusterSet,
                 clusterKubeClientMap, notified>>
  /\ PassUnchanged

\* Lines 292-294: one iteration of the deletion loop.
PassDel(c) ==
  /\ Alive /\ ppc = "del" /\ c \in todo
  /\ delFromClusterSetByName(c)
  /\ todo' = todo \ {c}
  /\ UNCHANGED <<ppc, listed, cur, newStats, copy, stale>>
  /\ PassUnchanged

PassDelDone ==
  /\ Alive /\ ppc = "del" /\ todo = {}
  /\ ppc' = "stats" /\ todo' = ListedNames
  /\ UNCHANGED <<listed, cur, newStats, copy, stale, knownClusterSet,
                 clusterKubeClientMap, notified>>
  /\ PassUnchanged

\* Lines 297-302: a listed cluster that is being deleted or not ready.
PassSkip(c) ==
  /\ Alive /\ ppc = "stats" /\ c \in todo
  /\ listed[c].deletionTimestamp \/ ~isClusterReady(listed[c])
  /\ todo' = todo \ {c}
  /\ UNCHANGED <<ppc, listed, cur, newStats, copy, stale, knownClusterSet,
                 clusterKubeClientMap, notified>>
  /\ PassUnchanged

\* getCountOfUsedPodsSystemNS (lines 464-480): a failed oracle-bmc list
\* is logged and its pods count zero.
getCountOfUsedPodsSystemNS(w, bmcListed) ==
  w.kube + (IF bmcListed THEN w.bmc ELSE 0)

\* getClusterStats (lines 412-445) once every query has answered.
getClusterStats(w, bmcListed) ==
  [alloc |-> w.alloc, cap |-> w.cap, used |-> w.used,
   sys |-> getCountOfUsedPodsSystemNS(w, bmcListed)]

\* Lines 304-311: getClusterStats (lines 412-480).  GetClusterClient
\* (lines 243-251) creates the client of the listed object when none is
\* cached.  The oracle-bmc list may fail without failing the call: its
\* pods then count zero (lines 472-476).
PassCollect(c, bmcListed) ==
  /\ Alive /\ ppc = "stats" /\ c \in todo
  /\ ~listed[c].deletionTimestamp /\ isClusterReady(listed[c])
  /\ todo' = todo \ {c}
  /\ clusterKubeClientMap' = clusterKubeClientMap \cup {c}
  /\ newStats' = getClusterStats(pods[c], bmcListed)
  /\ cur' = c
  /\ ppc' = "refresh"
  /\ UNCHANGED <<listed, copy, stale, knownClusterSet, notified>>
  /\ PassUnchanged

\* The same iteration when NewClusterClientSet fails (nothing is cached)
\* or a node or pod query fails after the client was cached: the cluster
\* is skipped for this pass (lines 307-310).
PassCollectFails(c) ==
  /\ Alive /\ ppc = "stats" /\ c \in todo
  /\ ~listed[c].deletionTimestamp /\ isClusterReady(listed[c])
  /\ todo' = todo \ {c}
  /\ updateClusterClient(c)
  /\ UNCHANGED <<ppc, listed, cur, newStats, copy, stale, knownClusterSet,
                 notified>>
  /\ PassUnchanged

\* A mutant: the Get copy is used without checking that it is still ready.
PassRefreshNoReadyCheck ==
  /\ Alive /\ ppc = "refresh"
  /\ IF federation[cur] # None
       THEN /\ copy' = federation[cur]
            /\ stale' = FALSE
            /\ ppc' = "persist"
       ELSE /\ ppc' = "stats"
            /\ UNCHANGED <<copy, stale>>
  /\ UNCHANGED <<listed, todo, cur, newStats, knownClusterSet,
                 clusterKubeClientMap, notified>>
  /\ PassUnchanged

\* Lines 312-321: Get the current object; skip it if it is gone or not
\* ready.
PassRefresh ==
  /\ Alive /\ ppc = "refresh"
  /\ IF federation[cur] # None /\ isClusterReady(federation[cur])
       THEN /\ copy' = federation[cur]
            /\ stale' = FALSE
            /\ ppc' = "persist"
       ELSE /\ ppc' = "stats"
            /\ UNCHANGED <<copy, stale>>
  /\ UNCHANGED <<listed, todo, cur, newStats, knownClusterSet,
                 clusterKubeClientMap, notified>>
  /\ PassUnchanged

\* The Get call itself fails (lines 314-317).
PassRefreshFails ==
  /\ Alive /\ ppc = "refresh"
  /\ ppc' = "stats"
  /\ UNCHANGED <<listed, todo, cur, newStats, copy, stale, knownClusterSet,
                 clusterKubeClientMap, notified>>
  /\ PassUnchanged

\* A mutant: an Update that does not carry the resourceVersion of the copy
\* (a blind write, as a Patch or a re-read-free retry would be).
PassPersistBlind ==
  LET r == Evaluate(copy.ann, newStats) IN
  /\ Alive /\ ppc = "persist"
  /\ \/ /\ r.panic
        /\ crash' = "divide"
        /\ UNCHANGED <<federation, deltas, stale, ppc, notified>>
     \/ /\ ~r.panic /\ ~r.update
        /\ ppc' = "stats"
        /\ UNCHANGED <<federation, deltas, stale, crash, notified>>
     \/ /\ ~r.panic /\ r.update /\ federation[cur] = None
        /\ ppc' = "stats"
        /\ UNCHANGED <<federation, deltas, stale, crash, notified>>
     \/ /\ ~r.panic /\ r.update /\ federation[cur] # None
        /\ CanWrite(cur)
        /\ WriteObject(cur, [copy EXCEPT !.ann = r.ann])
        /\ notified' = TRUE
        /\ ppc' = "stats"
        /\ UNCHANGED crash
  /\ UNCHANGED <<pods, clusterStore, watching, listed, todo, cur, newStats,
                 copy, knownClusterSet, clusterKubeClientMap, envSteps>>

\* Lines 323-358: decide, then Update and notify.  Update carries the
\* resourceVersion of the copy, so it is rejected when the object changed
\* or vanished since the Get.  A zero divisor in the decision panics and
\* ends the process (wait.Until's HandleCrash re-panics).
PassPersist ==
  LET r == Evaluate(copy.ann, newStats) IN
  /\ Alive /\ ppc = "persist"
  /\ \/ /\ r.panic
        /\ crash' = "divide"
        /\ UNCHANGED <<federation, deltas, stale, ppc, notified>>
     \/ /\ ~r.panic /\ ~r.update
        /\ ppc' = "stats"
        /\ UNCHANGED <<federation, deltas, stale, crash, notified>>
     \/ /\ ~r.panic /\ r.update /\ (stale \/ federation[cur] = None)
        /\ ppc' = "stats"
        /\ UNCHANGED <<federation, deltas, stale, crash, notified>>
     \/ /\ ~r.panic /\ r.update /\ ~stale /\ federation[cur] # None
        /\ CanWrite(cur)
        /\ WriteObject(cur, [copy EXCEPT !.ann = r.ann])
        /\ notified' = TRUE
        /\ ppc' = "stats"
        /\ UNCHANGED crash
  /\ UNCHANGED <<pods, clusterStore, watching, listed, todo, cur, newStats,
                 copy, knownClusterSet, clusterKubeClientMap, envSteps>>

\* The Update call fails for another reason (line 345-348).
PassPersistFails ==
  /\ Alive /\ ppc = "persist"
  /\ Evaluate(copy.ann, newStats).update
  /\ ppc' = "stats"
  /\ UNCHANGED <<listed, todo, cur, newStats, copy, stale, knownClusterSet,
                 clusterKubeClientMap, notified>>
  /\ PassUnchanged

\* Line 360: the pass returns; wait.Until runs the next one a period later.
PassDone ==
  /\ Alive /\ ppc = "stats" /\ todo = {}
  /\ ppc' = "idle"
  /\ UNCHANGED <<listed, todo, cur, newStats, copy, stale, knownClusterSet,
                 clusterKubeClientMap, notified>>
  /\ PassUnchanged

(***************************************************************************)
(* The process is restarted after a panic: StartClusterController and      *)
(* newClusterController (lines 67-103) build empty maps, and the informer  *)
(* lists again.                                                            *)
(***************************************************************************)
ControllerInit ==
  /\ knownClusterSet = {}
  /\ clusterKubeClientMap = {}
  /\ clusterStore = [c \in Names |-> None]
  /\ deltas = InitialDeltas
  /\ watching = TRUE
  /\ crash = "none"
  /\ ppc = "idle"
  /\ listed = [c \in Names |-> None]
  /\ todo = {}
  /\ cur = None
  /\ newStats = None
  /\ copy = None
  /\ stale = FALSE
  /\ notified = FALSE

Restart ==
  /\ ~Alive
  /\ knownClusterSet' = {}
  /\ clusterKubeClientMap' = {}
  /\ clusterStore' = [c \in Names |-> None]
  /\ deltas' = InitialDeltas
  /\ watching' = TRUE
  /\ crash' = "none"
  /\ ppc' = "idle"
  /\ listed' = [c \in Names |-> None]
  /\ todo' = {}
  /\ cur' = None
  /\ newStats' = None
  /\ copy' = None
  /\ stale' = FALSE
  /\ notified' = FALSE
  /\ UNCHANGED <<federation, pods, envSteps>>

(***************************************************************************)
(* The environment.  Cluster objects are registered, marked for deletion,  *)
(* removed, and have their Ready condition and lifecycle state changed by  *)
(* others (the federation, the scaler and shutdown controllers, through    *)
(* UpdateCluster at lines 589-592).  Member clusters change their          *)
(* workload.  These are the inputs; none is fair.                          *)
(***************************************************************************)
EnvStep == UNCHANGED <<pods, knownClusterSet, clusterKubeClientMap,
                            clusterStore, watching, crash, ppc, listed, todo,
                            cur, newStats, copy, notified>>
  /\ envSteps < MaxEnvSteps
  /\ envSteps' = envSteps + 1

Register(c) ==
  /\ federation[c] = None /\ CanWrite(c)
  /\ \E a \in InitAnnotations, r \in BOOLEAN :
       WriteObject(c, [deletionTimestamp |-> FALSE, ready |-> r, ann |-> a])
  /\ EnvStep

MarkDeleted(c) ==
  /\ federation[c] # None /\ ~federation[c].deletionTimestamp /\ CanWrite(c)
  /\ WriteObject(c, [federation[c] EXCEPT !.deletionTimestamp = TRUE])
  /\ EnvStep

Unregister(c) ==
  /\ federation[c] # None /\ CanWrite(c)
  /\ Write(c, None, [kind |-> "deleted"])
  /\ EnvStep

SetReadyCondition(c) ==
  /\ federation[c] # None /\ CanWrite(c)
  /\ WriteObject(c, [federation[c] EXCEPT !.ready = ~@])
  /\ EnvStep

SetLifecycleState(c) ==
  /\ federation[c] # None /\ CanWrite(c)
  /\ \E t \in ExternalTransitions :
       /\ t[1] = federation[c].ann.state
       /\ WriteObject(c, [federation[c] EXCEPT !.ann.state = t[2]])
  /\ EnvStep

ChangeWorkload(c) ==
  /\ \E w \in WorkloadChoices \ {pods[c]} : pods' = [pods EXCEPT ![c] = w]
  /\ envSteps < MaxEnvSteps
  /\ envSteps' = envSteps + 1
  /\ UNCHANGED <<federation, knownClusterSet, clusterKubeClientMap,
                 clusterStore, deltas, watching, crash, passVars, notified>>

\* One second passes: every shutdown timer ages (Older), also in the Get
\* copy.
Tick ==
  /\ federation' = [c \in Names |-> IF federation[c] = None THEN None
                     ELSE [federation[c] EXCEPT !.ann = Older(@)]]
  /\ copy' = IF copy = None THEN None ELSE [copy EXCEPT !.ann = Older(@)]
  /\ UNCHANGED <<pods, knownClusterSet, clusterKubeClientMap, clusterStore,
                 deltas, watching, crash, ppc, listed, todo, cur, newStats,
                 stale, notified, envSteps>>

\* The OnClusterChange consumer (the deployment controller) reconciles.
ConsumeChange ==
  /\ notified
  /\ notified' = FALSE
  /\ UNCHANGED <<federation, pods, knownClusterSet, clusterKubeClientMap,
                 clusterStore, deltas, watching, crash, passVars, envSteps>>

-----------------------------------------------------------------------------
InitObjects == [deletionTimestamp : {FALSE}, ready : BOOLEAN,
                ann : InitAnnotations]

Init ==
  /\ federation \in [Names -> InitObjects \cup {None}]
  /\ pods \in [Names -> WorkloadChoices]
  /\ ControllerInit
  /\ envSteps = 0

InformerStep ==
  \/ \E c \in Names : Deliver(c)
  \/ WatchDrop
  \/ Relist

PassStep ==
  \/ PassList \/ PassDiff \/ PassDelDone \/ PassRefresh \/ PassRefreshFails
  \/ PassPersist \/ PassPersistFails \/ PassDone
  \/ \E c \in Names :
       \/ PassAdd(c) \/ PassDel(c) \/ PassSkip(c) \/ PassCollectFails(c)
       \/ \E b \in BOOLEAN : PassCollect(c, b)

ExternalWrite ==
  \E c \in Names :
    \/ Register(c) \/ MarkDeleted(c) \/ Unregister(c)
    \/ SetReadyCondition(c) \/ SetLifecycleState(c)

Environment == ExternalWrite \/ \E c \in Names : ChangeWorkload(c)

Next ==
  \/ InformerStep \/ PassStep \/ Restart \/ ConsumeChange
  \/ Environment \/ Tick

(***************************************************************************)
(* Fairness.  Both goroutines keep running (wait.Until re-runs the pass    *)
(* every clusterMonitorPeriod; the informer delivers what it has queued    *)
(* and, once a watch has been lost, lists again), a crashed pod is         *)
(* restarted, the consumer reconciles, and time passes.  Losing the watch  *)
(* is not forced: resync is off (line 95), so a fair behaviour may keep    *)
(* its first watch for ever.  Nothing is assumed of the environment or of  *)
(* remote calls: the liveness properties state, as their hypothesis, that  *)
(* these eventually settle.                                                *)
(***************************************************************************)
Fairness ==
  /\ \A c \in Names : WF_vars(Deliver(c))
  /\ WF_vars(Relist)
  /\ WF_vars(PassStep)
  /\ WF_vars(Restart)
  /\ WF_vars(ConsumeChange)
  /\ WF_vars(Tick)

Spec == Init /\ [][Next]_vars /\ Fairness

-----------------------------------------------------------------------------
(* The type invariant. *)
TypeOK ==
  /\ federation \in [Names -> Objects \cup {None}]
  /\ pods \in [Names -> WorkloadChoices]
  /\ knownClusterSet \subseteq Names
  /\ clusterKubeClientMap \subseteq Names
  /\ clusterStore \in [Names -> Views \cup {None}]
  /\ deltas \in [Names -> Seq(Deltas)]
  /\ \A c \in Names : Len(deltas[c]) <= MaxPending
  /\ watching \in BOOLEAN
  /\ crash \in Crashes
  /\ ppc \in Stages
  /\ listed \in [Names -> ListedViews \cup {None}]
  /\ todo \subseteq Names
  /\ cur \in Names \cup {None}
  /\ newStats \in Snapshots \cup {None}
  /\ copy \in Objects \cup {None}
  /\ stale \in BOOLEAN
  /\ notified \in BOOLEAN
  /\ envSteps \in 0..MaxEnvSteps

(* A write by the periodic pass (lines 343-344) applies the decision to the *)
(* object as it is in the API server at that moment: a lifecycle state or   *)
(* a Ready condition written by someone else between the pass's Get and its *)
(* Update is never overwritten with the pass's older copy.                  *)
UpdateAppliesDecisionToCurrent ==
  [][PassPersist /\ federation' # federation =>
       federation'[cur] =
         [federation[cur] EXCEPT
            !.ann = Evaluate(federation[cur].ann, newStats).ann]]_vars

(* The known-cluster set follows the API server: once no one registers,    *)
(* removes or modifies cluster objects any more, the set eventually always *)
(* holds every cluster that is not being deleted and nothing that is gone, *)
(* whatever the watch lost, whatever the pass's List raced with, and       *)
(* across restarts (delFromClusterSetByName, addToClusterSet, lines        *)
(* 279-295).                                                               *)
NotDeleting == {c \in Existing : ~federation[c].deletionTimestamp}

KnownClusterSetConverges ==
  <>[][~ExternalWrite]_vars =>
    <>[](NotDeleting \subseteq knownClusterSet /\ knownClusterSet \subseteq Existing)

(* The remote calls of the pass that can fail: a client or pod query, the  *)
(* oracle-bmc list (a failure that matters only where oracle-bmc has pods: *)
(* elsewhere the step is the same as a successful collect), the Get and    *)
(* the Update.                                                             *)
RemoteFailure ==
  \/ PassRefreshFails \/ PassPersistFails
  \/ \E c \in Names :
       \/ PassCollectFails(c)
       \/ PassCollect(c, FALSE) /\ pods[c].bmc # 0

(* An idle cluster is shut down: once the remote calls of the pass stop    *)
(* failing, every ready cluster that runs no user pods and has a positive  *)
(* TTL eventually always is out of Ready with no shutdown timer left       *)
(* running.  A Ready one is stamped (lines 487-498), its timer expires     *)
(* (lines 512-526) and it becomes PendingShutdown, whatever scaling        *)
(* decision the threshold rule made in between.                            *)
IdleCluster(c) ==
  /\ federation[c] # None
  /\ ~federation[c].deletionTimestamp /\ isClusterReady(federation[c])
  /\ pods[c].used = pods[c].sysActive
  /\ TTLOf(federation[c].ann) > 0

IdleClusterShutdown ==
  <>[][~RemoteFailure]_vars =>
    <>[](\A c \in Names :
           IdleCluster(c) => /\ federation[c].ann.state # Ready
                            /\ federation[c].ann.start = Absent)

(* No client outlives a deleted cluster: once a cluster object is gone,    *)
(* the informer has delivered everything about it and it has left the     *)
(* known set, its cached client is gone too (delFromClusterSetByName,      *)
(* lines 156-157, is the only code that drops it, and nothing calls it     *)
(* again for a name that is no longer known).                              *)
Forgotten(c) ==
  federation[c] = None /\ c \notin knownClusterSet /\ deltas[c] = << >>

NoClientForForgottenCluster ==
  \A c \in Names : Forgotten(c) => c \notin clusterKubeClientMap

(* The idle-shutdown timer runs only while the persisted capacity          *)
(* annotations show no user pods: when user pods are recorded, the timer   *)
(* is cancelled in the same pass (markClusterToShutDownIfNoPods, lines     *)
(* 500-507, as the spec's rule 2 says).                                     *)
ShutdownTimerOnlyWhileIdle ==
  \A c \in Existing :
    federation[c].ann.start # Absent => NoUserPodsLeft(federation[c].ann)

(* The consumer hears of every added cluster: a step that adds a name to  *)
(* the known set (addToClusterSet from the watch at lines 200-217 or from  *)
(* the pass at line 281) leaves a change notification pending, as the      *)
(* spec's change-notification contract asks for any cluster add.           *)
AdditionNotified ==
  [][knownClusterSet' \ knownClusterSet # {} => notified']_vars

(* The controller implements the federation store (FederationStore): the  *)
(* only change it makes to the API server is one decision of lines 323-342 *)
(* written by the Update of line 343 on a cluster that is stored and ready *)
(* when the Update lands, computed from the annotations it has then; every *)
(* other change to the objects is one of the external writes or a second   *)
(* of time.  Under the refinement mapping the store is the API server.     *)
Abs == INSTANCE FederationStore WITH fed <- federation

FederationRefinement == Abs!Spec

(* Every decision is taken on the stats just collected: an Update of the  *)
(* pass leaves the stored capacity annotations equal to the snapshot that  *)
(* getClusterStats returned in this pass.  Rule 1 of the decision block    *)
(* (lines 328-337) rewrites stats that differ, and the short-circuit       *)
(* (lines 339-341) lets the timer, TTL and scaling rules run only when     *)
(* isStatsChanged found every recorded value equal to the new one.         *)
DecisionOnCollectedStats ==
  [][PassPersist /\ federation' # federation =>
       federation'[cur].ann.stats = newStats]_vars

(* Watch handlers never panic: a deletion that the informer learns from a  *)
(* relist reaches delFromClusterSet (lines 147-150) as a tombstone.        *)
NoTombstonePanic == crash # "tombstone"

(* The threshold rule never panics on a cluster whose capacity equals its  *)
(* system pods (line 550; the spec's division-by-zero edge case).          *)
NoDivideByZeroPanic == crash # "divide"
=============================================================================
