# TLA+ models of the navarkos cluster controller

The models cover `src/pkg/controller/cluster/clustercontroller.go`, the
navarkos `ClusterController`. It keeps the set of federated clusters that are
known, caches a Kubernetes client per member cluster, and once per period
collects each ready cluster's pod capacity. From those numbers it decides,
through annotations on the federation `Cluster` object, whether the cluster
should be scaled up, scaled down or shut down.

## The system

`Run` (lines 220-229) starts two goroutines. They share `knownClusterSet` and
`clusterKubeClientMap` with no lock.

* **The informer goroutine** (`cache.NewInformer`, lines 85-101) delivers watch
  deltas to three handlers:
  * `addToClusterSet` (200-217) adds the name and creates a client for a Ready
    or unmanaged cluster;
  * `updateCluster` (165-196) creates a client on a transition into Ready,
    drops it on Offline, and deletes a cluster marked for deletion;
  * `delFromClusterSet` (147-150) asserts the object's type and calls
    `delFromClusterSetByName` (154-163), which also calls `OnClusterChange`.
* **The periodic pass** `UpdateClusterStatus` (272-361) runs under
  `wait.Until`:
  1. List all clusters.
  2. Add the ones it does not know.
  3. If the sizes differ, delete the known ones that were not listed.
  4. For every listed cluster that is not being deleted and is ready:
     * collect its stats (`getClusterStats`, 412-480), creating a client if
       none is cached;
     * `Get` a fresh copy and re-check readiness;
     * run the decision block (323-342);
     * `Update` the copy if something changed, and notify `OnClusterChange`.
* **The decision block** chains four rules with a short-circuit `||`:
  1. record changed stats;
  2. stamp or clear the shutdown timer (`markClusterToShutDownIfNoPods`);
  3. move to PendingShutdown when the TTL has expired;
  4. mark for scaling at the thresholds.

  Once a rule fires, the later ones are not called.
* **The surroundings:**
  * the federation API server, whose `Update` is rejected when the
    resourceVersion is stale;
  * other writers (the federation health check, the scaler and shutdown
    controllers through `UpdateCluster`, 589-592);
  * the member clusters' workloads;
  * the `OnClusterChange` consumer.

  A panic in either goroutine ends the process, which is restarted with empty
  maps.

## Modules

| module | models |
|---|---|
| `DecisionEngine.tla` | the decision block and its rules (lines 323-342, 364-581) as pure operators; `Evaluate(ann, snapshot)` returns the new annotations, the `updateCluster` flag and whether the pass panicked |
| `ClusterController.tla` | both goroutines, the informer, the API server, the external writers, the workloads, crash and restart |
| `FederationStore.tla` | the abstract specification: the federation's Cluster objects, the writes of others, time, and the controller's one kind of write, a decision on a stored, ready cluster |
| `MCClusterController.tla` | the constants of the TLC runs: annotations, workloads and transitions |
| `ClusterControllerProofs.tla` | the TLAPS proofs of type correctness and of the Update's optimistic concurrency |
| `FederationRefinementProofs.tla` | the TLAPS proof that the controller implements `FederationStore` |
| `ControllerSafetyProofs.tla` | the TLAPS proof that every decision records the stats just collected |

### Data abstraction in DecisionEngine

* An annotation is either `Absent` or the value it parses to. Absent, empty
  and unparsable values all fall back to the default in
  `getAnnotationIntegerValue`, so they are one value.
* The four capacity annotations are always written together, so they are one
  `stats` field holding a snapshot record.
* The shutdown timestamp is kept as its age in seconds, saturated at `MaxAge`.
  The code only ever compares `int(time.Since(start).Seconds())` with the TTL.
* Go's truncating division (`GoQuotient`) and the zero divisor are kept.
* A workload is the counts the code reads: allocatable and total capacity,
  the Pending or Running pods (`getCountOfUsedPods`, line 457), and the pods
  of kube-system and oracle-bmc in every phase (`getCountOfUsedPodsSystemNS`,
  line 479). It also carries `sysActive`, how many of those system pods are
  Pending or Running. The code never reads `sysActive`; the properties use
  it to say when a cluster really runs no user pods.
* `Older`, one second on the timer, is here too, because the abstract
  specification uses it as well.

### State and actions of ClusterController

* **Variables.** `federation` is the API server's objects: deletion mark,
  Ready condition and annotations. `knownClusterSet` and
  `clusterKubeClientMap` are the two maps; a client is represented by its name
  only. `clusterStore` is the informer's indexer, `deltas` the per-cluster
  watch queues, `watching` whether the watch is open, and `crash` the panic
  that ended the process, if any. The pass's program counter and locals are
  `ppc`, `listed`, `todo`, `cur`, `newStats` and `copy`. `stale` is true when
  the object was written since the pass's `Get`.
* **Informer:**
  * `Deliver(c)` runs the handler of the next delta;
  * `WatchDrop` closes the watch;
  * `Relist` models `DeltaFIFO.Replace`: a sync delta for every object and a
    `DeletedFinalStateUnknown` tombstone for every indexed object that is gone.
* **Pass.** One action per loop iteration and per remote call, each with its
  failure:
  * `PassList`, `PassAdd(c)`, `PassDiff`, `PassDel(c)`, `PassDelDone`;
  * `PassSkip(c)`, `PassCollect(c, bmcListed)`, `PassCollectFails(c)`;
  * `PassRefresh`, `PassRefreshFails`;
  * `PassPersist`, `PassPersistFails`, `PassDone`.

  A failed oracle-bmc list does not fail the call (lines 472-476). It is the
  `bmcListed = FALSE` choice.
* **Process:** `Restart` follows a panic. Both panics are modelled: the
  tombstone assertion in `Deliver`, and the zero divisor in `PassPersist`.
* **Environment:**
  * `Register`, `MarkDeleted`, `Unregister`, `SetReadyCondition` and
    `SetLifecycleState` write the API server, and each write queues a delta
    when the watch is open;
  * `ChangeWorkload` changes what a member cluster runs;
  * `Tick` ages every timer;
  * `ConsumeChange` is the consumer.

  The external writes and the workload changes share a budget of
  `MaxEnvSteps` steps.

Granularity: each Go map operation is atomic. Deltas of one cluster are
delivered in order.

### The abstract specification

`FederationStore` has one variable, `fed`, the API server's objects. Its
actions are:

* the external writes `Register`, `MarkDeleted`, `Unregister`,
  `SetReadyCondition` and `SetLifecycleState`, without the model's bounds;
* `Tick`;
* `Decide(c)`: on a stored cluster whose Ready condition is true, replace
  the annotations by `Evaluate(annotations, s)` for some snapshot `s`, when
  that decision changes something and does not divide by zero.

The decision block, the snapshot set and the timer are constant parameters.
`ClusterController` instantiates them with its own operators:
`Abs == INSTANCE FederationStore WITH fed <- federation`. The property
`FederationRefinement == Abs!Spec` says the controller implements the store.
Every controller step leaves the API server alone, is one of the store's
external writes or `Tick`, or is the pass's Update, which is `Decide(cur)`.
This holds only if the Update lands on the object as stored now (the
resourceVersion), if that object is ready (the re-check at line 318), and if
the write touches the annotations alone.

## Runs

All runs use `MaxPods = 2`, `MaxAge = 2` (the largest TTL used),
`MaxPending = 1` and `MaxEnvSteps = 1`. With these bounds:

* a pass can interleave with a delivery, a watch loss, a relist, a restart
  and one external write at every step;
* the workloads reach the busy, idle, oracle-bmc-only and zero-user-capacity
  cases;
* `MaxAge = 2` is enough because the code compares the age with the TTL using
  `>=` only.

More environment steps multiply the state space beyond five minutes. They
matter for one hazard only: the length check of line 286. Equal lengths hide
a vanished cluster only when a stale known name, a listed name missing from
the known set, and a watch deletion of that name fall in one pass. That takes
three names and three external writes. The effect is transient: the next
pass whose lengths differ deletes the stale name. No run reaches it, and
`PROJECT.json` lists it as a hazard without a property.

| run | cfg | result | checks |
|---|---|---|---|
| reconcile | `reconcile.cfg`: 2 clusters, managed Ready, membership transitions | pass (635,644 states) | `UpdateAppliesDecisionToCurrent`, `KnownClusterSetConverges`, `FederationRefinement` |
| lifecycle | `lifecycle.cfg`: 1 cluster, unmanaged, managed or autoscaled, four workloads, all transitions | pass (569,276 states) | `UpdateAppliesDecisionToCurrent`, `IdleClusterShutdown`, `FederationRefinement`, `DecisionOnCollectedStats` |
| client_leak | 1 cluster | violation | `NoClientForForgottenCluster` |
| tombstone | 1 cluster | violation | `NoTombstonePanic` |
| timer_kept | as lifecycle | violation | `ShutdownTimerOnlyWhileIdle` |
| divide_by_zero | as lifecycle | violation | `NoDivideByZeroPanic` |
| add_not_notified | 1 cluster | violation | `AdditionNotified` |
| completed_pod | 1 cluster, managed Ready, idle with a completed kube-system pod | violation | `IdleClusterShutdown` |

### The properties

* **`UpdateAppliesDecisionToCurrent`**, an action property. A successful
  Update writes the decision onto the object as it is stored. A lifecycle
  state or Ready condition written by someone else after the `Get` is never
  reverted. It holds because the Update carries the resourceVersion; a blind
  write (the mutant) breaks it.
* **`KnownClusterSetConverges`**, liveness. Once the external writes stop, the
  known set eventually always equals the set of clusters that exist and are
  not being deleted. This holds whatever the watch lost and whatever the pass
  re-added from a stale List. It holds across restarts. The pass repairs what
  the watch cannot: its diff (lines 285-294) removes the vanished clusters,
  and its add loop (lines 279-283) re-adds a cluster that a stale diff
  removed after the watch had added it. The watch need not be lost for this
  (see Fairness). With an add loop that adds nothing (the mutant
  `PassAddNothing`), a cluster that a stale diff removed stays unknown, and
  the property fails. A diff taken the wrong way round (`PassDiffReversed`)
  breaks it too.
* **`IdleClusterShutdown`**, liveness. Once the remote calls stop failing,
  every ready cluster with no user pods and a positive TTL eventually leaves
  Ready with no timer left. "No user pods" means that every Pending or
  Running pod is a system pod (`used = sysActive`). A failed oracle-bmc list
  counts as a remote failure only where oracle-bmc has pods. Elsewhere that
  step is the same step as a successful collect, and counting it would make
  the hypothesis false on every behaviour.
* **`FederationRefinement`**, refinement: the controller implements
  `FederationStore` (above). A pass that drops the re-check of readiness on
  the Get copy (the mutant `PassRefreshNoReadyCheck`) breaks it.
* **`DecisionOnCollectedStats`**, an action property. An Update that changes
  the API server records the snapshot collected in this pass as the
  cluster's stats. Rule 1 compares all four stats values (lines 395-404)
  and writes new stats when any differs. Every later rule runs only when the
  stored stats already equal the collected ones. This holds with or without
  the short-circuit, so the property says nothing about the order of the
  rules (`ShutdownTimerOnlyWhileIdle` does). A comparison that leaves out the system-pod count
  (the mutant `isStatsChangedIgnoringSys`) lets a later rule write stale
  stats.
* **`AdditionNotified`**, an action property, is stated for the violation
  run below.
* `TypeOK`, the type invariant, is proved by `TypeCorrect` for every value
  of the constants. No run checks it, because no plausible bug of the code
  could break a conjunct of it.

### What the violations show

These are the findings in `PROJECT.json`.

* **client_leak.** The watch delivers a deletion. The pass, iterating over its
  older List, then calls `GetClusterClient` (line 246) and creates a new client
  for the deleted cluster. Nothing removes that client.
* **tombstone.** A cluster is removed while the watch is down. After the
  relist, `delFromClusterSet` receives a `DeletedFinalStateUnknown`, and
  `obj.(*v1beta1.Cluster)` panics.
* **timer_kept.** A pass that rewrites changed stats skips the timer rule
  because of the short-circuit. A cluster whose recorded stats show user pods
  keeps its shutdown timer, although spec §4.4 says every rule is evaluated on
  every pass. The trace goes through the ignored oracle-bmc failure.
* **divide_by_zero.** On an autoscaled Ready cluster with capacity equal to its
  system pods, line 550 divides by zero and the process panics. Spec §8 says
  this case must not crash.

* **add_not_notified.** The watch delivers a new cluster. `addToClusterSet`
  (line 203) adds it to the known set but never calls `OnClusterChange`,
  and neither does the pass's add (line 281). Spec §6 asks for a
  notification after any cluster add.
* **completed_pod.** An idle cluster holds a completed kube-system pod. The
  used count skips it (line 457) but the system count includes it (line
  479), so `usedPods == usedSystemPods` is never true. The cluster is never
  stamped or shut down, even with every remote call succeeding. On an
  autoscaled cluster, the same mismatch makes `userPods` negative (line 548).

### Mutants

Each property of a passing run is broken by a plausible bug in the code it is
about:

* `PassPersistBlind`: an Update that does not carry the resourceVersion;
* `PassDiffReversed`: the set difference taken the wrong way round;
* `MarkShutdownFiresRestamping`: the timer stamped again while already
  running;
* `PassRefreshNoReadyCheck`: the Get copy used without the ready re-check of
  line 318 (it breaks `FederationRefinement` in both passing runs);
* `PassAddNothing`: the pass's add loop skipping every unknown cluster;
* `isStatsChangedIgnoringSys`: the stats comparison of rule 1 without the
  system-pod count.

## Fairness

Weak fairness on:

* each `Deliver(c)` (the informer hands every queued delta to its handler);
* `Relist` (once a watch is lost and its queue has drained, the reflector
  lists again);
* the pass (`wait.Until` runs it every period);
* `Restart` (the pod is restarted);
* `ConsumeChange`;
* `Tick` (time passes).

`WatchDrop` has no fairness. The informer is built with resync off
(`NoResyncPeriodFunc`, line 95). When a watch ends normally, client-go
watches again from the last resourceVersion and loses nothing; in the model
that behaviour is a watch that stays open. `WatchDrop` followed by `Relist`
models the watch that expired and must list again. That can happen but need
not, so no fair behaviour is forced to relist. Each relist queues a sync of
every stored cluster. Forcing relists would re-add every cluster through
`updateCluster` (line 170), and a convergence property would then hold even
without the pass's repairs.

Nothing is assumed of the environment or of the remote calls. The liveness
properties take "eventually no more external writes" and "eventually no more
remote failures" as hypotheses instead of assuming strong fairness of success.
A flaky oracle-bmc list that fails on alternate passes can postpone a shutdown
for ever; that case is listed as a hazard.

## Proofs (TLAPS)

The four theorems are proved for every value of the constants that satisfies
`DefaultsAssumption` and `ControllerAssumption`.

* **`TypeCorrect`: `Spec => []TypeOK`.** `TypeOK` alone is not inductive:
  `PassPersist` needs `copy` and `newStats` to be a real object and snapshot,
  and `PassRefresh` needs `cur` to be a name. The inductive invariant `IInv`
  is `TypeOK /\ PassShape`, where `PassShape` states what the pass's locals
  hold at the stages that read them. The proof rests on these lemmas:
  * `InitIInv` and `NextIInv`; under `NextIInv`, `PassStepIInv` and
    `EnvironmentIInv` give one case per action;
  * `EvaluateType` (every rule writes well-formed annotations);
  * `OlderType`, `ViewType` and `InitialDeltasType`;
  * `WriteType` (a write queues a delta only when the queue has room).
* **`UpdateAppliesToCurrent`: `Spec => UpdateAppliesDecisionToCurrent`.** It
  rests on `CopyFresh`: at the persist stage, a copy that is not stale equals
  the stored object. `WriteKeepsCopyFresh` shows that any write to the held
  cluster marks the copy stale. `Tick` ages the copy and the stored object
  alike. `PersistAppliesToCurrent` then turns `CopyFresh` into the action
  property.

I checked both `IInv` and `CopyFresh` with TLC as invariants of the two
instances before proving them.

* **`Refinement`: `Spec => FederationRefinement`**
  (`FederationRefinementProofs.tla`). Its invariant `RInv` is
  `IInv /\ CopyFresh /\ CopyReady`. `CopyReady` says the copy held at the
  persist stage passed the ready check; only `PassRefresh` takes a copy, and
  `Tick` changes only its annotations. The proof is the usual refinement
  argument:
  * `InitRefines`: the initial objects are the store's;
  * `NextRefines`: every step is a stutter of `fed` or a store step. It has
    one case for the pass's Update (`PersistRefines`: by `CopyFresh` and
    `CopyReady` the written object is the stored, ready one with new
    annotations, so the step is `Decide(cur)` with the collected stats as
    witness), one for the environment and `Tick` (`EnvironmentRefines`),
    and one for all the steps that do not write the API server;
  * the temporal step combines them with `AlwaysRInv` by PTL.

  The decision block, the snapshots and the timer are parameters of
  `FederationStore`, instantiated with the controller's own operators, so
  the prover sees the same `Evaluate` on both sides.

* **`CollectedStats`: `Spec => DecisionOnCollectedStats`**
  (`ControllerSafetyProofs.tla`). `EvaluateRecordsSnapshot` follows the
  decision block. If rule 1 fires, its result carries the snapshot. If it
  does not fire, the stored stats have all four values of the snapshot
  (`SnapshotsExtensional`), and no later rule touches them.
  `PersistRecordsSnapshot` lifts this to the Update of line 343. The action
  property then follows from `IInv` by PTL.

What stays with TLC:
* The liveness properties, `KnownClusterSetConverges` and
  `IdleClusterShutdown`. They rest on fairness and ENABLED, which the prover
  does not handle.
* The properties of the violation runs, which are false of the code.

## Not modelled

* The read API used by the deployment controller (`GetReadyClusters`,
  `GetUnreadyClusters`, `IsSynced`, `GetClusterDeployment`, `GetCluster`,
  `IsClusterScaling`). It only reads state.
* The contents of a client (its credentials). Because of this, the model
  cannot see a stale client kept across a delete and re-create that a relist
  coalesced into one update.
* The data race on the two maps, which Go aborts on.
* Hung remote calls: a call may fail, never hang.
* Pod phases and namespaces: they are counts (see the workload above).
* The data race on the two maps (hazard at line 156), the missing timeouts on
  the remote calls (line 313), and a delete and re-create coalesced by a
  relist (line 185). These are listed as hazards with no property. The
  model's granularity, its calls that fail but never hang, and its clients
  without incarnations cannot express them.
* The vendored kube-proxy `BUILD` file.
