----------------------- MODULE ClusterControllerProofs -----------------------
(***************************************************************************)
(* Proofs about ClusterController for every value of its constants.        *)
(* TypeOK alone is not inductive: PassPersist reads copy and newStats, and *)
(* PassRefresh reads federation[cur], so the strengthening IInv records    *)
(* what the pass's locals hold at the stages that read them.               *)
(***************************************************************************)
EXTENDS ClusterController, SequenceTheorems, TLAPS

\* The locals of UpdateClusterStatus between collect and Update.
PassShape ==
  /\ ppc \in {"refresh", "persist"} => cur \in Names /\ newStats \in Snapshots
  /\ ppc = "persist" => copy \in Objects

IInv == TypeOK /\ PassShape

\* The Get copy is the stored object until someone writes it (the
\* resourceVersion the Update carries still matches).
CopyFresh == ppc = "persist" /\ ~stale => federation[cur] = copy

-----------------------------------------------------------------------------
(* Every rule of the decision block (lines 323-342) writes annotations of  *)
(* the same shape: a snapshot of the collected stats, a timer of age 0 or  *)
(* none, or a lifecycle state.                                             *)
LEMMA EvaluateType ==
  ASSUME NEW a \in Annotations, NEW s \in Snapshots
  PROVE  /\ Evaluate(a, s).ann \in Annotations
         /\ Evaluate(a, s).update \in BOOLEAN
<1>1. 0 \in Ages
  BY DefaultsAssumption DEF Ages
<1>2. /\ updateClusterStats(a, s) \in Annotations
      /\ markClusterToShutDownIfNoPods(a) \in Annotations
      /\ shutDownClusterIfTTLExpired(a) \in Annotations
      /\ markClusterForScalingIfPodsHitThresholds(a) \in Annotations
  BY <1>1 DEF updateClusterStats, markClusterToShutDownIfNoPods,
              shutDownClusterIfTTLExpired,
              markClusterForScalingIfPodsHitThresholds, Annotations,
              LifecycleStates
<1> QED
  BY <1>2 DEF Evaluate, Result

(* A second passing keeps a shutdown timer's age within 0..MaxAge.         *)
LEMMA OlderType ==
  ASSUME NEW a \in Annotations
  PROVE  Older(a) \in Annotations
BY DefaultsAssumption DEF Older, Annotations, Ages

(* The watch and list views of an object have the view types.              *)
LEMMA ViewType ==
  ASSUME NEW o \in Objects
  PROVE  /\ View(o) \in Views
         /\ ListedView(o) \in ListedViews
BY DEF View, ListedView, Views, ListedViews, Objects, Annotations

(* The informer's initial (or post-restart) queue holds one sync per      *)
(* existing object.                                                        *)
LEMMA InitialDeltasType ==
  ASSUME federation \in [Names -> Objects \cup {None}]
  PROVE  /\ InitialDeltas \in [Names -> Seq(Deltas)]
         /\ \A c \in Names : Len(InitialDeltas[c]) <= MaxPending
<1>1. \A c \in Names : federation[c] # None =>
        [kind |-> "sync", view |-> View(federation[c])] \in Deltas
  BY ViewType DEF Deltas
<1> QED
  BY <1>1, ControllerAssumption DEF InitialDeltas

-----------------------------------------------------------------------------
(* The initial states satisfy the strengthened invariant.                  *)
LEMMA InitIInv == Init => IInv
<1> SUFFICES ASSUME Init PROVE IInv
  OBVIOUS
<1>1. federation \in [Names -> Objects \cup {None}]
  BY ControllerAssumption DEF Init, InitObjects, Objects
<1>2. /\ deltas \in [Names -> Seq(Deltas)]
      /\ \A c \in Names : Len(deltas[c]) <= MaxPending
  BY <1>1, InitialDeltasType DEF Init, ControllerInit
<1>3. /\ clusterStore \in [Names -> Views \cup {None}]
      /\ listed \in [Names -> ListedViews \cup {None}]
      /\ pods \in [Names -> WorkloadChoices]
  BY DEF Init, ControllerInit
<1>4. /\ knownClusterSet \subseteq Names /\ clusterKubeClientMap \subseteq Names
      /\ todo \subseteq Names /\ cur \in Names \cup {None}
      /\ newStats \in Snapshots \cup {None} /\ copy \in Objects \cup {None}
      /\ watching \in BOOLEAN /\ stale \in BOOLEAN /\ notified \in BOOLEAN
      /\ crash \in Crashes /\ ppc \in Stages
  BY DEF Init, ControllerInit, Crashes, Stages
<1>5. envSteps \in 0..MaxEnvSteps
  BY ControllerAssumption DEF Init
<1>6. PassShape
  BY DEF Init, ControllerInit, PassShape
<1> QED
  BY <1>1, <1>2, <1>3, <1>4, <1>5, <1>6 DEF IInv, TypeOK

(* A write to the API server keeps the object map and the watch queues     *)
(* typed and within MaxPending: it queues a delta only when the queue has  *)
(* room (CanWrite).                                                        *)
LEMMA WriteType ==
  ASSUME TypeOK, NEW c \in Names, NEW o \in Objects \cup {None},
         NEW d \in Deltas, CanWrite(c), Write(c, o, d)
  PROVE  /\ federation' \in [Names -> Objects \cup {None}]
         /\ deltas' \in [Names -> Seq(Deltas)]
         /\ \A n \in Names : Len(deltas'[n]) <= MaxPending
         /\ stale' \in BOOLEAN
<1>1. federation' \in [Names -> Objects \cup {None}] /\ stale' \in BOOLEAN
  BY DEF Write, TypeOK
<1>2. CASE watching
  <2>1. Len(deltas[c]) < MaxPending
    BY <1>2 DEF CanWrite
  <2>2. /\ Append(deltas[c], d) \in Seq(Deltas)
        /\ Len(Append(deltas[c], d)) = Len(deltas[c]) + 1
    BY AppendProperties DEF TypeOK
  <2>3. deltas' = [deltas EXCEPT ![c] = Append(deltas[c], d)]
    BY <1>2 DEF Write
  <2>4. Len(deltas[c]) \in Nat
    BY LenProperties DEF TypeOK
  <2>5. deltas'[c] \in Seq(Deltas) /\ Len(deltas'[c]) <= MaxPending
    BY <2>1, <2>2, <2>3, <2>4, ControllerAssumption DEF TypeOK
  <2>6. \A n \in Names \ {c} : deltas'[n] = deltas[n]
    BY <2>3 DEF TypeOK
  <2> QED
    BY <1>1, <2>3, <2>5, <2>6 DEF TypeOK
<1>3. CASE ~watching
  BY <1>3 DEF Write, TypeOK
<1> QED
  BY <1>1, <1>2, <1>3 DEF TypeOK

(* The sync delta of a written object is a delta.                          *)
LEMMA SyncDeltaType ==
  ASSUME NEW o \in Objects
  PROVE  [kind |-> "sync", view |-> View(o)] \in Deltas
BY ViewType DEF Deltas

(* Every step of the periodic pass keeps the strengthened invariant.       *)
LEMMA PassStepIInv == IInv /\ PassStep => IInv'
<1> SUFFICES ASSUME IInv, PassStep PROVE IInv'
  OBVIOUS
<1> USE DEF IInv, TypeOK, PassShape
<1>1. CASE PassList
  <2>1. \A c \in Names : federation[c] # None =>
          ListedView(federation[c]) \in ListedViews
    BY ViewType
  <2> QED
    BY <1>1, <2>1 DEF PassList, PassUnchanged, Existing, Stages
<1>2. CASE PassDiff
  BY <1>2 DEF PassDiff, PassUnchanged, ListedNames, Stages
<1>3. CASE PassDelDone
  BY <1>3 DEF PassDelDone, PassUnchanged, ListedNames, Stages
<1>4. CASE PassRefresh
  BY <1>4 DEF PassRefresh, PassUnchanged, Stages
<1>5. CASE PassRefreshFails
  BY <1>5 DEF PassRefreshFails, PassUnchanged, Stages
<1>6. CASE PassPersist
  <2> DEFINE r == Evaluate(copy.ann, newStats)
             o == [copy EXCEPT !.ann = r.ann]
  <2>1. copy \in Objects /\ newStats \in Snapshots /\ cur \in Names
    BY <1>6 DEF PassPersist
  <2>2. r.ann \in Annotations /\ o \in Objects
    BY <2>1, EvaluateType DEF Objects
  <2>3. CASE r.panic
    BY <1>6, <2>3 DEF PassPersist, Crashes
  <2>4. CASE ~r.panic /\ ~r.update
    BY <1>6, <2>4 DEF PassPersist, Stages
  <2>5. CASE ~r.panic /\ r.update /\ (stale \/ federation[cur] = None)
    BY <1>6, <2>5 DEF PassPersist, Stages
  <2>6. CASE ~r.panic /\ r.update /\ ~stale /\ federation[cur] # None
    <3>1. /\ CanWrite(cur)
          /\ Write(cur, o, [kind |-> "sync", view |-> View(o)])
          /\ notified' = TRUE /\ ppc' = "stats" /\ crash' = crash
          /\ UNCHANGED <<pods, clusterStore, watching, listed, todo, cur,
                         newStats, copy, knownClusterSet,
                         clusterKubeClientMap, envSteps>>
      BY <1>6, <2>6 DEF PassPersist, WriteObject
    <3>2. [kind |-> "sync", view |-> View(o)] \in Deltas
      BY <2>2, SyncDeltaType
    <3> QED
      BY <2>1, <2>2, <3>1, <3>2, WriteType DEF Stages
  <2> QED
    BY <2>3, <2>4, <2>5, <2>6
<1>7. CASE PassPersistFails
  BY <1>7 DEF PassPersistFails, PassUnchanged, Stages
<1>8. CASE PassDone
  BY <1>8 DEF PassDone, PassUnchanged, Stages
<1>9. ASSUME NEW c \in Names,
             \/ PassAdd(c) \/ PassDel(c) \/ PassSkip(c) \/ PassCollectFails(c)
      PROVE  IInv'
  BY <1>9 DEF PassAdd, PassDel, PassSkip, PassCollectFails, PassUnchanged,
             addToClusterSet, delFromClusterSetByName, updateClusterClient
<1>10. ASSUME NEW c \in Names, NEW b \in BOOLEAN, PassCollect(c, b)
       PROVE  IInv'
  <2>1. pods[c] \in Workloads
    BY ControllerAssumption
  <2>2. newStats' \in Snapshots
    BY <1>10, <2>1, DefaultsAssumption DEF PassCollect, getClusterStats,
                  getCountOfUsedPodsSystemNS, Workloads, Snapshots, Pods
  <2> QED
    BY <1>10, <2>2 DEF PassCollect, PassUnchanged, Stages
<1> QED
  BY <1>1, <1>2, <1>3, <1>4, <1>5, <1>6, <1>7, <1>8, <1>9, <1>10 DEF PassStep

(* Every input of the environment keeps the strengthened invariant.        *)
LEMMA EnvironmentIInv == IInv /\ Environment => IInv'
<1> SUFFICES ASSUME IInv, Environment PROVE IInv'
  OBVIOUS
<1> USE DEF IInv, TypeOK, PassShape
<1>1. EnvStep => envSteps' \in 0..MaxEnvSteps
  BY ControllerAssumption DEF EnvStep
<1>2. ASSUME NEW c \in Names, NEW o \in Objects, WriteObject(c, o),
             CanWrite(c), EnvStep
      PROVE  IInv'
  <2>1. Write(c, o, [kind |-> "sync", view |-> View(o)])
    BY <1>2 DEF WriteObject
  <2>2. [kind |-> "sync", view |-> View(o)] \in Deltas
    BY SyncDeltaType
  <2> QED
    BY <1>1, <1>2, <2>1, <2>2, WriteType DEF EnvStep
<1>3. ASSUME NEW c \in Names, Register(c) PROVE IInv'
  <2>1. PICK a \in InitAnnotations, r \in BOOLEAN :
          WriteObject(c, [deletionTimestamp |-> FALSE, ready |-> r, ann |-> a])
    BY <1>3 DEF Register
  <2>2. [deletionTimestamp |-> FALSE, ready |-> r, ann |-> a] \in Objects
    BY ControllerAssumption DEF Objects
  <2> QED
    BY <1>2, <1>3, <2>1, <2>2 DEF Register
<1>4. ASSUME NEW c \in Names, MarkDeleted(c) PROVE IInv'
  <2>1. [federation[c] EXCEPT !.deletionTimestamp = TRUE] \in Objects
    BY <1>4 DEF MarkDeleted, Objects
  <2> QED
    BY <1>2, <1>4, <2>1 DEF MarkDeleted
<1>5. ASSUME NEW c \in Names, SetReadyCondition(c) PROVE IInv'
  <2>1. [federation[c] EXCEPT !.ready = ~@] \in Objects
    BY <1>5 DEF SetReadyCondition, Objects
  <2> QED
    BY <1>2, <1>5, <2>1 DEF SetReadyCondition
<1>6. ASSUME NEW c \in Names, SetLifecycleState(c) PROVE IInv'
  <2>1. PICK t \in ExternalTransitions :
          /\ t[1] = federation[c].ann.state
          /\ WriteObject(c, [federation[c] EXCEPT !.ann.state = t[2]])
    BY <1>6 DEF SetLifecycleState
  <2>2. t[2] \in LifecycleStates
    BY ControllerAssumption
  <2>3. federation[c] \in Objects
    BY <1>6 DEF SetLifecycleState, IInv, TypeOK
  <2>4. [federation[c] EXCEPT !.ann.state = t[2]] \in Objects
    BY <2>2, <2>3 DEF Objects, Annotations
  <2> QED
    BY <1>2, <1>6, <2>1, <2>4 DEF SetLifecycleState
<1>7. ASSUME NEW c \in Names, Unregister(c) PROVE IInv'
  <2>1. [kind |-> "deleted"] \in Deltas
    BY DEF Deltas
  <2> QED
    BY <1>1, <1>7, <2>1, WriteType DEF Unregister, EnvStep
<1>8. ASSUME NEW c \in Names, ChangeWorkload(c) PROVE IInv'
  BY <1>8, ControllerAssumption DEF ChangeWorkload, passVars
<1> QED
  BY <1>3, <1>4, <1>5, <1>6, <1>7, <1>8 DEF Environment, ExternalWrite

(* Each step keeps the strengthened invariant: one case per action.        *)
LEMMA NextIInv == IInv /\ [Next]_vars => IInv'
<1> SUFFICES ASSUME IInv, [Next]_vars PROVE IInv'
  OBVIOUS
<1> USE DEF IInv, TypeOK, PassShape
<1>1. ASSUME NEW c \in Names, Deliver(c) PROVE IInv'
  <2> DEFINE d == Head(deltas[c])
  <2>1. d \in Deltas /\ Tail(deltas[c]) \in Seq(Deltas)
        /\ Len(Tail(deltas[c])) = Len(deltas[c]) - 1
    BY <1>1, HeadTailProperties DEF Deliver
  <2>2. d.kind = "sync" => d.view \in Views
    BY <2>1 DEF Deltas
  <2>3. deltas' = [deltas EXCEPT ![c] = Tail(deltas[c])]
    BY <1>1 DEF Deliver
  <2>4. /\ deltas' \in [Names -> Seq(Deltas)]
        /\ \A n \in Names : Len(deltas'[n]) <= MaxPending
    <3>1. deltas'[c] = Tail(deltas[c])
      BY <2>3
    <3>2. Len(deltas[c]) <= MaxPending /\ Len(deltas[c]) \in Nat
      BY LenProperties
    <3>3. deltas'[c] \in Seq(Deltas) /\ Len(deltas'[c]) <= MaxPending
      <4>1. Tail(deltas[c]) \in Seq(Deltas)
            /\ Len(Tail(deltas[c])) = Len(deltas[c]) - 1
        BY <2>1
      <4> QED
        BY <4>1, <3>1, <3>2, ControllerAssumption
    <3>4. \A n \in Names \ {c} : deltas'[n] = deltas[n]
      BY <2>3
    <3> QED
      BY <2>3, <3>3, <3>4
  <2>5. /\ knownClusterSet' \subseteq Names
        /\ clusterKubeClientMap' \subseteq Names
        /\ clusterStore' \in [Names -> Views \cup {None}]
        /\ crash' \in Crashes /\ notified' \in BOOLEAN
    <3>1. CASE d.kind = "tombstone"
      BY <1>1, <3>1 DEF Deliver, Crashes
    <3>2. CASE d.kind = "deleted"
      BY <1>1, <3>2 DEF Deliver, delFromClusterSetByName, Crashes
    <3>3. CASE d.kind = "sync"
      <4>1. /\ knownClusterSet' \subseteq Names
            /\ clusterKubeClientMap' \subseteq Names
            /\ notified' \in BOOLEAN
        BY <1>1, <3>3 DEF Deliver, delFromClusterSetByName, addToClusterSet,
                         updateCluster, updateClusterClient
      <4>2. clusterStore' = [clusterStore EXCEPT ![c] = d.view] /\ crash' = crash
        BY <1>1, <3>3 DEF Deliver
      <4> QED
        BY <2>2, <3>3, <4>1, <4>2
    <3> QED
      BY <2>1, <3>1, <3>2, <3>3 DEF Deltas
  <2> QED
    BY <1>1, <2>4, <2>5 DEF Deliver, passVars
<1>2. CASE WatchDrop
  BY <1>2 DEF WatchDrop, passVars
<1>3. CASE Relist
  <2>1. \A c \in Names : federation[c] # None =>
          [kind |-> "sync", view |-> View(federation[c])] \in Deltas
    BY ViewType DEF Deltas
  <2>2. [kind |-> "tombstone"] \in Deltas
    BY DEF Deltas
  <2> QED
    BY <1>3, <2>1, <2>2, ControllerAssumption DEF Relist, passVars
<1>4. CASE PassStep
  BY <1>4, PassStepIInv
<1>5. CASE Restart
  BY <1>5, InitialDeltasType DEF Restart, Crashes, Stages
<1>6. CASE ConsumeChange
  BY <1>6 DEF ConsumeChange, passVars
<1>7. CASE Environment
  BY <1>7, EnvironmentIInv
<1>8. CASE Tick
  <2>1. \A c \in Names : federation[c] # None =>
          [federation[c] EXCEPT !.ann = Older(@)] \in Objects
    BY OlderType DEF Objects
  <2>2. copy # None => [copy EXCEPT !.ann = Older(@)] \in Objects
    BY OlderType DEF Objects
  <2> QED
    BY <1>8, <2>1, <2>2 DEF Tick
<1>9. CASE UNCHANGED vars
  BY <1>9 DEF vars
<1> QED
  BY <1>1, <1>2, <1>3, <1>4, <1>5, <1>6, <1>7, <1>8, <1>9 DEF Next, InformerStep

(* The controller's state is always well typed, for every instance of the  *)
(* constants: every watch queue holds at most MaxPending deltas, and the   *)
(* objects the pass writes back (lines 343-344) are cluster objects.       *)
THEOREM TypeCorrect == Spec => []TypeOK
<1>1. IInv => TypeOK
  BY DEF IInv
<1> QED
  BY InitIInv, NextIInv, <1>1, PTL DEF Spec

-----------------------------------------------------------------------------
(* A write by anyone to the cluster the pass holds a copy of marks the copy *)
(* stale (its resourceVersion no longer matches); a write to another one   *)
(* leaves the held object as it was.                                       *)
LEMMA WriteKeepsCopyFresh ==
  ASSUME IInv, CopyFresh, NEW c \in Names, NEW o, NEW d, Write(c, o, d),
         UNCHANGED <<ppc, cur, copy>>
  PROVE  CopyFresh'
<1>1. CASE ppc = "persist" /\ cur = c
  BY <1>1 DEF Write, CopyFresh
<1>2. CASE ppc = "persist" /\ cur # c
  <2>1. cur \in Names
    BY <1>2 DEF IInv, PassShape
  <2>2. federation'[cur] = federation[cur] /\ stale' = stale
    BY <1>2, <2>1 DEF Write, IInv, TypeOK
  <2> QED
    BY <2>2 DEF CopyFresh
<1>3. CASE ppc # "persist"
  BY <1>3 DEF CopyFresh
<1> QED
  BY <1>1, <1>2, <1>3

(* Every step keeps the Get copy equal to the stored object while it is    *)
(* not stale.                                                              *)
LEMMA NextCopyFresh == IInv /\ CopyFresh /\ [Next]_vars => CopyFresh'
<1> SUFFICES ASSUME IInv, CopyFresh, [Next]_vars PROVE CopyFresh'
  OBVIOUS
<1>1. CASE InformerStep
  BY <1>1 DEF InformerStep, Deliver, WatchDrop, Relist, passVars, CopyFresh
<1>2. CASE PassRefresh
  BY <1>2 DEF PassRefresh, PassUnchanged, CopyFresh
<1>3. CASE PassPersist
  BY <1>3 DEF PassPersist, CopyFresh
<1>4. CASE PassStep /\ ~PassRefresh /\ ~PassPersist
  \* every other step of the pass leaves it outside "persist", or keeps it
  \* and everything the invariant reads
  <2>1. ppc' # "persist" \/ UNCHANGED <<ppc, federation, cur, copy, stale>>
    BY <1>4 DEF PassStep, PassList, PassDiff, PassDelDone, PassRefreshFails,
               PassPersistFails, PassDone, PassAdd, PassDel, PassSkip,
               PassCollectFails, PassCollect, PassUnchanged
  <2> QED
    BY <2>1 DEF CopyFresh
<1>5. CASE Restart
  BY <1>5 DEF Restart, CopyFresh
<1>6. CASE ConsumeChange
  BY <1>6 DEF ConsumeChange, passVars, CopyFresh
<1>7. ASSUME NEW c \in Names,
             \/ Register(c) \/ MarkDeleted(c) \/ Unregister(c)
             \/ SetReadyCondition(c) \/ SetLifecycleState(c)
      PROVE  CopyFresh'
  <2>1. UNCHANGED <<ppc, cur, copy>>
    BY <1>7 DEF Register, MarkDeleted, Unregister, SetReadyCondition,
               SetLifecycleState, EnvStep
  <2>2. \E o, d : Write(c, o, d)
    BY <1>7 DEF Register, MarkDeleted, Unregister, SetReadyCondition,
               SetLifecycleState, WriteObject
  <2> QED
    BY <2>1, <2>2, WriteKeepsCopyFresh
<1>8. ASSUME NEW c \in Names, ChangeWorkload(c) PROVE CopyFresh'
  BY <1>8 DEF ChangeWorkload, passVars, CopyFresh
<1>9. CASE Tick
  <2>1. CASE ppc = "persist" /\ ~stale
    <3>1. cur \in Names /\ federation[cur] = copy
      BY <2>1 DEF IInv, PassShape, CopyFresh
    <3> QED
      BY <1>9, <3>1 DEF Tick, CopyFresh
  <2>2. CASE ~(ppc = "persist" /\ ~stale)
    BY <1>9, <2>2 DEF Tick, CopyFresh
  <2> QED
    BY <2>1, <2>2
<1>10. CASE UNCHANGED vars
  BY <1>10 DEF vars, CopyFresh
<1> QED
  BY <1>1, <1>2, <1>3, <1>4, <1>5, <1>6, <1>7, <1>8, <1>9, <1>10
  DEF Next, Environment, ExternalWrite

(* An Update that changes the API server writes the decision onto the      *)
(* object as stored: the copy it was computed from is the stored one.      *)
LEMMA PersistAppliesToCurrent ==
  ASSUME IInv, CopyFresh, PassPersist, federation' # federation
  PROVE  federation'[cur] =
           [federation[cur] EXCEPT
              !.ann = Evaluate(federation[cur].ann, newStats).ann]
<1> DEFINE r == Evaluate(copy.ann, newStats)
<1>1. /\ ~r.panic /\ r.update /\ ~stale /\ federation[cur] # None
      /\ WriteObject(cur, [copy EXCEPT !.ann = r.ann])
  BY DEF PassPersist
<1>2. cur \in Names /\ federation[cur] = copy
  BY <1>1 DEF IInv, PassShape, CopyFresh, PassPersist
<1>3. federation' = [federation EXCEPT ![cur] = [copy EXCEPT !.ann = r.ann]]
  BY <1>1 DEF WriteObject, Write
<1> QED
  BY <1>2, <1>3 DEF IInv, TypeOK

(* The optimistic-concurrency Update of the periodic pass (lines 313-344)  *)
(* never writes back an older copy over a change made by someone else      *)
(* since its Get: for every instance of the constants.                     *)
THEOREM UpdateAppliesToCurrent == Spec => UpdateAppliesDecisionToCurrent
<1>1. Init => CopyFresh
  BY DEF Init, ControllerInit, CopyFresh
<1>2. IInv /\ CopyFresh /\ [Next]_vars =>
        [PassPersist /\ federation' # federation =>
           federation'[cur] =
             [federation[cur] EXCEPT
                !.ann = Evaluate(federation[cur].ann, newStats).ann]]_vars
  BY PersistAppliesToCurrent
<1> QED
  BY InitIInv, NextIInv, NextCopyFresh, <1>1, <1>2, PTL
  DEF Spec, UpdateAppliesDecisionToCurrent
=============================================================================
