------------------------ MODULE ControllerSafetyProofs ------------------------
(***************************************************************************)
(* The pass decides on the stats it has just collected                    *)
(* (DecisionOnCollectedStats), for every value of the constants, from a    *)
(* fact about the decision block: rule 1 compares all four stats values.   *)
(***************************************************************************)
EXTENDS ClusterControllerProofs

-----------------------------------------------------------------------------
(* A stats record of the decision block is determined by its four values.  *)
LEMMA SnapshotsExtensional ==
  ASSUME NEW s \in Snapshots, NEW t \in Snapshots,
         \A k \in {"alloc", "cap", "used", "sys"} : s[k] = t[k]
  PROVE  s = t
BY DEF Snapshots

(* Whatever rule of the decision block (lines 323-342) fires, the          *)
(* annotations it returns hold the snapshot it was given: rule 1 writes it *)
(* when the recorded stats are missing or differ, and the later rules run  *)
(* only when the recorded stats equal it, and keep them.                   *)
LEMMA EvaluateRecordsSnapshot ==
  ASSUME NEW a \in Annotations, NEW s \in Snapshots,
         Evaluate(a, s).update, ~Evaluate(a, s).panic
  PROVE  Evaluate(a, s).ann.stats = s
<1>1. CASE ~IsCapacityDataPresent(a) \/ isStatsChanged(s, a)
  BY <1>1 DEF Evaluate, Result, updateClusterStats
<1>2. CASE ~(~IsCapacityDataPresent(a) \/ isStatsChanged(s, a))
  <2>1. a.stats \in Snapshots
    BY <1>2 DEF IsCapacityDataPresent, Annotations
  <2>2. \A k \in {"alloc", "cap", "used", "sys"} : a.stats[k] = s[k]
    BY <1>2 DEF IsCapacityDataPresent, isStatsChanged, StatValue
  <2>3. a.stats = s
    BY <2>1, <2>2, SnapshotsExtensional
  <2>4. /\ markClusterToShutDownIfNoPods(a).stats = a.stats
        /\ shutDownClusterIfTTLExpired(a).stats = a.stats
        /\ markClusterForScalingIfPodsHitThresholds(a).stats = a.stats
    BY DEF markClusterToShutDownIfNoPods, shutDownClusterIfTTLExpired,
           markClusterForScalingIfPodsHitThresholds, Annotations
  <2> QED
    BY <1>2, <2>3, <2>4 DEF Evaluate, Result
<1> QED
  BY <1>1, <1>2

(* An Update of the pass that changes the API server writes the Evaluate   *)
(* result of the copy and the collected snapshot.                          *)
LEMMA PersistRecordsSnapshot ==
  ASSUME IInv, PassPersist, federation' # federation
  PROVE  federation'[cur].ann.stats = newStats
<1> DEFINE r == Evaluate(copy.ann, newStats)
<1>1. /\ ~r.panic /\ r.update
      /\ WriteObject(cur, [copy EXCEPT !.ann = r.ann])
  BY DEF PassPersist
<1>2. cur \in Names /\ copy \in Objects /\ newStats \in Snapshots
  BY DEF IInv, PassShape, PassPersist
<1>3. federation'[cur] = [copy EXCEPT !.ann = r.ann]
  BY <1>1, <1>2 DEF WriteObject, Write, IInv, TypeOK
<1>4. r.ann.stats = newStats
  BY <1>1, <1>2, EvaluateRecordsSnapshot DEF Objects
<1> QED
  BY <1>2, <1>3, <1>4 DEF Objects

(* The timer, TTL and scaling rules of the periodic pass never act on      *)
(* stats older than the ones the pass has just collected: every Update     *)
(* leaves the stored capacity annotations equal to that snapshot.          *)
THEOREM CollectedStats == Spec => DecisionOnCollectedStats
<1>1. IInv /\ [Next]_vars =>
        [PassPersist /\ federation' # federation =>
           federation'[cur].ann.stats = newStats]_vars
  BY PersistRecordsSnapshot
<1> QED
  BY InitIInv, NextIInv, <1>1, PTL DEF Spec, DecisionOnCollectedStats

=============================================================================
