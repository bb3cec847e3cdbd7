--------------------------- MODULE DecisionEngine ---------------------------
(***************************************************************************)
(* The annotation state machine of the navarkos cluster controller         *)
(* (src/pkg/controller/cluster/clustercontroller.go, lines 323-342 and the *)
(* helpers at lines 363-581).  Everything here is a pure operator of a     *)
(* cluster's annotations, a metrics snapshot and the age of the shutdown   *)
(* timer; the controller module calls Evaluate once per ready cluster per  *)
(* periodic pass.                                                          *)
(*                                                                         *)
(* Data abstraction.  An annotation is a string in the code; here it is    *)
(* either Absent or the value it parses to.  getAnnotationIntegerValue     *)
(* maps an absent, empty or unparsable value to the default, so the model  *)
(* folds all three into Absent.  The four capacity annotations are always  *)
(* written together by updateClusterStats, so they are one field holding   *)
(* Absent or a snapshot record.  The shutdown-start-time annotation is a   *)
(* time.UnixDate timestamp; the model keeps its age in whole seconds       *)
(* (Format/Parse round-trips at second precision, and the code compares    *)
(* int(time.Since(start).Seconds()) with the TTL), saturated at MaxAge.    *)
(***************************************************************************)
EXTENDS Integers

CONSTANTS
  Absent,           \* an annotation that is not set (or does not parse)
  DefaultTTL,       \* common.NavarkosDefaultClusterTimeToLiveBeforeShutdown
  DefaultScaleUp,   \* common.NavarkosDefaultClusterScaleUpCapacityThreshold
  DefaultScaleDown, \* common.NavarkosClusterScaleDownCapacityThreshold
  MaxAge,           \* ages of the shutdown timer saturate here
  MaxPods           \* pod counts range over 0..MaxPods

ASSUME DefaultsAssumption ==
  /\ DefaultTTL \in Int /\ DefaultScaleUp \in Int /\ DefaultScaleDown \in Int
  /\ MaxAge \in Nat /\ MaxPods \in Nat

\* The lifecycle-state annotation values (common.NavarkosClusterState*).
Ready            == "Ready"
Offline          == "Offline"
PendingScaleUp   == "PendingScaleUp"
ScalingUp        == "ScalingUp"
PendingScaleDown == "PendingScaleDown"
ScalingDown      == "ScalingDown"
PendingShutdown  == "PendingShutdown"
LifecycleStates  == {Ready, Offline, PendingScaleUp, ScalingUp,
                     PendingScaleDown, ScalingDown, PendingShutdown}

Pods == 0..MaxPods

\* What a cluster reports: allocatable and total pod capacity (one node
\* query), the Pending or Running pods in all namespaces, and the pods of
\* the two system namespaces kube-system and oracle-bmc, in every phase.
\* sysActive is how many of those system pods are Pending or Running: the
\* code never queries it, but a cluster runs no user pods exactly when
\* used = sysActive.
Workloads == [alloc : Pods, cap : Pods, used : Pods, kube : Pods, bmc : Pods,
              sysActive : Pods]

\* The metrics map built by getClusterStats: the four capacity annotations.
Snapshots == [alloc : Pods, cap : Pods, used : Pods, sys : 0..2 * MaxPods]

Ages == 0..MaxAge

\* A cluster's annotations.  autoscale is TRUE only when the annotation is
\* present and strconv.ParseBool returns true (line 534-543).
Annotations ==
  [state : LifecycleStates \cup {Absent},
   stats : Snapshots \cup {Absent},
   start : Ages \cup {Absent},
   ttl   : Int \cup {Absent},
   up    : Int \cup {Absent},
   down  : Int \cup {Absent},
   autoscale : BOOLEAN]

\* getAnnotationIntegerValue (lines 572-581).
getAnnotationIntegerValue(v, default) == IF v = Absent THEN default ELSE v

\* A capacity annotation read through getAnnotationIntegerValue(.., 0).
StatValue(a, k) == IF a.stats = Absent THEN 0 ELSE a.stats[k]

\* IsCapacityDataPresent (lines 364-372).
IsCapacityDataPresent(a) == a.stats # Absent

\* A mutant: the system-pod count left out of the comparison.
isStatsChangedIgnoringSys(s, a) ==
  \E k \in {"alloc", "cap", "used"} : StatValue(a, k) # s[k]

\* isStatsChanged (lines 395-404): some snapshot value differs from the
\* annotation, read with default 0.
isStatsChanged(s, a) ==
  \E k \in {"alloc", "cap", "used", "sys"} : StatValue(a, k) # s[k]

\* updateClusterStats (lines 406-410).
updateClusterStats(a, s) == [a EXCEPT !.stats = s]

(***************************************************************************)
(* markClusterToShutDownIfNoPods (lines 482-510): stamp the shutdown timer *)
(* of an idle Ready cluster, or clear it when user pods are back.          *)
(***************************************************************************)
NoUserPodsLeft(a) == StatValue(a, "used") = StatValue(a, "sys")

\* A mutant: the timer is stamped again although one is already running.
MarkShutdownFiresRestamping(a) ==
  \/ NoUserPodsLeft(a) /\ a.state = Ready
  \/ ~NoUserPodsLeft(a) /\ a.start # Absent

MarkShutdownFires(a) ==
  \/ NoUserPodsLeft(a) /\ a.start = Absent /\ a.state = Ready
  \/ ~NoUserPodsLeft(a) /\ a.start # Absent

markClusterToShutDownIfNoPods(a) ==
  IF NoUserPodsLeft(a) THEN [a EXCEPT !.start = 0]
                       ELSE [a EXCEPT !.start = Absent]

(***************************************************************************)
(* shutDownClusterIfTTLExpired (lines 512-526).                            *)
(***************************************************************************)
\* One second passes: the timer's age is int(time.Since(start).Seconds())
\* of lines 514-516, saturated at MaxAge.
Older(a) == IF a.start \in Nat /\ a.start < MaxAge
              THEN [a EXCEPT !.start = @ + 1] ELSE a

TTLOf(a) == getAnnotationIntegerValue(a.ttl, DefaultTTL)

TTLExpiredFires(a) ==
  /\ a.start # Absent
  /\ TTLOf(a) > 0
  /\ a.start >= TTLOf(a)

shutDownClusterIfTTLExpired(a) ==
  [a EXCEPT !.state = PendingShutdown, !.start = Absent]

(***************************************************************************)
(* markClusterForScalingIfPodsHitThresholds (lines 528-570).  Go's integer *)
(* division truncates toward zero, and a zero divisor is a run-time panic. *)
(***************************************************************************)
GoQuotient(x, y) ==
  LET q == (IF x < 0 THEN -x ELSE x) \div (IF y < 0 THEN -y ELSE y)
  IN  IF (x < 0) = (y < 0) THEN q ELSE -q

ScalingApplies(a) == a.autoscale /\ a.state = Ready

UserCapacityPods(a) == StatValue(a, "cap") - StatValue(a, "sys")

UsedOverCapacity(a) ==
  GoQuotient((StatValue(a, "used") - StatValue(a, "sys")) * 100,
             UserCapacityPods(a))

ScaleUpFires(a) ==
  UsedOverCapacity(a) >= getAnnotationIntegerValue(a.up, DefaultScaleUp)

ScaleDownFires(a) ==
  UsedOverCapacity(a) <= getAnnotationIntegerValue(a.down, DefaultScaleDown)

ScalingDividesByZero(a) == ScalingApplies(a) /\ UserCapacityPods(a) = 0

ScalingFires(a) ==
  ScalingApplies(a) /\ UserCapacityPods(a) # 0
  /\ (ScaleUpFires(a) \/ ScaleDownFires(a))

markClusterForScalingIfPodsHitThresholds(a) ==
  [a EXCEPT !.state = IF ScaleUpFires(a) THEN PendingScaleUp
                                         ELSE PendingScaleDown]

(***************************************************************************)
(* The decision block of UpdateClusterStatus (lines 323-342).  The code    *)
(* combines the rules with a short-circuit ||: once one rule has fired the *)
(* later ones are not called.  Evaluate returns the new annotations, the   *)
(* updateCluster flag and whether the pass panicked on a zero divisor.     *)
(***************************************************************************)
Result(ann, update) == [ann |-> ann, update |-> update, panic |-> FALSE]

Evaluate(a, s) ==
  IF ~IsCapacityDataPresent(a) \/ isStatsChanged(s, a)
    THEN Result(updateClusterStats(a, s), TRUE)
  ELSE IF MarkShutdownFires(a)
    THEN Result(markClusterToShutDownIfNoPods(a), TRUE)
  ELSE IF TTLExpiredFires(a)
    THEN Result(shutDownClusterIfTTLExpired(a), TRUE)
  ELSE IF ScalingDividesByZero(a)
    THEN [ann |-> a, update |-> FALSE, panic |-> TRUE]
  ELSE IF ScalingFires(a)
    THEN Result(markClusterForScalingIfPodsHitThresholds(a), TRUE)
  ELSE Result(a, FALSE)
=============================================================================
