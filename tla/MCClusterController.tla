------------------------ MODULE MCClusterController ------------------------
(***************************************************************************)
(* Instances of ClusterController for TLC.  Pod counts stay within 0..2,   *)
(* which reaches idle, busy, over-committed and zero-capacity clusters;    *)
(* timer ages saturate at 2, the largest TTL used.                         *)
(***************************************************************************)
EXTENDS ClusterController, TLC

\* A cluster registered with no navarkos annotations at all.
Unmanaged == [state |-> Absent, stats |-> Absent, start |-> Absent,
              ttl |-> Absent, up |-> Absent, down |-> Absent,
              autoscale |-> FALSE]

\* Managed clusters: lifecycle state Ready, TTL 2 seconds, thresholds 80/20.
ManagedReady == [Unmanaged EXCEPT !.state = Ready, !.ttl = 2]
AutoScaled   == [ManagedReady EXCEPT !.autoscale = TRUE, !.up = 80,
                                     !.down = 20]

\* Workloads: [alloc, cap, used, kube, bmc, sysActive].
W(al, ca, us, ku, bm, ac) == [alloc |-> al, cap |-> ca, used |-> us,
                              kube |-> ku, bmc |-> bm, sysActive |-> ac]
Busy     == W(2, 2, 2, 1, 0, 1)
Idle     == W(2, 2, 1, 1, 0, 1)
IdleBmc  == W(2, 2, 2, 1, 1, 2)    \* idle only when oracle-bmc is counted
Full     == W(2, 2, 2, 2, 0, 2)    \* capacity equals system pods
IdleDone == W(2, 2, 1, 2, 0, 1)    \* idle, with a completed kube-system pod

\* The scaler's and the federation's lifecycle changes.
MembershipTransitions == {<<Absent, Ready>>, <<Ready, Offline>>,
                          <<Offline, Ready>>}
AllTransitions ==
  MembershipTransitions \cup
  {<<PendingScaleUp, ScalingUp>>, <<ScalingUp, Ready>>,
   <<PendingScaleDown, ScalingDown>>, <<ScalingDown, Ready>>,
   <<PendingShutdown, Offline>>}

\* Symmetry of the interchangeable cluster names.
NameSymmetry == Permutations(Names)

\* constants of the reconciliation runs
ReconcileAnnotations == {ManagedReady}
ReconcileWorkloads   == {Busy}

\* constants of the lifecycle runs
LifecycleAnnotations == {Unmanaged, ManagedReady, AutoScaled}
LifecycleWorkloads   == {Busy, Idle, IdleBmc, Full}

\* constants of the run with a finished system pod
CompletedPodWorkloads == {IdleDone}
=============================================================================
