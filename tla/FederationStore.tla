--------------------------- MODULE FederationStore ---------------------------
(***************************************************************************)
(* What the ClusterController promises about the federation's Cluster      *)
(* objects, with no informer, no maps and no pass: the objects are         *)
(* registered, marked for deletion, removed and have their Ready condition *)
(* and lifecycle state changed by others, their shutdown timers age, and   *)
(* the controller's only write is one decision of the decision block       *)
(* (lines 323-344) on the annotations of a cluster that is stored and      *)
(* ready, taken from the annotations it has now and from some snapshot of  *)
(* its capacity.  The controller's own write never touches the Ready       *)
(* condition or the deletion mark.  The decision block and the timer are   *)
(* parameters, instantiated with those of DecisionEngine.                  *)
(***************************************************************************)
CONSTANTS
  Names,               \* cluster names
  None,                \* no object
  InitAnnotations,     \* annotations a newly registered cluster may carry
  ExternalTransitions, \* lifecycle-state changes the external actor makes
  Snapshots,           \* what a capacity collection can return
  Evaluate(_, _),      \* the decision block, DecisionEngine!Evaluate
  Older(_)             \* a second passing on the timer, DecisionEngine!Older

VARIABLE fed           \* name -> cluster object, or None

Init ==
  fed \in [Names -> [deletionTimestamp : {FALSE}, ready : BOOLEAN,
                     ann : InitAnnotations] \cup {None}]

\* UpdateClusterStatus (lines 312-344): on a ready cluster, a decision that
\* changes something and does not divide by zero is written.
Decide(c) ==
  /\ fed[c] # None /\ fed[c].ready
  /\ \E s \in Snapshots :
       LET r == Evaluate(fed[c].ann, s) IN
       /\ ~r.panic /\ r.update
       /\ fed' = [fed EXCEPT ![c].ann = r.ann]

\* The writes of others.
Register(c) ==
  /\ fed[c] = None
  /\ \E a \in InitAnnotations, r \in BOOLEAN :
       fed' = [fed EXCEPT ![c] = [deletionTimestamp |-> FALSE, ready |-> r,
                                  ann |-> a]]

MarkDeleted(c) ==
  /\ fed[c] # None /\ ~fed[c].deletionTimestamp
  /\ fed' = [fed EXCEPT ![c].deletionTimestamp = TRUE]

Unregister(c) ==
  /\ fed[c] # None
  /\ fed' = [fed EXCEPT ![c] = None]

SetReadyCondition(c) ==
  /\ fed[c] # None
  /\ fed' = [fed EXCEPT ![c].ready = ~@]

SetLifecycleState(c) ==
  /\ fed[c] # None
  /\ \E t \in ExternalTransitions :
       /\ t[1] = fed[c].ann.state
       /\ fed' = [fed EXCEPT ![c].ann.state = t[2]]

\* Time passes for every shutdown timer.
Tick ==
  fed' = [c \in Names |-> IF fed[c] = None THEN None
                          ELSE [fed[c] EXCEPT !.ann = Older(@)]]

Next ==
  \/ Tick
  \/ \E c \in Names :
       \/ Decide(c) \/ Register(c) \/ MarkDeleted(c) \/ Unregister(c)
       \/ SetReadyCondition(c) \/ SetLifecycleState(c)

Spec == Init /\ [][Next]_fed
=============================================================================
