----------------------- MODULE FederationRefinementProofs -----------------------
(***************************************************************************)
(* The ClusterController implements FederationStore under the mapping     *)
(* fed <- federation, for every value of the constants.  A step of the    *)
(* controller's informer, of its pass before the Update, of a restart, of *)
(* the consumer or of a workload leaves the API server as it is: a        *)
(* stutter of the store.  The external writes and Tick are the store's    *)
(* own.  The Update of line 343 is Decide(cur) with the collected stats   *)
(* as snapshot; that it acts on the object as stored and ready rests on   *)
(* CopyFresh (proved in ClusterControllerProofs) and CopyReady.           *)
(***************************************************************************)
EXTENDS ClusterControllerProofs

(* The copy held at the persist stage passed the ready check of line 318.  *)
CopyReady == ppc = "persist" => isClusterReady(copy)

RInv == IInv /\ CopyFresh /\ CopyReady

-----------------------------------------------------------------------------
(* Every step keeps the copy ready: only PassRefresh takes a copy, after   *)
(* its ready check, and Tick changes only the copy's annotations.          *)
LEMMA NextCopyReady == IInv /\ CopyReady /\ [Next]_vars => CopyReady'
<1> SUFFICES ASSUME IInv, CopyReady, [Next]_vars PROVE CopyReady'
  OBVIOUS
<1>1. CASE PassRefresh
  BY <1>1 DEF PassRefresh, CopyReady
<1>2. CASE Tick
  <2>1. CASE ppc = "persist"
    <3>1. copy \in Objects
      BY <2>1 DEF IInv, PassShape
    <3> QED
      BY <1>2, <2>1, <3>1 DEF Tick, CopyReady, isClusterReady, Objects
  <2> QED
    BY <1>2, <2>1 DEF Tick, CopyReady
<1>3. CASE PassStep /\ ~PassRefresh
  <2>1. ppc' # "persist" \/ UNCHANGED <<ppc, copy>>
    BY <1>3 DEF PassStep, PassList, PassDiff, PassDelDone, PassRefreshFails,
               PassPersist, PassPersistFails, PassDone, PassAdd, PassDel,
               PassSkip, PassCollectFails, PassCollect, PassUnchanged
  <2> QED
    BY <2>1 DEF CopyReady
<1>4. CASE ~PassStep /\ ~Tick
  <2>1. UNCHANGED <<ppc, copy>> \/ ppc' = "idle"
    BY <1>4 DEF Next, InformerStep, Deliver, WatchDrop, Relist, Restart,
               ConsumeChange, Environment, ExternalWrite, Register,
               MarkDeleted, Unregister, SetReadyCondition, SetLifecycleState,
               ChangeWorkload, EnvStep, passVars, vars
  <2> QED
    BY <2>1 DEF CopyReady
<1> QED
  BY <1>1, <1>2, <1>3, <1>4

(* The strengthened invariant of the refinement holds in every state.      *)
LEMMA AlwaysRInv == Spec => []RInv
<1>1. Init => RInv
  BY InitIInv DEF Init, ControllerInit, RInv, CopyFresh, CopyReady
<1>2. RInv /\ [Next]_vars => RInv'
  BY NextIInv, NextCopyFresh, NextCopyReady DEF RInv
<1> QED
  BY <1>1, <1>2, PTL DEF Spec

-----------------------------------------------------------------------------
(* The initial objects are the store's initial objects.                    *)
LEMMA InitRefines == Init => Abs!Init
BY DEF Init, InitObjects, Abs!Init

(* The Update that lands is a decision of the store on the stored, ready   *)
(* object; every other branch of PassPersist leaves the API server alone.  *)
LEMMA PersistRefines ==
  ASSUME RInv, PassPersist
  PROVE  [Abs!Next]_federation
<1> DEFINE r == Evaluate(copy.ann, newStats)
<1>1. CASE ~r.panic /\ r.update /\ ~stale /\ federation[cur] # None
  <2>1. cur \in Names /\ newStats \in Snapshots /\ copy \in Objects
    BY DEF RInv, IInv, PassShape, PassPersist
  <2>2. federation[cur] = copy /\ copy.ready
    BY <1>1 DEF RInv, CopyFresh, CopyReady, isClusterReady, PassPersist
  <2>3. federation' = [federation EXCEPT ![cur] = [copy EXCEPT !.ann = r.ann]]
    BY <1>1 DEF PassPersist, WriteObject, Write
  <2>4. federation' = [federation EXCEPT ![cur].ann = r.ann]
    BY <2>1, <2>2, <2>3 DEF RInv, IInv, TypeOK
  <2>5. Abs!Decide(cur)
    BY <1>1, <2>1, <2>2, <2>4 DEF Abs!Decide
  <2> QED
    BY <2>1, <2>5 DEF Abs!Next
<1>2. CASE ~(~r.panic /\ r.update /\ ~stale /\ federation[cur] # None)
  BY <1>2 DEF PassPersist
<1> QED
  BY <1>1, <1>2

(* The external writes and Tick are the store's own steps.                 *)
LEMMA EnvironmentRefines ==
  ASSUME TypeOK, Environment \/ Tick
  PROVE  [Abs!Next]_federation
<1>1. ASSUME NEW c \in Names, Register(c) PROVE Abs!Register(c)
  BY <1>1 DEF Register, WriteObject, Write, Abs!Register
<1>2. ASSUME NEW c \in Names, MarkDeleted(c) PROVE Abs!MarkDeleted(c)
  BY <1>2 DEF MarkDeleted, WriteObject, Write, Abs!MarkDeleted
<1>3. ASSUME NEW c \in Names, Unregister(c) PROVE Abs!Unregister(c)
  BY <1>3 DEF Unregister, Write, Abs!Unregister
<1>4. ASSUME NEW c \in Names, SetReadyCondition(c)
      PROVE  Abs!SetReadyCondition(c)
  BY <1>4 DEF SetReadyCondition, WriteObject, Write, Abs!SetReadyCondition
<1>5. ASSUME NEW c \in Names, SetLifecycleState(c)
      PROVE  Abs!SetLifecycleState(c)
  BY <1>5 DEF SetLifecycleState, WriteObject, Write, Abs!SetLifecycleState
<1>6. ASSUME NEW c \in Names, ChangeWorkload(c) PROVE UNCHANGED federation
  BY <1>6 DEF ChangeWorkload
<1>7. CASE Tick
  BY <1>7 DEF Tick, Abs!Tick, Abs!Next
<1> QED
  BY <1>1, <1>2, <1>3, <1>4, <1>5, <1>6, <1>7
  DEF Environment, ExternalWrite, Abs!Next

(* Every step of the controller is a step or a stutter of the store.       *)
LEMMA NextRefines == RInv /\ [Next]_vars => [Abs!Next]_federation
<1> SUFFICES ASSUME RInv, [Next]_vars PROVE [Abs!Next]_federation
  OBVIOUS
<1>1. CASE PassPersist
  BY <1>1, PersistRefines
<1>2. CASE PassStep /\ ~PassPersist
  BY <1>2 DEF PassStep, PassList, PassDiff, PassDelDone, PassRefresh,
             PassRefreshFails, PassPersistFails, PassDone, PassAdd, PassDel,
             PassSkip, PassCollectFails, PassCollect, PassUnchanged
<1>3. CASE Environment \/ Tick
  BY <1>3, EnvironmentRefines DEF RInv, IInv
<1>4. CASE InformerStep \/ Restart \/ ConsumeChange \/ UNCHANGED vars
  BY <1>4 DEF InformerStep, Deliver, WatchDrop, Relist, Restart,
             ConsumeChange, vars
<1> QED
  BY <1>1, <1>2, <1>3, <1>4 DEF Next

(* The controller's writes to the federation API server are exactly the   *)
(* decisions FederationStore allows (lines 312-344 write only a ready,     *)
(* stored cluster's annotations, as the decision block computes them from *)
(* what is stored), for every value of the constants.                     *)
THEOREM Refinement == Spec => FederationRefinement
<1> QED
  BY AlwaysRInv, InitRefines, NextRefines, PTL
  DEF Spec, FederationRefinement, Abs!Spec
=============================================================================
