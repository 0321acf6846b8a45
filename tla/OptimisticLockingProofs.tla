----------------------- MODULE OptimisticLockingProofs -----------------------
(***************************************************************************)
(* What resourceVersions buy: a copy that is still the stored version is   *)
(* equal to the stored object.  From that the properties of the worker's   *)
(* writes follow, for every behaviour of Spec.                             *)
(***************************************************************************)
EXTENDS RuntimeReconcilerProofs

(* The versions tell the truth.  A deleted Deployment leaves nothing       *)
(* behind, so that the garbage collector may find it deleted already.      *)
LockInv ==
    /\ rtFresh => crt = rt
    /\ depFresh => cdep = dep
    /\ w.current => w.held = rt
    /\ ~dep.exists => dep = NoDeployment

(* Events about to be recorded are about changes no Event was seen for.    *)
EventInv ==
    w.pc = "events" =>
        \A t \in ConditionTypes :
            conditionChanged(w.held.status, w.written, t) => t \in unannounced

-----------------------------------------------------------------------------
(* At first every copy is the stored object and the worker is idle.        *)
LEMMA InitLocked == Init => LockInv /\ EventInv
  BY DEF Init, LockInv, EventInv, IdleWorker

(* A cluster step makes the cached Deployment stale.                       *)
LEMMA ClusterStepLocked ==
    ASSUME dep \in Deployments, ClusterStep
    PROVE  depFresh' = FALSE /\ (~dep.exists => dep = NoDeployment)'
<1>1. CASE RolloutStep \/ \E p \in PodIds : PodFails(p)
  <2>1. dep.exists /\ \E ps, k : PodsBecome(ps, k)
    BY <1>1
    DEF RolloutStep, DeploymentControllerSync, PodStarts, PodStops,
        PodBecomesReady, PodFails
  <2> QED
    BY <2>1 DEF PodsBecome, ObservedStatus, Deployments
<1>2. CASE DeploymentReportsFailure
  BY <1>2 DEF DeploymentReportsFailure, Deployments
<1>3. CASE AutoscalerScales
  BY <1>3 DEF AutoscalerScales, Deployments
<1>4. CASE DeploymentDrifts
  BY <1>4 DEF DeploymentDrifts, Deployments
<1>5. CASE DeploymentDeleted
  BY <1>5 DEF DeploymentDeleted, NoDeployment
<1> QED
  BY <1>1, <1>2, <1>3, <1>4, <1>5, ClusterStep DEF ClusterStep

(* Users and the cluster: whoever changes an object makes its copies       *)
(* stale.                                                                  *)
LEMMA EnvironmentLocked ==
    ASSUME TypeInv, LockInv, EventInv, Environment
    PROVE  LockInv' /\ EventInv'
<1> USE DEF TypeInv, OperatorTypeOK, ClusterTypeOK
<1>1. CASE ClusterStep /\ UNCHANGED operatorVars
  BY <1>1, ClusterStepLocked DEF operatorVars, LockInv, EventInv
<1>2. CASE UserEditsSpec
  BY <1>2 DEF UserEditsSpec, Stale, clusterVars, LockInv, EventInv, Workers
<1>3. CASE UserDeletesRuntime
  BY <1>3 DEF UserDeletesRuntime, Stale, LockInv, EventInv, Workers
<1>4. CASE GarbageCollects
  <2>1. CASE dep.exists \/ svc # NoService \/ hpa.exists
    BY <1>4, <2>1 DEF GarbageCollects, LockInv, EventInv
  <2>2. CASE ~(dep.exists \/ svc # NoService \/ hpa.exists)
    BY <1>4, <2>2 DEF GarbageCollects, Stale, LockInv, EventInv, Workers
  <2> QED  BY <2>1, <2>2
<1>5. CASE SecretChanges
  BY <1>5 DEF SecretChanges, LockInv, EventInv
<1> QED
  BY <1>1, <1>2, <1>3, <1>4, <1>5, Environment DEF Environment

(* A cache that catches up holds what is stored.                           *)
LEMMA WatchLocked ==
    ASSUME LockInv, EventInv, Watch
    PROVE  LockInv' /\ EventInv'
  BY DEF Watch, WatchRuntime, WatchDeployment, WatchSecrets, clusterVars,
         LockInv, EventInv

(* Between two reconciliations the worker holds nothing.                   *)
LEMMA IdleLocked == ~IdleWorker.current /\ IdleWorker.pc # "events"
  BY DEF IdleWorker

(* The Deployment that is written is a Deployment, and only a write that   *)
(* changes nothing leaves the cache current.                               *)
LEMMA WriteDeploymentLocked ==
    ASSUME TypeInv, LockInv, WriteDeployment
    PROVE  /\ dep'.exists
           /\ depFresh' => depFresh /\ dep' = dep
<1>1. w.held.spec \in RuntimeSpecs /\ cdep \in Deployments
  BY SpecsAssumption DEF TypeInv, OperatorTypeOK, Workers, Runtimes
<1> QED
  BY <1>1, MutatedDeploymentType, BuiltDeploymentType DEF WriteDeployment

(* A stored status was computed from the stored runtime, and what it       *)
(* changes is noted.                                                       *)
LEMMA StoreStatusLocked ==
    ASSUME TypeInv, LockInv, ~StatusRefused, NEW status, StoreStatus(status)
    PROVE  /\ w.held = rt
           /\ rtFresh' = FALSE
           /\ \A t \in ConditionTypes :
                conditionChanged(w.held.status, status, t) => t \in unannounced'
  BY DEF StatusRefused, LockInv, StoreStatus

(* updateRuntimeStatus gives up the copy it has written from.              *)
LEMMA UpdateRuntimeStatusLocked ==
    ASSUME TypeInv, LockInv, EventInv, NEW o, updateRuntimeStatus(o),
           UNCHANGED <<dep, depFresh, cdep, crt>>
    PROVE  LockInv' /\ EventInv'
<1>1. PICK status \in {NormalizedStatus(o)} :
        \/ /\ status = w.held.status
           /\ Finish
           /\ UNCHANGED <<rt, rtFresh, unannounced>>
        \/ /\ status # w.held.status /\ ~StatusRefused
           /\ StoreStatus(status)
           /\ w' = [w EXCEPT !.pc = "events", !.current = FALSE,
                             !.written = status]
           /\ UNCHANGED queued
        \/ /\ status # w.held.status /\ StatusRefused
           /\ w' = IdleWorker /\ queued' = TRUE
           /\ UNCHANGED <<rt, rtFresh, unannounced>>
  BY DEF updateRuntimeStatus
<1>2. CASE w' = IdleWorker /\ UNCHANGED <<rt, rtFresh>>
  BY <1>2, IdleLocked DEF LockInv, EventInv
<1>3. CASE /\ ~StatusRefused /\ StoreStatus(status)
           /\ w' = [w EXCEPT !.pc = "events", !.current = FALSE,
                             !.written = status]
  <2>1. w'.held = w.held /\ w'.written = status /\ ~w'.current
    BY <1>3 DEF TypeInv, OperatorTypeOK, Workers
  <2> QED
    BY <1>3, <2>1, StoreStatusLocked DEF LockInv, EventInv
<1> QED
  BY <1>1, <1>2, <1>3 DEF Finish

(* Every step of a reconciliation keeps the versions right.                *)
LEMMA WorkerLocked ==
    ASSUME TypeInv, LockInv, EventInv, Worker
    PROVE  LockInv' /\ EventInv'
<1>1. CASE ReconcileSkipsDeleted
  BY <1>1 DEF ReconcileSkipsDeleted, clusterVars, LockInv, EventInv
<1>2. CASE Reconcile
  BY <1>2 DEF Reconcile, LockInv, EventInv
<1>3. CASE reconcileDeployment
  <2>1. w'.held = w.held /\ w'.current = w.current /\ w'.pc # "events"
    BY <1>3 DEF reconcileDeployment, Fail, TypeInv, OperatorTypeOK, Workers
  <2>2. WriteDeployment \/ UNCHANGED <<dep, depFresh>>
    BY <1>3 DEF reconcileDeployment
  <2> QED
    BY <1>3, <2>1, <2>2, WriteDeploymentLocked
    DEF reconcileDeployment, LockInv, EventInv
<1>4. CASE reconcileHorizontalPodAutoscaler
  <2>1. w'.held = w.held /\ w'.current = w.current /\ w'.pc # "events"
    BY <1>4
    DEF reconcileHorizontalPodAutoscaler, Fail, TypeInv, OperatorTypeOK, Workers
  <2> QED
    BY <1>4, <2>1 DEF reconcileHorizontalPodAutoscaler, LockInv, EventInv
<1>5. CASE ReconcileStatus
  BY <1>5, UpdateRuntimeStatusLocked DEF ReconcileStatus, clusterVars
<1>6. CASE ObservationFails
  <2>1. CASE updateRuntimeStatus(EmptyObservation)
    BY <1>6, <2>1, UpdateRuntimeStatusLocked DEF ObservationFails
  <2>2. CASE w' = Fail(w) /\ UNCHANGED <<rt, rtFresh, queued, unannounced>>
    <3>1. w'.held = w.held /\ w'.current = w.current /\ w'.pc # "events"
      BY <2>2 DEF Fail, TypeInv, OperatorTypeOK, Workers
    <3> QED
      BY <1>6, <2>2, <3>1 DEF ObservationFails, LockInv, EventInv
  <2> QED
    BY <1>6, <2>1, <2>2 DEF ObservationFails
<1>7. CASE StatusUpdateFails
  BY <1>7, IdleLocked DEF StatusUpdateFails, StoreStatus, LockInv, EventInv
<1>8. CASE RecordEvents
  BY <1>8, IdleLocked DEF RecordEvents, Finish, clusterVars, LockInv, EventInv
<1> QED
  BY <1>1, <1>2, <1>3, <1>4, <1>5, <1>6, <1>7, <1>8, Worker DEF Worker

(* Every step of the system keeps the versions right.                      *)
LEMMA LockInvStep ==
    TypeInv /\ LockInv /\ EventInv /\ [Next]_vars => LockInv' /\ EventInv'
<1>1. ASSUME LockInv, OperatorRestarts PROVE LockInv' /\ EventInv'
  BY <1>1, IdleLocked DEF OperatorRestarts, LockInv, EventInv
<1>2. ASSUME LockInv, EventInv, UNCHANGED vars PROVE LockInv' /\ EventInv'
  BY <1>2 DEF vars, clusterVars, operatorVars, LockInv, EventInv
<1> QED
  BY <1>1, <1>2, EnvironmentLocked, WatchLocked, WorkerLocked DEF Next

(* The three invariants, for every behaviour.                              *)
LEMMA Locked == Spec => [](TypeInv /\ LockInv /\ EventInv)
  BY InitType, InitLocked, TypeInvStep, LockInvStep, PTL DEF Spec

-----------------------------------------------------------------------------
(* recordStatusTransitionEvents announces changes only.                    *)
LEMMA AnnouncedAreChanged ==
    ASSUME NEW p, NEW c, NEW t \in AnnouncedTypes(p, c)
    PROVE  t \in ConditionTypes /\ conditionChanged(p, c, t)
<1>1. PICK e \in recordStatusTransitionEvents(p, c) : t = e.type
  BY DEF AnnouncedTypes
<1>2. CASE e \in recordConfigurationTransition(p, c)
  BY <1>1, <1>2
  DEF recordConfigurationTransition, Event, ConditionTypes, BaseTypes
<1>3. CASE e \in recordUpgradeTransition(p, c)
  BY <1>1, <1>3 DEF recordUpgradeTransition, Event, ConditionTypes, BaseTypes
<1>4. CASE e \in recordDegradedTransition(p, c)
  BY <1>1, <1>4 DEF recordDegradedTransition, Event, ConditionTypes, BaseTypes
<1>5. CASE e \in recordProgressingTransition(p, c)
  BY <1>1, <1>5
  DEF recordProgressingTransition, Event, ConditionTypes, BaseTypes
<1>6. CASE e \in recordReadyTransition(p, c)
  BY <1>1, <1>6 DEF recordReadyTransition, Event, ConditionTypes, BaseTypes
<1> QED
  BY <1>1, <1>2, <1>3, <1>4, <1>5, <1>6 DEF recordStatusTransitionEvents

(* recordStatusTransitionEvents: no Event announces a transition of the    *)
(* stored condition that an earlier Event has announced already, whatever  *)
(* the caches, failing requests and restarts do.                           *)
THEOREM EventsTheorem == Spec => []EventsAnnounceNewTransitions
<1>1. EventInv => EventsAnnounceNewTransitions
  BY AnnouncedAreChanged DEF EventInv, EventsAnnounceNewTransitions
<1> QED
  BY <1>1, Locked, PTL

-----------------------------------------------------------------------------
(* A status that is stored is what the worker computed from what it holds  *)
(* and what it observed; nothing else happens in that step.                *)
LEMMA StoredStatusIsComputed ==
    ASSUME TypeInv, LockInv, [Next]_vars, rt'.status # rt.status
    PROVE  /\ w.held = rt
           /\ UNCHANGED completed
           /\ \E o \in {Observation, EmptyObservation} :
                 rt' = [rt EXCEPT !.status = NormalizedStatus(o)]
<1> USE DEF TypeInv, OperatorTypeOK
<1>1. ASSUME NEW o \in {Observation, EmptyObservation},
             ~StatusRefused, StoreStatus(NormalizedStatus(o))
      PROVE  /\ w.held = rt
             /\ \E x \in {Observation, EmptyObservation} :
                   rt' = [rt EXCEPT !.status = NormalizedStatus(x)]
  BY <1>1, StoreStatusLocked DEF StoreStatus
<1>2. CASE ReconcileStatus
  BY <1>1, <1>2 DEF ReconcileStatus, updateRuntimeStatus, clusterVars
<1>3. CASE ObservationFails
  BY <1>1, <1>3 DEF ObservationFails, updateRuntimeStatus
<1>4. CASE StatusUpdateFails
  BY <1>1, <1>4 DEF StatusUpdateFails
<1>5. CASE Environment
  BY <1>5
  DEF Environment, operatorVars, UserEditsSpec, UserDeletesRuntime,
      GarbageCollects, SecretChanges, Runtimes
<1>6. CASE Watch \/ OperatorRestarts \/ UNCHANGED vars
  BY <1>6
  DEF Watch, WatchRuntime, WatchDeployment, WatchSecrets, OperatorRestarts,
      vars, operatorVars
<1>7. CASE \/ ReconcileSkipsDeleted \/ Reconcile \/ reconcileDeployment
           \/ reconcileHorizontalPodAutoscaler \/ RecordEvents
  BY <1>7
  DEF ReconcileSkipsDeleted, Reconcile, reconcileDeployment,
      reconcileHorizontalPodAutoscaler, RecordEvents
<1> QED
  BY <1>2, <1>3, <1>4, <1>5, <1>6, <1>7 DEF Next, Worker

(* updateRuntimeStatus: the status that reaches the store was computed     *)
(* from the stored spec and the stored status, however late the caches.    *)
THEOREM StatusTheorem == Spec => StatusDescribesStoredSpec
<1>1. ASSUME TypeInv, LockInv, [Next]_vars
      PROVE  [rt'.status # rt.status =>
                /\ rt'.status.observedGeneration = rt.gen
                /\ rt'.status.desiredImage = runtimeImage(rt.spec.image)
                /\ w.held.status = rt.status]_vars
  <2> SUFFICES ASSUME rt'.status # rt.status
               PROVE  /\ rt'.status.observedGeneration = rt.gen
                      /\ rt'.status.desiredImage = runtimeImage(rt.spec.image)
                      /\ w.held.status = rt.status
    OBVIOUS
  <2>1. PICK o \in {Observation, EmptyObservation} :
            rt' = [rt EXCEPT !.status = NormalizedStatus(o)]
    BY <1>1, StoredStatusIsComputed
  <2>2. w \in Workers /\ rt \in Runtimes /\ o \in Observations
    BY <1>1, ObservationTypes DEF TypeInv, OperatorTypeOK
  <2>3. IsStatusOf(NormalizedStatus(o), w.held, o.deployment)
    BY <2>2, NormalizedStatusType
  <2> QED
    BY <1>1, <2>1, <2>2, <2>3, StoredStatusIsComputed DEF IsStatusOf, Runtimes
<1> QED
  BY <1>1, Locked, PTL DEF Spec, StatusDescribesStoredSpec

(* reconcileDeployment: with autoscaling enabled, a reconciliation never   *)
(* takes back the scale of an existing Deployment, however late the cache. *)
THEOREM ScaleTheorem == Spec => AutoscalerScaleIsKept
<1>1. ASSUME TypeInv, LockInv, [Next]_vars, w.pc = "deployment",
             w'.pc # "deployment", w.held.spec.autoscaling,
             dep.exists, dep'.exists
      PROVE  dep'.replicas = dep.replicas
  <2> USE <1>1 DEF TypeInv, OperatorTypeOK
  <2>1. WriteDeployment \/ dep' = dep \/ OperatorRestarts \/ GarbageCollects
    BY DEF Next, Environment, Watch, Worker, operatorVars, clusterVars, vars,
           UserEditsSpec, UserDeletesRuntime, SecretChanges, WatchRuntime,
           WatchDeployment, WatchSecrets, ReconcileSkipsDeleted, Reconcile,
           reconcileDeployment, reconcileHorizontalPodAutoscaler,
           ReconcileStatus, ObservationFails, StatusUpdateFails, RecordEvents
  <2>2. CASE WriteDeployment
    <3>1. w.held.spec \in RuntimeSpecs
      BY SpecsAssumption DEF Workers, Runtimes
    <3>2. cdep = dep /\ dep' = MutatedDeployment(w.held.spec, cdep)
      BY <2>2 DEF WriteDeployment, DeploymentRefused, LockInv
    <3> QED
      BY <3>1, <3>2, MutatedDeploymentType
  <2>3. CASE GarbageCollects \/ OperatorRestarts
    BY <2>3 DEF GarbageCollects, OperatorRestarts, NoDeployment
  <2> QED
    BY <2>1, <2>2, <2>3
<1>2. ASSUME TypeInv, LockInv, [Next]_vars
      PROVE  [(w.pc = "deployment" /\ w'.pc # "deployment"
               /\ w.held.spec.autoscaling /\ dep.exists /\ dep'.exists)
                => dep'.replicas = dep.replicas]_vars
  BY <1>1, <1>2
<1> QED
  BY <1>2, Locked, PTL DEF Spec, AutoscalerScaleIsKept

-----------------------------------------------------------------------------
(* The stored conditions agree.                                            *)

(* The stored status as StatusWriter describes it.                         *)
Writer == INSTANCE StatusWriter WITH status <- rt.status, Inputs <- {}

(* Whatever a reconciliation has come to, its report is coherent.          *)
LEMMA NormalizedCoherent ==
    ASSUME w \in Workers, NEW o \in Observations
    PROVE  Coherent(NormalizedStatus(o).conditions)
<1>1. IsRuntime(w.held) /\ w.held.status \in Statuses
  BY HeldIsRuntime DEF IsRuntime, Workers
<1>2. w.validation \in Validations /\ Now \in Nat
  BY DEF Workers, Now
<1>3. CASE w.path = "failed"
  <2> DEFINE s == buildReconciliationFailureStatus(w.held, o, Now)
  <2>1. s \in Statuses /\ Coherent(s.conditions)
    BY <1>1, <1>2, FailureCoherent, FailureStatusType DEF IsStatusOf
  <2> HIDE DEF s
  <2> QED
    BY <1>1, <1>3, <2>1, PreservedCoherent DEF NormalizedStatus, s
<1>4. CASE w.path # "failed"
  <2> DEFINE s == buildRuntimeStatus(w.held, o, w.validation, Now)
  <2>1. s \in Statuses /\ Coherent(s.conditions)
    BY <1>1, <1>2, BuiltCoherent, BuildStatusType DEF IsStatusOf
  <2> HIDE DEF s
  <2> QED
    BY <1>1, <1>4, <2>1, PreservedCoherent DEF NormalizedStatus, s
<1> QED
  BY <1>3, <1>4

(* buildBaseRuntimeStatus, buildReconciliationFailureStatus and            *)
(* updateRuntimeStatus: the conditions a client reads never contradict     *)
(* each other, whatever the caches, failures and restarts of the operator  *)
(* and the users of the cluster do.                                        *)
THEOREM StoredCoherenceTheorem == Spec => []Writer!ConditionsAreCoherent
<1> DEFINE Inv == rt.status # EmptyStatus => Coherent(rt.status.conditions)
<1>1. Init => Inv
  BY DEF Init
<1>2. TypeInv /\ LockInv /\ Inv /\ [Next]_vars => Inv'
  <2> SUFFICES ASSUME TypeInv, LockInv, [Next]_vars, rt'.status # rt.status
               PROVE  Coherent(rt'.status.conditions)
    OBVIOUS
  <2>1. PICK o \in {Observation, EmptyObservation} :
            rt' = [rt EXCEPT !.status = NormalizedStatus(o)]
    BY StoredStatusIsComputed
  <2>2. w \in Workers /\ rt \in Runtimes /\ o \in Observations
    BY ObservationTypes DEF TypeInv, OperatorTypeOK
  <2>3. rt'.status = NormalizedStatus(o)
    BY <2>1, <2>2 DEF Runtimes
  <2> QED
    BY <2>2, <2>3, NormalizedCoherent
<1>3. Inv => Writer!ConditionsAreCoherent
  <2>1. Writer!EmptyStatus = EmptyStatus
    BY DEF Writer!EmptyStatus, EmptyStatus, Writer!Absent, Absent,
           Writer!ConditionTypes, ConditionTypes, Writer!BaseTypes, BaseTypes
  <2> QED
    BY <2>1 DEF Writer!ConditionsAreCoherent, Coherent, ExactlyOne
<1> QED
  BY <1>1, <1>2, <1>3, Locked, PTL DEF Spec

==============================================================================
