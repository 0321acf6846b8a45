----------------------- MODULE RuntimeReconcilerProofs -----------------------
(***************************************************************************)
(* Theorems about RuntimeReconciler, for every set of specs, images,       *)
(* Secrets and Pods and every bound.                                       *)
(***************************************************************************)
EXTENDS RuntimeReconciler, RuntimeStatusProofs, FiniteSetTheorems

-----------------------------------------------------------------------------
(* The cluster.                                                            *)

(* The counters of a Deployment count sets of Pod slots; equal counters    *)
(* mean equal sets.                                                        *)
LEMMA PodCounts ==
    ASSUME NEW d, NEW ps
    PROVE  /\ Cardinality(Running(ps)) \in Nat
           /\ Cardinality(Current(d, ps)) \in Nat
           /\ Cardinality(Serving(ps)) \in Nat
           /\ Cardinality(Serving(ps)) <= Cardinality(Running(ps))
           /\ Cardinality(Current(d, ps)) = Cardinality(Running(ps))
                => Current(d, ps) = Running(ps)
           /\ Cardinality(Serving(ps)) = Cardinality(Running(ps))
                => Serving(ps) = Running(ps)
<1>1. Running(ps) \subseteq PodIds /\ IsFiniteSet(PodIds)
  BY ClusterAssumption DEF Running
<1>2. IsFiniteSet(Running(ps))
  BY <1>1, FS_Subset
<1>3. /\ Current(d, ps) \subseteq Running(ps)
      /\ Serving(ps) \subseteq Running(ps)
  BY DEF Current, Serving
<1> QED
  BY <1>2, <1>3, FS_Subset, FS_CardinalityType

(* The Deployment controller writes a Deployment.                          *)
LEMMA ObservedStatusType ==
    ASSUME NEW d \in Deployments, NEW ps, NEW k \in BOOLEAN
    PROVE  ObservedStatus(d, ps, k) \in Deployments
<1> DEFINE total == Cardinality(Running(ps))
           current == Cardinality(Current(d, ps))
           serving == Cardinality(Serving(ps))
           wanted == IF d.replicas > total THEN d.replicas ELSE total
           keep == k /\ d.observed /\ ~RolledOut(d, ps)
<1>1. /\ total \in Nat /\ current \in Nat /\ serving \in Nat
      /\ serving <= total /\ d.replicas \in Nat
  BY PodCounts DEF Deployments
<1> HIDE DEF total, current, serving
<1>2. wanted - serving \in Nat
  BY <1>1
<1>3. /\ (d.deadlineExceeded /\ keep) \in BOOLEAN
      /\ (d.replicaFailure /\ keep) \in BOOLEAN
  OBVIOUS
<1>4. ObservedStatus(d, ps, k)
        = [d EXCEPT !.observed = TRUE, !.total = total, !.updated = current,
             !.ready = serving, !.available = serving,
             !.unavailable = wanted - serving,
             !.deadlineExceeded = d.deadlineExceeded /\ keep,
             !.replicaFailure = d.replicaFailure /\ keep]
  BY DEF ObservedStatus, total, current, serving
<1> HIDE DEF wanted, keep
<1> QED
  BY <1>1, <1>2, <1>3, <1>4, ZenonT(60) DEF Deployments

(* The types of the cluster's variables.                                   *)
ClusterTypeOK ==
    /\ dep \in Deployments
    /\ depFresh \in BOOLEAN
    /\ pods \in [PodIds -> PodSlots]
    /\ hpa \in Autoscalers
    /\ completed \subseteq Images
    /\ mischief \in 0 .. MaxMischief

(* A Deployment that exists has a template.                                *)
HasTemplate(d) == d.exists => d.image \in Images /\ d.cfg \in Configs

(* A change of the Pods keeps the types of the cluster.                    *)
LEMMA PodsBecomeType ==
    ASSUME ClusterTypeOK, dep.exists, HasTemplate(dep),
           NEW ps \in [PodIds -> PodSlots], NEW k \in BOOLEAN,
           PodsBecome(ps, k), UNCHANGED hpa, mischief' \in 0 .. MaxMischief
    PROVE  ClusterTypeOK' /\ HasTemplate(dep)'
<1>1. dep' \in Deployments
  BY ObservedStatusType DEF ClusterTypeOK, PodsBecome
<1>2. /\ dep'.exists = dep.exists
      /\ dep'.image = dep.image
      /\ dep'.cfg = dep.cfg
  BY DEF ClusterTypeOK, PodsBecome, ObservedStatus, Deployments
<1> QED
  BY <1>1, <1>2 DEF ClusterTypeOK, PodsBecome, HasTemplate

(* Disturbances stay within their bound.                                   *)
LEMMA DisturbType ==
    ASSUME mischief \in 0 .. MaxMischief, NEW kind, Disturb(kind)
    PROVE  mischief' \in 0 .. MaxMischief
  BY ClusterAssumption DEF Disturb

(* Without Pods, every slot is free.                                       *)
LEMMA NoPodsType == NoPods \in [PodIds -> PodSlots]
  BY DEF NoPods, NoPod, PodSlots

(* A Deployment that is absent is in Deployments.                          *)
LEMMA NoDeploymentType == NoDeployment \in Deployments /\ HasTemplate(NoDeployment)
  BY DEF NoDeployment, Deployments, HasTemplate

(* The steps of Kubernetes keep the types.                                 *)
LEMMA ClusterStepType ==
    ASSUME ClusterTypeOK, HasTemplate(dep), ClusterStep
    PROVE  ClusterTypeOK' /\ HasTemplate(dep)'
<1>1. CASE DeploymentControllerSync
  BY <1>1, PodsBecomeType DEF DeploymentControllerSync, ClusterTypeOK
<1>2. ASSUME NEW p \in PodIds, PodStarts(p)
      PROVE  ClusterTypeOK' /\ HasTemplate(dep)'
  <2> DEFINE pod == [template |-> Template(dep), ready |-> FALSE]
             ps == [pods EXCEPT ![p] = pod]
  <2>1. dep.exists /\ PodsBecome(ps, TRUE) /\ UNCHANGED <<hpa, mischief>>
    BY <1>2 DEF PodStarts
  <2>2. pod \in PodSlots
    BY <2>1 DEF HasTemplate, PodSlots, Templates, Template
  <2>3. ps \in [PodIds -> PodSlots]
    BY <2>2 DEF ClusterTypeOK
  <2> HIDE DEF ps
  <2> QED  BY <2>1, <2>3, PodsBecomeType DEF ClusterTypeOK
<1>3. ASSUME NEW p \in PodIds, PodStops(p)
      PROVE  ClusterTypeOK' /\ HasTemplate(dep)'
  <2> DEFINE ps == [pods EXCEPT ![p] = NoPod]
  <2>1. dep.exists /\ PodsBecome(ps, TRUE) /\ UNCHANGED <<hpa, mischief>>
    BY <1>3 DEF PodStops
  <2>2. ps \in [PodIds -> PodSlots]
    BY DEF ClusterTypeOK, NoPod, PodSlots
  <2> HIDE DEF ps
  <2> QED  BY <2>1, <2>2, PodsBecomeType DEF ClusterTypeOK
<1>4. ASSUME NEW p \in PodIds, PodBecomesReady(p)
      PROVE  ClusterTypeOK' /\ HasTemplate(dep)'
  <2> DEFINE ps == [pods EXCEPT ![p].ready = TRUE]
  <2>1. dep.exists /\ PodsBecome(ps, FALSE) /\ UNCHANGED <<hpa, mischief>>
    BY <1>4 DEF PodBecomesReady
  <2>2. ps \in [PodIds -> PodSlots]
    BY DEF ClusterTypeOK, PodSlots
  <2> HIDE DEF ps
  <2> QED  BY <2>1, <2>2, PodsBecomeType DEF ClusterTypeOK
<1>5. ASSUME NEW p \in PodIds, PodFails(p)
      PROVE  ClusterTypeOK' /\ HasTemplate(dep)'
  <2> DEFINE ps == [pods EXCEPT ![p].ready = FALSE]
  <2>1. /\ dep.exists /\ PodsBecome(ps, TRUE) /\ UNCHANGED hpa
        /\ mischief' \in 0 .. MaxMischief
    BY <1>5, DisturbType DEF PodFails, ClusterTypeOK
  <2>2. ps \in [PodIds -> PodSlots]
    BY DEF ClusterTypeOK, PodSlots
  <2> HIDE DEF ps
  <2> QED  BY <2>1, <2>2, PodsBecomeType
<1>6. CASE DeploymentReportsFailure
  BY <1>6, DisturbType
  DEF DeploymentReportsFailure, ClusterTypeOK, HasTemplate, Deployments
<1>7. CASE AutoscalerScales
  <2>1. PICK n \in hpa.min .. hpa.max :
            dep' = [dep EXCEPT !.replicas = n, !.observed = FALSE]
    BY <1>7 DEF AutoscalerScales
  <2>2. n \in Nat
    BY <2>1 DEF ClusterTypeOK, Autoscalers
  <2>3. mischief' \in 0 .. MaxMischief
    BY <1>7, DisturbType DEF AutoscalerScales, ClusterTypeOK
  <2> QED
    BY <1>7, <2>1, <2>2, <2>3
    DEF AutoscalerScales, ClusterTypeOK, HasTemplate, Deployments
<1>8. CASE DeploymentDrifts
  BY <1>8, DisturbType
  DEF DeploymentDrifts, ClusterTypeOK, HasTemplate, Deployments
<1>9. CASE DeploymentDeleted
  BY <1>9, DisturbType, NoPodsType, NoDeploymentType
  DEF DeploymentDeleted, ClusterTypeOK
<1> QED
  BY <1>1, <1>2, <1>3, <1>4, <1>5, <1>6, <1>7, <1>8, <1>9
  DEF ClusterStep, RolloutStep

-----------------------------------------------------------------------------
(* What the worker writes.                                                 *)

(* What a worker holds is what the status operators expect.                *)
LEMMA HeldIsRuntime ==
    ASSUME NEW r \in Runtimes
    PROVE  IsRuntime(r)
  BY SpecsAssumption DEF Runtimes, IsRuntime

(* buildDeployment returns a Deployment nobody has observed yet.           *)
LEMMA BuiltDeploymentType ==
    ASSUME NEW spec \in RuntimeSpecs
    PROVE  /\ buildDeployment(spec) \in Deployments
           /\ HasTemplate(buildDeployment(spec))
           /\ buildDeployment(spec).exists
           /\ ~buildDeployment(spec).observed
  BY ImageType, ReplicasType
  DEF buildDeployment, NoDeployment, Deployments, HasTemplate, RuntimeSpecs

(* reconcileDeployment's mutation keeps "observed" only if it changes      *)
(* nothing that matters, and never touches the status.                     *)
LEMMA MutatedDeploymentType ==
    ASSUME NEW spec \in RuntimeSpecs, NEW d \in Deployments, d.exists
    PROVE  LET m == MutatedDeployment(spec, d)
           IN  /\ m \in Deployments
               /\ HasTemplate(m)
               /\ m.observed => d.observed /\ m.image = d.image
               /\ m.exists
               /\ m.total = d.total /\ m.updated = d.updated
               /\ m.ready = d.ready /\ m.unavailable = d.unavailable
               /\ spec.autoscaling => m.replicas = d.replicas
<1> DEFINE b == buildDeployment(spec)
           n == IF autoscalingEnabled(spec) THEN d.replicas ELSE b.replicas
           same == d.observed /\ d.image = b.image /\ d.cfg = b.cfg
                   /\ d.replicas = n
<1>1. b \in Deployments /\ HasTemplate(b) /\ b.exists
  BY BuiltDeploymentType
<1>2. n \in Nat /\ (spec.autoscaling => n = d.replicas)
  BY <1>1 DEF Deployments, autoscalingEnabled
<1>3. same \in BOOLEAN
  BY DEF Deployments
<1>4. MutatedDeployment(spec, d)
        = [d EXCEPT !.image = b.image, !.cfg = b.cfg, !.replicas = n,
                    !.observed = same]
  BY DEF MutatedDeployment
<1>5. same => d.observed /\ d.image = b.image
  OBVIOUS
<1> HIDE DEF b, n, same
<1> QED
  BY <1>1, <1>2, <1>3, <1>4, <1>5, ZenonT(60) DEF Deployments, HasTemplate

(* Create and Update both store a Deployment.                              *)
LEMMA WriteDeploymentType ==
    ASSUME w \in Workers, dep \in Deployments, cdep \in Deployments,
           depFresh \in BOOLEAN, WriteDeployment
    PROVE  /\ dep' \in Deployments
           /\ HasTemplate(dep)'
           /\ depFresh' \in BOOLEAN
<1>1. w.held.spec \in RuntimeSpecs
  BY SpecsAssumption DEF Workers, Runtimes
<1> QED
  BY <1>1, BuiltDeploymentType, MutatedDeploymentType
  DEF WriteDeployment, HasTemplate

(* buildHorizontalPodAutoscaler returns an autoscaler.                     *)
LEMMA BuiltAutoscalerType ==
    ASSUME NEW spec \in RuntimeSpecs
    PROVE  buildHorizontalPodAutoscaler(spec) \in Autoscalers
  BY DEF buildHorizontalPodAutoscaler, Autoscalers, NoAutoscaler, RuntimeSpecs,
         desiredAutoscalingMinReplicas, desiredAutoscalingMaxReplicas

(* loadRuntimeObservation returns an observation.                          *)
LEMMA ObservationTypes ==
    /\ EmptyObservation \in Observations
    /\ cdep \in Deployments /\ svc \in Ports \cup {NoService}
         => Observation \in Observations
  BY NoDeploymentType
  DEF EmptyObservation, Observation, Observations

(* The status updateRuntimeStatus sends describes the runtime in hand.     *)
LEMMA NormalizedStatusType ==
    ASSUME w \in Workers, NEW o \in Observations
    PROVE  IsStatusOf(NormalizedStatus(o), w.held, o.deployment)
<1> DEFINE s == IF w.path = "failed"
                THEN buildReconciliationFailureStatus(w.held, o, Now)
                ELSE buildRuntimeStatus(w.held, o, w.validation, Now)
<1>1. IsRuntime(w.held) /\ w.validation \in Validations
  BY HeldIsRuntime DEF Workers
<1>2. IsStatusOf(s, w.held, o.deployment)
  BY <1>1, BuildStatusType, FailureStatusType DEF Now
<1>3. NormalizedStatus(o)
        = preserveRuntimeConditionTransitionTimes(w.held.status, s)
  BY DEF NormalizedStatus
<1> HIDE DEF s
<1> QED
  BY <1>1, <1>2, <1>3, PreserveType DEF IsStatusOf, IsRuntime

(* An idle worker is a worker.                                             *)
LEMMA IdleWorkerType == IdleWorker \in Workers
<1>1. (CHOOSE x \in Specs : TRUE) \in Specs
  BY SpecsAssumption
<1>2. EmptyStatus \in Statuses
  BY DEF EmptyStatus, Statuses, Absent, Conditions, Reasons
<1>3. validReferenceValidation \in Validations
  BY DEF validReferenceValidation, Validations
<1> QED
  BY <1>1, <1>2, <1>3 DEF IdleWorker, Workers, Runtimes

-----------------------------------------------------------------------------
(* Type correctness.  TypeOK is not inductive: a Deployment that exists    *)
(* must be known to have a template.                                       *)

OperatorTypeOK ==
    /\ cdep \in Deployments
    /\ rtFresh \in BOOLEAN /\ queued \in BOOLEAN
    /\ rt \in Runtimes /\ crt \in Runtimes
    /\ svc \in Ports \cup {NoService}
    /\ secrets \subseteq SecretNames /\ csecrets \subseteq SecretNames
    /\ w \in Workers
    /\ unannounced \subseteq ConditionTypes

TypeInv ==
    /\ ClusterTypeOK /\ OperatorTypeOK
    /\ HasTemplate(dep) /\ HasTemplate(cdep)

(* The inductive invariant contains the type invariant.                    *)
LEMMA TypeInvImplies == TypeInv => TypeOK
  BY DEF TypeInv, ClusterTypeOK, OperatorTypeOK, TypeOK

(* The initial states have the right types.                                *)
LEMMA InitType == Init => TypeInv
<1> SUFFICES ASSUME Init PROVE TypeInv
  OBVIOUS
<1>1. ClusterTypeOK
  BY NoDeploymentType, NoPodsType, ClusterAssumption
  DEF Init, ClusterTypeOK, NoAutoscaler, Autoscalers
<1>2. rt \in Runtimes
  BY SpecsAssumption
  DEF Init, Runtimes, EmptyStatus, Statuses, Absent, Conditions, Reasons
<1> QED
  BY <1>1, <1>2, NoDeploymentType, IdleWorkerType
  DEF Init, TypeInv, OperatorTypeOK

(* Edits, deletion and status writes keep a runtime a runtime.             *)
LEMMA RuntimeChangesType ==
    ASSUME NEW r \in Runtimes
    PROVE  /\ \A x \in Specs : [r EXCEPT !.spec = x, !.gen = @ + 1] \in Runtimes
           /\ [r EXCEPT !.phase = "gone"] \in Runtimes
           /\ [r EXCEPT !.phase = "deleting", !.gen = @ + 1] \in Runtimes
           /\ \A s \in Statuses : [r EXCEPT !.status = s] \in Runtimes
<1>1. r.gen \in Nat /\ r.gen + 1 \in Nat
  BY DEF Runtimes
<1> QED
  BY <1>1 DEF Runtimes

(* Making a copy stale keeps its type.                                     *)
LEMMA StaleType ==
    ASSUME NEW x \in Workers
    PROVE  Stale(x) \in Workers /\ Stale(x).held = x.held
  BY DEF Stale, Workers

(* handleReconciliationFailure is entered by a worker.                     *)
LEMMA FailType ==
    ASSUME NEW x \in Workers
    PROVE  Fail(x) \in Workers /\ Fail(x).held = x.held
  BY DEF Fail, Workers

(* Users, Secrets and the cluster keep the types.                          *)
LEMMA EnvironmentType ==
    ASSUME TypeInv, Environment
    PROVE  TypeInv'
<1> USE DEF TypeInv
<1>1. CASE ClusterStep /\ UNCHANGED operatorVars
  BY <1>1, ClusterStepType
  DEF operatorVars, OperatorTypeOK, HasTemplate
<1>2. CASE UserEditsSpec
  <2>1. PICK x \in Specs : rt' = [rt EXCEPT !.spec = x, !.gen = @ + 1]
    BY <1>2 DEF UserEditsSpec
  <2>2. rt' \in Runtimes
    BY <2>1, RuntimeChangesType DEF OperatorTypeOK
  <2> QED
    BY <1>2, <2>2, StaleType
    DEF UserEditsSpec, OperatorTypeOK, ClusterTypeOK, clusterVars, HasTemplate
<1>3. CASE UserDeletesRuntime
  <2>1. rt' \in Runtimes
    BY <1>3, RuntimeChangesType DEF UserDeletesRuntime, OperatorTypeOK
  <2> QED
    BY <1>3, <2>1, StaleType, DisturbType
    DEF UserDeletesRuntime, OperatorTypeOK, ClusterTypeOK, HasTemplate
<1>4. CASE GarbageCollects
  <2>1. rt' \in Runtimes
    BY <1>4, RuntimeChangesType DEF GarbageCollects, OperatorTypeOK
  <2>2. w' \in Workers
    BY <1>4, StaleType DEF GarbageCollects, OperatorTypeOK
  <2>3. ClusterTypeOK' /\ HasTemplate(dep)'
    <3>1. NoAutoscaler \in Autoscalers
      BY DEF NoAutoscaler, Autoscalers
    <3>2. CASE dep.exists \/ svc # NoService \/ hpa.exists
      BY <1>4, <3>1, <3>2, NoDeploymentType, NoPodsType
      DEF GarbageCollects, ClusterTypeOK, HasTemplate
    <3>3. CASE ~(dep.exists \/ svc # NoService \/ hpa.exists)
      BY <1>4, <3>3 DEF GarbageCollects, ClusterTypeOK, HasTemplate
    <3> QED  BY <3>2, <3>3
  <2> QED
    BY <1>4, <2>1, <2>2, <2>3
    DEF GarbageCollects, OperatorTypeOK, HasTemplate
<1>5. CASE SecretChanges
  BY <1>5, DisturbType
  DEF SecretChanges, OperatorTypeOK, ClusterTypeOK, HasTemplate
<1> QED
  BY <1>1, <1>2, <1>3, <1>4, <1>5, Environment DEF Environment

(* The informers keep the types.                                           *)
LEMMA WatchType ==
    ASSUME TypeInv, Watch
    PROVE  TypeInv'
<1> USE DEF TypeInv
<1>1. CASE WatchRuntime
  BY <1>1
  DEF WatchRuntime, OperatorTypeOK, ClusterTypeOK, clusterVars, HasTemplate
<1>2. CASE WatchDeployment
  BY <1>2
  DEF WatchDeployment, OperatorTypeOK, ClusterTypeOK, HasTemplate
<1>3. CASE WatchSecrets
  BY <1>3
  DEF WatchSecrets, OperatorTypeOK, ClusterTypeOK, clusterVars, HasTemplate
<1> QED
  BY <1>1, <1>2, <1>3, Watch DEF Watch

(* The end of a reconciliation keeps the types.                            *)
LEMMA FinishType ==
    ASSUME queued \in BOOLEAN, Finish
    PROVE  w' \in Workers /\ queued' \in BOOLEAN
  BY IdleWorkerType DEF Finish

(* Storing a status keeps the types.                                       *)
LEMMA StoreStatusType ==
    ASSUME rt \in Runtimes, unannounced \subseteq ConditionTypes,
           NEW status \in Statuses, StoreStatus(status)
    PROVE  /\ rt' \in Runtimes
           /\ rtFresh' \in BOOLEAN
           /\ unannounced' \subseteq ConditionTypes
  BY RuntimeChangesType DEF StoreStatus

(* The part of the state updateRuntimeStatus may change.                   *)
LEMMA UpdateRuntimeStatusType ==
    ASSUME OperatorTypeOK, NEW o \in Observations, updateRuntimeStatus(o)
    PROVE  /\ rt' \in Runtimes /\ rtFresh' \in BOOLEAN
           /\ unannounced' \subseteq ConditionTypes
           /\ w' \in Workers /\ queued' \in BOOLEAN
<1> USE DEF OperatorTypeOK
<1>1. PICK status \in {NormalizedStatus(o)} :
        \/ /\ status = w.held.status
           /\ Finish
           /\ UNCHANGED <<rt, rtFresh, unannounced>>
        \/ /\ status # w.held.status /\ ~StatusRefused
           /\ StoreStatus(status)
           /\ w' = [w EXCEPT !.pc = "events", !.current = FALSE,
                             !.written = status]
           /\ UNCHANGED queued
        \/ /\ status # w.held.status /\ StatusRefused
           /\ w' = IdleWorker /\ queued' = TRUE
           /\ UNCHANGED <<rt, rtFresh, unannounced>>
  BY DEF updateRuntimeStatus
<1>2. status \in Statuses
  BY <1>1, NormalizedStatusType DEF IsStatusOf
<1>3. [w EXCEPT !.pc = "events", !.current = FALSE, !.written = status]
        \in Workers
  BY <1>2 DEF Workers
<1> QED
  BY <1>1, <1>2, <1>3, FinishType, StoreStatusType, IdleWorkerType

(* Every step of a reconciliation keeps the types.                         *)
LEMMA WorkerType ==
    ASSUME TypeInv, Worker
    PROVE  TypeInv'
<1> USE DEF TypeInv
<1>1. CASE ReconcileSkipsDeleted
  BY <1>1
  DEF ReconcileSkipsDeleted, OperatorTypeOK, ClusterTypeOK, clusterVars,
      HasTemplate
<1>2. CASE Reconcile
  <2>1. PICK v \in validateSecretReferences(crt.spec, csecrets) :
          /\ IF v.err THEN Disturb("api") ELSE UNCHANGED mischief
          /\ w' = [ pc |-> IF v.valid THEN "deployment" ELSE "status",
                    path |-> IF v.err THEN "failed"
                             ELSE IF v.valid THEN "reconcile" ELSE "invalid",
                    held |-> crt, current |-> rtFresh, validation |-> v,
                    written |-> EmptyStatus ]
    BY <1>2 DEF Reconcile
  <2>2. v \in Validations /\ EmptyStatus \in Statuses
    BY ValidationType
    DEF EmptyStatus, Statuses, Absent, Conditions, Reasons
  <2>3. w' \in Workers
    BY <2>1, <2>2 DEF Workers, OperatorTypeOK
  <2>4. mischief' \in 0 .. MaxMischief
    BY <2>1, DisturbType DEF ClusterTypeOK
  <2> QED
    BY <1>2, <2>3, <2>4
    DEF Reconcile, OperatorTypeOK, ClusterTypeOK, HasTemplate
<1>3. CASE reconcileDeployment
  <2>1. [w EXCEPT !.pc = "autoscaler"] \in Workers /\ Fail(w) \in Workers
    BY FailType DEF OperatorTypeOK, Workers
  <2>2. w' \in Workers
    BY <1>3, <2>1 DEF reconcileDeployment
  <2>3. mischief' \in 0 .. MaxMischief
    BY <1>3, DisturbType DEF reconcileDeployment, ClusterTypeOK
  <2>4. w.held.spec.port \in Ports
    BY SpecsAssumption DEF OperatorTypeOK, Workers, Runtimes, RuntimeSpecs
  <2>5. svc' \in Ports \cup {NoService} /\ queued' \in BOOLEAN
    BY <1>3, <2>4 DEF reconcileDeployment, reconcileService, OperatorTypeOK
  <2>6. \/ WriteDeployment
        \/ UNCHANGED <<dep, depFresh>>
    BY <1>3 DEF reconcileDeployment
  <2>7. dep' \in Deployments /\ HasTemplate(dep)' /\ depFresh' \in BOOLEAN
    BY <2>6, WriteDeploymentType
    DEF OperatorTypeOK, ClusterTypeOK, HasTemplate
  <2> QED
    BY <1>3, <2>2, <2>3, <2>5, <2>7
    DEF reconcileDeployment, OperatorTypeOK, ClusterTypeOK, HasTemplate
<1>4. CASE reconcileHorizontalPodAutoscaler
  <2>1. [w EXCEPT !.pc = "status"] \in Workers /\ Fail(w) \in Workers
    BY FailType DEF OperatorTypeOK, Workers
  <2>2. w' \in Workers
    BY <1>4, <2>1 DEF reconcileHorizontalPodAutoscaler
  <2>3. mischief' \in 0 .. MaxMischief
    BY <1>4, DisturbType DEF reconcileHorizontalPodAutoscaler, ClusterTypeOK
  <2>4. w.held.spec \in RuntimeSpecs
    BY SpecsAssumption DEF OperatorTypeOK, Workers, Runtimes
  <2>5. hpa' \in Autoscalers
    BY <1>4, <2>4, BuiltAutoscalerType
    DEF reconcileHorizontalPodAutoscaler, ClusterTypeOK
  <2> QED
    BY <1>4, <2>2, <2>3, <2>5
    DEF reconcileHorizontalPodAutoscaler, OperatorTypeOK, ClusterTypeOK,
        HasTemplate
<1>5. CASE ReconcileStatus
  <2>1. Observation \in Observations
    BY ObservationTypes DEF OperatorTypeOK
  <2>2. updateRuntimeStatus(Observation)
    BY <1>5 DEF ReconcileStatus
  <2>3. /\ rt' \in Runtimes /\ rtFresh' \in BOOLEAN
        /\ unannounced' \subseteq ConditionTypes
        /\ w' \in Workers /\ queued' \in BOOLEAN
    BY <2>1, <2>2, UpdateRuntimeStatusType
  <2> QED
    BY <1>5, <2>3
    DEF ReconcileStatus, OperatorTypeOK, ClusterTypeOK, clusterVars,
        HasTemplate
<1>6. CASE ObservationFails
  <2>1. \/ updateRuntimeStatus(EmptyObservation)
        \/ w' = Fail(w) /\ UNCHANGED <<rt, rtFresh, queued, unannounced>>
    BY <1>6 DEF ObservationFails
  <2>2. /\ rt' \in Runtimes /\ rtFresh' \in BOOLEAN
        /\ unannounced' \subseteq ConditionTypes
        /\ w' \in Workers /\ queued' \in BOOLEAN
    BY <2>1, ObservationTypes, UpdateRuntimeStatusType, FailType
    DEF OperatorTypeOK
  <2> QED
    BY <1>6, <2>2, DisturbType
    DEF ObservationFails, OperatorTypeOK, ClusterTypeOK, HasTemplate
<1>7. CASE StatusUpdateFails
  <2>1. NormalizedStatus(Observation) \in Statuses
    BY ObservationTypes, NormalizedStatusType DEF OperatorTypeOK, IsStatusOf
  <2>2. \/ UNCHANGED <<rt, rtFresh, unannounced>>
        \/ StoreStatus(NormalizedStatus(Observation))
    BY <1>7 DEF StatusUpdateFails
  <2>3. /\ rt' \in Runtimes /\ rtFresh' \in BOOLEAN
        /\ unannounced' \subseteq ConditionTypes
    BY <2>1, <2>2, StoreStatusType DEF OperatorTypeOK
  <2> QED
    BY <1>7, <2>3, DisturbType, IdleWorkerType
    DEF StatusUpdateFails, OperatorTypeOK, ClusterTypeOK, HasTemplate
<1>8. CASE RecordEvents
  BY <1>8, FinishType
  DEF RecordEvents, OperatorTypeOK, ClusterTypeOK, clusterVars, HasTemplate
<1> QED
  BY <1>1, <1>2, <1>3, <1>4, <1>5, <1>6, <1>7, <1>8, Worker DEF Worker

(* A restart keeps the types.                                              *)
LEMMA RestartType ==
    ASSUME TypeInv, OperatorRestarts
    PROVE  TypeInv'
  BY DisturbType, IdleWorkerType
  DEF OperatorRestarts, TypeInv, OperatorTypeOK, ClusterTypeOK, HasTemplate

(* Every step of the system keeps the types.                               *)
LEMMA TypeInvStep == TypeInv /\ [Next]_vars => TypeInv'
<1>1. ASSUME TypeInv, Next PROVE TypeInv'
  BY <1>1, EnvironmentType, WatchType, WorkerType, RestartType DEF Next
<1>2. ASSUME TypeInv, UNCHANGED vars PROVE TypeInv'
  BY <1>2
  DEF vars, clusterVars, operatorVars, TypeInv, OperatorTypeOK, ClusterTypeOK,
      HasTemplate
<1> QED
  BY <1>1, <1>2

(* Every variable keeps its type, whatever users, caches, the cluster and  *)
(* the worker do.                                                          *)
THEOREM TypeCorrect == Spec => []TypeOK
  BY InitType, TypeInvStep, TypeInvImplies, PTL DEF Spec

-----------------------------------------------------------------------------
(* LastSuccessfulImageWasRolledOut.  The image is taken from a Deployment  *)
(* read from a cache, by a worker that holds a copy of the status read     *)
(* from another cache, so the invariant speaks of all these copies: a      *)
(* Deployment whose counters look complete and whose generation is         *)
(* observed has been rolled out, wherever it is.                           *)

DeploymentSound(d) ==
    (/\ d.exists /\ d.observed
     /\ d.updated = d.total /\ d.ready = d.total /\ d.unavailable = 0)
       => d.image \in completed

StatusSound(r) == r.status.lastSuccessfulImage \in completed \cup {None}

RolloutInv ==
    /\ DeploymentSound(dep) /\ DeploymentSound(cdep)
    /\ StatusSound(rt) /\ StatusSound(crt) /\ StatusSound(w.held)

(* The status the Deployment controller writes is complete only if the     *)
(* rollout is, because equal counters mean equal sets of Pods.             *)
LEMMA PodsBecomeSound ==
    ASSUME dep \in Deployments, NEW ps, NEW k, PodsBecome(ps, k)
    PROVE  DeploymentSound(dep)' /\ completed \subseteq completed'
<1> DEFINE total == Cardinality(Running(ps))
           current == Cardinality(Current(dep, ps))
           serving == Cardinality(Serving(ps))
           wanted == IF dep.replicas > total THEN dep.replicas ELSE total
<1>1. /\ dep'.total = total /\ dep'.updated = current
      /\ dep'.ready = serving /\ dep'.unavailable = wanted - serving
      /\ dep'.image = dep.image
  BY DEF PodsBecome, ObservedStatus, Deployments
<1>2. completed' = IF RolledOut(dep, ps) THEN completed \cup {dep.image}
                                         ELSE completed
  BY DEF PodsBecome
<1>3. /\ total \in Nat /\ current \in Nat /\ serving \in Nat
      /\ current = total => Current(dep, ps) = Running(ps)
      /\ serving = total => Serving(ps) = Running(ps)
      /\ dep.replicas \in Nat
  BY PodCounts DEF Deployments
<1>4. (current = total /\ serving = total /\ wanted - serving = 0)
        => RolledOut(dep, ps)
  <2> SUFFICES ASSUME current = total, serving = total, wanted - serving = 0
               PROVE  RolledOut(dep, ps)
    OBVIOUS
  <2>1. serving >= dep.replicas
    <3> HIDE DEF total, current, serving
    <3> QED  BY <1>3
  <2> QED  BY <1>3, <2>1 DEF RolledOut
<1> HIDE DEF total, current, serving, wanted
<1> QED
  BY <1>1, <1>2, <1>4 DEF DeploymentSound

(* A status that takes over the image of a Deployment is right about it.   *)
LEMMA RolledOutSound ==
    ASSUME NEW spec, NEW d, DeploymentSound(d), ImageRolledOut(spec, d)
    PROVE  runtimeImage(spec.image) \in completed
<1>1. /\ d.exists /\ d.observed
      /\ CountsAre(d, desiredReplicaCount(spec, d))
  BY DEF ImageRolledOut, observeDeploymentRollout
<1>2. d.image = runtimeImage(spec.image)
  BY <1>1 DEF ImageRolledOut, deploymentCurrentImage
<1> QED
  BY <1>1, <1>2 DEF DeploymentSound, CountsAre

(* A status computed from sound copies is sound.                           *)
LEMMA NormalizedStatusSound ==
    ASSUME w \in Workers, NEW o \in Observations, DeploymentSound(o.deployment),
           StatusSound(w.held)
    PROVE  NormalizedStatus(o).lastSuccessfulImage \in completed \cup {None}
  BY NormalizedStatusType, RolledOutSound DEF IsStatusOf, StatusSound

(* Both observations a status is computed from are sound.                  *)
LEMMA ObservationSound ==
    /\ DeploymentSound(EmptyObservation.deployment)
    /\ DeploymentSound(cdep) => DeploymentSound(Observation.deployment)
  BY DEF DeploymentSound, EmptyObservation, NoDeployment, Observation

(* What the worker writes is not mistaken for a finished rollout: it is    *)
(* either a new generation or the Deployment it was before.                *)
LEMMA WriteDeploymentSound ==
    ASSUME w \in Workers, cdep \in Deployments, DeploymentSound(cdep),
           WriteDeployment, UNCHANGED completed
    PROVE  DeploymentSound(dep)'
<1>1. w.held.spec \in RuntimeSpecs
  BY SpecsAssumption DEF Workers, Runtimes
<1>2. CASE cdep.exists
  <2>1. dep' = MutatedDeployment(w.held.spec, cdep)
    BY <1>2 DEF WriteDeployment
  <2> QED
    BY <1>1, <1>2, <2>1, MutatedDeploymentType DEF DeploymentSound
<1>3. CASE ~cdep.exists
  <2>1. dep' = buildDeployment(w.held.spec)
    BY <1>3 DEF WriteDeployment
  <2> QED
    BY <1>1, <2>1, BuiltDeploymentType DEF DeploymentSound
<1> QED
  BY <1>2, <1>3

(* The cluster completes rollouts and spoils them, but never makes a       *)
(* Deployment look rolled out that is not.                                 *)
LEMMA ClusterStepSound ==
    ASSUME dep \in Deployments, DeploymentSound(dep), ClusterStep
    PROVE  DeploymentSound(dep)' /\ completed \subseteq completed'
<1>1. CASE RolloutStep \/ \E p \in PodIds : PodFails(p)
  <2>1. \E ps, k : PodsBecome(ps, k)
    BY <1>1
    DEF RolloutStep, DeploymentControllerSync, PodStarts, PodStops,
        PodBecomesReady, PodFails
  <2> QED
    BY <2>1, PodsBecomeSound
<1>2. CASE DeploymentReportsFailure
  BY <1>2 DEF DeploymentReportsFailure, DeploymentSound, Deployments
<1>3. CASE AutoscalerScales
  BY <1>3 DEF AutoscalerScales, DeploymentSound, Deployments
<1>4. CASE DeploymentDrifts
  BY <1>4 DEF DeploymentDrifts, DeploymentSound, Deployments
<1>5. CASE DeploymentDeleted
  BY <1>5 DEF DeploymentDeleted, DeploymentSound, NoDeployment
<1> QED
  BY <1>1, <1>2, <1>3, <1>4, <1>5, ClusterStep DEF ClusterStep

(* An idle worker, an absent Deployment and an empty status claim nothing. *)
LEMMA NothingClaimed ==
    /\ IdleWorker.held.status.lastSuccessfulImage = None
    /\ EmptyStatus.lastSuccessfulImage = None
    /\ NoDeployment.exists = FALSE
  BY DEF IdleWorker, EmptyStatus, NoDeployment

(* Nothing claims to be rolled out at first.                               *)
LEMMA InitSound == Init => RolloutInv
<1> SUFFICES ASSUME Init PROVE RolloutInv
  OBVIOUS
<1>1. DeploymentSound(dep) /\ DeploymentSound(cdep)
  BY NothingClaimed DEF Init, DeploymentSound
<1>2. /\ rt.status = EmptyStatus /\ crt.status = EmptyStatus
      /\ w = IdleWorker
  BY DEF Init
<1> QED
  BY <1>1, <1>2, NothingClaimed DEF RolloutInv, StatusSound

(* Users, Secrets and the cluster keep the copies sound.                   *)
LEMMA EnvironmentSound ==
    ASSUME TypeInv, RolloutInv, Environment
    PROVE  RolloutInv'
<1> USE DEF TypeInv, OperatorTypeOK, ClusterTypeOK
<1>1. CASE ClusterStep /\ UNCHANGED operatorVars
  <2>1. DeploymentSound(dep)' /\ completed \subseteq completed'
    BY <1>1, ClusterStepSound DEF RolloutInv
  <2>2. UNCHANGED <<rt, crt, cdep, w>>
    BY <1>1 DEF operatorVars
  <2> QED
    BY <2>1, <2>2 DEF RolloutInv, DeploymentSound, StatusSound
<1>2. CASE UserEditsSpec
  BY <1>2
  DEF UserEditsSpec, Stale, clusterVars, RolloutInv, DeploymentSound,
      StatusSound, Runtimes, Workers
<1>3. CASE UserDeletesRuntime
  BY <1>3
  DEF UserDeletesRuntime, Stale, RolloutInv, DeploymentSound, StatusSound,
      Runtimes, Workers
<1>4. CASE GarbageCollects
  <2>1. /\ rt'.status = rt.status /\ w'.held = w.held
        /\ UNCHANGED <<crt, cdep, completed>>
    BY <1>4 DEF GarbageCollects, Stale, Runtimes, Workers
  <2>2. dep' = NoDeployment \/ dep' = dep
    BY <1>4 DEF GarbageCollects
  <2>3. DeploymentSound(dep)'
    BY <2>1, <2>2, NothingClaimed DEF RolloutInv, DeploymentSound
  <2> QED
    BY <2>1, <2>3 DEF RolloutInv, DeploymentSound, StatusSound
<1>5. CASE SecretChanges
  BY <1>5 DEF SecretChanges, RolloutInv, DeploymentSound, StatusSound
<1> QED
  BY <1>1, <1>2, <1>3, <1>4, <1>5, Environment DEF Environment

(* A cache that catches up stays sound.                                    *)
LEMMA WatchSound ==
    ASSUME RolloutInv, Watch
    PROVE  RolloutInv'
<1>1. UNCHANGED <<dep, rt, completed>>
  BY DEF Watch, WatchRuntime, WatchDeployment, WatchSecrets, clusterVars
<1>2. (cdep' = cdep \/ cdep' = dep) /\ (crt' = crt \/ crt' = rt)
  BY DEF Watch, WatchRuntime, WatchDeployment, WatchSecrets, clusterVars
<1>3. w' = w
  BY DEF Watch, WatchRuntime, WatchDeployment, WatchSecrets
<1>4. DeploymentSound(dep)' /\ DeploymentSound(cdep)'
  BY <1>1, <1>2 DEF RolloutInv, DeploymentSound
<1> QED
  BY <1>1, <1>2, <1>3, <1>4 DEF RolloutInv, StatusSound

(* updateRuntimeStatus stores a sound status.                              *)
LEMMA UpdateRuntimeStatusSound ==
    ASSUME TypeInv, RolloutInv, NEW o \in Observations,
           DeploymentSound(o.deployment), updateRuntimeStatus(o),
           UNCHANGED completed
    PROVE  StatusSound(rt)' /\ StatusSound(w.held)'
<1> USE DEF TypeInv, OperatorTypeOK
<1>1. NormalizedStatus(o).lastSuccessfulImage \in completed \cup {None}
  BY NormalizedStatusSound DEF RolloutInv
<1>2. rt'.status = rt.status \/ rt'.status = NormalizedStatus(o)
  BY DEF updateRuntimeStatus, StoreStatus, Runtimes
<1>3. w'.held = w.held \/ w' = IdleWorker
  BY DEF updateRuntimeStatus, Finish, Workers
<1>4. StatusSound(rt)'
  BY <1>1, <1>2 DEF RolloutInv, StatusSound
<1>5. StatusSound(w.held)'
  BY <1>3, NothingClaimed DEF RolloutInv, StatusSound
<1> QED
  BY <1>4, <1>5

(* Every step of a reconciliation keeps the copies sound.                  *)
LEMMA WorkerSound ==
    ASSUME TypeInv, RolloutInv, Worker
    PROVE  RolloutInv'
<1> USE DEF TypeInv, OperatorTypeOK
<1>1. CASE ReconcileSkipsDeleted
  BY <1>1
  DEF ReconcileSkipsDeleted, clusterVars, RolloutInv, DeploymentSound,
      StatusSound
<1>2. CASE Reconcile
  <2>1. w'.held = crt /\ UNCHANGED <<dep, cdep, rt, crt, completed>>
    BY <1>2 DEF Reconcile
  <2> QED
    BY <2>1 DEF RolloutInv, DeploymentSound, StatusSound
<1>3. CASE reconcileDeployment
  <2>1. DeploymentSound(dep)'
    BY <1>3, WriteDeploymentSound
    DEF reconcileDeployment, RolloutInv, DeploymentSound
  <2>2. w'.held = w.held
    BY <1>3 DEF reconcileDeployment, Fail, Workers
  <2> QED
    BY <1>3, <2>1, <2>2
    DEF reconcileDeployment, RolloutInv, DeploymentSound, StatusSound
<1>4. CASE reconcileHorizontalPodAutoscaler
  BY <1>4
  DEF reconcileHorizontalPodAutoscaler, Fail, Workers, RolloutInv,
      DeploymentSound, StatusSound
<1>5. CASE ReconcileStatus
  <2>1. /\ updateRuntimeStatus(Observation)
        /\ UNCHANGED <<dep, cdep, crt, completed>>
    BY <1>5 DEF ReconcileStatus, clusterVars
  <2>2. StatusSound(rt)' /\ StatusSound(w.held)'
    BY <2>1, ObservationTypes, ObservationSound, UpdateRuntimeStatusSound
    DEF RolloutInv
  <2> QED
    BY <2>1, <2>2 DEF RolloutInv, DeploymentSound, StatusSound
<1>6. CASE ObservationFails
  <2>1. /\ \/ updateRuntimeStatus(EmptyObservation)
           \/ w' = Fail(w) /\ UNCHANGED rt
        /\ UNCHANGED <<dep, cdep, crt, completed>>
    BY <1>6 DEF ObservationFails
  <2>2. StatusSound(rt)' /\ StatusSound(w.held)'
    BY <2>1, ObservationTypes, ObservationSound, UpdateRuntimeStatusSound
    DEF RolloutInv, StatusSound, Fail, Workers
  <2> QED
    BY <2>1, <2>2 DEF RolloutInv, DeploymentSound, StatusSound
<1>7. CASE StatusUpdateFails
  <2>1. /\ \/ rt' = rt
           \/ rt' = [rt EXCEPT !.status = NormalizedStatus(Observation)]
        /\ w' = IdleWorker
        /\ UNCHANGED <<dep, cdep, crt, completed>>
    BY <1>7 DEF StatusUpdateFails, StoreStatus
  <2>2. NormalizedStatus(Observation).lastSuccessfulImage
          \in completed \cup {None}
    BY ObservationTypes, ObservationSound, NormalizedStatusSound
    DEF RolloutInv
  <2> QED
    BY <2>1, <2>2
    DEF RolloutInv, DeploymentSound, StatusSound, Runtimes, IdleWorker,
        EmptyStatus
<1>8. CASE RecordEvents
  BY <1>8
  DEF RecordEvents, Finish, clusterVars, RolloutInv, DeploymentSound,
      StatusSound, IdleWorker, EmptyStatus
<1> QED
  BY <1>1, <1>2, <1>3, <1>4, <1>5, <1>6, <1>7, <1>8, Worker DEF Worker

(* Every step of the system keeps the copies sound.                        *)
LEMMA RolloutInvStep == TypeInv /\ RolloutInv /\ [Next]_vars => RolloutInv'
<1>1. ASSUME RolloutInv, OperatorRestarts PROVE RolloutInv'
  BY <1>1
  DEF OperatorRestarts, RolloutInv, DeploymentSound, StatusSound, IdleWorker,
      EmptyStatus
<1>2. ASSUME RolloutInv, UNCHANGED vars PROVE RolloutInv'
  BY <1>2
  DEF vars, clusterVars, operatorVars, RolloutInv, DeploymentSound, StatusSound
<1> QED
  BY <1>1, <1>2, EnvironmentSound, WatchSound, WorkerSound DEF Next

(* applyUpgradeStatus: status.lastSuccessfulImage has really been rolled   *)
(* out, for any number of Pods, edits and disturbances of any kind.        *)
THEOREM LastImageTheorem == Spec => []LastSuccessfulImageWasRolledOut
<1>1. RolloutInv => LastSuccessfulImageWasRolledOut
  BY DEF RolloutInv, StatusSound, LastSuccessfulImageWasRolledOut
<1> QED
  BY <1>1, InitType, InitSound, TypeInvStep, RolloutInvStep, PTL DEF Spec

==============================================================================
