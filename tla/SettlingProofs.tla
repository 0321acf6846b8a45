---------------------------- MODULE SettlingProofs ----------------------------
(***************************************************************************)
(* RuntimeReconciler loses no wakeup: when no reconciliation runs, none is *)
(* due and no event is on its way, the runtime has what its spec asks for  *)
(* and its status says so.  The argument is about debts.  A reconciliation *)
(* is due whenever the worker may have acted on an old copy or failed; a   *)
(* debt is paid only by starting a reconciliation, and one that ends       *)
(* without a new debt has put everything in place.  From the same          *)
(* invariants: reconciling what is in place changes nothing, a report just *)
(* stored is exact, and an operator that reads its own writes comes to     *)
(* rest with an exact report.                                              *)
(***************************************************************************)
EXTENDS UpgradeRefinementProofs

-----------------------------------------------------------------------------
(* Copies of the runtime follow the stored one.                            *)

(* The runtime r is an earlier version of s: the spec changes with the     *)
(* generation, and within a generation a report once made stays made.      *)
Follows(r, s) ==
    /\ r.gen <= s.gen
    /\ r.gen = s.gen =>
         /\ r.spec = s.spec
         /\ r.status.observedGeneration = s.gen
              => s.status.observedGeneration = s.gen
         /\ r.status.lastSuccessfulImage = runtimeImage(s.spec.image)
              => s.status.lastSuccessfulImage = runtimeImage(s.spec.image)

(* A report of the present generation is of the present spec; the copies   *)
(* in the cache and in the worker's hands are earlier versions.            *)
CopiesInv ==
    /\ rt.status.observedGeneration <= rt.gen
    /\ rt.status.observedGeneration = rt.gen
         => rt.status.desiredImage = runtimeImage(rt.spec.image)
    /\ Follows(crt, rt)
    /\ w.pc # "idle" => Follows(w.held, rt)

(* Every runtime is an earlier version of itself, ...                      *)
LEMMA FollowsItself ==
    ASSUME NEW r \in Runtimes
    PROVE  Follows(r, r)
  BY DEF Follows, Runtimes

(* ... and of whatever a later version of it is followed by.               *)
LEMMA FollowsOn ==
    ASSUME NEW r \in Runtimes, NEW s \in Runtimes, NEW t \in Runtimes,
           Follows(r, s), Follows(s, t)
    PROVE  Follows(r, t)
<1>1. /\ r.gen \in Nat /\ s.gen \in Nat /\ t.gen \in Nat
      /\ r.gen <= s.gen /\ s.gen <= t.gen
  BY DEF Runtimes, Follows
<1>2. r.gen <= t.gen /\ (r.gen = t.gen => r.gen = s.gen /\ s.gen = t.gen)
  BY <1>1
<1> QED
  BY <1>2 DEF Follows

(* The ways in which the stored runtime changes.                           *)
LEMMA RuntimeChanges ==
    ASSUME TypeInv, LockInv, [Next]_vars
    PROVE  \/ UNCHANGED rt
           \/ rt'.gen = rt.gen + 1 /\ rt'.status = rt.status
           \/ rt' = [rt EXCEPT !.phase = "gone"]
           \/ /\ rt'.gen = rt.gen /\ rt'.spec = rt.spec
              /\ rt'.status.observedGeneration = rt.gen
              /\ rt'.status.desiredImage = runtimeImage(rt.spec.image)
              /\ rt'.status.lastSuccessfulImage
                   \in {rt.status.lastSuccessfulImage,
                        runtimeImage(rt.spec.image)}
<1> USE DEF TypeInv, OperatorTypeOK
<1>1. CASE rt'.status # rt.status
  <2>1. PICK o \in {Observation, EmptyObservation} :
            rt' = [rt EXCEPT !.status = NormalizedStatus(o)]
    BY <1>1, StoredStatusIsComputed
  <2>2. w.held = rt /\ w \in Workers /\ rt \in Runtimes /\ o \in Observations
    BY <1>1, StoredStatusIsComputed, ObservationTypes
  <2>3. IsStatusOf(NormalizedStatus(o), rt, o.deployment)
    BY <2>2, NormalizedStatusType
  <2>4. rt'.status = NormalizedStatus(o) /\ rt'.gen = rt.gen /\ rt'.spec = rt.spec
    BY <2>1, <2>2 DEF Runtimes
  <2> QED
    BY <2>3, <2>4 DEF IsStatusOf
<1>2. CASE UserEditsSpec
  BY <1>2 DEF UserEditsSpec, Runtimes
<1>3. CASE UserDeletesRuntime
  BY <1>3 DEF UserDeletesRuntime, Runtimes
<1>4. CASE GarbageCollects
  BY <1>4 DEF GarbageCollects
<1>5. CASE (ClusterStep /\ UNCHANGED operatorVars) \/ SecretChanges
  BY <1>5 DEF operatorVars, SecretChanges
<1>6. CASE Watch \/ OperatorRestarts \/ UNCHANGED vars
  BY <1>6
  DEF Watch, WatchRuntime, WatchDeployment, WatchSecrets, OperatorRestarts,
      vars, operatorVars
<1>7. CASE \/ ReconcileSkipsDeleted \/ Reconcile \/ reconcileDeployment
           \/ reconcileHorizontalPodAutoscaler \/ RecordEvents
  BY <1>7
  DEF ReconcileSkipsDeleted, Reconcile, reconcileDeployment,
      reconcileHorizontalPodAutoscaler, RecordEvents
<1>8. CASE rt'.status = rt.status
             /\ (ReconcileStatus \/ ObservationFails \/ StatusUpdateFails)
  <2>1. rt' = rt \/ \E s : rt' = [rt EXCEPT !.status = s]
    BY <1>8
    DEF ReconcileStatus, ObservationFails, StatusUpdateFails,
        updateRuntimeStatus, StoreStatus
  <2> QED
    BY <1>8, <2>1 DEF Runtimes
<1> QED
  BY <1>1, <1>2, <1>3, <1>4, <1>5, <1>6, <1>7, <1>8 DEF Next, Environment, Worker

(* The stored runtime follows its past.                                    *)
LEMMA RuntimeFollows ==
    ASSUME TypeInv, TypeInv', LockInv, [Next]_vars
    PROVE  Follows(rt, rt')
<1>1. rt \in Runtimes /\ rt' \in Runtimes
  BY DEF TypeInv, OperatorTypeOK
<1>2. CASE UNCHANGED rt
  BY <1>1, <1>2, FollowsItself
<1>3. CASE rt'.gen = rt.gen + 1
  BY <1>1, <1>3 DEF Follows, Runtimes
<1>4. CASE rt' = [rt EXCEPT !.phase = "gone"]
  BY <1>1, <1>4 DEF Follows, Runtimes
<1>5. CASE /\ rt'.gen = rt.gen /\ rt'.spec = rt.spec
           /\ rt'.status.observedGeneration = rt.gen
           /\ rt'.status.lastSuccessfulImage
                \in {rt.status.lastSuccessfulImage, runtimeImage(rt.spec.image)}
  BY <1>1, <1>5 DEF Follows, Runtimes
<1> QED
  BY <1>2, <1>3, <1>4, <1>5, RuntimeChanges

(* Copies are taken from the stored runtime or from one another.           *)
LEMMA CopyChanges ==
    ASSUME TypeInv, [Next]_vars
    PROVE  /\ crt' = crt \/ (crt' = rt /\ UNCHANGED rt)
           /\ \/ w'.pc = "idle"
              \/ w.pc # "idle" /\ w'.held = w.held
              \/ w'.held = crt
<1> USE DEF TypeInv, OperatorTypeOK
<1>1. CASE Environment
  <2>1. crt' = crt /\ (w' = w \/ w' = Stale(w))
    BY <1>1
    DEF Environment, operatorVars, UserEditsSpec, UserDeletesRuntime,
        GarbageCollects, SecretChanges
  <2>2. w'.held = w.held /\ w'.pc = w.pc
    BY <2>1 DEF Stale, Workers
  <2> QED
    BY <2>1, <2>2
<1>2. CASE Watch \/ OperatorRestarts \/ UNCHANGED vars
  BY <1>2
  DEF Watch, WatchRuntime, WatchDeployment, WatchSecrets, OperatorRestarts,
      IdleWorker, vars, operatorVars
<1>3. CASE ReconcileSkipsDeleted \/ Reconcile
  BY <1>3 DEF ReconcileSkipsDeleted, Reconcile
<1>4. CASE reconcileDeployment \/ reconcileHorizontalPodAutoscaler
  BY <1>4
  DEF reconcileDeployment, reconcileHorizontalPodAutoscaler, Fail, Workers
<1>5. CASE \/ ReconcileStatus \/ ObservationFails \/ StatusUpdateFails
           \/ RecordEvents
  <2>1. /\ crt' = crt
        /\ \/ w' = IdleWorker
           \/ w.pc = "status" /\ w' = Fail(w)
           \/ w.pc = "status"
              /\ \E s : w' = [w EXCEPT !.pc = "events", !.current = FALSE,
                                       !.written = s]
    BY <1>5
    DEF ReconcileStatus, ObservationFails, StatusUpdateFails, RecordEvents,
        updateRuntimeStatus, Finish
  <2>2. IdleWorker.pc = "idle" /\ Fail(w).held = w.held
    BY DEF IdleWorker, Fail, Workers
  <2>3. ASSUME NEW s, w' = [w EXCEPT !.pc = "events", !.current = FALSE,
                                     !.written = s]
        PROVE  w'.held = w.held
    BY <2>3 DEF Workers
  <2> QED
    BY <2>1, <2>2, <2>3
<1> QED
  BY <1>1, <1>2, <1>3, <1>4, <1>5 DEF Next, Worker

(* So the copies stay earlier versions of the stored runtime.              *)
LEMMA CopiesInvStep ==
    TypeInv /\ TypeInv' /\ LockInv /\ CopiesInv /\ [Next]_vars => CopiesInv'
<1> SUFFICES ASSUME TypeInv, TypeInv', LockInv, CopiesInv, [Next]_vars
             PROVE  CopiesInv'
  OBVIOUS
<1>1. /\ rt \in Runtimes /\ crt \in Runtimes /\ w.held \in Runtimes
      /\ rt' \in Runtimes
  BY DEF TypeInv, OperatorTypeOK, Workers
<1>2. Follows(rt, rt')
  BY RuntimeFollows
<1>3. Follows(crt, rt') /\ (w.pc # "idle" => Follows(w.held, rt'))
  BY <1>1, <1>2, FollowsOn DEF CopiesInv
<1>4. Follows(crt', rt')
  BY <1>2, <1>3, CopyChanges
<1>5. w'.pc # "idle" => Follows(w'.held, rt')
  BY <1>3, CopyChanges
<1>6. /\ rt'.status.observedGeneration <= rt'.gen
      /\ rt'.status.observedGeneration = rt'.gen
           => rt'.status.desiredImage = runtimeImage(rt'.spec.image)
  <2>1. /\ rt.gen \in Nat /\ rt.status.observedGeneration \in Nat
        /\ rt.status.observedGeneration <= rt.gen
    BY <1>1 DEF Runtimes, Statuses, CopiesInv
  <2>2. CASE rt'.gen = rt.gen + 1 /\ rt'.status = rt.status
    BY <2>1, <2>2
  <2>3. CASE UNCHANGED rt \/ rt' = [rt EXCEPT !.phase = "gone"]
    BY <1>1, <2>3 DEF CopiesInv, Runtimes
  <2>4. CASE /\ rt'.gen = rt.gen /\ rt'.spec = rt.spec
             /\ rt'.status.observedGeneration = rt.gen
             /\ rt'.status.desiredImage = runtimeImage(rt.spec.image)
    BY <2>1, <2>4
  <2> QED
    BY <2>2, <2>3, <2>4, RuntimeChanges
<1> QED
  BY <1>4, <1>5, <1>6 DEF CopiesInv

(* At first the copies are the stored runtime, and nothing is reported.    *)
LEMMA CopiesInit == Init => CopiesInv
<1> SUFFICES ASSUME Init PROVE CopiesInv
  OBVIOUS
<1>1. /\ rt.status = EmptyStatus /\ rt.gen = 1 /\ rt \in Runtimes
      /\ crt = rt /\ w.pc = "idle"
  BY InitType DEF Init, IdleWorker, TypeInv, OperatorTypeOK
<1>2. rt.status.observedGeneration = 0
  BY <1>1 DEF EmptyStatus
<1> QED
  BY <1>1, <1>2, FollowsItself DEF CopiesInv

(* The invariants about copies, for every behaviour.                       *)
LEMMA Copied == Spec => [](TypeInv /\ LockInv /\ CopiesInv)
<1>1. TypeInv /\ LockInv /\ CopiesInv /\ [Next]_vars => CopiesInv'
  BY TypeInvStep, CopiesInvStep
<1> QED
  BY <1>1, CopiesInit, Locked, PTL DEF Spec

-----------------------------------------------------------------------------
(* Reconciling again.                                                      *)

(* reconcileDeployment: what is in place is written as it is, or the       *)
(* cached Deployment is outdated and the write is refused.                 *)
LEMMA DeploymentRewritten ==
    ASSUME TypeInv, LockInv, ResourcesInPlace, w.held.spec = rt.spec,
           WriteDeployment
    PROVE  dep' = dep
<1> DEFINE s == rt.spec
           b == buildDeployment(s)
<1>1. dep \in Deployments /\ s \in RuntimeSpecs
  BY SpecsAssumption DEF TypeInv, ClusterTypeOK, OperatorTypeOK, Runtimes
<1>2. runtimeImage(s.image) # None
  BY <1>1, ImageType, NoneAssumption
<1>3. dep.image = runtimeImage(s.image) /\ dep.cfg = s.cfg
  BY DEF ResourcesInPlace, Template
<1>4. dep.exists
  BY <1>2, <1>3 DEF LockInv, NoDeployment
<1>5. cdep = dep /\ dep' = MutatedDeployment(s, dep)
  BY <1>4 DEF WriteDeployment, DeploymentRefused, LockInv
<1>6. /\ b.image = dep.image /\ b.cfg = dep.cfg
      /\ ~s.autoscaling => b.replicas = dep.replicas
  BY <1>3
  DEF buildDeployment, NoDeployment, initialDeploymentReplicas,
      autoscalingEnabled, ResourcesInPlace
<1> HIDE DEF s, b
<1>7. MutatedDeployment(s, dep)
        = [dep EXCEPT !.image = dep.image, !.cfg = dep.cfg,
                      !.replicas = dep.replicas, !.observed = dep.observed]
  <2>1. (IF autoscalingEnabled(s) THEN dep.replicas ELSE b.replicas)
          = dep.replicas
    BY <1>6 DEF autoscalingEnabled
  <2>2. dep.observed \in BOOLEAN
    BY <1>1 DEF Deployments
  <2> QED
    BY <1>6, <2>1, <2>2 DEF MutatedDeployment, b
<1> QED
  BY <1>1, <1>5, <1>7 DEF Deployments

(* reconcileCoreResources: for any specs and disturbances, a               *)
(* reconciliation of the stored spec changes nothing that is in place,     *)
(* however late the caches and whatever step of it fails.                  *)
THEOREM IdempotenceTheorem == Spec => ReconciliationIsIdempotent
<1>1. ASSUME TypeInv, LockInv, CopiesInv, [Next]_vars, w'.pc # w.pc,
             rt.phase = "live", w.held.gen = rt.gen, ResourcesInPlace
      PROVE  UNCHANGED <<dep, svc, hpa>>
  <2> USE <1>1 DEF TypeInv, OperatorTypeOK
  <2>1. CASE Environment
    <3>1. w' = w \/ w' = Stale(w)
      BY <2>1
      DEF Environment, operatorVars, UserEditsSpec, UserDeletesRuntime,
          GarbageCollects, SecretChanges
    <3> QED
      BY <3>1 DEF Stale, Workers
  <2>2. CASE Watch \/ ReconcileSkipsDeleted \/ UNCHANGED vars
    BY <2>2
    DEF Watch, WatchRuntime, WatchDeployment, WatchSecrets,
        ReconcileSkipsDeleted, vars, operatorVars
  <2>3. CASE \/ Reconcile \/ ReconcileStatus \/ ObservationFails
             \/ StatusUpdateFails \/ RecordEvents \/ OperatorRestarts
    BY <2>3
    DEF Reconcile, ReconcileStatus, ObservationFails, StatusUpdateFails,
        RecordEvents, OperatorRestarts, clusterVars
  <2>4. CASE reconcileDeployment
    <3>1. w.held.spec = rt.spec
      BY <2>4 DEF reconcileDeployment, CopiesInv, Follows
    <3>2. hpa' = hpa /\ (svc' = svc \/ svc' = w.held.spec.port)
      BY <2>4 DEF reconcileDeployment, reconcileService
    <3>3. dep' = dep \/ WriteDeployment
      BY <2>4 DEF reconcileDeployment
    <3> QED
      BY <3>1, <3>2, <3>3, DeploymentRewritten DEF ResourcesInPlace
  <2>5. CASE reconcileHorizontalPodAutoscaler
    <3>1. w.held.spec = rt.spec
      BY <2>5 DEF reconcileHorizontalPodAutoscaler, CopiesInv, Follows
    <3> QED
      BY <2>5, <3>1 DEF reconcileHorizontalPodAutoscaler, ResourcesInPlace
  <2> QED
    BY <2>1, <2>2, <2>3, <2>4, <2>5 DEF Next, Worker
<1>2. ASSUME TypeInv, LockInv, CopiesInv, [Next]_vars
      PROVE  [(/\ w'.pc # w.pc
               /\ rt.phase = "live" /\ w.held.gen = rt.gen
               /\ ResourcesInPlace)
                => UNCHANGED <<dep, svc, hpa>>]_vars
  BY <1>1, <1>2
<1> QED
  BY <1>2, Copied, PTL DEF Spec, ReconciliationIsIdempotent

(* A status computed from the stored runtime is stored as the report the   *)
(* next reconciliation would make.                                         *)
LEMMA StoredIsExact ==
    ASSUME TypeInv, TypeInv', w.path # "failed", w.held = rt,
           UNCHANGED <<cdep, svc>>, w'.validation = w.validation,
           rt' = [rt EXCEPT !.status = NormalizedStatus(Observation)]
    PROVE  (rt.status = ReportOf(w.validation))'
<1> DEFINE v == w.validation
           o == Observation
<1>1. /\ rt \in Runtimes /\ v \in Validations /\ o \in Observations
      /\ Now \in Nat
  BY ObservationTypes DEF TypeInv, OperatorTypeOK, Workers, Now
<1>2. IsRuntime(rt) /\ IsRuntime(rt')
  BY HeldIsRuntime DEF TypeInv, OperatorTypeOK
<1>3. /\ rt'.gen = rt.gen /\ rt'.spec = rt.spec
      /\ rt'.status = preserveRuntimeConditionTransitionTimes(rt.status,
                          buildRuntimeStatus(rt, o, v, Now))
  BY <1>1 DEF NormalizedStatus, Runtimes
<1>4. o' = o /\ Now' = Now /\ v' = v
  BY DEF Observation, Now
<1> HIDE DEF v, o
<1>5. ASSUME NEW r, IsRuntime(r), r.gen = rt.gen, r.spec = rt.spec,
             r.status = preserveRuntimeConditionTransitionTimes(rt.status,
                            buildRuntimeStatus(rt, o, v, Now))
      PROVE  preserveRuntimeConditionTransitionTimes(r.status,
                 buildRuntimeStatus(r, o, v, Now)) = r.status
  BY <1>1, <1>2, <1>5, ReportAgain
<1>6. ReportOf(v)' = preserveRuntimeConditionTransitionTimes(rt'.status,
                         buildRuntimeStatus(rt', o, v, Now))
  BY <1>4 DEF ReportOf, o
<1>7. preserveRuntimeConditionTransitionTimes(rt'.status,
          buildRuntimeStatus(rt', o, v, Now)) = rt'.status
  BY <1>2, <1>3, <1>5
<1> QED
  BY <1>6, <1>7 DEF v

(* While Events are recorded and nothing is queued, what the status was    *)
(* computed from stays as it is.                                           *)
LEMMA QuietWhileRecording ==
    ASSUME TypeInv, LockInv, CopiesInv, [Next]_vars, w.pc = "events",
           w'.pc = "events", rt'.phase = "live", w'.held.gen = rt'.gen, ~queued'
    PROVE  /\ UNCHANGED <<rt, cdep, svc, queued>>
           /\ w'.held = w.held /\ w'.path = w.path
           /\ w'.validation = w.validation
<1> USE DEF TypeInv, OperatorTypeOK
<1>1. CASE UserEditsSpec
  <2>1. w'.held = w.held /\ rt'.gen = rt.gen + 1
    BY <1>1 DEF UserEditsSpec, Stale, Workers, Runtimes
  <2>2. w.held.gen <= rt.gen /\ rt.gen \in Nat
    BY DEF CopiesInv, Follows, Runtimes
  <2> QED
    BY <2>1, <2>2
<1>2. CASE UserDeletesRuntime \/ GarbageCollects
  BY <1>2 DEF UserDeletesRuntime, GarbageCollects, Runtimes
<1>3. CASE (ClusterStep /\ UNCHANGED operatorVars) \/ SecretChanges
  BY <1>3 DEF operatorVars, SecretChanges
<1>4. CASE Watch \/ UNCHANGED vars
  BY <1>4
  DEF Watch, WatchRuntime, WatchDeployment, WatchSecrets, vars, operatorVars
<1>5. CASE Worker \/ OperatorRestarts
  <2>1. ~RecordEvents /\ ~OperatorRestarts
    BY DEF RecordEvents, Finish, OperatorRestarts, IdleWorker
  <2>2. ~ReconcileSkipsDeleted /\ ~Reconcile
    BY DEF ReconcileSkipsDeleted, Reconcile
  <2>3. ~reconcileDeployment /\ ~reconcileHorizontalPodAutoscaler
    BY DEF reconcileDeployment, reconcileHorizontalPodAutoscaler
  <2>4. ~ReconcileStatus /\ ~ObservationFails /\ ~StatusUpdateFails
    BY DEF ReconcileStatus, ObservationFails, StatusUpdateFails
  <2> QED
    BY <1>5, <2>1, <2>2, <2>3, <2>4, Zenon DEF Worker
<1> QED
  BY <1>1, <1>2, <1>3, <1>4, <1>5 DEF Next, Environment

(* Events are recorded of a status just stored, or of one stored before.   *)
LEMMA RecordingBegins ==
    ASSUME TypeInv, LockInv, [Next]_vars, w.pc # "events", w'.pc = "events"
    PROVE  /\ w'.path = w.path /\ w'.validation = w.validation
           /\ UNCHANGED <<cdep, svc>>
           /\ \/ w.path = "failed"
              \/ /\ w.held = rt
                 /\ rt' = [rt EXCEPT !.status = NormalizedStatus(Observation)]
<1> USE DEF TypeInv, OperatorTypeOK
<1>1. \/ ReconcileStatus
      \/ ObservationFails /\ w.path = "failed"
  <2>1. CASE Environment
    <3>1. w' = w \/ w' = Stale(w)
      BY <2>1
      DEF Environment, operatorVars, UserEditsSpec, UserDeletesRuntime,
          GarbageCollects, SecretChanges
    <3> QED
      BY <3>1 DEF Stale, Workers
  <2>2. CASE Watch \/ ReconcileSkipsDeleted \/ UNCHANGED vars
    BY <2>2
    DEF Watch, WatchRuntime, WatchDeployment, WatchSecrets,
        ReconcileSkipsDeleted, vars, operatorVars
  <2>3. CASE \/ Reconcile \/ StatusUpdateFails \/ RecordEvents
             \/ OperatorRestarts
    <3>1. ~Reconcile
      BY DEF Reconcile
    <3>2. ~StatusUpdateFails
      BY DEF StatusUpdateFails, Finish, IdleWorker
    <3>3. ~RecordEvents /\ ~OperatorRestarts
      BY DEF RecordEvents, OperatorRestarts, IdleWorker
    <3> QED
      BY <2>3, <3>1, <3>2, <3>3, Zenon
  <2>4. CASE reconcileDeployment \/ reconcileHorizontalPodAutoscaler
    BY <2>4
    DEF reconcileDeployment, reconcileHorizontalPodAutoscaler, Fail, Workers
  <2>5. CASE ObservationFails /\ w.path # "failed"
    BY <2>5 DEF ObservationFails, Fail, Workers
  <2> QED
    BY <2>1, <2>2, <2>3, <2>4, <2>5 DEF Next, Worker
<1>2. PICK o \in {Observation, EmptyObservation} :
          /\ updateRuntimeStatus(o) /\ UNCHANGED <<cdep, svc>>
          /\ w.path = "failed" \/ o = Observation
  BY <1>1 DEF ReconcileStatus, ObservationFails
<1>3. /\ ~StatusRefused /\ StoreStatus(NormalizedStatus(o))
      /\ w' = [w EXCEPT !.pc = "events", !.current = FALSE,
                        !.written = NormalizedStatus(o)]
  BY <1>2 DEF updateRuntimeStatus, Finish, IdleWorker
<1>4. w'.path = w.path /\ w'.validation = w.validation
  BY <1>3 DEF Workers
<1>5. w.held = rt /\ rt' = [rt EXCEPT !.status = NormalizedStatus(o)]
  BY <1>3, StoreStatusLocked DEF StoreStatus
<1> QED
  BY <1>2, <1>4, <1>5

(* updateRuntimeStatus and the watches: until a reconciliation is queued   *)
(* again, the status just stored is to the last field what reconciling     *)
(* once more would report, for any specs, Secrets, Pods and disturbances.  *)
THEOREM ExactReportTheorem == Spec => []StoredReportIsExact
<1>1. Init => StoredReportIsExact
  BY DEF Init, IdleWorker, StoredReportIsExact
<1>2. ASSUME TypeInv, TypeInv', LockInv, CopiesInv, StoredReportIsExact,
             [Next]_vars
      PROVE  StoredReportIsExact'
  <2> SUFFICES ASSUME w'.pc = "events", w'.path # "failed",
                      rt'.phase = "live", w'.held.gen = rt'.gen, ~queued'
               PROVE  (rt.status = ReportOf(w.validation))'
    BY DEF StoredReportIsExact
  <2>1. CASE w.pc = "events"
    <3>1. /\ UNCHANGED <<rt, cdep, svc, queued>>
          /\ w'.held = w.held /\ w'.path = w.path
          /\ w'.validation = w.validation
      BY <1>2, <2>1, QuietWhileRecording
    <3>2. rt.status = ReportOf(w.validation)
      BY <1>2, <2>1, <3>1 DEF StoredReportIsExact
    <3> QED
      BY <3>1, <3>2 DEF ReportOf, Observation, Now
  <2>2. CASE w.pc # "events"
    BY <1>2, <2>2, RecordingBegins, StoredIsExact
  <2> QED
    BY <2>1, <2>2
<1>3. TypeInv /\ LockInv /\ CopiesInv /\ StoredReportIsExact /\ [Next]_vars
        => StoredReportIsExact'
  BY <1>2, TypeInvStep
<1> QED
  BY <1>1, <1>3, Copied, PTL DEF Spec

-----------------------------------------------------------------------------
(* Debts.                                                                  *)

(* A reconciliation will start: the key is queued, the one that runs will  *)
(* queue it again, or an event that queues it is on its way.               *)
Due ==
    \/ queued
    \/ w.pc # "idle" /\ w.path = "failed"
    \/ crt.gen # rt.gen \/ crt.phase # rt.phase
    \/ ~depFresh

(* The operator knows of every Secret the spec refers to.                  *)
KnownReferences == referencedSecretNames(rt.spec) \subseteq csecrets

(* ResourcesInPlace up to the Deployment.                                  *)
DeploymentInPlace ==
    /\ svc = rt.spec.port
    /\ Template(dep) = <<runtimeImage(rt.spec.image), rt.spec.cfg>>
    /\ ~rt.spec.autoscaling => dep.replicas = desiredReplicas(rt.spec)

(* What a reconciliation has done by the time it reaches each of its       *)
(* steps, and what it leaves behind.                                       *)
Progress ==
    /\ w.pc # "idle" => w.held.gen = rt.gen
    /\ w.pc \in {"deployment", "autoscaler"} => w.path = "reconcile"
    /\ w.pc = "autoscaler" => DeploymentInPlace
    /\ w.pc \in {"status", "events"} =>
         \/ w.path = "reconcile" /\ ResourcesInPlace
         \/ w.path = "invalid" /\ ~KnownReferences
    /\ w.pc \in {"events", "idle"} => StatusReported
    /\ w.pc = "idle" => ResourcesInPlace \/ ~KnownReferences

ProgressInv == rt.phase = "live" /\ ~Due => Progress

(* Without a debt, the copies are of the present generation.               *)
LEMMA CopiesArePresent ==
    ASSUME CopiesInv, rt.phase = "live", ~Due, ProgressInv
    PROVE  /\ Progress
           /\ crt.phase = "live" /\ crt.spec = rt.spec
           /\ w.pc # "idle" => w.held.spec = rt.spec /\ Follows(w.held, rt)
  BY DEF CopiesInv, Due, ProgressInv, Progress, Follows

(* A step that changes nothing Progress speaks of.                         *)
LEMMA ProgressStays ==
    ASSUME Progress, UNCHANGED <<rt, w, dep, svc, hpa>>,
           (KnownReferences <=> KnownReferences')
    PROVE  Progress'
<1>1. /\ DeploymentInPlace' <=> DeploymentInPlace
      /\ ResourcesInPlace' <=> ResourcesInPlace
      /\ StatusReported' <=> StatusReported
  BY DEF DeploymentInPlace, ResourcesInPlace, StatusReported
<1> QED
  BY <1>1 DEF Progress

(* Users and the cluster: every change of the runtime or the Deployment    *)
(* is a debt.                                                              *)
LEMMA EnvironmentProgress ==
    ASSUME TypeInv, CopiesInv, ProgressInv, Environment
    PROVE  ProgressInv'
<1> USE DEF TypeInv, OperatorTypeOK, ClusterTypeOK
<1>1. CASE ClusterStep /\ UNCHANGED operatorVars
  BY <1>1, ClusterStepLocked DEF ProgressInv, Due
<1>2. CASE UserEditsSpec
  <2>1. rt'.gen = rt.gen + 1 /\ crt' = crt /\ crt.gen <= rt.gen
    BY <1>2 DEF UserEditsSpec, Runtimes, CopiesInv, Follows
  <2>2. crt'.gen # rt'.gen
    BY <2>1 DEF Runtimes
  <2> QED
    BY <2>2 DEF ProgressInv, Due
<1>3. CASE UserDeletesRuntime \/ GarbageCollects
  <2>1. rt'.phase # "live"
    BY <1>3 DEF UserDeletesRuntime, GarbageCollects, Runtimes
  <2> QED
    BY <2>1 DEF ProgressInv
<1>4. CASE SecretChanges
  <2>1. UNCHANGED <<rt, crt, w, queued, dep, depFresh, svc, hpa, csecrets>>
    BY <1>4 DEF SecretChanges
  <2>2. UNCHANGED KnownReferences /\ UNCHANGED Due
    BY <2>1 DEF KnownReferences, Due
  <2> QED
    BY <2>1, <2>2, ProgressStays DEF ProgressInv
<1> QED
  BY <1>1, <1>2, <1>3, <1>4, Environment DEF Environment

(* The watches: what they deliver queues the key, unless it changes        *)
(* nothing the last reconciliation looked at.                              *)
LEMMA WatchProgress ==
    ASSUME TypeInv, CopiesInv, ProgressInv, Watch, "list" \notin Faults
    PROVE  ProgressInv'
<1>1. CASE WatchRuntime
  <2>1. /\ UNCHANGED <<rt, w, dep, depFresh, svc, hpa, csecrets>>
        /\ queued' = (queued \/ crt.gen # rt.gen \/ crt.phase # rt.phase)
    BY <1>1 DEF WatchRuntime, clusterVars
  <2>2. UNCHANGED KnownReferences /\ (~Due' => ~Due)
    BY <2>1 DEF KnownReferences, Due
  <2> QED
    BY <2>1, <2>2, ProgressStays DEF ProgressInv
<1>2. CASE WatchDeployment
  BY <1>2 DEF WatchDeployment, ProgressInv, Due
<1>3. CASE WatchSecrets
  <2> DEFINE changed == (secrets \ csecrets) \cup (csecrets \ secrets)
  <2>1. /\ UNCHANGED <<rt, crt, w, dep, depFresh, svc, hpa>>
        /\ csecrets' = secrets
        /\ queued' = (queued \/ mapSecretToRuntimes(changed))
    BY <1>3 DEF WatchSecrets, clusterVars
  <2> SUFFICES ASSUME rt'.phase = "live", ~Due'
               PROVE  Progress'
    BY DEF ProgressInv
  <2>2. rt.phase = "live" /\ ~Due /\ ~mapSecretToRuntimes(changed)
    BY <2>1 DEF Due
  <2>3. Progress /\ crt.phase = "live" /\ crt.spec = rt.spec
    BY <2>2, CopiesArePresent
  <2>4. changed \cap referencedSecretNames(rt.spec) = {}
    BY <2>2, <2>3 DEF mapSecretToRuntimes, runtimeReferencesSecret
  <2>5. KnownReferences <=> KnownReferences'
    BY <2>1, <2>4 DEF KnownReferences
  <2> QED
    BY <2>1, <2>3, <2>5, ProgressStays
<1> QED
  BY <1>1, <1>2, <1>3, Watch DEF Watch

(* Reconcile finds the Secrets of the present spec, or reports that it     *)
(* does not.                                                               *)
LEMMA ReconcileProgress ==
    ASSUME TypeInv, CopiesInv, Reconcile
    PROVE  ProgressInv'
<1> SUFFICES ASSUME rt'.phase = "live", ~Due'
             PROVE  Progress'
  BY DEF ProgressInv
<1>1. UNCHANGED <<rt, crt, csecrets>>
  BY DEF Reconcile
<1>2. crt.gen = rt.gen /\ crt.spec = rt.spec
  BY <1>1 DEF Due, CopiesInv, Follows
<1>3. PICK v \in validateSecretReferences(crt.spec, csecrets) :
          w' = [ pc |-> IF v.valid THEN "deployment" ELSE "status",
                 path |-> IF v.err THEN "failed"
                          ELSE IF v.valid THEN "reconcile" ELSE "invalid",
                 held |-> crt, current |-> rtFresh, validation |-> v,
                 written |-> EmptyStatus ]
  BY DEF Reconcile
<1>4. w'.held.gen = rt'.gen
  BY <1>1, <1>2, <1>3
<1>5. CASE v.err
  BY <1>3, <1>5 DEF Due
<1>6. CASE ~v.err /\ v.valid
  <2>1. w'.pc = "deployment" /\ w'.path = "reconcile"
    BY <1>3, <1>6
  <2> QED
    BY <1>4, <2>1 DEF Progress
<1>7. CASE ~v.err /\ ~v.valid
  <2>1. w'.pc = "status" /\ w'.path = "invalid"
    BY <1>3, <1>7
  <2>2. ~(referencedSecretNames(crt.spec) \subseteq csecrets)
    BY <1>3, <1>7 DEF validateSecretReferences, validReferenceValidation
  <2> QED
    BY <1>1, <1>2, <1>4, <2>1, <2>2 DEF Progress, KnownReferences
<1> QED
  BY <1>5, <1>6, <1>7

(* What reconcileDeployment writes has the template and, unless the        *)
(* autoscaler chooses it, the scale of the spec.                           *)
LEMMA WrittenDeployment ==
    ASSUME TypeInv, WriteDeployment
    PROVE  LET s == w.held.spec
           IN  /\ Template(dep') = <<runtimeImage(s.image), s.cfg>>
               /\ ~s.autoscaling => dep'.replicas = desiredReplicas(s)
<1> DEFINE s == w.held.spec
           b == buildDeployment(s)
<1>1. cdep \in Deployments
  BY DEF TypeInv, OperatorTypeOK
<1>2. /\ b.image = runtimeImage(s.image) /\ b.cfg = s.cfg
      /\ ~s.autoscaling => b.replicas = desiredReplicas(s)
  BY DEF buildDeployment, NoDeployment, initialDeploymentReplicas,
         autoscalingEnabled
<1>3. CASE cdep.exists
  <2> DEFINE m == MutatedDeployment(s, cdep)
  <2>1. dep' = m
    BY <1>3 DEF WriteDeployment
  <2>2. /\ m.image = b.image /\ m.cfg = b.cfg
        /\ ~s.autoscaling => m.replicas = b.replicas
    BY <1>1 DEF MutatedDeployment, Deployments, autoscalingEnabled
  <2> HIDE DEF m, b
  <2> QED
    BY <1>2, <2>1, <2>2 DEF Template
<1>4. CASE ~cdep.exists
  <2>1. dep' = b
    BY <1>4 DEF WriteDeployment
  <2> HIDE DEF b
  <2> QED
    BY <1>2, <2>1 DEF Template
<1> QED
  BY <1>3, <1>4

(* Past the Deployment, it is in place or was changed since.               *)
LEMMA DeploymentProgress ==
    ASSUME TypeInv, LockInv, CopiesInv, ProgressInv, reconcileDeployment
    PROVE  ProgressInv'
<1> SUFFICES ASSUME rt'.phase = "live", ~Due'
             PROVE  Progress'
  BY DEF ProgressInv
<1>1. w \in Workers /\ w.pc = "deployment" /\ UNCHANGED <<rt, crt>>
  BY DEF TypeInv, OperatorTypeOK, reconcileDeployment
<1>2. Fail(w).pc = "status" /\ Fail(w).path = "failed"
  BY <1>1 DEF Fail, Workers
<1>3. /\ reconcileService /\ WriteDeployment
      /\ w' = [w EXCEPT !.pc = "autoscaler"]
  BY <1>2 DEF reconcileDeployment, Due
<1>4. w'.pc = "autoscaler" /\ w'.path = w.path /\ w'.held = w.held
  BY <1>1, <1>3 DEF Workers
<1>5. ~Due /\ rt.phase = "live"
  <2>1. depFresh' => depFresh
    BY <1>3, WriteDeploymentLocked
  <2>2. queued => queued'
    BY <1>3 DEF reconcileService
  <2> QED
    BY <1>1, <1>4, <2>1, <2>2 DEF Due
<1>6. Progress /\ w.held.spec = rt.spec
  BY <1>1, <1>5, CopiesArePresent
<1>7. DeploymentInPlace'
  BY <1>1, <1>3, <1>6, WrittenDeployment DEF DeploymentInPlace, reconcileService
<1> QED
  BY <1>1, <1>4, <1>6, <1>7 DEF Progress

(* Past the autoscaler, everything is in place.                            *)
LEMMA AutoscalerProgress ==
    ASSUME TypeInv, CopiesInv, ProgressInv, reconcileHorizontalPodAutoscaler
    PROVE  ProgressInv'
<1> SUFFICES ASSUME rt'.phase = "live", ~Due'
             PROVE  Progress'
  BY DEF ProgressInv
<1>1. /\ w \in Workers /\ w.pc = "autoscaler"
      /\ UNCHANGED <<rt, crt, dep, depFresh, svc, queued>>
  BY DEF TypeInv, OperatorTypeOK, reconcileHorizontalPodAutoscaler
<1>2. Fail(w).pc = "status" /\ Fail(w).path = "failed"
  BY <1>1 DEF Fail, Workers
<1>3. /\ hpa' = buildHorizontalPodAutoscaler(w.held.spec)
      /\ w' = [w EXCEPT !.pc = "status"]
  BY <1>2 DEF reconcileHorizontalPodAutoscaler, Due
<1>4. w'.pc = "status" /\ w'.path = w.path /\ w'.held = w.held
  BY <1>1, <1>3 DEF Workers
<1>5. ~Due /\ rt.phase = "live"
  BY <1>1, <1>4 DEF Due
<1>6. Progress /\ w.held.spec = rt.spec
  BY <1>1, <1>5, CopiesArePresent
<1>7. ResourcesInPlace'
  BY <1>1, <1>3, <1>6 DEF Progress, DeploymentInPlace, ResourcesInPlace
<1> QED
  BY <1>1, <1>4, <1>6, <1>7 DEF Progress

(* The status computed from present copies reports what is to report.      *)
LEMMA ComputedReport ==
    ASSUME TypeInv, LockInv, ~Due, w.held.gen = rt.gen, w.held.spec = rt.spec
    PROVE  LET n == NormalizedStatus(Observation)
           IN  /\ n.observedGeneration = rt.gen
               /\ n.desiredImage = runtimeImage(rt.spec.image)
               /\ ImageRolledOut(rt.spec, dep)
                    => n.lastSuccessfulImage = runtimeImage(rt.spec.image)
<1>1. w \in Workers /\ Observation \in Observations
  BY ObservationTypes DEF TypeInv, OperatorTypeOK
<1>2. Observation.deployment = dep
  BY DEF Observation, LockInv, Due
<1> QED
  BY <1>1, <1>2, NormalizedStatusType, NormalizedReport
  DEF IsStatusOf, IsUpgradeReport

(* The status is stored, refused, or found to be what is wanted.           *)
LEMMA StatusProgress ==
    ASSUME TypeInv, LockInv, CopiesInv, ProgressInv, ReconcileStatus
    PROVE  ProgressInv'
<1> DEFINE n == NormalizedStatus(Observation)
<1> SUFFICES ASSUME rt'.phase = "live", ~Due'
             PROVE  Progress'
  BY DEF ProgressInv
<1>1. /\ w \in Workers /\ rt \in Runtimes /\ w.pc = "status"
      /\ UNCHANGED <<crt, dep, depFresh, svc, hpa, csecrets>>
  BY DEF TypeInv, OperatorTypeOK, ReconcileStatus, clusterVars
<1>2. \/ n = w.held.status /\ Finish /\ UNCHANGED rt
      \/ /\ StoreStatus(n)
         /\ w' = [w EXCEPT !.pc = "events", !.current = FALSE, !.written = n]
         /\ UNCHANGED queued
      \/ queued' = TRUE
  BY DEF ReconcileStatus, updateRuntimeStatus
<1> HIDE DEF n
<1>3. CASE n = w.held.status /\ Finish /\ UNCHANGED rt
  <2>1. ~Due /\ rt.phase = "live" /\ w'.pc = "idle"
    BY <1>1, <1>3 DEF Due, Finish, IdleWorker
  <2>2. /\ Progress /\ w.held.spec = rt.spec /\ w.held.gen = rt.gen
        /\ Follows(w.held, rt)
    BY <1>1, <2>1, CopiesArePresent DEF Progress
  <2>3. /\ w.held.status.observedGeneration = rt.gen
        /\ ImageRolledOut(rt.spec, dep)
             => w.held.status.lastSuccessfulImage = runtimeImage(rt.spec.image)
    BY <1>3, <2>1, <2>2, ComputedReport DEF n
  <2>4. StatusReported
    BY <2>2, <2>3 DEF StatusReported, Follows, CopiesInv
  <2>5. StatusReported' /\ (ResourcesInPlace' \/ ~KnownReferences')
    BY <1>1, <1>3, <2>2, <2>4
    DEF Progress, StatusReported, ResourcesInPlace, KnownReferences
  <2> QED
    BY <2>1, <2>5 DEF Progress
<1>4. CASE /\ StoreStatus(n)
           /\ w' = [w EXCEPT !.pc = "events", !.current = FALSE, !.written = n]
           /\ UNCHANGED queued
  <2>1. /\ rt'.status = n /\ rt'.gen = rt.gen /\ rt'.spec = rt.spec
        /\ rt'.phase = rt.phase
    BY <1>1, <1>4 DEF StoreStatus, Runtimes
  <2>2. w'.pc = "events" /\ w'.path = w.path /\ w'.held = w.held
    BY <1>1, <1>4 DEF Workers
  <2>3. ~Due /\ rt.phase = "live"
    BY <1>1, <1>4, <2>1, <2>2 DEF Due
  <2>4. Progress /\ w.held.spec = rt.spec /\ w.held.gen = rt.gen
    BY <1>1, <2>3, CopiesArePresent DEF Progress
  <2>5. StatusReported'
    BY <1>1, <2>1, <2>3, <2>4, ComputedReport DEF StatusReported, n
  <2>6. /\ ResourcesInPlace' <=> ResourcesInPlace
        /\ KnownReferences' <=> KnownReferences
    BY <1>1, <2>1 DEF ResourcesInPlace, KnownReferences
  <2> QED
    BY <1>1, <2>1, <2>2, <2>4, <2>5, <2>6 DEF Progress
<1>5. CASE queued' = TRUE
  BY <1>5 DEF Due
<1> QED
  BY <1>2, <1>3, <1>4, <1>5

(* Whatever fails, the key is queued again.                                *)
LEMMA FailureIsDue ==
    ASSUME TypeInv, ObservationFails \/ StatusUpdateFails \/ OperatorRestarts
    PROVE  Due'
<1>1. w \in Workers
  BY DEF TypeInv, OperatorTypeOK
<1>2. ASSUME NEW s, w' = [w EXCEPT !.pc = "events", !.current = FALSE,
                                   !.written = s]
      PROVE  w'.pc = "events" /\ w'.path = w.path
  BY <1>1, <1>2 DEF Workers
<1>3. Fail(w).pc = "status" /\ Fail(w).path = "failed"
  BY <1>1 DEF Fail, Workers
<1>4. queued' \/ (w'.pc # "idle" /\ w'.path = "failed")
  <2>1. CASE StatusUpdateFails \/ OperatorRestarts
    BY <2>1 DEF StatusUpdateFails, OperatorRestarts
  <2>2. CASE ObservationFails /\ w.path # "failed"
    BY <1>3, <2>2 DEF ObservationFails
  <2>3. CASE ObservationFails /\ w.path = "failed"
    <3>1. \/ Finish \/ queued' = TRUE
          \/ \E s : w' = [w EXCEPT !.pc = "events", !.current = FALSE,
                                   !.written = s]
      BY <2>3 DEF ObservationFails, updateRuntimeStatus
    <3> QED
      BY <1>2, <2>3, <3>1 DEF Finish
  <2> QED
    BY <2>1, <2>2, <2>3
<1> QED
  BY <1>4 DEF Due

(* Every step keeps the invariant; the rest of the worker's steps and the  *)
(* steps that change nothing.                                              *)
LEMMA ProgressInvStep ==
    TypeInv /\ LockInv /\ CopiesInv /\ ProgressInv /\ "list" \notin Faults
      /\ [Next]_vars => ProgressInv'
<1> SUFFICES ASSUME TypeInv, LockInv, CopiesInv, ProgressInv,
                    "list" \notin Faults, [Next]_vars
             PROVE  ProgressInv'
  OBVIOUS
<1>1. CASE ReconcileSkipsDeleted
  BY <1>1 DEF ReconcileSkipsDeleted, ProgressInv, Due
<1>2. CASE RecordEvents
  <2> SUFFICES ASSUME rt'.phase = "live", ~Due'
               PROVE  Progress'
    BY DEF ProgressInv
  <2>1. /\ w.pc = "events" /\ w'.pc = "idle"
        /\ queued' = (queued \/ w.path = "failed")
        /\ UNCHANGED <<rt, crt, dep, depFresh, svc, hpa, csecrets>>
    BY <1>2 DEF RecordEvents, Finish, IdleWorker, clusterVars
  <2>2. Progress
    BY <2>1 DEF ProgressInv, Due
  <2> QED
    BY <2>1, <2>2
    DEF Progress, StatusReported, ResourcesInPlace, KnownReferences
<1>3. CASE UNCHANGED vars
  <2>1. UNCHANGED <<rt, crt, w, queued, dep, depFresh, svc, hpa, csecrets>>
    BY <1>3 DEF vars, operatorVars, clusterVars
  <2>2. UNCHANGED KnownReferences /\ UNCHANGED Due
    BY <2>1 DEF KnownReferences, Due
  <2> QED
    BY <2>1, <2>2, ProgressStays DEF ProgressInv
<1>4. CASE ObservationFails \/ StatusUpdateFails \/ OperatorRestarts
  BY <1>4, FailureIsDue DEF ProgressInv
<1> QED
  BY <1>1, <1>2, <1>3, <1>4, EnvironmentProgress, WatchProgress,
     ReconcileProgress, DeploymentProgress, AutoscalerProgress, StatusProgress
  DEF Next, Worker

(* SetupWithManager's watches and Reconcile's error returns lose no        *)
(* wakeup: for any specs, Secrets, Pods and disturbances, an operator that *)
(* has come to rest has left a runtime whose Secrets exist with what its   *)
(* spec asks for and with a status that says so.                           *)
THEOREM SettledTheorem == Spec => []RestMeansSettled
<1>1. CASE "list" \in Faults
  <2>1. RestMeansSettled
    BY <1>1 DEF RestMeansSettled
  <2> QED
    BY <2>1, PTL
<1>2. CASE "list" \notin Faults
  <2>1. Init => CopiesInv /\ ProgressInv
    BY CopiesInit DEF Init, ProgressInv, Due
  <2>2. TypeInv /\ LockInv /\ CopiesInv /\ ProgressInv /\ [Next]_vars
          => CopiesInv' /\ ProgressInv'
    BY <1>2, TypeInvStep, CopiesInvStep, ProgressInvStep
  <2>3. LockInv /\ ProgressInv => RestMeansSettled
    <3> SUFFICES ASSUME LockInv, ProgressInv, AtRest, rt.phase = "live",
                        ReferencesExist
                 PROVE  ResourcesInPlace /\ StatusReported
      BY DEF RestMeansSettled
    <3>1. ~Due /\ w.pc = "idle"
      BY DEF AtRest, WorkerWaits, Due, LockInv
    <3>2. KnownReferences
      BY DEF AtRest, ReferencesExist, KnownReferences
    <3> QED
      BY <3>1, <3>2 DEF ProgressInv, Progress
  <2> QED
    BY <2>1, <2>2, <2>3, Locked, PTL DEF Spec
<1> QED
  BY <1>1, <1>2

-----------------------------------------------------------------------------
(* Reading one's own writes.  A status write does not wake the operator    *)
(* (GenerationChangedPredicate), so a reconciliation that reads the        *)
(* runtime before the cache shows the last status write can conclude that  *)
(* there is nothing to write, and leave that write standing.  This is the  *)
(* only way in which a report goes out of date.                            *)

(* A reconciliation starts from a cache that shows the runtime as stored.  *)
ReadsOwnWrites == [][Reconcile => rtFresh]_vars

(* The status is what a reconciliation that finds the Secrets "present"    *)
(* would report, if no request of it fails.                                *)
Reported(present) ==
    \E v \in validateSecretReferences(rt.spec, present) :
        ~v.err /\ rt.status = ReportOf(v)

(* At rest the status is what the Deployment, the Service and the Secrets  *)
(* of the cluster give to report, failures of the past forgotten.          *)
RestMeansReported ==
    AtRest /\ rt.phase = "live" /\ "list" \notin Faults => Reported(secrets)

(* A reconciliation without a debt works on the stored runtime and has     *)
(* checked its Secrets; when it is done, its report is exact.              *)
Reporting ==
    IF w.pc \in {"idle", "events"}
    THEN Reported(csecrets)
    ELSE /\ w.current
         /\ w.validation \in validateSecretReferences(rt.spec, csecrets)
         /\ ~w.validation.err

ReportingInv == rt.phase = "live" /\ ~Due => Reporting

(* A step that changes nothing Reporting speaks of.                        *)
LEMMA ReportingStays ==
    ASSUME Reporting, UNCHANGED <<rt, w, cdep, svc>>,
           validateSecretReferences(rt.spec, csecrets')
             = validateSecretReferences(rt.spec, csecrets)
    PROVE  Reporting'
<1>1. \A v : ReportOf(v)' = ReportOf(v)
  BY DEF ReportOf, Observation, Now
<1> QED
  BY <1>1 DEF Reporting, Reported

(* Users and the cluster.                                                  *)
LEMMA EnvironmentReporting ==
    ASSUME TypeInv, CopiesInv, ReportingInv, Environment
    PROVE  ReportingInv'
<1> USE DEF TypeInv, OperatorTypeOK, ClusterTypeOK
<1>1. CASE ClusterStep /\ UNCHANGED operatorVars
  BY <1>1, ClusterStepLocked DEF ReportingInv, Due
<1>2. CASE UserEditsSpec
  <2>1. rt'.gen = rt.gen + 1 /\ crt' = crt /\ crt.gen <= rt.gen
    BY <1>2 DEF UserEditsSpec, Runtimes, CopiesInv, Follows
  <2>2. crt'.gen # rt'.gen
    BY <2>1 DEF Runtimes
  <2> QED
    BY <2>2 DEF ReportingInv, Due
<1>3. CASE UserDeletesRuntime \/ GarbageCollects
  <2>1. rt'.phase # "live"
    BY <1>3 DEF UserDeletesRuntime, GarbageCollects, Runtimes
  <2> QED
    BY <2>1 DEF ReportingInv
<1>4. CASE SecretChanges
  <2>1. UNCHANGED <<rt, crt, w, queued, depFresh, cdep, svc, csecrets>>
    BY <1>4 DEF SecretChanges
  <2>2. UNCHANGED Due
    BY <2>1 DEF Due
  <2> QED
    BY <2>1, <2>2, ReportingStays DEF ReportingInv
<1> QED
  BY <1>1, <1>2, <1>3, <1>4, Environment DEF Environment

(* The watches: a Secret whose arrival queues nothing is not referred to.  *)
LEMMA WatchReporting ==
    ASSUME TypeInv, CopiesInv, ReportingInv, Watch, "list" \notin Faults
    PROVE  ReportingInv'
<1>1. CASE WatchRuntime
  <2>1. /\ UNCHANGED <<rt, w, depFresh, cdep, svc, csecrets>>
        /\ queued' = (queued \/ crt.gen # rt.gen \/ crt.phase # rt.phase)
    BY <1>1 DEF WatchRuntime, clusterVars
  <2>2. ~Due' => ~Due
    BY <2>1 DEF Due
  <2> QED
    BY <2>1, <2>2, ReportingStays DEF ReportingInv
<1>2. CASE WatchDeployment
  BY <1>2 DEF WatchDeployment, ReportingInv, Due
<1>3. CASE WatchSecrets
  <2> DEFINE changed == (secrets \ csecrets) \cup (csecrets \ secrets)
             names == referencedSecretNames(rt.spec)
  <2>1. /\ UNCHANGED <<rt, crt, w, depFresh, cdep, svc>>
        /\ csecrets' = secrets
        /\ queued' = (queued \/ mapSecretToRuntimes(changed))
    BY <1>3 DEF WatchSecrets, clusterVars
  <2> SUFFICES ASSUME rt'.phase = "live", ~Due'
               PROVE  Reporting'
    BY DEF ReportingInv
  <2>2. rt.phase = "live" /\ ~Due /\ ~mapSecretToRuntimes(changed)
    BY <2>1 DEF Due
  <2>3. Reporting /\ crt.phase = "live" /\ crt.spec = rt.spec
    BY <2>2 DEF ReportingInv, Due, CopiesInv, Follows
  <2>4. changed \cap names = {}
    BY <2>2, <2>3 DEF mapSecretToRuntimes, runtimeReferencesSecret
  <2>5. names \subseteq csecrets' <=> names \subseteq csecrets
    BY <2>1, <2>4
  <2>6. validateSecretReferences(rt.spec, csecrets')
          = validateSecretReferences(rt.spec, csecrets)
    BY <2>5 DEF validateSecretReferences
  <2> QED
    BY <2>1, <2>3, <2>6, ReportingStays
<1> QED
  BY <1>1, <1>2, <1>3, Watch DEF Watch

(* A reconciliation that starts from the stored runtime.                   *)
LEMMA ReconcileReporting ==
    ASSUME TypeInv, CopiesInv, Reconcile, rtFresh
    PROVE  ReportingInv'
<1> SUFFICES ASSUME rt'.phase = "live", ~Due'
             PROVE  Reporting'
  BY DEF ReportingInv
<1>1. UNCHANGED <<rt, crt, csecrets>>
  BY DEF Reconcile
<1>2. crt.spec = rt.spec
  BY <1>1 DEF Due, CopiesInv, Follows
<1>3. PICK v \in validateSecretReferences(crt.spec, csecrets) :
          w' = [ pc |-> IF v.valid THEN "deployment" ELSE "status",
                 path |-> IF v.err THEN "failed"
                          ELSE IF v.valid THEN "reconcile" ELSE "invalid",
                 held |-> crt, current |-> rtFresh, validation |-> v,
                 written |-> EmptyStatus ]
  BY DEF Reconcile
<1>4. w'.pc \notin {"idle", "events"} /\ w'.current /\ w'.validation = v
  BY <1>3
<1>5. ~v.err
  BY <1>3, <1>4 DEF Due
<1> QED
  BY <1>1, <1>2, <1>4, <1>5 DEF Reporting

(* Writing the resources leaves the copy of the runtime current.           *)
LEMMA ResourcesReporting ==
    ASSUME TypeInv, LockInv, ReportingInv,
           reconcileDeployment \/ reconcileHorizontalPodAutoscaler
    PROVE  ReportingInv'
<1> SUFFICES ASSUME rt'.phase = "live", ~Due'
             PROVE  Reporting'
  BY DEF ReportingInv
<1>1. w \in Workers /\ UNCHANGED <<rt, crt, csecrets>>
  BY DEF TypeInv, OperatorTypeOK, reconcileDeployment,
         reconcileHorizontalPodAutoscaler
<1>2. Fail(w).pc = "status" /\ Fail(w).path = "failed"
  BY <1>1 DEF Fail, Workers
<1>3. /\ w.pc \in {"deployment", "autoscaler"}
      /\ \/ w' = [w EXCEPT !.pc = "autoscaler"]
         \/ w' = [w EXCEPT !.pc = "status"]
  BY <1>2 DEF reconcileDeployment, reconcileHorizontalPodAutoscaler, Due
<1>4. /\ w'.pc \in {"autoscaler", "status"} /\ w'.path = w.path
      /\ w'.current = w.current /\ w'.validation = w.validation
  BY <1>1, <1>3 DEF Workers
<1>5. (depFresh' => depFresh) /\ (queued => queued')
  <2>1. CASE reconcileDeployment
    <3>1. queued' = queued \/ reconcileService
      BY <2>1 DEF reconcileDeployment
    <3>2. WriteDeployment \/ depFresh' = depFresh
      BY <2>1 DEF reconcileDeployment
    <3>3. queued => queued'
      BY <3>1 DEF reconcileService
    <3> QED
      BY <3>2, <3>3, WriteDeploymentLocked
  <2>2. CASE reconcileHorizontalPodAutoscaler
    BY <2>2 DEF reconcileHorizontalPodAutoscaler
  <2> QED
    BY <2>1, <2>2
<1>6. ~Due /\ rt.phase = "live"
  BY <1>1, <1>3, <1>4, <1>5 DEF Due
<1> QED
  BY <1>1, <1>3, <1>4, <1>6 DEF ReportingInv, Reporting

(* The status is stored, refused, or found to be what is wanted.           *)
LEMMA StatusReporting ==
    ASSUME TypeInv, TypeInv', LockInv, ReportingInv, ReconcileStatus
    PROVE  ReportingInv'
<1> DEFINE n == NormalizedStatus(Observation)
           v == w.validation
<1> SUFFICES ASSUME rt'.phase = "live", ~Due'
             PROVE  Reporting'
  BY DEF ReportingInv
<1>1. /\ w \in Workers /\ rt \in Runtimes /\ w.pc = "status"
      /\ UNCHANGED <<crt, depFresh, cdep, svc, csecrets>>
  BY DEF TypeInv, OperatorTypeOK, ReconcileStatus, clusterVars
<1>2. \/ n = w.held.status /\ Finish /\ UNCHANGED rt
      \/ /\ StoreStatus(n)
         /\ w' = [w EXCEPT !.pc = "events", !.current = FALSE, !.written = n]
         /\ UNCHANGED queued
      \/ queued' = TRUE
  BY DEF ReconcileStatus, updateRuntimeStatus
<1> HIDE DEF n
<1>3. CASE n = w.held.status /\ Finish /\ UNCHANGED rt
  <2>1. ~Due /\ rt.phase = "live" /\ w'.pc = "idle" /\ w.path # "failed"
    BY <1>1, <1>3 DEF Due, Finish, IdleWorker
  <2>2. /\ w.held = rt /\ ~v.err
        /\ v \in validateSecretReferences(rt.spec, csecrets)
    BY <1>1, <2>1 DEF ReportingInv, Reporting, LockInv
  <2>3. rt.status = ReportOf(v)
    BY <1>3, <2>1, <2>2 DEF n, NormalizedStatus, ReportOf
  <2>4. \A x : ReportOf(x)' = ReportOf(x)
    BY <1>1, <1>3 DEF ReportOf, Observation, Now
  <2>5. Reported(csecrets)'
    BY <1>1, <1>3, <2>2, <2>3, <2>4 DEF Reported
  <2> QED
    BY <2>1, <2>5 DEF Reporting
<1>4. CASE /\ StoreStatus(n)
           /\ w' = [w EXCEPT !.pc = "events", !.current = FALSE, !.written = n]
           /\ UNCHANGED queued
  <2>1. /\ rt' = [rt EXCEPT !.status = n]
        /\ rt'.spec = rt.spec /\ rt'.gen = rt.gen /\ rt'.phase = rt.phase
    BY <1>1, <1>4 DEF StoreStatus, Runtimes
  <2>2. w'.pc = "events" /\ w'.path = w.path /\ w'.validation = v
    BY <1>1, <1>4 DEF Workers
  <2>3. ~Due /\ rt.phase = "live" /\ w.path # "failed"
    BY <1>1, <1>4, <2>1, <2>2 DEF Due
  <2>4. /\ w.held = rt /\ ~v.err
        /\ v \in validateSecretReferences(rt.spec, csecrets)
    BY <1>1, <2>3 DEF ReportingInv, Reporting, LockInv
  <2>5. (rt.status = ReportOf(w.validation))'
    BY <1>1, <2>1, <2>2, <2>3, <2>4, StoredIsExact DEF n
  <2>6. Reported(csecrets)'
    BY <1>1, <2>1, <2>2, <2>4, <2>5 DEF Reported
  <2> QED
    BY <2>2, <2>6 DEF Reporting
<1>5. CASE queued' = TRUE
  BY <1>5 DEF Due
<1> QED
  BY <1>2, <1>3, <1>4, <1>5

(* Every step of an operator that reads its own writes.                    *)
LEMMA ReportingInvStep ==
    ASSUME TypeInv, TypeInv', LockInv, CopiesInv, ReportingInv,
           "list" \notin Faults, [Next]_vars, [Reconcile => rtFresh]_vars
    PROVE  ReportingInv'
<1>1. CASE ReconcileSkipsDeleted
  BY <1>1 DEF ReconcileSkipsDeleted, ReportingInv, Due
<1>2. CASE RecordEvents
  <2> SUFFICES ASSUME rt'.phase = "live", ~Due'
               PROVE  Reporting'
    BY DEF ReportingInv
  <2>1. /\ w.pc = "events" /\ w'.pc = "idle"
        /\ queued' = (queued \/ w.path = "failed")
        /\ UNCHANGED <<rt, crt, depFresh, cdep, svc, csecrets>>
    BY <1>2 DEF RecordEvents, Finish, IdleWorker, clusterVars
  <2>2. Reported(csecrets)
    BY <2>1 DEF ReportingInv, Reporting, Due
  <2>3. \A v : ReportOf(v)' = ReportOf(v)
    BY <2>1 DEF ReportOf, Observation, Now
  <2> QED
    BY <2>1, <2>2, <2>3 DEF Reporting, Reported
<1>3. CASE UNCHANGED vars
  <2>1. UNCHANGED <<rt, crt, w, queued, depFresh, cdep, svc, csecrets>>
    BY <1>3 DEF vars, operatorVars, clusterVars
  <2>2. UNCHANGED Due
    BY <2>1 DEF Due
  <2> QED
    BY <2>1, <2>2, ReportingStays DEF ReportingInv
<1>4. CASE Reconcile
  <2>1. rtFresh \/ UNCHANGED vars
    BY <1>4
  <2> QED
    BY <1>3, <1>4, <2>1, ReconcileReporting
<1>5. CASE ObservationFails \/ StatusUpdateFails \/ OperatorRestarts
  BY <1>5, FailureIsDue DEF ReportingInv
<1> QED
  BY <1>1, <1>2, <1>3, <1>4, <1>5, EnvironmentReporting, WatchReporting,
     ResourcesReporting, StatusReporting
  DEF Next, Worker

(* updateRuntimeStatus and the watches: an operator that reads its own     *)
(* writes comes to rest only with a status that is exact, for any specs,   *)
(* Secrets, Pods and disturbances.  Nothing in the code enforces the       *)
(* assumption, and without it FailureReportIsWithdrawn is violated.        *)
THEOREM ReportTheorem == Spec /\ ReadsOwnWrites => []RestMeansReported
<1>1. CASE "list" \in Faults
  <2>1. RestMeansReported
    BY <1>1 DEF RestMeansReported
  <2> QED
    BY <2>1, PTL
<1>2. CASE "list" \notin Faults
  <2>1. Init => ReportingInv
    BY DEF Init, ReportingInv, Due
  <2>2. TypeInv /\ LockInv /\ CopiesInv /\ ReportingInv /\ [Next]_vars
          /\ [Reconcile => rtFresh]_vars => ReportingInv'
    BY <1>2, TypeInvStep, ReportingInvStep
  <2>3. LockInv /\ ReportingInv => RestMeansReported
    <3> SUFFICES ASSUME LockInv, ReportingInv, AtRest, rt.phase = "live"
                 PROVE  Reported(secrets)
      BY DEF RestMeansReported
    <3>1. ~Due /\ w.pc = "idle" /\ csecrets = secrets
      BY DEF AtRest, WorkerWaits, Due, LockInv
    <3> QED
      BY <3>1 DEF ReportingInv, Reporting
  <2> QED
    BY <2>1, <2>2, <2>3, Copied, PTL DEF Spec, ReadsOwnWrites
<1> QED
  BY <1>1, <1>2

(* A reported status shows the verdicts of buildBaseRuntimeStatus.         *)
LEMMA ReportedVerdicts ==
    ASSUME TypeInv, NEW v \in validateSecretReferences(rt.spec, secrets),
           rt.status = ReportOf(v), NEW t \in BaseTypes
    PROVE  LET c == rt.status.conditions[t]
               verdict == BaseVerdicts(rt.spec, Observation.deployment, v)[t]
           IN  c.status = verdict.status /\ c.reason = verdict.reason
<1>1. IsRuntime(rt) /\ Observation \in Observations /\ v \in Validations
  BY HeldIsRuntime, ObservationTypes, ValidationType
  DEF TypeInv, OperatorTypeOK
<1>2. IsReport(ReportOf(v), rt, Observation, v, Now)
  BY <1>1, PreservedBuilt DEF ReportOf, Now
<1> QED
  BY <1>2 DEF IsReport, Shows

(* No branch of buildBaseRuntimeStatus reports a failed reconciliation.    *)
LEMMA NoFailureVerdict ==
    ASSUME NEW spec, NEW d, NEW validation
    PROVE  BaseVerdicts(spec, d, validation).Degraded.reason
             # "ReconciliationFailed"
<1> DEFINE Fine(v) == v.Degraded.reason # "ReconciliationFailed"
           n == desiredReplicaCount(spec, d)
<1>1. /\ Fine(InvalidVerdicts(spec, d, validation))
      /\ Fine(NoDeploymentVerdicts(spec))
      /\ Fine(ScaledToZeroVerdicts(d))
      /\ Fine(FailedVerdicts(d, n))
      /\ Fine(ReadyVerdicts)
      /\ Fine(ProgressingVerdicts(d, n))
  BY DEF InvalidVerdicts, NoDeploymentVerdicts, ScaledToZeroVerdicts,
         FailedVerdicts, ReadyVerdicts, ProgressingVerdicts, Verdicts, IsTrue,
         IsFalse, deploymentFailure
<1> HIDE DEF Fine
<1>2. Fine(BaseVerdicts(spec, d, validation))
  BY <1>1, Zenon DEF BaseVerdicts, n
<1> QED
  BY <1>2 DEF Fine

(* A reconciliation failure is not reported any more.                      *)
FailureWithdrawn ==
    AtRest /\ rt.phase = "live" /\ "list" \notin Faults
        => rt.status.conditions.Degraded.reason # "ReconciliationFailed"

(* handleReconciliationFailure and updateRuntimeStatus: an operator that   *)
(* reads its own writes does not come to rest with the report of a failed  *)
(* reconciliation.  One that does, as the behaviours that violate          *)
(* FailureReportIsWithdrawn, has started a reconciliation before the cache *)
(* showed that report.                                                     *)
THEOREM WithdrawalTheorem == Spec /\ ReadsOwnWrites => []FailureWithdrawn
<1>1. TypeInv /\ RestMeansReported => FailureWithdrawn
  <2> SUFFICES ASSUME TypeInv,
                      NEW v \in validateSecretReferences(rt.spec, secrets),
                      rt.status = ReportOf(v)
               PROVE  rt.status.conditions.Degraded.reason
                        # "ReconciliationFailed"
    BY DEF RestMeansReported, FailureWithdrawn, Reported
  <2>1. rt.status.conditions.Degraded.reason
          = BaseVerdicts(rt.spec, Observation.deployment, v).Degraded.reason
    BY ReportedVerdicts DEF BaseTypes
  <2> QED
    BY <2>1, NoFailureVerdict
<1> QED
  BY <1>1, ReportTheorem, Locked, PTL

(* buildBaseRuntimeStatus: when the verdict is "ready".                    *)
LEMMA ReadyVerdict ==
    ASSUME NEW spec, NEW d, NEW validation
    PROVE  LET n == desiredReplicaCount(spec, d)
           IN  BaseVerdicts(spec, d, validation).Ready.status = "True" <=>
                 /\ validation.valid
                 /\ d.exists /\ runtimeReady(d, n)
                 /\ n = 0 \/ ~deploymentHasRolloutFailure(d)
<1> DEFINE n == desiredReplicaCount(spec, d)
           Ready(v) == v.Ready.status = "True"
<1>1. /\ ~Ready(InvalidVerdicts(spec, d, validation))
      /\ ~Ready(NoDeploymentVerdicts(spec))
      /\ ~Ready(FailedVerdicts(d, n))
      /\ Ready(ReadyVerdicts)
      /\ ~Ready(ProgressingVerdicts(d, n))
  BY DEF InvalidVerdicts, NoDeploymentVerdicts, FailedVerdicts, ReadyVerdicts,
         ProgressingVerdicts, Verdicts, IsTrue, IsFalse
<1>2. Ready(ScaledToZeroVerdicts(d)) <=> runtimeReady(d, 0)
  BY DEF ScaledToZeroVerdicts, runtimeReady, Verdicts, IsTrue, IsFalse
<1> HIDE DEF Ready, n
<1>3. Ready(BaseVerdicts(spec, d, validation)) <=>
        /\ validation.valid
        /\ d.exists /\ runtimeReady(d, n)
        /\ n = 0 \/ ~deploymentHasRolloutFailure(d)
  BY <1>1, <1>2, Zenon DEF BaseVerdicts, n
<1> QED
  BY <1>3 DEF Ready, n

(* Ready is what the cluster makes it: the references exist, and the       *)
(* Deployment has observed its last change and has every replica it wants, *)
(* without a failed rollout.                                               *)
ReadyIsExact ==
    LET n == desiredReplicaCount(rt.spec, dep)
    IN  AtRest /\ rt.phase = "live" /\ "list" \notin Faults =>
          (rt.status.conditions.Ready.status = "True" <=>
             /\ ReferencesExist
             /\ dep.exists /\ runtimeReady(dep, n)
             /\ n = 0 \/ ~deploymentHasRolloutFailure(dep))

(* buildBaseRuntimeStatus, updateRuntimeStatus and the watches: when an    *)
(* operator that reads its own writes has come to rest, Ready is true      *)
(* exactly if the runtime is ready.                                        *)
THEOREM ReadyTheorem == Spec /\ ReadsOwnWrites => []ReadyIsExact
<1>1. TypeInv /\ LockInv /\ RestMeansReported => ReadyIsExact
  <2> SUFFICES ASSUME TypeInv, LockInv, AtRest, rt.phase = "live",
                      NEW v \in validateSecretReferences(rt.spec, secrets),
                      ~v.err, rt.status = ReportOf(v)
               PROVE  ReadyIsExact
    BY DEF RestMeansReported, ReadyIsExact, Reported
  <2> DEFINE n == desiredReplicaCount(rt.spec, dep)
  <2>1. rt.status.conditions.Ready.status
          = BaseVerdicts(rt.spec, Observation.deployment, v).Ready.status
    BY ReportedVerdicts DEF BaseTypes
  <2>2. Observation.deployment = dep
    BY DEF Observation, AtRest, LockInv
  <2>3. v.valid <=> ReferencesExist
    BY DEF validateSecretReferences, validReferenceValidation, ReferencesExist
  <2>4. rt.status.conditions.Ready.status = "True" <=>
          /\ v.valid
          /\ dep.exists /\ runtimeReady(dep, n)
          /\ n = 0 \/ ~deploymentHasRolloutFailure(dep)
    <3>1. BaseVerdicts(rt.spec, dep, v).Ready.status = "True" <=>
            /\ v.valid
            /\ dep.exists /\ runtimeReady(dep, n)
            /\ n = 0 \/ ~deploymentHasRolloutFailure(dep)
      BY ReadyVerdict
    <3> QED
      BY <2>1, <2>2, <3>1, Zenon
  <2> QED
    BY <2>3, <2>4, Zenon DEF ReadyIsExact
<1> QED
  BY <1>1, ReportTheorem, Locked, PTL

==============================================================================
