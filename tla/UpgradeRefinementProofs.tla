----------------------- MODULE UpgradeRefinementProofs -----------------------
(***************************************************************************)
(* RuntimeReconciler implements UpgradeLifecycle: every step of users,     *)
(* caches, cluster and worker is a step of the lifecycle of the upgrade    *)
(* report, or changes nothing of it.                                       *)
(***************************************************************************)
EXTENDS OptimisticLockingProofs

-----------------------------------------------------------------------------
(* What applyUpgradeStatus reports.                                        *)

(* n is the status r gets when the Deployment d is observed, as far as     *)
(* upgrades go.                                                            *)
IsUpgradeReport(n, r, d) ==
    LET last  == r.status.lastSuccessfulImage
        old   == r.status.conditions.Upgrading
        image == runtimeImage(r.spec.image)
        new   == n.conditions.Upgrading
    IN  /\ n.lastSuccessfulImage = IF ImageRolledOut(r.spec, d)
                                   THEN image ELSE last
        /\ new.status # "Absent"
        /\ last = None => new.reason = "NoUpgrade"
        /\ last # None /\ last # image
             => new.reason = UpgradeVerdict(r.spec, d).reason
        /\ last # None /\ last = image /\ old.status # "Absent"
             => new.reason = old.reason

(* applyUpgradeStatus reports the upgrade.                                 *)
LEMMA BuiltReport ==
    ASSUME NEW r, IsRuntime(r), NEW o \in Observations,
           NEW validation \in Validations, NEW now \in Nat
    PROVE  IsUpgradeReport(buildRuntimeStatus(r, o, validation, now), r,
                           o.deployment)
<1> DEFINE d == o.deployment
           last == r.status.lastSuccessfulImage
           old == r.status.conditions.Upgrading
           u == UpgradeCondition(r, d, r.status, now)
           n == buildRuntimeStatus(r, o, validation, now)
<1>1. /\ n.lastSuccessfulImage = IF ImageRolledOut(r.spec, d)
                                 THEN runtimeImage(r.spec.image) ELSE last
      /\ n.conditions.Upgrading = u
  BY BuiltFields
<1>2. UpgradeVerdict(r.spec, d).status # "Absent"
  BY DEF UpgradeVerdict, IsTrue, IsFalse
<1>3. /\ u.status # "Absent"
      /\ last = None => u.reason = "NoUpgrade"
      /\ last \notin {None, runtimeImage(r.spec.image)}
           => u.reason = UpgradeVerdict(r.spec, d).reason
      /\ (/\ last # None /\ last = runtimeImage(r.spec.image)
          /\ old.status # "Absent")
           => u.reason = old.reason
  BY <1>2 DEF UpgradeCondition, setRuntimeCondition, IsFalse
<1> HIDE DEF n, u
<1> QED
  BY <1>1, <1>3 DEF IsUpgradeReport, n

(* A failure is reported in other conditions.                              *)
LEMMA FailureReport ==
    ASSUME NEW r, IsRuntime(r), NEW o \in Observations, NEW now \in Nat
    PROVE  IsUpgradeReport(buildReconciliationFailureStatus(r, o, now), r,
                           o.deployment)
<1> DEFINE s == buildRuntimeStatus(r, o, validReferenceValidation, now)
           c == SetConditions(s.conditions, FailureVerdicts, r.gen, now)
           n == buildReconciliationFailureStatus(r, o, now)
<1>1. validReferenceValidation \in Validations
  BY DEF validReferenceValidation, Validations
<1>2. s \in Statuses
  BY <1>1, BuildStatusType DEF IsStatusOf
<1>3. IsUpgradeReport(s, r, o.deployment)
  BY <1>1, BuiltReport
<1>4. n = [s EXCEPT !.conditions = c]
  BY DEF buildReconciliationFailureStatus
<1> HIDE DEF s, n
<1>5. "Upgrading" \notin DOMAIN FailureVerdicts
  BY DEF FailureVerdicts
<1>6. c.Upgrading = s.conditions.Upgrading
  BY <1>5 DEF SetConditions, ConditionTypes
<1>7. /\ n.lastSuccessfulImage = s.lastSuccessfulImage
      /\ n.conditions.Upgrading = s.conditions.Upgrading
  BY <1>2, <1>4, <1>6 DEF Statuses
<1> QED
  BY <1>3, <1>7 DEF IsUpgradeReport, n

(* Preserving transition times changes neither image nor reason.           *)
LEMMA PreservedReport ==
    ASSUME NEW current \in Statuses, NEW s \in Statuses, NEW r, NEW d,
           IsUpgradeReport(s, r, d)
    PROVE  IsUpgradeReport(
               preserveRuntimeConditionTransitionTimes(current, s), r, d)
<1> DEFINE n == preserveRuntimeConditionTransitionTimes(current, s)
           new == s.conditions.Upgrading
<1>1. n.lastSuccessfulImage = s.lastSuccessfulImage
  BY PreserveType
<1>2. new \in Conditions
  BY DEF Statuses, ConditionTypes
<1>3. n.conditions.Upgrading
        \in {new, [new EXCEPT !.since = current.conditions.Upgrading.since]}
  BY DEF preserveRuntimeConditionTransitionTimes, Statuses, ConditionTypes
<1>4. /\ n.conditions.Upgrading.reason = new.reason
      /\ n.conditions.Upgrading.status = new.status
  BY <1>2, <1>3 DEF Conditions
<1> HIDE DEF n
<1> QED
  BY <1>1, <1>4 DEF IsUpgradeReport, n

(* The status a worker computes reports the upgrade of what it holds.      *)
LEMMA NormalizedReport ==
    ASSUME w \in Workers, NEW o \in Observations
    PROVE  IsUpgradeReport(NormalizedStatus(o), w.held, o.deployment)
<1>1. IsRuntime(w.held) /\ w.held.status \in Statuses
  BY SpecsAssumption DEF IsRuntime, Workers, Runtimes
<1>2. w.validation \in Validations /\ Now \in Nat
  BY DEF Workers, Now
<1>3. CASE w.path = "failed"
  <2> DEFINE s == buildReconciliationFailureStatus(w.held, o, Now)
  <2>1. s \in Statuses /\ IsUpgradeReport(s, w.held, o.deployment)
    BY <1>1, <1>2, FailureReport, FailureStatusType DEF IsStatusOf
  <2> HIDE DEF s
  <2> QED
    BY <1>1, <1>3, <2>1, PreservedReport DEF NormalizedStatus, s
<1>4. CASE w.path # "failed"
  <2> DEFINE s == buildRuntimeStatus(w.held, o, w.validation, Now)
  <2>1. s \in Statuses /\ IsUpgradeReport(s, w.held, o.deployment)
    BY <1>1, <1>2, BuiltReport, BuildStatusType DEF IsStatusOf
  <2> HIDE DEF s
  <2> QED
    BY <1>1, <1>4, <2>1, PreservedReport DEF NormalizedStatus, s
<1> QED
  BY <1>3, <1>4

-----------------------------------------------------------------------------
(* The simulation.                                                         *)

(* A runtime that has a last successful image has an Upgrading condition.  *)
ReportInv ==
    rt.status.lastSuccessfulImage # None
        => rt.status.conditions.Upgrading.status # "Absent"

(* A step that stores no status changes the wanted image or the images     *)
(* that were rolled out, not both.                                         *)
LEMMA QuietStep ==
    ASSUME TypeInv, [Next]_vars, rt'.status = rt.status
    PROVE  \/ UNCHANGED completed
           \/ /\ UNCHANGED rt
              /\ \E i \in Images : completed' = completed \cup {i}
<1> USE DEF TypeInv, OperatorTypeOK, ClusterTypeOK
<1>1. CASE ClusterStep /\ UNCHANGED operatorVars
  <2>1. CASE RolloutStep \/ \E p \in PodIds : PodFails(p)
    <3>1. dep.exists /\ \E ps, k : PodsBecome(ps, k)
      BY <2>1
      DEF RolloutStep, DeploymentControllerSync, PodStarts, PodStops,
          PodBecomesReady, PodFails
    <3>2. completed' = completed \/ completed' = completed \cup {dep.image}
      BY <3>1 DEF PodsBecome
    <3> QED
      BY <1>1, <3>1, <3>2 DEF HasTemplate, operatorVars
  <2>2. CASE \/ DeploymentReportsFailure \/ AutoscalerScales
             \/ DeploymentDrifts \/ DeploymentDeleted
    BY <2>2
    DEF DeploymentReportsFailure, AutoscalerScales, DeploymentDrifts,
        DeploymentDeleted
  <2> QED
    BY <1>1, <2>1, <2>2 DEF ClusterStep
<1>2. CASE \/ UserEditsSpec \/ UserDeletesRuntime \/ GarbageCollects
           \/ SecretChanges
  BY <1>2
  DEF UserEditsSpec, UserDeletesRuntime, GarbageCollects, SecretChanges,
      clusterVars
<1>3. CASE Watch \/ OperatorRestarts \/ UNCHANGED vars
  BY <1>3
  DEF Watch, WatchRuntime, WatchDeployment, WatchSecrets, OperatorRestarts,
      vars, clusterVars
<1>4. CASE Worker
  BY <1>4
  DEF Worker, ReconcileSkipsDeleted, Reconcile, reconcileDeployment,
      reconcileHorizontalPodAutoscaler, ReconcileStatus, ObservationFails,
      StatusUpdateFails, RecordEvents, clusterVars
<1> QED
  BY <1>1, <1>2, <1>3, <1>4 DEF Next, Environment

(* What a stored status says of the upgrade.                               *)
LEMMA StoredReport ==
    ASSUME TypeInv, LockInv, RolloutInv, [Next]_vars, rt'.status # rt.status
    PROVE  /\ UNCHANGED completed /\ rt'.spec = rt.spec
           /\ \E d : /\ IsUpgradeReport(rt'.status, rt, d)
                     /\ ImageRolledOut(rt.spec, d)
                          => runtimeImage(rt.spec.image) \in completed
<1>1. PICK o \in {Observation, EmptyObservation} :
          rt' = [rt EXCEPT !.status = NormalizedStatus(o)]
  BY StoredStatusIsComputed
<1>2. w.held = rt /\ UNCHANGED completed
  BY StoredStatusIsComputed
<1>3. w \in Workers /\ rt \in Runtimes /\ o \in Observations
  BY ObservationTypes DEF TypeInv, OperatorTypeOK
<1>4. IsUpgradeReport(NormalizedStatus(o), w.held, o.deployment)
  BY <1>3, NormalizedReport
<1>5. DeploymentSound(o.deployment)
  BY ObservationSound DEF RolloutInv
<1>6. ImageRolledOut(rt.spec, o.deployment)
        => runtimeImage(rt.spec.image) \in completed
  BY <1>5, RolledOutSound
<1>7. rt'.status = NormalizedStatus(o) /\ rt'.spec = rt.spec
  BY <1>1, <1>3 DEF Runtimes
<1> QED
  BY <1>2, <1>4, <1>6, <1>7

(* A stored status has an Upgrading condition.                             *)
LEMMA ReportInvStep ==
    TypeInv /\ LockInv /\ RolloutInv /\ ReportInv /\ [Next]_vars => ReportInv'
  BY StoredReport DEF ReportInv, IsUpgradeReport

(* Storing a status is a step of the lifecycle.                            *)
LEMMA StoringFollows ==
    ASSUME TypeInv, LockInv, RolloutInv, ReportInv, [Next]_vars,
           rt'.status # rt.status
    PROVE  [Upgrade!Next]_(Upgrade!vars)
<1> DEFINE last == rt.status.lastSuccessfulImage
           image == runtimeImage(rt.spec.image)
           old == rt.status.conditions.Upgrading
           new == rt'.status.conditions.Upgrading
<1>1. PICK d : /\ IsUpgradeReport(rt'.status, rt, d)
               /\ ImageRolledOut(rt.spec, d) => image \in completed
  BY StoredReport
<1>2. UNCHANGED <<image, completed>>
  BY StoredReport
<1>3. image # None
  BY ImageType, NoneAssumption, SpecsAssumption
  DEF TypeInv, OperatorTypeOK, Runtimes
<1>4. CASE last = None
  <2>1. Upgrade!Install
    BY <1>1, <1>2, <1>4 DEF Upgrade!Install, IsUpgradeReport
  <2> QED
    BY <2>1 DEF Upgrade!Next
<1>5. CASE last # None /\ last # image
  <2>1. new.reason = UpgradeVerdict(rt.spec, d).reason
    BY <1>1, <1>5 DEF IsUpgradeReport
  <2>2. CASE observeDeploymentRollout(rt.spec, d) = "failed"
    <3>1. /\ new.reason = "UpgradeFailed"
          /\ rt'.status.lastSuccessfulImage = last
      BY <1>1, <2>1, <2>2
      DEF UpgradeVerdict, ImageRolledOut, IsFalse, IsUpgradeReport
    <3>2. Upgrade!Fail
      BY <1>2, <1>5, <3>1 DEF Upgrade!Fail, Upgrade!UpgradeWanted
    <3> QED
      BY <3>2 DEF Upgrade!Next
  <2>3. CASE ImageRolledOut(rt.spec, d)
    <3>1. /\ new.reason = "UpgradeComplete"
          /\ rt'.status.lastSuccessfulImage = image
      BY <1>1, <2>1, <2>3
      DEF UpgradeVerdict, ImageRolledOut, IsFalse, IsUpgradeReport
    <3>2. Upgrade!Complete
      BY <1>1, <1>2, <1>5, <2>3, <3>1
      DEF Upgrade!Complete, Upgrade!UpgradeWanted
    <3> QED
      BY <3>2 DEF Upgrade!Next
  <2>4. CASE /\ observeDeploymentRollout(rt.spec, d) # "failed"
             /\ ~ImageRolledOut(rt.spec, d)
    <3>1. /\ new.reason = "UpgradeInProgress"
          /\ rt'.status.lastSuccessfulImage = last
      BY <1>1, <2>1, <2>4 DEF UpgradeVerdict, IsTrue, IsUpgradeReport
    <3>2. Upgrade!Begin
      BY <1>2, <1>5, <3>1 DEF Upgrade!Begin, Upgrade!UpgradeWanted
    <3> QED
      BY <3>2 DEF Upgrade!Next
  <2> QED
    BY <2>2, <2>3, <2>4
<1>6. CASE last # None /\ last = image
  <2>1. new.reason = old.reason /\ rt'.status.lastSuccessfulImage = last
    BY <1>1, <1>6 DEF IsUpgradeReport, ReportInv
  <2> QED
    BY <1>2, <2>1 DEF Upgrade!vars
<1> QED
  BY <1>4, <1>5, <1>6

(* Every step of the system is a step of the lifecycle.                    *)
LEMMA StepFollows ==
    ASSUME TypeInv, TypeInv', LockInv, RolloutInv, ReportInv, [Next]_vars
    PROVE  [Upgrade!Next]_(Upgrade!vars)
<1>1. CASE rt'.status # rt.status
  BY <1>1, StoringFollows
<1>2. CASE rt'.status = rt.status /\ UNCHANGED completed
  <2>1. (runtimeImage(rt.spec.image) \in Images)'
    BY ImageType, SpecsAssumption DEF TypeInv, OperatorTypeOK, Runtimes
  <2>2. Upgrade!Want
    BY <1>2, <2>1 DEF Upgrade!Want
  <2> QED
    BY <2>2 DEF Upgrade!Next
<1>3. CASE UNCHANGED rt /\ \E i \in Images : completed' = completed \cup {i}
  <2>1. Upgrade!RollOut
    BY <1>3 DEF Upgrade!RollOut
  <2> QED
    BY <2>1 DEF Upgrade!Next
<1> QED
  BY <1>1, <1>2, <1>3, QuietStep

(* An untouched runtime has nothing to report.                             *)
LEMMA InitFollows == Init => Upgrade!Init /\ ReportInv
<1> SUFFICES ASSUME Init PROVE Upgrade!Init /\ ReportInv
  OBVIOUS
<1>1. PICK s \in InitialSpecs :
          rt = [phase |-> "live", gen |-> 1, spec |-> s, status |-> EmptyStatus]
  BY DEF Init
<1>2. runtimeImage(rt.spec.image) \in Images
  BY <1>1, ImageType, SpecsAssumption
<1>3. /\ rt.status.lastSuccessfulImage = None
      /\ rt.status.conditions.Upgrading.reason = "None"
  BY <1>1 DEF EmptyStatus, ConditionTypes, Absent
<1> QED
  BY <1>2, <1>3 DEF Init, Upgrade!Init, ReportInv

(* applyUpgradeStatus and updateRuntimeStatus implement the lifecycle of   *)
(* an upgrade report: for any images, Pods, edits and disturbances, what   *)
(* the API shows of an upgrade is a behaviour of UpgradeLifecycle.         *)
THEOREM UpgradeTheorem == Spec => UpgradeFollowsLifecycle
<1>1. Init => Upgrade!Init /\ TypeInv /\ LockInv /\ EventInv /\ RolloutInv
                /\ ReportInv
  BY InitFollows, InitType, InitLocked, InitSound
<1>2. TypeInv /\ LockInv /\ EventInv /\ RolloutInv /\ ReportInv /\ [Next]_vars
        => /\ TypeInv' /\ LockInv' /\ EventInv' /\ RolloutInv' /\ ReportInv'
           /\ [Upgrade!Next]_(Upgrade!vars)
  BY TypeInvStep, LockInvStep, RolloutInvStep, ReportInvStep, StepFollows
<1> QED
  BY <1>1, <1>2, PTL DEF Spec, UpgradeFollowsLifecycle, Upgrade!Spec

==============================================================================
