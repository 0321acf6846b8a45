------------------------- MODULE RuntimeStatusProofs -------------------------
(***************************************************************************)
(* What the operators of RuntimeStatus return, for every value of the      *)
(* constants.  The proofs about StatusWriter and RuntimeReconciler cite    *)
(* these lemmas.                                                           *)
(***************************************************************************)
EXTENDS RuntimeStatus, TLAPS

VerdictTypes == [status : {"True", "False"}, reason : Reasons]

(* The verdicts of a set of condition types.                               *)
IsVerdicts(v) ==
    \A t \in DOMAIN v : t \in ConditionTypes /\ v[t] \in VerdictTypes

-----------------------------------------------------------------------------
(* Images, replicas and validations.                                       *)

(* runtimeImage yields one of the images.                                  *)
LEMMA ImageType ==
    ASSUME NEW spec \in RuntimeSpecs
    PROVE  runtimeImage(spec.image) \in Images
  BY DEF RuntimeSpecs, Images

(* Both defaults of a scale are natural numbers.                           *)
LEMMA ReplicasType ==
    ASSUME NEW spec \in RuntimeSpecs
    PROVE  /\ desiredReplicas(spec) \in Nat
           /\ initialDeploymentReplicas(spec) \in Nat
  BY DEF RuntimeSpecs, Unset, desiredReplicas, initialDeploymentReplicas,
         autoscalingEnabled, desiredAutoscalingMinReplicas

(* The number of replicas a runtime wants is a natural number.             *)
LEMMA ReplicaCountType ==
    ASSUME NEW spec \in RuntimeSpecs, NEW d \in Deployments
    PROVE  desiredReplicaCount(spec, d) \in Nat
  BY ReplicasType DEF desiredReplicaCount, Deployments

(* validateSecretReferences returns validations.                           *)
LEMMA ValidationType ==
    ASSUME NEW spec, NEW present,
           NEW v \in validateSecretReferences(spec, present)
    PROVE  v \in Validations
<1> DEFINE Missing == [valid |-> FALSE, reason |-> "SecretNotFound",
                       err |-> FALSE]
           Unchecked == [valid |-> FALSE, reason |-> "ReferenceCheckFailed",
                         err |-> TRUE]
<1>1. v \in {validReferenceValidation, Missing, Unchecked}
  <2> HIDE DEF Missing, Unchecked
  <2> QED  BY Zenon DEF validateSecretReferences, Missing, Unchecked
<1>2. validReferenceValidation \in Validations
  BY DEF validReferenceValidation, Validations
<1>3. Missing \in Validations /\ Unchecked \in Validations
  BY DEF Validations
<1> QED
  BY <1>1, <1>2, <1>3

-----------------------------------------------------------------------------
(* Conditions.                                                             *)

(* setRuntimeCondition returns a condition.                                *)
LEMMA SetConditionType ==
    ASSUME NEW old \in Conditions, NEW v \in VerdictTypes,
           NEW gen \in Nat, NEW now \in Nat
    PROVE  setRuntimeCondition(old, v, gen, now) \in Conditions
  BY DEF setRuntimeCondition, Conditions, VerdictTypes

(* Setting several conditions yields conditions.                           *)
LEMMA SetConditionsType ==
    ASSUME NEW conditions \in [ConditionTypes -> Conditions],
           NEW v, IsVerdicts(v), NEW gen \in Nat, NEW now \in Nat
    PROVE  SetConditions(conditions, v, gen, now)
             \in [ConditionTypes -> Conditions]
  BY SetConditionType DEF SetConditions, IsVerdicts

(* Every reason used in a verdict is one of the reasons.                   *)
LEMMA IsTrueIsFalseType ==
    ASSUME NEW r \in Reasons
    PROVE  IsTrue(r) \in VerdictTypes /\ IsFalse(r) \in VerdictTypes
  BY DEF IsTrue, IsFalse, VerdictTypes

(* setAvailabilityCondition returns a verdict.                             *)
LEMMA AvailabilityType ==
    ASSUME NEW available \in Nat, NEW desired \in Nat
    PROVE  setAvailabilityCondition(available, desired) \in VerdictTypes
  BY IsTrueIsFalseType
  DEF setAvailabilityCondition, Reasons, BaseReasons

(* The branches without a Deployment to count return verdicts.             *)
LEMMA VerdictsType ==
    ASSUME NEW a \in VerdictTypes, NEW b \in VerdictTypes,
           NEW c \in VerdictTypes, NEW d \in VerdictTypes,
           NEW e \in VerdictTypes
    PROVE  IsVerdicts(Verdicts(a, b, c, d, e))
  BY DEF IsVerdicts, Verdicts, ConditionTypes, BaseTypes

(* A failed reconciliation is reported with verdicts.                      *)
LEMMA FailureVerdictsType == IsVerdicts(FailureVerdicts)
  BY IsTrueIsFalseType
  DEF IsVerdicts, FailureVerdicts, ConditionTypes, BaseTypes, Reasons,
      BaseReasons

-----------------------------------------------------------------------------
(* Statuses.                                                               *)

(* What a reconciliation hands to the builders.                            *)
Observations == [deployment : Deployments, service : Ports \cup {NoService}]

IsRuntime(r) ==
    r.gen \in Nat /\ r.spec \in RuntimeSpecs /\ r.status \in Statuses

(* The reasons the branches use are reasons.                               *)
LEMMA ReasonsOfVerdicts ==
    {"ReferencesResolved", "DeploymentProgressing",
     "DeploymentGenerationPending", "ReconciliationComplete",
     "ConfigurationInvalid", "DeploymentFailed", "ScaledToZero",
     "RuntimeAvailable", "RuntimeUnavailable", "RuntimeReady",
     "RuntimeNotReady", "AsExpected", "NoUpgrade", "UpgradeInProgress",
     "UpgradeComplete", "UpgradeFailed"} \subseteq Reasons
  BY DEF Reasons, BaseReasons, UpgradeReasons

(* Every branch of buildBaseRuntimeStatus sets conditions with verdicts.   *)
LEMMA BaseVerdictsType ==
    ASSUME NEW spec \in RuntimeSpecs, NEW d \in Deployments,
           NEW validation \in Validations
    PROVE  IsVerdicts(BaseVerdicts(spec, d, validation))
<1> DEFINE desired == desiredReplicaCount(spec, d)
<1>1. /\ desired \in Nat
      /\ desiredReplicas(spec) \in Nat
      /\ initialDeploymentReplicas(spec) \in Nat
      /\ d.available \in Nat
  BY ReplicasType, ReplicaCountType DEF Deployments
<1>2. validation.reason \in Reasons /\ deploymentFailure(d) \in Reasons
  BY DEF Validations, deploymentFailure, Reasons, BaseReasons
<1> HIDE DEF desired
<1>3. IsVerdicts(InvalidVerdicts(spec, d, validation))
  BY <1>1, <1>2, VerdictsType, AvailabilityType, IsTrueIsFalseType,
     ReasonsOfVerdicts
  DEF InvalidVerdicts
<1>4. IsVerdicts(NoDeploymentVerdicts(spec))
  BY <1>1, VerdictsType, AvailabilityType, IsTrueIsFalseType,
     ReasonsOfVerdicts
  DEF NoDeploymentVerdicts, ReferencesResolved
<1>5. IsVerdicts(ScaledToZeroVerdicts(d))
  BY VerdictsType, IsTrueIsFalseType, ReasonsOfVerdicts
  DEF ScaledToZeroVerdicts, ReferencesResolved
<1>6. IsVerdicts(FailedVerdicts(d, desired))
  BY <1>1, <1>2, VerdictsType, AvailabilityType, IsTrueIsFalseType,
     ReasonsOfVerdicts
  DEF FailedVerdicts, ReferencesResolved
<1>7. IsVerdicts(ReadyVerdicts)
  BY VerdictsType, IsTrueIsFalseType, ReasonsOfVerdicts
  DEF ReadyVerdicts, ReferencesResolved
<1>8. IsVerdicts(ProgressingVerdicts(d, desired))
  BY <1>1, VerdictsType, AvailabilityType, IsTrueIsFalseType,
     ReasonsOfVerdicts
  DEF ProgressingVerdicts, ReferencesResolved
<1> QED
  BY <1>3, <1>4, <1>5, <1>6, <1>7, <1>8, Zenon DEF BaseVerdicts, desired

(* buildBaseRuntimeStatus returns a status and keeps lastSuccessfulImage.  *)
LEMMA BaseStatusType ==
    ASSUME NEW r, IsRuntime(r), NEW o \in Observations,
           NEW validation \in Validations, NEW now \in Nat
    PROVE  LET s == buildBaseRuntimeStatus(r, o, validation, now)
           IN  /\ s \in Statuses
               /\ s.lastSuccessfulImage = r.status.lastSuccessfulImage
<1> DEFINE c == SetConditions(r.status.conditions,
                    BaseVerdicts(r.spec, o.deployment, validation), r.gen, now)
<1>1. c \in [ConditionTypes -> Conditions]
  BY BaseVerdictsType, SetConditionsType
  DEF IsRuntime, Observations, Statuses
<1>2. runtimeImage(r.spec.image) \in Images
  BY ImageType DEF IsRuntime
<1>3. deploymentCurrentImage(o.deployment) \in Images \cup {None}
  BY DEF deploymentCurrentImage, Observations, Deployments
<1>4. runtimeServiceEndpoint(o.service) \in Endpoints \cup {None}
  BY DEF runtimeServiceEndpoint, Observations, Endpoints, NoService
<1>5. o.deployment.ready \in Nat /\ o.deployment.available \in Nat
  BY DEF Observations, Deployments
<1> HIDE DEF c
<1> QED
  BY <1>1, <1>2, <1>3, <1>4, <1>5
  DEF buildBaseRuntimeStatus, IsRuntime, Statuses, c

(* The Upgrading condition is a condition.                                 *)
LEMMA UpgradeConditionType ==
    ASSUME NEW r, IsRuntime(r), NEW d, NEW s \in Statuses, NEW now \in Nat
    PROVE  UpgradeCondition(r, d, s, now) \in Conditions
<1>1. s.conditions.Upgrading \in Conditions
  BY DEF Statuses, ConditionTypes
<1>2. IsFalse("NoUpgrade") \in VerdictTypes
  BY IsTrueIsFalseType, ReasonsOfVerdicts
<1>3. UpgradeVerdict(r.spec, d) \in VerdictTypes
  BY IsTrueIsFalseType, ReasonsOfVerdicts DEF UpgradeVerdict
<1> QED
  BY <1>1, <1>2, <1>3, SetConditionType DEF UpgradeCondition, IsRuntime

(* applyUpgradeStatus returns a status; it moves lastSuccessfulImage only  *)
(* to the wanted image, and only if that is rolled out.                    *)
LEMMA UpgradeStatusType ==
    ASSUME NEW r, IsRuntime(r), NEW d, NEW s \in Statuses, NEW now \in Nat
    PROVE  LET u == applyUpgradeStatus(r, d, s, now)
           IN  /\ u \in Statuses
               /\ u.observedGeneration = s.observedGeneration
               /\ u.desiredImage = s.desiredImage
               /\ \/ u.lastSuccessfulImage = s.lastSuccessfulImage
                  \/ /\ u.lastSuccessfulImage = runtimeImage(r.spec.image)
                     /\ ImageRolledOut(r.spec, d)
<1> DEFINE c == [s.conditions EXCEPT
                    !.Upgrading = UpgradeCondition(r, d, s, now)]
           last == IF ImageRolledOut(r.spec, d)
                   THEN runtimeImage(r.spec.image) ELSE s.lastSuccessfulImage
<1>1. c \in [ConditionTypes -> Conditions]
  BY UpgradeConditionType DEF Statuses
<1>2. last \in Images \cup {None}
  BY ImageType DEF IsRuntime, Statuses
<1>3. applyUpgradeStatus(r, d, s, now)
        = [s EXCEPT !.lastSuccessfulImage = last, !.conditions = c]
  BY DEF applyUpgradeStatus
<1>4. \/ last = s.lastSuccessfulImage
      \/ last = runtimeImage(r.spec.image) /\ ImageRolledOut(r.spec, d)
  OBVIOUS
<1> HIDE DEF c, last
<1> QED
  BY <1>1, <1>2, <1>3, <1>4 DEF Statuses

(* What both ways of building a status promise.                            *)
IsStatusOf(s, r, d) ==
    /\ s \in Statuses
    /\ s.observedGeneration = r.gen
    /\ s.desiredImage = runtimeImage(r.spec.image)
    /\ \/ s.lastSuccessfulImage = r.status.lastSuccessfulImage
       \/ /\ s.lastSuccessfulImage = runtimeImage(r.spec.image)
          /\ ImageRolledOut(r.spec, d)

(* buildRuntimeStatus describes the runtime it is given.                   *)
LEMMA BuildStatusType ==
    ASSUME NEW r, IsRuntime(r), NEW o \in Observations,
           NEW validation \in Validations, NEW now \in Nat
    PROVE  IsStatusOf(buildRuntimeStatus(r, o, validation, now), r,
                      o.deployment)
<1> DEFINE s == buildBaseRuntimeStatus(r, o, validation, now)
<1>1. s \in Statuses /\ s.lastSuccessfulImage = r.status.lastSuccessfulImage
  BY BaseStatusType
<1>2. /\ s.observedGeneration = r.gen
      /\ s.desiredImage = runtimeImage(r.spec.image)
  BY DEF buildBaseRuntimeStatus, IsRuntime, Statuses
<1> HIDE DEF s
<1> QED
  BY <1>1, <1>2, UpgradeStatusType
  DEF buildRuntimeStatus, IsStatusOf, s

(* So does buildReconciliationFailureStatus.                               *)
LEMMA FailureStatusType ==
    ASSUME NEW r, IsRuntime(r), NEW o \in Observations, NEW now \in Nat
    PROVE  IsStatusOf(buildReconciliationFailureStatus(r, o, now), r,
                      o.deployment)
<1> DEFINE s == buildRuntimeStatus(r, o, validReferenceValidation, now)
           c == SetConditions(s.conditions, FailureVerdicts, r.gen, now)
<1>1. validReferenceValidation \in Validations
  BY DEF validReferenceValidation, Validations
<1>2. IsStatusOf(s, r, o.deployment)
  BY <1>1, BuildStatusType
<1>3. c \in [ConditionTypes -> Conditions]
  BY <1>2, FailureVerdictsType, SetConditionsType
  DEF IsStatusOf, Statuses, IsRuntime
<1>4. buildReconciliationFailureStatus(r, o, now) = [s EXCEPT !.conditions = c]
  BY DEF buildReconciliationFailureStatus
<1> HIDE DEF s, c
<1> QED
  BY <1>2, <1>3, <1>4 DEF IsStatusOf, Statuses

(* preserveRuntimeConditionTransitionTimes changes nothing but times.      *)
LEMMA PreserveType ==
    ASSUME NEW current \in Statuses, NEW s \in Statuses
    PROVE  LET p == preserveRuntimeConditionTransitionTimes(current, s)
           IN  /\ p \in Statuses
               /\ p.observedGeneration = s.observedGeneration
               /\ p.desiredImage = s.desiredImage
               /\ p.lastSuccessfulImage = s.lastSuccessfulImage
<1> DEFINE Keep(old, new) == IF old.status = new.status
                             THEN [new EXCEPT !.since = old.since] ELSE new
           c == [t \in ConditionTypes |->
                    Keep(current.conditions[t], s.conditions[t])]
<1>1. ASSUME NEW old \in Conditions, NEW new \in Conditions
      PROVE  Keep(old, new) \in Conditions
  BY DEF Conditions
<1>2. c \in [ConditionTypes -> Conditions]
  <2> SUFFICES ASSUME NEW t \in ConditionTypes
               PROVE  Keep(current.conditions[t], s.conditions[t])
                        \in Conditions
    OBVIOUS
  <2>1. /\ current.conditions[t] \in Conditions
        /\ s.conditions[t] \in Conditions
    BY DEF Statuses
  <2> HIDE DEF Keep
  <2> QED  BY <1>1, <2>1
<1>3. preserveRuntimeConditionTransitionTimes(current, s)
        = [s EXCEPT !.conditions = c]
  BY DEF preserveRuntimeConditionTransitionTimes
<1> HIDE DEF c
<1> QED
  BY <1>2, <1>3 DEF Statuses

-----------------------------------------------------------------------------
(* The fields of the status that is built, and of the one that is stored.  *)

(* Every branch of buildBaseRuntimeStatus sets the five base conditions.   *)
LEMMA BaseVerdictsDomain ==
    ASSUME NEW spec, NEW d, NEW validation
    PROVE  DOMAIN BaseVerdicts(spec, d, validation) = BaseTypes
<1>1. \A a, b, c, e, f : DOMAIN Verdicts(a, b, c, e, f) = BaseTypes
  BY DEF Verdicts, BaseTypes
<1>2. DOMAIN InvalidVerdicts(spec, d, validation) = BaseTypes
  BY <1>1, Zenon DEF InvalidVerdicts
<1>3. DOMAIN NoDeploymentVerdicts(spec) = BaseTypes
  BY <1>1, Zenon DEF NoDeploymentVerdicts
<1>4. DOMAIN ScaledToZeroVerdicts(d) = BaseTypes
  BY <1>1, Zenon DEF ScaledToZeroVerdicts
<1>5. \A n : DOMAIN FailedVerdicts(d, n) = BaseTypes
  BY <1>1, Zenon DEF FailedVerdicts
<1>6. DOMAIN ReadyVerdicts = BaseTypes
  BY <1>1, Zenon DEF ReadyVerdicts
<1>7. \A n : DOMAIN ProgressingVerdicts(d, n) = BaseTypes
  BY <1>1, Zenon DEF ProgressingVerdicts
<1> QED
  BY <1>2, <1>3, <1>4, <1>5, <1>6, <1>7, Zenon DEF BaseVerdicts

(* A condition shows a verdict, of a generation.                           *)
Shows(condition, verdict, gen) ==
    /\ condition.status = verdict.status
    /\ condition.reason = verdict.reason
    /\ condition.gen = gen

(* A condition shows the verdict it was set to.                            *)
LEMMA SetShows ==
    ASSUME NEW old, NEW verdict, NEW gen, NEW now
    PROVE  Shows(setRuntimeCondition(old, verdict, gen, now), verdict, gen)
  BY DEF Shows, setRuntimeCondition

(* buildRuntimeStatus: the fields of the status it returns.                *)
LEMMA BuiltFields ==
    ASSUME NEW r, IsRuntime(r), NEW o \in Observations,
           NEW validation \in Validations, NEW now \in Nat
    PROVE  LET b == buildRuntimeStatus(r, o, validation, now)
               v == BaseVerdicts(r.spec, o.deployment, validation)
           IN  /\ \A t \in BaseTypes : Shows(b.conditions[t], v[t], r.gen)
               /\ b.conditions.Upgrading
                    = UpgradeCondition(r, o.deployment, r.status, now)
               /\ b.lastSuccessfulImage
                    = IF ImageRolledOut(r.spec, o.deployment)
                      THEN runtimeImage(r.spec.image)
                      ELSE r.status.lastSuccessfulImage
               /\ b.readyReplicas = o.deployment.ready
               /\ b.availableReplicas = o.deployment.available
               /\ b.currentImage = deploymentCurrentImage(o.deployment)
               /\ b.endpoint = runtimeServiceEndpoint(o.service)
<1> DEFINE s == buildBaseRuntimeStatus(r, o, validation, now)
           v == BaseVerdicts(r.spec, o.deployment, validation)
           u == UpgradeCondition(r, o.deployment, s, now)
<1>1. s \in Statuses /\ s.lastSuccessfulImage = r.status.lastSuccessfulImage
  BY BaseStatusType
<1>2. DOMAIN v = BaseTypes
  BY BaseVerdictsDomain
<1>3. /\ s.conditions = SetConditions(r.status.conditions, v, r.gen, now)
      /\ s.readyReplicas = o.deployment.ready
      /\ s.availableReplicas = o.deployment.available
      /\ s.currentImage = deploymentCurrentImage(o.deployment)
      /\ s.endpoint = runtimeServiceEndpoint(o.service)
  BY DEF buildBaseRuntimeStatus, IsRuntime, Statuses
<1> HIDE DEF s, v
<1>4. /\ \A t \in BaseTypes : Shows(s.conditions[t], v[t], r.gen)
      /\ s.conditions.Upgrading = r.status.conditions.Upgrading
  <2>1. ASSUME NEW t \in BaseTypes
        PROVE  s.conditions[t]
                 = setRuntimeCondition(r.status.conditions[t], v[t], r.gen, now)
    BY <1>2, <1>3 DEF SetConditions, ConditionTypes
  <2>2. "Upgrading" \in ConditionTypes /\ "Upgrading" \notin BaseTypes
    BY DEF ConditionTypes, BaseTypes
  <2>3. s.conditions["Upgrading"] = r.status.conditions["Upgrading"]
    BY <1>2, <1>3, <2>2 DEF SetConditions
  <2>4. ASSUME NEW t \in BaseTypes
        PROVE  Shows(s.conditions[t], v[t], r.gen)
    BY <2>1, SetShows
  <2> QED
    BY <2>3, <2>4
<1>5. u = UpgradeCondition(r, o.deployment, r.status, now)
  BY <1>1, <1>4 DEF UpgradeCondition
<1> DEFINE c == [s.conditions EXCEPT !.Upgrading = u]
           last == IF ImageRolledOut(r.spec, o.deployment)
                   THEN runtimeImage(r.spec.image) ELSE s.lastSuccessfulImage
<1>6. buildRuntimeStatus(r, o, validation, now)
        = [s EXCEPT !.lastSuccessfulImage = last, !.conditions = c]
  BY DEF buildRuntimeStatus, applyUpgradeStatus, s
<1> HIDE DEF u
<1>7. /\ \A t \in BaseTypes : c[t] = s.conditions[t]
      /\ c.Upgrading = u
  BY <1>1 DEF Statuses, ConditionTypes, BaseTypes
<1> HIDE DEF c
<1>8. /\ buildRuntimeStatus(r, o, validation, now).conditions = c
      /\ buildRuntimeStatus(r, o, validation, now).lastSuccessfulImage = last
      /\ buildRuntimeStatus(r, o, validation, now).readyReplicas
           = s.readyReplicas
      /\ buildRuntimeStatus(r, o, validation, now).availableReplicas
           = s.availableReplicas
      /\ buildRuntimeStatus(r, o, validation, now).currentImage
           = s.currentImage
      /\ buildRuntimeStatus(r, o, validation, now).endpoint = s.endpoint
  BY <1>1, <1>6 DEF Statuses
<1> QED
  BY <1>1, <1>3, <1>4, <1>5, <1>7, <1>8 DEF v

(* preserveRuntimeConditionTransitionTimes: only times are changed, and a  *)
(* condition that keeps its status keeps its time.                         *)
LEMMA PreservedFields ==
    ASSUME NEW s \in Statuses, NEW d \in Statuses
    PROVE  LET p == preserveRuntimeConditionTransitionTimes(s, d)
           IN  /\ \A t \in ConditionTypes :
                     /\ p.conditions[t].status = d.conditions[t].status
                     /\ p.conditions[t].reason = d.conditions[t].reason
                     /\ p.conditions[t].gen = d.conditions[t].gen
                     /\ d.conditions[t].status = s.conditions[t].status
                          => p.conditions[t].since = s.conditions[t].since
               /\ p.readyReplicas = d.readyReplicas
               /\ p.availableReplicas = d.availableReplicas
               /\ p.currentImage = d.currentImage
               /\ p.endpoint = d.endpoint
<1> DEFINE Keep(old, new) == IF old.status = new.status
                             THEN [new EXCEPT !.since = old.since] ELSE new
           c == [t \in ConditionTypes |->
                    Keep(s.conditions[t], d.conditions[t])]
<1>1. preserveRuntimeConditionTransitionTimes(s, d)
        = [d EXCEPT !.conditions = c]
  BY DEF preserveRuntimeConditionTransitionTimes
<1>2. ASSUME NEW t \in ConditionTypes
      PROVE  /\ c[t].status = d.conditions[t].status
             /\ c[t].reason = d.conditions[t].reason
             /\ c[t].gen = d.conditions[t].gen
             /\ d.conditions[t].status = s.conditions[t].status
                  => c[t].since = s.conditions[t].since
  BY DEF Statuses, Conditions
<1> HIDE DEF c
<1> QED
  BY <1>1, <1>2 DEF Statuses

(* What is built and then stored: the fields of both, in one place.        *)
IsReport(n, r, o, validation, now) ==
    LET v == BaseVerdicts(r.spec, o.deployment, validation)
        u == UpgradeCondition(r, o.deployment, r.status, now)
    IN  /\ n \in Statuses
        /\ \A t \in BaseTypes : Shows(n.conditions[t], v[t], r.gen)
        /\ Shows(n.conditions.Upgrading, u, u.gen)
        /\ n.lastSuccessfulImage
             = IF ImageRolledOut(r.spec, o.deployment)
               THEN runtimeImage(r.spec.image)
               ELSE r.status.lastSuccessfulImage
        /\ n.observedGeneration = r.gen
        /\ n.desiredImage = runtimeImage(r.spec.image)
        /\ n.readyReplicas = o.deployment.ready
        /\ n.availableReplicas = o.deployment.available
        /\ n.currentImage = deploymentCurrentImage(o.deployment)
        /\ n.endpoint = runtimeServiceEndpoint(o.service)

(* What updateRuntimeStatus makes of a built status.                       *)
LEMMA PreservedBuilt ==
    ASSUME NEW r, IsRuntime(r), NEW o \in Observations,
           NEW validation \in Validations, NEW now \in Nat
    PROVE  LET n == preserveRuntimeConditionTransitionTimes(r.status,
                        buildRuntimeStatus(r, o, validation, now))
           IN  /\ IsReport(n, r, o, validation, now)
               /\ \A t \in ConditionTypes :
                     n.conditions[t].status = r.status.conditions[t].status
                       => n.conditions[t].since = r.status.conditions[t].since
<1> DEFINE b == buildRuntimeStatus(r, o, validation, now)
           n == preserveRuntimeConditionTransitionTimes(r.status, b)
           v == BaseVerdicts(r.spec, o.deployment, validation)
           u == UpgradeCondition(r, o.deployment, r.status, now)
<1>1. IsStatusOf(b, r, o.deployment) /\ r.status \in Statuses
  BY BuildStatusType DEF IsRuntime
<1>2. /\ \A t \in BaseTypes : Shows(b.conditions[t], v[t], r.gen)
      /\ b.conditions.Upgrading = u
      /\ b.lastSuccessfulImage = IF ImageRolledOut(r.spec, o.deployment)
                                 THEN runtimeImage(r.spec.image)
                                 ELSE r.status.lastSuccessfulImage
      /\ b.readyReplicas = o.deployment.ready
      /\ b.availableReplicas = o.deployment.available
      /\ b.currentImage = deploymentCurrentImage(o.deployment)
      /\ b.endpoint = runtimeServiceEndpoint(o.service)
  BY BuiltFields
<1> HIDE DEF b, v, u
<1>3. /\ n \in Statuses
      /\ n.observedGeneration = b.observedGeneration
      /\ n.desiredImage = b.desiredImage
      /\ n.lastSuccessfulImage = b.lastSuccessfulImage
  BY <1>1, PreserveType DEF IsStatusOf
<1>4. /\ \A t \in ConditionTypes :
            /\ n.conditions[t].status = b.conditions[t].status
            /\ n.conditions[t].reason = b.conditions[t].reason
            /\ n.conditions[t].gen = b.conditions[t].gen
            /\ b.conditions[t].status = r.status.conditions[t].status
                 => n.conditions[t].since = r.status.conditions[t].since
      /\ n.readyReplicas = b.readyReplicas
      /\ n.availableReplicas = b.availableReplicas
      /\ n.currentImage = b.currentImage
      /\ n.endpoint = b.endpoint
  BY <1>1, PreservedFields DEF IsStatusOf
<1> HIDE DEF n
<1>5. BaseTypes \subseteq ConditionTypes /\ "Upgrading" \in ConditionTypes
  BY DEF ConditionTypes
<1>6. \A t \in BaseTypes : Shows(n.conditions[t], v[t], r.gen)
  BY <1>2, <1>4, <1>5 DEF Shows
<1>7. Shows(n.conditions.Upgrading, u, u.gen)
  BY <1>2, <1>4, <1>5 DEF Shows
<1>8. IsReport(n, r, o, validation, now)
  BY <1>1, <1>2, <1>3, <1>4, <1>6, <1>7 DEF IsReport, IsStatusOf, v, u
<1> QED
  BY <1>4, <1>8 DEF n, b

-----------------------------------------------------------------------------
(* The conditions agree.                                                   *)

(* Exactly one of the three is true.                                       *)
ExactlyOne(c) ==
    \E x \in {"Ready", "Progressing", "Degraded"} :
        \A t \in {"Ready", "Progressing", "Degraded"} :
            c[t].status = "True" <=> t = x

Coherent(c) ==
    /\ c.Ready.status = "True" => c.ConfigurationValid.status = "True"
    /\ c.Ready.status = "True" =>
          c.Available.status = "True" \/ c.Ready.reason = "ScaledToZero"
    /\ c.ConfigurationValid.status # "True" => c.Degraded.status = "True"
    /\ ExactlyOne(c)

(* The five verdicts of a branch, taken apart.                             *)
LEMMA CoherentBranch ==
    ASSUME NEW a, NEW b, NEW c, NEW d, NEW e,
           d.status = "True" => a.status = "True",
           d.status = "True" => c.status = "True" \/ d.reason = "ScaledToZero",
           a.status # "True" => e.status = "True",
           \/ d.status = "True" /\ b.status # "True" /\ e.status # "True"
           \/ d.status # "True" /\ b.status = "True" /\ e.status # "True"
           \/ d.status # "True" /\ b.status # "True" /\ e.status = "True"
    PROVE  Coherent(Verdicts(a, b, c, d, e))
  BY DEF Coherent, ExactlyOne, Verdicts

(* buildBaseRuntimeStatus: every branch reports coherently, and reports    *)
(* the references as resolved unless it was given that they are not.       *)
LEMMA BaseVerdictsCoherent ==
    ASSUME NEW spec, NEW d, NEW validation
    PROVE  LET v == BaseVerdicts(spec, d, validation)
           IN  /\ Coherent(v)
               /\ validation.valid => v.ConfigurationValid.status = "True"
<1> DEFINE n == desiredReplicaCount(spec, d)
<1> USE DEF IsTrue, IsFalse, ReferencesResolved
<1>1. Coherent(InvalidVerdicts(spec, d, validation))
  BY CoherentBranch DEF InvalidVerdicts
<1>2. Coherent(NoDeploymentVerdicts(spec))
  BY CoherentBranch DEF NoDeploymentVerdicts
<1>3. Coherent(ScaledToZeroVerdicts(d))
  BY CoherentBranch DEF ScaledToZeroVerdicts
<1>4. Coherent(FailedVerdicts(d, n))
  BY CoherentBranch DEF FailedVerdicts
<1>5. Coherent(ReadyVerdicts)
  BY CoherentBranch DEF ReadyVerdicts
<1>6. Coherent(ProgressingVerdicts(d, n))
  BY CoherentBranch DEF ProgressingVerdicts
<1>7. /\ NoDeploymentVerdicts(spec).ConfigurationValid.status = "True"
      /\ ScaledToZeroVerdicts(d).ConfigurationValid.status = "True"
      /\ FailedVerdicts(d, n).ConfigurationValid.status = "True"
      /\ ReadyVerdicts.ConfigurationValid.status = "True"
      /\ ProgressingVerdicts(d, n).ConfigurationValid.status = "True"
  BY DEF NoDeploymentVerdicts, ScaledToZeroVerdicts, FailedVerdicts,
         ReadyVerdicts, ProgressingVerdicts, Verdicts
<1> QED
  BY <1>1, <1>2, <1>3, <1>4, <1>5, <1>6, <1>7, Zenon DEF BaseVerdicts, n

(* Coherence is about status and reason.                                   *)
LEMMA CoherenceShows ==
    ASSUME NEW c, NEW v, NEW gen, Coherent(v),
           \A t \in BaseTypes : Shows(c[t], v[t], gen)
    PROVE  Coherent(c)
  BY DEF Coherent, ExactlyOne, Shows, BaseTypes

(* buildRuntimeStatus reports coherently, ...                              *)
LEMMA BuiltCoherent ==
    ASSUME NEW r, IsRuntime(r), NEW o \in Observations,
           NEW validation \in Validations, NEW now \in Nat
    PROVE  LET b == buildRuntimeStatus(r, o, validation, now)
           IN  /\ Coherent(b.conditions)
               /\ validation.valid =>
                    b.conditions.ConfigurationValid.status = "True"
<1> DEFINE b == buildRuntimeStatus(r, o, validation, now)
           v == BaseVerdicts(r.spec, o.deployment, validation)
<1>1. \A t \in BaseTypes : Shows(b.conditions[t], v[t], r.gen)
  BY BuiltFields
<1>2. /\ Coherent(v)
      /\ validation.valid => v.ConfigurationValid.status = "True"
  BY BaseVerdictsCoherent
<1> HIDE DEF b, v
<1>3. Coherent(b.conditions)
  BY <1>1, <1>2, CoherenceShows
<1>4. b.conditions.ConfigurationValid.status = v.ConfigurationValid.status
  BY <1>1 DEF Shows, BaseTypes
<1> QED
  BY <1>2, <1>3, <1>4 DEF b

(* ... and so does a failure, which overrides three of the five.           *)
LEMMA FailureCoherent ==
    ASSUME NEW r, IsRuntime(r), NEW o \in Observations, NEW now \in Nat
    PROVE  Coherent(buildReconciliationFailureStatus(r, o, now).conditions)
<1> DEFINE b == buildRuntimeStatus(r, o, validReferenceValidation, now)
           c == SetConditions(b.conditions, FailureVerdicts, r.gen, now)
<1>1. validReferenceValidation \in Validations /\ validReferenceValidation.valid
  BY DEF validReferenceValidation, Validations
<1>2. b \in Statuses /\ b.conditions.ConfigurationValid.status = "True"
  BY <1>1, BuildStatusType, BuiltCoherent DEF IsStatusOf
<1>3. buildReconciliationFailureStatus(r, o, now).conditions = c
  BY <1>2 DEF buildReconciliationFailureStatus, Statuses
<1> HIDE DEF b
<1>4. /\ c.Ready.status = "False" /\ c.Progressing.status = "False"
      /\ c.Degraded.status = "True"
      /\ c.ConfigurationValid = b.conditions.ConfigurationValid
  BY DEF SetConditions, setRuntimeCondition, FailureVerdicts, IsTrue, IsFalse,
         ConditionTypes, BaseTypes
<1> HIDE DEF c
<1>5. Coherent(c)
  BY <1>2, <1>4 DEF Coherent, ExactlyOne
<1> QED
  BY <1>3, <1>5

(* Times do not matter.                                                    *)
LEMMA PreservedCoherent ==
    ASSUME NEW s \in Statuses, NEW d \in Statuses, Coherent(d.conditions)
    PROVE  Coherent(preserveRuntimeConditionTransitionTimes(s, d).conditions)
<1> DEFINE p == preserveRuntimeConditionTransitionTimes(s, d)
<1>1. \A t \in ConditionTypes :
          /\ p.conditions[t].status = d.conditions[t].status
          /\ p.conditions[t].reason = d.conditions[t].reason
  BY PreservedFields
<1> HIDE DEF p
<1> QED
  BY <1>1 DEF Coherent, ExactlyOne, ConditionTypes, BaseTypes, p

-----------------------------------------------------------------------------
(* Reporting again changes nothing.                                        *)

(* applyUpgradeStatus: deciding the Upgrading condition a second time, on  *)
(* the status the first decision was stored with, yields the same.         *)
LEMMA UpgradeSettles ==
    ASSUME NEW r, IsRuntime(r), NEW r2, IsRuntime(r2), NEW d, NEW now,
           r2.gen = r.gen, r2.spec = r.spec,
           r2.status.lastSuccessfulImage
             = IF ImageRolledOut(r.spec, d) THEN runtimeImage(r.spec.image)
               ELSE r.status.lastSuccessfulImage,
           LET u == UpgradeCondition(r, d, r.status, now)
           IN  Shows(r2.status.conditions.Upgrading, u, u.gen)
    PROVE  Shows(UpgradeCondition(r2, d, r2.status, now),
                 r2.status.conditions.Upgrading,
                 r2.status.conditions.Upgrading.gen)
<1> DEFINE img == runtimeImage(r.spec.image)
           rolledOut == ImageRolledOut(r.spec, d)
           verdict == UpgradeVerdict(r.spec, d)
           was == r.status.lastSuccessfulImage
           is == r2.status.lastSuccessfulImage
           old == r.status.conditions.Upgrading
           new == r2.status.conditions.Upgrading
           Decide(last, c) ==
             IF last = None THEN setRuntimeCondition(c, IsFalse("NoUpgrade"),
                                                     r.gen, now)
             ELSE IF last # img
                  THEN setRuntimeCondition(c, verdict, r.gen, now)
             ELSE IF c.status = "Absent"
                  THEN setRuntimeCondition(c, IsFalse("NoUpgrade"),
                                           r.gen, now)
             ELSE c
<1>0. img # None
  BY ImageType, NoneAssumption DEF IsRuntime
<1>1. /\ UpgradeCondition(r, d, r.status, now) = Decide(was, old)
      /\ UpgradeCondition(r2, d, r2.status, now) = Decide(is, new)
  BY DEF UpgradeCondition
<1>2. /\ Shows(new, Decide(was, old), Decide(was, old).gen)
      /\ is = IF rolledOut THEN img ELSE was
  BY <1>1
<1>3. verdict.status # "Absent" /\ IsFalse("NoUpgrade").status # "Absent"
  BY DEF UpgradeVerdict, IsTrue, IsFalse
<1> HIDE DEF img, rolledOut, verdict, was, is, old, new
<1>4. Shows(Decide(is, new), new, new.gen)
  <2>1. CASE was = None
    BY <1>2, <1>3, <2>1 DEF Shows, setRuntimeCondition
  <2>2. CASE was # None /\ was # img
    BY <1>0, <1>2, <1>3, <2>2 DEF Shows, setRuntimeCondition
  <2>3. CASE was # None /\ was = img
    BY <1>2, <1>3, <2>3 DEF Shows, setRuntimeCondition
  <2> QED
    BY <2>1, <2>2, <2>3
<1> QED
  BY <1>1, <1>4 DEF new

(* Two statuses whose fields agree are equal.                              *)
LEMMA StatusEquality ==
    ASSUME NEW n \in Statuses, NEW p \in Statuses,
           n.observedGeneration = p.observedGeneration,
           n.readyReplicas = p.readyReplicas,
           n.availableReplicas = p.availableReplicas,
           n.desiredImage = p.desiredImage,
           n.currentImage = p.currentImage,
           n.lastSuccessfulImage = p.lastSuccessfulImage,
           n.endpoint = p.endpoint,
           \A t \in ConditionTypes :
              /\ Shows(n.conditions[t], p.conditions[t], p.conditions[t].gen)
              /\ n.conditions[t].since = p.conditions[t].since
    PROVE  n = p
<1>1. ASSUME NEW t \in ConditionTypes
      PROVE  n.conditions[t] = p.conditions[t]
  <2>1. n.conditions[t] \in Conditions /\ p.conditions[t] \in Conditions
    BY DEF Statuses
  <2> QED
    BY <2>1 DEF Conditions, Shows
<1>2. n.conditions = p.conditions
  BY <1>1 DEF Statuses
<1> QED
  BY <1>2 DEF Statuses

(* buildRuntimeStatus and updateRuntimeStatus: a report that is computed   *)
(* again, from the status it was stored in and the same observation, is    *)
(* the same to the last field.                                             *)
LEMMA ReportAgain ==
    ASSUME NEW r, IsRuntime(r), NEW r2, IsRuntime(r2),
           NEW o \in Observations, NEW validation \in Validations,
           NEW now \in Nat, r2.gen = r.gen, r2.spec = r.spec,
           r2.status = preserveRuntimeConditionTransitionTimes(r.status,
                           buildRuntimeStatus(r, o, validation, now))
    PROVE  preserveRuntimeConditionTransitionTimes(r2.status,
               buildRuntimeStatus(r2, o, validation, now)) = r2.status
<1> DEFINE n == r2.status
           p == preserveRuntimeConditionTransitionTimes(n,
                    buildRuntimeStatus(r2, o, validation, now))
           v == BaseVerdicts(r.spec, o.deployment, validation)
           u2 == UpgradeCondition(r2, o.deployment, n, now)
<1>1. IsReport(n, r, o, validation, now)
  BY PreservedBuilt
<1>2. /\ IsReport(p, r2, o, validation, now)
      /\ \A t \in ConditionTypes :
            p.conditions[t].status = n.conditions[t].status
              => p.conditions[t].since = n.conditions[t].since
  BY PreservedBuilt
<1>3. Shows(u2, n.conditions.Upgrading, n.conditions.Upgrading.gen)
  BY <1>1, UpgradeSettles DEF IsReport
<1> HIDE DEF p, n
<1>4. /\ \A t \in BaseTypes : Shows(n.conditions[t], v[t], r.gen)
      /\ \A t \in BaseTypes : Shows(p.conditions[t], v[t], r.gen)
      /\ Shows(p.conditions.Upgrading, u2, u2.gen)
  BY <1>1, <1>2 DEF IsReport, n
<1> HIDE DEF v, u2
<1>5. \A t \in ConditionTypes :
          Shows(p.conditions[t], n.conditions[t], n.conditions[t].gen)
  <2>1. \A t \in BaseTypes :
            Shows(p.conditions[t], n.conditions[t], n.conditions[t].gen)
    BY <1>4 DEF Shows
  <2>2. Shows(p.conditions.Upgrading, n.conditions.Upgrading,
              n.conditions.Upgrading.gen)
    BY <1>3, <1>4 DEF Shows
  <2> QED
    BY <2>1, <2>2 DEF ConditionTypes
<1>6. \A t \in ConditionTypes : p.conditions[t].since = n.conditions[t].since
  BY <1>2, <1>5 DEF Shows
<1>7. /\ n \in Statuses /\ p \in Statuses
      /\ p.observedGeneration = n.observedGeneration
      /\ p.readyReplicas = n.readyReplicas
      /\ p.availableReplicas = n.availableReplicas
      /\ p.desiredImage = n.desiredImage
      /\ p.currentImage = n.currentImage
      /\ p.endpoint = n.endpoint
  BY <1>1, <1>2 DEF IsReport
<1>8. p.lastSuccessfulImage = n.lastSuccessfulImage
  BY <1>1, <1>2 DEF IsReport, n
<1>9. p = n
  BY <1>5, <1>6, <1>7, <1>8, StatusEquality
<1> QED
  BY <1>9 DEF p, n

==============================================================================
