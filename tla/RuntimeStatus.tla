---------------------------- MODULE RuntimeStatus ----------------------------
(***************************************************************************)
(* The pure part of internal/controller/runtime_status.go and the replica  *)
(* and image helpers of runtime_resources.go: how one reconciliation turns *)
(* a TrussiumRuntime, the observed Deployment and Service and the outcome  *)
(* of the Secret check into the next status.  No variables: the machines   *)
(* of this project (StatusWriter, RuntimeReconciler) apply these operators.*)
(*                                                                         *)
(* Data abstraction.  Messages are left out.  The spec keeps the fields    *)
(* the status and the Deployment depend on; "cfg" stands for everything    *)
(* else that reaches the Pod template (environment, checksum, scheduling,  *)
(* metadata).  A Deployment's generation and observedGeneration are only   *)
(* ever compared, so a Deployment carries that comparison, "observed".     *)
(***************************************************************************)
EXTENDS Integers

CONSTANTS ImageSpecs,    \* values of spec.image: [repository, tag, digest]
          Configs,       \* the rest of the Pod template
          SecretNames,   \* names a Secret reference may use
          Ports,         \* Service ports
          None           \* a nil pointer or an empty string

(* spec.image.repository, tag and digest, as runtimeImage composes them.   *)
runtimeImage(imageSpec) ==
    IF imageSpec.digest # None
    THEN <<imageSpec.repository, "@", imageSpec.digest>>
    ELSE IF imageSpec.tag # None
         THEN <<imageSpec.repository, ":", imageSpec.tag>>
         ELSE <<imageSpec.repository>>

Images == { runtimeImage(i) : i \in ImageSpecs }

(* A nil spec.replicas.                                                    *)
Unset == -1

RuntimeSpecs ==
    [ image : ImageSpecs, cfg : Configs, replicas : Nat \cup {Unset},
      autoscaling : BOOLEAN, minReplicas : Nat, maxReplicas : Nat,
      credentials : SecretNames \cup {None}, pullSecrets : SUBSET SecretNames,
      port : Ports ]

ASSUME NoneAssumption ==
    /\ None \notin Images
    /\ None \notin SecretNames
    /\ None \notin Ports

-----------------------------------------------------------------------------
(* Replicas.                                                               *)

desiredReplicas(spec) == IF spec.replicas = Unset THEN 1 ELSE spec.replicas

autoscalingEnabled(spec) == spec.autoscaling

desiredAutoscalingMinReplicas(spec) ==
    IF spec.minReplicas = 0 THEN 1 ELSE spec.minReplicas

desiredAutoscalingMaxReplicas(spec) ==
    IF spec.maxReplicas = 0 THEN 10 ELSE spec.maxReplicas

initialDeploymentReplicas(spec) ==
    IF autoscalingEnabled(spec)
    THEN desiredAutoscalingMinReplicas(spec)
    ELSE desiredReplicas(spec)

(* The scale the HorizontalPodAutoscaler selected, when there is one.      *)
desiredReplicaCount(spec, d) ==
    IF autoscalingEnabled(spec) /\ d.exists
    THEN d.replicas
    ELSE initialDeploymentReplicas(spec)

-----------------------------------------------------------------------------
(* Secret references.                                                      *)

referencedSecretNames(spec) ==
    ({spec.credentials} \ {None}) \cup spec.pullSecrets

runtimeReferencesSecret(spec, name) == name \in referencedSecretNames(spec)

validReferenceValidation ==
    [valid |-> TRUE, reason |-> "ReferencesResolved", err |-> FALSE]

(* The results the check may return when the informer cache holds the      *)
(* Secrets "present".  The first Get may fail before a missing name is     *)
(* reached, so an error is possible whenever something is referenced.      *)
validateSecretReferences(spec, present) ==
    (IF referencedSecretNames(spec) \subseteq present
     THEN {validReferenceValidation}
     ELSE {[valid |-> FALSE, reason |-> "SecretNotFound", err |-> FALSE]})
    \cup
    (IF referencedSecretNames(spec) # {}
     THEN {[valid |-> FALSE, reason |-> "ReferenceCheckFailed", err |-> TRUE]}
     ELSE {})

Validations ==
    [valid : BOOLEAN, err : BOOLEAN,
     reason : {"ReferencesResolved", "SecretNotFound", "ReferenceCheckFailed"}]

-----------------------------------------------------------------------------
(* The observed Deployment and Service.                                    *)

Deployments ==
    [ exists : BOOLEAN, image : Images \cup {None}, cfg : Configs \cup {None},
      replicas : Nat, observed : BOOLEAN,
      total : Nat, updated : Nat, ready : Nat, available : Nat,
      unavailable : Nat,
      deadlineExceeded : BOOLEAN, replicaFailure : BOOLEAN ]

NoDeployment ==
    [ exists |-> FALSE, image |-> None, cfg |-> None, replicas |-> 0,
      observed |-> FALSE, total |-> 0, updated |-> 0, ready |-> 0,
      available |-> 0, unavailable |-> 0,
      deadlineExceeded |-> FALSE, replicaFailure |-> FALSE ]

NoService == None

(* What loadRuntimeObservation returns together with an error.             *)
EmptyObservation == [deployment |-> NoDeployment, service |-> NoService]

deploymentCurrentImage(d) == IF d.exists THEN d.image ELSE None

(* Mutant: an absent Service is not told apart.                            *)
runtimeServiceEndpointUnchecked(s) == <<"http", s>>

(* The endpoint URL is determined by the Service's port.                   *)
runtimeServiceEndpoint(s) == IF s = NoService THEN None ELSE <<"http", s>>

Endpoints == { <<"http", p>> : p \in Ports }

deploymentHasRolloutFailure(d) ==
    d.exists /\ (d.deadlineExceeded \/ d.replicaFailure)

(* ProgressDeadlineExceeded has priority over ReplicaFailure.              *)
deploymentFailure(d) ==
    IF d.deadlineExceeded THEN "ProgressDeadlineExceeded" ELSE "ReplicaFailure"

(* Mutant: a rollout is complete with more ready Pods than wanted.         *)
CountsAreExceeded(d, n) ==
    /\ d.updated = n
    /\ d.total = n
    /\ d.ready > n
    /\ d.available = n
    /\ d.unavailable = 0

(* Every replica the rollout counts is updated, ready and available, and   *)
(* there are n of them; for n = 0 that is every counter being zero.        *)
CountsAre(d, n) ==
    /\ d.updated = n
    /\ d.total = n
    /\ d.ready = n
    /\ d.available = n
    /\ d.unavailable = 0

(* Mutant: counters of an earlier generation are believed.                 *)
observeDeploymentRolloutUnobserved(spec, d) ==
    IF ~d.exists THEN "progressing"
    ELSE IF deploymentHasRolloutFailure(d) THEN "failed"
    ELSE IF CountsAre(d, desiredReplicaCount(spec, d)) THEN "complete"
    ELSE "progressing"

observeDeploymentRollout(spec, d) ==
    IF ~d.exists THEN "progressing"
    ELSE IF deploymentHasRolloutFailure(d) THEN "failed"
    ELSE IF ~d.observed THEN "progressing"
    ELSE IF CountsAre(d, desiredReplicaCount(spec, d)) THEN "complete"
    ELSE "progressing"

-----------------------------------------------------------------------------
(* Conditions.  A condition is absent until it is first set.               *)

BaseTypes == {"ConfigurationValid", "Progressing", "Available", "Ready",
              "Degraded"}

ConditionTypes == BaseTypes \cup {"Upgrading"}

BaseReasons ==
    {"ReferencesResolved", "SecretNotFound", "ReferenceCheckFailed",
     "DeploymentProgressing", "DeploymentGenerationPending",
     "ReconciliationComplete", "ConfigurationInvalid", "DeploymentFailed",
     "ScaledToZero", "RuntimeAvailable", "RuntimeUnavailable",
     "RuntimeReady", "RuntimeNotReady", "AsExpected",
     "ProgressDeadlineExceeded", "ReplicaFailure", "ReconciliationFailed"}

UpgradeReasons ==
    {"NoUpgrade", "UpgradeInProgress", "UpgradeComplete", "UpgradeFailed"}

Reasons == BaseReasons \cup UpgradeReasons \cup {"None"}

Conditions ==
    [ status : {"True", "False", "Absent"}, reason : Reasons,
      gen : Nat, since : Nat ]

Absent == [status |-> "Absent", reason |-> "None", gen |-> 0, since |-> 0]

Statuses ==
    [ observedGeneration : Nat, readyReplicas : Nat, availableReplicas : Nat,
      desiredImage : Images \cup {None}, currentImage : Images \cup {None},
      lastSuccessfulImage : Images \cup {None},
      endpoint : Endpoints \cup {None}, conditions : [ConditionTypes -> Conditions] ]

EmptyStatus ==
    [ observedGeneration |-> 0, readyReplicas |-> 0, availableReplicas |-> 0,
      desiredImage |-> None, currentImage |-> None,
      lastSuccessfulImage |-> None, endpoint |-> None,
      conditions |-> [t \in ConditionTypes |-> Absent] ]

IsTrue(reason) == [status |-> "True", reason |-> reason]

IsFalse(reason) == [status |-> "False", reason |-> reason]

(* meta.SetStatusCondition: the transition time moves with the status.     *)
setRuntimeCondition(old, verdict, gen, now) ==
    [ status |-> verdict.status, reason |-> verdict.reason, gen |-> gen,
      since |-> IF old.status = verdict.status THEN old.since ELSE now ]

(* The conditions after each of the verdicts is set.                       *)
SetConditions(conditions, verdicts, gen, now) ==
    [t \in ConditionTypes |->
        IF t \in DOMAIN verdicts
        THEN setRuntimeCondition(conditions[t], verdicts[t], gen, now)
        ELSE conditions[t]]

(* FindStatusCondition is the field access status.conditions[type].        *)
runtimeCondition(status, type) == status.conditions[type]

conditionChanged(previous, current, type) ==
    LET p == runtimeCondition(previous, type)
        c == runtimeCondition(current, type)
    IN  /\ c.status # "Absent"
        /\ p.status # c.status \/ p.reason # c.reason

-----------------------------------------------------------------------------
(* buildBaseRuntimeStatus: the five base conditions, one operator per      *)
(* branch of the code, in the order the branches are taken.                *)

Verdicts(configurationValid, progressing, available, ready, degraded) ==
    [ ConfigurationValid |-> configurationValid, Progressing |-> progressing,
      Available |-> available, Ready |-> ready, Degraded |-> degraded ]

setAvailabilityCondition(available, desired) ==
    IF desired = 0 THEN IsFalse("ScaledToZero")
    ELSE IF available > 0 THEN IsTrue("RuntimeAvailable")
    ELSE IsFalse("RuntimeUnavailable")

(* The scale compared here is spec.replicas, not the autoscaler's.         *)
InvalidVerdicts(spec, d, validation) ==
    Verdicts(IsFalse(validation.reason),
             IsFalse("ConfigurationInvalid"),
             setAvailabilityCondition(d.available, desiredReplicas(spec)),
             IsFalse("ConfigurationInvalid"),
             IsTrue("ConfigurationInvalid"))

ReferencesResolved == IsTrue("ReferencesResolved")

NoDeploymentVerdicts(spec) ==
    Verdicts(ReferencesResolved,
             IsTrue("DeploymentProgressing"),
             setAvailabilityCondition(0, initialDeploymentReplicas(spec)),
             IsFalse("RuntimeNotReady"),
             IsFalse("AsExpected"))

(* desired = 0: decided before any Deployment failure is looked at.        *)
ScaledToZeroVerdicts(d) ==
    IF d.observed /\ d.ready = 0 /\ d.available = 0
    THEN Verdicts(ReferencesResolved,
                  IsFalse("ScaledToZero"),
                  IsFalse("ScaledToZero"),
                  IsTrue("ScaledToZero"),
                  IsFalse("AsExpected"))
    ELSE Verdicts(ReferencesResolved,
                  IsTrue("DeploymentGenerationPending"),
                  IsFalse("RuntimeUnavailable"),
                  IsFalse("RuntimeNotReady"),
                  IsFalse("AsExpected"))

FailedVerdicts(d, desired) ==
    Verdicts(ReferencesResolved,
             IsFalse("DeploymentFailed"),
             setAvailabilityCondition(d.available, desired),
             IsFalse("DeploymentFailed"),
             IsTrue(deploymentFailure(d)))

runtimeReady(d, desired) ==
    d.observed /\ d.ready = desired /\ d.available = desired

ReadyVerdicts ==
    Verdicts(ReferencesResolved,
             IsFalse("ReconciliationComplete"),
             IsTrue("RuntimeAvailable"),
             IsTrue("RuntimeReady"),
             IsFalse("AsExpected"))

ProgressingVerdicts(d, desired) ==
    Verdicts(ReferencesResolved,
             IF d.observed THEN IsTrue("DeploymentProgressing")
                           ELSE IsTrue("DeploymentGenerationPending"),
             setAvailabilityCondition(d.available, desired),
             IsFalse("RuntimeNotReady"),
             IsFalse("AsExpected"))

BaseVerdicts(spec, d, validation) ==
    LET desired == desiredReplicaCount(spec, d) IN
    IF ~validation.valid THEN InvalidVerdicts(spec, d, validation)
    ELSE IF ~d.exists THEN NoDeploymentVerdicts(spec)
    ELSE IF desired = 0 THEN ScaledToZeroVerdicts(d)
    ELSE IF deploymentHasRolloutFailure(d) THEN FailedVerdicts(d, desired)
    ELSE IF runtimeReady(d, desired) THEN ReadyVerdicts
    ELSE ProgressingVerdicts(d, desired)

(* A runtime is [gen, spec, status]; "now" stamps the conditions that      *)
(* change their status.                                                    *)
buildBaseRuntimeStatus(runtime, observation, validation, now) ==
    LET d == observation.deployment IN
    [runtime.status EXCEPT
       !.observedGeneration = runtime.gen,
       !.readyReplicas = d.ready,
       !.availableReplicas = d.available,
       !.desiredImage = runtimeImage(runtime.spec.image),
       !.currentImage = deploymentCurrentImage(d),
       !.endpoint = runtimeServiceEndpoint(observation.service),
       !.conditions = SetConditions(@, BaseVerdicts(runtime.spec, d, validation),
                                    runtime.gen, now)]

-----------------------------------------------------------------------------
(* applyUpgradeStatus.                                                     *)

(* The observed rollout is complete and it is a rollout of the wanted image.*)
ImageRolledOut(spec, d) ==
    /\ observeDeploymentRollout(spec, d) = "complete"
    /\ deploymentCurrentImage(d) = runtimeImage(spec.image)

(* The Upgrading verdict when another image was deployed successfully.     *)
UpgradeVerdict(spec, d) ==
    IF observeDeploymentRollout(spec, d) = "failed"
    THEN IsFalse("UpgradeFailed")
    ELSE IF ImageRolledOut(spec, d) THEN IsFalse("UpgradeComplete")
    ELSE IsTrue("UpgradeInProgress")

(* Mutant: the condition is reset as soon as the image is the wanted one.  *)
UpgradeConditionReset(runtime, d, status, now) ==
    setRuntimeCondition(status.conditions.Upgrading,
        IF status.lastSuccessfulImage
             \in {None, runtimeImage(runtime.spec.image)}
        THEN IsFalse("NoUpgrade") ELSE UpgradeVerdict(runtime.spec, d),
        runtime.gen, now)

(* Wanting the image that was deployed last leaves an Upgrading condition  *)
(* that is already there as it is.                                         *)
UpgradeCondition(runtime, d, status, now) ==
    LET last == status.lastSuccessfulImage
        old  == status.conditions.Upgrading
        Set(verdict) == setRuntimeCondition(old, verdict, runtime.gen, now)
    IN  IF last = None THEN Set(IsFalse("NoUpgrade"))
        ELSE IF last # runtimeImage(runtime.spec.image)
             THEN Set(UpgradeVerdict(runtime.spec, d))
        ELSE IF old.status = "Absent" THEN Set(IsFalse("NoUpgrade"))
        ELSE old

applyUpgradeStatus(runtime, d, status, now) ==
    [status EXCEPT
       !.lastSuccessfulImage =
           IF ImageRolledOut(runtime.spec, d)
           THEN runtimeImage(runtime.spec.image) ELSE @,
       !.conditions = [@ EXCEPT
           !.Upgrading = UpgradeCondition(runtime, d, status, now)]]

buildRuntimeStatus(runtime, observation, validation, now) ==
    applyUpgradeStatus(runtime, observation.deployment,
        buildBaseRuntimeStatus(runtime, observation, validation, now), now)

(* What a failure is reported as, whatever the conditions were built to be.*)
FailureVerdicts ==
    [ Progressing |-> IsFalse("ReconciliationFailed"),
      Ready |-> IsFalse("ReconciliationFailed"),
      Degraded |-> IsTrue("ReconciliationFailed") ]

(* Mutant: the failure does not end the progress report.                   *)
buildReconciliationFailureStatusKeepsProgress(runtime, observation, now) ==
    [buildRuntimeStatus(runtime, observation,
                        validReferenceValidation, now) EXCEPT
       !.conditions = SetConditions(@,
           [ Ready |-> FailureVerdicts.Ready,
             Degraded |-> FailureVerdicts.Degraded ], runtime.gen, now)]

(* Whatever failed, the references are reported as resolved.               *)
buildReconciliationFailureStatus(runtime, observation, now) ==
    [buildRuntimeStatus(runtime, observation,
                        validReferenceValidation, now) EXCEPT
       !.conditions = SetConditions(@, FailureVerdicts, runtime.gen, now)]

(* Mutant: the built times are used as they are.                           *)
preserveRuntimeConditionTransitionTimesNot(current, desired) == desired

(* A condition whose status is the stored one keeps its stored time.       *)
preserveRuntimeConditionTransitionTimes(current, desired) ==
    LET Keep(old, new) == IF old.status = new.status
                          THEN [new EXCEPT !.since = old.since] ELSE new
    IN  [desired EXCEPT
           !.conditions = [t \in ConditionTypes |->
                              Keep(current.conditions[t], @[t])]]

==============================================================================
