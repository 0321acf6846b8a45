-------------------------- MODULE StatusWriterProofs --------------------------
(***************************************************************************)
(* Theorems about StatusWriter.                                            *)
(***************************************************************************)
EXTENDS StatusWriter, RuntimeStatusProofs

-----------------------------------------------------------------------------
(* Types.                                                                  *)

(* The runtime and the observation a reconciliation starts from.           *)
RuntimeOf(s, input) ==
    [gen |-> input.gen, spec |-> input.spec, status |-> s]

ObservationOf(input) ==
    [deployment |-> input.deployment, service |-> input.service]

(* The inputs of a reconciliation have the types the operators expect.     *)
LEMMA InputType ==
    ASSUME NEW s \in Statuses, NEW input \in Inputs
    PROVE  /\ IsRuntime(RuntimeOf(s, input))
           /\ ObservationOf(input) \in Observations
           /\ input.path \in {"reconcile", "invalid", "failed"}
  BY InputsAssumption
  DEF InputTypes, RuntimeOf, ObservationOf, IsRuntime, Observations

(* Both validations a reconciliation works with are validations.           *)
LEMMA ValidationsUsed ==
    validReferenceValidation \in Validations /\ MissingSecret \in Validations
  BY DEF validReferenceValidation, MissingSecret, Validations

(* Letting time pass keeps a status a status.                              *)
LEMMA AgedType ==
    ASSUME NEW s \in Statuses
    PROVE  /\ Aged(s) \in Statuses
           /\ \A t \in ConditionTypes :
                 /\ Aged(s).conditions[t].status = s.conditions[t].status
                 /\ Aged(s).conditions[t].since = Earlier
<1> DEFINE c == [t \in ConditionTypes |->
                    [s.conditions[t] EXCEPT !.since = Earlier]]
<1>1. Aged(s) = [s EXCEPT !.conditions = c]
  BY DEF Aged
<1>2. \A t \in ConditionTypes :
          /\ c[t] \in Conditions
          /\ c[t].status = s.conditions[t].status
          /\ c[t].since = Earlier
  BY DEF Statuses, Conditions, Earlier
<1>3. c \in [ConditionTypes -> Conditions]
  BY <1>2
<1> HIDE DEF c
<1> QED
  BY <1>1, <1>2, <1>3 DEF Statuses

(* The status that is built, and the one that is stored, are statuses.     *)
LEMMA DesiredStatusType ==
    ASSUME NEW s \in Statuses, NEW input \in Inputs
    PROVE  DesiredStatus(s, input) \in Statuses
<1> DEFINE r == RuntimeOf(s, input)
           o == ObservationOf(input)
<1>1. /\ IsRuntime(r)
      /\ o \in Observations
      /\ input.path \in {"reconcile", "invalid", "failed"}
  BY InputType
<1>2. /\ buildRuntimeStatus(r, o, validReferenceValidation, Now) \in Statuses
      /\ buildRuntimeStatus(r, o, MissingSecret, Now) \in Statuses
      /\ buildReconciliationFailureStatus(r, o, Now) \in Statuses
  BY <1>1, ValidationsUsed, BuildStatusType, FailureStatusType
  DEF IsStatusOf, Now
<1> QED
  BY <1>1, <1>2 DEF DesiredStatus, RuntimeOf, ObservationOf

(* updateRuntimeStatus yields a status.                                    *)
LEMMA UpdateType ==
    ASSUME NEW s \in Statuses, NEW input \in Inputs
    PROVE  updateRuntimeStatus(s, input) \in Statuses
  BY DesiredStatusType, PreserveType DEF updateRuntimeStatus

(* A new runtime has a status.                                             *)
LEMMA EmptyStatusType == EmptyStatus \in Statuses
  BY DEF EmptyStatus, Statuses, Absent, Conditions, Reasons

(* Whatever is observed, the stored status is one the API type allows.     *)
THEOREM TypeCorrect == Spec => []TypeOK
<1>1. Init => TypeOK
  BY EmptyStatusType DEF Init, TypeOK
<1>2. TypeOK /\ [Next]_status => TypeOK'
  BY AgedType, UpdateType DEF TypeOK, Next, ReconcileStatus
<1> QED
  BY <1>1, <1>2, PTL DEF Spec

-----------------------------------------------------------------------------
(* Transition times.                                                       *)

(* A condition in the making has kept its status or carries the time Now.  *)
Stamped(old, conditions) ==
    \A t \in ConditionTypes :
        \/ conditions[t].status = old[t].status
        \/ conditions[t].since = Now

(* setRuntimeCondition stamps what it changes with the current time.       *)
LEMMA SetConditionsStamps ==
    ASSUME NEW old, NEW conditions, Stamped(old, conditions),
           NEW v, NEW gen
    PROVE  Stamped(old, SetConditions(conditions, v, gen, Now))
  BY DEF Stamped, SetConditions, setRuntimeCondition

(* buildRuntimeStatus stamps what it changes.                              *)
LEMMA BuildStatusStamps ==
    ASSUME NEW r, IsRuntime(r), NEW o \in Observations,
           NEW validation \in Validations
    PROVE  Stamped(r.status.conditions,
                   buildRuntimeStatus(r, o, validation, Now).conditions)
<1> DEFINE s == buildBaseRuntimeStatus(r, o, validation, Now)
           u == UpgradeCondition(r, o.deployment, s, Now)
<1>1. s \in Statuses
  BY BaseStatusType DEF Now
<1>2. Stamped(r.status.conditions, r.status.conditions)
  BY DEF Stamped
<1>3. s.conditions = SetConditions(r.status.conditions,
                         BaseVerdicts(r.spec, o.deployment, validation),
                         r.gen, Now)
  BY DEF buildBaseRuntimeStatus, IsRuntime, Statuses
<1>4. Stamped(r.status.conditions, s.conditions)
  BY <1>2, <1>3, SetConditionsStamps
<1> HIDE DEF s
<1>5. \/ u.status = r.status.conditions.Upgrading.status
      \/ u.since = Now
  BY <1>4
  DEF UpgradeCondition, setRuntimeCondition, Stamped, ConditionTypes
<1>6. buildRuntimeStatus(r, o, validation, Now).conditions
        = [s.conditions EXCEPT !.Upgrading = u]
  BY <1>1 DEF buildRuntimeStatus, applyUpgradeStatus, s, Statuses
<1> HIDE DEF u
<1> QED
  BY <1>1, <1>4, <1>5, <1>6 DEF Stamped, Statuses, ConditionTypes

(* buildReconciliationFailureStatus stamps what it changes.                *)
LEMMA FailureStatusStamps ==
    ASSUME NEW r, IsRuntime(r), NEW o \in Observations
    PROVE  Stamped(r.status.conditions,
                   buildReconciliationFailureStatus(r, o, Now).conditions)
<1> DEFINE s == buildRuntimeStatus(r, o, validReferenceValidation, Now)
<1>1. s \in Statuses /\ Stamped(r.status.conditions, s.conditions)
  BY BuildStatusStamps, BuildStatusType, ValidationsUsed DEF IsStatusOf, Now
<1>2. buildReconciliationFailureStatus(r, o, Now).conditions
        = SetConditions(s.conditions, FailureVerdicts, r.gen, Now)
  BY <1>1 DEF buildReconciliationFailureStatus, Statuses
<1> HIDE DEF s
<1> QED
  BY <1>1, <1>2, SetConditionsStamps

(* Whichever of the two a reconciliation uses.                             *)
LEMMA DesiredStatusStamps ==
    ASSUME NEW s \in Statuses, NEW input \in Inputs
    PROVE  Stamped(s.conditions, DesiredStatus(s, input).conditions)
<1> DEFINE r == RuntimeOf(s, input)
           o == ObservationOf(input)
<1>1. /\ IsRuntime(r) /\ r.status = s
      /\ o \in Observations
      /\ input.path \in {"reconcile", "invalid", "failed"}
  BY InputType DEF RuntimeOf
<1>2. /\ Stamped(s.conditions,
             buildRuntimeStatus(r, o, validReferenceValidation, Now).conditions)
      /\ Stamped(s.conditions,
             buildRuntimeStatus(r, o, MissingSecret, Now).conditions)
      /\ Stamped(s.conditions,
             buildReconciliationFailureStatus(r, o, Now).conditions)
  BY <1>1, ValidationsUsed, BuildStatusStamps, FailureStatusStamps
<1> QED
  BY <1>1, <1>2 DEF DesiredStatus, RuntimeOf, ObservationOf

(* A write stamps a condition exactly when its status changes, for every   *)
(* sequence of observations: the failure path, which sets conditions twice,*)
(* is repaired by preserveRuntimeConditionTransitionTimes.                 *)
THEOREM TransitionTimesAreRight == Spec => TransitionTimesTrackStatus
<1> DEFINE Step == \A t \in ConditionTypes :
                      LET old == status.conditions[t]
                          new == status'.conditions[t]
                      IN  new.since = Now <=> new.status # old.status
<1>1. TypeOK /\ [Next]_status => [Step]_status
  <2> SUFFICES ASSUME TypeOK, NEW input \in Inputs, ReconcileStatus(input)
               PROVE  Step
    BY DEF Next
  <2> DEFINE a == Aged(status)
             d == DesiredStatus(a, input)
  <2>1. /\ a \in Statuses
        /\ \A t \in ConditionTypes :
              /\ a.conditions[t].status = status.conditions[t].status
              /\ a.conditions[t].since = Earlier
    BY AgedType DEF TypeOK
  <2>2. d \in Statuses /\ Stamped(a.conditions, d.conditions)
    BY <2>1, DesiredStatusType, DesiredStatusStamps
  <2>3. status' = preserveRuntimeConditionTransitionTimes(a, d)
    BY DEF ReconcileStatus, updateRuntimeStatus
  <2> HIDE DEF a, d
  <2>4. ASSUME NEW t \in ConditionTypes
        PROVE  /\ status'.conditions[t].status = d.conditions[t].status
               /\ d.conditions[t].status = a.conditions[t].status
                    => status'.conditions[t].since = a.conditions[t].since
               /\ d.conditions[t].status # a.conditions[t].status
                    => status'.conditions[t].since = d.conditions[t].since
    BY <2>1, <2>2, <2>3
    DEF preserveRuntimeConditionTransitionTimes, Statuses, Conditions
  <2> QED
    BY <2>1, <2>2, <2>4 DEF Stamped, Earlier, Now
<1>2. Spec => []TypeOK
  BY TypeCorrect
<1> QED
  BY <1>1, <1>2, PTL DEF Spec, TransitionTimesTrackStatus

-----------------------------------------------------------------------------
(* What a reconciliation reports, apart from the times.                    *)

(* The validation a reconciliation builds its status with.                 *)
ValidationOf(input) ==
    IF input.path = "invalid" THEN MissingSecret ELSE validReferenceValidation

(* The verdicts of the base conditions: they depend on nothing stored.     *)
BaseReport(input) ==
    LET v == BaseVerdicts(input.spec, input.deployment, ValidationOf(input))
    IN  [t \in BaseTypes |->
            IF input.path = "failed" /\ t \in DOMAIN FailureVerdicts
            THEN FailureVerdicts[t] ELSE v[t]]

(* The same of the status a reconciliation wants, whichever way it ended.  *)
IsReportOf(n, s, input) ==
    /\ n \in Statuses
    /\ \A t \in BaseTypes :
          Shows(n.conditions[t], BaseReport(input)[t], input.gen)
    /\ n.lastSuccessfulImage
         = IF ImageRolledOut(input.spec, input.deployment)
           THEN runtimeImage(input.spec.image) ELSE s.lastSuccessfulImage
    /\ n.observedGeneration = input.gen
    /\ n.desiredImage = runtimeImage(input.spec.image)
    /\ n.readyReplicas = input.deployment.ready
    /\ n.availableReplicas = input.deployment.available
    /\ n.currentImage = deploymentCurrentImage(input.deployment)
    /\ n.endpoint = runtimeServiceEndpoint(input.service)

UpgradeOf(s, input) ==
    UpgradeCondition(RuntimeOf(s, input), input.deployment, s, Now)

(* DesiredStatus: everything but the times and the Upgrading condition is  *)
(* determined by the input.                                                *)
LEMMA DesiredReport ==
    ASSUME NEW s \in Statuses, NEW input \in Inputs
    PROVE  /\ IsReportOf(DesiredStatus(s, input), s, input)
           /\ DesiredStatus(s, input).conditions.Upgrading
                = UpgradeOf(s, input)
<1> DEFINE r == RuntimeOf(s, input)
           o == ObservationOf(input)
           b == buildRuntimeStatus(r, o, ValidationOf(input), Now)
           v == BaseVerdicts(input.spec, input.deployment, ValidationOf(input))
           n == DesiredStatus(s, input)
<1>1. /\ IsRuntime(r) /\ o \in Observations
      /\ input.path \in {"reconcile", "invalid", "failed"}
      /\ ValidationOf(input) \in Validations
  BY InputType, ValidationsUsed DEF ValidationOf
<1>2. /\ r.gen = input.gen /\ r.spec = input.spec /\ r.status = s
      /\ o.deployment = input.deployment /\ o.service = input.service
  BY DEF RuntimeOf, ObservationOf
<1>3. IsStatusOf(b, r, o.deployment)
  BY <1>1, BuildStatusType DEF Now
<1>4. /\ \A t \in BaseTypes : Shows(b.conditions[t], v[t], input.gen)
      /\ b.conditions.Upgrading = UpgradeOf(s, input)
      /\ b.lastSuccessfulImage
           = IF ImageRolledOut(input.spec, input.deployment)
             THEN runtimeImage(input.spec.image) ELSE s.lastSuccessfulImage
      /\ b.readyReplicas = input.deployment.ready
      /\ b.availableReplicas = input.deployment.available
      /\ b.currentImage = deploymentCurrentImage(input.deployment)
      /\ b.endpoint = runtimeServiceEndpoint(input.service)
  <2> HIDE DEF r, o
  <2>1. Now \in Nat
    BY DEF Now
  <2> QED
    BY <1>1, <1>2, <2>1, BuiltFields DEF UpgradeOf, r
<1>5. CASE input.path # "failed"
  <2>1. n = b
    BY <1>1, <1>5
    DEF DesiredStatus, ValidationOf, RuntimeOf, ObservationOf
  <2>2. BaseReport(input) = [t \in BaseTypes |-> v[t]]
    BY <1>5 DEF BaseReport
  <2> HIDE DEF r, o, b, v, n
  <2> QED
    BY <1>2, <1>3, <1>4, <2>1, <2>2 DEF IsReportOf, IsStatusOf, n
<1>6. CASE input.path = "failed"
  <2> DEFINE c == SetConditions(b.conditions, FailureVerdicts, input.gen, Now)
  <2>1. n = [b EXCEPT !.conditions = c]
    BY <1>6
    DEF DesiredStatus, ValidationOf, RuntimeOf, ObservationOf,
        buildReconciliationFailureStatus
  <2>2. BaseReport(input)
          = [t \in BaseTypes |-> IF t \in DOMAIN FailureVerdicts
                                 THEN FailureVerdicts[t] ELSE v[t]]
    BY <1>6 DEF BaseReport
  <2> HIDE DEF r, o, b, v, n
  <2>3. DOMAIN FailureVerdicts \subseteq BaseTypes
    BY DEF FailureVerdicts, BaseTypes
  <2>4. c \in [ConditionTypes -> Conditions]
    BY <1>1, <1>2, <1>3, FailureVerdictsType, SetConditionsType
    DEF IsStatusOf, Statuses, IsRuntime, Now
  <2>5. \A t \in BaseTypes :
            Shows(c[t], IF t \in DOMAIN FailureVerdicts
                        THEN FailureVerdicts[t] ELSE v[t], input.gen)
    BY <1>4
    DEF SetConditions, setRuntimeCondition, Shows, ConditionTypes
  <2>6. c.Upgrading = b.conditions.Upgrading
    BY <2>3 DEF SetConditions, ConditionTypes, BaseTypes
  <2> HIDE DEF c
  <2>7. /\ n \in Statuses /\ n.conditions = c
        /\ n.lastSuccessfulImage = b.lastSuccessfulImage
        /\ n.observedGeneration = b.observedGeneration
        /\ n.desiredImage = b.desiredImage
        /\ n.readyReplicas = b.readyReplicas
        /\ n.availableReplicas = b.availableReplicas
        /\ n.currentImage = b.currentImage
        /\ n.endpoint = b.endpoint
    BY <1>3, <2>1, <2>4 DEF IsStatusOf, Statuses
  <2> QED
    BY <1>2, <1>3, <1>4, <2>2, <2>5, <2>6, <2>7
    DEF IsReportOf, IsStatusOf, n
<1> QED
  BY <1>5, <1>6

(* updateRuntimeStatus stores what DesiredStatus reports.                  *)
LEMMA UpdatedReport ==
    ASSUME NEW s \in Statuses, NEW input \in Inputs
    PROVE  LET n == updateRuntimeStatus(s, input)
               u == UpgradeOf(s, input)
           IN  /\ IsReportOf(n, s, input)
               /\ Shows(n.conditions.Upgrading, u, u.gen)
               /\ \A t \in ConditionTypes :
                     n.conditions[t].status = s.conditions[t].status
                       => n.conditions[t].since = s.conditions[t].since
<1> DEFINE d == DesiredStatus(s, input)
           n == updateRuntimeStatus(s, input)
<1>1. d \in Statuses /\ n \in Statuses
  BY DesiredStatusType, UpdateType
<1>2. /\ IsReportOf(d, s, input)
      /\ d.conditions.Upgrading = UpgradeOf(s, input)
  BY DesiredReport
<1>3. n = preserveRuntimeConditionTransitionTimes(s, d)
  BY DEF updateRuntimeStatus
<1> HIDE DEF d, n
<1>4. /\ n.observedGeneration = d.observedGeneration
      /\ n.desiredImage = d.desiredImage
      /\ n.lastSuccessfulImage = d.lastSuccessfulImage
  BY <1>1, <1>3, PreserveType
<1>5. /\ \A t \in ConditionTypes :
            /\ n.conditions[t].status = d.conditions[t].status
            /\ n.conditions[t].reason = d.conditions[t].reason
            /\ n.conditions[t].gen = d.conditions[t].gen
            /\ d.conditions[t].status = s.conditions[t].status
                 => n.conditions[t].since = s.conditions[t].since
      /\ n.readyReplicas = d.readyReplicas
      /\ n.availableReplicas = d.availableReplicas
      /\ n.currentImage = d.currentImage
      /\ n.endpoint = d.endpoint
  BY <1>1, <1>3, PreservedFields
<1>6. BaseTypes \subseteq ConditionTypes /\ "Upgrading" \in ConditionTypes
  BY DEF ConditionTypes
<1>7. IsReportOf(n, s, input)
  <2>1. \A t \in BaseTypes :
            Shows(n.conditions[t], BaseReport(input)[t], input.gen)
    BY <1>2, <1>5, <1>6 DEF IsReportOf, Shows
  <2> QED
    BY <1>1, <1>2, <1>4, <1>5, <2>1 DEF IsReportOf
<1>8. Shows(n.conditions.Upgrading, UpgradeOf(s, input), UpgradeOf(s, input).gen)
  BY <1>2, <1>5, <1>6 DEF Shows
<1>9. \A t \in ConditionTypes :
          n.conditions[t].status = s.conditions[t].status
            => n.conditions[t].since = s.conditions[t].since
  BY <1>5
<1> QED
  BY <1>7, <1>8, <1>9 DEF n

-----------------------------------------------------------------------------
(* The conditions agree.                                                   *)

(* Every outcome of a reconciliation is reported coherently.               *)
LEMMA UpdateCoherent ==
    ASSUME NEW s \in Statuses, NEW input \in Inputs
    PROVE  Coherent(updateRuntimeStatus(s, input).conditions)
<1> DEFINE r == RuntimeOf(s, input)
           o == ObservationOf(input)
<1>1. /\ IsRuntime(r) /\ o \in Observations /\ Now \in Nat
      /\ input.path \in {"reconcile", "invalid", "failed"}
  BY InputType DEF Now
<1>2. /\ Coherent(buildRuntimeStatus(r, o, validReferenceValidation,
                                     Now).conditions)
      /\ Coherent(buildRuntimeStatus(r, o, MissingSecret, Now).conditions)
      /\ Coherent(buildReconciliationFailureStatus(r, o, Now).conditions)
  BY <1>1, ValidationsUsed, BuiltCoherent, FailureCoherent
<1>3. Coherent(DesiredStatus(s, input).conditions)
  BY <1>1, <1>2 DEF DesiredStatus, RuntimeOf, ObservationOf
<1> QED
  BY <1>3, DesiredStatusType, PreservedCoherent DEF updateRuntimeStatus

(* buildBaseRuntimeStatus, buildReconciliationFailureStatus: for every     *)
(* sequence of observations and failures, the stored base conditions do    *)
(* not contradict each other.                                              *)
THEOREM CoherenceTheorem == Spec => []ConditionsAreCoherent
<1> DEFINE Inv == status # EmptyStatus => Coherent(status.conditions)
<1>1. Init => Inv
  BY DEF Init
<1>2. TypeOK /\ Inv /\ [Next]_status => Inv'
  <2> SUFFICES ASSUME TypeOK, NEW input \in Inputs, ReconcileStatus(input)
               PROVE  Coherent(status'.conditions)
    BY DEF Next
  <2>1. Aged(status) \in Statuses
    BY AgedType DEF TypeOK
  <2> QED
    BY <2>1, UpdateCoherent DEF ReconcileStatus
<1>3. Inv => ConditionsAreCoherent
  BY DEF ConditionsAreCoherent, Coherent, ExactlyOne
<1> QED
  BY <1>1, <1>2, <1>3, TypeCorrect, PTL DEF Spec

-----------------------------------------------------------------------------
(* Writing again changes nothing.                                          *)

(* The Upgrading condition a second reconciliation decides on.             *)
LEMMA UpgradeOfSettles ==
    ASSUME NEW s \in Statuses, NEW n \in Statuses, NEW input \in Inputs,
           n.lastSuccessfulImage
             = IF ImageRolledOut(input.spec, input.deployment)
               THEN runtimeImage(input.spec.image) ELSE s.lastSuccessfulImage,
           LET u == UpgradeOf(s, input)
           IN  Shows(n.conditions.Upgrading, u, u.gen)
    PROVE  LET again == UpgradeOf(n, input)
           IN  Shows(again, n.conditions.Upgrading, n.conditions.Upgrading.gen)
<1> DEFINE r == RuntimeOf(s, input)
           r2 == RuntimeOf(n, input)
<1>1. /\ IsRuntime(r) /\ r.gen = input.gen /\ r.spec = input.spec
      /\ r.status = s
      /\ IsRuntime(r2) /\ r2.gen = input.gen /\ r2.spec = input.spec
      /\ r2.status = n
  BY InputType DEF RuntimeOf
<1> HIDE DEF r, r2
<1> QED
  BY <1>1, UpgradeSettles DEF UpgradeOf, r, r2

(* updateRuntimeStatus: for every stored status and every input, a second  *)
(* reconciliation with the same input finds nothing to write.              *)
THEOREM FixpointTheorem == Spec => []StatusIsFixpoint
<1>1. TypeOK => StatusIsFixpoint
  <2> SUFFICES ASSUME TypeOK, NEW input \in Inputs
               PROVE  LET written == Aged(updateRuntimeStatus(Aged(status),
                                                              input))
                      IN  updateRuntimeStatus(written, input) = written
    BY DEF StatusIsFixpoint
  <2> DEFINE s == Aged(status)
             n == updateRuntimeStatus(s, input)
             a == Aged(n)
             p == updateRuntimeStatus(a, input)
  <2>1. s \in Statuses /\ n \in Statuses
    BY AgedType, UpdateType DEF TypeOK
  <2>2. /\ IsReportOf(n, s, input)
        /\ LET u == UpgradeOf(s, input)
           IN  Shows(n.conditions.Upgrading, u, u.gen)
    BY <2>1, UpdatedReport
  <2> HIDE DEF s, n
  <2>3. /\ a \in Statuses
        /\ a = [n EXCEPT !.conditions = a.conditions]
        /\ \A t \in ConditionTypes :
              /\ Shows(a.conditions[t], n.conditions[t], n.conditions[t].gen)
              /\ a.conditions[t].since = Earlier
    <3>1. a \in Statuses
      BY <2>1, AgedType
    <3>2. a.conditions = [t \in ConditionTypes |->
                            [n.conditions[t] EXCEPT !.since = Earlier]]
      BY <2>1 DEF Aged, Statuses
    <3>3. a = [n EXCEPT !.conditions = a.conditions]
      BY <2>1, <3>2 DEF Aged
    <3> QED
      BY <2>1, <3>1, <3>2, <3>3 DEF Shows, Statuses, Conditions
  <2> HIDE DEF a
  <2>4. /\ IsReportOf(a, s, input)
        /\ LET u == UpgradeOf(s, input)
           IN  Shows(a.conditions.Upgrading, u, u.gen)
    <3>1. /\ a.observedGeneration = n.observedGeneration
          /\ a.readyReplicas = n.readyReplicas
          /\ a.availableReplicas = n.availableReplicas
          /\ a.desiredImage = n.desiredImage
          /\ a.currentImage = n.currentImage
          /\ a.lastSuccessfulImage = n.lastSuccessfulImage
          /\ a.endpoint = n.endpoint
      BY <2>1, <2>3 DEF Statuses
    <3> QED
      BY <2>2, <2>3, <3>1 DEF IsReportOf, Shows, ConditionTypes, BaseTypes
  <2>5. /\ IsReportOf(p, a, input)
        /\ LET u == UpgradeOf(a, input)
           IN  Shows(p.conditions.Upgrading, u, u.gen)
        /\ \A t \in ConditionTypes :
              p.conditions[t].status = a.conditions[t].status
                => p.conditions[t].since = a.conditions[t].since
    BY <2>3, UpdatedReport
  <2>6. LET again == UpgradeOf(a, input)
        IN  Shows(again, a.conditions.Upgrading, a.conditions.Upgrading.gen)
    BY <2>1, <2>3, <2>4, UpgradeOfSettles DEF IsReportOf
  <2> HIDE DEF p
  <2>7. \A t \in ConditionTypes :
            /\ Shows(p.conditions[t], a.conditions[t], a.conditions[t].gen)
            /\ p.conditions[t].since = a.conditions[t].since
    <3>1. \A t \in BaseTypes :
              Shows(p.conditions[t], a.conditions[t], a.conditions[t].gen)
      BY <2>4, <2>5 DEF IsReportOf, Shows
    <3>2. Shows(p.conditions.Upgrading, a.conditions.Upgrading,
                a.conditions.Upgrading.gen)
      BY <2>5, <2>6 DEF Shows
    <3> QED
      BY <2>5, <3>1, <3>2 DEF Shows, ConditionTypes
  <2>8. p = a
    BY <2>3, <2>4, <2>5, <2>7, StatusEquality DEF IsReportOf
  <2> QED
    BY <2>8 DEF p, a, n, s
<1> QED
  BY <1>1, TypeCorrect, PTL

===============================================================================
