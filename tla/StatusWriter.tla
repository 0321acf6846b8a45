---------------------------- MODULE StatusWriter ----------------------------
(***************************************************************************)
(* The life of one runtime's status: whatever a sequence of                *)
(* reconciliations observes, each turns the stored status into the next    *)
(* one with buildRuntimeStatus or buildReconciliationFailureStatus and     *)
(* updateRuntimeStatus.  RuntimeReconciler says which observations occur;  *)
(* here any observation follows any other, and the clock runs.             *)
(*                                                                         *)
(* Only whether a transition time is the time of the last write matters:   *)
(* "since" is Now in a condition that this write stamped, Earlier in one   *)
(* that it left alone.  Aged is the passing of time between two writes.    *)
(***************************************************************************)
EXTENDS RuntimeStatus

CONSTANT Inputs   \* what a reconciliation may be given, see InputTypes

VARIABLE status

Earlier == 0

Now == 1

(* The kinds of outcome: the reconciliation went through ("reconcile"), it *)
(* found a Secret missing ("invalid"), or something failed ("failed").     *)
InputTypes ==
    [ gen : Nat, spec : RuntimeSpecs, deployment : Deployments,
      service : Ports \cup {NoService},
      path : {"reconcile", "invalid", "failed"} ]

ASSUME InputsAssumption == Inputs \subseteq InputTypes

MissingSecret == [valid |-> FALSE, reason |-> "SecretNotFound", err |-> FALSE]

Aged(s) ==
    [s EXCEPT
       !.conditions = [t \in ConditionTypes |-> [@[t] EXCEPT !.since = Earlier]]]

(* The status the code builds for the stored status s and an input.        *)
DesiredStatus(s, input) ==
    LET runtime == [gen |-> input.gen, spec |-> input.spec, status |-> s]
        observation == [deployment |-> input.deployment,
                        service |-> input.service]
    IN  CASE input.path = "reconcile" ->
               buildRuntimeStatus(runtime, observation,
                                  validReferenceValidation, Now)
          [] input.path = "invalid" ->
               buildRuntimeStatus(runtime, observation, MissingSecret, Now)
          [] input.path = "failed" ->
               buildReconciliationFailureStatus(runtime, observation, Now)

(* What updateRuntimeStatus stores; storing what is stored is no write.    *)
updateRuntimeStatus(s, input) ==
    preserveRuntimeConditionTransitionTimes(s, DesiredStatus(s, input))

Init == status = EmptyStatus

ReconcileStatus(input) == status' = updateRuntimeStatus(Aged(status), input)

Next == \E input \in Inputs : ReconcileStatus(input)

Spec == Init /\ [][Next]_status

-----------------------------------------------------------------------------

(* The status is one of those the API type allows.                         *)
TypeOK == status \in Statuses

(* updateRuntimeStatus, preserveRuntimeConditionTransitionTimes: a write   *)
(* stamps a condition exactly when the condition's status becomes another  *)
(* one, also on the failure path, which sets a condition twice.            *)
TransitionTimesTrackStatus ==
    [][\A t \in ConditionTypes :
          LET old == status.conditions[t]
              new == status'.conditions[t]
          IN  new.since = Now <=> new.status # old.status]_status

(* updateRuntimeStatus: reconciling again with nothing changed writes      *)
(* nothing, whatever the history, so the writes come to rest.              *)
StatusIsFixpoint ==
    \A input \in Inputs :
        LET written == Aged(updateRuntimeStatus(Aged(status), input))
        IN  updateRuntimeStatus(written, input) = written

(* buildBaseRuntimeStatus, buildReconciliationFailureStatus: the base      *)
(* conditions never contradict each other.  A ready runtime is neither     *)
(* progressing nor degraded and its references are resolved; one that      *)
(* progresses is not degraded; what is neither ready nor progressing is    *)
(* degraded; a ready one is available unless it is meant to have no Pods.  *)
ConditionsAreCoherent ==
    LET c == status.conditions
        True(t) == c[t].status = "True"
    IN  status # EmptyStatus =>
          /\ True("Ready") => True("ConfigurationValid")
          /\ True("Ready") => True("Available") \/ c.Ready.reason = "ScaledToZero"
          /\ ~True("ConfigurationValid") => True("Degraded")
          /\ \E x \in {"Ready", "Progressing", "Degraded"} :
                \A t \in {"Ready", "Progressing", "Degraded"} :
                    True(t) <=> t = x

=============================================================================
