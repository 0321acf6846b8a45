---------------------------- MODULE RuntimeEvents ----------------------------
(***************************************************************************)
(* internal/controller/runtime_events.go: the Kubernetes Events a status   *)
(* transition produces.  Each condition type yields at most one Event; an  *)
(* Event is the condition type it is about, its reason and, for upgrades,  *)
(* the two images it names.  Severity, action and message text follow from *)
(* these.  Events are broadcast asynchronously, so their order is left out.*)
(***************************************************************************)
EXTENDS RuntimeStatus

Event(type, reason) ==
    [type |-> type, reason |-> reason, source |-> None, destination |-> None]

(* Mutant: the state is announced, not its change.                         *)
recordConfigurationTransitionAlways(previous, current) ==
    IF runtimeCondition(current, "ConfigurationValid").status = "False"
    THEN {Event("ConfigurationValid", "ConfigurationInvalid")}
    ELSE {}

recordConfigurationTransition(previous, current) ==
    IF /\ conditionChanged(previous, current, "ConfigurationValid")
       /\ runtimeCondition(current, "ConfigurationValid").status = "False"
    THEN {Event("ConfigurationValid", "ConfigurationInvalid")}
    ELSE {}

recordDegradedTransition(previous, current) ==
    IF ~conditionChanged(previous, current, "Degraded") THEN {}
    ELSE IF runtimeCondition(current, "Degraded").status = "True"
         THEN {Event("Degraded", "RuntimeDegraded")}
    ELSE IF runtimeCondition(previous, "Degraded").status = "True"
         THEN {Event("Degraded", "RuntimeRecovered")}
    ELSE {}

recordProgressingTransition(previous, current) ==
    IF /\ conditionChanged(previous, current, "Progressing")
       /\ runtimeCondition(current, "Progressing").status = "True"
    THEN {Event("Progressing", "RuntimeProgressing")}
    ELSE {}

(* Mutant: the state is announced, not its change.                         *)
recordReadyTransitionAlways(previous, current) ==
    IF runtimeCondition(current, "Ready").status = "True"
    THEN {Event("Ready", "RuntimeReady")} ELSE {}

recordReadyTransition(previous, current) ==
    LET c == runtimeCondition(current, "Ready") IN
    IF conditionChanged(previous, current, "Ready") /\ c.status = "True"
    THEN {Event("Ready", IF c.reason = "ScaledToZero"
                         THEN "RuntimeScaledToZero" ELSE "RuntimeReady")}
    ELSE {}

validUpgradeEventImages(source, destination) ==
    source # None /\ destination # None /\ source # destination

(* The reason and status an Upgrading transition is announced under.       *)
UpgradeEventReason(c) ==
    CASE c.reason = "UpgradeInProgress" /\ c.status = "True"
           -> "RuntimeUpgradeStarted"
      [] c.reason = "UpgradeComplete" /\ c.status = "False"
           -> "RuntimeUpgradeCompleted"
      [] c.reason = "UpgradeFailed" /\ c.status = "False"
           -> "RuntimeUpgradeFailed"
      [] OTHER -> "None"

recordUpgradeTransition(previous, current) ==
    LET reason == UpgradeEventReason(runtimeCondition(current, "Upgrading"))
        source == previous.lastSuccessfulImage
        destination == current.desiredImage
    IN  IF /\ conditionChanged(previous, current, "Upgrading")
           /\ reason # "None"
           /\ validUpgradeEventImages(source, destination)
        THEN {[type |-> "Upgrading", reason |-> reason, source |-> source,
               destination |-> destination]}
        ELSE {}

recordStatusTransitionEvents(previous, current) ==
    recordConfigurationTransition(previous, current)
    \cup recordUpgradeTransition(previous, current)
    \cup recordDegradedTransition(previous, current)
    \cup recordProgressingTransition(previous, current)
    \cup recordReadyTransition(previous, current)

==============================================================================
