-------------------------- MODULE RuntimeResources --------------------------
(***************************************************************************)
(* The builders of internal/controller/runtime_resources.go: what a        *)
(* TrussiumRuntime asks of each of the seven objects it manages.  No       *)
(* variables: ManagedResources applies these operators.                    *)
(*                                                                         *)
(* Data abstraction.  A spec here is the record of RuntimeStatus without   *)
(* "cfg" (what that stood for is spelled out) and with the remaining       *)
(* fields of TrussiumRuntimeSpec, optional blocks being None.  An object   *)
(* keeps the fields that the spec or the runtime's name determine; fields  *)
(* the code sets to one constant (probes, security contexts, deadlines,    *)
(* the rollout strategy) are left out.  Label keys lose their prefix.      *)
(***************************************************************************)
EXTENDS RuntimeStatus, Sequences, TLC

CONSTANT RuntimeName     \* metadata.name of the TrussiumRuntime

-----------------------------------------------------------------------------
(* Labels and annotations.                                                 *)

(* Both maps; where both have a key, the first map's value.                *)
Reserving(f, g) ==
    [key \in DOMAIN f \cup DOMAIN g |-> IF key \in DOMAIN f THEN f[key] ELSE g[key]]

runtimeLabels ==
    [ name |-> "trussium", instance |-> RuntimeName,
      component |-> "runtime", managedBy |-> "trussium-operator" ]

runtimeSelectorLabels == [name |-> "trussium", instance |-> RuntimeName]

(* Mutant: the labels of spec.podMetadata win over the operator's.         *)
mergedPodLabelsOverridden(spec) == Reserving(spec.podLabels, runtimeLabels)

(* A label the operator reserves keeps the operator's value.               *)
mergedPodLabels(spec) == Reserving(runtimeLabels, spec.podLabels)

(* A label selector's matchLabels pick a Pod with the given labels.        *)
Selects(selector, labels) ==
    \A key \in DOMAIN selector :
        key \in DOMAIN labels /\ labels[key] = selector[key]

-----------------------------------------------------------------------------
(* The ConfigMap's data and the checksum that names it.                    *)

Setting(key, set, value) == IF set THEN key :> value ELSE << >>

Timeout(key, seconds) ==
    IF seconds = Unset THEN << >> ELSE key :> ToString(seconds)

runtimeConfigData(spec) ==
    ("TRUSSIUM_ENVIRONMENT" :> "production")
    @@ ("TRUSSIUM_RUNTIME__HOST" :> "0.0.0.0")
    @@ ("TRUSSIUM_RUNTIME__PORT" :> ToString(9000))
    @@ ("TRUSSIUM_PROVIDER__NAME" :> spec.provider)
    @@ Setting("TRUSSIUM_PROVIDER__BASE_URL", spec.baseURL # None, spec.baseURL)
    @@ Timeout("TRUSSIUM_TIMEOUTS__PROVIDER_REQUEST_SECONDS", spec.requestTimeout)
    @@ Timeout("TRUSSIUM_TIMEOUTS__STREAM_IDLE_SECONDS", spec.streamTimeout)
    @@ Timeout("TRUSSIUM_RUNTIME__GRACEFUL_SHUTDOWN_SECONDS", spec.drainTimeout)

(* The keys runtimeConfigData can set, as slices.Sort orders them.         *)
SortedKeys ==
    << "TRUSSIUM_ENVIRONMENT", "TRUSSIUM_PROVIDER__BASE_URL",
       "TRUSSIUM_PROVIDER__NAME", "TRUSSIUM_RUNTIME__GRACEFUL_SHUTDOWN_SECONDS",
       "TRUSSIUM_RUNTIME__HOST", "TRUSSIUM_RUNTIME__PORT",
       "TRUSSIUM_TIMEOUTS__PROVIDER_REQUEST_SECONDS",
       "TRUSSIUM_TIMEOUTS__STREAM_IDLE_SECONDS" >>

(* SHA-256 over the entries, each key and value behind its length.  The    *)
(* lengths make the entries recoverable and the hash is taken to be        *)
(* injective, so the checksum is the sequence of entries.                  *)
runtimeConfigChecksum(data) ==
    LET set(key) == key \in DOMAIN data
        keys     == SelectSeq(SortedKeys, set)
    IN  [i \in DOMAIN keys |-> <<keys[i], data[keys[i]]>>]

(* The checksum replaces an annotation of the user's under its key.        *)
podAnnotations(spec) ==
    Reserving([checksum |-> runtimeConfigChecksum(runtimeConfigData(spec))],
              spec.podAnnotations)

-----------------------------------------------------------------------------
(* Fields of the Pod template.                                             *)

terminationGracePeriodSeconds(spec) ==
    IF spec.drainTimeout = Unset THEN 36 ELSE spec.drainTimeout + 6

imagePullSecrets(spec) == spec.pullSecrets

runtimeNodeSelector(spec) ==
    IF spec.scheduling = None THEN None ELSE spec.scheduling.nodeSelector

runtimeTolerations(spec) ==
    IF spec.scheduling = None THEN None ELSE spec.scheduling.tolerations

runtimeAffinity(spec) ==
    IF spec.scheduling = None THEN None ELSE spec.scheduling.affinity

providerCredentialEnv(spec) ==
    IF spec.credentials = None
    THEN None
    ELSE [env |-> "TRUSSIUM_PROVIDER__API_KEY",
          secret |-> spec.credentials, key |-> spec.credentialsKey]

-----------------------------------------------------------------------------
(* The objects.                                                            *)

buildConfigMap(spec) ==
    [labels |-> runtimeLabels, data |-> runtimeConfigData(spec)]

buildServiceAccount(spec) ==
    [ labels |-> runtimeLabels, automountToken |-> FALSE,
      pullSecrets |-> imagePullSecrets(spec) ]

desiredServiceType(spec) ==
    IF spec.serviceType = None THEN "ClusterIP" ELSE spec.serviceType

desiredServicePort(spec) == IF spec.port = 0 THEN 9000 ELSE spec.port

buildService(spec) ==
    [ labels |-> runtimeLabels, selector |-> runtimeSelectorLabels,
      type |-> desiredServiceType(spec), port |-> desiredServicePort(spec) ]

buildDeployment(spec) ==
    [ labels |-> runtimeLabels,
      selector |-> runtimeSelectorLabels,
      replicas |-> initialDeploymentReplicas(spec),
      template |->
        [ labels |-> mergedPodLabels(spec),
          annotations |-> podAnnotations(spec),
          serviceAccount |-> RuntimeName,
          gracePeriod |-> terminationGracePeriodSeconds(spec),
          pullSecrets |-> imagePullSecrets(spec),
          nodeSelector |-> runtimeNodeSelector(spec),
          tolerations |-> runtimeTolerations(spec),
          affinity |-> runtimeAffinity(spec),
          spreadOver |-> runtimeSelectorLabels,
          image |-> runtimeImage(spec.image),
          pullPolicy |-> spec.pullPolicy,
          envFrom |-> RuntimeName,
          env |-> providerCredentialEnv(spec),
          resources |-> spec.resources ] ]

buildPodDisruptionBudget(spec) ==
    [ labels |-> runtimeLabels, selector |-> runtimeSelectorLabels,
      maxUnavailable |-> 1 ]

networkPolicyEnabled(spec) ==
    spec.networkPolicy # None /\ spec.networkPolicy.enabled

(* One ingress rule per peer, all of them to the runtime's port.           *)
buildNetworkPolicy(spec) ==
    [ labels |-> runtimeLabels, selector |-> runtimeSelectorLabels,
      ingress |-> [ i \in DOMAIN spec.networkPolicy.ingress |->
                      [from |-> spec.networkPolicy.ingress[i], port |-> 9000] ] ]

desiredTargetCPUUtilization(spec) ==
    IF spec.targetCPU = 0 THEN 80 ELSE spec.targetCPU

buildHorizontalPodAutoscaler(spec) ==
    [ labels |-> runtimeLabels, scaleTarget |-> RuntimeName,
      minReplicas |-> desiredAutoscalingMinReplicas(spec),
      maxReplicas |-> desiredAutoscalingMaxReplicas(spec),
      targetCPU |-> desiredTargetCPUUtilization(spec) ]

==============================================================================
