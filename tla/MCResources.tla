----------------------------- MODULE MCResources -----------------------------
(***************************************************************************)
(* Values for the constants of ManagedResources.                           *)
(***************************************************************************)
EXTENDS ManagedResources

(* A runtime without optional blocks, as the schema's defaults leave it.   *)
Plain ==
    [ image |-> [repository |-> "trussium", tag |-> "v1", digest |-> None],
      pullPolicy |-> "IfNotPresent", replicas |-> 1, autoscaling |-> FALSE,
      minReplicas |-> 0, maxReplicas |-> 0, targetCPU |-> 0,
      credentials |-> None, credentialsKey |-> None, pullSecrets |-> {},
      serviceType |-> "ClusterIP", port |-> 9000,
      provider |-> "ollama", baseURL |-> None,
      requestTimeout |-> Unset, streamTimeout |-> Unset,
      drainTimeout |-> Unset,
      podLabels |-> << >>, podAnnotations |-> << >>,
      scheduling |-> None, networkPolicy |-> None, resources |-> None ]

(* Another environment, a NetworkPolicy, and Pod metadata that tries to    *)
(* use the operator's keys.                                                *)
Guarded ==
    [Plain EXCEPT
       !.drainTimeout = 60,
       !.podLabels = [instance |-> "mine", team |-> "ai"],
       !.podAnnotations = [checksum |-> "mine"],
       !.networkPolicy = [enabled |-> TRUE,
                          ingress |-> << [namespace |-> "gateway"] >>]]

(* Deletions of the runtime, and one disturbance of each sort, at the kind *)
(* where it matters most.                                                  *)
SomeFaults ==
    { <<"delete", "runtime">>,
      <<"drift", "NetworkPolicy">>, <<"orphan", "Deployment">>,
      <<"remove", "ConfigMap">>, <<"occupy", "NetworkPolicy">>,
      <<"restart", "manager">>, <<"request", "Deployment">> }

NoFaults == {}

PlainOrGuarded == [plain |-> Plain, guarded |-> Guarded]

==============================================================================
