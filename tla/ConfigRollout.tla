---------------------------- MODULE ConfigRollout ----------------------------
(***************************************************************************)
(* The Pods behind the managed Deployment, composed with ManagedResources. *)
(* They are external, modelled from what buildDeployment asks for: the     *)
(* container reads its environment from the ConfigMap when it starts       *)
(* (envFrom) and is replaced when the Pod template changes; a ConfigMap    *)
(* that changes under a running container changes nothing.                 *)
(***************************************************************************)
EXTENDS ManagedResources

VARIABLE pods            \* the running Pods: [template, data]

NoPods == [template |-> None, data |-> None]

RolloutInit == Init /\ pods = NoPods

(* A container starts once the ConfigMap exists.                           *)
StartPods ==
    /\ obj["Deployment"].owner \in Ours
    /\ obj["ConfigMap"].owner \in Ours
    /\ pods.template # obj["Deployment"].content.template
    /\ pods' = [ template |-> obj["Deployment"].content.template,
                 data |-> obj["ConfigMap"].content.data ]
    /\ UNCHANGED vars

(* Pods go with their Deployment.                                          *)
RolloutNext ==
    \/ /\ Next
       /\ pods' = IF obj'["Deployment"].exists THEN pods ELSE NoPods
    \/ StartPods

RolloutSpec ==
    /\ RolloutInit
    /\ [][RolloutNext]_<<vars, pods>>
    /\ Fairness
    /\ WF_pods(StartPods)

-----------------------------------------------------------------------------
(* Pods end up with the environment that the runtime's spec asks for:      *)
(* docs/UPGRADES.md lets a changed configuration change the checksum, the  *)
(* template and so the Pods.                                               *)
ConfigurationReachesPods ==
    <>[](rt.live => pods.data = runtimeConfigData(Specs[rt.spec]))

==============================================================================
