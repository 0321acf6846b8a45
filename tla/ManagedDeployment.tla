-------------------------- MODULE ManagedDeployment --------------------------
(***************************************************************************)
(* What the operator relies on Kubernetes for, modelled from how the code  *)
(* under src/ uses it: the stored Deployment, the Pods behind it, the      *)
(* Deployment controller (rolling update with maxUnavailable 0 and         *)
(* maxSurge 1, as buildDeployment asks for) and the autoscaler.            *)
(*                                                                         *)
(* "depFresh" says that the operator's informer cache holds the stored     *)
(* resourceVersion of the Deployment, which is all that optimistic         *)
(* concurrency needs to know.  "completed" is a history variable: the      *)
(* images for which, at one instant, every running Pod ran the image and   *)
(* was ready, and there were at least as many as requested.                *)
(***************************************************************************)
EXTENDS RuntimeStatus, FiniteSets

CONSTANTS PodIds,        \* Pod slots; bounds the Pods running at a time
          Faults,        \* kinds of disturbance a model allows
          MaxMischief    \* how many disturbances a behaviour may contain

VARIABLES dep, depFresh, pods, hpa, completed, mischief

clusterVars == <<dep, depFresh, pods, hpa, completed, mischief>>

ASSUME ClusterAssumption ==
    /\ IsFiniteSet(PodIds)
    /\ MaxMischief \in Nat

(* A disturbance of the given kind; every behaviour has at most MaxMischief.*)
Disturb(kind) ==
    /\ kind \in Faults
    /\ mischief < MaxMischief
    /\ mischief' = mischief + 1

Template(d) == <<d.image, d.cfg>>

Templates == Images \X Configs

PodSlots == [template : Templates \cup {None}, ready : BOOLEAN]

NoPod == [template |-> None, ready |-> FALSE]

NoPods == [p \in PodIds |-> NoPod]

Autoscalers == [exists : BOOLEAN, min : Nat, max : Nat]

NoAutoscaler == [exists |-> FALSE, min |-> 0, max |-> 0]

Running(ps) == {p \in PodIds : ps[p].template # None}

Current(d, ps) == {p \in Running(ps) : ps[p].template = Template(d)}

Serving(ps) == {p \in Running(ps) : ps[p].ready}

(* Every running Pod is ready and runs the Deployment's template, and      *)
(* there are enough of them.                                               *)
RolledOut(d, ps) ==
    /\ Running(ps) = Current(d, ps)
    /\ Running(ps) = Serving(ps)
    /\ Cardinality(Serving(ps)) >= d.replicas

-----------------------------------------------------------------------------
(* The Deployment controller writes the status of the Pods ps it sees.     *)
(* Failure conditions describe the rollout of the observed generation: a   *)
(* new generation or a finished rollout clears them, progress may.         *)
ObservedStatus(d, ps, keepFailure) ==
    LET total  == Cardinality(Running(ps))
        wanted == IF d.replicas > total THEN d.replicas ELSE total
        keep   == keepFailure /\ d.observed /\ ~RolledOut(d, ps)
    IN  [d EXCEPT
           !.observed = TRUE,
           !.total = total,
           !.updated = Cardinality(Current(d, ps)),
           !.ready = Cardinality(Serving(ps)),
           !.available = Cardinality(Serving(ps)),
           !.unavailable = wanted - Cardinality(Serving(ps)),
           !.deadlineExceeded = @ /\ keep,
           !.replicaFailure = @ /\ keep]

(* The Pods become ps, and the controller reports it.  That the report is  *)
(* late is covered by the lag of the operator's cache.                     *)
PodsBecome(ps, keepFailure) ==
    /\ pods' = ps
    /\ dep' = ObservedStatus(dep, ps, keepFailure)
    /\ depFresh' = FALSE
    /\ completed' = IF RolledOut(dep, ps) THEN completed \cup {dep.image}
                                          ELSE completed

(* The controller notices a new generation of the Deployment.              *)
DeploymentControllerSync ==
    /\ dep.exists /\ ~dep.observed
    /\ PodsBecome(pods, FALSE)
    /\ UNCHANGED <<hpa, mischief>>

(* A new Pod is a new name; which free slot stands for it is immaterial.   *)
FreeSlot == CHOOSE p \in PodIds : p \notin Running(pods)

(* Rolling update: at most one Pod above the requested scale ...           *)
PodStarts(p) ==
    /\ dep.exists /\ dep.observed
    /\ p \notin Running(pods) /\ p = FreeSlot
    /\ Cardinality(Current(dep, pods)) < dep.replicas
    /\ Cardinality(Running(pods)) < dep.replicas + 1
    /\ PodsBecome([pods EXCEPT ![p] = [template |-> Template(dep),
                                       ready |-> FALSE]], TRUE)
    /\ UNCHANGED <<hpa, mischief>>

(* ... and never fewer ready Pods than requested.                          *)
PodStops(p) ==
    /\ dep.exists /\ dep.observed
    /\ p \in Running(pods)
    /\ \/ p \notin Current(dep, pods)
       \/ Cardinality(Current(dep, pods)) > dep.replicas
    /\ p \in Serving(pods) => Cardinality(Serving(pods)) > dep.replicas
    /\ PodsBecome([pods EXCEPT ![p] = NoPod], TRUE)
    /\ UNCHANGED <<hpa, mischief>>

PodBecomesReady(p) ==
    /\ dep.exists /\ dep.observed
    /\ p \in Running(pods) \ Serving(pods)
    /\ PodsBecome([pods EXCEPT ![p].ready = TRUE], FALSE)
    /\ UNCHANGED <<hpa, mischief>>

PodFails(p) ==
    /\ Disturb("pod")
    /\ dep.exists /\ dep.observed
    /\ p \in Serving(pods)
    /\ PodsBecome([pods EXCEPT ![p].ready = FALSE], TRUE)
    /\ UNCHANGED hpa

(* The rollout of the observed generation misses its deadline, or its      *)
(* ReplicaSet cannot create Pods.                                          *)
DeploymentReportsFailure ==
    /\ Disturb("rollout")
    /\ dep.exists /\ dep.observed /\ ~RolledOut(dep, pods)
    /\ \/ dep' = [dep EXCEPT !.deadlineExceeded = TRUE]
       \/ dep' = [dep EXCEPT !.replicaFailure = TRUE]
    /\ depFresh' = FALSE
    /\ UNCHANGED <<pods, hpa, completed>>

-----------------------------------------------------------------------------
(* The autoscaler sets the scale within its bounds; it leaves a target     *)
(* that is scaled to zero alone.                                           *)
AutoscalerScales ==
    /\ hpa.exists /\ dep.exists /\ dep.replicas > 0
    /\ \E n \in hpa.min .. hpa.max :
          /\ n # dep.replicas
          /\ dep' = [dep EXCEPT !.replicas = n, !.observed = FALSE]
          /\ IF dep.replicas \in hpa.min .. hpa.max
             THEN Disturb("load")
             ELSE UNCHANGED mischief
    /\ depFresh' = FALSE
    /\ UNCHANGED <<pods, hpa, completed>>

(* Somebody edits the Deployment behind the operator's back.               *)
DeploymentDrifts ==
    /\ Disturb("drift")
    /\ dep.exists
    /\ \E i \in Images, c \in Configs :
          /\ <<i, c>> # Template(dep)
          /\ dep' = [dep EXCEPT !.image = i, !.cfg = c, !.observed = FALSE]
    /\ depFresh' = FALSE
    /\ UNCHANGED <<pods, hpa, completed>>

(* The Deployment is deleted, and its Pods with it.                        *)
DeploymentDeleted ==
    /\ Disturb("undeploy")
    /\ dep.exists
    /\ dep' = NoDeployment
    /\ depFresh' = FALSE
    /\ pods' = NoPods
    /\ UNCHANGED <<hpa, completed>>

(* What the Deployment controller and the kubelets do of themselves.       *)
RolloutStep ==
    \/ DeploymentControllerSync
    \/ \E p \in PodIds : PodStarts(p) \/ PodStops(p) \/ PodBecomesReady(p)

ClusterStep ==
    \/ RolloutStep
    \/ \E p \in PodIds : PodFails(p)
    \/ DeploymentReportsFailure
    \/ AutoscalerScales
    \/ DeploymentDrifts
    \/ DeploymentDeleted

==============================================================================
