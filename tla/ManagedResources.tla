-------------------------- MODULE ManagedResources --------------------------
(***************************************************************************)
(* reconcileCoreResources and the seven reconcile* functions of            *)
(* internal/controller/trussiumruntime_controller.go, the Owns watches of  *)
(* SetupWithManager, and what they meet: informer caches that lag per      *)
(* kind, other writers, other controllers, the garbage collector, a        *)
(* runtime that is edited, deleted and created again under its name.       *)
(* Statuses and Events are RuntimeReconciler's business; here the objects  *)
(* carry what the builders of RuntimeResources put into them, and who      *)
(* controls them.                                                          *)
(*                                                                         *)
(* Outside src/ (external): the API server's optimistic concurrency,       *)
(* controllerutil.CreateOrUpdate and SetControllerReference, and the       *)
(* garbage collector.  The Secrets a spec refers to are taken to exist:    *)
(* with one missing no object is written at all, see RuntimeReconciler.    *)
(***************************************************************************)
EXTENDS RuntimeResources, FiniteSets

CONSTANTS Kinds,         \* the kinds a model follows, of those in Order
          Specs,         \* the specs a user may write, by a name for each
          Faults,        \* <<fault, kind>> pairs a model allows
          MaxChanges,    \* how often its spec is edited, or it is recreated
          MaxMischief    \* how many disturbances a behaviour may contain

VARIABLES rt,            \* the stored TrussiumRuntime: [live, uid, spec]
          crt,           \* the informer's copy of it
          obj,           \* the stored objects, by kind
          cobj,          \* the informers' copies
          lag,           \* versions the informer has not delivered: "none",
                         \* "some", or "ours" when the runtime controls one
          queued,        \* is the runtime's key in the work queue?
          w,             \* the worker: [active, held, done]
          rendered,      \* history: the data the ConfigMap has carried
          changes, mischief

vars == <<rt, crt, obj, cobj, lag, queued, w, rendered, changes, mischief>>

(* Mutant: the Deployment before the ConfigMap its Pods read.              *)
OrderDeploymentFirst ==
    [ ConfigMap |-> 4, ServiceAccount |-> 2, Service |-> 3, Deployment |-> 1,
      PodDisruptionBudget |-> 5, NetworkPolicy |-> 6,
      HorizontalPodAutoscaler |-> 7 ]

(* The order in which reconcileCoreResources takes the kinds.              *)
Order ==
    [ ConfigMap |-> 1, ServiceAccount |-> 2, Service |-> 3, Deployment |-> 4,
      PodDisruptionBudget |-> 5, NetworkPolicy |-> 6,
      HorizontalPodAutoscaler |-> 7 ]

ASSUME ResourcesAssumption ==
    /\ {"ConfigMap", "Deployment"} \subseteq Kinds
    /\ Kinds \subseteq DOMAIN Order
    /\ MaxChanges \in Nat /\ MaxMischief \in Nat

(* An object's controller: nobody, somebody else's controller, or the      *)
(* runtime with the given uid.                                             *)
Nobody == 0
Other  == -1
Ours   == 1..(MaxChanges + 1)

NoObject == [exists |-> FALSE, owner |-> Nobody, content |-> None]

(* Nothing has been read at start: "gone" copies of everything.            *)
NoRuntime == [live |-> FALSE, uid |-> 0, spec |-> None]

Idle == [active |-> FALSE, held |-> NoRuntime, done |-> {}]

Init ==
    /\ \E s \in DOMAIN Specs : rt = [live |-> TRUE, uid |-> 1, spec |-> s]
    /\ crt = NoRuntime
    /\ obj = [k \in Kinds |-> NoObject]
    /\ cobj = [k \in Kinds |-> NoObject]
    /\ lag = [k \in Kinds |-> "none"]
    /\ queued = FALSE
    /\ w = Idle
    /\ rendered = {}
    /\ changes = 0
    /\ mischief = 0

-----------------------------------------------------------------------------
(* The user.                                                               *)

Change == changes < MaxChanges /\ changes' = changes + 1

EditRuntime ==
    /\ Change
    /\ rt.live
    /\ \E s \in DOMAIN Specs \ {rt.spec} : rt' = [rt EXCEPT !.spec = s]
    /\ UNCHANGED <<crt, obj, cobj, lag, queued, w, rendered, mischief>>

(* There are no finalizers: the runtime is gone at once.  A deletion is    *)
(* not a disturbance, but a model may leave it out.                        *)
DeleteRuntime ==
    /\ <<"delete", "runtime">> \in Faults
    /\ rt.live
    /\ rt' = [rt EXCEPT !.live = FALSE]
    /\ UNCHANGED <<crt, obj, cobj, lag, queued, w, rendered, changes, mischief>>

RecreateRuntime ==
    /\ Change
    /\ ~rt.live
    /\ \E s \in DOMAIN Specs : rt' = [live |-> TRUE, uid |-> rt.uid + 1, spec |-> s]
    /\ UNCHANGED <<crt, obj, cobj, lag, queued, w, rendered, mischief>>

-----------------------------------------------------------------------------
(* Informers.  Creations, generation changes and deletions of the runtime  *)
(* pass GenerationChangedPredicate.                                        *)

SyncRuntime ==
    /\ crt # rt
    /\ crt' = rt
    /\ queued' = TRUE
    /\ UNCHANGED <<rt, obj, cobj, lag, w, rendered, changes, mischief>>

(* Mutant: Owns watches that enqueue nothing.                              *)
SyncUnheard(k) ==
    /\ lag[k] # "none"
    /\ cobj' = [cobj EXCEPT ![k] = obj[k]]
    /\ lag' = [lag EXCEPT ![k] = "none"]
    /\ UNCHANGED <<rt, crt, obj, queued, w, rendered, changes, mischief>>

(* Owns: an event enqueues the runtime that controls the object in its old *)
(* or in its new version, by kind and name.                                *)
Sync(k) ==
    /\ lag[k] # "none"
    /\ cobj' = [cobj EXCEPT ![k] = obj[k]]
    /\ lag' = [lag EXCEPT ![k] = "none"]
    /\ queued' = (queued \/ lag[k] = "ours")
    /\ UNCHANGED <<rt, crt, obj, w, rendered, changes, mischief>>

-----------------------------------------------------------------------------
(* One reconciliation.                                                     *)

(* Reconcile reads the runtime from the cache; NotFound ends it.           *)
Begin ==
    /\ ~w.active
    /\ queued
    /\ queued' = FALSE
    /\ w' = IF crt.live THEN [active |-> TRUE, held |-> crt, done |-> {}] ELSE w
    /\ UNCHANGED <<rt, crt, obj, cobj, lag, rendered, changes, mischief>>

(* The kind whose turn it is.                                              *)
Turn(k) ==
    /\ w.active
    /\ k \in Kinds \ w.done
    /\ \A j \in Kinds \ w.done : Order[k] <= Order[j]

(* The optional kinds are removed while their feature is off.              *)
Wanted(k, spec) ==
    /\ k = "NetworkPolicy" => networkPolicyEnabled(spec)
    /\ k = "HorizontalPodAutoscaler" => autoscalingEnabled(spec)

build(k, spec) ==
    CASE k = "ConfigMap"               -> buildConfigMap(spec)
      [] k = "ServiceAccount"          -> buildServiceAccount(spec)
      [] k = "Service"                 -> buildService(spec)
      [] k = "Deployment"              -> buildDeployment(spec)
      [] k = "PodDisruptionBudget"     -> buildPodDisruptionBudget(spec)
      [] k = "NetworkPolicy"           -> buildNetworkPolicy(spec)
      [] k = "HorizontalPodAutoscaler" -> buildHorizontalPodAutoscaler(spec)

(* The object of each kind that each spec asks for.                        *)
Built == [k \in Kinds |-> [s \in DOMAIN Specs |->
            IF Wanted(k, Specs[s]) THEN build(k, Specs[s]) ELSE None]]

(* Mutant: the owner reference is built without a uid.                     *)
MutatedWithoutUid(k, current) ==
    [exists |-> TRUE, owner |-> None, content |-> Built[k][w.held.spec]]

(* The mutate functions: every field the builder sets is written over the  *)
(* cached object, but an autoscaled Deployment keeps its scale; and        *)
(* SetControllerReference names the held runtime.                          *)
Mutated(k, current) ==
    LET built == Built[k][w.held.spec]
        keep  == k = "Deployment" /\ current.exists
                 /\ autoscalingEnabled(Specs[w.held.spec])
    IN  [ exists |-> TRUE, owner |-> w.held.uid,
          content |-> IF keep
                      THEN [built EXCEPT !.replicas = current.content.replicas]
                      ELSE built ]

(* The API server fills defaults into what the operator sends: the mutated *)
(* Deployment, and a Service with node ports, never equal the cached one,  *)
(* and their Update is always sent.                                        *)
AlwaysSent(k) ==
    \/ k = "Deployment"
    \/ k = "Service" /\ desiredServiceType(Specs[w.held.spec]) # "ClusterIP"

(* The API server stores o; a write that changes nothing keeps the         *)
(* resourceVersion.                                                        *)
Store(k, o) ==
    /\ obj' = [obj EXCEPT ![k] = o]
    /\ lag' = IF o = obj[k] THEN lag
              ELSE IF lag[k] = "ours" \/ {o.owner, obj[k].owner} \cap Ours # {}
                   THEN [lag EXCEPT ![k] = "ours"]
                   ELSE [lag EXCEPT ![k] = "some"]
    /\ rendered' = IF k = "ConfigMap" /\ o.owner \in Ours
                   THEN rendered \cup {o.content.data}
                   ELSE rendered

Untouched == UNCHANGED <<obj, lag, rendered>>

Succeed(k) == w' = [w EXCEPT !.done = @ \cup {k}] /\ UNCHANGED queued

(* An error ends the reconciliation; the key is queued again.              *)
Fail == w' = Idle /\ queued' = TRUE /\ Untouched

(* Mutant: an Update does not carry the resourceVersion it was read at.    *)
CreateOrUpdateBlind(k) ==
    LET current == cobj[k]
        mutated == Mutated(k, current)
        refused == IF current.exists
                   THEN current.owner = Other \/ ~obj[k].exists
                   ELSE obj[k].exists
    IN  \/ refused /\ Fail
        \/ ~refused /\ Store(k, mutated) /\ Succeed(k)

(* Mutant: SetControllerReference adopts no object that nobody controls.   *)
CreateOrUpdateUnadopted(k) ==
    LET current == cobj[k]
        mutated == Mutated(k, current)
        refused == IF current.exists
                   THEN \/ current.owner # w.held.uid
                        \/ lag[k] # "none" /\ (mutated # current \/ AlwaysSent(k))
                   ELSE obj[k].exists
    IN  \/ refused /\ Fail
        \/ ~refused /\ mutated = current /\ Untouched /\ Succeed(k)
        \/ ~refused /\ mutated # current /\ Store(k, mutated) /\ Succeed(k)

(* CreateOrUpdate.  The cache has no object: Create, which fails when the  *)
(* API server has one.  It has one: SetControllerReference refuses another *)
(* controller's; nothing is sent when nothing changed; an Update of a copy *)
(* that is not the stored version is a conflict.                           *)
CreateOrUpdate(k) ==
    LET current == cobj[k]
        mutated == Mutated(k, current)
        refused == IF current.exists
                   THEN \/ current.owner = Other
                        \/ lag[k] # "none" /\ (mutated # current \/ AlwaysSent(k))
                   ELSE obj[k].exists
    IN  \/ refused /\ Fail
        \/ ~refused /\ mutated = current /\ Untouched /\ Succeed(k)
        \/ ~refused /\ mutated # current /\ Store(k, mutated) /\ Succeed(k)

(* Delete by name, whoever controls the object; NotFound is ignored.       *)
DeleteUnwanted(k) == Store(k, NoObject) /\ Succeed(k)

Reconcile(k) ==
    /\ Turn(k)
    /\ UNCHANGED <<rt, crt, cobj, changes, mischief>>
    /\ IF Wanted(k, Specs[w.held.spec])
       THEN CreateOrUpdate(k)
       ELSE DeleteUnwanted(k)

(* Every kind succeeded; the status part of the loop is left out.          *)
Finish ==
    /\ w.active
    /\ w.done = Kinds
    /\ w' = Idle
    /\ UNCHANGED <<rt, crt, obj, cobj, lag, queued, rendered, changes,
                   mischief>>

-----------------------------------------------------------------------------
(* The cluster.                                                            *)

(* The garbage collector removes what a runtime that is gone controls.     *)
Collect(k) ==
    /\ obj[k].owner \in Ours
    /\ ~(rt.live /\ rt.uid = obj[k].owner)
    /\ Store(k, NoObject)
    /\ UNCHANGED <<rt, crt, cobj, queued, w, changes, mischief>>

-----------------------------------------------------------------------------
(* Disturbances.                                                           *)

Disturb(fault, k) ==
    /\ <<fault, k>> \in Faults
    /\ mischief < MaxMischief
    /\ mischief' = mischief + 1

(* Somebody rewrites a field the operator sets; the labels stand for it.   *)
Drift(k) ==
    /\ Disturb("drift", k)
    /\ obj[k].exists
    /\ Store(k, [obj[k] EXCEPT !.content.labels = [managedBy |-> "somebody"]])
    /\ UNCHANGED <<rt, crt, cobj, queued, w, changes>>

(* Somebody drops the owner reference, as on an object of the same name    *)
(* that nobody controls.                                                   *)
Orphan(k) ==
    /\ Disturb("orphan", k)
    /\ obj[k].exists
    /\ Store(k, [obj[k] EXCEPT !.owner = Nobody])
    /\ UNCHANGED <<rt, crt, cobj, queued, w, changes>>

Remove(k) ==
    /\ Disturb("remove", k)
    /\ obj[k].exists
    /\ Store(k, NoObject)
    /\ UNCHANGED <<rt, crt, cobj, queued, w, changes>>

(* Somebody creates an object of the runtime's name for another controller.*)
Occupy(k) ==
    /\ Disturb("occupy", k)
    /\ ~obj[k].exists
    /\ Store(k, [ exists |-> TRUE, owner |-> Other,
                  content |-> [labels |-> [managedBy |-> "somebody"]] ])
    /\ UNCHANGED <<rt, crt, cobj, queued, w, changes>>

(* The manager's process restarts: its caches are filled by listing, and   *)
(* every runtime listed is queued.                                         *)
Restart ==
    /\ Disturb("restart", "manager")
    /\ w' = Idle
    /\ crt' = rt
    /\ cobj' = obj
    /\ lag' = [k \in Kinds |-> "none"]
    /\ queued' = rt.live
    /\ UNCHANGED <<rt, obj, rendered, changes>>

(* A request of the worker fails.                                          *)
RequestFails(k) ==
    /\ Disturb("request", k)
    /\ Turn(k)
    /\ Fail
    /\ UNCHANGED <<rt, crt, cobj, changes>>

Mischief ==
    \/ Restart
    \/ \E k \in Kinds : \/ Drift(k) \/ Orphan(k) \/ Remove(k) \/ Occupy(k)
                        \/ RequestFails(k)

Informers == SyncRuntime \/ \E k \in Kinds : Sync(k)

Worker == Begin \/ (\E k \in Kinds : Reconcile(k)) \/ Finish

Cluster == \E k \in Kinds : Collect(k)

Next ==
    \/ EditRuntime \/ DeleteRuntime \/ RecreateRuntime
    \/ Informers \/ Worker \/ Cluster \/ Mischief

Spec == Init /\ [][Next]_vars

(* Informers deliver, the worker and the cluster's controllers run.  Users *)
(* and disturbances are free.                                              *)
Fairness ==
    /\ WF_vars(SyncRuntime)
    /\ \A k \in Kinds : WF_vars(Sync(k))
    /\ WF_vars(Worker)
    /\ WF_vars(Cluster)

FairSpec == Spec /\ Fairness

-----------------------------------------------------------------------------
(* Properties.                                                             *)

Runtimes == [live : BOOLEAN, uid : {0} \cup Ours, spec : DOMAIN Specs \cup {None}]

(* Shape of the state.                                                     *)
TypeOK ==
    /\ rt \in Runtimes /\ crt \in Runtimes /\ w.held \in Runtimes
    /\ DOMAIN obj = Kinds /\ DOMAIN cobj = Kinds
    /\ \A k \in Kinds :
         /\ obj[k].owner \in {Nobody, Other} \cup Ours
         /\ obj[k].exists <=> obj[k] # NoObject
    /\ lag \in [Kinds -> {"none", "some", "ours"}]
    /\ queued \in BOOLEAN /\ w.active \in BOOLEAN /\ w.done \subseteq Kinds

(* No step of the worker changes or removes an object that another         *)
(* controller controls, however stale the cache that says otherwise: a     *)
(* Create meets AlreadyExists, an Update a conflict.  The one exception is *)
(* the code's own: an optional kind that is switched off is deleted by     *)
(* name, whoever controls it.                                              *)
ForeignObjectsAreKept ==
    [][ \A k \in Kinds :
          Reconcile(k) /\ obj[k].owner = Other /\ Wanted(k, Specs[w.held.spec])
             => UNCHANGED obj ]_vars

(* The checksum on a Deployment the operator wrote names data that the     *)
(* managed ConfigMap has carried before: Pods are never rolled for a       *)
(* configuration that was not stored first, and no annotation of the user  *)
(* takes the checksum's place.                                             *)
ChecksumNamesRenderedData ==
    obj["Deployment"].owner \in Ours =>
      \E data \in rendered :
         obj["Deployment"].content.template.annotations.checksum
           = runtimeConfigChecksum(data)

(* The Pods of a Deployment the operator wrote are picked by the selector  *)
(* of every object that selects them, from whichever spec each of the two  *)
(* was built: the labels of spec.podMetadata never replace reserved ones.  *)
PodsAreSelected ==
    \A k \in Kinds \cap {"Service", "PodDisruptionBudget", "NetworkPolicy"} :
       obj["Deployment"].owner \in Ours /\ obj[k].owner \in Ours =>
          Selects(obj[k].content.selector,
                  obj["Deployment"].content.template.labels)

(* The content a spec asks for; the scale is the autoscaler's, if any.     *)
Requested(k, s, content) ==
    LET built == Built[k][s]
    IN  IF k = "Deployment" /\ autoscalingEnabled(Specs[s])
        THEN [built EXCEPT !.replicas = content.replicas]
        ELSE built

(* The object o of a kind is what it should be for the runtime r.          *)
Converged(k, o, r) ==
    IF r.live /\ Wanted(k, Specs[r.spec])
    THEN o.owner = r.uid /\ o.content = Requested(k, r.spec, o.content)
    ELSE o.owner \notin Ours

(* Unless another controller's object stands in the way, every managed     *)
(* object ends up controlled by the runtime that exists now and with the   *)
(* content its spec asks for, and nothing is left of a deleted runtime or  *)
(* of a feature that is switched off.                                      *)
ResourcesConverge ==
    <>[]((\A k \in Kinds : obj[k].owner # Other)
           => \A k \in Kinds : Converged(k, obj[k], rt))

(* Nothing is on its way: no event, no key, no reconciliation, no garbage. *)
AtRest ==
    /\ crt = rt /\ \A k \in Kinds : lag[k] = "none"
    /\ ~queued /\ ~w.active
    /\ \A k \in Kinds : obj[k].owner \in Ours => rt.live /\ rt.uid = obj[k].owner

(* SetupWithManager's Owns watches and Reconcile's error returns lose no   *)
(* wakeup: whatever was edited, drifted, refused or raced with a lagging   *)
(* cache, once nothing is on its way any more every object is what the     *)
(* runtime's spec asks for.  While another controller's object stands in   *)
(* the way of a wanted one, the operator does not come to rest.            *)
RestMeansConverged == AtRest => \A k \in Kinds : Converged(k, obj[k], rt)

==============================================================================
