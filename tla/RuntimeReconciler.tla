-------------------------- MODULE RuntimeReconciler --------------------------
(***************************************************************************)
(* One TrussiumRuntime, the operator that reconciles it and the cluster it *)
(* lives in: Reconcile and everything it calls                             *)
(* (internal/controller/trussiumruntime_controller.go), step by step, next *)
(* to users, Secrets, the Deployment controller and the informer caches.   *)
(*                                                                         *)
(* Reads go to the caches (crt, cdep, csecrets), which lag behind the    *)
(* store; writes go to the store, and one that carries an old              *)
(* resourceVersion is refused.  "rtFresh" and "depFresh" say that the      *)
(* cache holds the stored version, "w.current" that the object in the      *)
(* worker's hands still is the stored version.                             *)
(*                                                                         *)
(* The worker's steps are the API writes of a reconciliation.  A cached    *)
(* read commutes with every step between it and the write that follows,    *)
(* so it is taken together with that write.  Of the managed resources the  *)
(* model keeps those the status or the scale depend on: Service,           *)
(* Deployment and autoscaler; writing the others can only fail here.       *)
(***************************************************************************)
EXTENDS ManagedDeployment, RuntimeEvents

CONSTANTS Specs,         \* the specs a user may ask for
          InitialSpecs,  \* the specs a runtime may be created with
          MaxGeneration  \* bound on metadata.generation, that is on edits

VARIABLES rt, crt, rtFresh,      \* the TrussiumRuntime: stored, cached
          cdep,                  \* cached Deployment (stored: dep)
          svc,                   \* the Service's port, NoService without one
          secrets, csecrets,     \* existing Secrets: stored, cached
          queued,                \* the work queue holds the runtime's key
          w,                     \* the worker
          unannounced            \* see RecordEvents

operatorVars == <<rt, crt, rtFresh, cdep, svc, secrets, csecrets,
                  queued, w, unannounced>>

vars == <<clusterVars, operatorVars>>

ASSUME SpecsAssumption ==
    /\ Specs \subseteq RuntimeSpecs
    /\ Specs # {}
    /\ InitialSpecs \subseteq Specs
    /\ MaxGeneration \in Nat

Runtimes ==
    [ phase : {"live", "deleting", "gone"}, gen : Nat, spec : Specs,
      status : Statuses ]

Workers ==
    [ pc : {"idle", "deployment", "autoscaler", "status", "events"},
      path : {"reconcile", "invalid", "failed"},
      held : Runtimes, current : BOOLEAN, validation : Validations,
      written : Statuses ]

IdleWorker ==
    [ pc |-> "idle", path |-> "reconcile",
      held |-> [phase |-> "gone", gen |-> 0, spec |-> CHOOSE s \in Specs : TRUE,
                status |-> EmptyStatus],
      current |-> FALSE, validation |-> validReferenceValidation,
      written |-> EmptyStatus ]

Init ==
    /\ \E s \in InitialSpecs :
          rt = [phase |-> "live", gen |-> 1, spec |-> s, status |-> EmptyStatus]
    /\ secrets \in SUBSET SecretNames
    /\ crt = rt /\ rtFresh = TRUE /\ csecrets = secrets
    /\ dep = NoDeployment /\ cdep = NoDeployment /\ depFresh = TRUE
    /\ pods = NoPods /\ hpa = NoAutoscaler
    /\ svc = NoService
    /\ queued = TRUE /\ w = IdleWorker
    /\ completed = {} /\ mischief = 0
    /\ unannounced = {}

-----------------------------------------------------------------------------
(* Users.  Any write of the object makes every earlier copy of it stale.   *)

Stale(worker) == [worker EXCEPT !.current = FALSE]

UserEditsSpec ==
    /\ rt.phase = "live" /\ rt.gen < MaxGeneration
    /\ \E s \in Specs \ {rt.spec} :
          rt' = [rt EXCEPT !.spec = s, !.gen = @ + 1]
    /\ rtFresh' = FALSE /\ w' = Stale(w)
    /\ UNCHANGED <<clusterVars, crt, cdep, svc, secrets, csecrets,
                   queued, unannounced>>

(* Deletion in the foreground sets the deletion timestamp first.           *)
UserDeletesRuntime ==
    /\ Disturb("delete")
    /\ rt.phase = "live"
    /\ \/ rt' = [rt EXCEPT !.phase = "deleting", !.gen = @ + 1]
       \/ rt' = [rt EXCEPT !.phase = "gone"]
    /\ rtFresh' = FALSE /\ w' = Stale(w)
    /\ UNCHANGED <<dep, depFresh, pods, hpa, completed, crt, cdep, svc,
                   secrets, csecrets, queued, unannounced>>

(* The garbage collector removes what a deleted runtime owns, then a       *)
(* runtime that waits for that.                                            *)
GarbageCollects ==
    /\ rt.phase # "live"
    /\ IF dep.exists \/ svc # NoService \/ hpa.exists
       THEN /\ dep' = NoDeployment /\ depFresh' = (depFresh /\ ~dep.exists)
            /\ pods' = NoPods /\ svc' = NoService /\ hpa' = NoAutoscaler
            /\ queued' = (queued \/ svc # NoService)
            /\ UNCHANGED <<rt, rtFresh, w>>
       ELSE /\ rt.phase = "deleting"
            /\ rt' = [rt EXCEPT !.phase = "gone"]
            /\ rtFresh' = FALSE /\ w' = Stale(w)
            /\ UNCHANGED <<dep, depFresh, pods, svc, hpa, queued>>
    /\ UNCHANGED <<completed, mischief, crt, cdep, secrets, csecrets,
                   unannounced>>

SecretChanges ==
    /\ Disturb("secret")
    /\ \E n \in SecretNames :
          secrets' = IF n \in secrets THEN secrets \ {n} ELSE secrets \cup {n}
    /\ UNCHANGED <<dep, depFresh, pods, hpa, completed, rt, crt, rtFresh, cdep,
                   svc, csecrets, queued, w, unannounced>>

-----------------------------------------------------------------------------
(* The informer caches catch up, and SetupWithManager's watches enqueue.   *)

(* GenerationChangedPredicate filters updates of the runtime; creations    *)
(* and deletions pass.                                                     *)
WatchRuntime ==
    /\ ~rtFresh
    /\ crt' = rt /\ rtFresh' = TRUE
    /\ queued' = (queued \/ crt.gen # rt.gen \/ crt.phase # rt.phase)
    /\ UNCHANGED <<clusterVars, rt, cdep, svc, secrets, csecrets, w,
                   unannounced>>

(* Mutant: changes of the Deployment's status are filtered.                *)
WatchDeploymentQuietly ==
    /\ ~depFresh
    /\ cdep' = dep /\ depFresh' = TRUE
    /\ queued' = (queued \/ Template(cdep) # Template(dep))
    /\ UNCHANGED <<dep, pods, hpa, completed, mischief, rt, crt, rtFresh, svc,
                   secrets, csecrets, w, unannounced>>

(* Owns(Deployment): every change counts, status changes included.         *)
WatchDeployment ==
    /\ ~depFresh
    /\ cdep' = dep /\ depFresh' = TRUE
    /\ queued' = TRUE
    /\ UNCHANGED <<dep, pods, hpa, completed, mischief, rt, crt, rtFresh, svc,
                   secrets, csecrets, w, unannounced>>

(* Mutant: image pull Secrets are forgotten.                               *)
mapSecretToRuntimesCredentialsOnly(changed) ==
    crt.phase # "gone" /\ crt.spec.credentials \in changed

(* mapSecretToRuntimes enqueues the runtime if its cached spec refers to   *)
(* the Secret; when listing the runtimes fails, it enqueues nothing.       *)
mapSecretToRuntimes(changed) ==
    /\ crt.phase # "gone"
    /\ \E n \in changed : runtimeReferencesSecret(crt.spec, n)

WatchSecrets ==
    /\ csecrets # secrets
    /\ csecrets' = secrets
    /\ LET changed == (secrets \ csecrets) \cup (csecrets \ secrets) IN
       \/ queued' = (queued \/ mapSecretToRuntimes(changed))
       \/ /\ "list" \in Faults
          /\ UNCHANGED queued
    /\ UNCHANGED <<clusterVars, rt, crt, rtFresh, cdep, svc, secrets, w,
                   unannounced>>

-----------------------------------------------------------------------------
(* The worker.  The queue hands out a key once at a time; an error puts it *)
(* back.                                                                   *)

Finish ==
    /\ w' = IdleWorker
    /\ queued' = (queued \/ w.path = "failed")

(* Mutant: an error does not lead to a failure report.                     *)
FailUnreported(worker) == [worker EXCEPT !.pc = "failed", !.path = "failed"]

Fail(worker) == [worker EXCEPT !.pc = "status", !.path = "failed"]

(* A runtime that is gone or being deleted is left alone.                  *)
ReconcileSkipsDeleted ==
    /\ w.pc = "idle" /\ queued /\ crt.phase # "live"
    /\ queued' = FALSE
    /\ UNCHANGED <<clusterVars, rt, crt, rtFresh, cdep, svc, secrets,
                   csecrets, w, unannounced>>

(* Mutant: the deletion timestamp is not looked at.                        *)
ReconcileDeleting ==
    /\ w.pc = "idle" /\ queued /\ crt.phase # "gone"
    /\ queued' = FALSE
    /\ w' = [ pc |-> "deployment", path |-> "reconcile", held |-> crt,
              current |-> rtFresh, validation |-> validReferenceValidation,
              written |-> EmptyStatus ]
    /\ UNCHANGED <<clusterVars, rt, crt, rtFresh, cdep, svc, secrets,
                   csecrets, unannounced>>

(* The runtime is read, and the Secrets it refers to are looked up.        *)
Reconcile ==
    /\ w.pc = "idle" /\ queued /\ crt.phase = "live"
    /\ queued' = FALSE
    /\ \E v \in validateSecretReferences(crt.spec, csecrets) :
          /\ IF v.err THEN Disturb("api") ELSE UNCHANGED mischief
          /\ w' = [ pc |-> IF v.valid THEN "deployment" ELSE "status",
                    path |-> IF v.err THEN "failed"
                             ELSE IF v.valid THEN "reconcile" ELSE "invalid",
                    held |-> crt, current |-> rtFresh, validation |-> v,
                    written |-> EmptyStatus ]
    /\ UNCHANGED <<dep, depFresh, pods, hpa, completed, rt, crt, rtFresh, cdep,
                   svc, secrets, csecrets, unannounced>>

(* buildDeployment for a Deployment that does not exist yet.               *)
buildDeployment(spec) ==
    [NoDeployment EXCEPT
       !.exists = TRUE,
       !.image = runtimeImage(spec.image),
       !.cfg = spec.cfg,
       !.replicas = initialDeploymentReplicas(spec)]

(* Mutants: the built scale is always applied; never.                      *)
MutatedDeploymentRescaled(spec, d) ==
    LET b == buildDeployment(spec)
    IN  [d EXCEPT
           !.image = b.image, !.cfg = b.cfg, !.replicas = b.replicas,
           !.observed = @ /\ d.image = b.image /\ d.cfg = b.cfg
                          /\ d.replicas = b.replicas]

MutatedDeploymentKeepsScale(spec, d) ==
    LET b == buildDeployment(spec)
    IN  [d EXCEPT
           !.image = b.image, !.cfg = b.cfg,
           !.observed = @ /\ d.image = b.image /\ d.cfg = b.cfg]

(* Mutant: every update is a new generation, as with a template that is    *)
(* never built the same twice.                                             *)
MutatedDeploymentAnew(spec, d) ==
    LET b == buildDeployment(spec)
    IN  [d EXCEPT
           !.image = b.image, !.cfg = b.cfg,
           !.replicas = IF autoscalingEnabled(spec) THEN @ ELSE b.replicas,
           !.observed = FALSE]

(* The mutation reconcileDeployment applies to an existing one: the whole  *)
(* spec, except that the autoscaler's scale is kept.  A changed spec is a  *)
(* new generation.                                                         *)
MutatedDeployment(spec, d) ==
    LET b == buildDeployment(spec)
        replicas == IF autoscalingEnabled(spec) THEN d.replicas ELSE b.replicas
    IN  [d EXCEPT
           !.image = b.image, !.cfg = b.cfg, !.replicas = replicas,
           !.observed = @ /\ d.image = b.image /\ d.cfg = b.cfg
                          /\ d.replicas = replicas]

(* Create is refused if there is a Deployment, Update if the cached one is *)
(* not the stored one.  (Update is always sent: the fields the API server  *)
(* defaults are not in the built spec.)                                    *)
DeploymentRefused ==
    IF cdep.exists THEN ~depFresh ELSE dep.exists

WriteDeployment ==
    /\ ~DeploymentRefused
    /\ dep' = IF cdep.exists THEN MutatedDeployment(w.held.spec, cdep)
                             ELSE buildDeployment(w.held.spec)
    /\ depFresh' = (depFresh /\ dep' = dep)

(* ConfigMap, ServiceAccount, Service; Owns(Service) enqueues on a change. *)
reconcileService ==
    /\ svc' = w.held.spec.port
    /\ queued' = (queued \/ svc # w.held.spec.port)

(* reconcileCoreResources up to the Deployment: everything succeeds; a     *)
(* write before the Deployment fails; the Deployment write is refused; or  *)
(* it fails, and may have been carried out nevertheless.                   *)
reconcileDeployment ==
    /\ w.pc = "deployment"
    /\ \/ /\ reconcileService /\ WriteDeployment
          /\ w' = [w EXCEPT !.pc = "autoscaler"]
          /\ UNCHANGED mischief
       \/ /\ Disturb("api")
          /\ w' = Fail(w)
          /\ UNCHANGED <<svc, queued, dep, depFresh>>
       \/ /\ reconcileService /\ DeploymentRefused
          /\ w' = Fail(w)
          /\ UNCHANGED <<dep, depFresh, mischief>>
       \/ /\ Disturb("api")
          /\ reconcileService
          /\ WriteDeployment \/ UNCHANGED <<dep, depFresh>>
          /\ w' = Fail(w)
    /\ UNCHANGED <<pods, hpa, completed, rt, crt, rtFresh, cdep, secrets,
                   csecrets, unannounced>>

(* The rest of reconcileCoreResources: PodDisruptionBudget, NetworkPolicy, *)
(* HorizontalPodAutoscaler.                                                *)
buildHorizontalPodAutoscaler(spec) ==
    IF autoscalingEnabled(spec)
    THEN [exists |-> TRUE, min |-> desiredAutoscalingMinReplicas(spec),
          max |-> desiredAutoscalingMaxReplicas(spec)]
    ELSE NoAutoscaler

reconcileHorizontalPodAutoscaler ==
    /\ w.pc = "autoscaler"
    /\ \/ /\ hpa' = buildHorizontalPodAutoscaler(w.held.spec)
          /\ w' = [w EXCEPT !.pc = "status"]
          /\ UNCHANGED mischief
       \/ /\ Disturb("api")
          /\ hpa' \in {hpa, buildHorizontalPodAutoscaler(w.held.spec)}
          /\ w' = Fail(w)
    /\ UNCHANGED <<dep, depFresh, pods, completed, rt, crt, rtFresh, cdep, svc,
                   secrets, csecrets, queued, unannounced>>

-----------------------------------------------------------------------------
(* The status.                                                             *)

(* Transition times are StatusWriter's subject; here the clock stands still.*)
Now == 0

(* loadRuntimeObservation when it succeeds.                                *)
Observation == [deployment |-> cdep, service |-> svc]

(* The status this reconciliation wants, and what updateRuntimeStatus      *)
(* makes of it.                                                            *)
NormalizedStatus(observation) ==
    preserveRuntimeConditionTransitionTimes(w.held.status,
        IF w.path = "failed"
        THEN buildReconciliationFailureStatus(w.held, observation, Now)
        ELSE buildRuntimeStatus(w.held, observation, w.validation, Now))

(* Mutant: the status is sent without a resourceVersion.                   *)
StatusRefusedNever == rt.phase = "gone"

(* The status is sent with the resourceVersion that was read.              *)
StatusRefused == ~w.current \/ rt.phase = "gone"

(* Storing a status: only the status changes, and the copies become stale. *)
StoreStatus(status) ==
    /\ rt' = [rt EXCEPT !.status = status]
    /\ rtFresh' = FALSE
    /\ unannounced' = unannounced \cup
          {t \in ConditionTypes : conditionChanged(rt.status, status, t)}

(* updateRuntimeStatus: no write if the status held already is the wanted  *)
(* one; otherwise the write succeeds or is refused.                        *)
updateRuntimeStatus(observation) ==
    \E status \in {NormalizedStatus(observation)} :
    \/ /\ status = w.held.status
       /\ Finish
       /\ UNCHANGED <<rt, rtFresh, unannounced>>
    \/ /\ status # w.held.status /\ ~StatusRefused
       /\ StoreStatus(status)
       /\ w' = [w EXCEPT !.pc = "events", !.current = FALSE, !.written = status]
       /\ UNCHANGED queued
    \/ /\ status # w.held.status /\ StatusRefused
       /\ w' = IdleWorker /\ queued' = TRUE
       /\ UNCHANGED <<rt, rtFresh, unannounced>>

(* The end of Reconcile, of reconcileInvalidConfiguration and of           *)
(* handleReconciliationFailure.                                            *)
ReconcileStatus ==
    /\ w.pc = "status"
    /\ updateRuntimeStatus(Observation)
    /\ UNCHANGED <<clusterVars, crt, cdep, svc, secrets, csecrets>>

(* Observing fails: the failure is handled, and if it is being handled the *)
(* status is built from an empty observation.                              *)
ObservationFails ==
    /\ w.pc = "status"
    /\ Disturb("observe")
    /\ IF w.path = "failed"
       THEN updateRuntimeStatus(EmptyObservation)
       ELSE w' = Fail(w) /\ UNCHANGED <<rt, rtFresh, queued, unannounced>>
    /\ UNCHANGED <<dep, depFresh, pods, hpa, completed, crt, cdep, svc,
                   secrets, csecrets>>

(* The status request fails; it may have been carried out nevertheless.    *)
StatusUpdateFails ==
    /\ w.pc = "status"
    /\ Disturb("api")
    /\ \E status \in {NormalizedStatus(Observation)} :
          /\ status # w.held.status
          /\ \/ UNCHANGED <<rt, rtFresh, unannounced>>
             \/ ~StatusRefused /\ StoreStatus(status)
    /\ w' = IdleWorker /\ queued' = TRUE
    /\ UNCHANGED <<dep, depFresh, pods, hpa, completed, crt, cdep, svc,
                   secrets, csecrets>>

(* The condition types recordStatusTransitionEvents has an Event for.      *)
AnnouncedTypes(previous, current) ==
    {e.type : e \in recordStatusTransitionEvents(previous, current)}

(* The Events of the transition just stored.  "unannounced" is a history   *)
(* variable: the condition types whose stored status or reason has changed *)
(* since an Event was last emitted for them.                               *)
RecordEvents ==
    /\ w.pc = "events"
    /\ unannounced' = unannounced \ AnnouncedTypes(w.held.status, w.written)
    /\ Finish
    /\ UNCHANGED <<clusterVars, rt, crt, rtFresh, cdep, svc, secrets,
                   csecrets>>

(* The operator is restarted in the middle of a reconciliation: it lists   *)
(* everything anew and starts over.                                        *)
OperatorRestarts ==
    /\ Disturb("crash")
    /\ w.pc # "idle"
    /\ w' = IdleWorker /\ queued' = TRUE
    /\ crt' = rt /\ rtFresh' = TRUE
    /\ cdep' = dep /\ depFresh' = TRUE
    /\ csecrets' = secrets
    /\ UNCHANGED <<dep, pods, hpa, completed, rt, svc, secrets, unannounced>>

-----------------------------------------------------------------------------

Environment ==
    \/ ClusterStep /\ UNCHANGED operatorVars
    \/ UserEditsSpec
    \/ UserDeletesRuntime
    \/ GarbageCollects
    \/ SecretChanges

Watch == WatchRuntime \/ WatchDeployment \/ WatchSecrets

Worker ==
    \/ ReconcileSkipsDeleted
    \/ Reconcile
    \/ reconcileDeployment
    \/ reconcileHorizontalPodAutoscaler
    \/ ReconcileStatus
    \/ ObservationFails
    \/ StatusUpdateFails
    \/ RecordEvents

(* The worker waits for nothing but a key in the queue.                    *)
WorkerWaits == w.pc = "idle" /\ ~queued

Next == Environment \/ Watch \/ Worker \/ OperatorRestarts

Spec == Init /\ [][Next]_vars

(* The garbage collector, each informer and the single worker keep         *)
(* running, and so do the Deployment controller and the kubelets.  Nothing *)
(* is assumed of users and of the autoscaler; disturbances are bounded.    *)
(* The worker's fairness is WF_vars(Worker), spelled out with WorkerWaits  *)
(* for ~ENABLED Worker: see WorkerIsNeverStuck.                            *)
FairSpec ==
    /\ Spec
    /\ WF_vars(RolloutStep /\ UNCHANGED operatorVars)
    /\ WF_vars(GarbageCollects)
    /\ WF_vars(WatchRuntime) /\ WF_vars(WatchDeployment)
    /\ WF_vars(WatchSecrets)
    /\ []<>WorkerWaits \/ []<><<Worker>>_vars

-----------------------------------------------------------------------------
(* Safety.                                                                 *)

(* Every variable has the type of what it stands for.                      *)
TypeOK ==
    /\ dep \in Deployments /\ cdep \in Deployments
    /\ depFresh \in BOOLEAN /\ rtFresh \in BOOLEAN /\ queued \in BOOLEAN
    /\ pods \in [PodIds -> PodSlots]
    /\ hpa \in Autoscalers
    /\ completed \subseteq Images
    /\ mischief \in 0 .. MaxMischief
    /\ rt \in Runtimes /\ crt \in Runtimes
    /\ svc \in Ports \cup {NoService}
    /\ secrets \subseteq SecretNames /\ csecrets \subseteq SecretNames
    /\ w \in Workers
    /\ unannounced \subseteq ConditionTypes

(* applyUpgradeStatus: status.lastSuccessfulImage is an image that was     *)
(* really rolled out: at some instant every running Pod ran it and was     *)
(* ready.  Stale caches, failed or repeated writes, restarts, drift and    *)
(* autoscaling do not make it claim more.                                  *)
LastSuccessfulImageWasRolledOut ==
    rt.status.lastSuccessfulImage \in completed \cup {None}

(* recordStatusTransitionEvents: an Event announces a transition of the    *)
(* stored condition that no Event has announced before, although           *)
(* "previous" is what a lagging cache returned.                            *)
EventsAnnounceNewTransitions ==
    w.pc = "events" =>
        AnnouncedTypes(w.held.status, w.written) \subseteq unannounced

(* updateRuntimeStatus: a status that reaches the store was computed from  *)
(* the stored spec and the stored status, never from an outdated copy: it  *)
(* carries the stored generation and wants the stored spec's image.        *)
StatusDescribesStoredSpec ==
    [][rt'.status # rt.status =>
         /\ rt'.status.observedGeneration = rt.gen
         /\ rt'.status.desiredImage = runtimeImage(rt.spec.image)
         /\ w.held.status = rt.status]_vars

(* reconcileDeployment: while a reconciliation finds autoscaling enabled,  *)
(* its write never takes back a scale chosen by the autoscaler, although   *)
(* it copies the scale from a cache that may lag.                          *)
AutoscalerScaleIsKept ==
    [][(w.pc = "deployment" /\ w'.pc # "deployment" /\ w.held.spec.autoscaling
        /\ dep.exists /\ dep'.exists)
          => dep'.replicas = dep.replicas]_vars

(* The upgrade report as UpgradeLifecycle describes it.                    *)
Upgrade == INSTANCE UpgradeLifecycle WITH
    wanted <- runtimeImage(rt.spec.image),
    rolledOut <- completed,
    last <- rt.status.lastSuccessfulImage,
    report <- rt.status.conditions.Upgrading.reason

(* applyUpgradeStatus and updateRuntimeStatus: seen from outside, the      *)
(* upgrade report follows UpgradeLifecycle.  "Complete" and the move of    *)
(* the last successful image are one step, which needs the image that is   *)
(* wanted when the status is stored to have been rolled out by then; and   *)
(* after the first success the report never goes back to "no upgrade".     *)
UpgradeFollowsLifecycle == Upgrade!Spec

-----------------------------------------------------------------------------
(* Liveness.  Edits are bounded by MaxGeneration and disturbances by       *)
(* MaxMischief, so every behaviour of FairSpec is eventually left in peace.*)

ReferencesExist == referencedSecretNames(rt.spec) \subseteq secrets

(* Reconcile and its error paths: whatever is refused or fails, and        *)
(* however old the copies it holds are, the worker can go on until it is   *)
(* idle with an empty queue.                                               *)
WorkerIsNeverStuck == WorkerWaits <=> ~ENABLED <<Worker>>_vars

(* The Service, the Deployment and the autoscaler the spec asks for.       *)
ResourcesInPlace ==
    /\ svc = rt.spec.port
    /\ Template(dep) = <<runtimeImage(rt.spec.image), rt.spec.cfg>>
    /\ ~rt.spec.autoscaling => dep.replicas = desiredReplicas(rt.spec)
    /\ hpa = buildHorizontalPodAutoscaler(rt.spec)

(* reconcileCoreResources is idempotent: a reconciliation of the stored    *)
(* spec, however old the rest of what it holds and whatever step of it     *)
(* fails, changes nothing that already is as the spec asks.                *)
ReconciliationIsIdempotent ==
    [][(/\ w'.pc # w.pc
        /\ rt.phase = "live" /\ w.held.gen = rt.gen
        /\ ResourcesInPlace)
          => UNCHANGED <<dep, svc, hpa>>]_vars

(* What reconciling the stored runtime now would report.                   *)
ReportOf(validation) ==
    preserveRuntimeConditionTransitionTimes(rt.status,
        buildRuntimeStatus(rt, Observation, validation, Now))

(* updateRuntimeStatus and the watches: until a reconciliation is queued   *)
(* again, the status just stored is the one reconciling once more would    *)
(* report.  The write does not invalidate itself, and nothing it was       *)
(* computed from changes unnoticed.                                        *)
StoredReportIsExact ==
    (/\ w.pc = "events" /\ w.path # "failed"
     /\ rt.phase = "live" /\ w.held.gen = rt.gen
     /\ ~queued)
        => rt.status = ReportOf(w.validation)

(* The status is one of the last generation, and a finished rollout of the *)
(* wanted image is in it.                                                  *)
StatusReported ==
    /\ rt.status.observedGeneration = rt.gen
    /\ rt.status.desiredImage = runtimeImage(rt.spec.image)
    /\ ImageRolledOut(rt.spec, dep)
         => rt.status.lastSuccessfulImage = runtimeImage(rt.spec.image)

(* No reconciliation runs, none is due, and no event is on its way.        *)
AtRest ==
    WorkerWaits /\ rtFresh /\ depFresh /\ csecrets = secrets

(* SetupWithManager's watches, GenerationChangedPredicate and Reconcile's  *)
(* error returns lose no wakeup: whatever was edited, refused, drifted or  *)
(* raced with a lagging cache, once nothing is on its way any more a       *)
(* runtime whose Secrets exist has what its spec asks for, and its status  *)
(* says so.  (mapSecretToRuntimes drops a wakeup when its List fails.)     *)
RestMeansSettled ==
    AtRest /\ rt.phase = "live" /\ ReferencesExist /\ "list" \notin Faults
        => ResourcesInPlace /\ StatusReported

(* Reconcile and its watches: left in peace, a runtime whose Secrets exist *)
(* ends up with what its spec asks for, a status for the last generation,  *)
(* and the wanted image as the last successful one, whatever was edited,   *)
(* refused, lost or repeated on the way.                                   *)
RuntimeSettles ==
    <>[](rt.phase = "live" /\ ReferencesExist =>
           /\ ResourcesInPlace
           /\ StatusReported
           /\ rt.status.lastSuccessfulImage = runtimeImage(rt.spec.image))

(* updateRuntimeStatus and the watches: with nothing but edits going on,   *)
(* the runtime ends up being reported as ready.  (Secrets that come and go *)
(* and failing requests can prevent it: see the end of this module.)       *)
ReadinessIsReported ==
    <>[](rt.phase = "live" /\ ReferencesExist =>
           rt.status.conditions.Ready.status = "True")

(* Reconcile's early returns: nothing managed outlives a deleted runtime,  *)
(* although a lagging cache can make the operator create it once more.     *)
DeletedRuntimeIsCleanedUp ==
    <>[](rt.phase # "live" =>
           ~dep.exists /\ svc = NoService /\ ~hpa.exists)

-----------------------------------------------------------------------------
(* What the documentation says and the code does not do.                   *)

(* docs/UPGRADES.md, Upgrade Detection: an upgrade is in progress only     *)
(* while the desired image differs from the last successful one.           *)
UpgradingMeansAnotherImage ==
    rt.status.conditions.Upgrading.status = "True" =>
        rt.status.desiredImage # rt.status.lastSuccessfulImage

(* docs/UPGRADES.md, UpgradeFailed: an upgrade is reported as failed only  *)
(* if the Deployment reported the failure of a rollout of that image.      *)
UpgradeFailureIsOfDesiredImage ==
    [][(/\ rt'.status # rt.status
        /\ rt'.status.conditions.Upgrading.reason = "UpgradeFailed"
        /\ conditionChanged(rt.status, rt'.status, "Upgrading"))
         => cdep.observed /\ cdep.image = rt'.status.desiredImage]_vars

(* docs/STATUS_AND_EVENTS.md, ConfigurationValid: True only if the         *)
(* referenced Secrets were found.                                          *)
ConfigurationValidMeansFound ==
    [][(/\ rt'.status # rt.status
        /\ rt'.status.conditions.ConfigurationValid.status = "True")
         => w.validation.valid]_vars

(* docs/STATUS_AND_EVENTS.md, Watch Behaviour: readiness and failure       *)
(* conditions remain current, so a runtime left in peace does not keep     *)
(* reporting a reconciliation failure.                                     *)
FailureReportIsWithdrawn ==
    <>[](rt.phase = "live" /\ ReferencesExist =>
           rt.status.conditions.Degraded.reason # "ReconciliationFailed")

==============================================================================
