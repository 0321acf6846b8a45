----------------------- MODULE ManagedResourcesProofs -----------------------
(***************************************************************************)
(* Proofs about ManagedResources, for every set of kinds that has the      *)
(* ConfigMap and the Deployment, every family of specs, every set of       *)
(* faults and all bounds.                                                  *)
(***************************************************************************)
EXTENDS ManagedResources, TLAPS

Selecting == {"Service", "PodDisruptionBudget", "NetworkPolicy"}

(* What an object that the runtime controls holds, when the ConfigMap has  *)
(* carried the given set of data: a ConfigMap only data of that set, a     *)
(* Deployment a checksum of such data and Pod labels the selectors pick, a *)
(* selecting object the selector.                                          *)
Fits(k, o, data) ==
    o.owner \in Ours =>
      /\ k = "ConfigMap" =>
           "data" \in DOMAIN o.content /\ o.content.data \in data
      /\ k = "Deployment" =>
           /\ "template" \in DOMAIN o.content
           /\ Selects(runtimeSelectorLabels, o.content.template.labels)
           /\ \E d \in data : o.content.template.annotations.checksum
                               = runtimeConfigChecksum(d)
      /\ k \in Selecting =>
           /\ "selector" \in DOMAIN o.content
           /\ o.content.selector = runtimeSelectorLabels

IsRuntime(r) == r.uid \in Ours /\ r.spec \in DOMAIN Specs

IsObject(o) ==
    /\ o = [exists |-> o.exists, owner |-> o.owner, content |-> o.content]
    /\ o.owner # Nobody => o.exists

(* The worker took its copy of the runtime from the cache, and past the    *)
(* ConfigMap the data of that copy has been rendered.                      *)
WorkerInv ==
    w.active =>
      /\ IsRuntime(w.held)
      /\ "ConfigMap" \in w.done =>
           runtimeConfigData(Specs[w.held.spec]) \in rendered

(* A cache without lag is the store; what is controlled fits.              *)
ObjectInv ==
    /\ DOMAIN obj = Kinds /\ DOMAIN cobj = Kinds /\ DOMAIN lag = Kinds
    /\ obj = [k \in Kinds |-> obj[k]]
    /\ cobj = [k \in Kinds |-> cobj[k]]
    /\ lag = [k \in Kinds |-> lag[k]]
    /\ \A k \in Kinds :
         /\ IsObject(obj[k]) /\ IsObject(cobj[k])
         /\ Fits(k, obj[k], rendered) /\ Fits(k, cobj[k], rendered)
         /\ lag[k] = "none" => cobj[k] = obj[k]

ResourceInv ==
    /\ changes \in 0..MaxChanges
    /\ IsRuntime(rt) /\ rt.uid <= changes + 1
    /\ rt = [live |-> rt.live, uid |-> rt.uid, spec |-> rt.spec]
    /\ crt.live => IsRuntime(crt)
    /\ WorkerInv
    /\ w = [active |-> w.active, held |-> w.held, done |-> w.done]
    /\ ObjectInv

-----------------------------------------------------------------------------
(* What the builders put into an object fits, once its data is rendered.   *)

(* The labels the operator reserves survive the merge.                     *)
LEMMA ReservedLabels ==
    ASSUME NEW spec
    PROVE  Selects(runtimeSelectorLabels, mergedPodLabels(spec))
<1> DEFINE labels == mergedPodLabels(spec)
<1>1. DOMAIN runtimeSelectorLabels = {"name", "instance"}
  BY DEF runtimeSelectorLabels
<1>2. /\ DOMAIN runtimeLabels = {"name", "instance", "component", "managedBy"}
      /\ runtimeLabels["name"] = runtimeSelectorLabels["name"]
      /\ runtimeLabels["instance"] = runtimeSelectorLabels["instance"]
  BY DEF runtimeLabels, runtimeSelectorLabels
<1>3. \A key \in DOMAIN runtimeLabels :
         key \in DOMAIN labels /\ labels[key] = runtimeLabels[key]
  BY DEF mergedPodLabels, Reserving
<1> QED
  BY <1>1, <1>2, <1>3 DEF Selects

(* The checksum survives the user's annotations.                           *)
LEMMA ReservedAnnotation ==
    ASSUME NEW spec
    PROVE  podAnnotations(spec).checksum
             = runtimeConfigChecksum(runtimeConfigData(spec))
BY DEF podAnnotations, Reserving

(* The table of built objects.                                             *)
LEMMA BuiltObject ==
    ASSUME NEW k \in Kinds, NEW s \in DOMAIN Specs, Wanted(k, Specs[s])
    PROVE  Built[k][s] = build(k, Specs[s])
BY DEF Built

(* A mutated object is the held runtime's and carries what was built.      *)
LEMMA MutatedObject ==
    ASSUME NEW k \in Kinds, IsRuntime(w.held), Wanted(k, Specs[w.held.spec]),
           NEW current
    PROVE  LET o == Mutated(k, current)
               s == Specs[w.held.spec]
           IN  /\ IsObject(o) /\ o.exists
               /\ o.owner \in Ours
               /\ k = "ConfigMap" =>
                    /\ "data" \in DOMAIN o.content
                    /\ o.content.data = runtimeConfigData(s)
               /\ k = "Deployment" =>
                    /\ "template" \in DOMAIN o.content
                    /\ o.content.template.labels = mergedPodLabels(s)
                    /\ o.content.template.annotations = podAnnotations(s)
               /\ k \in Selecting =>
                    /\ "selector" \in DOMAIN o.content
                    /\ o.content.selector = runtimeSelectorLabels
<1> DEFINE o == Mutated(k, current)
           s == Specs[w.held.spec]
           b == build(k, s)
<1>1. Built[k][w.held.spec] = b
  BY BuiltObject DEF IsRuntime
<1>2. /\ o = [exists |-> TRUE, owner |-> w.held.uid, content |-> o.content]
      /\ o.content = b \/ (k = "Deployment"
                          /\ o.content = [b EXCEPT !.replicas
                                             = current.content.replicas])
  BY <1>1 DEF Mutated
<1>3. IsObject(o) /\ o.exists /\ o.owner \in Ours
  BY <1>2 DEF IsObject, IsRuntime
<1>4. CASE k = "ConfigMap"
  BY <1>2, <1>3, <1>4 DEF build, buildConfigMap, Selecting
<1>5. CASE k = "Deployment"
  <2>1. b = buildDeployment(s)
    BY <1>5 DEF build
  <2>2. /\ "template" \in DOMAIN b
        /\ b.template.labels = mergedPodLabels(s)
        /\ b.template.annotations = podAnnotations(s)
    BY <2>1 DEF buildDeployment
  <2>3. "template" \in DOMAIN o.content /\ o.content.template = b.template
    BY <1>2, <2>2
  <2> QED
    BY <1>3, <1>5, <2>2, <2>3 DEF Selecting
<1>6. CASE k \in Selecting
  <2>1. o.content = b
    BY <1>2, <1>6 DEF Selecting
  <2>2. \/ b = buildService(s)
        \/ b = buildPodDisruptionBudget(s)
        \/ b = buildNetworkPolicy(s)
    BY <1>6 DEF build, Selecting
  <2>3. "selector" \in DOMAIN b /\ b.selector = runtimeSelectorLabels
    <3>1. CASE b = buildService(s)
      BY <3>1 DEF buildService
    <3>2. CASE b = buildPodDisruptionBudget(s)
      BY <3>2 DEF buildPodDisruptionBudget
    <3>3. CASE b = buildNetworkPolicy(s)
      BY <3>3 DEF buildNetworkPolicy
    <3> QED
      BY <2>2, <3>1, <3>2, <3>3
  <2> QED
    BY <1>3, <1>6, <2>1, <2>3 DEF Selecting
<1>7. CASE k \notin {"ConfigMap", "Deployment"} \cup Selecting
  BY <1>3, <1>7
<1> QED
  BY <1>4, <1>5, <1>6, <1>7

(* It fits, as soon as its data is rendered.                               *)
LEMMA MutatedFits ==
    ASSUME NEW k \in Kinds, IsRuntime(w.held), Wanted(k, Specs[w.held.spec]),
           NEW current, NEW data,
           k \in {"ConfigMap", "Deployment"} =>
              runtimeConfigData(Specs[w.held.spec]) \in data
    PROVE  Fits(k, Mutated(k, current), data)
BY MutatedObject, ReservedLabels, ReservedAnnotation DEF Fits, Selecting

(* More rendered data leaves a fitting object fitting.                     *)
LEMMA FitsGrows ==
    ASSUME NEW k, NEW o, NEW few, NEW many, few \subseteq many, Fits(k, o, few)
    PROVE  Fits(k, o, many)
BY DEF Fits

-----------------------------------------------------------------------------
(* Steps.                                                                  *)

(* Storing a fitting object of one kind.                                   *)
LEMMA StoreKeeps ==
    ASSUME ObjectInv, NEW k \in Kinds, NEW STATE o, IsObject(o),
           Store(k, o), UNCHANGED cobj, Fits(k, o, rendered')
    PROVE  ObjectInv' /\ rendered \subseteq rendered'
<1>1. rendered \subseteq rendered'
  BY DEF Store
<1>2. /\ obj' = [obj EXCEPT ![k] = o]
      /\ \/ lag' = lag /\ o = obj[k]
         \/ lag' = [lag EXCEPT ![k] = "ours"]
         \/ lag' = [lag EXCEPT ![k] = "some"]
  BY DEF Store
<1>3. \A j \in Kinds : obj'[j] = IF j = k THEN o ELSE obj[j]
  BY <1>2 DEF ObjectInv
<1>4. /\ DOMAIN obj' = Kinds /\ DOMAIN cobj' = Kinds /\ DOMAIN lag' = Kinds
      /\ obj' = [j \in Kinds |-> obj'[j]]
      /\ cobj' = [j \in Kinds |-> cobj'[j]]
      /\ lag' = [j \in Kinds |-> lag'[j]]
  BY <1>2 DEF ObjectInv
<1>5. ASSUME NEW j \in Kinds
      PROVE  /\ IsObject(obj'[j]) /\ IsObject(cobj'[j])
             /\ Fits(j, obj'[j], rendered') /\ Fits(j, cobj'[j], rendered')
  <2>1. IsObject(obj[j]) /\ IsObject(cobj[j])
    BY DEF ObjectInv
  <2>2. Fits(j, obj[j], rendered') /\ Fits(j, cobj[j], rendered')
    BY <1>1, FitsGrows DEF ObjectInv
  <2> QED
    BY <1>3, <2>1, <2>2
<1>6. ASSUME NEW j \in Kinds, lag'[j] = "none"
      PROVE  cobj'[j] = obj'[j]
  <2>1. lag[j] = "none" /\ (j = k => o = obj[j])
    BY <1>2, <1>6 DEF ObjectInv
  <2> QED
    BY <1>3, <2>1 DEF ObjectInv
<1>7. \A j \in Kinds : (IsObject(obj[j]))' /\ (IsObject(cobj[j]))'
  BY <1>5 DEF IsObject
<1>8. \A j \in Kinds :
         (Fits(j, obj[j], rendered))' /\ (Fits(j, cobj[j], rendered))'
  BY <1>5
<1> QED
  BY <1>1, <1>4, <1>6, <1>7, <1>8 DEF ObjectInv

(* Objects and caches left alone.                                          *)
LEMMA ObjectsStay ==
    ASSUME ObjectInv, UNCHANGED <<obj, cobj, lag, rendered>>
    PROVE  ObjectInv'
BY DEF ObjectInv

(* A worker that goes on, or is idle, while data is rendered.              *)
LEMMA WorkerStays ==
    ASSUME WorkerInv, rendered \subseteq rendered', UNCHANGED w \/ w' = Idle
    PROVE  WorkerInv'
BY DEF WorkerInv, Idle, IsRuntime

(* The Deployment's turn comes after the ConfigMap's.                      *)
LEMMA ConfigMapFirst ==
    ASSUME Turn("Deployment")
    PROVE  "ConfigMap" \in w.done
<1>1. "ConfigMap" \in Kinds
  BY ResourcesAssumption
<1>2. Order["Deployment"] = 4 /\ Order["ConfigMap"] = 1
  BY DEF Order
<1> QED
  BY <1>1, <1>2 DEF Turn

(* The worker reconciles one kind.                                         *)
LEMMA ReconcileKeeps ==
    ASSUME ObjectInv, WorkerInv, NEW k \in Kinds, Reconcile(k)
    PROVE  ObjectInv' /\ WorkerInv'
<1> DEFINE s == Specs[w.held.spec]
           m == Mutated(k, cobj[k])
<1>1. w.active /\ IsRuntime(w.held) /\ UNCHANGED cobj
  BY DEF Reconcile, Turn, WorkerInv
<1>2. ASSUME rendered \subseteq rendered', Succeed(k),
             k = "ConfigMap" => runtimeConfigData(s) \in rendered'
      PROVE  WorkerInv'
  <2>1. w' = [w EXCEPT !.done = w.done \cup {k}]
    BY <1>2 DEF Succeed
  <2>2. /\ w'.held = w.held
        /\ "ConfigMap" \in w'.done => "ConfigMap" \in w.done \/ k = "ConfigMap"
    BY <2>1
  <2>3. "ConfigMap" \in w'.done => runtimeConfigData(s) \in rendered'
    BY <1>1, <1>2, <2>2 DEF WorkerInv
  <2> QED
    BY <1>1, <2>2, <2>3 DEF WorkerInv, IsRuntime
<1>3. CASE ~Wanted(k, s)
  <2>1. Store(k, NoObject) /\ Succeed(k)
    BY <1>3 DEF Reconcile, DeleteUnwanted
  <2>2. IsObject(NoObject) /\ Fits(k, NoObject, rendered')
    BY DEF IsObject, NoObject, Fits, Ours, Nobody
  <2>3. ObjectInv' /\ rendered \subseteq rendered'
    BY <1>1, <2>1, <2>2, StoreKeeps
  <2>4. k # "ConfigMap"
    BY <1>3 DEF Wanted
  <2> QED
    BY <1>2, <2>1, <2>3, <2>4
<1>4. CASE Wanted(k, s) /\ Fail
  BY <1>1, <1>4, ObjectsStay, WorkerStays DEF Fail, Untouched
<1>5. CASE Wanted(k, s) /\ m = cobj[k] /\ Untouched /\ Succeed(k)
  <2>1. ObjectInv'
    BY <1>1, <1>5, ObjectsStay DEF Untouched
  <2>2. ASSUME k = "ConfigMap"
        PROVE  runtimeConfigData(s) \in rendered
    <3>1. m.owner \in Ours /\ m.content.data = runtimeConfigData(s)
      BY <1>1, <1>5, <2>2, MutatedObject
    <3>2. Fits(k, m, rendered)
      BY <1>5 DEF ObjectInv
    <3> QED
      BY <2>2, <3>1, <3>2 DEF Fits
  <2>3. rendered' = rendered
    BY <1>5 DEF Untouched
  <2> QED
    BY <1>2, <1>5, <2>1, <2>2, <2>3
<1>6. CASE Wanted(k, s) /\ Store(k, m) /\ Succeed(k)
  <2>1. IsObject(m) /\ m.owner \in Ours
    BY <1>1, <1>6, MutatedObject
  <2>2. ASSUME k = "ConfigMap"
        PROVE  runtimeConfigData(s) \in rendered'
    <3>1. m.content.data = runtimeConfigData(s)
      BY <1>1, <1>6, <2>2, MutatedObject
    <3> QED
      BY <1>6, <2>1, <2>2, <3>1 DEF Store
  <2>3. ASSUME k = "Deployment"
        PROVE  runtimeConfigData(s) \in rendered'
    <3>1. "ConfigMap" \in w.done
      BY <2>3, ConfigMapFirst DEF Reconcile
    <3>2. runtimeConfigData(s) \in rendered
      BY <1>1, <3>1 DEF WorkerInv
    <3> QED
      BY <1>6, <3>2 DEF Store
  <2>4. Fits(k, m, rendered')
    BY <1>1, <1>6, <2>2, <2>3, MutatedFits
  <2>5. ObjectInv' /\ rendered \subseteq rendered'
    BY <1>1, <1>6, <2>1, <2>4, StoreKeeps
  <2> QED
    BY <1>2, <1>6, <2>2, <2>5
<1>7. Wanted(k, s) => CreateOrUpdate(k)
  BY DEF Reconcile
<1> QED
  BY <1>3, <1>4, <1>5, <1>6, <1>7 DEF CreateOrUpdate

(* Somebody else's write keeps the invariant when what it leaves fits.     *)
LEMMA DisturbanceKeeps ==
    ASSUME ObjectInv, WorkerInv, NEW k \in Kinds,
           Collect(k) \/ Drift(k) \/ Orphan(k) \/ Remove(k) \/ Occupy(k)
    PROVE  ObjectInv' /\ WorkerInv'
<1> DEFINE stores(o) == Store(k, o) /\ UNCHANGED <<cobj, w>>
<1> HIDE DEF stores
<1>1. ASSUME NEW STATE o, stores(o), IsObject(o), Fits(k, o, rendered')
      PROVE  ObjectInv' /\ WorkerInv'
  BY <1>1, StoreKeeps, WorkerStays DEF stores
<1>2. /\ IsObject(obj[k])
      /\ Fits(k, obj[k], rendered)
  BY DEF ObjectInv
<1>3. CASE Collect(k) \/ Remove(k)
  <2>1. IsObject(NoObject) /\ Fits(k, NoObject, rendered')
    BY DEF IsObject, NoObject, Fits, Ours, Nobody
  <2> QED
    BY <1>1, <1>3, <2>1 DEF Collect, Remove, stores
<1>4. CASE Drift(k)
  <2> DEFINE label == [managedBy |-> "somebody"]
             o == [obj[k] EXCEPT !.content.labels = label]
  <2>1. stores(o) /\ obj[k].exists
    BY <1>4 DEF Drift, stores
  <2>2. o = [exists |-> obj[k].exists, owner |-> obj[k].owner,
             content |-> [obj[k].content EXCEPT !.labels = label]]
    BY <1>2 DEF IsObject
  <2>3. IsObject(o)
    BY <2>1, <2>2 DEF IsObject
  <2>4. Fits(k, o, rendered)
    BY <1>2, <2>2 DEF Fits, Selecting
  <2>5. Fits(k, o, rendered')
    <3>1. rendered \subseteq rendered'
      BY <2>1 DEF stores, Store
    <3> QED
      BY <2>4, <3>1, FitsGrows
  <2> QED
    BY <1>1, <2>1, <2>3, <2>5
<1>5. CASE Orphan(k)
  <2> DEFINE o == [obj[k] EXCEPT !.owner = Nobody]
  <2>1. stores(o)
    BY <1>5 DEF Orphan, stores
  <2>2. o.owner = Nobody /\ IsObject(o)
    BY <1>2 DEF IsObject
  <2>3. Fits(k, o, rendered')
    BY <2>2 DEF Fits, Ours, Nobody
  <2> QED
    BY <1>1, <2>1, <2>2, <2>3
<1>6. CASE Occupy(k)
  <2> DEFINE o == [exists |-> TRUE, owner |-> Other,
                   content |-> [labels |-> [managedBy |-> "somebody"]]]
  <2>1. stores(o)
    BY <1>6 DEF Occupy, stores
  <2>2. o.owner = Other /\ IsObject(o)
    BY DEF IsObject
  <2>3. Fits(k, o, rendered')
    BY <2>2 DEF Fits, Ours, Other
  <2> QED
    BY <1>1, <2>1, <2>2, <2>3
<1> QED
  BY <1>3, <1>4, <1>5, <1>6

(* An informer delivers, or a restart lists everything.                    *)
LEMMA DeliveryKeeps ==
    ASSUME ObjectInv, (\E k \in Kinds : Sync(k)) \/ Restart
    PROVE  ObjectInv'
<1>1. CASE Restart
  BY <1>1 DEF ObjectInv, Restart
<1>2. ASSUME NEW k \in Kinds, Sync(k)
      PROVE  ObjectInv'
  <2>1. /\ cobj' = [cobj EXCEPT ![k] = obj[k]]
        /\ lag' = [lag EXCEPT ![k] = "none"]
        /\ UNCHANGED <<obj, rendered>>
    BY <1>2 DEF Sync
  <2>2. /\ cobj' = [j \in Kinds |-> IF j = k THEN obj[j] ELSE cobj[j]]
        /\ lag' = [j \in Kinds |-> IF j = k THEN "none" ELSE lag[j]]
    BY <2>1 DEF ObjectInv
  <2> QED
    BY <2>1, <2>2 DEF ObjectInv
<1> QED
  BY <1>1, <1>2

(* Nothing is stored or cached at first.                                   *)
LEMMA ResourceInvInit == Init => ResourceInv
<1> SUFFICES ASSUME Init
             PROVE  ResourceInv
  OBVIOUS
<1>1. ObjectInv
  <2>1. IsObject(NoObject) /\ \A k \in Kinds : Fits(k, NoObject, rendered)
    BY DEF IsObject, NoObject, Fits, Ours, Nobody
  <2>2. /\ obj = [k \in Kinds |-> NoObject]
        /\ cobj = [k \in Kinds |-> NoObject]
        /\ lag = [k \in Kinds |-> "none"]
    BY DEF Init
  <2> QED
    BY <2>1, <2>2 DEF ObjectInv
<1>2. WorkerInv /\ w = [active |-> w.active, held |-> w.held, done |-> w.done]
  BY DEF Init, WorkerInv, Idle
<1>3. /\ changes \in 0..MaxChanges
      /\ IsRuntime(rt) /\ rt.uid <= changes + 1
      /\ rt = [live |-> rt.live, uid |-> rt.uid, spec |-> rt.spec]
      /\ ~crt.live
  BY ResourcesAssumption DEF Init, IsRuntime, Ours, NoRuntime
<1> QED
  BY <1>1, <1>2, <1>3 DEF ResourceInv

(* One step per action; only Store and the informers touch objects.        *)
LEMMA ResourceInvStep == ResourceInv /\ [Next]_vars => ResourceInv'
<1> SUFFICES ASSUME ResourceInv, [Next]_vars
             PROVE  ResourceInv'
  OBVIOUS
<1> DEFINE RuntimeInv ==
             /\ changes \in 0..MaxChanges
             /\ IsRuntime(rt) /\ rt.uid <= changes + 1
             /\ rt = [live |-> rt.live, uid |-> rt.uid, spec |-> rt.spec]
             /\ crt.live => IsRuntime(crt)
           WorkerShape == w = [active |-> w.active, held |-> w.held, done |-> w.done]
<1>1. RuntimeInv /\ WorkerInv /\ WorkerShape /\ ObjectInv
  BY DEF ResourceInv
<1>2. CASE EditRuntime \/ DeleteRuntime \/ RecreateRuntime
  <2>1. RuntimeInv'
    BY <1>1, <1>2, ResourcesAssumption
       DEF EditRuntime, DeleteRuntime, RecreateRuntime, Change, IsRuntime, Ours
  <2>2. UNCHANGED <<obj, cobj, lag, w, rendered>>
    BY <1>2 DEF EditRuntime, DeleteRuntime, RecreateRuntime
  <2>3. ObjectInv' /\ WorkerInv' /\ WorkerShape'
    BY <1>1, <2>2, ObjectsStay, WorkerStays
  <2> QED
    BY <2>1, <2>3 DEF ResourceInv
<1>3. CASE SyncRuntime
  <2>1. RuntimeInv'
    BY <1>1, <1>3 DEF SyncRuntime, IsRuntime
  <2>2. UNCHANGED <<obj, cobj, lag, w, rendered>>
    BY <1>3 DEF SyncRuntime
  <2>3. ObjectInv' /\ WorkerInv' /\ WorkerShape'
    BY <1>1, <2>2, ObjectsStay, WorkerStays
  <2> QED
    BY <2>1, <2>3 DEF ResourceInv
<1>4. CASE Begin
  <2>1. UNCHANGED <<rt, crt, changes, obj, cobj, lag, rendered>>
    BY <1>4 DEF Begin
  <2>2. RuntimeInv' /\ ObjectInv'
    BY <1>1, <2>1, ObjectsStay DEF IsRuntime
  <2>3. \/ crt.live /\ w' = [active |-> TRUE, held |-> crt, done |-> {}]
        \/ UNCHANGED w
    BY <1>4 DEF Begin
  <2>4. WorkerInv' /\ WorkerShape'
    BY <1>1, <2>1, <2>3 DEF WorkerInv, IsRuntime
  <2> QED
    BY <2>2, <2>4 DEF ResourceInv
<1>5. ASSUME NEW k \in Kinds, Reconcile(k)
      PROVE  ResourceInv'
  <2>1. UNCHANGED <<rt, crt, changes>>
    BY <1>5 DEF Reconcile
  <2>2. RuntimeInv'
    BY <1>1, <2>1 DEF IsRuntime
  <2>3. ObjectInv' /\ WorkerInv'
    BY <1>1, <1>5, ReconcileKeeps
  <2>4. Succeed(k) \/ Fail
    BY <1>5 DEF Reconcile, CreateOrUpdate, DeleteUnwanted
  <2>5. WorkerShape'
    BY <1>1, <2>4 DEF Succeed, Fail, Idle
  <2> QED
    BY <2>2, <2>3, <2>5 DEF ResourceInv
<1>6. CASE Finish
  <2>1. UNCHANGED <<rt, crt, changes, obj, cobj, lag, rendered>> /\ w' = Idle
    BY <1>6 DEF Finish
  <2>2. RuntimeInv' /\ ObjectInv' /\ WorkerInv' /\ WorkerShape'
    BY <1>1, <2>1, ObjectsStay, WorkerStays DEF Idle, IsRuntime
  <2> QED
    BY <2>2 DEF ResourceInv
<1>7. ASSUME NEW k \in Kinds,
             Collect(k) \/ Drift(k) \/ Orphan(k) \/ Remove(k) \/ Occupy(k)
      PROVE  ResourceInv'
  <2>1. UNCHANGED <<rt, crt, changes, w>>
    BY <1>7 DEF Collect, Drift, Orphan, Remove, Occupy
  <2>2. RuntimeInv' /\ WorkerShape'
    BY <1>1, <2>1 DEF IsRuntime
  <2>3. ObjectInv' /\ WorkerInv'
    BY <1>1, <1>7, DisturbanceKeeps
  <2> QED
    BY <2>2, <2>3 DEF ResourceInv
<1>8. CASE (\E k \in Kinds : Sync(k)) \/ Restart
  <2>1. /\ UNCHANGED <<rt, changes, rendered>>
        /\ crt' = crt \/ crt' = rt
        /\ w' = w \/ w' = Idle
    BY <1>8 DEF Sync, Restart
  <2>2. RuntimeInv' /\ WorkerInv' /\ WorkerShape'
    BY <1>1, <2>1, WorkerStays DEF Idle, IsRuntime
  <2>3. ObjectInv'
    BY <1>1, <1>8, DeliveryKeeps
  <2> QED
    BY <2>2, <2>3 DEF ResourceInv
<1>9. CASE (\E k \in Kinds : RequestFails(k)) \/ UNCHANGED vars
  <2>1. /\ UNCHANGED <<rt, crt, changes, obj, cobj, lag, rendered>>
        /\ w' = w \/ w' = Idle
    BY <1>9 DEF RequestFails, Fail, Untouched, vars
  <2>2. RuntimeInv' /\ ObjectInv' /\ WorkerInv' /\ WorkerShape'
    BY <1>1, <2>1, ObjectsStay, WorkerStays DEF Idle, IsRuntime
  <2> QED
    BY <2>2 DEF ResourceInv
<1> QED
  BY <1>2, <1>3, <1>4, <1>5, <1>6, <1>7, <1>8, <1>9
     DEF Next, Informers, Worker, Cluster, Mischief

(* The strengthening of the invariants below holds in every behaviour.     *)
THEOREM ResourceInvTheorem == Spec => []ResourceInv
BY ResourceInvInit, ResourceInvStep, PTL DEF Spec

(* The checksum a managed Deployment carries was rendered before: the      *)
(* worker reaches the Deployment after the ConfigMap, and no annotation of *)
(* the user hides the checksum.                                            *)
THEOREM ChecksumTheorem == Spec => []ChecksumNamesRenderedData
<1>1. ResourceInv => ChecksumNamesRenderedData
  BY ResourcesAssumption
     DEF ResourceInv, ObjectInv, Fits, ChecksumNamesRenderedData
<1> QED
  BY <1>1, ResourceInvTheorem, PTL

(* Whatever spec each object was built from, the selectors pick the Pods.  *)
THEOREM SelectionTheorem == Spec => []PodsAreSelected
<1>1. ResourceInv => PodsAreSelected
  BY ResourcesAssumption
     DEF ResourceInv, ObjectInv, Fits, PodsAreSelected, Selecting
<1> QED
  BY <1>1, ResourceInvTheorem, PTL

(* However stale the worker's cache is, what another controller controls   *)
(* stays as it is, but for the deletion of an optional kind by name.       *)
THEOREM ForeignTheorem == Spec => ForeignObjectsAreKept
<1> DEFINE Kept(k) == Reconcile(k) /\ obj[k].owner = Other
                        /\ Wanted(k, Specs[w.held.spec]) => UNCHANGED obj
<1>1. ASSUME ResourceInv, NEW k \in Kinds, Reconcile(k), obj[k].owner = Other,
             Wanted(k, Specs[w.held.spec])
      PROVE  UNCHANGED obj
  <2> DEFINE m == Mutated(k, cobj[k])
  <2>1. obj[k].exists /\ (lag[k] = "none" => cobj[k].owner = Other)
    BY <1>1 DEF ResourceInv, ObjectInv, IsObject, Other, Nobody
  <2>2. CreateOrUpdate(k)
    BY <1>1 DEF Reconcile
  <2>3. m # cobj[k] =>
          IF cobj[k].exists
          THEN \/ cobj[k].owner = Other
               \/ lag[k] # "none" /\ (m # cobj[k] \/ AlwaysSent(k))
          ELSE obj[k].exists
    BY <2>1
  <2>4. Fail \/ Untouched
    BY <2>2, <2>3 DEF CreateOrUpdate
  <2> QED
    BY <2>4 DEF Fail, Untouched
<1>2. ResourceInv /\ [Next]_vars => [\A k \in Kinds : Kept(k)]_vars
  BY <1>1
<1> QED
  BY <1>2, ResourceInvTheorem, PTL DEF Spec, ForeignObjectsAreKept

-----------------------------------------------------------------------------
(* TypeOK.                                                                 *)

IsStored(o) ==
    /\ o.owner \in {Nobody, Other} \cup Ours
    /\ o.exists <=> o # NoObject

(* Storing an object keeps the types of the objects and of the lags.       *)
LEMMA StoreType ==
    ASSUME TypeOK, NEW k \in Kinds, NEW STATE o, IsStored(o), Store(k, o)
    PROVE  /\ DOMAIN obj' = Kinds
           /\ \A j \in Kinds : IsStored(obj'[j])
           /\ lag' \in [Kinds -> {"none", "some", "ours"}]
<1>1. /\ obj' = [obj EXCEPT ![k] = o]
      /\ \/ lag' = lag
         \/ lag' = [lag EXCEPT ![k] = "ours"]
         \/ lag' = [lag EXCEPT ![k] = "some"]
  BY DEF Store
<1>2. DOMAIN obj' = Kinds /\ lag' \in [Kinds -> {"none", "some", "ours"}]
  BY <1>1 DEF TypeOK
<1>3. \A j \in Kinds : obj'[j] = IF j = k THEN o ELSE obj[j]
  BY <1>1 DEF TypeOK
<1>4. \A j \in Kinds : IsStored(obj[j])
  BY DEF TypeOK, IsStored
<1> QED
  BY <1>2, <1>3, <1>4

(* What the worker, the garbage collector and the others store.            *)
LEMMA StoredObjects ==
    /\ IsStored(NoObject)
    /\ \A x : IsStored([exists |-> TRUE, owner |-> Other, content |-> x])
    /\ \A o : o.exists /\ o.owner \in {Nobody, Other} \cup Ours => IsStored(o)
  BY DEF IsStored, NoObject

(* A step in which somebody stores one object.                             *)
LEMMA StoringType ==
    ASSUME ResourceInv, TypeOK, NEW k \in Kinds,
           \/ Reconcile(k) \/ Collect(k) \/ Drift(k) \/ Orphan(k) \/ Remove(k)
           \/ Occupy(k)
    PROVE  /\ DOMAIN obj' = Kinds
           /\ \A j \in Kinds : IsStored(obj'[j])
           /\ lag' \in [Kinds -> {"none", "some", "ours"}]
<1>1. ASSUME NEW STATE o, IsStored(o), Store(k, o)
      PROVE  /\ DOMAIN obj' = Kinds
             /\ \A j \in Kinds : IsStored(obj'[j])
             /\ lag' \in [Kinds -> {"none", "some", "ours"}]
  BY <1>1, StoreType
<1>2. CASE Untouched
  BY <1>2 DEF Untouched, TypeOK, IsStored
<1>3. IsObject(obj[k]) /\ IsStored(obj[k])
  BY DEF ResourceInv, ObjectInv, TypeOK, IsStored
<1>4. CASE Reconcile(k) /\ ~Untouched
  <2>1. w.active /\ IsRuntime(w.held)
    BY <1>4 DEF Reconcile, Turn, ResourceInv, WorkerInv
  <2>2. CASE Wanted(k, Specs[w.held.spec])
    <3> DEFINE m == Mutated(k, cobj[k])
    <3>1. Store(k, m)
      BY <1>4, <2>2 DEF Reconcile, CreateOrUpdate, Fail
    <3>2. IsStored(m)
      BY <2>1, <2>2, MutatedObject, StoredObjects
    <3> HIDE DEF m
    <3> QED
      BY <1>1, <3>1, <3>2
  <2>3. CASE ~Wanted(k, Specs[w.held.spec])
    BY <1>1, <1>4, <2>3, StoredObjects DEF Reconcile, DeleteUnwanted
  <2> QED
    BY <2>2, <2>3
<1>5. CASE Collect(k) \/ Remove(k)
  BY <1>1, <1>5, StoredObjects DEF Collect, Remove
<1>6. CASE Drift(k)
  <2> DEFINE label == [managedBy |-> "somebody"]
             o == [obj[k] EXCEPT !.content.labels = label]
  <2>1. o.exists /\ o.owner = obj[k].owner /\ Store(k, o)
    BY <1>3, <1>6 DEF Drift, IsObject
  <2>2. IsStored(o)
    BY <1>3, <2>1, StoredObjects DEF IsStored
  <2> HIDE DEF o
  <2> QED
    BY <1>1, <2>1, <2>2
<1>7. CASE Orphan(k)
  <2> DEFINE o == [obj[k] EXCEPT !.owner = Nobody]
  <2>1. o.exists /\ o.owner = Nobody /\ Store(k, o)
    BY <1>3, <1>7 DEF Orphan, IsObject
  <2> HIDE DEF o
  <2>2. IsStored(o)
    BY <2>1, StoredObjects
  <2> QED
    BY <1>1, <2>1, <2>2
<1>8. CASE Occupy(k)
  <2> DEFINE o == [exists |-> TRUE, owner |-> Other,
                   content |-> [labels |-> [managedBy |-> "somebody"]]]
  <2>1. Store(k, o) /\ IsStored(o)
    BY <1>8, StoredObjects DEF Occupy
  <2> HIDE DEF o
  <2> QED
    BY <1>1, <2>1
<1> QED
  BY <1>2, <1>4, <1>5, <1>6, <1>7, <1>8

(* The runtimes the operator knows of are runtimes.                        *)
LEMMA RuntimeType ==
    ASSUME ResourceInv, TypeOK, [Next]_vars
    PROVE  rt' \in Runtimes /\ crt' \in Runtimes /\ w'.held \in Runtimes
<1>1. /\ rt \in Runtimes /\ crt \in Runtimes /\ w.held \in Runtimes
      /\ w = [active |-> w.active, held |-> w.held, done |-> w.done]
  BY DEF TypeOK, ResourceInv
<1>2. NoRuntime \in Runtimes /\ Idle.held = NoRuntime
  BY DEF NoRuntime, Runtimes, Idle
<1>3. CASE EditRuntime \/ DeleteRuntime \/ RecreateRuntime
  <2>1. IsRuntime(rt') /\ rt'.live \in BOOLEAN
    <3>1. ResourceInv'
      BY <1>3, ResourceInvStep DEF Next
    <3>2. rt.live \in BOOLEAN
      BY <1>1 DEF Runtimes
    <3>3. rt'.live = rt.live \/ rt'.live = FALSE \/ rt'.live = TRUE
      BY <1>1, <1>3
      DEF EditRuntime, DeleteRuntime, RecreateRuntime, Runtimes
    <3>4. rt'.live \in BOOLEAN
      BY <3>2, <3>3
    <3> QED
      BY <3>1, <3>4 DEF ResourceInv, IsRuntime
  <2>2. rt' = [live |-> rt'.live, uid |-> rt'.uid, spec |-> rt'.spec]
    BY <1>1, <1>3
    DEF EditRuntime, DeleteRuntime, RecreateRuntime, Runtimes
  <2>3. UNCHANGED <<crt, w>>
    BY <1>3 DEF EditRuntime, DeleteRuntime, RecreateRuntime
  <2> QED
    BY <1>1, <2>1, <2>2, <2>3 DEF Runtimes, IsRuntime
<1>4. CASE ~(EditRuntime \/ DeleteRuntime \/ RecreateRuntime)
  <2>1. rt' = rt /\ crt' \in {crt, rt}
    BY <1>4
    DEF Next, Informers, Worker, Cluster, Mischief, SyncRuntime, Sync, Begin,
        Reconcile, Finish, Collect, Drift, Orphan, Remove, Occupy, Restart,
        RequestFails, vars
  <2>2. \/ w' = w \/ w' = Idle
        \/ w' = [active |-> TRUE, held |-> crt, done |-> {}]
        \/ \E k \in Kinds : Succeed(k)
    BY <1>4
    DEF Next, Informers, Worker, Cluster, Mischief, SyncRuntime, Sync, Begin,
        Reconcile, CreateOrUpdate, DeleteUnwanted, Fail, Finish, Collect,
        Drift, Orphan, Remove, Occupy, Restart, RequestFails, vars
  <2>3. (\E k \in Kinds : Succeed(k)) => w'.held = w.held
    BY <1>1 DEF Succeed
  <2> QED
    BY <1>1, <1>2, <2>1, <2>2, <2>3
<1> QED
  BY <1>3, <1>4

(* Every step keeps the types.                                             *)
LEMMA TypeOKStep == ResourceInv /\ TypeOK /\ [Next]_vars => TypeOK'
<1> SUFFICES ASSUME ResourceInv, TypeOK, [Next]_vars
             PROVE  TypeOK'
  OBVIOUS
<1>1. rt' \in Runtimes /\ crt' \in Runtimes /\ w'.held \in Runtimes
  BY RuntimeType
<1>2. ResourceInv'
  BY ResourceInvStep
<1>3. DOMAIN obj' = Kinds /\ DOMAIN cobj' = Kinds
  BY <1>2 DEF ResourceInv, ObjectInv
<1>4. /\ \A k \in Kinds : IsStored(obj'[k])
      /\ lag' \in [Kinds -> {"none", "some", "ours"}]
  <2>1. CASE \E k \in Kinds : \/ Reconcile(k) \/ Collect(k) \/ Drift(k)
                              \/ Orphan(k) \/ Remove(k) \/ Occupy(k)
    BY <2>1, StoringType
  <2>2. CASE UNCHANGED obj /\ lag' \in [Kinds -> {"none", "some", "ours"}]
    BY <2>2 DEF TypeOK, IsStored
  <2>3. CASE UNCHANGED <<obj, lag>>
    BY <2>3 DEF TypeOK, IsStored
  <2>4. ASSUME NEW k \in Kinds, Sync(k) \/ RequestFails(k)
        PROVE  UNCHANGED obj /\ lag' \in [Kinds -> {"none", "some", "ours"}]
    BY <2>4 DEF Sync, RequestFails, Fail, Untouched, TypeOK
  <2>5. Restart => UNCHANGED obj /\ lag' \in [Kinds -> {"none", "some", "ours"}]
    BY DEF Restart
  <2>6. ASSUME \/ EditRuntime \/ DeleteRuntime \/ RecreateRuntime
               \/ SyncRuntime \/ Begin \/ Finish \/ UNCHANGED vars
        PROVE  UNCHANGED <<obj, lag>>
    BY <2>6 DEF EditRuntime, DeleteRuntime, RecreateRuntime, SyncRuntime, Begin,
           Finish, vars
  <2>7. \/ \E k \in Kinds : \/ Reconcile(k) \/ Collect(k) \/ Drift(k)
                           \/ Orphan(k) \/ Remove(k) \/ Occupy(k)
        \/ \E k \in Kinds : Sync(k) \/ RequestFails(k)
        \/ Restart
        \/ EditRuntime \/ DeleteRuntime \/ RecreateRuntime \/ SyncRuntime
        \/ Begin \/ Finish \/ UNCHANGED vars
    BY DEF Next, Informers, Worker, Cluster, Mischief
  <2> QED
    BY <2>1, <2>2, <2>3, <2>4, <2>5, <2>6, <2>7
<1>5. queued' \in BOOLEAN
  <2>1. queued \in BOOLEAN /\ rt.live \in BOOLEAN
    BY DEF TypeOK, Runtimes
  <2>2. ASSUME NEW k \in Kinds, Reconcile(k)
        PROVE  queued' = queued \/ queued' = TRUE
    BY <2>2 DEF Reconcile, CreateOrUpdate, DeleteUnwanted, Succeed, Fail
  <2>3. ASSUME NEW k \in Kinds, Sync(k)
        PROVE  queued' \in BOOLEAN
    BY <2>3 DEF Sync
  <2>4. ASSUME NEW k \in Kinds,
               \/ Collect(k) \/ Drift(k) \/ Orphan(k) \/ Remove(k)
               \/ Occupy(k) \/ RequestFails(k)
        PROVE  queued' = queued \/ queued' = TRUE
    BY <2>4 DEF Collect, Drift, Orphan, Remove, Occupy, RequestFails, Fail
  <2>5. ASSUME \/ EditRuntime \/ DeleteRuntime \/ RecreateRuntime
               \/ SyncRuntime \/ Begin \/ Finish \/ Restart
               \/ UNCHANGED vars
        PROVE  \/ queued' = queued \/ queued' = TRUE \/ queued' = FALSE
               \/ queued' = rt.live
    BY <2>5 DEF EditRuntime, DeleteRuntime, RecreateRuntime, SyncRuntime, Begin,
           Finish, Restart, vars
  <2>6. \/ queued' = queued \/ queued' = TRUE \/ queued' = FALSE
        \/ queued' = rt.live \/ queued' \in BOOLEAN
    BY <2>2, <2>3, <2>4, <2>5 DEF Next, Informers, Worker, Cluster, Mischief
  <2> QED
    BY <2>1, <2>6
<1>6. w'.active \in BOOLEAN /\ w'.done \subseteq Kinds
  <2>1. /\ w.active \in BOOLEAN /\ w.done \subseteq Kinds
        /\ w = [active |-> w.active, held |-> w.held, done |-> w.done]
    BY DEF TypeOK, ResourceInv
  <2>2. \/ w' = w \/ w' = Idle
        \/ w' = [active |-> TRUE, held |-> crt, done |-> {}]
        \/ \E k \in Kinds : Succeed(k)
    BY DEF Next, Informers, Worker, Cluster, Mischief, SyncRuntime, Sync,
           Begin, Reconcile, CreateOrUpdate, DeleteUnwanted, Fail, Finish,
           Collect, Drift, Orphan, Remove, Occupy, Restart, RequestFails,
           EditRuntime, DeleteRuntime, RecreateRuntime, vars
  <2>3. (\E k \in Kinds : Succeed(k))
          => w'.active = w.active /\ w'.done \subseteq Kinds
    BY <2>1 DEF Succeed
  <2>4. Idle.active = FALSE /\ Idle.done = {}
    BY DEF Idle
  <2>5. \/ w'.active = w.active \/ w'.active = FALSE
        \/ w'.active = TRUE
    BY <2>2, <2>3, <2>4
  <2>6. w'.done \subseteq Kinds
    BY <2>1, <2>2, <2>3, <2>4
  <2> QED
    BY <2>1, <2>5, <2>6
<1> QED
  BY <1>1, <1>3, <1>4, <1>5, <1>6 DEF TypeOK, IsStored, Runtimes

(* Whatever the operator, users and other writers do, objects are objects, *)
(* owners are owners, and a kind without an object is empty.               *)
THEOREM TypeCorrect == Spec => []TypeOK
<1>1. Init => TypeOK
  <2> SUFFICES ASSUME Init PROVE TypeOK
    OBVIOUS
  <2>1. rt \in Runtimes
    BY ResourcesAssumption DEF Init, Runtimes, Ours
  <2>2. crt \in Runtimes /\ w.held \in Runtimes
    BY DEF Init, Idle, NoRuntime, Runtimes
  <2>3. \A k \in Kinds : obj[k] = NoObject
    BY DEF Init
  <2>4. NoObject.owner = Nobody /\ NoObject.exists = FALSE
    BY DEF NoObject
  <2> QED
    BY <2>1, <2>2, <2>3, <2>4 DEF Init, TypeOK, Idle
<1> QED
  BY <1>1, TypeOKStep, ResourceInvTheorem, PTL DEF Spec

-----------------------------------------------------------------------------
(* RestMeansConverged.                                                     *)

(* Somebody still owes the kind a visit, or there is nothing to do: the    *)
(* key is queued, an event that will queue it is on its way, the worker    *)
(* has yet to come to the kind, or the object is what the runtime in the   *)
(* cache asks for.                                                         *)
Settled(k) ==
    \/ queued \/ lag[k] = "ours" \/ (w.active /\ k \notin w.done)
    \/ crt.live => Converged(k, obj[k], crt)

(* Versions nobody hears of are never the runtime's own.                   *)
Unheard(k) ==
    lag[k] = "some" => obj[k].owner \notin Ours /\ cobj[k].owner \notin Ours

(* The runtime the worker holds is the cached one, or the key is queued.   *)
HeldInv == w.active => w.held.live /\ (queued \/ w.held = crt)

RestInv == HeldInv /\ \A k \in Kinds : Unheard(k) /\ Settled(k)

(* What a mutate function leaves is what the held runtime asks for.        *)
LEMMA MutatedConverged ==
    ASSUME NEW k \in Kinds, IsRuntime(w.held), w.held.live,
           Wanted(k, Specs[w.held.spec]), NEW current
    PROVE  Converged(k, Mutated(k, current), w.held)
<1> DEFINE o == Mutated(k, current)
           b == Built[k][w.held.spec]
           scaled == k = "Deployment" /\ autoscalingEnabled(Specs[w.held.spec])
<1>1. /\ o.owner = w.held.uid
      /\ o.content = b
         \/ (scaled /\ o.content = [b EXCEPT !.replicas = current.content.replicas])
  BY DEF Mutated
<1>2. scaled => "replicas" \in DOMAIN b
  <2>1. b = build(k, Specs[w.held.spec])
    BY BuiltObject DEF IsRuntime
  <2> QED
    BY <2>1 DEF build, buildDeployment
<1>3. scaled => o.content = [b EXCEPT !.replicas = o.content.replicas]
  <2>1. ASSUME scaled, o.content = b
        PROVE  o.content = [b EXCEPT !.replicas = o.content.replicas]
    <3>1. b = build(k, Specs[w.held.spec])
      BY BuiltObject DEF IsRuntime
    <3> QED
      BY <2>1, <3>1 DEF build, buildDeployment
  <2>2. ASSUME scaled, NEW x, o.content = [b EXCEPT !.replicas = x]
        PROVE  o.content = [b EXCEPT !.replicas = o.content.replicas]
    BY <1>2, <2>2
  <2> QED
    BY <1>1, <2>1, <2>2
<1>4. o.content = Requested(k, w.held.spec, o.content)
  BY <1>1, <1>3 DEF Requested
<1> QED
  BY <1>1, <1>4 DEF Converged

(* An object that the cached runtime does not control is converged only    *)
(* when it is not wanted, and then so is every other such object.          *)
LEMMA ForeignConverged ==
    ASSUME NEW k \in Kinds, IsRuntime(crt), crt.live, NEW o, NEW p,
           o.owner \notin Ours, p.owner \notin Ours, Converged(k, o, crt)
    PROVE  Converged(k, p, crt)
BY DEF Converged, IsRuntime

(* What a Store leaves of the kind's lag.                                  *)
LEMMA StoreLag ==
    ASSUME ObjectInv, NEW k \in Kinds, NEW STATE o, Store(k, o)
    PROVE  /\ \A j \in Kinds : obj'[j] = IF j = k THEN o ELSE obj[j]
           /\ \A j \in Kinds \ {k} : lag'[j] = lag[j]
           /\ \/ o = obj[k] /\ lag'[k] = lag[k]
              \/ lag'[k] = "ours"
              \/ /\ o.owner \notin Ours /\ obj[k].owner \notin Ours
                 /\ lag[k] # "ours"
                 /\ lag'[k] = "some"
<1>1. obj' = [obj EXCEPT ![k] = o]
  BY DEF Store
<1>2. \/ o = obj[k] /\ lag' = lag
      \/ lag' = [lag EXCEPT ![k] = "ours"]
      \/ /\ o.owner \notin Ours /\ obj[k].owner \notin Ours
         /\ lag[k] # "ours"
         /\ lag' = [lag EXCEPT ![k] = "some"]
  BY DEF Store
<1> QED
  BY <1>1, <1>2 DEF ObjectInv

(* Somebody else's write: the runtime's controller hears of it, or it is   *)
(* none of its business.                                                   *)
LEMMA OtherWriteKeepsRest ==
    ASSUME ObjectInv, TypeOK, RestInv, NEW k \in Kinds, NEW STATE o,
           Store(k, o), crt.live => IsRuntime(crt),
           UNCHANGED <<crt, cobj, queued, w>>
    PROVE  RestInv'
<1>1. HeldInv'
  BY DEF RestInv, HeldInv
<1>2. ASSUME NEW j \in Kinds, j # k
      PROVE  (Unheard(j) /\ Settled(j))'
  <2>1. obj'[j] = obj[j] /\ lag'[j] = lag[j] /\ cobj'[j] = cobj[j]
    BY <1>2, StoreLag
  <2> QED
    BY <2>1 DEF RestInv, Unheard, Settled
<1>3. (Unheard(k) /\ Settled(k))'
  <2>1. obj'[k] = o /\ cobj'[k] = cobj[k]
    BY StoreLag
  <2>2. CASE o = obj[k] /\ lag'[k] = lag[k]
    BY <2>1, <2>2 DEF RestInv, Unheard, Settled
  <2>3. CASE lag'[k] = "ours"
    BY <2>3 DEF Unheard, Settled
  <2>4. CASE /\ o.owner \notin Ours /\ obj[k].owner \notin Ours
             /\ lag[k] # "ours" /\ lag'[k] = "some"
    <3>1. cobj[k].owner \notin Ours
      <4>1. lag[k] = "none" => cobj[k] = obj[k]
        BY DEF ObjectInv
      <4> QED
        BY <2>4, <4>1 DEF TypeOK, RestInv, Unheard
    <3>2. (Unheard(k))'
      BY <2>1, <2>4, <3>1 DEF Unheard
    <3>3. CASE crt.live /\ Converged(k, obj[k], crt)
      <4>1. Converged(k, o, crt)
        BY <2>4, <3>3, ForeignConverged
      <4> QED
        BY <2>1, <3>2, <4>1 DEF Settled
    <3>4. CASE ~(crt.live /\ Converged(k, obj[k], crt))
      BY <2>4, <3>2, <3>4 DEF RestInv, Settled
    <3> QED
      BY <3>3, <3>4
  <2> QED
    BY <2>2, <2>3, <2>4, StoreLag
<1> QED
  BY <1>1, <1>2, <1>3 DEF RestInv

(* The worker leaves a kind behind only with an object the held runtime    *)
(* asks for, or when an event is on its way.                               *)
LEMMA VisitKeepsRest ==
    ASSUME ResourceInv, TypeOK, RestInv, NEW k \in Kinds, Reconcile(k)
    PROVE  RestInv'
<1> DEFINE s == Specs[w.held.spec]
           m == Mutated(k, cobj[k])
<1>1. /\ w.active /\ IsRuntime(w.held) /\ w.held.live
      /\ queued \/ w.held = crt
      /\ w = [active |-> w.active, held |-> w.held, done |-> w.done]
      /\ UNCHANGED <<crt, cobj>>
      /\ ObjectInv
  BY DEF Reconcile, Turn, ResourceInv, WorkerInv, RestInv, HeldInv
<1>2. CASE Fail
  BY <1>1, <1>2 DEF Fail, Untouched, Idle, RestInv, HeldInv, Unheard, Settled
<1>3. ASSUME Succeed(k), NEW j \in Kinds, j # k,
             obj'[j] = obj[j], lag'[j] = lag[j]
      PROVE  (Unheard(j) /\ Settled(j))'
  <2>1. /\ w'.active = w.active /\ (j \in w'.done <=> j \in w.done)
        /\ queued' = queued
    BY <1>1, <1>3 DEF Succeed
  <2>2. cobj'[j] = cobj[j] /\ crt' = crt
    BY <1>1
  <2> QED
    BY <1>3, <2>1, <2>2 DEF RestInv, Unheard, Settled
<1>4. Succeed(k) => HeldInv'
  BY <1>1 DEF Succeed, HeldInv
<1>5. ASSUME Succeed(k), lag'[k] = "ours" \/ Converged(k, obj'[k], w.held)
      PROVE  (Settled(k))'
  BY <1>1, <1>5 DEF Succeed, Settled
<1>6. CASE Wanted(k, s) /\ Succeed(k) /\ m = cobj[k] /\ Untouched
  <2>1. m.owner \in Ours /\ Converged(k, m, w.held)
    BY <1>1, <1>6, MutatedObject, MutatedConverged
  <2>2. UNCHANGED <<obj, lag>>
    BY <1>6 DEF Untouched
  <2>3. lag[k] = "ours" \/ Converged(k, obj[k], w.held)
    <3>1. lag[k] # "some"
      BY <1>6, <2>1 DEF RestInv, Unheard
    <3>2. lag[k] = "none" => cobj[k] = obj[k]
      BY <1>1 DEF ObjectInv
    <3> QED
      BY <1>6, <2>1, <3>1, <3>2 DEF TypeOK
  <2>4. (Unheard(k))'
    BY <1>1, <2>2 DEF RestInv, Unheard
  <2> QED
    BY <1>3, <1>4, <1>5, <1>6, <2>2, <2>3, <2>4 DEF RestInv
<1>7. CASE Wanted(k, s) /\ Succeed(k) /\ Store(k, m)
  <2>1. m.owner \in Ours /\ Converged(k, m, w.held)
    BY <1>1, <1>7, MutatedObject, MutatedConverged
  <2> HIDE DEF m
  <2>2. /\ \A j \in Kinds : obj'[j] = IF j = k THEN m ELSE obj[j]
        /\ \A j \in Kinds \ {k} : lag'[j] = lag[j]
        /\ (m = obj[k] /\ lag'[k] = lag[k]) \/ lag'[k] = "ours"
    BY <1>1, <1>7, <2>1, StoreLag
  <2>3. (Unheard(k))'
    BY <1>1, <2>1, <2>2 DEF RestInv, Unheard
  <2>4. (Settled(k))'
    BY <1>5, <1>7, <2>1, <2>2
  <2> QED
    BY <1>3, <1>4, <1>7, <2>2, <2>3, <2>4 DEF RestInv
<1>8. CASE ~Wanted(k, s)
  <2>1. Succeed(k) /\ Store(k, NoObject)
    BY <1>8 DEF Reconcile, DeleteUnwanted
  <2>2. NoObject.owner \notin Ours
    BY DEF NoObject, Nobody, Ours
  <2>3. /\ \A j \in Kinds : obj'[j] = IF j = k THEN NoObject ELSE obj[j]
        /\ \A j \in Kinds \ {k} : lag'[j] = lag[j]
        /\ \/ NoObject = obj[k] /\ lag'[k] = lag[k]
           \/ lag'[k] = "ours"
           \/ /\ obj[k].owner \notin Ours /\ lag[k] # "ours"
              /\ lag'[k] = "some"
    BY <1>1, <2>1, StoreLag
  <2>4. (Unheard(k))'
    <3>1. lag[k] = "none" => cobj[k] = obj[k]
      BY <1>1 DEF ObjectInv
    <3>2. lag[k] \in {"none", "some", "ours"}
      BY DEF TypeOK
    <3>3. lag[k] = "some" => cobj[k].owner \notin Ours
      BY DEF RestInv, Unheard
    <3> QED
      BY <1>1, <2>2, <2>3, <3>1, <3>2, <3>3 DEF Unheard
  <2>5. (Settled(k))'
    <3>1. Converged(k, obj'[k], w.held)
      BY <1>8, <2>2, <2>3 DEF Converged
    <3> QED
      BY <1>5, <2>1, <3>1
  <2> QED
    BY <1>3, <1>4, <2>1, <2>3, <2>4, <2>5 DEF RestInv
<1>9. Wanted(k, s) => CreateOrUpdate(k)
  BY DEF Reconcile
<1> QED
  BY <1>2, <1>6, <1>7, <1>8, <1>9 DEF CreateOrUpdate

(* Every other step wakes the worker up or changes nothing it looks at.    *)
LEMMA RestInvStep == ResourceInv /\ TypeOK /\ RestInv /\ [Next]_vars => RestInv'
<1> SUFFICES ASSUME ResourceInv, TypeOK, RestInv, [Next]_vars
             PROVE  RestInv'
  OBVIOUS
<1>1. ObjectInv /\ (crt.live => IsRuntime(crt))
  BY DEF ResourceInv
<1>2. CASE EditRuntime \/ DeleteRuntime \/ RecreateRuntime \/ UNCHANGED vars
  <2>1. UNCHANGED <<crt, obj, cobj, lag, queued, w>>
    BY <1>2 DEF EditRuntime, DeleteRuntime, RecreateRuntime, vars
  <2> QED
    BY <2>1 DEF RestInv, HeldInv, Unheard, Settled
<1>3. CASE SyncRuntime
  <2>1. queued' = TRUE /\ UNCHANGED <<obj, cobj, lag, w>>
    BY <1>3 DEF SyncRuntime
  <2> QED
    BY <2>1 DEF RestInv, HeldInv, Unheard, Settled
<1>4. ASSUME NEW k \in Kinds, Sync(k)
      PROVE  RestInv'
  <2>1. /\ lag'[k] = "none" /\ \A j \in Kinds \ {k} : lag'[j] = lag[j]
        /\ \A j \in Kinds \ {k} : cobj'[j] = cobj[j]
        /\ UNCHANGED <<crt, obj, w>>
        /\ queued \/ lag[k] = "ours" => queued'
    BY <1>1, <1>4 DEF Sync, ObjectInv
  <2>2. HeldInv'
    BY <2>1 DEF RestInv, HeldInv
  <2>3. ASSUME NEW j \in Kinds
        PROVE  (Unheard(j) /\ Settled(j))'
    BY <2>1 DEF RestInv, Unheard, Settled
  <2> QED
    BY <2>2, <2>3 DEF RestInv
<1>5. CASE Begin
  <2>1. UNCHANGED <<crt, obj, cobj, lag>>
    BY <1>5 DEF Begin
  <2>2. CASE crt.live
    <3>1. w'.active /\ w'.held = crt /\ w'.done = {}
      BY <1>5, <2>2 DEF Begin
    <3> QED
      BY <2>1, <2>2, <3>1 DEF RestInv, HeldInv, Unheard, Settled
  <2>3. CASE ~crt.live
    <3>1. ~w.active /\ w' = w
      BY <1>5, <2>3 DEF Begin
    <3> QED
      BY <2>1, <2>3, <3>1 DEF RestInv, HeldInv, Unheard, Settled
  <2> QED
    BY <2>2, <2>3
<1>6. ASSUME NEW k \in Kinds, Reconcile(k)
      PROVE  RestInv'
  BY <1>6, VisitKeepsRest
<1>7. CASE Finish
  <2>1. w'.active = FALSE /\ w.done = Kinds
    BY <1>7 DEF Finish, Idle
  <2>2. UNCHANGED <<crt, obj, cobj, lag, queued>>
    BY <1>7 DEF Finish
  <2> QED
    BY <2>1, <2>2 DEF RestInv, HeldInv, Unheard, Settled
<1>8. ASSUME NEW k \in Kinds,
             Collect(k) \/ Drift(k) \/ Orphan(k) \/ Remove(k) \/ Occupy(k)
      PROVE  RestInv'
  <2> DEFINE label == [managedBy |-> "somebody"]
             drifted == [obj[k] EXCEPT !.content.labels = label]
             orphan == [obj[k] EXCEPT !.owner = Nobody]
             foreign == [exists |-> TRUE, owner |-> Other,
                         content |-> [labels |-> label]]
  <2>1. UNCHANGED <<crt, cobj, queued, w>>
    BY <1>8 DEF Collect, Drift, Orphan, Remove, Occupy
  <2>2. \/ Store(k, NoObject) \/ Store(k, drifted)
        \/ Store(k, orphan) \/ Store(k, foreign)
    BY <1>8 DEF Collect, Drift, Orphan, Remove, Occupy
  <2>3. ASSUME NEW STATE o, Store(k, o)
        PROVE  RestInv'
    BY <1>1, <2>1, <2>3, OtherWriteKeepsRest
  <2> HIDE DEF drifted, orphan, foreign
  <2>4. Store(k, NoObject) => RestInv'
    BY <2>3
  <2>5. Store(k, drifted) => RestInv'
    BY <2>3
  <2>6. Store(k, orphan) => RestInv'
    BY <2>3
  <2>7. Store(k, foreign) => RestInv'
    BY <2>3
  <2> QED
    BY <2>2, <2>4, <2>5, <2>6, <2>7
<1>9. CASE Restart
  <2>1. /\ w'.active = FALSE /\ crt' = rt /\ queued' = rt.live
        /\ \A k \in Kinds : lag'[k] = "none"
    BY <1>9 DEF Restart, Idle
  <2> QED
    BY <2>1 DEF RestInv, HeldInv, Unheard, Settled
<1>10. ASSUME NEW k \in Kinds, RequestFails(k)
       PROVE  RestInv'
  <2>1. w'.active = FALSE /\ queued' = TRUE /\ UNCHANGED <<obj, cobj, lag>>
    BY <1>10 DEF RequestFails, Fail, Untouched, Idle
  <2> QED
    BY <2>1 DEF RestInv, HeldInv, Unheard, Settled
<1> QED
  BY <1>2, <1>3, <1>4, <1>5, <1>6, <1>7, <1>8, <1>9, <1>10
     DEF Next, Informers, Worker, Cluster, Mischief

(* No wakeup is lost: a manager with nothing queued, nothing in flight and *)
(* no event to come has left every object as the runtime's spec asks.      *)
THEOREM RestTheorem == Spec => []RestMeansConverged
<1>1. Init => RestInv
  <2> SUFFICES ASSUME Init PROVE RestInv
    OBVIOUS
  <2>1. ~w.active /\ ~crt.live /\ \A k \in Kinds : lag[k] = "none"
    BY DEF Init, Idle, NoRuntime
  <2> QED
    BY <2>1 DEF RestInv, HeldInv, Unheard, Settled
<1>2. RestInv => RestMeansConverged
  <2> SUFFICES ASSUME RestInv, AtRest, NEW k \in Kinds
               PROVE  Converged(k, obj[k], rt)
    BY DEF RestMeansConverged
  <2>1. CASE rt.live
    BY <2>1 DEF RestInv, Settled, AtRest
  <2>2. CASE ~rt.live
    BY <2>2 DEF AtRest, Converged
  <2> QED
    BY <2>1, <2>2
<1> QED
  BY <1>1, <1>2, RestInvStep, ResourceInvTheorem, TypeCorrect, PTL DEF Spec

==============================================================================
