------------------------ MODULE ManagerFailoverProofs ------------------------
(***************************************************************************)
(* Theorems about ManagerFailover, for every set of managers.              *)
(***************************************************************************)
EXTENDS ManagerFailover, StatusWriterProofs

WorkerTypes ==
    [ pc : {"idle", "status", "events"}, held : Statuses,
      runtime : Desires \cup {None}, current : BOOLEAN, written : Statuses ]

(* What resourceVersions buy: a copy of the stored version is equal to the *)
(* stored object, in every manager's cache and in every worker's hands.    *)
CopiesInv ==
    /\ \A m \in Managers : fresh[m] => cached[m] = Copy
    /\ \A m \in Managers :
          worker[m].current =>
             worker[m].held = status /\ worker[m].runtime = runtime

ManagersInv == ManagersTypeOK /\ CopiesInv

-----------------------------------------------------------------------------

(* An idle worker is a worker.                                             *)
LEMMA IdleWorkerType == IdleWorker \in WorkerTypes /\ ~IdleWorker.current
  BY EmptyStatusType DEF IdleWorker, WorkerTypes

(* What becomes of a worker when a status is stored by another one, and by *)
(* itself.                                                                 *)
Outdated(x) == [x EXCEPT !.current = FALSE]

Wrote(x, s) == [x EXCEPT !.pc = "events", !.current = FALSE, !.written = s]

(* A worker whose copy became stale is a worker.                           *)
LEMMA OutdatedType ==
    ASSUME NEW x \in WorkerTypes
    PROVE  /\ Outdated(x) \in WorkerTypes /\ ~Outdated(x).current
           /\ Outdated(x).pc = x.pc
  BY DEF WorkerTypes, Outdated

(* So is one that has stored a status.                                     *)
LEMMA WroteType ==
    ASSUME NEW x \in WorkerTypes, NEW s \in Statuses
    PROVE  /\ Wrote(x, s) \in WorkerTypes /\ ~Wrote(x, s).current
           /\ Wrote(x, s).held = x.held /\ Wrote(x, s).written = s
  BY DEF WorkerTypes, Wrote

(* A status that is stored is a StatusWriter step of some input, for the   *)
(* stored generation and spec, and it is the one its writer announces.     *)
Stores(m) ==
    \E input \in Inputs :
        /\ [gen |-> input.gen, spec |-> input.spec] = runtime
        /\ ReconcileStatus(input)
        /\ worker'[m].held = status /\ worker'[m].written = status'
        /\ \A n \in Managers \ {m} :
              worker'[n].pc = "events" => worker[n].pc = "events"

(* Nothing is stored, and nobody starts to announce anything.              *)
StoresNothing ==
    /\ UNCHANGED status
    /\ \A m \in Managers :
          worker'[m].pc = "events" => worker[m].pc = "events"

(* Every step but StoreStatus stores nothing.                              *)
LEMMA OtherStepsStoreNothing ==
    ASSUME ManagersTypeOK,
           \/ UserEditsSpec
           \/ \E m \in Managers :
                 \/ TakeLease(m) \/ WatchRuntime(m) \/ Reconcile(m)
                 \/ RecordEvents(m) \/ Restart(m)
    PROVE  StoresNothing
  BY DEF ManagersTypeOK, StoresNothing, UserEditsSpec, CopiesBecomeStale,
         TakeLease, WatchRuntime, Reconcile, RecordEvents, Restart, IdleWorker

(* StoreStatus: an accepted write stores, any other one does not.          *)
LEMMA StoreStatusStores ==
    ASSUME ManagersInv, NEW m \in Managers, StoreStatus(m)
    PROVE  \/ StoresNothing /\ UNCHANGED <<fresh, writes>>
              /\ worker' = [worker EXCEPT ![m] = IdleWorker]
           \/ Stores(m) /\ fresh' = [n \in Managers |-> FALSE]
              /\ writes < MaxWrites /\ writes' = writes + 1
              /\ worker' \in [Managers -> WorkerTypes]
              /\ \A n \in Managers : ~worker'[n].current
<1>0. /\ worker \in [Managers -> WorkerTypes]
      /\ status \in Statuses
      /\ CopiesInv
  BY DEF ManagersInv, ManagersTypeOK, WorkerTypes
<1>1. PICK input \in Inputs :
        /\ [gen |-> input.gen, spec |-> input.spec] = worker[m].runtime
        /\ LET held    == Aged(worker[m].held)
               written == updateRuntimeStatus(held, input)
           IN  \/ /\ written = held \/ ~Accepted(m)
                  /\ worker' = [worker EXCEPT ![m] = IdleWorker]
                  /\ UNCHANGED <<status, fresh, writes>>
               \/ /\ written # held /\ Accepted(m)
                  /\ writes < MaxWrites /\ writes' = writes + 1
                  /\ status' = written
                  /\ fresh' = [n \in Managers |-> FALSE]
                  /\ worker' = [n \in Managers |->
                       IF n = m
                       THEN [worker[m] EXCEPT !.pc = "events",
                                !.current = FALSE, !.written = written]
                       ELSE [worker[n] EXCEPT !.current = FALSE]]
  BY DEF StoreStatus
<1> DEFINE written == updateRuntimeStatus(Aged(worker[m].held), input)
<1>2. CASE /\ worker' = [worker EXCEPT ![m] = IdleWorker]
           /\ UNCHANGED <<status, fresh, writes>>
  BY <1>0, <1>2 DEF StoresNothing, IdleWorker
<1>3. CASE /\ Accepted(m)
           /\ writes < MaxWrites /\ writes' = writes + 1
           /\ status' = written
           /\ fresh' = [n \in Managers |-> FALSE]
           /\ worker' = [n \in Managers |->
                IF n = m
                THEN [worker[m] EXCEPT !.pc = "events",
                         !.current = FALSE, !.written = written]
                ELSE [worker[n] EXCEPT !.current = FALSE]]
  <2>1. worker[m].held = status /\ worker[m].runtime = runtime
    BY <1>0, <1>3 DEF CopiesInv, Accepted
  <2>2. ReconcileStatus(input)
    BY <1>3, <2>1 DEF ReconcileStatus
  <2>3. written \in Statuses
    BY <1>0, <2>1, AgedType, UpdateType
  <2> HIDE DEF written
  <2>5. /\ worker'[m] = Wrote(worker[m], written)
        /\ \A n \in Managers \ {m} : worker'[n] = Outdated(worker[n])
    BY <1>3 DEF Wrote, Outdated
  <2>6. /\ worker'[m].held = status /\ worker'[m].written = written
        /\ \A n \in Managers : worker'[n] \in WorkerTypes
        /\ \A n \in Managers : ~worker'[n].current
        /\ \A n \in Managers \ {m} : worker'[n].pc = worker[n].pc
    <3>1. /\ worker'[m].held = status /\ worker'[m].written = written
          /\ worker'[m] \in WorkerTypes /\ ~worker'[m].current
      BY <1>0, <2>1, <2>3, <2>5, WroteType
    <3>2. ASSUME NEW n \in Managers \ {m}
          PROVE  /\ worker'[n] \in WorkerTypes /\ ~worker'[n].current
                 /\ worker'[n].pc = worker[n].pc
      BY <1>0, <2>5, OutdatedType
    <3> QED
      BY <3>1, <3>2
  <2>7. worker' \in [Managers -> WorkerTypes]
    BY <1>3, <2>6
  <2>8. [gen |-> input.gen, spec |-> input.spec] = runtime
    BY <1>1, <2>1
  <2>9. status' = written
    BY <1>3
  <2>10. Stores(m)
    BY <2>2, <2>6, <2>8, <2>9 DEF Stores
  <2> QED
    BY <1>3, <2>6, <2>7, <2>10
<1> QED
  BY <1>1, <1>2, <1>3

-----------------------------------------------------------------------------

(* At first, everybody has the stored version.                             *)
LEMMA ManagersInvInit == ManagersInit => ManagersInv
<1> SUFFICES ASSUME ManagersInit PROVE ManagersInv
  OBVIOUS
<1>1. status \in Statuses
  BY EmptyStatusType DEF ManagersInit, Init
<1> QED
  BY <1>1, IdleWorkerType, ManagersAssumption
  DEF ManagersInit, ManagersInv, ManagersTypeOK, CopiesInv, Copy, WorkerTypes

(* A copy that claims to be the stored version is: whoever writes makes    *)
(* all copies stale.                                                       *)
LEMMA ManagersInvStep == ManagersInv /\ [ManagersNext]_vars => ManagersInv'
<1> SUFFICES ASSUME ManagersInv, [ManagersNext]_vars
             PROVE  ManagersInv'
  OBVIOUS
<1> USE DEF ManagersInv
<1>0. worker \in [Managers -> WorkerTypes]
  BY DEF ManagersTypeOK, WorkerTypes
<1>1. CASE UserEditsSpec
  <2>1. worker' \in [Managers -> WorkerTypes]
        /\ \A m \in Managers : ~worker'[m].current
    BY <1>0, <1>1 DEF UserEditsSpec, CopiesBecomeStale, WorkerTypes
  <2> QED
    BY <1>1, <2>1
    DEF UserEditsSpec, CopiesBecomeStale, ManagersTypeOK, CopiesInv,
        WorkerTypes
<1>2. ASSUME NEW m \in Managers, TakeLease(m)
      PROVE  ManagersInv'
  BY <1>2 DEF TakeLease, ManagersTypeOK, CopiesInv, Copy
<1>3. ASSUME NEW m \in Managers, WatchRuntime(m)
      PROVE  ManagersInv'
  BY <1>3 DEF WatchRuntime, ManagersTypeOK, CopiesInv, Copy
<1>4. ASSUME NEW m \in Managers, Reconcile(m)
      PROVE  ManagersInv'
  <2> DEFINE taken == [ pc |-> "status", held |-> cached[m].status,
                        runtime |-> cached[m].runtime, current |-> fresh[m],
                        written |-> EmptyStatus ]
  <2>1. taken \in WorkerTypes
    BY EmptyStatusType DEF ManagersTypeOK, WorkerTypes
  <2>2. taken.current => taken.held = status /\ taken.runtime = runtime
    BY DEF CopiesInv, Copy
  <2>3. worker' = [worker EXCEPT ![m] = taken]
    BY <1>4 DEF Reconcile
  <2> HIDE DEF taken
  <2> QED
    BY <1>0, <1>4, <2>1, <2>2, <2>3
    DEF Reconcile, ManagersTypeOK, CopiesInv, Copy, WorkerTypes
<1>5. ASSUME NEW m \in Managers, StoreStatus(m)
      PROVE  ManagersInv'
  <2>1. UNCHANGED <<runtime, lease, cached, restarts>>
    BY <1>5 DEF StoreStatus
  <2>2. CASE /\ StoresNothing /\ UNCHANGED <<fresh, writes>>
             /\ worker' = [worker EXCEPT ![m] = IdleWorker]
    BY <1>0, <2>1, <2>2, IdleWorkerType
    DEF StoresNothing, ManagersTypeOK, CopiesInv, Copy, WorkerTypes
  <2>3. CASE /\ Stores(m) /\ fresh' = [n \in Managers |-> FALSE]
             /\ writes < MaxWrites /\ writes' = writes + 1
             /\ worker' \in [Managers -> WorkerTypes]
             /\ \A n \in Managers : ~worker'[n].current
    <3>1. status' \in Statuses
      BY <2>3, AgedType, UpdateType
      DEF Stores, ReconcileStatus, ManagersTypeOK
    <3>2. writes' \in 0 .. MaxWrites
      BY <2>3, ManagersAssumption DEF ManagersTypeOK
    <3> QED
      BY <2>1, <2>3, <3>1, <3>2 DEF ManagersTypeOK, CopiesInv, WorkerTypes
  <2> QED
    BY <1>5, <2>2, <2>3, StoreStatusStores
<1>6. ASSUME NEW m \in Managers, RecordEvents(m)
      PROVE  ManagersInv'
  BY <1>0, <1>6, IdleWorkerType
  DEF RecordEvents, ManagersTypeOK, CopiesInv, Copy, WorkerTypes
<1>7. ASSUME NEW m \in Managers, Restart(m)
      PROVE  ManagersInv'
  <2>1. restarts' \in 0 .. MaxRestarts
    BY <1>7, ManagersAssumption DEF Restart, ManagersTypeOK
  <2> QED
    BY <1>0, <1>7, <2>1, IdleWorkerType
    DEF Restart, ManagersTypeOK, CopiesInv, Copy, WorkerTypes
<1>8. CASE UNCHANGED vars
  BY <1>8 DEF vars, ManagersTypeOK, CopiesInv, Copy
<1> QED
  BY <1>1, <1>2, <1>3, <1>4, <1>5, <1>6, <1>7, <1>8 DEF ManagersNext

(* For any number of managers: statuses are statuses, and a copy of the    *)
(* stored version is equal to the stored object.                           *)
THEOREM CopiesTheorem == ManagersSpec => []ManagersInv
  BY ManagersInvInit, ManagersInvStep, PTL DEF ManagersSpec

(* A step of the managers stores a status or it does not.                  *)
LEMMA StepStoresOrNot ==
    ASSUME ManagersInv, [ManagersNext]_vars
    PROVE  StoresNothing \/ \E m \in Managers : Stores(m)
<1>1. CASE UNCHANGED vars
  BY <1>1 DEF vars, StoresNothing
<1>2. CASE ManagersNext
  BY <1>2, OtherStepsStoreNothing, StoreStatusStores
  DEF ManagersNext, ManagersInv
<1> QED
  BY <1>1, <1>2

-----------------------------------------------------------------------------

(* updateRuntimeStatus and resourceVersions: any number of managers, with  *)
(* or without leader election, change the status the way one writer does.  *)
THEOREM OneWriterTheorem == ManagersSpec => ActsAsOneWriter
<1>1. ManagersInit => Init
  BY DEF ManagersInit
<1>2. ManagersInv /\ [ManagersNext]_vars => [Next]_status
  BY StepStoresOrNot DEF StoresNothing, Stores, Next
<1> QED
  BY <1>1, <1>2, CopiesTheorem, PTL DEF ManagersSpec, Spec, ActsAsOneWriter

(* What is proved of one writer carries over to any number of managers:    *)
(* the stored conditions never contradict each other.                      *)
THEOREM ManagersCoherenceTheorem == ManagersSpec => []ConditionsAreCoherent
  BY OneWriterTheorem, CoherenceTheorem, PTL DEF ActsAsOneWriter

(* So do the transition times, for any number of managers.                 *)
THEOREM ManagersTimesTheorem == ManagersSpec => TransitionTimesTrackStatus
  BY OneWriterTheorem, TransitionTimesAreRight, PTL DEF ActsAsOneWriter

(* No manager's outdated report replaces the report on a later edit.       *)
THEOREM StoredReportTheorem == ManagersSpec => StoredReportIsOfStoredSpec
<1> DEFINE Step == status' # status =>
                     /\ status'.observedGeneration = runtime.gen
                     /\ status'.desiredImage = runtimeImage(runtime.spec.image)
<1>1. ManagersInv /\ [ManagersNext]_vars => [Step]_vars
  <2> SUFFICES ASSUME ManagersInv, NEW m \in Managers, Stores(m)
               PROVE  Step
    BY StepStoresOrNot DEF StoresNothing
  <2>1. PICK input \in Inputs :
            /\ [gen |-> input.gen, spec |-> input.spec] = runtime
            /\ ReconcileStatus(input)
    BY DEF Stores
  <2>2. Aged(status) \in Statuses
    BY AgedType DEF ManagersInv, ManagersTypeOK
  <2>3. IsReportOf(status', Aged(status), input)
    BY <2>1, <2>2, UpdatedReport DEF ReconcileStatus
  <2>4. runtime.gen = input.gen /\ runtime.spec = input.spec
    BY <2>1
  <2> QED
    BY <2>3, <2>4 DEF IsReportOf
<1> QED
  BY <1>1, CopiesTheorem, PTL DEF ManagersSpec, StoredReportIsOfStoredSpec

(* The Events a manager records are those of the transition it stored.     *)
THEOREM AnnouncementTheorem == ManagersSpec => AnnouncementIsOfStoredTransition
<1> DEFINE Step == \A m \in Managers :
                     (worker[m].pc # "events" /\ worker'[m].pc = "events")
                       => Announcement(worker'[m])
                            = recordStatusTransitionEvents(status, status')
<1>1. ManagersInv /\ [ManagersNext]_vars => [Step]_vars
  BY StepStoresOrNot DEF StoresNothing, Stores, Announcement
<1> QED
  BY <1>1, CopiesTheorem, PTL
  DEF ManagersSpec, AnnouncementIsOfStoredTransition

(* Whichever manager acts, with whatever copy, the shared runtime and the  *)
(* managers' workers keep their types.                                     *)
THEOREM ManagersTypesTheorem == ManagersSpec => []ManagersTypeOK
  BY CopiesTheorem, PTL DEF ManagersInv

==============================================================================
