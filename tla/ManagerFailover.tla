--------------------------- MODULE ManagerFailover ---------------------------
(***************************************************************************)
(* Several managers reconcile one runtime.  cmd/main.go starts a manager   *)
(* without leader election unless --leader-elect is given; with it, a      *)
(* manager that has lost the lease without noticing may still be in the    *)
(* middle of a reconciliation when the next one begins.                    *)
(*                                                                         *)
(* Every manager has a cache of its own, so the managers hold different    *)
(* copies of the runtime and observe different states of its Deployment;   *)
(* what they share is the stored object and its resourceVersion.  A        *)
(* manager's observation is any of Inputs that fits the copy it holds.     *)
(* "status" is the stored status, as in StatusWriter, whose Spec is what   *)
(* the managers together are shown to implement.                           *)
(***************************************************************************)
EXTENDS StatusWriter, RuntimeEvents

CONSTANTS Managers,
          MaxGeneration,   \* bounds the edits
          MaxWrites,       \* bounds the stored statuses
          MaxRestarts      \* bounds the restarts

VARIABLES runtime,    \* the stored generation and spec
          lease,      \* the leader, None, or Unused without leader election
          cached,     \* per manager: its cached copy of the runtime
          fresh,      \* per manager: the cached copy is the stored version
          worker,     \* per manager: its worker
          writes,     \* how many statuses were stored
          restarts    \* how many managers were restarted

vars == <<status, runtime, lease, cached, fresh, worker, writes, restarts>>

Unused == "unused"

(* What a user may have written.                                           *)
Desires == {[gen |-> i.gen, spec |-> i.spec] : i \in Inputs}

ASSUME ManagersAssumption ==
    /\ {MaxGeneration, MaxWrites, MaxRestarts} \subseteq Nat
    /\ None \notin Managers /\ Unused \notin Managers
    /\ \E d \in Desires : d.gen = 1

(* An idle worker holds nothing.                                           *)
IdleWorker ==
    [ pc |-> "idle", held |-> EmptyStatus, runtime |-> None,
      current |-> FALSE, written |-> EmptyStatus ]

Copy == [status |-> status, runtime |-> runtime]

ManagersInit ==
    /\ Init
    /\ runtime \in {d \in Desires : d.gen = 1}
    /\ lease \in {None, Unused}
    /\ cached = [m \in Managers |-> Copy]
    /\ fresh = [m \in Managers |-> TRUE]
    /\ worker = [m \in Managers |-> IdleWorker]
    /\ writes = 0 /\ restarts = 0

(* A write of the runtime makes every copy of it stale.                    *)
CopiesBecomeStale ==
    /\ fresh' = [m \in Managers |-> FALSE]
    /\ worker' = [m \in Managers |-> [worker[m] EXCEPT !.current = FALSE]]

UserEditsSpec ==
    /\ runtime.gen < MaxGeneration
    /\ runtime' \in {d \in Desires : d.gen = runtime.gen + 1}
    /\ CopiesBecomeStale
    /\ UNCHANGED <<status, lease, cached, writes, restarts>>

(* The lease expires, or is given up, and another manager takes it.  The   *)
(* previous leader exits, see Restart, but need not have done so yet.      *)
TakeLease(m) ==
    /\ lease \notin {Unused, m}
    /\ lease' = m
    /\ UNCHANGED <<status, runtime, cached, fresh, worker, writes, restarts>>

WatchRuntime(m) ==
    /\ ~fresh[m]
    /\ cached' = [cached EXCEPT ![m] = Copy]
    /\ fresh' = [fresh EXCEPT ![m] = TRUE]
    /\ UNCHANGED <<status, runtime, lease, worker, writes, restarts>>

(* Reconcile reads the runtime; only a leader's controllers run.           *)
Reconcile(m) ==
    /\ worker[m].pc = "idle" /\ lease \in {Unused, m}
    /\ worker' = [worker EXCEPT ![m] =
          [ pc |-> "status", held |-> cached[m].status,
            runtime |-> cached[m].runtime, current |-> fresh[m],
            written |-> EmptyStatus ]]
    /\ UNCHANGED <<status, runtime, lease, cached, fresh, writes, restarts>>

(* Mutant: the status is sent without a resourceVersion.                   *)
AcceptedAlways(m) == TRUE

(* The API server accepts a status sent with the stored resourceVersion.   *)
Accepted(m) == worker[m].current

(* updateRuntimeStatus: nothing is sent if the copy held has the wanted    *)
(* status already; otherwise the write is stored or refused.               *)
StoreStatus(m) ==
    /\ worker[m].pc = "status"
    /\ \E input \in Inputs :
          /\ [gen |-> input.gen, spec |-> input.spec] = worker[m].runtime
          /\ LET held    == Aged(worker[m].held)
                 written == updateRuntimeStatus(held, input)
             IN  \/ /\ written = held \/ ~Accepted(m)
                    /\ worker' = [worker EXCEPT ![m] = IdleWorker]
                    /\ UNCHANGED <<status, fresh, writes>>
                 \/ /\ written # held /\ Accepted(m)
                    /\ writes < MaxWrites /\ writes' = writes + 1
                    /\ status' = written
                    /\ fresh' = [n \in Managers |-> FALSE]
                    /\ worker' = [n \in Managers |->
                         IF n = m
                         THEN [worker[m] EXCEPT !.pc = "events",
                                  !.current = FALSE, !.written = written]
                         ELSE [worker[n] EXCEPT !.current = FALSE]]
    /\ UNCHANGED <<runtime, lease, cached, restarts>>

(* The Events for previousStatus, the copy read at first.                  *)
Announcement(w) == recordStatusTransitionEvents(w.held, w.written)

RecordEvents(m) ==
    /\ worker[m].pc = "events"
    /\ worker' = [worker EXCEPT ![m] = IdleWorker]
    /\ UNCHANGED <<status, runtime, lease, cached, fresh, writes, restarts>>

(* A manager ends in the middle of a reconciliation, for instance because  *)
(* it has lost the lease, and is started again with an empty cache.        *)
Restart(m) ==
    /\ restarts < MaxRestarts /\ worker[m].pc # "idle"
    /\ restarts' = restarts + 1
    /\ worker' = [worker EXCEPT ![m] = IdleWorker]
    /\ cached' = [cached EXCEPT ![m] = Copy]
    /\ fresh' = [fresh EXCEPT ![m] = TRUE]
    /\ UNCHANGED <<status, runtime, lease, writes>>

ManagersNext ==
    \/ UserEditsSpec
    \/ \E m \in Managers :
          \/ TakeLease(m)
          \/ WatchRuntime(m)
          \/ Reconcile(m)
          \/ StoreStatus(m)
          \/ RecordEvents(m)
          \/ Restart(m)

ManagersSpec == ManagersInit /\ [][ManagersNext]_vars

-----------------------------------------------------------------------------

(* Statuses are statuses, copies are copies and the lease has one holder.  *)
ManagersTypeOK ==
    /\ status \in Statuses /\ runtime \in Desires
    /\ lease \in Managers \cup {None, Unused}
    /\ cached \in [Managers -> [status : Statuses, runtime : Desires]]
    /\ fresh \in [Managers -> BOOLEAN]
    /\ worker \in [Managers ->
          [ pc : {"idle", "status", "events"}, held : Statuses,
            runtime : Desires \cup {None}, current : BOOLEAN,
            written : Statuses ]]
    /\ writes \in 0 .. MaxWrites /\ restarts \in 0 .. MaxRestarts

(* updateRuntimeStatus: however many managers there are, and whichever of  *)
(* them believe they lead, the stored status changes as if one writer had  *)
(* made all the changes one after the other, each from the status before   *)
(* it.  What StatusWriter guarantees of conditions, transition times and   *)
(* the last successful image therefore holds with several managers too.    *)
ActsAsOneWriter == Spec

(* updateRuntimeStatus: no manager overwrites the report on an edit with   *)
(* its report on an earlier generation.                                    *)
StoredReportIsOfStoredSpec ==
    [][status' # status =>
         /\ status'.observedGeneration = runtime.gen
         /\ status'.desiredImage = runtimeImage(runtime.spec.image)]_vars

(* recordStatusTransitionEvents: a manager that is about to record Events  *)
(* has itself just made, in the store, the transition they announce,       *)
(* although previousStatus is what its own cache had returned: no          *)
(* transition is announced by two managers, and none that did not happen.  *)
AnnouncementIsOfStoredTransition ==
    [][\A m \in Managers :
          (worker[m].pc # "events" /\ worker'[m].pc = "events")
             => Announcement(worker'[m])
                   = recordStatusTransitionEvents(status, status')]_vars

==============================================================================
