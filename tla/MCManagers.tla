------------------------------ MODULE MCManagers ------------------------------
(***************************************************************************)
(* Values for the constants of ManagerFailover.                            *)
(***************************************************************************)
EXTENDS ManagerFailover, MCStatus, TLC

EitherManager == Permutations(Managers)

(* A runtime that is edited once, from one image to the other.             *)
Edited(gen) ==
    IF gen = 1 THEN Base ELSE [Base EXCEPT !.image = Pinned(sha)]

(* Its Deployment has the image of this generation, or still that of the   *)
(* first one, and its Pod is ready.                                        *)
Seen(gen) ==
    { d \in DeploymentsSeen :
        /\ d.replicas = 1 /\ d.total = 1 /\ d.ready = 1 /\ d.observed
        /\ gen = 1 => d.image = runtimeImage(Tagged(t1)) }

(* The first generation is seen before anything has been created and when  *)
(* it is deployed; reconciling the second one goes through, or fails with   *)
(* the first one's image in place.                                         *)
FewInputs ==
    [ gen : {1}, spec : {Edited(1)}, deployment : {NoDeployment},
      service : {NoService}, path : {"reconcile"} ]
    \cup
    [ gen : {1}, spec : {Edited(1)}, deployment : Seen(1),
      service : {80}, path : {"reconcile"} ]
    \cup
    [ gen : {2}, spec : {Edited(2)}, deployment : Seen(2),
      service : {80}, path : {"reconcile"} ]
    \cup
    [ gen : {2}, spec : {Edited(2)}, deployment : Seen(1),
      service : {80}, path : {"failed"} ]

===============================================================================
