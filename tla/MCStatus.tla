------------------------------- MODULE MCStatus -------------------------------
(***************************************************************************)
(* Values for the constants of StatusWriter.                               *)
(***************************************************************************)
EXTENDS StatusWriter

CONSTANTS repo, t1, sha, c1

Tagged(tag) == [repository |-> repo, tag |-> tag, digest |-> None]

Pinned(digest) == [repository |-> repo, tag |-> None, digest |-> digest]

TwoImages == {Tagged(t1), Pinned(sha)}

Base == [ image |-> Tagged(t1), cfg |-> c1, replicas |-> 1,
          autoscaling |-> FALSE, minReplicas |-> 0, maxReplicas |-> 0,
          credentials |-> None, pullSecrets |-> {}, port |-> 80 ]

(* Either image, scaled to zero, autoscaled (whatever spec.replicas says). *)
Specs ==
    { Base, [Base EXCEPT !.image = Pinned(sha)], [Base EXCEPT !.replicas = 0],
      [Base EXCEPT !.autoscaling = TRUE, !.replicas = 0, !.minReplicas = 1,
                   !.maxReplicas = 10] }

(* A rolling update of one Pod as its Deployment shows it: a Pod that is   *)
(* not ready, done, and an old Pod next to the new one; then a Deployment  *)
(* that is being scaled to zero.                                           *)
Rollouts ==
    { [NoDeployment EXCEPT !.exists = TRUE, !.cfg = c1, !.replicas = 1,
         !.total = n.total, !.updated = n.updated, !.ready = n.ready,
         !.available = n.ready, !.unavailable = n.unavailable] :
      n \in { [total |-> 1, updated |-> 1, ready |-> 0, unavailable |-> 1],
              [total |-> 1, updated |-> 1, ready |-> 1, unavailable |-> 0],
              [total |-> 2, updated |-> 1, ready |-> 1, unavailable |-> 1] } }

ScaledDown ==
    { [NoDeployment EXCEPT !.exists = TRUE, !.cfg = c1, !.total = n,
         !.updated = n, !.ready = n, !.available = n] : n \in 0 .. 1 }

Failed(d) == [d EXCEPT !.deadlineExceeded = TRUE]

(* Of either image, with the last generation observed or not; the rollout  *)
(* with an old Pod may have failed.                                        *)
DeploymentsSeen ==
    { [d EXCEPT !.image = i, !.observed = o] :
        d \in Rollouts \cup ScaledDown
             \cup {Failed(r) : r \in {x \in Rollouts : x.total = 2}},
        i \in Images, o \in BOOLEAN }

AllInputs ==
    [ gen : {1}, spec : Specs, deployment : DeploymentsSeen, service : {80},
      path : {"reconcile", "invalid", "failed"} ]
    \cup
    [ gen : {1}, spec : Specs, deployment : {NoDeployment},
      service : {NoService}, path : {"reconcile", "invalid", "failed"} ]

===============================================================================
