----------------------------- MODULE MCReconciler -----------------------------
(***************************************************************************)
(* Values for the constants of RuntimeReconciler.                          *)
(***************************************************************************)
EXTENDS RuntimeReconciler

CONSTANTS repo, t1, sha, c1, c2, s1, s2

Tagged(tag) == [repository |-> repo, tag |-> tag, digest |-> None]

Pinned(digest) == [repository |-> repo, tag |-> None, digest |-> digest]

Base == [ image |-> Tagged(t1), cfg |-> c1, replicas |-> 1,
          autoscaling |-> FALSE, minReplicas |-> 0, maxReplicas |-> 0,
          credentials |-> None, pullSecrets |-> {}, port |-> 80 ]

TwoImages == {Tagged(t1), Pinned(sha)}

(* One runtime that moves between two images.                              *)
UpgradeSpecs == {Base, [Base EXCEPT !.image = Pinned(sha)]}

(* Images and configuration may change independently.                      *)
TemplateSpecs ==
    UpgradeSpecs \cup {[Base EXCEPT !.cfg = c2]}

(* An upgrade that switches autoscaling between one and two replicas on.   *)
AutoscaledUpgrade ==
    {Base, [Base EXCEPT !.image = Pinned(sha), !.autoscaling = TRUE,
                        !.minReplicas = 1, !.maxReplicas = 2]}

(* Another image, or no replicas.                                          *)
Idle == [Base EXCEPT !.replicas = 0]

SettleSpecs == UpgradeSpecs \cup {Idle}

BaseOrIdle == {Base, Idle}

(* A provider credential and an image pull Secret.                         *)
NeedsSecrets == [Base EXCEPT !.credentials = s1, !.pullSecrets = {s2}]

SecretSpecs == {Base, NeedsSecrets}

(* Autoscaled, and the provider's credential is in a Secret.               *)
AutoscaledWithCredentials ==
    {[Base EXCEPT !.credentials = s1, !.autoscaling = TRUE,
                  !.minReplicas = 1, !.maxReplicas = 2]}

OnlyBase == {Base}

OnlyNeedsSecrets == {NeedsSecrets}

==============================================================================
