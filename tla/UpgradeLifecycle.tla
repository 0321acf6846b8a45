--------------------------- MODULE UpgradeLifecycle ---------------------------
(***************************************************************************)
(* What the upgrade report of a TrussiumRuntime promises to whoever reads  *)
(* it, with no caches, no worker, no Deployment and no conflicts: the      *)
(* image that is wanted, the images that were really rolled out, the image *)
(* the status calls the last successful one, and the reason of the         *)
(* Upgrading condition.  RuntimeReconciler is shown to implement it.       *)
(***************************************************************************)
CONSTANTS Images, None

VARIABLES wanted,      \* the image the stored spec asks for
          rolledOut,   \* the images every Pod has run, ready, at one instant
          last,        \* status.lastSuccessfulImage
          report       \* the Upgrading condition's reason, "None" without one

vars == <<wanted, rolledOut, last, report>>

Init ==
    /\ wanted \in Images
    /\ rolledOut = {}
    /\ last = None
    /\ report = "None"

(* A user asks for an image, at any time.                                  *)
Want ==
    /\ wanted' \in Images
    /\ UNCHANGED <<rolledOut, last, report>>

(* The cluster finishes a rollout, not always of the wanted image.         *)
RollOut ==
    /\ \E i \in Images : rolledOut' = rolledOut \cup {i}
    /\ UNCHANGED <<wanted, last, report>>

(* The first deployment is no upgrade.  It is over once the wanted image   *)
(* was rolled out.                                                         *)
Install ==
    /\ last = None
    /\ report' = "NoUpgrade"
    /\ last' = None \/ (wanted \in rolledOut /\ last' = wanted)
    /\ UNCHANGED <<wanted, rolledOut>>

(* From then on wanting another image is an upgrade.  It is under way, it  *)
(* has failed, or it is complete.                                          *)
UpgradeWanted == last # None /\ last # wanted

Begin ==
    /\ UpgradeWanted
    /\ report' = "UpgradeInProgress"
    /\ UNCHANGED <<wanted, rolledOut, last>>

Fail ==
    /\ UpgradeWanted
    /\ report' = "UpgradeFailed"
    /\ UNCHANGED <<wanted, rolledOut, last>>

Complete ==
    /\ UpgradeWanted
    /\ wanted \in rolledOut
    /\ last' = wanted
    /\ report' = "UpgradeComplete"
    /\ UNCHANGED <<wanted, rolledOut>>

Next == Want \/ RollOut \/ Install \/ Begin \/ Fail \/ Complete

Spec == Init /\ [][Next]_vars

===============================================================================
