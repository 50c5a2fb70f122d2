---- MODULE MCDeployment ----
(***************************************************************************)
(* Deployments for TLC. Two versions, so that a stale put of the agent     *)
(* item shows; deployments and approvers are interchangeable.              *)
(***************************************************************************)
EXTENDS Deployment, TLC

MCVersions == 1..2
MCNoVersion == 0
MCModes == {"automated", "manual"}
MCManual == {"manual"}
MCAutomated == {"automated"}
MCSymmetry == Permutations(Deployments) \cup Permutations(Approvers)
====
