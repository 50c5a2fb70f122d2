---- MODULE MCDeploymentWorkflow ----
(***************************************************************************)
(* The production pipelines for TLC: one execution with every pipeline an  *)
(* installation may have, and a repeated event with Step Functions alone.  *)
(***************************************************************************)
EXTENDS DeploymentWorkflow, TLC

MCInstallations == {{"step_functions"}, {"ci"}, {"step_functions", "ci"}}
MCStepFunctions == {{"step_functions"}}
MCModes == {"automated", "manual"}
====
