-------------------------- MODULE MCDeploymentState --------------------------
(* Small instances of DeploymentState for TLC. *)
EXTENDS DeploymentState
=============================================================================
