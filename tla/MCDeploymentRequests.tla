------------------------ MODULE MCDeploymentRequests -------------------------
(***************************************************************************)
(* Instances of DeploymentRequests for TLC.  The rows of a table are       *)
(* interchangeable, and so are the workers.                                *)
(***************************************************************************)
EXTENDS DeploymentRequests, TLC

Rows ==
  Permutations(Assets) \cup Permutations(Deployments) \cup Permutations(Shipments)
    \cup Permutations(Workers)
=============================================================================
