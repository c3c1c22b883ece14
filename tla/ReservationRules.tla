-------------------------- MODULE ReservationRules ---------------------------
(***************************************************************************)
(* What the reservation rules of deployment_service.py and                 *)
(* shipment_service.py ask of the tables, whatever interleaving of         *)
(* requests produced them, and the ledger the tables stand for.            *)
(***************************************************************************)
EXTENDS InventoryTables

(***************************************************************************)
(* No asset is on two active deployments (deployment_service.py, rule "an  *)
(* asset on an active deployment is reserved"): creation, add, force-move  *)
(* and every change of status keep it together.                            *)
(***************************************************************************)
OneActiveDeployment ==
  \A d, e \in Deployments :
    IsDeploymentActive(d) /\ IsDeploymentActive(e) /\ depItems[d] \cap depItems[e] # {}
      => d = e

(***************************************************************************)
(* A deployment in progress has items: start_deployment demands them and   *)
(* neither a removal nor another deployment's force-move may take the last *)
(* one away afterwards.                                                    *)
(***************************************************************************)
InProgressHasItems ==
  \A d \in Deployments : depStatus[d] = "in_progress" => depItems[d] # {}

(***************************************************************************)
(* Foreign keys hold through the hard deletes: a shipment's deployment     *)
(* exists, and a key that is free for reuse owns no items.                 *)
(***************************************************************************)
NoDanglingRows ==
  /\ \A s \in Shipments : shipDep[s] # NULL => depStatus[shipDep[s]] # "none"
  /\ \A d \in Deployments : depStatus[d] = "none" => depItems[d] = {}
  /\ \A s \in Shipments : shipResolution[s] = "none" => shipItems[s] = {} /\ shipDep[s] = NULL

(***************************************************************************)
(* The holder of an asset and the confirmed deployments, seen through the  *)
(* tables.  The invariant OneActiveDeployment makes the choice unique.     *)
(***************************************************************************)
HoldersOf(a) == {d \in Deployments : IsDeploymentActive(d) /\ a \in depItems[d]}

LedgerHolder ==
  [a \in Assets |-> IF HoldersOf(a) = {} THEN NULL ELSE CHOOSE d \in HoldersOf(a) : TRUE]

LedgerFirm == {d \in Deployments : depStatus[d] = "in_progress"}

Ledger == INSTANCE ReservationLedger
  WITH Holders <- Deployments, Nobody <- NULL, holder <- LedgerHolder, firm <- LedgerFirm
=============================================================================
