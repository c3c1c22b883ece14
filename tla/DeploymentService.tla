-------------------------- MODULE DeploymentService --------------------------
(***************************************************************************)
(* app/services/deployment_service.py, one action per operation, each      *)
(* taken as one step.  A request that is refused before it wrote anything  *)
(* leaves the tables alone and has no action; the refusal that does leave  *)
(* something behind (CreateDeploymentRejected) has one.                    *)
(***************************************************************************)
EXTENDS InventoryTables

(* Mutant of AvailableForDeployment: the look-up of another deployment is gone. *)
AvailableButForShipments(a, d) == ForeignActiveShipments(a, d) = {}

(***************************************************************************)
(* assert_asset_available_for_deployment when it neither raises nor moves  *)
(* the asset.                                                              *)
(***************************************************************************)
AvailableForDeployment(a, d) ==
  /\ OtherActiveDeployments(a, d) = {}
  /\ ForeignActiveShipments(a, d) = {}

(* Mutant of MovableFrom: force overrides a deployment in progress too. *)
MovableFromAny(a, d) == OtherActiveDeployments(a, d)

(***************************************************************************)
(* The planning deployments a forced add may take the asset from:          *)
(* assert_asset_available_for_deployment looks at one conflicting          *)
(* deployment, refuses when it is in progress and otherwise releases the   *)
(* asset from a planning one and returns, the shipments unread.            *)
(***************************************************************************)
MovableFrom(a, d) ==
  {e \in OtherActiveDeployments(a, d) : depStatus[e] = "planning"}

-----------------------------------------------------------------------------
(***************************************************************************)
(* create_deployment: ids is the de-duplicated union of the explicit ids   *)
(* and the auto-assigned picks, l the target location.                     *)
(***************************************************************************)
CreateDeployment(d, ids, l) ==
  /\ depStatus[d] = "none"
  /\ \A a \in ids : AvailableForDeployment(a, d)
  /\ depStatus' = [depStatus EXCEPT ![d] = "planning"]
  /\ depItems' = [depItems EXCEPT ![d] = ids]
  /\ depTarget' = [depTarget EXCEPT ![d] = l]
  /\ UNCHANGED <<shipVars, assetVars, archived>>

(***************************************************************************)
(* create_deployment refused with a 409 or 404 for one of the ids: the row *)
(* was flushed before the check, the engine commits every statement        *)
(* (db.py: isolation_level None and no BEGIN), the pending items are       *)
(* dropped with the session.                                               *)
(***************************************************************************)
CreateDeploymentRejected(d, ids, l) ==
  /\ depStatus[d] = "none"
  /\ \E a \in ids : ~AvailableForDeployment(a, d)
  /\ depStatus' = [depStatus EXCEPT ![d] = "planning"]
  /\ depTarget' = [depTarget EXCEPT ![d] = l]
  /\ UNCHANGED <<depItems, shipVars, assetVars, archived>>

(* update_deployment; the columns the model leaves out do not change it. *)
UpdateDeployment(d, l) ==
  /\ IsDeploymentActive(d)
  /\ depTarget' = [depTarget EXCEPT ![d] = l]
  /\ UNCHANGED <<depStatus, depItems, shipVars, assetVars, archived>>

(* add_item of an asset no other record reserves; adding it twice is a no-op. *)
AddDeploymentItem(d, a) ==
  /\ depStatus[d] = "planning"
  /\ AvailableForDeployment(a, d)
  /\ depItems' = [depItems EXCEPT ![d] = @ \cup {a}]
  /\ UNCHANGED <<depStatus, depTarget, shipVars, assetVars, archived>>

(* add_item with force = true and a conflict that is in planning. *)
ForceMoveDeploymentItem(d, a) ==
  /\ depStatus[d] = "planning"
  /\ \E e \in MovableFrom(a, d) :
       depItems' = [depItems EXCEPT ![e] = @ \ {a}, ![d] = @ \cup {a}]
  /\ UNCHANGED <<depStatus, depTarget, shipVars, assetVars, archived>>

(* Mutant of RemoveDeploymentItem: items may be taken off in any active status. *)
RemoveItemWhileActive(d, a) ==
  /\ IsDeploymentActive(d)
  /\ a \in depItems[d]
  /\ depItems' = [depItems EXCEPT ![d] = @ \ {a}]
  /\ UNCHANGED <<depStatus, depTarget, shipVars, assetVars, archived>>

RemoveDeploymentItem(d, a) ==
  /\ depStatus[d] = "planning"
  /\ a \in depItems[d]
  /\ depItems' = [depItems EXCEPT ![d] = @ \ {a}]
  /\ UNCHANGED <<depStatus, depTarget, shipVars, assetVars, archived>>

StartDeployment(d) ==
  /\ depStatus[d] = "planning"
  /\ depItems[d] # {}
  /\ depStatus' = [depStatus EXCEPT ![d] = "in_progress"]
  /\ UNCHANGED <<depItems, depTarget, shipVars, assetVars, archived>>

(* The assets a completion moves, each with a location_change history row. *)
CompletionMoves(d) ==
  IF depTarget[d] = NULL
  THEN {}
  ELSE {a \in depItems[d] \ archived : assetLoc[a] # depTarget[d]}

(* Mutant of CompleteDeployment: the history rows are forgotten. *)
CompleteUnlogged(d) ==
  /\ depStatus[d] = "in_progress"
  /\ assetLoc' = Relocated(assetLoc, CompletionMoves(d), depTarget[d])
  /\ depStatus' = [depStatus EXCEPT ![d] = "completed"]
  /\ UNCHANGED <<depItems, depTarget, shipVars, locLogged, archived>>

CompleteDeployment(d) ==
  /\ depStatus[d] = "in_progress"
  /\ assetLoc' = Relocated(assetLoc, CompletionMoves(d), depTarget[d])
  /\ locLogged' = Relocated(locLogged, CompletionMoves(d), depTarget[d])
  /\ depStatus' = [depStatus EXCEPT ![d] = "completed"]
  /\ UNCHANGED <<depItems, depTarget, shipVars, archived>>

(* Mutants of CancelDeployment: a misspelt status; a dropped status check. *)
CancelMisspelt(d) ==
  /\ IsDeploymentActive(d)
  /\ depStatus' = [depStatus EXCEPT ![d] = "canceled"]
  /\ UNCHANGED <<depItems, depTarget, shipVars, assetVars, archived>>

CancelInAnyStatus(d) ==
  /\ depStatus[d] # "none"
  /\ depStatus' = [depStatus EXCEPT ![d] = "cancelled"]
  /\ UNCHANGED <<depItems, depTarget, shipVars, assetVars, archived>>

CancelDeployment(d) ==
  /\ IsDeploymentActive(d)
  /\ depStatus' = [depStatus EXCEPT ![d] = "cancelled"]
  /\ UNCHANGED <<depItems, depTarget, shipVars, assetVars, archived>>

(* Mutant of DeleteDeployment: the shipments keep their deployment_id. *)
DeleteWithoutUnlink(d) ==
  /\ depStatus[d] # "none"
  /\ depStatus' = [depStatus EXCEPT ![d] = "none"]
  /\ depItems' = [depItems EXCEPT ![d] = {}]
  /\ depTarget' = [depTarget EXCEPT ![d] = NULL]
  /\ archived' = archived \ {d}
  /\ UNCHANGED <<shipVars, assetVars>>

(* delete_deployment, in any status: items cascade, shipments are unlinked. *)
DeleteDeployment(d) ==
  /\ depStatus[d] # "none"
  /\ shipDep' = [s \in Shipments |-> IF shipDep[s] = d THEN NULL ELSE shipDep[s]]
  /\ depStatus' = [depStatus EXCEPT ![d] = "none"]
  /\ depItems' = [depItems EXCEPT ![d] = {}]
  /\ depTarget' = [depTarget EXCEPT ![d] = NULL]
  /\ archived' = archived \ {d}
  /\ UNCHANGED <<shipResolution, shipCarrier, shipItems, shipDirection, shipTo, assetVars>>

(* archive_deployment hides the row from the default list, and only that. *)
ArchiveDeployment(d) ==
  /\ d \in Archivable \ archived
  /\ depStatus[d] # "none"
  /\ archived' = archived \cup {d}
  /\ UNCHANGED <<depVars, shipVars, assetVars>>

UnarchiveDeployment(d) ==
  /\ d \in archived
  /\ archived' = archived \ {d}
  /\ UNCHANGED <<depVars, shipVars, assetVars>>

(* link_shipment reads neither the shipment's items nor their reservations. *)
LinkShipment(d, s) ==
  /\ IsDeploymentActive(d)
  /\ shipResolution[s] # "none"
  /\ shipDep[s] \in {NULL, d}
  /\ shipDep' = [shipDep EXCEPT ![s] = d]
  /\ UNCHANGED <<depVars, shipResolution, shipCarrier, shipItems, shipDirection, shipTo,
                 assetVars, archived>>

UnlinkShipment(d, s) ==
  /\ IsDeploymentActive(d)
  /\ shipResolution[s] # "none"
  /\ shipDep[s] = d
  /\ shipDep' = [shipDep EXCEPT ![s] = NULL]
  /\ UNCHANGED <<depVars, shipResolution, shipCarrier, shipItems, shipDirection, shipTo,
                 assetVars, archived>>
=============================================================================
