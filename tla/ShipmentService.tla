--------------------------- MODULE ShipmentService ---------------------------
(***************************************************************************)
(* app/services/shipment_service.py and the endpoints of api/shipments.py  *)
(* and api/deployments.py that create a shipment, one action per operation *)
(* taken as one step.  The carrier is an environment that may report any   *)
(* status of CarrierReports at any time; NoReport is a poll that failed or *)
(* brought a status the service ignores ("" or "unknown").                 *)
(***************************************************************************)
EXTENDS InventoryTables

NoReport == "unknown"

Reports == CarrierReports \cup {NoReport}

(* Mutants of AvailableForShipment: one of the two look-ups is gone. *)
AvailableButForDeployments(a, s, d) == OtherActiveShipments(a, s) = {}

AvailableButForOtherShipments(a, s, d) == OtherActiveDeployments(a, d) = {}

(* assert_asset_available_for_shipment: s is excluded, d is the owner. *)
AvailableForShipment(a, s, d) ==
  /\ OtherActiveShipments(a, s) = {}
  /\ OtherActiveDeployments(a, d) = {}

(* carrier_status after a poll that answered r. *)
CarrierAfter(status, r) == IF r = NoReport THEN status ELSE r

(* Mutant of DeliveryMoves: archived assets are dropped like the others. *)
DeliveryMovesAll(before, after, direction, to, items) ==
  IF before # "delivered" /\ after = "delivered" /\ direction = "inbound" /\ to # NULL
  THEN items
  ELSE {}

(***************************************************************************)
(* _on_inbound_delivered for the items of one shipment: the assets that    *)
(* are dropped at the destination, with no history row.                    *)
(***************************************************************************)
DeliveryMoves(before, after, direction, to, items) ==
  IF before # "delivered" /\ after = "delivered" /\ direction = "inbound" /\ to # NULL
  THEN items \ archived
  ELSE {}

-----------------------------------------------------------------------------
(***************************************************************************)
(* POST /shipments and POST /deployments/{d}/shipments: create_shipment    *)
(* and the best-effort refresh the endpoint runs right after it.  d is the *)
(* owning deployment or NULL; a refusal writes nothing.                    *)
(***************************************************************************)
CreateShipment(s, ids, d, direction, to, r) ==
  /\ shipResolution[s] = "none"
  /\ ids # {}
  /\ d # NULL => IsDeploymentActive(d)
  /\ \A a \in ids : AvailableForShipment(a, s, d)
  /\ shipResolution' = [shipResolution EXCEPT ![s] = "open"]
  /\ shipCarrier' = [shipCarrier EXCEPT ![s] = CarrierAfter("pending", r)]
  /\ shipItems' = [shipItems EXCEPT ![s] = ids]
  /\ shipDep' = [shipDep EXCEPT ![s] = d]
  /\ shipDirection' = [shipDirection EXCEPT ![s] = direction]
  /\ shipTo' = [shipTo EXCEPT ![s] = to]
  /\ assetLoc' = Relocated(assetLoc, DeliveryMoves("pending", r, direction, to, ids), to)
  /\ UNCHANGED <<depVars, locLogged, archived>>

AddShipmentItem(s, a) ==
  /\ IsShipmentActive(s)
  /\ AvailableForShipment(a, s, shipDep[s])
  /\ shipItems' = [shipItems EXCEPT ![s] = @ \cup {a}]
  /\ UNCHANGED <<depVars, shipResolution, shipCarrier, shipDep, shipDirection, shipTo,
                 assetVars, archived>>

RemoveShipmentItem(s, a) ==
  /\ IsShipmentActive(s)
  /\ a \in shipItems[s]
  /\ shipItems' = [shipItems EXCEPT ![s] = @ \ {a}]
  /\ UNCHANGED <<depVars, shipResolution, shipCarrier, shipDep, shipDirection, shipTo,
                 assetVars, archived>>

(* refresh_shipment: open and resolved shipments are polled, cancelled ones not. *)
RefreshShipment(s, r) ==
  LET after == CarrierAfter(shipCarrier[s], r)
      moved == DeliveryMoves(shipCarrier[s], after, shipDirection[s], shipTo[s], shipItems[s])
  IN
  /\ shipResolution[s] \in {"open", "resolved"}
  /\ shipCarrier' = [shipCarrier EXCEPT ![s] = after]
  /\ assetLoc' = Relocated(assetLoc, moved, shipTo[s])
  /\ UNCHANGED <<depVars, shipResolution, shipItems, shipDep, shipDirection, shipTo,
                 locLogged, archived>>

ResolveShipment(s) ==
  /\ shipResolution[s] = "open"
  /\ shipResolution' = [shipResolution EXCEPT ![s] = "resolved"]
  /\ UNCHANGED <<depVars, shipCarrier, shipItems, shipDep, shipDirection, shipTo,
                 assetVars, archived>>

(* cancel_shipment also cancels a resolved or a delivered shipment. *)
CancelShipment(s) ==
  /\ shipResolution[s] \in {"open", "resolved"}
  /\ shipResolution' = [shipResolution EXCEPT ![s] = "cancelled"]
  /\ UNCHANGED <<depVars, shipCarrier, shipItems, shipDep, shipDirection, shipTo,
                 assetVars, archived>>

ArchiveShipment(s) ==
  /\ s \in Archivable \ archived
  /\ shipResolution[s] # "none"
  /\ archived' = archived \cup {s}
  /\ UNCHANGED <<depVars, shipVars, assetVars>>

UnarchiveShipment(s) ==
  /\ s \in archived
  /\ archived' = archived \ {s}
  /\ UNCHANGED <<depVars, shipVars, assetVars>>

(* delete_shipment: items and events cascade.  A free key has no columns: *)
(* they are reset so that equal tables are equal states.                  *)
DeleteShipment(s) ==
  /\ shipResolution[s] # "none"
  /\ shipResolution' = [shipResolution EXCEPT ![s] = "none"]
  /\ shipCarrier' = [shipCarrier EXCEPT ![s] = "pending"]
  /\ shipItems' = [shipItems EXCEPT ![s] = {}]
  /\ shipDep' = [shipDep EXCEPT ![s] = NULL]
  /\ shipDirection' = [shipDirection EXCEPT ![s] = "outbound"]
  /\ shipTo' = [shipTo EXCEPT ![s] = NULL]
  /\ archived' = archived \ {s}
  /\ UNCHANGED <<depVars, assetVars>>

UpdateShipment(s, direction) ==
  /\ IsShipmentActive(s)
  /\ shipDirection' = [shipDirection EXCEPT ![s] = direction]
  /\ UNCHANGED <<depVars, shipResolution, shipCarrier, shipItems, shipDep, shipTo,
                 assetVars, archived>>
=============================================================================
