---------------------------- MODULE Reservations -----------------------------
(***************************************************************************)
(* The reservation system: the deployment service, the shipment service    *)
(* and the asset operations that touch their rows, on one set of tables.   *)
(* Every request is one step here; DeploymentRequests takes requests       *)
(* apart and interleaves them.                                             *)
(***************************************************************************)
EXTENDS DeploymentService, ShipmentService, ReservationRules

CONSTANT Warehouse  \* the row of "BRENTWOOD-WH", NULL in a run without locations

ASSUME WarehouseIsALocation == Warehouse \in OrNull(Locations)

-----------------------------------------------------------------------------
(* inventory_service.bulk_set_location on S: archived assets are skipped. *)
BulkSetLocation(S, l) ==
  LET moved == {a \in S \ archived : assetLoc[a] # l} IN
  /\ assetLoc' = Relocated(assetLoc, moved, l)
  /\ locLogged' = Relocated(locLogged, moved, l)
  /\ UNCHANGED <<depVars, shipVars, archived>>

(* inventory_service.assign_asset to a location: logged even if it is there. *)
AssignLocation(a, l) ==
  /\ a \notin archived
  /\ assetLoc' = Relocated(assetLoc, {a}, l)
  /\ locLogged' = Relocated(locLogged, {a}, l)
  /\ UNCHANGED <<depVars, shipVars, archived>>

(* inventory_service.archive_asset: the asset keeps its reservations. *)
ArchiveAsset(a) ==
  /\ a \in Archivable \ archived
  /\ archived' = archived \cup {a}
  /\ UNCHANGED <<depVars, shipVars, assetVars>>

(***************************************************************************)
(* The migrations that run at every boot park assets without a location at *)
(* the warehouse, and write no history.  S is what they find: assets in    *)
(* the status in_warehouse, archived or not, and unarchived ones without   *)
(* an assignee (Places has both columns and takes the boot apart).         *)
(***************************************************************************)
ParkAtBoot(S) ==
  /\ \A a \in S : assetLoc[a] = NULL
  /\ assetLoc' = Relocated(assetLoc, S, Warehouse)
  /\ UNCHANGED <<depVars, shipVars, locLogged, archived>>

-----------------------------------------------------------------------------
(* Freshly created tables and onboarded assets that have no location yet. *)
Init ==
  /\ depStatus = [d \in Deployments |-> "none"]
  /\ depItems = [d \in Deployments |-> {}]
  /\ depTarget = [d \in Deployments |-> NULL]
  /\ shipResolution = [s \in Shipments |-> "none"]
  /\ shipCarrier = [s \in Shipments |-> "pending"]
  /\ shipItems = [s \in Shipments |-> {}]
  /\ shipDep = [s \in Shipments |-> NULL]
  /\ shipDirection = [s \in Shipments |-> "outbound"]
  /\ shipTo = [s \in Shipments |-> NULL]
  /\ assetLoc = [a \in Assets |-> NULL]
  /\ locLogged = [a \in Assets |-> NULL]
  /\ archived = {}

OnDeployment(d) ==
  \/ \E ids \in SUBSET Assets, l \in OrNull(Locations) :
       CreateDeployment(d, ids, l) \/ CreateDeploymentRejected(d, ids, l)
  \/ \E l \in OrNull(Locations) : UpdateDeployment(d, l)
  \/ \E a \in Assets :
       \/ AddDeploymentItem(d, a)
       \/ ForceMoveDeploymentItem(d, a)
       \/ RemoveDeploymentItem(d, a)
  \/ StartDeployment(d)
  \/ CompleteDeployment(d)
  \/ CancelDeployment(d)
  \/ DeleteDeployment(d)
  \/ ArchiveDeployment(d)
  \/ UnarchiveDeployment(d)
  \/ \E s \in Shipments : LinkShipment(d, s) \/ UnlinkShipment(d, s)

OnShipment(s) ==
  \/ \E ids \in SUBSET Assets, d \in OrNull(Deployments), direction \in Directions,
        to \in OrNull(Locations), r \in Reports :
       CreateShipment(s, ids, d, direction, to, r)
  \/ \E a \in Assets : AddShipmentItem(s, a) \/ RemoveShipmentItem(s, a)
  \/ \E r \in Reports : RefreshShipment(s, r)
  \/ ResolveShipment(s)
  \/ CancelShipment(s)
  \/ ArchiveShipment(s)
  \/ UnarchiveShipment(s)
  \/ DeleteShipment(s)
  \/ \E direction \in Directions : UpdateShipment(s, direction)

AssetNext ==
  \/ \E S \in SUBSET Assets, l \in OrNull(Locations) : BulkSetLocation(S, l)
  \/ \E a \in Assets, l \in Locations : AssignLocation(a, l)
  \/ \E a \in Assets : ArchiveAsset(a)
  \/ \E S \in SUBSET Assets : ParkAtBoot(S)

DeploymentNext == \E d \in Deployments : OnDeployment(d)
ShipmentNext == \E s \in Shipments : OnShipment(s)

Next == DeploymentNext \/ ShipmentNext \/ AssetNext

Spec == Init /\ [][Next]_vars

-----------------------------------------------------------------------------
(***************************************************************************)
(* The tables implement the ledger: in particular an asset on a deployment *)
(* in progress cannot be moved, forced or not, before that deployment is   *)
(* completed, cancelled or deleted (deployment_service.py lines 13-14).    *)
(***************************************************************************)
ImplementsLedger == Ledger!Spec

(***************************************************************************)
(* "an asset already on an active shipment cannot be added to another"     *)
(* (shipment_service.py lines 5-6).  An asset is on two active shipments   *)
(* only after the carrier reports a delivered or excepted one as moving    *)
(* again: no request adds an asset of one active shipment to another.      *)
(***************************************************************************)
ActiveShipmentsOf(a) == {s \in Shipments : IsShipmentActive(s) /\ a \in shipItems[s]}

IsShared(a) == \E s, t \in ActiveShipmentsOf(a) : s # t

Reactivated(s) ==
  /\ shipCarrier[s] \in {"delivered", "exception"}
  /\ IsShipmentActive(s)'

SharedOnlyByReactivation ==
  [][\A a \in Assets :
       ~IsShared(a) /\ IsShared(a)' => \E s \in ActiveShipmentsOf(a)' : Reactivated(s)]_vars

(***************************************************************************)
(* An asset is held by an active deployment and in transit on somebody     *)
(* else's active shipment only after one of three events: a force-move     *)
(* (which does not look at shipments), a change of the shipment's owner    *)
(* (which does not look at items) or a reactivated shipment.               *)
(***************************************************************************)
IsTorn(a) ==
  \E d \in Deployments :
    IsDeploymentActive(d) /\ a \in depItems[d] /\ ForeignActiveShipments(a, d) # {}

TornOnlyByKnownDoors ==
  [][\A a \in Assets :
       ~IsTorn(a) /\ IsTorn(a)' =>
         \/ \E d \in Deployments : depStatus[d] = "planning" /\ a \in depItems[d] \ depItems'[d]
         \/ \E s \in ActiveShipmentsOf(a)' : shipDep[s] # shipDep'[s]
         \/ \E s \in ActiveShipmentsOf(a)' : Reactivated(s)]_vars

(***************************************************************************)
(* A deployment that was completed or cancelled is a record: until it is   *)
(* deleted its status, items and target stay what they were, whatever      *)
(* other deployments do with the same assets.                              *)
(***************************************************************************)
ClosedDeploymentIsFrozen ==
  [][\A d \in Deployments :
       depStatus[d] \in {"completed", "cancelled"} /\ depStatus'[d] # "none" =>
         /\ depStatus'[d] = depStatus[d]
         /\ depItems'[d] = depItems[d]
         /\ depTarget'[d] = depTarget[d]]_vars

(***************************************************************************)
(* A move of an asset that was somewhere is in its location history, or it *)
(* was the delivery of an inbound shipment, which writes no history.  An   *)
(* asset that was nowhere may also have been parked by a boot, unlogged.   *)
(***************************************************************************)
Parked(a) == assetLoc[a] = NULL /\ assetLoc'[a] = Warehouse

Delivered(a) ==
  \E s \in Shipments :
    /\ a \in shipItems'[s]
    /\ shipDirection'[s] = "inbound"
    /\ shipCarrier[s] # "delivered" /\ shipCarrier'[s] = "delivered"
    /\ shipTo'[s] = assetLoc'[a]

MoveIsLogged ==
  [][\A a \in Assets :
       assetLoc'[a] # assetLoc[a] =>
         \/ locLogged'[a] = assetLoc'[a]
         \/ Delivered(a)
         \/ Parked(a) /\ UNCHANGED <<depVars, shipVars>>]_vars

(***************************************************************************)
(* An archived asset stays where it is: completion, inbound delivery and   *)
(* bulk moves each skip it, though it may still be an item of any of them. *)
(* Only the boot places one, if it was nowhere (main.py lines 71-77 do not *)
(* look at archived_at).                                                   *)
(***************************************************************************)
ArchivedAssetStaysPut ==
  [][\A a \in Assets \cap archived :
       assetLoc'[a] # assetLoc[a] => Parked(a) /\ UNCHANGED <<depVars, shipVars>>]_vars

-----------------------------------------------------------------------------
(***************************************************************************)
(* deployment_service.py lines 13-14: "If the conflict is in_progress      *)
(* deployment OR active shipment not on this same deployment -> blocked,   *)
(* no force".  An asset that joins a deployment is on no active shipment   *)
(* of somebody else.                                                       *)
(***************************************************************************)
ForeignShipmentBlocksAdd ==
  [][\A d \in Deployments, a \in Assets :
       a \in depItems'[d] \ depItems[d] => ForeignActiveShipments(a, d) = {}]_vars
=============================================================================
