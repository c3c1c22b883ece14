--------------------------- MODULE InventoryTables ---------------------------
(***************************************************************************)
(* The tables the deployment and shipment services share, and the queries  *)
(* both services run on them.  A row is named by its primary key; a        *)
(* nullable column holds NULL; a row that does not exist has the status    *)
(* "none" (SQLite may give the key of a deleted row to a new one).         *)
(*                                                                         *)
(* app/models/inventory.py declares the columns, deployment_service.py and *)
(* shipment_service.py the queries.  Names, notes, addresses, actors and   *)
(* timestamps are left out: no guard reads them.                           *)
(***************************************************************************)
EXTENDS Naturals

CONSTANTS
  Assets,          \* primary keys of assets
  Deployments,     \* primary keys of deployments
  Shipments,       \* primary keys of shipments
  Locations,       \* primary keys of locations
  NULL,            \* SQL NULL
  Directions,      \* the shipment directions a run uses
  CarrierReports,  \* the carrier statuses a run lets the carriers report
  Archivable       \* bound: the rows a run lets users archive

ASSUME KeysAreDistinct ==
  /\ NULL \notin Assets \cup Deployments \cup Shipments \cup Locations
  /\ Assets \cap Deployments = {}
  /\ Assets \cap Shipments = {}
  /\ Deployments \cap Shipments = {}

ASSUME ColumnDomains ==
  /\ Directions \subseteq {"inbound", "outbound"}
  /\ CarrierReports \subseteq {"pending", "in_transit", "delivered", "exception"}
  /\ Archivable \subseteq Assets \cup Deployments \cup Shipments

VARIABLES
  depStatus,       \* deployments.status
  depItems,        \* deployment_items: the assets of each deployment
  depTarget,       \* deployments.target_location_id
  shipResolution,  \* shipments.resolution
  shipCarrier,     \* shipments.carrier_status
  shipItems,       \* shipment_items: the assets of each shipment
  shipDep,         \* shipments.deployment_id
  shipDirection,   \* shipments.direction
  shipTo,          \* shipments.to_location_id
  assetLoc,        \* assets.location_id
  locLogged,       \* to_value of the asset's last location_change history row
  archived         \* rows with archived_at set

depVars   == <<depStatus, depItems, depTarget>>
shipVars  == <<shipResolution, shipCarrier, shipItems, shipDep, shipDirection, shipTo>>
assetVars == <<assetLoc, locLogged>>
vars      == <<depVars, shipVars, assetVars, archived>>

OrNull(S) == S \cup {NULL}

DeploymentStatus == {"planning", "in_progress", "completed", "cancelled"}

(***************************************************************************)
(* "pending" and "in_transit" also stand for out_for_delivery and unknown, *)
(* which no guard tells from them.                                         *)
(***************************************************************************)
CarrierStatus == {"pending", "in_transit", "delivered", "exception"}

Resolution == {"open", "resolved", "cancelled"}

TypeOK ==
  /\ depStatus \in [Deployments -> DeploymentStatus \cup {"none"}]
  /\ depItems \in [Deployments -> SUBSET Assets]
  /\ depTarget \in [Deployments -> OrNull(Locations)]
  /\ shipResolution \in [Shipments -> Resolution \cup {"none"}]
  /\ shipCarrier \in [Shipments -> CarrierStatus]
  /\ shipItems \in [Shipments -> SUBSET Assets]
  /\ shipDep \in [Shipments -> OrNull(Deployments)]
  /\ shipDirection \in [Shipments -> {"inbound", "outbound"}]
  /\ shipTo \in [Shipments -> OrNull(Locations)]
  /\ assetLoc \in [Assets -> OrNull(Locations)]
  /\ locLogged \in [Assets -> OrNull(Locations)]
  /\ archived \subseteq Assets \cup Deployments \cup Shipments

-----------------------------------------------------------------------------
(* The statuses that reserve a deployment's assets. *)
ActiveStatuses == {"planning", "in_progress"}

IsDeploymentActive(d) == depStatus[d] \in ActiveStatuses

(* A shipment reserves its assets while open and not delivered/exception. *)
IsShipmentActive(s) ==
  /\ shipResolution[s] = "open"
  /\ shipCarrier[s] \notin {"delivered", "exception"}

(* active_deployment_for_asset(..., exclude_deployment_id = d). *)
OtherActiveDeployments(a, d) ==
  {e \in Deployments \ {d} : IsDeploymentActive(e) /\ a \in depItems[e]}

(* active_shipment_for_asset(..., exclude_deployment_id = d). *)
ForeignActiveShipments(a, d) ==
  {s \in Shipments : IsShipmentActive(s) /\ a \in shipItems[s] /\ shipDep[s] # d}

(* _other_active_shipment_for_asset(..., exclude_shipment_id = s). *)
OtherActiveShipments(a, s) ==
  {t \in Shipments \ {s} : IsShipmentActive(t) /\ a \in shipItems[t]}

(* The new value of a location column: S takes l, the other assets keep theirs. *)
Relocated(column, S, l) == [a \in Assets |-> IF a \in S THEN l ELSE column[a]]
=============================================================================
