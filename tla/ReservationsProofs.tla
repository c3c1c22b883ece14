------------------------- MODULE ReservationsProofs --------------------------
(***************************************************************************)
(* Theorems about Reservations, for any sets of assets, deployments,       *)
(* shipments and locations.                                                *)
(***************************************************************************)
EXTENDS Reservations, LedgerProofs, TLAPS

(* Moving some assets to a location, or to none, keeps the column typed. *)
LEMMA RelocatedType ==
  ASSUME NEW column \in [Assets -> OrNull(Locations)], NEW S, NEW l \in OrNull(Locations)
  PROVE  Relocated(column, S, l) \in [Assets -> OrNull(Locations)]
BY DEF Relocated

(* The empty tables are well typed. *)
LEMMA InitTypeOK == Init => TypeOK
BY DEF Init, TypeOK, OrNull, DeploymentStatus, CarrierStatus, Resolution

(***************************************************************************)
(* Each operation of the deployment service writes well-typed rows.        *)
(***************************************************************************)
LEMMA DeploymentNextTypeOK == TypeOK /\ DeploymentNext => TypeOK'
<1> SUFFICES ASSUME TypeOK, NEW d \in Deployments, OnDeployment(d)
             PROVE  TypeOK'
  BY DEF DeploymentNext
<1> USE DEF TypeOK, depVars, shipVars, assetVars, OrNull, DeploymentStatus
<1>1. CASE \E ids \in SUBSET Assets, l \in OrNull(Locations) :
             CreateDeployment(d, ids, l) \/ CreateDeploymentRejected(d, ids, l)
  BY <1>1 DEF CreateDeployment, CreateDeploymentRejected
<1>2. CASE \E l \in OrNull(Locations) : UpdateDeployment(d, l)
  BY <1>2 DEF UpdateDeployment
<1>3. ASSUME NEW a \in Assets, AddDeploymentItem(d, a) \/ RemoveDeploymentItem(d, a)
      PROVE  TypeOK'
  BY <1>3 DEF AddDeploymentItem, RemoveDeploymentItem
<1>4. ASSUME NEW a \in Assets, ForceMoveDeploymentItem(d, a)
      PROVE  TypeOK'
  BY <1>4 DEF ForceMoveDeploymentItem, MovableFrom, OtherActiveDeployments
<1>5. CASE StartDeployment(d)
  BY <1>5 DEF StartDeployment
<1>6. CASE CompleteDeployment(d)
  <2>1. depTarget[d] \in OrNull(Locations)
    OBVIOUS
  <2>2. /\ assetLoc' \in [Assets -> OrNull(Locations)]
        /\ locLogged' \in [Assets -> OrNull(Locations)]
    BY <1>6, <2>1, RelocatedType DEF CompleteDeployment
  <2>3. depStatus' \in [Deployments -> DeploymentStatus \cup {"none"}]
    BY <1>6 DEF CompleteDeployment
  <2>4. QED
    BY <1>6, <2>2, <2>3 DEF CompleteDeployment
<1>7. CASE CancelDeployment(d)
  BY <1>7 DEF CancelDeployment
<1>8. CASE DeleteDeployment(d)
  BY <1>8 DEF DeleteDeployment
<1>9. CASE ArchiveDeployment(d) \/ UnarchiveDeployment(d)
  BY <1>9, ColumnDomains DEF ArchiveDeployment, UnarchiveDeployment
<1>10. ASSUME NEW s \in Shipments, LinkShipment(d, s) \/ UnlinkShipment(d, s)
       PROVE  TypeOK'
  BY <1>10 DEF LinkShipment, UnlinkShipment
<1>11. QED
  BY <1>1, <1>2, <1>3, <1>4, <1>5, <1>6, <1>7, <1>8, <1>9, <1>10 DEF OnDeployment

(***************************************************************************)
(* Each operation of the shipment service writes well-typed rows.          *)
(***************************************************************************)
LEMMA ShipmentNextTypeOK == TypeOK /\ ShipmentNext => TypeOK'
<1> SUFFICES ASSUME TypeOK, NEW s \in Shipments, OnShipment(s)
             PROVE  TypeOK'
  BY DEF ShipmentNext
<1> USE DEF TypeOK, depVars, shipVars, assetVars
<1>1. ASSUME NEW status \in CarrierStatus, NEW r \in Reports
      PROVE  CarrierAfter(status, r) \in CarrierStatus
  BY <1>1, ColumnDomains DEF CarrierAfter, Reports, CarrierStatus, NoReport
<1>2. ASSUME NEW ids \in SUBSET Assets, NEW d \in OrNull(Deployments),
             NEW direction \in Directions, NEW to \in OrNull(Locations), NEW r \in Reports,
             CreateShipment(s, ids, d, direction, to, r)
      PROVE  TypeOK'
  <2>1. assetLoc' \in [Assets -> OrNull(Locations)]
    BY <1>2, RelocatedType DEF CreateShipment
  <2>2. CarrierAfter("pending", r) \in CarrierStatus
    BY <1>1 DEF CarrierStatus
  <2>3. QED
    BY <1>2, <2>1, <2>2, ColumnDomains DEF CreateShipment, Resolution
<1>3. ASSUME NEW a \in Assets, AddShipmentItem(s, a) \/ RemoveShipmentItem(s, a)
      PROVE  TypeOK'
  BY <1>3 DEF AddShipmentItem, RemoveShipmentItem
<1>4. ASSUME NEW r \in Reports, RefreshShipment(s, r)
      PROVE  TypeOK'
  <2>1. shipTo[s] \in OrNull(Locations) /\ shipCarrier[s] \in CarrierStatus
    OBVIOUS
  <2>2. assetLoc' \in [Assets -> OrNull(Locations)]
    BY <1>4, <2>1, RelocatedType DEF RefreshShipment
  <2>3. CarrierAfter(shipCarrier[s], r) \in CarrierStatus
    BY <1>1, <2>1
  <2>4. QED
    BY <1>4, <2>2, <2>3 DEF RefreshShipment
<1>5. CASE ResolveShipment(s) \/ CancelShipment(s)
  BY <1>5 DEF ResolveShipment, CancelShipment, Resolution
<1>6. CASE ArchiveShipment(s) \/ UnarchiveShipment(s)
  BY <1>6 DEF ArchiveShipment, UnarchiveShipment
<1>7. CASE DeleteShipment(s)
  BY <1>7 DEF DeleteShipment, CarrierStatus, OrNull
<1>8. ASSUME NEW direction \in Directions, UpdateShipment(s, direction)
      PROVE  TypeOK'
  BY <1>8, ColumnDomains DEF UpdateShipment
<1>9. QED
  BY <1>2, <1>3, <1>4, <1>5, <1>6, <1>7, <1>8 DEF OnShipment

LEMMA AssetNextTypeOK == TypeOK /\ AssetNext => TypeOK'
<1> SUFFICES ASSUME TypeOK, AssetNext
             PROVE  TypeOK'
  OBVIOUS
<1> USE DEF TypeOK, depVars, shipVars, assetVars
<1>1. ASSUME NEW S \in SUBSET Assets, NEW l \in OrNull(Locations), BulkSetLocation(S, l)
      PROVE  TypeOK'
  <2>1. /\ assetLoc' \in [Assets -> OrNull(Locations)]
        /\ locLogged' \in [Assets -> OrNull(Locations)]
    BY <1>1, RelocatedType DEF BulkSetLocation
  <2>2. QED
    BY <1>1, <2>1 DEF BulkSetLocation
<1>2. ASSUME NEW a \in Assets, ArchiveAsset(a)
      PROVE  TypeOK'
  BY <1>2 DEF ArchiveAsset
<1>3. ASSUME NEW a \in Assets, NEW l \in Locations, AssignLocation(a, l)
      PROVE  TypeOK'
  <2>1. l \in OrNull(Locations)
    BY DEF OrNull
  <2>2. /\ assetLoc' \in [Assets -> OrNull(Locations)]
        /\ locLogged' \in [Assets -> OrNull(Locations)]
    BY <1>3, <2>1, RelocatedType DEF AssignLocation
  <2>3. QED
    BY <1>3, <2>2 DEF AssignLocation
<1>4. ASSUME NEW S \in SUBSET Assets, ParkAtBoot(S)
      PROVE  TypeOK'
  <2>1. assetLoc' \in [Assets -> OrNull(Locations)]
    BY <1>4, RelocatedType, WarehouseIsALocation DEF ParkAtBoot
  <2>2. QED
    BY <1>4, <2>1 DEF ParkAtBoot
<1>5. QED
  BY <1>1, <1>2, <1>3, <1>4 DEF AssetNext

(* A step that changes no table changes no type. *)
LEMMA StutterTypeOK == TypeOK /\ UNCHANGED vars => TypeOK'
BY DEF TypeOK, vars, depVars, shipVars, assetVars

(***************************************************************************)
(* The tables are well typed in every reachable state: the status, link    *)
(* and location columns only ever hold the values their guards expect.     *)
(***************************************************************************)
THEOREM TypeCorrect == Spec => []TypeOK
<1>1. TypeOK /\ [Next]_vars => TypeOK'
  BY DeploymentNextTypeOK, ShipmentNextTypeOK, AssetNextTypeOK, StutterTypeOK DEF Next
<1>2. QED
  BY InitTypeOK, <1>1, PTL DEF Spec

-----------------------------------------------------------------------------
(***************************************************************************)
(* The inductive invariant.  OneActiveDeployment is not inductive alone: a *)
(* refused creation makes a free key an active deployment without checking *)
(* its items, which is harmless because a free key owns none.              *)
(***************************************************************************)
IInv ==
  /\ TypeOK
  /\ OneActiveDeployment
  /\ InProgressHasItems
  /\ NoDanglingRows

LEMMA InitIInv == Init => IInv
BY InitTypeOK
   DEF Init, IInv, OneActiveDeployment, InProgressHasItems, NoDanglingRows, IsDeploymentActive,
       ActiveStatuses

(***************************************************************************)
(* Creating a deployment gives an unused key items no active deployment    *)
(* has; a refused creation gives it none.                                  *)
(***************************************************************************)
LEMMA CreateKeepsIInv ==
  ASSUME IInv, TypeOK', NEW d \in Deployments, NEW ids \in SUBSET Assets, NEW l,
         CreateDeployment(d, ids, l) \/ CreateDeploymentRejected(d, ids, l)
  PROVE  IInv'
<1> USE DEF IInv, TypeOK, IsDeploymentActive, ActiveStatuses
<1>1. OneActiveDeployment'
  <2>1. CASE CreateDeployment(d, ids, l)
    BY <2>1 DEF CreateDeployment, OneActiveDeployment, AvailableForDeployment,
                OtherActiveDeployments
  <2>2. CASE CreateDeploymentRejected(d, ids, l)
    BY <2>2 DEF CreateDeploymentRejected, OneActiveDeployment, NoDanglingRows
  <2>3. QED
    BY <2>1, <2>2
<1>2. InProgressHasItems'
  BY DEF CreateDeployment, CreateDeploymentRejected, InProgressHasItems
<1>3. NoDanglingRows'
  <2>1. /\ depStatus' = [depStatus EXCEPT ![d] = "planning"]
        /\ \A e \in Deployments \ {d} : depItems'[e] = depItems[e]
        /\ UNCHANGED shipVars
    BY DEF CreateDeployment, CreateDeploymentRejected
  <2>2. \A e \in Deployments : depStatus'[e] = "none" => e # d /\ depStatus[e] = "none"
    BY <2>1
  <2>3. QED
    BY <2>1, <2>2 DEF NoDanglingRows, shipVars, OrNull
<1>4. QED
  BY <1>1, <1>2, <1>3

(***************************************************************************)
(* The item operations work on planning deployments only, and an asset     *)
(* that is added was free or leaves the one other deployment that had it.  *)
(***************************************************************************)
LEMMA ItemsKeepIInv ==
  ASSUME IInv, TypeOK', NEW d \in Deployments, NEW a \in Assets,
         \/ AddDeploymentItem(d, a)
         \/ ForceMoveDeploymentItem(d, a)
         \/ RemoveDeploymentItem(d, a)
  PROVE  IInv'
<1> USE DEF IInv, TypeOK, IsDeploymentActive, ActiveStatuses
<1>1. CASE AddDeploymentItem(d, a)
  <2>1. OneActiveDeployment'
    BY <1>1 DEF AddDeploymentItem, OneActiveDeployment, AvailableForDeployment,
                OtherActiveDeployments
  <2>2. InProgressHasItems' /\ NoDanglingRows'
    BY <1>1 DEF AddDeploymentItem, InProgressHasItems, NoDanglingRows, shipVars
  <2>3. QED
    BY <2>1, <2>2
<1>2. CASE ForceMoveDeploymentItem(d, a)
  <2>1. PICK e \in MovableFrom(a, d) :
          depItems' = [depItems EXCEPT ![e] = @ \ {a}, ![d] = @ \cup {a}]
    BY <1>2 DEF ForceMoveDeploymentItem
  <2>2. /\ e \in Deployments /\ e # d
        /\ depStatus[e] = "planning" /\ depStatus[d] = "planning"
        /\ a \in depItems[e]
        /\ UNCHANGED <<depStatus, shipVars>>
    BY <1>2 DEF ForceMoveDeploymentItem, MovableFrom, OtherActiveDeployments
  <2>3. /\ depItems'[e] = depItems[e] \ {a}
        /\ depItems'[d] = depItems[d] \cup {a}
        /\ \A f \in Deployments \ {d, e} : depItems'[f] = depItems[f]
    BY <2>1, <2>2
  <2>4. OneActiveDeployment'
    <3> SUFFICES ASSUME NEW f \in Deployments, NEW g \in Deployments, f # g,
                        IsDeploymentActive(f)', IsDeploymentActive(g)',
                        NEW b \in depItems'[f] \cap depItems'[g]
                 PROVE  FALSE
      BY DEF OneActiveDeployment
    <3>1. \A h \in Deployments : b \in depItems'[h] => b \in depItems[h] \/ (h = d /\ b = a)
      BY <2>3
    <3>2. \A h \in Deployments : IsDeploymentActive(h)' => IsDeploymentActive(h)
      BY <2>2
    <3>3. ~(b \in depItems[f] /\ b \in depItems[g])
      BY <3>2 DEF OneActiveDeployment
    <3>4. b = a
      BY <3>1, <3>3
    <3>5. \A h \in Deployments : IsDeploymentActive(h) /\ a \in depItems[h] => h = e
      BY <2>2 DEF OneActiveDeployment
    <3>6. \A h \in Deployments \ {d} : IsDeploymentActive(h) => a \notin depItems'[h]
      BY <2>3, <3>5
    <3>7. QED
      BY <3>2, <3>4, <3>6
  <2>5. InProgressHasItems'
    BY <2>2, <2>3 DEF InProgressHasItems
  <2>6. NoDanglingRows'
    BY <2>2, <2>3 DEF NoDanglingRows, shipVars
  <2>7. QED
    BY <2>4, <2>5, <2>6
<1>3. CASE RemoveDeploymentItem(d, a)
  BY <1>3 DEF RemoveDeploymentItem, OneActiveDeployment, InProgressHasItems, NoDanglingRows, shipVars
<1>4. QED
  BY <1>1, <1>2, <1>3

(* No lifecycle operation activates a deployment that was not active. *)
LEMMA LifecycleKeepsIInv ==
  ASSUME IInv, TypeOK', NEW d \in Deployments,
         \/ StartDeployment(d)
         \/ CompleteDeployment(d)
         \/ CancelDeployment(d)
         \/ DeleteDeployment(d)
  PROVE  IInv'
<1> USE DEF IInv, TypeOK, IsDeploymentActive, ActiveStatuses, OneActiveDeployment,
            InProgressHasItems, NoDanglingRows, shipVars
<1>1. CASE StartDeployment(d)
  BY <1>1 DEF StartDeployment
<1>2. CASE CompleteDeployment(d)
  BY <1>2 DEF CompleteDeployment
<1>3. CASE CancelDeployment(d)
  BY <1>3 DEF CancelDeployment
<1>4. CASE DeleteDeployment(d)
  BY <1>4 DEF DeleteDeployment
<1>5. QED
  BY <1>1, <1>2, <1>3, <1>4

(***************************************************************************)
(* The operations on shipments change no deployment row, and the ones that *)
(* link a shipment look the deployment up first.                           *)
(***************************************************************************)
LEMMA LinkKeepsIInv ==
  ASSUME IInv, TypeOK', NEW d \in Deployments, NEW s \in Shipments,
         LinkShipment(d, s) \/ UnlinkShipment(d, s)
  PROVE  IInv'
<1> USE DEF IInv, TypeOK, OneActiveDeployment, InProgressHasItems, NoDanglingRows, depVars,
            IsDeploymentActive, ActiveStatuses
<1>1. CASE LinkShipment(d, s)
  BY <1>1 DEF LinkShipment
<1>2. CASE UnlinkShipment(d, s)
  BY <1>2 DEF UnlinkShipment
<1>3. QED
  BY <1>1, <1>2

LEMMA ShipmentNextKeepsIInv ==
  ASSUME IInv, TypeOK', ShipmentNext
  PROVE  IInv'
<1> USE DEF IInv, TypeOK, depVars, IsDeploymentActive, ActiveStatuses, shipVars
<1>1. UNCHANGED <<depStatus, depItems>>
  BY DEF ShipmentNext, OnShipment, CreateShipment, AddShipmentItem, RemoveShipmentItem,
         RefreshShipment, ResolveShipment, CancelShipment, ArchiveShipment, UnarchiveShipment, DeleteShipment,
         UpdateShipment
<1>2. OneActiveDeployment' /\ InProgressHasItems'
  BY <1>1 DEF OneActiveDeployment, InProgressHasItems
<1>3. NoDanglingRows'
  <2> USE <1>1 DEF NoDanglingRows
  <2> PICK s \in Shipments : OnShipment(s)
    BY DEF ShipmentNext
  <2>1. ASSUME NEW ids \in SUBSET Assets, NEW d \in OrNull(Deployments),
               NEW direction \in Directions, NEW to \in OrNull(Locations), NEW r \in Reports,
               CreateShipment(s, ids, d, direction, to, r)
        PROVE  NoDanglingRows'
    BY <2>1 DEF CreateShipment, OrNull
  <2>2. ASSUME NEW a \in Assets, AddShipmentItem(s, a) \/ RemoveShipmentItem(s, a)
        PROVE  NoDanglingRows'
    BY <2>2 DEF AddShipmentItem, RemoveShipmentItem, IsShipmentActive
  <2>3. ASSUME NEW r \in Reports, RefreshShipment(s, r)
        PROVE  NoDanglingRows'
    BY <2>3 DEF RefreshShipment
  <2>4. CASE ResolveShipment(s) \/ CancelShipment(s)
    BY <2>4 DEF ResolveShipment, CancelShipment
  <2>5. CASE ArchiveShipment(s) \/ UnarchiveShipment(s)
    BY <2>5 DEF ArchiveShipment, UnarchiveShipment
  <2>6. CASE DeleteShipment(s)
    BY <2>6 DEF DeleteShipment
  <2>7. ASSUME NEW direction \in Directions, UpdateShipment(s, direction)
        PROVE  NoDanglingRows'
    BY <2>7 DEF UpdateShipment
  <2>8. QED
    BY <2>1, <2>2, <2>3, <2>4, <2>5, <2>6, <2>7 DEF OnShipment
<1>4. QED
  BY <1>2, <1>3

(* Every step keeps the inductive invariant. *)
LEMMA NextIInv == IInv /\ [Next]_vars => IInv'
<1> SUFFICES ASSUME IInv, [Next]_vars
             PROVE  IInv'
  OBVIOUS
<1>1. TypeOK'
  BY DeploymentNextTypeOK, ShipmentNextTypeOK, AssetNextTypeOK, StutterTypeOK DEF Next, IInv
<1>2. ASSUME UNCHANGED <<depStatus, depItems, shipVars>>
      PROVE  IInv'
  BY <1>1, <1>2 DEF IInv, OneActiveDeployment, InProgressHasItems, NoDanglingRows, shipVars,
                    IsDeploymentActive, ActiveStatuses
<1>3. ASSUME DeploymentNext
      PROVE  IInv'
  <2>1. PICK d \in Deployments : OnDeployment(d)
    BY <1>3 DEF DeploymentNext
  <2>2. CASE \E l \in OrNull(Locations) : UpdateDeployment(d, l)
    BY <1>2, <2>2 DEF UpdateDeployment
  <2>3. CASE ArchiveDeployment(d) \/ UnarchiveDeployment(d)
    BY <1>2, <2>3 DEF ArchiveDeployment, UnarchiveDeployment, depVars
  <2>4. QED
    BY <1>1, <2>1, <2>2, <2>3, CreateKeepsIInv, ItemsKeepIInv, LifecycleKeepsIInv, LinkKeepsIInv DEF OnDeployment
<1>4. CASE AssetNext
  BY <1>2, <1>4 DEF AssetNext, BulkSetLocation, AssignLocation, ArchiveAsset, ParkAtBoot, depVars
<1>5. CASE UNCHANGED vars
  BY <1>2, <1>5 DEF vars, depVars
<1>6. QED
  BY <1>1, <1>3, <1>4, <1>5, ShipmentNextKeepsIInv DEF Next

LEMMA InvariantHolds == Spec => []IInv
BY InitIInv, NextIInv, PTL DEF Spec

(***************************************************************************)
(* No asset is ever on two active deployments when requests do not overlap *)
(* (the reservation rule of deployment_service.py lines 8-14).             *)
(***************************************************************************)
THEOREM ReservationIsExclusive == Spec => []OneActiveDeployment
<1>1. IInv => OneActiveDeployment
  BY DEF IInv
<1>2. QED
  BY <1>1, InvariantHolds, PTL

(***************************************************************************)
(* A deployment in progress always has items: what start_deployment checks *)
(* stays true until the deployment is closed.                              *)
(***************************************************************************)
THEOREM StartedDeploymentKeepsItems == Spec => []InProgressHasItems
<1>1. IInv => InProgressHasItems
  BY DEF IInv
<1>2. QED
  BY <1>1, InvariantHolds, PTL

(***************************************************************************)
(* The hard deletes leave no link to a deployment that is gone and no item *)
(* of a record that is gone.                                               *)
(***************************************************************************)
THEOREM ForeignKeysHold == Spec => []NoDanglingRows
<1>1. IInv => NoDanglingRows
  BY DEF IInv
<1>2. QED
  BY <1>1, InvariantHolds, PTL

-----------------------------------------------------------------------------
(* The operations that move assets, and the ones that only rewrite rows. *)
LEMMA WhoMoves ==
  ASSUME [Next]_vars
  PROVE  \/ UNCHANGED assetLoc
         \/ \E d \in Deployments : CompleteDeployment(d)
         \/ \E s \in Shipments, ids \in SUBSET Assets : \E d, direction, to, r :
              CreateShipment(s, ids, d, direction, to, r)
         \/ \E s \in Shipments, r \in Reports : RefreshShipment(s, r)
         \/ \E S \in SUBSET Assets : \E l : BulkSetLocation(S, l)
         \/ \E a \in Assets : \E l : AssignLocation(a, l)
         \/ \E S \in SUBSET Assets : ParkAtBoot(S)
<1>1. DeploymentNext => UNCHANGED assetLoc \/ \E d \in Deployments : CompleteDeployment(d)
  BY DEF DeploymentNext, OnDeployment, CreateDeployment, CreateDeploymentRejected, UpdateDeployment,
         AddDeploymentItem, ForceMoveDeploymentItem, RemoveDeploymentItem, StartDeployment,
         CancelDeployment, DeleteDeployment, ArchiveDeployment, UnarchiveDeployment,
         LinkShipment, UnlinkShipment, assetVars
<1>2. ASSUME ShipmentNext
      PROVE  \/ UNCHANGED assetLoc
             \/ \E s \in Shipments, ids \in SUBSET Assets : \E d, direction, to, r :
                  CreateShipment(s, ids, d, direction, to, r)
             \/ \E s \in Shipments, r \in Reports : RefreshShipment(s, r)
  <2> PICK s \in Shipments : OnShipment(s)
    BY <1>2 DEF ShipmentNext
  <2>1. \/ \E a \in Assets : AddShipmentItem(s, a) \/ RemoveShipmentItem(s, a)
        \/ ResolveShipment(s)
        \/ CancelShipment(s)
        \/ ArchiveShipment(s)
        \/ UnarchiveShipment(s)
        \/ DeleteShipment(s)
        \/ \E direction \in Directions : UpdateShipment(s, direction)
        => UNCHANGED assetLoc
    BY DEF AddShipmentItem, RemoveShipmentItem, ResolveShipment, CancelShipment,
           ArchiveShipment, UnarchiveShipment, DeleteShipment, UpdateShipment, assetVars
  <2>2. QED
    BY <2>1 DEF OnShipment
<1>3. ASSUME AssetNext
      PROVE  \/ UNCHANGED assetLoc
             \/ \E S \in SUBSET Assets : \E l : BulkSetLocation(S, l)
             \/ \E a \in Assets : \E l : AssignLocation(a, l)
             \/ \E S \in SUBSET Assets : ParkAtBoot(S)
  BY <1>3 DEF AssetNext, ArchiveAsset, assetVars
<1>4. UNCHANGED vars => UNCHANGED assetLoc
  BY DEF vars, assetVars
<1>5. QED
  BY <1>1, <1>2, <1>3, <1>4 DEF Next

(***************************************************************************)
(* An archived asset stays where it is, though it may be an item of a      *)
(* deployment that is completed or of an inbound shipment that arrives:    *)
(* only a boot moves one, from nowhere to the warehouse.                   *)
(***************************************************************************)
THEOREM ArchivedAssetsStayPut == Spec => ArchivedAssetStaysPut
<1>1. ASSUME TypeOK, [Next]_vars, NEW a \in Assets \cap archived, assetLoc'[a] # assetLoc[a]
      PROVE  Parked(a) /\ UNCHANGED <<depVars, shipVars>>
  <2> USE <1>1 DEF TypeOK, Relocated
  <2>1. ASSUME NEW d \in Deployments, CompleteDeployment(d)
        PROVE  FALSE
    BY <2>1 DEF CompleteDeployment, CompletionMoves
  <2>2. ASSUME NEW s \in Shipments, NEW ids, NEW d, NEW direction, NEW to, NEW r,
               CreateShipment(s, ids, d, direction, to, r)
        PROVE  FALSE
    BY <2>2 DEF CreateShipment, DeliveryMoves
  <2>3. ASSUME NEW s \in Shipments, NEW r, RefreshShipment(s, r)
        PROVE  FALSE
    BY <2>3 DEF RefreshShipment, DeliveryMoves
  <2>4. ASSUME NEW S \in SUBSET Assets, NEW l, BulkSetLocation(S, l)
        PROVE  FALSE
    BY <2>4 DEF BulkSetLocation
  <2>5. ASSUME NEW b \in Assets, NEW l, AssignLocation(b, l)
        PROVE  FALSE
    BY <2>5 DEF AssignLocation
  <2>6. ASSUME NEW S \in SUBSET Assets, ParkAtBoot(S)
        PROVE  Parked(a) /\ UNCHANGED <<depVars, shipVars>>
    BY <2>6 DEF ParkAtBoot, Parked
  <2>7. QED
    BY <2>1, <2>2, <2>3, <2>4, <2>5, <2>6, WhoMoves
<1>2. TypeOK /\ [Next]_vars =>
        [\A a \in Assets \cap archived :
           assetLoc'[a] # assetLoc[a] => Parked(a) /\ UNCHANGED <<depVars, shipVars>>]_vars
  BY <1>1
<1>3. QED
  BY <1>2, TypeCorrect, PTL DEF Spec, ArchivedAssetStaysPut

(***************************************************************************)
(* A free key of shipments has the carrier status that a new row gets, so  *)
(* that the delivery a creation may bring is told from one stored before.  *)
(***************************************************************************)
FreeKeysArePending == \A s \in Shipments : shipResolution[s] = "none" => shipCarrier[s] = "pending"

LEMMA FreeKeysStayPending == Spec => []FreeKeysArePending
<1>1. Init => FreeKeysArePending
  BY DEF Init, FreeKeysArePending
<1>2. ASSUME TypeOK, FreeKeysArePending, ShipmentNext
      PROVE  FreeKeysArePending'
  <2> PICK s \in Shipments : OnShipment(s)
    BY <1>2 DEF ShipmentNext
  <2> USE <1>2 DEF TypeOK, FreeKeysArePending
  <2>1. \A ids, d, direction, to, r :
          CreateShipment(s, ids, d, direction, to, r) => FreeKeysArePending'
    BY DEF CreateShipment
  <2>2. \A a : AddShipmentItem(s, a) \/ RemoveShipmentItem(s, a) => FreeKeysArePending'
    BY DEF AddShipmentItem, RemoveShipmentItem
  <2>3. \A r : RefreshShipment(s, r) => FreeKeysArePending'
    BY DEF RefreshShipment
  <2>4. ResolveShipment(s) \/ CancelShipment(s) => FreeKeysArePending'
    BY DEF ResolveShipment, CancelShipment
  <2>5. ArchiveShipment(s) \/ UnarchiveShipment(s) => FreeKeysArePending'
    BY DEF ArchiveShipment, UnarchiveShipment, shipVars
  <2>6. DeleteShipment(s) => FreeKeysArePending'
    BY DEF DeleteShipment
  <2>7. \A direction : UpdateShipment(s, direction) => FreeKeysArePending'
    BY DEF UpdateShipment
  <2>8. QED
    BY <2>1, <2>2, <2>3, <2>4, <2>5, <2>6, <2>7 DEF OnShipment
<1>3. DeploymentNext \/ AssetNext \/ UNCHANGED vars => UNCHANGED <<shipResolution, shipCarrier>>
  BY DEF DeploymentNext, OnDeployment, CreateDeployment, CreateDeploymentRejected, UpdateDeployment,
         AddDeploymentItem, ForceMoveDeploymentItem, RemoveDeploymentItem, StartDeployment,
         CompleteDeployment, CancelDeployment, DeleteDeployment, ArchiveDeployment,
         UnarchiveDeployment, LinkShipment, UnlinkShipment, AssetNext, BulkSetLocation,
         AssignLocation, ArchiveAsset, ParkAtBoot, shipVars, vars
<1>4. TypeOK /\ FreeKeysArePending /\ [Next]_vars => FreeKeysArePending'
  <2>1. FreeKeysArePending /\ UNCHANGED <<shipResolution, shipCarrier>> => FreeKeysArePending'
    BY DEF FreeKeysArePending
  <2>2. QED
    BY <1>2, <1>3, <2>1 DEF Next
<1>5. QED
  BY <1>1, <1>4, TypeCorrect, PTL DEF Spec

(***************************************************************************)
(* Every move is in the asset's location history, but for the drop of an   *)
(* inbound delivery (and then the shipment that lists the asset has just   *)
(* become delivered, and the asset is where it was sent) and the boot that *)
(* parks an asset which was nowhere.                                       *)
(***************************************************************************)
THEOREM MovesAreLogged == Spec => MoveIsLogged
<1>1. ASSUME TypeOK, FreeKeysArePending, [Next]_vars,
             NEW a \in Assets, assetLoc'[a] # assetLoc[a]
      PROVE  \/ locLogged'[a] = assetLoc'[a]
             \/ Delivered(a)
             \/ Parked(a) /\ UNCHANGED <<depVars, shipVars>>
  <2> USE <1>1 DEF TypeOK, Relocated
  <2>1. ASSUME NEW d \in Deployments, CompleteDeployment(d)
        PROVE  locLogged'[a] = assetLoc'[a]
    BY <2>1 DEF CompleteDeployment
  <2>2. ASSUME NEW s \in Shipments, NEW ids \in SUBSET Assets, NEW d, NEW direction, NEW to, NEW r,
               CreateShipment(s, ids, d, direction, to, r)
        PROVE  Delivered(a)
    <3>1. a \in DeliveryMoves("pending", r, direction, to, ids) /\ assetLoc'[a] = to
      BY <2>2 DEF CreateShipment
    <3>2. r = "delivered" /\ direction = "inbound" /\ a \in ids
      BY <3>1 DEF DeliveryMoves
    <3>3. shipCarrier[s] = "pending"
      BY <2>2 DEF CreateShipment, FreeKeysArePending
    <3>4. CarrierAfter("pending", r) = "delivered"
      BY <3>2 DEF CarrierAfter, NoReport
    <3>5. /\ shipItems'[s] = ids /\ shipDirection'[s] = direction /\ shipTo'[s] = to
          /\ shipCarrier'[s] = "delivered"
      BY <2>2, <3>4 DEF CreateShipment
    <3>6. QED
      BY <3>1, <3>2, <3>3, <3>5 DEF Delivered
  <2>3. ASSUME NEW s \in Shipments, NEW r, RefreshShipment(s, r)
        PROVE  Delivered(a)
    <3> DEFINE after == CarrierAfter(shipCarrier[s], r)
    <3>1. /\ a \in DeliveryMoves(shipCarrier[s], after, shipDirection[s], shipTo[s], shipItems[s])
          /\ assetLoc'[a] = shipTo[s]
      BY <2>3 DEF RefreshShipment
    <3>2. /\ shipCarrier[s] # "delivered" /\ after = "delivered"
          /\ shipDirection[s] = "inbound" /\ a \in shipItems[s]
      BY <3>1 DEF DeliveryMoves
    <3>3. shipCarrier'[s] = after /\ UNCHANGED <<shipItems, shipDirection, shipTo>>
      BY <2>3 DEF RefreshShipment
    <3>4. QED
      BY <3>1, <3>2, <3>3 DEF Delivered
  <2>4. ASSUME NEW S \in SUBSET Assets, NEW l, BulkSetLocation(S, l)
        PROVE  locLogged'[a] = assetLoc'[a]
    BY <2>4 DEF BulkSetLocation
  <2>5. ASSUME NEW b \in Assets, NEW l, AssignLocation(b, l)
        PROVE  locLogged'[a] = assetLoc'[a]
    BY <2>5 DEF AssignLocation
  <2>6. ASSUME NEW S \in SUBSET Assets, ParkAtBoot(S)
        PROVE  Parked(a) /\ UNCHANGED <<depVars, shipVars>>
    BY <2>6 DEF ParkAtBoot, Parked
  <2>7. QED
    BY <2>1, <2>2, <2>3, <2>4, <2>5, <2>6, WhoMoves
<1>2. TypeOK /\ FreeKeysArePending /\ [Next]_vars =>
        [\A a \in Assets :
           assetLoc'[a] # assetLoc[a] =>
             \/ locLogged'[a] = assetLoc'[a]
             \/ Delivered(a)
             \/ Parked(a) /\ UNCHANGED <<depVars, shipVars>>]_vars
  BY <1>1
<1>3. QED
  BY <1>2, TypeCorrect, FreeKeysStayPending, PTL DEF Spec, MoveIsLogged

(* A step of the shipment service writes one row, and no deployment's. *)
LEMMA OneShipmentRow ==
  ASSUME TypeOK, NEW s \in Shipments, OnShipment(s)
  PROVE  /\ UNCHANGED depVars
         /\ \A t \in Shipments \ {s} :
              shipResolution'[t] = shipResolution[t] /\ shipCarrier'[t] = shipCarrier[t]
                /\ shipItems'[t] = shipItems[t] /\ shipDep'[t] = shipDep[t]
<1> DEFINE Goal == /\ UNCHANGED depVars
                   /\ \A t \in Shipments \ {s} :
                        shipResolution'[t] = shipResolution[t] /\ shipCarrier'[t] = shipCarrier[t]
                          /\ shipItems'[t] = shipItems[t] /\ shipDep'[t] = shipDep[t]
<1> USE DEF TypeOK
<1>1. \A ids, d, direction, to, r : CreateShipment(s, ids, d, direction, to, r) => Goal
  BY DEF CreateShipment
<1>2. \A a : AddShipmentItem(s, a) \/ RemoveShipmentItem(s, a) => Goal
  BY DEF AddShipmentItem, RemoveShipmentItem
<1>3. \A r : RefreshShipment(s, r) => Goal
  BY DEF RefreshShipment
<1>4. ResolveShipment(s) \/ CancelShipment(s) => Goal
  BY DEF ResolveShipment, CancelShipment
<1>5. ArchiveShipment(s) \/ UnarchiveShipment(s) => Goal
  BY DEF ArchiveShipment, UnarchiveShipment, shipVars
<1>6. DeleteShipment(s) => Goal
  BY DEF DeleteShipment
<1>7. \A direction : UpdateShipment(s, direction) => Goal
  BY DEF UpdateShipment
<1>8. QED
  BY <1>1, <1>2, <1>3, <1>4, <1>5, <1>6, <1>7 DEF OnShipment

(***************************************************************************)
(* The record of a closed deployment stays as it was until it is deleted:  *)
(* every operation that writes it looks at its status first, and a forced  *)
(* add takes assets from plans only.                                       *)
(***************************************************************************)
THEOREM ClosedDeploymentsAreFrozen == Spec => ClosedDeploymentIsFrozen
<1> DEFINE Same(d) == depStatus'[d] = depStatus[d] /\ depItems'[d] = depItems[d]
                        /\ depTarget'[d] = depTarget[d]
<1>1. ASSUME TypeOK, NEW e \in Deployments, OnDeployment(e), NEW d \in Deployments,
             depStatus[d] \in {"completed", "cancelled"}, depStatus'[d] # "none"
      PROVE  Same(d)
  <2> USE <1>1 DEF TypeOK, IsDeploymentActive, ActiveStatuses
  <2>1. \A ids, l : CreateDeployment(e, ids, l) \/ CreateDeploymentRejected(e, ids, l) => Same(d)
    BY DEF CreateDeployment, CreateDeploymentRejected
  <2>2. \A l : UpdateDeployment(e, l) => Same(d)
    BY DEF UpdateDeployment
  <2>3. \A a : AddDeploymentItem(e, a) \/ RemoveDeploymentItem(e, a) => Same(d)
    BY DEF AddDeploymentItem, RemoveDeploymentItem
  <2>4. \A a : ForceMoveDeploymentItem(e, a) => Same(d)
    BY DEF ForceMoveDeploymentItem, MovableFrom, OtherActiveDeployments
  <2>5. StartDeployment(e) \/ CompleteDeployment(e) \/ CancelDeployment(e) => Same(d)
    BY DEF StartDeployment, CompleteDeployment, CancelDeployment
  <2>6. DeleteDeployment(e) => Same(d)
    BY DEF DeleteDeployment
  <2>7. ArchiveDeployment(e) \/ UnarchiveDeployment(e) => Same(d)
    BY DEF ArchiveDeployment, UnarchiveDeployment, depVars
  <2>8. \A t : LinkShipment(e, t) \/ UnlinkShipment(e, t) => Same(d)
    BY DEF LinkShipment, UnlinkShipment, depVars
  <2>9. QED
    BY <2>1, <2>2, <2>3, <2>4, <2>5, <2>6, <2>7, <2>8 DEF OnDeployment
<1>2. ASSUME TypeOK, ShipmentNext \/ AssetNext, NEW d \in Deployments
      PROVE  Same(d)
  <2>1. CASE ShipmentNext
    BY <2>1, OneShipmentRow, <1>2 DEF ShipmentNext, depVars
  <2>2. CASE AssetNext
    BY <2>2 DEF AssetNext, BulkSetLocation, AssignLocation, ArchiveAsset, ParkAtBoot, depVars
  <2>3. QED
    BY <1>2, <2>1, <2>2
<1>3. TypeOK /\ [Next]_vars =>
        [\A d \in Deployments :
           depStatus[d] \in {"completed", "cancelled"} /\ depStatus'[d] # "none" =>
             /\ depStatus'[d] = depStatus[d]
             /\ depItems'[d] = depItems[d]
             /\ depTarget'[d] = depTarget[d]]_vars
  BY <1>1, <1>2 DEF Next, DeploymentNext
<1>4. QED
  BY <1>3, TypeCorrect, PTL DEF Spec, ClosedDeploymentIsFrozen

-----------------------------------------------------------------------------
(***************************************************************************)
(* An asset gets on an active shipment because the shipment is active      *)
(* again, or after both look-ups of assert_asset_available_for_shipment.   *)
(***************************************************************************)
LEMMA JoinsShipment ==
  ASSUME TypeOK, NEW s \in Shipments, OnShipment(s), NEW a \in Assets,
         s \in ActiveShipmentsOf(a)', s \notin ActiveShipmentsOf(a)
  PROVE  Reactivated(s) \/ AvailableForShipment(a, s, shipDep'[s])
<1> DEFINE Goal == Reactivated(s) \/ AvailableForShipment(a, s, shipDep'[s])
<1> USE DEF TypeOK, ActiveShipmentsOf, IsShipmentActive
<1>1. ASSUME NEW ids, NEW d, NEW direction, NEW to, NEW r,
             CreateShipment(s, ids, d, direction, to, r)
      PROVE  Goal
  <2>1. a \in ids /\ shipDep'[s] = d
    BY <1>1 DEF CreateShipment
  <2>2. QED
    BY <1>1, <2>1 DEF CreateShipment
<1>2. ASSUME NEW b, AddShipmentItem(s, b)
      PROVE  Goal
  <2>1. a = b /\ shipDep'[s] = shipDep[s]
    BY <1>2 DEF AddShipmentItem
  <2>2. QED
    BY <1>2, <2>1 DEF AddShipmentItem
<1>3. \A b : ~RemoveShipmentItem(s, b)
  BY DEF RemoveShipmentItem
<1>4. \A r : RefreshShipment(s, r) => Reactivated(s)
  BY DEF RefreshShipment, Reactivated
<1>5. ~ResolveShipment(s) /\ ~CancelShipment(s)
  BY DEF ResolveShipment, CancelShipment
<1>6. ~ArchiveShipment(s) /\ ~UnarchiveShipment(s)
  BY DEF ArchiveShipment, UnarchiveShipment, shipVars
<1>7. ~DeleteShipment(s)
  BY DEF DeleteShipment
<1>8. \A direction : ~UpdateShipment(s, direction)
  BY DEF UpdateShipment
<1>9. QED
  BY <1>1, <1>2, <1>3, <1>4, <1>5, <1>6, <1>7, <1>8 DEF OnShipment

(* The steps of everybody else leave the shipments' items and statuses alone. *)
LEMMA OthersKeepShipments ==
  ASSUME DeploymentNext \/ AssetNext \/ UNCHANGED vars
  PROVE  UNCHANGED <<shipResolution, shipCarrier, shipItems>>
BY DEF DeploymentNext, OnDeployment, CreateDeployment, CreateDeploymentRejected, UpdateDeployment,
       AddDeploymentItem, ForceMoveDeploymentItem, RemoveDeploymentItem, StartDeployment,
       CompleteDeployment, CancelDeployment, DeleteDeployment, ArchiveDeployment,
       UnarchiveDeployment, LinkShipment, UnlinkShipment, AssetNext, BulkSetLocation,
       AssignLocation, ArchiveAsset, ParkAtBoot, shipVars, vars

(***************************************************************************)
(* No request puts an asset on a second active shipment: it gets there     *)
(* when the carrier reports a delivered or excepted one as moving again.   *)
(***************************************************************************)
THEOREM SharingNeedsReactivation == Spec => SharedOnlyByReactivation
<1>1. ASSUME TypeOK, [Next]_vars, NEW a \in Assets, ~IsShared(a), IsShared(a)'
      PROVE  \E s \in ActiveShipmentsOf(a)' : Reactivated(s)
  <2>1. PICK s \in ActiveShipmentsOf(a)', t \in ActiveShipmentsOf(a)' : s # t
    BY <1>1 DEF IsShared
  <2>2. s \in Shipments /\ t \in Shipments
    BY DEF ActiveShipmentsOf
  <2>3. ~(s \in ActiveShipmentsOf(a) /\ t \in ActiveShipmentsOf(a))
    BY <1>1, <2>1 DEF IsShared
  <2>4. ~(DeploymentNext \/ AssetNext \/ UNCHANGED vars)
    BY <2>3, OthersKeepShipments DEF ActiveShipmentsOf, IsShipmentActive
  <2>5. PICK u \in Shipments : OnShipment(u)
    BY <1>1, <2>4 DEF Next, ShipmentNext
  <2>6. \A v \in Shipments \ {u} : v \in ActiveShipmentsOf(a)' => v \in ActiveShipmentsOf(a)
    BY <1>1, <2>5, OneShipmentRow DEF ActiveShipmentsOf, IsShipmentActive
  <2>7. u \in ActiveShipmentsOf(a)' /\ u \notin ActiveShipmentsOf(a)
    BY <2>1, <2>2, <2>3, <2>6
  <2>8. OtherActiveShipments(a, u) # {}
    BY <2>1, <2>2, <2>6 DEF OtherActiveShipments, ActiveShipmentsOf
  <2>9. Reactivated(u)
    BY <1>1, <2>5, <2>7, <2>8, JoinsShipment DEF AvailableForShipment
  <2>10. QED
    BY <2>7, <2>9
<1>2. TypeOK /\ [Next]_vars =>
        [\A a \in Assets :
           ~IsShared(a) /\ IsShared(a)' => \E s \in ActiveShipmentsOf(a)' : Reactivated(s)]_vars
  BY <1>1
<1>3. QED
  BY <1>2, TypeCorrect, PTL DEF Spec, SharedOnlyByReactivation

(***************************************************************************)
(* An asset gets on an active deployment when nobody else's shipment has   *)
(* it, or by a force-move out of a plan.                                   *)
(***************************************************************************)
LEMMA JoinsDeployment ==
  ASSUME IInv, NEW e \in Deployments, OnDeployment(e), NEW a \in Assets, NEW d \in Deployments,
         IsDeploymentActive(d)', a \in depItems'[d], ~(IsDeploymentActive(d) /\ a \in depItems[d])
  PROVE  \/ ForeignActiveShipments(a, d) = {} /\ UNCHANGED shipVars
         \/ \E f \in Deployments : depStatus[f] = "planning" /\ a \in depItems[f] \ depItems'[f]
<1> DEFINE Free == ForeignActiveShipments(a, d) = {} /\ UNCHANGED shipVars
           Moved == \E f \in Deployments : depStatus[f] = "planning" /\ a \in depItems[f] \ depItems'[f]
<1> USE DEF IInv, TypeOK, IsDeploymentActive, ActiveStatuses
<1>1. \A ids, l : CreateDeployment(e, ids, l) => Free
  BY DEF CreateDeployment, AvailableForDeployment
<1>2. \A ids, l : ~CreateDeploymentRejected(e, ids, l)
  BY DEF CreateDeploymentRejected, NoDanglingRows
<1>3. \A l : ~UpdateDeployment(e, l)
  BY DEF UpdateDeployment
<1>4. \A b : AddDeploymentItem(e, b) => Free
  BY DEF AddDeploymentItem, AvailableForDeployment
<1>5. \A b : ForceMoveDeploymentItem(e, b) => Moved
  <2> SUFFICES ASSUME NEW b, ForceMoveDeploymentItem(e, b)
               PROVE  Moved
    OBVIOUS
  <2>1. PICK f \in MovableFrom(b, e) : depItems' = [depItems EXCEPT ![f] = @ \ {b}, ![e] = @ \cup {b}]
    BY DEF ForceMoveDeploymentItem
  <2>2. f \in Deployments \ {e} /\ depStatus[f] = "planning" /\ b \in depItems[f]
    BY DEF MovableFrom, OtherActiveDeployments
  <2>3. a = b /\ depItems'[f] = depItems[f] \ {b}
    BY <2>1, <2>2 DEF ForceMoveDeploymentItem
  <2>4. QED
    BY <2>2, <2>3
<1>6. \A b : ~RemoveDeploymentItem(e, b)
  BY DEF RemoveDeploymentItem
<1>7. ~StartDeployment(e) /\ ~CompleteDeployment(e) /\ ~CancelDeployment(e) /\ ~DeleteDeployment(e)
  BY DEF StartDeployment, CompleteDeployment, CancelDeployment, DeleteDeployment
<1>8. ~ArchiveDeployment(e) /\ ~UnarchiveDeployment(e)
  BY DEF ArchiveDeployment, UnarchiveDeployment, depVars
<1>9. \A s : ~LinkShipment(e, s) /\ ~UnlinkShipment(e, s)
  BY DEF LinkShipment, UnlinkShipment, depVars
<1>10. QED
  BY <1>1, <1>2, <1>3, <1>4, <1>5, <1>6, <1>7, <1>8, <1>9 DEF OnDeployment

(***************************************************************************)
(* An asset is torn between a deployment and somebody else's shipment only *)
(* after a force-move, a new owner of the shipment or its reactivation.    *)
(***************************************************************************)
THEOREM TearingNeedsKnownDoor == Spec => TornOnlyByKnownDoors
<1> DEFINE Forced(a) == \E d \in Deployments : depStatus[d] = "planning" /\ a \in depItems[d] \ depItems'[d]
           Relinked(a) == \E s \in ActiveShipmentsOf(a)' : shipDep[s] # shipDep'[s]
           Revived(a) == \E s \in ActiveShipmentsOf(a)' : Reactivated(s)
<1>1. ASSUME IInv, [Next]_vars, NEW a \in Assets, ~IsTorn(a), IsTorn(a)'
      PROVE  Forced(a) \/ Relinked(a) \/ Revived(a)
  <2>1. PICK d \in Deployments, s \in Shipments :
          /\ IsDeploymentActive(d)' /\ a \in depItems'[d]
          /\ s \in ActiveShipmentsOf(a)' /\ shipDep'[s] # d
    BY <1>1 DEF IsTorn, ForeignActiveShipments, ActiveShipmentsOf
  <2>2. CASE shipDep'[s] # shipDep[s]
    BY <2>1, <2>2
  <2>3. CASE shipDep'[s] = shipDep[s]
    <3>1. s \in ActiveShipmentsOf(a) => s \in ForeignActiveShipments(a, d)
      BY <2>1, <2>3 DEF ActiveShipmentsOf, ForeignActiveShipments
    <3>2. s \in ActiveShipmentsOf(a) => ~(IsDeploymentActive(d) /\ a \in depItems[d])
      BY <1>1, <3>1 DEF IsTorn
    <3>3. ASSUME NEW e \in Deployments, OnDeployment(e)
          PROVE  Forced(a)
      <4>1. s \in ActiveShipmentsOf(a)
        BY <2>1, <3>3, OthersKeepShipments DEF ActiveShipmentsOf, IsShipmentActive, DeploymentNext
      <4>2. QED
        BY <1>1, <2>1, <3>1, <3>2, <3>3, <4>1, JoinsDeployment
    <3>4. ASSUME NEW t \in Shipments, OnShipment(t)
          PROVE  Revived(a)
      <4>1. UNCHANGED depVars /\ (s # t => s \in ActiveShipmentsOf(a))
        BY <1>1, <2>1, <3>4, OneShipmentRow DEF IInv, ActiveShipmentsOf, IsShipmentActive
      <4>2. IsDeploymentActive(d) /\ a \in depItems[d]
        BY <2>1, <4>1 DEF IsDeploymentActive, depVars
      <4>3. s = t /\ s \notin ActiveShipmentsOf(a)
        BY <3>2, <4>1, <4>2
      <4>4. d \in OtherActiveDeployments(a, shipDep'[s])
        BY <2>1, <4>2 DEF OtherActiveDeployments
      <4>5. Reactivated(s)
        BY <1>1, <2>1, <3>4, <4>3, <4>4, JoinsShipment DEF IInv, AvailableForShipment
      <4>6. QED
        BY <2>1, <4>5
    <3>5. ~AssetNext /\ ~UNCHANGED vars
      <4>1. AssetNext \/ UNCHANGED vars => UNCHANGED depVars
        BY DEF AssetNext, BulkSetLocation, AssignLocation, ArchiveAsset, ParkAtBoot, vars
      <4>2. AssetNext \/ UNCHANGED vars => s \in ActiveShipmentsOf(a)
        BY <2>1, OthersKeepShipments DEF ActiveShipmentsOf, IsShipmentActive
      <4>3. QED
        BY <2>1, <3>2, <4>1, <4>2 DEF IsDeploymentActive, depVars
    <3>6. QED
      BY <1>1, <3>3, <3>4, <3>5 DEF Next, DeploymentNext, ShipmentNext
  <2>4. QED
    BY <2>2, <2>3
<1>2. IInv /\ [Next]_vars =>
        [\A a \in Assets :
           ~IsTorn(a) /\ IsTorn(a)' =>
             \/ \E d \in Deployments : depStatus[d] = "planning" /\ a \in depItems[d] \ depItems'[d]
             \/ \E s \in ActiveShipmentsOf(a)' : shipDep[s] # shipDep'[s]
             \/ \E s \in ActiveShipmentsOf(a)' : Reactivated(s)]_vars
  BY <1>1
<1>3. QED
  BY <1>2, InvariantHolds, PTL DEF Spec, TornOnlyByKnownDoors

-----------------------------------------------------------------------------
(* Creating a deployment reserves its items, a refused creation nothing. *)
LEMMA CreateRefines ==
  ASSUME IInv, IInv', NEW d \in Deployments, NEW ids \in SUBSET Assets, NEW l,
         CreateDeployment(d, ids, l) \/ CreateDeploymentRejected(d, ids, l)
  PROVE  Ledger!Reserve(d, ids) \/ UNCHANGED Ledger!ledger
<1> USE DEF IInv, TypeOK, IsDeploymentActive, ActiveStatuses
<1>1. CASE CreateDeployment(d, ids, l)
  <2>1. d \notin LedgerFirm /\ UNCHANGED LedgerFirm
    BY <1>1 DEF CreateDeployment, LedgerFirm
  <2>2. ASSUME NEW a \in ids
        PROVE  a \in Ledger!Held(NULL)
    <3>1. HoldersOf(a) = {}
      BY <1>1, <2>2 DEF CreateDeployment, AvailableForDeployment, OtherActiveDeployments, HoldersOf
    <3>2. QED
      BY <3>1, FreeIsUnheld
  <2>3. \A e \in Deployments, a \in Assets :
          (IsDeploymentActive(e) /\ a \in depItems[e])'
            <=> IF a \in ids THEN e = d ELSE IsDeploymentActive(e) /\ a \in depItems[e]
    BY <1>1 DEF CreateDeployment, AvailableForDeployment, OtherActiveDeployments
  <2>4. Ledger!Give(ids, d)
    BY <2>3, GiveByTables DEF OrNull
  <2>5. QED
    BY <2>1, <2>2, <2>4 DEF Ledger!Reserve
<1>2. CASE CreateDeploymentRejected(d, ids, l)
  <2>1. UNCHANGED LedgerFirm
    BY <1>2 DEF CreateDeploymentRejected, LedgerFirm
  <2>2. \A e \in Deployments, a \in Assets :
          (IsDeploymentActive(e) /\ a \in depItems[e])' <=> IsDeploymentActive(e) /\ a \in depItems[e]
    BY <1>2 DEF CreateDeploymentRejected, NoDanglingRows
  <2>3. QED
    BY <2>1, <2>2, SameHolders DEF Ledger!ledger
<1>3. QED
  BY <1>1, <1>2

(* An added item is reserved, unless the deployment had it. *)
LEMMA AddRefines ==
  ASSUME IInv, IInv', NEW d \in Deployments, NEW a \in Assets, AddDeploymentItem(d, a)
  PROVE  \E S \in SUBSET Assets : Ledger!Reserve(d, S)
<1> DEFINE S == {a} \ depItems[d]
<1> USE DEF IInv, TypeOK, IsDeploymentActive, ActiveStatuses
<1>1. d \notin LedgerFirm /\ UNCHANGED LedgerFirm
  BY DEF AddDeploymentItem, LedgerFirm
<1>2. S \subseteq Ledger!Held(NULL)
  <2> SUFFICES ASSUME a \notin depItems[d]
               PROVE  a \in Ledger!Held(NULL)
    OBVIOUS
  <2>1. HoldersOf(a) = {}
    BY DEF AddDeploymentItem, AvailableForDeployment, OtherActiveDeployments, HoldersOf
  <2>2. QED
    BY <2>1, FreeIsUnheld
<1>3. \A e \in Deployments, b \in Assets :
        (IsDeploymentActive(e) /\ b \in depItems[e])'
          <=> IF b \in S THEN e = d ELSE IsDeploymentActive(e) /\ b \in depItems[e]
  BY DEF AddDeploymentItem, AvailableForDeployment, OtherActiveDeployments
<1>4. Ledger!Give(S, d)
  BY <1>3, GiveByTables DEF OrNull
<1>5. QED
  BY <1>1, <1>2, <1>4 DEF Ledger!Reserve

(* A forced add takes the asset from one planning deployment to another. *)
LEMMA ForceMoveRefines ==
  ASSUME IInv, IInv', NEW d \in Deployments, NEW a \in Assets, ForceMoveDeploymentItem(d, a)
  PROVE  Ledger!Transfer(a, d)
<1> USE DEF IInv, TypeOK, IsDeploymentActive, ActiveStatuses
<1>1. PICK e \in MovableFrom(a, d) :
        depItems' = [depItems EXCEPT ![e] = @ \ {a}, ![d] = @ \cup {a}]
  BY DEF ForceMoveDeploymentItem
<1>2. /\ e \in Deployments /\ e # d
      /\ depStatus[e] = "planning" /\ depStatus[d] = "planning"
      /\ a \in depItems[e]
      /\ UNCHANGED depStatus
  BY DEF ForceMoveDeploymentItem, MovableFrom, OtherActiveDeployments
<1>3. LedgerHolder[a] = e
  BY <1>2, HolderExact DEF HolderIsExact
<1>4. /\ LedgerHolder[a] \notin LedgerFirm \cup {NULL}
      /\ d \notin LedgerFirm
      /\ UNCHANGED LedgerFirm
  BY <1>2, <1>3, KeysAreDistinct DEF LedgerFirm
<1>5. \A f \in Deployments : IsDeploymentActive(f) /\ a \in depItems[f] => f = e
  BY <1>2 DEF OneActiveDeployment
<1>6. /\ depItems'[e] = depItems[e] \ {a}
      /\ depItems'[d] = depItems[d] \cup {a}
      /\ \A f \in Deployments \ {d, e} : depItems'[f] = depItems[f]
  BY <1>1, <1>2
<1>7. \A f \in Deployments, b \in Assets :
        (IsDeploymentActive(f) /\ b \in depItems[f])'
          <=> IF b \in {a} THEN f = d ELSE IsDeploymentActive(f) /\ b \in depItems[f]
  BY <1>2, <1>5, <1>6
<1>8. Ledger!Give({a}, d)
  BY <1>7, GiveByTables DEF OrNull
<1>9. QED
  BY <1>4, <1>8 DEF Ledger!Transfer

LEMMA RemoveRefines ==
  ASSUME IInv, IInv', NEW d \in Deployments, NEW a \in Assets, RemoveDeploymentItem(d, a)
  PROVE  Ledger!Release(d, {a})
<1> USE DEF IInv, TypeOK, IsDeploymentActive, ActiveStatuses
<1>1. d \notin LedgerFirm /\ UNCHANGED LedgerFirm
  BY DEF RemoveDeploymentItem, LedgerFirm
<1>2. {a} \subseteq Ledger!Held(d)
  BY HeldIsItems DEF RemoveDeploymentItem
<1>3. \A e \in Deployments, b \in Assets :
        (IsDeploymentActive(e) /\ b \in depItems[e])'
          <=> IF b \in {a} THEN e = NULL ELSE IsDeploymentActive(e) /\ b \in depItems[e]
  BY KeysAreDistinct DEF RemoveDeploymentItem, OneActiveDeployment
<1>4. Ledger!Give({a}, NULL)
  BY <1>3, GiveByTables DEF OrNull
<1>5. QED
  BY <1>1, <1>2, <1>4 DEF Ledger!Release

LEMMA StartRefines ==
  ASSUME IInv, IInv', NEW d \in Deployments, StartDeployment(d)
  PROVE  Ledger!Confirm(d)
<1> USE DEF IInv, TypeOK, IsDeploymentActive, ActiveStatuses
<1>1. d \notin LedgerFirm /\ LedgerFirm' = LedgerFirm \cup {d}
  BY DEF StartDeployment, LedgerFirm
<1>2. Ledger!Held(d) # {}
  BY HeldIsItems DEF StartDeployment
<1>3. LedgerHolder' = LedgerHolder
  <2>1. \A e \in Deployments, a \in Assets :
          (IsDeploymentActive(e) /\ a \in depItems[e])' <=> IsDeploymentActive(e) /\ a \in depItems[e]
    BY DEF StartDeployment
  <2>2. QED
    BY <2>1, SameHolders
<1>4. QED
  BY <1>1, <1>2, <1>3 DEF Ledger!Confirm

(***************************************************************************)
(* Completing, cancelling and deleting an active deployment release all it *)
(* holds; deleting a closed one changes no reservation.                    *)
(***************************************************************************)
LEMMA CloseRefines ==
  ASSUME IInv, IInv', NEW d \in Deployments,
         CompleteDeployment(d) \/ CancelDeployment(d) \/ DeleteDeployment(d)
  PROVE  \/ Ledger!Close(d)
         \/ \E S \in SUBSET Assets : Ledger!Release(d, S)
         \/ UNCHANGED Ledger!ledger
<1> USE DEF IInv, TypeOK, IsDeploymentActive, ActiveStatuses
<1>1. /\ depStatus' \in [Deployments -> DeploymentStatus \cup {"none"}]
      /\ depStatus'[d] \notin ActiveStatuses
      /\ \A e \in Deployments \ {d} : depStatus'[e] = depStatus[e] /\ depItems'[e] = depItems[e]
  BY DEF CompleteDeployment, CancelDeployment, DeleteDeployment
<1>2. LedgerFirm' = LedgerFirm \ {d}
  BY <1>1 DEF LedgerFirm
<1>3. CASE IsDeploymentActive(d)
  <2>1. Ledger!Held(d) = depItems[d]
    BY <1>3, HeldIsItems
  <2>2. \A e \in Deployments, a \in Assets :
          (IsDeploymentActive(e) /\ a \in depItems[e])'
            <=> IF a \in depItems[d] THEN e = NULL ELSE IsDeploymentActive(e) /\ a \in depItems[e]
    BY <1>1, <1>3, KeysAreDistinct DEF OneActiveDeployment
  <2>3. Ledger!Give(Ledger!Held(d), NULL)
    BY <2>1, <2>2, GiveByTables DEF OrNull
  <2>4. CASE d \in LedgerFirm
    BY <1>2, <2>3, <2>4 DEF Ledger!Close
  <2>5. CASE d \notin LedgerFirm
    <3>1. Ledger!Release(d, Ledger!Held(d))
      BY <1>2, <2>3, <2>5 DEF Ledger!Release
    <3>2. QED
      BY <2>1, <3>1
  <2>6. QED
    BY <2>4, <2>5
<1>4. CASE ~IsDeploymentActive(d)
  <2>1. UNCHANGED LedgerFirm
    BY <1>2, <1>4 DEF LedgerFirm
  <2>2. \A e \in Deployments, a \in Assets :
          (IsDeploymentActive(e) /\ a \in depItems[e])' <=> IsDeploymentActive(e) /\ a \in depItems[e]
    BY <1>1, <1>4
  <2>3. QED
    BY <2>1, <2>2, SameHolders DEF Ledger!ledger
<1>5. QED
  BY <1>3, <1>4

(* A step that leaves the deployment rows and items alone is a stutter of the ledger. *)
LEMMA OtherStepsStutter ==
  ASSUME IInv, IInv', UNCHANGED <<depStatus, depItems>>
  PROVE  UNCHANGED Ledger!ledger
<1>1. UNCHANGED LedgerFirm
  BY DEF LedgerFirm
<1>2. UNCHANGED LedgerHolder
  BY SameHolders DEF IInv, IsDeploymentActive
<1>3. QED
  BY <1>1, <1>2 DEF Ledger!ledger

-----------------------------------------------------------------------------
LEMMA StepRefines ==
  ASSUME IInv, IInv', [Next]_vars
  PROVE  [Ledger!Next]_(Ledger!ledger)
<1> USE DEF Ledger!Next
<1>1. CASE UNCHANGED vars
  BY <1>1, OtherStepsStutter DEF vars, depVars
<1>2. CASE AssetNext
  BY <1>2, OtherStepsStutter DEF AssetNext, BulkSetLocation, AssignLocation, ArchiveAsset, ParkAtBoot, depVars
<1>3. CASE ShipmentNext
  <2>1. UNCHANGED <<depStatus, depItems>>
    BY <1>3
       DEF ShipmentNext, OnShipment, CreateShipment, AddShipmentItem, RemoveShipmentItem,
           RefreshShipment, ResolveShipment, CancelShipment, ArchiveShipment, UnarchiveShipment, DeleteShipment,
           UpdateShipment, depVars
  <2>2. QED
    BY <2>1, OtherStepsStutter
<1>4. CASE DeploymentNext
  <2>1. PICK d \in Deployments : OnDeployment(d)
    BY <1>4 DEF DeploymentNext
  <2>2. ASSUME \/ \E l \in OrNull(Locations) : UpdateDeployment(d, l)
               \/ ArchiveDeployment(d)
               \/ UnarchiveDeployment(d)
               \/ \E s \in Shipments : LinkShipment(d, s) \/ UnlinkShipment(d, s)
        PROVE  UNCHANGED Ledger!ledger
    BY <2>2, OtherStepsStutter
       DEF UpdateDeployment, ArchiveDeployment, UnarchiveDeployment, LinkShipment, UnlinkShipment,
           depVars
  <2>3. ASSUME NEW ids \in SUBSET Assets, NEW l \in OrNull(Locations),
               CreateDeployment(d, ids, l) \/ CreateDeploymentRejected(d, ids, l)
        PROVE  Ledger!Next \/ UNCHANGED Ledger!ledger
    BY <2>3, CreateRefines
  <2>4. ASSUME NEW a \in Assets,
               \/ AddDeploymentItem(d, a)
               \/ ForceMoveDeploymentItem(d, a)
               \/ RemoveDeploymentItem(d, a)
        PROVE  Ledger!Next
    BY <2>4, AddRefines, ForceMoveRefines, RemoveRefines
  <2>5. CASE StartDeployment(d)
    BY <2>5, StartRefines
  <2>6. CASE CompleteDeployment(d) \/ CancelDeployment(d) \/ DeleteDeployment(d)
    BY <2>6, CloseRefines
  <2>7. QED
    BY <2>1, <2>2, <2>3, <2>4, <2>5, <2>6 DEF OnDeployment
<1>5. QED
  BY <1>1, <1>2, <1>3, <1>4 DEF Next

LEMMA InitRefines == Init => Ledger!Init
BY DEF Init, Ledger!Init, LedgerHolder, LedgerFirm, HoldersOf, IsDeploymentActive, ActiveStatuses

(***************************************************************************)
(* The deployment and shipment services, one request at a time, implement  *)
(* the ledger: an asset has one holder, moves between planning deployments *)
(* only, and never leaves a deployment in progress on its own.             *)
(***************************************************************************)
THEOREM TablesImplementLedger == Spec => ImplementsLedger
<1>1. IInv /\ IInv' /\ [Next]_vars => [Ledger!Next]_(Ledger!ledger)
  BY StepRefines
<1>2. QED
  BY InitRefines, InvariantHolds, <1>1, PTL DEF Spec, ImplementsLedger, Ledger!Spec
=============================================================================
