------------------------- MODULE DeploymentRequests --------------------------
(***************************************************************************)
(* The requests of the deployment service taken apart into their           *)
(* statements.  A statement that breaks a foreign key, or updates a row    *)
(* that is gone (StaleDataError), ends the request with what it wrote      *)
(* before.  Other users work on the shipments meanwhile, their requests    *)
(* one step each.                                                          *)
(***************************************************************************)
EXTENDS DeploymentService, ShipmentService, ReservationRules, RequestPool

CONSTANT Restarts  \* bound: whether the server may be killed and restarted

ASSUME RestartsIsBoolean == Restarts \in BOOLEAN

VARIABLE
  bookedOnce  \* history: no asset was on two active deployments when the last request began

DepExists(d) == depStatus[d] # "none"

(* A request arrives, and finds the reservations in order or not. *)
Arrives(w, rest) == Serve(w, rest) /\ bookedOnce' = OneActiveDeployment

-----------------------------------------------------------------------------
(* The loop of create_deployment over the items of the new row. *)
Checking(d, ids, picked) ==
  [step |-> "check_items", d |-> d, ids |-> ids, todo |-> ids, picked |-> picked]

InsertRow(d, target) ==
  /\ ~DepExists(d)
  /\ depStatus' = [depStatus EXCEPT ![d] = "planning"]
  /\ depTarget' = [depTarget EXCEPT ![d] = target]

(* create_deployment: the row is flushed first, to get its key. *)
BeginCreate(w, d, ids, target) ==
  /\ At(w, "idle")
  /\ InsertRow(d, target)
  /\ Arrives(w, Checking(d, ids, FALSE))
  /\ UNCHANGED <<depItems, shipVars, assetVars, archived>>

(* Mutant of Pickable: what the picks of a shipment look at, the shipments only. *)
PickableForShipment ==
  {a \in Assets \ archived :
     \A s \in Shipments : ~(IsShipmentActive(s) /\ a \in shipItems[s])}

(* _pick_assets_for_auto_assign: on no active deployment and no active shipment. *)
Pickable ==
  {a \in Assets \ archived :
     /\ \A d \in Deployments : ~(IsDeploymentActive(d) /\ a \in depItems[d])
     /\ \A s \in Shipments : ~(IsShipmentActive(s) /\ a \in shipItems[s])}

(* create_deployment with auto_assign, by models: any assets may be the oldest of theirs. *)
BeginPick(w, ids, target) ==
  /\ At(w, "idle")
  /\ ids # {} /\ ids \subseteq Pickable
  /\ Arrives(w, [step |-> "insert_row", ids |-> ids, target |-> target])
  /\ UNCHANGED vars

InsertPicked(w, d) ==
  /\ At(w, "insert_row")
  /\ InsertRow(d, job[w].target)
  /\ Continue(w, Checking(d, job[w].ids, TRUE))
  /\ UNCHANGED <<depItems, shipVars, assetVars, archived, bookedOnce>>

(* One pass of its loop: the query of the deployments, then that of the  *)
(* shipments.  A conflict answers 409 and leaves the row.                *)
CheckItem(w) ==
  LET j == job[w] IN
  /\ At(w, "check_items")
  /\ \E a \in j.todo :
       IF OtherActiveDeployments(a, j.d) = {}
       THEN Continue(w, [step |-> "check_ships", d |-> j.d, ids |-> j.ids, todo |-> j.todo \ {a},
                         picked |-> j.picked, a |-> a])
       ELSE Answer(w)
  /\ UNCHANGED <<vars, bookedOnce>>

CheckItemShips(w) ==
  LET j == job[w] IN
  /\ At(w, "check_ships")
  /\ IF ForeignActiveShipments(j.a, j.d) = {}
     THEN Continue(w, [step |-> "check_items", d |-> j.d, ids |-> j.ids, todo |-> j.todo,
                       picked |-> j.picked])
     ELSE Answer(w)
  /\ UNCHANGED <<vars, bookedOnce>>

(* Its commit: one INSERT of all the items, all or none. *)
InsertItems(w) ==
  LET d == job[w].d IN
  /\ At(w, "check_items")
  /\ job[w].todo = {}
  /\ IF DepExists(d) /\ depItems[d] \cap job[w].ids = {}
     THEN depItems' = [depItems EXCEPT ![d] = @ \cup job[w].ids]
     ELSE UNCHANGED depItems
  /\ Answer(w)
  /\ UNCHANGED <<depStatus, depTarget, shipVars, assetVars, archived, bookedOnce>>

-----------------------------------------------------------------------------
(* add_item *)
BeginAdd(w, d, a, force) ==
  /\ At(w, "idle")
  /\ depStatus[d] = "planning"
  /\ Arrives(w, [step |-> "check_item", d |-> d, a |-> a, force |-> force, from |-> NULL])
  /\ UNCHANGED vars

(* assert_asset_available_for_deployment: its first query looks at one    *)
(* active deployment; the second, at the shipments, if there is none.     *)
CheckAdd(w) ==
  LET d == job[w].d
      a == job[w].a
      movable == job[w].force /\ MovableFrom(a, d) # {}
  IN
  /\ At(w, "check_item")
  /\ \/ OtherActiveDeployments(a, d) = {} /\ Advance(w, "check_item_ships")
     \/ movable /\ Advance(w, "find_planning")
     \/ /\ OtherActiveDeployments(a, d) # {}
        /\ movable => OtherActiveDeployments(a, d) # MovableFrom(a, d)
        /\ Answer(w)
  /\ UNCHANGED <<vars, bookedOnce>>

CheckAddShips(w) ==
  /\ At(w, "check_item_ships")
  /\ IF ForeignActiveShipments(job[w].a, job[w].d) = {} THEN Advance(w, "insert_item") ELSE Answer(w)
  /\ UNCHANGED <<vars, bookedOnce>>

(* _release_asset_from_planning_deployment: the query, then the DELETE. *)
FindPlanning(w) ==
  LET holders == MovableFrom(job[w].a, job[w].d) IN
  /\ At(w, "find_planning")
  /\ \/ holders = {} /\ Advance(w, "insert_item")
     \/ \E e \in holders : Continue(w, [job[w] EXCEPT !.step = "release", !.from = e])
  /\ UNCHANGED <<vars, bookedOnce>>

ReleaseItem(w) ==
  /\ At(w, "release")
  /\ depItems' = [depItems EXCEPT ![job[w].from] = @ \ {job[w].a}]
  /\ Advance(w, "insert_item")
  /\ UNCHANGED <<depStatus, depTarget, shipVars, assetVars, archived, bookedOnce>>

(* Mutant of InsertItem: the conflicts are looked at again after the release. *)
InsertItemChecked(w) ==
  LET d == job[w].d IN
  /\ At(w, "insert_item")
  /\ depItems' = IF DepExists(d) /\ AvailableForDeployment(job[w].a, d)
                THEN [depItems EXCEPT ![d] = @ \cup {job[w].a}]
                ELSE depItems
  /\ Answer(w)
  /\ UNCHANGED <<depStatus, depTarget, shipVars, assetVars, archived, bookedOnce>>

(* The INSERT; an item that is there already is returned instead. *)
InsertItem(w) ==
  LET d == job[w].d IN
  /\ At(w, "insert_item")
  /\ depItems' = IF DepExists(d) THEN [depItems EXCEPT ![d] = @ \cup {job[w].a}] ELSE depItems
  /\ Answer(w)
  /\ UNCHANGED <<depStatus, depTarget, shipVars, assetVars, archived, bookedOnce>>

(* Mutant of BeginRemove: the status check accepts any active deployment. *)
BeginRemoveActive(w, d, a) ==
  /\ At(w, "idle")
  /\ IsDeploymentActive(d)
  /\ a \in depItems[d]
  /\ Arrives(w, [step |-> "delete_item", d |-> d, a |-> a])
  /\ UNCHANGED vars

(* remove_item *)
BeginRemove(w, d, a) ==
  /\ At(w, "idle")
  /\ depStatus[d] = "planning"
  /\ a \in depItems[d]
  /\ Arrives(w, [step |-> "delete_item", d |-> d, a |-> a])
  /\ UNCHANGED vars

DeleteItem(w) ==
  /\ At(w, "delete_item")
  /\ depItems' = [depItems EXCEPT ![job[w].d] = @ \ {job[w].a}]
  /\ Answer(w)
  /\ UNCHANGED <<depStatus, depTarget, shipVars, assetVars, archived, bookedOnce>>

-----------------------------------------------------------------------------
(* start_deployment, complete_deployment, cancel_deployment: what they load. *)
Writing(d, to, moves) ==
  [step |-> "write_status", d |-> d, to |-> to, moves |-> moves, target |-> depTarget[d]]

BeginStart(w, d) ==
  /\ At(w, "idle")
  /\ depStatus[d] = "planning"
  /\ depItems[d] # {}
  /\ Arrives(w, Writing(d, "in_progress", {}))
  /\ UNCHANGED vars

BeginComplete(w, d) ==
  /\ At(w, "idle")
  /\ depStatus[d] = "in_progress"
  /\ Arrives(w, Writing(d, "completed", CompletionMoves(d)))
  /\ UNCHANGED vars

(* Mutant of BeginCancel: the early return for closed deployments is gone. *)
BeginCancelClosed(w, d) ==
  /\ At(w, "idle")
  /\ DepExists(d)
  /\ Arrives(w, Writing(d, "cancelled", {}))
  /\ UNCHANGED vars

(* Mutant of BeginCancel: the status is misspelt. *)
BeginCancelMisspelt(w, d) ==
  /\ At(w, "idle")
  /\ IsDeploymentActive(d)
  /\ Arrives(w, Writing(d, "canceled", {}))
  /\ UNCHANGED vars

BeginCancel(w, d) ==
  /\ At(w, "idle")
  /\ IsDeploymentActive(d)
  /\ Arrives(w, Writing(d, "cancelled", {}))
  /\ UNCHANGED vars

(***************************************************************************)
(* Their UPDATE, keyed by id alone.  When the row is gone it fails, before *)
(* or after the flush moved the assets.                                    *)
(***************************************************************************)
WriteStatus(w) ==
  LET d == job[w].d IN
  /\ At(w, "write_status")
  /\ \E moved \in IF DepExists(d) THEN {job[w].moves} ELSE {{}, job[w].moves} :
       /\ assetLoc' = Relocated(assetLoc, moved, job[w].target)
       /\ locLogged' = Relocated(locLogged, moved, job[w].target)
  /\ depStatus' = IF DepExists(d) THEN [depStatus EXCEPT ![d] = job[w].to] ELSE depStatus
  /\ Answer(w)
  /\ UNCHANGED <<depItems, depTarget, shipVars, archived, bookedOnce>>

-----------------------------------------------------------------------------
(* delete_deployment: the flush that nulls the shipments it loaded, then  *)
(* the DELETEs of the items and of the row.                               *)
BeginDelete(w, d) ==
  /\ At(w, "idle")
  /\ DepExists(d)
  /\ Arrives(w, [step |-> "unlink_all", d |-> d, ships |-> {s \in Shipments : shipDep[s] = d}])
  /\ UNCHANGED vars

UnlinkShipments(w) ==
  LET ships == job[w].ships
      gone  == \E s \in ships : shipResolution[s] = "none"
  IN
  /\ At(w, "unlink_all")
  /\ shipDep' = [s \in Shipments |-> IF s \in ships THEN NULL ELSE shipDep[s]]
  /\ IF gone THEN Answer(w) ELSE Advance(w, "delete_items")
  /\ UNCHANGED <<depVars, shipResolution, shipCarrier, shipItems, shipDirection, shipTo,
                 assetVars, archived, bookedOnce>>

DeleteItems(w) ==
  /\ At(w, "delete_items")
  /\ depItems' = [depItems EXCEPT ![job[w].d] = {}]
  /\ Advance(w, "delete_row")
  /\ UNCHANGED <<depStatus, depTarget, shipVars, assetVars, archived, bookedOnce>>

(* Mutant of DeleteRow: PRAGMA foreign_keys is off. *)
DeleteRowUnchecked(w) ==
  LET d == job[w].d IN
  /\ At(w, "delete_row")
  /\ depStatus' = [depStatus EXCEPT ![d] = "none"]
  /\ depTarget' = [depTarget EXCEPT ![d] = NULL]
  /\ archived' = archived \ {d}
  /\ Answer(w)
  /\ UNCHANGED <<depItems, shipVars, assetVars, bookedOnce>>

DeleteRow(w) ==
  LET d == job[w].d
      referenced == depItems[d] # {} \/ \E s \in Shipments : shipDep[s] = d
  IN
  /\ At(w, "delete_row")
  /\ IF referenced
     THEN UNCHANGED <<depStatus, depTarget, archived>>
     ELSE /\ depStatus' = [depStatus EXCEPT ![d] = "none"]
          /\ depTarget' = [depTarget EXCEPT ![d] = NULL]
          /\ archived' = archived \ {d}
  /\ Answer(w)
  /\ UNCHANGED <<depItems, shipVars, assetVars, bookedOnce>>

-----------------------------------------------------------------------------
(* link_shipment, unlink_shipment: both rows are loaded, then the UPDATE. *)
BeginLink(w, d, s) ==
  /\ At(w, "idle")
  /\ IsDeploymentActive(d)
  /\ shipResolution[s] # "none"
  /\ shipDep[s] = NULL  \* linking it again writes nothing
  /\ Arrives(w, [step |-> "write_link", s |-> s, to |-> d])
  /\ UNCHANGED vars

BeginUnlink(w, d, s) ==
  /\ At(w, "idle")
  /\ IsDeploymentActive(d)
  /\ shipResolution[s] # "none"
  /\ shipDep[s] = d
  /\ Arrives(w, [step |-> "write_link", s |-> s, to |-> NULL])
  /\ UNCHANGED vars

WriteLink(w) ==
  LET s == job[w].s
      d == job[w].to
      keysHold == shipResolution[s] # "none" /\ (d # NULL => DepExists(d))
  IN
  /\ At(w, "write_link")
  /\ shipDep' = IF keysHold THEN [shipDep EXCEPT ![s] = d] ELSE shipDep
  /\ Answer(w)
  /\ UNCHANGED <<depVars, shipResolution, shipCarrier, shipItems, shipDirection, shipTo,
                 assetVars, archived, bookedOnce>>

-----------------------------------------------------------------------------
(* The server is killed: what was committed stays, the requests are gone. *)
Restart ==
  /\ Restarts
  /\ \E w \in Workers : ~At(w, "idle")
  /\ DropRequests
  /\ UNCHANGED <<vars, bookedOnce>>

OtherUsers ==
  /\ \E s \in Shipments :
       \/ \E ids \in SUBSET Assets, d \in OrNull(Deployments) :
            CreateShipment(s, ids, d, "outbound", NULL, NoReport)
       \/ ResolveShipment(s)
       \/ DeleteShipment(s)
  /\ UNCHANGED <<job, alone, bookedOnce>>

BeginOn(w, d) ==
  \/ \E ids \in SUBSET Assets, l \in OrNull(Locations) : BeginCreate(w, d, ids, l)
  \/ \E a \in Assets :
       \/ \E force \in BOOLEAN : BeginAdd(w, d, a, force)
       \/ BeginRemove(w, d, a)
  \/ BeginStart(w, d)
  \/ BeginComplete(w, d)
  \/ BeginCancel(w, d)
  \/ BeginDelete(w, d)
  \/ \E s \in Shipments : BeginLink(w, d, s) \/ BeginUnlink(w, d, s)

Begin(w) ==
  \/ \E ids \in SUBSET Assets, l \in OrNull(Locations) : BeginPick(w, ids, l)
  \/ \E d \in Deployments : BeginOn(w, d)

GoOn(w) ==
  \/ \E d \in Deployments : InsertPicked(w, d)
  \/ CheckItem(w) \/ CheckItemShips(w) \/ InsertItems(w)
  \/ CheckAdd(w) \/ CheckAddShips(w) \/ FindPlanning(w) \/ ReleaseItem(w) \/ InsertItem(w)
  \/ DeleteItem(w)
  \/ WriteStatus(w)
  \/ UnlinkShipments(w) \/ DeleteItems(w) \/ DeleteRow(w)
  \/ WriteLink(w)

Init ==
  /\ depStatus = [d \in Deployments |-> "none"]
  /\ depItems = [d \in Deployments |-> {}]
  /\ depTarget = [d \in Deployments |-> NULL]
  /\ shipResolution = [s \in Shipments |-> "none"]
  /\ shipCarrier = [s \in Shipments |-> "pending"]
  /\ shipItems = [s \in Shipments |-> {}]
  /\ shipDep = [s \in Shipments |-> NULL]
  /\ shipDirection = [s \in Shipments |-> "outbound"]
  /\ shipTo = [s \in Shipments |-> NULL]
  /\ assetLoc = [a \in Assets |-> NULL]
  /\ locLogged = [a \in Assets |-> NULL]
  /\ archived = {}
  /\ InitRequests
  /\ bookedOnce = TRUE

Next == (\E w \in Workers : Begin(w) \/ GoOn(w)) \/ Restart \/ OtherUsers

allVars == <<vars, job, alone, bookedOnce>>

Spec == Init /\ [][Next]_allVars

-----------------------------------------------------------------------------
(***************************************************************************)
(* What a session may hold between two of its statements.                  *)
(***************************************************************************)
PickJobs == [step : {"insert_row"}, ids : SUBSET Assets, target : OrNull(Locations)]
CreateJobs ==
  [step : {"check_items"}, d : Deployments, ids : SUBSET Assets, todo : SUBSET Assets,
   picked : BOOLEAN]
CheckJobs ==
  [step : {"check_ships"}, d : Deployments, ids : SUBSET Assets, todo : SUBSET Assets,
   picked : BOOLEAN, a : Assets]
AddJobs ==
  [step : {"check_item", "check_item_ships", "find_planning", "insert_item"}, d : Deployments, a : Assets,
   force : BOOLEAN, from : OrNull(Deployments)]
ReleaseJobs ==
  [step : {"release"}, d : Deployments, a : Assets, force : BOOLEAN, from : Deployments]
RemoveJobs == [step : {"delete_item"}, d : Deployments, a : Assets]
StatusJobs ==
  [step : {"write_status"}, d : Deployments, to : DeploymentStatus, moves : SUBSET Assets,
   target : OrNull(Locations)]
DeleteJobs ==
  [step : {"unlink_all", "delete_items", "delete_row"}, d : Deployments, ships : SUBSET Shipments]
LinkJobs == [step : {"write_link"}, s : Shipments, to : OrNull(Deployments)]

Jobs ==
  {Idle} \cup PickJobs \cup CreateJobs \cup CheckJobs \cup AddJobs \cup ReleaseJobs \cup RemoveJobs
    \cup StatusJobs \cup DeleteJobs \cup LinkJobs

RequestsTypeOK ==
  /\ TypeOK
  /\ job \in [Workers -> Jobs]
  /\ alone \in [Workers -> BOOLEAN]
  /\ bookedOnce \in BOOLEAN

(***************************************************************************)
(* "An asset on an active deployment (planning | in_progress) is reserved" *)
(* (deployment_service.py line 8).  If no asset is on two of them when a   *)
(* request begins that overlaps no other, each of its statements leaves it *)
(* so, and is a step of the reservation ledger or none, though no          *)
(* transaction protects it and the server may be killed after it: half a   *)
(* forced move is a release, half a delete is a closed deployment that is  *)
(* still listed.  (One that lost its items to an unfinished delete counts  *)
(* as closed.)  It is not enough that no asset is on two of them now: a    *)
(* forced add takes the asset off one of two plans it is on, and then puts *)
(* it on a third.                                                          *)
(***************************************************************************)
StandingFirm == {d \in LedgerFirm : depItems[d] # {}}

StatementLedger == INSTANCE ReservationLedger
  WITH Holders <- Deployments, Nobody <- NULL, holder <- LedgerHolder, firm <- StandingFirm

LoneRequestStepsTheLedger ==
  [][\A w \in Workers :
       Writes(w) /\ alone[w] /\ bookedOnce
         => /\ OneActiveDeployment'
            /\ StatementLedger!Next \/ UNCHANGED <<LedgerHolder, StandingFirm>>]_allVars

(***************************************************************************)
(* The lifecycle of deployment_service.py lines 17-21: planning (where a   *)
(* creation starts) to in_progress, in_progress to completed, either to    *)
(* cancelled.  Items are "only" added and removed in 'planning' (lines 432 *)
(* and 478), but by a deletion.  A step outside of it (a start over a      *)
(* cancellation, say, or an item that joins a deployment which is under    *)
(* way) is the write of a request that overlapped another.                 *)
(***************************************************************************)
LifecycleSteps ==
  {<<"none", "planning">>, <<"planning", "in_progress">>, <<"in_progress", "completed">>,
   <<"planning", "cancelled">>, <<"in_progress", "cancelled">>}

LoneRequestKeepsLifecycle ==
  [][\A w \in Workers, d \in Deployments :
       Writes(w) /\ alone[w] =>
         /\ depStatus'[d] \notin {depStatus[d], "none"}
              => <<depStatus[d], depStatus'[d]>> \in LifecycleSteps
         /\ depItems'[d] # depItems[d] => depStatus[d] = "planning" \/ DeleteItems(w)]_allVars

(***************************************************************************)
(* An auto-assignment picks "assets matching type ... not on any active    *)
(* deployment or active shipment" (deployment_service.py lines 198-199),   *)
(* and its own check of the picks agrees: unless requests overlap, no pick *)
(* is refused for a deployment it is on (but one may be for a shipment     *)
(* made since).                                                            *)
(***************************************************************************)
LonePickIsAccepted ==
  [][\A w \in Workers :
       CheckItem(w) /\ alone[w] /\ job[w].picked => ~At(w, "idle")']_allVars

(***************************************************************************)
(* A forced add moves the asset: once it is taken off the old plan, the    *)
(* request puts it on the new one (deployment_service.py lines 11-12, "we  *)
(* remove from old, add to new") unless it overlapped another (which may   *)
(* delete the new plan) or was killed.                                     *)
(***************************************************************************)
LoneForcedMoveArrives ==
  [][\A w \in Workers :
       InsertItem(w) /\ alone[w] /\ job[w].from # NULL
         => job[w].a \in depItems'[job[w].d]]_allVars
=============================================================================
