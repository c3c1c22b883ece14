# Asset inventory backend: verification project

TLA+ models of the asset inventory backend (FastAPI endpoints, SQLAlchemy
services, SQLite), the TLC runs that check them on small instances, and TLAPS
proofs of their main theorems for instances of any size. `PROJECT.json` lists
the components, runs, mutants, findings, hazards and theorems, and maps every
definition to the source lines it stands for.

## 1. The system

An HTTP API keeps the inventory of an organisation's devices: which assets
exist, where they are, who has them, which deployment or shipment they are
promised to. Endpoints are synchronous functions; FastAPI runs them in a thread
pool, one SQLAlchemy session per request (`app/db.py`, `get_db`). Four facts
about the runtime shape everything below:

* **Every statement commits by itself.** The SQLite engine is built with
  `isolation_level=None` and no event hook emits `BEGIN` (`app/db.py` 28-45), so
  `db.flush()` and bulk statements are durable at once and `rollback()` undoes
  nothing that was emitted.
* **What a session loaded may be stale.** Rows stay in the identity map until the
  next commit expires them; checks read them, `UPDATE`s are keyed by id alone.
* **The ORM writes only changed columns**, so a lost update needs two requests
  writing the same column (status over status).
* **`PRAGMA foreign_keys=ON`**: an insert or delete that breaks a reference fails
  alone; the statements before it stay.

### Components

| Component | State | Operations | Hard part | What makes it correct | Modelled |
|---|---|---|---|---|---|
| Deployment service (`deployment_service.py`) | `deployments`, `deployment_items` | create, update, add (with force-move), remove, start, complete, cancel, archive, delete, link/unlink shipments | rules across rows without transactions, stale checks, force-move in two commits | an asset is on one active deployment; a started one keeps its items; the lifecycle is followed; closed ones are records | yes |
| Shipment service (`shipment_service.py`) | `shipments`, `shipment_items`, `shipment_events` | create, add, remove, refresh, resolve, cancel, archive, delete, update | carrier answers that arrive late or take back a delivery; two commits per refresh | one active shipment per asset; events are a union; a delivery drops the assets | yes |
| Carrier tracking (`tracking_service.py`) | OAuth token per carrier | `fetch_tracking` (UPS, FedEx) | unknown codes, unreadable dates, errors | the newest scan gives the status; it never raises | what a fetch answers |
| Inventory service (`inventory_service.py`) | `assets`, assignment and location histories, statuses, locations | onboard, assign, unassign, change status, archive, bulk moves, Intune and Meraki syncs, vendor refresh | syncs against user actions, best-effort pushes after the commit, names that vendors and users both give | history agrees with the assignee; archived assets are nobody's; Intune is told; a name that looks like no type code stays | all but the dashboard queries, the deletion of a status and plain columns |
| Network service (`network_service.py`) | `networks`, `network_vlans`, asset links | Meraki sync, VLAN upsert, linking | a failed fetch against an empty answer, a flush that fails half way | a sync mirrors the dashboard; a link to an archived network has a known cause | yes, but for editing a network's location |
| Meraki clients (`meraki_client_service.py`) | `meraki_clients` | refresh: upsert, delete unseen | the same | the same | yes |
| Defender cache (`defender_service.py`, warmer in `main.py`) | an in-memory index with a TTL, a warmer thread | `cached_index`, `refresh_cache` | builders that race past the TTL, failures, restarts | never much older than its stamp; kept warm | yes |
| Intune and Graph (`intune_service.py`, `_graph_paging.py`) | external | primary user, managed devices, users, paging | failures after the local commit | see inventory | as an external service |
| Device lookup (`lookup_service.py`) | `device_lookups` | look up, cache, enrich, retry on 429 | seek then insert; two notions of a good row; sessions broken by a collision | what is cached is what was told; bounded retries | yes |
| Users, Snowflake (`user_service.py`, `snowflake_service.py`) | `intune_users`, `locations` | upsert, deactivate unseen | recreated users with a unique UPN, empty answers | an undisturbed sync equals its source | both syncs |
| Groups, software | `entra_groups`, software tables | upsert | - | as for users, without a second unique column | no |
| Authorisation (`auth_context.py`, `dependencies.py`) | none | permission checks | none across requests | no right without a role | no: the models assume an authorised caller |
| Start-up (`main.py`) | all tables | create, seed, legacy migrations at every boot | "one-shot" migrations that run again, killed anywhere | idempotent; nothing legacy is left | locations and the two migrations; not the column additions |
| Asset locator (`asset_locator_service.py`) | none | where is this device | it computes what relinking stores | they agree | no: read-only; its matching of addresses is that of relinking (`MatchIp`) |
| Reports, feature sample | none | queries, formatting | - | - | no: read-only |
| Jobs, listeners, scripts, infra, contracts | none | - | - | - | no: stubs and deployment files |

Deployments and shipments interact through tables only: a shipment may belong to
a deployment (`shipments.deployment_id`), each service reads the other's items
before it reserves an asset, and completing a deployment or delivering an
inbound shipment moves assets that belong to the inventory service. The syncs
interact through the assets: Intune syncs store the address Defender reports,
Meraki syncs and relinking derive the network from it and from the device's
serial, the locator derives it again; both an Intune sync and a vendor refresh
enrich an asset through the cache that look-ups share.

## 2. The modules

```
InventoryTables            the columns, what "active" means, who holds an asset
  DeploymentService        one action per operation of deployment_service.py
  ShipmentService          one action per operation of shipment_service.py
  ReservationRules         the rules asked of the tables, whoever wrote them
    (INSTANCE) ReservationLedger   the abstract promise: at most one holder per asset
Reservations               all of them on one set of tables, a request per step
RequestPool                threads that serve requests taken apart into steps
DeploymentRequests         the deployment operations taken apart into their statements
AssetAssignment            who has an asset: table, history, Intune; taken apart too
ShipmentTracking           refresh_shipment taken apart, for one shipment
MerakiTables               networks, VLANs, clients, links; matching an address
  NetworkSync              the sync of networks and the relinking
  ClientCache              the refresh of the clients
MerakiSync                 both, the device sync, relinks, Defender's addresses
LookupCache                cached look-ups of codes: providers, goodness, writes
  VendorRefresh            enrichment of assets: sync of one, refresh of all
DeviceLookups              both, renames, expiry, kills
DefenderIndex              the index, its builders and warmer; Meraki retries
UserMirror                 the copy of Entra's users
Places                     locations and statuses: sync, users, start-up
Mirrors                    the three, with restarts
MC*                        instances for TLC
ReservationsProofs, RequestsProofs, AssignmentProofs, TrackingProofs,
MerakiProofs, LookupsProofs, MirrorsProofs      theorems about the module of that name
LedgerProofs                                    lemmas about the ledger for the first two
```

**InventoryTables.** A row that does not exist has status `"none"`
(`depStatus`, `shipResolution`); the primary keys are reused after a hard delete,
as SQLite does. Kept columns: deployment status, items and target location;
shipment resolution, carrier status, items, deployment, direction and
destination; asset location; whether a row is archived. `locLogged` is the
location the newest row of an asset's location history says it went to. Names,
notes, users and timestamps are left out: no rule reads them.

**DeploymentService, ShipmentService.** One action is one request that is served
without interruption. Guards are the code's checks and early returns; a refused
request changes nothing and is not an action, except the one that does change
something: a creation answered with 409 has flushed its row
(`CreateDeploymentRejected`). Here the picks of an auto-assignment are a list
like any other (`DeploymentRequests` has the picking itself).
`AddDeploymentItem` and `ForceMoveDeploymentItem` are the two outcomes of
`add_item`.

**Reservations** adds `bulk_set_location`, the location half of `assign_asset`
and `archive_asset`, the asset operations that touch the same columns, the
migrations that park assets at the warehouse at every boot (`ParkAtBoot`, which
writes no history; which assets they find depends on columns that `Places` has,
so here it is any set of assets without a location), and the properties.

**RequestPool** is shared by the modules that take requests apart. `alone[w]`
remembers that no other request was in progress at any time since this one
began; properties use it to say what only overlapping requests can break.

**DeploymentRequests.** `job[w]` is what is left of the request thread `w` is
serving, with the values its session has loaded. A step is one query, or the
statements of one flush: `BeginStart` loads the status and the items,
`WriteStatus` is the `UPDATE` keyed by id. A statement that violates a foreign
key, or an ORM update that matches no row (`StaleDataError`), ends the request
and leaves what it wrote before. `Restart` kills the process between any two
steps. Other users' shipment requests are one step each. The availability check
of an item is two queries, hence two steps: the active deployments (`CheckItem`,
`CheckAdd`), then the active shipments (`CheckItemShips`, `CheckAddShips`). A
creation with `auto_assign` first picks (`BeginPick`), then inserts its row,
then checks each pick like any item; "the oldest N of a type" is any set of
pickable assets, since types and ages are arbitrary. Abstractions: an item
delete is keyed by the item's id in the code and by its asset here (the same row
unless it is deleted and inserted again meanwhile); the statements of one flush
are one step, except where one of them may fail after another was committed
(`WriteStatus` of a deleted deployment, which may or may not have moved the
assets). `bookedOnce` remembers whether every asset was on at most one active
deployment when the last request began: a request that finds an asset booked
twice, by an earlier overlap, cannot repair it.

**ShipmentTracking.** One inbound shipment, the carrier's log of scans and
threads that poll it: load, fetch (an error, nothing, or the newest scans up to
some older one), compare with the stored events, commit events and status, read
the status again, drop the assets. An error ends the poll; an empty answer
without one goes on with an unmapped status and stores nothing (`Compare`). The
carrier may have scanned further by the time an answer is stored. A scan in
`Undated` is one whose date the parser replaces by the time of the poll.

**AssetAssignment.** The columns `archived_at` (as part of `row`), `status_code`,
`assigned_upn` and whether `intune_id` is set; `logged`, the assignee an
asset's newest telling history row gives (an archive tells that nobody has it);
`primary`, the device's user in Intune, which administrators change too. A
request loads the row, writes it (the ORM writes `assigned_upn` only if it
differs from what was loaded, so an archive that loaded no assignee clears none)
and tells Intune in a call that may fail. Both syncs share their steps: the sync
of one asset loads the row before it asks Intune, the bulk sync asks for all
devices before it loads a row; a vendor cache miss in between commits and so
reads the row again (`Enrich`). `Blank` is the empty string, which the API
accepts, Intune may answer, and the start-up turns into `NULL`. An import
flushes the asset and then its history, two steps. Columns the syncs fill
besides are left out, as are locations, which are in `Reservations`.

**MerakiTables, NetworkSync, ClientCache, MerakiSync.** `Meraki` is the sequence
of what the dashboard holds; `epoch` moves along it while syncs run, and a sync
remembers when it began (`since`), whether every call was answered (`ok`) and
whether it is a sync of everything (`full`); `held` is what its session or
memory holds at its step. Subnets are nested, so an address is the longest
subnet around it and `MatchIp` is the code's "most specific wins" on numbers. A
network sync asks everything first (`ListNetworks`, `FetchDetails`), then goes
through the rows; changes wait in the session (`dirty`, `revive`, `had`) for the
next flush, which is the insert of a new network (`InsertRow`) or the commit
(`CommitNetworks`). A flush that fails makes every later row an error and ends
the sync; what it wrote before stays. An archived asset is nobody's device for
the device sync and for relinking: both read live assets only, so it keeps its
link and is not brought back. A VLAN row is its network and its subnet; that the
code keys it by VLAN id, so that a VLAN may change its subnet in place, is left
out. A failed VLAN fetch is an empty answer, a failed page of clients cuts the
answer short, a failed listing raises: the three are told apart.

**LookupCache, VendorRefresh, DeviceLookups.** A cached row is its source,
whether its manufacturer says Meraki (`cisco`), whether it has no name, a type
code or a friendly name, whether it knows a warranty and whether it is fresh.
The code has two tests of a good row, for a look-up (`GoodForLookup`) and for an
enrichment (`GoodForVendor`). `_write_cache` seeks the row, then inserts it or
updates the columns that differ from those loaded (`Updated`); an insert that
collides breaks the session: a look-up is answered all the same, a sync of one
asset fails later, a refresh loses one thread. A refresh loads all assets,
enriches each, and then decides on what it loaded; after a commit it loads
again. Its pool threads touch a row each and run one after the other here.
`model` is how an asset's name looks, which is all the code goes by: blank, a
type code (`"mtm"`), a vendor's (`"friendly"`), or `"own"`, a name that users
give and that looks like no type code. `GivenNames` are the looks users may
give; `renamed`, kept for the properties, the assets that a user renamed since a
request began.

**DefenderIndex.** Requests that find the index stale and bulk syncs fetch outside
the lock; `index` is the age of its data and of its stamp. `Tick` lets time pass
and lets no fetch exceed `LongestBuild` nor the warmer oversleep. A failure keeps
the last index and does not touch the stamp. A Meraki call with its 429 retries
is the other waiting request.

**UserMirror.** The sync loads the row of each user Graph lists and flushes at its
commit: updates in the order of the ids, then inserts, each statement committed
by itself, up to the first one that the unique UPN refuses.

**Places.** The start-up statement by statement (`boot`), the sync with Snowflake
(a query per row of the answer, `ReadPlace`; a row whose query fails is skipped
but counts as seen; a location listed twice, `twice`, is one insert too many),
deletion of a location (check, then `DELETE`, which a foreign key may refuse),
and what users do to locations, statuses and assets. `lost` marks, in a session,
the loaded rows that somebody deleted: an update of one fails the flush. The
start-up parks assets in the status `in_warehouse` whether archived or not, and
unassigned ones only if they are not archived, as the two queries of `main.py` do.

**Mirrors** puts the three copies and the restarts together. They share no table
and no lock, so `part` restricts a behaviour to one of them.

## 3. The checks

TLC, two workers, each run below three minutes. Every run explores all reachable
states of its instance.

| Run | Instance | What it shows |
|---|---|---|
| `res_deployments` | 2 assets, 2 deployments, 1 shipment, 3 carrier reports, archiving of one deployment and the shipment | `OneActiveDeployment`, `InProgressHasItems`, `NoDanglingRows`; the tables implement the ledger (`ImplementsLedger`); a closed deployment is a record (`ClosedDeploymentIsFrozen`); an asset is held by a deployment and on somebody else's active shipment only through the three doors the code leaves open (`TornOnlyByKnownDoors`) |
| `res_shipments` | 1 asset, 1 deployment, 2 interchangeable shipments, the warehouse, both directions, archiving of the asset, boots | `TypeOK`; an asset is on two active shipments only after the carrier takes back a delivery or an exception (`SharedOnlyByReactivation`); no request moves an archived asset; every move but an inbound delivery and the parking at a boot is in the location history |
| `res_forcemove` | as the first | *violated:* `ForeignShipmentBlocksAdd` |
| `req_overlap` | 2 workers, 2 assets, 2 deployments, 1 shipment, killed anywhere; all rows and workers interchangeable | `RequestsTypeOK`, `NoDanglingRows` for every interleaving; a request that overlaps no other, finished or killed half way, steps the reservation ledger if no asset was booked twice when it began (`LoneRequestStepsTheLedger`), follows the lifecycle, completes a forced move it began, and sees its picks refused only for a shipment made since (`LonePickIsAccepted`) |
| `req_doublebooking` | 2 workers, 1 asset | *violated:* `OneActiveDeployment` |
| `trk_overlap` | 2 pollers, a parcel that is excepted, delivered, scanned with an unmapped and undated code, and moving again, one kill | `TrackingTypeOK`; no drop without a stored delivery; whatever the carrier answers, an un-overlapped poll stores no dated scan twice and leaves the newest scan's status; a shipment that stays delivered gets its assets dropped unless a poll was killed (`DropsUnlessKilled`) |
| `trk_lostdrop` | 1 poller that polls for ever, one kill | *violated:* `DeliveredIsDropped` |
| `ast_overlap` | 2 interchangeable workers, 1 asset, 1 person, the staging and the blank user | `AssignmentTypeOK`; history tells the assignee, archived assets stay retired and nobody's (but for the syncs), a sync takes no assignee away: only overlaps break these; table and Intune stop agreeing only by a failed or killed push, a change in Intune, a blank assignment or an overlap |
| `ast_archived` | 1 worker, 1 asset | *violated:* `ArchivedIsNotAssigned` |
| `mrk_overlap` | 2 interchangeable workers, 2 networks with nested subnets, 1 client, 1 asset that may be archived, 3 states of the dashboard, fetches of one network failing | a sync takes away only what Meraki lost, what changed meanwhile, or VLANs and clients of a failed fetch, never a network (`LossHasACause`); an undisturbed full sync mirrors the dashboard whatever wreck it starts from; an undisturbed relinking leaves a link to an archived network only if nothing says better; whatever overlaps, an asset comes to be linked to an archived network only when that network is archived under it, or by a relinking that overlapped another request (`StaleLinkByKnownDoors`) |
| `lkp_overlap` | 2 interchangeable workers, 1 code, 5 kinds of device behind it, users give an `own` name | whatever overlaps, a name that looks like no type code is taken away only by a request during which a user renamed the asset (`EarlierNameIsKept`); syncs of an asset and the unity of a cached row are lost only to overlaps; a good row is overwritten only by an enrichment that could not use it (`NamedRowLostByKnownDoors`) |
| `mir_restarts` | 2 workers; TTL 3, fetches up to 2 units, 2 retries; 3 users, 4 states of Entra; 1 site, the warehouse, 1 asset; restarts at any point | the index is at most a fetch older than its stamp; once Defender stays up it is kept recent for ever; every request ends; undisturbed syncs mirror Entra and Snowflake; a completed start-up leaves nothing legacy: no unarchived stock without a place, no status of old |

**Bounds.** A reservation conflict involves one asset and two holders; two
assets add requests that conflict on part of their list and a deployment that
keeps one item when it loses another. A third deployment repeats the role of the
second with one exception, the forced add of an asset that is on two plans
already (below); the instance of `req_overlap` with three deployments is too
large to finish, and its properties are proved for any number of them. Two
shipments are needed only for rules between shipments, which is why
`res_shipments` has them and a single asset. Two workers give every pairwise
race of the code's checks and writes; the properties that fail under two would
fail under more, and the ones proved hold for any number. Two rows per scan are
enough to see a duplicate (`MaxRows` counts no further), one kill to lose a
drop. `Archivable` names the rows a run archives, so that a run pays only for
the archiving its properties are about. Nothing in `AssetAssignment` relates two
assets, so one is enough; three users (a person, staging, blank) give an
assignment that overwrites another. The dashboard of `mrk_overlap` is first
empty, then has two sites whose subnets nest, then loses a network, a VLAN, a
client and the device: each kind of loss, once. One network's fetches fail, so
that a failure and an answer meet in one sync. One code is enough for
`lkp_overlap`, whose properties relate the rows of one code; the loop of a
refresh over several assets is then a single pass; users give `own` names, as a
blank or a type code they type is treated like a vendor's (with two codes and a
single worker the same properties hold, 9.8 million states, which is too long
for a regular run). TTL 3 and `LongestBuild` 2 let a fetch end before and after
the index is stale; `Outdated` caps ages above any bound a property speaks of.
Entra's users join, swap, leave and are recreated, the cases in which a unique
UPN is handed on. Deadlock is checked in every run.

**Violated properties.** Each quotes the code's own words; the finding in
`PROJECT.json` has the line.
* A forced add returns before it looks at shipments
  (`deployment_service.py` 164-171), so an asset its old deployment is shipping
  moves to another deployment, against lines 13-14.
* Two requests that overlap both find an asset free and both insert it, against
  line 8: no transaction and no constraint spans two deployments. The same lack
  lets a start overwrite a cancellation, a removal take an item from a started
  deployment, and a forced move lose the asset when the new deployment is deleted
  under it; the `Lone...` properties say that only overlaps do this.
* A process killed between the two commits of a refresh never drops the assets:
  the next refresh reads `delivered` as the previous status.
* A sync assigns an archived asset again: archiving leaves the user in Intune and
  the syncs do not look at `archived_at`, against "Cannot assign archived asset"
  (`inventory_service.py` 741).

**Met while modelling, not counted as disagreements.** A creation refused with
409 leaves an empty planning deployment. A forced add of an asset that two
active deployments list takes it off one of them only and adds it to a third,
which no step of the ledger does: the attempt to prove
`LoneRequestStepsTheLedger` showed it, two deployments cannot, and the property
now excludes the tables that an overlap has already spoilt (`bookedOnce`).
Overlapping polls store a scan twice, an undated scan is stored at each poll,
and an old answer overwrites a newer status (`LonePollStoresOnce`,
`LonePollStoresNewest` delimit both). `_upsert_vlans_for_network` says "No-op
when `fresh_vlans` is empty" (`network_service.py` 271-272) but deletes what is
stored. The code is right when a network has lost its last VLAN:
`FullSyncMirrorsDashboard`, checked and proved, asks for the deletion and so
says the opposite of the docstring. It loses data when the fetch failed, which
`LossHasACause` allows (`ok`). "Otherwise keep manual edit"
(`inventory_service.py` 2036) goes by the look of the name: a user's name that
looks like a Lenovo type code is replaced by a vendor's in a lone sync;
`EarlierNameIsKept` speaks of the other names. The boot moves assets without a
history row (`main.py` 71-77, 114-122), as an inbound delivery does
(`MoveIsLogged` names both). `DeviceLookup`'s docstring says that failures are
cached "so we don't hammer external APIs on repeated misses"
(`models/inventory.py` 475-476); `lookup_device` retries a row without a
friendly name (`GoodForLookup`). A link to an archived network survives when
Meraki does not know the device and no address or VLAN says better
(`StaleLinkIsUnknown`). A user renamed to a UPN that another row still holds
fails the sync after some of its rows were written (`UsersMirrorEntra`). The
listing of networks reads the first 1000 only (`lookup_service.py` 407); the
model's organisation is smaller.

**Fairness.** `ShipmentTracking` and `Mirrors` have some. `WF(GoOn(p))`: a thread that is
refreshing is scheduled, its HTTP call has a timeout and answers an error at
worst, so it finishes. Nothing obliges anyone to poll: `BeginPoll` is fair only
in `PolledSpec`, the reading most favourable to the violated property. The
carrier is never obliged to scan, the server never to be killed. In `Mirrors`,
`WF(GoOn(w))`: a request's thread is scheduled and its calls time out;
`WF(Warm)`: the warmer is a daemon thread whose loop catches every exception;
`WF(Clock)`: time passes, and as `Tick` waits for a fetch that has reached its
bound, fetches end. Defender is not obliged to answer (`WarmerKeepsIndexRecent`
assumes that it does from some time on, and that restarts end), nor users to
ask. The other runs check safety only: no user is obliged to send a request.

## 4. The proofs

Checked by `tlapm`; they hold for any sets of assets, deployments, shipments,
locations, archivable rows, carrier reports, workers, people, scans, users,
tenants, sites, ages and bounds that meet the named assumptions of the modules:
for instance those of `InventoryTables` (`NULL` is no row and no location,
carrier reports are carrier statuses) and of `AssetAssignment` (the staging
user, the blank one, `NULL` and the people are told apart; `active` and
`retired` are seeded statuses).

* `ReservationsProofs`: `TypeCorrect`, `ReservationIsExclusive`,
  `StartedDeploymentKeepsItems`, `ForeignKeysHold`. `OneActiveDeployment` is not
  inductive: creating a deployment under a free key reserves the new items, which
  is safe only if the free key owns none (`NoDanglingRows`), and typing is needed
  throughout. The invariant is `IInv == TypeOK /\ OneActiveDeployment /\
  InProgressHasItems /\ NoDanglingRows`, one lemma per group of operations, one
  step per action. From it follow the refinement and every action property of
  the module: `TablesImplementLedger` (an asset's holder, a `CHOOSE` over the
  active deployments that list it, is exact, `HolderIsExact`; each operation is
  one ledger step, a create reserves, a force-move transfers, a start confirms, a
  completion, cancellation or delete closes or releases, and all others stutter),
  `ClosedDeploymentsAreFrozen`, `ArchivedAssetsStayPut`, `MovesAreLogged`,
  `SharingNeedsReactivation`, `TearingNeedsKnownDoor`. `MovesAreLogged` needs one
  fact more, that a free shipment key has no carrier status left over
  (`FreeKeysArePending`): a shipment that its creation finds delivered drops the
  assets at once, and must not find its key delivered by the row before.
* `LedgerProofs`: the lemmas that `ReservationsProofs` and `RequestsProofs` share,
  from a change of the tables to a step of the ledger.
* `RequestsProofs`: `RequestsTypeCorrect` and `ForeignKeysHoldUnderOverlap`, for
  any number of workers and restarts at any point. `NoDanglingRows` together with
  the typing of what sessions hold is inductive: each write re-establishes the
  references it touches because the database checks them at that statement.
  `LoneSessionsAreCurrent` adds what a lone request still knows, statement by
  statement (`LoneInv`: all other workers are idle, and what its session loaded
  and checked (`Current`) is what the tables say; if no asset was booked twice when it
  began, none is now). With it a check that passed still holds at the write,
  hence `LoneRequestsStepTheLedger`, `LoneRequestsKeepLifecycle`,
  `LonePicksAreAccepted` and `LoneForcedMovesArrive`, all under restarts.

* `AssignmentProofs`: `AssignmentTypeCorrect`, `LoneSyncIsCareful`,
  `LoneRequestRespectsArchive`, `LoneRequestTellsHistory`,
  `DivergenceIsExplained`. An action property needs an invariant that says what
  the session of a lone request still knows: `IInv == AssignmentTypeOK /\
  RowsExist /\ LoneIsFresh`. `LoneIsFresh` says that while a request overlaps no
  other, all others are idle and what its session loaded (the assignee, the
  status, whether Intune knows the device) is what the tables hold; `RowsExist`,
  that a loaded row does not go away. Then each step of a lone request is taken
  as it would be serially, and the property follows action by action. Changes in
  Intune and kills are allowed at any point.

* `TrackingProofs`: `TrackingTypeCorrect`, `EveryDropIsDocumented`,
  `LonePollIsIdempotent`, `LonePollIsNewest`. The invariant adds to the types
  that the scans of a pending answer run up to some scan the carrier has made,
  whose status is the answer's, and that this scan is stored or about to be;
  that while a poll is alone nothing newer is stored, and its previous status
  and its new rows are those of the tables; and that a stored delivered status,
  and a drop, are documented by a stored delivered scan. `DropIsOnItsWay` is the
  safety part of `DropsUnlessKilled`: while nothing was killed, a delivered
  shipment whose assets are not dropped has a poll that is about to drop them.
* `MerakiProofs`: `SyncsKnowTheirTables`, `LossesHaveACause`,
  `FullSyncsMirrorTheDashboard`, `StaleLinksAreUnknown`,
  `StaleLinksHaveKnownDoors`, for any workers, networks, nested subnets,
  clients, assets and history of the dashboard. `MerakiInv` has three layers:
  the types of the tables and of what a sync holds at each step; what every sync
  holds, however it is overlapped (`JobOK`): if the dashboard has not changed
  since it began, its answers are the dashboard's unless a call failed, the
  networks to be archived are outside its listing, and rows are taken in the
  listing's order; and what a sync that nothing disturbed knows of the tables
  (`KnowsTables`): which rows already mirror the dashboard, which wait in the
  session as they were loaded, that the devices are there, and which links are
  still to be set. The first two give `LossHasACause`; that the links a lone
  relinking is about to write are to active networks (`MovesAreActive`, kept
  whatever failed or changed on the dashboard) gives `StaleLinkByKnownDoors`;
  the third layer gives the others: a flush that nothing disturbed cannot
  collide, and the last commit completes the mirror. That the most specific VLAN
  exists, so that `MatchIp` gives an active network, is `MatchExists`, by
  well-founded minima of finite gaps. `DevicesAreInNetworks` is assumed of the
  dashboard: a device's network is one of the organisation's.
* `MirrorsProofs`: `IndexAgeIsBounded`, from `job` and `warmer` fetching for at
  most `LongestBuild` and the stamp ageing with the data; `StartUpMigratesAll`,
  from an invariant by steps of the start-up: what each statement established
  holds until the next, since nobody is served before it is up;
  `LoneLocationSyncMirrors`, `LoneUserSyncMirrors`, from `LoneInv`: a request
  that is alone is the only one busy, and what its session loaded is what the
  table holds, none of it deleted since. The flush is then taken apart by cases:
  all statements succeed, or a UPN was handed on. The safety parts of the two
  liveness properties: `WarmedIndexStaysRecent` (an index the warmer has stored
  stays recent, `Recent`, while Defender is up and the process lives) and
  `RequestsShorten` (`Left`, the steps a request has left at most, is a bounded
  number that every step of the request decreases and no other increases).
* `LookupsProofs`: `LoneSyncsAreStored`, `LoneAnswersAreCached`,
  `EarlierNamesAreKept`, `NamedRowsKeepTheirNames`, from `LookupsInv`: while a
  request is alone the row it is about to write is as it loaded it (`HadOK`; an
  expired row still is); and, overlapping or not, a request that holds an asset
  nobody renamed since knows its own name as such (`HeldOK`). Hence an INSERT
  cannot collide, an UPDATE of the columns that differ stores the whole answer,
  and an own name is seen before it could be overwritten. `HeldOK` survives the
  writes of others because no request gives an asset an own name, only users do.
  `NamedRowsKeepTheirNames` needs that a lone request asks and writes only
  because the row it looked at was not good, and that it still is not
  (`LoneRowsMissing`).

**Only model-checked:** `DropsUnlessKilled` of `ShipmentTracking`,
`WarmerKeepsIndexRecent` and `EveryRequestEnds` of `Mirrors`. All three say that
something happens in the end, and hold by weak fairness: the prover knows neither
`ENABLED` nor the rule that would need it. Their safety parts are theorems
(`DropIsOnItsWay`, `WarmedIndexStaysRecent`, `RequestsShorten`); that the thread
which is ready runs is what only TLC's runs conclude. Every invariant and every action
property that a passing run checks is a theorem. Not proved either is what
needs induction over data, or a count: that `Turnover` and the other instances
reach the interesting cases (TLC's mutants show that they do). No module uses a
`RECURSIVE` operator.

## 5. Not modelled, and what is left

* Groups and software (upserts keyed by one external id), the deletion of a status,
  the location edits of a network, the OAuth token of a carrier: one-statement
  operations on tables no modelled rule reads.
* The permission check: a pure function of a token and settings.
* The column additions of the start-up: idempotent DDL.
* What data a vendor, Intune or Defender record holds beyond the columns above;
  parsing and the spelling of names.
* Proofs worth adding next: bounds under overlap that no run states yet, such as
  which columns two overlapping syncs of the users or of the networks may leave
  apart, beyond the losses `LossHasACause` excludes.

The parts that are only I/O (HTTP clients, paging), reports and formatting are not
planned: they keep no state that two requests share.
