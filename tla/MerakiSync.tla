----------------------------- MODULE MerakiSync ------------------------------
(***************************************************************************)
(* The syncs with Meraki on one set of tables, while the dashboard, the    *)
(* users and Defender's reports change what they work on: the sync of      *)
(* everything (bulk_sync_from_meraki) upserts the devices as assets, then  *)
(* syncs the networks, then the clients, each whether or not the one       *)
(* before it failed.                                                       *)
(***************************************************************************)
EXTENDS NetworkSync, ClientCache

(* Meraki answers its devices; if it does not, nothing is synced. *)
BeginBulkSync(w) ==
  /\ At(w, "idle")
  /\ Serve(w, [step |-> "devices", full |-> TRUE, since |-> epoch, ok |-> TRUE,
               held |-> [todo |-> {a \in Assets : Dashboard.home[a] # NULL}]])
  /\ UNCHANGED <<epoch, netTables, clients, assetTables>>

(* A device becomes an asset, a commit each; one that is there, archived or not, keeps its row. *)
UpsertDevice(w, a) ==
  /\ At(w, "devices")
  /\ a \in job[w].held.todo
  /\ asset' = IF asset[a] = "none" THEN [asset EXCEPT ![a] = "live"] ELSE asset
  /\ GoTo(w, "devices", [todo |-> job[w].held.todo \ {a}])
  /\ UNCHANGED <<epoch, netTables, clients, link, lastIp>>

(* POST /networks/sync. *)
BeginNetworkSync(w) ==
  /\ At(w, "idle")
  /\ Serve(w, [step |-> "list", full |-> FALSE, since |-> epoch, ok |-> TRUE,
               held |-> Nothing])
  /\ UNCHANGED <<epoch, netTables, clients, assetTables>>

(* POST /networks/relink-assets, or the end of a sync with Intune. *)
BeginRelink(w) ==
  /\ At(w, "idle")
  /\ \E placed \in {Dashboard.home, Nowhere} :
       Serve(w, [step |-> "relink", full |-> FALSE, since |-> epoch,
                 ok |-> placed = Dashboard.home, held |-> [placed |-> placed]])
  /\ UNCHANGED <<epoch, netTables, clients, assetTables>>

(* A sync with Intune stores the IP that Defender reports, or that it has none. *)
ReportIp(a, ip) ==
  /\ asset[a] # "none"
  /\ lastIp[a] # ip
  /\ lastIp' = [lastIp EXCEPT ![a] = ip]
  /\ Overtakes
  /\ UNCHANGED <<epoch, netTables, clients, asset, link>>

OnboardAsset(a) ==
  /\ asset[a] = "none"
  /\ asset' = [asset EXCEPT ![a] = "live"]
  /\ Overtakes
  /\ UNCHANGED <<epoch, netTables, clients, link, lastIp>>

ArchiveAsset(a) ==
  /\ asset[a] = "live"
  /\ asset' = [asset EXCEPT ![a] = "archived"]
  /\ Overtakes
  /\ UNCHANGED <<epoch, netTables, clients, link, lastIp>>

(* The dashboard is changed. *)
MerakiChanges ==
  /\ epoch < Len(Meraki)
  /\ epoch' = epoch + 1
  /\ UNCHANGED <<netTables, clients, assetTables, job, alone>>

(* The server is killed: what was flushed stays. *)
Restart ==
  /\ DropRequests
  /\ UNCHANGED <<epoch, netTables, clients, assetTables>>

-----------------------------------------------------------------------------
Init ==
  /\ epoch = 1
  /\ network = [n \in Networks |-> "none"]
  /\ vlans = NoneOf
  /\ clients = NoneOf
  /\ asset = [a \in Assets |-> "none"]
  /\ link = Nowhere
  /\ lastIp = [a \in Assets |-> NULL]
  /\ InitRequests

GoOn(w) ==
  \/ \E a \in Assets : UpsertDevice(w, a)
  \/ NetworkSteps(w)
  \/ ClientSteps(w)

UserActs ==
  \E a \in Assets :
    \/ OnboardAsset(a)
    \/ ArchiveAsset(a)
    \/ \E ip \in Reports : ReportIp(a, ip)

Begin(w) == BeginBulkSync(w) \/ BeginNetworkSync(w) \/ BeginRelink(w)

Next ==
  \/ MerakiChanges
  \/ UserActs
  \/ \E w \in Workers : Begin(w) \/ GoOn(w)
  \/ Restart

Spec == Init /\ [][Next]_vars

-----------------------------------------------------------------------------
(***************************************************************************)
(* "Archive locally-known networks no longer in Meraki" (network_service   *)
(* line 432), VLANs "that disappeared" (line 271) and clients "that        *)
(* vanished" (meraki_client_service line 156): what syncs take away,       *)
(* overlapping or not, Meraki has lost, or it has changed since the sync   *)
(* began.  A fetch that failed costs VLANs and clients, never a network.   *)
(***************************************************************************)
LossHasACause ==
  [][\A w \in Workers : job'[w] # job[w] /\ ~At(w, "idle") /\ job[w].since = epoch =>
       \A n \in Networks :
         /\ network[n] = "active" /\ network'[n] = "archived" => n \notin Dashboard.org
         /\ job[w].ok => vlans[n] \cap Dashboard.lan[n] \subseteq vlans'[n]
         /\ job[w].ok => clients[n] \cap Dashboard.seen[n] \subseteq clients'[n]]_vars

(* The sync w is the only request since it began, and Meraki answered it well. *)
Undisturbed(w) == alone[w] /\ job[w].ok /\ job[w].since = epoch

(***************************************************************************)
(* "Pull every network in the org" (network_service line 318), "so the     *)
(* cache reflects the lookback window exactly" (meraki_client_service      *)
(* lines 71-72): a sync of everything that nothing disturbed ends with     *)
(* tables that say what the dashboard says, whatever overlapping, killed   *)
(* and failed syncs left before it.  A network that has no VLAN any more   *)
(* loses its rows, though line 272 calls an empty answer a no-op; devices  *)
(* whose asset is archived are left as they are.                           *)
(***************************************************************************)
FullSyncMirrorsDashboard ==
  [][\A w \in Workers : StoreClients(w) /\ Undisturbed(w) /\ Dashboard.org # {} =>
       /\ \A n \in Networks : network'[n] = "active" <=> n \in Dashboard.org
       /\ \A n \in Dashboard.org :
            vlans'[n] = Dashboard.lan[n] /\ clients'[n] = Dashboard.seen[n]
       /\ \A a \in Assets : Dashboard.home[a] # NULL =>
            /\ asset'[a] # "none"
            /\ asset'[a] = "live" => link'[a] = Dashboard.home[a]]_vars

(* The sync w ends its relinking. *)
Relinks(w) == (ReadLinks(w) \/ WriteLinks(w)) /\ ~At(w, "setlinks")'

(***************************************************************************)
(* A relinking that nothing disturbed leaves a live asset linked to an     *)
(* archived network only if nothing says where it is: Meraki does not know *)
(* its serial, and it has no IP to match or there is no VLAN to match it   *)
(* with.                                                                   *)
(***************************************************************************)
StaleLinkIsUnknown ==
  [][\A w \in Workers : Relinks(w) /\ Undisturbed(w) =>
       \A a \in Assets : asset[a] = "live" /\ link'[a] # NULL =>
         \/ network[link'[a]] = "active"
         \/ Dashboard.home[a] = NULL /\ (lastIp[a] = NULL \/ VlanIndex = {})]_vars

(***************************************************************************)
(* Links are chosen from networks, VLANs and addresses that were read      *)
(* earlier.  Whatever overlaps, fails or is killed, an asset comes to be   *)
(* linked to a network that is not active in two ways only: the network is *)
(* archived under the link, by a sync that relinks next, or the link was   *)
(* chosen before that and its relinking overlapped another request.        *)
(***************************************************************************)
IsStale(a) == link[a] # NULL /\ network[link[a]] # "active"

StaleLinkByKnownDoors ==
  [][\A a \in Assets :
       ~IsStale(a) /\ IsStale(a)' =>
         \E w \in Workers :
           \/ CommitNetworks(w) /\ link[a] \in job[w].held.gone
           \/ WriteLinks(w) /\ ~alone[w]]_vars
=============================================================================
