---------------------------- MODULE MerakiTables ----------------------------
(***************************************************************************)
(* The local copies of the Meraki dashboard: networks and their VLANs, the *)
(* clients seen on them, the devices as assets, and the network each asset *)
(* is linked to; how an IP is matched to a network.                        *)
(*                                                                         *)
(* job[w] is what is left of a sync: full tells that devices and clients   *)
(* are synced too, since when it began, ok that no fetch has failed, held  *)
(* what its session or memory holds now.                                   *)
(***************************************************************************)
EXTENDS RequestPool, Naturals, Sequences

CONSTANTS
  Networks,  \* primary keys of networks, one per network of the dashboard
  Subnets,   \* prefix lengths of the subnets, which are nested
  Clients,   \* MAC addresses
  Assets,
  NULL,
  Meraki,    \* what the dashboard holds, one record after the other
  Reports,   \* bound: the last IPs Defender reports in a run
  Failing    \* bound: the networks whose fetches fail in a run

ASSUME KeysAreNumbers == Networks \subseteq Nat /\ Subnets \subseteq Nat \ {0}
ASSUME NullIsNoNetwork == NULL \notin Networks \cup Subnets \cup {0}

ASSUME ReportsAreIps == Reports \subseteq Subnets \cup {0, NULL}

(***************************************************************************)
(* org: the organisation's networks; lan: the subnets of each network's    *)
(* VLANs or single LAN; home: the network of the device with an asset's    *)
(* serial; seen: the clients lately seen on each network.                  *)
(***************************************************************************)
ASSUME MerakiIsTyped ==
  /\ Meraki # <<>>
  /\ Meraki \in Seq([org : SUBSET Networks, lan : [Networks -> SUBSET Subnets],
                     home : [Assets -> Networks \cup {NULL}], seen : [Networks -> SUBSET Clients]])

(* A device that is in a network is in one of the organisation's. *)
ASSUME DevicesAreInNetworks ==
  \A e \in DOMAIN Meraki, a \in Assets : Meraki[e].home[a] \in Meraki[e].org \cup {NULL}

VARIABLES
  epoch,    \* external: the dashboard holds Meraki[epoch]
  network,  \* networks: "none", "active" or "archived"
  vlans,    \* network_vlans of each network, by their subnets
  clients,  \* meraki_clients of each network
  asset,    \* assets: "none", "live" or "archived"
  link,     \* assets.network_id
  lastIp    \* assets.defender_last_ip: the longest subnet around it, 0 if none is

netTables == <<network, vlans>>
assetTables == <<asset, link, lastIp>>
vars == <<epoch, netTables, clients, assetTables, job, alone>>

Ips == Subnets \cup {0}  \* 0: an address in none of the subnets
Dashboard == Meraki[epoch]

-----------------------------------------------------------------------------
(* Mutant of VlanIndex: archived networks are matched too. *)
VlanIndexOfAll == {v \in Networks \X Subnets : v[2] \in vlans[v[1]]}

(* build_vlan_index: the VLANs of active networks. *)
VlanIndex ==
  {v \in Networks \X Subnets : network[v[1]] = "active" /\ v[2] \in vlans[v[1]]}

(* match_ip: the most specific subnet wins, then the smaller network id. *)
MatchIp(ip) ==
  LET hits == {v \in VlanIndex : v[2] <= ip}
      Before(u, v) == u[2] > v[2] \/ (u[2] = v[2] /\ u[1] <= v[1])
  IN IF hits = {} THEN NULL ELSE (CHOOSE u \in hits : \A v \in hits : Before(u, v))[1]

(* Mutant of LinkFor: an asset that is linked is not linked anew. *)
LinkOnce(a, placed) ==
  CASE link[a] # NULL -> link[a]
    [] link[a] = NULL /\ placed[a] # NULL -> IF network[placed[a]] = "active" THEN placed[a] ELSE NULL
    [] link[a] = NULL /\ placed[a] = NULL /\ lastIp[a] # NULL -> MatchIp(lastIp[a])
    [] OTHER -> NULL

(* Mutant of LinkFor: a serial is linked to its network, archived or not. *)
LinkToAny(a, placed) ==
  CASE placed[a] # NULL -> placed[a]
    [] placed[a] = NULL /\ lastIp[a] # NULL /\ VlanIndex # {} -> MatchIp(lastIp[a])
    [] OTHER -> link[a]

(***************************************************************************)
(* The link a relinking gives an asset: by its serial, else by its last IP *)
(* if any VLAN is known, else the one it has.                              *)
(***************************************************************************)
LinkFor(a, placed) ==
  CASE placed[a] # NULL -> IF network[placed[a]] = "active" THEN placed[a] ELSE NULL
    [] placed[a] = NULL /\ lastIp[a] # NULL /\ VlanIndex # {} -> MatchIp(lastIp[a])
    [] OTHER -> link[a]

Nowhere == [a \in Assets |-> NULL]
NoneOf == [n \in Networks |-> {}]

Nothing == [todo |-> {}]

(* What is left of the sync w at a later step. *)
Rest(w, step, ok, held) ==
  [step |-> step, full |-> job[w].full, since |-> job[w].since, ok |-> ok, held |-> held]

GoTo(w, step, held) == Continue(w, Rest(w, step, job[w].ok, held))
Fault(w, step, held) == Continue(w, Rest(w, step, FALSE, held))
=============================================================================
