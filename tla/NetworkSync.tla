---------------------------- MODULE NetworkSync -----------------------------
(***************************************************************************)
(* network_service.py: a sync of the networks and their VLANs, and the     *)
(* relinking of assets that ends it.                                       *)
(*                                                                         *)
(* All of Meraki is asked before the first write.  An ORM update waits in  *)
(* the session for the next flush, which is the insert of a network or the *)
(* commit; a flush that fails leaves the session unusable, so the records  *)
(* after it are errors and the sync is rolled back and given up.           *)
(***************************************************************************)
EXTENDS MerakiTables

(* The network sync is over: a sync of everything goes on with the clients. *)
NetworksDone(w, ok) ==
  IF job[w].full THEN Continue(w, Rest(w, "askclients", ok, Nothing)) ELSE Answer(w)

(* All devices are upserted, or only the networks are asked for. *)
Listing(w) == At(w, "list") \/ (At(w, "devices") /\ job[w].held.todo = {})

(* Mutant of ListingFails: a failed listing is an empty one. *)
ListingFailsEmpty(w) ==
  /\ Listing(w)
  /\ Fault(w, "rows", [listing |-> {}, todo |-> {}, fresh |-> NoneOf, placed |-> Nowhere,
                       had |-> NoneOf, dirty |-> {}, revive |-> {}, gone |-> {}])
  /\ UNCHANGED <<epoch, netTables, clients, assetTables>>

(* The listing raises, and nothing is written. *)
ListingFails(w) ==
  /\ Listing(w)
  /\ NetworksDone(w, FALSE)
  /\ UNCHANGED <<epoch, netTables, clients, assetTables>>

(* list_meraki_network_records; no record at all only relinks the assets. *)
ListNetworks(w) ==
  /\ Listing(w)
  /\ \/ /\ Dashboard.org = {}
        /\ GoTo(w, "relink", [placed |-> Dashboard.home])
     \/ /\ Dashboard.org = {}
        /\ Fault(w, "relink", [placed |-> Nowhere])
     \/ /\ Dashboard.org # {}
        /\ GoTo(w, "details", [listing |-> Dashboard.org])
  /\ UNCHANGED <<epoch, netTables, clients, assetTables>>

(***************************************************************************)
(* The devices and, in parallel, each network's VLANs or single LAN.  A    *)
(* failing call answers an empty list.                                     *)
(***************************************************************************)
FetchDetails(w) ==
  /\ At(w, "details")
  /\ \E failed \in SUBSET (job[w].held.listing \cap Failing), placed \in {Dashboard.home, Nowhere} :
       LET fresh == [n \in Networks |->
                       IF n \in job[w].held.listing \ failed THEN Dashboard.lan[n] ELSE {}]
           held == [listing |-> job[w].held.listing, todo |-> job[w].held.listing, fresh |-> fresh,
                    placed |-> placed, had |-> NoneOf, dirty |-> {}, revive |-> {}, gone |-> {}]
       IN IF failed = {} /\ placed = Dashboard.home
          THEN GoTo(w, "rows", held)
          ELSE Fault(w, "rows", held)
  /\ UNCHANGED <<epoch, netTables, clients, assetTables>>

(***************************************************************************)
(* The next record, in the order of the listing: its row and VLANs are     *)
(* loaded and changed in memory.                                           *)
(***************************************************************************)
ReadRow(w, n) ==
  /\ At(w, "rows")
  /\ n \in job[w].held.todo /\ \A m \in job[w].held.todo : n <= m
  /\ LET j == [job[w].held EXCEPT !.todo = @ \ {n}] IN
     IF network[n] = "none"
     THEN GoTo(w, "insert", j)
     ELSE GoTo(w, "rows", [j EXCEPT !.had[n] = vlans[n], !.dirty = @ \cup {n},
                                    !.revive = IF network[n] = "archived" THEN @ \cup {n} ELSE @])
  /\ UNCHANGED <<epoch, netTables, clients, assetTables>>

-----------------------------------------------------------------------------
(* The rows a flush writes: networks first, their VLANs after them. *)
Revived(j) == [n \in Networks |-> IF n \in j.revive THEN "active" ELSE network[n]]

(* A VLAN that is not in the session but is in the table is inserted twice. *)
VlanExists(j) == \E n \in j.dirty : (j.fresh[n] \ j.had[n]) \cap vlans[n] # {}

(***************************************************************************)
(* _upsert_vlans_for_network: what was loaded and is not in the answer     *)
(* goes, also if the answer is empty (its docstring, line 272, calls that  *)
(* a no-op).                                                               *)
(***************************************************************************)
FlushedVlans(j) ==
  [n \in Networks |->
     IF n \in j.dirty
     THEN (vlans[n] \cup (j.fresh[n] \ j.had[n])) \ (j.had[n] \ j.fresh[n])
     ELSE vlans[n]]

(* The record that is being inserted. *)
LastTaken(j) == CHOOSE m \in j.listing \ j.todo : \A k \in j.listing \ j.todo : k <= m

(* The insert of a new network is a flush of everything that waits. *)
InsertRow(w) ==
  LET j == job[w].held
      n == LastTaken(j)
      inserted == [Revived(j) EXCEPT ![n] = "active"]
      rest == [j EXCEPT !.dirty = {n}, !.revive = {},
                        !.had = [NoneOf EXCEPT ![n] = vlans[n]]]
  IN
  /\ At(w, "insert")
  /\ network' = IF network[n] = "none" THEN inserted ELSE Revived(j)
  /\ IF network[n] = "none" /\ ~VlanExists(j)
     THEN vlans' = FlushedVlans(j) /\ GoTo(w, "rows", rest)
     ELSE UNCHANGED vlans /\ NetworksDone(w, FALSE)
  /\ UNCHANGED <<epoch, clients, assetTables>>

(* The active networks that were not listed. *)
ReadGone(w) ==
  /\ At(w, "rows")
  /\ job[w].held.todo = {}
  /\ GoTo(w, "commit",
       [job[w].held EXCEPT
          !.gone = {n \in Networks \ job[w].held.listing : network[n] = "active"}])
  /\ UNCHANGED <<epoch, netTables, clients, assetTables>>

(* The commit: the last flush, or its failure. *)
CommitNetworks(w) ==
  LET j == job[w].held IN
  /\ At(w, "commit")
  /\ network' = [n \in Networks |-> IF n \in j.gone THEN "archived" ELSE Revived(j)[n]]
  /\ IF VlanExists(j)
     THEN UNCHANGED vlans /\ NetworksDone(w, FALSE)
     ELSE vlans' = FlushedVlans(j) /\ GoTo(w, "relink", [placed |-> j.placed])
  /\ UNCHANGED <<epoch, clients, assetTables>>

-----------------------------------------------------------------------------
(* link_assets_to_networks: the networks, VLANs and live assets are read. *)
ReadLinks(w) ==
  LET new == [a \in Assets |-> IF asset[a] = "live" THEN LinkFor(a, job[w].held.placed) ELSE link[a]]
      moved == {a \in Assets : new[a] # link[a]}
  IN
  /\ At(w, "relink")
  /\ IF moved = {}
     THEN NetworksDone(w, job[w].ok)
     ELSE GoTo(w, "setlinks", [moves |-> [a \in moved |-> new[a]]])
  /\ UNCHANGED <<epoch, netTables, clients, assetTables>>

WriteLinks(w) ==
  /\ At(w, "setlinks")
  /\ LET moves == job[w].held.moves
     IN link' = [a \in Assets |-> IF a \in DOMAIN moves THEN moves[a] ELSE link[a]]
  /\ NetworksDone(w, job[w].ok)
  /\ UNCHANGED <<epoch, netTables, clients, asset, lastIp>>

NetworkSteps(w) ==
  \/ ListingFails(w)
  \/ ListNetworks(w)
  \/ FetchDetails(w)
  \/ \E n \in Networks : ReadRow(w, n)
  \/ InsertRow(w)
  \/ ReadGone(w)
  \/ CommitNetworks(w)
  \/ ReadLinks(w)
  \/ WriteLinks(w)
=============================================================================
