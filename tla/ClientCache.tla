---------------------------- MODULE ClientCache -----------------------------
(***************************************************************************)
(* meraki_client_service.py: the clients lately seen on each network.      *)
(***************************************************************************)
EXTENDS MerakiTables

(***************************************************************************)
(* list_meraki_clients_for_network, in parallel for every active network.  *)
(* A page that fails ends the list with the pages before it, so an answer  *)
(* may be any part of the clients.                                         *)
(***************************************************************************)
AskClients(w) ==
  LET nets == {n \in Networks : network[n] = "active"} IN
  /\ At(w, "askclients")
  /\ \/ /\ nets = {}
        /\ Answer(w)
     \/ /\ nets # {}
        /\ \E fresh \in [nets -> SUBSET Clients] :
             /\ \A n \in nets \cap Failing : fresh[n] \subseteq Dashboard.seen[n]
             /\ \A n \in nets \ Failing : fresh[n] = Dashboard.seen[n]
             /\ IF \A n \in nets : fresh[n] = Dashboard.seen[n]
                THEN GoTo(w, "cached", [fresh |-> fresh])
                ELSE Fault(w, "cached", [fresh |-> fresh])
  /\ UNCHANGED <<epoch, netTables, clients, assetTables>>

(* The rows of each network. *)
ReadClients(w) ==
  /\ At(w, "cached")
  /\ GoTo(w, "store", [fresh |-> job[w].held.fresh,
                       had |-> [n \in DOMAIN job[w].held.fresh |-> clients[n]]])
  /\ UNCHANGED <<epoch, netTables, clients, assetTables>>

(* A row to update is gone, or a row to insert is there: the flush fails. *)
ClientsMoved(j) ==
  \E n \in DOMAIN j.fresh :
    \/ (j.fresh[n] \cap j.had[n]) \ clients[n] # {}
    \/ (j.fresh[n] \ j.had[n]) \cap clients[n] # {}

(* The upserts and deletes of all networks, in one flush. *)
StoreClients(w) ==
  LET j == job[w].held IN
  /\ At(w, "store")
  /\ IF ClientsMoved(j)
     THEN UNCHANGED clients
     ELSE clients' = [n \in Networks |->
                        IF n \in DOMAIN j.fresh
                        THEN (clients[n] \cup j.fresh[n]) \ (j.had[n] \ j.fresh[n])
                        ELSE clients[n]]
  /\ Answer(w)
  /\ UNCHANGED <<epoch, netTables, assetTables>>

ClientSteps(w) == AskClients(w) \/ ReadClients(w) \/ StoreClients(w)
=============================================================================
