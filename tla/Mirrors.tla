------------------------------- MODULE Mirrors -------------------------------
(***************************************************************************)
(* The copies the server keeps of what other systems say, in memory or in  *)
(* tables: Defender's machines, Entra's users, Snowflake's sites; with the *)
(* start-up and the restarts that they live through.                       *)
(*                                                                         *)
(* Bound: the copies share no table and no lock, so a behaviour exercises  *)
(* one part of the server only.                                            *)
(***************************************************************************)
EXTENDS DefenderIndex, UserMirror, Places

VARIABLE part  \* bound: "index", "users", "sites" or "boot"

vars == <<part, indexVars, userVars, placeVars, job, alone>>

(* A part that is not exercised stays as it is. *)
AtRest ==
  /\ place \in [Codes -> IF part = "sites" THEN {"none", "active"} ELSE {"none"}]
  /\ where = [a \in Assets |-> Nowhere]
  /\ stock = {}
  /\ status = [a \in Assets |-> "active"]
  /\ archived = {}
  /\ offered = {}
  /\ boot = "up"

Init ==
  /\ part \in {"index", "users", "sites", "boot"}
  /\ InitIndex
  /\ InitUsers
  /\ IF part = "boot" THEN InitPlaces ELSE AtRest
  /\ InitRequests

Begin(w) ==
  \/ part = "index"  /\ BeginIndex(w)       /\ UNCHANGED <<part, userVars, placeVars>>
  \/ part = "users"  /\ BeginUserSync(w)    /\ UNCHANGED <<part, indexVars, placeVars>>
  \/ part = "sites"  /\ BeginLocationSync(w) /\ UNCHANGED <<part, indexVars, userVars>>
  \/ part \in {"sites", "boot"} /\ (\E c \in Codes : BeginDeletePlace(w, c))
                                           /\ UNCHANGED <<part, indexVars, userVars>>

GoOn(w) ==
  \/ part = "index"  /\ IndexSteps(w)       /\ UNCHANGED <<part, userVars, placeVars>>
  \/ part = "users"  /\ UserSteps(w)        /\ UNCHANGED <<part, indexVars, placeVars>>
  \/ part \in {"sites", "boot"} /\ PlaceSteps(w) /\ UNCHANGED <<part, indexVars, userVars>>

Warm  == part = "index" /\ Warms /\ UNCHANGED <<part, userVars, placeVars>>
Clock == part = "index" /\ Tick /\ UNCHANGED <<part, userVars, placeVars>>

World ==
  \/ part = "index"  /\ UpOrDown     /\ UNCHANGED <<part, userVars, placeVars>>
  \/ part = "users"  /\ EntraChanges /\ UNCHANGED <<part, indexVars, placeVars>>
  \/ part = "boot"   /\ UserChangesAsset /\ UNCHANGED <<part, indexVars, userVars>>
  \/ part \in {"sites", "boot"} /\ (Boots \/ UserPlaces) /\ UNCHANGED <<part, indexVars, userVars>>

(* The process is killed, requests, index, start-up and all, and started again. *)
Restart ==
  /\ DropRequests
  /\ IF part = "index" THEN RestartIndex ELSE UNCHANGED indexVars
  /\ IF part \in {"sites", "boot"} THEN RestartPlaces ELSE UNCHANGED placeVars
  /\ UNCHANGED <<part, userVars>>

Next ==
  \/ \E w \in Workers : Begin(w) \/ GoOn(w)
  \/ Warm \/ Clock \/ World
  \/ Restart

(* Threads that are ready run, and time passes. *)
Fairness ==
  /\ \A w \in Workers : WF_vars(GoOn(w))
  /\ WF_vars(Warm)
  /\ WF_vars(Clock)

Spec == Init /\ [][Next]_vars /\ Fairness

-----------------------------------------------------------------------------
(***************************************************************************)
(* cached_index answers an index whose stamp is at most TTL old.  The      *)
(* stamp is set when a fetch ends, and of two fetches the last to store    *)
(* wins (defender_service lines 279-280): still the data of an index are   *)
(* never more than a fetch older than its stamp, so what is answered as    *)
(* fresh is at most TTL + LongestBuild old.                                *)
(***************************************************************************)
IndexIsAsFreshAsStamped ==
  index # NULL => index.data <= index.stored + LongestBuild

(***************************************************************************)
(* "Background Defender cache warmer.  Refreshes every CACHE_TTL_SECONDS"  *)
(* (main.py line 354): once Defender stays up and the process is not       *)
(* restarted any more, there is an index for good, never older than a wait *)
(* and two fetches, whatever failed before and whether or not anybody asks *)
(* for it.                                                                 *)
(***************************************************************************)
WarmerKeepsIndexRecent ==
  part = "index" /\ <>[]up /\ <>[][~Restart]_vars
    => <>[](index # NULL /\ index.data <= TTL + LongestBuild + LongestBuild)

(***************************************************************************)
(* Every request is answered: a Meraki call gives up after its last retry  *)
(* ("retry 429 responses up to this many times", lookup_service line 332), *)
(* and nobody waits for the fetch of somebody else (defender_service line  *)
(* 279, "so concurrent callers don't all block").                          *)
(***************************************************************************)
EveryRequestEnds == \A w \in Workers : ~At(w, "idle") ~> At(w, "idle")

(***************************************************************************)
(* "Refreshes the local intune_users cache from Graph" (user_service lines *)
(* 3-4): a sync of everybody that no other overlaps leaves each member's   *)
(* row as Graph has it, unless a UPN was handed on: while the row of one   *)
(* user still holds the UPN that another has now, the sync fails, and what *)
(* it wrote before stays.                                                  *)
(***************************************************************************)
UsersMirrorEntra ==
  [][\A w \in Workers :
       UpsertUsers(w) /\ alone[w] /\ job[w].all /\ job[w].since = tenant =>
         \/ \A u \in Users : Entra[u] # NoUpn => userRow'[u] = Entra[u]
         \/ \E u, v \in Users : u # v /\ Entra[u] # NoUpn /\ userRow[v] = Entra[u]]_vars

(***************************************************************************)
(* "Idempotent" (main.py lines 44 and 97): whatever a kill left half done  *)
(* and whatever users changed since, the start-up ends with no asset in a  *)
(* legacy status, no legacy status on offer, all stock that is not         *)
(* archived somewhere, and the assets that were in the warehouse located,  *)
(* archived or not, before they become active.                             *)
(***************************************************************************)
BootLeavesNoLegacy ==
  [][/\ boot # "up" /\ boot' = "up" =>
          /\ OfStatus(Legacy)' = {} /\ offered' = {}
          /\ ((Unplaced \cap stock) \ archived)' = {}
     /\ boot # "up" =>
          \A a \in Assets : status[a] = "in_warehouse" /\ status'[a] = "active"
            => where'[a] # Nowhere]_vars

(***************************************************************************)
(* "Existing local locations whose code no longer appears ... flipped to   *)
(* is_active=False" (snowflake_service lines 86-88) but the protected ones *)
(* (lines 207-209): a sync that no other request overlaps leaves no site   *)
(* active that Snowflake does not list, and the warehouse as it was; an    *)
(* empty answer changes nothing; a site that is listed ends up active,     *)
(* unless its own row failed or it is new and some new one is listed twice *)
(* (which fails the inserts).                                              *)
(***************************************************************************)
LocationsMirrorSnowflake ==
  [][\A w \in Workers :
       MirrorPlaces(w) /\ alone[w] =>
         LET j == job[w] IN
         /\ place'[Warehouse] = place[Warehouse]
         /\ j.seen = {} => UNCHANGED place
         /\ j.seen # {} => \A c \in Sites \ j.seen : place'[c] # "active"
         /\ \A c \in j.seen :
              \/ place'[c] = "active"
              \/ j.had[c] = "unread" /\ place'[c] = place[c]
              \/ c \in Opened(j) /\ Opened(j) \cap j.twice # {}]_vars
=============================================================================
