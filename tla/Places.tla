------------------------------- MODULE Places -------------------------------
(***************************************************************************)
(* The locations of assets, and the start-up that sees to them: the seeds  *)
(* and migrations of main.py, which run at every boot, the sync with       *)
(* Snowflake (snowflake_service.py), and what users do to locations,       *)
(* statuses and assets (inventory_service.py).                             *)
(***************************************************************************)
EXTENDS RequestPool, FiniteSets

CONSTANTS
  Assets,
  Sites,      \* codes of locations that Snowflake may list
  Warehouse,  \* "BRENTWOOD-WH", of PROTECTED_LOCATION_CODES: Snowflake does not list it
  Nowhere

ASSUME SitesAreFinite == IsFiniteSet(Sites)

ASSUME CodesDiffer == Warehouse \notin Sites /\ Nowhere \notin Sites \cup {Warehouse}

VARIABLES
  boot,     \* the step of the start-up, "up" once requests are served
  place,    \* locations: "none", "active" or "inactive"
  where,    \* assets.location_id
  stock,    \* the assets without an assignee (or with the staging account)
  status,   \* assets.status_code: "in_warehouse", "assigned" or (any other) "active"
  archived, \* the assets with archived_at set
  offered   \* the legacy rows of asset_statuses that are active

placeVars == <<boot, place, where, stock, status, archived, offered>>

Codes == Sites \cup {Warehouse}
Legacy == {"in_warehouse", "assigned"}
OfStatus(S) == {a \in Assets : status[a] \in S}
Unplaced == {a \in Assets : where[a] = Nowhere}

Park(S) == where' = [a \in Assets |-> IF a \in S THEN Warehouse ELSE where[a]]

-----------------------------------------------------------------------------
(* seed_default_locations: the warehouse, if it is not there. *)
SeedLocations ==
  /\ boot = "seed"
  /\ boot' = "legacy"
  /\ place' = IF place[Warehouse] = "none" THEN [place EXCEPT ![Warehouse] = "active"] ELSE place
  /\ UNCHANGED <<where, stock, status, archived, offered, job, alone>>

(* Mutant of LocateLegacy: without legacy assets, nothing is migrated. *)
LocateLegacyOnce ==
  /\ boot = "legacy"
  /\ boot' = IF OfStatus(Legacy) = {} THEN "park" ELSE "flip"
  /\ Park(Unplaced \cap OfStatus({"in_warehouse"}))
  /\ UNCHANGED <<place, stock, status, archived, offered, job, alone>>

(* _migrate_legacy_statuses, statement by statement, archived assets and all. *)
LocateLegacy ==
  /\ boot = "legacy"
  /\ boot' = IF OfStatus(Legacy) = {} THEN "hide" ELSE "flip"
  /\ Park(Unplaced \cap OfStatus({"in_warehouse"}))
  /\ UNCHANGED <<place, stock, status, archived, offered, job, alone>>

FlipLegacy ==
  /\ boot = "flip"
  /\ boot' = "hide"
  /\ status' = [a \in Assets |-> "active"]
  /\ UNCHANGED <<place, where, stock, archived, offered, job, alone>>

HideLegacy ==
  /\ boot = "hide"
  /\ boot' = "park"
  /\ offered' = {}
  /\ UNCHANGED <<place, where, stock, status, archived, job, alone>>

(* _migrate_stock_to_brentwood, archived assets aside, and the server is up. *)
ParkStock ==
  /\ boot = "park"
  /\ boot' = "up"
  /\ Park((Unplaced \cap stock) \ archived)
  /\ UNCHANGED <<place, stock, status, archived, offered, job, alone>>

Boots == SeedLocations \/ LocateLegacy \/ FlipLegacy \/ HideLegacy \/ ParkStock

-----------------------------------------------------------------------------
(* sync_locations: Snowflake answers the open sites; twice: those with two rows. *)
BeginLocationSync(w) ==
  /\ At(w, "idle") /\ boot = "up"
  /\ \E seen \in SUBSET Sites : \E twice \in SUBSET seen :
       Serve(w, [step |-> "places", seen |-> seen, twice |-> twice, todo |-> seen,
                 had |-> [c \in Codes |-> "unread"], lost |-> {}])
  /\ UNCHANGED placeVars

(***************************************************************************)
(* The rows of the answer, one query each; the handler of the loop skips a *)
(* row that fails, and the code stays among the seen ones.  Nothing is     *)
(* flushed before the commit.  lost: the loaded rows that are deleted      *)
(* since, even if the code is used again.                                  *)
(***************************************************************************)
ReadPlace(w) ==
  /\ At(w, "places")
  /\ \E c \in job[w].todo : \E found \in {place[c], "unread"} :
       Continue(w, [job[w] EXCEPT !.todo = @ \ {c}, !.had[c] = found])
  /\ UNCHANGED placeVars

(* The query of the stale rows, if Snowflake listed any site. *)
ReadStale(w) ==
  LET seen == job[w].seen IN
  /\ At(w, "places")
  /\ job[w].todo = {}
  /\ Continue(w, [job[w] EXCEPT
                     !.step = "mirror",
                     !.had = [c \in Codes |-> IF c \in seen \/ seen = {} THEN @[c] ELSE place[c]]])
  /\ UNCHANGED placeVars

(* Mutant of Stale: the warehouse is not protected. *)
StaleOrWarehouse(j) ==
  IF j.seen = {} THEN {} ELSE {c \in Codes \ j.seen : j.had[c] = "active"}

(* Active locations that Snowflake does not list, if it listed any. *)
Stale(j) == IF j.seen = {} THEN {} ELSE {c \in Sites \ j.seen : j.had[c] = "active"}

Reopened(j) == {c \in j.seen : j.had[c] = "inactive"}
Opened(j) == {c \in j.seen : j.had[c] = "none"}

(* The locations once the statements for S have run. *)
Mirrored(j, S) ==
  [c \in Codes |-> CASE c \in S \cap Stale(j) -> "inactive"
                     [] c \in S \ Stale(j)    -> "active"
                     [] OTHER                 -> place[c]]

(***************************************************************************)
(* The flush of the commit: updates, then inserts.  An update of a row     *)
(* that is gone fails, so does an insert of a code that is there or that   *)
(* is inserted twice, and what ran before has committed by itself.         *)
(***************************************************************************)
MirrorPlaces(w) ==
  LET j == job[w]
      updates == Stale(j) \cup Reopened(j)
      gone == updates \cap j.lost
      there == {c \in Opened(j) : place[c] # "none"}
      clash == there \cup (Opened(j) \cap j.twice)
  IN
  /\ At(w, "mirror")
  /\ \/ /\ gone = {} /\ clash = {}
        /\ place' = Mirrored(j, updates \cup Opened(j))
     \/ /\ gone # {}
        /\ \E S \in SUBSET (updates \ gone) : place' = Mirrored(j, S)
     \/ /\ gone = {} /\ clash # {}
        /\ \E S \in SUBSET (Opened(j) \ there) : place' = Mirrored(j, updates \cup S)
  /\ Answer(w)
  /\ UNCHANGED <<boot, where, stock, status, archived, offered>>

(* delete_location: refused while an asset is there. *)
BeginDeletePlace(w, c) ==
  /\ At(w, "idle") /\ boot = "up"
  /\ place[c] # "none"
  /\ \A a \in Assets : where[a] # c
  /\ Serve(w, [step |-> "delete", code |-> c, lost |-> {}])
  /\ UNCHANGED placeVars

(* The session of v holds the row of c. *)
Loaded(v, c) ==
  \/ (At(v, "places") \/ At(v, "mirror")) /\ job[v].had[c] \in {"active", "inactive"}
  \/ At(v, "delete") /\ job[v].code = c

(* The DELETE, which the foreign key of assets may refuse after all. *)
DeletePlace(w) ==
  LET c == job[w].code IN
  /\ At(w, "delete")
  /\ IF c \in job[w].lost \/ \E a \in Assets : where[a] = c
     THEN UNCHANGED place /\ Answer(w)
     ELSE /\ place' = [place EXCEPT ![c] = "none"]
          /\ job' = [v \in Workers |->
                       IF v = w THEN Idle
                       ELSE IF Loaded(v, c) THEN [job[v] EXCEPT !.lost = @ \cup {c}] ELSE job[v]]
          /\ UNCHANGED alone
  /\ UNCHANGED <<boot, where, stock, status, archived, offered>>

-----------------------------------------------------------------------------
(* create_location and update_location. *)
OpenOrClosePlace(c, to) ==
  /\ place[c] # to
  /\ to = "inactive" => place[c] = "active"
  /\ place' = [place EXCEPT ![c] = to]
  /\ UNCHANGED <<boot, where, stock, status, archived, offered>>

(* update_status: a legacy status is offered again, and given to an asset. *)
OfferStatus(s) ==
  /\ s \notin offered
  /\ offered' = offered \cup {s}
  /\ UNCHANGED <<boot, place, where, stock, status, archived>>

SetStatus(a, s) ==
  /\ a \notin archived
  /\ s \in offered \cup {"active"}
  /\ status' = [status EXCEPT ![a] = s]
  /\ UNCHANGED <<boot, place, where, stock, archived, offered>>

MoveAsset(a, c) ==
  /\ a \notin archived
  /\ c # Nowhere => place[c] # "none"
  /\ where' = [where EXCEPT ![a] = c]
  /\ UNCHANGED <<boot, place, stock, status, archived, offered>>

(* Retired, and taken from its assignee. *)
ArchiveAsset(a) ==
  /\ a \notin archived
  /\ archived' = archived \cup {a}
  /\ status' = [status EXCEPT ![a] = "active"]
  /\ stock' = stock \cup {a}
  /\ UNCHANGED <<boot, place, where, offered>>

(* Assigned to somebody (by a sync, if archived), or returned. *)
AssignOrReturn(a) ==
  /\ stock' = IF a \in stock THEN stock \ {a} ELSE stock \cup {a}
  /\ UNCHANGED <<boot, place, where, status, archived, offered>>

UserChangesAsset ==
  /\ boot = "up"
  /\ \/ \E s \in Legacy : OfferStatus(s)
     \/ \E a \in Assets :
          \/ AssignOrReturn(a) \/ ArchiveAsset(a)
          \/ \E s \in Legacy \cup {"active"} : SetStatus(a, s)
  /\ Overtakes

UserPlaces ==
  /\ boot = "up"
  /\ \/ \E c \in Codes, to \in {"active", "inactive"} : OpenOrClosePlace(c, to)
     \/ \E a \in Assets, c \in Codes \cup {Nowhere} : MoveAsset(a, c)
  /\ Overtakes

(* Tables from before the migrations. *)
InitPlaces ==
  /\ boot = "seed"
  /\ place \in [Codes -> {"none", "active"}]
  /\ where = [a \in Assets |-> Nowhere]
  /\ stock \in SUBSET Assets
  /\ status \in [Assets -> Legacy \cup {"active"}]
  /\ archived \in SUBSET Assets
  /\ offered = Legacy

(* Killed, during the start-up or later, and started again. *)
RestartPlaces ==
  /\ boot' = "seed"
  /\ UNCHANGED <<place, where, stock, status, archived, offered>>

PlaceSteps(w) == ReadPlace(w) \/ ReadStale(w) \/ MirrorPlaces(w) \/ DeletePlace(w)
=============================================================================
