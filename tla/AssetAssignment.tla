--------------------------- MODULE AssetAssignment ---------------------------
(***************************************************************************)
(* Who has an asset: the assignee and the status in the assets table, the  *)
(* assignee its history tells, and the primary user Intune has for the     *)
(* device.  Requests are taken apart.  The database comes first; Intune is *)
(* told afterwards, best effort; the syncs read Intune and fill in the     *)
(* assignees that are missing.                                             *)
(*                                                                         *)
(* Moves are in Reservations, the other columns a sync fills are left out. *)
(***************************************************************************)
EXTENDS RequestPool

CONSTANTS
  Assets,
  People,    \* UPNs of users
  Staging,   \* intune_staging_upn, the primary user of unassigned devices
  Blank,     \* the empty string: no user in Intune's answers
  NULL,      \* no assignee
  Statuses   \* codes of the active rows of asset_statuses

ASSUME UpnsAreDistinct ==
  /\ Staging \notin People /\ Blank \notin People /\ NULL \notin People
  /\ Staging # Blank /\ Staging # NULL /\ Blank # NULL

ASSUME RetiredIsSeeded == {"active", "retired"} \subseteq Statuses

VARIABLES
  row,         \* "none", "live" or "archived" (archived_at is set)
  statusCode,  \* assets.status_code
  assignee,    \* assets.assigned_upn
  linked,      \* whether assets.intune_id is set
  logged,      \* the assignee after the newest asset_history row that tells one
  primary      \* external: the device's user in Intune

table == <<row, statusCode, assignee, linked, logged>>
vars == <<table, primary, job, alone>>

IntuneUsers == People \cup {Staging, Blank}
Assignees == IntuneUsers \cup {NULL}

(* What the code takes as an assignee: the empty string is not one. *)
IsAssignee(u) == u \notin {NULL, Blank}

-----------------------------------------------------------------------------
(* onboard_asset; the request may bring an intune_id. *)
OnboardAsset(a, st, hasId) ==
  /\ row[a] = "none"
  /\ row' = [row EXCEPT ![a] = "live"]
  /\ statusCode' = [statusCode EXCEPT ![a] = st]
  /\ linked' = [linked EXCEPT ![a] = hasId]
  /\ UNCHANGED <<assignee, logged, primary, job, alone>>

(* assign_asset: the row is loaded, written with its history, and pushed. *)
BeginAssign(w, a, u) ==
  /\ At(w, "idle")
  /\ row[a] = "live"
  /\ Serve(w, [step |-> "assign", a |-> a, u |-> u, was |-> assignee[a]])
  /\ UNCHANGED <<table, primary>>

(* Mutant of WriteAssign: Intune is not told. *)
WriteAssignUnpushed(w) ==
  LET a == job[w].a
      u == job[w].u
  IN
  /\ At(w, "assign")
  /\ assignee' = IF u # job[w].was THEN [assignee EXCEPT ![a] = u] ELSE assignee
  /\ logged' = [logged EXCEPT ![a] = u]
  /\ Answer(w)
  /\ UNCHANGED <<row, statusCode, linked, primary>>

(* The ORM writes assigned_upn only when it differs from what was loaded. *)
WriteAssign(w) ==
  LET a == job[w].a
      u == job[w].u
      changed == u # job[w].was
  IN
  /\ At(w, "assign")
  /\ assignee' = IF changed THEN [assignee EXCEPT ![a] = u] ELSE assignee
  /\ logged' = [logged EXCEPT ![a] = u]
  /\ IF changed /\ linked[a] /\ IsAssignee(u)
     THEN Continue(w, [step |-> "push", a |-> a, u |-> u])
     ELSE Answer(w)
  /\ UNCHANGED <<row, statusCode, linked, primary>>

(* set_device_primary_user, or the failure of any call on the way to it. *)
Push(w) ==
  /\ At(w, "push")
  /\ primary' \in {primary, [primary EXCEPT ![job[w].a] = job[w].u]}
  /\ Answer(w)
  /\ UNCHANGED table

(* unassign_asset: archived assets are not refused. *)
BeginUnassign(w, a) ==
  /\ At(w, "idle")
  /\ row[a] # "none"
  /\ assignee[a] # NULL
  /\ Serve(w, [step |-> "unassign", a |-> a, hasId |-> linked[a]])
  /\ UNCHANGED <<table, primary>>

(* Mutant of WriteUnassign: the history is not told. *)
WriteUnassignUnlogged(w) ==
  LET a == job[w].a IN
  /\ At(w, "unassign")
  /\ assignee' = [assignee EXCEPT ![a] = NULL]
  /\ IF job[w].hasId
     THEN Continue(w, [step |-> "push", a |-> a, u |-> Staging])
     ELSE Answer(w)
  /\ UNCHANGED <<row, statusCode, linked, logged, primary>>

(* Intune is told the staging user. *)
WriteUnassign(w) ==
  LET a == job[w].a IN
  /\ At(w, "unassign")
  /\ assignee' = [assignee EXCEPT ![a] = NULL]
  /\ logged' = [logged EXCEPT ![a] = NULL]
  /\ IF job[w].hasId
     THEN Continue(w, [step |-> "push", a |-> a, u |-> Staging])
     ELSE Answer(w)
  /\ UNCHANGED <<row, statusCode, linked, primary>>

(* Mutant of BeginStatus: archived assets are not refused. *)
BeginStatusOfAny(w, a, st) ==
  /\ At(w, "idle")
  /\ row[a] # "none"
  /\ statusCode[a] # st
  /\ Serve(w, [step |-> "status", a |-> a, st |-> st])
  /\ UNCHANGED <<table, primary>>

(* change_status *)
BeginStatus(w, a, st) ==
  /\ At(w, "idle")
  /\ row[a] = "live"
  /\ statusCode[a] # st
  /\ Serve(w, [step |-> "status", a |-> a, st |-> st])
  /\ UNCHANGED <<table, primary>>

WriteStatusCode(w) ==
  /\ At(w, "status")
  /\ statusCode' = [statusCode EXCEPT ![job[w].a] = job[w].st]
  /\ Answer(w)
  /\ UNCHANGED <<row, assignee, linked, logged, primary>>

(* archive_asset: the assignee goes from the table, not from Intune. *)
BeginArchive(w, a) ==
  /\ At(w, "idle")
  /\ row[a] = "live"
  /\ Serve(w, [step |-> "archive", a |-> a, was |-> assignee[a], st |-> statusCode[a]])
  /\ UNCHANGED <<table, primary>>

WriteArchive(w) ==
  LET a == job[w].a IN
  /\ At(w, "archive")
  /\ row' = [row EXCEPT ![a] = "archived"]
  /\ statusCode' = IF job[w].st # "retired" THEN [statusCode EXCEPT ![a] = "retired"]
                                            ELSE statusCode
  /\ assignee' = IF job[w].was # NULL THEN [assignee EXCEPT ![a] = NULL] ELSE assignee
  /\ logged' = [logged EXCEPT ![a] = NULL]
  /\ Answer(w)
  /\ UNCHANGED <<linked, primary>>

-----------------------------------------------------------------------------
(* sync_asset_from_intune: the row is loaded before Intune is asked. *)
BeginSync(w, a) ==
  /\ At(w, "idle")
  /\ row[a] # "none"
  /\ Serve(w, [step |-> "ask", a |-> a, was |-> assignee[a]])
  /\ UNCHANGED <<table, primary>>

(* Intune fails or does not know the serial, or tells the device's user. *)
Ask(w) ==
  /\ At(w, "ask")
  /\ \/ Answer(w)
     \/ Continue(w, [step |-> "enrich", a |-> job[w].a, was |-> job[w].was,
                     seen |-> primary, todo |-> {}])
  /\ UNCHANGED <<table, primary>>

(* bulk_sync_from_intune: every device is fetched first; one that is not   *)
(* listed has no answer.                                                   *)
BeginBulkSync(w, listed) ==
  /\ At(w, "idle")
  /\ Serve(w, [step |-> "device", seen |-> primary, todo |-> listed])
  /\ UNCHANGED <<table, primary>>

(* The asset of the next device is looked up. *)
NextDevice(w) ==
  /\ At(w, "device")
  /\ \/ job[w].todo = {} /\ Answer(w)
     \/ \E a \in job[w].todo :
          Continue(w, [step |-> IF row[a] = "none" THEN "import" ELSE "enrich",
                       a |-> a, was |-> assignee[a],
                       seen |-> job[w].seen, todo |-> job[w].todo \ {a}])
  /\ UNCHANGED <<table, primary>>

(* _enrich_vendor: a cache miss is written and committed, which expires   *)
(* the row, so it is read again.                                          *)
Enrich(w) ==
  /\ At(w, "enrich")
  /\ \/ Advance(w, "store")
     \/ Continue(w, [job[w] EXCEPT !.step = "store", !.was = assignee[job[w].a]])
  /\ UNCHANGED <<table, primary>>

(* A bulk sync goes on with its devices, the sync of one asset ends. *)
SyncNext(w) ==
  IF job[w].todo = {}
  THEN Answer(w)
  ELSE Continue(w, [step |-> "device", seen |-> job[w].seen, todo |-> job[w].todo])

(* Mutant of StoreAnswer: Intune's user always wins. *)
StoreAnswerAlways(w) ==
  LET a == job[w].a
      u == job[w].seen[a]
  IN
  /\ At(w, "store")
  /\ linked' = [linked EXCEPT ![a] = TRUE]
  /\ IF IsAssignee(u)
     THEN /\ assignee' = [assignee EXCEPT ![a] = u]
          /\ logged' = [logged EXCEPT ![a] = u]
     ELSE UNCHANGED <<assignee, logged>>
  /\ SyncNext(w)
  /\ UNCHANGED <<row, statusCode, primary>>

(* Both syncs: the intune_id, and an assignee for an asset that had none   *)
(* when it was loaded, archived or not.                                    *)
StoreAnswer(w) ==
  LET a == job[w].a
      u == job[w].seen[a]
  IN
  /\ At(w, "store")
  /\ linked' = [linked EXCEPT ![a] = TRUE]
  /\ IF IsAssignee(u) /\ ~IsAssignee(job[w].was)
     THEN /\ assignee' = [assignee EXCEPT ![a] = u]
          /\ logged' = [logged EXCEPT ![a] = u]
     ELSE UNCHANGED <<assignee, logged>>
  /\ SyncNext(w)
  /\ UNCHANGED <<row, statusCode, primary>>

(* Mutant of ImportAsset: the status is the deprecated "assigned". *)
ImportAsAssigned(w) ==
  LET a == job[w].a IN
  /\ At(w, "import")
  /\ row[a] = "none"
  /\ row' = [row EXCEPT ![a] = "live"]
  /\ statusCode' = [statusCode EXCEPT ![a] = "assigned"]
  /\ assignee' = [assignee EXCEPT ![a] = job[w].seen[a]]
  /\ linked' = [linked EXCEPT ![a] = TRUE]
  /\ Advance(w, "log_import")
  /\ UNCHANGED <<logged, primary>>

(* The flush of a new asset, refused if its serial was onboarded meanwhile *)
(* and skipped when it is not a computer; then the flush of its history.   *)
ImportAsset(w) ==
  LET a == job[w].a IN
  /\ At(w, "import")
  /\ \/ /\ row[a] = "none"
        /\ row' = [row EXCEPT ![a] = "live"]
        /\ statusCode' = [statusCode EXCEPT ![a] = "active"]
        /\ assignee' = [assignee EXCEPT ![a] = job[w].seen[a]]
        /\ linked' = [linked EXCEPT ![a] = TRUE]
        /\ Advance(w, "log_import")
        /\ UNCHANGED logged
     \/ SyncNext(w) /\ UNCHANGED table
  /\ UNCHANGED primary

LogImport(w) ==
  LET a == job[w].a
      u == job[w].seen[a]
  IN
  /\ At(w, "log_import")
  /\ logged' = IF IsAssignee(u) THEN [logged EXCEPT ![a] = u] ELSE logged
  /\ SyncNext(w)
  /\ UNCHANGED <<row, statusCode, assignee, linked, primary>>

-----------------------------------------------------------------------------
(* An administrator of Intune, or the device endpoints of api/users.py. *)
IntuneChanges(a, u) ==
  /\ primary' = [primary EXCEPT ![a] = u]
  /\ UNCHANGED <<table, job, alone>>

(* The server is killed; at start-up _migrate_stock_to_brentwood turns     *)
(* blank assignees into NULL.                                              *)
Restart ==
  /\ DropRequests
  /\ assignee' = [a \in Assets |-> IF assignee[a] = Blank THEN NULL ELSE assignee[a]]
  /\ UNCHANGED <<row, statusCode, linked, logged, primary>>

Begin(w) ==
  \/ \E a \in Assets :
       \/ \E u \in IntuneUsers : BeginAssign(w, a, u)
       \/ BeginUnassign(w, a)
       \/ \E st \in Statuses : BeginStatus(w, a, st)
       \/ BeginArchive(w, a)
       \/ BeginSync(w, a)
  \/ \E listed \in SUBSET Assets : BeginBulkSync(w, listed)

GoOn(w) ==
  \/ WriteAssign(w) \/ WriteUnassign(w) \/ Push(w)
  \/ WriteStatusCode(w) \/ WriteArchive(w)
  \/ Ask(w) \/ NextDevice(w) \/ Enrich(w) \/ StoreAnswer(w)
  \/ ImportAsset(w) \/ LogImport(w)

Init ==
  /\ row = [a \in Assets |-> "none"]
  /\ statusCode = [a \in Assets |-> "active"]
  /\ assignee = [a \in Assets |-> NULL]
  /\ linked = [a \in Assets |-> FALSE]
  /\ logged = [a \in Assets |-> NULL]
  /\ primary \in [Assets -> IntuneUsers]
  /\ InitRequests

Next ==
  \/ \E w \in Workers : Begin(w) \/ GoOn(w)
  \/ \E a \in Assets :
       \/ \E st \in Statuses, hasId \in BOOLEAN : OnboardAsset(a, st, hasId)
       \/ \E u \in IntuneUsers : IntuneChanges(a, u)
  \/ Restart

Spec == Init /\ [][Next]_vars

-----------------------------------------------------------------------------
(* What a session may hold between two of its steps. *)
AssignJobs == [step : {"assign"}, a : Assets, u : IntuneUsers, was : Assignees]
PushJobs == [step : {"push"}, a : Assets, u : IntuneUsers]
UnassignJobs == [step : {"unassign"}, a : Assets, hasId : BOOLEAN]
StatusJobs == [step : {"status"}, a : Assets, st : Statuses]
ArchiveJobs == [step : {"archive"}, a : Assets, was : Assignees, st : Statuses]
AskJobs == [step : {"ask"}, a : Assets, was : Assignees]
BulkJobs == [step : {"device"}, seen : [Assets -> IntuneUsers], todo : SUBSET Assets]
SyncJobs ==
  [step : {"enrich", "store", "import", "log_import"}, a : Assets, was : Assignees,
   seen : [Assets -> IntuneUsers], todo : SUBSET Assets]

Jobs ==
  {Idle} \cup AssignJobs \cup PushJobs \cup UnassignJobs \cup StatusJobs \cup ArchiveJobs
    \cup AskJobs \cup BulkJobs \cup SyncJobs

AssignmentTypeOK ==
  /\ row \in [Assets -> {"none", "live", "archived"}]
  /\ statusCode \in [Assets -> Statuses]
  /\ assignee \in [Assets -> Assignees]
  /\ linked \in [Assets -> BOOLEAN]
  /\ logged \in [Assets -> Assignees]
  /\ primary \in [Assets -> IntuneUsers]
  /\ job \in [Workers -> Jobs]
  /\ alone \in [Workers -> BOOLEAN]

(***************************************************************************)
(* The history tells who has an asset.  A request that no other overlapped *)
(* keeps it so: every write of assigned_upn comes with its history row     *)
(* (for an import, with the request's next step).                          *)
(***************************************************************************)
HistoryTells(a) ==
  \/ logged[a] = assignee[a]
  \/ ~IsAssignee(logged[a]) /\ ~IsAssignee(assignee[a])
  \/ \E w \in Workers : At(w, "log_import") /\ job[w].a = a

LoneRequestKeepsHistory ==
  [][\A w \in Workers, a \in Assets :
       GoOn(w) /\ alone[w] /\ HistoryTells(a) => HistoryTells(a)']_vars

(***************************************************************************)
(* An archived asset is retired and nobody's ("Cannot assign archived      *)
(* asset", "Cannot modify archived asset", inventory_service.py lines 741  *)
(* and 963).  Only overlapping requests and the Intune syncs, which do not *)
(* look at archived_at, break this.                                        *)
(***************************************************************************)
RetiredFor(a) ==
  row[a] = "archived" => statusCode[a] = "retired" /\ ~IsAssignee(assignee[a])

LoneRequestKeepsRetired ==
  [][\A w \in Workers, a \in Assets :
       GoOn(w) /\ alone[w] /\ ~At(w, "store") /\ RetiredFor(a) => RetiredFor(a)']_vars

(***************************************************************************)
(* The syncs give an asset an assignee "if asset has no assignee yet"      *)
(* (inventory_service.py line 1212): alone, a sync never takes one away.   *)
(***************************************************************************)
LoneSyncKeepsAssignee ==
  [][\A w \in Workers, a \in Assets :
       GoOn(w) /\ alone[w] /\ At(w, "store") /\ IsAssignee(assignee[a])
         => assignee'[a] = assignee[a]]_vars

(***************************************************************************)
(* Table and Intune agree on a linked asset, or are about to.  The ways to *)
(* lose that are those the code accepts: the push fails or is killed,      *)
(* somebody changes the device in Intune (perhaps while a sync holds the   *)
(* old answer), a blank assignee is not pushed, requests overlap.          *)
(***************************************************************************)
Agreed(a) ==
  IF IsAssignee(assignee[a]) THEN primary[a] = assignee[a] ELSE primary[a] \in {Staging, Blank}

PushPending(a) == \E w \in Workers : At(w, "push") /\ job[w].a = a

Settled(a) == Agreed(a) \/ PushPending(a)

IntuneDivergesByKnownDoors ==
  [][\A a \in Assets :
       row[a] = "live" /\ linked[a] /\ Settled(a) /\ row'[a] = "live" /\ ~Settled(a)' =>
         \/ \E u \in IntuneUsers : IntuneChanges(a, u)
         \/ Restart
         \/ \E w \in Workers :
              /\ GoOn(w)
              /\ \/ ~alone[w]
                 \/ Push(w) /\ UNCHANGED primary
                 \/ WriteAssign(w) /\ job[w].u = Blank
                 \/ StoreAnswer(w) /\ job[w].seen[a] # primary[a]]_vars

(***************************************************************************)
(* "Cannot assign archived asset" (inventory_service.py line 741): an      *)
(* asset that was archived gets no assignee.                               *)
(***************************************************************************)
ArchivedIsNotAssigned ==
  [][\A a \in Assets :
       row[a] = "archived" /\ IsAssignee(assignee'[a]) => assignee[a] = assignee'[a]]_vars
=============================================================================
