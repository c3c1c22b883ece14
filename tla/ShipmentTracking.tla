-------------------------- MODULE ShipmentTracking ---------------------------
(***************************************************************************)
(* refresh_shipment taken apart, for one inbound shipment that is not      *)
(* cancelled.  Everybody who opens a stale shipment and every POST         *)
(* /refresh polls the carrier from a thread of its own; nothing keeps two  *)
(* polls of one shipment from overlapping, and an HTTP answer may be old   *)
(* by the time it is stored.                                               *)
(*                                                                         *)
(* The carrier's log is ScanStatus: scan e of the parcel means our status  *)
(* ScanStatus[e] ("unknown" when the code is not in the provider's map).   *)
(***************************************************************************)
EXTENDS Naturals, Sequences

CONSTANTS
  Pollers,      \* threads that may be refreshing the shipment
  ScanStatus,   \* carrier status of each scan, oldest first
  Undated,      \* scans whose date the provider's parser does not understand
  MaxRows,      \* bound: the rows of one scan are counted up to here
  MaxRestarts   \* bound: how often the server is killed

Scans == 1..Len(ScanStatus)

CarrierStatus == {"pending", "in_transit", "out_for_delivery", "delivered", "exception", "unknown"}

ASSUME TrackingConstants ==
  /\ ScanStatus \in Seq(CarrierStatus)
  /\ Undated \subseteq Scans
  /\ MaxRows \in Nat \ {0, 1}
  /\ MaxRestarts \in Nat

VARIABLES
  scanned,        \* how many scans the carrier has made
  status,         \* shipments.carrier_status
  eventRows,      \* how many shipment_events rows each scan has
  atDestination,  \* whether the assets were dropped at to_location_id
  poll,           \* the rest of the refresh each thread is in
  alone,          \* history: the thread's refresh has overlapped no other
  restarts        \* history: how often the server was killed

vars == <<scanned, status, eventRows, atDestination, poll, alone, restarts>>

Idle == [step |-> "idle"]

At(p, step) == poll[p].step = step

Continue(p, rest) == poll' = [poll EXCEPT ![p] = rest]
Answer(p) == Continue(p, Idle)

Stored(e) == eventRows[e] > 0

(* The INSERT of one row for each scan of new. *)
InsertEvents(new) ==
  eventRows' = [e \in Scans |-> IF e \in new /\ eventRows[e] < MaxRows
                                THEN eventRows[e] + 1
                                ELSE eventRows[e]]

-----------------------------------------------------------------------------
CarrierScans ==
  /\ scanned + 1 \in Scans
  /\ scanned' = scanned + 1
  /\ UNCHANGED <<status, eventRows, atDestination, poll, alone, restarts>>

(* The session loads the row; previous_status stays what it read here. *)
BeginPoll(p) ==
  /\ At(p, "idle")
  /\ Continue(p, [step |-> "fetch", previous |-> status])
  /\ alone' = [q \in Pollers |-> q = p /\ \A o \in Pollers \ {p} : At(o, "idle")]
  /\ UNCHANGED <<scanned, status, eventRows, atDestination, restarts>>

Compare(p, batch, result) ==
  Continue(p, [step |-> "compare", previous |-> poll[p].previous,
               batch |-> batch, result |-> result])

(* Mutant of Fetch: the batch is taken to be oldest first. *)
FetchOldestFirst(p) ==
  /\ At(p, "fetch")
  /\ \/ Answer(p)
     \/ Compare(p, {}, "unknown")
     \/ \E oldest \in 1..scanned : Compare(p, oldest..scanned, ScanStatus[oldest])
  /\ UNCHANGED <<scanned, status, eventRows, atDestination, alone, restarts>>

(***************************************************************************)
(* fetch_tracking never raises: it answers an error, which ends the        *)
(* refresh; an empty history, which goes on with the status "unknown"; or  *)
(* the carrier's latest batch, whose newest scan gives the status.         *)
(***************************************************************************)
Fetch(p) ==
  /\ At(p, "fetch")
  /\ \/ Answer(p)
     \/ Compare(p, {}, "unknown")
     \/ \E oldest \in 1..scanned : Compare(p, oldest..scanned, ScanStatus[scanned])
  /\ UNCHANGED <<scanned, status, eventRows, atDestination, alone, restarts>>

(* Mutant of NewEvents: the batch is stored as it came. *)
WholeBatch(batch) == batch

(***************************************************************************)
(* existing_keys: the events that are stored already.  A scan without a    *)
(* readable date is stamped with the time of the poll, a new key each time.*)
(***************************************************************************)
NewEvents(batch) == {e \in batch : ~Stored(e) \/ e \in Undated}

CompareEvents(p) ==
  /\ At(p, "compare")
  /\ Continue(p, [step |-> "store", previous |-> poll[p].previous,
                  new |-> NewEvents(poll[p].batch), result |-> poll[p].result])
  /\ UNCHANGED <<scanned, status, eventRows, atDestination, alone, restarts>>

(* Mutants of StoreResult: an unmapped status is stored like the others;   *)
(* previous_status is read again after the commit.                         *)
StoreAnyResult(p) ==
  /\ At(p, "store")
  /\ InsertEvents(poll[p].new)
  /\ status' = poll[p].result
  /\ Continue(p, [step |-> "reread", previous |-> poll[p].previous])
  /\ UNCHANGED <<scanned, atDestination, alone, restarts>>

StoreAndForgetPrevious(p) ==
  /\ At(p, "store")
  /\ InsertEvents(poll[p].new)
  /\ status' = IF poll[p].result \in {"unknown", poll[p].previous} THEN status ELSE poll[p].result
  /\ Continue(p, [step |-> "reread", previous |-> status'])
  /\ UNCHANGED <<scanned, atDestination, alone, restarts>>

(***************************************************************************)
(* The first commit: the new events are inserted.  The ORM writes          *)
(* carrier_status only when it differs from what the session had loaded.   *)
(***************************************************************************)
StoreResult(p) ==
  LET result == poll[p].result
      changed == result \notin {"unknown", poll[p].previous}
  IN
  /\ At(p, "store")
  /\ InsertEvents(poll[p].new)
  /\ status' = IF changed THEN result ELSE status
  /\ Continue(p, [step |-> "reread", previous |-> poll[p].previous])
  /\ UNCHANGED <<scanned, atDestination, alone, restarts>>

(* Mutant of RereadStatus: the new status is not compared. *)
RereadPreviousOnly(p) ==
  /\ At(p, "reread")
  /\ IF poll[p].previous # "delivered" THEN Continue(p, [step |-> "drop"]) ELSE Answer(p)
  /\ UNCHANGED <<scanned, status, eventRows, atDestination, alone, restarts>>

(* The commit expired the row: the new status is read again, the old one not. *)
RereadStatus(p) ==
  /\ At(p, "reread")
  /\ IF poll[p].previous # "delivered" /\ status = "delivered"
     THEN Continue(p, [step |-> "drop"])
     ELSE Answer(p)
  /\ UNCHANGED <<scanned, status, eventRows, atDestination, alone, restarts>>

(* _on_inbound_delivered and the second commit. *)
DropAssets(p) ==
  /\ At(p, "drop")
  /\ atDestination' = TRUE
  /\ Answer(p)
  /\ UNCHANGED <<scanned, status, eventRows, alone, restarts>>

(* The server is killed: what was committed stays, the polls are gone. *)
Restart ==
  /\ restarts < MaxRestarts
  /\ restarts' = restarts + 1
  /\ poll' = [p \in Pollers |-> Idle]
  /\ UNCHANGED <<scanned, status, eventRows, atDestination, alone>>

-----------------------------------------------------------------------------
Init ==
  /\ scanned = 0
  /\ status = "pending"
  /\ eventRows = [e \in Scans |-> 0]
  /\ atDestination = FALSE
  /\ poll = [p \in Pollers |-> Idle]
  /\ alone = [p \in Pollers |-> FALSE]
  /\ restarts = 0

GoOn(p) ==
  Fetch(p) \/ CompareEvents(p) \/ StoreResult(p) \/ RereadStatus(p) \/ DropAssets(p)

Next ==
  \/ CarrierScans
  \/ \E p \in Pollers : BeginPoll(p) \/ GoOn(p)
  \/ Restart

(* A thread that is refreshing is scheduled, and its HTTP call times out. *)
Spec == Init /\ [][Next]_vars /\ \A p \in Pollers : WF_vars(GoOn(p))

(* Besides, the shipment is looked at again and again. *)
PolledSpec == Spec /\ \A p \in Pollers : WF_vars(BeginPoll(p))

-----------------------------------------------------------------------------
TrackingTypeOK ==
  /\ scanned \in Scans \cup {0}
  /\ status \in CarrierStatus \ {"unknown"}
  /\ eventRows \in [Scans -> 0..MaxRows]
  /\ atDestination \in BOOLEAN
  /\ \A p \in Pollers :
       At(p, "compare") => poll[p].batch \subseteq 1..scanned
  /\ restarts \in 0..MaxRestarts

(***************************************************************************)
(* De-duplication by (occurred_at, status, description): "Carriers can     *)
(* return overlapping batches; we just want the union"                     *)
(* (shipment_service.py lines 398-399).  A poll that no other overlapped   *)
(* stores no dated scan a second time, however many polls came before it   *)
(* and wherever they were killed.                                          *)
(***************************************************************************)
LonePollStoresOnce ==
  [][\A p \in Pollers, e \in Scans \ Undated :
       At(p, "store") /\ poll'[p] # poll[p] /\ alone[p] /\ Stored(e)
         => eventRows'[e] = eventRows[e]]_vars

(***************************************************************************)
(* "Most recent activity drives current status" (tracking_service.py line  *)
(* 215).  A poll that no other overlapped and that was told a status our   *)
(* map knows leaves the status of the newest stored scan, even when older  *)
(* answers were stored over newer ones before.                             *)
(***************************************************************************)
NewestStored(e) == Stored(e) /\ \A f \in Scans : Stored(f) => f <= e

LonePollStoresNewest ==
  [][\A p \in Pollers, e \in Scans :
       /\ At(p, "store") /\ At(p, "reread")' /\ alone[p]
       /\ poll[p].result # "unknown"
       /\ NewestStored(e)'
       => status' = ScanStatus[e]]_vars

(***************************************************************************)
(* Assets are dropped only for a delivery the carrier reported and the     *)
(* events show, whatever polls overlap or die.                             *)
(***************************************************************************)
DropIsDocumented ==
  atDestination => \E e \in Scans : Stored(e) /\ ScanStatus[e] = "delivered"

(***************************************************************************)
(* "When an inbound shipment is delivered, drop assets at the destination  *)
(* location" (shipment_service.py lines 440-441).  A shipment that stays   *)
(* delivered gets its assets dropped.                                      *)
(***************************************************************************)
DeliveredIsDropped ==
  status = "delivered" ~> atDestination \/ status # "delivered"

(***************************************************************************)
(* The same while the server lives: overlapping polls never leave the drop *)
(* to each other, although each compares a status it read before its fetch *)
(* with one it reads after its commit.                                     *)
(***************************************************************************)
DropsUnlessKilled ==
  status = "delivered" ~> atDestination \/ status # "delivered" \/ restarts > 0
=============================================================================
