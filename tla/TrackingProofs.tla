--------------------------- MODULE TrackingProofs ----------------------------
(***************************************************************************)
(* Theorems about ShipmentTracking, for any number of overlapping polls,   *)
(* any log of the carrier, any undated scans and any number of restarts.   *)
(***************************************************************************)
EXTENDS ShipmentTracking, TLAPS

Documented == \E e \in Scans : Stored(e) /\ ScanStatus[e] = "delivered"

(* No scan that is stored is newer than n. *)
StoredUpTo(n) == \A f \in Scans : Stored(f) => f <= n

(* What a poll holds: no scan, or n is the newest scan of the answer it got. *)
CompareOK(p) ==
  At(p, "compare") =>
    \/ poll[p].result = "unknown" /\ poll[p].batch = {}
    \/ \E n \in 1..scanned :
         /\ poll[p].result = ScanStatus[n]
         /\ n \in poll[p].batch /\ poll[p].batch \subseteq 1..n
         /\ alone[p] => StoredUpTo(n)

ToldNothing(p) == poll[p].result = "unknown" /\ poll[p].new = {}

StoreOK(p) ==
  At(p, "store") =>
    \/ ToldNothing(p)
    \/ \E n \in 1..scanned :
         /\ poll[p].result = ScanStatus[n]
         /\ Stored(n) \/ n \in poll[p].new
         /\ poll[p].new \subseteq 1..n
         /\ alone[p] => StoredUpTo(n)

NewOK(p) ==
  At(p, "store") /\ alone[p] => \A e \in poll[p].new : ~Stored(e) \/ e \in Undated

PreviousOK(p) ==
  alone[p] /\ (At(p, "fetch") \/ At(p, "compare") \/ At(p, "store")) => poll[p].previous = status

DropOK(p) == At(p, "drop") => Documented

PollOK(p) == CompareOK(p) /\ StoreOK(p) /\ NewOK(p) /\ PreviousOK(p) /\ DropOK(p)

(* A poll that is alone is the only one. *)
LoneOK ==
  /\ DOMAIN poll = Pollers
  /\ alone \in [Pollers -> BOOLEAN]
  /\ \A p \in Pollers : alone[p] /\ ~At(p, "idle") => \A q \in Pollers \ {p} : At(q, "idle")

TablesOK ==
  /\ scanned \in Scans \cup {0}
  /\ status \in CarrierStatus \ {"unknown"}
  /\ eventRows \in [Scans -> 0..MaxRows]
  /\ atDestination \in BOOLEAN
  /\ restarts \in 0..MaxRestarts
  /\ StoredUpTo(scanned)
  /\ status = "delivered" => Documented
  /\ atDestination => Documented

TrackingInv == TablesOK /\ LoneOK /\ \A p \in Pollers : PollOK(p)

-----------------------------------------------------------------------------
LEMMA ScansAreNumbers == Len(ScanStatus) \in Nat /\ Scans \subseteq Nat /\ \A e \in Scans : 1..e \subseteq Scans
<1>1. Len(ScanStatus) \in Nat
  BY TrackingConstants
<1>2. QED
  BY <1>1 DEF Scans

LEMMA ScanHasStatus ==
  ASSUME NEW n \in Scans
  PROVE  ScanStatus[n] \in CarrierStatus
BY TrackingConstants DEF Scans

(* The other polls begin nothing while p is served. *)
LEMMA LoneAfterPoll ==
  ASSUME LoneOK, NEW p \in Pollers, ~At(p, "idle"), NEW rest, Continue(p, rest), UNCHANGED alone
  PROVE  LoneOK'
<1>1. DOMAIN poll' = Pollers /\ \A q \in Pollers \ {p} : poll'[q] = poll[q]
  BY DEF Continue, LoneOK
<1>2. \A q \in Pollers : alone[q] /\ q # p => At(q, "idle")
  BY DEF LoneOK
<1>3. ASSUME NEW u \in Pollers, alone'[u], ~At(u, "idle")'
      PROVE  \A q \in Pollers \ {u} : At(q, "idle")'
  <2>1. u = p
    BY <1>1, <1>2, <1>3 DEF At
  <2>2. \A q \in Pollers \ {p} : At(q, "idle")
    BY <1>3, <2>1 DEF LoneOK
  <2>3. QED
    BY <1>1, <2>1, <2>2 DEF At
<1>4. QED
  BY <1>1, <1>3 DEF LoneOK

(* A poll is as good after a step that leaves it and the tables alone. *)
LEMMA PollKept ==
  ASSUME TrackingInv, NEW q \in Pollers, poll'[q] = poll[q], alone'[q] => alone[q],
         scanned' \in Scans \cup {0}, scanned <= scanned', UNCHANGED <<status, eventRows>>
  PROVE  PollOK(q)'
<1>1. 1..scanned \subseteq 1..scanned'
  BY ScansAreNumbers DEF TrackingInv, TablesOK
<1>2. \A n : StoredUpTo(n)' = StoredUpTo(n)
  BY DEF StoredUpTo, Stored
<1>3. \A e : Stored(e)' = Stored(e)
  BY DEF Stored
<1>4. Documented' = Documented
  BY DEF Documented, Stored
<1>5. CompareOK(q)'
  BY <1>1, <1>2 DEF TrackingInv, PollOK, CompareOK, At
<1>6. StoreOK(q)'
  BY <1>1, <1>2, <1>3 DEF TrackingInv, PollOK, StoreOK, ToldNothing, At
<1>7. NewOK(q)' /\ PreviousOK(q)' /\ DropOK(q)'
  BY <1>3, <1>4 DEF TrackingInv, PollOK, NewOK, PreviousOK, DropOK, At
<1>8. QED
  BY <1>5, <1>6, <1>7 DEF PollOK

(* The tables, when no event is stored and the status stays. *)
LEMMA TablesKept ==
  ASSUME TablesOK, UNCHANGED <<scanned, status, eventRows, atDestination, restarts>>
  PROVE  TablesOK'
BY DEF TablesOK, StoredUpTo, Stored, Documented

LEMMA ScanKeepsInv == TrackingInv /\ CarrierScans => TrackingInv'
<1> SUFFICES ASSUME TrackingInv, CarrierScans
             PROVE  TrackingInv'
  OBVIOUS
<1>1. scanned' \in Scans /\ scanned \in Nat /\ scanned <= scanned'
  BY ScansAreNumbers DEF CarrierScans, TrackingInv, TablesOK
<1>2. TablesOK'
  <2>1. StoredUpTo(scanned)'
    BY <1>1, ScansAreNumbers DEF CarrierScans, TrackingInv, TablesOK, StoredUpTo, Stored
  <2>2. QED
    BY <1>1, <2>1 DEF CarrierScans, TrackingInv, TablesOK, Documented, Stored
<1>3. LoneOK'
  BY DEF CarrierScans, TrackingInv, LoneOK, At
<1>4. \A p \in Pollers : PollOK(p)'
  BY <1>1, PollKept DEF CarrierScans
<1>5. QED
  BY <1>2, <1>3, <1>4 DEF TrackingInv

LEMMA BeginKeepsInv ==
  ASSUME TrackingInv, NEW p \in Pollers, BeginPoll(p)
  PROVE  TrackingInv'
<1>1. scanned <= scanned /\ scanned \in Scans \cup {0}
  BY ScansAreNumbers DEF TrackingInv, TablesOK
<1>2. /\ poll' = [poll EXCEPT ![p] = [step |-> "fetch", previous |-> status]]
      /\ DOMAIN poll = Pollers
  BY DEF BeginPoll, Continue, TrackingInv, LoneOK
<1>3. /\ DOMAIN poll' = Pollers
      /\ poll'[p] = [step |-> "fetch", previous |-> status]
      /\ \A q \in Pollers \ {p} : poll'[q] = poll[q]
  BY <1>2
<1>4. \A q \in Pollers : alone'[q] => q = p /\ \A o \in Pollers \ {p} : At(o, "idle")
  BY DEF BeginPoll
<1>5. TablesOK'
  BY TablesKept DEF BeginPoll, TrackingInv
<1>6. LoneOK'
  <2>1. alone' \in [Pollers -> BOOLEAN]
    BY DEF BeginPoll
  <2>2. QED
    BY <1>3, <1>4, <2>1 DEF LoneOK, At
<1>7. PollOK(p)'
  BY <1>3 DEF BeginPoll, PollOK, CompareOK, StoreOK, NewOK, PreviousOK, DropOK, At
<1>8. ASSUME NEW q \in Pollers \ {p}
      PROVE  PollOK(q)'
  <2>1. alone'[q] => alone[q]
    BY <1>4
  <2>2. QED
    BY <1>1, <1>3, <2>1, PollKept DEF BeginPoll
<1>9. QED
  BY <1>5, <1>6, <1>7, <1>8 DEF TrackingInv

(* A step of p that writes nothing: what p holds next must be good. *)
LEMMA ReadKeepsInv ==
  ASSUME TrackingInv, NEW p \in Pollers, ~At(p, "idle"), NEW rest, Continue(p, rest),
         UNCHANGED <<scanned, status, eventRows, atDestination, alone, restarts>>,
         poll'[p] = rest => PollOK(p)'
  PROVE  TrackingInv'
<1>1. poll'[p] = rest /\ \A q \in Pollers \ {p} : poll'[q] = poll[q]
  BY DEF Continue, TrackingInv, LoneOK
<1>2. scanned <= scanned /\ scanned \in Scans \cup {0}
  BY ScansAreNumbers DEF TrackingInv, TablesOK
<1>3. \A q \in Pollers \ {p} : PollOK(q)'
  BY <1>1, <1>2, PollKept
<1>4. QED
  BY <1>1, <1>3, LoneAfterPoll, TablesKept DEF TrackingInv

LEMMA IdleIsOK ==
  ASSUME NEW p \in Pollers, poll'[p] = Idle
  PROVE  PollOK(p)'
BY DEF PollOK, CompareOK, StoreOK, NewOK, PreviousOK, DropOK, At, Idle

LEMMA AnswerKeepsInv ==
  ASSUME TrackingInv, NEW p \in Pollers, ~At(p, "idle"), Answer(p),
         UNCHANGED <<scanned, status, eventRows, atDestination, alone, restarts>>
  PROVE  TrackingInv'
BY IdleIsOK, ReadKeepsInv DEF Answer

(* The answer of the carrier: its newest scan is the newest there is. *)
LEMMA FetchKeepsInv ==
  ASSUME TrackingInv, NEW p \in Pollers, Fetch(p)
  PROVE  TrackingInv'
<1>1. ~At(p, "idle") /\ UNCHANGED <<scanned, status, eventRows, atDestination, alone, restarts>>
  BY DEF Fetch, At
<1>2. ASSUME NEW oldest \in 1..scanned,
             Compare(p, oldest..scanned, ScanStatus[scanned])
      PROVE  TrackingInv'
  <2> DEFINE rest == [step |-> "compare", previous |-> poll[p].previous,
                      batch |-> oldest..scanned, result |-> ScanStatus[scanned]]
  <2>1. scanned \in 1..scanned /\ scanned \in rest.batch /\ rest.batch \subseteq 1..scanned
    BY ScansAreNumbers DEF TrackingInv, TablesOK
  <2>2. ASSUME poll'[p] = rest
        PROVE  PollOK(p)'
    <3>1. CompareOK(p)'
      BY <1>1, <2>1, <2>2 DEF CompareOK, TrackingInv, TablesOK, StoredUpTo, Stored
    <3>2. PreviousOK(p)'
      BY <1>1, <2>2 DEF Fetch, TrackingInv, PollOK, PreviousOK, At
    <3>3. StoreOK(p)' /\ NewOK(p)' /\ DropOK(p)'
      BY <2>2 DEF StoreOK, NewOK, DropOK, At
    <3>4. QED
      BY <3>1, <3>2, <3>3 DEF PollOK
  <2>3. QED
    BY <1>1, <1>2, <2>2, ReadKeepsInv DEF Compare
<1>3. ASSUME Compare(p, {}, "unknown")
      PROVE  TrackingInv'
  <2> DEFINE rest == [step |-> "compare", previous |-> poll[p].previous,
                      batch |-> {}, result |-> "unknown"]
  <2>1. ASSUME poll'[p] = rest
        PROVE  PollOK(p)'
    <3>1. PreviousOK(p)'
      BY <1>1, <2>1 DEF Fetch, TrackingInv, PollOK, PreviousOK, At
    <3>2. CompareOK(p)' /\ StoreOK(p)' /\ NewOK(p)' /\ DropOK(p)'
      BY <2>1 DEF CompareOK, StoreOK, NewOK, DropOK, At
    <3>3. QED
      BY <3>1, <3>2 DEF PollOK
  <2>2. QED
    BY <1>1, <1>3, <2>1, ReadKeepsInv DEF Compare
<1>4. QED
  BY <1>1, <1>2, <1>3, AnswerKeepsInv DEF Fetch

LEMMA CompareKeepsInv ==
  ASSUME TrackingInv, NEW p \in Pollers, CompareEvents(p)
  PROVE  TrackingInv'
<1> DEFINE rest == [step |-> "store", previous |-> poll[p].previous,
                    new |-> NewEvents(poll[p].batch), result |-> poll[p].result]
<1>1. ~At(p, "idle") /\ UNCHANGED <<scanned, status, eventRows, atDestination, alone, restarts>>
  BY DEF CompareEvents, At
<1>2. Continue(p, rest) /\ At(p, "compare")
  BY DEF CompareEvents
<1>3. ASSUME poll'[p] = rest
      PROVE  PollOK(p)'
  <2>1. ASSUME \E n \in 1..scanned :
                 /\ poll[p].result = ScanStatus[n]
                 /\ n \in poll[p].batch /\ poll[p].batch \subseteq 1..n
                 /\ alone[p] => StoredUpTo(n)
        PROVE  StoreOK(p)'
    <3>1. PICK n \in 1..scanned :
            /\ poll[p].result = ScanStatus[n]
            /\ n \in poll[p].batch /\ poll[p].batch \subseteq 1..n
            /\ alone[p] => StoredUpTo(n)
      BY <2>1
    <3>2. /\ rest.result = ScanStatus[n]
          /\ Stored(n) \/ n \in rest.new
          /\ rest.new \subseteq 1..n
      BY <3>1 DEF NewEvents
    <3>3. QED
      BY <1>1, <1>3, <3>1, <3>2 DEF StoreOK, StoredUpTo, Stored
  <2>2. \A e \in rest.new : ~Stored(e) \/ e \in Undated
    BY DEF NewEvents
  <2>3. StoreOK(p)'
    <3>1. CASE poll[p].result = "unknown" /\ poll[p].batch = {}
      BY <1>3, <3>1 DEF StoreOK, ToldNothing, NewEvents
    <3>2. QED
      BY <1>2, <2>1, <3>1 DEF TrackingInv, PollOK, CompareOK
  <2>4. NewOK(p)'
    BY <1>1, <1>3, <2>2 DEF NewOK, Stored
  <2>5. PreviousOK(p)'
    BY <1>1, <1>2, <1>3 DEF TrackingInv, PollOK, PreviousOK, At
  <2>6. CompareOK(p)' /\ DropOK(p)'
    BY <1>3 DEF CompareOK, DropOK, At
  <2>7. QED
    BY <2>3, <2>4, <2>5, <2>6 DEF PollOK
<1>4. QED
  BY <1>1, <1>2, <1>3, ReadKeepsInv

(* What the INSERTs leave: more events, none of them newer than the answer. *)
LEMMA EventsInserted ==
  ASSUME TablesOK, NEW new, new \subseteq Scans, InsertEvents(new)
  PROVE  /\ eventRows' \in [Scans -> 0..MaxRows]
         /\ \A e \in Scans : Stored(e)' <=> Stored(e) \/ e \in new
<1>1. MaxRows \in Nat /\ MaxRows > 1
  BY TrackingConstants
<1>2. ASSUME NEW e \in Scans
      PROVE  eventRows'[e] \in 0..MaxRows /\ (Stored(e)' <=> Stored(e) \/ e \in new)
  <2>1. eventRows[e] \in 0..MaxRows
    BY DEF TablesOK
  <2>2. eventRows'[e] = IF e \in new /\ eventRows[e] < MaxRows THEN eventRows[e] + 1 ELSE eventRows[e]
    BY DEF InsertEvents
  <2>3. QED
    BY <1>1, <2>1, <2>2 DEF Stored
<1>3. eventRows' = [e \in Scans |-> eventRows'[e]]
  BY DEF InsertEvents
<1>4. QED
  BY <1>2, <1>3

(* The scans that a poll is about to store are made, and show what it was told. *)
ScansShow(p) ==
  /\ poll[p].new \subseteq 1..scanned
  /\ poll[p].result \in CarrierStatus
  /\ poll[p].result # "unknown" =>
       \E n \in 1..scanned : poll[p].result = ScanStatus[n] /\ (Stored(n) \/ n \in poll[p].new)

LEMMA StoreIsShown ==
  ASSUME TrackingInv, NEW p \in Pollers, At(p, "store")
  PROVE  ScansShow(p)
<1>1. CASE ToldNothing(p)
  BY <1>1 DEF ToldNothing, ScansShow, CarrierStatus
<1>2. ASSUME ~ToldNothing(p)
      PROVE  ScansShow(p)
  <2>1. PICK n \in 1..scanned :
          /\ poll[p].result = ScanStatus[n]
          /\ Stored(n) \/ n \in poll[p].new
          /\ poll[p].new \subseteq 1..n
    BY <1>2 DEF TrackingInv, PollOK, StoreOK
  <2>2. n \in Scans /\ scanned \in Nat
    BY ScansAreNumbers DEF TrackingInv, TablesOK
  <2>3. 1..n \subseteq 1..scanned /\ ScanStatus[n] \in CarrierStatus
    BY <2>2, ScanHasStatus
  <2>4. QED
    BY <2>1, <2>3 DEF ScansShow
<1>3. QED
  BY <1>1, <1>2

(* The first commit. *)
LEMMA StoreKeepsInv ==
  ASSUME TrackingInv, NEW p \in Pollers, StoreResult(p)
  PROVE  TrackingInv'
<1>1. ScansShow(p)
  BY StoreIsShown DEF StoreResult
<1>2. 1..scanned \subseteq Scans /\ scanned \in Nat
  BY ScansAreNumbers DEF TrackingInv, TablesOK
<1>3. /\ eventRows' \in [Scans -> 0..MaxRows]
      /\ \A e \in Scans : Stored(e)' <=> Stored(e) \/ e \in poll[p].new
  BY <1>1, <1>2, EventsInserted DEF StoreResult, TrackingInv, ScansShow
<1>4. Documented => Documented'
  BY <1>3 DEF Documented
<1>5. poll[p].result = "delivered" => Documented'
  BY <1>1, <1>2, <1>3 DEF Documented, ScansShow
<1>6. TablesOK'
  <2>1. status' \in {status, poll[p].result} /\ (status' # status => status' # "unknown")
    BY DEF StoreResult
  <2>2. status' \in CarrierStatus \ {"unknown"} /\ (status' = "delivered" => Documented')
    BY <1>1, <1>4, <1>5, <2>1 DEF TrackingInv, TablesOK, ScansShow
  <2>3. StoredUpTo(scanned)'
    BY <1>1, <1>2, <1>3, ScansAreNumbers DEF StoreResult, TrackingInv, TablesOK, StoredUpTo, ScansShow
  <2>4. QED
    BY <1>3, <1>4, <2>2, <2>3 DEF StoreResult, TrackingInv, TablesOK
<1>7. /\ ~At(p, "idle")
      /\ Continue(p, [step |-> "reread", previous |-> poll[p].previous])
      /\ UNCHANGED <<scanned, atDestination, alone, restarts>>
  BY DEF StoreResult, At
<1>8. LoneOK'
  BY <1>7, LoneAfterPoll DEF TrackingInv
<1>9. /\ poll'[p] = [step |-> "reread", previous |-> poll[p].previous]
      /\ \A q \in Pollers \ {p} : poll'[q] = poll[q]
  BY <1>7 DEF Continue, TrackingInv, LoneOK
<1>10. PollOK(p)'
  BY <1>9 DEF PollOK, CompareOK, StoreOK, NewOK, PreviousOK, DropOK, At
<1>11. ASSUME NEW q \in Pollers \ {p}
       PROVE  PollOK(q)'
  <2>1. ~At(q, "idle") => ~alone'[q]
    BY <1>7 DEF TrackingInv, LoneOK
  <2>2. CompareOK(q)'
    BY <1>7, <1>9, <2>1 DEF TrackingInv, PollOK, CompareOK, At
  <2>3. StoreOK(q)'
    <3>1. SUFFICES ASSUME At(q, "store"), ~ToldNothing(q)
                   PROVE  StoreOK(q)'
      BY <1>9 DEF StoreOK, At, ToldNothing
    <3>2. PICK m \in 1..scanned : /\ poll[q].result = ScanStatus[m]
                                  /\ Stored(m) \/ m \in poll[q].new
                                  /\ poll[q].new \subseteq 1..m
      BY <3>1 DEF TrackingInv, PollOK, StoreOK
    <3>3. m \in Scans
      BY ScansAreNumbers DEF TrackingInv, TablesOK
    <3>4. Stored(m)' \/ m \in poll[q].new
      BY <1>3, <3>2, <3>3
    <3>5. ~alone'[q]
      BY <2>1, <3>1 DEF At
    <3>6. QED
      BY <1>7, <1>9, <3>2, <3>4, <3>5 DEF StoreOK
  <2>4. NewOK(q)' /\ PreviousOK(q)'
    BY <1>9, <2>1 DEF NewOK, PreviousOK, At
  <2>5. DropOK(q)'
    BY <1>4, <1>9 DEF TrackingInv, PollOK, DropOK, At
  <2>6. QED
    BY <2>2, <2>3, <2>4, <2>5 DEF PollOK
<1>12. QED
  BY <1>6, <1>8, <1>10, <1>11 DEF TrackingInv

LEMMA RereadKeepsInv ==
  ASSUME TrackingInv, NEW p \in Pollers, RereadStatus(p)
  PROVE  TrackingInv'
<1>1. ~At(p, "idle") /\ UNCHANGED <<scanned, status, eventRows, atDestination, alone, restarts>>
  BY DEF RereadStatus, At
<1>2. CASE status = "delivered" /\ Continue(p, [step |-> "drop"])
  <2>1. Documented'
    BY <1>1, <1>2 DEF TrackingInv, TablesOK, Documented, Stored
  <2>2. ASSUME poll'[p] = [step |-> "drop"]
        PROVE  PollOK(p)'
    BY <2>1, <2>2 DEF PollOK, CompareOK, StoreOK, NewOK, PreviousOK, DropOK, At
  <2>3. QED
    BY <1>1, <1>2, <2>2, ReadKeepsInv
<1>3. QED
  BY <1>1, <1>2, AnswerKeepsInv DEF RereadStatus

LEMMA DropKeepsInv ==
  ASSUME TrackingInv, NEW p \in Pollers, DropAssets(p)
  PROVE  TrackingInv'
<1>1. /\ ~At(p, "idle") /\ At(p, "drop")
      /\ Continue(p, Idle)
      /\ UNCHANGED <<scanned, status, eventRows, alone, restarts>>
  BY DEF DropAssets, Answer, At
<1>2. poll'[p] = Idle /\ \A q \in Pollers \ {p} : poll'[q] = poll[q]
  BY <1>1 DEF Continue, TrackingInv, LoneOK
<1>3. Documented
  BY <1>1 DEF TrackingInv, PollOK, DropOK
<1>4. TablesOK'
  BY <1>1, <1>3 DEF DropAssets, TrackingInv, TablesOK, StoredUpTo, Stored, Documented
<1>5. LoneOK'
  BY <1>1, LoneAfterPoll DEF TrackingInv
<1>6. scanned <= scanned /\ scanned \in Scans \cup {0}
  BY ScansAreNumbers DEF TrackingInv, TablesOK
<1>7. \A q \in Pollers : PollOK(q)'
  BY <1>1, <1>2, <1>6, IdleIsOK, PollKept
<1>8. QED
  BY <1>4, <1>5, <1>7 DEF TrackingInv

LEMMA RestartKeepsInv == TrackingInv /\ Restart => TrackingInv'
<1> SUFFICES ASSUME TrackingInv, Restart
             PROVE  TrackingInv'
  OBVIOUS
<1>1. \A p \in Pollers : poll'[p] = Idle
  BY DEF Restart
<1>2. TablesOK'
  BY TrackingConstants DEF Restart, TrackingInv, TablesOK, StoredUpTo, Stored, Documented
<1>3. LoneOK'
  BY <1>1 DEF Restart, TrackingInv, LoneOK, At, Idle
<1>4. QED
  BY <1>1, <1>2, <1>3, IdleIsOK DEF TrackingInv

LEMMA TrackingInvHolds == Spec => []TrackingInv
<1>1. Init => TrackingInv
  <2> SUFFICES ASSUME Init
               PROVE  TrackingInv
    OBVIOUS
  <2>1. TablesOK
    <3>1. MaxRows \in Nat /\ MaxRestarts \in Nat
      BY TrackingConstants
    <3>2. eventRows \in [Scans -> 0..MaxRows] /\ StoredUpTo(scanned)
      BY <3>1 DEF Init, StoredUpTo, Stored
    <3>3. scanned \in Scans \cup {0} /\ restarts \in 0..MaxRestarts
      BY <3>1 DEF Init
    <3>4. status = "pending" /\ atDestination = FALSE
      BY DEF Init
    <3>5. QED
      BY <3>2, <3>3, <3>4 DEF TablesOK, CarrierStatus
  <2>2. LoneOK
    BY DEF Init, LoneOK, At, Idle
  <2>3. \A p \in Pollers : PollOK(p)
    BY DEF Init, PollOK, CompareOK, StoreOK, NewOK, PreviousOK, DropOK, At, Idle
  <2>4. QED
    BY <2>1, <2>2, <2>3 DEF TrackingInv
<1>2. TrackingInv /\ [Next]_vars => TrackingInv'
  <2> SUFFICES ASSUME TrackingInv, [Next]_vars
               PROVE  TrackingInv'
    OBVIOUS
  <2>1. CASE UNCHANGED vars
    <3>1. scanned <= scanned /\ scanned \in Scans \cup {0}
      BY ScansAreNumbers DEF TrackingInv, TablesOK
    <3>2. \A p \in Pollers : PollOK(p)'
      BY <2>1, <3>1, PollKept DEF vars
    <3>3. TablesOK' /\ LoneOK'
      BY <2>1, TablesKept DEF vars, TrackingInv, LoneOK, At
    <3>4. QED
      BY <3>2, <3>3 DEF TrackingInv
  <2>2. QED
    BY <2>1, ScanKeepsInv, BeginKeepsInv, FetchKeepsInv, CompareKeepsInv, StoreKeepsInv, RereadKeepsInv,
       DropKeepsInv, RestartKeepsInv DEF Next, GoOn
<1>3. QED
  BY <1>1, <1>2, PTL DEF Spec

-----------------------------------------------------------------------------
(***************************************************************************)
(* The tables keep their types, and no poll holds a scan that the carrier  *)
(* has not made.                                                           *)
(***************************************************************************)
THEOREM TrackingTypeCorrect == Spec => []TrackingTypeOK
<1>1. TrackingInv => TrackingTypeOK
  <2> SUFFICES ASSUME TrackingInv, NEW p \in Pollers, At(p, "compare")
               PROVE  poll[p].batch \subseteq 1..scanned
    BY DEF TrackingInv, TablesOK, TrackingTypeOK
  <2>1. scanned \in Nat
    BY ScansAreNumbers DEF TrackingInv, TablesOK
  <2>2. poll[p].batch = {} \/ \E n \in 1..scanned : poll[p].batch \subseteq 1..n
    BY DEF TrackingInv, PollOK, CompareOK
  <2>3. QED
    BY <2>1, <2>2
<1>2. QED
  BY <1>1, TrackingInvHolds, PTL

(***************************************************************************)
(* Assets are dropped only for a delivery that the events show: a poll     *)
(* that stores a status stores, or finds stored, the scan it comes from.   *)
(***************************************************************************)
THEOREM EveryDropIsDocumented == Spec => []DropIsDocumented
<1>1. TrackingInv => DropIsDocumented
  BY DEF TrackingInv, TablesOK, Documented, DropIsDocumented
<1>2. QED
  BY <1>1, TrackingInvHolds, PTL

(* Only the first commit of the poll itself leaves it with another record at "store". *)
LEMMA StoreStep ==
  ASSUME TrackingInv, [Next]_vars, NEW p \in Pollers, At(p, "store"), poll'[p] # poll[p], ~Restart
  PROVE  StoreResult(p)
<1>1. \A rest : \A q \in Pollers : q # p => ~Continue(q, rest)
  BY DEF Continue, TrackingInv, LoneOK
<1>2. ASSUME NEW q \in Pollers, q # p, BeginPoll(q) \/ GoOn(q)
      PROVE  FALSE
  BY <1>1, <1>2 DEF BeginPoll, GoOn, Fetch, Compare, CompareEvents, StoreResult, RereadStatus, DropAssets, Answer
<1>3. ~BeginPoll(p) /\ (GoOn(p) => StoreResult(p))
  BY DEF At, BeginPoll, GoOn, Fetch, CompareEvents, StoreResult, RereadStatus, DropAssets
<1>4. QED
  BY <1>2, <1>3 DEF Next, CarrierScans, vars

(***************************************************************************)
(* A poll that no other overlapped stores no dated scan twice: what it     *)
(* compared its answer with is still what is stored.                       *)
(***************************************************************************)
THEOREM LonePollIsIdempotent == Spec => LonePollStoresOnce
<1> DEFINE Goal ==
      \A p \in Pollers, e \in Scans \ Undated :
        At(p, "store") /\ poll'[p] # poll[p] /\ alone[p] /\ Stored(e)
          => eventRows'[e] = eventRows[e]
<1>1. TrackingInv /\ [Next]_vars => [Goal]_vars
  <2> SUFFICES ASSUME TrackingInv, [Next]_vars, NEW p \in Pollers, NEW e \in Scans \ Undated,
                      At(p, "store"), poll'[p] # poll[p], alone[p], Stored(e)
               PROVE  eventRows'[e] = eventRows[e]
    OBVIOUS
  <2>1. CASE Restart
    BY <2>1 DEF Restart
  <2>2. CASE StoreResult(p)
    <3>1. e \notin poll[p].new
      BY DEF TrackingInv, PollOK, NewOK
    <3>2. QED
      BY <2>2, <3>1 DEF StoreResult, InsertEvents
  <2>3. QED
    BY <2>1, <2>2, StoreStep
<1>2. QED
  BY <1>1, TrackingInvHolds, PTL DEF Spec, LonePollStoresOnce

(***************************************************************************)
(* A poll that no other overlapped leaves the status of the newest stored  *)
(* scan: nothing newer was stored while it fetched, and the status it has  *)
(* loaded, by which it decides whether to write, is still the one stored.  *)
(***************************************************************************)
THEOREM LonePollIsNewest == Spec => LonePollStoresNewest
<1> DEFINE Goal ==
      \A p \in Pollers, e \in Scans :
        /\ At(p, "store") /\ At(p, "reread")' /\ alone[p]
        /\ poll[p].result # "unknown"
        /\ NewestStored(e)'
        => status' = ScanStatus[e]
<1>1. TrackingInv /\ [Next]_vars => [Goal]_vars
  <2> SUFFICES ASSUME TrackingInv, [Next]_vars, NEW p \in Pollers, NEW e \in Scans,
                      At(p, "store"), At(p, "reread")', alone[p],
                      poll[p].result # "unknown", NewestStored(e)'
               PROVE  status' = ScanStatus[e]
    OBVIOUS
  <2>1. poll'[p] # poll[p] /\ ~Restart
    BY DEF At, Restart, Idle
  <2>2. StoreResult(p)
    BY <2>1, StoreStep
  <2>3. PICK n \in 1..scanned :
          /\ poll[p].result = ScanStatus[n]
          /\ Stored(n) \/ n \in poll[p].new
          /\ poll[p].new \subseteq 1..n
          /\ StoredUpTo(n)
    BY DEF TrackingInv, PollOK, StoreOK, ToldNothing
  <2>4. n \in Scans /\ e \in Nat /\ n \in Nat
    BY ScansAreNumbers DEF TrackingInv, TablesOK
  <2>5. \A f \in Scans : Stored(f)' <=> Stored(f) \/ f \in poll[p].new
    BY <2>2, <2>3, <2>4, ScansAreNumbers, EventsInserted DEF StoreResult, TrackingInv
  <2>6. e = n
    <3>1. n <= e
      BY <2>3, <2>4, <2>5 DEF NewestStored
    <3>2. e <= n
      BY <2>3, <2>4, <2>5 DEF NewestStored, StoredUpTo
    <3>3. QED
      BY <2>4, <3>1, <3>2
  <2>7. poll[p].previous = status
    BY DEF TrackingInv, PollOK, PreviousOK
  <2>8. QED
    BY <2>2, <2>3, <2>6, <2>7 DEF StoreResult
<1>2. QED
  BY <1>1, TrackingInvHolds, PTL DEF Spec, LonePollStoresNewest

-----------------------------------------------------------------------------
(* The poll will find the shipment delivered, or has found it, and drop. *)
WillDrop(p) == At(p, "drop") \/ (At(p, "reread") /\ poll[p].previous # "delivered")

DropIsPending ==
  status = "delivered" => atDestination \/ restarts > 0 \/ \E p \in Pollers : WillDrop(p)

(* Whoever is not the poll that steps will drop as before. *)
LEMMA OthersDrop ==
  ASSUME TrackingInv, NEW p \in Pollers, NEW rest, Continue(p, rest), NEW q \in Pollers,
         WillDrop(q), q # p
  PROVE  WillDrop(q)'
BY DEF TrackingInv, LoneOK, Continue, WillDrop, At

LEMMA StoreLeavesDrop ==
  ASSUME TrackingInv, DropIsPending, NEW p \in Pollers, StoreResult(p)
  PROVE  DropIsPending'
<1> SUFFICES ASSUME status' = "delivered", ~atDestination, ~(restarts > 0)
             PROVE  \E q \in Pollers : WillDrop(q)'
  BY DEF DropIsPending, StoreResult
<1>1. PICK rest : Continue(p, rest) /\ rest = [step |-> "reread", previous |-> poll[p].previous]
  BY DEF StoreResult
<1>2. CASE status = "delivered"
  <2>1. PICK q \in Pollers : WillDrop(q)
    BY <1>2 DEF DropIsPending
  <2>2. q # p
    BY <2>1 DEF StoreResult, WillDrop, At
  <2>3. QED
    BY <1>1, <2>1, <2>2, OthersDrop
<1>3. CASE status # "delivered"
  <2>1. poll[p].previous # "delivered"
    BY <1>3 DEF StoreResult
  <2>2. poll'[p] = rest
    BY <1>1 DEF TrackingInv, LoneOK, Continue
  <2>3. WillDrop(p)'
    BY <1>1, <2>1, <2>2 DEF WillDrop, At
  <2>4. QED
    BY <2>3
<1>4. QED
  BY <1>2, <1>3

LEMMA StepsLeaveDrop ==
  ASSUME TrackingInv, DropIsPending, NEW p \in Pollers,
         BeginPoll(p) \/ Fetch(p) \/ CompareEvents(p) \/ RereadStatus(p)
  PROVE  DropIsPending'
<1> SUFFICES ASSUME status = "delivered", ~atDestination, ~(restarts > 0)
             PROVE  \E q \in Pollers : WillDrop(q)'
  BY DEF DropIsPending, BeginPoll, Fetch, CompareEvents, RereadStatus
<1>1. PICK rest : Continue(p, rest)
  BY DEF BeginPoll, Fetch, Compare, CompareEvents, RereadStatus, Answer
<1>2. PICK q \in Pollers : WillDrop(q)
  BY DEF DropIsPending
<1>3. CASE q # p
  BY <1>1, <1>2, <1>3, OthersDrop
<1>4. CASE q = p
  <2>1. At(p, "reread") /\ poll[p].previous # "delivered" /\ RereadStatus(p)
    BY <1>2, <1>4 DEF WillDrop, At, BeginPoll, Fetch, CompareEvents, RereadStatus
  <2>2. Continue(p, [step |-> "drop"])
    BY <2>1 DEF RereadStatus
  <2>3. WillDrop(p)'
    BY <2>2 DEF TrackingInv, LoneOK, Continue, WillDrop, At
  <2>4. QED
    BY <2>3
<1>5. QED
  BY <1>3, <1>4

(***************************************************************************)
(* While the server lives, a delivered shipment whose assets are not       *)
(* dropped has a poll in progress that will drop them: each poll compares  *)
(* a status read before its fetch with one read after its commit, and yet  *)
(* overlapping polls never leave the drop to each other.  What is left of  *)
(* DropsUnlessKilled is that the poll goes on.                             *)
(***************************************************************************)
THEOREM DropIsOnItsWay == Spec => []DropIsPending
<1>1. Init => DropIsPending
  BY DEF Init, DropIsPending
<1>2. TrackingInv /\ DropIsPending /\ [Next]_vars => DropIsPending'
  <2> SUFFICES ASSUME TrackingInv, DropIsPending, [Next]_vars
               PROVE  DropIsPending'
    OBVIOUS
  <2>1. CASE CarrierScans \/ UNCHANGED vars
    BY <2>1 DEF CarrierScans, vars, DropIsPending, WillDrop, At
  <2>2. CASE Restart
    <3>1. restarts \in Nat /\ restarts' = restarts + 1
      BY <2>2, TrackingConstants DEF Restart, TrackingInv, TablesOK
    <3>2. QED
      BY <3>1 DEF DropIsPending
  <2>3. ASSUME NEW p \in Pollers, DropAssets(p)
        PROVE  DropIsPending'
    BY <2>3 DEF DropAssets, DropIsPending
  <2>4. QED
    BY <2>1, <2>2, <2>3, StoreLeavesDrop, StepsLeaveDrop DEF Next, GoOn
<1>3. QED
  BY <1>1, <1>2, TrackingInvHolds, PTL DEF Spec
=============================================================================
