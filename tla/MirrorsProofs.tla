--------------------------- MODULE MirrorsProofs ----------------------------
(***************************************************************************)
(* Theorems about Mirrors, for any number of workers, any TTL and length   *)
(* of a fetch, any users, tenants, assets and sites.                       *)
(***************************************************************************)
EXTENDS Mirrors, FiniteSetTheorems, TLAPS

-----------------------------------------------------------------------------
(* The index: who fetches has not fetched for longer than LongestBuild. *)
IndexJobs ==
  {Idle} \cup [step : {"fetch"}, age : 0..LongestBuild]
         \cup [step : {"meraki"}, attempt : 0..MaxRetries]

IndexTypeOK ==
  /\ part # "index" => index = NULL
  /\ part = "index" => job \in [Workers -> IndexJobs]
  /\ index # NULL => index \in [data : 0..Outdated, stored : 0..Outdated]
  /\ warmer \in [step : {"wait", "fetch"}, age : Nat]
  /\ warmer.age <= IF warmer.step = "wait" THEN TTL ELSE LongestBuild

IndexInv == IndexTypeOK /\ IndexIsAsFreshAsStamped

LEMMA OutdatedIsNumber == Outdated \in Nat /\ LongestBuild \in Nat /\ LongestBuild <= Outdated
BY TimesAreNumbers DEF Outdated

(* A fetch that was not longer than LongestBuild leaves a good index. *)
LEMMA StoredIndex ==
  ASSUME NEW age \in 0..LongestBuild, Store(age)
  PROVE  /\ index' \in [data : 0..Outdated, stored : 0..Outdated]
         /\ index'.data <= index'.stored + LongestBuild
BY OutdatedIsNumber DEF Store

(* A request of the index part begins or goes on. *)
LEMMA IndexRequest ==
  ASSUME NEW w \in Workers, IndexInv, part = "index", BeginIndex(w) \/ IndexSteps(w), UNCHANGED part
  PROVE  IndexInv'
<1> USE DEF IndexInv, IndexTypeOK, IndexIsAsFreshAsStamped, indexVars
<1>1. job[w] \in IndexJobs
  OBVIOUS
<1>2. ASSUME NEW rest \in IndexJobs, Serve(w, rest) \/ Continue(w, rest)
      PROVE  job' \in [Workers -> IndexJobs]
  BY <1>2 DEF Serve, Continue
<1>3. Idle \in IndexJobs
  BY DEF IndexJobs
<1>4. CASE BeginFetch(w)
  <2>1. [step |-> "fetch", age |-> 0] \in IndexJobs
    BY OutdatedIsNumber DEF IndexJobs
  <2>2. QED
    BY <1>2, <1>4, <2>1 DEF BeginFetch
<1>5. CASE BeginMerakiGet(w)
  <2>1. [step |-> "meraki", attempt |-> 0] \in IndexJobs
    BY TimesAreNumbers DEF IndexJobs
  <2>2. QED
    BY <1>2, <1>5, <2>1 DEF BeginMerakiGet
<1>6. CASE StoreIndex(w)
  <2>1. job[w].age \in 0..LongestBuild
    BY <1>1, <1>6 DEF StoreIndex, Fetching, At, IndexJobs, Idle
  <2>2. QED
    BY <1>2, <1>3, <1>6, <2>1, StoredIndex DEF StoreIndex, Answer
<1>7. CASE FetchFails(w) \/ MerakiAnswers(w)
  BY <1>2, <1>3, <1>7 DEF FetchFails, MerakiAnswers, Answer
<1>8. CASE Throttled(w)
  <2>1. job[w] \in [step : {"meraki"}, attempt : 0..MaxRetries] /\ job[w].attempt < MaxRetries
    BY <1>1, <1>8 DEF Throttled, At, IndexJobs, Idle
  <2>2. [job[w] EXCEPT !.attempt = @ + 1] \in IndexJobs
    BY <2>1, TimesAreNumbers DEF IndexJobs
  <2>3. QED
    BY <1>2, <1>8, <2>2 DEF Throttled
<1>9. QED
  BY <1>4, <1>5, <1>6, <1>7, <1>8 DEF BeginIndex, IndexSteps

(* The warmer stores what it fetched, or waits. *)
LEMMA WarmerStep ==
  ASSUME IndexInv, part = "index", Warms, UNCHANGED part
  PROVE  IndexInv'
<1> USE DEF IndexInv, IndexTypeOK, IndexIsAsFreshAsStamped
<1>1. CASE WarmerBegins
  BY <1>1, OutdatedIsNumber DEF WarmerBegins
<1>2. CASE WarmerStores
  <2>1. warmer.age \in 0..LongestBuild
    BY <1>2, OutdatedIsNumber DEF WarmerStores
  <2>2. warmer' = [step |-> "wait", age |-> 0] /\ UNCHANGED job
    BY <1>2 DEF WarmerStores
  <2>3. /\ index' \in [data : 0..Outdated, stored : 0..Outdated]
        /\ index'.data <= index'.stored + LongestBuild
    BY <1>2, <2>1, StoredIndex DEF WarmerStores
  <2>4. QED
    BY <2>2, <2>3, TimesAreNumbers
<1>3. CASE WarmerFails
  BY <1>3, TimesAreNumbers DEF WarmerFails
<1>4. QED
  BY <1>1, <1>2, <1>3 DEF Warms

(* Data and stamp get older together. *)
LEMMA ClockStep ==
  ASSUME IndexInv, part = "index", Tick, UNCHANGED part
  PROVE  IndexInv'
<1> USE DEF IndexInv, IndexTypeOK
<1>1. job' \in [Workers -> IndexJobs]
  <2> SUFFICES ASSUME NEW w \in Workers PROVE job'[w] \in IndexJobs
    BY DEF Tick
  <2>1. CASE Fetching(w)
    <3>1. job[w] \in [step : {"fetch"}, age : 0..LongestBuild] /\ job[w].age < LongestBuild
      BY <2>1 DEF Fetching, At, IndexJobs, Idle, Tick
    <3>2. [job[w] EXCEPT !.age = @ + 1] \in IndexJobs
      BY <3>1, OutdatedIsNumber DEF IndexJobs
    <3>3. QED
      BY <2>1, <3>2 DEF Tick
  <2>2. CASE ~Fetching(w)
    BY <2>2 DEF Tick
  <2>3. QED
    BY <2>1, <2>2
<1>2. /\ warmer' \in [step : {"wait", "fetch"}, age : Nat]
      /\ warmer'.age <= IF warmer'.step = "wait" THEN TTL ELSE LongestBuild
  BY TimesAreNumbers DEF Tick
<1>3. CASE index = NULL
  BY <1>1, <1>2, <1>3 DEF Tick, IndexIsAsFreshAsStamped
<1>4. CASE index # NULL
  <2>1. index' = [data |-> Older(index.data), stored |-> Older(index.stored)]
    BY <1>4 DEF Tick
  <2>2. index.data \in 0..Outdated /\ index.stored \in 0..Outdated
    BY <1>4
  <2>3. Older(index.data) \in 0..Outdated /\ Older(index.stored) \in 0..Outdated
    BY <2>2, OutdatedIsNumber DEF Older
  <2>4. index.data <= index.stored + LongestBuild
    BY <1>4 DEF IndexIsAsFreshAsStamped
  <2>5. Older(index.data) <= Older(index.stored) + LongestBuild
    BY <2>2, <2>4, OutdatedIsNumber DEF Older
  <2>6. QED
    BY <1>1, <1>2, <2>1, <2>3, <2>5 DEF IndexIsAsFreshAsStamped
<1>5. QED
  BY <1>3, <1>4

LEMMA IndexStays == Spec => []IndexInv
<1>1. Init => IndexInv
  BY TimesAreNumbers DEF Init, InitIndex, InitRequests, IndexInv, IndexTypeOK, IndexJobs,
     IndexIsAsFreshAsStamped
<1>2. IndexInv /\ [Next]_vars => IndexInv'
  <2> SUFFICES ASSUME IndexInv, [Next]_vars
               PROVE  IndexInv'
    OBVIOUS
  <2>1. CASE part # "index" /\ UNCHANGED <<part, index, warmer>>
    BY <2>1 DEF IndexInv, IndexTypeOK, IndexIsAsFreshAsStamped
  <2>2. ASSUME NEW w \in Workers, Begin(w) \/ GoOn(w)
        PROVE  IndexInv'
    BY <2>1, <2>2, IndexRequest DEF Begin, GoOn, indexVars
  <2>3. CASE Warm
    BY <2>3, WarmerStep DEF Warm
  <2>4. CASE Clock
    BY <2>4, ClockStep DEF Clock
  <2>5. CASE World
    BY <2>1, <2>5 DEF World, UpOrDown, indexVars, IndexInv, IndexTypeOK, IndexIsAsFreshAsStamped
  <2>6. CASE Restart
    <3>1. CASE part = "index"
      BY <2>6, <3>1, TimesAreNumbers DEF Restart, RestartIndex, DropRequests, IndexInv, IndexTypeOK,
         IndexJobs, IndexIsAsFreshAsStamped
    <3>2. CASE part # "index"
      BY <2>1, <2>6, <3>2 DEF Restart, indexVars
    <3>3. QED
      BY <3>1, <3>2
  <2>7. CASE UNCHANGED vars
    BY <2>7 DEF vars, indexVars, IndexInv, IndexTypeOK, IndexIsAsFreshAsStamped
  <2>8. QED
    BY <2>2, <2>3, <2>4, <2>5, <2>6, <2>7 DEF Next
<1>3. QED
  BY <1>1, <1>2, PTL DEF Spec

(***************************************************************************)
(* An index that cached_index answers as fresh is at most TTL +            *)
(* LongestBuild old, however many fetches race and in whatever order they  *)
(* store, for the age of a fetch is part of the inductive invariant.       *)
(***************************************************************************)
THEOREM IndexAgeIsBounded == Spec => []IndexIsAsFreshAsStamped
<1>1. IndexInv => IndexIsAsFreshAsStamped
  BY DEF IndexInv
<1>2. QED
  BY <1>1, IndexStays, PTL

-----------------------------------------------------------------------------
(* The index has been warmed: it is a fetch older than the warmer's wait. *)
Recent ==
  /\ index # NULL
  /\ index.data <= warmer.age + LongestBuild + (IF warmer.step = "fetch" THEN TTL ELSE 0)

(***************************************************************************)
(* An index that the warmer has stored is never older than a wait and two  *)
(* fetches, whoever else stores one meanwhile, until Defender is down or   *)
(* the process is restarted.  What is left of WarmerKeepsIndexRecent is    *)
(* that the warmer runs.                                                   *)
(***************************************************************************)
THEOREM WarmedIndexStaysRecent ==
  Spec => /\ [](Recent => index.data <= TTL + LongestBuild + LongestBuild)
          /\ [][Recent \/ WarmerStores => Recent' \/ ~up \/ Restart]_vars
<1>1. IndexInv => (Recent => index.data <= TTL + LongestBuild + LongestBuild)
  BY TimesAreNumbers, OutdatedIsNumber DEF IndexInv, IndexTypeOK, Recent
<1>2. IndexInv /\ [Next]_vars => [Recent \/ WarmerStores => Recent' \/ ~up \/ Restart]_vars
  <2> SUFFICES ASSUME IndexInv, [Next]_vars, Recent \/ WarmerStores, up, ~Restart
               PROVE  Recent'
    OBVIOUS
  <2> USE DEF IndexInv, IndexTypeOK
  <2>1. warmer.age \in Nat /\ TTL \in Nat /\ LongestBuild \in Nat
    BY TimesAreNumbers
  <2>2. ASSUME NEW age \in 0..LongestBuild, Store(age)
        PROVE  index' # NULL /\ index'.data = age
    BY <2>1, <2>2, NullIsNoIndex DEF Store
  <2>3. CASE WarmerStores
    <3>1. warmer.age \in 0..LongestBuild
      BY <2>1, <2>3 DEF WarmerStores
    <3>2. index' # NULL /\ index'.data = warmer.age /\ warmer' = [step |-> "wait", age |-> 0]
      BY <2>2, <2>3, <3>1 DEF WarmerStores
    <3>3. QED
      BY <2>1, <3>1, <3>2 DEF Recent
  <2>4. CASE Recent /\ ~WarmerStores
    <3>1. part = "index" /\ index.data \in Nat
      BY <2>4, OutdatedIsNumber DEF Recent
    <3>2. CASE UNCHANGED <<index, warmer>>
      BY <2>4, <3>2 DEF Recent
    <3>3. ASSUME NEW w \in Workers, StoreIndex(w)
          PROVE  Recent'
      <4>1. job[w].age \in 0..LongestBuild
        BY <3>1, <3>3 DEF StoreIndex, Fetching, At, IndexJobs, Idle
      <4>2. index' # NULL /\ index'.data = job[w].age /\ UNCHANGED warmer
        BY <2>2, <3>3, <4>1 DEF StoreIndex
      <4>3. QED
        BY <2>1, <4>1, <4>2 DEF Recent
    <3>4. CASE WarmerBegins
      BY <2>1, <2>4, <3>1, <3>4 DEF WarmerBegins, Recent
    <3>5. CASE Tick
      <4>1. index' = [data |-> Older(index.data), stored |-> Older(index.stored)]
        BY <2>4, <3>5 DEF Tick, Recent
      <4>2. Older(index.data) \in Nat /\ Older(index.data) <= index.data + 1
        BY <3>1 DEF Older
      <4>3. index' # NULL
        <5>1. Older(index.stored) \in Nat
          BY <2>4, OutdatedIsNumber DEF Recent, Older
        <5>2. QED
          BY <4>1, <4>2, <5>1, NullIsNoIndex
      <4>4. warmer'.age = warmer.age + 1 /\ warmer'.step = warmer.step
        BY <3>5 DEF Tick
      <4>5. QED
        BY <2>1, <2>4, <3>1, <4>1, <4>2, <4>3, <4>4 DEF Recent
    <3>6. ASSUME NEW w \in Workers, Begin(w) \/ GoOn(w)
          PROVE  Recent'
      BY <3>1, <3>2, <3>3, <3>6
         DEF Begin, GoOn, BeginIndex, BeginFetch, BeginMerakiGet, IndexSteps, FetchFails, Throttled,
             MerakiAnswers, indexVars
    <3>7. CASE Warm \/ Clock \/ World \/ UNCHANGED vars
      BY <2>4, <3>1, <3>2, <3>4, <3>5, <3>7
         DEF Warm, Warms, WarmerFails, Clock, World, UpOrDown, vars, indexVars
    <3>8. QED
      BY <2>4, <3>6, <3>7 DEF Next
  <2>5. QED
    BY <2>3, <2>4
<1>3. QED
  BY <1>1, <1>2, IndexStays, PTL DEF Spec

-----------------------------------------------------------------------------
(* The start-up: what each of its steps finds done. *)
BootTypeOK ==
  /\ boot \in {"seed", "legacy", "flip", "hide", "park", "up"}
  /\ part \notin {"sites", "boot"} => boot = "up"
  /\ where \in [Assets -> Codes \cup {Nowhere}]
  /\ status \in [Assets -> Legacy \cup {"active"}]
  /\ offered \subseteq Legacy

BootInv ==
  /\ BootTypeOK
  /\ boot = "flip" => Unplaced \cap OfStatus({"in_warehouse"}) = {}
  /\ boot \in {"hide", "park"} => OfStatus(Legacy) = {}
  /\ boot = "park" => offered = {}

LEMMA BootStep ==
  ASSUME BootInv, Boots, part \in {"sites", "boot"}, UNCHANGED part
  PROVE  BootInv'
<1> USE CodesDiffer DEF BootInv, BootTypeOK, Codes, Unplaced, OfStatus, Legacy, Park
<1>1. CASE SeedLocations
  BY <1>1 DEF SeedLocations
<1>2. CASE LocateLegacy
  <2>1. where' \in [Assets -> Codes \cup {Nowhere}]
    BY <1>2 DEF LocateLegacy
  <2>2. \A a \in Assets : status[a] = "in_warehouse" => where'[a] # Nowhere
    BY <1>2 DEF LocateLegacy
  <2>3. QED
    BY <1>2, <2>1, <2>2 DEF LocateLegacy
<1>3. CASE FlipLegacy
  BY <1>3 DEF FlipLegacy
<1>4. CASE HideLegacy
  BY <1>4 DEF HideLegacy
<1>5. CASE ParkStock
  <2>1. where' \in [Assets -> Codes \cup {Nowhere}]
    BY <1>5 DEF ParkStock
  <2>2. QED
    BY <1>5, <2>1 DEF ParkStock
<1>6. QED
  BY <1>1, <1>2, <1>3, <1>4, <1>5 DEF Boots

(* Requests and users work once the server is up. *)
LEMMA BootOthers ==
  ASSUME BootInv, [Next]_vars, ~Boots
  PROVE  BootInv'
<1> USE DEF BootInv, BootTypeOK
<1>1. CASE UNCHANGED <<part, boot, where, stock, status, archived, offered>>
  BY <1>1 DEF Unplaced, OfStatus
<1>2. ASSUME NEW w \in Workers, Begin(w) \/ GoOn(w)
      PROVE  UNCHANGED <<part, boot, where, stock, status, archived, offered>>
  BY <1>2 DEF Begin, GoOn, placeVars, BeginLocationSync, BeginDeletePlace, PlaceSteps, ReadPlace, ReadStale,
     MirrorPlaces, DeletePlace
<1>3. CASE Warm \/ Clock \/ UNCHANGED vars
  BY <1>1, <1>3 DEF Warm, Clock, vars, placeVars
<1>4. CASE World
  <2>1. CASE part \in {"index", "users"}
    BY <1>1, <1>4, <2>1 DEF World, placeVars
  <2>2. CASE part = "boot" /\ UserChangesAsset /\ UNCHANGED part
    <3>1. boot = "up" /\ boot' = "up" /\ where' = where
      BY <2>2 DEF UserChangesAsset, OfferStatus, SetStatus, AssignOrReturn, ArchiveAsset
    <3>2. offered' \subseteq Legacy
      BY <2>2 DEF UserChangesAsset, OfferStatus, SetStatus, AssignOrReturn, ArchiveAsset
    <3>3. status' \in [Assets -> Legacy \cup {"active"}]
      BY <2>2 DEF UserChangesAsset, OfferStatus, SetStatus, AssignOrReturn, ArchiveAsset
    <3>4. QED
      BY <2>2, <3>1, <3>2, <3>3
  <2>3. CASE part \in {"sites", "boot"} /\ UserPlaces /\ UNCHANGED part
    <3>1. /\ boot = "up" /\ boot' = "up"
          /\ UNCHANGED <<status, offered>>
      BY <2>3 DEF UserPlaces, OpenOrClosePlace, MoveAsset
    <3>2. where' \in [Assets -> Codes \cup {Nowhere}]
      BY <2>3 DEF UserPlaces, OpenOrClosePlace, MoveAsset
    <3>3. QED
      BY <2>3, <3>1, <3>2
  <2>4. QED
    BY <1>4, <2>1, <2>2, <2>3 DEF World
<1>5. CASE Restart
  <2>1. CASE part \in {"sites", "boot"}
    BY <1>5, <2>1 DEF Restart, RestartPlaces
  <2>2. CASE part \notin {"sites", "boot"}
    BY <1>1, <1>5, <2>2 DEF Restart, placeVars
  <2>3. QED
    BY <2>1, <2>2
<1>6. QED
  BY <1>1, <1>2, <1>3, <1>4, <1>5 DEF Next

(* While the server is not up, only the start-up changes a status or ends it. *)
LEMMA BootsAlone ==
  ASSUME BootInv, [Next]_vars, boot # "up", ~Boots
  PROVE  UNCHANGED status /\ boot' # "up"
<1>1. ASSUME NEW w \in Workers, Begin(w) \/ GoOn(w)
      PROVE  UNCHANGED <<boot, status>>
  BY <1>1 DEF Begin, GoOn, placeVars, BeginLocationSync, BeginDeletePlace, PlaceSteps, ReadPlace, ReadStale,
     MirrorPlaces, DeletePlace
<1>2. CASE Warm \/ Clock \/ UNCHANGED vars
  BY <1>2 DEF Warm, Clock, vars, placeVars
<1>3. CASE World
  BY <1>3 DEF World, placeVars, UserChangesAsset, UserPlaces
<1>4. CASE Restart
  BY <1>4 DEF Restart, RestartPlaces, placeVars
<1>5. QED
  BY <1>1, <1>2, <1>3, <1>4 DEF Next

(***************************************************************************)
(* The start-up migrates whatever it finds, for any assets, restarts and   *)
(* user changes, because each statement finds the condition that the one   *)
(* before established: nobody else writes while the server is not up.      *)
(***************************************************************************)
THEOREM StartUpMigratesAll == Spec => BootLeavesNoLegacy
<1> DEFINE Goal ==
      /\ boot # "up" /\ boot' = "up" =>
           OfStatus(Legacy)' = {} /\ offered' = {} /\ ((Unplaced \cap stock) \ archived)' = {}
      /\ boot # "up" =>
           \A a \in Assets : status[a] = "in_warehouse" /\ status'[a] = "active"
             => where'[a] # Nowhere
<1>1. Init => BootInv
  BY DEF Init, InitPlaces, AtRest, BootInv, BootTypeOK
<1>2. BootInv /\ [Next]_vars => BootInv'
  <2> SUFFICES ASSUME BootInv, [Next]_vars, Boots
               PROVE  BootInv'
    BY BootOthers
  <2>1. UNCHANGED part
    BY DEF Next, Begin, GoOn, Warm, Clock, World, Restart, vars
  <2>2. part \in {"sites", "boot"}
    BY DEF BootInv, BootTypeOK, Boots, SeedLocations, LocateLegacy, FlipLegacy, HideLegacy, ParkStock
  <2>3. QED
    BY <2>1, <2>2, BootStep
<1>3. BootInv /\ [Next]_vars => [Goal]_vars
  <2> SUFFICES ASSUME BootInv, [Next]_vars
               PROVE  Goal
    OBVIOUS
  <2>1. CASE boot = "up"
    BY <2>1
  <2>2. CASE boot # "up" /\ ~Boots
    BY <2>2, BootsAlone
  <2>3. CASE boot # "up" /\ Boots
    <3>1. CASE ParkStock
      <4>1. boot = "park" /\ UNCHANGED <<status, offered, stock, archived>>
        BY <3>1 DEF ParkStock
      <4>2. OfStatus(Legacy)' = {} /\ offered' = {}
        BY <4>1 DEF BootInv, OfStatus
      <4>3. ((Unplaced \cap stock) \ archived)' = {}
        BY <3>1, <4>1, CodesDiffer DEF ParkStock, Park, Unplaced
      <4>4. QED
        BY <4>1, <4>2, <4>3
    <3>2. CASE FlipLegacy
      BY <3>2 DEF FlipLegacy, BootInv, Unplaced, OfStatus
    <3>3. CASE SeedLocations \/ LocateLegacy \/ HideLegacy
      BY <3>3 DEF SeedLocations, LocateLegacy, HideLegacy
    <3>4. QED
      BY <2>3, <3>1, <3>2, <3>3 DEF Boots
  <2>4. QED
    BY <2>1, <2>2, <2>3
<1>4. QED
  BY <1>1, <1>2, <1>3, PTL DEF Spec, BootLeavesNoLegacy

-----------------------------------------------------------------------------
(* A worker that is alone is the only one serving a request. *)
LoneInv ==
  /\ DOMAIN job = Workers
  /\ alone \in [Workers -> BOOLEAN]
  /\ \A w \in Workers : alone[w] /\ ~At(w, "idle") => \A v \in Workers \ {w} : At(v, "idle")

(* While w serves a request, nobody else begins one. *)
LEMMA LoneAfter ==
  ASSUME LoneInv, NEW w \in Workers, ~At(w, "idle"), UNCHANGED alone, DOMAIN job' = Workers,
         \A v \in Workers \ {w} : At(v, "idle") => At(v, "idle")'
  PROVE  LoneInv'
<1>1. \A v \in Workers : alone[v] /\ v # w => At(v, "idle")
  BY DEF LoneInv
<1>2. ASSUME NEW u \in Workers, alone'[u], ~At(u, "idle")'
      PROVE  \A v \in Workers \ {u} : At(v, "idle")'
  <2>1. u = w /\ alone[w]
    BY <1>1, <1>2
  <2>2. \A v \in Workers \ {w} : At(v, "idle")
    BY <2>1 DEF LoneInv
  <2>3. QED
    BY <2>1, <2>2
<1>3. QED
  BY <1>2 DEF LoneInv

(* A request begins, or one in progress goes on or is answered. *)
LEMMA LoneRequestStep ==
  ASSUME LoneInv, NEW w \in Workers, NEW rest,
         Serve(w, rest) \/ (Continue(w, rest) /\ ~At(w, "idle"))
  PROVE  LoneInv'
<1>1. job' = [job EXCEPT ![w] = rest]
  BY DEF Serve, Continue
<1>2. \A v \in Workers \ {w} : job'[v] = job[v]
  BY <1>1 DEF LoneInv
<1>3. CASE Serve(w, rest)
  <2>1. alone' = [v \in Workers |-> v = w /\ \A u \in Workers \ {w} : At(u, "idle")]
    BY <1>3 DEF Serve
  <2>2. \A v \in Workers : alone'[v] => v = w /\ \A u \in Workers \ {w} : At(u, "idle")
    BY <2>1
  <2>3. alone' \in [Workers -> BOOLEAN]
    BY <2>1
  <2>4. QED
    BY <1>1, <1>2, <2>2, <2>3 DEF LoneInv, At
<1>4. CASE Continue(w, rest) /\ ~At(w, "idle")
  <2>1. UNCHANGED alone /\ DOMAIN job' = Workers
    BY <1>1, <1>4 DEF Continue, LoneInv
  <2>2. QED
    BY <1>2, <1>4, <2>1, LoneAfter DEF At
<1>5. QED
  BY <1>3, <1>4

LEMMA LoneElsewhere ==
  ASSUME LoneInv, Overtakes \/ DropRequests \/ UNCHANGED <<job, alone>>
  PROVE  LoneInv'
<1>1. CASE Overtakes
  BY <1>1 DEF LoneInv, Overtakes
<1>2. CASE DropRequests
  BY <1>2 DEF LoneInv, DropRequests, At, Idle
<1>3. CASE UNCHANGED <<job, alone>>
  BY <1>3 DEF LoneInv, At
<1>4. QED
  BY <1>1, <1>2, <1>3

(* Steps that touch all the jobs: they serve and answer nobody else. *)
LEMMA LoneAllJobs ==
  ASSUME LoneInv, DOMAIN job' = Workers, UNCHANGED alone,
         \A v \in Workers : At(v, "idle")' <=> At(v, "idle")
  PROVE  LoneInv'
BY DEF LoneInv

LEMMA LoneBegins ==
  ASSUME LoneInv, NEW w \in Workers, Begin(w)
  PROVE  LoneInv'
BY LoneRequestStep DEF Begin, BeginIndex, BeginFetch, BeginMerakiGet, BeginUserSync, BeginLocationSync,
   BeginDeletePlace

LEMMA LoneGoesOn ==
  ASSUME LoneInv, NEW w \in Workers, GoOn(w)
  PROVE  LoneInv'
<1>1. CASE \E rest : Continue(w, rest) /\ ~At(w, "idle")
  BY <1>1, LoneRequestStep
<1>2. CASE StoreIndex(w) \/ FetchFails(w) \/ Throttled(w) \/ MerakiAnswers(w)
  BY <1>1, <1>2 DEF StoreIndex, FetchFails, Throttled, MerakiAnswers, Answer, Fetching, At
<1>3. CASE ReadUsers(w) \/ UpsertUsers(w)
  BY <1>1, <1>3 DEF ReadUsers, UpsertUsers, Answer, At
<1>4. CASE ReadPlace(w) \/ ReadStale(w) \/ MirrorPlaces(w)
  BY <1>1, <1>4 DEF ReadPlace, ReadStale, MirrorPlaces, Answer, At
<1>5. CASE DeletePlace(w)
  <2>1. ~At(w, "idle")
    BY <1>5 DEF DeletePlace, At
  <2>2. CASE Answer(w)
    BY <1>1, <2>1, <2>2 DEF Answer
  <2>3. CASE ~Answer(w)
    <3>1. \A v \in Workers \ {w} : At(v, "idle") => job'[v] = job[v]
      BY <1>5, <2>3 DEF DeletePlace, Loaded, At
    <3>2. DOMAIN job' = Workers /\ UNCHANGED alone /\ job'[w] = Idle
      BY <1>5, <2>3 DEF DeletePlace
    <3>3. \A v \in Workers \ {w} : At(v, "idle") => At(v, "idle")'
      BY <3>1 DEF At
    <3>4. QED
      BY <2>1, <3>2, <3>3, LoneAfter
  <2>4. QED
    BY <2>2, <2>3
<1>6. QED
  BY <1>2, <1>3, <1>4, <1>5 DEF GoOn, IndexSteps, UserSteps, PlaceSteps

LEMMA LoneStays == Spec => []LoneInv
<1>1. Init => LoneInv
  BY DEF Init, InitRequests, LoneInv
<1>2. LoneInv /\ [Next]_vars => LoneInv'
  <2> SUFFICES ASSUME LoneInv, [Next]_vars
               PROVE  LoneInv'
    OBVIOUS
  <2>1. CASE \E w \in Workers : Begin(w) \/ GoOn(w)
    BY <2>1, LoneBegins, LoneGoesOn
  <2>2. CASE Warm
    BY <2>2, LoneElsewhere DEF Warm, Warms, WarmerBegins, WarmerStores, WarmerFails
  <2>3. CASE Clock
    <3>1. DOMAIN job' = Workers /\ UNCHANGED alone
      BY <2>3 DEF Clock, Tick
    <3>2. ASSUME NEW v \in Workers
          PROVE  At(v, "idle")' <=> At(v, "idle")
      <4>1. CASE Fetching(v)
        <5>1. job'[v] = [job[v] EXCEPT !.age = @ + 1]
          BY <2>3, <4>1 DEF Clock, Tick
        <5>2. job'[v].step = job[v].step
          BY <4>1, <5>1 DEF Fetching, At
        <5>3. QED
          BY <5>2 DEF At
      <4>2. CASE ~Fetching(v)
        BY <2>3, <4>2 DEF Clock, Tick, At
      <4>3. QED
        BY <4>1, <4>2
    <3>3. QED
      BY <3>1, <3>2, LoneAllJobs
  <2>4. CASE World
    BY <2>4, LoneElsewhere DEF World, UpOrDown, EntraChanges, UserChangesAsset, UserPlaces, Boots,
       SeedLocations, LocateLegacy, FlipLegacy, HideLegacy, ParkStock
  <2>5. CASE Restart
    BY <2>5, LoneElsewhere DEF Restart
  <2>6. CASE UNCHANGED vars
    BY <2>6, LoneElsewhere DEF vars
  <2>7. QED
    BY <2>1, <2>2, <2>3, <2>4, <2>5, <2>6 DEF Next
<1>3. QED
  BY <1>1, <1>2, PTL DEF Spec

-----------------------------------------------------------------------------
(* The requests of a part are at steps of that part. *)
StepsOf ==
  CASE part = "index" -> {"idle", "fetch", "meraki"}
    [] part = "users" -> {"idle", "rows", "upsert"}
    [] part \in {"sites", "boot"} -> {"idle", "places", "mirror", "delete"}

PartInv ==
  /\ part \in {"index", "users", "sites", "boot"}
  /\ \A w \in Workers : job[w].step \in StepsOf

LEMMA StepAfter ==
  ASSUME PartInv, LoneInv, UNCHANGED part, NEW w \in Workers, NEW rest, rest.step \in StepsOf,
         Serve(w, rest) \/ Continue(w, rest)
  PROVE  PartInv'
<1>1. \A v \in Workers : job'[v] = IF v = w THEN rest ELSE job[v]
  BY DEF Serve, Continue, LoneInv
<1>2. StepsOf' = StepsOf
  BY DEF StepsOf
<1>3. QED
  BY <1>1, <1>2 DEF PartInv

(* A sync reads on, or has read all. *)
LEMMA ReadingGoesOn ==
  ASSUME NEW w \in Workers, ReadPlace(w) \/ ReadStale(w)
  PROVE  \E rest : Continue(w, rest) /\ rest.step \in {"places", "mirror"}
<1>1. CASE ReadPlace(w)
  <2>1. PICK c \in job[w].todo :
          \E found \in {place[c], "unread"} :
             Continue(w, [job[w] EXCEPT !.todo = @ \ {c}, !.had[c] = found])
    BY <1>1 DEF ReadPlace
  <2>2. PICK rest, found : /\ rest = [job[w] EXCEPT !.todo = @ \ {c}, !.had[c] = found]
                          /\ Continue(w, rest)
    BY <2>1
  <2>3. rest.step = job[w].step
    BY <2>2
  <2>4. QED
    BY <1>1, <2>1, <2>2, <2>3 DEF ReadPlace, At
<1>2. CASE ReadStale(w)
  <2>1. PICK had : had = [c \in Codes |-> IF c \in job[w].seen \/ job[w].seen = {}
                                          THEN job[w].had[c] ELSE place[c]]
    OBVIOUS
  <2>2. PICK rest : rest = [job[w] EXCEPT !.step = "mirror", !.had = had]
    OBVIOUS
  <2>3. Continue(w, rest)
    BY <1>2, <2>1, <2>2 DEF ReadStale
  <2>4. rest.step = "mirror"
    BY <1>2, <2>2 DEF ReadStale, At
  <2>5. QED
    BY <2>3, <2>4
<1>3. QED
  BY <1>1, <1>2

LEMMA PartRequests ==
  ASSUME PartInv, LoneInv, NEW w \in Workers, Begin(w) \/ GoOn(w)
  PROVE  PartInv'
<1>1. UNCHANGED part
  BY DEF Begin, GoOn
<1>2. "idle" \in StepsOf /\ Idle.step = "idle"
  BY DEF StepsOf, PartInv, Idle
<1>3. CASE Answer(w)
  BY <1>1, <1>2, <1>3, StepAfter DEF Answer
<1>4. CASE part = "index"
  <2>1. {"fetch", "meraki"} \subseteq StepsOf
    BY <1>4 DEF StepsOf
  <2>2. CASE BeginFetch(w) \/ BeginMerakiGet(w)
    BY <1>1, <2>1, <2>2, StepAfter DEF BeginFetch, BeginMerakiGet
  <2>3. CASE Throttled(w)
    <3>1. [job[w] EXCEPT !.attempt = @ + 1].step \in StepsOf
      BY <2>1, <2>3 DEF Throttled, At
    <3>2. QED
      BY <1>1, <2>3, <3>1, StepAfter DEF Throttled
  <2>4. CASE StoreIndex(w) \/ FetchFails(w) \/ MerakiAnswers(w)
    BY <1>3, <2>4 DEF StoreIndex, FetchFails, MerakiAnswers
  <2>5. QED
    BY <1>4, <2>2, <2>3, <2>4 DEF Begin, GoOn, BeginIndex, IndexSteps
<1>5. CASE part = "users"
  <2>1. {"rows", "upsert"} \subseteq StepsOf
    BY <1>5 DEF StepsOf
  <2>2. CASE BeginUserSync(w)
    BY <1>1, <2>1, <2>2, StepAfter DEF BeginUserSync
  <2>3. CASE ReadUsers(w)
    BY <1>1, <2>1, <2>3, StepAfter DEF ReadUsers
  <2>4. CASE UpsertUsers(w)
    BY <1>3, <2>4 DEF UpsertUsers
  <2>5. QED
    BY <1>5, <2>2, <2>3, <2>4 DEF Begin, GoOn, UserSteps
<1>6. CASE part \in {"sites", "boot"}
  <2>1. {"places", "mirror", "delete"} \subseteq StepsOf
    BY <1>6 DEF StepsOf
  <2>2. CASE BeginLocationSync(w) \/ \E c \in Codes : BeginDeletePlace(w, c)
    <3>1. \A seen, twice, had : [step |-> "places", seen |-> seen, twice |-> twice, todo |-> seen,
                                 had |-> had, lost |-> {}].step \in StepsOf
      BY <2>1
    <3>2. \A c : [step |-> "delete", code |-> c, lost |-> {}].step \in StepsOf
      BY <2>1
    <3>3. QED
      BY <1>1, <2>2, <3>1, <3>2, StepAfter DEF BeginLocationSync, BeginDeletePlace
  <2>3. CASE ReadPlace(w) \/ ReadStale(w)
    <3>1. PICK rest : Continue(w, rest) /\ rest.step \in {"places", "mirror"}
      BY <2>3, ReadingGoesOn
    <3>2. QED
      BY <1>1, <2>1, <3>1, StepAfter
  <2>4. CASE MirrorPlaces(w)
    BY <1>3, <2>4 DEF MirrorPlaces
  <2>5. CASE DeletePlace(w) /\ ~Answer(w)
    <3>1. ASSUME NEW v \in Workers
          PROVE  job'[v].step \in {"idle", job[v].step}
      <4>1. CASE v = w \/ ~Loaded(v, job[w].code)
        BY <1>2, <2>5, <4>1 DEF DeletePlace
      <4>2. CASE v # w /\ Loaded(v, job[w].code)
        <5>1. job'[v] = [job[v] EXCEPT !.lost = @ \cup {job[w].code}]
          BY <2>5, <4>2 DEF DeletePlace
        <5>2. QED
          BY <4>2, <5>1 DEF Loaded, At
      <4>3. QED
        BY <4>1, <4>2
    <3>2. StepsOf' = StepsOf
      BY <1>1 DEF StepsOf
    <3>3. QED
      BY <1>1, <1>2, <3>1, <3>2 DEF PartInv
  <2>6. QED
    BY <1>3, <1>6, <2>2, <2>3, <2>4, <2>5 DEF Begin, GoOn, PlaceSteps
<1>7. QED
  BY <1>4, <1>5, <1>6 DEF PartInv

LEMMA StepsStay == Spec => []PartInv
<1>1. Init => PartInv
  BY DEF Init, InitRequests, PartInv, StepsOf, Idle
<1>2. PartInv /\ LoneInv /\ [Next]_vars => PartInv'
  <2> SUFFICES ASSUME PartInv, LoneInv, [Next]_vars
               PROVE  PartInv'
    OBVIOUS
  <2>1. CASE \E w \in Workers : Begin(w) \/ GoOn(w)
    BY <2>1, PartRequests
  <2>2. CASE UNCHANGED <<part, job>>
    BY <2>2 DEF PartInv, StepsOf
  <2>3. CASE Warm \/ World \/ UNCHANGED vars
    BY <2>2, <2>3 DEF Warm, Warms, WarmerBegins, WarmerStores, WarmerFails, World, UpOrDown, EntraChanges,
       UserChangesAsset, UserPlaces, Overtakes, Boots, SeedLocations, LocateLegacy, FlipLegacy, HideLegacy,
       ParkStock, vars
  <2>4. CASE Clock
    <3>1. ASSUME NEW v \in Workers
          PROVE  job'[v].step = job[v].step
      <4>1. CASE Fetching(v)
        <5>1. job'[v] = [job[v] EXCEPT !.age = @ + 1]
          BY <2>4, <4>1 DEF Clock, Tick
        <5>2. QED
          BY <4>1, <5>1 DEF Fetching, At
      <4>2. CASE ~Fetching(v)
        BY <2>4, <4>2 DEF Clock, Tick
      <4>3. QED
        BY <4>1, <4>2
    <3>2. UNCHANGED part
      BY <2>4 DEF Clock
    <3>3. QED
      BY <3>1, <3>2 DEF PartInv, StepsOf
  <2>5. CASE Restart
    BY <2>5 DEF Restart, DropRequests, PartInv, StepsOf, Idle
  <2>6. QED
    BY <2>1, <2>3, <2>4, <2>5 DEF Next
<1>3. QED
  BY <1>1, <1>2, LoneStays, PTL DEF Spec

-----------------------------------------------------------------------------
(***************************************************************************)
(* What a sync of the locations holds: rows as they are, if nobody has     *)
(* overlapped it, but for those that failed.  Nobody is served while       *)
(* booting.                                                                *)
(***************************************************************************)
States == {"none", "active", "inactive"}

SiteJobs ==
  {Idle} \cup [step : {"places", "mirror"}, seen : SUBSET Sites, twice : SUBSET Sites,
               todo : SUBSET Sites, had : [Codes -> States \cup {"unread"}], lost : SUBSET Codes]
         \cup [step : {"delete"}, code : Codes, lost : SUBSET Codes]

Busy(w) == At(w, "places") \/ At(w, "mirror")

HeldIsCurrent(w) ==
  /\ job[w].lost = {}
  /\ \A c \in Codes : job[w].had[c] \in {"unread", place[c]}
  /\ At(w, "mirror") /\ job[w].seen # {} => \A c \in Codes \ job[w].seen : job[w].had[c] = place[c]

SitesInv ==
  /\ place \in [Codes -> States]
  /\ boot # "up" => part \in {"sites", "boot"} /\ \A w \in Workers : At(w, "idle")
  /\ part \in {"sites", "boot"} => job \in [Workers -> SiteJobs]
  /\ \A w \in Workers : Busy(w) /\ alone[w] => HeldIsCurrent(w)

(* A step of another part, or one that leaves the locations alone. *)
LEMMA SitesElsewhere ==
  ASSUME SitesInv, UNCHANGED <<part, boot, place>>, boot = "up",
         part \in {"sites", "boot"} => UNCHANGED job,
         \A v \in Workers : Busy(v)' => job'[v] = job[v] /\ (alone'[v] => alone[v])
  PROVE  SitesInv'
BY DEF SitesInv, HeldIsCurrent, Busy, At

(* The locations change, and whoever else is syncing them has been overlapped. *)
LEMMA SitesOverlapped ==
  ASSUME SitesInv, UNCHANGED <<part, boot>>, boot = "up", place' \in [Codes -> States],
         part \in {"sites", "boot"} => job' \in [Workers -> SiteJobs],
         \A v \in Workers : Busy(v)' => ~alone'[v]
  PROVE  SitesInv'
BY DEF SitesInv

(* One request begins, or reads on. *)
LEMMA SitesOneJob ==
  ASSUME SitesInv, LoneInv, NEW w \in Workers, NEW rest \in SiteJobs,
         job' = [job EXCEPT ![w] = rest], UNCHANGED <<part, boot, place>>, boot = "up",
         part \in {"sites", "boot"},
         \A v \in Workers : v # w /\ alone'[v] => alone[v],
         Busy(w)' /\ alone'[w] => HeldIsCurrent(w)'
  PROVE  SitesInv'
<1>1. job' \in [Workers -> SiteJobs] /\ \A v \in Workers \ {w} : job'[v] = job[v]
  BY DEF SitesInv
<1>2. ASSUME NEW v \in Workers, v # w, Busy(v)', alone'[v]
      PROVE  HeldIsCurrent(v)'
  <2>1. Busy(v) /\ alone[v] /\ job'[v] = job[v]
    BY <1>1, <1>2 DEF Busy, At
  <2>2. HeldIsCurrent(v)
    BY <2>1 DEF SitesInv
  <2>3. QED
    BY <2>1, <2>2 DEF HeldIsCurrent, At
<1>3. QED
  BY <1>1, <1>2 DEF SitesInv

LEMMA SitesBegin ==
  ASSUME SitesInv, LoneInv, NEW w \in Workers, Begin(w), part \in {"sites", "boot"}
  PROVE  SitesInv'
<1>1. ASSUME NEW rest \in SiteJobs, Serve(w, rest), UNCHANGED placeVars, UNCHANGED part, boot = "up",
             rest.step # "delete" => /\ rest.step = "places" /\ rest.lost = {}
                                     /\ \A c \in Codes : rest.had[c] = "unread"
      PROVE  SitesInv'
  <2>1. job' = [job EXCEPT ![w] = rest] /\ job'[w] = rest
    BY <1>1 DEF Serve, LoneInv
  <2>2. \A v \in Workers : v # w => alone'[v] = FALSE
    BY <1>1 DEF Serve
  <2>3. Busy(w)' => HeldIsCurrent(w)'
    BY <1>1, <2>1 DEF Busy, At, HeldIsCurrent
  <2>4. QED
    BY <1>1, <2>1, <2>2, <2>3, SitesOneJob DEF placeVars
<1>2. CASE BeginLocationSync(w)
  <2>1. PICK seen \in SUBSET Sites, twice \in SUBSET Sites :
          Serve(w, [step |-> "places", seen |-> seen, twice |-> twice, todo |-> seen,
                    had |-> [c \in Codes |-> "unread"], lost |-> {}])
    BY <1>2 DEF BeginLocationSync
  <2>2. PICK rest : rest = [step |-> "places", seen |-> seen, twice |-> twice, todo |-> seen,
                            had |-> [c \in Codes |-> "unread"], lost |-> {}]
    OBVIOUS
  <2>3. /\ rest.step = "places" /\ rest.lost = {}
        /\ \A c \in Codes : rest.had[c] = "unread"
    BY <2>2
  <2>4. rest \in SiteJobs
    BY <2>2 DEF SiteJobs
  <2>5. QED
    BY <1>1, <1>2, <2>1, <2>2, <2>3, <2>4 DEF BeginLocationSync, Begin
<1>3. ASSUME NEW c \in Codes, BeginDeletePlace(w, c)
      PROVE  SitesInv'
  <2>1. PICK rest : rest = [step |-> "delete", code |-> c, lost |-> {}]
    OBVIOUS
  <2>2. rest \in SiteJobs /\ rest.step = "delete"
    BY <2>1 DEF SiteJobs
  <2>3. QED
    BY <1>1, <1>3, <2>1, <2>2 DEF BeginDeletePlace, Begin
<1>4. QED
  BY <1>2, <1>3 DEF Begin

(* What a sync holds after a row, or after the stale rows. *)
LEMMA ReadPlaceHolds ==
  ASSUME SitesInv, LoneInv, NEW w \in Workers, ReadPlace(w), part \in {"sites", "boot"}
  PROVE  \E rest \in SiteJobs :
           /\ Continue(w, rest) /\ rest.step = "places"
           /\ \E c \in job[w].todo : rest.todo = job[w].todo \ {c}
           /\ alone[w] => /\ rest.lost = {}
                          /\ \A c \in Codes : rest.had[c] \in {"unread", place[c]}
<1>1. PICK c \in job[w].todo :
        \E found \in {place[c], "unread"} :
          Continue(w, [job[w] EXCEPT !.todo = @ \ {c}, !.had[c] = found])
  BY DEF ReadPlace
<1>2. PICK j : j = job[w]
  OBVIOUS
<1>3. j \in SiteJobs /\ j.step = "places"
  BY <1>2 DEF ReadPlace, At, SitesInv
<1>4. j \in [step : {"places", "mirror"}, seen : SUBSET Sites, twice : SUBSET Sites,
             todo : SUBSET Sites, had : [Codes -> States \cup {"unread"}], lost : SUBSET Codes]
  BY <1>3 DEF SiteJobs, Idle
<1>5. c \in Codes /\ place[c] \in States
  BY <1>1, <1>2, <1>4 DEF Codes, SitesInv
<1>6. PICK rest, found : /\ found \in {place[c], "unread"}
                         /\ rest = [j EXCEPT !.todo = @ \ {c}, !.had[c] = found]
                         /\ Continue(w, rest)
  BY <1>1, <1>2
<1>7. /\ rest \in SiteJobs /\ rest.step = "places" /\ rest.todo = j.todo \ {c} /\ rest.lost = j.lost
      /\ rest.had = [j.had EXCEPT ![c] = found]
  BY <1>3, <1>4, <1>5, <1>6 DEF SiteJobs
<1>8. \A d \in Codes : rest.had[d] = IF d = c THEN found ELSE j.had[d]
  BY <1>4, <1>5, <1>7
<1>9. alone[w] => j.lost = {} /\ \A d \in Codes : j.had[d] \in {"unread", place[d]}
  BY <1>2 DEF ReadPlace, Busy, SitesInv, HeldIsCurrent
<1>10. \E d \in job[w].todo : rest.todo = job[w].todo \ {d}
  BY <1>2, <1>7
<1>11. alone[w] => rest.lost = {} /\ \A d \in Codes : rest.had[d] \in {"unread", place[d]}
  BY <1>6, <1>7, <1>8, <1>9
<1>12. rest \in SiteJobs /\ Continue(w, rest) /\ rest.step = "places"
  BY <1>6, <1>7
<1>13. QED
  BY <1>10, <1>11, <1>12

LEMMA ReadStaleHolds ==
  ASSUME SitesInv, LoneInv, NEW w \in Workers, ReadStale(w), part \in {"sites", "boot"}
  PROVE  \E rest \in SiteJobs :
           /\ Continue(w, rest) /\ rest.step = "mirror"
           /\ alone[w] => /\ rest.lost = {}
                          /\ \A c \in Codes : rest.had[c] \in {"unread", place[c]}
                          /\ rest.seen # {} => \A c \in Codes \ rest.seen : rest.had[c] = place[c]
<1>1. PICK j : j = job[w]
  OBVIOUS
<1>2. j \in SiteJobs /\ j.step = "places"
  BY <1>1 DEF ReadStale, At, SitesInv
<1>3. j \in [step : {"places", "mirror"}, seen : SUBSET Sites, twice : SUBSET Sites,
             todo : SUBSET Sites, had : [Codes -> States \cup {"unread"}], lost : SUBSET Codes]
  BY <1>2 DEF SiteJobs, Idle
<1>4. PICK had : had = [c \in Codes |-> IF c \in j.seen \/ j.seen = {} THEN j.had[c] ELSE place[c]]
  OBVIOUS
<1>5. had \in [Codes -> States \cup {"unread"}]
  BY <1>3, <1>4 DEF SitesInv
<1>6. PICK rest : rest = [j EXCEPT !.step = "mirror", !.had = had]
  OBVIOUS
<1>7. rest \in SiteJobs /\ rest.step = "mirror" /\ rest.lost = j.lost /\ rest.seen = j.seen /\ rest.had = had
  BY <1>3, <1>5, <1>6 DEF SiteJobs
<1>8. Continue(w, rest)
  BY <1>1, <1>4, <1>6 DEF ReadStale
<1>9. alone[w] => j.lost = {} /\ \A d \in Codes : j.had[d] \in {"unread", place[d]}
  BY <1>1 DEF ReadStale, Busy, SitesInv, HeldIsCurrent
<1>10. QED
  BY <1>4, <1>7, <1>8, <1>9

LEMMA SitesGoOn ==
  ASSUME SitesInv, LoneInv, NEW w \in Workers, GoOn(w), part \in {"sites", "boot"}
  PROVE  SitesInv'
<1>1. UNCHANGED part
  BY DEF GoOn
<1>2. ASSUME NEW rest \in SiteJobs, Continue(w, rest), ~At(w, "idle"), UNCHANGED placeVars,
             alone[w] => /\ rest.lost = {}
                         /\ \A c \in Codes : rest.had[c] \in {"unread", place[c]}
                         /\ rest.step = "mirror" /\ rest.seen # {} =>
                              \A c \in Codes \ rest.seen : rest.had[c] = place[c]
      PROVE  SitesInv'
  <2>1. boot = "up" /\ UNCHANGED <<boot, place, alone>>
    BY <1>2 DEF SitesInv, placeVars, Continue
  <2>2. job' = [job EXCEPT ![w] = rest] /\ job'[w] = rest
    BY <1>2 DEF Continue, LoneInv
  <2>3. alone'[w] => HeldIsCurrent(w)'
    BY <1>2, <2>1, <2>2 DEF HeldIsCurrent, At
  <2>4. QED
    BY <1>1, <2>1, <2>2, <2>3, SitesOneJob
<1>3. CASE ReadPlace(w)
  <2>1. ~At(w, "idle") /\ UNCHANGED placeVars
    BY <1>3 DEF ReadPlace, At
  <2>2. QED
    BY <1>2, <1>3, <2>1, ReadPlaceHolds
<1>4. CASE ReadStale(w)
  <2>1. ~At(w, "idle") /\ UNCHANGED placeVars
    BY <1>4 DEF ReadStale, At
  <2>2. QED
    BY <1>2, <1>4, <2>1, ReadStaleHolds
<1>5. ASSUME ~At(w, "idle"), UNCHANGED <<boot, alone>>, job'[w] = Idle,
             place' \in [Codes -> States], job' \in [Workers -> SiteJobs],
             \A v \in Workers : Busy(v)' => Busy(v)
      PROVE  SitesInv'
  <2>1. boot = "up"
    BY <1>5 DEF SitesInv
  <2>2. ASSUME NEW v \in Workers, Busy(v)'
        PROVE  ~alone'[v]
    <3>1. v # w
      BY <1>5, <2>2 DEF Busy, At, Idle
    <3>2. ~At(v, "idle")
      BY <1>5, <2>2 DEF Busy, At
    <3>3. QED
      BY <1>5, <3>1, <3>2 DEF LoneInv
  <2>3. QED
    BY <1>1, <1>5, <2>1, <2>2, SitesOverlapped
<1>6. ASSUME Answer(w), UNCHANGED boot, ~At(w, "idle"), place' \in [Codes -> States]
      PROVE  SitesInv'
  <2>1. job' = [job EXCEPT ![w] = Idle] /\ UNCHANGED alone
    BY <1>6 DEF Answer, Continue
  <2>2. job'[w] = Idle /\ \A v \in Workers \ {w} : job'[v] = job[v]
    BY <2>1 DEF LoneInv
  <2>3. \A v \in Workers : Busy(v)' => Busy(v)
    BY <2>2 DEF Busy, At, Idle
  <2>4. job' \in [Workers -> SiteJobs]
    BY <2>1 DEF SitesInv, SiteJobs
  <2>5. QED
    BY <1>5, <1>6, <2>1, <2>2, <2>3, <2>4
<1>7. CASE MirrorPlaces(w)
  <2>1. \A j, S : Mirrored(j, S) \in [Codes -> States]
    BY DEF Mirrored, SitesInv, States
  <2>2. place' \in [Codes -> States]
    <3>1. \E S : place' = Mirrored(job[w], S)
      BY <1>7, Zenon DEF MirrorPlaces
    <3>2. QED
      BY <2>1, <3>1
  <2>3. ~At(w, "idle") /\ Answer(w) /\ UNCHANGED boot
    BY <1>7 DEF MirrorPlaces, At
  <2>4. QED
    BY <1>6, <2>2, <2>3
<1>8. CASE DeletePlace(w)
  <2>1. ~At(w, "idle") /\ UNCHANGED boot
    BY <1>8 DEF DeletePlace, At
  <2>2. place' \in [Codes -> States]
    BY <1>8 DEF DeletePlace, SitesInv, States
  <2>3. CASE Answer(w)
    BY <1>6, <2>1, <2>2, <2>3
  <2>4. CASE ~Answer(w)
    <3>1. UNCHANGED alone /\ job' = [v \in Workers |->
                       IF v = w THEN Idle
                       ELSE IF Loaded(v, job[w].code)
                            THEN [job[v] EXCEPT !.lost = @ \cup {job[w].code}] ELSE job[v]]
      BY <1>8, <2>4 DEF DeletePlace
    <3>2. PICK c : c = job[w].code
      OBVIOUS
    <3>3. c \in Codes
      BY <1>8, <3>2 DEF DeletePlace, At, SitesInv, SiteJobs, Idle
    <3>4. ASSUME NEW v \in Workers
          PROVE  job'[v] \in SiteJobs /\ job'[v].step \in {"idle", job[v].step}
      <4>1. CASE v = w
        BY <3>1, <4>1 DEF SiteJobs, Idle
      <4>2. CASE v # w /\ ~Loaded(v, c)
        BY <3>1, <3>2, <4>2 DEF SitesInv
      <4>3. CASE v # w /\ Loaded(v, c)
        <5>1. PICK j : j = job[v]
          OBVIOUS
        <5>2. j \in SiteJobs /\ j # Idle
          BY <4>3, <5>1 DEF Loaded, At, Idle, SitesInv
        <5>3. job'[v] = [j EXCEPT !.lost = @ \cup {c}]
          BY <3>1, <3>2, <4>3, <5>1
        <5>4. QED
          BY <3>3, <5>1, <5>2, <5>3 DEF SiteJobs
      <4>4. QED
        BY <4>1, <4>2, <4>3
    <3>5. \A v \in Workers : Busy(v)' => Busy(v)
      BY <3>4 DEF Busy, At
    <3>6. job' \in [Workers -> SiteJobs] /\ job'[w] = Idle
      BY <3>1, <3>4
    <3>7. QED
      BY <1>5, <2>1, <2>2, <3>1, <3>5, <3>6
  <2>5. QED
    BY <2>3, <2>4
<1>9. QED
  BY <1>3, <1>4, <1>7, <1>8 DEF GoOn, PlaceSteps

LEMMA SitesRequests ==
  ASSUME SitesInv, LoneInv, PartInv, PartInv', NEW w \in Workers, Begin(w) \/ GoOn(w)
  PROVE  SitesInv'
<1>1. CASE part \in {"sites", "boot"}
  BY <1>1, SitesBegin, SitesGoOn
<1>2. CASE part \in {"index", "users"}
  <2>1. UNCHANGED <<part, boot, place>>
    BY <1>2 DEF Begin, GoOn, placeVars
  <2>2. boot = "up"
    BY <1>2 DEF SitesInv
  <2>3. \A v \in Workers : ~Busy(v)'
    BY <1>2, <2>1 DEF Busy, At, PartInv, StepsOf
  <2>4. QED
    BY <1>2, <2>1, <2>2, <2>3, SitesElsewhere
<1>3. QED
  BY <1>1, <1>2 DEF PartInv

LEMMA SitesWorld ==
  ASSUME SitesInv, LoneInv, PartInv, World
  PROVE  SitesInv'
<1>1. ASSUME UNCHANGED <<part, boot, place>>, Overtakes, boot = "up"
      PROVE  SitesInv'
  BY <1>1, SitesOverlapped DEF Overtakes, SitesInv
<1>2. CASE part \in {"index", "users"}
  BY <1>2, SitesElsewhere DEF World, UpOrDown, EntraChanges, placeVars, SitesInv
<1>3. CASE UserChangesAsset /\ UNCHANGED part
  BY <1>1, <1>3 DEF UserChangesAsset, OfferStatus, SetStatus, AssignOrReturn, ArchiveAsset
<1>4. CASE UserPlaces /\ UNCHANGED part
  <2>1. boot = "up" /\ UNCHANGED boot /\ Overtakes
    BY <1>4 DEF UserPlaces, OpenOrClosePlace, MoveAsset
  <2>2. place' \in [Codes -> States]
    BY <1>4 DEF UserPlaces, OpenOrClosePlace, MoveAsset, SitesInv, States
  <2>3. QED
    BY <1>4, <2>1, <2>2, SitesOverlapped DEF Overtakes, SitesInv
<1>5. CASE Boots /\ UNCHANGED part
  <2>1. boot # "up" /\ UNCHANGED job
    BY <1>5 DEF Boots, SeedLocations, LocateLegacy, FlipLegacy, HideLegacy, ParkStock
  <2>2. part \in {"sites", "boot"} /\ \A w \in Workers : At(w, "idle")
    BY <2>1 DEF SitesInv
  <2>3. place' \in [Codes -> States]
    BY <1>5 DEF Boots, SeedLocations, LocateLegacy, FlipLegacy, HideLegacy, ParkStock, SitesInv, States
  <2>4. QED
    BY <1>5, <2>1, <2>2, <2>3 DEF SitesInv, Busy, At
<1>6. QED
  BY <1>2, <1>3, <1>4, <1>5 DEF World, PartInv

LEMMA SitesStay == Spec => []SitesInv
<1>1. Init => SitesInv
  <2> SUFFICES ASSUME Init
               PROVE  SitesInv
    OBVIOUS
  <2>1. \A w \in Workers : job[w] = Idle
    BY DEF Init, InitRequests
  <2>2. job \in [Workers -> SiteJobs]
    BY DEF Init, InitRequests, SiteJobs
  <2>3. place \in [Codes -> States]
    BY DEF Init, InitPlaces, AtRest, States
  <2>4. boot # "up" => part \in {"sites", "boot"}
    BY DEF Init, AtRest
  <2>5. QED
    BY <2>1, <2>2, <2>3, <2>4 DEF SitesInv, Busy, At, Idle
<1>2. SitesInv /\ LoneInv /\ PartInv /\ PartInv' /\ [Next]_vars => SitesInv'
  <2> SUFFICES ASSUME SitesInv, LoneInv, PartInv, PartInv', [Next]_vars
               PROVE  SitesInv'
    OBVIOUS
  <2>1. CASE \E w \in Workers : Begin(w) \/ GoOn(w)
    BY <2>1, SitesRequests
  <2>2. CASE Warm \/ Clock
    <3>1. part = "index" /\ UNCHANGED <<part, boot, place>>
      BY <2>2 DEF Warm, Clock, placeVars
    <3>2. boot = "up"
      BY <3>1 DEF SitesInv
    <3>3. \A v \in Workers : ~Busy(v)'
      BY <3>1 DEF Busy, At, PartInv, StepsOf
    <3>4. QED
      BY <3>1, <3>2, <3>3, SitesElsewhere
  <2>3. CASE World
    BY <2>3, SitesWorld
  <2>4. CASE Restart
    <3>1. \A w \in Workers : job'[w] = Idle
      BY <2>4 DEF Restart, DropRequests
    <3>2. UNCHANGED <<part, place>> /\ (boot' # "up" => part \in {"sites", "boot"})
      BY <2>4 DEF Restart, RestartPlaces, placeVars, SitesInv
    <3>3. job' \in [Workers -> SiteJobs]
      BY <2>4 DEF Restart, DropRequests, SiteJobs
    <3>4. QED
      BY <3>1, <3>2, <3>3 DEF SitesInv, Busy, At, Idle
  <2>5. CASE UNCHANGED vars
    BY <2>5 DEF vars, placeVars, SitesInv, HeldIsCurrent, Busy, At
  <2>6. QED
    BY <2>1, <2>2, <2>3, <2>4, <2>5 DEF Next
<1>3. QED
  BY <1>1, <1>2, LoneStays, StepsStay, PTL DEF Spec

-----------------------------------------------------------------------------
(* How many steps a request has left at most. *)
Left(j) ==
  CASE j.step = "idle"              -> 0
    [] j.step = "meraki"            -> MaxRetries + 1 - j.attempt
    [] j.step = "rows"              -> 2
    [] j.step = "places"            -> 2 + Cardinality(j.todo)
    [] OTHER                        -> 1

Most == MaxRetries + 2 + Cardinality(Sites)

LeftIsNumber == \A w \in Workers : Left(job[w]) \in 0..Most

LEMMA SitesCounted ==
  ASSUME NEW S \in SUBSET Sites
  PROVE  /\ Cardinality(S) \in Nat /\ Cardinality(Sites) \in Nat
         /\ Cardinality(S) <= Cardinality(Sites)
         /\ \A c \in S : Cardinality(S \ {c}) = Cardinality(S) - 1
<1>1. IsFiniteSet(S)
  BY SitesAreFinite, FS_Subset
<1>2. QED
  BY <1>1, SitesAreFinite, FS_Subset, FS_CardinalityType, FS_RemoveElement

LEMMA LeftOfIndexJob ==
  ASSUME NEW j \in IndexJobs
  PROVE  /\ Left(j) \in 0..(MaxRetries + 1)
         /\ j.step = "meraki" => j.attempt \in 0..MaxRetries
         /\ j # Idle => Left(j) >= 1
BY TimesAreNumbers DEF IndexJobs, Idle, Left

LEMMA TodoCounted ==
  ASSUME SitesInv, NEW w \in Workers, part \in {"sites", "boot"}, At(w, "places")
  PROVE  /\ Cardinality(job[w].todo) \in Nat /\ Cardinality(Sites) \in Nat
         /\ Cardinality(job[w].todo) <= Cardinality(Sites)
         /\ \A c \in job[w].todo : Cardinality(job[w].todo \ {c}) = Cardinality(job[w].todo) - 1
<1>1. job[w].todo \in SUBSET Sites
  BY DEF SitesInv, SiteJobs, At, Idle
<1>2. QED
  BY <1>1, SitesCounted

(* The step of a request that is served leaves it less to do. *)
LEMMA GoOnShortens ==
  ASSUME IndexInv, PartInv, LoneInv, SitesInv, NEW w \in Workers, GoOn(w)
  PROVE  Left(job'[w]) < Left(job[w])
<1>1. \A rest : Continue(w, rest) => job'[w] = rest
  BY DEF Continue, LoneInv
<1>2. Left(Idle) = 0
  BY DEF Left, Idle
<1>3. CASE part = "index"
  <2>1. job[w] \in IndexJobs
    BY <1>3 DEF IndexInv, IndexTypeOK
  <2>2. CASE StoreIndex(w) \/ FetchFails(w) \/ MerakiAnswers(w)
    <3>1. job'[w] = Idle /\ job[w] # Idle
      BY <1>1, <2>2 DEF StoreIndex, FetchFails, MerakiAnswers, Answer, Fetching, At, Idle
    <3>2. QED
      BY <1>2, <2>1, <3>1, LeftOfIndexJob, TimesAreNumbers
  <2>3. CASE Throttled(w)
    <3>1. job[w] \in [step : {"meraki"}, attempt : 0..MaxRetries]
      BY <2>1, <2>3 DEF Throttled, At, IndexJobs, Idle
    <3>2. job'[w] = [job[w] EXCEPT !.attempt = @ + 1]
      BY <1>1, <2>3 DEF Throttled
    <3>3. job'[w].step = "meraki" /\ job'[w].attempt = job[w].attempt + 1
      BY <3>1, <3>2
    <3>4. Left(job'[w]) = MaxRetries + 1 - job'[w].attempt /\ Left(job[w]) = MaxRetries + 1 - job[w].attempt
      BY <3>1, <3>3 DEF Left
    <3>5. QED
      BY <3>1, <3>3, <3>4, TimesAreNumbers
  <2>4. QED
    BY <1>3, <2>2, <2>3 DEF GoOn, IndexSteps
<1>4. CASE part # "index"
  <2>1. CASE ReadUsers(w)
    <3>1. job[w].step = "rows" /\ job'[w].step = "upsert"
      BY <1>1, <2>1 DEF ReadUsers, At
    <3>2. QED
      BY <3>1 DEF Left
  <2>2. CASE UpsertUsers(w) \/ MirrorPlaces(w) \/ DeletePlace(w)
    <3>1. job'[w] = Idle /\ job[w].step \in {"upsert", "mirror", "delete"}
      BY <1>1, <2>2 DEF UpsertUsers, MirrorPlaces, DeletePlace, Answer, At
    <3>2. QED
      BY <1>2, <3>1 DEF Left
  <2>3. CASE part \in {"sites", "boot"} /\ At(w, "places")
    <3>1. PICK n \in Nat : n = Cardinality(job[w].todo) /\ Left(job[w]) = 2 + n
      BY <2>3, TodoCounted DEF Left, At
    <3>2. CASE ReadPlace(w)
      <4>1. PICK rest \in SiteJobs, c \in job[w].todo :
              Continue(w, rest) /\ rest.step = "places" /\ rest.todo = job[w].todo \ {c}
        BY <2>3, <3>2, ReadPlaceHolds
      <4>2. Cardinality(rest.todo) = n - 1
        BY <2>3, <3>1, <4>1, TodoCounted
      <4>3. Left(job'[w]) = 2 + (n - 1)
        BY <1>1, <4>1, <4>2 DEF Left
      <4>4. QED
        BY <3>1, <4>3
    <3>3. CASE ReadStale(w)
      <4>1. PICK rest \in SiteJobs : Continue(w, rest) /\ rest.step = "mirror"
        BY <2>3, <3>3, ReadStaleHolds
      <4>2. Left(job'[w]) = 1
        BY <1>1, <4>1 DEF Left
      <4>3. QED
        BY <3>1, <4>2
    <3>4. QED
      BY <2>3, <3>2, <3>3 DEF GoOn, PlaceSteps, MirrorPlaces, DeletePlace, At
  <2>4. QED
    BY <1>4, <2>1, <2>2, <2>3 DEF GoOn, UserSteps, PlaceSteps, ReadPlace, ReadStale
<1>5. QED
  BY <1>3, <1>4

(* Nobody else's step gives a request more to do. *)
LEMMA OthersLengthenNothing ==
  ASSUME PartInv, LoneInv, NEW w \in Workers, ~At(w, "idle"), NEW v \in Workers, v # w,
         Begin(v) \/ GoOn(v)
  PROVE  Left(job'[w]) = Left(job[w])
<1>1. CASE \E rest : Serve(v, rest) \/ Continue(v, rest)
  BY <1>1 DEF Serve, Continue, LoneInv
<1>2. CASE DeletePlace(v) /\ part \in {"sites", "boot"} /\ ~Answer(v)
  <2>1. job'[w].step = job[w].step /\ (At(w, "places") => job'[w].todo = job[w].todo)
    <3>1. CASE Loaded(w, job[v].code)
      <4>1. job'[w] = [job[w] EXCEPT !.lost = @ \cup {job[v].code}]
        BY <1>2, <3>1 DEF DeletePlace
      <4>2. QED
        BY <3>1, <4>1 DEF Loaded, At
    <3>2. CASE ~Loaded(w, job[v].code)
      BY <1>2, <3>2 DEF DeletePlace
    <3>3. QED
      BY <3>1, <3>2
  <2>2. job[w].step # "meraki"
    BY <1>2 DEF PartInv, StepsOf
  <2>3. QED
    BY <2>1, <2>2 DEF Left, At
<1>3. QED
  BY <1>1, <1>2
     DEF Begin, GoOn, BeginIndex, BeginFetch, BeginMerakiGet, BeginUserSync, BeginLocationSync,
         BeginDeletePlace, IndexSteps, StoreIndex, FetchFails, Throttled, MerakiAnswers, UserSteps,
         ReadUsers, UpsertUsers, PlaceSteps, ReadPlace, ReadStale, MirrorPlaces, DeletePlace, Answer

LEMMA TickKeepsLeft ==
  ASSUME PartInv, NEW w \in Workers, Tick
  PROVE  Left(job'[w]) = Left(job[w])
<1>1. CASE Fetching(w)
  <2>1. job'[w] = [job[w] EXCEPT !.age = @ + 1]
    BY <1>1 DEF Tick
  <2>2. job'[w].step = "fetch" /\ job[w].step = "fetch"
    BY <1>1, <2>1 DEF Fetching, At
  <2>3. QED
    BY <2>2 DEF Left
<1>2. CASE ~Fetching(w)
  BY <1>2 DEF Tick
<1>3. QED
  BY <1>1, <1>2

(***************************************************************************)
(* Every step of a request leaves it less to do, a bounded number of steps *)
(* to begin with, and no step of anybody else gives it more: it gives up   *)
(* after its last retry and never begins again.  What is left of           *)
(* EveryRequestEnds is that its thread runs.                               *)
(***************************************************************************)
THEOREM RequestsShorten ==
  Spec => /\ []LeftIsNumber
          /\ [][\A w \in Workers : ~At(w, "idle") =>
                  /\ Left(job'[w]) <= Left(job[w])
                  /\ GoOn(w) => Left(job'[w]) < Left(job[w])]_vars
<1>1. IndexInv /\ PartInv /\ SitesInv => LeftIsNumber
  <2> SUFFICES ASSUME IndexInv, PartInv, SitesInv, NEW w \in Workers
               PROVE  Left(job[w]) \in 0..Most
    BY DEF LeftIsNumber
  <2>1. CASE part = "index"
    <3>1. Left(job[w]) \in 0..(MaxRetries + 1)
      BY <2>1, LeftOfIndexJob DEF IndexInv, IndexTypeOK
    <3>2. QED
      BY <3>1, TimesAreNumbers, SitesCounted DEF Most
  <2>2. CASE part # "index" /\ ~At(w, "places")
    <3>1. job[w].step # "meraki" /\ job[w].step # "places"
      BY <2>2 DEF PartInv, StepsOf, At
    <3>2. Left(job[w]) \in 0..2
      BY <3>1 DEF Left
    <3>3. QED
      BY <3>2, TimesAreNumbers, SitesCounted DEF Most
  <2>3. CASE part # "index" /\ At(w, "places")
    <3>1. part \in {"sites", "boot"}
      BY <2>3 DEF PartInv, StepsOf, At
    <3>2. Left(job[w]) = 2 + Cardinality(job[w].todo)
      BY <2>3 DEF Left, At
    <3>3. QED
      BY <2>3, <3>1, <3>2, TodoCounted, TimesAreNumbers DEF Most
  <2>4. QED
    BY <2>1, <2>2, <2>3
<1>2. IndexInv /\ PartInv /\ LoneInv /\ SitesInv /\ LeftIsNumber /\ LeftIsNumber' /\ [Next]_vars =>
        [\A w \in Workers : ~At(w, "idle") =>
           /\ Left(job'[w]) <= Left(job[w])
           /\ GoOn(w) => Left(job'[w]) < Left(job[w])]_vars
  <2> SUFFICES ASSUME IndexInv, PartInv, LoneInv, SitesInv, LeftIsNumber, LeftIsNumber', [Next]_vars,
                      NEW w \in Workers, ~At(w, "idle")
               PROVE  /\ Left(job'[w]) <= Left(job[w])
                      /\ GoOn(w) => Left(job'[w]) < Left(job[w])
    OBVIOUS
  <2>1. Left(job[w]) \in Nat /\ Left(job'[w]) \in Nat
    <3>1. Left(job[w]) \in 0..Most
      BY DEF LeftIsNumber
    <3>2. (Left(job[w]) \in 0..Most)'
      BY DEF LeftIsNumber
    <3>3. Left(job'[w]) \in 0..Most
      BY <3>2 DEF Left, Most
    <3>4. QED
      BY <3>1, <3>3
  <2>2. GoOn(w) => Left(job'[w]) < Left(job[w])
    BY GoOnShortens
  <2>3. PICK before \in Nat, after \in Nat : before = Left(job[w]) /\ after = Left(job'[w])
    BY <2>1
  <2>4. ASSUME NEW v \in Workers, Begin(v) \/ GoOn(v)
        PROVE  after <= before
    <3>1. CASE v = w
      <4>1. ~Begin(w)
        BY DEF Begin, BeginIndex, BeginFetch, BeginMerakiGet, BeginUserSync, BeginLocationSync,
               BeginDeletePlace
      <4>2. after < before
        BY <2>2, <2>3, <2>4, <3>1, <4>1
      <4>3. QED
        BY <4>2
    <3>2. CASE v # w
      <4>1. after = before
        BY <2>3, <2>4, <3>2, OthersLengthenNothing
      <4>2. QED
        BY <4>1
    <3>3. QED
      BY <3>1, <3>2
  <2>5. CASE Clock
    <3>1. after = before
      BY <2>3, <2>5, TickKeepsLeft DEF Clock
    <3>2. QED
      BY <2>2, <2>3, <3>1
  <2>6. CASE Restart
    <3>1. Left(job'[w]) = 0
      BY <2>6 DEF Restart, DropRequests, Left, Idle
    <3>2. after = 0
      BY <2>3, <3>1
    <3>3. after <= before
      BY <3>2
    <3>4. QED
      BY <2>2, <2>3, <3>3
  <2>7. CASE Warm \/ World \/ UNCHANGED vars
    <3>1. UNCHANGED job
      BY <2>7 DEF Warm, Warms, WarmerBegins, WarmerStores, WarmerFails, World, UpOrDown, EntraChanges,
         UserChangesAsset, UserPlaces, Overtakes, Boots, SeedLocations, LocateLegacy, FlipLegacy,
         HideLegacy, ParkStock, vars
    <3>2. after = before
      BY <2>3, <3>1
    <3>3. after <= before
      BY <3>2
    <3>4. QED
      BY <2>2, <2>3, <3>3
  <2>8. QED
    BY <2>2, <2>3, <2>4, <2>5, <2>6, <2>7 DEF Next
<1>3. QED
  BY <1>1, <1>2, IndexStays, StepsStay, LoneStays, SitesStay, PTL DEF Spec

-----------------------------------------------------------------------------
(***************************************************************************)
(* A sync with Snowflake that overlaps no other request writes what it was *)
(* told and spares the warehouse, whichever rows failed: what it loaded is *)
(* still there, no row was deleted under it, and an insert collides only   *)
(* with another of its own.                                                *)
(***************************************************************************)
THEOREM LoneLocationSyncMirrors == Spec => LocationsMirrorSnowflake
<1> DEFINE Goal ==
      \A w \in Workers :
        MirrorPlaces(w) /\ alone[w] =>
          /\ place'[Warehouse] = place[Warehouse]
          /\ job[w].seen = {} => UNCHANGED place
          /\ job[w].seen # {} => \A c \in Sites \ job[w].seen : place'[c] # "active"
          /\ \A c \in job[w].seen :
               \/ place'[c] = "active"
               \/ job[w].had[c] = "unread" /\ place'[c] = place[c]
               \/ c \in Opened(job[w]) /\ Opened(job[w]) \cap job[w].twice # {}
<1>1. SitesInv /\ PartInv => Goal
  <2> SUFFICES ASSUME SitesInv, PartInv, NEW w \in Workers, MirrorPlaces(w), alone[w]
               PROVE  /\ place'[Warehouse] = place[Warehouse]
                      /\ job[w].seen = {} => UNCHANGED place
                      /\ job[w].seen # {} => \A c \in Sites \ job[w].seen : place'[c] # "active"
                      /\ \A c \in job[w].seen :
                           \/ place'[c] = "active"
                           \/ job[w].had[c] = "unread" /\ place'[c] = place[c]
                           \/ c \in Opened(job[w]) /\ Opened(job[w]) \cap job[w].twice # {}
    OBVIOUS
  <2> DEFINE updates == Stale(job[w]) \cup Reopened(job[w])
             opened == Opened(job[w])
  <2>1. part \in {"sites", "boot"} /\ At(w, "mirror")
    BY DEF PartInv, StepsOf, MirrorPlaces, At
  <2>2. HeldIsCurrent(w)
    BY <2>1 DEF SitesInv, Busy
  <2>3. job[w].seen \subseteq Sites
    BY <2>1 DEF SitesInv, SiteJobs, At, Idle
  <2>4. updates \cap job[w].lost = {} /\ {c \in opened : place[c] # "none"} = {}
    BY <2>2, <2>3 DEF Opened, HeldIsCurrent, Codes
  <2>5. PICK S \in SUBSET opened :
          /\ place' = Mirrored(job[w], updates \cup S)
          /\ opened \cap job[w].twice = {} => S = opened
    BY <2>4 DEF MirrorPlaces
  <2>6. \A c \in Codes :
          place'[c] = CASE c \in (updates \cup S) \cap Stale(job[w]) -> "inactive"
                        [] c \in (updates \cup S) \ Stale(job[w])    -> "active"
                        [] OTHER                                    -> place[c]
    BY <2>5, Zenon DEF Mirrored
  <2>7. S \cap Stale(job[w]) = {} /\ Reopened(job[w]) \cap Stale(job[w]) = {}
    BY <2>5 DEF Opened, Stale, Reopened
  <2>8. Stale(job[w]) \subseteq Sites /\ Reopened(job[w]) \subseteq Sites /\ S \subseteq Sites
    BY <2>3, <2>5 DEF Opened, Stale, Reopened
  <2>9. place'[Warehouse] = place[Warehouse]
    BY <2>6, <2>8, CodesDiffer DEF Codes
  <2>10. ASSUME job[w].seen = {}
         PROVE  UNCHANGED place
    <3>1. updates \cup S = {}
      BY <2>5, <2>10 DEF Stale, Reopened, Opened
    <3>2. \A c \in Codes : place'[c] = place[c]
      BY <2>6, <3>1
    <3>3. place \in [Codes -> States] /\ place' = [c \in Codes |-> place'[c]]
      BY <2>5 DEF SitesInv, Mirrored
    <3>4. QED
      BY <3>2, <3>3
  <2>11. ASSUME NEW c \in Sites \ job[w].seen, job[w].seen # {}
         PROVE  place'[c] # "active"
    <3>1. c \in Codes /\ job[w].had[c] = place[c]
      BY <2>1, <2>2, <2>11 DEF HeldIsCurrent, Codes
    <3>2. c \notin Reopened(job[w]) /\ c \notin S
      BY <2>5, <2>11 DEF Reopened, Opened
    <3>3. c \in Stale(job[w]) <=> place[c] = "active"
      BY <2>11, <3>1 DEF Stale
    <3>4. QED
      BY <2>6, <3>1, <3>2, <3>3
  <2>12. ASSUME NEW c \in job[w].seen
         PROVE  \/ place'[c] = "active"
                \/ job[w].had[c] = "unread" /\ place'[c] = place[c]
                \/ c \in opened /\ opened \cap job[w].twice # {}
    <3>1. c \in Codes /\ c \notin Stale(job[w])
      BY <2>3, <2>12 DEF Stale, Codes
    <3>2. job[w].had[c] \in {"unread", place[c]} /\ place[c] \in States
      BY <2>2, <3>1 DEF HeldIsCurrent, SitesInv
    <3>3. CASE job[w].had[c] = "unread"
      <4>1. c \notin updates \cup S
        BY <2>5, <3>1, <3>3 DEF Reopened, Opened
      <4>2. QED
        BY <2>6, <3>1, <3>3, <4>1
    <3>4. CASE job[w].had[c] = "active"
      <4>1. c \notin updates \cup S /\ place[c] = "active"
        BY <2>5, <3>1, <3>2, <3>4 DEF Reopened, Opened
      <4>2. QED
        BY <2>6, <3>1, <4>1
    <3>5. CASE job[w].had[c] = "inactive"
      <4>1. c \in updates
        BY <2>12, <3>5 DEF Reopened
      <4>2. QED
        BY <2>6, <3>1, <4>1
    <3>6. CASE job[w].had[c] = "none"
      <4>1. c \in opened
        BY <2>12, <3>6 DEF Opened
      <4>2. QED
        BY <2>5, <2>6, <3>1, <4>1
    <3>7. QED
      BY <3>2, <3>3, <3>4, <3>5, <3>6 DEF States
  <2>13. QED
    BY <2>9, <2>10, <2>11, <2>12
<1>2. SitesInv /\ PartInv /\ [Next]_vars => [Goal]_vars
  BY <1>1
<1>3. QED
  BY <1>2, SitesStay, StepsStay, PTL DEF Spec, LocationsMirrorSnowflake

-----------------------------------------------------------------------------
(* What a sync of the users holds: what Entra had, then also the rows it saw. *)
Syncing(w) == At(w, "rows") \/ At(w, "upsert")
Members == {u \in Users : Entra[u] # NoUpn}

SinceOK(w) == Syncing(w) => job[w].since \in Nat /\ job[w].since <= tenant

GraphOK(w) ==
  Syncing(w) /\ job[w].all /\ job[w].since = tenant => job[w].graph = [u \in Members |-> Entra[u]]

HadOK(w) ==
  At(w, "upsert") /\ alone[w] => job[w].had = [u \in DOMAIN job[w].graph |-> userRow[u]]

UsersInv ==
  /\ tenant \in 1..Len(Tenants)
  /\ \A w \in Workers : SinceOK(w) /\ GraphOK(w) /\ HadOK(w)

(* A worker that is not syncing users, or whose sync a step leaves as it is. *)
LEMMA SyncUntouched ==
  ASSUME UsersInv, NEW v \in Workers, UNCHANGED <<tenant, userRow>>,
         Syncing(v)' => job'[v] = job[v] /\ (alone'[v] => alone[v])
  PROVE  SinceOK(v)' /\ GraphOK(v)' /\ HadOK(v)'
<1>1. CASE ~Syncing(v)'
  BY <1>1 DEF SinceOK, GraphOK, HadOK, Syncing
<1>2. CASE job'[v] = job[v] /\ (alone'[v] => alone[v])
  <2>1. SinceOK(v)'
    BY <1>2 DEF UsersInv, SinceOK, Syncing, At
  <2>2. GraphOK(v)'
    BY <1>2 DEF UsersInv, GraphOK, Syncing, At, Members, Entra
  <2>3. HadOK(v)'
    BY <1>2 DEF UsersInv, HadOK, At
  <2>4. QED
    BY <2>1, <2>2, <2>3
<1>3. QED
  BY <1>1, <1>2

(* A step that touches no sync of the users. *)
LEMMA UsersElsewhere ==
  ASSUME UsersInv, UNCHANGED userVars,
         \A v \in Workers : Syncing(v)' => job'[v] = job[v] /\ (alone'[v] => alone[v])
  PROVE  UsersInv'
BY SyncUntouched DEF UsersInv, userVars

LEMMA UsersBegin ==
  ASSUME UsersInv, LoneInv, NEW w \in Workers, BeginUserSync(w)
  PROVE  UsersInv'
<1>1. PICK asked \in {Users} \cup {{u} : u \in Users} :
        LET known == {u \in asked : Entra[u] # NoUpn} IN
        Serve(w, [step |-> "rows", since |-> tenant, all |-> asked = Users,
                  graph |-> [u \in known |-> Entra[u]]])
  BY DEF BeginUserSync
<1> DEFINE known == {u \in asked : Entra[u] # NoUpn}
           rest == [step |-> "rows", since |-> tenant, all |-> asked = Users,
                    graph |-> [u \in known |-> Entra[u]]]
<1>2. job' = [job EXCEPT ![w] = rest] /\ \A v \in Workers \ {w} : ~alone'[v]
  BY <1>1 DEF Serve
<1>3. job'[w] = rest /\ \A v \in Workers \ {w} : job'[v] = job[v]
  BY <1>2 DEF LoneInv
<1>4. UNCHANGED <<tenant, userRow>>
  BY DEF BeginUserSync, userVars
<1>5. rest.step = "rows" /\ rest.since = tenant
  OBVIOUS
<1>6. rest.all => rest.graph = [u \in Members |-> Entra[u]]
  <2>1. CASE asked = Users
    BY <2>1 DEF Members
  <2>2. CASE asked # Users
    <3>1. rest.all = FALSE
      BY <2>2
    <3>2. QED
      BY <3>1
  <2>3. QED
    BY <2>1, <2>2
<1>7. SinceOK(w)' /\ GraphOK(w)' /\ HadOK(w)'
  <2>1. SinceOK(w)'
    BY <1>3, <1>4, <1>5 DEF SinceOK, UsersInv
  <2>2. GraphOK(w)'
    BY <1>3, <1>4, <1>6 DEF GraphOK, Members, Entra
  <2>3. HadOK(w)'
    BY <1>3, <1>5 DEF HadOK, At
  <2>4. QED
    BY <2>1, <2>2, <2>3
<1>8. \A v \in Workers \ {w} : SinceOK(v)' /\ GraphOK(v)' /\ HadOK(v)'
  BY <1>2, <1>3, <1>4, SyncUntouched
<1>9. QED
  BY <1>4, <1>7, <1>8 DEF UsersInv

LEMMA UsersGoOn ==
  ASSUME UsersInv, LoneInv, NEW w \in Workers, UserSteps(w)
  PROVE  UsersInv'
<1>1. CASE ReadUsers(w)
  <2> DEFINE rest == [step |-> "upsert", since |-> job[w].since, all |-> job[w].all,
                      graph |-> job[w].graph, had |-> [u \in DOMAIN job[w].graph |-> userRow[u]]]
  <2>1. job' = [job EXCEPT ![w] = rest] /\ UNCHANGED <<alone, tenant, userRow>> /\ Syncing(w)
    BY <1>1 DEF ReadUsers, Continue, userVars, Syncing
  <2>2. job'[w] = rest /\ \A v \in Workers \ {w} : job'[v] = job[v]
    BY <2>1 DEF LoneInv
  <2>3. /\ rest.since = job[w].since /\ rest.all = job[w].all /\ rest.graph = job[w].graph
        /\ rest.had = [u \in DOMAIN job[w].graph |-> userRow[u]]
    OBVIOUS
  <2>4. SinceOK(w)' /\ GraphOK(w)' /\ HadOK(w)'
    <3>1. SinceOK(w)'
      BY <2>1, <2>2, <2>3 DEF SinceOK, UsersInv
    <3>2. GraphOK(w)'
      BY <2>1, <2>2, <2>3 DEF GraphOK, UsersInv, Members, Entra
    <3>3. HadOK(w)'
      BY <2>1, <2>2, <2>3 DEF HadOK
    <3>4. QED
      BY <3>1, <3>2, <3>3
  <2>5. \A v \in Workers \ {w} : SinceOK(v)' /\ GraphOK(v)' /\ HadOK(v)'
    BY <2>1, <2>2, SyncUntouched
  <2>6. QED
    BY <2>1, <2>4, <2>5 DEF UsersInv
<1>2. CASE UpsertUsers(w)
  <2>1. job' = [job EXCEPT ![w] = Idle] /\ UNCHANGED <<alone, tenant>> /\ ~At(w, "idle")
    BY <1>2 DEF UpsertUsers, Answer, Continue, At
  <2>2. job'[w] = Idle /\ \A v \in Workers \ {w} : job'[v] = job[v]
    BY <2>1 DEF LoneInv
  <2>3. ASSUME NEW v \in Workers
        PROVE  SinceOK(v)' /\ GraphOK(v)' /\ HadOK(v)'
    <3>1. CASE v = w
      BY <2>2, <3>1 DEF SinceOK, GraphOK, HadOK, Syncing, At, Idle
    <3>2. CASE v # w
      <4>1. alone[v] => At(v, "idle")
        BY <2>1, <3>2 DEF LoneInv
      <4>2. SinceOK(v)'
        BY <2>1, <2>2, <3>2 DEF UsersInv, SinceOK, Syncing, At
      <4>3. GraphOK(v)'
        BY <2>1, <2>2, <3>2 DEF UsersInv, GraphOK, Syncing, At, Members, Entra
      <4>4. HadOK(v)'
        BY <2>1, <2>2, <3>2, <4>1 DEF HadOK, At
      <4>5. QED
        BY <4>2, <4>3, <4>4
    <3>3. QED
      BY <3>1, <3>2
  <2>4. QED
    BY <2>1, <2>3 DEF UsersInv
<1>3. QED
  BY <1>1, <1>2 DEF UserSteps

LEMMA UsersStay == Spec => []UsersInv
<1>1. Init => UsersInv
  <2> SUFFICES ASSUME Init
               PROVE  UsersInv
    OBVIOUS
  <2>1. \A w \in Workers : job[w] = Idle
    BY DEF Init, InitRequests
  <2>2. tenant \in 1..Len(Tenants)
    <3>1. Len(Tenants) \in Nat /\ Len(Tenants) # 0
      BY TenantsAreTables
    <3>2. QED
      BY <3>1 DEF Init, InitUsers
  <2>3. QED
    BY <2>1, <2>2 DEF UsersInv, SinceOK, GraphOK, HadOK, Syncing, At, Idle
<1>2. UsersInv /\ LoneInv /\ PartInv /\ PartInv' /\ [Next]_vars => UsersInv'
  <2> SUFFICES ASSUME UsersInv, LoneInv, PartInv, PartInv', [Next]_vars
               PROVE  UsersInv'
    OBVIOUS
  <2>1. ASSUME UNCHANGED <<part, userVars>>, part # "users"
        PROVE  UsersInv'
    <3>1. \A v \in Workers : ~Syncing(v)'
      BY <2>1 DEF Syncing, At, PartInv, StepsOf
    <3>2. QED
      BY <2>1, <3>1, UsersElsewhere
  <2>2. ASSUME NEW w \in Workers, Begin(w) \/ GoOn(w)
        PROVE  UsersInv'
    BY <2>1, <2>2, UsersBegin, UsersGoOn DEF Begin, GoOn
  <2>3. CASE Warm \/ Clock
    BY <2>1, <2>3 DEF Warm, Clock
  <2>4. CASE EntraChanges
    <3>1. tenant' = tenant + 1 /\ tenant' \in 1..Len(Tenants) /\ UNCHANGED <<userRow, job, alone>>
      <4>1. Len(Tenants) \in Nat
        BY TenantsAreTables
      <4>2. QED
        BY <2>4, <4>1 DEF EntraChanges, UsersInv
    <3>2. ASSUME NEW v \in Workers
          PROVE  SinceOK(v)' /\ GraphOK(v)' /\ HadOK(v)'
      <4>1. tenant \in Nat /\ (Syncing(v)' => job'[v].since \in Nat /\ job'[v].since <= tenant)
        BY <3>1 DEF UsersInv, SinceOK, Syncing, At
      <4>2. SinceOK(v)' /\ GraphOK(v)'
        BY <3>1, <4>1 DEF SinceOK, GraphOK
      <4>3. HadOK(v)'
        BY <3>1 DEF UsersInv, HadOK, At
      <4>4. QED
        BY <4>2, <4>3
    <3>3. QED
      BY <3>1, <3>2 DEF UsersInv
  <2>5. CASE World /\ ~EntraChanges
    BY <2>1, <2>5 DEF World
  <2>6. CASE Restart
    <3>1. \A v \in Workers : ~Syncing(v)'
      BY <2>6 DEF Restart, DropRequests, Syncing, At, Idle
    <3>2. QED
      BY <2>6, <3>1, UsersElsewhere DEF Restart
  <2>7. CASE UNCHANGED vars
    BY <2>7, UsersElsewhere DEF vars, Syncing, At
  <2>8. QED
    BY <2>2, <2>3, <2>4, <2>5, <2>6, <2>7 DEF Next
<1>3. QED
  BY <1>1, <1>2, LoneStays, StepsStay, PTL DEF Spec

(* No two people have a UPN at the same time. *)
LEMMA EntraIsUnique ==
  ASSUME tenant \in 1..Len(Tenants)
  PROVE  \A u, v \in Users : u # v /\ Entra[u] # NoUpn => Entra[u] # Entra[v]
<1>1. tenant \in DOMAIN Tenants
  BY TenantsAreTables
<1>2. QED
  BY <1>1, UpnsAreUnique DEF Entra

(* A sync of everybody succeeds if no row holds a UPN that is now another's. *)
LEMMA NobodyHoldsIt ==
  ASSUME tenant \in 1..Len(Tenants), NEW j,
         j.graph = [u \in Members |-> Entra[u]], j.had = [u \in Members |-> userRow[u]],
         \A u \in Members, v \in Users : u # v => userRow[v] # Entra[u]
  PROVE  Succeeds(j)
<1>1. ASSUME NEW S \in SUBSET Members, NEW u \in Members
      PROVE  ~Taken(j, u, With(j, S))
  <2>1. ASSUME NEW v \in Users \ {u}
        PROVE  With(j, S)[v] # j.graph[u]
    <3>1. With(j, S)[v] = IF v \in S THEN Entra[v] ELSE userRow[v]
      BY DEF With
    <3>2. Entra[u] # Entra[v] /\ j.graph[u] = Entra[u]
      BY EntraIsUnique DEF Members
    <3>3. QED
      BY <3>1, <3>2
  <2>2. QED
    BY <2>1 DEF Taken
<1>2. Changed(j) \subseteq Members /\ New(j) \subseteq Members
  BY DEF Changed, New
<1>3. Refused(j) = {}
  BY <1>1, <1>2 DEF Refused, Before
<1>4. Insertable(j) = New(j)
  <2>1. \A u \in New(j) : userRow[u] = NoUpn
    BY DEF New
  <2>2. QED
    BY <1>1, <1>2, <2>1 DEF Insertable
<1>5. QED
  BY <1>3, <1>4 DEF Succeeds

(***************************************************************************)
(* A sync of everybody that overlaps no other leaves every member's row as *)
(* Graph had it, or a row held a UPN that had passed on to somebody else:  *)
(* whatever people did, and in whatever order the updates run.             *)
(***************************************************************************)
THEOREM LoneUserSyncMirrors == Spec => UsersMirrorEntra
<1> DEFINE Goal ==
      \A w \in Workers :
        UpsertUsers(w) /\ alone[w] /\ job[w].all /\ job[w].since = tenant =>
          \/ \A u \in Users : Entra[u] # NoUpn => userRow'[u] = Entra[u]
          \/ \E u, v \in Users : u # v /\ Entra[u] # NoUpn /\ userRow[v] = Entra[u]
<1>1. UsersInv => Goal
  <2> SUFFICES ASSUME UsersInv, NEW w \in Workers,
                      UpsertUsers(w), alone[w], job[w].all, job[w].since = tenant,
                      \A u, v \in Users : u # v /\ Entra[u] # NoUpn => userRow[v] # Entra[u]
               PROVE  \A u \in Users : Entra[u] # NoUpn => userRow'[u] = Entra[u]
    OBVIOUS
  <2> DEFINE j == job[w]
  <2>1. At(w, "upsert") /\ tenant \in 1..Len(Tenants)
    BY DEF UpsertUsers, UsersInv
  <2>2. j.graph = [u \in Members |-> Entra[u]]
    BY <2>1 DEF UsersInv, GraphOK, Syncing
  <2>3. j.had = [u \in Members |-> userRow[u]]
    BY <2>1, <2>2 DEF UsersInv, HadOK
  <2>4. Succeeds(j)
    BY <2>1, <2>2, <2>3, NobodyHoldsIt DEF Members
  <2>5. userRow' = With(j, Changed(j) \cup New(j))
    BY <2>4 DEF UpsertUsers, Upserted, Succeeds
  <2>6. ASSUME NEW u \in Members
        PROVE  userRow'[u] = Entra[u]
    <3>1. userRow'[u] = IF u \in Changed(j) \cup New(j) THEN Entra[u] ELSE userRow[u]
      BY <2>2, <2>5 DEF With, Members
    <3>2. u \notin Changed(j) \cup New(j) => userRow[u] = Entra[u]
      BY <2>2, <2>3 DEF Changed, New
    <3>3. QED
      BY <3>1, <3>2
  <2>7. QED
    BY <2>6 DEF Members
<1>2. UsersInv /\ [Next]_vars => [Goal]_vars
  BY <1>1
<1>3. QED
  BY <1>2, UsersStay, PTL DEF Spec, UsersMirrorEntra
=============================================================================
