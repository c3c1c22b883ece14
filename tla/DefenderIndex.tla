--------------------------- MODULE DefenderIndex ----------------------------
(***************************************************************************)
(* defender_service.py: the index of Defender's machines that the process  *)
(* keeps.  Requests rebuild it when they find it stale, bulk syncs always, *)
(* and a warmer thread (main.py) every CACHE_TTL_SECONDS.  All fetch       *)
(* outside the lock, and the last to store wins.  Also the retries of the  *)
(* Meraki calls (lookup_service.py), the other waits of a request.         *)
(*                                                                         *)
(* Time is in units in which a thread that is ready runs at once.          *)
(***************************************************************************)
EXTENDS RequestPool, Naturals

CONSTANTS
  TTL,           \* CACHE_TTL_SECONDS
  LongestBuild,  \* bound: a fetch is at most max_pages calls with a timeout each
  MaxRetries,    \* _MERAKI_MAX_RETRIES
  NULL

ASSUME TimesAreNumbers == TTL \in Nat \ {0} /\ LongestBuild \in Nat \ {0} /\ MaxRetries \in Nat
ASSUME NullIsNoIndex == NULL \notin [data : Nat, stored : Nat]

VARIABLES
  up,      \* external: Defender answers
  index,   \* the index: the ages of its data (since the fetch began) and of its time stamp
  warmer   \* the warmer thread, and how long it has waited or fetched

indexVars == <<up, index, warmer>>

Outdated == TTL + LongestBuild + LongestBuild + 1  \* bound: nothing gets older
Older(age) == IF age < Outdated THEN age + 1 ELSE age

Fetching(w) == At(w, "fetch")

(* cached_index under the lock: this is answered at once. *)
IsFresh == index # NULL /\ index.stored <= TTL

(* The new index, stamped with the time at which it is stored. *)
Store(age) == index' = [data |-> age, stored |-> 0]

-----------------------------------------------------------------------------
(* cached_index finds the index stale, or a bulk sync calls refresh_cache. *)
BeginFetch(w) ==
  /\ At(w, "idle")
  /\ \E forced \in BOOLEAN :
       /\ forced \/ ~IsFresh
       /\ Serve(w, [step |-> "fetch", age |-> 0])
  /\ UNCHANGED indexVars

StoreIndex(w) ==
  /\ Fetching(w)
  /\ up
  /\ Store(job[w].age)
  /\ Answer(w)
  /\ UNCHANGED <<up, warmer>>

(* Mutant of FetchFails: the old index is given another TTL. *)
FetchFailsBackingOff(w) ==
  /\ Fetching(w)
  /\ ~up
  /\ index' = IF index = NULL THEN NULL ELSE [index EXCEPT !.stored = 0]
  /\ Answer(w)
  /\ UNCHANGED <<up, warmer>>

(* The last-known-good index is kept, and answered unless the fetch was forced. *)
FetchFails(w) ==
  /\ Fetching(w)
  /\ ~up
  /\ Answer(w)
  /\ UNCHANGED indexVars

WarmerBegins ==
  /\ warmer.step = "wait"
  /\ warmer.age = TTL
  /\ warmer' = [step |-> "fetch", age |-> 0]
  /\ UNCHANGED <<up, index, job, alone>>

WarmerStores ==
  /\ warmer.step = "fetch"
  /\ up
  /\ Store(warmer.age)
  /\ warmer' = [step |-> "wait", age |-> 0]
  /\ UNCHANGED <<up, job, alone>>

(* Mutant of WarmerFails: the exception ends the thread. *)
WarmerDies ==
  /\ warmer.step = "fetch"
  /\ ~up
  /\ warmer' = [step |-> "dead", age |-> 0]
  /\ UNCHANGED <<up, index, job, alone>>

(* A failure is logged; the thread waits for its next turn. *)
WarmerFails ==
  /\ warmer.step = "fetch"
  /\ ~up
  /\ warmer' = [step |-> "wait", age |-> 0]
  /\ UNCHANGED <<up, index, job, alone>>

-----------------------------------------------------------------------------
(* Defender goes down or comes back. *)
UpOrDown == up' = ~up /\ UNCHANGED <<index, warmer, job, alone>>

(* A unit of time passes: no fetch is longer, and no wait is overslept. *)
Tick ==
  /\ \A w \in Workers : Fetching(w) => job[w].age < LongestBuild
  /\ IF warmer.step = "wait" THEN warmer.age < TTL ELSE warmer.age < LongestBuild
  /\ warmer' = [warmer EXCEPT !.age = @ + 1]
  /\ index' = IF index = NULL THEN NULL
              ELSE [data |-> Older(index.data), stored |-> Older(index.stored)]
  /\ job' = [w \in Workers |-> IF Fetching(w) THEN [job[w] EXCEPT !.age = @ + 1] ELSE job[w]]
  /\ UNCHANGED <<up, alone>>

-----------------------------------------------------------------------------
(* _meraki_get: a call to the Meraki API. *)
BeginMerakiGet(w) ==
  /\ At(w, "idle")
  /\ Serve(w, [step |-> "meraki", attempt |-> 0])
  /\ UNCHANGED indexVars

(* Mutant of Throttled: after the last retry it starts again. *)
ThrottledForEver(w) ==
  /\ At(w, "meraki")
  /\ Continue(w, [job[w] EXCEPT !.attempt = IF @ = MaxRetries THEN 0 ELSE @ + 1])
  /\ UNCHANGED indexVars

(* Status 429: it sleeps for as long as Meraki says, and calls again. *)
Throttled(w) ==
  /\ At(w, "meraki")
  /\ job[w].attempt < MaxRetries
  /\ Continue(w, [job[w] EXCEPT !.attempt = @ + 1])
  /\ UNCHANGED indexVars

(* Any other status, or the last 429, is for the caller. *)
MerakiAnswers(w) ==
  /\ At(w, "meraki")
  /\ Answer(w)
  /\ UNCHANGED indexVars

InitIndex ==
  /\ up \in BOOLEAN
  /\ index = NULL
  /\ warmer = [step |-> "wait", age |-> TTL]  \* the first delay is short

(* The process starts again without an index. *)
RestartIndex ==
  /\ index' = NULL
  /\ warmer' = [step |-> "wait", age |-> TTL]
  /\ UNCHANGED up

BeginIndex(w) == BeginFetch(w) \/ BeginMerakiGet(w)
IndexSteps(w) == StoreIndex(w) \/ FetchFails(w) \/ Throttled(w) \/ MerakiAnswers(w)
Warms == WarmerBegins \/ WarmerStores \/ WarmerFails
=============================================================================
