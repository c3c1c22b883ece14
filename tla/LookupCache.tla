---------------------------- MODULE LookupCache -----------------------------
(***************************************************************************)
(* lookup_service.py: what the vendors say of a scanned code, kept in      *)
(* device_lookups.  A row is used while it is fresh; what counts as a good *)
(* row is not the same for a look-up and for the enrichment of an asset.   *)
(*                                                                         *)
(* A session that has loaded a row compares its answer with what it loaded *)
(* and writes the columns that differ, and only those.                     *)
(***************************************************************************)
EXTENDS RequestPool, Naturals

CONSTANTS
  Serials,  \* codes, each the serial number of one asset, in the order of asset ids
  Devices,  \* what is on the market: the values device[s] may have
  NULL

ASSUME SerialsAreOrdered == Serials \subseteq Nat
(* A model name is friendly if it has a space. *)
Names == {"none", "mtm", "friendly"}
Sources == {"lenovo", "dell", "meraki", "upc", "unknown"}
(* cisco: the manufacturer column says "Meraki". *)
Result == [source : Sources, cisco : BOOLEAN, name : Names, warranty : BOOLEAN]
Row == [source : Sources, cisco : BOOLEAN, name : Names, warranty : BOOLEAN, fresh : BOOLEAN]

ASSUME NullIsNoRow == NULL \notin Result \cup Row

(***************************************************************************)
(* format: what detect_source takes the serial for; maker: who would know  *)
(* it; intune: the model Intune has for it, "none" if it is not enrolled.  *)
(***************************************************************************)
ASSUME DevicesAreTyped ==
  Devices \subseteq [format : {"lenovo", "meraki", "upc", "unknown"},
                     maker : {"lenovo", "dell", "meraki"}, intune : {"none", "mtm", "friendly"}]

VARIABLES
  device,  \* external: what each serial is
  lookup,  \* device_lookups: the row of each code
  model,   \* assets.model: "none", "mtm" (looks like a type code), a vendor's
           \* "friendly" name, or the users' "own", which looks like no type code
  maker    \* assets.manufacturer: "none", "lenovo" or "dell"

assetVars == <<model, maker>>
vars == <<device, lookup, assetVars, job, alone>>

Says(source, name, warranty) ==
  [source |-> source, cisco |-> FALSE, name |-> name, warranty |-> warranty]
Empty(source) == Says(source, "none", FALSE)

-----------------------------------------------------------------------------
(* What each provider may answer: a failure is an answer that is empty. *)
LenovoSays(c) ==
  IF device[c].maker = "lenovo"
  THEN {Says("lenovo", n, b) : n \in {"none", "friendly"}, b \in BOOLEAN}
  ELSE {Empty("lenovo")}

DellSays(c, skip) ==
  IF device[c].maker = "dell"
  THEN {Empty("dell")} \cup
       {Says("dell", n, b) : n \in IF skip THEN {"none"} ELSE {"none", "friendly"}, b \in BOOLEAN}
  ELSE {Empty("dell")}

(* The answer of Meraki may lack the model. *)
MerakiSays(c) ==
  {Empty("meraki")} \cup
  (IF device[c].maker = "meraki"
   THEN {[Says("meraki", n, FALSE) EXCEPT !.cisco = TRUE] : n \in {"none", "mtm"}}
   ELSE {})

(* _try_dell: Dell replaces an answer without a name if it has one. *)
OrDell(R, c) ==
  {r \in R : r.name # "none"} \cup
  (IF \E r \in R : r.name = "none"
   THEN {r \in R : r.name = "none"} \cup {d \in DellSays(c, FALSE) : d.name # "none"}
   ELSE {})

(* _merge_intune: Intune, if it answers, fills a name that is missing. *)
OrIntune(R, c) ==
  R \cup {[r EXCEPT !.name = IF @ = "none" THEN device[c].intune ELSE @] : r \in R}

(* The cascade of lookup_device. *)
LookupSays(c) ==
  CASE device[c].format = "meraki"  -> MerakiSays(c)
    [] device[c].format = "lenovo"  -> OrIntune(OrDell(LenovoSays(c), c), c)
    [] device[c].format = "upc"     -> {Empty("upc")}
    [] device[c].format = "unknown" -> OrIntune(OrDell({Empty("unknown")}, c), c)

VendorSays(vendor, c, skip) == IF vendor = "dell" THEN DellSays(c, skip) ELSE LenovoSays(c)

-----------------------------------------------------------------------------
(* Mutant of GoodForLookup: as good as an enrichment wants it. *)
GoodForBoth(c) ==
  /\ lookup[c] # NULL
  /\ lookup[c].fresh
  /\ lookup[c].name = "friendly" \/ lookup[c].cisco
  /\ lookup[c].warranty

(* "Honor cache only when the cached model looks friendly", or it is Meraki's. *)
GoodForLookup(c) ==
  /\ lookup[c] # NULL
  /\ lookup[c].fresh
  /\ lookup[c].name = "friendly" \/ lookup[c].cisco

(* _vendor_cache_check: a name only if it is asked for, but the warranty. *)
GoodForVendor(c, vendor, skip) ==
  /\ lookup[c] # NULL
  /\ lookup[c].fresh
  /\ lookup[c].source = vendor
  /\ lookup[c].name = "friendly" \/ (vendor = "dell" /\ skip)
  /\ lookup[c].warranty

(* What a session loads. *)
Loaded(c) ==
  IF lookup[c] = NULL THEN NULL
  ELSE [source |-> lookup[c].source, cisco |-> lookup[c].cisco,
        name |-> lookup[c].name, warranty |-> lookup[c].warranty]

(* The row that an INSERT of says makes. *)
Fresh(says) ==
  [source |-> says.source, cisco |-> says.cisco, name |-> says.name,
   warranty |-> says.warranty, fresh |-> TRUE]

(* The row after an UPDATE of the columns that differ from those loaded. *)
Updated(c, had, says) ==
  [source   |-> IF says.source = had.source THEN lookup[c].source ELSE says.source,
   cisco    |-> IF says.cisco = had.cisco THEN lookup[c].cisco ELSE says.cisco,
   name     |-> IF says.name = had.name THEN lookup[c].name ELSE says.name,
   warranty |-> IF says.warranty = had.warranty THEN lookup[c].warranty ELSE says.warranty,
   fresh    |-> TRUE]

(* GET /lookup that the cache does not answer; it holds the row it saw. *)
BeginLookup(w, c) ==
  /\ At(w, "idle")
  /\ ~GoodForLookup(c)
  /\ Serve(w, [step |-> "ask", what |-> "lookup", code |-> c, had |-> Loaded(c),
               says |-> NULL])
  /\ UNCHANGED <<device, lookup, assetVars>>

AskProviders(w) ==
  /\ At(w, "ask") /\ job[w].what = "lookup"
  /\ \E r \in LookupSays(job[w].code) :
       Continue(w, [job[w] EXCEPT !.step = IF job[w].had = NULL THEN "seek" ELSE "save",
                               !.says = r])
  /\ UNCHANGED <<device, lookup, assetVars>>

(* _write_cache looks for the row again; one that the session has stays as loaded. *)
SeekRow(w) ==
  /\ At(w, "seek")
  /\ Continue(w, [job[w] EXCEPT !.step = "save", !.had = Loaded(job[w].code)])
  /\ UNCHANGED <<device, lookup, assetVars>>

(* Mutant of Collides: the row is inserted without looking for it. *)
CollidesIfThere(w) == lookup[job[w].code] # NULL

(* A row inserted by somebody else since: the code is unique. *)
Collides(w) == job[w].had = NULL /\ lookup[job[w].code] # NULL

(* Mutant of Saved: a row that is there is not looked at. *)
SavedBlindly(w) ==
  lookup' = [lookup EXCEPT ![job[w].code] =
    IF @ = NULL THEN Fresh(job[w].says) ELSE [@ EXCEPT !.fresh = TRUE]]

(* The INSERT or UPDATE of _write_cache, and its commit. *)
Saved(w) ==
  LET c == job[w].code IN
  lookup' = [lookup EXCEPT ![c] =
    CASE Collides(w)       -> @
      [] job[w].had # NULL -> Updated(c, job[w].had, job[w].says)
      [] OTHER             -> Fresh(job[w].says)]

(* A look-up that cannot be cached is answered all the same. *)
SaveLookup(w) ==
  /\ At(w, "save") /\ job[w].what = "lookup"
  /\ Saved(w)
  /\ Answer(w)
  /\ UNCHANGED <<device, assetVars>>

(* lookup_cache_ttl_hours go by. *)
RowExpires(c) ==
  /\ lookup[c] # NULL
  /\ lookup[c].fresh
  /\ lookup' = [lookup EXCEPT ![c].fresh = FALSE]
  /\ UNCHANGED <<device, assetVars, job, alone>>

LookupSteps(w) == AskProviders(w) \/ SeekRow(w) \/ SaveLookup(w)
=============================================================================
