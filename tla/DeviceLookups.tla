--------------------------- MODULE DeviceLookups ----------------------------
(***************************************************************************)
(* Look-ups of scanned codes and enrichments of assets on one cache, while *)
(* users rename assets, cached rows expire and the server is killed.       *)
(***************************************************************************)
EXTENDS VendorRefresh

Restart ==
  /\ DropRequests
  /\ UNCHANGED <<device, lookup, assetVars>>

(* Assets as onboarded: with a maker or none, and with any name a user gives. *)
Init ==
  /\ device \in [Serials -> Devices]
  /\ lookup = [c \in Serials |-> NULL]
  /\ model \in [Serials -> {"none", "mtm", "own"}]
  /\ maker \in [Serials -> {"none", "lenovo", "dell", "meraki"}]
  /\ \A s \in Serials : maker[s] \in {"none", device[s].maker}
  /\ InitRequests

Begin(w) ==
  \/ \E s \in Serials : BeginLookup(w, s) \/ BeginSync(w, s)
  \/ BeginRefresh(w)

Next ==
  \/ \E w \in Workers : Begin(w) \/ LookupSteps(w) \/ VendorSteps(w)
  \/ \E s \in Serials : RowExpires(s) \/ RenameAsset(s)
  \/ Restart

Spec == Init /\ [][Next]_vars

-----------------------------------------------------------------------------
(***************************************************************************)
(* "Otherwise keep manual edit" (inventory_service line 2036), "don't      *)
(* overwrite manual edits" (line 1257).  The code tells a user's name by   *)
(* its look alone.  Whatever requests overlap, one that does not look like *)
(* a type code is taken away only by a request during which a user renamed *)
(* the asset: it decides on what it loaded before it asked the vendors.    *)
(***************************************************************************)
EarlierNameIsKept ==
  [][\A w \in Workers, s \in Serials :
       StoreAsset(w, s) /\ model[s] = "own" /\ s \notin job[w].renamed
         => model'[s] = "own"]_vars

(***************************************************************************)
(* A failure to cache "never blocks": the exceptions of _write_cache are   *)
(* caught (inventory_service line 1117, lookup_service line 1208).  But a  *)
(* session that collided is broken, so a sync of an asset is lost with it: *)
(* only if another request cached the same code meanwhile.                 *)
(***************************************************************************)
LoneSyncIsStored ==
  [][\A w \in Workers :
       SaveEnrichment(w) /\ alone[w] /\ job[w].what = "sync" => ~At(w, "idle")']_vars

(***************************************************************************)
(* What a request that overlaps no other caches is what it was told: no    *)
(* row mixes the columns of two answers (it may after an overlap, because  *)
(* columns equal to those loaded are not written).                         *)
(***************************************************************************)
LoneAnswerIsCached ==
  [][\A w \in Workers :
       (SaveLookup(w) \/ SaveEnrichment(w)) /\ alone[w] =>
         lookup'[job[w].code] = Fresh(job[w].says)]_vars

(***************************************************************************)
(* "Results are cached ... to keep external traffic low and absorb         *)
(* provider hiccups gracefully" (lookup_service lines 7-8).  A hiccup does *)
(* cost a fresh row its friendly name, but only in a request that          *)
(* overlapped another or in an enrichment that could not use the row, for  *)
(* it knew no warranty or came from somebody else than the vendor asked.   *)
(***************************************************************************)
NamedRowLostByKnownDoors ==
  [][\A w \in Workers, c \in Serials :
       /\ job'[w] # job[w]
       /\ lookup[c] # NULL /\ lookup'[c] # NULL
       /\ lookup[c].fresh /\ lookup[c].name = "friendly" /\ lookup'[c].name # "friendly"
       => \/ ~alone[w]
          \/ /\ job[w].what # "lookup"
             /\ ~lookup[c].warranty \/ lookup[c].source # job[w].vendor]_vars
=============================================================================
