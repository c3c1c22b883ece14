--------------------------- MODULE VendorRefresh ----------------------------
(***************************************************************************)
(* inventory_service.py: the names and makers of assets, taken from the    *)
(* vendors.  Two requests do so: the sync of one asset with Intune and the *)
(* refresh of all assets.  Either asks a vendor through device_lookups for *)
(* each asset (an enrichment), then stores what is missing in the asset.   *)
(*                                                                         *)
(* job[w] holds the assets as loaded (held), those still to be enriched    *)
(* (todo), the enrichments (got), the one under way (code to says) and, as *)
(* history, the assets that users renamed meanwhile (renamed).             *)
(* The pool threads of a refresh touch a row each, in a session each: they *)
(* run here one after the other.                                           *)
(***************************************************************************)
EXTENDS LookupCache

CONSTANT GivenNames  \* how the names look that users give
ASSUME GivenNamesAreNames == GivenNames \subseteq {"none", "mtm", "own"}

Least(S) == CHOOSE s \in S : \A t \in S : s <= t
OnLoad(s) == [model |-> model[s], maker |-> maker[s]]
Held(S) == [s \in S |-> OnLoad(s)]
Nothing == [s \in {} |-> 0]
And(f, s, value) == [t \in DOMAIN f \cup {s} |-> IF t = s THEN value ELSE f[t]]

(* A request that has loaded the assets of S. *)
Batch(what, step, S) ==
  [step |-> step, what |-> what, held |-> Held(S), todo |-> S, got |-> Nothing, renamed |-> {},
   code |-> NULL, vendor |-> NULL, skip |-> FALSE, had |-> NULL, says |-> NULL]

(* _enrich_vendor: Lenovo is asked if nobody is known to have made it. *)
VendorOf(m) == IF m = "dell" THEN "dell" ELSE "lenovo"

(* The enrichment of s by the request j begins. *)
Enrich(j, s, vendor, skip) ==
  [j EXCEPT !.step = "check", !.code = s, !.vendor = vendor, !.skip = skip]

(* The next asset of a refresh: its vendor need not give a name it has. *)
EnrichNext(j) ==
  LET s == Least(j.todo) IN
  Enrich(j, s, VendorOf(j.held[s].maker), j.held[s].model # "none")

(* The request between two enrichments. *)
Plain(j, step) ==
  [j EXCEPT !.step = step, !.code = NULL, !.vendor = NULL, !.skip = FALSE, !.had = NULL,
            !.says = NULL]

-----------------------------------------------------------------------------
(* POST /assets/{id}/sync-intune: the asset, a computer, is loaded. *)
BeginSync(w, s) ==
  /\ At(w, "idle")
  /\ device[s].maker # "meraki"
  /\ Serve(w, Batch("sync", "intune", {s}))
  /\ UNCHANGED <<device, lookup, assetVars>>

(* Intune fails (502) or does not have the device. *)
NotInIntune(w) ==
  /\ At(w, "intune")
  /\ Answer(w)
  /\ UNCHANGED <<device, lookup, assetVars>>

(* The vendor is that of the asset, else the one Intune names. *)
FoundInIntune(w) ==
  LET s == Least(job[w].todo)
      m == IF job[w].held[s].maker # "none" THEN job[w].held[s].maker ELSE device[s].maker
  IN
  /\ At(w, "intune")
  /\ device[s].intune # "none"
  /\ Continue(w, Enrich(job[w], s, VendorOf(m), FALSE))
  /\ UNCHANGED <<device, lookup, assetVars>>

Eligible == {s \in Serials : maker[s] # "meraki"}

(* POST /assets/refresh-vendor-models: the assets of these vendors, or of none, are loaded. *)
BeginRefresh(w) ==
  /\ At(w, "idle")
  /\ Eligible # {}
  /\ Serve(w, EnrichNext(Batch("refresh", "check", Eligible)))
  /\ UNCHANGED <<device, lookup, assetVars>>

(***************************************************************************)
(* An enrichment is over.  A sync has one session: a commit makes it load  *)
(* the asset again, and after a collision nothing works in it any more,    *)
(* though the exception was caught.  In a refresh only the thread is hit.  *)
(***************************************************************************)
Enriched(w, says, committed) ==
  LET j == [job[w] EXCEPT !.todo = @ \ {job[w].code}, !.got = And(@, job[w].code, says)] IN
  CASE j.what = "sync" /\ committed      -> Continue(w, Plain([j EXCEPT !.held = Nothing], "apply"))
    [] j.what = "refresh" /\ j.todo # {} -> Continue(w, EnrichNext(Plain(j, "check")))
    [] OTHER                             -> Continue(w, Plain(j, "apply"))

CheckCache(w) ==
  LET c == job[w].code IN
  /\ At(w, "check")
  /\ IF GoodForVendor(c, job[w].vendor, job[w].skip)
     THEN Enriched(w, Loaded(c), FALSE)
     ELSE Advance(w, "ask")
  /\ UNCHANGED <<device, lookup, assetVars>>

AskVendor(w) ==
  /\ At(w, "ask") /\ job[w].what # "lookup"
  /\ \E r \in VendorSays(job[w].vendor, job[w].code, job[w].skip) :
       Continue(w, [job[w] EXCEPT !.step = "seek", !.says = r])
  /\ UNCHANGED <<device, lookup, assetVars>>

SaveEnrichment(w) ==
  /\ At(w, "save") /\ job[w].what # "lookup"
  /\ Saved(w)
  /\ IF Collides(w) /\ job[w].what = "sync"
     THEN Answer(w)
     ELSE Enriched(w, job[w].says, TRUE)
  /\ UNCHANGED <<device, assetVars>>

-----------------------------------------------------------------------------
(* An asset that expired with the last commit is loaded when it is touched. *)
LoadAsset(w, s) ==
  /\ At(w, "apply")
  /\ s \in DOMAIN job[w].got /\ s = Least(DOMAIN job[w].got)
  /\ s \notin DOMAIN job[w].held
  /\ Continue(w, [job[w] EXCEPT !.held = And(@, s, OnLoad(s))])
  /\ UNCHANGED <<device, lookup, assetVars>>

(* Mutant of NewModel: whatever the vendor calls it. *)
VendorsModel(held, says, other) == IF says.name = "friendly" THEN "friendly" ELSE held.model

(***************************************************************************)
(* "Overwrite MTM-looking; fill blank; otherwise keep manual edit": what   *)
(* counts is how the name looks, not who gave it.  Without a name that     *)
(* looks like one, a blank is filled with the other: Intune's, in a sync.  *)
(***************************************************************************)
NewModel(held, says, other) ==
  CASE says.name = "friendly" /\ held.model \in {"none", "mtm"} -> "friendly"
    [] says.name # "friendly" /\ held.model = "none"            -> other
    [] OTHER                                                    -> held.model

(* The maker is filled if blank: with Intune's, or Lenovo's if it knew a name. *)
NewMaker(w, s, held, says) ==
  CASE held.maker # "none"                                  -> held.maker
    [] job[w].what = "sync"                                 -> device[s].maker
    [] job[w].what = "refresh" /\ says.name # "none"        -> says.source
    [] OTHER                                                -> held.maker

(* The columns that differ from those loaded are written and committed. *)
StoreAsset(w, s) ==
  LET held == job[w].held[s]
      says == job[w].got[s]
      other == IF job[w].what = "sync" THEN device[s].intune ELSE says.name
      new == [model |-> NewModel(held, says, other), maker |-> NewMaker(w, s, held, says)]
      rest == [t \in DOMAIN job[w].got \ {s} |-> job[w].got[t]]
  IN
  /\ At(w, "apply")
  /\ s \in DOMAIN job[w].got /\ s = Least(DOMAIN job[w].got)
  /\ s \in DOMAIN job[w].held
  /\ model' = IF new.model # held.model THEN [model EXCEPT ![s] = new.model] ELSE model
  /\ maker' = IF new.maker # held.maker THEN [maker EXCEPT ![s] = new.maker] ELSE maker
  /\ IF rest = Nothing
     THEN Answer(w)
     ELSE \E committed \in {TRUE, new # held} :  \* other columns may differ
            Continue(w, [job[w] EXCEPT !.got = rest, !.held = IF committed THEN Nothing ELSE @])
  /\ UNCHANGED <<device, lookup>>

IsBatch(j) == j # Idle /\ j.what # "lookup"

(* update_asset: a user names the asset. *)
RenameAsset(s) ==
  /\ \E name \in GivenNames \ {model[s]} : model' = [model EXCEPT ![s] = name]
  /\ job' = [w \in Workers |-> IF IsBatch(job[w])
                               THEN [job[w] EXCEPT !.renamed = @ \cup {s}]
                               ELSE job[w]]
  /\ alone' = [w \in Workers |-> FALSE]
  /\ UNCHANGED <<device, lookup, maker>>

VendorSteps(w) ==
  \/ NotInIntune(w)
  \/ FoundInIntune(w)
  \/ CheckCache(w)
  \/ AskVendor(w)
  \/ SaveEnrichment(w)
  \/ \E s \in Serials : LoadAsset(w, s) \/ StoreAsset(w, s)
=============================================================================
