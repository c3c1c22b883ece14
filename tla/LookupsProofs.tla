--------------------------- MODULE LookupsProofs ----------------------------
(***************************************************************************)
(* Theorems about DeviceLookups: what only overlapping requests lose, for  *)
(* any number of workers and codes and any devices behind them.            *)
(***************************************************************************)
EXTENDS DeviceLookups, TLAPS, WellFoundedInduction

-----------------------------------------------------------------------------
(* What a look-up holds, and a request for assets. *)
LookupFields == {"step", "what", "code", "had", "says"}
BatchFields == LookupFields \cup {"held", "todo", "got", "renamed", "vendor", "skip"}

LookupOK(j) ==
  /\ DOMAIN j = LookupFields
  /\ j.what = "lookup"
  /\ j.step \in {"ask", "seek", "save"}
  /\ j.code \in Serials

BatchOK(j) ==
  /\ DOMAIN j = BatchFields
  /\ j.what \in {"sync", "refresh"}
  /\ j.step \in {"intune", "check", "ask", "seek", "save", "apply"}
  /\ j.todo \subseteq Serials /\ DOMAIN j.held \subseteq Serials
  /\ \A s \in DOMAIN j.got : j.got[s].name # "own"
  /\ j.step = "intune" => j.todo # {}
  /\ j.step \in {"check", "ask", "seek", "save"} => j.code \in Serials

JobOK(j) == j = Idle \/ LookupOK(j) \/ BatchOK(j)

(* The request has loaded the cached row, and goes by it. *)
GoesByRow(j) == j.step = "save" \/ (j.step = "ask" /\ j.what = "lookup")

SaysOK(j) == j.step \in {"seek", "save"} => j.says \in Result

(* A row that was loaded is there, and as it was loaded unless requests overlap. *)
HadOK(w) ==
  GoesByRow(job[w]) =>
    /\ job[w].had # NULL => lookup[job[w].code] # NULL
    /\ alone[w] => job[w].had = Loaded(job[w].code)

(* A name that is the users' own is held as such, if no user renamed the asset since. *)
HoldsNames(j, names) ==
  \A s \in DOMAIN j.held \ j.renamed : names[s] = "own" => j.held[s].model = "own"

HeldOK(w) == IsBatch(job[w]) => HoldsNames(job[w], model)

WorkerOK(w) == JobOK(job[w]) /\ SaysOK(job[w]) /\ HadOK(w) /\ HeldOK(w)

(* A worker that is alone is the only one serving a request. *)
LoneOK ==
  /\ DOMAIN job = Workers
  /\ alone \in [Workers -> BOOLEAN]
  /\ \A w \in Workers : alone[w] /\ ~At(w, "idle") => \A v \in Workers \ {w} : At(v, "idle")

TablesOK ==
  /\ device \in [Serials -> Devices]
  /\ lookup \in [Serials -> Row \cup {NULL}]
  /\ DOMAIN model = Serials

LookupsInv == TablesOK /\ LoneOK /\ \A w \in Workers : WorkerOK(w)

-----------------------------------------------------------------------------
LEMMA LeastIsIn ==
  ASSUME NEW S, S \subseteq Serials, S # {}
  PROVE  Least(S) \in S
<1> DEFINE R == {ss \in Nat \X Nat : ss[1] < ss[2]}
<1>1. IsWellFoundedOn(R, Nat)
  BY NatLessThanWellFounded DEF OpToRel
<1>2. S \subseteq Nat
  BY SerialsAreOrdered
<1>3. PICK s \in S : \A t \in S : ~(<<t, s>> \in R)
  BY <1>1, <1>2, WFMin
<1>4. ASSUME NEW t \in S
      PROVE  s <= t
  <2>1. <<t, s>> \notin R
    BY <1>3
  <2>2. ~(t < s)
    BY <1>2, <2>1
  <2>3. QED
    BY <1>2, <2>2
<1>5. QED
  BY <1>4 DEF Least

(* What is loaded of a row tells it from no row. *)
LEMMA LoadedIsResult ==
  ASSUME TablesOK, NEW c \in Serials
  PROVE  IF lookup[c] = NULL THEN Loaded(c) = NULL ELSE Loaded(c) \in Result /\ Loaded(c) # NULL
<1>1. CASE lookup[c] = NULL
  BY <1>1 DEF Loaded
<1>2. CASE lookup[c] # NULL
  <2>1. lookup[c] \in Row
    BY <1>2 DEF TablesOK
  <2>2. Loaded(c) \in Result
    BY <1>2, <2>1 DEF Loaded, Row, Result
  <2>3. QED
    BY <1>2, <2>2, NullIsNoRow
<1>3. QED
  BY <1>1, <1>2

(* Whatever the providers answer is a result. *)
LEMMA ProvidersAnswer ==
  ASSUME TablesOK, NEW c \in Serials
  PROVE  /\ LookupSays(c) \subseteq Result
         /\ \A vendor, skip : VendorSays(vendor, c, skip) \subseteq Result
<1>1. /\ device[c].format \in {"lenovo", "meraki", "upc", "unknown"}
      /\ device[c].intune \in Names
  BY DevicesAreTyped DEF TablesOK, Names
<1>2a. \A source \in Sources, n \in Names, b \in BOOLEAN :
        Says(source, n, b) \in Result
  BY DEF Says, Result
<1>2b. \A source \in Sources : Empty(source) \in Result
  BY <1>2a DEF Empty, Names
<1>2. LenovoSays(c) \subseteq Result /\ MerakiSays(c) \subseteq Result
  <2>1. \A n \in {"none", "friendly"}, b \in BOOLEAN : Says("lenovo", n, b) \in Result
    BY <1>2a DEF Sources, Names
  <2>2. Empty("meraki") \in Result /\ Empty("lenovo") \in Result
    BY <1>2b DEF Sources
  <2>3. LenovoSays(c) \subseteq Result
    BY <2>1, <2>2 DEF LenovoSays
  <2>4. MerakiSays(c) \subseteq Result
    <3>1. \A n \in {"none", "mtm"} : [Says("meraki", n, FALSE) EXCEPT !.cisco = TRUE] \in Result
      <4>1. \A n \in {"none", "mtm"} : Says("meraki", n, FALSE) \in Result
        BY <1>2a DEF Sources, Names
      <4>2. \A r \in Result : [r EXCEPT !.cisco = TRUE] \in Result
        BY DEF Result
      <4>3. QED
        BY <4>1, <4>2
    <3>2. QED
      BY <2>2, <3>1 DEF MerakiSays
  <2>5. QED
    BY <2>3, <2>4
<1>3. ASSUME NEW skip
      PROVE  DellSays(c, skip) \subseteq Result
  <2>1. \A n \in {"none", "friendly"}, b \in BOOLEAN : Says("dell", n, b) \in Result
    BY <1>2a DEF Sources, Names
  <2>2. Empty("dell") \in Result
    BY <1>2b DEF Sources
  <2>3. CASE skip
    BY <2>1, <2>2, <2>3 DEF DellSays
  <2>4. CASE ~skip
    BY <2>1, <2>2, <2>4 DEF DellSays
  <2>5. QED
    BY <2>3, <2>4
<1>4. ASSUME NEW R, R \subseteq Result
      PROVE  OrDell(R, c) \subseteq Result /\ OrIntune(R, c) \subseteq Result
  <2>1. OrDell(R, c) \subseteq Result
    <3>1. DellSays(c, FALSE) \subseteq Result
      BY <1>3
    <3>2. QED
      BY <1>4, <3>1 DEF OrDell
  <2>2. OrIntune(R, c) \subseteq Result
    <3>1. ASSUME NEW r \in R
          PROVE  [r EXCEPT !.name = IF @ = "none" THEN device[c].intune ELSE @] \in Result
      <4>1. r \in Result
        BY <1>4
      <4>2. r.name \in Names /\ device[c].intune \in Names
        BY <1>1, <4>1 DEF Result
      <4>3. QED
        BY <4>1, <4>2 DEF Result
    <3>2. QED
      BY <1>4, <3>1 DEF OrIntune
  <2>3. QED
    BY <2>1, <2>2
<1>5. LookupSays(c) \subseteq Result
  <2>1. {Empty("upc")} \subseteq Result /\ {Empty("unknown")} \subseteq Result
    BY <1>2b DEF Sources
  <2>2. OrIntune(OrDell(LenovoSays(c), c), c) \subseteq Result
    BY <1>2, <1>4
  <2>3. OrIntune(OrDell({Empty("unknown")}, c), c) \subseteq Result
    BY <1>4, <2>1
  <2>4. QED
    BY <1>1, <1>2, <2>1, <2>2, <2>3 DEF LookupSays
<1>6. QED
  BY <1>2, <1>3, <1>5 DEF VendorSays

-----------------------------------------------------------------------------
(* Only users give names of their own. *)
NoNewName == \A s \in Serials : model'[s] = "own" => model[s] = "own"

LEMMA ModelStays ==
  ASSUME UNCHANGED model
  PROVE  NoNewName
BY DEF NoNewName

(* How a step leaves the workers alone that it is not about. *)
LEMMA OthersKeep ==
  ASSUME LookupsInv, NEW v \in Workers, job'[v] = job[v], alone'[v] => alone[v],
         \A c \in Serials : lookup[c] # NULL => lookup'[c] # NULL, NoNewName,
         alone'[v] /\ ~At(v, "idle") => \A c \in Serials : Loaded(c)' = Loaded(c)
  PROVE  WorkerOK(v)'
<1>1. WorkerOK(v)
  BY DEF LookupsInv
<1>2. CASE At(v, "idle")
  BY <1>1, <1>2 DEF WorkerOK, JobOK, LookupOK, BatchOK, SaysOK, HadOK, HeldOK, IsBatch, GoesByRow, At, Idle
<1>3. CASE ~At(v, "idle")
  <2>1. JobOK(job[v])' /\ SaysOK(job[v])'
    BY <1>1 DEF WorkerOK, JobOK, LookupOK, BatchOK, SaysOK
  <2>2. GoesByRow(job[v]) => job[v].code \in Serials
    BY <1>1 DEF WorkerOK, JobOK, LookupOK, BatchOK, GoesByRow, Idle
  <2>3. HadOK(v)'
    BY <1>1, <1>3, <2>2 DEF WorkerOK, HadOK, GoesByRow
  <2>4. HeldOK(v)'
    BY <1>1 DEF WorkerOK, JobOK, LookupOK, BatchOK, HeldOK, IsBatch, HoldsNames, NoNewName
  <2>5. QED
    BY <2>1, <2>3, <2>4 DEF WorkerOK
<1>4. QED
  BY <1>2, <1>3

LEMMA LoneElsewhere ==
  ASSUME LoneOK, Overtakes \/ DropRequests \/ UNCHANGED <<job, alone>>
  PROVE  LoneOK'
<1>1. CASE Overtakes
  BY <1>1 DEF LoneOK, Overtakes
<1>2. CASE DropRequests
  BY <1>2 DEF LoneOK, DropRequests, At, Idle
<1>3. CASE UNCHANGED <<job, alone>>
  BY <1>3 DEF LoneOK, At
<1>4. QED
  BY <1>1, <1>2, <1>3

(* A step of one worker: only its own request is to be looked at. *)
LEMMA OneWorker ==
  ASSUME LookupsInv, NEW w \in Workers, NEW rest,
         Serve(w, rest) \/ (Continue(w, rest) /\ ~At(w, "idle")),
         TablesOK', \A c \in Serials : lookup[c] # NULL => lookup'[c] # NULL, NoNewName,
         JobOK(rest), SaysOK(rest), HadOK(w)', HeldOK(w)'
  PROVE  LookupsInv'
<1>1. job' = [job EXCEPT ![w] = rest]
  BY DEF Serve, Continue
<1>2. DOMAIN job' = Workers /\ job'[w] = rest /\ \A v \in Workers \ {w} : job'[v] = job[v]
  BY <1>1 DEF LookupsInv, LoneOK
<1>3. alone' \in [Workers -> BOOLEAN]
  BY DEF LookupsInv, LoneOK, Serve, Continue
<1>4. \A v \in Workers \ {w} : alone'[v] => At(v, "idle") /\ alone[v]
  <2>1. CASE Serve(w, rest)
    BY <2>1 DEF Serve
  <2>2. CASE Continue(w, rest) /\ ~At(w, "idle")
    BY <2>2 DEF LookupsInv, LoneOK, Continue
  <2>3. QED
    BY <2>1, <2>2
<1>5. alone'[w] => \A u \in Workers \ {w} : At(u, "idle")
  <2>1. CASE Serve(w, rest)
    BY <2>1 DEF Serve
  <2>2. CASE Continue(w, rest) /\ ~At(w, "idle")
    BY <2>2 DEF LookupsInv, LoneOK, Continue
  <2>3. QED
    BY <2>1, <2>2
<1>6. LoneOK'
  BY <1>2, <1>3, <1>4, <1>5 DEF LoneOK, At
<1>7. WorkerOK(w)'
  <2>1. JobOK(job[w])' /\ SaysOK(job[w])'
    BY <1>2 DEF JobOK, LookupOK, BatchOK, SaysOK
  <2>2. QED
    BY <2>1 DEF WorkerOK
<1>8. ASSUME NEW v \in Workers \ {w}
      PROVE  WorkerOK(v)'
  BY <1>2, <1>4, OthersKeep
<1>9. QED
  BY <1>6, <1>7, <1>8 DEF LookupsInv

(* The two kinds of requests, told apart. *)
LEMMA KindOf ==
  ASSUME LookupsInv, NEW w \in Workers, ~At(w, "idle")
  PROVE  /\ job[w] # Idle
         /\ job[w].what = "lookup" => LookupOK(job[w])
         /\ job[w].what # "lookup" => BatchOK(job[w])
BY DEF LookupsInv, WorkerOK, JobOK, LookupOK, BatchOK, At, Idle

(* What a step that writes the cache keeps. *)
LEMMA SavedOK ==
  ASSUME LookupsInv, NEW w \in Workers, At(w, "save"), Saved(w)
  PROVE  /\ lookup' \in [Serials -> Row \cup {NULL}]
         /\ \A c \in Serials : lookup[c] # NULL => lookup'[c] # NULL
<1> DEFINE c == job[w].code
<1>1. JobOK(job[w]) /\ SaysOK(job[w]) /\ HadOK(w)
  BY DEF LookupsInv, WorkerOK
<1>2. c \in Serials
  BY <1>1 DEF JobOK, LookupOK, BatchOK, At, Idle
<1>3. job[w].says \in Result /\ (job[w].had # NULL => lookup[c] # NULL)
  BY <1>1 DEF SaysOK, HadOK, GoesByRow, At
<1>4. Fresh(job[w].says) \in Row
  BY <1>3 DEF Fresh, Result, Row
<1>5. lookup \in [Serials -> Row \cup {NULL}]
  BY DEF LookupsInv, TablesOK
<1>6. ASSUME job[w].had # NULL
      PROVE  Updated(c, job[w].had, job[w].says) \in Row
  <2>1. lookup[c] \in Row
    BY <1>2, <1>3, <1>5, <1>6
  <2>2. QED
    BY <1>3, <2>1 DEF Updated, Result, Row
<1>7. NULL \notin Row
  BY NullIsNoRow
<1>8. lookup' = [lookup EXCEPT ![c] = lookup'[c]] /\ lookup'[c] \in {lookup[c]} \cup Row
  <2>1. CASE Collides(w)
    <3>1. lookup' = [lookup EXCEPT ![c] = lookup[c]]
      BY <2>1 DEF Saved, Collides
    <3>2. QED
      BY <1>2, <1>5, <3>1
  <2>2. CASE ~Collides(w) /\ job[w].had # NULL
    <3>1. lookup' = [lookup EXCEPT ![c] = Updated(c, job[w].had, job[w].says)]
      BY <2>2 DEF Saved
    <3>2. QED
      BY <1>2, <1>5, <1>6, <2>2, <3>1
  <2>3. CASE ~Collides(w) /\ job[w].had = NULL
    <3>1. lookup' = [lookup EXCEPT ![c] = Fresh(job[w].says)]
      BY <2>3 DEF Saved
    <3>2. QED
      BY <1>2, <1>4, <1>5, <3>1
  <2>4. QED
    BY <2>1, <2>2, <2>3
<1>9. QED
  BY <1>2, <1>5, <1>7, <1>8

-----------------------------------------------------------------------------
(* Look-ups. *)
LEMMA BeginsLookup ==
  ASSUME LookupsInv, NEW w \in Workers, NEW c \in Serials, BeginLookup(w, c)
  PROVE  LookupsInv'
<1> DEFINE rest == [step |-> "ask", what |-> "lookup", code |-> c, had |-> Loaded(c), says |-> NULL]
<1>1. Serve(w, rest) /\ UNCHANGED <<device, lookup, model>>
  BY DEF BeginLookup, assetVars
<1>2. job'[w] = rest
  BY <1>1 DEF Serve, LookupsInv, LoneOK
<1>3. TablesOK'
  BY <1>1 DEF LookupsInv, TablesOK
<1>4. JobOK(rest) /\ SaysOK(rest)
  BY DEF JobOK, LookupOK, SaysOK, LookupFields
<1>5. HadOK(w)'
  <2>1. Loaded(c)' = Loaded(c)
    BY <1>1 DEF Loaded
  <2>2. Loaded(c) # NULL => lookup[c] # NULL
    BY DEF Loaded
  <2>3. QED
    BY <1>1, <1>2, <2>1, <2>2 DEF HadOK
<1>6. HeldOK(w)'
  BY <1>2 DEF HeldOK, IsBatch
<1> HIDE DEF rest
<1>7. QED
  BY <1>1, <1>3, <1>4, <1>5, <1>6, ModelStays, OneWorker

LEMMA AsksProviders ==
  ASSUME LookupsInv, NEW w \in Workers, AskProviders(w)
  PROVE  LookupsInv'
<1> DEFINE j == job[w]
           next == IF j.had = NULL THEN "seek" ELSE "save"
<1>1. PICK r \in LookupSays(j.code) : Continue(w, [j EXCEPT !.step = next, !.says = r])
  BY DEF AskProviders
<1> DEFINE rest == [j EXCEPT !.step = next, !.says = r]
<1>2. UNCHANGED <<device, lookup, model>> /\ ~At(w, "idle")
  BY DEF AskProviders, assetVars, At
<1>3. LookupOK(j) /\ j.what = "lookup" /\ HadOK(w)
  BY <1>2, KindOf DEF AskProviders, LookupsInv, WorkerOK
<1>4. /\ DOMAIN rest = LookupFields
      /\ rest.step = next /\ rest.what = "lookup" /\ rest.code = j.code
      /\ rest.had = j.had /\ rest.says = r
  BY <1>3 DEF LookupOK, LookupFields
<1>5. job'[w] = rest /\ UNCHANGED alone
  BY <1>1 DEF Continue, LookupsInv, LoneOK
<1>6. TablesOK'
  BY <1>2 DEF LookupsInv, TablesOK
<1>7. JobOK(rest) /\ SaysOK(rest)
  <2>1. r \in Result
    BY <1>1, <1>3, ProvidersAnswer DEF LookupsInv, LookupOK
  <2>2. QED
    BY <1>3, <1>4, <2>1 DEF JobOK, LookupOK, SaysOK
<1>8. HadOK(w)'
  <2>1. \A c \in Serials : Loaded(c)' = Loaded(c)
    BY <1>2 DEF Loaded
  <2>2. GoesByRow(j) /\ j.code \in Serials
    BY <1>3 DEF GoesByRow, AskProviders, At, LookupOK
  <2>3. QED
    BY <1>2, <1>3, <1>4, <1>5, <2>1, <2>2 DEF HadOK
<1>9. HeldOK(w)'
  BY <1>4, <1>5 DEF HeldOK, IsBatch
<1> HIDE DEF rest
<1>10. QED
  BY <1>1, <1>2, <1>6, <1>7, <1>8, <1>9, ModelStays, OneWorker DEF rest

(* A request that is answered is gone. *)
LEMMA Answered ==
  ASSUME LookupsInv, NEW w \in Workers, ~At(w, "idle"), Answer(w), TablesOK',
         \A c \in Serials : lookup[c] # NULL => lookup'[c] # NULL, NoNewName
  PROVE  LookupsInv'
<1>1. Continue(w, Idle)
  BY DEF Answer
<1>2. job'[w] = Idle
  BY <1>1 DEF Continue, LookupsInv, LoneOK
<1>3. JobOK(Idle) /\ SaysOK(Idle)
  BY DEF JobOK, SaysOK, Idle
<1>4. HadOK(w)' /\ HeldOK(w)'
  BY <1>2 DEF HadOK, HeldOK, IsBatch, GoesByRow, Idle
<1>5. QED
  BY <1>1, <1>3, <1>4, OneWorker

LEMMA SavesLookup ==
  ASSUME LookupsInv, NEW w \in Workers, SaveLookup(w)
  PROVE  LookupsInv'
<1>1. At(w, "save") /\ Saved(w) /\ Answer(w) /\ UNCHANGED <<device, model>>
  BY DEF SaveLookup, assetVars
<1>2. /\ lookup' \in [Serials -> Row \cup {NULL}]
      /\ \A c \in Serials : lookup[c] # NULL => lookup'[c] # NULL
  BY <1>1, SavedOK
<1>3. TablesOK'
  BY <1>1, <1>2 DEF LookupsInv, TablesOK
<1>4. ~At(w, "idle")
  BY <1>1 DEF At
<1>5. QED
  BY <1>1, <1>2, <1>3, <1>4, ModelStays, Answered

(* Both kinds of requests look for the row again before they write it. *)
LEMMA SeeksRow ==
  ASSUME LookupsInv, NEW w \in Workers, SeekRow(w)
  PROVE  LookupsInv'
<1> DEFINE j == job[w]
           rest == [j EXCEPT !.step = "save", !.had = Loaded(j.code)]
<1>1. At(w, "seek") /\ Continue(w, rest) /\ UNCHANGED <<device, lookup, model>>
  BY DEF SeekRow, assetVars
<1>2. ~At(w, "idle")
  BY <1>1 DEF At
<1>3. /\ (LookupOK(j) /\ j.what = "lookup") \/ (BatchOK(j) /\ j.what # "lookup")
      /\ SaysOK(j) /\ HeldOK(w) /\ j # Idle
  BY <1>2, KindOf DEF LookupsInv, WorkerOK
<1>4. /\ DOMAIN rest = DOMAIN j
      /\ rest.step = "save" /\ rest.had = Loaded(j.code)
      /\ rest.what = j.what /\ rest.code = j.code /\ rest.says = j.says
  BY <1>3 DEF LookupOK, BatchOK, LookupFields, BatchFields
<1>5. BatchOK(j) => rest.held = j.held /\ rest.todo = j.todo /\ rest.renamed = j.renamed /\ rest.got = j.got
  BY DEF BatchOK, BatchFields, LookupFields
<1>6. j.code \in Serials
  BY <1>1, <1>3 DEF LookupOK, BatchOK, At
<1>7. job'[w] = rest /\ UNCHANGED alone
  BY <1>1 DEF Continue, LookupsInv, LoneOK
<1>8. TablesOK'
  BY <1>1 DEF LookupsInv, TablesOK
<1>9. JobOK(rest) /\ SaysOK(rest)
  BY <1>1, <1>3, <1>4, <1>5, <1>6 DEF JobOK, LookupOK, BatchOK, SaysOK, At
<1>10. HadOK(w)'
  <2>1. \A c \in Serials : Loaded(c)' = Loaded(c) /\ (Loaded(c) # NULL => lookup[c] # NULL)
    BY <1>1 DEF Loaded
  <2>2. QED
    BY <1>1, <1>4, <1>6, <1>7, <2>1 DEF HadOK
<1>11. HeldOK(w)'
  BY <1>1, <1>3, <1>4, <1>5, <1>7 DEF HeldOK, IsBatch, HoldsNames
<1> HIDE DEF rest
<1>12. QED
  BY <1>1, <1>2, <1>8, <1>9, <1>10, <1>11, ModelStays, OneWorker

LEMMA ExpiresRow ==
  ASSUME LookupsInv, NEW c \in Serials, RowExpires(c)
  PROVE  LookupsInv'
<1>1. /\ lookup[c] # NULL /\ lookup' = [lookup EXCEPT ![c].fresh = FALSE]
      /\ UNCHANGED <<device, model, job, alone>>
  BY DEF RowExpires, assetVars
<1>2. lookup \in [Serials -> Row \cup {NULL}] /\ lookup[c] \in Row
  BY <1>1 DEF LookupsInv, TablesOK
<1>3. [lookup[c] EXCEPT !.fresh = FALSE] \in Row
  BY <1>2 DEF Row
<1>4. TablesOK'
  BY <1>1, <1>2, <1>3 DEF LookupsInv, TablesOK
<1>5. \A d \in Serials : lookup[d] # NULL => lookup'[d] # NULL
  BY <1>1, <1>2, <1>3, NullIsNoRow
<1>6. \A d \in Serials : Loaded(d)' = Loaded(d)
  <2>1. TAKE d \in Serials
  <2>2. CASE d = c
    <3>1. lookup'[c] = [lookup[c] EXCEPT !.fresh = FALSE]
      BY <1>1, <1>2
    <3>2. /\ lookup'[c] # NULL
          /\ lookup'[c].source = lookup[c].source
          /\ lookup'[c].name = lookup[c].name
          /\ lookup'[c].cisco = lookup[c].cisco
          /\ lookup'[c].warranty = lookup[c].warranty
      BY <1>1, <1>2, <1>5, <3>1 DEF Row
    <3>3. QED
      BY <1>1, <2>2, <3>2 DEF Loaded
  <2>3. CASE d # c
    BY <1>1, <1>2, <2>3 DEF Loaded
  <2>4. QED
    BY <2>2, <2>3
<1>7. LoneOK'
  BY <1>1, LoneElsewhere DEF LookupsInv
<1>8. \A v \in Workers : WorkerOK(v)'
  BY <1>1, <1>5, <1>6, ModelStays, OthersKeep
<1>9. QED
  BY <1>4, <1>7, <1>8 DEF LookupsInv

-----------------------------------------------------------------------------
(* Requests for assets. *)
LEMMA BatchGoesOn ==
  ASSUME LookupsInv, NEW w \in Workers, NEW rest,
         Serve(w, rest) \/ (Continue(w, rest) /\ ~At(w, "idle")),
         BatchOK(rest), rest.step # "save", rest.step = "seek" => rest.says \in Result,
         HoldsNames(rest, model'), NoNewName,
         TablesOK', \A c \in Serials : lookup[c] # NULL => lookup'[c] # NULL
  PROVE  LookupsInv'
<1>1. job'[w] = rest
  BY DEF Serve, Continue, LookupsInv, LoneOK
<1>2. JobOK(rest) /\ SaysOK(rest)
  BY DEF JobOK, SaysOK
<1>3. HadOK(w)'
  BY <1>1 DEF HadOK, GoesByRow, BatchOK
<1>4. HeldOK(w)'
  BY <1>1 DEF HeldOK
<1>5. QED
  BY <1>2, <1>3, <1>4, OneWorker

(* An enrichment is over, however it ended. *)
LEMMA EnrichedOK ==
  ASSUME LookupsInv, NEW w \in Workers, ~At(w, "idle"), job[w].what # "lookup",
         NEW says, says.name # "own", NEW committed, Enriched(w, says, committed), UNCHANGED model,
         TablesOK', \A c \in Serials : lookup[c] # NULL => lookup'[c] # NULL
  PROVE  LookupsInv'
<1> DEFINE i == job[w]
           j == [i EXCEPT !.todo = @ \ {i.code}, !.got = And(@, i.code, says)]
           k == [j EXCEPT !.held = Nothing]
<1>1. BatchOK(i) /\ HoldsNames(i, model)
  BY KindOf DEF LookupsInv, WorkerOK, HeldOK, IsBatch
<1>2. /\ DOMAIN j = BatchFields
      /\ j.step = i.step /\ j.what = i.what /\ j.held = i.held /\ j.todo = i.todo \ {i.code}
      /\ j.renamed = i.renamed /\ j.got = And(i.got, i.code, says)
  BY <1>1 DEF BatchOK, BatchFields, LookupFields
<1>3. /\ DOMAIN k = BatchFields
      /\ k.what = i.what /\ k.held = Nothing /\ k.todo = j.todo /\ k.got = j.got
  BY <1>2 DEF BatchFields, LookupFields
<1>4. HoldsNames(i, model') /\ \A s \in DOMAIN j.got : j.got[s].name # "own"
  BY <1>1, <1>2 DEF BatchOK, And
<1>5. \/ Continue(w, Plain(k, "apply"))
      \/ Continue(w, EnrichNext(Plain(j, "check"))) /\ j.todo # {}
      \/ Continue(w, Plain(j, "apply"))
  BY DEF Enriched
<1> HIDE DEF k, j
<1>6. ASSUME NEW r, r \in {j, k}, NEW step \in {"check", "apply"}
      PROVE  /\ DOMAIN Plain(r, step) = BatchFields
             /\ Plain(r, step).step = step /\ Plain(r, step).what = i.what
             /\ Plain(r, step).held = r.held /\ Plain(r, step).todo = j.todo
             /\ Plain(r, step).renamed = r.renamed /\ Plain(r, step).got = j.got
  <2>1. DOMAIN r = BatchFields /\ r.what = i.what /\ r.todo = j.todo /\ r.got = j.got
    BY <1>2, <1>3, <1>6
  <2>2. QED
    BY <2>1 DEF Plain, BatchFields, LookupFields
<1>7. BatchOK(Plain(j, "apply")) /\ BatchOK(Plain(k, "apply"))
  BY <1>1, <1>2, <1>3, <1>4, <1>6 DEF BatchOK, Nothing
<1>8. CASE Continue(w, Plain(k, "apply"))
  <2>1. DOMAIN Plain(k, "apply").held = {}
    BY <1>3, <1>6 DEF Nothing
  <2> DEFINE rest == Plain(k, "apply")
  <2>2. BatchOK(rest) /\ rest.step = "apply" /\ HoldsNames(rest, model')
    BY <1>6, <1>7, <2>1 DEF HoldsNames
  <2> HIDE DEF rest
  <2>3. QED
    BY <1>8, <2>2, ModelStays, BatchGoesOn DEF rest
<1>9. CASE Continue(w, Plain(j, "apply"))
  <2> DEFINE rest == Plain(j, "apply")
  <2>1. BatchOK(rest) /\ rest.step = "apply" /\ rest.held = i.held /\ rest.renamed = i.renamed
    BY <1>2, <1>6, <1>7
  <2> HIDE DEF rest
  <2>2. HoldsNames(rest, model')
    BY <1>4, <2>1 DEF HoldsNames
  <2>3. QED
    BY <1>9, <2>1, <2>2, ModelStays, BatchGoesOn DEF rest
<1>10. CASE Continue(w, EnrichNext(Plain(j, "check"))) /\ j.todo # {}
  <2> DEFINE p == Plain(j, "check")
             rest == EnrichNext(p)
  <2>1. j.todo \subseteq Serials
    BY <1>1, <1>2 DEF BatchOK
  <2>2. /\ DOMAIN p = BatchFields /\ p.step = "check"
        /\ p.what = i.what /\ p.held = i.held /\ p.todo = j.todo /\ p.renamed = i.renamed
        /\ p.got = j.got
    BY <1>2, <1>6
  <2> HIDE DEF p
  <2>3. Least(p.todo) \in Serials
    BY <1>10, <2>1, <2>2, LeastIsIn
  <2>4. /\ DOMAIN rest = BatchFields
        /\ rest.step = "check" /\ rest.code = Least(p.todo)
        /\ rest.what = i.what /\ rest.held = i.held /\ rest.todo = j.todo
        /\ rest.renamed = i.renamed /\ rest.got = j.got
    BY <2>2 DEF EnrichNext, Enrich, BatchFields, LookupFields
  <2>5. Continue(w, rest)
    BY <1>10 DEF p
  <2> HIDE DEF rest
  <2>6. BatchOK(rest)
    BY <1>1, <1>4, <2>1, <2>3, <2>4 DEF BatchOK
  <2>7. HoldsNames(rest, model')
    BY <1>4, <2>4 DEF HoldsNames
  <2>8. QED
    BY <2>4, <2>5, <2>6, <2>7, ModelStays, BatchGoesOn
<1>11. QED
  BY <1>5, <1>8, <1>9, <1>10

(* What a request for assets loads, it holds as it is. *)
LEMMA BatchIsOK ==
  ASSUME NEW what \in {"sync", "refresh"}, NEW step \in {"intune", "check"},
         NEW S, S \subseteq Serials, S # {}
  PROVE  LET j == Batch(what, step, S) IN
         /\ DOMAIN j = BatchFields
         /\ j.what = what /\ j.step = step /\ j.todo = S
         /\ DOMAIN j.held = S /\ \A s \in S : j.held[s].model = model[s]
         /\ DOMAIN j.got = {}
BY DEF Nothing, Batch, Held, OnLoad, BatchFields, LookupFields

LEMMA BeginsSync ==
  ASSUME LookupsInv, NEW w \in Workers, NEW s \in Serials, BeginSync(w, s)
  PROVE  LookupsInv'
<1> DEFINE rest == Batch("sync", "intune", {s})
<1>1. Serve(w, rest) /\ UNCHANGED <<device, lookup, model>>
  BY DEF BeginSync, assetVars
<1>2. /\ DOMAIN rest = BatchFields
      /\ rest.what = "sync" /\ rest.step = "intune" /\ rest.todo = {s}
      /\ DOMAIN rest.held = {s} /\ \A t \in {s} : rest.held[t].model = model[t]
      /\ DOMAIN rest.got = {}
  BY BatchIsOK
<1> HIDE DEF rest
<1>3. BatchOK(rest)
  BY <1>2 DEF BatchOK
<1>4. TablesOK'
  BY <1>1 DEF LookupsInv, TablesOK
<1>5. HoldsNames(rest, model')
  BY <1>1, <1>2 DEF HoldsNames
<1>6. rest.step # "save" /\ rest.step # "seek" /\ \A c \in Serials : lookup[c] # NULL => lookup'[c] # NULL
  BY <1>1, <1>2
<1>7. QED
  BY <1>1, <1>3, <1>4, <1>5, <1>6, ModelStays, BatchGoesOn

LEMMA BeginsRefresh ==
  ASSUME LookupsInv, NEW w \in Workers, BeginRefresh(w)
  PROVE  LookupsInv'
<1> DEFINE p == Batch("refresh", "check", Eligible)
           rest == EnrichNext(p)
<1>1. Serve(w, rest) /\ UNCHANGED <<device, lookup, model>> /\ Eligible # {}
  BY DEF BeginRefresh, assetVars
<1>2. Eligible \subseteq Serials
  BY DEF Eligible
<1>3. /\ DOMAIN p = BatchFields
      /\ p.what = "refresh" /\ p.step = "check" /\ p.todo = Eligible
      /\ DOMAIN p.held = Eligible /\ \A s \in Eligible : p.held[s].model = model[s]
      /\ DOMAIN p.got = {}
  BY <1>1, <1>2, BatchIsOK
<1> HIDE DEF p
<1>4. /\ DOMAIN rest = BatchFields
      /\ rest.step = "check" /\ rest.code = Least(p.todo)
      /\ rest.what = "refresh" /\ rest.held = p.held /\ rest.todo = Eligible
      /\ rest.got = p.got
  BY <1>3 DEF EnrichNext, Enrich, BatchFields, LookupFields
<1>5. Least(p.todo) \in Serials
  BY <1>1, <1>2, <1>3, LeastIsIn
<1> HIDE DEF rest
<1>6. BatchOK(rest)
  BY <1>2, <1>3, <1>4, <1>5 DEF BatchOK
<1>7. TablesOK'
  BY <1>1 DEF LookupsInv, TablesOK
<1>8. HoldsNames(rest, model')
  BY <1>1, <1>3, <1>4 DEF HoldsNames
<1>9. rest.step # "save" /\ rest.step # "seek" /\ \A c \in Serials : lookup[c] # NULL => lookup'[c] # NULL
  BY <1>1, <1>4
<1>10. QED
  BY <1>1, <1>6, <1>7, <1>8, <1>9, ModelStays, BatchGoesOn

LEMMA IntuneAnswers ==
  ASSUME LookupsInv, NEW w \in Workers, NotInIntune(w) \/ FoundInIntune(w)
  PROVE  LookupsInv'
<1>1. /\ At(w, "intune") /\ ~At(w, "idle")
      /\ UNCHANGED <<device, lookup, model>>
  BY DEF NotInIntune, FoundInIntune, assetVars, At
<1>2. TablesOK' /\ \A c \in Serials : lookup[c] # NULL => lookup'[c] # NULL
  BY <1>1 DEF LookupsInv, TablesOK
<1>3. CASE NotInIntune(w)
  BY <1>1, <1>2, <1>3, ModelStays, Answered DEF NotInIntune
<1>4. CASE FoundInIntune(w)
  <2> DEFINE j == job[w]
             s == Least(j.todo)
  <2>1. PICK v : Continue(w, Enrich(j, s, v, FALSE))
    BY <1>4 DEF FoundInIntune
  <2> DEFINE rest == Enrich(j, s, v, FALSE)
  <2>2. BatchOK(j) /\ HoldsNames(j, model) /\ j.what # "lookup"
    BY <1>1, KindOf DEF LookupsInv, WorkerOK, HeldOK, IsBatch, LookupOK, BatchOK, At
  <2>3. s \in Serials
    BY <1>1, <2>2, LeastIsIn DEF BatchOK, At
  <2>4. /\ DOMAIN rest = BatchFields
        /\ rest.step = "check" /\ rest.code = s /\ rest.what = j.what
        /\ rest.held = j.held /\ rest.todo = j.todo /\ rest.renamed = j.renamed /\ rest.got = j.got
    BY <2>2 DEF Enrich, BatchOK, BatchFields, LookupFields
  <2>5. Continue(w, rest) /\ UNCHANGED alone
    BY <2>1 DEF Continue
  <2>6. HoldsNames(rest, model')
    BY <1>1, <2>2, <2>4, <2>5 DEF HoldsNames
  <2> HIDE DEF rest
  <2>7. BatchOK(rest)
    BY <2>2, <2>3, <2>4 DEF BatchOK
  <2>8. QED
    BY <1>1, <1>2, <2>4, <2>5, <2>6, <2>7, ModelStays, BatchGoesOn
<1>5. QED
  BY <1>3, <1>4

(* The cached row will do, or the vendor is asked. *)
LEMMA ChecksCache ==
  ASSUME LookupsInv, NEW w \in Workers, CheckCache(w)
  PROVE  LookupsInv'
<1> DEFINE j == job[w]
           rest == [j EXCEPT !.step = "ask"]
<1>1. At(w, "check") /\ ~At(w, "idle") /\ UNCHANGED <<device, lookup, model>>
  BY DEF CheckCache, assetVars, At
<1>2. TablesOK' /\ \A c \in Serials : lookup[c] # NULL => lookup'[c] # NULL
  BY <1>1 DEF LookupsInv, TablesOK
<1>3. BatchOK(j) /\ HoldsNames(j, model) /\ j.what # "lookup"
  BY <1>1, KindOf DEF LookupsInv, WorkerOK, HeldOK, IsBatch, LookupOK, BatchOK, At
<1>4. \/ Enriched(w, Loaded(j.code), FALSE) /\ lookup[j.code] # NULL /\ j.code \in Serials
      \/ Continue(w, rest)
  BY <1>1, <1>3 DEF CheckCache, Advance, GoodForVendor, BatchOK, At
<1>5. CASE Enriched(w, Loaded(j.code), FALSE) /\ lookup[j.code] # NULL /\ j.code \in Serials
  <2>1. Loaded(j.code) \in Result
    BY <1>1, <1>3, <1>5, LoadedIsResult DEF LookupsInv
  <2>2. QED
    BY <1>1, <1>2, <1>3, <1>5, <2>1, EnrichedOK DEF Result, Names
<1>6. CASE Continue(w, rest)
  <2>1. /\ DOMAIN rest = BatchFields
        /\ rest.step = "ask" /\ rest.code = j.code /\ rest.what = j.what
        /\ rest.held = j.held /\ rest.todo = j.todo /\ rest.renamed = j.renamed /\ rest.got = j.got
    BY <1>3 DEF BatchOK, BatchFields, LookupFields
  <2> HIDE DEF rest
  <2>2. BatchOK(rest)
    BY <1>1, <1>3, <2>1 DEF BatchOK, At
  <2>3. UNCHANGED alone
    BY <1>6 DEF Continue
  <2>4. HoldsNames(rest, model')
    BY <1>1, <1>3, <2>1, <2>3 DEF HoldsNames
  <2>5. QED
    BY <1>1, <1>2, <1>6, <2>1, <2>2, <2>4, ModelStays, BatchGoesOn
<1>7. QED
  BY <1>4, <1>5, <1>6

LEMMA AsksVendor ==
  ASSUME LookupsInv, NEW w \in Workers, AskVendor(w)
  PROVE  LookupsInv'
<1> DEFINE j == job[w]
<1>1. PICK r \in VendorSays(j.vendor, j.code, j.skip) :
        Continue(w, [j EXCEPT !.step = "seek", !.says = r])
  BY DEF AskVendor
<1> DEFINE rest == [j EXCEPT !.step = "seek", !.says = r]
<1>2. At(w, "ask") /\ ~At(w, "idle") /\ j.what # "lookup" /\ UNCHANGED <<device, lookup, model>>
  BY DEF AskVendor, assetVars, At
<1>3. TablesOK' /\ \A c \in Serials : lookup[c] # NULL => lookup'[c] # NULL
  BY <1>2 DEF LookupsInv, TablesOK
<1>4. BatchOK(j) /\ HoldsNames(j, model)
  BY <1>2, KindOf DEF LookupsInv, WorkerOK, HeldOK, IsBatch
<1>5. /\ DOMAIN rest = BatchFields
      /\ rest.step = "seek" /\ rest.code = j.code /\ rest.what = j.what
      /\ rest.held = j.held /\ rest.todo = j.todo /\ rest.says = r
      /\ rest.renamed = j.renamed /\ rest.got = j.got
  BY <1>4 DEF BatchOK, BatchFields, LookupFields
<1>6. Continue(w, rest) /\ UNCHANGED alone
  BY <1>1 DEF Continue
<1> HIDE DEF rest
<1>7. BatchOK(rest)
  BY <1>2, <1>4, <1>5 DEF BatchOK, At
<1>8. j.code \in Serials
  BY <1>2, <1>4 DEF BatchOK, At
<1>9. rest.says \in Result
  BY <1>1, <1>5, <1>8, ProvidersAnswer DEF LookupsInv
<1>10. HoldsNames(rest, model')
  BY <1>2, <1>4, <1>5, <1>6 DEF HoldsNames
<1>11. QED
  BY <1>2, <1>3, <1>5, <1>6, <1>7, <1>9, <1>10, ModelStays, BatchGoesOn

LEMMA SavesEnrichment ==
  ASSUME LookupsInv, NEW w \in Workers, SaveEnrichment(w)
  PROVE  LookupsInv'
<1>1. /\ At(w, "save") /\ ~At(w, "idle") /\ job[w].what # "lookup"
      /\ Saved(w) /\ UNCHANGED <<device, model>>
      /\ Answer(w) \/ Enriched(w, job[w].says, TRUE)
  BY DEF SaveEnrichment, assetVars, At
<1>2. /\ lookup' \in [Serials -> Row \cup {NULL}]
      /\ \A c \in Serials : lookup[c] # NULL => lookup'[c] # NULL
  BY <1>1, SavedOK
<1>3. TablesOK'
  BY <1>1, <1>2 DEF LookupsInv, TablesOK
<1>4. CASE Answer(w)
  BY <1>1, <1>2, <1>3, <1>4, ModelStays, Answered
<1>5. CASE Enriched(w, job[w].says, TRUE)
  <2>1. job[w].says \in Result
    BY <1>1 DEF LookupsInv, WorkerOK, SaysOK, At
  <2>2. QED
    BY <1>1, <1>2, <1>3, <1>5, <2>1, EnrichedOK DEF Result, Names
<1>6. QED
  BY <1>1, <1>4, <1>5

-----------------------------------------------------------------------------
(* The asset itself. *)
LEMMA LoadsAsset ==
  ASSUME LookupsInv, NEW w \in Workers, NEW s \in Serials, LoadAsset(w, s)
  PROVE  LookupsInv'
<1> DEFINE j == job[w]
           rest == [j EXCEPT !.held = And(@, s, OnLoad(s))]
<1>1. /\ At(w, "apply") /\ ~At(w, "idle") /\ Continue(w, rest)
      /\ UNCHANGED <<device, lookup, model>>
  BY DEF LoadAsset, assetVars, At
<1>2. TablesOK' /\ \A c \in Serials : lookup[c] # NULL => lookup'[c] # NULL
  BY <1>1 DEF LookupsInv, TablesOK
<1>3. BatchOK(j) /\ HoldsNames(j, model) /\ j.what # "lookup"
  BY <1>1, KindOf DEF LookupsInv, WorkerOK, HeldOK, IsBatch, LookupOK, BatchOK, At
<1>4. /\ DOMAIN rest = BatchFields
      /\ rest.step = j.step /\ rest.code = j.code /\ rest.what = j.what
      /\ rest.held = And(j.held, s, OnLoad(s)) /\ rest.todo = j.todo
      /\ rest.renamed = j.renamed /\ rest.got = j.got
  BY <1>3 DEF BatchOK, BatchFields, LookupFields
<1> HIDE DEF rest
<1>5. BatchOK(rest) /\ rest.step = "apply"
  BY <1>1, <1>3, <1>4 DEF BatchOK, And, At
<1>6. HoldsNames(rest, model')
  <2>1. OnLoad(s).model = model[s]
    BY DEF OnLoad
  <2>2. \A t \in DOMAIN rest.held : rest.held[t] = IF t = s THEN OnLoad(s) ELSE j.held[t]
    BY <1>4 DEF And
  <2>3. \A t \in DOMAIN rest.held : t = s \/ t \in DOMAIN j.held
    BY <1>4 DEF And
  <2>4. ASSUME NEW t \in DOMAIN rest.held \ rest.renamed, model'[t] = "own"
        PROVE  rest.held[t].model = "own"
    <3>1. CASE t = s
      BY <1>1, <2>1, <2>2, <2>4, <3>1
    <3>2. CASE t # s
      BY <1>1, <1>3, <1>4, <2>2, <2>3, <2>4, <3>2 DEF HoldsNames
    <3>3. QED
      BY <3>1, <3>2
  <2>5. QED
    BY <2>4 DEF HoldsNames
<1>7. QED
  BY <1>1, <1>2, <1>5, <1>6, ModelStays, BatchGoesOn

(* Only a session that has not written the model goes on with what it held. *)
LEMMA StoresAsset ==
  ASSUME LookupsInv, NEW w \in Workers, NEW s \in Serials, StoreAsset(w, s)
  PROVE  LookupsInv'
<1> DEFINE j == job[w]
           held == j.held[s]
           says == j.got[s]
           other == IF j.what = "sync" THEN device[s].intune ELSE says.name
           new == [model |-> NewModel(held, says, other), maker |-> NewMaker(w, s, held, says)]
           left == [t \in DOMAIN j.got \ {s} |-> j.got[t]]
           Kept(k) == [j EXCEPT !.got = left, !.held = k]
<1>1. At(w, "apply") /\ ~At(w, "idle") /\ UNCHANGED <<device, lookup>>
  BY DEF StoreAsset, At
<1>2. model' = IF new.model # held.model THEN [model EXCEPT ![s] = new.model] ELSE model
  BY DEF StoreAsset
<1>3. TablesOK' /\ \A c \in Serials : lookup[c] # NULL => lookup'[c] # NULL
  BY <1>1, <1>2 DEF LookupsInv, TablesOK
<1>4. BatchOK(j) /\ HoldsNames(j, model) /\ j.what # "lookup"
  BY <1>1, KindOf DEF LookupsInv, WorkerOK, HeldOK, IsBatch, LookupOK, BatchOK, At
<1>5. \/ Answer(w)
      \/ Continue(w, Kept(Nothing))
      \/ Continue(w, Kept(j.held)) /\ new = held
  BY DEF StoreAsset
<1>6. NoNewName
  <2>1. s \in DOMAIN j.got /\ j.got[s].name # "own"
    BY <1>4 DEF StoreAsset, BatchOK
  <2>2. device[s].intune # "own"
    BY DevicesAreTyped DEF LookupsInv, TablesOK
  <2>3. new.model # held.model => new.model # "own"
    BY <2>1, <2>2 DEF NewModel
  <2> HIDE DEF new
  <2>4. QED
    BY <1>2, <2>3 DEF NoNewName, LookupsInv, TablesOK
<1>7. ASSUME NEW k, k = Nothing \/ k = j.held, Continue(w, Kept(k))
      PROVE  LookupsInv'
  <2> DEFINE rest == Kept(k)
  <2>1. /\ DOMAIN rest = BatchFields
        /\ rest.step = j.step /\ rest.code = j.code /\ rest.what = j.what
        /\ rest.held = k /\ rest.todo = j.todo /\ rest.renamed = j.renamed /\ rest.got = left
    BY <1>4 DEF BatchOK, BatchFields, LookupFields
  <2>2. Continue(w, rest)
    BY <1>7
  <2> HIDE DEF rest
  <2>3. BatchOK(rest) /\ rest.step = "apply"
    BY <1>1, <1>4, <1>7, <2>1 DEF BatchOK, Nothing, At
  <2>4. HoldsNames(rest, model')
    BY <1>4, <1>6, <1>7, <2>1 DEF HoldsNames, NoNewName, BatchOK, Nothing
  <2>5. QED
    BY <1>1, <1>3, <1>6, <2>2, <2>3, <2>4, BatchGoesOn
<1>8. CASE Answer(w)
  BY <1>1, <1>3, <1>6, <1>8, Answered
<1>9. QED
  BY <1>5, <1>7, <1>8

LEMMA RenamesAsset ==
  ASSUME LookupsInv, NEW s \in Serials, RenameAsset(s)
  PROVE  LookupsInv'
<1>1. /\ \E name : model' = [model EXCEPT ![s] = name]
      /\ UNCHANGED <<device, lookup>>
      /\ DOMAIN job' = Workers /\ alone' = [w \in Workers |-> FALSE]
  BY DEF RenameAsset
<1>2. TablesOK'
  BY <1>1 DEF LookupsInv, TablesOK
<1>3. LoneOK'
  BY <1>1 DEF LoneOK
<1>4. ASSUME NEW v \in Workers
      PROVE  WorkerOK(v)'
  <2>1. WorkerOK(v) /\ ~alone'[v]
    BY <1>1 DEF LookupsInv
  <2>2. CASE ~IsBatch(job[v])
    <3>1. job'[v] = job[v]
      BY <2>2 DEF RenameAsset
    <3>2. QED
      BY <1>1, <2>1, <2>2, <3>1 DEF WorkerOK, JobOK, LookupOK, BatchOK, SaysOK, HadOK, HeldOK, IsBatch, GoesByRow
  <2>3. CASE IsBatch(job[v])
    <3>1. job'[v] = [job[v] EXCEPT !.renamed = @ \cup {s}] /\ BatchOK(job[v])
      BY <2>1, <2>3 DEF RenameAsset, WorkerOK, JobOK, LookupOK, IsBatch
    <3>2. /\ DOMAIN job'[v] = BatchFields
          /\ \A f \in BatchFields \ {"renamed"} : job'[v][f] = job[v][f]
          /\ job'[v].renamed = job[v].renamed \cup {s}
      BY <3>1 DEF BatchOK, BatchFields, LookupFields
    <3>3. /\ job'[v].step = job[v].step /\ job'[v].what = job[v].what /\ job'[v].code = job[v].code
          /\ job'[v].had = job[v].had /\ job'[v].says = job[v].says /\ job'[v].held = job[v].held
          /\ job'[v].todo = job[v].todo /\ job'[v].got = job[v].got
      BY <3>2 DEF BatchFields, LookupFields
    <3>4. JobOK(job[v])' /\ SaysOK(job[v])'
      BY <2>1, <3>1, <3>2, <3>3 DEF WorkerOK, JobOK, BatchOK, SaysOK
    <3>5. HadOK(v)'
      BY <1>1, <2>1, <3>3 DEF WorkerOK, HadOK, GoesByRow
    <3>6. HeldOK(v)'
      <4>1. HoldsNames(job[v], model) /\ DOMAIN job[v].held \subseteq Serials
        BY <2>1, <2>3, <3>1 DEF WorkerOK, HeldOK, BatchOK
      <4>2. \A t \in Serials \ {s} : model'[t] = model[t]
        BY <1>1 DEF LookupsInv, TablesOK
      <4>3. HoldsNames(job[v], model)'
        BY <3>2, <3>3, <4>1, <4>2 DEF HoldsNames
      <4>4. QED
        BY <4>3 DEF HeldOK
    <3>7. QED
      BY <3>4, <3>5, <3>6 DEF WorkerOK
  <2>4. QED
    BY <2>2, <2>3
<1>5. QED
  BY <1>2, <1>3, <1>4 DEF LookupsInv

LEMMA Restarts ==
  ASSUME LookupsInv, Restart
  PROVE  LookupsInv'
<1>1. DropRequests /\ UNCHANGED <<device, lookup, model>>
  BY DEF Restart, assetVars
<1>2. TablesOK'
  BY <1>1 DEF LookupsInv, TablesOK
<1>3. LoneOK'
  BY <1>1, LoneElsewhere DEF LookupsInv
<1>4. \A v \in Workers : job'[v] = Idle
  BY <1>1 DEF DropRequests
<1>5. \A v \in Workers : WorkerOK(v)'
  BY <1>4 DEF WorkerOK, JobOK, SaysOK, HadOK, HeldOK, IsBatch, GoesByRow, Idle
<1>6. QED
  BY <1>2, <1>3, <1>5 DEF LookupsInv

-----------------------------------------------------------------------------
(***************************************************************************)
(* At every moment of a request that overlaps no other, the row its        *)
(* session has loaded of the code it is about to write is the row that is  *)
(* stored.  At every moment of any request for assets, it holds the users' *)
(* own name of each asset it keeps loaded that nobody renamed meanwhile.   *)
(***************************************************************************)
THEOREM LookupsInvHolds == Spec => []LookupsInv
<1>1. Init => LookupsInv
  <2> SUFFICES ASSUME Init PROVE LookupsInv
    OBVIOUS
  <2>1. TablesOK
    BY DEF Init, TablesOK
  <2>2. LoneOK
    BY DEF Init, InitRequests, LoneOK, At, Idle
  <2>3. \A v \in Workers : WorkerOK(v)
    BY DEF Init, InitRequests, WorkerOK, JobOK, SaysOK, HadOK, HeldOK, IsBatch, GoesByRow, Idle
  <2>4. QED
    BY <2>1, <2>2, <2>3 DEF LookupsInv
<1>2. LookupsInv /\ [Next]_vars => LookupsInv'
  <2> SUFFICES ASSUME LookupsInv, [Next]_vars PROVE LookupsInv'
    OBVIOUS
  <2>1. ASSUME NEW w \in Workers, Begin(w)
        PROVE  LookupsInv'
    BY <2>1, BeginsLookup, BeginsSync, BeginsRefresh DEF Begin
  <2>2. ASSUME NEW w \in Workers, LookupSteps(w)
        PROVE  LookupsInv'
    BY <2>2, AsksProviders, SeeksRow, SavesLookup DEF LookupSteps
  <2>3. ASSUME NEW w \in Workers, VendorSteps(w)
        PROVE  LookupsInv'
    BY <2>3, IntuneAnswers, ChecksCache, AsksVendor, SavesEnrichment, LoadsAsset, StoresAsset
       DEF VendorSteps
  <2>4. ASSUME NEW s \in Serials, RowExpires(s) \/ RenameAsset(s)
        PROVE  LookupsInv'
    BY <2>4, ExpiresRow, RenamesAsset
  <2>5. CASE UNCHANGED vars
    <3>1. UNCHANGED <<device, lookup, model, job, alone>>
      BY <2>5 DEF vars, assetVars
    <3>2. TablesOK' /\ LoneOK'
      BY <3>1, LoneElsewhere DEF LookupsInv, TablesOK
    <3>3. \A c \in Serials : Loaded(c)' = Loaded(c)
      BY <3>1 DEF Loaded
    <3>4. \A v \in Workers : WorkerOK(v)'
      BY <3>1, <3>3, ModelStays, OthersKeep
    <3>5. QED
      BY <3>2, <3>4 DEF LookupsInv
  <2>6. QED
    BY <2>1, <2>2, <2>3, <2>4, <2>5, Restarts DEF Next
<1>3. QED
  BY <1>1, <1>2, PTL DEF Spec

(* A request that overlaps no other finds the row as it left it. *)
LEMMA LoneFindsItsRow ==
  ASSUME LookupsInv, NEW w \in Workers, At(w, "save"), alone[w]
  PROVE  /\ ~Collides(w)
         /\ job[w].had = Loaded(job[w].code)
         /\ job[w].code \in Serials /\ job[w].says \in Result
<1>1. JobOK(job[w]) /\ SaysOK(job[w]) /\ HadOK(w)
  BY DEF LookupsInv, WorkerOK
<1>2. job[w].code \in Serials /\ job[w].says \in Result
  BY <1>1 DEF JobOK, LookupOK, BatchOK, SaysOK, At, Idle
<1>3. job[w].had = Loaded(job[w].code)
  BY <1>1 DEF HadOK, GoesByRow, At
<1>4. ~Collides(w)
  BY <1>2, <1>3, LoadedIsResult DEF Collides, LookupsInv
<1>5. QED
  BY <1>2, <1>3, <1>4

(***************************************************************************)
(* A failure to cache never loses the sync of an asset, unless another     *)
(* request overlapped it.                                                  *)
(***************************************************************************)
THEOREM LoneSyncsAreStored == Spec => LoneSyncIsStored
<1>1. ASSUME LookupsInv, NEW w \in Workers, SaveEnrichment(w), alone[w], job[w].what = "sync"
      PROVE  ~At(w, "idle")'
  <2> DEFINE j == [job[w] EXCEPT !.todo = @ \ {job[w].code}, !.got = And(@, job[w].code, job[w].says)]
             k == [j EXCEPT !.held = Nothing]
             rest == Plain(k, "apply")
  <2>1. At(w, "save") /\ ~At(w, "idle")
    BY <1>1 DEF SaveEnrichment, At
  <2>2. ~Collides(w)
    BY <1>1, <2>1, LoneFindsItsRow
  <2>3. Enriched(w, job[w].says, TRUE)
    BY <1>1, <2>2 DEF SaveEnrichment
  <2>4. BatchOK(job[w])
    BY <1>1, <2>1, KindOf
  <2>5. DOMAIN j = BatchFields /\ j.what = "sync"
    BY <1>1, <2>4 DEF BatchOK, BatchFields, LookupFields
  <2>6. Continue(w, rest)
    BY <2>3, <2>5 DEF Enriched
  <2>7. DOMAIN k = BatchFields
    BY <2>5
  <2> HIDE DEF k
  <2>8. rest.step = "apply"
    BY <2>7 DEF Plain, BatchFields, LookupFields
  <2>9. job'[w] = rest
    BY <1>1, <2>6 DEF Continue, LookupsInv, LoneOK
  <2>10. QED
    BY <2>8, <2>9 DEF At
<1>2. LookupsInv => [\A w \in Workers :
        SaveEnrichment(w) /\ alone[w] /\ job[w].what = "sync" => ~At(w, "idle")']_vars
  BY <1>1
<1>3. QED
  BY <1>2, LookupsInvHolds, PTL DEF Spec, LoneSyncIsStored

(***************************************************************************)
(* What a request that overlaps no other caches is one answer: the columns *)
(* that it does not write are those it was told.                           *)
(***************************************************************************)
THEOREM LoneAnswersAreCached == Spec => LoneAnswerIsCached
<1>1. ASSUME LookupsInv, NEW w \in Workers, SaveLookup(w) \/ SaveEnrichment(w), alone[w]
      PROVE  lookup'[job[w].code] = Fresh(job[w].says)
  <2> DEFINE c == job[w].code
             had == job[w].had
             says == job[w].says
  <2>1. At(w, "save") /\ Saved(w)
    BY <1>1 DEF SaveLookup, SaveEnrichment
  <2>2. ~Collides(w) /\ had = Loaded(c) /\ c \in Serials
    BY <1>1, <2>1, LoneFindsItsRow
  <2>3. lookup \in [Serials -> Row \cup {NULL}]
    BY <1>1 DEF LookupsInv, TablesOK
  <2>4. CASE had = NULL
    <3>1. lookup' = [lookup EXCEPT ![c] = Fresh(says)]
      BY <2>1, <2>2, <2>4 DEF Saved
    <3>2. QED
      BY <2>2, <2>3, <3>1
  <2>5. CASE had # NULL
    <3>1. lookup' = [lookup EXCEPT ![c] = Updated(c, had, says)]
      BY <2>1, <2>2, <2>5 DEF Saved
    <3>2. /\ had.source = lookup[c].source
          /\ had.name = lookup[c].name /\ had.cisco = lookup[c].cisco
          /\ had.warranty = lookup[c].warranty
      BY <2>2, <2>5 DEF Loaded
    <3>3. Updated(c, had, says) = Fresh(says)
      BY <3>2 DEF Updated, Fresh
    <3>4. QED
      BY <2>2, <2>3, <3>1, <3>3
  <2>6. QED
    BY <2>4, <2>5
<1>2. LookupsInv => [\A w \in Workers :
        (SaveLookup(w) \/ SaveEnrichment(w)) /\ alone[w] =>
          lookup'[job[w].code] = Fresh(job[w].says)]_vars
  BY <1>1
<1>3. QED
  BY <1>2, LookupsInvHolds, PTL DEF Spec, LoneAnswerIsCached

-----------------------------------------------------------------------------
(***************************************************************************)
(* Whatever requests overlap, one takes away a name of the users' own only *)
(* if a user renamed the asset meanwhile: the name is held as it was       *)
(* loaded, and no request gives an asset such a name.                      *)
(***************************************************************************)
THEOREM EarlierNamesAreKept == Spec => EarlierNameIsKept
<1>1. ASSUME LookupsInv, NEW w \in Workers, NEW s \in Serials,
             StoreAsset(w, s), model[s] = "own", s \notin job[w].renamed
      PROVE  model'[s] = "own"
  <2> DEFINE held == job[w].held[s]
             says == job[w].got[s]
             other == IF job[w].what = "sync" THEN device[s].intune ELSE says.name
             new == NewModel(held, says, other)
  <2>1. /\ At(w, "apply") /\ ~At(w, "idle") /\ s \in DOMAIN job[w].held
        /\ model' = IF new # held.model THEN [model EXCEPT ![s] = new] ELSE model
    BY <1>1 DEF StoreAsset, At
  <2>2. HoldsNames(job[w], model)
    BY <1>1, <2>1, KindOf DEF LookupsInv, WorkerOK, LookupOK, HeldOK, IsBatch, At
  <2>3. held.model = "own"
    BY <1>1, <2>1, <2>2 DEF HoldsNames
  <2>4. held.model = "own" => new = held.model
    BY DEF NewModel
  <2> HIDE DEF new, held
  <2>5. QED
    BY <1>1, <2>1, <2>3, <2>4
<1>2. LookupsInv => [\A w \in Workers, s \in Serials :
        StoreAsset(w, s) /\ model[s] = "own" /\ s \notin job[w].renamed
          => model'[s] = "own"]_vars
  BY <1>1
<1>3. QED
  BY <1>2, LookupsInvHolds, PTL DEF Spec, EarlierNameIsKept

-----------------------------------------------------------------------------
(* What a worker is writing, it is writing because the row would not do. *)
Missing(j) ==
  /\ j.what = "lookup" => ~GoodForLookup(j.code)
  /\ j.what # "lookup" /\ j.step \in {"ask", "seek", "save"} =>
       ~GoodForVendor(j.code, j.vendor, j.skip)

LoneRowsMissing == \A w \in Workers : alone[w] /\ ~At(w, "idle") => Missing(job[w])

(* Between two enrichments a request is not about a row. *)
LEMMA EnrichedIsPlain ==
  ASSUME LookupsInv, NEW w \in Workers, BatchOK(job[w]), NEW says, NEW committed,
         Enriched(w, says, committed)
  PROVE  job'[w].what # "lookup" /\ job'[w].step \in {"check", "apply"}
<1> DEFINE i == job[w]
           j == [i EXCEPT !.todo = @ \ {i.code}, !.got = And(@, i.code, says)]
           k == [j EXCEPT !.held = Nothing]
<1>1. /\ DOMAIN j = BatchFields /\ DOMAIN k = BatchFields
      /\ j.what \in {"sync", "refresh"} /\ k.what \in {"sync", "refresh"}
  BY DEF BatchOK, BatchFields, LookupFields
<1>2. \/ Continue(w, Plain(k, "apply"))
      \/ Continue(w, EnrichNext(Plain(j, "check")))
      \/ Continue(w, Plain(j, "apply"))
  BY DEF Enriched
<1> HIDE DEF k, j
<1>3. ASSUME NEW r \in {j, k}, NEW step \in {"check", "apply"}
      PROVE  /\ DOMAIN Plain(r, step) = BatchFields
             /\ Plain(r, step).step = step /\ Plain(r, step).what \in {"sync", "refresh"}
  <2>1. DOMAIN r = BatchFields /\ r.what \in {"sync", "refresh"}
    BY <1>1, <1>3
  <2>2. QED
    BY <2>1 DEF Plain, BatchFields, LookupFields
<1> DEFINE p == Plain(j, "check")
<1>4. DOMAIN p = BatchFields /\ p.what \in {"sync", "refresh"}
  BY <1>3
<1>5. Continue(w, EnrichNext(p)) \/ Continue(w, Plain(k, "apply")) \/ Continue(w, Plain(j, "apply"))
  BY <1>2
<1> HIDE DEF p
<1>6. EnrichNext(p).step = "check" /\ EnrichNext(p).what \in {"sync", "refresh"}
  BY <1>4 DEF EnrichNext, Enrich, BatchFields, LookupFields
<1>7. job'[w] \in {EnrichNext(p), Plain(k, "apply"), Plain(j, "apply")}
  BY <1>5 DEF Continue, LookupsInv, LoneOK
<1>8. QED
  BY <1>3, <1>6, <1>7

(* A step of the worker itself. *)
LEMMA WorkerFindsItMissing ==
  ASSUME LookupsInv, LoneRowsMissing, NEW w \in Workers, Begin(w) \/ LookupSteps(w) \/ VendorSteps(w),
         alone'[w], ~At(w, "idle")'
  PROVE  Missing(job[w])'
<1> DEFINE j == job[w]
<1>1. DOMAIN job = Workers
  BY DEF LookupsInv, LoneOK
<1>2. ASSUME job'[w].what # "lookup", job'[w].step \in {"intune", "check", "apply"}
      PROVE  Missing(job[w])'
  BY <1>2 DEF Missing
<1>3. ASSUME NEW c \in Serials, BeginLookup(w, c)
      PROVE  Missing(job[w])'
  <2>1. job'[w].what = "lookup" /\ job'[w].code = c /\ UNCHANGED lookup
    BY <1>1, <1>3 DEF BeginLookup, Serve
  <2>2. QED
    BY <1>3, <2>1 DEF BeginLookup, Missing, GoodForLookup
<1>4. ASSUME NEW s \in Serials, BeginSync(w, s)
      PROVE  Missing(job[w])'
  <2>1. job'[w] = Batch("sync", "intune", {s})
    BY <1>1, <1>4 DEF BeginSync, Serve
  <2>2. QED
    BY <1>2, <2>1 DEF Batch
<1>5. CASE BeginRefresh(w)
  <2> DEFINE p == Batch("refresh", "check", Eligible)
  <2>1. job'[w] = EnrichNext(p)
    BY <1>1, <1>5 DEF BeginRefresh, Serve
  <2>2. p.what = "refresh" /\ DOMAIN p = BatchFields
    BY DEF Batch, BatchFields, LookupFields
  <2> HIDE DEF p
  <2>3. EnrichNext(p).step = "check" /\ EnrichNext(p).what = "refresh"
    BY <2>2 DEF EnrichNext, Enrich, BatchFields, LookupFields
  <2>4. QED
    BY <1>2, <2>1, <2>3
<1>6. ASSUME ~At(w, "idle"), UNCHANGED alone
      PROVE  /\ Missing(j)
             /\ j.what = "lookup" => LookupOK(j)
             /\ j.what # "lookup" => BatchOK(j)
  BY <1>6, KindOf DEF LoneRowsMissing
<1>7. ASSUME UNCHANGED <<lookup, alone>>, ~At(w, "idle"), NEW step \in {"ask", "seek", "save"},
             NEW had, NEW says,
             \/ job'[w] = [j EXCEPT !.step = step, !.says = says]
             \/ job'[w] = [j EXCEPT !.step = step, !.had = had]
             \/ job'[w] = [j EXCEPT !.step = step],
             j.what = "lookup" \/ j.step \in {"ask", "seek", "save"}
               \/ ~GoodForVendor(j.code, j.vendor, j.skip)
      PROVE  Missing(job[w])'
  <2>1. job'[w].what = j.what /\ job'[w].code = j.code /\ job'[w].step = step
    BY <1>6, <1>7 DEF LookupOK, BatchOK, LookupFields, BatchFields
  <2>2. j.what # "lookup" => job'[w].vendor = j.vendor /\ job'[w].skip = j.skip
    BY <1>6, <1>7 DEF BatchOK, LookupFields, BatchFields
  <2>3. QED
    BY <1>6, <1>7, <2>1, <2>2 DEF Missing, GoodForLookup, GoodForVendor
<1>8. CASE AskProviders(w)
  <2>1. At(w, "ask") /\ ~At(w, "idle") /\ UNCHANGED <<lookup, alone>>
    BY <1>8 DEF AskProviders, At, Continue
  <2>2. PICK step \in {"seek", "save"} : \E r : job'[w] = [j EXCEPT !.step = step, !.says = r]
    BY <1>1, <1>8 DEF AskProviders, Continue
  <2>3. QED
    BY <1>7, <2>1, <2>2 DEF At
<1>9. CASE SeekRow(w)
  <2>1. At(w, "seek") /\ ~At(w, "idle") /\ UNCHANGED <<lookup, alone>>
    BY <1>9 DEF SeekRow, At, Continue
  <2>2. job'[w] = [j EXCEPT !.step = "save", !.had = Loaded(j.code)]
    BY <1>1, <1>9 DEF SeekRow, Continue
  <2>3. QED
    BY <1>7, <2>1, <2>2 DEF At
<1>10. ASSUME Answer(w)
       PROVE  FALSE
  BY <1>1, <1>10 DEF Answer, Continue, At, Idle
<1>11. CASE FoundInIntune(w)
  <2>1. ~At(w, "idle") /\ UNCHANGED alone /\ At(w, "intune")
    BY <1>11 DEF FoundInIntune, At, Continue
  <2>2. BatchOK(j)
    BY <1>6, <2>1 DEF LookupOK, At
  <2>3. PICK s, v : job'[w] = Enrich(j, s, v, FALSE)
    BY <1>1, <1>11 DEF FoundInIntune, Continue
  <2>4. job'[w].step = "check" /\ job'[w].what # "lookup"
    BY <2>2, <2>3 DEF Enrich, BatchOK, BatchFields, LookupFields
  <2>5. QED
    BY <1>2, <2>4
<1>12. CASE CheckCache(w)
  <2>1. At(w, "check") /\ ~At(w, "idle") /\ UNCHANGED <<lookup, alone>>
    BY <1>12 DEF CheckCache, Enriched, Advance, At, Continue
  <2>2. BatchOK(j)
    BY <1>6, <2>1 DEF LookupOK, At
  <2>3. CASE GoodForVendor(j.code, j.vendor, j.skip)
    BY <1>2, <1>12, <2>2, <2>3, EnrichedIsPlain DEF CheckCache
  <2>4. CASE ~GoodForVendor(j.code, j.vendor, j.skip)
    <3>1. job'[w] = [j EXCEPT !.step = "ask"]
      BY <1>1, <1>12, <2>4 DEF CheckCache, Advance, Continue
    <3>2. QED
      BY <1>7, <2>1, <2>4, <3>1
  <2>5. QED
    BY <2>3, <2>4
<1>13. CASE AskVendor(w)
  <2>1. At(w, "ask") /\ ~At(w, "idle") /\ UNCHANGED <<lookup, alone>>
    BY <1>13 DEF AskVendor, At, Continue
  <2>2. PICK r : job'[w] = [j EXCEPT !.step = "seek", !.says = r]
    BY <1>1, <1>13 DEF AskVendor, Continue
  <2>3. QED
    BY <1>7, <2>1, <2>2 DEF At
<1>14. CASE SaveEnrichment(w)
  <2>1. At(w, "save") /\ ~At(w, "idle") /\ j.what # "lookup"
    BY <1>14 DEF SaveEnrichment, At
  <2>2. BatchOK(j)
    BY <2>1, KindOf
  <2>3. Enriched(w, j.says, TRUE)
    BY <1>10, <1>14 DEF SaveEnrichment
  <2>4. QED
    BY <1>2, <2>2, <2>3, EnrichedIsPlain
<1>15. ASSUME NEW s \in Serials, LoadAsset(w, s) \/ StoreAsset(w, s)
       PROVE  Missing(job[w])'
  <2>1. At(w, "apply") /\ ~At(w, "idle") /\ UNCHANGED alone
    BY <1>15 DEF LoadAsset, StoreAsset, At, Answer, Continue
  <2>2. BatchOK(j)
    BY <1>6, <2>1 DEF LookupOK, At
  <2>3. \/ \E held : Continue(w, [j EXCEPT !.held = held])
        \/ \E got, kept : Continue(w, [j EXCEPT !.got = got, !.held = kept])
    <3>1. LoadAsset(w, s) => \E held : Continue(w, [j EXCEPT !.held = held])
      BY DEF LoadAsset
    <3>2. StoreAsset(w, s) => \/ Answer(w)
                              \/ \E got, kept : Continue(w, [j EXCEPT !.got = got, !.held = kept])
      BY DEF StoreAsset
    <3>3. QED
      BY <1>10, <1>15, <3>1, <3>2
  <2>4. \/ \E held : job'[w] = [j EXCEPT !.held = held]
         \/ \E got, kept : job'[w] = [j EXCEPT !.got = got, !.held = kept]
    BY <1>1, <2>3 DEF Continue
  <2>5. job'[w].step = "apply" /\ job'[w].what # "lookup"
    BY <2>1, <2>2, <2>4 DEF BatchOK, BatchFields, LookupFields, At
  <2>6. QED
    BY <1>2, <2>5
<1>16. QED
  BY <1>3, <1>4, <1>5, <1>8, <1>9, <1>10, <1>11, <1>12, <1>13, <1>14, <1>15
     DEF Begin, LookupSteps, VendorSteps, SaveLookup, NotInIntune

(* Only requests that save write a row, and a step of a request is of its worker. *)
LEMMA WhoWritesRows ==
  ASSUME LookupsInv, NEW w \in Workers, Begin(w) \/ LookupSteps(w) \/ VendorSteps(w)
  PROVE  /\ \A v \in Workers \ {w} : job'[v] = job[v]
         /\ \A v \in Workers \ {w} : alone'[v] => At(v, "idle")
         /\ UNCHANGED lookup \/ SaveLookup(w) \/ SaveEnrichment(w)
<1>1. (\E rest : Serve(w, rest)) \/ (~At(w, "idle") /\ \E rest : Continue(w, rest))
  BY DEF Begin, BeginLookup, BeginSync, BeginRefresh, LookupSteps, AskProviders, SeekRow,
         SaveLookup, VendorSteps, NotInIntune, FoundInIntune, CheckCache, AskVendor,
         SaveEnrichment, LoadAsset, StoreAsset, Enriched, Answer, Advance, At
<1>2. \A v \in Workers \ {w} : job'[v] = job[v] /\ (alone'[v] => At(v, "idle"))
  BY <1>1 DEF Serve, Continue, LookupsInv, LoneOK
<1>3. UNCHANGED lookup \/ SaveLookup(w) \/ SaveEnrichment(w)
  BY DEF Begin, BeginLookup, BeginSync, BeginRefresh, LookupSteps, AskProviders, SeekRow,
         VendorSteps, NotInIntune, FoundInIntune, CheckCache, AskVendor, LoadAsset, StoreAsset
<1>4. QED
  BY <1>2, <1>3

LEMMA LoneRowsStayMissing ==
  ASSUME LookupsInv, LoneRowsMissing, [Next]_vars
  PROVE  LoneRowsMissing'
<1>1. ASSUME NEW w \in Workers, Begin(w) \/ LookupSteps(w) \/ VendorSteps(w)
      PROVE  LoneRowsMissing'
  BY <1>1, WorkerFindsItMissing, WhoWritesRows DEF LoneRowsMissing, At
<1>2. ASSUME NEW c \in Serials, RowExpires(c)
      PROVE  LoneRowsMissing'
  <2>1. UNCHANGED <<job, alone>>
    BY <1>2 DEF RowExpires
  <2>2. \A d \in Serials : lookup'[d] = lookup[d] \/ (lookup'[d] # NULL /\ ~lookup'[d].fresh)
    <3>1. lookup[c] \in Row /\ lookup \in [Serials -> Row \cup {NULL}]
      BY <1>2 DEF RowExpires, LookupsInv, TablesOK
    <3>2. [lookup[c] EXCEPT !.fresh = FALSE] \in Row /\ ~[lookup[c] EXCEPT !.fresh = FALSE].fresh
      BY <3>1 DEF Row
    <3>3. lookup'[c] = [lookup[c] EXCEPT !.fresh = FALSE] /\ \A d \in Serials \ {c} : lookup'[d] = lookup[d]
      BY <1>2, <3>1 DEF RowExpires
    <3>4. QED
      BY <3>2, <3>3, NullIsNoRow
  <2>3. ASSUME NEW w \in Workers, alone[w], ~At(w, "idle")
        PROVE  Missing(job[w])'
    <3>1. job[w].what = "lookup" \/ job[w].step \in {"ask", "seek", "save"} => job[w].code \in Serials
      BY <2>3, KindOf DEF LookupOK, BatchOK
    <3>2. Missing(job[w])
      BY <2>3 DEF LoneRowsMissing
    <3>3. QED
      BY <2>1, <2>2, <3>1, <3>2 DEF Missing, GoodForLookup, GoodForVendor
  <2>4. QED
    BY <2>1, <2>3 DEF LoneRowsMissing, At
<1>3. ASSUME NEW s \in Serials, RenameAsset(s)
      PROVE  LoneRowsMissing'
  BY <1>3 DEF RenameAsset, Overtakes, LoneRowsMissing
<1>4. CASE Restart
  BY <1>4 DEF Restart, DropRequests, LoneRowsMissing, At, Idle
<1>5. CASE UNCHANGED vars
  BY <1>5 DEF vars, LoneRowsMissing, At, Missing, GoodForLookup, GoodForVendor
<1>6. QED
  BY <1>1, <1>2, <1>3, <1>4, <1>5 DEF Next

(***************************************************************************)
(* A fresh row with a friendly name loses the name only to requests that   *)
(* overlap or to an enrichment that could not use it: a request that goes  *)
(* on to ask and overlaps no other saw that the row would not do for it,   *)
(* and nobody has made it better since.                                    *)
(***************************************************************************)
THEOREM NamedRowsKeepTheirNames == Spec => NamedRowLostByKnownDoors
<1>1. ASSUME LookupsInv, LoneRowsMissing, Next, NEW w \in Workers, NEW c \in Serials,
             job'[w] # job[w], lookup[c] # NULL, lookup'[c] # NULL,
             lookup[c].fresh, lookup[c].name = "friendly", lookup'[c].name # "friendly", alone[w]
      PROVE  /\ job[w].what # "lookup"
             /\ ~lookup[c].warranty \/ lookup[c].source # job[w].vendor
  <2>1. PICK v \in Workers : Begin(v) \/ LookupSteps(v) \/ VendorSteps(v)
    BY <1>1 DEF Next, RowExpires, RenameAsset, Overtakes, Restart
  <2>2. v = w
    BY <1>1, <2>1, WhoWritesRows
  <2>3. SaveLookup(w) \/ SaveEnrichment(w)
    BY <1>1, <2>1, <2>2, WhoWritesRows
  <2>4. /\ At(w, "save") /\ ~At(w, "idle") /\ Saved(w)
        /\ job[w].what = "lookup" \/ ~(job[w].what = "lookup")
    BY <2>3 DEF SaveLookup, SaveEnrichment, At
  <2>5. job[w].code = c
    <3>1. lookup' = [lookup EXCEPT ![job[w].code] = lookup'[job[w].code]]
      BY <1>1, <2>4, LoneFindsItsRow DEF Saved, LookupsInv, TablesOK
    <3>2. lookup \in [Serials -> Row \cup {NULL}]
      BY <1>1 DEF LookupsInv, TablesOK
    <3>3. c # job[w].code => lookup'[c] = lookup[c]
      BY <3>1, <3>2
    <3>4. QED
      BY <1>1, <3>3
  <2>6. Missing(job[w])
    BY <1>1, <2>4 DEF LoneRowsMissing
  <2>7. QED
    BY <1>1, <2>4, <2>5, <2>6 DEF Missing, GoodForLookup, GoodForVendor, At
<1>2. LookupsInv /\ LoneRowsMissing /\ [Next]_vars =>
        [\A w \in Workers, c \in Serials :
           /\ job'[w] # job[w]
           /\ lookup[c] # NULL /\ lookup'[c] # NULL
           /\ lookup[c].fresh /\ lookup[c].name = "friendly" /\ lookup'[c].name # "friendly"
           => \/ ~alone[w]
              \/ /\ job[w].what # "lookup"
                 /\ ~lookup[c].warranty \/ lookup[c].source # job[w].vendor]_vars
  BY <1>1
<1>3. Init => LoneRowsMissing
  BY DEF Init, InitRequests, LoneRowsMissing
<1>4. LookupsInv /\ LoneRowsMissing /\ [Next]_vars => LoneRowsMissing'
  BY LoneRowsStayMissing
<1>5. QED
  BY <1>2, <1>3, <1>4, LookupsInvHolds, PTL DEF Spec, NamedRowLostByKnownDoors
=============================================================================
