---------------------------- MODULE MerakiProofs -----------------------------
(***************************************************************************)
(* Theorems about MerakiSync, for any number of workers, any networks,     *)
(* subnets, clients and assets and any history of the dashboard.           *)
(***************************************************************************)
EXTENDS MerakiSync, TLAPS, WellFoundedInduction

-----------------------------------------------------------------------------
(* What a sync holds at each of its steps. *)
Placings == [Assets -> Networks \cup {NULL}]
VlanSets == [Networks -> SUBSET Subnets]
Moves == UNION {[A -> Networks \cup {NULL}] : A \in SUBSET Assets}
ClientSets == UNION {[N -> SUBSET Clients] : N \in SUBSET Networks}

Rows ==
  [listing : SUBSET Networks, todo : SUBSET Networks, fresh : VlanSets, placed : Placings,
   had : VlanSets, dirty : SUBSET Networks, revive : SUBSET Networks, gone : SUBSET Networks]

RowSteps == {"rows", "insert", "commit"}

Steps ==
  RowSteps \cup
  {"devices", "list", "details", "relink", "setlinks", "askclients", "cached", "store"}

HeldAt(step) ==
  CASE step = "devices" -> [todo : SUBSET Assets]
    [] step \in {"list", "askclients"} -> {Nothing}
    [] step = "details" -> [listing : SUBSET Networks]
    [] step \in RowSteps -> Rows
    [] step = "relink" -> [placed : Placings]
    [] step = "setlinks" -> [moves : Moves]
    [] step = "cached" -> [fresh : ClientSets]
    [] step = "store" -> [fresh : ClientSets, had : ClientSets]

JobsAt(step) ==
  [step : {step}, full : BOOLEAN, since : Nat, ok : BOOLEAN, held : HeldAt(step)]

Jobs == {Idle} \cup UNION {JobsAt(step) : step \in Steps}

ColumnsOK ==
  /\ epoch \in 1..Len(Meraki)
  /\ network \in [Networks -> {"none", "active", "archived"}]
  /\ vlans \in VlanSets
  /\ clients \in [Networks -> SUBSET Clients]
  /\ asset \in [Assets -> {"none", "live", "archived"}]
  /\ link \in Placings
  /\ lastIp \in [Assets -> Ips \cup {NULL}]

TablesOK ==
  /\ ColumnsOK
  /\ job \in [Workers -> Jobs]
  /\ alone \in [Workers -> BOOLEAN]

(* What a sync holds that the dashboard has not changed under. *)
Fetched(j) ==
  /\ j.step \in RowSteps \cup {"details"} => j.held.listing = Dashboard.org
  /\ j.ok /\ j.step \in RowSteps =>
       /\ j.held.placed = Dashboard.home
       /\ \A n \in j.held.listing : j.held.fresh[n] = Dashboard.lan[n]
  /\ j.ok /\ j.step = "relink" => j.held.placed = Dashboard.home
  /\ j.ok /\ j.step \in {"cached", "store"} =>
       \A n \in DOMAIN j.held.fresh : j.held.fresh[n] = Dashboard.seen[n]

(* The record whose row is being inserted. *)
Newest(h, n) ==
  n \in (h.listing \ h.todo) \ h.dirty /\ \A m \in h.listing \ h.todo : m <= n

(* Records are taken in the order of the listing. *)
RowsOK(step, h) ==
  /\ h.todo \subseteq h.listing
  /\ h.dirty \subseteq h.listing \ h.todo
  /\ h.revive \subseteq h.dirty
  /\ h.gone \cap h.listing = {}
  /\ \A m \in h.listing \ h.todo, k \in h.todo : m < k
  /\ step = "insert" => \E n \in Networks : Newest(h, n)

(* What any sync holds, overlapped or not. *)
JobOK(j) ==
  j # Idle =>
    /\ j.since \in 1..epoch
    /\ j.since = epoch => Fetched(j)
    /\ j.step \in RowSteps => RowsOK(j.step, j.held)
    /\ j.step \in {"askclients", "cached", "store"} => j.full

-----------------------------------------------------------------------------
(* What an undisturbed sync knows of the tables. *)
Mirrored(n) == network[n] = "active" /\ vlans[n] = Dashboard.lan[n]

DevicesThere(todo) ==
  \A a \in Assets : Dashboard.home[a] # NULL /\ a \notin todo => asset[a] # "none"

(* The rows that wait in the session are as loaded, those before are stored. *)
RowsCurrent(h) ==
  \A n \in h.dirty :
    /\ h.had[n] = vlans[n]
    /\ network[n] \in {"active", "archived"}
    /\ n \in h.revive <=> network[n] = "archived"

IsNew(h, n) ==
  /\ Newest(h, n)
  /\ network[n] = "none"
  /\ \A m \in (h.listing \ h.todo) \ (h.dirty \cup {n}) : Mirrored(m)

NetworksMirrored ==
  /\ \A n \in Networks : network[n] = "active" <=> n \in Dashboard.org
  /\ \A n \in Dashboard.org : vlans[n] = Dashboard.lan[n]

NewLink(a) == IF asset[a] = "live" THEN LinkFor(a, Dashboard.home) ELSE link[a]

LinksMirrored ==
  \A a \in Assets : asset[a] = "live" /\ Dashboard.home[a] # NULL => link[a] = Dashboard.home[a]

ActiveNetworks == {n \in Networks : network[n] = "active"}

KnowsTables(j) ==
  /\ j.full => DevicesThere(IF j.step = "devices" THEN j.held.todo ELSE {})
  /\ j.step \in RowSteps => RowsCurrent(j.held)
  /\ j.step \in {"rows", "commit"} =>
       \A n \in (j.held.listing \ j.held.todo) \ j.held.dirty : Mirrored(n)
  /\ j.step = "insert" => \E n \in Networks : IsNew(j.held, n)
  /\ j.step = "commit" =>
       j.held.todo = {} /\ j.held.gone = ActiveNetworks \ j.held.listing
  /\ j.full /\ j.step \in {"relink", "setlinks", "askclients", "cached", "store"}
       => (Dashboard.org # {} => NetworksMirrored)
  /\ j.step = "setlinks" =>
       \A a \in Assets :
         NewLink(a) = IF a \in DOMAIN j.held.moves THEN j.held.moves[a] ELSE link[a]
  /\ j.full /\ j.step \in {"askclients", "cached", "store"}
       => (Dashboard.org # {} => LinksMirrored)
  /\ j.step \in {"cached", "store"} => DOMAIN j.held.fresh = ActiveNetworks
  /\ j.step = "store" => \A n \in DOMAIN j.held.fresh : j.held.had[n] = clients[n]

(* The links that are about to be written are to active networks. *)
MovesAreActive(j) ==
  j.step = "setlinks" =>
    \A a \in DOMAIN j.held.moves :
      j.held.moves[a] # NULL => network[j.held.moves[a]] = "active"

(* Undisturbed, of a job rather than of a worker. *)
Clean(j) == j # Idle /\ j.ok /\ j.since = epoch

LoneOK ==
  \A w \in Workers : alone[w] /\ job[w] # Idle =>
    /\ \A v \in Workers \ {w} : job[v] = Idle
    /\ MovesAreActive(job[w])
    /\ Clean(job[w]) => KnowsTables(job[w])

MerakiInv == TablesOK /\ (\A w \in Workers : JobOK(job[w])) /\ LoneOK

-----------------------------------------------------------------------------
LEMMA DashboardIsTyped ==
  ASSUME ColumnsOK
  PROVE  /\ Dashboard.org \subseteq Networks
         /\ Dashboard.lan \in VlanSets
         /\ Dashboard.home \in Placings
         /\ Dashboard.seen \in [Networks -> SUBSET Clients]
         /\ \A a \in Assets : Dashboard.home[a] \in Dashboard.org \cup {NULL}
<1>1. epoch \in DOMAIN Meraki
  BY MerakiIsTyped DEF ColumnsOK
<1> DEFINE Holds == [org : SUBSET Networks, lan : [Networks -> SUBSET Subnets],
                    home : [Assets -> Networks \cup {NULL}], seen : [Networks -> SUBSET Clients]]
<1>2. Dashboard \in Holds
  <2>1. Meraki \in Seq(Holds)
    BY MerakiIsTyped
  <2> HIDE DEF Holds
  <2>2. QED
    BY <1>1, <2>1 DEF Dashboard
<1>3. QED
  BY <1>1, <1>2, DevicesAreInNetworks DEF Dashboard, VlanSets, Placings

LEMMA NowhereIsTyped == Nowhere \in Placings /\ NoneOf \in VlanSets
BY DEF Nowhere, NoneOf, Placings, VlanSets

(* Among the subnets around an IP one is the most specific. *)
LEMMA MatchExists ==
  ASSUME NEW hits, hits \subseteq Nat \X Nat, hits # {}, NEW ip \in Nat,
         \A v \in hits : v[2] <= ip
  PROVE  \E u \in hits : \A v \in hits : u[2] > v[2] \/ (u[2] = v[2] /\ u[1] <= v[1])
<1> DEFINE R == {ss \in Nat \X Nat : ss[1] < ss[2]}
           Gaps == {ip - v[2] : v \in hits}
<1>1. IsWellFoundedOn(R, Nat)
  BY NatLessThanWellFounded DEF OpToRel
<1>2. PICK gap \in Gaps : \A g \in Gaps : ~(<<g, gap>> \in R)
  <2>1. \A v \in hits : ip - v[2] \in Nat
    <3>1. \A v \in hits : v[2] \in Nat
      OBVIOUS
    <3>2. QED
      BY <3>1
  <2>2. Gaps \subseteq Nat /\ Gaps # {}
    BY <2>1
  <2>3. QED
    BY <1>1, <2>2, WFMin
<1>3. PICK u \in hits : gap = ip - u[2]
  OBVIOUS
<1>4. ASSUME NEW v \in hits
      PROVE  v[2] <= u[2]
  <2>1. v[2] \in Nat /\ u[2] \in Nat /\ v[2] <= ip /\ u[2] <= ip
    OBVIOUS
  <2>2. <<ip - v[2], gap>> \notin R
    BY <1>2
  <2>3. ~(ip - v[2] < ip - u[2])
    BY <1>3, <2>1, <2>2
  <2>4. QED
    BY <2>1, <2>3
<1> DEFINE Best == {v[1] : v \in {x \in hits : x[2] = u[2]}}
<1>5. PICK n \in Best : \A m \in Best : ~(<<m, n>> \in R)
  <2>1. Best \subseteq Nat /\ Best # {}
    OBVIOUS
  <2>2. QED
    BY <1>1, <2>1, WFMin
<1>6. PICK b \in hits : b[2] = u[2] /\ b[1] = n
  OBVIOUS
<1>7. ASSUME NEW v \in hits
      PROVE  b[2] > v[2] \/ (b[2] = v[2] /\ b[1] <= v[1])
  <2>1. CASE v[2] = u[2]
    <3>1. v[1] \in Best
      BY <2>1
    <3>2. ~(v[1] < n)
      BY <1>5, <3>1
    <3>3. QED
      BY <1>6, <2>1, <3>2
  <2>2. CASE v[2] # u[2]
    BY <1>4, <1>6, <2>2
  <2>3. QED
    BY <2>1, <2>2
<1>8. QED
  BY <1>7

(* What an IP is matched to is an active network. *)
LEMMA MatchIsActive ==
  ASSUME ColumnsOK, NEW ip \in Ips
  PROVE  MatchIp(ip) \in ActiveNetworks \cup {NULL}
<1> DEFINE hits == {v \in VlanIndex : v[2] <= ip}
<1>1. VlanIndex \subseteq Nat \X Nat /\ ip \in Nat
  <2>1. VlanIndex \subseteq Networks \X Subnets
    BY DEF VlanIndex
  <2>2. Networks \subseteq Nat /\ Subnets \subseteq Nat
    BY KeysAreNumbers
  <2>3. ip \in Nat
    BY <2>2 DEF Ips
  <2>4. QED
    BY <2>1, <2>2, <2>3
<1>2. CASE hits = {}
  BY <1>2 DEF MatchIp
<1>3. CASE hits # {}
  <2>1. \E u \in hits : \A v \in hits : u[2] > v[2] \/ (u[2] = v[2] /\ u[1] <= v[1])
    BY <1>1, <1>3, MatchExists
  <2> DEFINE best == CHOOSE u \in hits : \A v \in hits : u[2] > v[2] \/ (u[2] = v[2] /\ u[1] <= v[1])
  <2>2. best \in hits
    BY <2>1
  <2>3. MatchIp(ip) = best[1]
    BY <1>3 DEF MatchIp
  <2>4. QED
    BY <2>2, <2>3 DEF VlanIndex, ActiveNetworks
<1>4. QED
  BY <1>2, <1>3

LEMMA LinkIsTyped ==
  ASSUME ColumnsOK, NEW a \in Assets, NEW placed \in Placings
  PROVE  LinkFor(a, placed) \in Networks \cup {NULL}
<1>1. lastIp[a] # NULL => MatchIp(lastIp[a]) \in Networks \cup {NULL}
  BY MatchIsActive DEF ColumnsOK, ActiveNetworks
<1>2. QED
  BY <1>1 DEF LinkFor, ColumnsOK, Placings

-----------------------------------------------------------------------------
(* A job at a step is a record with what that step holds. *)
LEMMA JobAtStep ==
  ASSUME TablesOK, NEW w \in Workers, NEW step \in Steps, At(w, step)
  PROVE  job[w] \in JobsAt(step) /\ ~At(w, "idle")
<1>1. job[w] \in Jobs
  BY DEF TablesOK
<1>2. "idle" \notin Steps
  BY DEF Steps, RowSteps
<1>3. job[w] # Idle
  BY <1>2 DEF At, Idle
<1>4. PICK s \in Steps : job[w] \in JobsAt(s)
  BY <1>1, <1>3 DEF Jobs
<1>5. s = step
  BY <1>4 DEF At, JobsAt
<1>6. QED
  BY <1>2, <1>4, <1>5 DEF At

LEMMA RestIsTyped ==
  ASSUME NEW w \in Workers, NEW step \in Steps, job[w] \in JobsAt(step), NEW next \in Steps,
         NEW ok \in BOOLEAN, NEW held \in HeldAt(next)
  PROVE  Rest(w, next, ok, held) \in Jobs
<1>1. Rest(w, next, ok, held) \in JobsAt(next)
  BY DEF Rest, JobsAt
<1>2. QED
  BY <1>1 DEF Jobs

-----------------------------------------------------------------------------
(* Nobody else is touched by a step of w: what is left to show is about w. *)
LEMMA Continues ==
  ASSUME MerakiInv, NEW w \in Workers, NEW rest \in Jobs, Continue(w, rest), job[w] # Idle,
         UNCHANGED epoch, ColumnsOK', JobOK(rest), alone[w] => MovesAreActive(rest)',
         alone[w] /\ Clean(rest) => KnowsTables(rest)'
  PROVE  MerakiInv'
<1>1. job' \in [Workers -> Jobs] /\ UNCHANGED alone
  BY DEF Continue, MerakiInv, TablesOK
<1>2. job'[w] = rest /\ \A v \in Workers \ {w} : job'[v] = job[v]
  BY DEF Continue, MerakiInv, TablesOK
<1>3. TablesOK'
  BY <1>1 DEF MerakiInv, TablesOK
<1>4. ASSUME NEW v \in Workers
      PROVE  JobOK(job[v])'
  <2>1. \A j : JobOK(j)' <=> JobOK(j)
    BY DEF JobOK, Fetched, Dashboard
  <2>2. JobOK(job'[v])
    BY <1>2 DEF MerakiInv
  <2>3. PICK j : j = job'[v]
    OBVIOUS
  <2>4. JobOK(j)'
    BY <2>1, <2>2, <2>3
  <2>5. QED
    BY <2>3, <2>4
<1>5. LoneOK'
  <2> SUFFICES ASSUME NEW v \in Workers, alone'[v], job'[v] # Idle
               PROVE  /\ \A u \in Workers \ {v} : job'[u] = Idle
                      /\ MovesAreActive(job[v])'
                      /\ Clean(job[v])' => KnowsTables(job[v])'
    BY DEF LoneOK
  <2>1. v = w
    BY <1>1, <1>2 DEF MerakiInv, LoneOK
  <2>2. \A u \in Workers \ {v} : job'[u] = Idle
    BY <1>1, <1>2, <2>1 DEF MerakiInv, LoneOK
  <2>3. Clean(rest)' <=> Clean(rest)
    BY DEF Clean
  <2>4. MovesAreActive(job[v])' /\ (Clean(job[v])' => KnowsTables(job[v])')
    BY <1>1, <1>2, <2>1, <2>3
  <2>5. QED
    BY <2>2, <2>4
<1>6. QED
  BY <1>3, <1>4, <1>5 DEF MerakiInv

(* What an undisturbed sync knows, at the worker. *)
LEMMA KnownNow ==
  ASSUME MerakiInv, NEW w \in Workers, job[w] # Idle
  PROVE  /\ JobOK(job[w])
         /\ alone[w] /\ job[w].ok /\ job[w].since = epoch => KnowsTables(job[w])
BY DEF MerakiInv, LoneOK, Clean

LEMMA Answers ==
  ASSUME MerakiInv, NEW w \in Workers, Answer(w), job[w] # Idle, UNCHANGED epoch, ColumnsOK'
  PROVE  MerakiInv'
<1>1. Idle \in Jobs /\ JobOK(Idle) /\ ~Clean(Idle) /\ MovesAreActive(Idle)'
  BY DEF Jobs, JobOK, Clean, MovesAreActive, Idle
<1>2. QED
  BY <1>1, Continues DEF Answer

(* A job that goes on keeps when it began. *)
LEMMA RestIsOK ==
  ASSUME MerakiInv, NEW w \in Workers, NEW step \in Steps, At(w, step), NEW next \in Steps,
         NEW ok \in BOOLEAN, NEW held \in HeldAt(next), NEW rest, rest = Rest(w, next, ok, held),
         Continue(w, rest), UNCHANGED epoch, ColumnsOK',
         rest.since = epoch => Fetched(rest),
         rest.step \in RowSteps => RowsOK(next, held),
         next \in {"askclients", "cached", "store"} => job[w].full,
         next # "setlinks" \/ (alone[w] => MovesAreActive(rest)'),
         alone[w] /\ ok /\ job[w].since = epoch => KnowsTables(rest)'
  PROVE  MerakiInv'
<1>1. job[w] \in JobsAt(step) /\ job[w] # Idle
  BY JobAtStep DEF MerakiInv, At, Idle
<1>2. rest \in Jobs
  BY <1>1, RestIsTyped
<1>3. /\ rest.since = job[w].since /\ rest.full = job[w].full
      /\ rest.step = next /\ rest.ok = ok /\ rest.held = held
  BY DEF Rest
<1>4. job[w].since \in 1..epoch
  BY <1>1, KnownNow DEF JobOK
<1>5. JobOK(rest)
  BY <1>3, <1>4 DEF JobOK
<1>6. alone[w] => MovesAreActive(rest)'
  BY <1>3 DEF MovesAreActive
<1>7. QED
  BY <1>1, <1>2, <1>3, <1>5, <1>6, Continues DEF Clean

(* The networks are done, and the clients follow if all is synced. *)
LEMMA NetworksAreDone ==
  ASSUME MerakiInv, NEW w \in Workers, NEW step \in Steps, At(w, step), NEW ok \in BOOLEAN,
         NetworksDone(w, ok), UNCHANGED epoch, ColumnsOK',
         alone[w] /\ ok /\ job[w].since = epoch /\ job[w].full =>
           /\ DevicesThere({})'
           /\ (Dashboard.org # {} => NetworksMirrored /\ LinksMirrored)'
  PROVE  MerakiInv'
<1>1. job[w] \in JobsAt(step) /\ job[w] # Idle
  BY JobAtStep DEF MerakiInv, At, Idle
<1>2. CASE Answer(w)
  BY <1>1, <1>2, Answers
<1>3. CASE job[w].full /\ Continue(w, Rest(w, "askclients", ok, Nothing))
  <2>1. PICK rest : rest = Rest(w, "askclients", ok, Nothing)
    OBVIOUS
  <2>2. "askclients" \in Steps /\ Nothing \in HeldAt("askclients")
    BY DEF Steps, HeldAt, RowSteps
  <2>3. rest.step = "askclients" /\ rest.full = job[w].full
    BY <2>1 DEF Rest
  <2>4. Fetched(rest) /\ rest.step \notin RowSteps
    BY <2>3 DEF Fetched, RowSteps
  <2>5. alone[w] /\ ok /\ job[w].since = epoch => KnowsTables(rest)'
    BY <1>3, <2>3 DEF KnowsTables, RowSteps
  <2>6. QED
    BY <1>3, <2>1, <2>2, <2>4, <2>5, RestIsOK
<1>4. QED
  BY <1>2, <1>3 DEF NetworksDone

-----------------------------------------------------------------------------
LEMMA HeldIs ==
  /\ HeldAt("devices") = [todo : SUBSET Assets]
  /\ HeldAt("list") = {Nothing} /\ HeldAt("askclients") = {Nothing}
  /\ HeldAt("details") = [listing : SUBSET Networks]
  /\ \A step \in RowSteps : HeldAt(step) = Rows
  /\ HeldAt("relink") = [placed : Placings]
  /\ HeldAt("setlinks") = [moves : Moves]
  /\ HeldAt("cached") = [fresh : ClientSets]
  /\ HeldAt("store") = [fresh : ClientSets, had : ClientSets]
BY DEF HeldAt, RowSteps

(* The job of a worker at a step: its types, and what it knows. *)
LEMMA JobAt ==
  ASSUME MerakiInv, NEW w \in Workers, NEW step \in Steps, At(w, step)
  PROVE  /\ job[w] # Idle /\ job[w].step = step
         /\ job[w].full \in BOOLEAN /\ job[w].ok \in BOOLEAN
         /\ job[w].since \in 1..epoch
         /\ job[w].held \in HeldAt(step)
         /\ JobOK(job[w])
         /\ alone[w] /\ job[w].ok /\ job[w].since = epoch => KnowsTables(job[w])
<1>1. job[w] \in JobsAt(step) /\ job[w] # Idle
  BY JobAtStep DEF MerakiInv, At, Idle
<1>2. QED
  BY <1>1, KnownNow DEF JobsAt, JobOK

LEMMA UpsertDeviceOK ==
  ASSUME MerakiInv, NEW w \in Workers, NEW a \in Assets, UpsertDevice(w, a)
  PROVE  MerakiInv'
<1>1. At(w, "devices") /\ "devices" \in Steps
  BY DEF UpsertDevice, Steps
<1>2. PICK j : j = job[w]
  OBVIOUS
<1>3. j.held \in [todo : SUBSET Assets] /\ j.step = "devices"
  BY <1>1, <1>2, JobAt, HeldIs
<1>4. PICK held : held = [todo |-> j.held.todo \ {a}]
  OBVIOUS
<1>5. held \in HeldAt("devices")
  BY <1>3, <1>4, HeldIs
<1>6. PICK rest : rest = Rest(w, "devices", j.ok, held)
  OBVIOUS
<1>7. Continue(w, rest) /\ UNCHANGED epoch
  BY <1>2, <1>4, <1>6 DEF UpsertDevice, GoTo
<1>8. ColumnsOK'
  BY DEF UpsertDevice, MerakiInv, TablesOK, ColumnsOK, netTables
<1>9. rest.step = "devices" /\ rest.held = held /\ rest.full = j.full /\ held.todo = j.held.todo \ {a}
  BY <1>2, <1>4, <1>6 DEF Rest
<1>10. Fetched(rest) /\ rest.step \notin RowSteps
  BY <1>9 DEF Fetched, RowSteps
<1>11. ASSUME KnowsTables(j)
       PROVE  KnowsTables(rest)'
  <2>1. j.full => DevicesThere(j.held.todo)
    BY <1>3, <1>11 DEF KnowsTables
  <2>2. j.full => DevicesThere(held.todo)'
    BY <1>9, <2>1 DEF DevicesThere, UpsertDevice, MerakiInv, TablesOK, ColumnsOK, Dashboard
  <2>3. QED
    BY <1>9, <2>2 DEF KnowsTables, RowSteps
<1>12. QED
  BY <1>1, <1>2, <1>5, <1>6, <1>7, <1>8, <1>10, <1>11, JobAt, RestIsOK

-----------------------------------------------------------------------------
(* The listing begins with all devices upserted, or with none to upsert. *)
LEMMA ListingAt ==
  ASSUME MerakiInv, NEW w \in Workers, Listing(w)
  PROVE  /\ \E step \in {"list", "devices"} : step \in Steps /\ At(w, step)
         /\ alone[w] /\ job[w].ok /\ job[w].since = epoch /\ job[w].full => DevicesThere({})
<1>1. {"list", "devices"} \subseteq Steps
  BY DEF Steps
<1>2. CASE At(w, "list")
  BY <1>1, <1>2, JobAt DEF KnowsTables
<1>3. CASE At(w, "devices") /\ job[w].held.todo = {}
  BY <1>1, <1>3, JobAt DEF KnowsTables
<1>4. QED
  BY <1>1, <1>2, <1>3 DEF Listing

LEMMA ListingFailsOK ==
  ASSUME MerakiInv, NEW w \in Workers, ListingFails(w)
  PROVE  MerakiInv'
<1>1. PICK step \in Steps : At(w, step)
  BY ListingAt DEF ListingFails
<1>2. UNCHANGED epoch /\ ColumnsOK'
  BY DEF ListingFails, MerakiInv, TablesOK, ColumnsOK, netTables, assetTables
<1>3. QED
  BY <1>1, <1>2, NetworksAreDone DEF ListingFails

LEMMA ListNetworksOK ==
  ASSUME MerakiInv, NEW w \in Workers, ListNetworks(w)
  PROVE  MerakiInv'
<1>1. PICK step \in Steps : At(w, step)
  BY ListingAt DEF ListNetworks
<1>2. UNCHANGED epoch /\ ColumnsOK' /\ ColumnsOK /\ UNCHANGED asset
  BY DEF ListNetworks, MerakiInv, TablesOK, ColumnsOK, netTables, assetTables
<1>3. alone[w] /\ job[w].ok /\ job[w].since = epoch /\ job[w].full => DevicesThere({})'
  BY <1>2, ListingAt DEF ListNetworks, DevicesThere, Dashboard
<1>4. job[w].ok \in BOOLEAN
  BY <1>1, JobAt
<1>5. CASE Dashboard.org = {} /\ (GoTo(w, "relink", [placed |-> Dashboard.home])
                                  \/ Fault(w, "relink", [placed |-> Nowhere]))
  <2>1. PICK held \in [placed : Placings], ok \in BOOLEAN :
          /\ ok => job[w].ok /\ held.placed = Dashboard.home
          /\ Continue(w, Rest(w, "relink", ok, held))
    <3>1. [placed |-> Dashboard.home] \in [placed : Placings] /\ [placed |-> Nowhere] \in [placed : Placings]
      BY <1>2, DashboardIsTyped, NowhereIsTyped
    <3>2. CASE GoTo(w, "relink", [placed |-> Dashboard.home])
      BY <1>4, <3>1, <3>2 DEF GoTo
    <3>3. CASE Fault(w, "relink", [placed |-> Nowhere])
      BY <3>1, <3>3 DEF Fault
    <3>4. QED
      BY <1>5, <3>2, <3>3
  <2>2. PICK rest : rest = Rest(w, "relink", ok, held)
    OBVIOUS
  <2>3. "relink" \in Steps /\ held \in HeldAt("relink")
    BY <2>1, HeldIs DEF Steps
  <2>4. rest.step = "relink" /\ rest.held = held /\ rest.ok = ok /\ rest.full = job[w].full
    BY <2>2 DEF Rest
  <2>5. Fetched(rest) /\ rest.step \notin RowSteps
    BY <2>1, <2>4 DEF Fetched, RowSteps
  <2>6. alone[w] /\ ok /\ job[w].since = epoch => KnowsTables(rest)'
    BY <1>2, <1>3, <1>5, <2>1, <2>4 DEF KnowsTables, RowSteps, Dashboard
  <2>7. QED
    BY <1>1, <1>2, <2>1, <2>2, <2>3, <2>5, <2>6, RestIsOK
<1>6. CASE GoTo(w, "details", [listing |-> Dashboard.org])
  <2>1. PICK held : held = [listing |-> Dashboard.org]
    OBVIOUS
  <2>2. PICK rest : rest = Rest(w, "details", job[w].ok, held)
    OBVIOUS
  <2>3. "details" \in Steps /\ held \in HeldAt("details")
    BY <1>2, <2>1, HeldIs, DashboardIsTyped DEF Steps
  <2>4. rest.step = "details" /\ rest.held = held /\ rest.ok = job[w].ok /\ rest.full = job[w].full
    BY <2>2 DEF Rest
  <2>5. Fetched(rest) /\ rest.step \notin RowSteps
    BY <2>1, <2>4 DEF Fetched, RowSteps
  <2>6. alone[w] /\ job[w].ok /\ job[w].since = epoch => KnowsTables(rest)'
    BY <1>3, <2>4 DEF KnowsTables, RowSteps
  <2>7. QED
    BY <1>1, <1>2, <1>4, <1>6, <2>1, <2>2, <2>3, <2>5, <2>6, RestIsOK DEF GoTo
<1>7. QED
  BY <1>5, <1>6 DEF ListNetworks

-----------------------------------------------------------------------------
(* The details of every network listed: none if its fetch failed. *)
LEMMA FetchDetailsOK ==
  ASSUME MerakiInv, NEW w \in Workers, FetchDetails(w)
  PROVE  MerakiInv'
<1>1. At(w, "details") /\ {"details", "rows"} \subseteq Steps /\ "rows" \in RowSteps
  BY DEF FetchDetails, Steps, RowSteps
<1>2. PICK j : j = job[w]
  OBVIOUS
<1>3. j.held \in [listing : SUBSET Networks] /\ j.step = "details" /\ j.ok \in BOOLEAN
  BY <1>1, <1>2, JobAt, HeldIs
<1>4. UNCHANGED epoch /\ ColumnsOK' /\ ColumnsOK
  BY DEF FetchDetails, MerakiInv, TablesOK, ColumnsOK, netTables, assetTables
<1>5. PICK failed, placed, fresh, held :
        /\ failed \subseteq j.held.listing \cap Failing
        /\ placed \in {Dashboard.home, Nowhere}
        /\ fresh = [n \in Networks |-> IF n \in j.held.listing \ failed THEN Dashboard.lan[n] ELSE {}]
        /\ held = [listing |-> j.held.listing, todo |-> j.held.listing, fresh |-> fresh,
                   placed |-> placed, had |-> NoneOf, dirty |-> {}, revive |-> {}, gone |-> {}]
        /\ IF failed = {} /\ placed = Dashboard.home
           THEN GoTo(w, "rows", held)
           ELSE Fault(w, "rows", held)
  BY <1>2 DEF FetchDetails
<1>6. PICK ok \in BOOLEAN :
        /\ ok => j.ok /\ failed = {} /\ placed = Dashboard.home
        /\ Continue(w, Rest(w, "rows", ok, held))
  <2>1. CASE failed = {} /\ placed = Dashboard.home
    BY <1>2, <1>3, <1>5, <2>1 DEF GoTo
  <2>2. CASE ~(failed = {} /\ placed = Dashboard.home)
    BY <1>5, <2>2 DEF Fault
  <2>3. QED
    BY <2>1, <2>2
<1>7. PICK rest : rest = Rest(w, "rows", ok, held)
  OBVIOUS
<1>8. rest.step = "rows" /\ rest.held = held /\ rest.ok = ok /\ rest.full = j.full /\ rest.since = j.since
  BY <1>2, <1>7 DEF Rest
<1>9. /\ held.listing = j.held.listing /\ held.todo = j.held.listing /\ held.fresh = fresh
      /\ held.placed = placed /\ held.dirty = {} /\ held.revive = {} /\ held.gone = {}
  BY <1>5
<1>10. held \in HeldAt("rows")
  <2>1. fresh \in VlanSets /\ placed \in Placings
    BY <1>4, <1>5, DashboardIsTyped, NowhereIsTyped DEF VlanSets
  <2>2. held \in Rows
    BY <1>3, <1>5, <2>1, NowhereIsTyped DEF Rows
  <2>3. QED
    BY <1>1, <2>2, HeldIs
<1>11. rest.since = epoch => Fetched(rest)
  <2>1. j.since = epoch => j.held.listing = Dashboard.org
    BY <1>1, <1>2, <1>3, JobAt DEF JobOK, Fetched, RowSteps
  <2>2. ok => \A n \in held.listing : held.fresh[n] = Dashboard.lan[n]
    BY <1>3, <1>5, <1>6, <1>9
  <2>3. QED
    BY <1>6, <1>8, <1>9, <2>1, <2>2 DEF Fetched, RowSteps
<1>12. alone[w] /\ ok /\ job[w].since = epoch => KnowsTables(rest)'
  <2>1. alone[w] /\ ok /\ job[w].since = epoch /\ j.full => DevicesThere({})
    BY <1>1, <1>2, <1>3, <1>6, JobAt DEF KnowsTables
  <2>2. DevicesThere({}) => DevicesThere({})'
    BY DEF DevicesThere, FetchDetails, Dashboard, assetTables
  <2>3. RowsCurrent(held)'
    BY <1>9 DEF RowsCurrent
  <2>4. QED
    BY <1>8, <1>9, <2>1, <2>2, <2>3 DEF KnowsTables, RowSteps
<1>13. RowsOK("rows", held)
  BY <1>9 DEF RowsOK
<1>14. QED
  BY <1>1, <1>4, <1>6, <1>7, <1>8, <1>10, <1>11, <1>12, <1>13, RestIsOK

(* A row is loaded, and waits in the session or for its insert. *)
LEMMA ReadRowOK ==
  ASSUME MerakiInv, NEW w \in Workers, NEW n \in Networks, ReadRow(w, n)
  PROVE  MerakiInv'
<1>1. At(w, "rows") /\ RowSteps \subseteq Steps /\ {"rows", "insert"} \subseteq RowSteps
  BY DEF ReadRow, Steps, RowSteps
<1>2. PICK j : j = job[w]
  OBVIOUS
<1>3. j.held \in Rows /\ j.step = "rows" /\ j.ok \in BOOLEAN
  BY <1>1, <1>2, JobAt, HeldIs
<1>4. /\ UNCHANGED <<epoch, network, vlans, asset>> /\ ColumnsOK' /\ ColumnsOK
      /\ n \in j.held.todo /\ \A m \in j.held.todo : n <= m
  BY <1>2 DEF ReadRow, MerakiInv, TablesOK, ColumnsOK, netTables, assetTables
<1>a. PICK h : h = [j.held EXCEPT !.todo = @ \ {n}]
  OBVIOUS
<1>b. PICK r \in SUBSET Networks :
        r = IF network[n] = "archived" THEN j.held.revive \cup {n} ELSE j.held.revive
  BY <1>3 DEF Rows
<1>5. PICK next, held :
        /\ next \in {"rows", "insert"}
        /\ Continue(w, Rest(w, next, j.ok, held))
        /\ next = "insert" =>
             network[n] = "none" /\ held = h
        /\ next = "rows" =>
             /\ network[n] # "none"
             /\ held = [h EXCEPT !.had[n] = vlans[n], !.dirty = @ \cup {n}, !.revive = r]
  <2>1. CASE network[n] = "none"
    BY <1>2, <1>a, <2>1 DEF ReadRow, GoTo
  <2>2. CASE network[n] # "none"
    <3>1. h.revive = j.held.revive
      BY <1>3, <1>a DEF Rows
    <3>2. r = IF network[n] = "archived" THEN h.revive \cup {n} ELSE h.revive
      BY <1>b, <3>1
    <3>3. QED
      BY <1>2, <1>a, <2>2, <3>2 DEF ReadRow, GoTo
  <2>3. QED
    BY <2>1, <2>2
<1> DEFINE rows == next = "rows"
<1>6. /\ held \in Rows
      /\ held.listing = j.held.listing /\ held.todo = j.held.todo \ {n} /\ held.fresh = j.held.fresh
      /\ held.placed = j.held.placed /\ held.gone = j.held.gone
      /\ held.had = IF rows THEN [j.held.had EXCEPT ![n] = vlans[n]] ELSE j.held.had
      /\ held.dirty = IF rows THEN j.held.dirty \cup {n} ELSE j.held.dirty
      /\ held.revive = IF rows /\ network[n] = "archived" THEN j.held.revive \cup {n} ELSE j.held.revive
  <2>1. vlans[n] \in SUBSET Subnets
    BY <1>4 DEF ColumnsOK, VlanSets
  <2>a. /\ h \in Rows
        /\ h.listing = j.held.listing /\ h.todo = j.held.todo \ {n} /\ h.fresh = j.held.fresh
        /\ h.placed = j.held.placed /\ h.gone = j.held.gone /\ h.had = j.held.had
        /\ h.dirty = j.held.dirty /\ h.revive = j.held.revive
    BY <1>3, <1>a DEF Rows
  <2>2. CASE next = "insert"
    BY <1>5, <2>2, <2>a
  <2>3. CASE next = "rows"
    <3>1. held = [h EXCEPT !.had[n] = vlans[n], !.dirty = @ \cup {n}, !.revive = r]
      BY <1>5, <2>3
    <3>2. held \in Rows
      BY <2>1, <2>a, <3>1 DEF Rows, VlanSets
    <3>3. /\ held.listing = h.listing /\ held.todo = h.todo /\ held.fresh = h.fresh
          /\ held.placed = h.placed /\ held.gone = h.gone
          /\ held.had = [h.had EXCEPT ![n] = vlans[n]]
          /\ held.dirty = h.dirty \cup {n} /\ held.revive = r
      BY <2>a, <3>1 DEF Rows
    <3>4. QED
      BY <1>b, <2>3, <2>a, <3>2, <3>3
  <2>5. QED
    BY <1>5, <2>2, <2>3
<1>7. PICK rest : rest = Rest(w, next, j.ok, held)
  OBVIOUS
<1>8. rest.step = next /\ rest.held = held /\ rest.ok = j.ok /\ rest.full = j.full /\ rest.since = j.since
  BY <1>2, <1>7 DEF Rest
<1>9. RowsOK("rows", j.held) /\ (j.since = epoch => Fetched(j))
  BY <1>1, <1>2, <1>3, JobAt DEF JobOK
<1>10. rest.since = epoch => Fetched(rest)
  BY <1>1, <1>3, <1>5, <1>6, <1>8, <1>9 DEF Fetched, RowSteps
<1>11. RowsOK(next, held) /\ (next = "insert" => Newest(held, n))
  <2>1. j.held.listing \subseteq Nat
    BY <1>3, KeysAreNumbers DEF Rows
  <2>2. n \in j.held.listing /\ n \notin j.held.dirty
    BY <1>4, <1>9 DEF RowsOK
  <2>3. /\ held.todo \subseteq held.listing
        /\ held.dirty \subseteq held.listing \ held.todo
        /\ held.revive \subseteq held.dirty
        /\ held.gone \cap held.listing = {}
    BY <1>4, <1>6, <1>9, <2>2 DEF RowsOK
  <2>4. \A m \in held.listing \ held.todo, k \in held.todo : m < k
    <3>1. \A k \in held.todo : n < k
      BY <1>4, <1>6, <1>9, <2>1 DEF RowsOK
    <3>2. QED
      BY <1>6, <1>9, <3>1 DEF RowsOK
  <2>5. ASSUME next = "insert"
        PROVE  Newest(held, n)
    <3>1. \A m \in j.held.listing \ j.held.todo : m < n
      BY <1>4, <1>9 DEF RowsOK
    <3>2. QED
      BY <1>4, <1>6, <2>1, <2>2, <2>5, <3>1 DEF Newest
  <2>6. QED
    BY <2>3, <2>4, <2>5 DEF RowsOK
<1>12. ASSUME KnowsTables(j)
       PROVE  KnowsTables(rest)'
  <2>1. j.full => DevicesThere({})'
    BY <1>3, <1>4, <1>12 DEF KnowsTables, DevicesThere, Dashboard
  <2>2. RowsCurrent(held)'
    <3>1. RowsCurrent(j.held)
      BY <1>1, <1>3, <1>12 DEF KnowsTables
    <3>3. ASSUME NEW m \in held.dirty
          PROVE  /\ held.had[m] = vlans[m]
                 /\ network[m] \in {"active", "archived"}
                 /\ m \in held.revive <=> network[m] = "archived"
      <4>1. CASE m # n
        BY <1>3, <1>6, <3>1, <4>1 DEF RowsCurrent, Rows, VlanSets
      <4>2. CASE m = n
        <5>1. next = "rows"
          BY <1>4, <1>5, <1>6, <1>9, <4>2 DEF RowsOK
        <5>2. n \notin j.held.revive
          BY <1>4, <1>9 DEF RowsOK
        <5>3. QED
          BY <1>3, <1>4, <1>5, <1>6, <4>2, <5>1, <5>2 DEF Rows, VlanSets, ColumnsOK
      <4>3. QED
        BY <4>1, <4>2
    <3>4. QED
      BY <1>4, <3>3 DEF RowsCurrent
  <2>3. \A m \in (j.held.listing \ j.held.todo) \ j.held.dirty : Mirrored(m)'
    BY <1>3, <1>4, <1>12 DEF KnowsTables, Mirrored, Dashboard
  <2>4. CASE next = "rows"
    <3>1. \A m \in (held.listing \ held.todo) \ held.dirty : Mirrored(m)'
      BY <1>6, <2>3, <2>4
    <3>2. QED
      BY <1>8, <2>1, <2>2, <2>4, <3>1 DEF KnowsTables, RowSteps
  <2>5. CASE next = "insert"
    <3>3. \A m \in (held.listing \ held.todo) \ (held.dirty \cup {n}) : Mirrored(m)'
      BY <1>6, <2>3, <2>5
    <3>4. IsNew(held, n)'
      BY <1>4, <1>5, <1>11, <2>5, <3>3 DEF IsNew, Newest
    <3>5. QED
      BY <1>8, <2>1, <2>2, <2>5, <3>4 DEF KnowsTables, RowSteps
  <2>6. QED
    BY <1>5, <2>4, <2>5
<1>13. QED
  BY <1>1, <1>2, <1>3, <1>4, <1>5, <1>6, <1>7, <1>10, <1>11, <1>12, JobAt, HeldIs, RestIsOK

-----------------------------------------------------------------------------
LEMMA FlushIsTyped ==
  ASSUME ColumnsOK, NEW h \in Rows
  PROVE  /\ Revived(h) \in [Networks -> {"none", "active", "archived"}]
         /\ FlushedVlans(h) \in VlanSets
BY DEF ColumnsOK, Rows, Revived, FlushedVlans, VlanSets

(* A flush leaves alone what is not in the session. *)
LEMMA FlushElsewhere ==
  ASSUME ColumnsOK, NEW h \in Rows, h.revive \subseteq h.dirty, NEW n \in Networks \ h.dirty
  PROVE  Revived(h)[n] = network[n] /\ FlushedVlans(h)[n] = vlans[n]
BY DEF Revived, FlushedVlans

(* A flush of rows that are as loaded stores them. *)
LEMMA FlushStores ==
  ASSUME ColumnsOK, NEW h \in Rows, RowsCurrent(h), h.dirty \subseteq h.listing,
         \A n \in h.listing : h.fresh[n] = Dashboard.lan[n]
  PROVE  /\ ~VlanExists(h)
         /\ \A n \in h.dirty : Revived(h)[n] = "active" /\ FlushedVlans(h)[n] = Dashboard.lan[n]
<1>1. ~VlanExists(h)
  BY DEF VlanExists, RowsCurrent
<1>2. ASSUME NEW n \in h.dirty
      PROVE  Revived(h)[n] = "active" /\ FlushedVlans(h)[n] = Dashboard.lan[n]
  <2>1. n \in Networks /\ n \in h.listing
    BY DEF Rows
  <2>2. h.had[n] = vlans[n] /\ h.fresh[n] = Dashboard.lan[n]
    BY <2>1 DEF RowsCurrent
  <2>3. Revived(h)[n] = "active"
    BY <2>1 DEF RowsCurrent, Revived
  <2>4. FlushedVlans(h)[n] = (vlans[n] \cup (h.fresh[n] \ h.had[n])) \ (h.had[n] \ h.fresh[n])
    BY <2>1 DEF FlushedVlans
  <2>5. QED
    BY <2>2, <2>3, <2>4
<1>3. QED
  BY <1>1, <1>2

(* The flush before the insert of a new network, and the insert. *)
LEMMA InsertRowOK ==
  ASSUME MerakiInv, NEW w \in Workers, InsertRow(w)
  PROVE  MerakiInv'
<1>1. At(w, "insert") /\ RowSteps \subseteq Steps /\ {"rows", "insert"} \subseteq RowSteps
  BY DEF InsertRow, Steps, RowSteps
<1>2. PICK j : j = job[w]
  OBVIOUS
<1>3. PICK h \in Rows : h = j.held
  BY <1>1, <1>2, JobAt, HeldIs
<1>4. j.step = "insert" /\ j.ok \in BOOLEAN /\ RowsOK("insert", h) /\ (j.since = epoch => Fetched(j))
  BY <1>1, <1>2, <1>3, JobAt DEF JobOK
<1>5. PICK n : n = LastTaken(h)
  OBVIOUS
<1>6. n \in Networks /\ Newest(h, n) /\ \A m \in Networks : Newest(h, m) => m = n
  <2>1. h.listing \subseteq Nat
    BY <1>3, KeysAreNumbers DEF Rows
  <2>2. PICK m \in Networks : Newest(h, m)
    BY <1>4 DEF RowsOK
  <2>3. n \in h.listing \ h.todo /\ \A k \in h.listing \ h.todo : k <= n
    BY <1>5, <2>2 DEF LastTaken, Newest
  <2>4. \A k \in Networks : Newest(h, k) => k = n
    BY <2>1, <2>3 DEF Newest
  <2>5. QED
    BY <2>2, <2>4
<1>7. PICK rest :
        rest = [h EXCEPT !.dirty = {n}, !.revive = {}, !.had = [NoneOf EXCEPT ![n] = vlans[n]]]
  OBVIOUS
<1>8. /\ UNCHANGED <<epoch, clients, asset, link, lastIp>>
      /\ network' = IF network[n] = "none" THEN [Revived(h) EXCEPT ![n] = "active"] ELSE Revived(h)
      /\ IF network[n] = "none" /\ ~VlanExists(h)
         THEN vlans' = FlushedVlans(h) /\ GoTo(w, "rows", rest)
         ELSE UNCHANGED vlans /\ NetworksDone(w, FALSE)
  BY <1>2, <1>3, <1>5, <1>7 DEF InsertRow, assetTables
<1>9. ColumnsOK /\ ColumnsOK'
  <2>1. ColumnsOK
    BY DEF MerakiInv, TablesOK
  <2>2. network' \in [Networks -> {"none", "active", "archived"}] /\ vlans' \in VlanSets
    BY <1>6, <1>8, <2>1, FlushIsTyped DEF ColumnsOK
  <2>3. QED
    BY <1>8, <2>1, <2>2 DEF ColumnsOK
<1>10. CASE ~(network[n] = "none" /\ ~VlanExists(h))
  BY <1>1, <1>8, <1>9, <1>10, NetworksAreDone
<1>11. CASE network[n] = "none" /\ ~VlanExists(h)
  <2>1. PICK vs \in SUBSET Subnets : vs = vlans[n]
    BY <1>6, <1>9 DEF ColumnsOK, VlanSets
  <2>2. PICK had \in VlanSets : had = [NoneOf EXCEPT ![n] = vlans[n]]
    BY <2>1 DEF NoneOf, VlanSets
  <2>3. had[n] = vlans[n]
    BY <1>6, <2>2 DEF NoneOf
  <2>4. rest = [h EXCEPT !.dirty = {n}, !.revive = {}, !.had = had]
    BY <1>7, <2>2
  <2>5. /\ rest \in Rows
        /\ rest.listing = h.listing /\ rest.todo = h.todo /\ rest.fresh = h.fresh
        /\ rest.placed = h.placed /\ rest.gone = h.gone
        /\ rest.dirty = {n} /\ rest.revive = {} /\ rest.had = had
    BY <1>6, <2>4 DEF Rows
  <2>6. RowsOK("rows", rest)
    BY <1>4, <1>6, <2>5 DEF RowsOK, Newest
  <2>7. PICK left : left = Rest(w, "rows", j.ok, rest)
    OBVIOUS
  <2>8. left.step = "rows" /\ left.held = rest /\ left.ok = j.ok /\ left.full = j.full /\ left.since = j.since
    BY <1>2, <2>7 DEF Rest
  <2>9. left.since = epoch => Fetched(left)
    BY <1>1, <1>3, <1>4, <2>5, <2>8 DEF Fetched, RowSteps
  <2>10. ASSUME KnowsTables(j), j.ok, j.since = epoch
         PROVE  KnowsTables(left)'
    <3>1. j.full => DevicesThere({})'
      BY <1>4, <1>8, <2>10 DEF KnowsTables, DevicesThere, Dashboard
    <3>2. RowsCurrent(h) /\ \E m \in Networks : IsNew(h, m)
      BY <1>1, <1>3, <1>4, <2>10 DEF KnowsTables
    <3>3. \A m \in (h.listing \ h.todo) \ (h.dirty \cup {n}) : Mirrored(m)
      BY <1>6, <3>2 DEF IsNew
    <3>4. /\ h.listing \subseteq Networks /\ h.revive \subseteq h.dirty /\ h.dirty \subseteq h.listing
          /\ n \notin h.dirty
          /\ \A m \in h.listing : h.fresh[m] = Dashboard.lan[m]
      BY <1>1, <1>3, <1>4, <1>6, <2>10 DEF RowsOK, Rows, Fetched, Newest
    <3>5. /\ network' = [Revived(h) EXCEPT ![n] = "active"]
          /\ Revived(h) \in [Networks -> {"none", "active", "archived"}]
          /\ vlans' = FlushedVlans(h)
      BY <1>8, <1>9, <1>11, FlushIsTyped
    <3>6. ASSUME NEW m \in (h.listing \ h.todo) \ {n}
          PROVE  Mirrored(m)'
      <4>1. m \in Networks
        BY <3>4
      <4>2. network'[m] = Revived(h)[m] /\ vlans'[m] = FlushedVlans(h)[m]
        BY <3>5, <4>1
      <4>3. CASE m \in h.dirty
        <5>1. Revived(h)[m] = "active" /\ FlushedVlans(h)[m] = Dashboard.lan[m]
          BY <1>9, <3>2, <3>4, <4>3, FlushStores
        <5>2. QED
          BY <1>8, <4>2, <5>1 DEF Mirrored, Dashboard
      <4>4. CASE m \notin h.dirty
        <5>1. Revived(h)[m] = network[m] /\ FlushedVlans(h)[m] = vlans[m]
          BY <1>9, <3>4, <4>1, <4>4, FlushElsewhere
        <5>2. QED
          BY <1>8, <3>3, <4>2, <4>4, <5>1 DEF Mirrored, Dashboard
      <4>5. QED
        BY <4>3, <4>4
    <3>7. RowsCurrent(rest)'
      <4>1. vlans'[n] = vlans[n]
        BY <1>6, <1>9, <3>4, <3>5, FlushElsewhere
      <4>2. network'[n] = "active"
        BY <1>6, <3>5
      <4>3. QED
        BY <2>3, <2>5, <4>1, <4>2 DEF RowsCurrent
    <3>8. \A m \in (rest.listing \ rest.todo) \ rest.dirty : Mirrored(m)'
      BY <2>5, <3>6
    <3>9. QED
      BY <2>8, <3>1, <3>7, <3>8 DEF KnowsTables, RowSteps
  <2>11. rest \in HeldAt("rows") /\ GoTo(w, "rows", rest)
    BY <1>1, <1>8, <1>11, <2>5, HeldIs
  <2>12. QED
    BY <1>1, <1>2, <1>4, <1>8, <1>9, <2>6, <2>7, <2>9, <2>10, <2>11, JobAt, RestIsOK DEF GoTo
<1>12. QED
  BY <1>10, <1>11

-----------------------------------------------------------------------------
LEMMA ReadGoneOK ==
  ASSUME MerakiInv, NEW w \in Workers, ReadGone(w)
  PROVE  MerakiInv'
<1>1. At(w, "rows") /\ RowSteps \subseteq Steps /\ {"rows", "commit"} \subseteq RowSteps
  BY DEF ReadGone, Steps, RowSteps
<1>2. PICK j : j = job[w]
  OBVIOUS
<1>3. PICK h \in Rows : h = j.held
  BY <1>1, <1>2, JobAt, HeldIs
<1>4. j.step = "rows" /\ j.ok \in BOOLEAN /\ RowsOK("rows", h) /\ (j.since = epoch => Fetched(j))
  BY <1>1, <1>2, <1>3, JobAt DEF JobOK
<1>5. PICK gone \in SUBSET Networks : gone = ActiveNetworks \ h.listing
  BY DEF ActiveNetworks
<1>6. PICK held : held = [h EXCEPT !.gone = gone]
  OBVIOUS
<1>7. gone = {n \in Networks \ h.listing : network[n] = "active"}
  BY <1>5 DEF ActiveNetworks
<1>8. /\ UNCHANGED <<epoch, network, vlans, asset>> /\ ColumnsOK' /\ h.todo = {}
      /\ GoTo(w, "commit", held)
  BY <1>2, <1>3, <1>6, <1>7 DEF ReadGone, MerakiInv, TablesOK, ColumnsOK, netTables, assetTables
<1>9. /\ held \in Rows
      /\ held.listing = h.listing /\ held.todo = h.todo /\ held.fresh = h.fresh /\ held.placed = h.placed
      /\ held.had = h.had /\ held.dirty = h.dirty /\ held.revive = h.revive /\ held.gone = gone
  BY <1>6 DEF Rows
<1>10. PICK rest : rest = Rest(w, "commit", j.ok, held)
  OBVIOUS
<1>11. rest.step = "commit" /\ rest.held = held /\ rest.ok = j.ok /\ rest.full = j.full /\ rest.since = j.since
  BY <1>2, <1>10 DEF Rest
<1>12. RowsOK("commit", held)
  BY <1>4, <1>5, <1>9 DEF RowsOK
<1>13. rest.since = epoch => Fetched(rest)
  BY <1>1, <1>3, <1>4, <1>9, <1>11 DEF Fetched, RowSteps
<1>14. ASSUME KnowsTables(j)
       PROVE  KnowsTables(rest)'
  <2>1. j.full => DevicesThere({})'
    BY <1>4, <1>8, <1>14 DEF KnowsTables, DevicesThere, Dashboard
  <2>2. RowsCurrent(held)'
    BY <1>1, <1>3, <1>4, <1>8, <1>9, <1>14 DEF KnowsTables, RowsCurrent
  <2>3. \A n \in (held.listing \ held.todo) \ held.dirty : Mirrored(n)'
    BY <1>3, <1>4, <1>8, <1>9, <1>14 DEF KnowsTables, Mirrored, Dashboard
  <2>4. held.todo = {} /\ held.gone = (ActiveNetworks \ held.listing)'
    BY <1>5, <1>8, <1>9 DEF ActiveNetworks
  <2>5. QED
    BY <1>11, <2>1, <2>2, <2>3, <2>4 DEF KnowsTables, RowSteps
<1>15. QED
  BY <1>1, <1>2, <1>4, <1>8, <1>9, <1>10, <1>12, <1>13, <1>14, JobAt, HeldIs, RestIsOK DEF GoTo

(* The last flush of an undisturbed sync leaves what Meraki says. *)
LEMMA CommitNetworksOK ==
  ASSUME MerakiInv, NEW w \in Workers, CommitNetworks(w)
  PROVE  MerakiInv'
<1>1. At(w, "commit") /\ RowSteps \cup {"relink"} \subseteq Steps /\ "commit" \in RowSteps
  BY DEF CommitNetworks, Steps, RowSteps
<1>2. PICK j : j = job[w]
  OBVIOUS
<1>3. PICK h \in Rows : h = j.held
  BY <1>1, <1>2, JobAt, HeldIs
<1>4. j.step = "commit" /\ j.ok \in BOOLEAN /\ RowsOK("commit", h) /\ (j.since = epoch => Fetched(j))
  BY <1>1, <1>2, <1>3, JobAt DEF JobOK
<1>5. PICK held : held = [placed |-> h.placed]
  OBVIOUS
<1>6. /\ UNCHANGED <<epoch, clients, asset, link, lastIp>>
      /\ network' = [n \in Networks |-> IF n \in h.gone THEN "archived" ELSE Revived(h)[n]]
      /\ IF VlanExists(h)
         THEN UNCHANGED vlans /\ NetworksDone(w, FALSE)
         ELSE vlans' = FlushedVlans(h) /\ GoTo(w, "relink", held)
  BY <1>2, <1>3, <1>5 DEF CommitNetworks, assetTables
<1>7. ColumnsOK /\ ColumnsOK'
  <2>1. ColumnsOK
    BY DEF MerakiInv, TablesOK
  <2>2. network' \in [Networks -> {"none", "active", "archived"}] /\ vlans' \in VlanSets
    BY <1>6, <2>1, FlushIsTyped DEF ColumnsOK
  <2>3. QED
    BY <1>6, <2>1, <2>2 DEF ColumnsOK
<1>8. CASE VlanExists(h)
  BY <1>1, <1>6, <1>7, <1>8, NetworksAreDone
<1>9. CASE ~VlanExists(h)
  <2>1. held \in HeldAt("relink") /\ held.placed = h.placed
    BY <1>5, HeldIs DEF Rows
  <2>2. PICK rest : rest = Rest(w, "relink", j.ok, held)
    OBVIOUS
  <2>3. rest.step = "relink" /\ rest.held = held /\ rest.ok = j.ok /\ rest.full = j.full /\ rest.since = j.since
    BY <1>2, <2>2 DEF Rest
  <2>4. (rest.since = epoch => Fetched(rest)) /\ rest.step \notin RowSteps
    BY <1>1, <1>3, <1>4, <2>1, <2>3 DEF Fetched, RowSteps
  <2>5. ASSUME KnowsTables(j), j.ok, j.since = epoch
        PROVE  KnowsTables(rest)'
    <3>1. j.full => DevicesThere({})'
      BY <1>4, <1>6, <2>5 DEF KnowsTables, DevicesThere, Dashboard
    <3>2. /\ RowsCurrent(h) /\ h.todo = {} /\ h.gone = ActiveNetworks \ h.listing
          /\ \A n \in h.listing \ h.dirty : Mirrored(n)
      BY <1>1, <1>3, <1>4, <2>5 DEF KnowsTables
    <3>3. /\ h.listing = Dashboard.org /\ h.listing \subseteq Networks /\ h.revive \subseteq h.dirty
          /\ h.dirty \subseteq h.listing /\ h.gone \cap h.listing = {}
          /\ \A n \in h.listing : h.fresh[n] = Dashboard.lan[n]
      BY <1>1, <1>3, <1>4, <2>5 DEF RowsOK, Rows, Fetched
    <3>4. vlans' = FlushedVlans(h)
      BY <1>6, <1>9
    <3>5. ASSUME NEW n \in h.listing
          PROVE  network'[n] = "active" /\ vlans'[n] = Dashboard.lan[n]
      <4>1. n \in Networks /\ network'[n] = Revived(h)[n]
        BY <1>6, <3>3
      <4>2. CASE n \in h.dirty
        BY <1>7, <3>2, <3>3, <3>4, <4>1, <4>2, FlushStores
      <4>3. CASE n \notin h.dirty
        BY <1>7, <3>2, <3>3, <3>4, <4>1, <4>3, FlushElsewhere DEF Mirrored
      <4>4. QED
        BY <4>2, <4>3
    <3>6. ASSUME NEW n \in Networks \ h.listing
          PROVE  network'[n] # "active"
      <4>1. n \notin h.gone => Revived(h)[n] = network[n] /\ network[n] # "active"
        BY <1>7, <3>2, <3>3, FlushElsewhere DEF ActiveNetworks
      <4>2. QED
        BY <1>6, <4>1
    <3>7. NetworksMirrored'
      BY <1>6, <3>3, <3>5, <3>6 DEF NetworksMirrored, Dashboard
    <3>8. QED
      BY <2>3, <3>1, <3>7 DEF KnowsTables, RowSteps
  <2>6. GoTo(w, "relink", held)
    BY <1>6, <1>9
  <2>7. QED
    BY <1>1, <1>2, <1>4, <1>6, <1>7, <2>1, <2>2, <2>4, <2>5, <2>6, JobAt, RestIsOK DEF GoTo
<1>10. QED
  BY <1>8, <1>9

-----------------------------------------------------------------------------
(* What a relinking that knows where devices are gives an asset. *)
LEMMA NewLinkIs ==
  ASSUME ColumnsOK, NEW a \in Assets
  PROVE  /\ NewLink(a) \in Networks \cup {NULL}
         /\ asset[a] = "live" /\ Dashboard.home[a] # NULL /\ network[Dashboard.home[a]] = "active"
              => NewLink(a) = Dashboard.home[a]
<1>1. Dashboard.home \in Placings
  BY DashboardIsTyped
<1>2. LinkFor(a, Dashboard.home) \in Networks \cup {NULL}
  BY <1>1, LinkIsTyped
<1>3. Dashboard.home[a] # NULL /\ network[Dashboard.home[a]] = "active"
        => LinkFor(a, Dashboard.home) = Dashboard.home[a]
  BY DEF LinkFor
<1>4. QED
  BY <1>2, <1>3 DEF NewLink, ColumnsOK, Placings

(* If the networks and devices are as Meraki says, so will the links be. *)
LEMMA NewLinksMirror ==
  ASSUME ColumnsOK, NetworksMirrored
  PROVE  \A a \in Assets : asset[a] = "live" /\ Dashboard.home[a] # NULL
                            => NewLink(a) = Dashboard.home[a]
<1> SUFFICES ASSUME NEW a \in Assets, asset[a] = "live", Dashboard.home[a] # NULL
             PROVE  NewLink(a) = Dashboard.home[a]
  OBVIOUS
<1>1. Dashboard.home[a] \in Dashboard.org /\ Dashboard.org \subseteq Networks
  BY DashboardIsTyped
<1>2. QED
  BY <1>1, NewLinkIs DEF NetworksMirrored

LEMMA ReadLinksOK ==
  ASSUME MerakiInv, NEW w \in Workers, ReadLinks(w)
  PROVE  MerakiInv'
<1>1. At(w, "relink") /\ {"relink", "setlinks"} \subseteq Steps
  BY DEF ReadLinks, Steps
<1>2. PICK j : j = job[w]
  OBVIOUS
<1>3. /\ j.step = "relink" /\ j.ok \in BOOLEAN /\ j.held \in [placed : Placings]
      /\ j.since = epoch => Fetched(j)
  BY <1>1, <1>2, JobAt, HeldIs DEF JobOK
<1>4. UNCHANGED <<epoch, network, vlans, asset, link, lastIp>> /\ ColumnsOK /\ ColumnsOK'
  BY DEF ReadLinks, MerakiInv, TablesOK, ColumnsOK, netTables, assetTables
<1>5. PICK new : new = [a \in Assets |-> IF asset[a] = "live" THEN LinkFor(a, j.held.placed) ELSE link[a]]
  OBVIOUS
<1>6. PICK moved : moved = {a \in Assets : new[a] # link[a]}
  OBVIOUS
<1>7. PICK moves : moves = [a \in moved |-> new[a]]
  OBVIOUS
<1>8. IF moved = {} THEN NetworksDone(w, j.ok) ELSE GoTo(w, "setlinks", [moves |-> moves])
  BY <1>2, <1>5, <1>6, <1>7 DEF ReadLinks
<1>9. new \in Placings /\ moves \in Moves
  <2>1. \A a \in Assets : LinkFor(a, j.held.placed) \in Networks \cup {NULL}
    BY <1>3, <1>4, LinkIsTyped
  <2>2. new \in [Assets -> Networks \cup {NULL}]
    BY <1>4, <1>5, <2>1 DEF ColumnsOK, Placings
  <2>3. moved \subseteq Assets /\ moves \in [moved -> Networks \cup {NULL}]
    BY <1>6, <1>7, <2>2
  <2>4. QED
    BY <2>2, <2>3 DEF Placings, Moves
<1>10. ASSUME j.ok, j.since = epoch
       PROVE  \A a \in Assets : new[a] = NewLink(a)
  BY <1>3, <1>5, <1>10 DEF Fetched, NewLink
<1>11. ASSUME KnowsTables(j), j.full
       PROVE  DevicesThere({})' /\ (Dashboard.org # {} => NetworksMirrored)'
                /\ DevicesThere({}) /\ (Dashboard.org # {} => NetworksMirrored)
  BY <1>3, <1>4, <1>11 DEF KnowsTables, DevicesThere, NetworksMirrored, Dashboard
<1>12. CASE moved = {}
  <2>1. \A a \in Assets : new[a] = link[a]
    BY <1>6, <1>12
  <2>2. ASSUME KnowsTables(j), j.full, j.ok, j.since = epoch
        PROVE  (Dashboard.org # {} => NetworksMirrored /\ LinksMirrored)'
    <3>1. Dashboard.org # {} => LinksMirrored
      BY <1>4, <1>10, <1>11, <2>1, <2>2, NewLinksMirror DEF LinksMirrored
    <3>2. QED
      BY <1>4, <1>11, <2>2, <3>1 DEF LinksMirrored, Dashboard
  <2>3. QED
    BY <1>1, <1>2, <1>3, <1>4, <1>8, <1>11, <1>12, <2>2, JobAt, NetworksAreDone
<1>13. CASE moved # {}
  <2>1. PICK held : held = [moves |-> moves]
    OBVIOUS
  <2>2. held \in HeldAt("setlinks") /\ held.moves = moves
    BY <1>9, <2>1, HeldIs
  <2>3. PICK rest : rest = Rest(w, "setlinks", j.ok, held)
    OBVIOUS
  <2>4. rest.step = "setlinks" /\ rest.held = held /\ rest.ok = j.ok /\ rest.full = j.full
    BY <1>2, <2>3 DEF Rest
  <2>5. Fetched(rest) /\ rest.step \notin RowSteps
    BY <2>4 DEF Fetched, RowSteps
  <2>6. ASSUME KnowsTables(j), j.ok, j.since = epoch
        PROVE  KnowsTables(rest)'
    <3>1. \A a \in Assets : NewLink(a) = IF a \in DOMAIN moves THEN moves[a] ELSE link[a]
      BY <1>6, <1>7, <1>10, <2>6
    <3>2. \A a \in Assets : NewLink(a)' = NewLink(a)
      BY <1>4 DEF NewLink, LinkFor, MatchIp, VlanIndex, Dashboard
    <3>3. \A a \in Assets : NewLink(a)' = IF a \in DOMAIN held.moves THEN held.moves[a] ELSE link'[a]
      BY <1>4, <2>2, <3>1, <3>2
    <3>4. QED
      BY <1>11, <2>4, <2>6, <3>3 DEF KnowsTables, RowSteps
  <2>7. MovesAreActive(rest)'
    <3> SUFFICES ASSUME NEW a \in moved, moves[a] # NULL
                 PROVE  network[moves[a]] = "active"
      BY <1>4, <1>7, <2>2, <2>4 DEF MovesAreActive
    <3>1. moves[a] = LinkFor(a, j.held.placed) /\ moves[a] # link[a] /\ a \in Assets
      BY <1>5, <1>6, <1>7
    <3>2. lastIp[a] # NULL => MatchIp(lastIp[a]) \in ActiveNetworks \cup {NULL}
      BY <1>4, <3>1, MatchIsActive DEF ColumnsOK
    <3>3. QED
      BY <3>1, <3>2 DEF LinkFor, ActiveNetworks
  <2>8. QED
    BY <1>1, <1>2, <1>3, <1>4, <1>8, <1>13, <2>1, <2>2, <2>3, <2>5, <2>6, <2>7, JobAt, RestIsOK DEF GoTo
<1>14. QED
  BY <1>12, <1>13

LEMMA WriteLinksOK ==
  ASSUME MerakiInv, NEW w \in Workers, WriteLinks(w)
  PROVE  MerakiInv'
<1>1. At(w, "setlinks") /\ "setlinks" \in Steps
  BY DEF WriteLinks, Steps
<1>2. PICK j : j = job[w]
  OBVIOUS
<1>3. j.step = "setlinks" /\ j.ok \in BOOLEAN /\ j.held \in [moves : Moves]
  BY <1>1, <1>2, JobAt, HeldIs
<1>4. /\ link' = [a \in Assets |-> IF a \in DOMAIN j.held.moves THEN j.held.moves[a] ELSE link[a]]
      /\ UNCHANGED <<epoch, network, vlans, clients, asset, lastIp>> /\ NetworksDone(w, j.ok)
      /\ ColumnsOK
  BY <1>2 DEF WriteLinks, netTables, MerakiInv, TablesOK
<1>5. ColumnsOK'
  <2>1. \A a \in DOMAIN j.held.moves : j.held.moves[a] \in Networks \cup {NULL}
    BY <1>3 DEF Moves
  <2>2. link' \in Placings
    BY <1>4, <2>1 DEF ColumnsOK, Placings
  <2>3. QED
    BY <1>4, <2>2 DEF ColumnsOK
<1>6. ASSUME KnowsTables(j), j.full
      PROVE  DevicesThere({})' /\ (Dashboard.org # {} => NetworksMirrored /\ LinksMirrored)'
  <2>1. \A a \in Assets : link'[a] = NewLink(a)
    BY <1>3, <1>4, <1>6 DEF KnowsTables
  <2>2. DevicesThere({}) /\ (Dashboard.org # {} => NetworksMirrored)
    BY <1>3, <1>6 DEF KnowsTables
  <2>3. (Dashboard.org # {} => LinksMirrored)'
    BY <1>4, <2>1, <2>2, NewLinksMirror DEF LinksMirrored, Dashboard
  <2>4. DevicesThere({})' /\ (Dashboard.org # {} => NetworksMirrored)'
    BY <1>4, <2>2 DEF DevicesThere, NetworksMirrored, Dashboard
  <2>5. QED
    BY <2>3, <2>4
<1>7. QED
  BY <1>1, <1>2, <1>3, <1>4, <1>5, <1>6, JobAt, NetworksAreDone

-----------------------------------------------------------------------------
(* What a step that leaves networks, assets and links alone keeps of j. *)
LEMMA ClientsAside ==
  ASSUME NEW j, KnowsTables(j), j.full, j.step \in {"askclients", "cached", "store"},
         UNCHANGED <<epoch, network, vlans, asset, link>>
  PROVE  /\ DevicesThere({})'
         /\ (Dashboard.org # {} => NetworksMirrored)'
         /\ (Dashboard.org # {} => LinksMirrored)'
BY DEF KnowsTables, DevicesThere, NetworksMirrored, LinksMirrored, Dashboard

LEMMA AskClientsOK ==
  ASSUME MerakiInv, NEW w \in Workers, AskClients(w)
  PROVE  MerakiInv'
<1>1. At(w, "askclients") /\ {"askclients", "cached"} \subseteq Steps
  BY DEF AskClients, Steps
<1>2. PICK j : j = job[w]
  OBVIOUS
<1>3. j.step = "askclients" /\ j.full /\ j.ok \in BOOLEAN /\ job[w] # Idle
  BY <1>1, <1>2, JobAt DEF JobOK
<1>4. UNCHANGED <<epoch, network, vlans, asset, link>> /\ ColumnsOK'
  BY DEF AskClients, MerakiInv, TablesOK, ColumnsOK, netTables, assetTables
<1>5. CASE Answer(w)
  BY <1>3, <1>4, <1>5, Answers
<1>6. CASE ~Answer(w)
  <2>1. PICK fresh \in [ActiveNetworks -> SUBSET Clients] :
          IF \A n \in ActiveNetworks : fresh[n] = Dashboard.seen[n]
          THEN GoTo(w, "cached", [fresh |-> fresh])
          ELSE Fault(w, "cached", [fresh |-> fresh])
    BY <1>6 DEF AskClients, ActiveNetworks
  <2>2. PICK held : held = [fresh |-> fresh]
    OBVIOUS
  <2>3. PICK ok \in BOOLEAN :
          /\ ok => j.ok /\ \A n \in ActiveNetworks : fresh[n] = Dashboard.seen[n]
          /\ Continue(w, Rest(w, "cached", ok, held))
    <3>1. CASE \A n \in ActiveNetworks : fresh[n] = Dashboard.seen[n]
      BY <1>2, <1>3, <2>1, <2>2, <3>1 DEF GoTo
    <3>2. CASE ~\A n \in ActiveNetworks : fresh[n] = Dashboard.seen[n]
      BY <2>1, <2>2, <3>2 DEF Fault
    <3>3. QED
      BY <3>1, <3>2
  <2>4. held \in HeldAt("cached") /\ held.fresh = fresh /\ DOMAIN fresh = ActiveNetworks
    <3>1. ActiveNetworks \subseteq Networks
      BY DEF ActiveNetworks
    <3>2. fresh \in ClientSets
      BY <3>1 DEF ClientSets
    <3>3. QED
      BY <2>1, <2>2, <3>2, HeldIs
  <2>5. PICK rest : rest = Rest(w, "cached", ok, held)
    OBVIOUS
  <2>6. rest.step = "cached" /\ rest.held = held /\ rest.ok = ok /\ rest.full = j.full
    BY <1>2, <2>5 DEF Rest
  <2>7. Fetched(rest) /\ rest.step \notin RowSteps
    BY <2>3, <2>4, <2>6 DEF Fetched, RowSteps
  <2>8. ASSUME KnowsTables(j)
        PROVE  KnowsTables(rest)'
    <3>1. (DOMAIN held.fresh = ActiveNetworks)'
      BY <1>4, <2>4 DEF ActiveNetworks
    <3>2. QED
      BY <1>3, <1>4, <2>6, <2>8, <3>1, ClientsAside DEF KnowsTables, RowSteps
  <2>9. QED
    BY <1>1, <1>2, <1>3, <1>4, <2>3, <2>4, <2>5, <2>7, <2>8, JobAt, RestIsOK
<1>7. QED
  BY <1>5, <1>6

LEMMA ReadClientsOK ==
  ASSUME MerakiInv, NEW w \in Workers, ReadClients(w)
  PROVE  MerakiInv'
<1>1. At(w, "cached") /\ {"cached", "store"} \subseteq Steps
  BY DEF ReadClients, Steps
<1>2. PICK j : j = job[w]
  OBVIOUS
<1>3. /\ j.step = "cached" /\ j.full /\ j.ok \in BOOLEAN /\ j.held \in [fresh : ClientSets]
      /\ j.since = epoch => Fetched(j)
  BY <1>1, <1>2, JobAt, HeldIs DEF JobOK
<1>4. UNCHANGED <<epoch, network, vlans, clients, asset, link>> /\ ColumnsOK /\ ColumnsOK'
  BY DEF ReadClients, MerakiInv, TablesOK, ColumnsOK, netTables, assetTables
<1>5. PICK fresh \in ClientSets : fresh = j.held.fresh
  BY <1>3
<1>6. PICK had : had = [n \in DOMAIN fresh |-> clients[n]]
  OBVIOUS
<1>7. had \in ClientSets
  <2>1. DOMAIN fresh \subseteq Networks
    BY DEF ClientSets
  <2>2. had \in [DOMAIN fresh -> SUBSET Clients]
    BY <1>4, <1>6, <2>1 DEF ColumnsOK
  <2>3. QED
    BY <2>1, <2>2 DEF ClientSets
<1>8. PICK held : held = [fresh |-> fresh, had |-> had]
  OBVIOUS
<1>9. held \in HeldAt("store") /\ held.fresh = fresh /\ held.had = had
  BY <1>7, <1>8, HeldIs
<1>10. PICK rest : rest = Rest(w, "store", j.ok, held)
  OBVIOUS
<1>11. rest.step = "store" /\ rest.held = held /\ rest.ok = j.ok /\ rest.full = j.full /\ rest.since = j.since
  BY <1>2, <1>10 DEF Rest
<1>12. (rest.since = epoch => Fetched(rest)) /\ rest.step \notin RowSteps
  BY <1>3, <1>5, <1>9, <1>11 DEF Fetched, RowSteps
<1>13. ASSUME KnowsTables(j)
       PROVE  KnowsTables(rest)'
  <2>1. (DOMAIN held.fresh = ActiveNetworks)'
    BY <1>3, <1>4, <1>5, <1>9, <1>13 DEF KnowsTables, ActiveNetworks
  <2>2. \A n \in DOMAIN held.fresh : held.had[n] = clients'[n]
    BY <1>4, <1>6, <1>9
  <2>3. QED
    BY <1>3, <1>4, <1>11, <1>13, <2>1, <2>2, ClientsAside DEF KnowsTables, RowSteps
<1>14. GoTo(w, "store", held)
  BY <1>2, <1>5, <1>6, <1>8 DEF ReadClients
<1>15. QED
  BY <1>1, <1>2, <1>3, <1>4, <1>9, <1>10, <1>12, <1>13, <1>14, JobAt, RestIsOK DEF GoTo

LEMMA StoreClientsOK ==
  ASSUME MerakiInv, NEW w \in Workers, StoreClients(w)
  PROVE  MerakiInv'
<1>1. At(w, "store") /\ "store" \in Steps
  BY DEF StoreClients, Steps
<1>2. PICK h \in [fresh : ClientSets, had : ClientSets] : h = job[w].held
  BY <1>1, JobAt, HeldIs
<1>3. \A n \in DOMAIN h.fresh : h.fresh[n] \subseteq Clients
  BY DEF ClientSets
<1>4. clients' \in [Networks -> SUBSET Clients]
  BY <1>2, <1>3 DEF StoreClients, MerakiInv, TablesOK, ColumnsOK
<1>5. UNCHANGED epoch /\ ColumnsOK'
  BY <1>4 DEF StoreClients, MerakiInv, TablesOK, ColumnsOK, netTables, assetTables
<1>6. QED
  BY <1>1, <1>5, JobAt, Answers DEF StoreClients

-----------------------------------------------------------------------------
LEMMA GoesOn ==
  ASSUME MerakiInv, NEW w \in Workers, GoOn(w)
  PROVE  MerakiInv'
<1>1. CASE \E a \in Assets : UpsertDevice(w, a)
  BY <1>1, UpsertDeviceOK
<1>2. CASE NetworkSteps(w)
  BY <1>2, ListingFailsOK, ListNetworksOK, FetchDetailsOK, ReadRowOK, InsertRowOK, ReadGoneOK,
     CommitNetworksOK, ReadLinksOK, WriteLinksOK DEF NetworkSteps
<1>3. CASE ClientSteps(w)
  BY <1>3, AskClientsOK, ReadClientsOK, StoreClientsOK DEF ClientSteps
<1>4. QED
  BY <1>1, <1>2, <1>3 DEF GoOn

(* A sync begins: it knows nothing of the tables yet. *)
LEMMA Begins ==
  ASSUME MerakiInv, NEW w \in Workers, Begin(w)
  PROVE  MerakiInv'
<1>1. PICK rest :
        /\ Serve(w, rest) /\ rest \in Jobs /\ rest # Idle
        /\ rest.step \notin RowSteps \cup {"setlinks", "askclients", "cached", "store"}
        /\ rest.since = epoch /\ Fetched(rest) /\ KnowsTables(rest)
  <2>1. epoch \in Nat \ {0} /\ Dashboard.home \in Placings
    BY DashboardIsTyped DEF MerakiInv, TablesOK, ColumnsOK
  <2> DEFINE New(step, full, ok, held) ==
               [step |-> step, full |-> full, since |-> epoch, ok |-> ok, held |-> held]
  <2>2. ASSUME NEW step \in Steps, NEW full \in BOOLEAN, NEW ok \in BOOLEAN, NEW held \in HeldAt(step)
        PROVE  New(step, full, ok, held) \in Jobs
    <3>1. New(step, full, ok, held) \in JobsAt(step)
      BY <2>1 DEF JobsAt
    <3>2. QED
      BY <3>1 DEF Jobs
  <2>3. ASSUME NEW step \in Steps, NEW full, NEW ok, NEW held
        PROVE  New(step, full, ok, held) # Idle
    BY DEF Steps, RowSteps, Idle
  <2>4. {"devices", "list", "relink"} \subseteq Steps /\ RowSteps \cap {"devices", "list", "relink"} = {}
    BY DEF Steps, RowSteps
  <2>5. CASE BeginBulkSync(w)
    <3>1. PICK held : held = [todo |-> {a \in Assets : Dashboard.home[a] # NULL}]
      OBVIOUS
    <3>2. held \in HeldAt("devices")
      BY <3>1, HeldIs
    <3>3. PICK rest : rest = New("devices", TRUE, TRUE, held)
      OBVIOUS
    <3>4. rest \in Jobs /\ rest # Idle
      BY <2>2, <2>3, <2>4, <3>2, <3>3
    <3>5. rest.step = "devices" /\ rest.held = held /\ rest.since = epoch
      BY <3>3
    <3>6. DevicesThere(held.todo)
      BY <3>1 DEF DevicesThere
    <3>7. Fetched(rest) /\ KnowsTables(rest)
      BY <2>4, <3>5, <3>6 DEF Fetched, KnowsTables, RowSteps
    <3>8. Serve(w, rest)
      BY <2>5, <3>1, <3>3 DEF BeginBulkSync
    <3>9. QED
      BY <2>4, <3>4, <3>5, <3>7, <3>8
  <2>6. CASE BeginNetworkSync(w)
    <3>1. PICK rest : rest = New("list", FALSE, TRUE, Nothing)
      OBVIOUS
    <3>2. rest \in Jobs /\ rest # Idle
      BY <2>2, <2>3, <2>4, <3>1, HeldIs
    <3>3. rest.step = "list" /\ rest.full = FALSE /\ rest.since = epoch
      BY <3>1
    <3>4. Fetched(rest) /\ KnowsTables(rest)
      BY <3>3 DEF Fetched, KnowsTables, RowSteps
    <3>5. Serve(w, rest)
      BY <2>6, <3>1 DEF BeginNetworkSync
    <3>6. QED
      BY <2>4, <3>2, <3>3, <3>4, <3>5
  <2>7. CASE BeginRelink(w)
    <3>1. PICK placed, held, ok, rest :
            /\ placed \in {Dashboard.home, Nowhere}
            /\ held = [placed |-> placed]
            /\ ok = (placed = Dashboard.home)
            /\ rest = New("relink", FALSE, ok, held)
            /\ Serve(w, rest)
      BY <2>7 DEF BeginRelink
    <3>2. held \in HeldAt("relink") /\ held.placed = placed
      BY <2>1, <3>1, NowhereIsTyped, HeldIs
    <3>3. rest \in Jobs /\ rest # Idle
      <4>1. ok \in BOOLEAN
        BY <3>1
      <4>2. "relink" \in Steps /\ FALSE \in BOOLEAN /\ held \in HeldAt("relink")
        BY <2>4, <3>2
      <4>3. New("relink", FALSE, ok, held) \in Jobs
        BY <2>2, <4>1, <4>2
      <4>4. New("relink", FALSE, ok, held) # Idle
        BY <2>3, <4>2
      <4>5. QED
        BY <3>1, <4>3, <4>4
    <3>4. /\ rest.step = "relink" /\ rest.full = FALSE /\ rest.since = epoch /\ rest.held = held
          /\ rest.ok => placed = Dashboard.home
      BY <3>1
    <3>5. Fetched(rest) /\ KnowsTables(rest)
      BY <3>2, <3>4 DEF Fetched, KnowsTables, RowSteps
    <3>6. QED
      BY <2>4, <3>1, <3>3, <3>4, <3>5
  <2>8. QED
    BY <2>5, <2>6, <2>7 DEF Begin
<1>2. /\ UNCHANGED <<epoch, network, vlans, clients, asset, link, lastIp>>
      /\ ColumnsOK' /\ At(w, "idle")
  BY DEF Begin, BeginBulkSync, BeginNetworkSync, BeginRelink, MerakiInv, TablesOK, ColumnsOK,
     netTables, assetTables
<1>3. /\ job' = [job EXCEPT ![w] = rest]
      /\ alone' = [v \in Workers |-> v = w /\ \A u \in Workers \ {w} : At(u, "idle")]
  BY <1>1 DEF Serve
<1>4. TablesOK'
  BY <1>1, <1>2, <1>3 DEF MerakiInv, TablesOK
<1>5. job'[w] = rest /\ \A v \in Workers \ {w} : job'[v] = job[v]
  BY <1>3 DEF MerakiInv, TablesOK
<1>6. JobOK(rest) /\ \A j : JobOK(j)' <=> JobOK(j)
  <2>1. rest.since \in 1..epoch
    BY <1>1 DEF MerakiInv, TablesOK, ColumnsOK
  <2>2. QED
    BY <1>1, <1>2, <2>1 DEF JobOK, Fetched, Dashboard
<1>7. ASSUME NEW v \in Workers
      PROVE  JobOK(job[v])'
  <2>1. PICK j : j = job'[v]
    OBVIOUS
  <2>2. JobOK(j)
    BY <1>5, <1>6, <2>1 DEF MerakiInv
  <2>3. QED
    BY <1>6, <2>1, <2>2
<1>8. LoneOK'
  <2> SUFFICES ASSUME NEW v \in Workers, alone'[v], job'[v] # Idle
               PROVE  /\ \A u \in Workers \ {v} : job'[u] = Idle
                      /\ MovesAreActive(job[v])'
                      /\ Clean(job[v])' => KnowsTables(job[v])'
    BY DEF LoneOK
  <2>1. v = w /\ \A u \in Workers \ {w} : At(u, "idle")
    BY <1>3
  <2>2. ASSUME NEW u \in Workers \ {w}
        PROVE  job'[u] = Idle
    <3>1. job[u] = Idle
      <4>1. job[u] \in Jobs /\ job[u].step = "idle"
        BY <2>1 DEF MerakiInv, TablesOK, At
      <4>2. "idle" \notin Steps
        BY DEF Steps, RowSteps
      <4>3. QED
        BY <4>1, <4>2 DEF Jobs, JobsAt
    <3>2. QED
      BY <1>5, <3>1
  <2>3. KnowsTables(rest)'
    BY <1>1, <1>2 DEF KnowsTables, DevicesThere, NewLink, LinkFor, MatchIp, VlanIndex, ActiveNetworks,
       NetworksMirrored, LinksMirrored, RowsCurrent, IsNew, Mirrored, Dashboard
  <2>4. MovesAreActive(rest)'
    BY <1>1 DEF MovesAreActive
  <2>5. QED
    BY <1>5, <2>1, <2>2, <2>3, <2>4
<1>9. QED
  BY <1>4, <1>7, <1>8 DEF MerakiInv

(* Users and Defender overtake what is in progress. *)
LEMMA UsersAct ==
  ASSUME MerakiInv, UserActs
  PROVE  MerakiInv'
<1>1. UNCHANGED <<epoch, job>> /\ alone' = [w \in Workers |-> FALSE]
  BY DEF UserActs, OnboardAsset, ArchiveAsset, ReportIp, Overtakes
<1>2. ColumnsOK'
  <2>1. CASE \E a \in Assets : OnboardAsset(a)
    BY <2>1 DEF OnboardAsset, MerakiInv, TablesOK, ColumnsOK, netTables
  <2>2. CASE \E a \in Assets : ArchiveAsset(a)
    BY <2>2 DEF ArchiveAsset, MerakiInv, TablesOK, ColumnsOK, netTables
  <2>3. CASE \E a \in Assets, ip \in Reports : ReportIp(a, ip)
    <3>1. Reports \subseteq Ips \cup {NULL}
      BY ReportsAreIps DEF Ips
    <3>2. lastIp' \in [Assets -> Ips \cup {NULL}]
      BY <2>3, <3>1 DEF ReportIp, MerakiInv, TablesOK, ColumnsOK
    <3>3. QED
      BY <2>3, <3>2 DEF ReportIp, MerakiInv, TablesOK, ColumnsOK, netTables
  <2>4. QED
    BY <2>1, <2>2, <2>3 DEF UserActs
<1>3. \A w \in Workers : JobOK(job[w])'
  BY <1>1 DEF MerakiInv, JobOK, Fetched, Dashboard
<1>4. TablesOK' /\ LoneOK'
  BY <1>1, <1>2 DEF MerakiInv, TablesOK, LoneOK
<1>5. QED
  BY <1>3, <1>4 DEF MerakiInv

(* The dashboard changes: what syncs have begun is no longer of now. *)
LEMMA DashboardMoves ==
  ASSUME MerakiInv, MerakiChanges
  PROVE  MerakiInv'
<1>1. epoch \in Nat /\ epoch' = epoch + 1 /\ epoch' \in 1..Len(Meraki)
  BY MerakiIsTyped DEF MerakiChanges, MerakiInv, TablesOK, ColumnsOK
<1>2. TablesOK'
  BY <1>1 DEF MerakiChanges, MerakiInv, TablesOK, ColumnsOK, netTables, assetTables
<1>3. ASSUME NEW w \in Workers, job[w] # Idle
      PROVE  job[w].since \in 1..epoch' /\ job[w].since # epoch'
  <2>1. job[w].since \in 1..epoch
    BY <1>3 DEF MerakiInv, JobOK
  <2>2. QED
    BY <1>1, <2>1
<1>4. \A w \in Workers : JobOK(job[w])'
  BY <1>3 DEF MerakiChanges, MerakiInv, JobOK
<1>5. LoneOK'
  BY <1>3 DEF MerakiChanges, MerakiInv, LoneOK, Clean, MovesAreActive, netTables
<1>6. QED
  BY <1>2, <1>4, <1>5 DEF MerakiInv

LEMMA ServerRestarts ==
  ASSUME MerakiInv, Restart
  PROVE  MerakiInv'
<1>1. Idle \in Jobs
  BY DEF Jobs
<1>2. TablesOK'
  BY <1>1 DEF Restart, DropRequests, MerakiInv, TablesOK, ColumnsOK, netTables, assetTables
<1>3. QED
  BY <1>2 DEF Restart, DropRequests, MerakiInv, JobOK, LoneOK

(* No step outside the sync of w changes what w's tables hold. *)
LEMMA Stutters ==
  ASSUME MerakiInv, UNCHANGED vars
  PROVE  MerakiInv'
<1>1. UNCHANGED <<epoch, network, vlans, clients, asset, link, lastIp, job, alone>>
  BY DEF vars, netTables, assetTables
<1>2. TablesOK'
  BY <1>1 DEF MerakiInv, TablesOK, ColumnsOK
<1>3. \A w \in Workers : JobOK(job[w])'
  BY <1>1 DEF MerakiInv, JobOK, Fetched, Dashboard
<1>4. LoneOK'
  BY <1>1 DEF MerakiInv, LoneOK, Clean, KnowsTables, MovesAreActive, DevicesThere, NewLink, LinkFor, MatchIp, VlanIndex,
     ActiveNetworks, NetworksMirrored, LinksMirrored, RowsCurrent, IsNew, Mirrored, Dashboard
<1>5. QED
  BY <1>2, <1>3, <1>4 DEF MerakiInv

LEMMA MerakiInvStep == MerakiInv /\ [Next]_vars => MerakiInv'
BY GoesOn, Begins, UsersAct, DashboardMoves, ServerRestarts, Stutters DEF Next

LEMMA MerakiInvInit == Init => MerakiInv
<1> SUFFICES ASSUME Init
             PROVE  MerakiInv
  OBVIOUS
<1>1. Len(Meraki) \in Nat /\ Len(Meraki) >= 1
  BY MerakiIsTyped
<1>2. Idle \in Jobs
  BY DEF Jobs
<1>3. TablesOK
  BY <1>1, <1>2, NowhereIsTyped DEF Init, InitRequests, TablesOK, ColumnsOK, NoneOf, VlanSets
<1>4. QED
  BY <1>3 DEF MerakiInv, Init, InitRequests, JobOK, LoneOK

(***************************************************************************)
(* Whatever syncs overlap, fail or are killed while the dashboard changes, *)
(* tables and sessions keep their types, a sync holds what Meraki          *)
(* answered, and one that nothing disturbed knows what the tables hold.    *)
(***************************************************************************)
THEOREM SyncsKnowTheirTables == Spec => []MerakiInv
BY MerakiInvInit, MerakiInvStep, PTL DEF Spec

-----------------------------------------------------------------------------
(* A flush keeps the VLANs of what Meraki answered. *)
LEMMA FlushKeeps ==
  ASSUME MerakiInv, NEW w \in Workers, NEW step \in {"insert", "commit"}, At(w, step),
         job[w].ok, job[w].since = epoch, NEW n \in Networks
  PROVE  vlans[n] \cap Dashboard.lan[n] \subseteq FlushedVlans(job[w].held)[n]
<1>1. step \in Steps /\ step \in RowSteps
  BY DEF Steps, RowSteps
<1>2. PICK j : j = job[w].held
  OBVIOUS
<1>3. j.dirty \subseteq j.listing /\ \A m \in j.listing : j.fresh[m] = Dashboard.lan[m]
  BY <1>1, <1>2, JobAt DEF JobOK, Fetched, RowsOK
<1>4. n \in j.dirty => j.fresh[n] = Dashboard.lan[n]
  BY <1>3
<1>5. QED
  BY <1>2, <1>4 DEF FlushedVlans

(* What a step of a sync takes away. *)
LEMMA LossOfAStep ==
  ASSUME MerakiInv, NEW w \in Workers, GoOn(w), job[w].since = epoch, NEW n \in Networks
  PROVE  /\ network[n] = "active" /\ network'[n] = "archived" => n \notin Dashboard.org
         /\ job[w].ok => vlans[n] \cap Dashboard.lan[n] \subseteq vlans'[n]
         /\ job[w].ok => clients[n] \cap Dashboard.seen[n] \subseteq clients'[n]
<1>1. ColumnsOK
  BY DEF MerakiInv, TablesOK
<1>2. CASE InsertRow(w)
  <2>1. At(w, "insert") /\ UNCHANGED clients
    BY <1>2 DEF InsertRow
  <2>2. PICK m, up :
          /\ up = Revived(job[w].held)
          /\ network' = IF network[m] = "none" THEN [up EXCEPT ![m] = "active"] ELSE up
    BY <1>2 DEF InsertRow
  <2>3. network'[n] \in {"active", network[n]}
    BY <2>2 DEF Revived
  <2>4. vlans' = vlans \/ vlans' = FlushedVlans(job[w].held)
    BY <1>2 DEF InsertRow
  <2>5. QED
    BY <2>1, <2>3, <2>4, FlushKeeps
<1>3. CASE CommitNetworks(w)
  <2>1. At(w, "commit") /\ UNCHANGED clients /\ "commit" \in Steps /\ "commit" \in RowSteps
    BY <1>3 DEF CommitNetworks, Steps, RowSteps
  <2>2. job[w].held.listing = Dashboard.org /\ job[w].held.gone \cap job[w].held.listing = {}
    BY <2>1, JobAt DEF JobOK, Fetched, RowsOK
  <2>3. network'[n] = IF n \in job[w].held.gone THEN "archived" ELSE Revived(job[w].held)[n]
    BY <1>3 DEF CommitNetworks
  <2>4. Revived(job[w].held)[n] \in {"active", network[n]}
    BY DEF Revived
  <2>5. vlans' = vlans \/ vlans' = FlushedVlans(job[w].held)
    BY <1>3 DEF CommitNetworks
  <2>6. QED
    BY <2>1, <2>2, <2>3, <2>4, <2>5, FlushKeeps
<1>4. CASE StoreClients(w)
  <2>1. At(w, "store") /\ UNCHANGED <<network, vlans>> /\ "store" \in Steps
    BY <1>4 DEF StoreClients, netTables, Steps
  <2>2. PICK h : h = job[w].held
    OBVIOUS
  <2>3. job[w].ok => \A m \in DOMAIN h.fresh : h.fresh[m] = Dashboard.seen[m]
    BY <2>1, <2>2, JobAt DEF JobOK, Fetched
  <2>4. \/ clients' = clients
        \/ clients' = [m \in Networks |->
                         IF m \in DOMAIN h.fresh
                         THEN (clients[m] \cup h.fresh[m]) \ (h.had[m] \ h.fresh[m])
                         ELSE clients[m]]
    BY <1>4, <2>2 DEF StoreClients
  <2>5. job[w].ok => clients[n] \cap Dashboard.seen[n] \subseteq clients'[n]
    BY <2>3, <2>4
  <2>6. QED
    BY <2>1, <2>5
<1>5. CASE UNCHANGED <<network, vlans, clients>>
  BY <1>5
<1>6. QED
  BY <1>2, <1>3, <1>4, <1>5
     DEF GoOn, UpsertDevice, NetworkSteps, ListingFails, ListNetworks, FetchDetails, ReadRow, ReadGone,
         ReadLinks, WriteLinks, ClientSteps, AskClients, ReadClients, netTables

(* Only the step of a sync changes what is left of it. *)
LEMMA OnlyGoingOnMoves ==
  ASSUME MerakiInv, [Next]_vars, NEW w \in Workers, job'[w] # job[w], ~At(w, "idle")
  PROVE  GoOn(w) \/ UNCHANGED <<network, vlans, clients>>
<1>1. ASSUME NEW v \in Workers, GoOn(v), v # w
      PROVE  FALSE
  <2>1. \/ \E rest : Continue(v, rest)
        \/ UNCHANGED job
    BY <1>1
       DEF GoOn, UpsertDevice, NetworkSteps, ListingFails, ListNetworks, FetchDetails, ReadRow,
           InsertRow, ReadGone, CommitNetworks, ReadLinks, WriteLinks, ClientSteps, AskClients,
           ReadClients, StoreClients, GoTo, Fault, NetworksDone, Answer
  <2>2. QED
    BY <1>1, <2>1 DEF Continue, MerakiInv, TablesOK
<1>2. ASSUME NEW v \in Workers, Begin(v)
      PROVE  UNCHANGED <<network, vlans, clients>>
  BY <1>2 DEF Begin, BeginBulkSync, BeginNetworkSync, BeginRelink, netTables
<1>3. CASE UserActs \/ MerakiChanges \/ Restart \/ UNCHANGED vars
  BY <1>3 DEF UserActs, OnboardAsset, ArchiveAsset, ReportIp, MerakiChanges, Restart, vars, netTables
<1>4. QED
  BY <1>1, <1>2, <1>3 DEF Next

(***************************************************************************)
(* However syncs overlap, fail or are killed, what one takes away is what  *)
(* Meraki has lost, or Meraki has changed since it began; a fetch that     *)
(* failed never archives a network.                                        *)
(***************************************************************************)
THEOREM LossesHaveACause == Spec => LossHasACause
<1>1. MerakiInv /\ [Next]_vars =>
        [\A w \in Workers : job'[w] # job[w] /\ ~At(w, "idle") /\ job[w].since = epoch =>
           \A n \in Networks :
             /\ network[n] = "active" /\ network'[n] = "archived" => n \notin Dashboard.org
             /\ job[w].ok => vlans[n] \cap Dashboard.lan[n] \subseteq vlans'[n]
             /\ job[w].ok => clients[n] \cap Dashboard.seen[n] \subseteq clients'[n]]_vars
  <2> SUFFICES ASSUME MerakiInv, [Next]_vars, NEW w \in Workers, job'[w] # job[w], ~At(w, "idle"),
                      job[w].since = epoch, NEW n \in Networks
               PROVE  /\ network[n] = "active" /\ network'[n] = "archived" => n \notin Dashboard.org
                      /\ job[w].ok => vlans[n] \cap Dashboard.lan[n] \subseteq vlans'[n]
                      /\ job[w].ok => clients[n] \cap Dashboard.seen[n] \subseteq clients'[n]
    OBVIOUS
  <2>1. CASE GoOn(w)
    BY <2>1, LossOfAStep
  <2>2. CASE UNCHANGED <<network, vlans, clients>>
    BY <2>2
  <2>3. QED
    BY <2>1, <2>2, OnlyGoingOnMoves
<1>2. QED
  BY <1>1, SyncsKnowTheirTables, PTL DEF Spec, LossHasACause

-----------------------------------------------------------------------------
(* The clients are those Meraki has seen, if nobody stored others. *)
LEMMA ClientsAreStored ==
  ASSUME MerakiInv, NEW w \in Workers, StoreClients(w), Undisturbed(w),
         NEW n \in ActiveNetworks
  PROVE  clients'[n] = Dashboard.seen[n]
<1>1. At(w, "store") /\ "store" \in Steps
  BY DEF StoreClients, Steps
<1>2. PICK h : h = job[w].held
  OBVIOUS
<1>3. /\ DOMAIN h.fresh = ActiveNetworks
      /\ \A m \in DOMAIN h.fresh : h.had[m] = clients[m] /\ h.fresh[m] = Dashboard.seen[m]
  BY <1>1, <1>2, JobAt DEF Undisturbed, KnowsTables, JobOK, Fetched
<1>4. ~ClientsMoved(h)
  BY <1>3 DEF ClientsMoved
<1>5. clients' = [m \in Networks |->
                    IF m \in DOMAIN h.fresh
                    THEN (clients[m] \cup h.fresh[m]) \ (h.had[m] \ h.fresh[m])
                    ELSE clients[m]]
  BY <1>2, <1>4 DEF StoreClients
<1>6. n \in Networks
  BY DEF ActiveNetworks
<1>7. clients'[n] = (clients[n] \cup h.fresh[n]) \ (clients[n] \ h.fresh[n])
  BY <1>3, <1>5, <1>6
<1>8. QED
  BY <1>3, <1>7

(***************************************************************************)
(* Whatever syncs were killed, failed or overlapped before it, a sync of   *)
(* everything that nothing disturbs ends with the networks, VLANs, clients *)
(* and links of the devices that the dashboard has.                        *)
(***************************************************************************)
THEOREM FullSyncsMirrorTheDashboard == Spec => FullSyncMirrorsDashboard
<1>1. MerakiInv =>
        [\A w \in Workers : StoreClients(w) /\ Undisturbed(w) /\ Dashboard.org # {} =>
           /\ \A n \in Networks : network'[n] = "active" <=> n \in Dashboard.org
           /\ \A n \in Dashboard.org :
                vlans'[n] = Dashboard.lan[n] /\ clients'[n] = Dashboard.seen[n]
           /\ \A a \in Assets : Dashboard.home[a] # NULL =>
                /\ asset'[a] # "none"
                /\ asset'[a] = "live" => link'[a] = Dashboard.home[a]]_vars
  <2> SUFFICES ASSUME MerakiInv, NEW w \in Workers, StoreClients(w), Undisturbed(w),
                      Dashboard.org # {}
               PROVE  /\ \A n \in Networks : network'[n] = "active" <=> n \in Dashboard.org
                      /\ \A n \in Dashboard.org :
                           vlans'[n] = Dashboard.lan[n] /\ clients'[n] = Dashboard.seen[n]
                      /\ \A a \in Assets : Dashboard.home[a] # NULL =>
                           /\ asset'[a] # "none"
                           /\ asset'[a] = "live" => link'[a] = Dashboard.home[a]
    OBVIOUS
  <2>1. At(w, "store") /\ "store" \in Steps /\ UNCHANGED <<network, vlans, asset, link>>
    BY DEF StoreClients, Steps, netTables, assetTables
  <2>2. job[w].full /\ KnowsTables(job[w]) /\ job[w].step = "store"
    BY <2>1, JobAt DEF JobOK, Undisturbed
  <2>3. DevicesThere({}) /\ NetworksMirrored /\ LinksMirrored
    BY <2>2 DEF KnowsTables
  <2>4. Dashboard.org \subseteq ActiveNetworks
    BY <2>3, DashboardIsTyped DEF NetworksMirrored, ActiveNetworks, MerakiInv, TablesOK
  <2>5. \A n \in Dashboard.org : clients'[n] = Dashboard.seen[n]
    BY <2>4, ClientsAreStored
  <2>6. QED
    BY <2>1, <2>3, <2>5 DEF DevicesThere, NetworksMirrored, LinksMirrored
<1>2. QED
  BY <1>1, SyncsKnowTheirTables, PTL DEF Spec, FullSyncMirrorsDashboard

-----------------------------------------------------------------------------
(* What an undisturbed relinking leaves of a live asset. *)
LEMMA RelinkStores ==
  ASSUME MerakiInv, NEW w \in Workers, Relinks(w), Undisturbed(w), NEW a \in Assets,
         asset[a] = "live"
  PROVE  link'[a] = LinkFor(a, Dashboard.home)
<1>1. CASE ReadLinks(w)
  <2>1. At(w, "relink") /\ "relink" \in Steps /\ UNCHANGED link
    BY <1>1 DEF ReadLinks, Steps, assetTables
  <2>2. job[w].held.placed = Dashboard.home
    BY <2>1, JobAt DEF JobOK, Fetched, Undisturbed
  <2>3. job \in [Workers -> Jobs]
    BY DEF MerakiInv, TablesOK
  <2> DEFINE new == [b \in Assets |-> IF asset[b] = "live" THEN LinkFor(b, job[w].held.placed) ELSE link[b]]
             moved == {b \in Assets : new[b] # link[b]}
  <2>4. moved = {}
    <3>1. SUFFICES ASSUME moved # {}
                   PROVE  FALSE
      OBVIOUS
    <3>2. PICK held : GoTo(w, "setlinks", held)
      BY <1>1, <3>1 DEF ReadLinks
    <3>3. At(w, "setlinks")'
      BY <2>3, <3>2 DEF GoTo, Continue, Rest, At
    <3>4. QED
      BY <3>3 DEF Relinks
  <2>5. new[a] = link[a]
    BY <2>4
  <2>6. QED
    BY <2>1, <2>2, <2>5
<1>2. CASE WriteLinks(w)
  <2>1. At(w, "setlinks") /\ "setlinks" \in Steps
    BY <1>2 DEF WriteLinks, Steps
  <2>2. PICK moves : moves = job[w].held.moves
    OBVIOUS
  <2>3. NewLink(a) = IF a \in DOMAIN moves THEN moves[a] ELSE link[a]
    BY <2>1, <2>2, JobAt DEF KnowsTables, Undisturbed
  <2>4. link'[a] = IF a \in DOMAIN moves THEN moves[a] ELSE link[a]
    BY <1>2, <2>2 DEF WriteLinks
  <2>5. QED
    BY <2>3, <2>4 DEF NewLink
<1>3. QED
  BY <1>1, <1>2 DEF Relinks

(***************************************************************************)
(* A relinking that nothing disturbed links no asset to an archived        *)
(* network, unless nothing says where the asset is.                        *)
(***************************************************************************)
THEOREM StaleLinksAreUnknown == Spec => StaleLinkIsUnknown
<1>1. MerakiInv /\ [Next]_vars =>
        [\A w \in Workers : Relinks(w) /\ Undisturbed(w) =>
           \A a \in Assets : asset[a] = "live" /\ link'[a] # NULL =>
             \/ network[link'[a]] = "active"
             \/ Dashboard.home[a] = NULL /\ (lastIp[a] = NULL \/ VlanIndex = {})]_vars
  <2> SUFFICES ASSUME MerakiInv, NEW w \in Workers, Relinks(w), Undisturbed(w), NEW a \in Assets,
                      asset[a] = "live", link'[a] # NULL
               PROVE  \/ network[link'[a]] = "active"
                      \/ Dashboard.home[a] = NULL /\ (lastIp[a] = NULL \/ VlanIndex = {})
    OBVIOUS
  <2>1. link'[a] = LinkFor(a, Dashboard.home)
    BY RelinkStores
  <2>2. lastIp[a] # NULL => MatchIp(lastIp[a]) \in ActiveNetworks \cup {NULL}
    BY MatchIsActive DEF MerakiInv, TablesOK, ColumnsOK
  <2>3. QED
    BY <2>1, <2>2 DEF LinkFor, ActiveNetworks
<1>2. QED
  BY <1>1, SyncsKnowTheirTables, PTL DEF Spec, StaleLinkIsUnknown

(* A step that leaves an asset linked to a network that is not active. *)
LEMMA StaleLinkOfAStep ==
  ASSUME MerakiInv, NEW w \in Workers, GoOn(w), NEW a \in Assets, ~IsStale(a), IsStale(a)'
  PROVE  \/ CommitNetworks(w) /\ link[a] \in job[w].held.gone
         \/ WriteLinks(w) /\ ~alone[w]
<1>1. ColumnsOK /\ link[a] \in Networks \cup {NULL}
  BY DEF MerakiInv, TablesOK, ColumnsOK, Placings
<1>2. CASE InsertRow(w)
  <2>1. UNCHANGED link /\ link[a] # NULL /\ link[a] \in Networks /\ network[link[a]] = "active"
    BY <1>1, <1>2 DEF InsertRow, assetTables, IsStale
  <2>2. network'[link[a]] = "active"
    BY <1>2, <2>1 DEF InsertRow, Revived
  <2>3. QED
    BY <2>1, <2>2 DEF IsStale
<1>3. CASE CommitNetworks(w)
  <2>1. UNCHANGED link /\ link[a] # NULL /\ link[a] \in Networks /\ network[link[a]] = "active"
    BY <1>1, <1>3 DEF CommitNetworks, assetTables, IsStale
  <2>2. link[a] \notin job[w].held.gone => network'[link[a]] = "active"
    BY <1>3, <2>1 DEF CommitNetworks, Revived
  <2>3. QED
    BY <1>3, <2>1, <2>2 DEF IsStale
<1>4. CASE WriteLinks(w) /\ alone[w]
  <2>1. At(w, "setlinks") /\ "setlinks" \in Steps
    BY <1>4 DEF WriteLinks, Steps
  <2>2. MovesAreActive(job[w]) /\ job[w].step = "setlinks"
    BY <1>4, <2>1, JobAt DEF MerakiInv, LoneOK
  <2>3. PICK moves : moves = job[w].held.moves
    OBVIOUS
  <2>4. \A b \in DOMAIN moves : moves[b] # NULL => network[moves[b]] = "active"
    BY <2>2, <2>3 DEF MovesAreActive
  <2>5. UNCHANGED network /\ link'[a] = IF a \in DOMAIN moves THEN moves[a] ELSE link[a]
    BY <1>4, <2>3 DEF WriteLinks, netTables
  <2>6. QED
    BY <2>4, <2>5 DEF IsStale
<1>5. CASE UNCHANGED <<network, link>>
  BY <1>5 DEF IsStale
<1>6. QED
  BY <1>2, <1>3, <1>4, <1>5
     DEF GoOn, UpsertDevice, NetworkSteps, ListingFails, ListNetworks, FetchDetails, ReadRow, ReadGone,
         ReadLinks, ClientSteps, AskClients, ReadClients, StoreClients, netTables, assetTables

(***************************************************************************)
(* Whatever overlaps, fails or is killed, an asset comes to be linked to a *)
(* network that is not active only when a sync archives that network under *)
(* it, or when a relinking that overlapped another request writes a link   *)
(* it chose before.                                                        *)
(***************************************************************************)
THEOREM StaleLinksHaveKnownDoors == Spec => StaleLinkByKnownDoors
<1>1. MerakiInv /\ [Next]_vars =>
        [\A a \in Assets :
           ~IsStale(a) /\ IsStale(a)' =>
             \E w \in Workers :
               \/ CommitNetworks(w) /\ link[a] \in job[w].held.gone
               \/ WriteLinks(w) /\ ~alone[w]]_vars
  <2> SUFFICES ASSUME MerakiInv, [Next]_vars, NEW a \in Assets, ~IsStale(a), IsStale(a)'
               PROVE  \E w \in Workers :
                        \/ CommitNetworks(w) /\ link[a] \in job[w].held.gone
                        \/ WriteLinks(w) /\ ~alone[w]
    OBVIOUS
  <2>1. ~UNCHANGED <<network, link>>
    BY DEF IsStale
  <2>2. \E w \in Workers : GoOn(w)
    BY <2>1 DEF Next, UserActs, OnboardAsset, ArchiveAsset, ReportIp, MerakiChanges, Restart, Begin,
       BeginBulkSync, BeginNetworkSync, BeginRelink, vars, netTables, assetTables
  <2>3. QED
    BY <2>2, StaleLinkOfAStep
<1>2. QED
  BY <1>1, SyncsKnowTheirTables, PTL DEF Spec, StaleLinkByKnownDoors
=============================================================================
