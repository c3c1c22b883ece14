--------------------------- MODULE RequestsProofs ----------------------------
(***************************************************************************)
(* Theorems about DeploymentRequests, for any number of workers serving    *)
(* overlapping requests, with or without restarts.                         *)
(***************************************************************************)
EXTENDS DeploymentRequests, LedgerProofs, TLAPS

(* What a session holds is told by the step it is at. *)
LEMMA StepTellsJob ==
  ASSUME NEW j \in Jobs
  PROVE  /\ j.step = "insert_row" => j \in PickJobs
         /\ j.step = "check_items" => j \in CreateJobs
         /\ j.step = "check_ships" => j \in CheckJobs
         /\ j.step \in {"check_item", "check_item_ships", "find_planning", "insert_item"} => j \in AddJobs
         /\ j.step = "release" => j \in ReleaseJobs
         /\ j.step = "delete_item" => j \in RemoveJobs
         /\ j.step = "write_status" => j \in StatusJobs
         /\ j.step \in {"unlink_all", "delete_items", "delete_row"} => j \in DeleteJobs
         /\ j.step = "write_link" => j \in LinkJobs
<1>1. CASE j = Idle
  BY <1>1 DEF Idle
<1>2. CASE j \in CreateJobs
  BY <1>2 DEF CreateJobs
<1>3. CASE j \in AddJobs
  BY <1>3 DEF AddJobs
<1>4. CASE j \in ReleaseJobs
  BY <1>4 DEF ReleaseJobs
<1>5. CASE j \in RemoveJobs
  BY <1>5 DEF RemoveJobs
<1>6. CASE j \in StatusJobs
  BY <1>6 DEF StatusJobs
<1>7. CASE j \in DeleteJobs
  BY <1>7 DEF DeleteJobs
<1>8. CASE j \in LinkJobs
  BY <1>8 DEF LinkJobs
<1>9. CASE j \in PickJobs
  BY <1>9 DEF PickJobs
<1>10. CASE j \in CheckJobs
  BY <1>10 DEF CheckJobs
<1>11. QED
  BY <1>1, <1>2, <1>3, <1>4, <1>5, <1>6, <1>7, <1>8, <1>9, <1>10 DEF Jobs

(* What a step may hand to the next one keeps job and alone typed. *)
LEMMA JobWritten ==
  ASSUME NEW w \in Workers, NEW rest \in Jobs, RequestsTypeOK,
         Arrives(w, rest) \/ (Continue(w, rest) /\ UNCHANGED bookedOnce)
  PROVE  /\ job' \in [Workers -> Jobs] /\ alone' \in [Workers -> BOOLEAN]
         /\ bookedOnce' \in BOOLEAN
BY DEF RequestsTypeOK, Arrives, Serve, Continue, OneActiveDeployment

LEMMA Answered ==
  ASSUME NEW w \in Workers, RequestsTypeOK, Answer(w), UNCHANGED bookedOnce
  PROVE  /\ job' \in [Workers -> Jobs] /\ alone' \in [Workers -> BOOLEAN]
         /\ bookedOnce' \in BOOLEAN
<1>1. Idle \in Jobs
  BY DEF Jobs
<1>2. QED
  BY <1>1, JobWritten DEF Answer

-----------------------------------------------------------------------------
(* A row is created with the job that checks its items. *)
LEMMA CheckingIsJob ==
  ASSUME NEW d \in Deployments, NEW ids \in SUBSET Assets, NEW picked \in BOOLEAN
  PROVE  Checking(d, ids, picked) \in Jobs
BY DEF Checking, Jobs, CreateJobs

(* An auto-assignment only reads when it arrives. *)
LEMMA PickTypeOK ==
  ASSUME NEW w \in Workers, NEW ids \in SUBSET Assets, NEW l \in OrNull(Locations), RequestsTypeOK,
         BeginPick(w, ids, l)
  PROVE  RequestsTypeOK'
<1>1. [step |-> "insert_row", ids |-> ids, target |-> l] \in Jobs
  BY DEF Jobs, PickJobs
<1>2. QED
  BY <1>1, JobWritten DEF BeginPick, RequestsTypeOK, TypeOK, vars, depVars, shipVars, assetVars

(* The requests that arrive for a deployment: only a creation writes at once. *)
LEMMA BeginOnTypeOK ==
  ASSUME NEW w \in Workers, NEW d \in Deployments, RequestsTypeOK, BeginOn(w, d)
  PROVE  RequestsTypeOK'
<1>1. ASSUME UNCHANGED vars, NEW rest \in Jobs, Arrives(w, rest)
      PROVE  RequestsTypeOK'
  BY <1>1, JobWritten DEF RequestsTypeOK, TypeOK, vars, depVars, shipVars, assetVars
<1>2. ASSUME NEW ids \in SUBSET Assets, NEW l \in OrNull(Locations), BeginCreate(w, d, ids, l)
      PROVE  RequestsTypeOK'
  <2>1. TypeOK'
    BY <1>2 DEF BeginCreate, InsertRow, RequestsTypeOK, TypeOK, shipVars, assetVars, DeploymentStatus
  <2>2. Checking(d, ids, FALSE) \in Jobs
    BY CheckingIsJob
  <2>3. QED
    BY <1>2, <2>1, <2>2, JobWritten DEF BeginCreate, RequestsTypeOK
<1>3. ASSUME NEW a \in Assets, NEW force \in BOOLEAN, BeginAdd(w, d, a, force)
      PROVE  RequestsTypeOK'
  <2>1. [step |-> "check_item", d |-> d, a |-> a, force |-> force, from |-> NULL] \in Jobs
    BY DEF Jobs, AddJobs, OrNull
  <2>2. QED
    BY <1>1, <1>3, <2>1 DEF BeginAdd
<1>4. ASSUME NEW a \in Assets, BeginRemove(w, d, a)
      PROVE  RequestsTypeOK'
  <2>1. [step |-> "delete_item", d |-> d, a |-> a] \in Jobs
    BY DEF Jobs, RemoveJobs
  <2>2. QED
    BY <1>1, <1>4, <2>1 DEF BeginRemove
<1>5. ASSUME NEW to \in DeploymentStatus, NEW moves \in SUBSET Assets
      PROVE  Writing(d, to, moves) \in Jobs
  BY <1>5 DEF Writing, Jobs, StatusJobs, RequestsTypeOK, TypeOK
<1>6. CompletionMoves(d) \subseteq Assets
  BY DEF CompletionMoves, RequestsTypeOK, TypeOK
<1>7. CASE BeginStart(w, d) \/ BeginComplete(w, d) \/ BeginCancel(w, d)
  BY <1>1, <1>5, <1>6, <1>7 DEF BeginStart, BeginComplete, BeginCancel, DeploymentStatus
<1>8. CASE BeginDelete(w, d)
  <2>1. [step |-> "unlink_all", d |-> d, ships |-> {s \in Shipments : shipDep[s] = d}] \in Jobs
    BY DEF Jobs, DeleteJobs
  <2>2. QED
    BY <1>1, <1>8, <2>1 DEF BeginDelete
<1>9. ASSUME NEW s \in Shipments, BeginLink(w, d, s) \/ BeginUnlink(w, d, s)
      PROVE  RequestsTypeOK'
  <2>1. /\ [step |-> "write_link", s |-> s, to |-> d] \in Jobs
        /\ [step |-> "write_link", s |-> s, to |-> NULL] \in Jobs
    BY DEF Jobs, LinkJobs, OrNull
  <2>2. QED
    BY <1>1, <1>9, <2>1 DEF BeginLink, BeginUnlink
<1>10. QED
  BY <1>2, <1>3, <1>4, <1>7, <1>8, <1>9 DEF BeginOn

(* The steps of a creation and of an add. *)
LEMMA AddingTypeOK ==
  ASSUME NEW w \in Workers, RequestsTypeOK,
         \/ \E d \in Deployments : InsertPicked(w, d)
         \/ CheckItem(w) \/ CheckItemShips(w) \/ InsertItems(w)
         \/ CheckAdd(w) \/ CheckAddShips(w) \/ FindPlanning(w) \/ ReleaseItem(w) \/ InsertItem(w)
  PROVE  RequestsTypeOK'
<1> DEFINE j == job[w]
<1>1. j \in Jobs
  BY DEF RequestsTypeOK
<1>2. ASSUME UNCHANGED <<vars, bookedOnce>>, \/ Answer(w)
                                             \/ \E rest \in Jobs : Continue(w, rest)
      PROVE  RequestsTypeOK'
  BY <1>2, JobWritten, Answered DEF RequestsTypeOK, TypeOK, vars, depVars, shipVars, assetVars
<1>3. CASE CheckItem(w)
  <2>1. j \in CreateJobs
    BY <1>1, <1>3, StepTellsJob DEF CheckItem, At
  <2>2. \A a \in j.todo : [step |-> "check_ships", d |-> j.d, ids |-> j.ids, todo |-> j.todo \ {a},
                          picked |-> j.picked, a |-> a] \in Jobs
    BY <2>1 DEF CreateJobs, CheckJobs, Jobs
  <2>3. QED
    BY <1>2, <1>3, <2>2 DEF CheckItem
<1>4. CASE InsertItems(w)
  <2>1. j \in CreateJobs
    BY <1>1, <1>4, StepTellsJob DEF InsertItems, At
  <2>2. j.d \in Deployments /\ j.ids \subseteq Assets
    BY <2>1 DEF CreateJobs
  <2>3. TypeOK'
    BY <1>4, <2>2 DEF InsertItems, RequestsTypeOK, TypeOK, shipVars, assetVars
  <2>4. QED
    BY <1>4, <2>3, Answered DEF InsertItems, RequestsTypeOK
<1>5. CASE CheckAdd(w)
  <2>1. j \in AddJobs
    BY <1>1, <1>5, StepTellsJob DEF CheckAdd, At
  <2>2. /\ [j EXCEPT !.step = "check_item_ships"] \in Jobs
        /\ [j EXCEPT !.step = "find_planning"] \in Jobs
    BY <2>1 DEF AddJobs, Jobs
  <2>3. QED
    BY <1>2, <1>5, <2>2 DEF CheckAdd, Advance
<1>6. CASE FindPlanning(w)
  <2>1. j \in AddJobs
    BY <1>1, <1>6, StepTellsJob DEF FindPlanning, At
  <2>2. /\ [j EXCEPT !.step = "insert_item"] \in Jobs
        /\ \A e \in Deployments : [j EXCEPT !.step = "release", !.from = e] \in Jobs
    BY <2>1 DEF AddJobs, ReleaseJobs, Jobs
  <2>3. MovableFrom(j.a, j.d) \subseteq Deployments
    BY DEF MovableFrom, OtherActiveDeployments
  <2>4. QED
    BY <1>2, <1>6, <2>2, <2>3 DEF FindPlanning, Advance
<1>7. CASE ReleaseItem(w)
  <2>1. j \in ReleaseJobs
    BY <1>1, <1>7, StepTellsJob DEF ReleaseItem, At
  <2>2. [j EXCEPT !.step = "insert_item"] \in Jobs
    BY <2>1 DEF ReleaseJobs, AddJobs, Jobs, OrNull
  <2>3. j.from \in Deployments
    BY <2>1 DEF ReleaseJobs
  <2>4. TypeOK'
    BY <1>7, <2>3 DEF ReleaseItem, RequestsTypeOK, TypeOK, shipVars, assetVars
  <2>5. QED
    BY <1>7, <2>2, <2>4, JobWritten DEF ReleaseItem, Advance, RequestsTypeOK
<1>8. CASE InsertItem(w)
  <2>1. j \in AddJobs
    BY <1>1, <1>8, StepTellsJob DEF InsertItem, At
  <2>2. j.d \in Deployments /\ j.a \in Assets
    BY <2>1 DEF AddJobs
  <2>3. TypeOK'
    BY <1>8, <2>2 DEF InsertItem, RequestsTypeOK, TypeOK, shipVars, assetVars
  <2>4. QED
    BY <1>8, <2>3, Answered DEF InsertItem, RequestsTypeOK
<1>9. ASSUME NEW d \in Deployments, InsertPicked(w, d)
      PROVE  RequestsTypeOK'
  <2>1. j \in PickJobs
    BY <1>1, <1>9, StepTellsJob DEF InsertPicked, At
  <2>2. Checking(d, j.ids, TRUE) \in Jobs /\ j.target \in OrNull(Locations)
    BY <2>1, CheckingIsJob DEF PickJobs
  <2>3. TypeOK'
    BY <1>9, <2>2 DEF InsertPicked, InsertRow, RequestsTypeOK, TypeOK, shipVars, assetVars, DeploymentStatus
  <2>4. QED
    BY <1>9, <2>2, <2>3, JobWritten DEF InsertPicked, RequestsTypeOK
<1>10. CASE CheckItemShips(w)
  <2>1. j \in CheckJobs
    BY <1>1, <1>10, StepTellsJob DEF CheckItemShips, At
  <2>2. [step |-> "check_items", d |-> j.d, ids |-> j.ids, todo |-> j.todo, picked |-> j.picked] \in Jobs
    BY <2>1 DEF CheckJobs, CreateJobs, Jobs
  <2>3. QED
    BY <1>2, <1>10, <2>2 DEF CheckItemShips
<1>11. CASE CheckAddShips(w)
  <2>1. j \in AddJobs
    BY <1>1, <1>11, StepTellsJob DEF CheckAddShips, At
  <2>2. [j EXCEPT !.step = "insert_item"] \in Jobs
    BY <2>1 DEF AddJobs, Jobs
  <2>3. QED
    BY <1>2, <1>11, <2>2 DEF CheckAddShips, Advance
<1>12. QED
  BY <1>3, <1>4, <1>5, <1>6, <1>7, <1>8, <1>9, <1>10, <1>11

(* The writes of the other requests. *)
LEMMA WritingTypeOK ==
  ASSUME NEW w \in Workers, RequestsTypeOK,
         \/ DeleteItem(w) \/ WriteStatus(w)
         \/ UnlinkShipments(w) \/ DeleteItems(w) \/ DeleteRow(w)
         \/ WriteLink(w)
  PROVE  RequestsTypeOK'
<1> DEFINE j == job[w]
<1>1. j \in Jobs
  BY DEF RequestsTypeOK
<1> USE DEF RequestsTypeOK, TypeOK, depVars, shipVars, assetVars
<1>2. CASE DeleteItem(w)
  <2>1. j \in RemoveJobs
    BY <1>1, <1>2, StepTellsJob DEF DeleteItem, At
  <2>2. j.d \in Deployments
    BY <2>1 DEF RemoveJobs
  <2>3. TypeOK'
    BY <1>2, <2>2 DEF DeleteItem
  <2>4. QED
    BY <1>2, <2>3, Answered DEF DeleteItem
<1>3. CASE WriteStatus(w)
  <2>1. j \in StatusJobs
    BY <1>1, <1>3, StepTellsJob DEF WriteStatus, At
  <2>2. j.d \in Deployments /\ j.to \in DeploymentStatus /\ j.target \in OrNull(Locations)
    BY <2>1 DEF StatusJobs
  <2>3. /\ assetLoc' \in [Assets -> OrNull(Locations)]
        /\ locLogged' \in [Assets -> OrNull(Locations)]
    BY <1>3, <2>2 DEF WriteStatus, Relocated
  <2>4. depStatus' \in [Deployments -> DeploymentStatus \cup {"none"}]
    BY <1>3, <2>2 DEF WriteStatus
  <2>5. QED
    BY <1>3, <2>3, <2>4, Answered DEF WriteStatus
<1>4. CASE UnlinkShipments(w)
  <2>1. j \in DeleteJobs
    BY <1>1, <1>4, StepTellsJob DEF UnlinkShipments, At
  <2>2. [j EXCEPT !.step = "delete_items"] \in Jobs
    BY <2>1 DEF DeleteJobs, Jobs
  <2>3. job' \in [Workers -> Jobs] /\ alone' \in [Workers -> BOOLEAN] /\ bookedOnce' \in BOOLEAN
    BY <1>4, <2>2, JobWritten, Answered DEF UnlinkShipments, Advance
  <2>4. shipDep' \in [Shipments -> OrNull(Deployments)]
    BY <1>4 DEF UnlinkShipments, OrNull
  <2>5. QED
    BY <1>4, <2>3, <2>4 DEF UnlinkShipments
<1>5. CASE DeleteItems(w)
  <2>1. j \in DeleteJobs
    BY <1>1, <1>5, StepTellsJob DEF DeleteItems, At
  <2>2. [j EXCEPT !.step = "delete_row"] \in Jobs
    BY <2>1 DEF DeleteJobs, Jobs
  <2>3. job' \in [Workers -> Jobs] /\ alone' \in [Workers -> BOOLEAN] /\ bookedOnce' \in BOOLEAN
    BY <1>5, <2>2, JobWritten DEF DeleteItems, Advance
  <2>4. depItems' \in [Deployments -> SUBSET Assets]
    BY <1>5 DEF DeleteItems
  <2>5. QED
    BY <1>5, <2>3, <2>4 DEF DeleteItems
<1>6. CASE DeleteRow(w)
  <2>1. TypeOK'
    BY <1>6 DEF DeleteRow, OrNull
  <2>2. QED
    BY <1>6, <2>1, Answered DEF DeleteRow
<1>7. CASE WriteLink(w)
  <2>1. j \in LinkJobs
    BY <1>1, <1>7, StepTellsJob DEF WriteLink, At
  <2>2. j.to \in OrNull(Deployments)
    BY <2>1 DEF LinkJobs
  <2>3. TypeOK'
    BY <1>7, <2>2 DEF WriteLink
  <2>4. QED
    BY <1>7, <2>3, Answered DEF WriteLink
<1>8. QED
  BY <1>2, <1>3, <1>4, <1>5, <1>6, <1>7

(* What the other users do to the shipments. *)
LEMMA OtherUsersTypeOK ==
  ASSUME RequestsTypeOK, OtherUsers
  PROVE  RequestsTypeOK'
<1> SUFFICES ASSUME NEW s \in Shipments,
                    \/ \E ids \in SUBSET Assets, d \in OrNull(Deployments) :
                         CreateShipment(s, ids, d, "outbound", NULL, NoReport)
                    \/ ResolveShipment(s)
                    \/ DeleteShipment(s)
             PROVE  TypeOK'
  BY DEF OtherUsers, RequestsTypeOK
<1> USE DEF RequestsTypeOK, TypeOK, depVars, shipVars, assetVars, Resolution
<1>1. ASSUME NEW ids \in SUBSET Assets, NEW d \in OrNull(Deployments),
             CreateShipment(s, ids, d, "outbound", NULL, NoReport)
      PROVE  TypeOK'
  <2>1. assetLoc' \in [Assets -> OrNull(Locations)]
    BY <1>1 DEF CreateShipment, Relocated, OrNull
  <2>2. shipCarrier' \in [Shipments -> CarrierStatus]
    BY <1>1 DEF CreateShipment, CarrierAfter, CarrierStatus
  <2>3. QED
    BY <1>1, <2>1, <2>2 DEF CreateShipment, OrNull
<1>2. CASE ResolveShipment(s)
  BY <1>2 DEF ResolveShipment
<1>3. CASE DeleteShipment(s)
  BY <1>3 DEF DeleteShipment, CarrierStatus, OrNull
<1>4. QED
  BY <1>1, <1>2, <1>3

(***************************************************************************)
(* Tables and sessions keep their types, whatever requests overlap.        *)
(***************************************************************************)
THEOREM RequestsTypeCorrect == Spec => []RequestsTypeOK
<1>1. Init => RequestsTypeOK
  BY DEF Init, InitRequests, RequestsTypeOK, TypeOK, OrNull, CarrierStatus, Jobs
<1>2. RequestsTypeOK /\ [Next]_allVars => RequestsTypeOK'
  <2> SUFFICES ASSUME RequestsTypeOK, [Next]_allVars
               PROVE  RequestsTypeOK'
    OBVIOUS
  <2>1. ASSUME NEW w \in Workers, Begin(w)
        PROVE  RequestsTypeOK'
    BY <2>1, BeginOnTypeOK, PickTypeOK DEF Begin
  <2>2. ASSUME NEW w \in Workers, GoOn(w)
        PROVE  RequestsTypeOK'
    BY <2>2, AddingTypeOK, WritingTypeOK DEF GoOn
  <2>3. CASE Restart
    BY <2>3 DEF Restart, DropRequests, RequestsTypeOK, TypeOK, Jobs, vars, depVars, shipVars, assetVars
  <2>4. CASE OtherUsers
    BY <2>4, OtherUsersTypeOK
  <2>5. CASE UNCHANGED allVars
    BY <2>5 DEF allVars, RequestsTypeOK, TypeOK, vars, depVars, shipVars, assetVars
  <2>6. QED
    BY <2>1, <2>2, <2>3, <2>4, <2>5 DEF Next
<1>3. QED
  BY <1>1, <1>2, PTL DEF Spec

-----------------------------------------------------------------------------
(* A step that touches neither of the four columns keeps the references. *)
LEMMA UntouchedRows ==
  ASSUME NoDanglingRows, UNCHANGED <<depStatus, depItems, shipResolution, shipItems, shipDep>>
  PROVE  NoDanglingRows'
BY DEF NoDanglingRows

(* Items are attached to rows that exist, and rows are deleted bare. *)
LEMMA GoOnKeepsReferences ==
  ASSUME NEW w \in Workers, RequestsTypeOK, NoDanglingRows, GoOn(w)
  PROVE  NoDanglingRows'
<1> DEFINE j == job[w]
<1>1. j \in Jobs
  BY DEF RequestsTypeOK
<1> USE DEF RequestsTypeOK, TypeOK, depVars, shipVars, assetVars
<1>2. CASE CheckItem(w) \/ CheckItemShips(w) \/ CheckAdd(w) \/ CheckAddShips(w) \/ FindPlanning(w)
  BY <1>2, UntouchedRows DEF CheckItem, CheckItemShips, CheckAdd, CheckAddShips, FindPlanning, vars
<1>3. CASE InsertItems(w)
  BY <1>3 DEF InsertItems, NoDanglingRows, DepExists
<1>4. CASE ReleaseItem(w)
  BY <1>4 DEF ReleaseItem, NoDanglingRows
<1>5. CASE InsertItem(w)
  BY <1>5 DEF InsertItem, NoDanglingRows, DepExists
<1>6. CASE DeleteItem(w)
  BY <1>6 DEF DeleteItem, NoDanglingRows
<1>7. CASE WriteStatus(w)
  <2>1. j \in StatusJobs
    BY <1>1, <1>7, StepTellsJob DEF WriteStatus, At
  <2>2. j.to # "none"
    BY <2>1 DEF StatusJobs, DeploymentStatus
  <2>3. \A d \in Deployments : (depStatus'[d] = "none") <=> (depStatus[d] = "none")
    BY <1>7, <2>2 DEF WriteStatus, DepExists
  <2>4. UNCHANGED <<depItems, shipResolution, shipItems, shipDep>>
    BY <1>7 DEF WriteStatus
  <2>5. QED
    BY <2>3, <2>4 DEF NoDanglingRows, OrNull
<1>8. CASE UnlinkShipments(w)
  BY <1>8 DEF UnlinkShipments, NoDanglingRows
<1>9. CASE DeleteItems(w)
  BY <1>9 DEF DeleteItems, NoDanglingRows
<1>10. CASE DeleteRow(w)
  <2>1. UNCHANGED <<depItems, shipResolution, shipItems, shipDep>>
    BY <1>10 DEF DeleteRow
  <2>2. \A d \in Deployments : depStatus'[d] = "none" =>
          depStatus[d] = "none" \/ (depItems[d] = {} /\ \A s \in Shipments : shipDep[s] # d)
    BY <1>10 DEF DeleteRow
  <2>3. QED
    BY <2>1, <2>2 DEF NoDanglingRows, OrNull
<1>11. CASE WriteLink(w)
  <2>1. UNCHANGED <<depStatus, depItems, shipResolution, shipItems>>
    BY <1>11 DEF WriteLink
  <2>2. \A s \in Shipments :
          \/ shipDep'[s] = shipDep[s]
          \/ shipResolution[s] # "none" /\ (shipDep'[s] # NULL => depStatus[shipDep'[s]] # "none")
    BY <1>11 DEF WriteLink, DepExists
  <2>3. QED
    BY <2>1, <2>2 DEF NoDanglingRows
<1>12. CASE \E d \in Deployments : InsertPicked(w, d)
  BY <1>12 DEF InsertPicked, InsertRow, NoDanglingRows, OrNull
<1>13. QED
  BY <1>2, <1>3, <1>4, <1>5, <1>6, <1>7, <1>8, <1>9, <1>10, <1>11, <1>12 DEF GoOn

(* Arriving requests read, but for a creation, which adds a bare row. *)
LEMMA BeginKeepsReferences ==
  ASSUME NEW w \in Workers, RequestsTypeOK, NoDanglingRows, Begin(w)
  PROVE  NoDanglingRows'
<1>1. CASE \E d \in Deployments, ids \in SUBSET Assets, l \in OrNull(Locations) : BeginCreate(w, d, ids, l)
  BY <1>1 DEF BeginCreate, InsertRow, NoDanglingRows, RequestsTypeOK, TypeOK, shipVars, OrNull
<1>2. CASE UNCHANGED vars
  BY <1>2, UntouchedRows DEF vars, depVars, shipVars
<1>3. QED
  BY <1>1, <1>2 DEF Begin, BeginPick, BeginOn, BeginAdd, BeginRemove, BeginStart, BeginComplete, BeginCancel,
     BeginDelete, BeginLink, BeginUnlink

(* A shipment is created for a deployment that exists, and deleted whole. *)
LEMMA OtherUsersKeepReferences ==
  ASSUME RequestsTypeOK, NoDanglingRows, OtherUsers
  PROVE  NoDanglingRows'
<1> USE DEF RequestsTypeOK, TypeOK, depVars, shipVars, assetVars
<1>1. ASSUME NEW s \in Shipments, NEW ids \in SUBSET Assets, NEW d \in OrNull(Deployments),
             CreateShipment(s, ids, d, "outbound", NULL, NoReport)
      PROVE  NoDanglingRows'
  BY <1>1 DEF CreateShipment, NoDanglingRows, IsDeploymentActive, ActiveStatuses
<1>2. ASSUME NEW s \in Shipments, ResolveShipment(s)
      PROVE  NoDanglingRows'
  BY <1>2 DEF ResolveShipment, NoDanglingRows
<1>3. ASSUME NEW s \in Shipments, DeleteShipment(s)
      PROVE  NoDanglingRows'
  BY <1>3 DEF DeleteShipment, NoDanglingRows
<1>4. QED
  BY <1>1, <1>2, <1>3 DEF OtherUsers

(***************************************************************************)
(* Foreign keys hold whatever requests overlap and wherever they are       *)
(* killed: every check a request made may be stale when it writes, but the *)
(* database refuses the writes that would leave a reference dangling.      *)
(***************************************************************************)
THEOREM ForeignKeysHoldUnderOverlap == Spec => []NoDanglingRows
<1>1. Init => NoDanglingRows
  BY DEF Init, InitRequests, NoDanglingRows
<1>2. RequestsTypeOK /\ NoDanglingRows /\ [Next]_allVars => NoDanglingRows'
  <2> SUFFICES ASSUME RequestsTypeOK, NoDanglingRows, [Next]_allVars
               PROVE  NoDanglingRows'
    OBVIOUS
  <2>1. CASE Restart \/ UNCHANGED allVars
    BY <2>1, UntouchedRows DEF Restart, allVars, vars, depVars, shipVars
  <2>2. QED
    BY <2>1, BeginKeepsReferences, GoOnKeepsReferences, OtherUsersKeepReferences DEF Next
<1>3. QED
  BY <1>1, <1>2, RequestsTypeCorrect, PTL DEF Spec

-----------------------------------------------------------------------------
(***************************************************************************)
(* A request that overlaps no other goes by what the tables say: the rest  *)
(* of its statements rely on what it read, and nobody writes a deployment  *)
(* meanwhile.                                                              *)
(***************************************************************************)
Current(j) ==
  /\ j.step = "insert_row" =>
       \A a \in j.ids, d \in Deployments : ~(IsDeploymentActive(d) /\ a \in depItems[d])
  /\ j.step \in {"check_items", "check_ships"} =>
       /\ depStatus[j.d] = "planning" /\ depItems[j.d] = {}
       /\ j.todo \subseteq j.ids
       /\ \A a \in j.ids : j.picked \/ a \notin j.todo => OtherActiveDeployments(a, j.d) = {}
  /\ j.step \in {"check_item", "check_item_ships", "find_planning", "release", "insert_item"} =>
       depStatus[j.d] = "planning"
  /\ j.step = "find_planning" => MovableFrom(j.a, j.d) # {}
  /\ j.step = "release" => j.from \in MovableFrom(j.a, j.d)
  /\ j.step = "check_item_ships" \/ (j.step = "insert_item" /\ bookedOnce) =>
       OtherActiveDeployments(j.a, j.d) = {}
  /\ j.step = "delete_item" => depStatus[j.d] = "planning" /\ j.a \in depItems[j.d]
  /\ j.step = "write_status" =>
       /\ DepExists(j.d) /\ <<depStatus[j.d], j.to>> \in LifecycleSteps
       /\ j.to = "in_progress" => depItems[j.d] # {}
  /\ j.step = "delete_row" => depItems[j.d] = {}

LoneSession(w) ==
  alone[w] /\ ~At(w, "idle") =>
    /\ \A v \in Workers \ {w} : At(v, "idle")
    /\ Current(job[w])
    /\ bookedOnce => OneActiveDeployment

LoneInv == RequestsTypeOK /\ NoDanglingRows /\ \A w \in Workers : LoneSession(w)

-----------------------------------------------------------------------------
(* What the statements do to the reservations. *)
Steps == StatementLedger!Next \/ UNCHANGED <<LedgerHolder, StandingFirm>>

LEMMA Stutters ==
  ASSUME OneActiveDeployment, UNCHANGED <<depStatus, depItems>>
  PROVE  OneActiveDeployment' /\ Steps
<1>1. OneActiveDeployment'
  BY DEF OneActiveDeployment, IsDeploymentActive
<1>2. UNCHANGED LedgerHolder
  BY <1>1, SameHolders DEF IsDeploymentActive
<1>3. UNCHANGED StandingFirm
  BY DEF StandingFirm, LedgerFirm
<1>4. QED
  BY <1>1, <1>2, <1>3 DEF Steps

(* Assets on no active deployment are put on a plan. *)
LEMMA Reserves ==
  ASSUME TypeOK, OneActiveDeployment, NEW d \in Deployments, depStatus[d] = "planning",
         NEW S \in SUBSET Assets, \A a \in S : OtherActiveDeployments(a, d) = {},
         depItems' = [depItems EXCEPT ![d] = @ \cup S], UNCHANGED depStatus
  PROVE  OneActiveDeployment' /\ Steps
<1> DEFINE new == S \ depItems[d]
<1> USE DEF TypeOK, IsDeploymentActive, ActiveStatuses
<1>1. OneActiveDeployment'
  BY DEF OneActiveDeployment, OtherActiveDeployments
<1>2. new \subseteq StatementLedger!Held(NULL)
  <2> SUFFICES ASSUME NEW a \in new
               PROVE  a \in Ledger!Held(NULL)
    BY DEF Ledger!Held, StatementLedger!Held
  <2>1. HoldersOf(a) = {}
    BY DEF OtherActiveDeployments, HoldersOf
  <2>2. QED
    BY <2>1, FreeIsUnheld
<1>3. Ledger!Give(new, d)
  <2>1. \A e \in Deployments, a \in Assets :
          (IsDeploymentActive(e) /\ a \in depItems[e])'
            <=> IF a \in new THEN e = d ELSE IsDeploymentActive(e) /\ a \in depItems[e]
    BY DEF OtherActiveDeployments
  <2>2. QED
    BY <1>1, <2>1, GiveByTables DEF OrNull
<1>4. d \notin StandingFirm /\ UNCHANGED StandingFirm
  BY DEF StandingFirm, LedgerFirm
<1>5. StatementLedger!Reserve(d, new)
  BY <1>2, <1>3, <1>4 DEF StatementLedger!Reserve, StatementLedger!Give, Ledger!Give
<1>6. QED
  BY <1>1, <1>5 DEF Steps, StatementLedger!Next

(* A plan loses assets. *)
LEMMA Releases ==
  ASSUME TypeOK, OneActiveDeployment, NEW d \in Deployments, depStatus[d] = "planning",
         NEW a \in depItems[d],
         depItems' = [depItems EXCEPT ![d] = @ \ {a}], UNCHANGED depStatus
  PROVE  OneActiveDeployment' /\ Steps
<1> USE DEF TypeOK, IsDeploymentActive, ActiveStatuses
<1>1. OneActiveDeployment' /\ a \in Assets
  BY DEF OneActiveDeployment
<1>2. {a} \subseteq StatementLedger!Held(d)
  BY <1>1, HeldIsItems DEF Ledger!Held, StatementLedger!Held
<1>3. Ledger!Give({a}, NULL)
  <2>1. \A e \in Deployments, b \in Assets :
          (IsDeploymentActive(e) /\ b \in depItems[e])'
            <=> IF b \in {a} THEN e = NULL ELSE IsDeploymentActive(e) /\ b \in depItems[e]
    BY KeysAreDistinct DEF OneActiveDeployment
  <2>2. QED
    BY <1>1, <2>1, GiveByTables DEF OrNull
<1>4. d \notin StandingFirm /\ UNCHANGED StandingFirm
  BY DEF StandingFirm, LedgerFirm
<1>5. StatementLedger!Release(d, {a})
  BY <1>2, <1>3, <1>4 DEF StatementLedger!Release, StatementLedger!Give, Ledger!Give
<1>6. QED
  BY <1>1, <1>5 DEF Steps, StatementLedger!Next

(* A plan with items is started. *)
LEMMA Confirms ==
  ASSUME TypeOK, OneActiveDeployment, NEW d \in Deployments, depStatus[d] = "planning",
         depItems[d] # {}, depStatus' = [depStatus EXCEPT ![d] = "in_progress"],
         UNCHANGED depItems
  PROVE  OneActiveDeployment' /\ Steps
<1> USE DEF TypeOK, IsDeploymentActive, ActiveStatuses
<1>1. OneActiveDeployment'
  BY DEF OneActiveDeployment
<1>2. d \notin StandingFirm /\ StandingFirm' = StandingFirm \cup {d}
  BY DEF StandingFirm, LedgerFirm
<1>3. StatementLedger!Held(d) # {}
  BY HeldIsItems DEF Ledger!Held, StatementLedger!Held
<1>4. UNCHANGED LedgerHolder
  BY <1>1, SameHolders
<1>5. StatementLedger!Confirm(d)
  BY <1>2, <1>3, <1>4 DEF StatementLedger!Confirm
<1>6. QED
  BY <1>1, <1>5 DEF Steps, StatementLedger!Next

(* A deployment that reserves nothing afterwards has let go of all it held. *)
LEMMA LetsGo ==
  ASSUME TypeOK, OneActiveDeployment, NEW d \in Deployments,
         \A e \in Deployments \ {d} : depStatus'[e] = depStatus[e] /\ depItems'[e] = depItems[e],
         ~(IsDeploymentActive(d)') \/ depItems'[d] = {}
  PROVE  OneActiveDeployment' /\ Steps
<1> USE DEF TypeOK
<1>1. OneActiveDeployment'
  BY DEF OneActiveDeployment, IsDeploymentActive
<1>2. StandingFirm' = StandingFirm \ {d}
  BY DEF StandingFirm, LedgerFirm, IsDeploymentActive, ActiveStatuses
<1>3. CASE IsDeploymentActive(d)
  <2>1. StatementLedger!Held(d) = depItems[d]
    BY <1>3, HeldIsItems DEF Ledger!Held, StatementLedger!Held
  <2>2. \A e \in Deployments, a \in Assets :
          (IsDeploymentActive(e) /\ a \in depItems[e])'
            <=> IF a \in depItems[d] THEN e = NULL ELSE IsDeploymentActive(e) /\ a \in depItems[e]
    BY <1>3, KeysAreDistinct DEF OneActiveDeployment, IsDeploymentActive
  <2>3. Ledger!Give(depItems[d], NULL)
    BY <1>1, <2>2, GiveByTables DEF OrNull
  <2>4. StatementLedger!Give(StatementLedger!Held(d), NULL)
    BY <2>1, <2>3 DEF StatementLedger!Give, Ledger!Give
  <2>5. CASE d \in StandingFirm
    BY <1>1, <1>2, <2>4, <2>5 DEF Steps, StatementLedger!Next, StatementLedger!Close
  <2>6. CASE d \notin StandingFirm
    <3>1. StatementLedger!Release(d, StatementLedger!Held(d))
      BY <1>2, <2>4, <2>6 DEF StatementLedger!Release
    <3>2. QED
      BY <1>1, <2>1, <3>1 DEF Steps, StatementLedger!Next
  <2>7. QED
    BY <2>5, <2>6
<1>4. CASE ~IsDeploymentActive(d)
  <2>1. \A e \in Deployments, a \in Assets :
          (IsDeploymentActive(e) /\ a \in depItems[e])' <=> IsDeploymentActive(e) /\ a \in depItems[e]
    BY <1>4 DEF IsDeploymentActive
  <2>2. UNCHANGED LedgerHolder
    BY <1>1, <2>1, SameHolders
  <2>3. UNCHANGED StandingFirm
    BY <1>2, <1>4 DEF StandingFirm, LedgerFirm, IsDeploymentActive, ActiveStatuses
  <2>4. QED
    BY <1>1, <2>2, <2>3 DEF Steps
<1>5. QED
  BY <1>3, <1>4

(***************************************************************************)
(* One statement of a request that overlaps no other, if no asset was on   *)
(* two active deployments before it.                                       *)
(***************************************************************************)
LEMMA LoneStatement ==
  ASSUME LoneInv, NEW w \in Workers, GoOn(w), alone[w], bookedOnce
  PROVE  OneActiveDeployment' /\ Steps
<1> DEFINE j == job[w]
<1>1. ~At(w, "idle")
  BY DEF GoOn, InsertPicked, CheckItem, CheckItemShips, InsertItems, CheckAdd,
         CheckAddShips, FindPlanning, ReleaseItem,
         InsertItem, DeleteItem, WriteStatus, UnlinkShipments, DeleteItems, DeleteRow, WriteLink, At
<1>2. j \in Jobs /\ TypeOK /\ NoDanglingRows /\ Current(j) /\ OneActiveDeployment
  BY <1>1 DEF LoneInv, RequestsTypeOK, LoneSession
<1>3. CASE UNCHANGED <<depStatus, depItems>>
  BY <1>2, <1>3, Stutters
<1>4. CASE \/ CheckItem(w) \/ CheckItemShips(w) \/ CheckAdd(w) \/ CheckAddShips(w) \/ FindPlanning(w)
           \/ UnlinkShipments(w) \/ WriteLink(w)
  BY <1>3, <1>4 DEF CheckItem, CheckItemShips, CheckAdd, CheckAddShips, FindPlanning, UnlinkShipments,
                    WriteLink, vars, depVars
<1>5. ASSUME NEW d \in Deployments, InsertPicked(w, d)
      PROVE  OneActiveDeployment' /\ Steps
  <2>1. depItems[d] = {} /\ depItems' = depItems /\ \A e \in Deployments \ {d} : depStatus'[e] = depStatus[e]
    BY <1>2, <1>5 DEF InsertPicked, InsertRow, DepExists, NoDanglingRows, TypeOK
  <2>2. QED
    BY <1>2, <2>1, LetsGo
<1>6. CASE InsertItems(w)
  <2>1. At(w, "check_items") /\ j.todo = {} /\ UNCHANGED depStatus
    BY <1>6 DEF InsertItems
  <2>2. j.d \in Deployments /\ j.ids \in SUBSET Assets
    BY <1>2, <2>1, StepTellsJob DEF CreateJobs, At
  <2>3. depStatus[j.d] = "planning" /\ \A a \in j.ids : OtherActiveDeployments(a, j.d) = {}
    BY <1>2, <2>1 DEF Current, At
  <2>4. depItems' = [depItems EXCEPT ![j.d] = @ \cup j.ids] \/ UNCHANGED depItems
    BY <1>6 DEF InsertItems
  <2>5. QED
    BY <1>2, <1>3, <2>1, <2>2, <2>3, <2>4, Reserves
<1>7. CASE ReleaseItem(w)
  <2>1. At(w, "release") /\ UNCHANGED depStatus
        /\ depItems' = [depItems EXCEPT ![j.from] = @ \ {j.a}]
    BY <1>7 DEF ReleaseItem
  <2>2. j.from \in MovableFrom(j.a, j.d)
    BY <1>2, <2>1 DEF Current, At
  <2>3. j.from \in Deployments /\ depStatus[j.from] = "planning" /\ j.a \in depItems[j.from]
    BY <2>2 DEF MovableFrom, OtherActiveDeployments
  <2>4. QED
    BY <1>2, <2>1, <2>3, Releases
<1>8. CASE InsertItem(w)
  <2>1. At(w, "insert_item") /\ UNCHANGED depStatus
    BY <1>8 DEF InsertItem
  <2>2. j.d \in Deployments /\ j.a \in Assets
    BY <1>2, <2>1, StepTellsJob DEF AddJobs, At
  <2>3. depStatus[j.d] = "planning" /\ OtherActiveDeployments(j.a, j.d) = {}
    BY <1>2, <2>1 DEF Current, At
  <2>4. depItems' = [depItems EXCEPT ![j.d] = @ \cup {j.a}]
    BY <1>8, <2>3 DEF InsertItem, DepExists
  <2>5. {j.a} \in SUBSET Assets /\ \A a \in {j.a} : OtherActiveDeployments(a, j.d) = {}
    BY <2>2, <2>3
  <2>6. QED
    BY <1>2, <2>1, <2>2, <2>3, <2>4, <2>5, Reserves
<1>9. CASE DeleteItem(w)
  <2>1. At(w, "delete_item") /\ UNCHANGED depStatus
        /\ depItems' = [depItems EXCEPT ![j.d] = @ \ {j.a}]
    BY <1>9 DEF DeleteItem
  <2>2. j.d \in Deployments
    BY <1>2, <2>1, StepTellsJob DEF RemoveJobs, At
  <2>3. depStatus[j.d] = "planning" /\ j.a \in depItems[j.d]
    BY <1>2, <2>1 DEF Current, At
  <2>4. QED
    BY <1>2, <2>1, <2>2, <2>3, Releases
<1>10. CASE WriteStatus(w)
  <2>1. At(w, "write_status") /\ UNCHANGED depItems
    BY <1>10 DEF WriteStatus
  <2>2. j.d \in Deployments /\ j.to \in DeploymentStatus
    BY <1>2, <2>1, StepTellsJob DEF StatusJobs, At
  <2>3. /\ DepExists(j.d) /\ <<depStatus[j.d], j.to>> \in LifecycleSteps
        /\ j.to = "in_progress" => depItems[j.d] # {}
    BY <1>2, <2>1 DEF Current, At
  <2>4. depStatus' = [depStatus EXCEPT ![j.d] = j.to]
    BY <1>10, <2>3 DEF WriteStatus
  <2>5. CASE j.to = "in_progress"
    <3>1. depStatus[j.d] = "planning"
      BY <2>3, <2>5 DEF LifecycleSteps
    <3>2. QED
      BY <1>2, <2>1, <2>2, <2>3, <2>4, <2>5, <3>1, Confirms
  <2>6. CASE j.to # "in_progress"
    <3>1. j.to \in {"completed", "cancelled"}
      BY <2>3, <2>6 DEF LifecycleSteps, DepExists
    <3>2. PICK d \in Deployments : d = j.d
      BY <2>2
    <3>3. /\ ~(IsDeploymentActive(d)')
          /\ \A e \in Deployments \ {d} : depStatus'[e] = depStatus[e]
      BY <1>2, <2>4, <3>1, <3>2 DEF IsDeploymentActive, ActiveStatuses, TypeOK
    <3>4. QED
      BY <1>2, <2>1, <3>3, LetsGo
  <2>7. QED
    BY <2>5, <2>6
<1>11. CASE DeleteItems(w)
  <2>1. At(w, "delete_items") /\ UNCHANGED depStatus
        /\ depItems' = [depItems EXCEPT ![j.d] = {}]
    BY <1>11 DEF DeleteItems
  <2>2. PICK d \in Deployments : d = j.d
    BY <1>2, <2>1, StepTellsJob DEF DeleteJobs, At
  <2>3. depItems'[d] = {} /\ \A e \in Deployments \ {d} : depItems'[e] = depItems[e]
    BY <1>2, <2>1, <2>2 DEF TypeOK
  <2>4. QED
    BY <1>2, <2>1, <2>3, LetsGo
<1>12. CASE DeleteRow(w)
  <2>1. At(w, "delete_row") /\ UNCHANGED depItems
        /\ (UNCHANGED depStatus \/ depStatus' = [depStatus EXCEPT ![j.d] = "none"])
    BY <1>12 DEF DeleteRow
  <2>2. PICK d \in Deployments : d = j.d
    BY <1>2, <2>1, StepTellsJob DEF DeleteJobs, At
  <2>3. depItems[d] = {}
    BY <1>2, <2>1, <2>2 DEF Current, At
  <2>4. \A e \in Deployments \ {d} : depStatus'[e] = depStatus[e]
    BY <1>2, <2>1, <2>2 DEF TypeOK
  <2>5. QED
    BY <1>2, <2>1, <2>3, <2>4, LetsGo
<1>13. QED
  BY <1>4, <1>5, <1>6, <1>7, <1>8, <1>9, <1>10, <1>11, <1>12 DEF GoOn

-----------------------------------------------------------------------------
(* What a request goes by when it has arrived. *)
LEMMA ArrivesCurrent ==
  ASSUME LoneInv, NEW w \in Workers, Begin(w)
  PROVE  /\ \E rest : Arrives(w, rest)
         /\ Current(job[w])'
         /\ bookedOnce' => OneActiveDeployment'
<1>1. job \in [Workers -> Jobs] /\ TypeOK /\ NoDanglingRows
  BY DEF LoneInv, RequestsTypeOK
<1>2. ASSUME NEW rest, Arrives(w, rest)
      PROVE  job'[w] = rest /\ (bookedOnce' => OneActiveDeployment)
  BY <1>1, <1>2 DEF Arrives, Serve
<1>3. UNCHANGED <<depStatus, depItems>> => (OneActiveDeployment => OneActiveDeployment')
  BY DEF OneActiveDeployment, IsDeploymentActive
<1>4. ASSUME NEW ids \in SUBSET Assets, NEW l \in OrNull(Locations), BeginPick(w, ids, l)
      PROVE  /\ \E rest : Arrives(w, rest)
             /\ Current(job[w])' /\ (bookedOnce' => OneActiveDeployment')
  <2>1. Arrives(w, [step |-> "insert_row", ids |-> ids, target |-> l]) /\ UNCHANGED <<depStatus, depItems>>
    BY <1>4 DEF BeginPick, vars, depVars
  <2>2. job'[w] = [step |-> "insert_row", ids |-> ids, target |-> l]
    BY <1>2, <2>1
  <2>3. \A a \in ids, d \in Deployments : ~(IsDeploymentActive(d) /\ a \in depItems[d])
    BY <1>4 DEF BeginPick, Pickable
  <2>4. QED
    BY <1>2, <1>3, <2>1, <2>2, <2>3 DEF Current, IsDeploymentActive
<1>5. ASSUME NEW d \in Deployments, NEW ids \in SUBSET Assets, NEW l \in OrNull(Locations),
             BeginCreate(w, d, ids, l)
      PROVE  /\ \E rest : Arrives(w, rest)
             /\ Current(job[w])' /\ (bookedOnce' => OneActiveDeployment')
  <2>1. Arrives(w, Checking(d, ids, FALSE))
    BY <1>5 DEF BeginCreate
  <2>2. job'[w] = [step |-> "check_items", d |-> d, ids |-> ids, todo |-> ids, picked |-> FALSE]
    BY <1>2, <2>1 DEF Checking
  <2>3. /\ depItems[d] = {} /\ UNCHANGED depItems
        /\ depStatus'[d] = "planning"
        /\ \A e \in Deployments \ {d} : depStatus'[e] = depStatus[e]
    BY <1>1, <1>5 DEF BeginCreate, InsertRow, DepExists, NoDanglingRows, TypeOK
  <2>4. OneActiveDeployment => OneActiveDeployment'
    BY <2>3 DEF OneActiveDeployment, IsDeploymentActive
  <2>5. Current(job[w])'
    BY <2>2, <2>3 DEF Current
  <2>6. QED
    BY <1>2, <2>1, <2>4, <2>5
<1>6. ASSUME NEW d \in Deployments, UNCHANGED <<depStatus, depItems>>, NEW rest, Arrives(w, rest),
             \/ rest.step = "check_item" /\ rest.d = d /\ depStatus[d] = "planning"
             \/ /\ rest.step = "delete_item" /\ rest.d = d
                /\ depStatus[d] = "planning" /\ rest.a \in depItems[d]
             \/ /\ rest.step = "write_status" /\ rest.d = d
                /\ DepExists(d) /\ <<depStatus[d], rest.to>> \in LifecycleSteps
                /\ rest.to = "in_progress" => depItems[d] # {}
             \/ rest.step \in {"unlink_all", "write_link"}
      PROVE  /\ \E r : Arrives(w, r)
             /\ Current(job[w])' /\ (bookedOnce' => OneActiveDeployment')
  <2>1. job'[w] = rest
    BY <1>2, <1>6
  <2>2. Current(job[w])'
    BY <1>6, <2>1 DEF Current, DepExists
  <2>3. QED
    BY <1>2, <1>3, <1>6, <2>2
<1>7. ASSUME NEW d \in Deployments, NEW a \in Assets, NEW force, BeginAdd(w, d, a, force)
      PROVE  /\ \E rest : Arrives(w, rest)
             /\ Current(job[w])' /\ (bookedOnce' => OneActiveDeployment')
  BY <1>6, <1>7 DEF BeginAdd, vars, depVars
<1>8. ASSUME NEW d \in Deployments, NEW a \in Assets, BeginRemove(w, d, a)
      PROVE  /\ \E rest : Arrives(w, rest)
             /\ Current(job[w])' /\ (bookedOnce' => OneActiveDeployment')
  BY <1>6, <1>8 DEF BeginRemove, vars, depVars
<1>9. ASSUME NEW d \in Deployments, BeginStart(w, d) \/ BeginComplete(w, d) \/ BeginCancel(w, d)
      PROVE  /\ \E rest : Arrives(w, rest)
             /\ Current(job[w])' /\ (bookedOnce' => OneActiveDeployment')
  <2>1. UNCHANGED <<depStatus, depItems>>
    BY <1>9 DEF BeginStart, BeginComplete, BeginCancel, vars, depVars
  <2>2. PICK to, moves :
          /\ Arrives(w, Writing(d, to, moves))
          /\ DepExists(d) /\ <<depStatus[d], to>> \in LifecycleSteps
          /\ to = "in_progress" => depItems[d] # {}
    BY <1>9 DEF BeginStart, BeginComplete, BeginCancel, DepExists, LifecycleSteps,
                IsDeploymentActive, ActiveStatuses
  <2> DEFINE rest == Writing(d, to, moves)
  <2>3. rest.step = "write_status" /\ rest.d = d /\ rest.to = to
    BY DEF Writing
  <2> HIDE DEF rest
  <2>4. Arrives(w, rest)
    BY <2>2 DEF rest
  <2>5. QED
    BY <1>6, <2>1, <2>2, <2>3, <2>4
<1>10. ASSUME NEW d \in Deployments, BeginDelete(w, d)
       PROVE  /\ \E rest : Arrives(w, rest)
              /\ Current(job[w])' /\ (bookedOnce' => OneActiveDeployment')
  BY <1>6, <1>10 DEF BeginDelete, vars, depVars
<1>11. ASSUME NEW d \in Deployments, NEW s \in Shipments, BeginLink(w, d, s) \/ BeginUnlink(w, d, s)
       PROVE  /\ \E rest : Arrives(w, rest)
              /\ Current(job[w])' /\ (bookedOnce' => OneActiveDeployment')
  BY <1>6, <1>11 DEF BeginLink, BeginUnlink, vars, depVars
<1>12. QED
  BY <1>4, <1>5, <1>7, <1>8, <1>9, <1>10, <1>11 DEF Begin, BeginOn

(* What it goes by after one of its statements. *)
LEMMA GoesOnCurrent ==
  ASSUME LoneInv, NEW w \in Workers, GoOn(w), alone[w], ~At(w, "idle")'
  PROVE  Current(job[w])'
<1> DEFINE j == job[w]
<1>1. ~At(w, "idle")
  BY DEF GoOn, InsertPicked, CheckItem, CheckItemShips, InsertItems, CheckAdd,
         CheckAddShips, FindPlanning, ReleaseItem,
         InsertItem, DeleteItem, WriteStatus, UnlinkShipments, DeleteItems, DeleteRow, WriteLink, At
<1>2. /\ j \in Jobs /\ job \in [Workers -> Jobs] /\ TypeOK /\ NoDanglingRows
      /\ Current(j) /\ (bookedOnce => OneActiveDeployment)
  BY <1>1 DEF LoneInv, RequestsTypeOK, LoneSession
<1>3. ~Answer(w)
  BY <1>2 DEF Answer, Continue, At, Idle
<1>4. ASSUME NEW rest, Continue(w, rest)
      PROVE  job'[w] = rest
  BY <1>2, <1>4 DEF Continue
<1>5. ASSUME UNCHANGED <<depStatus, depItems, bookedOnce>>
      PROVE  \A a, d : OtherActiveDeployments(a, d)' = OtherActiveDeployments(a, d)
  BY <1>5 DEF OtherActiveDeployments, IsDeploymentActive
<1>6. ASSUME NEW d \in Deployments, InsertPicked(w, d)
      PROVE  Current(job[w])'
  <2>1. j.step = "insert_row"
    BY <1>6 DEF InsertPicked, At
  <2>2. /\ j.ids \subseteq Assets
        /\ \A a \in j.ids, e \in Deployments : ~(IsDeploymentActive(e) /\ a \in depItems[e])
    BY <1>2, <2>1, StepTellsJob DEF Current, PickJobs
  <2>3. PICK ids \in SUBSET Assets : ids = j.ids
    BY <2>2
  <2>4. job'[w] = [step |-> "check_items", d |-> d, ids |-> ids, todo |-> ids, picked |-> TRUE]
    BY <1>4, <1>6, <2>3 DEF InsertPicked, Checking
  <2>5. /\ depItems[d] = {} /\ UNCHANGED depItems
        /\ depStatus'[d] = "planning"
        /\ \A e \in Deployments \ {d} : depStatus'[e] = depStatus[e]
    BY <1>2, <1>6 DEF InsertPicked, InsertRow, DepExists, NoDanglingRows, TypeOK
  <2>6. \A a \in ids : OtherActiveDeployments(a, d)' = {}
    BY <2>2, <2>3, <2>5 DEF OtherActiveDeployments, IsDeploymentActive
  <2>7. QED
    BY <2>4, <2>5, <2>6 DEF Current
<1>7. ASSUME UNCHANGED <<depStatus, depItems, bookedOnce>>, NEW rest, Continue(w, rest),
             rest.step \in {"check_items", "check_ships"}, rest.d = j.d, rest.ids = j.ids,
             rest.picked = j.picked, j.step \in {"check_items", "check_ships"},
             rest.todo \subseteq j.todo,
             \A a \in j.todo \ rest.todo : OtherActiveDeployments(a, j.d) = {}
      PROVE  Current(job[w])'
  <2>1. job'[w] = rest
    BY <1>4, <1>7
  <2>2. /\ depStatus[j.d] = "planning" /\ depItems[j.d] = {}
        /\ j.todo \subseteq j.ids
        /\ \A b \in j.ids : j.picked \/ b \notin j.todo => OtherActiveDeployments(b, j.d) = {}
    BY <1>2, <1>7 DEF Current
  <2>3. \A b \in rest.ids : rest.picked \/ b \notin rest.todo => OtherActiveDeployments(b, rest.d)' = {}
    BY <1>5, <1>7, <2>2
  <2>4. depStatus'[rest.d] = "planning" /\ depItems'[rest.d] = {} /\ rest.todo \subseteq rest.ids
    BY <1>7, <2>2
  <2>5. QED
    BY <1>7, <2>1, <2>3, <2>4 DEF Current
<1>8. CASE CheckItem(w)
  <2>1. PICK a \in j.todo : /\ OtherActiveDeployments(a, j.d) = {}
                            /\ Continue(w, [step |-> "check_ships", d |-> j.d, ids |-> j.ids,
                                            todo |-> j.todo \ {a}, picked |-> j.picked, a |-> a])
    BY <1>3, <1>8 DEF CheckItem
  <2>2. j.step = "check_items" /\ UNCHANGED <<depStatus, depItems, bookedOnce>>
    BY <1>8 DEF CheckItem, At, vars, depVars
  <2>3. QED
    BY <1>7, <2>1, <2>2
<1>9. CASE CheckItemShips(w)
  <2>1. Continue(w, [step |-> "check_items", d |-> j.d, ids |-> j.ids, todo |-> j.todo,
                     picked |-> j.picked])
    BY <1>3, <1>9 DEF CheckItemShips
  <2>2. j.step = "check_ships" /\ UNCHANGED <<depStatus, depItems, bookedOnce>>
    BY <1>9 DEF CheckItemShips, At, vars, depVars
  <2>3. QED
    BY <1>7, <2>1, <2>2
<1>10. ASSUME UNCHANGED <<depStatus, depItems, bookedOnce>>, NEW step, NEW from,
             \/ Continue(w, [j EXCEPT !.step = step])
             \/ Continue(w, [j EXCEPT !.step = step, !.from = from]),
             j \in AddJobs, depStatus[j.d] = "planning",
             \/ step = "insert_item" /\ (bookedOnce => OtherActiveDeployments(j.a, j.d) = {})
             \/ step = "check_item_ships" /\ OtherActiveDeployments(j.a, j.d) = {}
             \/ step = "find_planning" /\ MovableFrom(j.a, j.d) # {}
             \/ /\ step = "release" /\ from \in MovableFrom(j.a, j.d)
                /\ Continue(w, [j EXCEPT !.step = step, !.from = from])
      PROVE  Current(job[w])'
  <2> DEFINE k == job'[w]
  <2>1. k.step = step /\ k.d = j.d /\ k.a = j.a /\ (step = "release" => k.from = from)
    BY <1>4, <1>10 DEF AddJobs
  <2> HIDE DEF k
  <2>2. QED
    BY <1>10, <2>1 DEF Current, k, MovableFrom, OtherActiveDeployments, IsDeploymentActive
<1>11. CASE CheckAdd(w)
  <2>1. j.step = "check_item" /\ UNCHANGED <<depStatus, depItems, bookedOnce>>
    BY <1>11 DEF CheckAdd, At, vars, depVars
  <2>2. j \in AddJobs /\ depStatus[j.d] = "planning"
    BY <1>2, <2>1, StepTellsJob DEF Current
  <2>3. \/ OtherActiveDeployments(j.a, j.d) = {} /\ Continue(w, [j EXCEPT !.step = "check_item_ships"])
        \/ MovableFrom(j.a, j.d) # {} /\ Continue(w, [j EXCEPT !.step = "find_planning"])
    BY <1>3, <1>11 DEF CheckAdd, Advance
  <2>4. QED
    BY <1>10, <2>1, <2>2, <2>3
<1>12. CASE CheckAddShips(w)
  <2>1. j.step = "check_item_ships" /\ UNCHANGED <<depStatus, depItems, bookedOnce>>
    BY <1>12 DEF CheckAddShips, At, vars, depVars
  <2>2. j \in AddJobs /\ depStatus[j.d] = "planning" /\ OtherActiveDeployments(j.a, j.d) = {}
    BY <1>2, <2>1, StepTellsJob DEF Current
  <2>3. Continue(w, [j EXCEPT !.step = "insert_item"])
    BY <1>3, <1>12 DEF CheckAddShips, Advance
  <2>4. QED
    BY <1>10, <2>1, <2>2, <2>3
<1>13. CASE FindPlanning(w)
  <2>1. j.step = "find_planning" /\ UNCHANGED <<depStatus, depItems, bookedOnce>>
    BY <1>13 DEF FindPlanning, At, vars, depVars
  <2>2. j \in AddJobs /\ depStatus[j.d] = "planning" /\ MovableFrom(j.a, j.d) # {}
    BY <1>2, <2>1, StepTellsJob DEF Current
  <2>3. PICK e \in MovableFrom(j.a, j.d) : Continue(w, [j EXCEPT !.step = "release", !.from = e])
    BY <1>13, <2>2 DEF FindPlanning
  <2>4. QED
    BY <1>10, <2>1, <2>2, <2>3
<1>14. CASE ReleaseItem(w)
  <2>1. /\ j.step = "release" /\ UNCHANGED <<depStatus, bookedOnce>>
        /\ depItems' = [depItems EXCEPT ![j.from] = @ \ {j.a}]
    BY <1>14 DEF ReleaseItem, At
  <2>2. j \in ReleaseJobs /\ depStatus[j.d] = "planning" /\ j.from \in MovableFrom(j.a, j.d)
    BY <1>2, <2>1, StepTellsJob DEF Current
  <2>3. job'[w] = [j EXCEPT !.step = "insert_item"]
    BY <1>4, <1>14 DEF ReleaseItem, Advance
  <2> DEFINE k == job'[w]
  <2>4. k.step = "insert_item" /\ k.d = j.d /\ k.a = j.a
    BY <2>2, <2>3 DEF ReleaseJobs
  <2> HIDE DEF k
  <2>5. PICK a, d, from : a = j.a /\ d = j.d /\ from = j.from
    OBVIOUS
  <2>6. ASSUME bookedOnce
        PROVE  OtherActiveDeployments(a, d)' = {}
    <3>1. \A e \in Deployments : IsDeploymentActive(e) /\ a \in depItems[e] => e = from
      BY <1>2, <2>2, <2>5, <2>6 DEF OneActiveDeployment, MovableFrom, OtherActiveDeployments
    <3>2. \A e \in Deployments \ {from} : depItems'[e] = depItems[e]
      BY <1>2, <2>1, <2>5 DEF TypeOK
    <3>3. a \notin depItems'[from]
      BY <1>2, <2>1, <2>2, <2>5 DEF TypeOK, MovableFrom, OtherActiveDeployments
    <3>4. QED
      BY <2>1, <3>1, <3>2, <3>3 DEF OtherActiveDeployments, IsDeploymentActive
  <2>7. QED
    BY <2>1, <2>2, <2>4, <2>5, <2>6 DEF Current, k
<1>15. CASE UnlinkShipments(w)
  <2>1. j.step = "unlink_all" /\ Continue(w, [j EXCEPT !.step = "delete_items"])
    BY <1>3, <1>15 DEF UnlinkShipments, Advance, At
  <2>2. j \in DeleteJobs
    BY <1>2, <2>1, StepTellsJob
  <2>3. job'[w].step = "delete_items"
    BY <1>4, <2>1, <2>2 DEF DeleteJobs
  <2>4. QED
    BY <2>3 DEF Current
<1>16. CASE DeleteItems(w)
  <2>1. /\ j.step = "delete_items" /\ Continue(w, [j EXCEPT !.step = "delete_row"])
        /\ depItems' = [depItems EXCEPT ![j.d] = {}]
    BY <1>16 DEF DeleteItems, Advance, At
  <2>2. j \in DeleteJobs
    BY <1>2, <2>1, StepTellsJob
  <2>3. job'[w].step = "delete_row" /\ job'[w].d = j.d
    BY <1>4, <2>1, <2>2 DEF DeleteJobs
  <2>4. depItems'[j.d] = {}
    BY <1>2, <2>1, <2>2 DEF DeleteJobs, TypeOK
  <2>5. QED
    BY <2>3, <2>4 DEF Current
<1>17. QED
  BY <1>3, <1>6, <1>8, <1>9, <1>11, <1>12, <1>13, <1>14, <1>15, <1>16
     DEF GoOn, InsertItems, InsertItem, DeleteItem, WriteStatus, DeleteRow, WriteLink

-----------------------------------------------------------------------------
(* A step of one request ends the solitude of the others, or there is none to end. *)
LEMMA OthersIdle ==
  ASSUME LoneInv, NEW w \in Workers, NEW rest,
         Arrives(w, rest) \/ (Continue(w, rest) /\ ~At(w, "idle")),
         NEW v \in Workers, alone'[v], ~At(v, "idle")'
  PROVE  v = w /\ \A u \in Workers \ {w} : At(u, "idle")'
<1>1. job \in [Workers -> Jobs] /\ alone \in [Workers -> BOOLEAN]
  BY DEF LoneInv, RequestsTypeOK
<1>2. CASE Arrives(w, rest)
  BY <1>1, <1>2 DEF Arrives, Serve, At
<1>3. CASE Continue(w, rest) /\ ~At(w, "idle")
  BY <1>1, <1>3 DEF LoneInv, LoneSession, Continue, At
<1>4. QED
  BY <1>2, <1>3

LEMMA LoneInvNext ==
  ASSUME LoneInv, [Next]_allVars, RequestsTypeOK', NoDanglingRows'
  PROVE  LoneInv'
<1> SUFFICES \A v \in Workers : LoneSession(v)'
  BY DEF LoneInv
<1>1. ASSUME NEW w \in Workers, Begin(w)
      PROVE  \A v \in Workers : LoneSession(v)'
  <2>1. PICK rest : Arrives(w, rest)
    BY <1>1, ArrivesCurrent
  <2>2. QED
    BY <1>1, <2>1, ArrivesCurrent, OthersIdle DEF LoneSession, At
<1>2. ASSUME NEW w \in Workers, GoOn(w)
      PROVE  \A v \in Workers : LoneSession(v)'
  <2>1. PICK rest : Continue(w, rest) /\ ~At(w, "idle") /\ UNCHANGED bookedOnce
    BY <1>2 DEF GoOn, InsertPicked, CheckItem, CheckItemShips, InsertItems, CheckAdd,
         CheckAddShips, FindPlanning, ReleaseItem,
                InsertItem, DeleteItem, WriteStatus, UnlinkShipments, DeleteItems, DeleteRow,
                WriteLink, At, Answer, Advance
  <2>2. UNCHANGED alone
    BY <2>1 DEF Continue
  <2>3. QED
    BY <1>2, <2>1, <2>2, GoesOnCurrent, LoneStatement, OthersIdle DEF LoneSession, At
<1>3. CASE Restart
  <2>1. \A v \in Workers : At(v, "idle")'
    BY <1>3 DEF Restart, DropRequests, At, Idle
  <2>2. QED
    BY <2>1 DEF LoneSession, At
<1>4. ASSUME UNCHANGED <<job, alone, bookedOnce, depStatus, depItems>>
      PROVE  \A v \in Workers : LoneSession(v)'
  BY <1>4 DEF LoneInv, LoneSession, At, Current, OneActiveDeployment, MovableFrom,
              OtherActiveDeployments, IsDeploymentActive, DepExists
<1>5. CASE OtherUsers \/ UNCHANGED allVars
  <2>1. OtherUsers => UNCHANGED <<job, alone, bookedOnce, depVars>>
    BY DEF OtherUsers, CreateShipment, ResolveShipment, DeleteShipment
  <2>2. UNCHANGED <<job, alone, bookedOnce, depStatus, depItems>>
    BY <1>5, <2>1 DEF allVars, vars, depVars
  <2>3. QED
    BY <1>4, <2>2
<1>6. QED
  BY <1>1, <1>2, <1>3, <1>5 DEF Next

(***************************************************************************)
(* At every moment of a request that overlaps no other, what it read is    *)
(* what the tables say, and it has not booked an asset twice.              *)
(***************************************************************************)
THEOREM LoneSessionsAreCurrent == Spec => []LoneInv
<1>1. Init => \A w \in Workers : LoneSession(w)
  BY DEF Init, InitRequests, LoneSession
<1>2. Init => RequestsTypeOK /\ NoDanglingRows
  BY DEF Init, InitRequests, RequestsTypeOK, TypeOK, NoDanglingRows, OrNull, CarrierStatus, Jobs
<1>3. LoneInv /\ [Next]_allVars /\ RequestsTypeOK' /\ NoDanglingRows' => LoneInv'
  BY LoneInvNext
<1>4. Init => LoneInv
  BY <1>1, <1>2 DEF LoneInv
<1>5. QED
  BY <1>3, <1>4, RequestsTypeCorrect, ForeignKeysHoldUnderOverlap, PTL DEF Spec

(* A step of a request that overlaps no other is its next statement, or its end. *)
LEMMA WhoseStep ==
  ASSUME LoneInv, Next, NEW w \in Workers, Writes(w), alone[w]
  PROVE  GoOn(w) \/ Restart
<1>1. ~At(w, "idle") /\ job'[w] # job[w] /\ job \in [Workers -> Jobs]
  BY DEF Writes, LoneInv, RequestsTypeOK
<1>2. ASSUME NEW v \in Workers \ {w}
      PROVE  ~GoOn(v)
  <2>1. At(v, "idle")
    BY <1>1, <1>2 DEF LoneInv, LoneSession
  <2>2. QED
    BY <2>1 DEF GoOn, InsertPicked, CheckItem, CheckItemShips, InsertItems, CheckAdd,
         CheckAddShips, FindPlanning, ReleaseItem,
                InsertItem, DeleteItem, WriteStatus, UnlinkShipments, DeleteItems, DeleteRow,
                WriteLink, At
<1>3. ASSUME NEW v \in Workers, Begin(v)
      PROVE  FALSE
  <2>1. At(v, "idle")
    BY <1>3 DEF Begin, BeginPick, BeginOn, BeginCreate, BeginAdd, BeginRemove, BeginStart,
                BeginComplete, BeginCancel, BeginDelete, BeginLink, BeginUnlink
  <2>2. PICK rest : Arrives(v, rest)
    BY <1>3, ArrivesCurrent
  <2>3. job'[w] = job[w]
    BY <1>1, <2>1, <2>2 DEF Arrives, Serve
  <2>4. QED
    BY <1>1, <2>3
<1>4. ~OtherUsers
  BY <1>1 DEF OtherUsers
<1>5. QED
  BY <1>2, <1>3, <1>4 DEF Next

(***************************************************************************)
(* If no asset is on two active deployments when a request begins that     *)
(* overlaps no other, each of its statements, and its end at any of them,  *)
(* is a step of the reservation ledger or none, and books nothing twice.   *)
(***************************************************************************)
THEOREM LoneRequestsStepTheLedger == Spec => LoneRequestStepsTheLedger
<1>1. ASSUME LoneInv, Next, NEW w \in Workers, Writes(w), alone[w], bookedOnce
      PROVE  OneActiveDeployment' /\ Steps
  <2>1. OneActiveDeployment
    BY <1>1 DEF LoneInv, LoneSession, Writes
  <2>2. CASE Restart
    BY <2>1, <2>2, Stutters DEF Restart, vars, depVars
  <2>3. QED
    BY <1>1, <2>2, LoneStatement, WhoseStep
<1>2. LoneInv /\ [Next]_allVars =>
        [\A w \in Workers :
           Writes(w) /\ alone[w] /\ bookedOnce
             => /\ OneActiveDeployment'
                /\ StatementLedger!Next \/ UNCHANGED <<LedgerHolder, StandingFirm>>]_allVars
  BY <1>1 DEF Steps
<1>3. QED
  BY <1>2, LoneSessionsAreCurrent, PTL DEF Spec, LoneRequestStepsTheLedger

(***************************************************************************)
(* A request that overlaps no other follows the lifecycle: the status that *)
(* it writes over is the one that it checked, and the deployment whose     *)
(* items it changes is still in planning.                                  *)
(***************************************************************************)
THEOREM LoneRequestsKeepLifecycle == Spec => LoneRequestKeepsLifecycle
<1> DEFINE Follows(w, d) ==
             /\ depStatus'[d] \notin {depStatus[d], "none"}
                  => <<depStatus[d], depStatus'[d]>> \in LifecycleSteps
             /\ depItems'[d] # depItems[d] => depStatus[d] = "planning" \/ DeleteItems(w)
<1>1. ASSUME LoneInv, Next, NEW w \in Workers, NEW d \in Deployments, Writes(w), alone[w]
      PROVE  Follows(w, d)
  <2> DEFINE j == job[w]
  <2>1. j \in Jobs /\ TypeOK /\ Current(j)
    BY <1>1 DEF LoneInv, RequestsTypeOK, LoneSession, Writes
  <2>2. CASE UNCHANGED <<depStatus, depItems>>
    BY <2>2
  <2>3. ASSUME NEW e \in Deployments, InsertPicked(w, e)
        PROVE  Follows(w, d)
    BY <2>1, <2>3 DEF InsertPicked, InsertRow, DepExists, LifecycleSteps, TypeOK
  <2>4. CASE WriteStatus(w)
    <3>1. /\ j.step = "write_status" /\ UNCHANGED depItems
          /\ depStatus' = IF DepExists(j.d) THEN [depStatus EXCEPT ![j.d] = j.to] ELSE depStatus
      BY <2>4 DEF WriteStatus, At
    <3>2. <<depStatus[j.d], j.to>> \in LifecycleSteps
      BY <2>1, <3>1 DEF Current
    <3>3. depStatus'[d] # depStatus[d] => d = j.d /\ depStatus'[d] = j.to
      BY <2>1, <3>1 DEF TypeOK
    <3>4. QED
      BY <3>1, <3>2, <3>3
  <2>5. CASE DeleteRow(w)
    BY <2>1, <2>5 DEF DeleteRow, TypeOK
  <2>6. ASSUME NEW e, depStatus[e] = "planning", NEW items,
               depItems' = [depItems EXCEPT ![e] = items], UNCHANGED depStatus
        PROVE  Follows(w, d)
    BY <2>1, <2>6 DEF TypeOK
  <2>7. CASE InsertItems(w)
    <3>1. depStatus[j.d] = "planning"
      BY <2>1, <2>7 DEF InsertItems, At, Current
    <3>2. CASE depItems' = [depItems EXCEPT ![j.d] = @ \cup j.ids]
      <4>1. UNCHANGED depStatus
        BY <2>7 DEF InsertItems
      <4>2. QED
        BY <2>6, <3>1, <3>2, <4>1
    <3>3. QED
      BY <2>2, <2>7, <3>2 DEF InsertItems
  <2>8. CASE ReleaseItem(w)
    <3>1. depStatus[j.from] = "planning"
      BY <2>1, <2>8 DEF ReleaseItem, At, Current, MovableFrom
    <3>2. depItems' = [depItems EXCEPT ![j.from] = @ \ {j.a}] /\ UNCHANGED depStatus
      BY <2>8 DEF ReleaseItem
    <3>3. QED
      BY <2>6, <3>1, <3>2
  <2>9. CASE InsertItem(w)
    <3>1. depStatus[j.d] = "planning"
      BY <2>1, <2>9 DEF InsertItem, At, Current
    <3>2. depItems' = [depItems EXCEPT ![j.d] = @ \cup {j.a}] /\ UNCHANGED depStatus
      BY <2>9, <3>1 DEF InsertItem, DepExists
    <3>3. QED
      BY <2>6, <3>1, <3>2
  <2>10. CASE DeleteItem(w)
    <3>1. depStatus[j.d] = "planning"
      BY <2>1, <2>10 DEF DeleteItem, At, Current
    <3>2. depItems' = [depItems EXCEPT ![j.d] = @ \ {j.a}] /\ UNCHANGED depStatus
      BY <2>10 DEF DeleteItem
    <3>3. QED
      BY <2>6, <3>1, <3>2
  <2>11. CASE DeleteItems(w)
    BY <2>11 DEF DeleteItems
  <2>12. CASE Restart
    BY <2>2, <2>12 DEF Restart, vars, depVars
  <2>13. CASE \/ CheckItem(w) \/ CheckItemShips(w) \/ CheckAdd(w) \/ CheckAddShips(w)
              \/ FindPlanning(w) \/ UnlinkShipments(w) \/ WriteLink(w)
    BY <2>2, <2>13 DEF CheckItem, CheckItemShips, CheckAdd, CheckAddShips, FindPlanning,
                       UnlinkShipments, WriteLink, vars, depVars
  <2>14. GoOn(w) \/ Restart
    BY <1>1, WhoseStep
  <2>15. QED
    BY <2>3, <2>4, <2>5, <2>7, <2>8, <2>9, <2>10, <2>11, <2>12, <2>13, <2>14 DEF GoOn
<1>2. LoneInv /\ [Next]_allVars =>
        [\A w \in Workers, d \in Deployments : Writes(w) /\ alone[w] => Follows(w, d)]_allVars
  BY <1>1
<1>3. QED
  BY <1>2, LoneSessionsAreCurrent, PTL DEF Spec, LoneRequestKeepsLifecycle

(***************************************************************************)
(* What an auto-assignment picked is on no other active deployment when it *)
(* is checked, unless requests overlap: nobody has put it on one since.    *)
(***************************************************************************)
THEOREM LonePicksAreAccepted == Spec => LonePickIsAccepted
<1>1. ASSUME LoneInv, NEW w \in Workers, CheckItem(w), alone[w], job[w].picked
      PROVE  ~At(w, "idle")'
  <2> DEFINE j == job[w]
  <2>1. j.step = "check_items" /\ ~At(w, "idle")
    BY <1>1 DEF CheckItem, At
  <2>2. j \in CreateJobs /\ Current(j) /\ job \in [Workers -> Jobs]
    BY <1>1, <2>1, StepTellsJob DEF LoneInv, RequestsTypeOK, LoneSession
  <2>3. \A a \in j.todo : OtherActiveDeployments(a, j.d) = {}
    BY <1>1, <2>1, <2>2 DEF Current
  <2>4. PICK a \in j.todo :
          Continue(w, [step |-> "check_ships", d |-> j.d, ids |-> j.ids, todo |-> j.todo \ {a},
                       picked |-> j.picked, a |-> a])
    BY <1>1, <2>3 DEF CheckItem
  <2>5. job'[w].step = "check_ships"
    BY <2>2, <2>4 DEF Continue
  <2>6. QED
    BY <2>5 DEF At
<1>2. LoneInv => [\A w \in Workers :
        CheckItem(w) /\ alone[w] /\ job[w].picked => ~At(w, "idle")']_allVars
  BY <1>1
<1>3. QED
  BY <1>2, LoneSessionsAreCurrent, PTL DEF Spec, LonePickIsAccepted

(***************************************************************************)
(* A forced move that no other request overlaps arrives: the plan it goes  *)
(* to is still there when the asset has been taken off the other.          *)
(***************************************************************************)
THEOREM LoneForcedMovesArrive == Spec => LoneForcedMoveArrives
<1>1. ASSUME LoneInv, NEW w \in Workers, InsertItem(w), alone[w]
      PROVE  job[w].a \in depItems'[job[w].d]
  <2> DEFINE j == job[w]
  <2>1. j.step = "insert_item" /\ ~At(w, "idle")
    BY <1>1 DEF InsertItem, At
  <2>2. j \in AddJobs /\ Current(j) /\ TypeOK
    BY <1>1, <2>1, StepTellsJob DEF LoneInv, RequestsTypeOK, LoneSession
  <2>3. DepExists(j.d) /\ j.d \in Deployments
    BY <2>1, <2>2 DEF Current, DepExists, AddJobs
  <2>4. depItems' = [depItems EXCEPT ![j.d] = @ \cup {j.a}]
    BY <1>1, <2>3 DEF InsertItem
  <2>5. QED
    BY <2>2, <2>3, <2>4 DEF TypeOK
<1>2. LoneInv => [\A w \in Workers :
        InsertItem(w) /\ alone[w] /\ job[w].from # NULL
          => job[w].a \in depItems'[job[w].d]]_allVars
  BY <1>1
<1>3. QED
  BY <1>2, LoneSessionsAreCurrent, PTL DEF Spec, LoneForcedMoveArrives
=============================================================================
