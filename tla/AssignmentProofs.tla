-------------------------- MODULE AssignmentProofs ---------------------------
(***************************************************************************)
(* Theorems about AssetAssignment for any number of assets, people and     *)
(* workers.  The argument: a request that no other overlapped still sees   *)
(* in the tables what its session holds (LoneIsFresh), so its writes are   *)
(* those of a serial execution.                                            *)
(***************************************************************************)
EXTENDS AssetAssignment, TLAPS

(* A session that loaded a row, or wrote one, does not lose it. *)
WithRow ==
  {"assign", "push", "unassign", "status", "archive", "ask", "enrich", "store", "log_import"}

RowsExist ==
  /\ \A w \in Workers : job[w].step \in WithRow => row[job[w].a] # "none"
  /\ \A a \in Assets : row[a] = "none" => assignee[a] = NULL /\ logged[a] = NULL

Fresh(w) ==
  LET a == job[w].a IN
  /\ At(w, "assign") => row[a] = "live" /\ job[w].was = assignee[a]
  /\ At(w, "push") =>
       job[w].u = assignee[a] \/ (job[w].u = Staging /\ assignee[a] = NULL)
  /\ At(w, "unassign") => job[w].hasId = linked[a]
  /\ At(w, "status") => row[a] = "live"
  /\ At(w, "archive") =>
       row[a] = "live" /\ job[w].was = assignee[a] /\ job[w].st = statusCode[a]
  /\ job[w].step \in {"ask", "enrich", "store"} => job[w].was = assignee[a]
  /\ At(w, "log_import") => assignee[a] = job[w].seen[a] /\ logged[a] = NULL

OthersIdle(w) == \A v \in Workers \ {w} : At(v, "idle")

LoneIsFresh ==
  \A w \in Workers : alone[w] /\ ~At(w, "idle") => OthersIdle(w) /\ Fresh(w)

IInv == AssignmentTypeOK /\ RowsExist /\ LoneIsFresh

(***************************************************************************)
(* What a step of worker w does, as far as the invariant is concerned: its *)
(* own job stays typed, fresh and on a row that exists.                    *)
(***************************************************************************)
TablesTyped ==
  /\ row \in [Assets -> {"none", "live", "archived"}]
  /\ statusCode \in [Assets -> Statuses]
  /\ assignee \in [Assets -> Assignees]
  /\ linked \in [Assets -> BOOLEAN]
  /\ logged \in [Assets -> Assignees]
  /\ primary \in [Assets -> IntuneUsers]

RowsStay == \A a \in Assets : row[a] # "none" => row'[a] # "none"

NoRowNoAssignee == \A a \in Assets : row[a] = "none" => assignee[a] = NULL /\ logged[a] = NULL

OwnJob(w) ==
  /\ job[w] \in Jobs
  /\ job[w].step \in WithRow => row[job[w].a] # "none"
  /\ alone[w] /\ ~At(w, "idle") => Fresh(w)

-----------------------------------------------------------------------------
(* What a session holds is told by the step it is at. *)
LEMMA StepTellsJob ==
  ASSUME NEW j \in Jobs
  PROVE  /\ j.step = "assign" => j \in AssignJobs
         /\ j.step = "push" => j \in PushJobs
         /\ j.step = "unassign" => j \in UnassignJobs
         /\ j.step = "status" => j \in StatusJobs
         /\ j.step = "archive" => j \in ArchiveJobs
         /\ j.step = "ask" => j \in AskJobs
         /\ j.step = "device" => j \in BulkJobs
         /\ j.step \in {"enrich", "store", "import", "log_import"} => j \in SyncJobs
<1>1. CASE j = Idle
  BY <1>1 DEF Idle
<1>2. CASE j \in AssignJobs
  BY <1>2 DEF AssignJobs
<1>3. CASE j \in PushJobs
  BY <1>3 DEF PushJobs
<1>4. CASE j \in UnassignJobs
  BY <1>4 DEF UnassignJobs
<1>5. CASE j \in StatusJobs
  BY <1>5 DEF StatusJobs
<1>6. CASE j \in ArchiveJobs
  BY <1>6 DEF ArchiveJobs
<1>7. CASE j \in AskJobs
  BY <1>7 DEF AskJobs
<1>8. CASE j \in BulkJobs
  BY <1>8 DEF BulkJobs
<1>9. CASE j \in SyncJobs
  BY <1>9 DEF SyncJobs
<1>10. QED
  BY <1>1, <1>2, <1>3, <1>4, <1>5, <1>6, <1>7, <1>8, <1>9 DEF Jobs

LEMMA IdleIsJob == Idle \in Jobs
BY DEF Jobs

(***************************************************************************)
(* A step of one worker keeps the invariant if it keeps the tables and its *)
(* own job in order: when the worker was alone the others are idle, and    *)
(* when it was not they do not count as alone.                             *)
(***************************************************************************)
LEMMA WorkerKeepsIInv ==
  ASSUME NEW w \in Workers, NEW rest, IInv,
         Serve(w, rest) \/ (Continue(w, rest) /\ ~At(w, "idle")),
         TablesTyped', RowsStay, NoRowNoAssignee', OwnJob(w)'
  PROVE  IInv'
<1> USE DEF IInv, AssignmentTypeOK
<1>1. job'[w] = rest /\ \A v \in Workers \ {w} : job'[v] = job[v]
  BY DEF Serve, Continue
<1>2. job' \in [Workers -> Jobs] /\ alone' \in [Workers -> BOOLEAN]
  BY <1>1 DEF Serve, Continue, OwnJob
<1>3. AssignmentTypeOK'
  BY <1>2 DEF TablesTyped
<1>4. RowsExist'
  <2>1. ASSUME NEW v \in Workers \ {w}, job[v].step \in WithRow
        PROVE  row'[job[v].a] # "none"
    <3>1. job[v].a \in Assets
      <4>1. job[v] \in Jobs
        OBVIOUS
      <4>2. QED
        BY <4>1, <2>1, StepTellsJob
        DEF WithRow, AssignJobs, PushJobs, UnassignJobs, StatusJobs, ArchiveJobs, AskJobs,
            SyncJobs
    <3>2. QED
      BY <2>1, <3>1 DEF RowsExist, RowsStay
  <2>2. QED
    BY <1>1, <2>1 DEF RowsExist, OwnJob, NoRowNoAssignee
<1>5. ASSUME NEW v \in Workers, alone'[v], ~At(v, "idle")'
      PROVE  OthersIdle(v)' /\ Fresh(v)'
  <2>1. CASE v = w
    <3>1. OthersIdle(w)'
      BY <1>1, <1>5, <2>1 DEF Serve, Continue, LoneIsFresh, OthersIdle, At
    <3>2. QED
      BY <1>5, <2>1, <3>1 DEF OwnJob
  <2>2. CASE v # w
    <3>1. ~Serve(w, rest)
      BY <1>2, <1>5, <2>2 DEF Serve
    <3>2. alone[v] /\ ~At(v, "idle") /\ ~At(w, "idle")
      BY <1>1, <1>5, <2>2, <3>1 DEF Continue, At
    <3>3. QED
      BY <2>2, <3>2 DEF LoneIsFresh, OthersIdle
  <2>3. QED
    BY <2>1, <2>2
<1>6. QED
  BY <1>3, <1>4, <1>5 DEF LoneIsFresh

-----------------------------------------------------------------------------
(* The requests that arrive: they load, and what they load is fresh. *)
LEMMA BeginKeepsIInv ==
  ASSUME NEW w \in Workers, IInv, Begin(w)
  PROVE  IInv'
<1> USE DEF IInv, AssignmentTypeOK
<1>1. ASSUME NEW rest, Serve(w, rest), UNCHANGED <<table, primary>>, OwnJob(w)'
      PROVE  IInv'
  <2>1. TablesTyped' /\ RowsStay /\ NoRowNoAssignee'
    BY <1>1 DEF TablesTyped, RowsStay, NoRowNoAssignee, RowsExist, table
  <2>2. QED
    BY <1>1, <2>1, WorkerKeepsIInv
<1>2. ASSUME NEW rest, Serve(w, rest) PROVE job'[w] = rest
  BY <1>2 DEF Serve
<1> USE DEF OwnJob, Fresh, At, WithRow
<1>3. ASSUME NEW a \in Assets, NEW u \in IntuneUsers, BeginAssign(w, a, u)
      PROVE  IInv'
  <2> DEFINE rest == [step |-> "assign", a |-> a, u |-> u, was |-> assignee[a]]
  <2>1. rest \in Jobs
    BY DEF Jobs, AssignJobs
  <2>2. OwnJob(w)'
    BY <1>2, <1>3, <2>1 DEF BeginAssign, table
  <2>3. QED
    BY <1>1, <1>3, <2>2 DEF BeginAssign
<1>4. ASSUME NEW a \in Assets, BeginUnassign(w, a)
      PROVE  IInv'
  <2> DEFINE rest == [step |-> "unassign", a |-> a, hasId |-> linked[a]]
  <2>1. rest \in Jobs
    BY DEF Jobs, UnassignJobs
  <2>2. OwnJob(w)'
    BY <1>2, <1>4, <2>1 DEF BeginUnassign, table
  <2>3. QED
    BY <1>1, <1>4, <2>2 DEF BeginUnassign
<1>5. ASSUME NEW a \in Assets, NEW st \in Statuses, BeginStatus(w, a, st)
      PROVE  IInv'
  <2> DEFINE rest == [step |-> "status", a |-> a, st |-> st]
  <2>1. rest \in Jobs
    BY DEF Jobs, StatusJobs
  <2>2. OwnJob(w)'
    BY <1>2, <1>5, <2>1 DEF BeginStatus, table
  <2>3. QED
    BY <1>1, <1>5, <2>2 DEF BeginStatus
<1>6. ASSUME NEW a \in Assets, BeginArchive(w, a)
      PROVE  IInv'
  <2> DEFINE rest == [step |-> "archive", a |-> a, was |-> assignee[a], st |-> statusCode[a]]
  <2>1. rest \in Jobs
    BY DEF Jobs, ArchiveJobs
  <2>2. OwnJob(w)'
    BY <1>2, <1>6, <2>1 DEF BeginArchive, table
  <2>3. QED
    BY <1>1, <1>6, <2>2 DEF BeginArchive
<1>7. ASSUME NEW a \in Assets, BeginSync(w, a)
      PROVE  IInv'
  <2> DEFINE rest == [step |-> "ask", a |-> a, was |-> assignee[a]]
  <2>1. rest \in Jobs
    BY DEF Jobs, AskJobs
  <2>2. OwnJob(w)'
    BY <1>2, <1>7, <2>1 DEF BeginSync, table
  <2>3. QED
    BY <1>1, <1>7, <2>2 DEF BeginSync
<1>8. ASSUME NEW listed \in SUBSET Assets, BeginBulkSync(w, listed)
      PROVE  IInv'
  <2> DEFINE rest == [step |-> "device", seen |-> primary, todo |-> listed]
  <2>1. rest \in Jobs
    BY DEF Jobs, BulkJobs
  <2>2. OwnJob(w)'
    BY <1>2, <1>8, <2>1 DEF BeginBulkSync, table
  <2>3. QED
    BY <1>1, <1>8, <2>2 DEF BeginBulkSync
<1>9. QED
  BY <1>3, <1>4, <1>5, <1>6, <1>7, <1>8 DEF Begin

(* The writes of user requests, and the push that may follow them. *)
LEMMA WriteKeepsIInv ==
  ASSUME NEW w \in Workers, IInv,
         \/ WriteAssign(w) \/ WriteUnassign(w) \/ Push(w)
         \/ WriteStatusCode(w) \/ WriteArchive(w)
  PROVE  IInv'
<1> DEFINE j == job[w]
           a == j.a
<1> USE DEF IInv, AssignmentTypeOK
<1>1. j \in Jobs
  OBVIOUS
<1>2. ASSUME NEW rest, Continue(w, rest), ~At(w, "idle"),
             TablesTyped', RowsStay, NoRowNoAssignee', OwnJob(w)'
      PROVE  IInv'
  BY <1>2, WorkerKeepsIInv
<1>3. ASSUME NEW rest, Continue(w, rest) PROVE job'[w] = rest /\ alone' = alone
  BY <1>3 DEF Continue
<1>4. ASSUME Answer(w) PROVE OwnJob(w)'
  BY <1>3, <1>4, IdleIsJob DEF Answer, OwnJob, Idle, At, WithRow
<1>5. At(w, "assign") \/ At(w, "unassign") \/ At(w, "push") \/ At(w, "status") \/ At(w, "archive")
  BY DEF WriteAssign, WriteUnassign, Push, WriteStatusCode, WriteArchive
<1>6. a \in Assets /\ row[a] # "none" /\ ~At(w, "idle")
  BY <1>1, <1>5, StepTellsJob
  DEF At, AssignJobs, UnassignJobs, PushJobs, StatusJobs, ArchiveJobs, RowsExist, WithRow
<1>7. CASE WriteAssign(w)
  <2>1. j \in AssignJobs
    BY <1>1, <1>7, StepTellsJob DEF WriteAssign, At
  <2>2. TablesTyped' /\ RowsStay /\ NoRowNoAssignee'
    BY <1>6, <1>7, <2>1
    DEF WriteAssign, TablesTyped, RowsStay, NoRowNoAssignee, RowsExist, AssignJobs, Assignees
  <2>3. ASSUME Continue(w, [step |-> "push", a |-> a, u |-> j.u]), j.u # j.was
        PROVE  OwnJob(w)'
    <3>1. [step |-> "push", a |-> a, u |-> j.u] \in Jobs
      BY <2>1, <1>6 DEF Jobs, PushJobs, AssignJobs
    <3>2. assignee'[a] = j.u /\ row'[a] # "none"
      BY <1>6, <1>7, <2>3 DEF WriteAssign
    <3>3. QED
      BY <1>3, <2>3, <3>1, <3>2 DEF OwnJob, Fresh, At, WithRow
  <2>4. QED
    BY <1>2, <1>4, <1>6, <1>7, <2>2, <2>3 DEF WriteAssign, Answer
<1>8. CASE WriteUnassign(w)
  <2>1. TablesTyped' /\ RowsStay /\ NoRowNoAssignee'
    BY <1>6, <1>8
    DEF WriteUnassign, TablesTyped, RowsStay, NoRowNoAssignee, RowsExist, Assignees
  <2>2. ASSUME Continue(w, [step |-> "push", a |-> a, u |-> Staging])
        PROVE  OwnJob(w)'
    <3>1. [step |-> "push", a |-> a, u |-> Staging] \in Jobs
      BY <1>6 DEF Jobs, PushJobs, IntuneUsers
    <3>2. assignee'[a] = NULL /\ row'[a] # "none"
      BY <1>6, <1>8 DEF WriteUnassign
    <3>3. QED
      BY <1>3, <2>2, <3>1, <3>2 DEF OwnJob, Fresh, At, WithRow
  <2>3. QED
    BY <1>2, <1>4, <1>6, <1>8, <2>1, <2>2 DEF WriteUnassign, Answer
<1>9. CASE Push(w)
  <2>1. j \in PushJobs
    BY <1>1, <1>9, StepTellsJob DEF Push, At
  <2>2. TablesTyped' /\ RowsStay /\ NoRowNoAssignee'
    BY <1>6, <1>9, <2>1
    DEF Push, TablesTyped, RowsStay, NoRowNoAssignee, RowsExist, PushJobs, table
  <2>3. QED
    BY <1>2, <1>4, <1>6, <1>9, <2>2 DEF Push, Answer
<1>10. CASE WriteStatusCode(w)
  <2>1. j \in StatusJobs
    BY <1>1, <1>10, StepTellsJob DEF WriteStatusCode, At
  <2>2. TablesTyped' /\ RowsStay /\ NoRowNoAssignee'
    BY <1>6, <1>10, <2>1
    DEF WriteStatusCode, TablesTyped, RowsStay, NoRowNoAssignee, RowsExist, StatusJobs
  <2>3. QED
    BY <1>2, <1>4, <1>6, <1>10, <2>2 DEF WriteStatusCode, Answer
<1>11. CASE WriteArchive(w)
  <2>1. TablesTyped' /\ RowsStay /\ NoRowNoAssignee'
    BY <1>6, <1>11, RetiredIsSeeded
    DEF WriteArchive, TablesTyped, RowsStay, NoRowNoAssignee, RowsExist, Assignees
  <2>2. QED
    BY <1>2, <1>4, <1>6, <1>11, <2>1 DEF WriteArchive, Answer
<1>12. QED
  BY <1>7, <1>8, <1>9, <1>10, <1>11

(* The steps of the two syncs. *)
LEMMA SyncKeepsIInv ==
  ASSUME NEW w \in Workers, IInv,
         \/ Ask(w) \/ NextDevice(w) \/ Enrich(w) \/ StoreAnswer(w)
         \/ ImportAsset(w) \/ LogImport(w)
  PROVE  IInv'
<1> DEFINE j == job[w]
           a == j.a
<1> USE DEF IInv, AssignmentTypeOK
<1>1. j \in Jobs
  OBVIOUS
<1>2. ASSUME NEW rest, Continue(w, rest), ~At(w, "idle"),
             TablesTyped', RowsStay, NoRowNoAssignee', OwnJob(w)'
      PROVE  IInv'
  BY <1>2, WorkerKeepsIInv
<1>3. ASSUME NEW rest, Continue(w, rest) PROVE job'[w] = rest /\ alone' = alone
  BY <1>3 DEF Continue
<1>4. ASSUME Answer(w) PROVE OwnJob(w)'
  BY <1>3, <1>4, IdleIsJob DEF Answer, OwnJob, Idle, At, WithRow
<1>5. ~At(w, "idle")
  BY DEF Ask, NextDevice, Enrich, StoreAnswer, ImportAsset, LogImport, At
<1>6. ASSUME UNCHANGED <<table, primary>>
      PROVE  TablesTyped' /\ RowsStay /\ NoRowNoAssignee'
  BY <1>6 DEF TablesTyped, RowsStay, NoRowNoAssignee, RowsExist, table
<1>7. CASE Ask(w)
  <2> DEFINE rest == [step |-> "enrich", a |-> a, was |-> j.was, seen |-> primary, todo |-> {}]
  <2>1. j \in AskJobs
    BY <1>1, <1>7, StepTellsJob DEF Ask, At
  <2>2. ASSUME Continue(w, rest)
        PROVE  OwnJob(w)'
    <3>1. rest \in Jobs
      BY <2>1 DEF Jobs, SyncJobs, AskJobs
    <3>2. row'[a] # "none" /\ (alone[w] => j.was = assignee'[a])
      BY <1>5, <1>7 DEF Ask, At, RowsExist, WithRow, LoneIsFresh, Fresh, table
    <3>3. QED
      BY <1>3, <2>2, <3>1, <3>2 DEF OwnJob, Fresh, At, WithRow
  <2>3. QED
    BY <1>2, <1>4, <1>5, <1>6, <1>7, <2>2 DEF Ask, Answer
<1>8. CASE NextDevice(w)
  <2>1. j \in BulkJobs
    BY <1>1, <1>8, StepTellsJob DEF NextDevice, At
  <2>2. ASSUME NEW b \in j.todo,
               Continue(w, [step |-> IF row[b] = "none" THEN "import" ELSE "enrich",
                            a |-> b, was |-> assignee[b],
                            seen |-> j.seen, todo |-> j.todo \ {b}])
        PROVE  OwnJob(w)'
    <3> DEFINE rest == [step |-> IF row[b] = "none" THEN "import" ELSE "enrich",
                        a |-> b, was |-> assignee[b], seen |-> j.seen, todo |-> j.todo \ {b}]
    <3>1. rest \in Jobs
      BY <2>1 DEF Jobs, SyncJobs, BulkJobs
    <3>2. UNCHANGED <<row, assignee>>
      BY <1>8 DEF NextDevice, table
    <3>3. QED
      BY <1>3, <2>2, <3>1, <3>2 DEF OwnJob, Fresh, At, WithRow
  <2>3. QED
    BY <1>2, <1>4, <1>5, <1>6, <1>8, <2>2 DEF NextDevice, Answer
<1>9. CASE Enrich(w)
  <2>1. j \in SyncJobs
    BY <1>1, <1>9, StepTellsJob DEF Enrich, At
  <2>2. /\ row'[a] # "none"
        /\ alone[w] => j.was = assignee[a]
        /\ assignee' = assignee
    BY <1>5, <1>9 DEF Enrich, At, RowsExist, WithRow, LoneIsFresh, Fresh, table
  <2>3. ASSUME NEW was \in Assignees, was = j.was \/ was = assignee[a],
               Continue(w, [j EXCEPT !.step = "store", !.was = was])
        PROVE  OwnJob(w)'
    <3> DEFINE rest == [j EXCEPT !.step = "store", !.was = was]
    <3>1. rest \in SyncJobs /\ rest.step = "store" /\ rest.a = a /\ rest.was = was
      BY <2>1 DEF SyncJobs
    <3>2. QED
      BY <1>3, <2>2, <2>3, <3>1 DEF OwnJob, Fresh, At, WithRow, Jobs
  <2>4. /\ j.was \in Assignees /\ assignee[a] \in Assignees
        /\ [j EXCEPT !.step = "store"] = [j EXCEPT !.step = "store", !.was = j.was]
    BY <2>1 DEF SyncJobs
  <2>5. QED
    BY <1>2, <1>5, <1>6, <1>9, <2>3, <2>4 DEF Enrich, Advance
<1>10. ASSUME j \in SyncJobs, SyncNext(w)
       PROVE  /\ \E rest : Continue(w, rest)
              /\ OwnJob(w)'
  <2>1. [step |-> "device", seen |-> j.seen, todo |-> j.todo] \in Jobs
    BY <1>10 DEF Jobs, BulkJobs, SyncJobs
  <2>2. CASE Answer(w)
    BY <1>4, <2>2 DEF Answer
  <2>3. CASE Continue(w, [step |-> "device", seen |-> j.seen, todo |-> j.todo])
    BY <1>3, <2>1, <2>3 DEF OwnJob, Fresh, At, WithRow
  <2>4. QED
    BY <1>10, <2>2, <2>3 DEF SyncNext
<1>11. CASE StoreAnswer(w)
  <2>1. j \in SyncJobs /\ row[a] # "none"
    BY <1>1, <1>11, StepTellsJob DEF StoreAnswer, At, RowsExist, WithRow
  <2>2. TablesTyped' /\ RowsStay /\ NoRowNoAssignee'
    BY <1>11, <2>1
    DEF StoreAnswer, TablesTyped, RowsStay, NoRowNoAssignee, RowsExist, SyncJobs, Assignees
  <2>3. QED
    BY <1>2, <1>5, <1>10, <1>11, <2>1, <2>2 DEF StoreAnswer
<1>12. CASE ImportAsset(w)
  <2>1. j \in SyncJobs
    BY <1>1, <1>12, StepTellsJob DEF ImportAsset, At
  <2>2. CASE SyncNext(w) /\ UNCHANGED table
    BY <1>2, <1>5, <1>6, <1>10, <1>12, <2>1, <2>2 DEF ImportAsset
  <2>3. ASSUME row[a] = "none", Advance(w, "log_import"),
               row' = [row EXCEPT ![a] = "live"],
               statusCode' = [statusCode EXCEPT ![a] = "active"],
               assignee' = [assignee EXCEPT ![a] = j.seen[a]],
               linked' = [linked EXCEPT ![a] = TRUE],
               UNCHANGED <<logged, primary>>
        PROVE  IInv'
    <3> DEFINE rest == [j EXCEPT !.step = "log_import"]
    <3>1. TablesTyped' /\ RowsStay /\ NoRowNoAssignee'
      BY <2>1, <2>3, RetiredIsSeeded
      DEF TablesTyped, RowsStay, NoRowNoAssignee, RowsExist, SyncJobs, Assignees
    <3>2. rest \in SyncJobs /\ rest.step = "log_import" /\ rest.a = a /\ rest.seen = j.seen
      BY <2>1 DEF SyncJobs
    <3>3. logged[a] = NULL /\ assignee'[a] = j.seen[a] /\ row'[a] # "none"
      BY <2>1, <2>3 DEF RowsExist, SyncJobs
    <3>4. OwnJob(w)'
      BY <1>3, <2>3, <3>2, <3>3 DEF Advance, OwnJob, Fresh, At, WithRow, Jobs
    <3>5. QED
      BY <1>2, <1>5, <2>3, <3>1, <3>4 DEF Advance
  <2>4. QED
    BY <1>12, <2>2, <2>3 DEF ImportAsset
<1>13. CASE LogImport(w)
  <2>1. j \in SyncJobs /\ row[a] # "none"
    BY <1>1, <1>13, StepTellsJob DEF LogImport, At, RowsExist, WithRow
  <2>2. TablesTyped' /\ RowsStay /\ NoRowNoAssignee'
    BY <1>13, <2>1
    DEF LogImport, TablesTyped, RowsStay, NoRowNoAssignee, RowsExist, SyncJobs, Assignees
  <2>3. QED
    BY <1>2, <1>5, <1>10, <1>13, <2>1, <2>2 DEF LogImport
<1>14. QED
  BY <1>7, <1>8, <1>9, <1>11, <1>12, <1>13

(* Steps that are no worker's. *)
LEMMA OtherStepsKeepIInv ==
  ASSUME IInv,
         \/ \E a \in Assets :
              \/ \E st \in Statuses, hasId \in BOOLEAN : OnboardAsset(a, st, hasId)
              \/ \E u \in IntuneUsers : IntuneChanges(a, u)
         \/ Restart
         \/ UNCHANGED vars
  PROVE  IInv'
<1> USE DEF IInv, AssignmentTypeOK
<1>1. ASSUME NEW a \in Assets, NEW st \in Statuses, NEW hasId \in BOOLEAN,
             OnboardAsset(a, st, hasId)
      PROVE  IInv'
  <2>1. AssignmentTypeOK' /\ RowsExist'
    BY <1>1 DEF OnboardAsset, RowsExist
  <2>2. ASSUME NEW w \in Workers, Fresh(w), job[w].step \in WithRow
        PROVE  Fresh(w)'
    <3>1. job[w].a # a
      BY <1>1, <2>2 DEF OnboardAsset, RowsExist
    <3>2. QED
      BY <1>1, <2>2, <3>1 DEF OnboardAsset, Fresh, At
  <2>3. ASSUME NEW w \in Workers, job[w].step \notin WithRow
        PROVE  Fresh(w)'
    BY <1>1, <2>3 DEF OnboardAsset, Fresh, At, WithRow
  <2>4. QED
    BY <1>1, <2>1, <2>2, <2>3 DEF OnboardAsset, LoneIsFresh, OthersIdle, At
<1>2. ASSUME NEW a \in Assets, NEW u \in IntuneUsers, IntuneChanges(a, u)
      PROVE  IInv'
  BY <1>2 DEF IntuneChanges, RowsExist, LoneIsFresh, OthersIdle, Fresh, At, table
<1>3. CASE Restart
  BY <1>3, IdleIsJob
  DEF Restart, DropRequests, RowsExist, LoneIsFresh, At, Idle, WithRow, Assignees
<1>4. CASE UNCHANGED vars
  BY <1>4 DEF vars, table, RowsExist, LoneIsFresh, OthersIdle, Fresh, At
<1>5. QED
  BY <1>1, <1>2, <1>3, <1>4

-----------------------------------------------------------------------------
LEMMA InitIInv == Init => IInv
BY RetiredIsSeeded, IdleIsJob
DEF Init, InitRequests, IInv, AssignmentTypeOK, RowsExist, LoneIsFresh, At, Idle, WithRow,
    Assignees

LEMMA NextIInv == IInv /\ [Next]_vars => IInv'
BY BeginKeepsIInv, WriteKeepsIInv, SyncKeepsIInv, OtherStepsKeepIInv DEF Next, GoOn

LEMMA InvariantHolds == Spec => []IInv
BY InitIInv, NextIInv, PTL DEF Spec

(***************************************************************************)
(* Whatever interleaving of requests, syncs, kills and changes in Intune:  *)
(* the columns and what sessions hold keep their domains.                  *)
(***************************************************************************)
THEOREM AssignmentTypeCorrect == Spec => []AssignmentTypeOK
<1>1. IInv => AssignmentTypeOK
  BY DEF IInv
<1>2. QED
  BY InvariantHolds, <1>1, PTL

-----------------------------------------------------------------------------
(* What a request that no other overlapped knows when it goes on. *)
LEMMA LoneKnows ==
  ASSUME IInv, NEW w \in Workers, GoOn(w), alone[w]
  PROVE  /\ Fresh(w)
         /\ OthersIdle(w)
         /\ job[w] \in Jobs
         /\ job[w].step \in WithRow => job[w].a \in Assets
<1>1. ~At(w, "idle")
  BY DEF GoOn, WriteAssign, WriteUnassign, Push, WriteStatusCode, WriteArchive,
         Ask, NextDevice, Enrich, StoreAnswer, ImportAsset, LogImport, At
<1>2. job[w] \in Jobs
  BY DEF IInv, AssignmentTypeOK
<1>3. job[w].step \in WithRow => job[w].a \in Assets
  BY <1>2, StepTellsJob
  DEF WithRow, AssignJobs, PushJobs, UnassignJobs, StatusJobs, ArchiveJobs, AskJobs, SyncJobs
<1>4. QED
  BY <1>1, <1>2, <1>3 DEF IInv, LoneIsFresh

(***************************************************************************)
(* However many assets and workers: a sync that nothing overlapped takes   *)
(* no asset's assignee away.                                               *)
(***************************************************************************)
THEOREM LoneSyncIsCareful == Spec => LoneSyncKeepsAssignee
<1>1. ASSUME IInv, NEW w \in Workers, NEW a \in Assets,
             GoOn(w), alone[w], At(w, "store"), IsAssignee(assignee[a])
      PROVE  assignee'[a] = assignee[a]
  <2>1. StoreAnswer(w)
    BY <1>1 DEF GoOn, At, WriteAssign, WriteUnassign, Push, WriteStatusCode, WriteArchive,
                Ask, NextDevice, Enrich, ImportAsset, LogImport
  <2>2. job[w].was = assignee[job[w].a]
    BY <1>1, LoneKnows DEF Fresh, At
  <2>3. CASE job[w].a = a
    BY <1>1, <2>1, <2>2, <2>3 DEF StoreAnswer
  <2>4. CASE job[w].a # a
    BY <1>1, <2>1, <2>4 DEF StoreAnswer, IInv, AssignmentTypeOK
  <2>5. QED
    BY <2>3, <2>4
<1>2. IInv => \A w \in Workers, a \in Assets :
                GoOn(w) /\ alone[w] /\ At(w, "store") /\ IsAssignee(assignee[a])
                  => assignee'[a] = assignee[a]
  BY <1>1
<1>3. QED
  BY InvariantHolds, <1>2, PTL DEF LoneSyncKeepsAssignee

(***************************************************************************)
(* However many assets and workers: a request that nothing overlapped      *)
(* leaves archived assets retired and nobody's, a sync's store apart.      *)
(***************************************************************************)
THEOREM LoneRequestRespectsArchive == Spec => LoneRequestKeepsRetired
<1>1. ASSUME IInv, NEW w \in Workers, NEW a \in Assets,
             GoOn(w), alone[w], ~At(w, "store"), RetiredFor(a)
      PROVE  RetiredFor(a)'
  <2> USE <1>1, LoneKnows DEF IInv, AssignmentTypeOK, RetiredFor, Fresh
  <2>1. CASE WriteAssign(w)
    BY <2>1 DEF WriteAssign, At, WithRow
  <2>2. CASE WriteUnassign(w)
    BY <2>2 DEF WriteUnassign, IsAssignee
  <2>3. CASE WriteStatusCode(w)
    BY <2>3 DEF WriteStatusCode, At
  <2>4. CASE WriteArchive(w)
    BY <2>4 DEF WriteArchive, At, WithRow, IsAssignee
  <2>5. CASE ImportAsset(w)
    BY <2>5 DEF ImportAsset, table
  <2>6. CASE Push(w) \/ Ask(w) \/ NextDevice(w) \/ Enrich(w) \/ LogImport(w)
    BY <2>6 DEF Push, Ask, NextDevice, Enrich, LogImport, table
  <2>7. ~StoreAnswer(w)
    BY DEF StoreAnswer
  <2>8. QED
    BY <2>1, <2>2, <2>3, <2>4, <2>5, <2>6, <2>7 DEF GoOn
<1>2. IInv => \A w \in Workers, a \in Assets :
                GoOn(w) /\ alone[w] /\ ~At(w, "store") /\ RetiredFor(a) => RetiredFor(a)'
  BY <1>1
<1>3. QED
  BY InvariantHolds, <1>2, PTL DEF LoneRequestKeepsRetired

(***************************************************************************)
(* However many assets and workers: the history goes on telling the        *)
(* assignee unless requests overlap.                                       *)
(***************************************************************************)
THEOREM LoneRequestTellsHistory == Spec => LoneRequestKeepsHistory
<1>1. ASSUME IInv, NEW w \in Workers, NEW a \in Assets,
             GoOn(w), alone[w], HistoryTells(a)
      PROVE  HistoryTells(a)'
  <2> USE <1>1, LoneKnows DEF IInv, AssignmentTypeOK, Fresh
  <2>1. ~At(w, "log_import") =>
          \/ logged[a] = assignee[a]
          \/ ~IsAssignee(logged[a]) /\ ~IsAssignee(assignee[a])
    BY DEF HistoryTells, OthersIdle, At
  <2>2. CASE WriteAssign(w)
    BY <2>1, <2>2 DEF WriteAssign, At, WithRow, HistoryTells
  <2>3. CASE WriteUnassign(w)
    BY <2>1, <2>3 DEF WriteUnassign, At, WithRow, HistoryTells
  <2>4. CASE WriteArchive(w)
    BY <2>1, <2>4 DEF WriteArchive, At, WithRow, HistoryTells
  <2>5. CASE StoreAnswer(w)
    BY <2>1, <2>5 DEF StoreAnswer, At, WithRow, HistoryTells
  <2>6. CASE ImportAsset(w)
    <3>1. CASE UNCHANGED table
      BY <2>1, <2>6, <3>1 DEF ImportAsset, At, HistoryTells, table
    <3>2. ASSUME assignee' = [assignee EXCEPT ![job[w].a] = job[w].seen[job[w].a]],
                 UNCHANGED logged, Advance(w, "log_import")
          PROVE  HistoryTells(a)'
      <4>1. At(w, "log_import")' /\ job'[w].a = job[w].a
        <5>1. job[w] \in SyncJobs
          BY <2>6, StepTellsJob DEF ImportAsset, At
        <5>2. QED
          BY <3>2, <5>1 DEF Advance, Continue, At, SyncJobs
      <4>2. CASE job[w].a = a
        BY <4>1, <4>2 DEF HistoryTells
      <4>3. CASE job[w].a # a
        BY <2>1, <2>6, <3>2, <4>3 DEF HistoryTells, ImportAsset, At
      <4>4. QED
        BY <4>2, <4>3
    <3>3. QED
      BY <2>6, <3>1, <3>2 DEF ImportAsset
  <2>7. CASE LogImport(w)
    <3>1. CASE job[w].a = a
      BY <2>7, <3>1 DEF LogImport, At, WithRow, HistoryTells, IsAssignee
    <3>2. CASE job[w].a # a
      BY <2>7, <3>2 DEF LogImport, At, HistoryTells, OthersIdle
    <3>3. QED
      BY <3>1, <3>2
  <2>8. CASE Push(w) \/ WriteStatusCode(w) \/ Ask(w) \/ NextDevice(w) \/ Enrich(w)
    BY <2>1, <2>8
    DEF Push, WriteStatusCode, Ask, NextDevice, Enrich, table, At, HistoryTells
  <2>9. QED
    BY <2>2, <2>3, <2>4, <2>5, <2>6, <2>7, <2>8 DEF GoOn
<1>2. IInv => \A w \in Workers, a \in Assets :
                GoOn(w) /\ alone[w] /\ HistoryTells(a) => HistoryTells(a)'
  BY <1>1
<1>3. QED
  BY InvariantHolds, <1>2, PTL DEF LoneRequestKeepsHistory

(***************************************************************************)
(* However many assets and workers: table and Intune stop agreeing on a    *)
(* live, linked asset only by the doors the property names.                *)
(***************************************************************************)
THEOREM DivergenceIsExplained == Spec => IntuneDivergesByKnownDoors
<1>1. ASSUME IInv, NEW w \in Workers, NEW a \in Assets,
             GoOn(w), alone[w], row[a] = "live", linked[a], Settled(a), row'[a] = "live",
             ~(Push(w) /\ UNCHANGED primary),
             ~(WriteAssign(w) /\ job[w].u = Blank),
             ~(StoreAnswer(w) /\ job[w].seen[a] # primary[a])
      PROVE  Settled(a)'
  <2> USE <1>1, LoneKnows DEF IInv, AssignmentTypeOK, Fresh
  <2>1. ~At(w, "push") => Agreed(a)
    BY DEF Settled, PushPending, OthersIdle, At
  <2>2. CASE WriteAssign(w)
    <3>1. job[w] \in AssignJobs
      BY <2>2, StepTellsJob DEF WriteAssign, At
    <3>2. CASE job[w].a = a
      <4>1. CASE job[w].u = job[w].was
        BY <2>1, <2>2, <3>2, <4>1 DEF WriteAssign, At, Settled, Agreed
      <4>2. CASE job[w].u # job[w].was
        <5>1. IsAssignee(job[w].u)
          BY <2>2, <3>1, UpnsAreDistinct DEF AssignJobs, IntuneUsers, IsAssignee
        <5>2. QED
          BY <2>2, <3>2, <4>2, <5>1 DEF WriteAssign, Continue, At, Settled, PushPending
      <4>3. QED
        BY <4>1, <4>2
    <3>3. CASE job[w].a # a
      BY <2>1, <2>2, <3>3 DEF WriteAssign, At, Settled, Agreed
    <3>4. QED
      BY <3>2, <3>3
  <2>3. CASE WriteUnassign(w)
    <3>1. CASE job[w].a = a
      BY <2>3, <3>1 DEF WriteUnassign, Continue, At, Settled, PushPending
    <3>2. CASE job[w].a # a
      BY <2>1, <2>3, <3>2 DEF WriteUnassign, At, Settled, Agreed
    <3>3. QED
      BY <3>1, <3>2
  <2>4. CASE Push(w)
    <3>1. CASE job[w].a = a
      <4>1. primary'[a] = job[w].u /\ assignee' = assignee
        BY <2>4, <3>1 DEF Push, table
      <4>2. job[w].u = assignee[a] \/ (job[w].u = Staging /\ assignee[a] = NULL)
        BY <2>4, <3>1 DEF Push
      <4>3. job[w].u # NULL
        BY <2>4, StepTellsJob, UpnsAreDistinct DEF Push, At, PushJobs, IntuneUsers
      <4>4. QED
        BY <4>1, <4>2, <4>3 DEF Settled, Agreed, IsAssignee
    <3>2. CASE job[w].a # a
      <4>1. Agreed(a)
        BY <3>2 DEF Settled, PushPending, OthersIdle, At
      <4>2. QED
        BY <2>4, <3>2, <4>1 DEF Push, table, Settled, Agreed
    <3>3. QED
      BY <3>1, <3>2
  <2>5. CASE WriteArchive(w)
    <3>1. job[w].a # a
      BY <2>5 DEF WriteArchive, At, WithRow
    <3>2. QED
      BY <2>1, <2>5, <3>1 DEF WriteArchive, At, Settled, Agreed
  <2>6. CASE StoreAnswer(w)
    <3>1. CASE job[w].a = a
      BY <2>1, <2>6, <3>1 DEF StoreAnswer, At, Settled, Agreed
    <3>2. CASE job[w].a # a
      BY <2>1, <2>6, <3>2 DEF StoreAnswer, At, Settled, Agreed
    <3>3. QED
      BY <3>1, <3>2
  <2>7. CASE ImportAsset(w)
    <3>1. assignee'[a] = assignee[a] /\ primary' = primary
      BY <2>7 DEF ImportAsset, table
    <3>2. QED
      BY <2>1, <2>7, <3>1 DEF ImportAsset, At, Settled, Agreed
  <2>8. CASE WriteStatusCode(w) \/ Ask(w) \/ NextDevice(w) \/ Enrich(w) \/ LogImport(w)
    BY <2>1, <2>8
    DEF WriteStatusCode, Ask, NextDevice, Enrich, LogImport, table, At, Settled, Agreed
  <2>9. QED
    BY <2>2, <2>3, <2>4, <2>5, <2>6, <2>7, <2>8 DEF GoOn
<1>2. ASSUME IInv, NEW w \in Workers, NEW a \in Assets, Begin(w), Settled(a)
      PROVE  Settled(a)'
  <2>1. At(w, "idle") /\ UNCHANGED <<table, primary>> /\ \E rest : Serve(w, rest)
    BY <1>2 DEF Begin, BeginAssign, BeginUnassign, BeginStatus, BeginArchive, BeginSync,
                BeginBulkSync
  <2>2. ASSUME NEW v \in Workers, At(v, "push") PROVE job'[v] = job[v]
    BY <2>1, <2>2 DEF Serve, At
  <2>3. QED
    BY <1>2, <2>1, <2>2 DEF Settled, Agreed, PushPending, At, table
<1>3. ASSUME IInv, NEW a \in Assets, row[a] = "live", Settled(a),
             \E b \in Assets, st \in Statuses, hasId \in BOOLEAN : OnboardAsset(b, st, hasId)
      PROVE  Settled(a)'
  BY <1>3 DEF OnboardAsset, Settled, Agreed, PushPending, At
<1>4. ASSUME IInv, NEW a \in Assets, NEW b \in Assets, NEW u \in IntuneUsers,
             IntuneChanges(b, u), a # b, Settled(a)
      PROVE  Settled(a)'
  BY <1>4 DEF IntuneChanges, table, Settled, Agreed, PushPending, At
<1>5. IInv /\ [Next]_vars =>
        [\A a \in Assets :
           row[a] = "live" /\ linked[a] /\ Settled(a) /\ row'[a] = "live" /\ ~Settled(a)' =>
             \/ \E u \in IntuneUsers : IntuneChanges(a, u)
             \/ Restart
             \/ \E w \in Workers :
                  /\ GoOn(w)
                  /\ \/ ~alone[w]
                     \/ Push(w) /\ UNCHANGED primary
                     \/ WriteAssign(w) /\ job[w].u = Blank
                     \/ StoreAnswer(w) /\ job[w].seen[a] # primary[a]]_vars
  BY <1>1, <1>2, <1>3, <1>4 DEF Next
<1>6. QED
  BY InvariantHolds, <1>5, PTL DEF Spec, IntuneDivergesByKnownDoors

=============================================================================
