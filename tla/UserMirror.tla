----------------------------- MODULE UserMirror -----------------------------
(***************************************************************************)
(* user_service.py: the copy of Entra's users.  A row is keyed by the      *)
(* object id and its UPN is unique.  Rows are only ever added or updated,  *)
(* so those of people who left stay, with their UPNs.                      *)
(***************************************************************************)
EXTENDS RequestPool, Naturals, Sequences, TLC

CONSTANTS
  Users,    \* object ids, in their order
  Upns,
  NoUpn,    \* no such user, or no such row
  Tenants   \* what Entra holds, one tenant after the other

ASSUME UserIdsAreOrdered == Users \subseteq Nat
ASSUME NoUpnIsNone == NoUpn \notin Upns

ASSUME TenantsAreTables == Tenants \in Seq([Users -> Upns \cup {NoUpn}]) /\ Tenants # << >>

ASSUME UpnsAreUnique ==
  \A e \in DOMAIN Tenants, u, v \in Users :
    u # v /\ Tenants[e][u] # NoUpn => Tenants[e][u] # Tenants[e][v]

VARIABLES
  tenant,   \* external: Entra holds Tenants[tenant]
  userRow   \* intune_users: the UPN of each row

userVars == <<tenant, userRow>>
Entra == Tenants[tenant]

(* POST /users/sync for everybody, or for one user: Graph answers. *)
BeginUserSync(w) ==
  /\ At(w, "idle")
  /\ \E asked \in {Users} \cup {{u} : u \in Users} :
       LET known == {u \in asked : Entra[u] # NoUpn} IN
       /\ known # {}
       /\ Serve(w, [step |-> "rows", since |-> tenant, all |-> asked = Users,
                    graph |-> [u \in known |-> Entra[u]]])
  /\ UNCHANGED userVars

(* The row of each user is loaded. *)
ReadUsers(w) ==
  /\ At(w, "rows")
  /\ Continue(w, [step |-> "upsert", since |-> job[w].since, all |-> job[w].all,
                 graph |-> job[w].graph, had |-> [u \in DOMAIN job[w].graph |-> userRow[u]]])
  /\ UNCHANGED userVars

-----------------------------------------------------------------------------
Changed(j) == {u \in DOMAIN j.graph : j.had[u] \notin {NoUpn, j.graph[u]}}
New(j) == {u \in DOMAIN j.graph : j.had[u] = NoUpn}

(* The table once the rows of S are what Graph says. *)
With(j, S) == [u \in Users |-> IF u \in S THEN j.graph[u] ELSE userRow[u]]

(* The UPN that Graph gives u is that of another row of table. *)
Taken(j, u, table) == \E v \in Users \ {u} : table[v] = j.graph[u]

(* The updates run in the order of the ids, up to the first that is refused. *)
Before(j, u) == {v \in Changed(j) : v < u}
Refused(j) == {u \in Changed(j) : Taken(j, u, With(j, Before(j, u)))}

(* The inserts come after the updates. *)
Insertable(j) ==
  {u \in New(j) : userRow[u] = NoUpn /\ ~Taken(j, u, With(j, Changed(j)))}

Succeeds(j) == Refused(j) = {} /\ Insertable(j) = New(j)

(* Mutant of Upserted: rows that are there are left alone. *)
UpsertedNew(j) == {With(j, Insertable(j))}

(***************************************************************************)
(* The tables that the flush of the commit may leave: every statement      *)
(* before the one that fails has committed by itself.                      *)
(***************************************************************************)
Upserted(j) ==
  CASE Succeeds(j)      -> {With(j, Changed(j) \cup New(j))}
    [] Refused(j) # {}  -> {With(j, Before(j, CHOOSE u \in Refused(j) : \A v \in Refused(j) : u <= v))}
    [] OTHER            -> {With(j, Changed(j) \cup S) : S \in SUBSET Insertable(j)}

UpsertUsers(w) ==
  /\ At(w, "upsert")
  /\ userRow' \in Upserted(job[w])
  /\ Answer(w)
  /\ UNCHANGED tenant

(* People join, leave, are renamed or recreated. *)
EntraChanges ==
  /\ tenant < Len(Tenants)
  /\ tenant' = tenant + 1
  /\ UNCHANGED <<userRow, job, alone>>

InitUsers ==
  /\ tenant = 1
  /\ userRow = [u \in Users |-> NoUpn]

UserSteps(w) == ReadUsers(w) \/ UpsertUsers(w)
=============================================================================
