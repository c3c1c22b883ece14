---------------------------- MODULE LedgerProofs -----------------------------
(***************************************************************************)
(* Lemmas about the ledger that the reservation tables stand for: who      *)
(* holds what, and when a step of the tables is a step of the ledger.      *)
(***************************************************************************)
EXTENDS ReservationRules, TLAPS

(* The holder of an asset is d exactly when d is active and has the asset. *)
HolderIsExact ==
  \A a \in Assets :
    /\ LedgerHolder[a] \in OrNull(Deployments)
    /\ \A d \in Deployments :
         LedgerHolder[a] = d <=> IsDeploymentActive(d) /\ a \in depItems[d]

LEMMA HolderExact == OneActiveDeployment => HolderIsExact
<1> SUFFICES ASSUME OneActiveDeployment, NEW a \in Assets
             PROVE  /\ LedgerHolder[a] \in OrNull(Deployments)
                    /\ \A d \in Deployments : LedgerHolder[a] = d <=> d \in HoldersOf(a)
  BY DEF HolderIsExact, HoldersOf
<1>1. CASE HoldersOf(a) = {}
  BY <1>1, KeysAreDistinct DEF LedgerHolder, OrNull
<1>2. CASE HoldersOf(a) # {}
  <2>1. LedgerHolder[a] \in HoldersOf(a)
    BY <1>2 DEF LedgerHolder
  <2>2. \A d, e \in HoldersOf(a) : d = e
    BY DEF OneActiveDeployment, HoldersOf
  <2>3. QED
    BY <2>1, <2>2 DEF HoldersOf, OrNull
<1>3. QED
  BY <1>1, <1>2

LEMMA HolderExactNext == OneActiveDeployment' => HolderIsExact'
BY HolderExact, PTL

(***************************************************************************)
(* A step whose effect on "who is active and has what" is that S leaves    *)
(* its holders and goes to h (or to nobody) is the ledger's Give(S, h).    *)
(***************************************************************************)
LEMMA GiveByTables ==
  ASSUME OneActiveDeployment, OneActiveDeployment', NEW S \in SUBSET Assets, NEW h \in OrNull(Deployments),
         \A d \in Deployments, a \in Assets :
           (IsDeploymentActive(d) /\ a \in depItems[d])'
             <=> IF a \in S THEN d = h ELSE IsDeploymentActive(d) /\ a \in depItems[d]
  PROVE  Ledger!Give(S, h)
<1>1. HolderIsExact /\ HolderIsExact'
  BY HolderExact, HolderExactNext
<1>2. \A x, y \in OrNull(Deployments) : (\A d \in Deployments : x = d <=> y = d) => x = y
  BY KeysAreDistinct DEF OrNull
<1>3. ASSUME NEW a \in Assets
      PROVE  LedgerHolder'[a] = IF a \in S THEN h ELSE LedgerHolder[a]
  <2>1. \A d \in Deployments :
          LedgerHolder'[a] = d <=> (IF a \in S THEN h ELSE LedgerHolder[a]) = d
    BY <1>1 DEF HolderIsExact
  <2>2. LedgerHolder'[a] \in OrNull(Deployments)
    BY <1>1 DEF HolderIsExact
  <2>3. (IF a \in S THEN h ELSE LedgerHolder[a]) \in OrNull(Deployments)
    BY <1>1 DEF HolderIsExact
  <2>4. QED
    BY <1>2, <2>1, <2>2, <2>3
<1>4. LedgerHolder' = [a \in Assets |-> LedgerHolder'[a]]
  BY DEF LedgerHolder
<1>5. QED
  BY <1>3, <1>4 DEF Ledger!Give

(* Tables that leave every (active deployment, item) pair alone leave the holders alone. *)
LEMMA SameHolders ==
  ASSUME OneActiveDeployment, OneActiveDeployment',
         \A d \in Deployments, a \in Assets :
           (IsDeploymentActive(d) /\ a \in depItems[d])'
             <=> IsDeploymentActive(d) /\ a \in depItems[d]
  PROVE  LedgerHolder' = LedgerHolder
<1>1. Ledger!Give({}, NULL)
  BY GiveByTables DEF OrNull
<1>2. LedgerHolder' = [a \in Assets |-> LedgerHolder[a]]
  BY <1>1 DEF Ledger!Give
<1>3. QED
  BY <1>2 DEF LedgerHolder

(* What the ledger says a deployment holds, in terms of the tables. *)
LEMMA HeldIsItems ==
  ASSUME OneActiveDeployment, TypeOK, NEW d \in Deployments, IsDeploymentActive(d)
  PROVE  Ledger!Held(d) = depItems[d]
<1>1. HolderIsExact
  BY HolderExact
<1>2. depItems[d] \subseteq Assets
  BY DEF TypeOK
<1>3. QED
  BY <1>1, <1>2 DEF HolderIsExact, Ledger!Held

LEMMA FreeIsUnheld ==
  ASSUME NEW a \in Assets, HoldersOf(a) = {}
  PROVE  a \in Ledger!Held(NULL)
BY DEF Ledger!Held, LedgerHolder
=============================================================================
