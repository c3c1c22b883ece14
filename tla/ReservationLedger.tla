-------------------------- MODULE ReservationLedger --------------------------
(***************************************************************************)
(* What the reservation rules of deployment_service.py promise, without    *)
(* the tables: an asset has at most one holder; a holder is tentative      *)
(* until it is confirmed; assets move from one tentative holder to         *)
(* another; a confirmed holder keeps every asset until it is closed, and   *)
(* one that holds nothing is never confirmed.                              *)
(***************************************************************************)
CONSTANTS
  Assets,   \* what is reserved
  Holders,  \* who reserves: deployments
  Nobody    \* the holder of a free asset

VARIABLES
  holder,   \* the holder of each asset
  firm      \* the confirmed holders

ledger == <<holder, firm>>

Held(h) == {a \in Assets : holder[a] = h}

Give(S, h) == holder' = [a \in Assets |-> IF a \in S THEN h ELSE holder[a]]

Init ==
  /\ holder = [a \in Assets |-> Nobody]
  /\ firm = {}

Reserve(h, S) ==
  /\ h \notin firm
  /\ S \subseteq Held(Nobody)
  /\ Give(S, h)
  /\ UNCHANGED firm

Transfer(a, h) ==
  /\ holder[a] \notin firm \cup {Nobody}
  /\ h \notin firm
  /\ Give({a}, h)
  /\ UNCHANGED firm

Release(h, S) ==
  /\ h \notin firm
  /\ S \subseteq Held(h)
  /\ Give(S, Nobody)
  /\ UNCHANGED firm

Confirm(h) ==
  /\ h \notin firm
  /\ Held(h) # {}
  /\ firm' = firm \cup {h}
  /\ UNCHANGED holder

Close(h) ==
  /\ h \in firm
  /\ Give(Held(h), Nobody)
  /\ firm' = firm \ {h}

Next ==
  \E h \in Holders :
    \/ \E S \in SUBSET Assets : Reserve(h, S) \/ Release(h, S)
    \/ \E a \in Assets : Transfer(a, h)
    \/ Confirm(h)
    \/ Close(h)

Spec == Init /\ [][Next]_ledger
=============================================================================
