---------------------------- MODULE MCMerakiSync ----------------------------
(***************************************************************************)
(* An instance of MerakiSync for TLC: the dashboard is first unconfigured, *)
(* then has two networks, the narrow subnet of the second inside the wide  *)
(* one of the first, then drops the second and the first's VLAN, client    *)
(* and device.                                                             *)
(***************************************************************************)
EXTENDS MerakiSync, TLC

Unconfigured ==
  [org |-> {}, lan |-> NoneOf, home |-> Nowhere, seen |-> NoneOf]

TwoSites ==
  [org |-> {1, 2}, lan |-> (1 :> {16} @@ 2 :> {24}),
   home |-> [a \in Assets |-> 1], seen |-> (1 :> Clients @@ 2 :> {})]

OneSite ==
  [org |-> {1}, lan |-> NoneOf, home |-> Nowhere, seen |-> NoneOf]

Turnover == <<Unconfigured, TwoSites, OneSite>>

EqualWorkers == Permutations(Workers)
=============================================================================
