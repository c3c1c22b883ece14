----------------------------- MODULE MCMirrors ------------------------------
(***************************************************************************)
(* An instance of Mirrors for TLC: user 1 is joined by user 2, gets the    *)
(* UPN that user 2 gives up, leaves, and comes back as user 3.             *)
(***************************************************************************)
EXTENDS Mirrors, TLC

Careers ==
  <<1 :> "a" @@ 2 :> NoUpn @@ 3 :> NoUpn,
    1 :> "a" @@ 2 :> "b" @@ 3 :> NoUpn,
    1 :> "b" @@ 2 :> "c" @@ 3 :> NoUpn,
    1 :> NoUpn @@ 2 :> "c" @@ 3 :> "b">>
=============================================================================
