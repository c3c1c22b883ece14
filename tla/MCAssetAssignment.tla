-------------------------- MODULE MCAssetAssignment --------------------------
(***************************************************************************)
(* Instances of AssetAssignment for TLC.  The workers are interchangeable. *)
(***************************************************************************)
EXTENDS AssetAssignment, TLC

EqualWorkers == Permutations(Workers)
=============================================================================
