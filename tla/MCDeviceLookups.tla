-------------------------- MODULE MCDeviceLookups ---------------------------
(***************************************************************************)
(* An instance of DeviceLookups for TLC: an access point, a barcode, and   *)
(* computers of both vendors whose tags look alike or like nothing known.  *)
(***************************************************************************)
EXTENDS DeviceLookups, TLC

Market ==
  {[format |-> "meraki", maker |-> "meraki", intune |-> "none"],
   [format |-> "upc", maker |-> "lenovo", intune |-> "none"],
   [format |-> "lenovo", maker |-> "lenovo", intune |-> "mtm"],
   [format |-> "lenovo", maker |-> "dell", intune |-> "friendly"],
   [format |-> "unknown", maker |-> "dell", intune |-> "none"]}

EqualWorkers == Permutations(Workers)
=============================================================================
