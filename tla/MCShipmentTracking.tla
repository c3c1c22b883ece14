------------------------- MODULE MCShipmentTracking --------------------------
(***************************************************************************)
(* Instances of ShipmentTracking for TLC: the carrier logs of the runs.    *)
(***************************************************************************)
EXTENDS ShipmentTracking

ShortLog == <<"in_transit", "delivered">>
ReturnedLog == <<"exception", "delivered", "unknown", "in_transit">>
=============================================================================
