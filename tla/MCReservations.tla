--------------------------- MODULE MCReservations ----------------------------
(***************************************************************************)
(* Instances of Reservations for TLC.                                      *)
(***************************************************************************)
EXTENDS Reservations, TLC

AllDirections == {"inbound", "outbound"}
AllReports == {"in_transit", "delivered", "exception"}
DeliveryReports == {"in_transit", "delivered"}

EqualShipments == Permutations(Shipments)
=============================================================================
