\* Two shipments and a deployment compete for one asset, move it to and from the warehouse, and boots park it there.
CONSTANTS
  Assets = {a1}
  Deployments = {d1}
  Shipments = {s1, s2}
  Locations = {wh}
  Warehouse = wh
  NULL = NULL
  Directions <- AllDirections
  CarrierReports <- DeliveryReports
  Archivable = {a1}
SPECIFICATION Spec
INVARIANT TypeOK
PROPERTY SharedOnlyByReactivation
PROPERTY ArchivedAssetStaysPut
PROPERTY MoveIsLogged
SYMMETRY EqualShipments
