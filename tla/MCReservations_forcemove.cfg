\* A force-move of an asset that its deployment is shipping.
CONSTANTS
  Assets = {a1, a2}
  Deployments = {d1, d2}
  Shipments = {s1}
  Locations = {}
  Warehouse = NULL
  NULL = NULL
  Directions = {"outbound"}
  CarrierReports <- AllReports
  Archivable = {}
SPECIFICATION Spec
PROPERTY ForeignShipmentBlocksAdd
