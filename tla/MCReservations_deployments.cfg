\* Two deployments and a shipment compete for two assets; nothing has a location.
CONSTANTS
  Assets = {a1, a2}
  Deployments = {d1, d2}
  Shipments = {s1}
  Locations = {}
  Warehouse = NULL
  NULL = NULL
  Directions = {"outbound"}
  CarrierReports <- AllReports
  Archivable = {s1, d1}
SPECIFICATION Spec
INVARIANT OneActiveDeployment
INVARIANT InProgressHasItems
INVARIANT NoDanglingRows
PROPERTY ImplementsLedger
PROPERTY ClosedDeploymentIsFrozen
PROPERTY TornOnlyByKnownDoors
