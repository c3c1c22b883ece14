\* Two overlapping requests for one asset.
CONSTANTS
  Workers = {w1, w2}
  Assets = {a1}
  Deployments = {d1, d2}
  Shipments = {s1}
  Locations = {}
  NULL = NULL
  Directions = {"outbound"}
  CarrierReports = {}
  Archivable = {}
  Restarts = FALSE
SPECIFICATION Spec
INVARIANT OneActiveDeployment
