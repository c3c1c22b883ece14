\* Two workers on two assets, killed at any point: what overlapping requests keep, and what only they break.
CONSTANTS
  Workers = {w1, w2}
  Assets = {a1, a2}
  Deployments = {d1, d2}
  Shipments = {s1}
  Locations = {}
  NULL = NULL
  Directions = {"outbound"}
  CarrierReports = {}
  Archivable = {}
  Restarts = TRUE
SPECIFICATION Spec
INVARIANT RequestsTypeOK
INVARIANT NoDanglingRows
PROPERTY LoneRequestStepsTheLedger
PROPERTY LoneRequestKeepsLifecycle
PROPERTY LonePickIsAccepted
PROPERTY LoneForcedMoveArrives
SYMMETRY Rows
