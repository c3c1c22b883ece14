\* Two overlapping requests for one asset; Intune is changed behind our back.
CONSTANTS
  Workers = {w1, w2}
  Assets = {a1}
  People = {u1}
  Staging = Staging
  Blank = Blank
  NULL = NULL
  Statuses = {"active", "retired"}
SPECIFICATION Spec
INVARIANT AssignmentTypeOK
PROPERTY LoneRequestKeepsHistory
PROPERTY LoneRequestKeepsRetired
PROPERTY LoneSyncKeepsAssignee
PROPERTY IntuneDivergesByKnownDoors
SYMMETRY EqualWorkers
