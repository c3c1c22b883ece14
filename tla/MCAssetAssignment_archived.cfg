\* One request at a time: a sync of an archived asset.
CONSTANTS
  Workers = {w1}
  Assets = {a1}
  People = {u1}
  Staging = Staging
  Blank = Blank
  NULL = NULL
  Statuses = {"active", "retired"}
SPECIFICATION Spec
PROPERTY ArchivedIsNotAssigned
