\* Two overlapping requests on one code, whatever is behind it.
CONSTANTS
  Workers = {w1, w2}
  Serials = {1}
  Devices <- Market
  GivenNames = {"own"}
  NULL = NULL
SPECIFICATION Spec
PROPERTY EarlierNameIsKept
PROPERTY LoneSyncIsStored
PROPERTY LoneAnswerIsCached
PROPERTY NamedRowLostByKnownDoors
SYMMETRY EqualWorkers
