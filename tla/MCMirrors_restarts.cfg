\* Two overlapping requests, restarts at any point, one part of the server at a time.
CONSTANTS
  Workers = {w1, w2}
  TTL = 3
  LongestBuild = 2
  MaxRetries = 2
  NULL = NULL
  Users = {1, 2, 3}
  Upns = {"a", "b", "c"}
  NoUpn = NoUpn
  Tenants <- Careers
  Assets = {a1}
  Sites = {s1}
  Warehouse = wh
  Nowhere = Nowhere
SPECIFICATION Spec
INVARIANT IndexIsAsFreshAsStamped
PROPERTY WarmerKeepsIndexRecent
PROPERTY EveryRequestEnds
PROPERTY UsersMirrorEntra
PROPERTY BootLeavesNoLegacy
PROPERTY LocationsMirrorSnowflake
