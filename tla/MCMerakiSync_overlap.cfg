\* Two overlapping syncs of two networks; one network is dropped, the other loses its VLAN.
CONSTANTS
  Workers = {w1, w2}
  Networks = {1, 2}
  Subnets = {16, 24}
  Clients = {c1}
  Assets = {a1}
  NULL = NULL
  Meraki <- Turnover
  Reports = {24, NULL}
  Failing = {1}
SPECIFICATION Spec
PROPERTY LossHasACause
 
PROPERTY StaleLinkIsUnknown
PROPERTY StaleLinkByKnownDoors
SYMMETRY EqualWorkers
