SPECIFICATION Spec
CONSTANTS
  Pools = {p1, p2}
  NoPool = NoPool
  MaxReplicas = 2
  Numbers = {1, 2, 3}
  HasQuota = FALSE
  MaxVms = 0
  Kinds = {"ref", "removeVM"}
  MaxDisturbances = 2
PROPERTIES
  AddsOnlyBelowAsked
