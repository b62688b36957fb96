SPECIFICATION FairSpec
CONSTANTS
  Pools = {p1}
  NoPool = NoPool
  MaxReplicas = 3
  Numbers = {1, 2, 3}
  HasQuota = TRUE
  MaxVms = 2
  Kinds <- SettleKinds
  MaxDisturbances = 2
PROPERTIES
  FleetGrows
  CurrentSettles
  ReadySettles
  ReadyConditionSettles
  AddsOnlyBelowDesired
  CountsCover
