SPECIFICATION Spec
CONSTANTS
  Pools = {p1, p2}
  NoPool = NoPool
  MaxReplicas = 3
  Numbers = {1, 2, 3, 4}
  HasQuota = TRUE
  MaxVms = 2
  Kinds <- AllKinds
  MaxDisturbances = 2
SYMMETRY PoolSymmetry
INVARIANTS
  TypeOK
  QuotaRespected
PROPERTIES
  UserFieldsKept
  StatusOfCurrentSpec
  OneFleet
