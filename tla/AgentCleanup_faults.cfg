SPECIFICATION FairSpec
CONSTANTS
  Machines = {m1, m2, m3}
  None = None
  MaxReplicas = 2
  MaxVms = 1
  SameNamespace = TRUE
  Kinds <- AllKinds
  MaxDisturbances = 2
INVARIANTS
  TypeOK
PROPERTIES
  ListedVMsKept
  OneFleet
  FinalizerNeverBlocks
  BoundGetsLabelled
CHECK_DEADLOCK FALSE
