SPECIFICATION FairSpec
CONSTANTS
  Templates = {t1}
  None = None
  MaxReplicas = 2
  Kinds <- SeeingKinds
  MaxDisturbances = 3
INVARIANTS
  TypeOK
  CountedEmpty
PROPERTIES
  NoVMForGone
  DeletionEnds
CHECK_DEADLOCK FALSE
