SPECIFICATION Spec
CONSTANTS
  Machines = {m1, m2, m3}
  None = None
  MaxReplicas = 3
  MaxVms = 2
  SameNamespace = FALSE
  Kinds <- KeepingKinds
  MaxDisturbances = 2
SYMMETRY MachineSymmetry
INVARIANTS
  GoneTakesVMAlong
  BindingLabelTruthful
PROPERTIES
  NeverBoundKept
CHECK_DEADLOCK FALSE
