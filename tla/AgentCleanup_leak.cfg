SPECIFICATION Spec
CONSTANTS
  Machines = {m1, m2}
  None = None
  MaxReplicas = 1
  MaxVms = 2
  SameNamespace = TRUE
  Kinds = {"scale"}
  MaxDisturbances = 2
INVARIANTS
  GoneTakesVMAlong
