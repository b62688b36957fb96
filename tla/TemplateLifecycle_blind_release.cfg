SPECIFICATION Spec
CONSTANTS
  Templates = {t1}
  None = None
  MaxReplicas = 1
  Kinds = {"deleteTemplate", "connect", "crash"}
  MaxDisturbances = 3
INVARIANTS
  GoneLeavesNoVM
CHECK_DEADLOCK FALSE
