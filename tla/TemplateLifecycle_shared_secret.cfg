SPECIFICATION Spec
CONSTANTS
  Templates = {t1, t2}
  None = None
  MaxReplicas = 1
  Kinds = {"deleteTemplate"}
  MaxDisturbances = 1
INVARIANTS
  SecretGuarded
CHECK_DEADLOCK FALSE
