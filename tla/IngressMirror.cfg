SPECIFICATION Spec
CONSTANTS
  Namespaces = {n1, n2}
  Events = {"edit", "create", "delete", "monitor", "k8s", "crash"}
  Budget = 2
INVARIANT TypeOK
PROPERTIES UserMonitorUntouched EventuallyMirrored DeletionEnds
CHECK_DEADLOCK FALSE
