SPECIFICATION ConvSpec
CONSTANTS
  Monitors = {"a"}
  Ids = {1, 2, 3}
  NoId = NoId
  Names = {"a"}
  Types = {"http", "heartbeat"}
  Dedupe = TRUE
  Confusable = {1}
  NameOf <- OwnNames
  Foreign = {}
  NoType = "none"
  Events = {"apply", "type", "pause", "prune", "delete", "deps", "crash", "account", "k8s", "api", "dashPause", "dashDelete"}
  Budget = 3
PROPERTY EventuallyConverged DeletionCompletes
CHECK_DEADLOCK FALSE
