SPECIFICATION Spec
CONSTANTS
  Monitors = {"a"}
  Ids = {1, 2, 3}
  NoId = NoId
  Names = {"a", "dashboard"}
  Types = {"http", "heartbeat"}
  Dedupe = TRUE
  Confusable = {2}
  NameOf <- OwnNames
  Foreign = {1}
  NoType = "none"
  Events = {"apply", "type", "pause", "prune", "adopt", "withdraw", "skip", "delete", "late", "deps", "crash", "account", "k8s", "api", "dashPause", "dashDelete"}
  Budget = 3
INVARIANT TypeOK
PROPERTY RemovalJustified IdKept
CHECK_DEADLOCK FALSE
