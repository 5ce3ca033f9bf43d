SPECIFICATION Spec
CONSTANTS
  Monitors = {"a"}
  Ids = {1, 2, 3}
  NoId = NoId
  Names = {"a", "dashboard"}
  Types = {"http", "heartbeat"}
  Dedupe = TRUE
  Confusable = {1}
  NameOf <- OwnNames
  Foreign = {1}
  NoType = "none"
  Events = {"apply", "adopt", "api"}
  Budget = 3
PROPERTY RecreatedOnlyWhenGone
CHECK_DEADLOCK FALSE
