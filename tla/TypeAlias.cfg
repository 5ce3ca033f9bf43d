SPECIFICATION FairSpec
CONSTANTS
  Monitors = {"a"}
  Ids = {1, 2, 3}
  NoId = NoId
  Names = {"a"}
  Types = {"http", "heartbeat"}
  Dedupe = TRUE
  Confusable = {}
  NameOf <- OwnNames
  Foreign = {}
  NoType = "none"
  Events = {"apply", "type", "crash"}
  Budget = 3
PROPERTY TypeFollowsSpec
CHECK_DEADLOCK FALSE
