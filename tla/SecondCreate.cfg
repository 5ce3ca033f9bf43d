SPECIFICATION Spec
CONSTANTS
  Monitors = {"a"}
  Ids = {1, 2, 3}
  NoId = NoId
  Names = {"a"}
  Types = {"http", "heartbeat"}
  Dedupe = TRUE
  Confusable = {}
  NameOf <- OwnNames
  Foreign = {}
  NoType = "none"
  Events = {"apply", "pause"}
  Budget = 3
INVARIANT NoSecondCreate
CHECK_DEADLOCK FALSE
