SPECIFICATION ClaimSpec
CONSTANTS
  Monitors = {"a", "b"}
  Ids = {1, 2}
  NoId = NoId
  Names = {"a", "b"}
  Types = {"http"}
  Dedupe = TRUE
  Confusable = {}
  NameOf <- OwnNames
  Foreign = {}
  NoType = "none"
  Events = {"apply", "adopt", "delete", "crash", "api", "account"}
  Budget = 5
PROPERTY ClaimRespected
CHECK_DEADLOCK FALSE
