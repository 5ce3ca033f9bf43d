SPECIFICATION FairSpec
CONSTANTS
  Ids = {1, 2, 3, 4}
  NoId = NoId
  Specs = {"s1", "s2"}
  Deps = {"none", "d1"}
  NoDep = "none"
  Confusable = {2}
  Kinds = {"window", "group", "slack"}
  SelfContained = {"s2"}
  Events = {"apply", "spec", "prune", "skip", "delete", "late", "account", "dep", "dashboard", "crash", "k8s", "api"}
  Budget = 2
INVARIANT TypeOK
PROPERTY KeepsLedger EventuallyInSync DeletionCompletes
CHECK_DEADLOCK FALSE
