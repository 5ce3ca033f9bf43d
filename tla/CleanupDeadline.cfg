SPECIFICATION Spec
CONSTANTS
  MaxRetries = 2
  BaseDelay = 20
  Jitter = 100
  MaxDelay = 40
  RetryAfters = {0, 90}
  Timeout = 600
  Durations = {40}
  Skew = 160
  Tick = 40
  Budget = 2
  Horizon = 1560
INVARIANTS TypeOK Deadline
PROPERTIES KeepsCall RemovalEarned CleanupEnds
CHECK_DEADLOCK FALSE
