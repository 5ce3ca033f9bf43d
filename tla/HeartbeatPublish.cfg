SPECIFICATION Spec
CONSTANTS
  Objects <- SomeObjects
  Keys = {"k1", "k2"}
  MonitorIds = {1, 2}
  Forms = {"none", "bare"}
  NoUrl = NoUrl
  None = None
  Budget = 2
INVARIANT TypeOK
PROPERTIES ForeignUntouched EventuallyPublished EventuallyClean
CHECK_DEADLOCK FALSE
