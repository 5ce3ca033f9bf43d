SPECIFICATION Spec
CONSTANTS
  AccountNames = {a1, a2}
  ContactNames = {c1}
  Secrets = {s1}
  None = None
  Events = {"account", "contact", "secret", "service", "fault", "crash"}
  Budget = 3
INVARIANTS TypeOK UniqueDefaults
PROPERTIES AccountsSettle ContactsSettle
CHECK_DEADLOCK FALSE
