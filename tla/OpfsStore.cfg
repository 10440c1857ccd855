CONSTANTS
  Ids = {i1, i2, i3}
  Colliding = {i1, i2}
  MaxCalls = 4
SPECIFICATION Spec
CHECK_DEADLOCK FALSE
INVARIANTS EntriesWereWhole EntriesBacked EntriesKept
