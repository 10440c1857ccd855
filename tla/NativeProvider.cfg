CONSTANTS
  Models = {m1, m2}
  MaxCalls = 4
  MaxModels = 2
  MaxInits = 4
  MaxNative = 4
  MaxPending = 2
  MaxReloads = 1
  None = None
SPECIFICATION FairSpec
CHECK_DEADLOCK FALSE
INVARIANTS TypeOK NamesReachTheirModel StraysAreDoubled
PROPERTIES CallsSettle
