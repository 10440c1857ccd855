CONSTANTS
  MaxModels = 2
  MaxInits = 3
  MaxNative = 3
  MaxPending = 1
  MaxReloads = 0
  None = None
SPECIFICATION Spec
CHECK_DEADLOCK FALSE
INVARIANTS HardCap
