CONSTANTS
  MaxModels = 2
  MaxInits = 3
  MaxNative = 5
  MaxPending = 2
  MaxReloads = 1
  None = None
SPECIFICATION Spec
CHECK_DEADLOCK FALSE
INVARIANTS WrappersBacked HandlesReachTheirOwn CapOnIos
PROPERTIES LeaksAccountedFor
